-------------------------- MODULE Stage2DMAProofs --------------------------
(***************************************************************************)
(* Proofs of the safety properties of Stage2DMA, for any number of vcpu    *)
(* threads, registers, models and test cases.                              *)
(***************************************************************************)
EXTENDS Stage2DMA, TLAPS

Attaching == {"map", "null", "zero"}

\* What ap_fill_dma_buffer makes of a file of size s.
Rest(s) == IF s < MMIO_SIZE THEN 0 ELSE s - MMIO_SIZE

Known(len) == \E reg \in DOMAIN dma_regs : len = BufferSize(reg)

(* The lock is held by the thread inside its critical section.             *)
Mutex ==
    /\ irq = "feed" <=> lock = "irq"
    /\ \A v \in Vcpus : pc[v] = "record" <=> lock = v

(* Only Main attaches; buffers have the length of a DMA register.          *)
Threads ==
    /\ \A v \in Vcpus : pc[v] \in Attaching => v = Main
    /\ \A v \in Vcpus : pc[v] \in {"lock", "record"} => Known(arg[v].len)
    /\ \A k \in DOMAIN dmasg : Known(dmasg[k].len)

(* Outside of an attachment size and mapping belong together.              *)
InputOK ==
    /\ pc[Main] \notin Attaching =>
          \/ fuzzdata > 0 /\ fuzzdatasize = files[fuzzdata]
          \/ fuzzdata = 0 /\ fuzzdatasize = 0
    /\ pc[Main] = "zero" => fuzzdata = 0

(* The same for the copies of the IRQ thread, unless they were mixed.      *)
CopyOK ==
    /\ irq \in {"flag", "data"} /\ ~mixed =>
          pc[Main] \notin Attaching /\ dma_fuzz_sz = Rest(fuzzdatasize)
    /\ irq \in {"lock", "feed"} /\ ~mixed =>
          \/ base > 0 /\ dma_fuzz_sz = Rest(files[base])
          \/ base = 0 /\ dma_fuzz_sz = 0

(* The loop over the buffers.                                              *)
LoopOK ==
    /\ irq \in {"flag", "data", "lock"} => i = 1 /\ src = {}
    /\ irq = "feed" => i <= Len(dmasg) + 1 /\ src \subseteq 0..dma_fuzz_sz - 1
    /\ WritesInBuffer
    /\ FitsIsFed

IInv == TypeOK /\ Mutex /\ Threads /\ RegionsOnce /\ InputOK /\ CopyOK /\ LoopOK

-----------------------------------------------------------------------------
(* Arithmetic the provers need to be told: exact division, and that          *)
(* multiplication by a natural number is monotone.                           *)
LEMMA Arithmetic ==
    /\ \A a \in Nat, b \in Nat \ {0} :
          a % b = 0 => b * (a \div b) = a /\ a \div b \in Nat
    /\ \A b, j, k \in Nat : j <= k => b * j <= b * k
  BY Z3

(* A field of a model is inside the buffer, in each repetition: every      *)
(* struct is in one of the whole structs that the buffer consists of.      *)
LEMMA OffsetsInBuffer ==
    ASSUME NEW m \in Models, NEW len, Known(len), NEW o \in Offsets(m, len)
    PROVE  o \in Nat /\ o + m.size <= len
<1>1. len \in Nat \ {0} /\ m.struct_len <= len
  BY SizesAssumption, ModelsAssumption DEF Known, BufferSize, SizesAssumption, ModelsAssumption
<1>2. m.struct_len \in Nat \ {0} /\ m.offset \in Nat /\ m.size \in Nat
      /\ m.offset + m.size <= m.struct_len
  BY SizesAssumption, ModelsAssumption DEF SizesAssumption, ModelsAssumption
<1>3. PICK k \in 0..Loops(m, len) - 1 : o = m.offset + m.struct_len * k
  BY DEF Offsets
<1>4. CASE len > m.struct_len /\ len % m.struct_len = 0
  <2>1. Loops(m, len) = len \div m.struct_len
    BY <1>4 DEF Loops
  <2>2. m.struct_len * (len \div m.struct_len) = len /\ len \div m.struct_len \in Nat
    BY <1>1, <1>2, <1>4, Arithmetic, Zenon
  <2>3. k \in Nat /\ k + 1 <= len \div m.struct_len
    BY <1>3, <2>1, <2>2
  <2>4. m.struct_len * (k + 1) <= len
    <3>1. k + 1 \in Nat /\ m.struct_len \in Nat
      BY <1>2, <2>3
    <3>2. m.struct_len * (k + 1) <= m.struct_len * (len \div m.struct_len)
      BY <2>2, <2>3, <3>1, Arithmetic, Zenon
    <3>3. QED
      BY <2>2, <3>2, Zenon
  <2>5. m.struct_len * (k + 1) = m.struct_len * k + m.struct_len /\ m.struct_len * k \in Nat
    BY <1>2, <2>3, Z3
  <2>6. QED
    BY <1>1, <1>2, <1>3, <2>4, <2>5
<1>5. CASE ~(len > m.struct_len /\ len % m.struct_len = 0)
  <2>1. Loops(m, len) = 1
    BY <1>5 DEF Loops
  <2>2. k = 0
    BY <1>3, <2>1
  <2>3. m.struct_len * k = 0
    BY <1>2, <2>2, Z3
  <2>4. QED
    BY <1>1, <1>2, <1>3, <2>3
<1>6. QED
  BY <1>4, <1>5

-----------------------------------------------------------------------------
(* Each thread enters its critical section with the lock and leaves it with *)
(* releasing it.                                                            *)
LEMMA MutexStep == IInv /\ [Next]_vars => Mutex'
<1> SUFFICES ASSUME IInv, [Next]_vars PROVE Mutex'
  OBVIOUS
<1> USE SizesAssumption DEF IInv, TypeOK, Mutex, SizesAssumption
<1>1. CASE \E v \in Vcpus : Capture(v)
  BY <1>1 DEF Capture, fill
<1>2. CASE \E v \in Vcpus : LockDMASG(v)
  BY <1>2 DEF LockDMASG, fill
<1>3. CASE \E v \in Vcpus : Record(v)
  BY <1>3 DEF Record, fill
<1>4. CASE SetSize
  BY <1>4 DEF SetSize, fill
<1>5. CASE MapData
  BY <1>5 DEF MapData, fill
<1>6. CASE SetNull
  BY <1>6 DEF SetNull, fill
<1>7. CASE SetZero
  BY <1>7 DEF SetZero, fill
<1>8. CASE ReadSize
  BY <1>8 DEF ReadSize
<1>9. CASE ReadFlag
  BY <1>9 DEF ReadFlag
<1>10. CASE ReadData
  BY <1>10 DEF ReadData
<1>11. CASE FillLock
  BY <1>11 DEF FillLock
<1>12. CASE Feed
  BY <1>12 DEF Feed
<1>13. CASE FillUnlock
  BY <1>13 DEF FillUnlock
<1>14. CASE UNCHANGED vars
  BY <1>14 DEF vars, regions, input, fill
<1>q. QED
  BY <1>1, <1>2, <1>3, <1>4, <1>5, <1>6, <1>7, <1>8, <1>9, <1>10, <1>11, <1>12, <1>13, <1>14 DEF Next, Attach, Irq

(* An attachment ends with a size and a mapping that belong together.       *)
LEMMA InputStep == IInv /\ [Next]_vars => InputOK'
<1> SUFFICES ASSUME IInv, [Next]_vars PROVE InputOK'
  OBVIOUS
<1> USE SizesAssumption DEF IInv, TypeOK, Threads, InputOK, SizesAssumption, Attaching
<1>1. CASE \E v \in Vcpus : Capture(v)
  BY <1>1 DEF Capture, input
<1>2. CASE \E v \in Vcpus : LockDMASG(v)
  BY <1>2 DEF LockDMASG, input
<1>3. CASE \E v \in Vcpus : Record(v)
  BY <1>3 DEF Record, input
<1>4. CASE SetSize
  BY <1>4 DEF SetSize, input
<1>5. CASE MapData
  BY <1>5 DEF MapData, input
<1>6. CASE SetNull
  BY <1>6 DEF SetNull, input
<1>7. CASE SetZero
  BY <1>7 DEF SetZero, input
<1>8. CASE ReadSize
  BY <1>8 DEF ReadSize, input
<1>9. CASE ReadFlag
  BY <1>9 DEF ReadFlag, input
<1>10. CASE ReadData
  BY <1>10 DEF ReadData, input
<1>11. CASE FillLock
  BY <1>11 DEF FillLock, input
<1>12. CASE Feed
  BY <1>12 DEF Feed, input
<1>13. CASE FillUnlock
  BY <1>13 DEF FillUnlock, input
<1>14. CASE UNCHANGED vars
  <2>1. UNCHANGED <<pc, fuzzdata, fuzzdatasize, files>>
    BY <1>14, Zenon DEF vars, input
  <2>2. QED
    BY <2>1, Zenon
<1>q. QED
  BY <1>1, <1>2, <1>3, <1>4, <1>5, <1>6, <1>7, <1>8, <1>9, <1>10, <1>11, <1>12, <1>13, <1>14 DEF Next, Attach, Irq

(* Copies taken outside of an attachment belong together.                   *)
LEMMA CopyStep == IInv /\ [Next]_vars => CopyOK'
<1> SUFFICES ASSUME IInv, [Next]_vars PROVE CopyOK'
  OBVIOUS
<1>0. MapData => \A k \in 1..Len(files) : files'[k] = files[k]
  <2>1. files \in Seq(Nat \ {0}) /\ fuzzdatasize \in Nat \cup {-1}
    BY DEF IInv, TypeOK
  <2>2. MapData => files' = files \/ (fuzzdatasize > 0 /\ files' = Append(files, fuzzdatasize))
    BY DEF MapData
  <2>3. QED
    BY <2>1, <2>2, SMTT(20)
<1> USE SizesAssumption DEF IInv, TypeOK, Threads, InputOK, CopyOK, SizesAssumption, Attaching, Rest
<1>1. CASE \E v \in Vcpus : Capture(v)
  BY <1>1 DEF Capture, input, fill
<1>2. CASE \E v \in Vcpus : LockDMASG(v)
  BY <1>2 DEF LockDMASG, input, fill
<1>3. CASE \E v \in Vcpus : Record(v)
  BY <1>3 DEF Record, input, fill
<1>4. CASE SetSize
  BY <1>4, Zenon DEF SetSize, input, fill
<1>5. CASE MapData
  <2>1. \A k \in 1..Len(files) : files'[k] = files[k]
    BY <1>0, <1>5
  <2>2. pc[Main] \in Attaching
    BY <1>5 DEF MapData
  <2>3. UNCHANGED <<irq, mixed, dma_fuzz_sz, base>>
    BY <1>5 DEF MapData, fill
  <2>4. QED
    BY <2>1, <2>2, <2>3
<1>6. CASE SetNull
  BY <1>6 DEF SetNull, input, fill
<1>7. CASE SetZero
  BY <1>7 DEF SetZero, input, fill
<1>8. CASE ReadSize
  BY <1>8, Zenon DEF ReadSize, input, fill
<1>9. CASE ReadFlag
  BY <1>9 DEF ReadFlag, input, fill
<1>10. CASE ReadData
  <2>1. /\ irq = "data" /\ irq' = "lock" /\ base' = fuzzdata
        /\ UNCHANGED <<mixed, dma_fuzz_sz, files>>
    BY <1>10 DEF ReadData, input
  <2>2. QED
    BY <2>1, SMTT(20)
<1>11. CASE FillLock
  BY <1>11 DEF FillLock, input, fill
<1>12. CASE Feed
  BY <1>12 DEF Feed, input, fill
<1>13. CASE FillUnlock
  BY <1>13 DEF FillUnlock, input, fill
<1>14. CASE UNCHANGED vars
  BY <1>14 DEF vars, regions, input, fill, input, fill
<1>q. QED
  BY <1>1, <1>2, <1>3, <1>4, <1>5, <1>6, <1>7, <1>8, <1>9, <1>10, <1>11, <1>12, <1>13, <1>14 DEF Next, Attach, Irq

\* What recording does to the list: nothing, or it appends the buffer.
Recorded(v) ==
    /\ arg[v] \in Region
    /\ dma_starts' = dma_starts \cup {arg[v].addr}
    /\ \/ arg[v].addr \in dma_starts /\ dmasg' = dmasg /\ level1_dmas' = level1_dmas
       \/ /\ arg[v].addr \notin dma_starts
          /\ dmasg' = Append(dmasg, arg[v])
          /\ level1_dmas' = Append(level1_dmas, arg[v])

(* Recording keeps the list free of duplicates, since the set of pages is    *)
(* that of the list, and appends a buffer of the length of its register.     *)
LEMMA RecordKeeps ==
    ASSUME IInv, NEW v \in Vcpus, Record(v)
    PROVE  /\ RegionsOnce' /\ Threads'
           /\ dmasg' \in Seq(Region) /\ level1_dmas' \in Seq(Region) /\ dma_starts' \subseteq Nat
<1>1. /\ RegionsOnce /\ Threads
      /\ arg[v] \in Region /\ dmasg \in Seq(Region) /\ level1_dmas \in Seq(Region)
      /\ dma_starts \subseteq Nat
      /\ pc \in [Vcpus -> {"run", "lock", "record", "map", "null", "zero"}]
  BY DEF IInv, TypeOK
<1>2. arg[v].addr \in Nat
  BY <1>1 DEF Region
<1>3. Recorded(v)
  <2>1. \A s \in Seq(Region) : s \o <<>> = s /\ s \o <<arg[v]>> = Append(s, arg[v])
    BY <1>1
  <2>2. QED
    BY <1>1, <2>1 DEF Record, Recorded
<1>4. RegionsOnce'
  <2>1. CASE arg[v].addr \in dma_starts
    <3>1. dma_starts' = dma_starts /\ dmasg' = dmasg /\ level1_dmas' = level1_dmas
      BY <1>3, <2>1 DEF Recorded
    <3>2. QED
      BY <1>1, <3>1 DEF RegionsOnce
  <2>2. CASE arg[v].addr \notin dma_starts
    <3>1. /\ dmasg' = Append(dmasg, arg[v]) /\ level1_dmas' = dmasg'
          /\ dma_starts' = {dmasg[k].addr : k \in DOMAIN dmasg} \cup {arg[v].addr}
      BY <1>1, <1>3, <2>2 DEF Recorded, RegionsOnce
    <3>2. /\ DOMAIN dmasg' = DOMAIN dmasg \cup {Len(dmasg) + 1}
          /\ dmasg'[Len(dmasg) + 1] = arg[v]
          /\ \A k \in DOMAIN dmasg : dmasg'[k] = dmasg[k] /\ k # Len(dmasg) + 1
      BY <1>1, <3>1
    <3>3. \A k \in DOMAIN dmasg : dmasg[k].addr # arg[v].addr
      BY <1>1, <2>2 DEF RegionsOnce
    <3>4. dma_starts' = {dmasg'[k].addr : k \in DOMAIN dmasg'}
      BY <3>1, <3>2
    <3>5. \A j, k \in DOMAIN dmasg' : dmasg'[j].addr = dmasg'[k].addr => j = k
      BY <1>1, <3>2, <3>3 DEF RegionsOnce
    <3>6. QED
      BY <3>1, <3>4, <3>5 DEF RegionsOnce
  <2>3. QED
    BY <2>1, <2>2
<1>5. Threads'
  <2>1. pc[v] = "record" /\ pc' = [pc EXCEPT ![v] = "run"] /\ arg' = arg
    BY DEF Record
  <2>2. Known(arg[v].len) /\ \A k \in DOMAIN dmasg : Known(dmasg[k].len)
    BY <1>1, <2>1 DEF Threads
  <2>3. \A k \in DOMAIN dmasg' : Known(dmasg'[k].len)
    <3>1. CASE dmasg' = dmasg
      BY <2>2, <3>1
    <3>2. CASE dmasg' = Append(dmasg, arg[v])
      <4>1. \A k \in DOMAIN dmasg' : \/ dmasg'[k] = arg[v]
                                     \/ k \in DOMAIN dmasg /\ dmasg'[k] = dmasg[k]
        BY <1>1, <3>2
      <4>2. QED
        BY <2>2, <4>1
    <3>3. QED
      BY <1>3, <3>1, <3>2 DEF Recorded
  <2>4. QED
    BY <1>1, <2>1, <2>3 DEF Threads, Attaching, Known
<1>6. dma_starts' \subseteq Nat
  BY <1>1, <1>2, <1>3, Zenon DEF Recorded
<1>7. dmasg' \in Seq(Region) /\ level1_dmas' \in Seq(Region)
  <2>1. Append(dmasg, arg[v]) \in Seq(Region) /\ Append(level1_dmas, arg[v]) \in Seq(Region)
    BY <1>1
  <2>2. QED
    BY <1>1, <1>3, <2>1, Zenon DEF Recorded
<1>8. QED
  BY <1>4, <1>5, <1>6, <1>7

(* The lookup and the recording of a page are under one lock.               *)
LEMMA RegionsStep == IInv /\ [Next]_vars => RegionsOnce'
<1> SUFFICES ASSUME IInv, [Next]_vars PROVE RegionsOnce'
  OBVIOUS
<1>0. \A v \in Vcpus : Record(v) => RegionsOnce'
  BY RecordKeeps
<1> USE SizesAssumption DEF IInv, TypeOK, RegionsOnce, SizesAssumption
<1>1. CASE \E v \in Vcpus : Capture(v)
  BY <1>1 DEF Capture, regions
<1>2. CASE \E v \in Vcpus : LockDMASG(v)
  BY <1>2 DEF LockDMASG, regions
<1>3. CASE \E v \in Vcpus : Record(v)
  BY <1>0, <1>3
<1>4. CASE SetSize
  BY <1>4 DEF SetSize, regions
<1>5. CASE MapData
  BY <1>5 DEF MapData, regions
<1>6. CASE SetNull
  BY <1>6 DEF SetNull, regions
<1>7. CASE SetZero
  BY <1>7 DEF SetZero, regions
<1>8. CASE ReadSize
  BY <1>8 DEF ReadSize, regions
<1>9. CASE ReadFlag
  BY <1>9 DEF ReadFlag, regions
<1>10. CASE ReadData
  BY <1>10 DEF ReadData, regions
<1>11. CASE FillLock
  BY <1>11 DEF FillLock, regions
<1>12. CASE Feed
  BY <1>12 DEF Feed, regions
<1>13. CASE FillUnlock
  BY <1>13 DEF FillUnlock, regions
<1>14. CASE UNCHANGED vars
  <2>1. UNCHANGED <<dma_starts, level1_dmas, dmasg>>
    BY <1>14 DEF vars, regions
  <2>2. QED
    BY <2>1
<1>q. QED
  BY <1>1, <1>2, <1>3, <1>4, <1>5, <1>6, <1>7, <1>8, <1>9, <1>10, <1>11, <1>12, <1>13, <1>14 DEF Next, Attach, Irq

(* Recorded lengths are those of the registers.                             *)
LEMMA ThreadsStep == IInv /\ [Next]_vars => Threads'
<1> SUFFICES ASSUME IInv, [Next]_vars PROVE Threads'
  OBVIOUS
<1>0. \A v \in Vcpus : Record(v) => Threads'
  BY RecordKeeps
<1> USE SizesAssumption DEF IInv, TypeOK, Threads, Known, SizesAssumption, Attaching
<1>1. CASE \E v \in Vcpus : Capture(v)
  BY <1>1 DEF Capture, regions
<1>2. CASE \E v \in Vcpus : LockDMASG(v)
  BY <1>2 DEF LockDMASG, regions
<1>3. CASE \E v \in Vcpus : Record(v)
  BY <1>0, <1>3
<1>4. CASE SetSize
  BY <1>4 DEF SetSize, regions
<1>5. CASE MapData
  BY <1>5, Zenon DEF MapData, regions
<1>6. CASE SetNull
  BY <1>6 DEF SetNull, regions
<1>7. CASE SetZero
  BY <1>7 DEF SetZero, regions
<1>8. CASE ReadSize
  BY <1>8 DEF ReadSize, regions
<1>9. CASE ReadFlag
  BY <1>9 DEF ReadFlag, regions
<1>10. CASE ReadData
  BY <1>10 DEF ReadData, regions
<1>11. CASE FillLock
  BY <1>11 DEF FillLock, regions
<1>12. CASE Feed
  BY <1>12 DEF Feed, regions
<1>13. CASE FillUnlock
  BY <1>13 DEF FillUnlock, regions
<1>14. CASE UNCHANGED vars
  BY <1>14 DEF vars, regions, input, fill, regions
<1>q. QED
  BY <1>1, <1>2, <1>3, <1>4, <1>5, <1>6, <1>7, <1>8, <1>9, <1>10, <1>11, <1>12, <1>13, <1>14, Zenon DEF Next, Attach, Irq

(* Facts about the buffer that Feed is at.                                  *)
LEMMA FeedEffect ==
    ASSUME IInv, Feed
    PROVE  LoopOK' /\ src' \subseteq Int /\ dst' \subseteq Int /\ fed' \subseteq Nat /\ dma_data' \in Nat
<1> DEFINE r == dmasg[i]
           from == Wrapped(r.len)
           fits == from + r.len <= dma_fuzz_sz
           offs == UNION {Offsets(m, r.len) : m \in Models}
           fields == UNION {UNION {o..o + m.size - 1 : o \in Offsets(m, r.len)} : m \in Models}
<1>1. /\ i \in DOMAIN dmasg /\ i \in Nat \ {0} /\ irq = "feed" /\ dmasg \in Seq(Region)
      /\ dma_fuzz_sz \in Nat /\ dma_data \in Nat /\ fed \subseteq Nat
  BY DEF IInv, TypeOK, Feed
<1>2. r \in Region /\ r.len \in Nat \ {0} /\ r.addr \in Nat /\ Known(r.len)
  <2>1. r \in Region
    BY <1>1
  <2>2. Known(r.len)
    BY <1>1 DEF IInv, Threads
  <2>3. QED
    BY <2>1, <2>2 DEF Region
<1>3. /\ src' = IF fits THEN from..from + r.len - 1 \cup {from + o : o \in offs} ELSE {}
      /\ dst' = (IF fits THEN 0..r.len - 1 ELSE {}) \cup fields
      /\ fed' = IF fits THEN fed \cup {r.addr} ELSE fed
      /\ dma_data' = from + r.len
      /\ i' = i + 1 /\ UNCHANGED <<dmasg, irq, dma_fuzz_sz>>
  BY DEF Feed, regions
<1>4. from \in Nat /\ (r.len <= dma_fuzz_sz => fits)
  BY <1>1, <1>2 DEF Wrapped
<1>5. \A o \in offs : o \in Nat /\ o < r.len
  <2>1. SUFFICES ASSUME NEW m \in Models, NEW o \in Offsets(m, r.len)
                 PROVE  o \in Nat /\ o < r.len
    OBVIOUS
  <2>2. o \in Nat /\ o + m.size <= r.len
    BY <1>2, OffsetsInBuffer
  <2>3. m.size \in Nat /\ m.size > 0
    BY SizesAssumption, ModelsAssumption DEF SizesAssumption, ModelsAssumption
  <2>4. QED
    BY <1>2, <2>2, <2>3
<1>6. fields \subseteq 0..r.len - 1
  <2>1. SUFFICES ASSUME NEW m \in Models, NEW o \in Offsets(m, r.len), NEW b \in o..o + m.size - 1
                 PROVE  b \in 0..r.len - 1
    OBVIOUS
  <2>2. o \in Nat /\ o + m.size <= r.len
    BY <1>2, OffsetsInBuffer
  <2>3. m.size \in Nat
    BY SizesAssumption DEF SizesAssumption
  <2>4. QED
    BY <1>2, <2>2, <2>3
<1> HIDE DEF r, from, offs, fields
<1>7. src' \subseteq 0..dma_fuzz_sz - 1
  <2>1. CASE ~fits
    BY <1>3, <2>1
  <2>2. CASE fits
    <3>1. from..from + r.len - 1 \subseteq 0..dma_fuzz_sz - 1
      BY <1>1, <1>2, <1>4, <2>2
    <3>2. \A o \in offs : from + o \in 0..dma_fuzz_sz - 1
      BY <1>1, <1>2, <1>4, <1>5, <2>2
    <3>3. QED
      BY <1>3, <2>2, <3>1, <3>2
  <2>3. QED
    BY <2>1, <2>2
<1>8. dst' \subseteq 0..r.len - 1
  BY <1>3, <1>6, Zenon
<1>9. fed' \subseteq Nat /\ dma_data' \in Nat /\ src' \subseteq Int /\ dst' \subseteq Int
  <2>1. fed' \subseteq Nat
    BY <1>1, <1>2, <1>3, Zenon
  <2>2. dma_data' \in Nat
    BY <1>2, <1>3, <1>4
  <2>3. src' \subseteq Int /\ dst' \subseteq Int
    BY <1>7, <1>8
  <2>4. QED
    BY <2>1, <2>2, <2>3
<1>10. WritesInBuffer'
  BY <1>1, <1>3, <1>8 DEF WritesInBuffer, r
<1>11. FitsIsFed'
  <2>1. SUFFICES ASSUME NEW k \in 1..i, dmasg[k].len <= dma_fuzz_sz
                 PROVE  dmasg[k].addr \in fed'
    BY <1>1, <1>3 DEF FitsIsFed
  <2>2. CASE k = i
    BY <1>3, <1>4, <2>1, <2>2 DEF r
  <2>3. CASE k \in 1..i - 1
    BY <1>1, <1>3, <2>1, <2>3 DEF IInv, LoopOK, FitsIsFed
  <2>4. QED
    BY <1>1, <2>2, <2>3
<1>12. i' <= Len(dmasg') + 1
  <2>1. i <= Len(dmasg) /\ Len(dmasg) \in Nat
    BY <1>1
  <2>2. QED
    BY <1>1, <1>3, <2>1
<1>13. QED
  BY <1>1, <1>3, <1>7, <1>9, <1>10, <1>11, <1>12 DEF LoopOK

(* The loop fills each buffer in its bounds, from the bounds of the input.  *)
LEMMA LoopStep == IInv /\ [Next]_vars => LoopOK'
<1> SUFFICES ASSUME IInv, [Next]_vars PROVE LoopOK'
  OBVIOUS
<1>0. Feed => LoopOK'
  BY FeedEffect
<1> USE SizesAssumption DEF IInv, TypeOK, Mutex, LoopOK, WritesInBuffer, FitsIsFed, SizesAssumption
<1>1. CASE \E v \in Vcpus : Capture(v)
  BY <1>1 DEF Capture, fill, regions
<1>2. CASE \E v \in Vcpus : LockDMASG(v)
  BY <1>2 DEF LockDMASG, fill, regions
<1>3. CASE \E v \in Vcpus : Record(v)
  BY <1>3 DEF Record, fill, regions
<1>4. CASE SetSize
  BY <1>4 DEF SetSize, fill, regions
<1>5. CASE MapData
  BY <1>5 DEF MapData, fill, regions
<1>6. CASE SetNull
  BY <1>6 DEF SetNull, fill, regions
<1>7. CASE SetZero
  BY <1>7 DEF SetZero, fill, regions
<1>8. CASE ReadSize
  BY <1>8 DEF ReadSize, fill, regions
<1>9. CASE ReadFlag
  BY <1>9 DEF ReadFlag, fill, regions
<1>10. CASE ReadData
  BY <1>10 DEF ReadData, fill, regions
<1>11. CASE FillLock
  BY <1>11 DEF FillLock, fill, regions
<1>12. CASE Feed
  BY <1>0, <1>12
<1>13. CASE FillUnlock
  BY <1>13 DEF FillUnlock, fill, regions
<1>14. CASE UNCHANGED vars
  <2>1. UNCHANGED <<irq, dmasg, i, src, dst, fed, dma_fuzz_sz>>
    BY <1>14 DEF vars, regions, fill
  <2>2. QED
    BY <2>1, Zenon
<1>q. QED
  BY <1>1, <1>2, <1>3, <1>4, <1>5, <1>6, <1>7, <1>8, <1>9, <1>10, <1>11, <1>12, <1>13, <1>14, Zenon DEF Next, Attach, Irq

(* Types.                                                                   *)
LEMMA TypeStep == IInv /\ [Next]_vars => TypeOK'
<1> SUFFICES ASSUME IInv, [Next]_vars PROVE TypeOK'
  OBVIOUS
<1>0. Feed => src' \subseteq Int /\ dst' \subseteq Int /\ fed' \subseteq Nat /\ dma_data' \in Nat
  BY FeedEffect
<1>01. \A value \in Values : PageAligned(value) \in Nat
  BY SizesAssumption, Z3 DEF PageAligned, SizesAssumption
<1>02. \A reg \in DOMAIN dma_regs : BufferSize(reg) \in Nat \ {0}
  BY SizesAssumption DEF BufferSize, SizesAssumption
<1>03. \A v \in Vcpus : Record(v) =>
         dmasg' \in Seq(Region) /\ level1_dmas' \in Seq(Region) /\ dma_starts' \subseteq Nat
  BY RecordKeeps
<1>04. MapData => files' \in Seq(Nat \ {0}) /\ fuzzdata' \in -1..Len(files') /\ Len(files') >= Len(files)
  <2>1. files \in Seq(Nat \ {0}) /\ fuzzdatasize \in Nat \cup {-1}
    BY DEF IInv, TypeOK
  <2>2. MapData => \/ files' = files /\ fuzzdata' = -1
                   \/ fuzzdatasize > 0 /\ files' = Append(files, fuzzdatasize) /\ fuzzdata' = Len(files')
    BY DEF MapData
  <2>3. CASE files' = files /\ fuzzdata' = -1
    BY <2>1, <2>3
  <2>4. CASE fuzzdatasize > 0 /\ files' = Append(files, fuzzdatasize) /\ fuzzdata' = Len(files')
    <3>1. files' \in Seq(Nat \ {0}) /\ Len(files') = Len(files) + 1 /\ Len(files) \in Nat
      BY <2>1, <2>4
    <3>2. QED
      BY <2>4, <3>1
  <2>5. QED
    BY <2>2, <2>3, <2>4
<1> USE SizesAssumption DEF IInv, TypeOK, Region, SizesAssumption
<1>1. CASE \E v \in Vcpus : Capture(v)
  <2>1. PICK v \in Vcpus : Capture(v)
    BY <1>1
  <2>2. PICK reg \in DOMAIN dma_regs, value \in Values :
          arg' = [arg EXCEPT ![v] = [addr |-> PageAligned(value), len |-> BufferSize(reg)]]
    BY <2>1, Zenon DEF Capture
  <2>3. [addr |-> PageAligned(value), len |-> BufferSize(reg)] \in Region
    BY <1>01, <1>02
  <2>4. arg' \in [Vcpus -> Region]
    BY <2>2, <2>3, Zenon
  <2>5. /\ level1_dma_set' = TRUE /\ pc' = [pc EXCEPT ![v] = "lock"]
        /\ UNCHANGED <<regions, lock, input, fill, mixed>>
    BY <2>1 DEF Capture
  <2>6. QED
    BY <2>4, <2>5, Zenon DEF fill, regions, input
<1>2. CASE \E v \in Vcpus : LockDMASG(v)
  BY <1>2 DEF LockDMASG, fill, regions, input
<1>3. CASE \E v \in Vcpus : Record(v)
  BY <1>03, <1>3, Zenon DEF Record, fill, regions, input
<1>4. CASE SetSize
  BY <1>4 DEF SetSize, fill, regions, input
<1>5. CASE MapData
  <2>1. /\ pc' = [pc EXCEPT ![Main] = "run"] \/ pc' = [pc EXCEPT ![Main] = "null"]
        /\ UNCHANGED <<level1_dma_set, regions, lock, arg, fuzzdatasize, fill, mixed>>
    BY <1>5 DEF MapData
  <2>2. base' \in -1..Len(files')
    BY <1>04, <1>5, <2>1 DEF fill
  <2>3. QED
    BY <1>04, <1>5, <2>1, <2>2, Zenon DEF fill, regions
<1>6. CASE SetNull
  BY <1>6 DEF SetNull, fill, regions, input
<1>7. CASE SetZero
  BY <1>7 DEF SetZero, fill, regions, input
<1>8. CASE ReadSize
  BY <1>8 DEF ReadSize, fill, regions, input
<1>9. CASE ReadFlag
  BY <1>9 DEF ReadFlag, fill, regions, input
<1>10. CASE ReadData
  BY <1>10 DEF ReadData, fill, regions, input
<1>11. CASE FillLock
  BY <1>11 DEF FillLock, fill, regions, input
<1>12. CASE Feed
  <2>1. i' \in Nat \ {0}
    BY <1>12 DEF Feed
  <2>2. UNCHANGED <<level1_dma_set, regions, lock, pc, arg, input, irq, dma_fuzz_sz, base, mixed>>
    BY <1>12 DEF Feed
  <2>3. QED
    BY <1>0, <1>12, <2>1, <2>2, Zenon DEF regions, input
<1>13. CASE FillUnlock
  BY <1>13 DEF FillUnlock, fill, regions, input
<1>14. CASE UNCHANGED vars
  BY <1>14 DEF vars, regions, input, fill
<1>q. QED
  BY <1>1, <1>2, <1>3, <1>4, <1>5, <1>6, <1>7, <1>8, <1>9, <1>10, <1>11, <1>12, <1>13, <1>14, Zenon DEF Next, Attach, Irq

-----------------------------------------------------------------------------
(* IInv is inductive, and implies that a fill reads inside the file.         *)
LEMMA Inductive ==
    /\ Init => IInv
    /\ IInv /\ [Next]_vars => IInv'
    /\ IInv => ReadsInFile
<1>1. Init => IInv
  <2> SUFFICES ASSUME Init PROVE IInv
    OBVIOUS
  <2> USE SizesAssumption DEF Init, SizesAssumption
  <2>1. TypeOK
    <3>1. [addr |-> 0, len |-> 1] \in Region
      BY DEF Region
    <3>2. arg \in [Vcpus -> Region]
      BY <3>1, Zenon
    <3>3. <<>> \in Seq(Region) /\ <<>> \in Seq(Nat \ {0}) /\ 0 \in -1..Len(<<>>)
      OBVIOUS
    <3>4. pc \in [Vcpus -> {"run", "lock", "record", "map", "null", "zero"}]
      BY Zenon
    <3>5. /\ 0 \in Nat /\ 0 \in Nat \cup {-1} /\ 1 \in Nat \ {0}
          /\ {} \subseteq Int /\ {} \subseteq Nat
      OBVIOUS
    <3>6. QED
      BY <3>2, <3>3, <3>4, <3>5, Zenon DEF TypeOK
  <2>2. Mutex
    BY DEF Mutex
  <2>3. Threads /\ RegionsOnce
    BY DEF Threads, RegionsOnce, Attaching
  <2>4. InputOK /\ CopyOK /\ LoopOK
    BY DEF InputOK, CopyOK, LoopOK, WritesInBuffer, FitsIsFed, Attaching
  <2>5. QED
    BY <2>1, <2>2, <2>3, <2>4 DEF IInv
<1>2. IInv /\ [Next]_vars => IInv'
  BY TypeStep, MutexStep, ThreadsStep, RegionsStep, InputStep, CopyStep, LoopStep DEF IInv
<1>3. IInv => ReadsInFile
  <2> SUFFICES ASSUME IInv, irq = "feed", ~mixed, src # {}
               PROVE  base > 0 /\ \A o \in src : o >= 0 /\ MMIO_SIZE + o < files[base]
    BY DEF ReadsInFile
  <2>1. src \subseteq 0..dma_fuzz_sz - 1 /\ dma_fuzz_sz \in Nat
    BY DEF IInv, LoopOK, TypeOK
  <2>2. dma_fuzz_sz # 0
    <3>1. PICK o \in src : TRUE
      OBVIOUS
    <3>2. QED
      BY <2>1, <3>1
  <2>3. base > 0 /\ dma_fuzz_sz = Rest(files[base])
    BY <2>2 DEF IInv, CopyOK
  <2>4. files[base] \in Nat
    BY <2>3 DEF IInv, TypeOK
  <2>5. dma_fuzz_sz = files[base] - MMIO_SIZE
    BY <2>2, <2>3 DEF Rest
  <2>6. QED
    BY <2>1, <2>3, <2>4, <2>5, SizesAssumption DEF SizesAssumption
<1>4. QED
  BY <1>1, <1>2, <1>3

(* captureDMARegistration records every page once.                           *)
THEOREM BuffersOnce == Spec => []RegionsOnce
<1>1. IInv => RegionsOnce
  BY DEF IInv
<1>2. QED
  BY <1>1, Inductive, PTL DEF Spec

(* The list of buffers does not change while the IRQ thread iterates over    *)
(* it.                                                                       *)
THEOREM ListOfBuffers == Spec => ListStable
<1>1. IInv /\ [Next]_vars => [irq = "feed" => dmasg' = dmasg]_vars
  <2> SUFFICES ASSUME IInv, Next, irq = "feed" PROVE dmasg' = dmasg
    OBVIOUS
  <2>1. ASSUME NEW v \in Vcpus PROVE ~Record(v)
    BY SizesAssumption DEF IInv, Mutex, Record, SizesAssumption
  <2>2. QED
    BY <2>1, Zenon DEF Next, Attach, Irq, Capture, LockDMASG, SetSize, MapData, SetNull, SetZero,
       ReadSize, ReadFlag, ReadData, FillLock, Feed, FillUnlock, regions
<1>2. QED
  BY <1>1, Inductive, PTL DEF Spec, ListStable

(* feedFuzzDMAData writes inside the buffers.                                *)
THEOREM SafeFills == Spec => []WritesInBuffer
<1>1. IInv => WritesInBuffer
  BY DEF IInv, LoopOK
<1>2. QED
  BY <1>1, Inductive, PTL DEF Spec

(* feedFuzzDMAData reads inside the input, unless an attachment came in      *)
(* between.                                                                  *)
THEOREM SafeReads == Spec => []ReadsInFile
  BY Inductive, PTL DEF Spec

(* feedFuzzDMAData starves no buffer that the input is long enough for.      *)
THEOREM NoBufferStarved == Spec => []FitsIsFed
<1>1. IInv => FitsIsFed
  BY DEF IInv, LoopOK
<1>2. QED
  BY <1>1, Inductive, PTL DEF Spec
=============================================================================
