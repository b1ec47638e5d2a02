---------------------------- MODULE PTRingProofs ----------------------------
(***************************************************************************)
(* Proofs about the collection of PT data in PTRing, for rings of any size *)
(* and traces of any length.                                               *)
(***************************************************************************)
EXTENDS PTRing, TLAPS

(* Up to which record check_buffer has returned the space, and up to which *)
(* record it has handled or passed over all.                               *)
Done == IF pc = "next" THEN tail + 1 ELSE IF InPass THEN tail ELSE data_tail
Seen == IF InPass THEN tail ELSE data_tail

(* Where the stretch of the n-th record ends.                              *)
End(n) == IF n = 0 THEN 0 ELSE ring[n].offset + ring[n].size

(* The ends of the AUX ring in their order: the thread's, the kernel's,    *)
(* the processor's, and the limit given to it when the event was started.  *)
Positions ==
    /\ aux_tail <= start /\ start <= aux_head /\ aux_head <= hw
    /\ hw <= limit /\ limit <= aux_tail + AuxSize
    /\ IF closing THEN aux_head = hw ELSE start = aux_head
    /\ closing => enabled \/ Ended

(* The records speak of stretches that follow each other.                  *)
Records ==
    /\ \A i \in 1..Len(ring) : ring[i].offset + ring[i].size <= start
    /\ \A i, j \in 1..Len(ring) :
          i < j => ring[i].offset + ring[i].size <= ring[j].offset
    /\ \A i \in 1..Len(ring) : ring[i].type # "AUX" => ring[i].size = 0
    /\ \A i \in 1..Len(ring) : ring[i].type = "LOST" => overrun
    /\ lost => overrun

(* A pass of check_buffer goes over records that are there, those beyond   *)
(* its snapshot are late, and the space of those ahead is not returned.    *)
Pass ==
    /\ data_tail <= Len(ring)
    /\ InPass => /\ data_tail <= tail /\ tail <= head /\ head <= Len(ring)
                 /\ \A i \in 1..Len(ring) : head < i => ring[i].late
    /\ pc \in {"copy", "advance", "next"} => tail < head
    /\ pc \in {"copy", "advance"} => Current.type = "AUX"
    /\ ~Ended => \A i \in 1..Len(ring) : Done < i => aux_tail <= ring[i].offset

(* The event is off only before the start, or for want of space.           *)
On ==
    /\ pc = "open" => ring = <<>> /\ ~enabled /\ ~closing
    /\ pc = "poll" /\ ring # <<>> => enabled \/ hw >= aux_tail + AuxSize

Handled ==
    /\ \A i, j \in 1..Len(handled) : i < j => handled[i] < handled[j]
    /\ ~Ended => \A i \in 1..Len(handled) : handled[i] <= Seen
    /\ \A i \in 1..Seen : ring[i].late \/ \E j \in 1..Len(handled) : handled[j] = i

Space ==
    ~Ended /\ ~overrun /\ (\A i \in 1..Len(ring) : ~ring[i].late) =>
        /\ \A i \in 1..Len(ring) : ring[i].offset = End(i - 1)
        /\ start = End(Len(ring))
        /\ aux_tail = End(Done)

(* The AUX ring holds the last AuxSize bytes, and the copy is right so far. *)
Bytes ==
    /\ \A p \in Nat : p < hw /\ hw <= p + AuxSize => aux[p % AuxSize] = p
    /\ pc \in {"copy", "advance"} =>
          /\ Len(copied) <= Current.size
          /\ \A i \in 1..Len(copied) : copied[i] = Current.offset + i - 1
    /\ pc = "advance" => Len(copied) = Current.size

Control == Positions /\ Records /\ Pass /\ On /\ AbortsOnlyOnOverrun

IInv == TypeOK /\ Control /\ Handled /\ Space /\ Bytes

-----------------------------------------------------------------------------
(* Positions less than a ring apart have different places in it, and the   *)
(* two parts of the copy by PerfAuxBuffer read the places of the stretch.  *)
LEMMA Modular ==
    /\ \A p \in Nat : (p % AuxSize) \in 0..AuxSize - 1
    /\ \A p, q \in Nat : p < q /\ q < p + AuxSize => (p % AuxSize) # (q % AuxSize)
    /\ \A p, n, i \in Nat :
          i < n /\ n <= AuxSize => AuxIndex(p, n, i) = ((p + i) % AuxSize)
<1>1. AuxSize \in Nat /\ AuxSize > 0
  BY SizesAssumption DEF SizesAssumption
<1>2. \A p \in Nat : (p % AuxSize) \in 0..AuxSize - 1
  BY <1>1
<1> DEFINE Quotient(p) == p \div AuxSize
<1>3. ASSUME NEW p \in Nat
      PROVE  Quotient(p) \in Nat /\ p = AuxSize * Quotient(p) + (p % AuxSize)
  BY <1>1, Z3
<1>4. ASSUME NEW a \in Int
      PROVE  a >= 1 => AuxSize * a >= AuxSize
  BY <1>1, Z3
<1>5. ASSUME NEW a \in Int
      PROVE  a <= 0 => AuxSize * a <= 0
  BY <1>1, Z3
<1>6. ASSUME NEW a \in Int, NEW b \in Int
      PROVE  /\ AuxSize * (b - a) = AuxSize * b - AuxSize * a
             /\ AuxSize * a \in Int /\ AuxSize * b \in Int
  BY <1>1, Z3
<1> HIDE DEF Quotient
<1>7. ASSUME NEW p \in Nat, NEW q \in Nat, p < q, q < p + AuxSize
      PROVE  (p % AuxSize) # (q % AuxSize)
  <2>1. SUFFICES ASSUME p % AuxSize = (q % AuxSize) PROVE FALSE
    OBVIOUS
  <2>2. q - p = AuxSize * (Quotient(q) - Quotient(p))
    <3>1. Quotient(p) \in Int /\ Quotient(q) \in Int
      BY <1>3
    <3>2. AuxSize * (Quotient(q) - Quotient(p)) = AuxSize * Quotient(q) - AuxSize * Quotient(p)
          /\ AuxSize * Quotient(p) \in Int /\ AuxSize * Quotient(q) \in Int
      BY <1>6, <3>1, Zenon
    <3>3. p = AuxSize * Quotient(p) + (p % AuxSize)
          /\ q = AuxSize * Quotient(q) + (q % AuxSize)
      BY <1>3
    <3>4. (p % AuxSize) \in Int /\ (q % AuxSize) \in Int
      BY <1>2
    <3>5. QED
      BY <2>1, <3>2, <3>3, <3>4
  <2>3. Quotient(q) - Quotient(p) \in Int
    BY <1>3
  <2>4. QED
    BY <1>1, <1>4, <1>5, <1>7, <2>2, <2>3
<1>8. ASSUME NEW p \in Nat, NEW n \in Nat, NEW i \in Nat, i < n, n <= AuxSize
      PROVE  AuxIndex(p, n, i) = ((p + i) % AuxSize)
  <2> DEFINE d == Quotient(p + i) - Quotient(p)
  <2>1. d \in Int /\ (p % AuxSize) + i = AuxSize * d + ((p + i) % AuxSize)
    <3>1. Quotient(p) \in Int /\ Quotient(p + i) \in Int /\ p + i \in Nat
      BY <1>3
    <3>2. AuxSize * d = AuxSize * Quotient(p + i) - AuxSize * Quotient(p)
          /\ AuxSize * Quotient(p) \in Int /\ AuxSize * Quotient(p + i) \in Int
      BY <1>6, <3>1, Zenon
    <3>3. p = AuxSize * Quotient(p) + (p % AuxSize)
          /\ p + i = AuxSize * Quotient(p + i) + ((p + i) % AuxSize)
      BY <1>3, <3>1, Zenon
    <3>4. (p % AuxSize) \in Int /\ ((p + i) % AuxSize) \in Int
      BY <1>2, <3>1
    <3>5. QED
      BY <3>1, <3>2, <3>3, <3>4
  <2>2. AuxSize * d \in Int /\ AuxSize * (d - 1) = AuxSize * d - AuxSize
    BY <1>1, <2>1, Z3
  <2> HIDE DEF d
  <2>3. (p % AuxSize) \in 0..AuxSize - 1 /\ ((p + i) % AuxSize) \in 0..AuxSize - 1
    BY <1>2
  <2>4. d >= 2 => AuxSize * d >= AuxSize + AuxSize
    BY <1>1, <1>4, <2>1, <2>2
  <2>5. d = 0 => AuxSize * d = 0
    BY <1>1
  <2>6. d = 1 => AuxSize * d = AuxSize
    BY <1>1
  <2>7. d < 0 => AuxSize * d <= 0 - AuxSize
    <3>1. -d \in Int /\ (d < 0 => -d >= 1) /\ AuxSize * (-d) = 0 - AuxSize * d
      BY <1>1, <2>1, Z3
    <3>2. QED
      BY <1>1, <1>4, <2>2, <3>1
  <2>8. \/ (p % AuxSize) + i < AuxSize /\ ((p + i) % AuxSize) = (p % AuxSize) + i
        \/ (p % AuxSize) + i >= AuxSize /\ ((p + i) % AuxSize) = (p % AuxSize) + i - AuxSize
    BY <1>1, <1>8, <2>1, <2>2, <2>3, <2>4, <2>5, <2>6, <2>7
  <2>9. QED
    BY <1>1, <1>8, <2>3, <2>8 DEF AuxIndex
<1>9. QED
  BY <1>2, <1>7, <1>8

(* What the kernel adds to the data ring when it writes a record: at the   *)
(* end, nothing at all or the record with an owed LOST record before it.   *)
LEMMA RecordEffect ==
    ASSUME TypeOK, Positions, RecordAux \/ RecordStart
    PROVE  /\ start' \in Nat /\ start <= start' /\ start' <= aux_head
           /\ ring' \in Seq(Record) /\ lost' \in BOOLEAN /\ overrun' \in BOOLEAN
           /\ Len(ring) \in Nat /\ Len(ring') \in Nat /\ Len(ring) <= Len(ring')
           /\ Len(ring) = Len(ring') => overrun'
           /\ overrun \/ lost' => overrun'
           /\ \A i \in 1..Len(ring) : ring'[i] = ring[i]
           /\ \A i \in 1..Len(ring') : Len(ring) < i =>
                 /\ ring'[i].offset = start
                 /\ ring'[i].size = IF i = Len(ring') THEN start' - start ELSE 0
                 /\ ring'[i].type # "AUX" => ring'[i].size = 0
                 /\ ring'[i].type = "LOST" => lost
                 /\ ring'[i].late = InPass
<1> DEFINE size == start' - start
<1>1. /\ start \in Nat /\ start' \in Nat /\ start <= start' /\ start' <= aux_head
      /\ size \in Nat /\ (RecordStart => size = 0)
  BY DEF RecordAux, RecordStart, TypeOK, Positions, trace
<1>2. Output("AUX", size) \/ (Output("ITRACE_START", size) /\ size = 0)
  BY <1>1, Zenon DEF RecordAux, RecordStart, trace
<1> HIDE DEF size
<1>3. PICK type \in {"AUX", "ITRACE_START"} : Output(type, size) /\ (type = "AUX" \/ size = 0)
  BY <1>2
<1> DEFINE rec(t, n) == [type |-> t, offset |-> start, size |-> n, late |-> InPass]
           new == IF lost THEN <<rec("LOST", 0), rec(type, size)>> ELSE <<rec(type, size)>>
           fits == Len(ring) + Len(new) <= data_tail + DataSlots
<1>4. /\ ring' = IF fits THEN ring \o new ELSE ring
      /\ lost' = ~fits
      /\ overrun' = (overrun \/ ~fits)
  BY <1>3 DEF Output
<1>5. rec("LOST", 0) \in Record /\ rec(type, size) \in Record
  BY <1>1 DEF Record, InPass
<1>6. /\ rec("LOST", 0).offset = start /\ rec("LOST", 0).size = 0
      /\ rec("LOST", 0).type = "LOST" /\ rec("LOST", 0).late = InPass
      /\ rec(type, size).offset = start /\ rec(type, size).size = size
      /\ rec(type, size).type = type /\ rec(type, size).late = InPass
  OBVIOUS
<1>7. ring \in Seq(Record) /\ lost \in BOOLEAN /\ overrun \in BOOLEAN
  BY DEF TypeOK
<1> HIDE DEF rec, fits
<1>8. lost' \in BOOLEAN /\ overrun' \in BOOLEAN /\ (overrun \/ lost' => overrun')
  BY <1>4, <1>7
<1>9. type = "AUX" \/ size = 0
  BY <1>3
<1>10. CASE ~fits
  <2>1. ring' = ring /\ overrun'
    BY <1>4, <1>10, Zenon
  <2>2. Len(ring) \in Nat
    BY <1>7
  <2>3. QED
    BY <1>1, <1>7, <1>8, <2>1, <2>2
<1>11. CASE fits /\ lost
  <2>1. ring' = ring \o <<rec("LOST", 0), rec(type, size)>>
    BY <1>4, <1>11
  <2>2. /\ ring' \in Seq(Record) /\ Len(ring') = Len(ring) + 2 /\ Len(ring) \in Nat
        /\ \A i \in 1..Len(ring) : ring'[i] = ring[i]
        /\ ring'[Len(ring) + 1] = rec("LOST", 0)
        /\ ring'[Len(ring) + 2] = rec(type, size)
    BY <1>5, <1>7, <2>1
  <2>3. \A i \in 1..Len(ring') : Len(ring) < i => i = Len(ring) + 1 \/ i = Len(ring) + 2
    BY <2>2
  <2>4. \A i \in 1..Len(ring') : Len(ring) < i =>
          ring'[i] = IF i = Len(ring') THEN rec(type, size) ELSE rec("LOST", 0)
    BY <2>2, <2>3
  <2>5. Len(ring') \in Nat /\ Len(ring) < Len(ring')
    BY <2>2
  <2>6. QED
    <3>1. ASSUME NEW i \in 1..Len(ring'), Len(ring) < i
          PROVE  /\ ring'[i].offset = start
                 /\ ring'[i].size = IF i = Len(ring') THEN size ELSE 0
                 /\ ring'[i].type # "AUX" => ring'[i].size = 0
                 /\ ring'[i].type = "LOST" => lost
                 /\ ring'[i].late = InPass
      <4>1. CASE i = Len(ring')
        <5>1. ring'[i] = rec(type, size)
          BY <2>4, <3>1, <4>1
        <5>2. QED
          BY <1>6, <1>9, <1>11, <4>1, <5>1
      <4>2. CASE i # Len(ring')
        <5>1. ring'[i] = rec("LOST", 0)
          BY <2>4, <3>1, <4>2
        <5>2. QED
          BY <1>6, <1>11, <4>2, <5>1
      <4>3. QED
        BY <4>1, <4>2
    <3>2. QED
      BY <1>1, <1>8, <2>2, <2>5, <3>1 DEF size
<1>12. CASE fits /\ ~lost
  <2>1. ring' = ring \o <<rec(type, size)>>
    BY <1>4, <1>12
  <2>2. /\ ring' \in Seq(Record) /\ Len(ring') = Len(ring) + 1 /\ Len(ring) \in Nat
        /\ \A i \in 1..Len(ring) : ring'[i] = ring[i]
        /\ ring'[Len(ring) + 1] = rec(type, size)
    BY <1>5, <1>7, <2>1
  <2>3. \A i \in 1..Len(ring') : Len(ring) < i => i = Len(ring) + 1
    BY <2>2
  <2>4. QED
    <3>1. ASSUME NEW i \in 1..Len(ring'), Len(ring) < i
          PROVE  /\ ring'[i].offset = start
                 /\ ring'[i].size = IF i = Len(ring') THEN size ELSE 0
                 /\ ring'[i].type # "AUX" => ring'[i].size = 0
                 /\ ring'[i].type = "LOST" => lost
                 /\ ring'[i].late = InPass
      <4>1. ring'[i] = rec(type, size) /\ i = Len(ring')
        BY <2>2, <2>3, <3>1
      <4>2. QED
        BY <1>3, <1>6, <1>9, <4>1
    <3>2. Len(ring') \in Nat /\ Len(ring) < Len(ring')
      BY <2>2
    <3>3. QED
      BY <1>1, <1>8, <2>2, <3>1, <3>2 DEF size
<1>13. QED
  BY <1>7, <1>10, <1>11, <1>12

(* The variables keep their types.  The subtraction in the size of an AUX  *)
(* record needs the order of the positions.                                *)
LEMMA TypeStep == ASSUME TypeOK, Control, [Next]_vars PROVE TypeOK'
<1>1. AuxSize \in Nat \ {0}
  BY SizesAssumption DEF SizesAssumption
<1>2. (hw < aux_tail + AuxSize) \in BOOLEAN
  BY <1>1 DEF TypeOK
<1>3. CASE Trace
  <2>1. aux' \in [0..AuxSize - 1 -> Nat]
    BY <1>3, Zenon DEF Trace, TypeOK
  <2>2. hw' \in Nat
    BY <1>3 DEF Trace, TypeOK
  <2>3. QED
    BY <1>3, <2>1, <2>2 DEF Trace, TypeOK, event, data, worker
<1>4. CASE CloseAux
  BY <1>4 DEF CloseAux, TypeOK, event, data, worker
<1>5. CASE RecordAux
  <2>1. ring' \in Seq(Record) /\ lost' \in BOOLEAN /\ overrun' \in BOOLEAN
    BY <1>5, RecordEffect DEF Control
  <2>2. enabled' \in BOOLEAN
    BY <1>2, <1>5, Zenon DEF RecordAux, Begin, TypeOK, event
  <2>3. limit' \in Nat
    BY <1>1, <1>5 DEF RecordAux, Begin, TypeOK, event
  <2>4. QED
    BY <1>5, <2>1, <2>2, <2>3, Zenon DEF RecordAux, TypeOK, worker
<1>6. CASE RecordStart
  <2>1. ring' \in Seq(Record) /\ lost' \in BOOLEAN /\ overrun' \in BOOLEAN
    BY <1>6, RecordEffect DEF Control
  <2>2. QED
    BY <1>6, <2>1 DEF RecordStart, TypeOK, trace, event, worker
<1>7. CASE OpenSucceeds \/ Enable
  <2>1. enabled' \in BOOLEAN
    BY <1>2, <1>7, Zenon DEF OpenSucceeds, Enable, Begin, TypeOK, event
  <2>2. limit' \in Nat
    BY <1>1, <1>7 DEF OpenSucceeds, Enable, Begin, TypeOK, event
  <2>3. QED
    BY <1>7, <2>1, <2>2 DEF OpenSucceeds, Enable, TypeOK, trace, data
<1>8. CASE OpenBusy \/ OpenFails \/ Return \/ Snapshot \/ Decode \/ Publish
  <2>1. Len(ring) \in Nat /\ retry + 1 \in Nat
    BY DEF TypeOK
  <2>2. CASE OpenBusy \/ OpenFails \/ Return
    BY <2>1, <2>2, Zenon DEF OpenBusy, OpenFails, Return, TypeOK, trace, event, data
  <2>3. CASE Snapshot \/ Decode \/ Publish
    BY <2>1, <2>3, Zenon DEF Snapshot, Decode, Publish, TypeOK, trace, event, data
  <2>4. QED
    BY <1>8, <2>2, <2>3
<1>9. CASE Dispatch
  <2>1. pc' \in {"copy", "aborted", "next"} /\ enabled' \in BOOLEAN /\ copied' = <<>>
    BY <1>9 DEF Dispatch, TypeOK
  <2>2. QED
    BY <1>9, <2>1 DEF Dispatch, TypeOK, trace, data
<1>10. CASE CopyByte
  <2>1. /\ Current \in Record /\ Len(copied) \in Nat /\ Len(copied) < Current.size
        /\ aux_tail <= Current.offset /\ Current.offset + Current.size <= start
    <3>1. tail + 1 \in 1..Len(ring) /\ Done = tail /\ ~Ended
      BY <1>10 DEF CopyByte, TypeOK, Control, Pass, InPass, Done, Ended
    <3>2. Current \in Record /\ Len(copied) \in Nat /\ Len(copied) < Current.size
      BY <1>10, <3>1 DEF CopyByte, TypeOK, Current
    <3>3. QED
      BY <3>1, <3>2 DEF TypeOK, Control, Pass, Records, Current
  <2>2. Current.offset \in Nat /\ Current.size \in Nat
    BY <2>1 DEF Record
  <2>3. Current.size <= AuxSize
    BY <1>1, <2>1, <2>2 DEF TypeOK, Control, Positions
  <2>4. AuxIndex(Current.offset, Current.size, Len(copied)) \in 0..AuxSize - 1
    <3>1. Current.offset + Len(copied) \in Nat
      BY <2>1, <2>2
    <3>2. QED
      BY <2>1, <2>2, <2>3, <3>1, Modular, Zenon
  <2>5. aux[AuxIndex(Current.offset, Current.size, Len(copied))] \in Nat
    BY <2>4 DEF TypeOK
  <2>6. copied' \in Seq(Nat)
    BY <1>10, <2>5 DEF CopyByte, TypeOK
  <2>7. QED
    BY <1>10, <2>6 DEF CopyByte, TypeOK, trace, event, data
<1>11. CASE Advance
  <2>1. Current \in Record
    BY <1>11 DEF Advance, TypeOK, Control, Pass, InPass, Current
  <2>2. pc' \in {"next", "assert"} /\ enabled' \in BOOLEAN
    BY <1>11, Zenon DEF Advance, TypeOK
  <2>3. aux_tail' \in Nat
    BY <1>11, <2>1 DEF Advance, TypeOK, Record
  <2>4. QED
    BY <1>11, <2>2, <2>3 DEF Advance, TypeOK, trace, data
<1>12. CASE NextRecord
  BY <1>12 DEF NextRecord, TypeOK, trace, event, data
<1>13. CASE SetStop \/ UNCHANGED vars
  BY <1>13, Zenon DEF SetStop, TypeOK, vars, trace, event, data, worker
<1>14. QED
  BY <1>3, <1>4, <1>5, <1>6, <1>7, <1>8, <1>9, <1>10, <1>11, <1>12, <1>13
  DEF Next, Kernel, Worker

(* The ends of the rings keep their order, whoever moves one of them.      *)
LEMMA ControlStep == ASSUME TypeOK, Control, [Next]_vars, TypeOK' PROVE Control'
<1>1. AuxSize \in Nat \ {0}
  BY SizesAssumption DEF SizesAssumption
<1>2. /\ Len(ring) \in Nat
      /\ \A i \in 1..Len(ring) : ring[i].offset \in Nat /\ ring[i].size \in Nat
  <2>1. ring \in Seq(Record)
    BY DEF TypeOK
  <2>2. Len(ring) \in Nat /\ \A i \in 1..Len(ring) : ring[i] \in Record
    BY <2>1
  <2>3. QED
    BY <2>2 DEF Record
<1>3. Positions /\ Records /\ Pass /\ On /\ AbortsOnlyOnOverrun
  BY DEF Control
<1>4. hw \in Nat /\ limit \in Nat /\ aux_tail \in Nat /\ start \in Nat /\ aux_head \in Nat
      /\ data_tail \in Nat /\ head \in Nat /\ tail \in Nat
  BY DEF TypeOK
<1>5. CASE UNCHANGED <<trace, event, data, aux_tail, data_tail, pc, head, tail>>
  <2>1. Positions' /\ Records' /\ On' /\ AbortsOnlyOnOverrun'
    BY <1>3, <1>5 DEF Positions, Records, On, AbortsOnlyOnOverrun, Ended, trace, event, data
  <2>2. Pass'
    BY <1>3, <1>5 DEF Pass, Ended, InPass, Done, Current, trace, event, data
  <2>3. QED
    BY <2>1, <2>2 DEF Control
<1>6. CASE Trace
  <2>1. Positions'
    BY <1>3, <1>4, <1>6 DEF Trace, Positions, Ended, event, worker
  <2>2. Records' /\ Pass'
    BY <1>3, <1>6 DEF Trace, Records, Pass, Ended, InPass, Done, Current, event, data, worker
  <2>3. On' /\ AbortsOnlyOnOverrun'
    BY <1>1, <1>3, <1>4, <1>6 DEF Trace, On, AbortsOnlyOnOverrun, event, data, worker
  <2>4. QED
    BY <2>1, <2>2, <2>3 DEF Control
<1>7. CASE CloseAux
  <2>1. Positions'
    BY <1>3, <1>4, <1>7 DEF CloseAux, Positions, Ended, event, worker
  <2>2. Records' /\ Pass'
    BY <1>3, <1>7 DEF CloseAux, Records, Pass, Ended, InPass, Done, Current, event,
                          data, worker
  <2>3. On' /\ AbortsOnlyOnOverrun'
    BY <1>3, <1>7 DEF CloseAux, On, AbortsOnlyOnOverrun, event, data, worker
  <2>4. QED
    BY <2>1, <2>2, <2>3 DEF Control
<1>8. CASE OpenSucceeds \/ OpenFails \/ Return \/ Enable
  <2>1. Positions'
    BY <1>1, <1>3, <1>4, <1>8
    DEF OpenSucceeds, OpenFails, Return, Enable, Begin, Positions, Ended, On, trace, event
  <2>2. Records'
    BY <1>3, <1>8 DEF OpenSucceeds, OpenFails, Return, Enable, Records, trace, data
  <2>3. Pass'
    BY <1>3, <1>8
    DEF OpenSucceeds, OpenFails, Return, Enable, Pass, Ended, InPass, Done, data
  <2>4. On'
    <3>1. CASE OpenSucceeds
      BY <1>3, <3>1 DEF OpenSucceeds, On, data
    <3>2. CASE Enable
      <4>1. pc' = "poll" /\ hw' = hw /\ aux_tail' = aux_tail
        BY <3>2 DEF Enable, trace
      <4>2. enabled' \/ ~(hw < aux_tail + AuxSize)
        BY <3>2, Zenon DEF Enable, Begin, event
      <4>3. QED
        BY <1>1, <1>4, <4>1, <4>2 DEF On
    <3>3. CASE OpenFails \/ Return
      BY <3>3 DEF OpenFails, Return, On
    <3>4. QED
      BY <1>8, <3>1, <3>2, <3>3
  <2>5. AbortsOnlyOnOverrun'
    BY <1>8 DEF OpenSucceeds, OpenFails, Return, Enable, AbortsOnlyOnOverrun
  <2>6. QED
    BY <2>1, <2>2, <2>3, <2>4, <2>5 DEF Control
<1>9. CASE Snapshot \/ Decode \/ Publish \/ NextRecord
  <2>1. UNCHANGED <<trace, event, data, aux_tail>> /\ ~Ended
        /\ pc' \notin {"open", "poll", "assert", "aborted"}
    BY <1>9 DEF Snapshot, Decode, Publish, NextRecord, Ended
  <2>2. Positions' /\ Records' /\ On' /\ AbortsOnlyOnOverrun'
    BY <1>3, <2>1 DEF Positions, Records, On, AbortsOnlyOnOverrun, trace, event, data
  <2>3. ASSUME Snapshot PROVE Pass'
    BY <1>2, <1>3, <1>4, <2>3 DEF Snapshot, Pass, Ended, InPass, Done, data
  <2>4. ASSUME Decode PROVE Pass'
    BY <1>2, <1>3, <1>4, <2>4 DEF Decode, Pass, Ended, InPass, Done, Current, data
  <2>5. ASSUME Publish PROVE Pass'
    BY <1>2, <1>3, <1>4, <2>5 DEF Publish, Pass, Ended, InPass, Done, data
  <2>6. ASSUME NextRecord PROVE Pass'
    BY <1>2, <1>3, <1>4, <2>6 DEF NextRecord, Pass, Ended, InPass, Done, data
  <2>7. QED
    BY <1>9, <2>2, <2>3, <2>4, <2>5, <2>6 DEF Control
<1>10. CASE Dispatch
  <2>1. /\ pc = "loop" /\ tail # head
        /\ UNCHANGED <<trace, limit, data, aux_tail, data_tail, head, tail>>
        /\ pc' \in {"copy", "aborted", "next"}
        /\ pc' = "copy" => Current.type = "AUX"
        /\ enabled' = (enabled /\ Current.type # "LOST")
        /\ Current.type = "LOST" <=> pc' = "aborted"
    BY <1>10 DEF Dispatch
  <2>2. Positions'
    BY <1>3, <2>1, Zenon DEF Positions, Ended, trace
  <2>3. Records' /\ On'
    BY <1>3, <2>1 DEF Records, On, trace, data
  <2>4. Pass'
    BY <1>2, <1>3, <1>4, <2>1 DEF Pass, Ended, InPass, Done, Current, data
  <2>5. AbortsOnlyOnOverrun'
    <3>1. tail + 1 \in 1..Len(ring)
      BY <1>2, <1>3, <1>4, <2>1 DEF Pass, InPass
    <3>2. QED
      BY <1>3, <2>1, <3>1 DEF Records, Current, AbortsOnlyOnOverrun, data
  <2>6. QED
    BY <2>2, <2>3, <2>4, <2>5 DEF Control
<1>11. CASE Advance
  <2>1. pc = "advance" /\ tail < head /\ head <= Len(ring) /\ tail + 1 \in 1..Len(ring)
        /\ Done = tail /\ ~Ended
    BY <1>2, <1>3, <1>4, <1>11 DEF Advance, Pass, InPass, Done, Ended
  <2>2. /\ Current = ring[tail + 1] /\ Current.size \in Nat /\ Current.offset \in Nat
        /\ aux_tail <= Current.offset /\ Current.offset + Current.size <= start
    BY <1>2, <1>3, <1>4, <2>1 DEF Current, Pass, Records
  <2>3. /\ aux_tail' = aux_tail + Current.size /\ pc' = "next" /\ enabled' = enabled
        /\ UNCHANGED <<trace, limit, data, data_tail, head, tail>>
    BY <1>3, <1>4, <1>11, <2>2 DEF Advance, Positions
  <2>4. Positions'
    BY <1>1, <1>3, <1>4, <2>1, <2>2, <2>3 DEF Positions, Ended, trace
  <2>5. Records' /\ On' /\ AbortsOnlyOnOverrun'
    BY <1>3, <2>3 DEF Records, On, AbortsOnlyOnOverrun, trace, data
  <2>6. \A i \in 1..Len(ring) : tail + 1 < i => aux_tail + Current.size <= ring[i].offset
    <3>1. \A i \in 1..Len(ring) : tail + 1 < i =>
            ring[tail + 1].offset + ring[tail + 1].size <= ring[i].offset
      BY <1>3, <2>1 DEF Records
    <3>2. ring[tail + 1].offset = Current.offset /\ ring[tail + 1].size = Current.size
      BY <2>2
    <3>3. QED
      BY <1>2, <1>4, <2>2, <3>1, <3>2
  <2>7. Pass'
    BY <1>2, <1>3, <1>4, <2>1, <2>3, <2>6 DEF Pass, Ended, InPass, Done, data
  <2>8. QED
    BY <2>4, <2>5, <2>7 DEF Control
<1>12. CASE RecordAux \/ RecordStart
  <2>1. /\ start' \in Nat /\ start <= start' /\ start' <= aux_head
        /\ Len(ring') \in Nat /\ Len(ring) <= Len(ring')
        /\ overrun \/ lost' => overrun'
        /\ \A i \in 1..Len(ring) : ring'[i] = ring[i]
        /\ \A i \in 1..Len(ring') : Len(ring) < i =>
              /\ ring'[i].offset = start
              /\ ring'[i].size = IF i = Len(ring') THEN start' - start ELSE 0
              /\ ring'[i].type # "AUX" => ring'[i].size = 0
              /\ ring'[i].type = "LOST" => lost
              /\ ring'[i].late = InPass
    BY <1>3, <1>12, RecordEffect
  <2>2. /\ UNCHANGED <<hw, aux_head, aux_tail, data_tail, pc, head, tail>>
        /\ start' = aux_head /\ ~closing'
    BY <1>3, <1>12 DEF RecordAux, RecordStart, Positions, trace, worker
  <2>3. limit' = limit \/ (limit' = aux_tail + AuxSize /\ hw < aux_tail + AuxSize)
    BY <1>12 DEF RecordAux, RecordStart, Begin, event
  <2>4. enabled => enabled' \/ ~(hw < aux_tail + AuxSize)
    <3>1. CASE RecordAux
      BY <3>1, Zenon DEF RecordAux, Begin, event
    <3>2. CASE RecordStart
      BY <3>2, Zenon DEF RecordStart, event
    <3>3. QED
      BY <1>12, <3>1, <3>2
  <2>5. Positions'
    BY <1>1, <1>3, <1>4, <2>1, <2>2, <2>3 DEF Positions
  <2>6. \A i \in 1..Len(ring') : i \in 1..Len(ring) \/ Len(ring) < i
    BY <1>2, <2>1
  <2>7. \A i \in 1..Len(ring') : ring'[i].offset \in Nat /\ ring'[i].size \in Nat
    BY <1>2, <1>4, <2>1, <2>6
  <2>8. Records'
    <3>1. \A i \in 1..Len(ring') : ring'[i].offset + ring'[i].size <= start'
      BY <1>2, <1>3, <1>4, <2>1, <2>6, <2>7 DEF Records
    <3>2. ASSUME NEW i \in 1..Len(ring'), NEW j \in 1..Len(ring'), i < j
          PROVE  ring'[i].offset + ring'[i].size <= ring'[j].offset
      <4>1. CASE j \in 1..Len(ring)
        <5>1. i \in 1..Len(ring)
          BY <1>2, <3>2, <4>1
        <5>2. QED
          BY <1>3, <2>1, <3>2, <4>1, <5>1 DEF Records
      <4>2. CASE Len(ring) < j /\ i \in 1..Len(ring)
        BY <1>3, <2>1, <4>2 DEF Records
      <4>3. CASE Len(ring) < j /\ Len(ring) < i
        <5>1. i # Len(ring')
          BY <2>1, <3>2
        <5>2. QED
          BY <1>4, <2>1, <4>3, <5>1
      <4>4. QED
        BY <2>6, <4>1, <4>2, <4>3
    <3>3. ASSUME NEW i \in 1..Len(ring')
          PROVE  /\ ring'[i].type # "AUX" => ring'[i].size = 0
                 /\ ring'[i].type = "LOST" => overrun'
      BY <1>3, <2>1, <2>6 DEF Records
    <3>4. QED
      BY <2>1, <3>1, <3>2, <3>3 DEF Records
  <2>9. Pass'
    <3>1. data_tail' <= Len(ring')
      BY <1>2, <1>3, <1>4, <2>1, <2>2 DEF Pass
    <3>2. InPass' => /\ data_tail' <= tail' /\ tail' <= head' /\ head' <= Len(ring')
                     /\ \A i \in 1..Len(ring') : head' < i => ring'[i].late
      <4>1. ASSUME InPass, NEW i \in 1..Len(ring'), head < i PROVE ring'[i].late
        BY <1>3, <2>1, <2>6, <4>1, Zenon DEF Pass
      <4>2. QED
        BY <1>2, <1>3, <1>4, <2>1, <2>2, <4>1 DEF Pass, InPass
    <3>3. pc' \in {"copy", "advance", "next"} => tail' < head'
      BY <1>3, <2>2 DEF Pass
    <3>4. pc' \in {"copy", "advance"} => Current'.type = "AUX"
      <4>1. pc \in {"copy", "advance"} => tail + 1 \in 1..Len(ring)
        BY <1>2, <1>3, <1>4 DEF Pass, InPass
      <4>2. QED
        BY <1>3, <2>1, <2>2, <4>1 DEF Pass, Current
    <3>5. ASSUME ~Ended, NEW i \in 1..Len(ring'), Done < i PROVE aux_tail <= ring'[i].offset
      BY <1>3, <2>1, <2>6, <3>5 DEF Pass, Positions
    <3>6. Ended' = Ended /\ Done' = Done
      BY <2>2 DEF Ended, Done, InPass
    <3>7. QED
      BY <2>2, <3>1, <3>2, <3>3, <3>4, <3>5, <3>6 DEF Pass
  <2>10. On'
    <3>1. pc # "open" /\ (pc = "poll" => enabled)
      BY <1>3, <1>12 DEF RecordAux, RecordStart, On, Positions, Ended
    <3>2. QED
      BY <1>1, <1>4, <2>2, <2>4, <3>1 DEF On
  <2>11. AbortsOnlyOnOverrun'
    BY <1>3, <2>1, <2>2 DEF AbortsOnlyOnOverrun
  <2>12. QED
    BY <2>5, <2>8, <2>9, <2>10, <2>11 DEF Control
<1>13. CASE OpenBusy \/ CopyByte \/ SetStop \/ UNCHANGED vars
  BY <1>5, <1>13 DEF OpenBusy, CopyByte, SetStop, vars, worker
<1>14. QED
  BY <1>6, <1>7, <1>8, <1>9, <1>10, <1>11, <1>12, <1>13 DEF Next, Kernel, Worker

(* A record is handled or known to be late before check_buffer gives its   *)
(* place back, and none is handled twice.                                  *)
LEMMA HandledStep == ASSUME TypeOK, Control, Handled, [Next]_vars PROVE Handled'
<1>1. /\ Len(ring) \in Nat /\ Len(handled) \in Nat
      /\ tail \in Nat /\ data_tail \in Nat /\ head \in Nat
      /\ Pass /\ handled \in Seq(Nat)
  BY DEF TypeOK, Control
<1>2. Seen \in Nat /\ Seen <= Len(ring)
  BY <1>1 DEF Seen, Pass
<1>3. CASE /\ UNCHANGED <<ring, handled>>
           /\ Seen' = Seen \/ (Seen' \in Nat /\ Seen' <= Seen /\ Ended')
           /\ Ended => Ended'
  BY <1>2, <1>3 DEF Handled
<1>4. CASE RecordAux \/ RecordStart
  <2>1. /\ UNCHANGED <<handled, data_tail, pc, tail>>
        /\ Len(ring') \in Nat /\ \A i \in 1..Len(ring) : ring'[i] = ring[i]
    BY <1>4, RecordEffect, Zenon DEF RecordAux, RecordStart, worker, Control
  <2>2. Seen' = Seen /\ Ended' = Ended
    BY <2>1 DEF Seen, Ended, InPass
  <2>3. \A i \in 1..Seen : ring'[i] = ring[i]
    BY <1>1, <1>2, <2>1
  <2>4. QED
    BY <2>1, <2>2, <2>3 DEF Handled
<1>5. CASE NextRecord
  <2>1. /\ Seen = tail /\ Seen' = tail + 1 /\ ~Ended /\ ring' = ring
        /\ handled' = Append(handled, tail + 1)
    BY <1>5 DEF NextRecord, Seen, InPass, Ended, data
  <2>2. /\ Len(handled') = Len(handled) + 1 /\ handled'[Len(handled) + 1] = tail + 1
        /\ \A i \in 1..Len(handled) : handled'[i] = handled[i] /\ handled[i] \in Nat
    BY <1>1, <2>1
  <2>3. \A i \in 1..Len(handled') : i = Len(handled) + 1 \/ i \in 1..Len(handled)
    BY <1>1, <2>2
  <2>4. \A i \in 1..Len(handled) : handled[i] <= tail
    BY <2>1 DEF Handled
  <2>5. ASSUME NEW i \in 1..Len(handled'), NEW j \in 1..Len(handled'), i < j
        PROVE  handled'[i] < handled'[j]
    <3>1. i \in 1..Len(handled)
      BY <1>1, <2>2, <2>3, <2>5
    <3>2. CASE j = Len(handled) + 1
      BY <1>1, <2>2, <2>4, <3>1, <3>2
    <3>3. CASE j \in 1..Len(handled)
      BY <2>2, <2>5, <3>1, <3>3 DEF Handled
    <3>4. QED
      BY <2>3, <3>2, <3>3
  <2>6. \A i \in 1..Len(handled') : handled'[i] <= Seen'
    BY <1>1, <2>1, <2>2, <2>3, <2>4
  <2>7. ASSUME NEW i \in 1..Seen'
        PROVE  ring'[i].late \/ \E j \in 1..Len(handled') : handled'[j] = i
    <3>1. CASE i = tail + 1
      <4>1. Len(handled) + 1 \in 1..Len(handled')
        BY <1>1, <2>2
      <4>2. QED
        BY <2>2, <3>1, <4>1
    <3>2. CASE i # tail + 1
      <4>1. i \in 1..Seen
        BY <1>1, <2>1, <3>2
      <4>2. ring[i].late \/ \E j \in 1..Len(handled) : handled[j] = i
        BY <4>1 DEF Handled
      <4>3. \A j \in 1..Len(handled) : j \in 1..Len(handled')
        BY <1>1, <2>2
      <4>4. QED
        BY <2>1, <2>2, <4>2, <4>3
    <3>3. QED
      BY <3>1, <3>2
  <2>8. QED
    BY <2>5, <2>6, <2>7 DEF Handled
<1>6. CASE Publish
  <2>1. /\ Seen = tail /\ tail = head /\ Seen' = Len(ring) /\ ~Ended
        /\ ring' = ring /\ handled' = handled
        /\ \A i \in 1..Len(ring) : head < i => ring[i].late
    BY <1>1, <1>6 DEF Publish, Seen, InPass, Ended, Pass, data
  <2>2. ASSUME NEW i \in 1..Seen'
        PROVE  ring[i].late \/ \E j \in 1..Len(handled) : handled[j] = i
    <3>1. head < i \/ i \in 1..Seen
      BY <1>1, <2>1
    <3>2. QED
      BY <2>1, <3>1 DEF Handled
  <2>3. \A i \in 1..Len(handled) : handled[i] <= Seen'
    <3>1. \A i \in 1..Len(handled) : handled[i] <= Seen /\ handled[i] \in Nat
      BY <1>1, <2>1 DEF Handled
    <3>2. QED
      BY <1>1, <1>2, <2>1, <3>1
  <2>4. QED
    BY <2>1, <2>2, <2>3 DEF Handled
<1>7. CASE \/ Trace \/ CloseAux \/ OpenBusy \/ CopyByte \/ SetStop \/ UNCHANGED vars
  <2>1. UNCHANGED <<ring, handled, data_tail, pc, tail>>
    BY <1>7 DEF Trace, CloseAux, OpenBusy, CopyByte, SetStop, vars, data, worker
  <2>2. QED
    BY <1>3, <2>1 DEF Seen, InPass, Ended
<1>8. CASE \/ OpenSucceeds \/ OpenFails \/ Return \/ Snapshot \/ Dispatch
           \/ Decode \/ Advance \/ Enable
  <2>1. UNCHANGED <<ring, handled, data_tail>> /\ ~Ended
    BY <1>8 DEF OpenSucceeds, OpenFails, Return, Snapshot, Dispatch, Decode, Advance,
                Enable, data, Ended
  <2>2. CASE Dispatch \/ Advance
    <3>1. InPass /\ tail' = tail /\ pc' \in {"copy", "next", "aborted", "assert"}
      BY <2>2 DEF Dispatch, Advance, InPass
    <3>2. data_tail <= tail
      BY <1>1, <3>1 DEF Pass
    <3>3. QED
      BY <1>1, <1>3, <2>1, <3>1, <3>2 DEF Seen, InPass, Ended
  <2>3. CASE OpenSucceeds \/ OpenFails \/ Return \/ Snapshot \/ Decode \/ Enable
    <3>1. Seen' = Seen
      BY <2>3 DEF OpenSucceeds, OpenFails, Return, Snapshot, Decode, Enable, Seen, InPass
    <3>2. QED
      BY <1>3, <2>1, <3>1
  <2>4. QED
    BY <1>8, <2>2, <2>3
<1>9. QED
  BY <1>4, <1>5, <1>6, <1>7, <1>8 DEF Next, Kernel, Worker

(* While no record is late or lost, the space returned is the space of the *)
(* records passed.                                                         *)
LEMMA SpaceStep == ASSUME TypeOK, Control, Space, [Next]_vars PROVE Space'
<1>1. /\ Len(ring) \in Nat /\ tail \in Nat /\ data_tail \in Nat /\ head \in Nat
      /\ aux_tail \in Nat /\ start \in Nat /\ Pass /\ Records /\ Positions
  BY DEF TypeOK, Control
<1>2. \A i \in 1..Len(ring) : ring[i].offset \in Nat /\ ring[i].size \in Nat
  <2>1. ring \in Seq(Record)
    BY DEF TypeOK
  <2>2. \A i \in 1..Len(ring) : ring[i] \in Record
    BY <2>1
  <2>3. QED
    BY <2>2 DEF Record
<1>3. CASE Ended'
  BY <1>3 DEF Space
<1>4. CASE /\ UNCHANGED <<ring, overrun, start, aux_tail>>
           /\ Done' = Done /\ (Ended => Ended')
  BY <1>4 DEF Space, End
<1>5. CASE RecordAux \/ RecordStart
  <2>1. /\ start' \in Nat /\ Len(ring') \in Nat /\ Len(ring) <= Len(ring')
        /\ Len(ring) = Len(ring') => overrun'
        /\ overrun => overrun'
        /\ \A i \in 1..Len(ring) : ring'[i] = ring[i]
        /\ \A i \in 1..Len(ring') : Len(ring) < i =>
              /\ ring'[i].offset = start
              /\ ring'[i].size = IF i = Len(ring') THEN start' - start ELSE 0
    BY <1>1, <1>5, RecordEffect
  <2>2. UNCHANGED <<aux_tail, data_tail, pc, tail>>
    BY <1>5, Zenon DEF RecordAux, RecordStart, worker
  <2>3. Done' = Done /\ Ended' = Ended /\ (~Ended => Done \in 0..Len(ring))
    BY <1>1, <2>2 DEF Done, InPass, Ended, Pass
  <2>4. SUFFICES ASSUME ~Ended', ~overrun', \A i \in 1..Len(ring') : ~ring'[i].late
                 PROVE  /\ \A i \in 1..Len(ring') : ring'[i].offset = End(i - 1)'
                        /\ start' = End(Len(ring))'
                        /\ aux_tail' = End(Done)'
    BY DEF Space
  <2>5. \A i \in 1..Len(ring) : i \in 1..Len(ring')
    BY <1>1, <2>1
  <2>6. /\ \A i \in 1..Len(ring) : ring[i].offset = End(i - 1)
        /\ start = End(Len(ring)) /\ aux_tail = End(Done)
    BY <2>1, <2>3, <2>4, <2>5 DEF Space
  <2>7. \A n \in 0..Len(ring) : End(n)' = End(n)
    BY <1>1, <2>1 DEF End
  <2>8. ASSUME NEW i \in 1..Len(ring') PROVE ring'[i].offset = End(i - 1)'
    <3>1. CASE i \in 1..Len(ring)
      <4>1. i - 1 \in 0..Len(ring)
        BY <1>1, <3>1
      <4>2. QED
        BY <2>1, <2>6, <2>7, <3>1, <4>1, Zenon
    <3>2. CASE i = Len(ring) + 1
      BY <1>1, <2>1, <2>6, <2>7, <3>2
    <3>3. CASE i > Len(ring) + 1
      <4>1. i - 1 \in 1..Len(ring') /\ Len(ring) < i - 1 /\ i - 1 # Len(ring') /\ Len(ring) < i
        BY <1>1, <2>1, <3>3
      <4>2. ring'[i - 1].offset = start /\ ring'[i - 1].size = 0 /\ ring'[i].offset = start
        BY <2>1, <4>1
      <4>3. End(i - 1)' = start + 0
        BY <4>1, <4>2 DEF End
      <4>4. QED
        BY <1>1, <4>2, <4>3
    <3>4. QED
      BY <1>1, <2>1, <3>1, <3>2, <3>3
  <2>9. start' = End(Len(ring))'
    <3>1. Len(ring') \in 1..Len(ring') /\ Len(ring) < Len(ring')
      BY <1>1, <2>1, <2>4
    <3>2. ring'[Len(ring')].offset = start /\ ring'[Len(ring')].size = start' - start
      BY <2>1, <3>1
    <3>3. End(Len(ring))' = start + (start' - start)
      BY <3>1, <3>2 DEF End
    <3>4. start \in Nat /\ start' \in Nat
      BY <1>1, <2>1, Zenon
    <3>5. \A a, b \in Nat : a + (b - a) = b
      OBVIOUS
    <3>6. QED
      BY <3>3, <3>4, <3>5, Zenon
  <2>10. aux_tail' = End(Done)'
    <3>1. Done \in 0..Len(ring)
      BY <2>3, <2>4
    <3>2. QED
      BY <2>2, <2>3, <2>6, <2>7, <3>1 DEF End
  <2>11. QED
    BY <2>8, <2>9, <2>10
<1>6. CASE Publish
  <2>1. /\ UNCHANGED <<ring, overrun, start, aux_tail>> /\ ~Ended
        /\ tail = head /\ head <= Len(ring) /\ Done = tail /\ Done' = Len(ring)
        /\ \A i \in 1..Len(ring) : head < i => ring[i].late
    BY <1>1, <1>6 DEF Publish, Done, InPass, Pass, Ended, trace, data
  <2>2. CASE head = Len(ring)
    BY <1>4, <2>1, <2>2
  <2>3. CASE head # Len(ring)
    <3>1. head + 1 \in 1..Len(ring) /\ head < head + 1
      BY <1>1, <2>1, <2>3
    <3>2. ring'[head + 1].late /\ head + 1 \in 1..Len(ring')
      BY <2>1, <3>1
    <3>3. QED
      BY <3>2 DEF Space
  <2>4. QED
    BY <2>2, <2>3
<1>7. CASE (Dispatch \/ Advance) /\ ~Ended'
  <2>1. /\ ~Ended /\ UNCHANGED <<ring, overrun, start, tail>> /\ Done = tail
        /\ tail + 1 \in 1..Len(ring) /\ Current = ring[tail + 1]
    BY <1>1, <1>7 DEF Dispatch, Advance, Ended, Done, InPass, Pass, Current, trace, data
  <2>2. \/ aux_tail' = aux_tail /\ Done' = Done
        \/ aux_tail' = aux_tail + Current.size /\ Done' = tail + 1
    <3>1. CASE Dispatch
      <4>1. pc' = "copy" \/ (pc' = "next" /\ Current.size = 0)
        BY <1>1, <1>7, <2>1, <3>1 DEF Dispatch, Ended, Records
      <4>2. QED
        BY <1>1, <2>1, <3>1, <4>1 DEF Dispatch, Done, InPass
    <3>2. CASE Advance
      BY <1>7, <2>1, <3>2 DEF Advance, Ended, Done
    <3>3. QED
      BY <1>7, <3>1, <3>2
  <2>3. CASE aux_tail' = aux_tail /\ Done' = Done
    BY <1>4, <2>1, <2>3
  <2>4. CASE aux_tail' = aux_tail + Current.size /\ Done' = tail + 1
    <3>1. SUFFICES ASSUME ~overrun, \A i \in 1..Len(ring) : ~ring[i].late
                   PROVE  /\ \A i \in 1..Len(ring) : ring[i].offset = End(i - 1)
                          /\ start = End(Len(ring))
                          /\ aux_tail + Current.size = End(tail + 1)
      BY <2>1, <2>4 DEF Space, End
    <3>2. /\ \A i \in 1..Len(ring) : ring[i].offset = End(i - 1)
          /\ start = End(Len(ring)) /\ aux_tail = End(tail)
      BY <2>1, <3>1 DEF Space
    <3>3. ring[tail + 1].offset = End(tail)
      <4>1. (tail + 1) - 1 = tail
        BY <1>1
      <4>2. QED
        BY <2>1, <3>2, <4>1
    <3>4. End(tail + 1) = ring[tail + 1].offset + ring[tail + 1].size
      BY <1>1 DEF End
    <3>5. QED
      BY <2>1, <3>2, <3>3, <3>4
  <2>5. QED
    BY <2>2, <2>3, <2>4
<1>8. CASE \/ Trace \/ CloseAux \/ OpenBusy \/ CopyByte \/ SetStop \/ UNCHANGED vars
  <2>1. UNCHANGED <<ring, overrun, start, aux_tail, data_tail, pc, tail>>
    BY <1>8 DEF Trace, CloseAux, OpenBusy, CopyByte, SetStop, vars, trace, data, worker
  <2>2. QED
    BY <1>4, <2>1 DEF Done, InPass, Ended
<1>9. CASE OpenSucceeds \/ Snapshot \/ Decode \/ NextRecord \/ Enable
  <2>1. /\ UNCHANGED <<ring, overrun, start, aux_tail>> /\ ~Ended
        /\ Done' = Done
    BY <1>9 DEF OpenSucceeds, Snapshot, Decode, NextRecord, Enable, trace, data, Ended,
                Done, InPass
  <2>2. QED
    BY <1>4, <2>1
<1>10. CASE OpenFails \/ Return
  BY <1>3, <1>10 DEF OpenFails, Return, Ended
<1>11. QED
  BY <1>3, <1>5, <1>6, <1>7, <1>8, <1>9, <1>10 DEF Next, Kernel, Worker

(* The processor does not reach the bytes that are being copied.           *)
LEMMA BytesStep == ASSUME TypeOK, Control, Bytes, [Next]_vars PROVE Bytes'
<1>1. /\ Len(ring) \in Nat /\ tail \in Nat /\ head \in Nat /\ hw \in Nat /\ limit \in Nat
      /\ aux_tail \in Nat /\ start \in Nat /\ aux_head \in Nat /\ Len(copied) \in Nat
      /\ Pass /\ Records /\ Positions
  BY DEF TypeOK, Control
<1>2. AuxSize \in Nat \ {0}
  BY SizesAssumption DEF SizesAssumption
<1>3. pc \in {"copy", "advance"} => tail + 1 \in 1..Len(ring)
  BY <1>1 DEF Pass, InPass
<1>4. CASE UNCHANGED <<aux, hw, ring, pc, tail, copied>>
  BY <1>4 DEF Bytes, Current
<1>5. CASE UNCHANGED <<aux, hw>> /\ pc' \notin {"copy", "advance"}
  BY <1>5 DEF Bytes
<1>6. CASE Trace
  <2>1. /\ aux' = [aux EXCEPT ![hw % AuxSize] = hw] /\ hw' = hw + 1
        /\ UNCHANGED <<ring, pc, tail, copied>>
    BY <1>6 DEF Trace, data, worker
  <2>2. ASSUME NEW p \in Nat, p < hw', hw' <= p + AuxSize PROVE aux'[p % AuxSize] = p
    <3>1. (p % AuxSize) \in DOMAIN aux
      BY <1>2, Modular, Zenon DEF TypeOK
    <3>2. CASE p = hw
      BY <2>1, <3>1, <3>2
    <3>3. CASE p # hw
      <4>1. p < hw /\ hw < p + AuxSize /\ hw <= p + AuxSize
        BY <1>1, <1>2, <2>1, <2>2, <3>3
      <4>2. (p % AuxSize) # (hw % AuxSize)
        BY <1>1, <4>1, Modular, Zenon
      <4>3. aux[p % AuxSize] = p
        BY <4>1, Zenon DEF Bytes
      <4>4. QED
        BY <2>1, <3>1, <4>2, <4>3, Zenon
    <3>4. QED
      BY <3>2, <3>3
  <2>3. QED
    BY <2>1, <2>2 DEF Bytes, Current
<1>7. CASE RecordAux \/ RecordStart
  <2>1. UNCHANGED <<aux, hw, pc, tail, copied>>
    BY <1>7, Zenon DEF RecordAux, RecordStart, trace, worker
  <2>2. \A i \in 1..Len(ring) : ring'[i] = ring[i]
    BY <1>1, <1>7, RecordEffect, Zenon
  <2>3. pc \in {"copy", "advance"} => Current' = Current
    BY <1>3, <2>1, <2>2, Zenon DEF Current
  <2>4. QED
    BY <2>1, <2>3, Zenon DEF Bytes
<1>8. CASE Dispatch
  <2>1. UNCHANGED <<aux, hw, ring, tail>> /\ copied' = <<>> /\ pc' # "advance"
    BY <1>8 DEF Dispatch, trace, data
  <2>2. pc' = "copy" => Current.size \in Nat
    <3>1. ring \in Seq(Record)
      BY DEF TypeOK
    <3>2. tail + 1 \in 1..Len(ring)
      BY <1>1, <1>8 DEF Dispatch, Pass, InPass
    <3>3. Current \in Record
      BY <3>1, <3>2 DEF Current
    <3>4. QED
      BY <3>3 DEF Record
  <2>3. Current' = Current
    BY <2>1 DEF Current
  <2>4. QED
    BY <2>1, <2>2, <2>3 DEF Bytes
<1>9. CASE CopyByte
  <2> DEFINE n == Len(copied)
             p == Current.offset + n
  <2>1. /\ pc = "copy" /\ n < Current.size /\ UNCHANGED <<aux, hw, ring, pc, tail>>
        /\ copied' = Append(copied, aux[AuxIndex(Current.offset, Current.size, n)])
    BY <1>9 DEF CopyByte, trace, data
  <2>2. Current.offset \in Nat /\ Current.size \in Nat
    <3>1. ring \in Seq(Record)
      BY DEF TypeOK
    <3>2. Current \in Record
      BY <1>3, <2>1, <3>1 DEF Current
    <3>3. QED
      BY <3>2 DEF Record
  <2>3. aux_tail <= Current.offset /\ Current.offset + Current.size <= start
    <3>1. tail + 1 \in 1..Len(ring) /\ Done = tail /\ ~Ended /\ tail < tail + 1
      BY <1>1, <1>3, <2>1 DEF Done, InPass, Ended
    <3>2. QED
      BY <1>1, <3>1 DEF Pass, Records, Current
  <2>4. Current.size <= AuxSize /\ p \in Nat /\ p < hw /\ hw <= p + AuxSize
    <3>1. start <= hw /\ hw <= aux_tail + AuxSize
      BY <1>1, <1>2 DEF Positions
    <3>2. /\ n \in Nat /\ n < Current.size /\ AuxSize \in Nat
          /\ aux_tail \in Nat /\ start \in Nat /\ hw \in Nat
      BY <1>1, <1>2, <2>1
    <3> HIDE DEF n
    <3>3. QED
      BY <2>2, <2>3, <3>1, <3>2
  <2>5. AuxIndex(Current.offset, Current.size, n) = (p % AuxSize)
    BY <1>1, <2>1, <2>2, <2>4, Modular, Zenon
  <2>6. aux[p % AuxSize] = p
    BY <2>4, Zenon DEF Bytes
  <2>7. copied \in Seq(Nat) /\ copied' = Append(copied, p)
    BY <2>1, <2>5, <2>6 DEF TypeOK
  <2> HIDE DEF p
  <2>8. /\ Len(copied') = n + 1 /\ copied'[n + 1] = p
        /\ \A i \in 1..n : copied'[i] = copied[i]
    BY <2>4, <2>7
  <2>9. \A i \in 1..n : copied[i] = Current.offset + i - 1
    BY <2>1 DEF Bytes
  <2>10. \A i \in 1..Len(copied') : copied'[i] = Current.offset + i - 1
    BY <1>1, <2>2, <2>8, <2>9 DEF p
  <2>11. Len(copied') <= Current.size /\ Current' = Current /\ pc' = "copy"
    BY <1>1, <2>1, <2>2, <2>8 DEF Current
  <2>12. \A q \in Nat : q < hw' /\ hw' <= q + AuxSize => aux'[q % AuxSize] = q
    BY <2>1 DEF Bytes
  <2>13. QED
    BY <2>10, <2>11, <2>12 DEF Bytes
<1>10. CASE Decode
  BY <1>10 DEF Decode, Bytes, Current, trace, data
<1>11. CASE CloseAux \/ OpenBusy \/ SetStop \/ UNCHANGED vars
  BY <1>4, <1>11 DEF CloseAux, OpenBusy, SetStop, vars, trace, data, worker
<1>12. CASE \/ OpenSucceeds \/ OpenFails \/ Return \/ Snapshot \/ Advance
            \/ NextRecord \/ Publish \/ Enable
  BY <1>5, <1>12 DEF OpenSucceeds, OpenFails, Return, Snapshot, Advance, NextRecord,
                     Publish, Enable, trace
<1>13. QED
  BY <1>6, <1>7, <1>8, <1>9, <1>10, <1>11, <1>12 DEF Next, Kernel, Worker

-----------------------------------------------------------------------------
(* The thread and the kernel keep the invariant, for rings of any size and *)
(* traces of any length.                                                   *)
THEOREM Invariance == Spec => []IInv
<1>1. AuxSize \in Nat \ {0}
  BY SizesAssumption DEF SizesAssumption
<1>2. Init => IInv
  <2> SUFFICES ASSUME Init PROVE IInv
    OBVIOUS
  <2>1. TypeOK
    BY <1>1 DEF Init, TypeOK
  <2>2. Control
    BY <1>1 DEF Init, Control, Positions, Records, Pass, On, AbortsOnlyOnOverrun, InPass, Ended
  <2>3. Handled /\ Space
    BY DEF Init, Handled, Space, End, Seen, Done, InPass
  <2>4. Bytes
    BY DEF Init, Bytes
  <2>5. QED
    BY <2>1, <2>2, <2>3, <2>4 DEF IInv
<1>3. IInv /\ [Next]_vars => IInv'
  <2> SUFFICES ASSUME IInv, [Next]_vars PROVE IInv'
    OBVIOUS
  <2>1. TypeOK /\ Control /\ Handled /\ Space /\ Bytes
    BY DEF IInv
  <2>2. TypeOK'
    BY <2>1, TypeStep
  <2>3. Control' /\ Handled' /\ Space' /\ Bytes'
    BY <2>1, <2>2, ControlStep, HandledStep, SpaceStep, BytesStep
  <2>4. QED
    BY <2>2, <2>3 DEF IInv
<1>4. QED
  BY <1>2, <1>3, PTL DEF Spec

(* check_buffer hands the decoder the bytes that were traced for the       *)
(* record, also where they wrap around in the AUX ring.                    *)
THEOREM DecoderGetsTrace == Spec => []DecodesWhatWasTraced
<1>1. IInv => DecodesWhatWasTraced
  <2> SUFFICES ASSUME IInv PROVE DecodesWhatWasTraced
    OBVIOUS
  <2>1. copied \in Seq(Nat) /\ Bytes
    BY DEF IInv, TypeOK
  <2>2. QED
    BY <2>1 DEF DecodesWhatWasTraced, Bytes
<1>2. QED
  BY <1>1, Invariance, PTL

(* The assertion of check_buffer on aux_tail holds, and the thread aborts  *)
(* only after an overrun of the data ring.                                 *)
THEOREM NoAbortInService == Spec => []AbortsOnlyOnOverrun
<1>1. IInv => AbortsOnlyOnOverrun
  BY DEF IInv, Control
<1>2. QED
  BY <1>1, Invariance, PTL

(* check_buffer handles every record once, except those written during a   *)
(* pass.                                                                   *)
THEOREM EachRecordOnce == Spec => []RecordsHandledOnce
<1>1. IInv => RecordsHandledOnce
  <2> SUFFICES ASSUME IInv PROVE RecordsHandledOnce
    OBVIOUS
  <2>1. data_tail \in Nat /\ tail \in Nat /\ Pass /\ Handled
    BY DEF IInv, TypeOK, Control
  <2>2. \A i \in 1..data_tail : i \in 1..Seen
    BY <2>1 DEF Pass, Seen
  <2>3. QED
    BY <2>1, <2>2 DEF RecordsHandledOnce, Handled
<1>2. QED
  BY <1>1, Invariance, PTL

(* An idle thread has returned the space of the AUX ring up to the last    *)
(* record.                                                                 *)
THEOREM SpaceComesBack == Spec => []SpaceReturned
<1>1. IInv => SpaceReturned
  <2> SUFFICES ASSUME IInv PROVE SpaceReturned
    OBVIOUS
  <2>1. Idle => ~Ended /\ Done = Len(ring)
    BY DEF Idle, Ended, Done, InPass
  <2>2. QED
    BY <2>1 DEF IInv, SpaceReturned, Space
<1>2. QED
  BY <1>1, Invariance, PTL

(* An idle thread leaves the event on, unless there is no space.           *)
THEOREM EventStaysOn == Spec => []OnWhenIdle
<1>1. IInv => OnWhenIdle
  BY DEF IInv, Control, OnWhenIdle, On, Idle
<1>2. QED
  BY <1>1, Invariance, PTL
=============================================================================
