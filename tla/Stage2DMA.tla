----------------------------- MODULE Stage2DMA -----------------------------
(***************************************************************************)
(* The DMA side of a stage 2 device model (Stage2HWModel in                *)
(* aplib/HWModel.h) between the threads of QEMU that use it.  A vcpu       *)
(* thread in which the driver writes a DMA register records the buffer; a  *)
(* vcpu thread that attaches to a new test case replaces size and mapping  *)
(* of the input; the IRQ thread fills all recorded buffers from the input  *)
(* before each interrupt.  The list of buffers is under dmasgLock, the     *)
(* flag level1_dma_set, fuzzdatasize and fuzzdata are under no lock.       *)
(*                                                                         *)
(* Memory is counted in bytes of a small page.  Files are numbered in the  *)
(* order in which they are mapped; no mapping is ever removed.             *)
(***************************************************************************)
EXTENDS Integers, Sequences

CONSTANTS Vcpus,      \* vcpu threads
          Main,       \* the one that attaches to test cases
          dma_regs,   \* register -> size of its buffer, 0 if not known
          Values,     \* values written to registers
          PageSize,   \* 4096
          MMIO_SIZE,  \* bytes of the input reserved for registers (1024)
          FileSizes,  \* sizes of input files; -1 for one that cannot be read
          Models,     \* fields of dma_inputs: struct length, offset, size
          MaxFiles    \* bound: attachments

BufferSize(reg) == IF dma_regs[reg] = 0 THEN PageSize ELSE dma_regs[reg]

ASSUME SizesAssumption ==
    /\ Main \in Vcpus /\ "irq" \notin Vcpus /\ "free" \notin Vcpus
    /\ PageSize \in Nat \ {0} /\ MMIO_SIZE \in Nat /\ MaxFiles \in Nat
    /\ Values \subseteq Nat /\ FileSizes \subseteq Nat \cup {-1}
    /\ \A reg \in DOMAIN dma_regs : dma_regs[reg] \in Nat
    /\ Models \subseteq [struct_len : Nat \ {0}, offset : Nat, size : Nat]

(* All models are applied to buffers of every length.  In the device data  *)
(* of the repository each field is inside its struct, and a struct is no   *)
(* longer than the shortest buffer.                                        *)
ASSUME ModelsAssumption ==
    \A m \in Models : /\ m.size > 0
                      /\ m.offset + m.size <= m.struct_len
                      /\ \A reg \in DOMAIN dma_regs : m.struct_len <= BufferSize(reg)

VARIABLES level1_dma_set, dma_starts, level1_dmas, dmasg,
          lock,          \* holder of dmasgLock
          pc,            \* control point of each vcpu thread
          arg,           \* the buffer it is recording
          fuzzdatasize,
          fuzzdata,      \* number of the mapped file, 0 for null, -1 for MAP_FAILED
          files,         \* sizes of the files mapped so far
          irq,           \* control point of the IRQ thread
          dma_fuzz_sz, base,   \* size and pointer it has read
          i, dma_data,   \* index in dmasg and cursor in the input
          src, dst,      \* ghosts: input bytes read, buffer bytes written, for dmasg[i-1]
          fed,           \* ghost: buffers copied to in this fill
          mixed          \* ghost: an attachment overlapped the reads of this fill

regions == <<dma_starts, level1_dmas, dmasg>>
input   == <<fuzzdatasize, fuzzdata, files>>
fill    == <<irq, dma_fuzz_sz, base, i, dma_data, src, dst, fed>>
vars    == <<level1_dma_set, regions, lock, pc, arg, input, fill, mixed>>

Region == [addr : Nat, len : Nat \ {0}]

Init ==
    /\ level1_dma_set = FALSE /\ dma_starts = {} /\ level1_dmas = <<>> /\ dmasg = <<>>
    /\ lock = "free"
    /\ pc = [v \in Vcpus |-> "run"] /\ arg = [v \in Vcpus |-> [addr |-> 0, len |-> 1]]
    /\ fuzzdatasize = 0 /\ fuzzdata = 0 /\ files = <<>>
    /\ irq = "idle" /\ dma_fuzz_sz = 0 /\ base = 0 /\ i = 1 /\ dma_data = 0
    /\ src = {} /\ dst = {} /\ fed = {} /\ mixed = FALSE

-----------------------------------------------------------------------------
(* captureDMARegistration in a vcpu thread.                                *)

PageAligned(value) == (value \div PageSize) * PageSize

\* A DMA register is written: the flag is set before the lock is taken.
Capture(v) ==
    /\ pc[v] = "run"
    /\ level1_dma_set' = TRUE
    /\ \E reg \in DOMAIN dma_regs, value \in Values :
          arg' = [arg EXCEPT ![v] = [addr |-> PageAligned(value), len |-> BufferSize(reg)]]
    /\ pc' = [pc EXCEPT ![v] = "lock"]
    /\ UNCHANGED <<regions, lock, input, fill, mixed>>

\* As LockDMASG, without waiting for the lock.
LockDMASGNotTaken(v) ==
    /\ pc[v] = "lock"
    /\ pc' = [pc EXCEPT ![v] = "record"]
    /\ UNCHANGED <<level1_dma_set, regions, lock, arg, input, fill, mixed>>

LockDMASG(v) ==
    /\ pc[v] = "lock" /\ lock = "free"
    /\ lock' = v
    /\ pc' = [pc EXCEPT ![v] = "record"]
    /\ UNCHANGED <<level1_dma_set, regions, arg, input, fill, mixed>>

\* As Record, looking for the buffer with its length.
RecordByLength(v) ==
    /\ pc[v] = "record"
    /\ dma_starts' = dma_starts \cup {arg[v].addr}
    /\ LET new == IF arg[v] \in {dmasg[k] : k \in DOMAIN dmasg} THEN <<>> ELSE <<arg[v]>>
       IN  dmasg' = dmasg \o new /\ level1_dmas' = level1_dmas \o new
    /\ lock' = "free"
    /\ pc' = [pc EXCEPT ![v] = "run"]
    /\ UNCHANGED <<level1_dma_set, arg, input, fill, mixed>>

\* The buffer is recorded unless one at the same page is.
Record(v) ==
    /\ pc[v] = "record"
    /\ LET new == IF arg[v].addr \in dma_starts THEN <<>> ELSE <<arg[v]>>
       IN  /\ dma_starts' = dma_starts \cup {arg[v].addr}
           /\ dmasg' = dmasg \o new
           /\ level1_dmas' = level1_dmas \o new
    /\ lock' = "free"
    /\ pc' = [pc EXCEPT ![v] = "run"]
    /\ UNCHANGED <<level1_dma_set, arg, input, fill, mixed>>

-----------------------------------------------------------------------------
(* real_ap_init, the statements that replace the input.                    *)

SetSize ==
    /\ pc[Main] = "run" /\ Len(files) < MaxFiles
    /\ fuzzdatasize' \in FileSizes
    /\ pc' = [pc EXCEPT ![Main] = "map"]
    /\ mixed' = (mixed \/ irq \in {"flag", "data"})
    /\ UNCHANGED <<level1_dma_set, regions, lock, arg, fuzzdata, files, fill>>

\* mmap, which fails for an empty or unreadable file and may fail for others.
MapData ==
    /\ pc[Main] = "map"
    /\ \/ /\ fuzzdatasize > 0
          /\ files' = Append(files, fuzzdatasize)
          /\ fuzzdata' = Len(files')
          /\ pc' = [pc EXCEPT ![Main] = "run"]
       \/ /\ files' = files
          /\ fuzzdata' = -1
          /\ pc' = [pc EXCEPT ![Main] = "null"]
    /\ UNCHANGED <<level1_dma_set, regions, lock, arg, fuzzdatasize, fill, mixed>>

SetNull ==
    /\ pc[Main] = "null"
    /\ fuzzdata' = 0
    /\ pc' = [pc EXCEPT ![Main] = "zero"]
    /\ UNCHANGED <<level1_dma_set, regions, lock, arg, fuzzdatasize, files, fill, mixed>>

\* As SetZero, with the size of the file kept.
SetZeroForgotten ==
    /\ pc[Main] = "zero"
    /\ pc' = [pc EXCEPT ![Main] = "run"]
    /\ UNCHANGED <<level1_dma_set, regions, lock, arg, input, fill, mixed>>

SetZero ==
    /\ pc[Main] = "zero"
    /\ fuzzdatasize' = 0
    /\ pc' = [pc EXCEPT ![Main] = "run"]
    /\ UNCHANGED <<level1_dma_set, regions, lock, arg, fuzzdata, files, fill, mixed>>

-----------------------------------------------------------------------------
(* ap_fill_dma_buffer in the IRQ thread, called before every interrupt.    *)

ReadSize ==
    /\ irq = "idle"
    /\ dma_fuzz_sz' = IF fuzzdatasize < MMIO_SIZE THEN 0 ELSE fuzzdatasize - MMIO_SIZE
    /\ irq' = "flag"
    /\ mixed' = (pc[Main] \in {"map", "null", "zero"})
    /\ src' = {} /\ dst' = {} /\ fed' = {} /\ i' = 1 /\ dma_data' = 0
    /\ UNCHANGED <<level1_dma_set, regions, lock, pc, arg, input, base>>

ReadFlag ==
    /\ irq = "flag"
    /\ irq' = IF level1_dma_set THEN "data" ELSE "idle"
    /\ UNCHANGED <<level1_dma_set, regions, lock, pc, arg, input, dma_fuzz_sz, base,
                   i, dma_data, src, dst, fed, mixed>>

ReadData ==
    /\ irq = "data"
    /\ base' = fuzzdata
    /\ irq' = "lock"
    /\ UNCHANGED <<level1_dma_set, regions, lock, pc, arg, input, dma_fuzz_sz,
                   i, dma_data, src, dst, fed, mixed>>

FillLock ==
    /\ irq = "lock" /\ lock = "free"
    /\ lock' = "irq"
    /\ irq' = "feed"
    /\ UNCHANGED <<level1_dma_set, regions, pc, arg, input, dma_fuzz_sz, base,
                   i, dma_data, src, dst, fed, mixed>>

\* How many structs the model writes in a buffer, with one too many.
LoopsTooMany(m, len) ==
    IF len > m.struct_len THEN len \div m.struct_len + 1 ELSE 1

\* How many structs the model writes in a buffer.
Loops(m, len) ==
    IF len > m.struct_len /\ len % m.struct_len = 0 THEN len \div m.struct_len ELSE 1

\* Where in a buffer the models write.
Offsets(m, len) == {m.offset + m.struct_len * k : k \in 0..Loops(m, len) - 1}

\* The cursor for a buffer, with no way back to the beginning.
WrappedNever(len) == dma_data

\* The cursor for a buffer: back to the beginning when the rest is too short.
Wrapped(len) == IF dma_data + len > dma_fuzz_sz THEN 0 ELSE dma_data

\* One buffer of the list: the copy, if the input is long enough, the models,
\* and the cursor.
Feed ==
    /\ irq = "feed" /\ i \in DOMAIN dmasg
    /\ LET r    == dmasg[i]
           from == Wrapped(r.len)
           fits == from + r.len <= dma_fuzz_sz
           offs == UNION {Offsets(m, r.len) : m \in Models}
       IN  /\ src' = IF fits THEN from..from + r.len - 1 \cup {from + o : o \in offs}
                             ELSE {}
           /\ dst' = (IF fits THEN 0..r.len - 1 ELSE {})
                     \cup UNION {UNION {o..o + m.size - 1 : o \in Offsets(m, r.len)}
                                 : m \in Models}
           /\ fed' = IF fits THEN fed \cup {r.addr} ELSE fed
           /\ dma_data' = from + r.len
    /\ i' = i + 1
    /\ UNCHANGED <<level1_dma_set, regions, lock, pc, arg, input, irq, dma_fuzz_sz,
                   base, mixed>>

FillUnlock ==
    /\ irq = "feed" /\ i \notin DOMAIN dmasg
    /\ lock' = "free"
    /\ irq' = "idle"
    /\ UNCHANGED <<level1_dma_set, regions, pc, arg, input, dma_fuzz_sz, base,
                   i, dma_data, src, dst, fed, mixed>>

-----------------------------------------------------------------------------
Attach == SetSize \/ MapData \/ SetNull \/ SetZero
Irq    == ReadSize \/ ReadFlag \/ ReadData \/ FillLock \/ Feed \/ FillUnlock

Next == \/ \E v \in Vcpus : Capture(v) \/ LockDMASG(v) \/ Record(v)
        \/ Attach \/ Irq

Spec == Init /\ [][Next]_vars

-----------------------------------------------------------------------------
TypeOK ==
    /\ level1_dma_set \in BOOLEAN
    /\ dma_starts \subseteq Nat /\ dmasg \in Seq(Region) /\ level1_dmas \in Seq(Region)
    /\ lock \in Vcpus \cup {"irq", "free"}
    /\ pc \in [Vcpus -> {"run", "lock", "record", "map", "null", "zero"}]
    /\ arg \in [Vcpus -> Region]
    /\ fuzzdatasize \in Nat \cup {-1} /\ files \in Seq(Nat \ {0})
    /\ fuzzdata \in -1..Len(files) /\ base \in -1..Len(files)
    /\ irq \in {"idle", "flag", "data", "lock", "feed"}
    /\ dma_fuzz_sz \in Nat /\ dma_data \in Nat /\ i \in Nat \ {0}
    /\ src \subseteq Int /\ dst \subseteq Int /\ fed \subseteq Nat
    /\ mixed \in BOOLEAN

(* No page is in the list twice however many registers and threads it is   *)
(* written through ("avoid recording the same dma buffer address more than *)
(* once"), the list of first-level buffers is the same, and the set that   *)
(* decides is the set of recorded pages.                                   *)
RegionsOnce ==
    /\ \A j, k \in DOMAIN dmasg : dmasg[j].addr = dmasg[k].addr => j = k
    /\ level1_dmas = dmasg
    /\ dma_starts = {dmasg[k].addr : k \in DOMAIN dmasg}

(* feedFuzzDMAData iterates over the vector dmasg: nothing is added to it  *)
(* between its first and its last buffer.                                  *)
ListStable == [][irq = "feed" => dmasg' = dmasg]_vars

(* A fill writes inside the buffer it fills: the copy and every field of   *)
(* every repetition of every model.                                        *)
WritesInBuffer ==
    irq = "feed" /\ i > 1 => dst \subseteq 0..dmasg[i - 1].len - 1

(* A fill whose reads of fuzzdatasize and fuzzdata no attachment has       *)
(* overlapped reads inside the file it found mapped, behind the part that  *)
(* belongs to the registers, and never through a null pointer or           *)
(* MAP_FAILED.                                                             *)
ReadsInFile ==
    irq = "feed" /\ ~mixed /\ src # {} =>
        base > 0 /\ \A o \in src : o >= 0 /\ MMIO_SIZE + o < files[base]

(* No buffer is starved: in every fill each buffer that the input is long  *)
(* enough for gets input bytes, whatever the lengths of those before it.   *)
FitsIsFed ==
    irq = "feed" => \A k \in 1..i - 1 :
        dmasg[k].len <= dma_fuzz_sz => dmasg[k].addr \in fed
=============================================================================
