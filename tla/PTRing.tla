------------------------------- MODULE PTRing -------------------------------
(***************************************************************************)
(* Collection of Intel PT data: the thread ptWorker of ap (proxy/          *)
(* pt-runner.cpp) against the kernel, which fills two rings shared with    *)
(* it.  The AUX ring holds trace bytes, the data ring holds records that   *)
(* say which bytes of the AUX ring are new.  There is no lock: each side   *)
(* owns one end of each ring, and the PT event is switched off by the      *)
(* kernel when the AUX ring is full and on again by the thread.            *)
(*                                                                         *)
(* Positions in both rings count from the beginning of the trace and are   *)
(* reduced modulo the size of the ring where memory is touched.  A record  *)
(* is one unit of the data ring.                                           *)
(***************************************************************************)
EXTENDS Integers, Sequences

CONSTANTS AuxSize,     \* bytes of the AUX ring (AUX_RING_PAGES)
          DataSlots,   \* records the data ring holds (REGULAR_RING_DATA_PAGES)
          MaxRetry,    \* attempts of perf_event_open (50 in the code)
          MaxBytes,    \* bound: bytes traced
          MaxRecords   \* bound: records written

ASSUME SizesAssumption ==
    /\ AuxSize \in Nat \ {0}
    /\ DataSlots \in Nat \ {0}
    /\ MaxRetry \in Nat
    /\ MaxBytes \in Nat
    /\ MaxRecords \in Nat

VARIABLES aux,        \* the AUX ring: the trace position each byte was written at
          hw,         \* trace bytes the processor has written
          start,      \* trace bytes that records have been written for
          closing,    \* aux_head is published and the record for it is not
          aux_head,   \* pmap->aux_head
          enabled,    \* the PT event is on
          limit,      \* the position at which the processor must stop
          ring,       \* all records ever written to the data ring
          lost,       \* a record could not be written, a LOST record is owed
          overrun,    \* ghost: this has happened
          aux_tail,   \* pmap->aux_tail
          data_tail,  \* pmap->data_tail; pmap->data_head is Len(ring)
          pc,         \* control point of ptWorker
          retry,      \* its variable retry
          head, tail, \* variables data_head and data_tail of check_buffer
          copied,     \* the buffer of PerfAuxBuffer
          handled,    \* ghost: the records handled, in order
          pt_stop     \* set by main

trace  == <<aux, hw, start, closing, aux_head>>
event  == <<enabled, limit>>
data   == <<ring, lost, overrun>>
worker == <<pc, retry, head, tail, copied, handled>>
vars   == <<trace, event, data, aux_tail, data_tail, worker, pt_stop>>

(* A record of the kernel.  offset and size are those of an AUX record; in *)
(* the others they are ghosts, as is late: written during a pass of        *)
(* check_buffer.                                                           *)
Record == [type : {"AUX", "ITRACE_START", "LOST"}, offset : Nat, size : Nat,
           late : BOOLEAN]

InPass == pc \in {"loop", "copy", "advance", "next"}
Ended  == pc \in {"returned", "aborted", "assert"}

Init ==
    /\ aux = [i \in 0..AuxSize - 1 |-> 0]
    /\ hw = 0 /\ start = 0 /\ closing = FALSE /\ aux_head = 0
    /\ enabled = FALSE /\ limit = 0
    /\ ring = <<>> /\ lost = FALSE /\ overrun = FALSE
    /\ aux_tail = 0 /\ data_tail = 0
    /\ pc = "open" /\ retry = 0 /\ head = 0 /\ tail = 0
    /\ copied = <<>> /\ handled = <<>>
    /\ pt_stop = FALSE

-----------------------------------------------------------------------------
(* The kernel and the processor (external).                                *)

\* The processor stores a trace byte.
Trace ==
    /\ enabled /\ ~closing /\ hw < limit /\ hw < MaxBytes
    /\ aux' = [aux EXCEPT ![hw % AuxSize] = hw]
    /\ hw' = hw + 1
    /\ UNCHANGED <<start, closing, aux_head, event, data, aux_tail, data_tail,
                   worker, pt_stop>>

\* The kernel ends a stretch of trace, possibly an empty one.
CloseAux ==
    /\ enabled /\ ~closing /\ Len(ring) < MaxRecords
    /\ aux_head' = hw
    /\ closing' = TRUE
    /\ UNCHANGED <<aux, hw, start, event, data, aux_tail, data_tail, worker,
                   pt_stop>>

\* Write a record.  An owed LOST record goes before it, and nothing is written
\* when the data ring has no room for everything.
Output(type, size) ==
    LET rec(t, n) == [type |-> t, offset |-> start, size |-> n, late |-> InPass]
        new  == IF lost THEN <<rec("LOST", 0), rec(type, size)>>
                        ELSE <<rec(type, size)>>
        fits == Len(ring) + Len(new) <= data_tail + DataSlots
    IN  /\ ring' = IF fits THEN ring \o new ELSE ring
        /\ lost' = ~fits
        /\ overrun' = (overrun \/ ~fits)

\* Start tracing if the AUX ring has room, leave the event off otherwise.
Begin ==
    /\ enabled' = (hw < aux_tail + AuxSize)
    /\ limit' = IF hw < aux_tail + AuxSize THEN aux_tail + AuxSize ELSE limit

\* The record for the stretch that was ended, and the start of the next.
RecordAux ==
    /\ closing
    /\ closing' = FALSE
    /\ start' = aux_head
    /\ Output("AUX", aux_head - start)
    /\ IF enabled THEN Begin ELSE UNCHANGED event
    /\ UNCHANGED <<aux, hw, aux_head, aux_tail, data_tail, worker, pt_stop>>

\* The record that says which thread is traced.
RecordStart ==
    /\ enabled /\ ~closing /\ Len(ring) < MaxRecords
    /\ Output("ITRACE_START", 0)
    /\ UNCHANGED <<trace, event, aux_tail, data_tail, worker, pt_stop>>

Kernel == Trace \/ CloseAux \/ RecordAux \/ RecordStart

-----------------------------------------------------------------------------
(* ptWorker.                                                               *)

\* perf_event_open succeeds, both rings are mapped and the event is enabled;
\* a failure of the latter is only logged.
OpenSucceeds ==
    /\ pc = "open" /\ retry < MaxRetry
    /\ pc' = "poll"
    /\ Begin \/ UNCHANGED event
    /\ UNCHANGED <<trace, data, aux_tail, data_tail, retry, head, tail, copied,
                   handled, pt_stop>>

\* EBUSY: another ap still traces this core.
OpenBusy ==
    /\ pc = "open" /\ retry < MaxRetry
    /\ retry' = retry + 1
    /\ UNCHANGED <<trace, event, data, aux_tail, data_tail, pc, head, tail,
                   copied, handled, pt_stop>>

\* Any other error of perf_event_open or mmap, or no attempt is left.
OpenFails ==
    /\ pc = "open"
    /\ pc' = "returned"
    /\ UNCHANGED <<trace, event, data, aux_tail, data_tail, retry, head, tail,
                   copied, handled, pt_stop>>

ReturnNever ==
    /\ FALSE
    /\ UNCHANGED vars

\* The loop condition of ptWorker fails: disable the event and close it.
Return ==
    /\ pc = "poll" /\ pt_stop
    /\ pc' = "returned"
    /\ enabled' = FALSE
    /\ UNCHANGED <<trace, limit, data, aux_tail, data_tail, retry, head, tail,
                   copied, handled, pt_stop>>

\* main has left its event loop.
SetStop ==
    /\ ~pt_stop
    /\ pt_stop' = TRUE
    /\ UNCHANGED <<trace, event, data, aux_tail, data_tail, worker>>
-----------------------------------------------------------------------------
(* check_buffer: one pass over the records up to the data_head it has read. *)

SnapshotOneRecord ==
    /\ pc = "poll" /\ ~pt_stop
    /\ data_tail # Len(ring)
    /\ head' = data_tail + 1 /\ tail' = data_tail
    /\ pc' = "loop"
    /\ UNCHANGED <<trace, event, data, aux_tail, data_tail, retry, copied,
                   handled, pt_stop>>

SnapshotFullRing ==
    /\ pc = "poll" /\ ~pt_stop
    /\ Len(ring) = data_tail + DataSlots
    /\ head' = Len(ring) /\ tail' = data_tail
    /\ pc' = "loop"
    /\ UNCHANGED <<trace, event, data, aux_tail, data_tail, retry, copied,
                   handled, pt_stop>>

\* The snapshot and the early return when there is nothing new.
Snapshot ==
    /\ pc = "poll" /\ ~pt_stop
    /\ data_tail # Len(ring)
    /\ head' = Len(ring) /\ tail' = data_tail
    /\ pc' = "loop"
    /\ UNCHANGED <<trace, event, data, aux_tail, data_tail, retry, copied,
                   handled, pt_stop>>

\* get_event: the record at the position tail.
Current == ring[tail + 1]

\* Dispatch on the type of the record.  Types that are not expected, LOST
\* among them, abort the process.
Dispatch ==
    /\ pc = "loop" /\ tail # head
    /\ pc' = CASE Current.type = "AUX" /\ Current.size # 0 -> "copy"
               [] Current.type = "LOST" -> "aborted"
               [] OTHER -> "next"
    /\ copied' = <<>>
    /\ enabled' = (enabled /\ Current.type # "LOST")
    /\ UNCHANGED <<trace, limit, data, aux_tail, data_tail, retry, head, tail,
                   handled, pt_stop>>

AuxIndexFromStart(offset, size, i) ==
    LET realOffset == offset % AuxSize
    IN  IF realOffset + size < AuxSize THEN realOffset + i ELSE i

\* PerfAuxBuffer: where byte i of the copy is in the AUX ring.  The copy is in
\* two parts when it reaches the end of the ring.
AuxIndex(offset, size, i) ==
    LET realOffset == offset % AuxSize
    IN  IF realOffset + size < AuxSize \/ i < AuxSize - realOffset
        THEN realOffset + i
        ELSE i - (AuxSize - realOffset)

\* One byte of its memcpy.
CopyByte ==
    /\ pc = "copy" /\ Len(copied) < Current.size
    /\ copied' = Append(copied,
                        aux[AuxIndex(Current.offset, Current.size, Len(copied))])
    /\ UNCHANGED <<trace, event, data, aux_tail, data_tail, pc, retry, head,
                   tail, handled, pt_stop>>

\* The copy is complete and PTDecoder::decode reads it.
Decode ==
    /\ pc = "copy" /\ Len(copied) = Current.size
    /\ pc' = "advance"
    /\ UNCHANGED <<trace, event, data, aux_tail, data_tail, retry, head, tail,
                   copied, handled, pt_stop>>

\* The space of the last record only is returned.
AdvanceToRecord ==
    /\ pc = "advance"
    /\ aux_tail' = Current.offset
    /\ pc' = "next"
    /\ UNCHANGED <<trace, event, data, data_tail, retry, head, tail, copied,
                   handled, pt_stop>>

\* The assertion, and the return of the space to the kernel.
Advance ==
    /\ pc = "advance"
    /\ IF aux_tail + Current.size <= aux_head
       THEN /\ aux_tail' = aux_tail + Current.size
            /\ pc' = "next"
            /\ UNCHANGED enabled
       ELSE /\ pc' = "assert"
            /\ enabled' = FALSE
            /\ UNCHANGED aux_tail
    /\ UNCHANGED <<trace, limit, data, data_tail, retry, head, tail, copied,
                   handled, pt_stop>>

\* data_tail += header->size.
NextRecord ==
    /\ pc = "next"
    /\ tail' = tail + 1
    /\ handled' = Append(handled, tail + 1)
    /\ pc' = "loop"
    /\ UNCHANGED <<trace, event, data, aux_tail, data_tail, retry, head, copied,
                   pt_stop>>

\* Publish gives back the whole AUX ring as well.
PublishBoth ==
    /\ pc = "loop" /\ tail = head
    /\ data_tail' = Len(ring)
    /\ aux_tail' = aux_head
    /\ pc' = "enable"
    /\ UNCHANGED <<trace, event, data, retry, head, tail, copied, handled, pt_stop>>

\* After the loop: the compare-and-swap sets the shared data_tail to the
\* data_head of this moment.
Publish ==
    /\ pc = "loop" /\ tail = head
    /\ data_tail' = Len(ring)
    /\ pc' = "enable"
    /\ UNCHANGED <<trace, event, data, aux_tail, retry, head, tail, copied,
                   handled, pt_stop>>

EnableForgotten ==
    /\ pc = "enable"
    /\ pc' = "poll"
    /\ UNCHANGED <<trace, event, data, aux_tail, data_tail, retry, head, tail,
                   copied, handled, pt_stop>>

\* PERF_EVENT_IOC_ENABLE.
Enable ==
    /\ pc = "enable"
    /\ pc' = "poll"
    /\ IF enabled THEN UNCHANGED event ELSE Begin
    /\ UNCHANGED <<trace, data, aux_tail, data_tail, retry, head, tail, copied,
                   handled, pt_stop>>

Worker == \/ OpenSucceeds \/ OpenBusy \/ OpenFails \/ Return
          \/ Snapshot \/ Dispatch \/ CopyByte \/ Decode \/ Advance
          \/ NextRecord \/ Publish \/ Enable

Next == Kernel \/ Worker \/ SetStop

(* The thread is scheduled; nothing obliges the guest to run or ap to end. *)
Spec == Init /\ [][Next]_vars /\ WF_vars(Worker)
-----------------------------------------------------------------------------
TypeOK ==
    /\ aux \in [0..AuxSize - 1 -> Nat]
    /\ hw \in Nat /\ start \in Nat /\ aux_head \in Nat /\ limit \in Nat
    /\ closing \in BOOLEAN /\ enabled \in BOOLEAN
    /\ ring \in Seq(Record)
    /\ lost \in BOOLEAN /\ overrun \in BOOLEAN
    /\ aux_tail \in Nat /\ data_tail \in Nat
    /\ pc \in {"open", "poll", "loop", "copy", "advance", "next", "enable",
               "returned", "aborted", "assert"}
    /\ retry \in Nat /\ head \in Nat /\ tail \in Nat
    /\ copied \in Seq(Nat) /\ handled \in Seq(Nat)
    /\ pt_stop \in BOOLEAN

(* What PTDecoder::decode is given are the bytes traced for the record, in *)
(* order: the processor has not overwritten them while PerfAuxBuffer was   *)
(* copying, and the copy around the end of the ring is right.              *)
DecodesWhatWasTraced ==
    pc = "advance" => copied = [i \in 1..Current.size |-> Current.offset + i - 1]

(* The assertion of check_buffer on aux_tail never fails, and the thread   *)
(* aborts ap only when the data ring has overrun.                          *)
AbortsOnlyOnOverrun ==
    /\ pc # "assert"
    /\ pc = "aborted" => overrun

(* check_buffer handles a record at most once, in order, and passes over   *)
(* those only that were written while it was in its loop.                  *)
RecordsHandledOnce ==
    /\ \A i, j \in 1..Len(handled) : i < j => handled[i] < handled[j]
    /\ \A i \in 1..data_tail :
          ring[i].late \/ \E j \in 1..Len(handled) : handled[j] = i

(* The thread waits and no record is there to wake it.                     *)
Idle == pc = "poll" /\ data_tail = Len(ring) /\ ~closing

(* The space of the AUX ring is all returned when the thread is idle,      *)
(* unless a record was written during a pass or lost: aux_tail falls       *)
(* behind for good in these cases only.                                    *)
SpaceReturned ==
    Idle /\ ~overrun /\ (\A i \in 1..Len(ring) : ~ring[i].late)
        => aux_tail = start

(* The event that the kernel has switched off because the AUX ring was     *)
(* full is on again when the thread is idle, unless all of the ring has    *)
(* been lost to records passed over, or tracing never started.             *)
OnWhenIdle ==
    Idle /\ ring # <<>> => enabled \/ hw >= aux_tail + AuxSize

(* Every record in the data ring is passed in the end, or the thread ends. *)
RecordsConsumed ==
    \A n \in 1..MaxRecords : Len(ring) >= n ~> data_tail >= n \/ Ended

(* ptWorker ends after main has set pt_stop, however busy the guest is.    *)
StopsWhenTold == pt_stop ~> Ended
=============================================================================
