----------------------------- MODULE FuzzEpochs -----------------------------
(***************************************************************************)
(* What AFL is promised by the proxy, the shared memory and aplib taken    *)
(* together.  AFL runs one execution after another, each with a test case  *)
(* of its own.  While an execution runs, the guest may be fed with the     *)
(* test case of that execution and of no other, and the coverage that AFL  *)
(* finds in its bitmap was produced by the guest under that execution.     *)
(* An execution ends only after the guest has stopped reading its test     *)
(* case.                                                                   *)
(***************************************************************************)
EXTENDS Naturals

VARIABLES
  started,   \* executions AFL has asked for so far
  running,   \* the execution in progress, 0 if there is none
  feeding,   \* the execution whose test case the guest reads, 0 if none
  hits       \* <<e, p>>: coverage of the guest under p credited to e

absVars == <<started, running, feeding, hits>>

Init ==
  /\ started = 0
  /\ running = 0
  /\ feeding = 0
  /\ hits = {}

\* AFL starts the next execution.
Begin ==
  /\ running = 0
  /\ started' = started + 1
  /\ running' = started'
  /\ UNCHANGED <<feeding, hits>>

\* The guest starts to read the test case of the execution in progress.
Attach ==
  /\ running # 0
  /\ feeding = 0
  /\ feeding' = running
  /\ UNCHANGED <<started, running, hits>>

\* The guest stops reading it: the epoch is over, or QEMU has died.
Detach ==
  /\ feeding # 0
  /\ feeding' = 0
  /\ UNCHANGED <<started, running, hits>>

\* Coverage is credited to the execution in progress: of the guest under
\* that execution, or of a guest that has not read any test case yet.
Credit ==
  /\ running # 0
  /\ \E p \in {0, running} : hits' = hits \union {<<running, p>>}
  /\ UNCHANGED <<started, running, feeding>>

\* The execution in progress ends, with the guest off its test case.
Finish ==
  /\ running # 0
  /\ feeding = 0
  /\ running' = 0
  /\ UNCHANGED <<started, feeding, hits>>

Next == Begin \/ Attach \/ Detach \/ Credit \/ Finish

Spec == Init /\ [][Next]_absVars
=============================================================================
