--------------------------- MODULE EpochIPCProofs ---------------------------
(***************************************************************************)
(* The inductive invariant of EpochIPC holds initially and is preserved,   *)
(* and the theorems that follow: its safety properties and the refinement  *)
(* of FuzzEpochs, for any number of executions, reads, dry runs and        *)
(* ap_log_pc calls.                                                        *)
(***************************************************************************)
EXTENDS EpochIPCInv, TLAPS


-----------------------------------------------------------------------------
(* Type correctness. *)

\* Initially all of the invariant holds.
LEMMA InitInv == Init => IInv
<1> SUFFICES ASSUME Init PROVE IInv
  BY Zenon
<1> USE ConstantsAssumption DEF ConstantsAssumption, Execs
<1>1. TypeOK
  <2>1. /\ 0 \in 0 .. MaxExec /\ 0 \in 0 .. DryRuns /\ 0 \in 0 .. MaxCrashes
        /\ 0 \in 0 .. (EpochReads - 1)
    OBVIOUS
  <2>2. ready \in [Execs -> BOOLEAN] /\ hits \subseteq (Execs \X (0 .. MaxExec))
    BY Zenon DEF Init
  <2>3. mode \in {"file", "direct"}
    BY Zenon DEF Init
  <2>4. /\ ap \in [Execs -> ApPoints]
        /\ ptThread \in [Execs -> {"null", "garbage", "running"}]
        /\ logged \in [Execs -> Nat]
        /\ semr \in [Execs -> Nat] /\ semw \in [Execs -> Nat]
        /\ type \in [Execs -> Types] /\ data \in [Execs -> 0 .. MaxExec]
        /\ path \in [Execs -> {"empty", "seed"}]
    BY <2>1, Zenon DEF Init, ApPoints, Types
  <2> QED
    BY <2>1, <2>2, <2>3, <2>4, Zenon DEF Init, TypeOK, QPoints
<1>2. Lifecycle
  <2>1. /\ fs = "idle" /\ exec = 0 /\ name = 0
        /\ \A e \in Execs : ap[e] = "none"
    BY Zenon DEF Init
  <2> QED
    BY <2>1 DEF Lifecycle, Bound
<1>3. Objects /\ Slot
  BY Zenon DEF Init, Objects, Slot, Engaged, Attached
<1>4. Live /\ Fed /\ Exact /\ Logged /\ Traced /\ Provenance
  BY Zenon DEF Init, Live, Fed, Exact, Logged, Traced, Provenance, Attached, Starting
<1> QED
  BY <1>1, <1>2, <1>3, <1>4, Zenon DEF IInv

\* What the processes leave alone.
LEMMA Frames ==
  /\ ForkServer => UNCHANGED <<stamps, mode, ptInit, logged, hits, shmVars, qemuVars>>
  /\ \A e \in Execs : ApStep(e) => UNCHANGED <<fs, exec, mode, ptInit, type, data, qemuVars>>
  /\ Qemu \/ Crash \/ Restart => UNCHANGED <<aflVars, apVars, name, path>>
<1>1. ForkServer => UNCHANGED <<stamps, mode, ptInit, logged, hits, shmVars, qemuVars>>
  BY Zenon DEF ForkServer, AflRequest, ForkChild, ReapChild, apVars
<1>2. \A e \in Execs : ApStep(e) => UNCHANGED <<fs, exec, mode, ptInit, type, data, qemuVars>>
  BY DEF ApStep, SkipDryRun, CreateOpen, SemInitR, SemInitW, SetPath, SetReady, WaitW,
         HandleCov, HandlePT, HandleExit, HandleOther, PostR, Unlink, StopPT, aflVars, shmVars
<1>3. Qemu \/ Crash \/ Restart => UNCHANGED <<aflVars, apVars, name, path>>
  BY Zenon DEF Qemu, CallInit, Read, ReadInEpoch, ReadEndsEpoch, ReadDetached, CallDirect,
         CallLogPC, CallAttachPT, CallRequest, Inside, Connect, ConnectFails, CheckReady,
         ReadSize, MapData, FillSlot, PostW, WaitR, UseData, ExitType, ExitUnready,
         ExitPost, ExitClose, Crash, Restart, shmVars, vars
<1> QED
  BY <1>1, <1>2, <1>3, Zenon

\* Every step keeps the types; of the rest of the invariant this needs only
\* that AFL does not ask for more than MaxExec executions.
LEMMA TypeStep == ASSUME TypeOK, Lifecycle, [Next]_vars PROVE TypeOK'
<1> USE ConstantsAssumption DEF ConstantsAssumption, TypeOK
<1>1. File \in 0 .. MaxExec
  BY DEF File, Lifecycle
<1>2. CASE ForkServer
  <2>1. exec' \in 0 .. MaxExec
    BY <1>2 DEF ForkServer, AflRequest, ForkChild, ReapChild, Lifecycle
  <2> QED
    BY <1>2, <2>1, Frames DEF ForkServer, AflRequest, ForkChild, ReapChild, ApPoints,
       apVars, shmVars, qemuVars
<1>3. ASSUME NEW e \in Execs, ApStep(e) PROVE TypeOK'
  <2> USE DEF ApGoto, ApPoints, Types, aflVars, apVars, shmVars, qemuVars
  <2>1. CASE SkipDryRun(e)
    BY <2>1 DEF SkipDryRun
  <2>2. e \in 0 .. MaxExec
    BY DEF Execs
  <2>3. CASE CreateOpen(e)
    BY <2>2, <2>3 DEF CreateOpen
  <2>4. CASE SemInitR(e) \/ SemInitW(e)
    BY <2>4 DEF SemInitR, SemInitW
  <2>5. CASE SetPath(e)
    BY <2>5 DEF SetPath
  <2>6. CASE SetReady(e)
    BY <2>6 DEF SetReady
  <2>7. CASE WaitW(e) 
    BY <2>7 DEF WaitW
  <2>8. CASE PostR(e)
    BY <2>8 DEF PostR
  <2>9. CASE HandleCov(e)
    BY <2>9 DEF HandleCov
  <2>10. CASE HandlePT(e) \/ HandleExit(e) \/ HandleOther(e)
    BY <2>10 DEF HandlePT, HandleExit, HandleOther
  <2>11. CASE Unlink(e) \/ StopPT(e)
    BY <2>11 DEF Unlink, StopPT
  <2> HIDE DEF TypeOK, ApPoints, Types, aflVars, apVars, shmVars, qemuVars
  <2> QED
    BY <1>3, <2>1, <2>3, <2>4, <2>7, <2>9, <2>10, <2>11, <2>5, <2>6, <2>8, Zenon DEF ApStep
<1>4. CASE Qemu \/ Crash \/ Restart
  <2> USE DEF QPoints, Types, aflVars, apVars, shmVars, qemuVars
  <2>1. CASE CallInit \/ Read \/ ReadDetached \/ CallDirect \/ CallLogPC \/ CallAttachPT
    BY <2>1 DEF CallInit, Read, ReadInEpoch, ReadEndsEpoch, ReadDetached, CallDirect,
       CallLogPC, CallAttachPT, CallRequest, vars
  <2>2. CASE Connect \/ ConnectFails \/ CheckReady \/ ReadSize \/ MapData
    BY <1>1, <2>2 DEF Connect, ConnectFails, CheckReady, ReadSize, MapData, vars
  <2>3. CASE FillSlot \/ PostW
    BY <2>3 DEF FillSlot, PostW, TypeOf
  <2>4. CASE WaitR \/ UseData
    BY <2>4 DEF WaitR, AfterReattach, UseData
  <2>5. CASE ExitType
    BY <2>5, ZenonT(30) DEF ExitType
  <2>6. CASE ExitUnready
    BY <2>6, ZenonT(30) DEF ExitUnready
  <2>7. CASE ExitPost \/ ExitClose
    BY <2>7 DEF ExitPost, ExitClose
  <2>8. CASE Crash \/ Restart
    BY <2>8 DEF Crash, Restart
  <2> HIDE DEF TypeOK, QPoints, Types, aflVars, apVars, shmVars, qemuVars
  <2> QED
    BY <1>4, <2>1, <2>2, <2>3, <2>4, <2>5, <2>8, <2>6, <2>7, Zenon DEF Qemu, Inside
<1>5. CASE UNCHANGED vars
  BY <1>5 DEF vars, aflVars, apVars, shmVars, qemuVars
<1> HIDE DEF TypeOK
<1> QED
  BY <1>2, <1>3, <1>4, <1>5, Zenon DEF Next

-----------------------------------------------------------------------------
(* What one step of the fork server or of ap changes, and from that the    *)
(* inductive step for Lifecycle (executions are strictly sequential) and   *)
(* Objects (an object is untouched until its ap has set ready).            *)

\* An ap that runs is the one the fork server waits for.
LEMMA AliveIsCurrent ==
  ASSUME TypeOK, Lifecycle, NEW e \in Execs, ap[e] \notin {"none", "exited"}
  PROVE  e = exec /\ fs = "wait"
<1>1. exec \in Nat /\ e \in Nat /\ e > 0
  <2>1. exec \in 0..MaxExec /\ e \in 1..MaxExec
    BY Zenon DEF TypeOK, Execs
  <2>2. QED
    BY <2>1
<1>2. ~(e > exec) /\ ~(e < exec)
  BY Zenon DEF Lifecycle
<1>3. e = exec /\ exec > 0
  BY <1>1, <1>2
<1>4. QED
  BY <1>3, Zenon DEF Lifecycle

\* What a step of the fork server changes in the entries of an ap.
LEMMA ForkEffect ==
  ASSUME TypeOK, Lifecycle, ForkServer
  PROVE  \A e \in Execs :
           \/ ap'[e] = ap[e] /\ ptThread'[e] = ptThread[e]
           \/ ap[e] = "none" /\ ap'[e] = "start" /\ ptThread'[e] = ptInit
<1>1. \A e \in Execs : e = exec + 1 => ap[e] = "none"
  BY DEF Lifecycle, TypeOK, Execs
<1>2. CASE AflRequest \/ ReapChild
  BY <1>2, Zenon DEF AflRequest, ReapChild, apVars
<1>3. CASE ForkChild
  BY <1>1, <1>3, SMTT(30) DEF ForkChild, TypeOK
<1> QED
  BY <1>2, <1>3, Zenon DEF ForkServer

\* What a step of ap changes in its own entries of the functions.
SemsSame(e) == semr'[e] = semr[e] /\ semw'[e] = semw[e]
ObjectSame(e) == path'[e] = path[e] /\ ready'[e] = ready[e]
TellsSame(e) == logged'[e] = logged[e] /\ ptThread'[e] = ptThread[e]
\* ... before it serves,
OwnStart(e) ==
  /\ TellsSame(e)
  /\ \/ /\ ap[e] = "start" /\ ap'[e] \in {"exited", "semr"}
        /\ SemsSame(e) /\ ObjectSame(e)
     \/ /\ ap[e] = "semr" /\ ap'[e] = "semw"
        /\ semr'[e] = 0 /\ semw'[e] = semw[e] /\ ObjectSame(e)
     \/ /\ ap[e] = "semw" /\ ap'[e] = "path"
        /\ semr'[e] = semr[e] /\ semw'[e] = 0 /\ ObjectSame(e)
     \/ /\ ap[e] = "path" /\ ap'[e] = "ready" /\ SemsSame(e)
        /\ ready'[e] = ready[e] /\ (mode = "file" => path'[e] = "seed")
     \/ /\ ap[e] = "ready" /\ ap'[e] = "wait" /\ SemsSame(e)
        /\ ready'[e] /\ path'[e] = path[e]

\* ... while it serves,
OwnServe(e) ==
  /\ ObjectSame(e)
  /\ \/ /\ ap[e] = "wait" /\ ap'[e] = "handle" /\ TellsSame(e)
        /\ semw[e] > 0 /\ semw'[e] = semw[e] - 1 /\ semr'[e] = semr[e]
     \/ /\ ap[e] = "handle" /\ ap'[e] = "post" /\ SemsSame(e)
        /\ type[e] = "cov" /\ logged'[e] = logged[e] + 1 /\ ptThread'[e] = ptThread[e]
     \/ /\ ap[e] = "handle" /\ ap'[e] = "post" /\ SemsSame(e)
        /\ type[e] = "pt" /\ logged'[e] = logged[e]
        /\ ptThread'[e] = IF ptThread[e] = "null" THEN "running" ELSE ptThread[e]
     \/ /\ ap[e] = "post" /\ ap'[e] = "wait" /\ TellsSame(e)
        /\ semw'[e] = semw[e] /\ semr'[e] = semr[e] + 1

\* ... and on its way out.
OwnEnd(e) ==
  /\ ObjectSame(e) /\ semw'[e] = semw[e] /\ logged'[e] = logged[e]
  /\ \/ /\ ap[e] = "handle" /\ ap'[e] = "last" /\ type[e] = "exit"
        /\ ptThread'[e] = ptThread[e]
     \/ /\ ap[e] = "handle" /\ ap'[e] = "exited" /\ type[e] \notin {"cov", "pt", "exit"}
        /\ ptThread'[e] = "null"
     \/ ap[e] = "last" /\ ap'[e] = "unlink" /\ ptThread'[e] = ptThread[e]
     \/ ap[e] = "unlink" /\ ap'[e] = "stop" /\ ptThread'[e] = ptThread[e]
     \/ ap[e] = "stop" /\ ap'[e] = "exited" /\ ptThread'[e] = "null"

OwnEffect(e) == OwnStart(e) \/ OwnServe(e) \/ OwnEnd(e)

\* What one statement of an ap can do to the shared state: it moves itself, its
\* own object, the name and its own PT session, never another ap's.
LEMMA ApEffect ==
  ASSUME TypeOK, NEW e \in Execs, ApStep(e)
  PROVE  /\ OwnEffect(e)
         /\ \A f \in Execs \ {e} :
              UNCHANGED <<ap[f], ptThread[f], logged[f], semr[f], semw[f], path[f], ready[f]>>
<1> DEFINE Others == \A f \in Execs \ {e} :
             UNCHANGED <<ap[f], ptThread[f], logged[f], semr[f], semw[f], path[f], ready[f]>>
<1> USE DEF SemsSame, ObjectSame, TellsSame, ApGoto, TypeOK, aflVars, shmVars
<1>1. SkipDryRun(e) => OwnStart(e) /\ Others
  BY Zenon DEF SkipDryRun, OwnStart
<1>2. CreateOpen(e) => OwnStart(e) /\ Others
  BY Zenon DEF CreateOpen, OwnStart
<1>3. SemInitR(e) => OwnStart(e) /\ Others
  BY Zenon DEF SemInitR, OwnStart
<1>4. SemInitW(e) => OwnStart(e) /\ Others
  BY DEF SemInitW, OwnStart
<1>5. SetPath(e) => OwnStart(e) /\ Others
  BY DEF SetPath, OwnStart
<1>6. SetReady(e) => OwnStart(e) /\ Others
  BY DEF SetReady, OwnStart
<1>7. WaitW(e) => OwnServe(e) /\ Others
  BY Zenon DEF WaitW, OwnServe
<1>8. HandleCov(e) => OwnServe(e) /\ Others
  BY Zenon DEF HandleCov, OwnServe
<1>9. HandlePT(e) => OwnServe(e) /\ Others
  BY Zenon DEF HandlePT, OwnServe
<1>10. HandleExit(e) => OwnEnd(e) /\ Others
  BY Zenon DEF HandleExit, OwnEnd
<1>11. HandleOther(e) => OwnEnd(e) /\ Others
  BY Zenon DEF HandleOther, OwnEnd
<1>12. Unlink(e) => OwnEnd(e) /\ Others
  BY Zenon DEF Unlink, OwnEnd
<1>13. StopPT(e) => OwnEnd(e) /\ Others
  BY DEF StopPT, OwnEnd
<1>14. PostR(e) => (OwnServe(e) \/ OwnEnd(e)) /\ Others
  BY Zenon DEF PostR, OwnServe, OwnEnd
<1> HIDE DEF Others, SemsSame, ObjectSame, TellsSame, ApGoto, TypeOK, aflVars, shmVars
<1>15. OwnEffect(e) /\ Others
  BY <1>1, <1>2, <1>3, <1>4, <1>5, <1>6, <1>7, <1>8, <1>9, <1>10, <1>11, <1>12, <1>13, <1>14, Zenon
     DEF ApStep, OwnEffect
<1> QED
  BY <1>15, Zenon DEF Others

\* What that means for an object: it is untouched until ready is set, and
\* its path and its flag do not change afterwards.
LEMMA ApStarts ==
  ASSUME NEW e \in Execs, OwnEffect(e)
  PROVE  /\ ap[e] \notin Starting => ap'[e] \notin Starting /\ ObjectSame(e)
         /\ ap'[e] \in Starting =>
              /\ ap[e] \in Starting /\ ready'[e] = ready[e] /\ logged'[e] = logged[e]
              /\ semr'[e] \in {0, semr[e]} /\ semw'[e] \in {0, semw[e]}
<1>1. OwnStart(e) => ap[e] \in Starting
  BY Zenon DEF OwnStart, Starting
<1>2. OwnStart(e) /\ ap'[e] \in Starting =>
        /\ ready'[e] = ready[e] /\ logged'[e] = logged[e]
        /\ semr'[e] \in {0, semr[e]} /\ semw'[e] \in {0, semw[e]}
  BY Zenon DEF OwnStart, Starting, SemsSame, ObjectSame, TellsSame
<1>3. OwnServe(e) => ap'[e] \notin Starting /\ ObjectSame(e)
  BY Zenon DEF OwnServe, Starting
<1>4. OwnEnd(e) => ap'[e] \notin Starting /\ ObjectSame(e)
  BY Zenon DEF OwnEnd, Starting
<1> QED
  BY <1>1, <1>2, <1>3, <1>4, Zenon DEF OwnEffect

\* ready is set by SetReady alone, and only then does ap serve.
LEMMA ApSetsReady ==
  ASSUME NEW e \in Execs, OwnEffect(e)
  PROVE  /\ ~ready[e] /\ ready'[e] =>
              ap[e] = "ready" /\ ap'[e] = "wait" /\ path'[e] = path[e] /\ SemsSame(e) /\ TellsSame(e)
         /\ mode = "file" /\ ap'[e] = "ready" => path'[e] = "seed"
<1>1. OwnStart(e) /\ ~ready[e] /\ ready'[e] =>
        ap[e] = "ready" /\ ap'[e] = "wait" /\ path'[e] = path[e] /\ SemsSame(e) /\ TellsSame(e)
  BY Zenon DEF OwnStart, ObjectSame
<1>2. OwnServe(e) \/ OwnEnd(e) => ready'[e] = ready[e]
  BY Zenon DEF OwnServe, OwnEnd, ObjectSame
<1>3. OwnStart(e) /\ mode = "file" /\ ap'[e] = "ready" => path'[e] = "seed"
  BY Zenon DEF OwnStart
<1>4. OwnServe(e) \/ OwnEnd(e) => ap'[e] # "ready"
  BY Zenon DEF OwnServe, OwnEnd
<1> QED
  BY <1>1, <1>2, <1>3, <1>4, Zenon DEF OwnEffect

\* ap leaves sem_wait with a token, and uses no more than that one.
LEMMA ApTakesToken ==
  ASSUME NEW e \in Execs, OwnEffect(e), semw[e] \in Nat
  PROVE  /\ ap[e] = "wait" => semw[e] > 0
         /\ ap'[e] = "handle" => semw[e] > 0
         /\ semw[e] = 0 => semw'[e] = 0
<1>1. OwnStart(e) => ap[e] # "wait" /\ ap'[e] # "handle" /\ semw'[e] \in {0, semw[e]}
  BY Zenon DEF OwnStart, SemsSame
<1>2. OwnServe(e) =>
        /\ ap[e] = "wait" \/ ap'[e] = "handle" => semw[e] > 0
        /\ semw'[e] = semw[e] \/ semw[e] > 0
  BY Zenon DEF OwnServe, SemsSame
<1>3. OwnEnd(e) => ap[e] # "wait" /\ ap'[e] # "handle" /\ semw'[e] = semw[e]
  BY Zenon DEF OwnEnd
<1> QED
  BY <1>1, <1>2, <1>3 DEF OwnEffect

\* ap goes on serving unless the request it handles tells it to exit.
LEMMA ApKeepsServing ==
  ASSUME NEW e \in Execs, OwnEffect(e), Serving(e), ~Serving(e)'
  PROVE  ap[e] = "handle" /\ type[e] \notin {"cov", "pt"}
<1>1. ~OwnStart(e)
  BY Zenon DEF OwnStart, Serving
<1>2. ~OwnServe(e)
  BY Zenon DEF OwnServe, Serving
<1>3. OwnEnd(e) => ap[e] = "handle" /\ type[e] \notin {"cov", "pt"}
  BY Zenon DEF OwnEnd, Serving
<1> QED
  BY <1>1, <1>2, <1>3, Zenon DEF OwnEffect

\* Serving the one request in flight: where it goes next and what it leaves.
LEMMA ApServes ==
  ASSUME NEW e \in Execs, OwnEffect(e), OneInFlight(e), type[e] \in {"cov", "pt"}
  PROVE  \/ /\ ap[e] = "wait" /\ semw[e] = 1 /\ semr[e] = 0
            /\ ap'[e] = "handle" /\ semw'[e] = 0 /\ semr'[e] = 0 /\ TellsSame(e)
         \/ /\ ap[e] = "handle" /\ semw[e] = 0 /\ semr[e] = 0
            /\ ap'[e] = "post" /\ semw'[e] = 0 /\ semr'[e] = 0
            /\ logged'[e] = IF type[e] = "cov" THEN logged[e] + 1 ELSE logged[e]
            /\ type[e] = "cov" => ptThread'[e] = ptThread[e]
            /\ type[e] = "pt" => ptThread'[e] = IF ptThread[e] = "null" THEN "running" ELSE ptThread[e]
         \/ /\ ap[e] = "post" /\ semw[e] = 0 /\ semr[e] = 0
            /\ ap'[e] = "wait" /\ semw'[e] = 0 /\ semr'[e] = 1 /\ TellsSame(e)
<1>1. OwnServe(e)
  <2>1. ~OwnStart(e)
    BY Zenon DEF OwnStart, OneInFlight
  <2>2. ~OwnEnd(e)
    BY Zenon DEF OwnEnd, OneInFlight
  <2> QED
    BY <2>1, <2>2, Zenon DEF OwnEffect
<1>2. CASE ap[e] = "wait"
  BY <1>1, <1>2 DEF OwnServe, OneInFlight
<1>3. CASE ap[e] = "handle"
  BY <1>1, <1>3, Zenon DEF OwnServe, OneInFlight, SemsSame
<1>4. CASE ap[e] = "post"
  <2>1. semw[e] = 0 /\ semr[e] = 0
    BY <1>4, Zenon DEF OneInFlight
  <2>2. ap'[e] = "wait" /\ TellsSame(e) /\ semw'[e] = semw[e] /\ semr'[e] = semr[e] + 1
    BY <1>1, <1>4, Zenon DEF OwnServe
  <2>3. semw'[e] = 0 /\ semr'[e] = 1
    BY <2>1, <2>2
  <2> QED
    BY <1>4, <2>1, <2>2, <2>3, Zenon
<1> QED
  BY <1>2, <1>3, <1>4, Zenon DEF OneInFlight

\* The PT thread: made by ap while it serves, and gone when ap is.
LEMMA ApTraces ==
  ASSUME NEW e \in Execs, OwnEffect(e)
  PROVE  /\ ap'[e] = "exited" => ptThread'[e] = "null" \/ (ap[e] = "start" /\ ptThread'[e] = ptThread[e])
         /\ ap'[e] # "exited" => ptThread'[e] = ptThread[e]
                                 \/ (ap'[e] = "post" /\ ptThread[e] = "null" /\ ptThread'[e] = "running")
<1>1. OwnStart(e) => ptThread'[e] = ptThread[e] /\ (ap'[e] = "exited" => ap[e] = "start")
  BY Zenon DEF OwnStart, TellsSame
<1>2. OwnServe(e) =>
        /\ ap'[e] # "exited"
        /\ \/ ptThread'[e] = ptThread[e]
           \/ ap'[e] = "post" /\ ptThread[e] = "null" /\ ptThread'[e] = "running"
  BY Zenon DEF OwnServe, TellsSame
<1>3. OwnEnd(e) => ptThread'[e] = IF ap'[e] = "exited" THEN "null" ELSE ptThread[e]
  BY Zenon DEF OwnEnd
<1> QED
  BY <1>1, <1>2, <1>3, Zenon DEF OwnEffect

\* The steps that ap takes through its life, and the name.
LEMMA ApMoves ==
  ASSUME TypeOK, NEW e \in Execs, ApStep(e)
  PROVE  /\ ap[e] \notin {"none", "exited"}
         /\ ap'[e] # "none"
         /\ \A f \in Execs \ {e} : ap'[f] = ap[f]
         /\ ap'[e] \in Bound => name' = e \/ (ap[e] \in Bound /\ name' = name)
<1>1. /\ ap[e] \notin {"none", "exited"} /\ ap'[e] # "none"
      /\ \A f \in Execs \ {e} : ap'[f] = ap[f]
      /\ ap'[e] \in Bound => ap'[e] = "semr" \/ ap[e] \in Bound
  <2>1. OwnStart(e) \/ OwnServe(e) \/ OwnEnd(e)
    BY ApEffect, Zenon DEF OwnEffect
  <2>2. OwnStart(e) => /\ ap[e] \notin {"none", "exited"} /\ ap'[e] # "none"
                       /\ ap'[e] \in Bound => ap'[e] = "semr" \/ ap[e] \in Bound
    BY Zenon DEF OwnStart, Bound
  <2>3. OwnServe(e) => ap[e] \notin {"none", "exited"} /\ ap'[e] # "none" /\ ap[e] \in Bound
    BY Zenon DEF OwnServe, Bound
  <2>4. OwnEnd(e) => /\ ap[e] \notin {"none", "exited"} /\ ap'[e] # "none"
                     /\ ap'[e] \in Bound => ap[e] \in Bound
    BY Zenon DEF OwnEnd, Bound
  <2>5. \A f \in Execs \ {e} : ap'[f] = ap[f]
    BY ApEffect, Zenon
  <2> QED
    BY <2>1, <2>2, <2>3, <2>4, <2>5, Zenon
<1>2. name' = name \/ CreateOpen(e) \/ Unlink(e)
  BY Zenon DEF ApStep, SkipDryRun, SemInitR, SemInitW, SetPath, SetReady, WaitW, HandleCov, HandlePT,
     HandleExit, HandleOther, PostR, StopPT, shmVars
<1>3. CreateOpen(e) => name' = e
  BY Zenon DEF CreateOpen
<1>4. Unlink(e) => ap'[e] = "stop"
  BY Zenon DEF Unlink, ApGoto, TypeOK
<1>5. ap'[e] = "semr" => CreateOpen(e)
  BY Zenon DEF TypeOK, ApStep, SkipDryRun, SemInitR, SemInitW, SetPath, SetReady, WaitW, HandleCov,
     HandlePT, HandleExit, HandleOther, PostR, Unlink, StopPT, ApGoto
<1> QED
  BY <1>1, <1>2, <1>3, <1>4, <1>5, Zenon DEF Bound

\* The fork server has at most one ap alive, and every step keeps it so.
LEMMA LifecycleStep == ASSUME TypeOK, Lifecycle, [Next]_vars PROVE Lifecycle'
<1> USE ConstantsAssumption DEF ConstantsAssumption
<1>1. CASE AflRequest
  BY <1>1, Zenon DEF AflRequest, Lifecycle, apVars, shmVars
<1>2. CASE ForkChild
  <2>1. fs' = "wait" /\ exec' = exec + 1 /\ exec' \in Execs /\ name' = name
    BY <1>2 DEF ForkChild, Lifecycle, TypeOK, Execs, shmVars
  <2>2. \A f \in Execs : ap'[f] = IF f = exec' THEN "start" ELSE ap[f]
    BY <1>2, <2>1, Zenon DEF ForkChild, TypeOK
  <2>3. \A f \in Execs : f < exec' => ap'[f] = "exited"
    <3>1. \A f \in Execs : f <= exec => ap[f] = "exited"
      BY <1>2 DEF ForkChild, Lifecycle, TypeOK, Execs
    <3> QED
      BY <2>1, <2>2, <3>1 DEF TypeOK, Execs
  <2>4. \A f \in Execs : f > exec' => ap'[f] = "none"
    BY <2>1, <2>2 DEF Lifecycle, TypeOK, Execs
  <2>5. \A f \in Execs : ap'[f] \in Bound => name' = f
    BY <2>1, <2>2, Zenon DEF Lifecycle, Bound
  <2> QED
    BY <2>1, <2>3, <2>4, <2>5 DEF Lifecycle, Execs
<1>3. CASE ReapChild
  BY <1>3, Zenon DEF ReapChild, Lifecycle, apVars, shmVars
<1>4. ASSUME NEW e \in Execs, ApStep(e) PROVE Lifecycle'
  <2>1. e = exec /\ fs = "wait"
    BY <1>4, ApMoves, AliveIsCurrent, Zenon
  <2>2. UNCHANGED <<fs, exec>>
    BY <1>4, Frames, Zenon
  <2>3. \A f \in Execs : ap'[f] \in Bound => name' = f
    <3>1. \A f \in Execs \ {e} : ap[f] \in {"none", "exited"}
      BY <2>1, AliveIsCurrent, Zenon
    <3>2. \A f \in Execs \ {e} : ap'[f] \notin Bound
      BY <1>4, <3>1, ApMoves, Zenon DEF Bound
    <3>3. ap'[e] \in Bound => name' = e
      BY <1>4, ApMoves, Zenon DEF Lifecycle
    <3> QED
      BY <3>2, <3>3, Zenon
  <2> QED
    BY <1>4, <2>1, <2>2, <2>3, ApMoves, Zenon DEF Lifecycle, TypeOK, Execs
<1>5. CASE Qemu \/ Crash \/ Restart
  BY <1>5, Frames, Zenon DEF Lifecycle, aflVars, apVars
<1>6. CASE UNCHANGED vars
  BY <1>6, Zenon DEF Lifecycle, vars, aflVars, apVars, shmVars
<1> QED
  BY <1>1, <1>2, <1>3, <1>4, <1>5, <1>6, Zenon DEF Next, ForkServer

\* QEMU's deaths are only ever counted up (Crash is the only action that does).
LEMMA CrashesGrow == ASSUME TypeOK, [Next]_vars PROVE crashes \in Nat /\ crashes' \in Nat /\ crashes <= crashes'
<1> USE ConstantsAssumption DEF ConstantsAssumption
<1>1. crashes' = crashes \/ crashes' = crashes + 1
  BY Frames, Zenon DEF Next, Qemu, CallInit, Read, ReadInEpoch, ReadEndsEpoch, ReadDetached, CallDirect,
     CallLogPC, CallAttachPT, CallRequest, Inside, Connect, ConnectFails, CheckReady,
     ReadSize, MapData, FillSlot, PostW, WaitR, UseData, ExitType, ExitUnready,
     ExitPost, ExitClose, Crash, Restart, vars, qemuVars
<1> QED
  BY <1>1 DEF TypeOK

\* Nobody touches an object before its ap has set ready.
LEMMA ObjectsStep == ASSUME TypeOK, Lifecycle, Objects, [Next]_vars PROVE Objects'
<1> USE ConstantsAssumption DEF ConstantsAssumption
<1>1. CASE ForkServer
  <2>1. /\ UNCHANGED <<mode, logged, shmVars, qemuVars>>
        /\ \A e \in Execs : ap'[e] = ap[e] \/ (ap[e] = "none" /\ ap'[e] = "start")
    BY <1>1, Frames, ForkEffect, Zenon
  <2> QED
    BY <2>1, Zenon DEF Objects, Engaged, Attached, Starting, shmVars, qemuVars
<1>2. ASSUME NEW e \in Execs, ApStep(e) PROVE Objects'
  <2>1. OwnEffect(e)
    BY <1>2, ApEffect, Zenon
  <2>2. UNCHANGED <<mode, type, qemuVars>>
    BY <1>2, Frames, Zenon
  <2>3. \A f \in Execs \ {e} : UNCHANGED <<ap[f], ready[f], semr[f], semw[f], logged[f], path[f]>>
    BY <1>2, ApEffect
  <2>4. ap[e] \notin Starting => ap'[e] \notin Starting /\ path'[e] = path[e] /\ ready'[e] = ready[e]
    BY <2>1, ApStarts, Zenon DEF ObjectSame
  <2>5. ap'[e] \in Starting => ~ready'[e] /\ semr'[e] = 0 /\ semw'[e] = 0 /\ logged'[e] = 0 /\ type[e] = "none"
    <3>1. ap'[e] \in Starting =>
            /\ ap[e] \in Starting /\ ready'[e] = ready[e] /\ logged'[e] = logged[e]
            /\ semr'[e] \in {0, semr[e]} /\ semw'[e] \in {0, semw[e]}
      BY <2>1, ApStarts, Zenon
    <3> QED
      BY <3>1, Zenon DEF Objects
  <2>6. (mode = "file" /\ (ready'[e] \/ ap'[e] = "ready")) => path'[e] = "seed"
    <3>1. /\ ~ready[e] /\ ready'[e] => ap[e] = "ready" /\ path'[e] = path[e]
          /\ mode = "file" /\ ap'[e] = "ready" => path'[e] = "seed"
      BY <2>1, ApSetsReady, Zenon
    <3>2. ready[e] => ap[e] \notin Starting
      BY Zenon DEF Objects
    <3> QED
      BY <2>4, <3>1, <3>2, Zenon DEF Objects
  <2> QED
    BY <2>2, <2>3, <2>4, <2>5, <2>6 DEF Objects, Engaged, Attached, qemuVars
<1>3. CASE Qemu \/ Crash \/ Restart
  <2>1. UNCHANGED <<mode, ap, logged, path>>
    BY <1>3, Frames, Zenon DEF aflVars, apVars
  <2> USE <2>1 DEF Objects, Engaged, Attached
  <2>2. CASE CallInit \/ Read \/ ReadDetached \/ CallDirect \/ CallLogPC \/ CallAttachPT
    BY <2>2 DEF CallInit, Read, ReadInEpoch, ReadEndsEpoch, ReadDetached, CallDirect,
       CallLogPC, CallAttachPT, CallRequest, vars, shmVars, qemuVars
  <2>3. CASE Connect \/ ConnectFails
    <3>1. Connect => name \in Execs
      BY DEF Connect, TypeOK, Execs
    <3> QED
      BY <2>3, <3>1 DEF Connect, ConnectFails, vars, shmVars, qemuVars
  <2>4. CASE CheckReady
    BY <2>4, Zenon DEF CheckReady, shmVars
  <2>5. CASE ReadSize \/ MapData \/ UseData \/ ExitClose \/ Crash \/ Restart
    BY <2>5 DEF ReadSize, MapData, UseData, ExitClose, Crash, Restart, shmVars
  <2>6. CASE FillSlot \/ ExitType
    BY <2>6 DEF FillSlot, ExitType, TypeOK
  <2>7. CASE PostW \/ ExitPost
    BY <2>7 DEF PostW, ExitPost, TypeOK
  <2>8. CASE WaitR
    BY <2>8 DEF WaitR, AfterReattach, TypeOK
  <2>9. CASE ExitUnready
    BY <2>9 DEF ExitUnready, TypeOK
  <2> QED
    BY <1>3, <2>2, <2>3, <2>4, <2>5, <2>6, <2>7, <2>8, <2>9, Zenon DEF Qemu, Inside
<1>4. CASE UNCHANGED vars
  BY <1>4, Zenon DEF Objects, Engaged, Attached, vars, aflVars, apVars, shmVars, qemuVars
<1> QED
  BY <1>1, <1>2, <1>3, <1>4, Zenon DEF Next

-----------------------------------------------------------------------------
(* The inductive step for Slot, Live and Exact: the discipline of the ready *)
(* flag and of the two semaphores.                                         *)

\* With an input file nobody asks for data directly, no token is posted for an
\* empty slot, and a posted slot holds the type of the request being made.
LEMMA SlotStep == ASSUME TypeOK, Objects, Slot, [Next]_vars PROVE Slot'
<1> SUFFICES ASSUME mode = "file", mode' = "file" PROVE Slot'
  <2>1. mode' = mode
    BY Frames, Zenon DEF Next, aflVars, vars
  <2> QED
    BY <2>1, Zenon DEF Slot
<1>1. CASE ForkServer
  <2>1. /\ UNCHANGED <<shmVars, qemuVars>>
        /\ \A e \in Execs : ap'[e] \in {ap[e], "start"}
    BY <1>1, Frames, Zenon DEF ForkServer, AflRequest, ForkChild, ReapChild, apVars, TypeOK
  <2> QED
    BY <2>1, Zenon DEF Slot, TypeOf, shmVars, qemuVars
<1>2. ASSUME NEW e \in Execs, ApStep(e) PROVE Slot'
  <2>1. OwnEffect(e)
    BY <1>2, ApEffect, Zenon
  <2>2. UNCHANGED <<type, qemuVars>>
    BY <1>2, Frames, Zenon
  <2>3. \A f \in Execs \ {e} : UNCHANGED <<ap[f], semw[f]>>
    BY <1>2, ApEffect, Zenon
  <2>4. type[e] = "none" => semw'[e] = 0 /\ ap'[e] # "handle"
    <3>1. semw[e] \in Nat
      BY Zenon DEF TypeOK
    <3>2. (ap'[e] = "handle" => semw[e] > 0) /\ (semw[e] = 0 => semw'[e] = 0)
      BY <2>1, <3>1, ApTakesToken, Zenon
    <3> QED
      BY <3>1, <3>2 DEF Slot
  <2> QED
    BY <2>2, <2>3, <2>4, Zenon DEF Slot, TypeOf, qemuVars
<1>3. CASE Qemu \/ Crash \/ Restart
  <2>1. UNCHANGED <<ap, path>>
    BY <1>3, Frames, Zenon DEF apVars
  <2> USE <2>1 DEF Slot, TypeOf
  <2>2. CASE CallDirect
    BY <2>2, Zenon DEF CallDirect, Objects, Engaged, Attached
  <2>3. CASE CallInit \/ Read \/ ReadDetached \/ CallLogPC \/ CallAttachPT
    BY <2>3, Zenon DEF CallInit, Read, ReadInEpoch, ReadEndsEpoch, ReadDetached,
       CallLogPC, CallAttachPT, CallRequest, vars, shmVars, qemuVars
  <2>4. CASE Connect \/ ConnectFails \/ CheckReady \/ ReadSize \/ MapData
    BY <2>4, Zenon DEF Connect, ConnectFails, CheckReady, ReadSize, MapData, vars, shmVars, qemuVars
  <2>5. CASE UseData \/ ExitUnready \/ ExitClose \/ Crash \/ Restart
    BY <2>5, Zenon DEF UseData, ExitUnready, ExitClose, Crash, Restart, shmVars
  <2>6. CASE FillSlot
    BY <2>6 DEF FillSlot, TypeOK, Objects, Engaged, Attached
  <2>7. CASE ExitType
    BY <2>7, Zenon DEF ExitType, TypeOK, Objects, Engaged, Attached
  <2>8. CASE PostW \/ ExitPost
    BY <2>8 DEF PostW, ExitPost, TypeOK
  <2>9. CASE WaitR
    BY <2>9, Zenon DEF WaitR, AfterReattach, TypeOK
  <2> QED
    BY <1>3, <2>2, <2>3, <2>4, <2>5, <2>6, <2>7, <2>8, <2>9, Zenon DEF Qemu, Inside
<1>4. CASE UNCHANGED vars
  BY <1>4, Zenon DEF Slot, TypeOf, vars, apVars, shmVars, qemuVars
<1> QED
  BY <1>1, <1>2, <1>3, <1>4, Zenon DEF Next

\* The step that matters is a death of QEMU between the two writes of ap_exit:
\* nothing is pending then, because no QEMU has died before.
LEMMA LiveStep ==
  ASSUME TypeOK, Lifecycle, Objects, Slot, Live, Exact, [Next]_vars PROVE Live'
<1> SUFFICES ASSUME mode = "file", mode' = "file", crashes <= 1, crashes' <= 1 PROVE Live'
  <2>1. mode' = mode
    BY Frames, Zenon DEF Next, aflVars, vars
  <2>2. crashes' <= 1 => crashes <= 1
    BY CrashesGrow
  <2> QED
    BY <2>1, <2>2, Zenon DEF Live
<1>1. CASE ForkServer
  <2>1. /\ UNCHANGED <<shmVars, qemuVars>>
        /\ \A e \in Execs : ap'[e] = ap[e] \/ ap[e] = "none"
    BY <1>1, Frames, ForkEffect, Zenon
  <2> QED
    BY <2>1, Zenon DEF Live, Objects, Starting, Attached, Serving, NoExitPending, shmVars, qemuVars
<1>2. ASSUME NEW e \in Execs, ApStep(e) PROVE Live'
  <2>1. OwnEffect(e)
    BY <1>2, ApEffect, Zenon
  <2>2. UNCHANGED <<type, qemuVars>>
    BY <1>2, Frames, Zenon
  <2>3. \A f \in Execs \ {e} : UNCHANGED <<ap[f], semw[f], ready[f]>>
    BY <1>2, ApEffect, Zenon
  <2>4. ready[e] => ready'[e] /\ (Serving(e) /\ NoExitPending(e) => Serving(e)' /\ NoExitPending(e)')
    <3>1. ready[e] => ready'[e]
      <4>1. ready[e] => ap[e] \notin Starting
        BY Zenon DEF Objects
      <4> QED
        BY <2>1, <4>1, ApStarts, Zenon DEF ObjectSame
    <3>2. semw[e] \in Nat
      BY Zenon DEF TypeOK
    <3>3. /\ ap'[e] = "handle" => semw[e] > 0
          /\ semw[e] = 0 => semw'[e] = 0
      BY <2>1, <3>2, ApTakesToken, Zenon
    <3>4. NoExitPending(e) => NoExitPending(e)'
      BY <2>2, <3>2, <3>3 DEF NoExitPending
    <3>5. Serving(e) /\ NoExitPending(e) => Serving(e)'
      <4>1. ap[e] = "handle" /\ NoExitPending(e) => type[e] \in {"cov", "pt"}
        BY Zenon DEF Slot, Types, TypeOK, NoExitPending
      <4> QED
        BY <2>1, <4>1, ApKeepsServing, Zenon
    <3> QED
      BY <3>1, <3>4, <3>5, Zenon
  <2>5. ~ready[e] /\ ready'[e] => ap[e] = "ready" /\ ap'[e] = "wait" /\ semw'[e] = semw[e]
    BY <2>1, ApSetsReady, Zenon DEF SemsSame
  <2>6. \A f \in Execs : ready'[f] => (Serving(f)' /\ NoExitPending(f)') \/ (sm = f /\ q = "unready")
    BY <2>2, <2>3, <2>4, <2>5 DEF Live, Objects, Starting, Serving, NoExitPending
  <2>7. Attached => ready'[sm]
    BY <2>3, <2>4, Zenon DEF Live, Objects, Engaged
  <2> QED
    BY <2>2, <2>6, <2>7, Zenon DEF Live, Attached, qemuVars
<1>3. CASE Qemu \/ Crash \/ Restart
  <2>1. UNCHANGED <<ap, path>>
    BY <1>3, Frames, Zenon DEF apVars
  <2> USE <2>1 DEF Live, Attached, Serving, NoExitPending
  <2>2. CASE CallInit \/ Read \/ ReadDetached \/ CallDirect \/ CallLogPC \/ CallAttachPT
    BY <2>2, Zenon DEF CallInit, Read, ReadInEpoch, ReadEndsEpoch, ReadDetached, CallDirect,
       CallLogPC, CallAttachPT, CallRequest, vars, shmVars, qemuVars
  <2>3. CASE Connect \/ ConnectFails \/ CheckReady \/ ReadSize \/ MapData
    BY <2>3, Zenon DEF Connect, ConnectFails, CheckReady, ReadSize, MapData, vars, shmVars, qemuVars
  <2>4. CASE UseData \/ ExitClose \/ Restart
    BY <2>4 DEF UseData, ExitClose, Restart, Objects, Engaged, shmVars
  <2>5. CASE Crash
    <3>1. crashes = 0
      BY <2>5, CrashesGrow DEF Crash
    <3> QED
      BY <2>5, <3>1, Zenon DEF Crash, Exact, shmVars
  <2>6. CASE FillSlot
    BY <2>6, Zenon DEF FillSlot, TypeOf, TypeOK, Slot
  <2>7. CASE ExitType
    BY <2>7, Zenon DEF ExitType, TypeOK
  <2>8. CASE ExitUnready
    BY <2>8, Zenon DEF ExitUnready, TypeOK
  <2>9. CASE PostW
    BY <2>9, Zenon DEF PostW, TypeOK, Slot, TypeOf
  <2>10. CASE ExitPost
    BY <2>10 DEF ExitPost, TypeOK, Objects
  <2>11. CASE WaitR
    BY <2>11, Zenon DEF WaitR, AfterReattach, TypeOK
  <2> QED
    BY <1>3, <2>2, <2>3, <2>4, <2>5, <2>6, <2>7, <2>8, <2>9, <2>10, <2>11, Zenon DEF Qemu, Inside
<1>4. CASE UNCHANGED vars
  BY <1>4, Zenon DEF Live, Attached, Serving, NoExitPending, vars, apVars, shmVars, qemuVars
<1> QED
  BY <1>1, <1>2, <1>3, <1>4, Zenon DEF Next

\* Until QEMU dies for the first time.
LEMMA ExactStep ==
  ASSUME TypeOK, Lifecycle, Objects, Slot, Live, Exact, [Next]_vars PROVE Exact'
<1> SUFFICES ASSUME mode = "file", mode' = "file", crashes = 0, crashes' = 0 PROVE Exact'
  <2>1. mode' = mode
    BY Frames, Zenon DEF Next, aflVars, vars
  <2>2. crashes' = 0 => crashes = 0
    BY CrashesGrow
  <2> QED
    BY <2>1, <2>2, Zenon DEF Exact
<1>1. Attached => ready[sm] /\ sm \in Execs
  BY DEF Live, Objects, Engaged
<1>2. CASE ForkServer
  <2>1. /\ UNCHANGED <<shmVars, qemuVars>>
        /\ \A e \in Execs : ap'[e] = ap[e] \/ ap[e] = "none"
    BY <1>2, Frames, ForkEffect, Zenon
  <2> QED
    BY <1>1, <2>1, Zenon DEF Exact, OneInFlight, Attached, shmVars, qemuVars
<1>3. ASSUME NEW e \in Execs, ApStep(e) PROVE Exact'
  <2>1. OwnEffect(e)
    BY <1>3, ApEffect, Zenon
  <2>2. UNCHANGED <<type, qemuVars>>
    BY <1>3, Frames, Zenon
  <2>3. \A f \in Execs \ {e} : UNCHANGED <<ap[f], semr[f], semw[f], ready[f]>>
    BY <1>3, ApEffect, Zenon
  <2>4. ~ready[e] /\ ready'[e] =>
          ap[e] = "ready" /\ ap'[e] = "wait" /\ semr'[e] = semr[e] /\ semw'[e] = semw[e]
    BY <2>1, ApSetsReady, Zenon DEF SemsSame
  <2>5. ~(ap[e] = "wait" /\ semw[e] = 0)
    <3>1. semw[e] \in Nat
      BY Zenon DEF TypeOK
    <3> QED
      BY <2>1, <3>1, ApTakesToken
  <2>6. OneInFlight(e) /\ type[e] \in {"cov", "pt"} => OneInFlight(e)'
    BY <2>1, ApServes, Zenon DEF OneInFlight
  <2>7. q = "wait" => type[sm] \in {"cov", "pt"}
    BY Zenon DEF Slot, TypeOf
  <2>8. q = "wait" => OneInFlight(sm)'
    BY <1>1, <2>2, <2>3, <2>6, <2>7, Zenon DEF Exact, OneInFlight, Attached, qemuVars
  <2> QED
    BY <2>2, <2>3, <2>4, <2>5, <2>8 DEF Exact, Objects, Starting, qemuVars
<1>4. CASE Qemu \/ Restart
  <2>1. UNCHANGED ap
    BY <1>4, Frames, Zenon DEF apVars
  <2> USE <2>1 DEF Exact
  <2>2. CASE CallInit \/ Read \/ ReadDetached \/ CallDirect \/ CallLogPC \/ CallAttachPT
    BY <2>2 DEF CallInit, Read, ReadInEpoch, ReadEndsEpoch, ReadDetached, CallDirect,
       CallLogPC, CallAttachPT, CallRequest, vars, shmVars, qemuVars
  <2>3. CASE Connect \/ ConnectFails \/ CheckReady \/ ReadSize \/ MapData
    BY <2>3 DEF Connect, ConnectFails, CheckReady, ReadSize, MapData, vars, shmVars, qemuVars
  <2>4. CASE FillSlot \/ UseData \/ ExitType \/ ExitClose \/ Restart
    BY <2>4, Zenon DEF FillSlot, UseData, ExitType, ExitClose, Restart, shmVars
  <2>5. CASE ExitUnready
    BY <2>5, Zenon DEF ExitUnready, TypeOK
  <2>6. CASE PostW
    BY <1>1, <2>6 DEF PostW, TypeOK, OneInFlight, Attached
  <2>7. CASE ExitPost
    BY <2>7 DEF ExitPost, TypeOK, Objects
  <2>8. CASE WaitR
    BY <1>1, <2>8 DEF WaitR, AfterReattach, TypeOK, OneInFlight, Attached
  <2> QED
    BY <1>4, <2>2, <2>3, <2>4, <2>5, <2>6, <2>7, <2>8, Zenon DEF Qemu, Inside
<1>5. CASE Crash
  BY <1>5 DEF Crash
<1>6. CASE UNCHANGED vars
  BY <1>6, Zenon DEF Exact, OneInFlight, vars, apVars, shmVars, qemuVars
<1> QED
  BY <1>2, <1>3, <1>4, <1>5, <1>6, Zenon DEF Next

\* An ap steps while QEMU is attached to it only to serve the request that
\* QEMU waits for.
LEMMA ServesOnlyRequests ==
  ASSUME TypeOK, Slot, Exact, mode = "file", crashes = 0,
         NEW e \in Execs, ready[e], ApStep(e)
  PROVE  /\ sm = e /\ q = "wait" /\ OneInFlight(e)
         /\ type[e] = TypeOf(req) /\ type[e] \in {"cov", "pt"}
         /\ OwnEffect(e)
<1>1. OwnEffect(e)
  BY ApEffect, Zenon
<1>2. ~(ap[e] = "wait" /\ semw[e] = 0)
  <2>1. semw[e] \in Nat
    BY Zenon DEF TypeOK
  <2> QED
    BY <1>1, <2>1, ApTakesToken
<1>3. /\ sm = e /\ q = "wait" /\ OneInFlight(e)
      /\ type[e] = TypeOf(req) /\ type[e] \in {"cov", "pt"}
  BY <1>2, Zenon DEF Exact, Slot, TypeOf
<1> QED
  BY <1>1, <1>3, Zenon

-----------------------------------------------------------------------------
(* The inductive step for Logged, Provenance, Traced and Fed: what ap      *)
(* tells AFL about the guest, and what the guest is fed with.              *)

\* Coverage: the count of ap and the count of the client differ only while a
\* coverage request is on its way.
LEMMA LoggedStep ==
  ASSUME TypeOK, Lifecycle, Objects, Slot, Live, Exact, Logged, [Next]_vars PROVE Logged'
<1> SUFFICES ASSUME mode = "file", mode' = "file", crashes = 0, crashes' = 0 PROVE Logged'
  <2>1. mode' = mode
    BY Frames, Zenon DEF Next, aflVars, vars
  <2>2. crashes' = 0 => crashes = 0
    BY CrashesGrow
  <2> QED
    BY <2>1, <2>2, Zenon DEF Logged
<1>1. Attached => ready[sm] /\ sm \in Execs /\ sm # 0
  BY DEF Live, Objects, Engaged, Execs
<1>2. CASE ForkServer
  <2>1. /\ UNCHANGED <<logged, shmVars, qemuVars>>
        /\ \A e \in Execs : ap'[e] = ap[e] \/ (ap[e] = "none" /\ ap'[e] = "start")
    BY <1>2, Frames, ForkEffect, Zenon
  <2> QED
    BY <1>1, <2>1, Zenon DEF Logged, Unhandled, Attached, shmVars, qemuVars
<1>3. ASSUME NEW e \in Execs, ApStep(e) PROVE Logged'
  <2>1. OwnEffect(e)
    BY <1>3, ApEffect, Zenon
  <2>2. UNCHANGED <<type, qemuVars>>
    BY <1>3, Frames, Zenon
  <2>3. \A f \in Execs \ {e} : UNCHANGED <<ap[f], semw[f], ready[f], logged[f]>>
    BY <1>3, ApEffect, Zenon
  <2>4. CASE ~ready[e]
    <3>1. ready'[e] => ap[e] = "ready" /\ logged'[e] = logged[e]
      BY <2>1, <2>4, ApSetsReady, Zenon DEF TellsSame
    <3>2. ready'[e] => logged'[e] = 0
      BY <3>1, Zenon DEF Objects, Starting
    <3> QED
      BY <1>1, <2>2, <2>3, <2>4, <3>2, Zenon DEF Logged, Unhandled, Attached, qemuVars
  <2>5. CASE ready[e]
    <3>1. /\ sm = e /\ q = "wait" /\ OneInFlight(e)
          /\ type[e] = TypeOf(req) /\ type[e] \in {"cov", "pt"}
      BY <1>3, <2>5, ServesOnlyRequests, Zenon
    <3>2. logged[e] + (IF Unhandled("cov") THEN 1 ELSE 0) = sent
      BY <3>1, Zenon DEF Logged, Attached
    <3>3. logged'[e] + (IF Unhandled("cov")' THEN 1 ELSE 0) = sent
      <4>1. /\ UNCHANGED <<sm, q, req, sent>>
            /\ type[e] = "cov" <=> req = "cov"
        BY <2>2, <3>1, Zenon DEF TypeOf, qemuVars
      <4>2. /\ logged[e] \in Nat
            /\ \/ ap[e] = "wait" /\ semw[e] = 1 /\ ap'[e] = "handle" /\ logged'[e] = logged[e]
               \/ /\ ap[e] = "handle" /\ ap'[e] = "post" /\ semw'[e] = 0
                  /\ logged'[e] = IF type[e] = "cov" THEN logged[e] + 1 ELSE logged[e]
               \/ /\ ap[e] = "post" /\ semw[e] = 0 /\ ap'[e] = "wait" /\ semw'[e] = 0
                  /\ logged'[e] = logged[e]
        BY <2>1, <3>1, ApServes, Zenon DEF TellsSame, TypeOK
      <4> QED
        BY <3>1, <3>2, <4>1, <4>2 DEF Unhandled
    <3> QED
      BY <2>2, <2>3, <3>1, <3>3, Zenon DEF Logged, Attached, qemuVars
  <2> QED
    BY <2>4, <2>5, Zenon
<1>4. CASE Qemu \/ Restart
  <2>1. UNCHANGED <<ap, logged>>
    BY <1>4, Frames, Zenon DEF apVars
  <2> USE <2>1 DEF Logged, Attached, Unhandled
  <2>2. CASE CallInit \/ Read \/ ReadDetached \/ CallDirect \/ CallLogPC \/ CallAttachPT
    BY <2>2, Zenon DEF CallInit, Read, ReadInEpoch, ReadEndsEpoch, ReadDetached, CallDirect,
       CallLogPC, CallAttachPT, CallRequest, vars, shmVars, qemuVars
  <2>3. CASE Connect \/ ConnectFails \/ ReadSize \/ MapData
    BY <2>3, Zenon DEF Connect, ConnectFails, ReadSize, MapData, vars, shmVars, qemuVars
  <2>4. CASE CheckReady
    BY <2>4 DEF CheckReady, shmVars, Objects
  <2>5. CASE FillSlot \/ UseData \/ ExitType
    BY <1>1, <2>5, Zenon DEF FillSlot, UseData, ExitType, shmVars
  <2>6. CASE ExitPost \/ ExitClose
    BY <2>6, Zenon DEF ExitPost, ExitClose, shmVars
  <2>7. CASE Restart
    BY <2>7, Zenon DEF Restart, shmVars, Objects
  <2>8. CASE ExitUnready
    BY <2>8, Zenon DEF ExitUnready, TypeOK
  <2>9. CASE PostW
    BY <1>1, <2>9 DEF PostW, TypeOK, Exact
  <2>10. CASE WaitR
    <3>1. semw[sm] = 0 /\ ap[sm] = "wait"
      BY <1>1, <2>10 DEF WaitR, Exact, OneInFlight
    <3>2. logged[sm] = sent
      BY <1>1, <2>10, <3>1 DEF WaitR, TypeOK
    <3>3. sm' = sm /\ sent' = sent /\ ready' = ready /\ q' \in {"use", "fill", "guest"}
      BY <2>10, Zenon DEF WaitR, AfterReattach
    <3> QED
      BY <1>1, <2>10, <3>2, <3>3 DEF WaitR, TypeOK
  <2> QED
    BY <1>4, <2>2, <2>3, <2>4, <2>5, <2>8, <2>9, <2>10, <2>6, <2>7, Zenon DEF Qemu, Inside
<1>5. CASE Crash
  BY <1>5 DEF Crash
<1>6. CASE UNCHANGED vars
  BY <1>6, Zenon DEF Logged, Attached, Unhandled, vars, apVars, shmVars, qemuVars
<1> QED
  BY <1>2, <1>3, <1>4, <1>5, <1>6, Zenon DEF Next

\* The pc in the slot of an object comes from the guest under that execution,
\* or from a guest that has read no test case yet; ap_exit ends that.
LEMMA ProvenanceStep == ASSUME TypeOK, Objects, Provenance, [Next]_vars PROVE Provenance'
<1> USE DEF Provenance
<1>1. Engaged => sm \in Execs /\ sm # 0
  BY DEF Objects, Execs
<1>2. CASE ForkServer
  BY <1>2, Frames, Zenon DEF Attached, shmVars, qemuVars
<1>3. ASSUME NEW e \in Execs, ApStep(e) PROVE Provenance'
  BY <1>3, Frames, Zenon DEF Attached, qemuVars
<1>4. CASE Qemu \/ Crash \/ Restart
  <2> USE <1>1 DEF Attached, Engaged
  <2>1. CASE CallInit \/ Read \/ ReadDetached \/ CallDirect \/ CallLogPC \/ CallAttachPT
    BY <2>1, Zenon DEF CallInit, Read, ReadInEpoch, ReadEndsEpoch, ReadDetached, CallDirect,
       CallLogPC, CallAttachPT, CallRequest, vars, shmVars, qemuVars
  <2>2. CASE Connect \/ ConnectFails \/ CheckReady \/ ReadSize \/ MapData
    BY <2>2, Zenon DEF Connect, ConnectFails, CheckReady, ReadSize, MapData, vars, shmVars, qemuVars
  <2>3. CASE FillSlot
    BY <2>3, Zenon DEF FillSlot, TypeOK
  <2>4. CASE PostW
    BY <2>4, Zenon DEF PostW
  <2>5. CASE WaitR
    BY <2>5, Zenon DEF WaitR, AfterReattach, TypeOK
  <2>6. CASE UseData
    BY <2>6, Zenon DEF UseData, shmVars
  <2>7. CASE ExitType \/ ExitUnready \/ ExitPost \/ ExitClose
    BY <2>7, Zenon DEF ExitType, ExitUnready, ExitPost, ExitClose, shmVars
  <2>8. CASE Crash \/ Restart
    BY <2>8, Zenon DEF Crash, Restart, shmVars
  <2> QED
    BY <1>4, <2>1, <2>2, <2>3, <2>4, <2>5, <2>6, <2>7, <2>8, Zenon DEF Qemu, Inside
<1>5. CASE UNCHANGED vars
  BY <1>5, Zenon DEF Attached, vars, shmVars, qemuVars
<1> QED
  BY <1>2, <1>3, <1>4, <1>5, Zenon DEF Next

\* The PT threads.
LEMMA TracedStep ==
  ASSUME TypeOK, Lifecycle, Objects, Slot, Live, Exact, Traced, [Next]_vars PROVE Traced'
<1> DEFINE PTKept ==
      (mode = "file" /\ crashes = 0 /\ Attached /\ q \notin {"size", "map"}) =>
        \/ ptThread[sm] # "null"
        \/ q \in {"fill", "post"} /\ req = "reattach"
        \/ Unhandled("reattach")
<1>1. /\ Engaged => sm \in Execs /\ sm # 0 /\ ap[sm] \notin Starting
      /\ mode = "file" /\ crashes = 0 /\ Attached => ready[sm]
  BY DEF Live, Objects, Execs
<1>2. CASE ForkServer
  <2>1. UNCHANGED <<mode, ptInit, shmVars, qemuVars>>
    BY <1>2, Frames, Zenon
  <2>2. \A e \in Execs :
          \/ ap'[e] = ap[e] /\ ptThread'[e] = ptThread[e]
          \/ ap[e] = "none" /\ ap'[e] = "start" /\ ptThread'[e] = ptInit
    BY <1>2, ForkEffect, Zenon
  <2>3. PTKept'
    BY <1>1, <2>1, <2>2, Zenon DEF Traced, Engaged, Attached, Unhandled, Starting, shmVars, qemuVars
  <2> QED
    BY <2>1, <2>2, <2>3 DEF Traced, TypeOK, Starting
<1>3. ASSUME NEW e \in Execs, ApStep(e) PROVE Traced'
  <2>1. OwnEffect(e)
    BY <1>3, ApEffect, Zenon
  <2>2. UNCHANGED <<mode, ptInit, type, qemuVars>>
    BY <1>3, Frames, Zenon
  <2>3. \A f \in Execs \ {e} : UNCHANGED <<ap[f], ptThread[f], semw[f]>>
    BY <1>3, ApEffect, Zenon
  <2>4. /\ ptThread'[e] = "running" => ap'[e] \notin Starting \union {"exited"}
        /\ ap'[e] \notin {"none", "exited"} =>
             IF ptInit = "null" THEN ptThread'[e] # "garbage" ELSE ptThread'[e] = "garbage"
    <3>1. ap'[e] \in Starting => ap[e] \in Starting
      BY <2>1, ApStarts, Zenon
    <3>2. ap[e] \notin {"none", "exited"}
      BY <1>3, ApMoves, Zenon
    <3>3. /\ ap'[e] = "exited" => ptThread'[e] = "null" \/ (ap[e] = "start" /\ ptThread'[e] = ptThread[e])
          /\ ap'[e] # "exited" => ptThread'[e] = ptThread[e]
                                  \/ (ap'[e] = "post" /\ ptThread[e] = "null" /\ ptThread'[e] = "running")
      BY <2>1, ApTraces, Zenon
    <3> QED
      BY <3>1, <3>2, <3>3, Zenon DEF Traced, Starting
  <2>5. PTKept'
    <3> SUFFICES ASSUME mode = "file", crashes = 0, Attached, q \notin {"size", "map"} PROVE PTKept'
      BY <2>2, Zenon DEF Attached, qemuVars
    <3>1. CASE sm # e
      BY <1>1, <2>2, <2>3, <3>1, Zenon DEF Traced, Engaged, Attached, Unhandled, qemuVars
    <3>2. CASE sm = e
      <4>1. /\ q = "wait" /\ OneInFlight(e)
            /\ type[e] = TypeOf(req) /\ type[e] \in {"cov", "pt"}
        BY <1>1, <1>3, <3>2, ServesOnlyRequests, Zenon
      <4>2. /\ UNCHANGED <<mode, crashes, sm, q, req>>
            /\ req = "reattach" => type[e] = "pt"
        BY <2>2, <4>1, Zenon DEF TypeOf, qemuVars
      <4>3. \/ ap'[e] = "handle" /\ ptThread'[e] = ptThread[e]
            \/ type[e] = "cov" /\ ptThread'[e] = ptThread[e]
            \/ ap[e] = "handle" /\ type[e] = "pt" /\ ptThread'[e] # "null"
            \/ ap[e] = "post" /\ semw[e] = 0 /\ ptThread'[e] = ptThread[e]
        BY <2>1, <4>1, ApServes, Zenon DEF TellsSame
      <4>4. ptThread[e] # "null" \/ Unhandled("reattach")
        BY <3>2, <4>1, Zenon DEF Traced
      <4> QED
        BY <3>2, <4>1, <4>2, <4>3, <4>4 DEF Attached, Unhandled
    <3> QED
      BY <3>1, <3>2, Zenon
  <2> QED
    BY <2>2, <2>3, <2>4, <2>5, Zenon DEF Traced
<1>4. CASE Qemu \/ Crash \/ Restart
  <2>1. UNCHANGED <<mode, ptInit, ap, ptThread>>
    BY <1>4, Frames, Zenon DEF aflVars, apVars
  <2> SUFFICES PTKept'
    BY <2>1, Zenon DEF Traced
  <2> USE <1>1, <2>1 DEF Traced, Attached, Unhandled
  <2>2. CASE CallInit \/ Read \/ ReadDetached \/ CallDirect \/ CallLogPC \/ CallAttachPT
    BY <2>2, Zenon DEF CallInit, Read, ReadInEpoch, ReadEndsEpoch, ReadDetached, CallDirect,
       CallLogPC, CallAttachPT, CallRequest, vars, shmVars, qemuVars
  <2>3. CASE Connect \/ ConnectFails \/ CheckReady \/ ReadSize \/ MapData
    BY <2>3, Zenon DEF Connect, ConnectFails, CheckReady, ReadSize, MapData, vars, shmVars, qemuVars
  <2>4. CASE FillSlot \/ UseData
    BY <2>4, Zenon DEF FillSlot, UseData
  <2>5. CASE PostW
    BY <2>5 DEF PostW, Exact, Engaged, TypeOK
  <2>6. CASE WaitR
    BY <2>6 DEF WaitR, AfterReattach, Exact, OneInFlight, Engaged
  <2>7. CASE ExitType \/ ExitUnready \/ ExitPost \/ ExitClose
    BY <2>7, Zenon DEF ExitType, ExitUnready, ExitPost, ExitClose
  <2>8. CASE Crash
    <3>1. crashes' # 0
      BY <2>8 DEF Crash, TypeOK
    <3> QED
      BY <3>1, Zenon
  <2>9. CASE Restart
    BY <2>9, Zenon DEF Restart, Objects
  <2> QED
    BY <1>4, <2>2, <2>3, <2>4, <2>5, <2>6, <2>7, <2>8, <2>9, Zenon DEF Qemu, Inside
<1>5. CASE UNCHANGED vars
  BY <1>5, Zenon DEF Traced, Attached, Unhandled, vars, aflVars, apVars, shmVars, qemuVars
<1> QED
  BY <1>2, <1>3, <1>4, <1>5, Zenon DEF Next

\* While QEMU is attached, it is attached to the current execution.
LEMMA AttachedIsCurrent ==
  ASSUME TypeOK, Lifecycle, Objects, Live, mode = "file", crashes <= 1, Attached
  PROVE  sm \in Execs /\ sm = exec /\ name = exec /\ fs = "wait" /\ Serving(sm) /\ ready[sm]
<1>1. sm \in Execs /\ ready[sm] /\ Serving(sm)
  BY Zenon DEF Objects, Engaged, Live, Attached
<1>2. sm = exec /\ fs = "wait"
  BY <1>1, AliveIsCurrent, Zenon DEF Serving
<1>3. name = sm
  BY <1>1, Zenon DEF Lifecycle, Serving, Bound
<1> QED
  BY <1>1, <1>2, <1>3, Zenon

\* The input file is replaced only when no execution runs.
LEMMA FedStep ==
  ASSUME TypeOK, Lifecycle, Objects, Live, Fed, [Next]_vars PROVE Fed'
<1> SUFFICES ASSUME mode = "file", crashes <= 1, mode' = "file", crashes' <= 1 PROVE Fed'
  <2>1. mode' = mode
    BY Frames, Zenon DEF Next, aflVars, vars
  <2>2. crashes' <= 1 => crashes <= 1
    BY CrashesGrow
  <2> QED
    BY <2>1, <2>2, Zenon DEF Fed
<1>1. CASE ForkServer
  BY <1>1, Frames, Zenon DEF Fed, Attached, qemuVars
<1>2. ASSUME NEW e \in Execs, ApStep(e) PROVE Fed'
  BY <1>2, Frames, Zenon DEF Fed, Attached, qemuVars
<1>3. CASE Qemu \/ Crash \/ Restart
  <2>1. Attached => sm # 0 /\ File = sm
    BY AttachedIsCurrent DEF File, Execs
  <2> USE <2>1 DEF Fed, Attached
  <2>2. CASE CallInit \/ Read \/ ReadDetached \/ CallDirect \/ CallLogPC \/ CallAttachPT
    BY <2>2, Zenon DEF CallInit, Read, ReadInEpoch, ReadEndsEpoch, ReadDetached, CallDirect,
       CallLogPC, CallAttachPT, CallRequest, vars, qemuVars
  <2>3. CASE Connect \/ ConnectFails \/ CheckReady \/ ReadSize \/ MapData
    BY <2>3, Zenon DEF Connect, ConnectFails, CheckReady, ReadSize, MapData, vars, qemuVars
  <2>4. CASE FillSlot \/ PostW \/ UseData
    BY <2>4, Zenon DEF FillSlot, PostW, UseData
  <2>5. CASE WaitR
    BY <2>5, Zenon DEF WaitR, AfterReattach
  <2>6. CASE ExitType \/ ExitUnready \/ ExitPost \/ ExitClose
    BY <2>6, Zenon DEF ExitType, ExitUnready, ExitPost, ExitClose
  <2>7. CASE Crash \/ Restart
    BY <2>7, Zenon DEF Crash, Restart, Objects
  <2> QED
    BY <1>3, <2>2, <2>3, <2>4, <2>5, <2>6, <2>7, Zenon DEF Qemu, Inside
<1>4. CASE UNCHANGED vars
  BY <1>4, Zenon DEF Fed, Attached, vars, qemuVars
<1> QED
  BY <1>1, <1>2, <1>3, <1>4, Zenon DEF Next

-----------------------------------------------------------------------------
(* The theorems.                                                           *)

\* IInv is an invariant of the protocol.
THEOREM Invariance == Spec => []IInv
<1>1. IInv /\ [Next]_vars => IInv'
  BY TypeStep, LifecycleStep, ObjectsStep, SlotStep, LiveStep, FedStep, ExactStep, LoggedStep,
     TracedStep, ProvenanceStep, Zenon DEF IInv
<1> QED
  BY InitInv, <1>1, PTL DEF Spec

\* Every variable keeps its type: in particular the counter of reads stays
\* below the length of an epoch and a semaphore never goes below zero.
THEOREM TypeCorrect == Spec => []TypeOK
<1>1. IInv => TypeOK
  BY Zenon DEF IInv
<1> QED
  BY Invariance, <1>1, PTL

\* An epoch is never mixed up with another one: QEMU is attached only to the
\* ap of the current execution, while it serves (real_ap_init and ap_exit
\* against main in ap.cpp), also across one death of QEMU.
THEOREM EpochsNeverMix == Spec => []AttachedToLive
<1>1. IInv => AttachedToLive
  BY AttachedIsCurrent, Zenon DEF IInv, AttachedToLive
<1> QED
  BY Invariance, <1>1, PTL

\* The guest is fed from the test case of its own execution, although
\* real_ap_init opens the input file twice and AFL rewrites it in place.
THEOREM InputNeverMixes == Spec => []FedFromOwnInput
<1>1. IInv => FedFromOwnInput
  BY Zenon DEF IInv, Fed, FedFromOwnInput
<1> QED
  BY Invariance, <1>1, PTL

\* The slot of struct XXX, which no lock protects, holds one request at a time.
THEOREM SlotIsExclusive == Spec => []OneRequestAtATime
<1>1. IInv => OneRequestAtATime
  <2> SUFFICES ASSUME IInv, mode = "file", Attached, crashes = 0
               PROVE  InFlight(sm) = IF q = "wait" THEN 1 ELSE 0
    BY Zenon DEF OneRequestAtATime
  <2>1. sm \in Execs /\ ready[sm]
    BY AttachedIsCurrent DEF IInv
  <2> QED
    BY <2>1 DEF IInv, Exact, OneInFlight, InFlight, TypeOK
<1> QED
  BY Invariance, <1>1, PTL

\* AFLMaybeLog is called once for every ap_log_pc of the epoch.
THEOREM CoverageIsExact == Spec => []CoverageExact
<1>1. IInv => CoverageExact
  <2> SUFFICES ASSUME IInv, mode = "file", q = "guest", sm # 0, crashes = 0
               PROVE  logged[sm] = sent
    BY Zenon DEF CoverageExact
  <2>1. Attached /\ ~Unhandled("cov") /\ sm \in Execs
    BY AttachedIsCurrent DEF IInv, Attached, Unhandled
  <2> QED
    BY <2>1 DEF IInv, Logged, TypeOK
<1> QED
  BY Invariance, <1>1, PTL

\* When the guest runs, the PT thread of its own ap runs and no other.
THEOREM TracingIsExclusive == Spec => []TracedByOwnAp
<1>1. IInv => TracedByOwnAp
  <2> SUFFICES ASSUME IInv, mode = "file", q = "guest", sm # 0, crashes = 0, NEW e \in Execs
               PROVE  ptThread[e] = "running" <=> (e = sm /\ ptInit = "null")
    BY Zenon DEF TracedByOwnAp
  <2>1. Attached /\ ~Unhandled("reattach")
    BY Zenon DEF Attached, Unhandled
  <2>2. sm = exec /\ sm \in Execs /\ Serving(sm)
    BY <2>1, AttachedIsCurrent DEF IInv
  <2>3. ptThread[e] = "running" => e = sm
    BY <2>2, AliveIsCurrent, Zenon DEF IInv, Traced, Starting
  <2>4. ptThread[sm] = "running" <=> ptInit = "null"
    BY <2>1, <2>2, Zenon DEF IInv, Traced, TypeOK, Serving
  <2> QED
    BY <2>3, <2>4, Zenon
<1> QED
  BY Invariance, <1>1, PTL

\* With at most one death of QEMU, the fork server, ap, the shared memory and
\* aplib together implement what AFL is promised: FuzzEpochs.
THEOREM Refinement == ASSUME MaxCrashes <= 1 PROVE Spec => ImplementsFuzzEpochs
<1> DEFINE Running == IF fs = "wait" THEN exec ELSE 0
           Feeding == IF mode = "file" /\ Attached THEN sm ELSE 0
<1>1. Init => Abstract!Init
  BY Zenon DEF Init, Abstract!Init, Attached
<1>2. IInv => Feeding \in {0, Running} /\ (fs = "wait" => Running = exec /\ exec # 0)
  <2> SUFFICES ASSUME IInv PROVE Feeding \in {0, Running} /\ (fs = "wait" => Running = exec /\ exec # 0)
    BY Zenon
  <2>1. crashes <= 1
    BY ConstantsAssumption DEF ConstantsAssumption, IInv, TypeOK
  <2>2. mode = "file" /\ Attached => sm = exec /\ fs = "wait"
    BY <2>1, AttachedIsCurrent, Zenon DEF IInv
  <2> QED
    BY <2>2 DEF IInv, Lifecycle, TypeOK
<1>3. IInv /\ IInv' /\ [Next]_vars => [Abstract!Next]_(Abstract!absVars)
  <2> SUFFICES ASSUME IInv, IInv', [Next]_vars PROVE [Abstract!Next]_(Abstract!absVars)
    BY Zenon
  <2> USE DEF Abstract!Next, Abstract!absVars
  <2>1. CASE AflRequest
    BY <2>1, Zenon DEF AflRequest, apVars, qemuVars, Attached
  <2>2. CASE ForkChild
    BY <1>2, <2>2, Zenon DEF ForkChild, qemuVars, Attached, Abstract!Begin, IInv, TypeOK
  <2>3. CASE ReapChild
    <3>1. Feeding = 0
      <4>1. crashes <= 1
        BY ConstantsAssumption DEF ConstantsAssumption, IInv, TypeOK
      <4> QED
        BY <2>3, <4>1, AttachedIsCurrent, Zenon DEF ReapChild, IInv, Serving
    <3> QED
      BY <1>2, <2>3, <3>1, Zenon DEF ReapChild, apVars, qemuVars, Attached, Abstract!Finish
  <2>4. ASSUME NEW e \in Execs, ApStep(e) PROVE [Abstract!Next]_(Abstract!absVars)
    <3>1. e = exec /\ fs = "wait"
      BY <2>4, ApMoves, AliveIsCurrent, Zenon DEF IInv
    <3>2. UNCHANGED <<fs, exec, mode, q, sm>>
      BY <2>4, Frames, Zenon DEF qemuVars
    <3>3. hits' = hits \/ hits' = hits \union {<<e, data[e]>>}
      BY <2>4, Zenon DEF ApStep, SkipDryRun, CreateOpen, SemInitR, SemInitW, SetPath, SetReady,
         WaitW, HandleCov, HandlePT, HandleExit, HandleOther, PostR, Unlink, StopPT
    <3>4. data[e] \in {0, exec}
      BY <3>1, Zenon DEF IInv, Provenance
    <3> QED
      BY <1>2, <3>1, <3>2, <3>3, <3>4, Zenon DEF Attached, Abstract!Credit
  <2>5. CASE Qemu \/ Crash \/ Restart
    <3>1. UNCHANGED <<fs, exec, hits>>
      BY <2>5, Frames, Zenon DEF aflVars, apVars
    <3>2. Feeding \in {0, Running} /\ Feeding' \in {0, Running}
      <4>1. (Feeding \in {0, Running})'
        BY <1>2, PTL
      <4> QED
        BY <1>2, <3>1, <4>1, Zenon
    <3> QED
      BY <3>1, <3>2, Zenon DEF Abstract!Attach, Abstract!Detach
  <2>6. CASE UNCHANGED vars
    BY <2>6, Zenon DEF vars, aflVars, apVars, qemuVars, Attached
  <2> QED
    BY <2>1, <2>2, <2>3, <2>4, <2>5, <2>6, Zenon DEF Next, ForkServer
<1> QED
  BY Invariance, <1>1, <1>3, PTL DEF Spec, ImplementsFuzzEpochs, Abstract!Spec
=============================================================================
