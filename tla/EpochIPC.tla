------------------------------ MODULE EpochIPC ------------------------------
(***************************************************************************)
(* The protocol between AFL's fork server, the proxy ap and the QEMU       *)
(* process linked with aplib.                                              *)
(*                                                                         *)
(* For every execution the fork server forks one ap.  That ap creates a    *)
(* fresh shared memory object (struct XXX), binds the well-known name to   *)
(* it, and serves requests from it: the client fills the slot (type,       *)
(* data), posts semw and waits on semr.  The client ends the epoch with a  *)
(* request of type 0xff for which it does not wait, and then looks for the *)
(* object of the next ap.                                                  *)
(*                                                                         *)
(* An execution, its ap, its object and its test case share one number:    *)
(* semr[e] is the semaphore in the object that the ap of execution e made. *)
(***************************************************************************)
EXTENDS Naturals

CONSTANTS
  MaxExec,      \* bound: executions AFL asks for
  EpochReads,   \* reads per epoch (100 in the code)
  DryRuns,      \* RETRY, the executions that exit at once (8 in the code)
  MaxLogs,      \* bound: ap_log_pc calls per attachment
  MaxCrashes,   \* bound: deaths of the QEMU process
  Modes         \* how ap is started: "file" (ap @@ ...), "direct" (ap with an empty path)

ASSUME ConstantsAssumption ==
  /\ MaxExec \in Nat
  /\ EpochReads \in Nat \ {0}
  /\ DryRuns \in Nat
  /\ MaxLogs \in Nat
  /\ MaxCrashes \in Nat
  /\ Modes \subseteq {"file", "direct"}

Execs == 1 .. MaxExec

VARIABLES
  \* AFL and its fork server
  fs,         \* "idle", "asked" (test case written), "wait" (in waitpid)
  exec,       \* executions forked so far; the last one is the current one
  stamps,     \* dry_run_stamp files on disk
  mode,       \* how ap is started
  ptInit,     \* what the uninitialised AFLClient::ptThread holds
  \* the ap of each execution
  ap,         \* its control point
  ptThread,   \* ptThread of that ap: "null", "garbage" or "running"
  logged,     \* calls of AFLMaybeLog made by that ap
  hits,       \* <<e, p>>: ap of e logged coverage of the guest under p
  \* POSIX shared memory
  name,       \* the object "/afl-proxy-<id>" is bound to, 0 if unbound
  semr, semw, type, data, path, ready,
  \* the QEMU process
  q,          \* control point of the thread that calls aplib
  call,       \* the aplib function that it is in
  req,        \* the request it is making: "reattach", "cov", "pt", "rw"
  sm,         \* the mapped object, 0 for nullptr
  counter,    \* reads in this epoch
  fuzzdatasize, fuzzdata,  \* whose test case they belong to, 0 if none
  prov,       \* execution under which the guest last completed a read
  sent,       \* ap_log_pc requests posted since attaching
  crashes     \* times the QEMU process has died

aflVars  == <<fs, exec, stamps, mode, ptInit>>
apVars   == <<ap, ptThread, logged, hits>>
shmVars  == <<name, semr, semw, type, data, path, ready>>
qemuVars == <<q, call, req, sm, counter, fuzzdatasize, fuzzdata, prov, sent, crashes>>
vars     == <<aflVars, apVars, shmVars, qemuVars>>

\* The number of the test case in the input file: AFL overwrites the file
\* before it asks the fork server for the execution.
File == IF fs = "asked" THEN exec + 1 ELSE exec

Init ==
  /\ fs = "idle" /\ exec = 0 /\ stamps = 0
  /\ mode \in Modes
  /\ ptInit \in {"null", "garbage"}
  /\ ap = [e \in Execs |-> "none"]
  /\ ptThread = [e \in Execs |-> "null"]
  /\ logged = [e \in Execs |-> 0]
  /\ hits = {}
  /\ name = 0
  /\ semr = [e \in Execs |-> 0] /\ semw = [e \in Execs |-> 0]
  /\ type = [e \in Execs |-> "none"] /\ data = [e \in Execs |-> 0]
  /\ path = [e \in Execs |-> "empty"] /\ ready = [e \in Execs |-> FALSE]
  /\ q = "guest" /\ call = "none" /\ req = "none" /\ sm = 0
  /\ counter = 0
  /\ fuzzdatasize = 0 /\ fuzzdata = 0
  /\ prov = 0 /\ sent = 0 /\ crashes = 0

-----------------------------------------------------------------------------
(* AFL and the fork server in ap (AFLForkServer). *)

\* afl-fuzz (external) writes the next test case and wakes the fork server.
AflRequest ==
  /\ fs = "idle"
  /\ exec < MaxExec
  /\ fs' = "asked"
  /\ UNCHANGED <<exec, stamps, mode, ptInit, apVars, shmVars, qemuVars>>

\* The fork server reads the request, forks and goes to waitpid.  The child
\* inherits the AFLClient object, ptThread included.
ForkChild ==
  /\ fs = "asked"
  /\ fs' = "wait"
  /\ exec' = exec + 1
  /\ ap' = [ap EXCEPT ![exec'] = "start"]
  /\ ptThread' = [ptThread EXCEPT ![exec'] = ptInit]
  /\ UNCHANGED <<stamps, mode, ptInit, logged, hits, shmVars, qemuVars>>

\* Mutant: the fork server does not wait for its child.
ReapChildEarly ==
  /\ fs = "wait"
  /\ fs' = "idle"
  /\ UNCHANGED <<exec, stamps, mode, ptInit, apVars, shmVars, qemuVars>>

\* waitpid returns and the status is relayed to afl-fuzz.
ReapChild ==
  /\ fs = "wait"
  /\ ap[exec] = "exited"
  /\ fs' = "idle"
  /\ UNCHANGED <<exec, stamps, mode, ptInit, apVars, shmVars, qemuVars>>

ForkServer == AflRequest \/ ForkChild \/ ReapChild

-----------------------------------------------------------------------------
(* The ap of execution e (main in ap.cpp). *)

ApGoto(e, from, to) ==
  /\ ap[e] = from
  /\ ap' = [ap EXCEPT ![e] = to]

\* skip_dry_run: leave a stamp and exit, for the first DryRuns executions.
SkipDryRun(e) ==
  /\ stamps < DryRuns
  /\ ApGoto(e, "start", "exited")
  /\ stamps' = stamps + 1
  /\ UNCHANGED <<fs, exec, mode, ptInit, ptThread, logged, hits, shmVars, qemuVars>>

\* SHM::createOpen: the object is filled with zeroes under a temporary name,
\* which nobody else opens, and then renamed over the well-known one.
CreateOpen(e) ==
  /\ stamps >= DryRuns
  /\ ApGoto(e, "start", "semr")
  /\ name' = e
  /\ UNCHANGED <<aflVars, ptThread, logged, hits, semr, semw, type, data, path, ready, qemuVars>>

SemInitR(e) ==
  /\ ApGoto(e, "semr", "semw")
  /\ semr' = [semr EXCEPT ![e] = 0]
  /\ UNCHANGED <<aflVars, ptThread, logged, hits, name, semw, type, data, path, ready, qemuVars>>

SemInitW(e) ==
  /\ ApGoto(e, "semw", "path")
  /\ semw' = [semw EXCEPT ![e] = 0]
  /\ UNCHANGED <<aflVars, ptThread, logged, hits, name, semr, type, data, path, ready, qemuVars>>

SetPath(e) ==
  /\ ApGoto(e, "path", "ready")
  /\ path' = [path EXCEPT ![e] = IF mode = "file" THEN "seed" ELSE "empty"]
  /\ UNCHANGED <<aflVars, ptThread, logged, hits, name, semr, semw, type, data, ready, qemuVars>>

\* Mutant: ap never sets the flag.
SetReadyForgotten(e) ==
  /\ ApGoto(e, "ready", "wait")
  /\ UNCHANGED <<aflVars, ptThread, logged, hits, shmVars, qemuVars>>

SetReady(e) ==
  /\ ApGoto(e, "ready", "wait")
  /\ ready' = [ready EXCEPT ![e] = TRUE]
  /\ UNCHANGED <<aflVars, ptThread, logged, hits, name, semr, semw, type, data, path, qemuVars>>

\* sem_wait(&sm->semw)
WaitW(e) ==
  /\ ApGoto(e, "wait", "handle")
  /\ semw[e] > 0
  /\ semw' = [semw EXCEPT ![e] = @ - 1]
  /\ UNCHANGED <<aflVars, ptThread, logged, hits, name, semr, type, data, path, ready, qemuVars>>

\* case 1: handle_type_cov, inject_cov, AFLMaybeLog
HandleCov(e) ==
  /\ type[e] = "cov"
  /\ ApGoto(e, "handle", "post")
  /\ logged' = [logged EXCEPT ![e] = @ + 1]
  /\ hits' = hits \union {<<e, data[e]>>}
  /\ UNCHANGED <<aflVars, ptThread, shmVars, qemuVars>>

\* case 2: start_pt, startPT; the thread is made only if ptThread is null.
HandlePT(e) ==
  /\ type[e] = "pt"
  /\ ApGoto(e, "handle", "post")
  /\ ptThread' = [ptThread EXCEPT ![e] = IF @ = "null" THEN "running" ELSE @]
  /\ UNCHANGED <<aflVars, logged, hits, shmVars, qemuVars>>

\* case 0xFF: run = false
HandleExit(e) ==
  /\ type[e] = "exit"
  /\ ApGoto(e, "handle", "last")
  /\ UNCHANGED <<aflVars, ptThread, logged, hits, shmVars, qemuVars>>

\* default: unreachable() rethrows without an exception, so ap aborts.
HandleOther(e) ==
  /\ type[e] \notin {"cov", "pt", "exit"}
  /\ ApGoto(e, "handle", "exited")
  /\ ptThread' = [ptThread EXCEPT ![e] = "null"]
  /\ UNCHANGED <<aflVars, logged, hits, shmVars, qemuVars>>

\* sem_post(&sm->semr), and round the loop while run is true
PostR(e) ==
  /\ ApGoto(e, "post", "wait") \/ ApGoto(e, "last", "unlink")
  /\ semr' = [semr EXCEPT ![e] = @ + 1]
  /\ UNCHANGED <<aflVars, ptThread, logged, hits, name, semw, type, data, path, ready, qemuVars>>

\* shm.close() and shm_unlink(): the name goes, whatever it is bound to.
Unlink(e) ==
  /\ ApGoto(e, "unlink", "stop")
  /\ name' = 0
  /\ UNCHANGED <<aflVars, ptThread, logged, hits, semr, semw, type, data, path, ready, qemuVars>>

\* pt_stop = 1, a short sleep, and the process is gone with its PT thread.
StopPT(e) ==
  /\ ApGoto(e, "stop", "exited")
  /\ ptThread' = [ptThread EXCEPT ![e] = "null"]
  /\ UNCHANGED <<aflVars, logged, hits, shmVars, qemuVars>>

ApStep(e) ==
  \/ SkipDryRun(e) \/ CreateOpen(e) \/ SemInitR(e) \/ SemInitW(e)
  \/ SetPath(e) \/ SetReady(e) \/ WaitW(e)
  \/ HandleCov(e) \/ HandlePT(e) \/ HandleExit(e) \/ HandleOther(e)
  \/ PostR(e) \/ Unlink(e) \/ StopPT(e)

-----------------------------------------------------------------------------
(* The QEMU thread that calls aplib. *)

\* QEMU calls ap_init when it sets up the device.
CallInit ==
  /\ q = "guest" /\ sm = 0
  /\ q' = "connect" /\ call' = "init"
  /\ UNCHANGED <<aflVars, apVars, shmVars, req, sm, counter, fuzzdatasize, fuzzdata, prov, sent, crashes>>

\* ap_get_fuzz_data, ap_qemu_mmio_read: a read inside the epoch; ap_init
\* returns at once because sm is set.
ReadInEpoch ==
  /\ q = "guest" /\ sm # 0
  /\ path[sm] # "empty"
  /\ counter + 1 < EpochReads
  /\ counter' = counter + 1
  /\ q' = "use" /\ call' = "read"
  /\ UNCHANGED <<aflVars, apVars, shmVars, req, sm, fuzzdatasize, fuzzdata, prov, sent, crashes>>

\* Mutant: the counter is not reset at the end of an epoch.
ReadEndsEpochNoReset ==
  /\ q = "guest" /\ sm # 0
  /\ path[sm] # "empty"
  /\ counter' = counter + 1
  /\ q' = "exit" /\ call' = "read"
  /\ UNCHANGED <<aflVars, apVars, shmVars, req, sm, fuzzdatasize, fuzzdata, prov, sent, crashes>>

\* The same, when the counter has run up or afl_epoch seconds have passed,
\* which may be at any read: ap_exit and then ap_init.
ReadEndsEpoch ==
  /\ q = "guest" /\ sm # 0
  /\ path[sm] # "empty"
  /\ counter' = 0
  /\ q' = "exit" /\ call' = "read"
  /\ UNCHANGED <<aflVars, apVars, shmVars, req, sm, fuzzdatasize, fuzzdata, prov, sent, crashes>>

\* ap_get_fuzz_data with no object mapped: random bytes for the guest.
ReadDetached ==
  /\ q = "guest" /\ sm = 0
  /\ UNCHANGED vars

\* shm_ipc_read_data, shm_ipc_write_data: with an empty path the data is
\* requested from ap itself.
CallDirect ==
  /\ q = "guest" /\ sm # 0
  /\ path[sm] = "empty"
  /\ q' = "fill" /\ call' = "direct" /\ req' = "rw"
  /\ UNCHANGED <<aflVars, apVars, shmVars, sm, counter, fuzzdatasize, fuzzdata, prov, sent, crashes>>

\* ap_log_pc and ap_attach_pt: attach first if no object is mapped.
CallRequest(c, r) ==
  /\ q = "guest"
  /\ q' = IF sm = 0 THEN "connect" ELSE "fill"
  /\ req' = IF sm = 0 THEN "none" ELSE r
  /\ call' = c
  /\ UNCHANGED <<aflVars, apVars, shmVars, sm, counter, fuzzdatasize, fuzzdata, prov, sent, crashes>>

CallLogPC == sent < MaxLogs /\ CallRequest("log", "cov")
CallAttachPT == CallRequest("attach", "pt")

\* real_ap_init: open and map what the name is bound to, or try again.
Connect ==
  /\ q = "connect"
  /\ name # 0
  /\ sm' = name
  /\ q' = "check"
  /\ UNCHANGED <<aflVars, apVars, shmVars, call, req, counter, fuzzdatasize, fuzzdata, prov, sent, crashes>>

ConnectFails ==
  /\ q = "connect"
  /\ name = 0
  /\ UNCHANGED vars

\* if (!sm->ready): unmap and start again
CheckReady ==
  /\ q = "check"
  /\ IF ready[sm] THEN q' = "size" /\ sent' = 0 ELSE q' = "connect" /\ UNCHANGED sent
  /\ UNCHANGED <<aflVars, apVars, shmVars, call, req, sm, counter, fuzzdatasize, fuzzdata, prov, crashes>>

\* The size of the input file is taken first, then the file is opened again
\* and mapped.
ReadSize ==
  /\ q = "size"
  /\ fuzzdatasize' = File
  /\ q' = "map"
  /\ UNCHANGED <<aflVars, apVars, shmVars, call, req, sm, counter, fuzzdata, prov, sent, crashes>>

\* Mutant: a failed mmap leaves fuzzdatasize as it was.
MapDataKeepsSize ==
  /\ q = "map"
  /\ \/ path[sm] # "empty" /\ fuzzdata' = File
     \/ fuzzdata' = 0
  /\ q' = "fill" /\ req' = "reattach"
  /\ UNCHANGED <<aflVars, apVars, shmVars, call, sm, counter, fuzzdatasize, prov, sent, crashes>>

\* mmap may fail (an empty test case, a path that cannot be opened).
MapData ==
  /\ q = "map"
  /\ \/ /\ path[sm] # "empty"
        /\ fuzzdata' = File
        /\ UNCHANGED fuzzdatasize
     \/ fuzzdata' = 0 /\ fuzzdatasize' = 0
  /\ q' = "fill" /\ req' = "reattach"
  /\ UNCHANGED <<aflVars, apVars, shmVars, call, sm, counter, prov, sent, crashes>>

\* The type byte that goes with a request.
TypeOf(r) == IF r = "reattach" THEN "pt" ELSE r

\* Fill the slot.  The pc of a coverage request belongs to the guest under prov.
FillSlot ==
  /\ q = "fill"
  /\ type' = [type EXCEPT ![sm] = TypeOf(req)]
  /\ data' = [data EXCEPT ![sm] = IF req = "cov" THEN prov ELSE 0]
  /\ q' = "post"
  /\ UNCHANGED <<aflVars, apVars, name, semr, semw, path, ready, call, req, sm, counter, fuzzdatasize, fuzzdata, prov, sent, crashes>>

\* sem_post(&sm->semw)
PostW ==
  /\ q = "post"
  /\ semw' = [semw EXCEPT ![sm] = @ + 1]
  /\ sent' = IF req = "cov" THEN sent + 1 ELSE sent
  /\ q' = "wait"
  /\ UNCHANGED <<aflVars, apVars, name, semr, type, data, path, ready, call, req, sm, counter, fuzzdatasize, fuzzdata, prov, crashes>>

\* Where the thread goes on after the acknowledgement of ap_reattach_pt.
AfterReattach ==
  CASE call = "read" -> q' = "use" /\ req' = "none" /\ UNCHANGED call
    [] call = "log" -> q' = "fill" /\ req' = "cov" /\ UNCHANGED call
    [] call = "attach" -> q' = "fill" /\ req' = "pt" /\ UNCHANGED call
    [] OTHER -> q' = "guest" /\ req' = "none" /\ call' = "none"

\* Mutant: the client does not wait for the acknowledgement.
WaitRSkipped ==
  /\ q = "wait"
  /\ IF req = "reattach" THEN AfterReattach
     ELSE q' = "guest" /\ req' = "none" /\ call' = "none"
  /\ UNCHANGED <<aflVars, apVars, shmVars, sm, counter, fuzzdatasize, fuzzdata, prov, sent, crashes>>

\* sem_wait(&sm->semr)
WaitR ==
  /\ q = "wait"
  /\ semr[sm] > 0
  /\ semr' = [semr EXCEPT ![sm] = @ - 1]
  /\ IF req = "reattach" THEN AfterReattach
     ELSE q' = "guest" /\ req' = "none" /\ call' = "none"
  /\ UNCHANGED <<aflVars, apVars, name, semw, type, data, path, ready, sm, counter, fuzzdatasize, fuzzdata, prov, sent, crashes>>

\* The guest gets its data, if there is any, and runs on.
UseData ==
  /\ q = "use"
  /\ prov' = sm
  /\ q' = "guest" /\ call' = "none"
  /\ UNCHANGED <<aflVars, apVars, shmVars, req, sm, counter, fuzzdatasize, fuzzdata, sent, crashes>>

\* ap_exit, statement by statement: the process may die between any two.
ExitType ==
  /\ q = "exit"
  /\ type' = [type EXCEPT ![sm] = "exit"]
  /\ q' = "unready"
  /\ UNCHANGED <<aflVars, apVars, name, semr, semw, data, path, ready, call, req, sm, counter, fuzzdatasize, fuzzdata, prov, sent, crashes>>

\* Mutant: the ready flag stays set.
ExitStaysReady ==
  /\ q = "unready"
  /\ q' = "postexit"
  /\ UNCHANGED <<aflVars, apVars, shmVars, call, req, sm, counter, fuzzdatasize, fuzzdata, prov, sent, crashes>>

ExitUnready ==
  /\ q = "unready"
  /\ ready' = [ready EXCEPT ![sm] = FALSE]
  /\ q' = "postexit"
  /\ UNCHANGED <<aflVars, apVars, name, semr, semw, type, data, path, call, req, sm, counter, fuzzdatasize, fuzzdata, prov, sent, crashes>>

\* Mutant: the exit request is never posted.
ExitPostForgotten ==
  /\ q = "postexit"
  /\ q' = "close"
  /\ UNCHANGED <<aflVars, apVars, shmVars, call, req, sm, counter, fuzzdatasize, fuzzdata, prov, sent, crashes>>

ExitPost ==
  /\ q = "postexit"
  /\ semw' = [semw EXCEPT ![sm] = @ + 1]
  /\ q' = "close"
  /\ UNCHANGED <<aflVars, apVars, name, semr, type, data, path, ready, call, req, sm, counter, fuzzdatasize, fuzzdata, prov, sent, crashes>>

\* shm->close(), sm = nullptr; the read that ended the epoch calls ap_init.
ExitClose ==
  /\ q = "close"
  /\ sm' = 0
  /\ q' = "connect"
  /\ UNCHANGED <<aflVars, apVars, shmVars, call, req, counter, fuzzdatasize, fuzzdata, prov, sent, crashes>>

\* The QEMU process ends: exit(0) in watch_dog, which runs in a thread of
\* its own, or a kill from outside.  Nothing in the shared object changes.
Crash ==
  /\ q # "dead"
  /\ crashes < MaxCrashes
  /\ crashes' = crashes + 1
  /\ q' = "dead" /\ call' = "none" /\ req' = "none"
  /\ sm' = 0 /\ counter' = 0
  /\ fuzzdatasize' = 0 /\ fuzzdata' = 0 /\ prov' = 0 /\ sent' = 0
  /\ UNCHANGED <<aflVars, apVars, shmVars>>

\* QEMU is launched again.
Restart ==
  /\ q = "dead"
  /\ q' = "guest"
  /\ UNCHANGED <<aflVars, apVars, shmVars, call, req, sm, counter, fuzzdatasize, fuzzdata, prov, sent, crashes>>

Read == ReadInEpoch \/ ReadEndsEpoch

\* The steps of a thread that is inside aplib.
Inside ==
  \/ Connect \/ ConnectFails \/ CheckReady \/ ReadSize \/ MapData
  \/ FillSlot \/ PostW \/ WaitR \/ UseData
  \/ ExitType \/ ExitUnready \/ ExitPost \/ ExitClose

Qemu ==
  \/ CallInit \/ Read \/ ReadDetached \/ CallDirect \/ CallLogPC \/ CallAttachPT
  \/ Inside

Next ==
  \/ ForkServer
  \/ \E e \in Execs : ApStep(e)
  \/ Qemu
  \/ Crash
  \/ Restart

Spec == Init /\ [][Next]_vars

\* Every process that is able to take a step takes it; QEMU calls ap_init
\* and the driver in the guest keeps reading the device; a QEMU process that
\* has died is launched again.  Crashes are not fair.
Fairness ==
  /\ WF_vars(ForkServer)
  /\ \A e \in Execs : WF_vars(ApStep(e))
  /\ WF_vars(CallInit)
  /\ WF_vars(Inside)
  /\ SF_vars(Read)
  /\ WF_vars(CallDirect)
  /\ WF_vars(Restart)

FairSpec == Spec /\ Fairness

-----------------------------------------------------------------------------
(* Properties. *)

ApPoints ==
  {"none", "start", "semr", "semw", "path", "ready", "wait", "handle",
   "post", "last", "unlink", "stop", "exited"}
QPoints ==
  {"guest", "connect", "check", "size", "map", "fill", "post", "wait", "use",
   "exit", "unready", "postexit", "close", "dead"}
Types == {"none", "cov", "pt", "rw", "exit"}

\* Type correctness of the whole state.
TypeOK ==
  /\ fs \in {"idle", "asked", "wait"}
  /\ exec \in 0 .. MaxExec
  /\ stamps \in 0 .. DryRuns
  /\ mode \in {"file", "direct"}
  /\ ptInit \in {"null", "garbage"}
  /\ ap \in [Execs -> ApPoints]
  /\ ptThread \in [Execs -> {"null", "garbage", "running"}]
  /\ logged \in [Execs -> Nat]
  /\ hits \subseteq (Execs \X (0 .. MaxExec))
  /\ name \in 0 .. MaxExec
  /\ semr \in [Execs -> Nat] /\ semw \in [Execs -> Nat]
  /\ type \in [Execs -> Types] /\ data \in [Execs -> 0 .. MaxExec]
  /\ path \in [Execs -> {"empty", "seed"}] /\ ready \in [Execs -> BOOLEAN]
  /\ q \in QPoints
  /\ call \in {"none", "init", "read", "log", "attach", "direct"}
  /\ req \in {"none", "reattach", "cov", "pt", "rw"}
  /\ sm \in 0 .. MaxExec
  /\ counter \in 0 .. (EpochReads - 1)
  /\ fuzzdatasize \in 0 .. MaxExec /\ fuzzdata \in 0 .. MaxExec
  /\ prov \in 0 .. MaxExec
  /\ sent \in Nat
  /\ crashes \in 0 .. MaxCrashes

\* The ap of e is in its event loop and has not seen a request to exit.
Serving(e) == ap[e] \in {"wait", "handle", "post"}

\* QEMU has passed the check of sm->ready and has not begun to end the epoch.
Attached ==
  \/ q \in {"size", "map", "fill", "post", "wait", "use", "exit"}
  \/ (q = "guest" /\ sm # 0)

\* An epoch is never mixed up with an earlier or a later one.  While QEMU is
\* attached, the object that it has mapped is the one the name is bound to,
\* its ap is the child the fork server waits for, and that ap is serving.
\* (sm->ready is cleared before the exit request is posted, and the next ap
\* is forked only after the last one has unlinked the name and exited.)  One
\* death of the QEMU process, at any point, does not break this.
AttachedToLive ==
  (mode = "file" /\ Attached /\ crashes <= 1) =>
    sm = exec /\ name = exec /\ fs = "wait" /\ Serving(sm) /\ ready[sm]

\* The guest is fed with the test case of the execution it is attached to:
\* the size and the mapping, taken from the input file by two separate opens,
\* belong to the same test case, the one AFL wrote for this execution.
FedFromOwnInput ==
  (mode = "file" /\ Attached /\ crashes <= 1 /\ q \in {"guest", "use", "exit"}) =>
    fuzzdatasize = fuzzdata /\ fuzzdata \in {0, sm}

\* Requests that ap has been told of and not yet acknowledged to QEMU.
InFlight(e) ==
  semw[e] + semr[e] + (IF ap[e] \in {"handle", "post"} THEN 1 ELSE 0)

\* The slot holds one request at a time: as long as no QEMU has died, a
\* request is in flight exactly when the client waits for it, so that the
\* client never fills the slot before ap has read the request in it.
OneRequestAtATime ==
  (mode = "file" /\ Attached /\ crashes = 0) =>
    InFlight(sm) = IF q = "wait" THEN 1 ELSE 0

\* ap_log_pc loses and doubles nothing: whenever the guest runs, ap has fed
\* AFL's map once for every call of ap_log_pc in this epoch.
CoverageExact ==
  (mode = "file" /\ q = "guest" /\ sm # 0 /\ crashes = 0) => logged[sm] = sent

\* Intel PT of one execution never sees the guest run under another: when the
\* guest runs, no ap but the one QEMU is attached to has a PT thread, and
\* that one has it unless ptThread was not null to begin with.
TracedByOwnAp ==
  (mode = "file" /\ q = "guest" /\ sm # 0 /\ crashes = 0) =>
    \A e \in Execs : ptThread[e] = "running" <=> (e = sm /\ ptInit = "null")

\* The promise to AFL: this protocol implements FuzzEpochs.  The guest counts
\* as fed from the check of sm->ready to the moment the exit request is
\* written; an execution lasts from fork to waitpid.
Abstract == INSTANCE FuzzEpochs WITH
  started <- exec,
  running <- IF fs = "wait" THEN exec ELSE 0,
  feeding <- IF mode = "file" /\ Attached THEN sm ELSE 0

ImplementsFuzzEpochs == Abstract!Spec

\* Every execution that AFL asks for comes to its end.
ExecutionsEnd == (fs = "wait") ~> (fs = "idle")

\* Every execution that is not a dry run gets the guest attached to it.
ExecutionsFed == \A e \in Execs : (ap[e] = "semr") ~> (sm = e /\ Attached)

\* The comment on watch_dog in aplib.cpp: "If the Kernel Panics, we terminate
\* the QEMU and restart it".  A QEMU that is launched again, while an ap waits
\* for requests and AFL still has test cases, gets attached again.
RestartResumes ==
  (q = "dead" /\ exec < MaxExec /\ \E e \in Execs : Serving(e)) ~> Attached

\* The comment on rwreq in ap.cpp: "for requesting data directly from us
\* instead of using file".  A read in direct mode comes back to the guest.
DirectReadReturns == (q = "fill" /\ req = "rw") ~> (q = "guest")

\* README of afl-proxy: "client need to call ap_attach_pt(PIDX) to enable
\* PT-monitor in ap".  Once ap has acknowledged such a request its PT thread runs.
AttachEnablesPT == (q = "guest" /\ sm # 0) => ptThread[sm] = "running"
=============================================================================
