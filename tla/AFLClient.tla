----------------------------- MODULE AFLClient -----------------------------
(***************************************************************************)
(* The class AFLClient of ap (proxy/aflclient.h): its fork server, which   *)
(* talks to afl-fuzz over two pipes and starts, resumes and reaps the ap   *)
(* of each execution, and AFLMaybeLog, through which two threads of that   *)
(* ap, the request loop and the PT worker, count edges in AFL's map        *)
(* without a lock.                                                         *)
(*                                                                         *)
(* afl-fuzz is external.  It clears the map before each execution, may     *)
(* kill the execution when its time is up, and may be killed itself.       *)
(***************************************************************************)
EXTENDS Integers, FiniteSets, Sequences

CONSTANTS Pids,       \* process numbers, reused after waitpid
          MapSize,    \* cells of the map (65536), a power of two
          Wrap,       \* values of a cell (256)
          Locs,       \* locations a pc is hashed to
          LocXor(_, _), \* the exclusive or of two locations
          MaxCalls    \* bound: calls of AFLMaybeLog started in one execution

ASSUME MapAssumption ==
    /\ Pids # {}
    /\ MapSize \in Nat \ {0}
    /\ Wrap \in Nat \ {0, 1}

Cells   == 0..MapSize - 1
Threads == {"main", "pt"}

VARIABLES afl,            \* afl-fuzz: "init", "idle", "asked", "wait", "dead"
          timed_out,      \* its child_timed_out, sent as was_killed
          ctl,            \* the pipe to the server
          st,             \* the pipe to afl-fuzz
          is_persistent,  \* PERSIST_ENV_VAR is set
          fs,             \* control point of AFLForkServer; "alone": it has returned
                          \* in the process itself, which is child_pid from then on
          child_pid, child_stopped, status,
          kid,            \* state of each process
          map,            \* AFL's map
          prev_loc,       \* of the running child
          prev_init,      \* what the server's prev_loc holds
          call,           \* the call of AFLMaybeLog each thread is in
          calls,          \* calls started in this execution
          hits, raced     \* ghosts: increments per cell, the mark included; two calls
                          \* overlapped

pipes  == <<ctl, st>>
server == <<fs, child_pid, child_stopped, status, is_persistent, prev_init>>
log    == <<map, prev_loc, call, calls, hits, raced>>
vars   == <<afl, timed_out, pipes, server, kid, log>>

NoCall == [at |-> "out", loc |-> 0, idx |-> 0, val |-> 0]
AtPrev(loc) == [NoCall EXCEPT !.at = "prev", !.loc = loc]

Living == {"fresh", "run", "stopped"}
Zombie == {"exited", "signaled"}   \* ended and not reaped

(* The member prev_loc is not initialised: MapSize stands for a value      *)
(* outside the map.                                                        *)
Init ==
    /\ afl = "init" /\ timed_out = FALSE /\ ctl = "none" /\ st = <<>>
    /\ is_persistent \in BOOLEAN
    /\ fs = "hello" /\ child_pid = (CHOOSE p \in Pids : TRUE)
    /\ child_stopped = FALSE /\ status = "none"
    /\ kid = [p \in Pids |-> "none"]
    /\ map = [i \in Cells |-> IF i = 0 THEN 1 ELSE 0]
    /\ prev_init \in {0, MapSize} /\ prev_loc = prev_init
    /\ call = [t \in Threads |-> NoCall] /\ calls = 0
    /\ hits = map /\ raced = FALSE

-----------------------------------------------------------------------------
(* afl-fuzz (external).                                                    *)

Receive(messages) == st # <<>> /\ Head(st) \in messages /\ st' = Tail(st)

\* init_forkserver reads the handshake.
AflStart ==
    /\ afl = "init" /\ Receive({"hello"})
    /\ afl' = "idle"
    /\ UNCHANGED <<timed_out, ctl, server, kid, log>>

\* run_target clears the map and says whether it killed the last execution.
AflRequest ==
    /\ afl = "idle"
    /\ afl' = "asked"
    /\ ctl' = IF timed_out THEN "killed" ELSE "go"
    /\ timed_out' = FALSE
    /\ map' = [i \in Cells |-> 0]
    /\ hits' = [i \in Cells |-> 0] /\ raced' = FALSE /\ calls' = 0
    /\ UNCHANGED <<st, server, kid, prev_loc, call>>

AflPid ==
    /\ afl = "asked" /\ Receive({"pid"})
    /\ afl' = "wait"
    /\ UNCHANGED <<timed_out, ctl, server, kid, log>>

\* SIGKILL to p, which a process that has ended does not notice.
Killed(p) == IF kid[p] \in Living THEN [kid EXCEPT ![p] = "signaled"] ELSE kid

\* The timer of the execution fires, perhaps after the server has reaped it.
AflTimeout ==
    /\ afl = "wait" /\ ~timed_out
    /\ timed_out' = TRUE
    /\ kid' = Killed(child_pid)
    /\ UNCHANGED <<afl, pipes, server, log>>

\* The status arrives and AFL looks at the map.
AflStatus ==
    /\ afl = "wait" /\ Receive({"exited", "signaled", "stopped"})
    /\ afl' = "idle"
    /\ UNCHANGED <<timed_out, ctl, server, kid, log>>

\* afl-fuzz is killed (run-48h.sh does so before a campaign).
AflDies ==
    /\ afl # "dead"
    /\ afl' = "dead"
    /\ UNCHANGED <<timed_out, pipes, server, kid, log>>

-----------------------------------------------------------------------------
(* AFLForkServer.  A write to a pipe without a reader fails (SIGPIPE is     *)
(* ignored) and ends the server, except for the first one.                 *)

Write(message, next) ==
    IF afl = "dead" THEN fs' = "dead" /\ st' = st
                    ELSE fs' = next /\ st' = Append(st, message)

\* A process returns from AFLForkServer and goes on as the ap of an execution.
BecomesAp(p) ==
    /\ child_pid' = p
    /\ kid' = [kid EXCEPT ![p] = "fresh"]
    /\ prev_loc' = prev_init
    /\ call' = [t \in Threads |-> NoCall]
    /\ UNCHANGED <<map, calls, hits, raced>>

Hello ==
    /\ fs = "hello" /\ afl # "dead"
    /\ Write("hello", "read")
    /\ UNCHANGED <<afl, timed_out, ctl, child_pid, child_stopped, status,
                   is_persistent, prev_init, kid, log>>

\* Nobody reads the greeting: the process itself just executes the program.
HelloFails ==
    /\ fs = "hello" /\ afl = "dead"
    /\ fs' = "alone"
    /\ \E p \in Pids : BecomesAp(p)
    /\ UNCHANGED <<afl, timed_out, pipes, child_stopped, status, is_persistent,
                   prev_init>>

\* As ReadRequest, and the old process is reaped but still taken for stopped.
ReadRequestKeepsStopped ==
    /\ fs = "read" /\ ctl # "none"
    /\ ctl' = "none"
    /\ fs' = IF child_stopped /\ ctl = "killed" THEN "write_off" ELSE "spawn"
    /\ UNCHANGED <<afl, timed_out, st, child_pid, child_stopped, status,
                   is_persistent, prev_init, kid, log>>

\* A request; the stopped child that AFL has killed is written off first.
ReadRequest ==
    /\ fs = "read" /\ ctl # "none"
    /\ ctl' = "none"
    /\ LET gone == child_stopped /\ ctl = "killed"
       IN  /\ fs' = IF gone THEN "write_off" ELSE "spawn"
           /\ child_stopped' = (child_stopped /\ ~gone)
    /\ UNCHANGED <<afl, timed_out, st, child_pid, status, is_persistent,
                   prev_init, kid, log>>

\* As ReadEOF, with the failed read retried.
ReadEOFIgnored ==
    /\ fs = "read" /\ ctl = "none" /\ afl = "dead"
    /\ UNCHANGED vars

ReadEOF ==
    /\ fs = "read" /\ ctl = "none" /\ afl = "dead"
    /\ fs' = "dead"
    /\ UNCHANGED <<afl, timed_out, pipes, child_pid, child_stopped, status,
                   is_persistent, prev_init, kid, log>>

\* waitpid waits for the process to end and fails if it has been reaped.
Reap(next) ==
    /\ kid[child_pid] \notin Living
    /\ fs' = IF kid[child_pid] \in Zombie THEN next ELSE "dead"
    /\ kid' = [kid EXCEPT ![child_pid] = "none"]
    /\ status' = kid[child_pid]

WriteOff ==
    /\ fs = "write_off"
    /\ Reap("spawn")
    /\ UNCHANGED <<afl, timed_out, pipes, child_pid, child_stopped,
                   is_persistent, prev_init, log>>

\* The child inherits the server's prev_loc and none of its threads.
Fork ==
    /\ fs = "spawn" /\ ~child_stopped
    /\ \E p \in Pids : kid[p] = "none" /\ BecomesAp(p)
    /\ fs' = "tell"
    /\ UNCHANGED <<afl, timed_out, pipes, child_stopped, status, is_persistent,
                   prev_init>>

Continue ==
    /\ fs = "spawn" /\ child_stopped
    /\ kid' = IF kid[child_pid] = "stopped"
              THEN [kid EXCEPT ![child_pid] = "run"] ELSE kid
    /\ child_stopped' = FALSE
    /\ fs' = "tell"
    /\ UNCHANGED <<afl, timed_out, pipes, child_pid, status, is_persistent,
                   prev_init, log>>

Tell ==
    /\ fs = "tell"
    /\ Write("pid", "wait")
    /\ UNCHANGED <<afl, timed_out, ctl, child_pid, child_stopped, status,
                   is_persistent, prev_init, kid, log>>

\* As WaitStopped, with the stop not remembered.
WaitStoppedForgotten ==
    /\ fs = "wait" /\ is_persistent /\ kid[child_pid] = "stopped"
    /\ status' = "stopped"
    /\ fs' = "relay"
    /\ UNCHANGED <<afl, timed_out, pipes, child_pid, child_stopped,
                   is_persistent, prev_init, kid, log>>

\* waitpid with WUNTRACED reports a stop.
WaitStopped ==
    /\ fs = "wait" /\ is_persistent /\ kid[child_pid] = "stopped"
    /\ status' = "stopped"
    /\ child_stopped' = TRUE
    /\ fs' = "relay"
    /\ UNCHANGED <<afl, timed_out, pipes, child_pid, is_persistent, prev_init,
                   kid, log>>

WaitEnded ==
    /\ fs = "wait"
    /\ Reap("relay")
    /\ UNCHANGED <<afl, timed_out, pipes, child_pid, child_stopped,
                   is_persistent, prev_init, log>>

\* As Relay, and a stop is not relayed.
RelayUnlessStopped ==
    /\ fs = "relay"
    /\ IF status = "stopped" THEN fs' = "read" /\ st' = st
                             ELSE Write(status, "read")
    /\ UNCHANGED <<afl, timed_out, ctl, child_pid, child_stopped, status,
                   is_persistent, prev_init, kid, log>>

Relay ==
    /\ fs = "relay"
    /\ Write(status, "read")
    /\ UNCHANGED <<afl, timed_out, ctl, child_pid, child_stopped, status,
                   is_persistent, prev_init, kid, log>>

-----------------------------------------------------------------------------
(* The child.                                                              *)

Running == kid[child_pid] = "run"

\* The rest of the constructor: the map is marked as used.
Mark ==
    /\ kid[child_pid] = "fresh"
    /\ kid' = [kid EXCEPT ![child_pid] = "run"]
    /\ map' = [map EXCEPT ![0] = 1]
    /\ hits' = [hits EXCEPT ![0] = 1]
    /\ UNCHANGED <<afl, timed_out, pipes, server, prev_loc, call, calls, raced>>

\* AFLMaybeLog reads prev_loc and the cell.  Outside the map there is no cell
\* to read: the process dies, or something else in it is overwritten.
LogLoad(t) ==
    /\ Running /\ call[t].at = "out" /\ calls < MaxCalls
    /\ calls' = calls + 1
    /\ \E loc \in Locs :
        LET i == LocXor(loc, prev_loc)
        IN  \/ /\ i \in Cells
               /\ call' = [call EXCEPT ![t] = [at |-> "store", loc |-> loc,
                                               idx |-> i, val |-> map[i]]]
               /\ raced' = (raced \/ \E u \in Threads : call[u].at = "store")
               /\ UNCHANGED kid
            \/ /\ i \notin Cells
               /\ call' = [call EXCEPT ![t] = AtPrev(loc)]
               /\ kid' \in {kid, Killed(child_pid)}
               /\ UNCHANGED raced
    /\ UNCHANGED <<afl, timed_out, pipes, server, map, prev_loc, hits>>

\* As LogStore, with a counter that stays at its maximum.
LogStoreSaturating(t) ==
    /\ Running /\ call[t].at = "store"
    /\ map' = [map EXCEPT ![call[t].idx] =
                 IF call[t].val = Wrap - 1 THEN Wrap - 1 ELSE call[t].val + 1]
    /\ hits' = [hits EXCEPT ![call[t].idx] = @ + 1]
    /\ call' = [call EXCEPT ![t] = AtPrev(call[t].loc)]
    /\ UNCHANGED <<afl, timed_out, pipes, server, kid, prev_loc, calls, raced>>

\* It writes the incremented cell, which has eight bits,
LogStore(t) ==
    /\ Running /\ call[t].at = "store"
    /\ map' = [map EXCEPT ![call[t].idx] = (call[t].val + 1) % Wrap]
    /\ hits' = [hits EXCEPT ![call[t].idx] = @ + 1]
    /\ call' = [call EXCEPT ![t] = AtPrev(call[t].loc)]
    /\ UNCHANGED <<afl, timed_out, pipes, server, kid, prev_loc, calls, raced>>

\* and prev_loc.
LogPrev(t) ==
    /\ Running /\ call[t].at = "prev"
    /\ prev_loc' = call[t].loc \div 2
    /\ call' = [call EXCEPT ![t] = NoCall]
    /\ UNCHANGED <<afl, timed_out, pipes, server, kid, map, calls, hits, raced>>

\* main returns, wherever the PT thread is.
Exit ==
    /\ Running /\ call["main"].at = "out"
    /\ kid' = [kid EXCEPT ![child_pid] = "exited"]
    /\ UNCHANGED <<afl, timed_out, pipes, server, log>>

\* In persistent mode the server expects the child to stop after a run instead;
\* no statement of ap does so, the signal comes from outside.
Stop ==
    /\ Running /\ is_persistent /\ call["main"].at = "out"
    /\ kid' = [kid EXCEPT ![child_pid] = "stopped"]
    /\ UNCHANGED <<afl, timed_out, pipes, server, log>>

-----------------------------------------------------------------------------
AflStep    == AflStart \/ AflRequest \/ AflPid \/ AflStatus
ServerStep == \/ Hello \/ HelloFails \/ ReadRequest \/ ReadEOF \/ WriteOff \/ Fork
              \/ Continue \/ Tell \/ WaitStopped \/ WaitEnded \/ Relay
Log(t)     == LogLoad(t) \/ LogStore(t) \/ LogPrev(t)
ChildStep  == Mark \/ Log("main") \/ Exit \/ Stop

Next == AflStep \/ AflTimeout \/ AflDies \/ ServerStep \/ ChildStep \/ Log("pt")

Spec == Init /\ [][Next]_vars
             /\ WF_vars(AflStep) /\ WF_vars(ServerStep) /\ WF_vars(ChildStep)

-----------------------------------------------------------------------------
(* While afl-fuzz lives its fork server does: no waitpid ever meets a      *)
(* process that has been reaped, although the timeout of afl-fuzz may      *)
(* strike before, at and after the child's stop or end.                    *)
ServerSurvives == fs = "dead" => afl = "dead"

(* One ap at a time: fork happens only when the child before is dead and   *)
(* reaped, so no two use the map or the name of the shared memory object,  *)
(* and none is left when the server has relayed an end.                    *)
OneChild ==
    /\ Cardinality({p \in Pids : kid[p] # "none"}) <= 1
    /\ fs = "read" /\ ~child_stopped => \A p \in Pids : kid[p] = "none"

(* What AFL finds in the map was counted in this execution.  A cell has    *)
(* the number of increments, modulo its width, unless the two threads met  *)
(* in AFLMaybeLog, which can only lose some.  In persistent mode the PT    *)
(* thread may carry a count over the clearing of the map.                  *)
MapOfThisRun ==
    afl = "idle" /\ ~is_persistent =>
        \A i \in Cells : IF raced THEN map[i] <= hits[i]
                                  ELSE map[i] = hits[i] % Wrap

(* afl-fuzz gets a status for every execution it asks for.                 *)
RequestsAnswered == afl = "asked" ~> afl \in {"idle", "dead"}

(* When afl-fuzz is killed its fork server ends too, wherever it is; only  *)
(* a process that has not said hello yet is left, which AFLForkServer lets *)
(* go on as an ap without AFL.                                             *)
ServerEndsWithAFL ==
    /\ (afl = "dead" /\ fs \notin {"hello", "alone"}) ~> fs = "dead"
    /\ (afl = "dead" /\ fs = "hello") ~> fs = "alone"
=============================================================================
