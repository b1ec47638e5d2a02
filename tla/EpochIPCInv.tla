---------------------------- MODULE EpochIPCInv -----------------------------
(***************************************************************************)
(* IInv, the inductive invariant of EpochIPC.  Its conjuncts besides       *)
(* TypeOK, in the order in which they depend on each other:                *)
(*   Lifecycle  at most one ap is alive, and the fork server waits for it; *)
(*   Objects    an object is untouched until its ap has set ready;         *)
(*   Slot       what the slot holds at each point of a request;            *)
(*   Live       ready is set only if no exit request can be pending;       *)
(*   Fed        the input file is the one of the execution;                *)
(*   Exact      before the first death of QEMU the semaphores count the    *)
(*              one request the client waits for;                          *)
(*   Logged, Traced, Provenance                                            *)
(*              what ap has told AFL about the guest.                      *)
(***************************************************************************)
EXTENDS EpochIPC

\* The points of ap before it sets ready, and the points at which the name is
\* bound to its object.
Starting == {"none", "start", "semr", "semw", "path", "ready"}
Bound == {"semr", "semw", "path", "ready", "wait", "handle", "post", "last", "unlink"}

\* QEMU holds an object that it may still write to.
Engaged == Attached \/ q \in {"unready", "postexit"}

\* Executions are strictly sequential.
Lifecycle ==
  /\ fs = "asked" => exec < MaxExec
  /\ fs = "wait" => exec > 0
  /\ \A e \in Execs : e > exec => ap[e] = "none"
  /\ \A e \in Execs : e < exec => ap[e] = "exited"
  /\ (fs # "wait" /\ exec > 0) => ap[exec] = "exited"
  /\ \A e \in Execs : ap[e] \in Bound => name = e

\* Nobody writes to an object before it is ready.
Objects ==
  /\ \A e \in Execs : ap[e] \in Starting =>
       ~ready[e] /\ semr[e] = 0 /\ semw[e] = 0 /\ logged[e] = 0 /\ type[e] = "none"
  /\ Engaged => sm \in Execs /\ ap[sm] \notin Starting
  /\ q = "check" => sm \in Execs
  /\ q = "dead" => sm = 0
  /\ q = "postexit" => ~ready[sm]
  /\ mode = "file" =>
       /\ \A e \in Execs : (ready[e] \/ ap[e] = "ready") => path[e] = "seed"
       /\ Engaged => path[sm] = "seed"

\* The slot, when ap is started with an input file.
Slot ==
  mode = "file" =>
    /\ \A e \in Execs : type[e] # "rw"
    /\ \A e \in Execs : type[e] = "none" => semw[e] = 0 /\ ap[e] # "handle"
    /\ req # "rw"
    /\ q \in {"fill", "post", "wait"} => req \in {"reattach", "cov", "pt"}
    /\ q \in {"post", "wait"} => type[sm] = TypeOf(req)
    /\ q \in {"unready", "postexit"} => type[sm] = "exit"

\* No exit request is on its way to the ap of e.
NoExitPending(e) == type[e] = "exit" => semw[e] = 0 /\ ap[e] # "handle"

\* While ready is set, ap serves and nothing tells it to exit, except in the
\* window in which ap_exit has written the type and not yet cleared ready.
Live ==
  (mode = "file" /\ crashes <= 1) =>
    /\ Attached => ready[sm]
    /\ \A e \in Execs : ready[e] =>
         \/ Serving(e) /\ NoExitPending(e)
         \/ sm = e /\ q = "unready"

\* The size is taken, and the file mapped, while the fork server waits for
\* the execution that the file belongs to.
Fed ==
  (mode = "file" /\ crashes <= 1 /\ Attached /\ q # "size") =>
    IF q = "map" THEN fuzzdatasize = sm ELSE fuzzdatasize = fuzzdata /\ fuzzdata \in {0, sm}

\* Where the one request in flight is.
OneInFlight(e) ==
  \/ semw[e] = 1 /\ semr[e] = 0 /\ ap[e] = "wait"
  \/ semw[e] = 0 /\ semr[e] = 0 /\ ap[e] \in {"handle", "post"}
  \/ semw[e] = 0 /\ semr[e] = 1 /\ ap[e] = "wait"

Exact ==
  (mode = "file" /\ crashes = 0) =>
    /\ \A e \in Execs : (ready[e] /\ ~(sm = e /\ q = "wait")) =>
         semw[e] = 0 /\ semr[e] = 0 /\ ap[e] = "wait"
    /\ q = "wait" => OneInFlight(sm)

\* A request that ap has not handled yet.
Unhandled(r) == q = "wait" /\ req = r /\ (semw[sm] = 1 \/ ap[sm] = "handle")

Logged ==
  (mode = "file" /\ crashes = 0) =>
    /\ \A e \in Execs : (ready[e] /\ ~(sm = e /\ (Attached \/ q = "unready"))) => logged[e] = 0
    /\ Attached => logged[sm] + (IF Unhandled("cov") THEN 1 ELSE 0) = sent

\* ap runs its PT thread from the first request of type 2 to its end, unless
\* ptThread held garbage when it was forked.
Traced ==
  /\ \A e \in Execs : ptThread[e] = "running" => ap[e] \notin Starting \union {"exited"}
  /\ \A e \in Execs : ap[e] \notin {"none", "exited"} =>
       IF ptInit = "null" THEN ptThread[e] # "garbage" ELSE ptThread[e] = "garbage"
  /\ (mode = "file" /\ crashes = 0 /\ Attached /\ q \notin {"size", "map"}) =>
       \/ ptThread[sm] # "null"
       \/ q \in {"fill", "post"} /\ req = "reattach"
       \/ Unhandled("reattach")

\* The coverage in the slot of e is of the guest under e, or of a guest that
\* has not read anything.
Provenance ==
  /\ \A e \in Execs : data[e] \in {0, e}
  /\ prov # 0 => (prov = sm /\ Attached) \/ call = "read"
  /\ call = "read" => req \in {"none", "reattach"}
  /\ q \in {"guest", "dead"} => call = "none" /\ req = "none"
  /\ q \in {"use", "exit", "unready", "postexit", "close"} => call = "read" /\ req = "none"
  /\ q \in {"connect", "check", "size", "map"} => req = "none"
  /\ q \in {"fill", "post", "wait"} => req # "none"

IInv ==
  /\ TypeOK /\ Lifecycle /\ Objects /\ Slot /\ Live /\ Fed
  /\ Exact /\ Logged /\ Traced /\ Provenance
=============================================================================
