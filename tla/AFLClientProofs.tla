-------------------------- MODULE AFLClientProofs ---------------------------
(***************************************************************************)
(* Proofs of the safety properties of AFLClient, for any set of process    *)
(* numbers, any size of the map and of its cells, any set of locations,    *)
(* any number of calls and whatever operation combines two locations.      *)
(***************************************************************************)
EXTENDS AFLClient, FiniteSetTheorems, TLAPS

KidStates == {"none", "fresh", "run", "stopped", "exited", "signaled"}
Messages  == {"hello", "pid"} \cup KidStates

Types ==
    /\ afl \in {"init", "idle", "asked", "wait", "dead"}
    /\ ctl \in {"none", "go", "killed"}
    /\ st \in Seq(Messages)
    /\ fs \in {"hello", "read", "write_off", "spawn", "tell", "wait", "relay", "dead",
              "alone"}
    /\ child_pid \in Pids
    /\ child_stopped \in BOOLEAN /\ is_persistent \in BOOLEAN
    /\ kid \in [Pids -> KidStates]
    /\ status \in KidStates

(* Where the server is tells whether there is a child to wait for.         *)
Server ==
    /\ \A p \in Pids \ {child_pid} : kid[p] = "none"
    /\ fs \in {"hello", "write_off", "tell", "wait"} => ~child_stopped
    /\ fs = "hello" => kid[child_pid] = "none"
    /\ fs \in {"read", "spawn", "relay"} => (child_stopped <=> kid[child_pid] # "none")
    /\ fs \in {"write_off", "tell", "wait"} => kid[child_pid] # "none"
    /\ child_stopped => is_persistent
    /\ fs \in {"dead", "alone"} => afl = "dead"

(* How far afl-fuzz and the server are apart: what is in the two pipes.    *)
Sync ==
    /\ afl # "asked" /\ afl # "dead" => ctl = "none"
    /\ afl = "init" => \/ fs = "hello" /\ st = <<>>
                       \/ fs = "read" /\ Len(st) = 1
    /\ afl = "idle" => fs = "read" /\ st = <<>>
    /\ afl = "asked" => \/ ctl # "none" /\ fs = "read" /\ st = <<>>
                        \/ ctl = "none" /\ fs \in {"write_off", "spawn", "tell"} /\ st = <<>>
                        \/ ctl = "none" /\ fs \in {"wait", "relay"} /\ Len(st) = 1
                        \/ ctl = "none" /\ fs = "read" /\ Len(st) = 2
    /\ afl = "wait" => \/ fs \in {"wait", "relay"} /\ st = <<>>
                       \/ fs = "read" /\ Len(st) = 1

(* The cells count the increments; a thread that is between its load and   *)
(* its store has read the cell as it is, unless the threads have met.      *)
InStore(t) == call[t].at = "store"

Counted ==
    /\ map \in [Cells -> Nat] /\ hits \in [Cells -> Nat]
    /\ raced \in BOOLEAN
    /\ \A i \in Cells : IF raced THEN map[i] <= hits[i] ELSE map[i] = hits[i] % Wrap

Calls ==
    /\ DOMAIN call = Threads
    /\ kid[child_pid] = "fresh" => \A t \in Threads : ~InStore(t)
    /\ kid[child_pid] = "run" => \A t \in Threads : InStore(t) =>
          /\ call[t].idx \in Cells /\ call[t].val \in Nat
          /\ call[t].val <= hits[call[t].idx]
          /\ ~raced => /\ call[t].val = map[call[t].idx]
                       /\ \A u \in Threads : InStore(u) => u = t

IInv ==
    /\ Types /\ Server /\ Sync
    /\ ~is_persistent => Counted /\ Calls

-----------------------------------------------------------------------------
(* A cell of eight bits counts modulo its width.                           *)
LEMMA Modulo ==
    ASSUME NEW x \in Nat
    PROVE  /\ (x % Wrap) \in Nat /\ (x % Wrap) <= x
           /\ ((x % Wrap) + 1) % Wrap = ((x + 1) % Wrap)
<1>1. Wrap \in Nat /\ Wrap > 1
  BY MapAssumption DEF MapAssumption
<1> DEFINE Quotient(y) == y \div Wrap
<1>2. ASSUME NEW y \in Nat
      PROVE  /\ Quotient(y) \in Nat /\ y = Wrap * Quotient(y) + (y % Wrap)
             /\ (y % Wrap) \in 0..Wrap - 1
  BY <1>1, Z3
<1>3. ASSUME NEW a \in Int
      PROVE  /\ Wrap * a \in Int
             /\ a >= 1 => Wrap * a >= Wrap
             /\ a >= 2 => Wrap * a >= Wrap + Wrap
             /\ a <= -1 => Wrap * a <= -Wrap
             /\ a = 0 => Wrap * a = 0
             /\ a = 1 => Wrap * a = Wrap
  BY <1>1, Z3
<1>4. ASSUME NEW a \in Int, NEW b \in Int
      PROVE  Wrap * (a - b) = Wrap * a - Wrap * b
  BY <1>1, Z3
<1>5. ASSUME NEW y \in 0..Wrap - 1 PROVE y % Wrap = y
  BY <1>1, Z3
<1>6. Wrap % Wrap = 0
  BY <1>1, Z3
<1> HIDE DEF Quotient
<1> DEFINE r == x % Wrap
           s == (x + 1) % Wrap
           d == Quotient(x + 1) - Quotient(x)
<1>7. /\ r \in 0..Wrap - 1 /\ s \in 0..Wrap - 1 /\ d \in Int
      /\ r + 1 = Wrap * d + s /\ r <= x
  <2>1. x + 1 \in Nat
    OBVIOUS
  <2>2. /\ Quotient(x) \in Nat /\ x = Wrap * Quotient(x) + r /\ r \in 0..Wrap - 1
    BY <1>2
  <2>3. /\ Quotient(x + 1) \in Nat /\ x + 1 = Wrap * Quotient(x + 1) + s /\ s \in 0..Wrap - 1
    BY <1>2, <2>1
  <2>4. /\ Wrap * d = Wrap * Quotient(x + 1) - Wrap * Quotient(x)
        /\ Wrap * Quotient(x + 1) \in Int /\ Wrap * Quotient(x) \in Int
        /\ Wrap * Quotient(x) >= 0
    BY <1>1, <1>3, <1>4, <2>2, <2>3
  <2> HIDE DEF r, s
  <2>5. QED
    BY <1>1, <2>2, <2>3, <2>4
<1> HIDE DEF r, s, d
<1>8. \/ r + 1 < Wrap /\ s = r + 1
      \/ r + 1 = Wrap /\ s = 0
  BY <1>1, <1>3, <1>7
<1>9. (r + 1) % Wrap = s
  BY <1>1, <1>5, <1>6, <1>7, <1>8
<1>10. QED
  BY <1>1, <1>7, <1>9 DEF r, s

-----------------------------------------------------------------------------
(* Only the current child changes its state, other than by a fork.         *)
LEMMA KilledKid ==
    ASSUME Types, NEW k, k \in {kid, Killed(child_pid)}
    PROVE  /\ k \in [Pids -> KidStates]
           /\ \A p \in Pids \ {child_pid} : k[p] = kid[p]
           /\ k[child_pid] = "none" <=> kid[child_pid] = "none"
           /\ k[child_pid] \in {"fresh", "run"} => k = kid
  BY DEF Types, KidStates, Killed, Living

(* A write to afl-fuzz: one more message, or the end of the server.  The   *)
(* greeting that fails is the step HelloFails.                             *)
LEMMA WriteEffect ==
    ASSUME Types, Hello \/ Tell \/ Relay
    PROVE  /\ UNCHANGED <<afl, ctl, child_pid, child_stopped, status, is_persistent, kid, log>>
           /\ \/ afl = "dead" /\ fs' = "dead" /\ st' = st
              \/ /\ afl # "dead"
                 /\ \/ fs = "hello" /\ fs' = "read"
                    \/ fs = "tell" /\ fs' = "wait"
                    \/ fs = "relay" /\ fs' = "read"
                 /\ \E x \in Messages : st' = Append(st, x)
<1>1. status \in Messages /\ "hello" \in Messages /\ "pid" \in Messages
  BY DEF Types, Messages
<1>2. CASE Hello
  BY <1>1, <1>2 DEF Hello, Write
<1>3. CASE Tell
  BY <1>1, <1>3 DEF Tell, Write
<1>4. CASE Relay
  BY <1>1, <1>4 DEF Relay, Write
<1>5. QED
  BY <1>2, <1>3, <1>4

(* Every step keeps the types.                                             *)
LEMMA TypesKept == ASSUME Types, [Next]_vars PROVE Types'
<1> USE DEF Types
<1>1. CASE AflStep
  BY <1>1 DEF AflStep, AflStart, AflRequest, AflPid, AflStatus, Receive, server
<1>2. CASE AflTimeout
  BY <1>2, KilledKid DEF AflTimeout, server, pipes
<1>3. CASE AflDies
  BY <1>3 DEF AflDies, server, pipes
<1>4. CASE Hello \/ Tell \/ Relay
  <2>1. UNCHANGED <<afl, ctl, child_pid, child_stopped, status, is_persistent, kid>>
    BY <1>4, WriteEffect
  <2>2. st' \in Seq(Messages) /\ fs' \in {"read", "wait", "dead"}
    BY <1>4, WriteEffect
  <2>3. QED
    BY <2>1, <2>2
<1>5. CASE ReadRequest \/ ReadEOF
  BY <1>5 DEF ReadRequest, ReadEOF, pipes
<1>6. CASE WriteOff \/ WaitEnded
  BY <1>6 DEF WriteOff, WaitEnded, Reap, pipes, KidStates
<1>7. CASE Fork \/ HelloFails
  BY <1>7 DEF Fork, HelloFails, BecomesAp, pipes, KidStates
<1>8. CASE Continue \/ WaitStopped
  BY <1>8 DEF Continue, WaitStopped, pipes, KidStates
<1>9. CASE Mark \/ Exit \/ Stop
  BY <1>9 DEF Mark, Exit, Stop, pipes, server, KidStates
<1>10. CASE \E t \in Threads : Log(t)
  <2>1. /\ UNCHANGED <<afl, pipes, server>>
        /\ kid' \in {kid, Killed(child_pid)}
    BY <1>10 DEF Log, LogLoad, LogStore, LogPrev, pipes, server
  <2>2. QED
    BY <2>1, KilledKid DEF pipes, server
<1>11. CASE UNCHANGED vars
  BY <1>11 DEF vars, pipes, server
<1>12. QED
  BY <1>1, <1>2, <1>3, <1>4, <1>5, <1>6, <1>7, <1>8, <1>9, <1>10, <1>11
     DEF Next, ServerStep, ChildStep, Threads

-----------------------------------------------------------------------------
(* The server waits only for a child that has not been reaped, so that     *)
(* waitpid never fails and only the death of afl-fuzz ends the server.     *)
LEMMA ServerKept == ASSUME Types, Server, [Next]_vars PROVE Server'
<1> USE DEF Types, Server
<1>1. CASE AflStep
  BY <1>1 DEF AflStep, AflStart, AflRequest, AflPid, AflStatus, server
<1>2. CASE AflTimeout
  BY <1>2, KilledKid DEF AflTimeout, server
<1>3. CASE AflDies
  BY <1>3 DEF AflDies, server
<1>4. CASE Hello \/ Tell \/ Relay
  BY <1>4, WriteEffect
<1>5. CASE ReadRequest \/ ReadEOF
  <2>1. CASE ReadRequest /\ child_stopped /\ ctl = "killed"
    <3>1. fs' = "write_off" /\ ~child_stopped' /\ UNCHANGED <<afl, child_pid, is_persistent, kid>>
      BY <2>1 DEF ReadRequest
    <3>2. kid[child_pid] # "none"
      BY <2>1 DEF ReadRequest
    <3>3. QED
      BY <3>1, <3>2
  <2>2. CASE ReadRequest /\ ~(child_stopped /\ ctl = "killed")
    <3>1. fs = "read" /\ fs' = "spawn" /\ UNCHANGED <<afl, child_pid, is_persistent, kid>>
      BY <2>2 DEF ReadRequest
    <3>2. child_stopped' <=> child_stopped
      BY <2>2 DEF ReadRequest
    <3>3. QED
      BY <3>1, <3>2
  <2>3. CASE ReadEOF
    BY <2>3 DEF ReadEOF
  <2>4. QED
    BY <1>5, <2>1, <2>2, <2>3
<1>6. CASE WriteOff \/ WaitEnded
  <2>1. /\ kid[child_pid] \in Zombie /\ fs' \in {"spawn", "relay"}
        /\ kid' = [kid EXCEPT ![child_pid] = "none"] /\ ~child_stopped
        /\ UNCHANGED <<afl, child_pid, child_stopped, is_persistent>>
    BY <1>6 DEF WriteOff, WaitEnded, Reap, KidStates, Living, Zombie
  <2>2. QED
    BY <2>1
<1>7. CASE Fork \/ HelloFails
  <2>1. PICK p \in Pids : /\ child_pid' = p
                          /\ kid' = [kid EXCEPT ![p] = "fresh"]
    BY <1>7 DEF Fork, HelloFails, BecomesAp
  <2>2. \A q \in Pids : kid[q] = "none"
    BY <1>7 DEF Fork, HelloFails
  <2>3. /\ UNCHANGED <<afl, child_stopped, is_persistent>> /\ ~child_stopped
        /\ fs' = "tell" \/ (fs' = "alone" /\ afl = "dead")
    BY <1>7 DEF Fork, HelloFails
  <2>4. QED
    BY <2>1, <2>2, <2>3
<1>8. CASE Continue \/ WaitStopped
  BY <1>8 DEF Continue, WaitStopped
<1>9. CASE Mark \/ Exit \/ Stop
  BY <1>9 DEF Mark, Exit, Stop, server, Running
<1>10. CASE \E t \in Threads : Log(t)
  <2>1. /\ UNCHANGED <<afl, server>>
        /\ kid' \in {kid, Killed(child_pid)}
    BY <1>10 DEF Log, LogLoad, LogStore, LogPrev
  <2>2. QED
    BY <2>1, KilledKid DEF server
<1>11. CASE UNCHANGED vars
  BY <1>11 DEF vars, server
<1>12. QED
  BY <1>1, <1>2, <1>3, <1>4, <1>5, <1>6, <1>7, <1>8, <1>9, <1>10, <1>11
     DEF Next, ServerStep, ChildStep, Threads

(* Each message is read before the next exchange begins.                   *)
LEMMA SyncKept == ASSUME Types, Server, Sync, [Next]_vars PROVE Sync'
<1> USE DEF Types, Sync
<1>1. CASE AflStep
  <2>1. CASE AflRequest
    BY <2>1 DEF AflRequest, server
  <2>2. CASE AflStart \/ AflPid \/ AflStatus
    <3>1. /\ UNCHANGED <<ctl, fs>>
          /\ st # <<>> /\ st' = Tail(st)
          /\ \/ afl = "init" /\ afl' = "idle"
             \/ afl = "asked" /\ afl' = "wait"
             \/ afl = "wait" /\ afl' = "idle"
      BY <2>2 DEF AflStart, AflPid, AflStatus, Receive, server
    <3>2. Len(st) \in Nat /\ Len(st') = Len(st) - 1 /\ (Len(st') = 0 => st' = <<>>)
      BY <3>1
    <3>3. QED
      BY <3>1, <3>2
  <2>3. QED
    BY <1>1, <2>1, <2>2 DEF AflStep
<1>2. CASE AflTimeout
  BY <1>2 DEF AflTimeout, server, pipes
<1>3. CASE AflDies
  BY <1>3 DEF AflDies
<1>4. CASE Hello \/ Tell \/ Relay
  <2>1. UNCHANGED <<afl, ctl>>
    BY <1>4, WriteEffect
  <2>2. SUFFICES ASSUME afl # "dead" PROVE Sync'
    BY <2>1
  <2>3. /\ \/ fs = "hello" /\ fs' = "read"
           \/ fs = "tell" /\ fs' = "wait"
           \/ fs = "relay" /\ fs' = "read"
        /\ \E x \in Messages : st' = Append(st, x)
    BY <1>4, <2>2, WriteEffect
  <2>4. Len(st) \in Nat /\ Len(st') = Len(st) + 1 /\ (st = <<>> => Len(st) = 0)
    BY <2>3
  <2>5. QED
    BY <2>1, <2>2, <2>3, <2>4
<1>5. CASE ReadRequest \/ ReadEOF
  BY <1>5 DEF ReadRequest, ReadEOF, pipes
<1>6. CASE WriteOff \/ WaitEnded
  <2>1. kid[child_pid] \in Zombie
    BY <1>6 DEF WriteOff, WaitEnded, Reap, KidStates, Living, Zombie, Server
  <2>2. \/ fs = "write_off" /\ fs' = "spawn"
        \/ fs = "wait" /\ fs' = "relay"
    BY <1>6, <2>1 DEF WriteOff, WaitEnded, Reap
  <2>3. UNCHANGED <<afl, ctl, st>>
    BY <1>6 DEF WriteOff, WaitEnded, pipes
  <2>4. QED
    BY <2>2, <2>3
<1>7. CASE Fork \/ HelloFails \/ Continue \/ WaitStopped
  BY <1>7 DEF Fork, HelloFails, Continue, WaitStopped, pipes
<1>8. CASE ChildStep \/ (\E t \in Threads : Log(t)) \/ UNCHANGED vars
  <2>1. UNCHANGED <<afl, pipes, server>>
    BY <1>8 DEF ChildStep, Mark, Exit, Stop, Log, LogLoad, LogStore, LogPrev, vars
  <2>2. QED
    BY <2>1 DEF pipes, server
<1>9. QED
  BY <1>1, <1>2, <1>3, <1>4, <1>5, <1>6, <1>7, <1>8 DEF Next, ServerStep, Threads

-----------------------------------------------------------------------------
(* A load takes the cell as it is; it may be the second one in flight.     *)
LEMMA LoadKeeps ==
    ASSUME Types, Counted, Calls, NEW t \in Threads, LogLoad(t)
    PROVE  Counted' /\ Calls'
<1> USE DEF InStore
<1>1. /\ UNCHANGED <<child_pid, map, hits>> /\ kid[child_pid] = "run"
      /\ call[t].at = "out"
  BY DEF LogLoad, Running, server
<1>2. PICK loc \in Locs :
        LET i == LocXor(loc, prev_loc)
        IN  \/ /\ i \in Cells
               /\ call' = [call EXCEPT ![t] = [at |-> "store", loc |-> loc,
                                               idx |-> i, val |-> map[i]]]
               /\ raced' = (raced \/ \E u \in Threads : call[u].at = "store")
               /\ UNCHANGED kid
            \/ /\ i \notin Cells
               /\ call' = [call EXCEPT ![t] = AtPrev(loc)]
               /\ kid' \in {kid, Killed(child_pid)}
               /\ UNCHANGED raced
  BY DEF LogLoad
<1> DEFINE i == LocXor(loc, prev_loc)
<1>3. CASE i \in Cells
  <2>1. /\ call' = [call EXCEPT ![t] = [at |-> "store", loc |-> loc, idx |-> i, val |-> map[i]]]
        /\ raced' = (raced \/ \E u \in Threads : call[u].at = "store")
        /\ UNCHANGED kid
    BY <1>2, <1>3
  <2> HIDE DEF i
  <2>2. raced' \in BOOLEAN /\ (~raced' => ~raced /\ \A u \in Threads : call[u].at # "store")
    BY <2>1 DEF Counted
  <2>3. \A c \in Cells : map[c] \in Nat /\ hits[c] \in Nat /\ map[c] <= hits[c]
    BY Modulo DEF Counted
  <2>4. Counted'
    BY <1>1, <2>2, <2>3 DEF Counted
  <2>5. /\ call'[t] = [at |-> "store", loc |-> loc, idx |-> i, val |-> map[i]]
        /\ \A u \in Threads \ {t} : call'[u] = call[u]
        /\ DOMAIN call' = Threads
    BY <2>1 DEF Calls
  <2>6. ASSUME NEW u \in Threads, InStore(u)'
        PROVE  /\ call'[u].idx \in Cells /\ call'[u].val \in Nat
               /\ call'[u].val <= hits'[call'[u].idx]
               /\ ~raced' => /\ call'[u].val = map'[call'[u].idx]
                             /\ \A w \in Threads : InStore(w)' => w = u
    <3>1. CASE u = t
      BY <1>1, <1>3, <2>2, <2>3, <2>5, <3>1
    <3>2. CASE u # t
      <4>1. call'[u] = call[u] /\ InStore(u)
        BY <2>5, <2>6, <3>2
      <4>2. raced'
        BY <2>2, <4>1
      <4>3. QED
        BY <1>1, <4>1, <4>2 DEF Calls
    <3>3. QED
      BY <3>1, <3>2
  <2>7. Calls'
    BY <1>1, <2>1, <2>5, <2>6 DEF Calls
  <2>8. QED
    BY <2>4, <2>7
<1>4. CASE i \notin Cells
  <2>1. /\ call' = [call EXCEPT ![t] = AtPrev(loc)] /\ UNCHANGED raced
        /\ kid' \in {kid, Killed(child_pid)}
    BY <1>2, <1>4
  <2>2. kid'[child_pid] \in {"fresh", "run"} => kid' = kid
    BY <2>1, KilledKid
  <2>3. /\ call'[t].at = "prev"
        /\ \A u \in Threads \ {t} : call'[u] = call[u]
        /\ DOMAIN call' = Threads
    BY <2>1 DEF Calls, AtPrev, NoCall
  <2>4. QED
    BY <1>1, <2>1, <2>2, <2>3 DEF Counted, Calls
<1>5. QED
  BY <1>3, <1>4

(* A store adds one to the cell and to the count, and loses some of it     *)
(* only if another store came between.                                     *)
LEMMA StoreKeeps ==
    ASSUME Types, Counted, Calls, NEW t \in Threads, LogStore(t)
    PROVE  Counted' /\ Calls'
<1> USE DEF InStore
<1> DEFINE c == call[t].idx
           v == call[t].val
<1>1. /\ UNCHANGED <<child_pid, kid, raced>> /\ kid[child_pid] = "run" /\ InStore(t)
      /\ map' = [map EXCEPT ![c] = (v + 1) % Wrap]
      /\ hits' = [hits EXCEPT ![c] = @ + 1]
      /\ call' = [call EXCEPT ![t] = AtPrev(call[t].loc)]
  BY DEF LogStore, Running, server
<1>2. /\ c \in Cells /\ v \in Nat /\ v <= hits[c]
      /\ ~raced => v = map[c] /\ \A u \in Threads : InStore(u) => u = t
  BY <1>1 DEF Calls
<1>3. /\ call'[t].at = "prev"
      /\ \A u \in Threads \ {t} : call'[u] = call[u]
      /\ DOMAIN call' = Threads
  BY <1>1 DEF Calls, AtPrev, NoCall
<1> HIDE DEF c, v
<1>4. /\ map'[c] = (v + 1) % Wrap /\ hits'[c] = hits[c] + 1
      /\ \A i \in Cells \ {c} : map'[i] = map[i] /\ hits'[i] = hits[i]
      /\ hits[c] \in Nat
  BY <1>1, <1>2 DEF Counted
<1>5. /\ ((v + 1) % Wrap) \in Nat /\ ((v + 1) % Wrap) <= v + 1
      /\ ~raced => ((v + 1) % Wrap) = ((hits[c] + 1) % Wrap)
  <2>1. v + 1 \in Nat
    BY <1>2
  <2>2. ~raced => v = hits[c] % Wrap
    BY <1>2 DEF Counted
  <2>3. QED
    BY <1>4, <2>1, <2>2, Modulo
<1>6. map' \in [Cells -> Nat] /\ hits' \in [Cells -> Nat]
  BY <1>1, <1>2, <1>4, <1>5 DEF Counted
<1>7. Counted'
  <2>1. ASSUME NEW i \in Cells
        PROVE  IF raced THEN map'[i] <= hits'[i] ELSE map'[i] = hits'[i] % Wrap
    <3>1. CASE i = c
      BY <1>2, <1>4, <1>5, <3>1
    <3>2. CASE i # c
      BY <1>4, <3>2 DEF Counted
    <3>3. QED
      BY <3>1, <3>2
  <2>2. QED
    BY <1>1, <1>6, <2>1 DEF Counted
<1>8. ASSUME NEW u \in Threads, InStore(u)'
      PROVE  /\ call'[u].idx \in Cells /\ call'[u].val \in Nat
             /\ call'[u].val <= hits'[call'[u].idx] /\ raced
  <2>1. u # t /\ call'[u] = call[u] /\ InStore(u)
    BY <1>3, <1>8
  <2>2. raced
    BY <1>2, <2>1
  <2>3. call[u].idx \in Cells /\ call[u].val \in Nat /\ call[u].val <= hits[call[u].idx]
    BY <1>1, <2>1 DEF Calls
  <2>4. hits'[call[u].idx] \in Nat /\ hits[call[u].idx] \in Nat
        /\ hits[call[u].idx] <= hits'[call[u].idx]
    BY <1>4, <1>6, <2>3 DEF Counted
  <2>5. QED
    BY <2>1, <2>2, <2>3, <2>4
<1>9. Calls'
  BY <1>1, <1>3, <1>8 DEF Calls
<1>10. QED
  BY <1>7, <1>9

(* The map and the calls, for all steps.  AFL clears the map only when the *)
(* child of the last execution is gone.                                    *)
LEMMA CountedKept ==
    ASSUME Types, Server, Sync, ~is_persistent, Counted, Calls, [Next]_vars
    PROVE  Counted' /\ Calls'
<1>1. ~child_stopped
  BY DEF Server
<1>2. ASSUME UNCHANGED <<map, hits, raced, call, child_pid>>,
             kid'[child_pid] \in {"fresh", "run"} => kid'[child_pid] = kid[child_pid]
      PROVE  Counted' /\ Calls'
  BY <1>2 DEF Counted, Calls, InStore
<1>3. CASE AflRequest
  <2>1. kid[child_pid] = "none"
    BY <1>1, <1>3 DEF AflRequest, Sync, Server
  <2>2. UNCHANGED <<child_pid, kid, call>>
    BY <1>3 DEF AflRequest, server
  <2>3. /\ map' = [i \in Cells |-> 0] /\ hits' = [i \in Cells |-> 0] /\ raced' = FALSE
    BY <1>3 DEF AflRequest
  <2>4. 0 % Wrap = 0
    BY MapAssumption DEF MapAssumption
  <2>5. Counted'
    BY <2>3, <2>4 DEF Counted
  <2>6. QED
    BY <2>1, <2>2, <2>5 DEF Calls
<1>4. CASE AflStart \/ AflPid \/ AflStatus \/ AflDies
  BY <1>2, <1>4 DEF AflStart, AflPid, AflStatus, AflDies, server, log
<1>5. CASE AflTimeout
  <2>1. UNCHANGED <<map, hits, raced, call, child_pid>> /\ kid' = Killed(child_pid)
    BY <1>5 DEF AflTimeout, server, log
  <2>2. QED
    BY <1>2, <2>1, KilledKid
<1>6. CASE Hello \/ Tell \/ Relay
  BY <1>2, <1>6, WriteEffect DEF log
<1>7. CASE ReadRequest \/ ReadEOF
  BY <1>2, <1>7 DEF ReadRequest, ReadEOF, log
<1>8. CASE WriteOff \/ WaitEnded
  <2>1. UNCHANGED <<map, hits, raced, call, child_pid>>
        /\ kid' = [kid EXCEPT ![child_pid] = "none"]
    BY <1>8 DEF WriteOff, WaitEnded, Reap, log
  <2>2. QED
    BY <1>2, <2>1 DEF Types
<1>9. CASE Fork \/ HelloFails
  <2>1. kid'[child_pid'] = "fresh"
    BY <1>9 DEF Fork, HelloFails, BecomesAp, Types
  <2>2. UNCHANGED <<map, hits, raced>> /\ call' = [t \in Threads |-> NoCall]
    BY <1>9 DEF Fork, HelloFails, BecomesAp
  <2>3. QED
    BY <2>1, <2>2 DEF Counted, Calls, InStore, NoCall
<1>10. CASE Mark
  <2>1. /\ kid[child_pid] = "fresh" /\ UNCHANGED <<call, raced>>
        /\ map' = [map EXCEPT ![0] = 1] /\ hits' = [hits EXCEPT ![0] = 1]
    BY <1>10 DEF Mark
  <2>2. \A t \in Threads : ~InStore(t)'
    BY <2>1 DEF Calls, InStore
  <2>3. 1 % Wrap = 1 /\ 0 \in Cells
    BY MapAssumption DEF MapAssumption, Cells
  <2>4. Counted'
    BY <2>1, <2>3 DEF Counted
  <2>5. QED
    BY <2>1, <2>2, <2>4 DEF Calls
<1>11. CASE Exit
  <2>1. UNCHANGED <<map, hits, raced, call, child_pid>>
        /\ kid' = [kid EXCEPT ![child_pid] = "exited"]
    BY <1>11 DEF Exit, log, server
  <2>2. QED
    BY <1>2, <2>1 DEF Types
<1>12. ~Continue /\ ~WaitStopped /\ ~Stop
  BY <1>1 DEF Continue, WaitStopped, Stop
<1>13. CASE \E t \in Threads : LogPrev(t)
  <2>1. PICK t \in Threads : LogPrev(t)
    BY <1>13
  <2>2. /\ UNCHANGED <<map, hits, raced, child_pid, kid>>
        /\ call' = [call EXCEPT ![t] = NoCall] /\ kid[child_pid] = "run"
    BY <2>1 DEF LogPrev, Running, server
  <2>3. /\ ~InStore(t)' /\ DOMAIN call' = Threads
        /\ \A u \in Threads \ {t} : call'[u] = call[u]
    BY <2>2 DEF Calls, InStore, NoCall
  <2>4. QED
    BY <2>2, <2>3 DEF Counted, Calls, InStore
<1>14. CASE UNCHANGED vars
  BY <1>2, <1>14 DEF vars, log, server
<1>15. QED
  BY <1>3, <1>4, <1>5, <1>6, <1>7, <1>8, <1>9, <1>10, <1>11, <1>12, <1>13, <1>14,
     LoadKeeps, StoreKeeps
     DEF Next, AflStep, ServerStep, ChildStep, Log, Threads

-----------------------------------------------------------------------------
(* IInv is an invariant of the fork server, afl-fuzz and the child.        *)
THEOREM Invariance == Spec => []IInv
<1>1. Init => IInv
  <2> SUFFICES ASSUME Init PROVE IInv
    OBVIOUS
  <2>1. child_pid \in Pids
    BY MapAssumption DEF Init, MapAssumption
  <2>2. Types /\ Server /\ Sync
    <3>1. <<>> \in Seq(Messages)
      OBVIOUS
    <3>2. Types
      BY <2>1, <3>1 DEF Init, Types, KidStates
    <3>3. Server
      BY <2>1 DEF Init, Server
    <3>4. Sync
      BY DEF Init, Sync
    <3>5. QED
      BY <3>2, <3>3, <3>4
  <2>3. 1 % Wrap = 1 /\ 0 % Wrap = 0
    BY MapAssumption DEF MapAssumption
  <2>4. map \in [Cells -> Nat] /\ \A i \in Cells : map[i] = map[i] % Wrap
    BY <2>3 DEF Init
  <2>5. Counted
    BY <2>4 DEF Init, Counted
  <2>6. Calls
    BY DEF Init, Calls, InStore, NoCall
  <2>7. QED
    BY <2>2, <2>5, <2>6 DEF IInv
<1>2. IInv /\ [Next]_vars => IInv'
  <2> SUFFICES ASSUME IInv, [Next]_vars PROVE IInv'
    OBVIOUS
  <2>1. Types' /\ Server' /\ Sync'
    BY TypesKept, ServerKept, SyncKept DEF IInv
  <2>2. is_persistent' = is_persistent
    BY DEF Next, AflStep, AflStart, AflRequest, AflPid, AflStatus, AflTimeout, AflDies,
           ServerStep, Hello, HelloFails, ReadRequest, ReadEOF, WriteOff, Fork, Continue, Tell,
           WaitStopped, WaitEnded, Relay, ChildStep, Mark, Exit, Stop, Log, LogLoad,
           LogStore, LogPrev, vars, server
  <2>3. ~is_persistent => Counted' /\ Calls'
    BY CountedKept DEF IInv
  <2>4. QED
    BY <2>1, <2>2, <2>3 DEF IInv
<1>3. QED
  BY <1>1, <1>2, PTL DEF Spec

(* While afl-fuzz lives its fork server does, whenever its timeout strikes. *)
THEOREM ServerNeverFails == Spec => []ServerSurvives
<1>1. IInv => ServerSurvives
  BY DEF IInv, Server, ServerSurvives
<1>2. QED
  BY <1>1, Invariance, PTL

(* No two children exist, and none when the server waits for a request     *)
(* after the end of an execution.                                          *)
THEOREM OneChildAtATime == Spec => []OneChild
<1>1. ASSUME IInv PROVE OneChild
  <2> DEFINE K == {p \in Pids : kid[p] # "none"}
  <2>1. K \subseteq {child_pid}
    BY <1>1 DEF IInv, Server
  <2>2. IsFiniteSet({child_pid}) /\ Cardinality({child_pid}) = 1
    BY FS_Singleton
  <2>3. Cardinality(K) <= 1
    <3>1. Cardinality(K) <= Cardinality({child_pid})
      BY <2>1, <2>2, FS_Subset
    <3>2. QED
      BY <2>2, <3>1
  <2>4. fs = "read" /\ ~child_stopped => \A p \in Pids : kid[p] = "none"
    BY <1>1 DEF IInv, Server
  <2>5. QED
    BY <2>3, <2>4 DEF OneChild
<1>2. IInv => OneChild
  BY <1>1
<1>3. QED
  BY <1>2, Invariance, PTL

(* What AFL reads in the map after an execution was counted in it.         *)
THEOREM MapIsOfThisRun == Spec => []MapOfThisRun
<1>1. IInv => MapOfThisRun
  BY DEF IInv, Counted, MapOfThisRun
<1>2. QED
  BY <1>1, Invariance, PTL
=============================================================================
