----------------------------- MODULE ProbeModel -----------------------------
(***************************************************************************)
(* The probe model of a device (HWModel and its generated subclasses) and  *)
(* the way aplib uses it to answer register reads.                         *)
(*                                                                         *)
(* A generated subclass replays, per register, the values that symbolic    *)
(* execution found to make the driver's probe function succeed: one case   *)
(* of a switch per register, with a static counter of its own.  The first  *)
(* ProbeLen + 1 reads since the last restart of the device are answered    *)
(* that way; afterwards the test case is fed.  A register is one cell: all *)
(* accesses to it have the width of the recording.                         *)
(*                                                                         *)
(* ap is given the path of a file with the test case.  Without one, reads  *)
(* and writes are requests to ap (direct mode), and a read under           *)
(* TEST_PROBE fails an assertion; both are left out here.  EpochIPC has    *)
(* the reads of direct mode.                                               *)
(***************************************************************************)
EXTENDS Integers, Sequences, FiniteSetsExt

CONSTANTS Regs,        \* the registers a driver accesses, in cells from 0
          Order,       \* the registers with a case, in the order of the switch
          Recorded,    \* for each of them, the recorded values
          ProbeLen,    \* the bound on probe_len
          Styles,      \* the kinds of generated subclasses, see Init
          Values,      \* what a cell can hold
          Inputs,      \* test cases, as sequences of cells; <<>> if unreadable
          Writes,      \* what the driver writes: pairs of a register and a value
          MaxRestarts  \* bound on restarts of the device

Cases == {Order[i] : i \in DOMAIN Order}

ASSUME RecordingAssumption ==
  /\ Regs \subseteq Nat
  /\ Order \in Seq(Regs)
  /\ \A i, j \in DOMAIN Order : Order[i] = Order[j] => i = j
  /\ Recorded \in [Cases -> Seq(Values)]
  /\ ProbeLen \in Nat \cup {-1}
  /\ Styles \subseteq [resets : BOOLEAN, breaks : BOOLEAN, default : BOOLEAN]
  /\ 0 \in Values
  /\ Inputs \subseteq Seq(Values)
  /\ Writes \subseteq Regs \X Values
  /\ MaxRestarts \in Nat

VARIABLES
  style,        \* the subclass: does it use CHECK_RESET, break, default
  mode,         \* the knobs TEST_PROBE and MODEL_PROBE_FUZZ, or an expert model
  redirectR,    \* NO_REDIRECT_READ is not set
  cnt, ver,     \* the static counters of each case
  restart_cnt, probe_len,
  bars,         \* the device memory behind the registers
  sm,           \* is QEMU attached to ap
  input,        \* fuzzdata: the private mapping of the test case
  last,         \* the last read: its register, where the answer is from, the answer
  restarts,     \* ghost: number of restarts of the device
  nth, total    \* ghost: reads since the restart, of each case and of all

config == <<style, mode, redirectR>>
device == <<cnt, ver, restart_cnt, probe_len>>
ghosts == <<restarts, nth, total>>
vars == <<config, device, bars, sm, input, last, ghosts>>

Answer(a, from, val) == [reg |-> a, from |-> from, val |-> val]

Modes == {"probe", "fuzz", "dumb", "expert"}

\* Up to which number of reads the ghosts count: one more than the model answers.
Enough == ProbeLen + 2

Init ==
  /\ style \in Styles
  /\ mode \in Modes
  /\ redirectR \in BOOLEAN
  /\ cnt = [c \in Cases |-> 0] /\ ver = [c \in Cases |-> 0]
  /\ restart_cnt = 0 /\ probe_len = 0
  /\ bars = [a \in Regs |-> 0]
  /\ sm = FALSE /\ input = <<>>
  /\ last = Answer(-1, "nowhere", 0)
  /\ restarts = 0 /\ nth = [c \in Cases |-> 0] /\ total = 0

-----------------------------------------------------------------------------
(* The generated read function.  rc and pl are restart_cnt and probe_len   *)
(* at the time of the call: a restart may precede it in the same read.     *)

\* Does a read of a run through the i-th case?  Without break, through all
\* that follow its own.
Runs(a, i) ==
  \/ Order[i] = a
  \/ ~style.breaks /\ \E j \in 1..(i - 1) : Order[j] = a

StartForgetsVersion(c, rc) == IF style.resets /\ rc > 0 THEN 0 ELSE cnt[c]

\* CHECK_RESET: the counter a case works with.
Start(c, rc) == IF style.resets /\ rc > ver[c] THEN 0 ELSE cnt[c]

\* The cases on the way that write the destination: the last of them counts.
Hits(a, rc) ==
  {i \in DOMAIN Order : Runs(a, i) /\ Start(Order[i], rc) < Len(Recorded[Order[i]])}

Written(a, hits) == hits # {} \/ (a \notin Cases /\ style.default)

Dest(hits, rc) ==
  IF hits = {} THEN 0
  ELSE LET c == Order[Max(hits)] IN Recorded[c][Start(c, rc) + 1]

Over(pl) == pl > ProbeLen

Ran(a, c) == \E i \in DOMAIN Order : Order[i] = c /\ Runs(a, i)

ReplayCountsHits(a, rc, pl) ==
  /\ cnt' = [c \in Cases |-> IF Ran(a, c) THEN Start(c, rc) + 1 ELSE cnt[c]]
  /\ ver' = [c \in Cases |-> IF Ran(a, c) /\ style.resets /\ rc > ver[c] THEN rc ELSE ver[c]]
  /\ probe_len' = IF a \in Cases THEN pl + 1 ELSE pl
  /\ restart_cnt' = rc

\* What the call leaves in the counters.
Replay(a, rc, pl) ==
  /\ cnt' = [c \in Cases |-> IF Ran(a, c) THEN Start(c, rc) + 1 ELSE cnt[c]]
  /\ ver' = [c \in Cases |-> IF Ran(a, c) /\ style.resets /\ rc > ver[c] THEN rc ELSE ver[c]]
  /\ probe_len' = pl + 1
  /\ restart_cnt' = rc

NoReplay(rc, pl) == cnt' = cnt /\ ver' = ver /\ probe_len' = pl /\ restart_cnt' = rc

Count(n) == IF n < Enough THEN n + 1 ELSE n

\* One more read of a, after a restart if fresh.
Observe(a, fresh) ==
  /\ restarts' = IF fresh THEN restarts + 1 ELSE restarts
  /\ nth' = [c \in Cases |-> LET n == IF fresh THEN 0 ELSE nth[c]
                             IN IF c = a THEN Count(n) ELSE n]
  /\ total' = Count(IF fresh THEN 0 ELSE total)

-----------------------------------------------------------------------------
(* Reads.                                                                  *)

\* ap_exit if the epoch is over, then ap_init: the test case of the epoch.
Epoch ==
  /\ sm
  /\ input' \in Inputs \cup {input}
  /\ UNCHANGED sm

Alive == last.from # "aborted"

\* Except in the usual mode, a read before the attachment fails the assertion
\* in ap_get_fuzz_file, which ends QEMU.
ReadTooEarly(a) ==
  /\ Alive /\ mode # "probe" /\ ~sm
  /\ last' = Answer(a, "aborted", 0)
  /\ UNCHANGED <<config, device, bars, sm, input, ghosts>>

Cell(a, data) == data[(a % Len(data)) + 1]

\* The attachment outside of reads: QEMU calls ap_init when it starts.
ap_init ==
  /\ Alive /\ ~sm
  /\ sm' = TRUE /\ input' \in Inputs
  /\ UNCHANGED <<config, device, bars, last, ghosts>>

\* The usual mode: the model answers the probe, then the test case is fed (the
\* branch for direct mode, between the last two cases, is not taken).
ProbeRead(a) ==
  /\ mode = "probe"
  /\ \/ /\ ~Over(probe_len)
        /\ Replay(a, restart_cnt, probe_len)
        /\ LET hits == Hits(a, restart_cnt)
           IN last' = Answer(a, IF Written(a, hits) THEN "model" ELSE "dest",
                             Dest(hits, restart_cnt))
        /\ UNCHANGED <<sm, input>>
     \/ /\ Over(probe_len) /\ ~redirectR
        /\ last' = Answer(a, "bar", bars[a])
        /\ UNCHANGED <<device, sm, input>>
     \/ /\ Over(probe_len) /\ redirectR /\ ~sm
        /\ \E v \in Values : last' = Answer(a, "random", v)
        /\ UNCHANGED <<device, sm, input>>
     \/ /\ Over(probe_len) /\ redirectR
        /\ Epoch
        /\ last' = IF input' = <<>> THEN Answer(a, "dest", 0)
                   ELSE IF a < Len(input') THEN Answer(a, "input", Cell(a, input'))
                   ELSE Answer(a, "zero", 0)
        /\ UNCHANGED device
  /\ Observe(a, FALSE)
  /\ UNCHANGED <<config, bars>>

RestartedNever(fresh) == restart_cnt

\* restart_device: is the version counter, which CHECK_RESET reads, advanced?
Restarted(fresh) == IF fresh /\ style.resets THEN restart_cnt + 1 ELSE restart_cnt

\* MODEL_PROBE_FUZZ: the probe itself is fuzzed; now and then the device is
\* restarted.  probe_mdl_input is a local that nothing initialises.
FuzzRead(a) ==
  /\ mode = "fuzz"
  /\ Epoch
  /\ \E fresh \in {f \in BOOLEAN : f => restarts < MaxRestarts} :
       LET rc == Restarted(fresh)
           pl == IF fresh THEN 0 ELSE probe_len
           hits == Hits(a, rc)
           probe_mdl_input ==
             IF Over(pl) /\ ~redirectR THEN {Answer(a, "bar", bars[a])}
             ELSE IF ~Over(pl) /\ Written(a, hits) THEN {Answer(a, "model", Dest(hits, rc))}
             ELSE {Answer(a, "garbage", v) : v \in Values}
       IN /\ IF Over(pl) THEN NoReplay(rc, pl) ELSE Replay(a, rc, pl)
          /\ \/ last' \in probe_mdl_input
             \/ input' # <<>> /\ last' = Answer(a, "input", Cell(a, input'))
          /\ Observe(a, fresh)
  /\ UNCHANGED <<config, bars>>

\* TEST_PROBE alone: the test case only.
DumbRead(a) ==
  /\ mode = "dumb"
  /\ Epoch
  /\ last' = IF a < Len(input') THEN Answer(a, "input", Cell(a, input'))
             ELSE Answer(a, "dest", 0)
  /\ Observe(a, FALSE)
  /\ UNCHANGED <<config, device, bars>>

\* ap_qemu_mmio_read: QEMU's own device model answers, but for some reads after
\* the probe.
ExpertRead(a) ==
  /\ mode = "expert"
  /\ Epoch
  /\ IF input' # <<>> /\ ~Over(probe_len) THEN Replay(a, restart_cnt, probe_len)
     ELSE UNCHANGED device
  /\ \/ last' = Answer(a, "expert", 0)
     \/ /\ input' # <<>> /\ Over(probe_len) /\ redirectR
        /\ last' = Answer(a, "input", Cell(a, input'))
  /\ Observe(a, FALSE)
  /\ UNCHANGED <<config, bars>>

\* ap_set_fuzz_data: the device memory, and the private copy of the test case
\* (again without direct mode).
ap_set_fuzz_data(a, d) ==
  /\ Alive
  /\ bars' = [bars EXCEPT ![a] = d]
  /\ input' = IF sm /\ input # <<>>
              THEN [input EXCEPT ![(a % Len(input)) + 1] = d]
              ELSE input
  /\ UNCHANGED <<config, device, sm, last, ghosts>>

Read ==
  \E a \in Regs : ReadTooEarly(a) \/ ProbeRead(a) \/ FuzzRead(a) \/ DumbRead(a) \/ ExpertRead(a)

Next == ap_init \/ Read \/ \E w \in Writes : ap_set_fuzz_data(w[1], w[2])

Spec == Init /\ [][Next]_vars

\* The driver keeps reading its device, and QEMU attaches.
FairSpec == Spec /\ WF_vars(Read) /\ WF_vars(ap_init)

-----------------------------------------------------------------------------
(* Properties.                                                             *)

\* Is the recording replayed exactly?  Not by a subclass whose cases fall
\* through, and not after a restart by one that does not reset its counters.
Exact == style.breaks /\ (style.resets \/ restarts = 0)

\* Is the last read one that the probe model has a recorded value for?
HasRecord ==
  /\ total <= ProbeLen + 1
  /\ last.reg \in Cases
  /\ nth[last.reg] <= Len(Recorded[last.reg])

\* Replay across restarts: the n-th read of a register since the device was last
\* restarted gets the n-th recorded value of that register, whatever was read
\* in between and however often the device was restarted (the lazy reset of
\* the static counters in CHECK_RESET).
Replays ==
  Exact /\ last.from = "model" /\ last.reg \in Cases
    => HasRecord /\ last.val = Recorded[last.reg][nth[last.reg]]

\* While the model has a recorded value for a read, the driver never gets what
\* the uninitialised local of ap_get_fuzz_data, or the caller's buffer, held.
RecordedNotLost ==
  Exact /\ HasRecord /\ mode \in {"probe", "fuzz"}
    => last.from \notin {"garbage", "dest"}

\* The probe ends: without restarts the model stops answering, and from then on
\* the driver is fed the test case (if reads are redirected).
FedAfterProbe ==
  mode = "probe" /\ redirectR => <>[](last.from \in {"input", "zero", "dest"})
=============================================================================
