# DEVFUZZ: TLA+ models and proofs

DEVFUZZ fuzzes Linux device drivers. AFL runs a small proxy, `ap`, once per
execution; `ap` hands the test case to a QEMU process through a shared memory
object, and QEMU (linked with `aplib`) feeds it to the driver in the guest as
device registers, USB buffers or DMA. Coverage comes back either as explicit
`ap_log_pc` requests or from Intel PT, decoded by a thread of `ap`. The device
models that answer the driver are generated beforehand: by symbolic execution
for the probe, and by a static analysis of the driver's branches for what
follows it.

## Inventory

Paths are relative to `src/afl-proxy/`.

| part | source | state | operations | module |
|---|---|---|---|---|
| fork server | `proxy/aflclient.h` | child pid, pipes to AFL, stopped flag | fork, waitpid, continue, relay | `AFLClient`, `EpochIPC` |
| AFL's map | `proxy/aflclient.h` | map, `prev_loc` | `AFLMaybeLog` in two threads | `AFLClient` |
| `ap` | `proxy/ap.cpp` | `struct XXX` in shared memory, `run`, `pt_stop`, stamp files | `skip_dry_run`, create, event loop, unlink | `EpochIPC` |
| shared memory | `shm.h` | name, object, mapping | `createOpen`, `connectOpen`, `close` | `EpochIPC` |
| `aplib` client | `aplib/aplib.cpp` | `sm`, `fuzzdata`, `fuzzdatasize`, read counters | `ap_init`, requests, `ap_exit`, watchdog | `EpochIPC` |
| register accesses | `aplib/aplib.cpp` | device memory, private copy of the input | `ap_get_fuzz_data`, `ap_qemu_mmio_read`, `ap_set_fuzz_data` | `ProbeModel` |
| probe models | `aplib/HWModel.h`, generated headers | static counters, `probe_len`, `restart_cnt`, BARs | `read`, `write`, `restart_device` | `ProbeModel` |
| IRQ thread, DMA | `aplib/aplib.cpp`, `HWModel.h` | `dmasg`, `dma_starts`, `level1_dma_set` | `captureDMARegistration`, `feedFuzzDMAData` | `Stage2DMA` |
| stage 2 inputs | `HWModel.h`, `stage2/src/hw_input_model.h` | special values, dictionaries | `genHWInputConstraint`, `genDict`, register and USB feeds | `HWInputs` |
| PT collection | `proxy/pt-runner.cpp`, `PerfAuxBuffer.h` | two perf rings | `ptWorker`, `check_buffer` | `PTRing` |
| PT decoder | `proxy/PTDecoder.h` | position, `last_ip` | `decode`, `get_ip_val` | `PTDecode`, `PTPackets` |
| PeX, LLVM pass, S2E, generators, scripts | | | | not modelled |

The parts interact as follows. afl-fuzz writes a test case and wakes the fork
server in the first `ap`. The fork server forks the `ap` of this execution and
waits for it. That `ap` creates a zeroed object under a temporary name, renames it to
`/afl-proxy-<id>`, initialises the semaphores `semr` and `semw`, writes the
path of the test case, sets `ready` and waits on `semw`. QEMU polls the name
until it finds an object with `ready` set, maps the test case, and sends a PT
request. Every request is: fill the slot, post `semw`, wait on `semr`. After
100 reads, or when the epoch's time is up, QEMU writes type 0xff, clears
`ready`, posts `semw` without waiting, and polls for the next object. `ap`
unlinks the name and exits, the fork server relays its status, and AFL goes on.

Inside QEMU a read of a register is answered by the probe model as long as its
recording lasts, then from the mapped test case, possibly through a dictionary.
A thread of its own fills the DMA buffers the driver has announced and raises
interrupts. Inside `ap` the PT thread reads what the processor traces, decodes
it and counts edges in AFL's map, next to the request loop.

What makes this hard: processes and threads with hardly a common lock; a name
that is rebound for every execution; a client that does not wait for the last
acknowledgement; an input file that is overwritten in place; rings shared with
the kernel; static counters that outlive a restart; a QEMU that may exit in its
watchdog thread at any point. `PROJECT.json` lists these hazards with their
lines and the properties that cover them.

## Modules

### The execution: `FuzzEpochs`, `EpochIPC`

`FuzzEpochs` is the promise to AFL: executions run one after the other; the
guest is fed from the test case of the execution in progress and of no other;
the coverage credited to an execution was produced by the guest under it, or
by a guest that has not read any test case; an execution ends only when the
guest is off its test case.

`EpochIPC` is the code, one action per statement that touches shared state.
An execution, its `ap`, its object and its test case share one number.

* `AflRequest` (afl-fuzz, external), `ForkChild`, `ReapChild`: the loop of
  `AFLForkServer`. `File` is the test case in the input file: the next one as
  soon as AFL has asked for the next execution.
* `SkipDryRun`, `CreateOpen`, `SemInitR`, `SemInitW`, `SetPath`, `SetReady`,
  `WaitW`, `HandleCov`, `HandlePT`, `HandleExit`, `HandleOther`, `PostR`,
  `Unlink`, `StopPT`: `main` in `ap.cpp`, with control point `ap[e]`.
  `HandleOther` is the `default:` branch, which aborts the process.
* `CallInit`, `ReadInEpoch`, `ReadEndsEpoch`, `ReadDetached`, `CallDirect`,
  `CallLogPC`, `CallAttachPT`: the entries of `aplib`. `Connect` to `MapData`
  are `real_ap_init`; `FillSlot`, `PostW`, `WaitR` are any request; `ExitType`
  to `ExitClose` are `ap_exit`. The control point is `q`, the function is `call`.
* `Crash` and `Restart`: QEMU dies between any two statements and is launched
  again (externally).

Ghost state: `prov` (the execution under which the guest last completed a
read), `sent` (coverage requests posted since attaching), `logged` and `hits`.

Abstractions. The content of a test case is its number. An epoch may end at
any read, since it also ends by the clock. A read that the probe model answers
itself (`HWModel::read` returning non-zero) changes nothing here and is a
stutter; so is a read while detached. With an unreadable path `tellg` gives -1
for a moment before the failed `mmap` resets the size to 0; the model keeps the
file number in that window, in which nothing modelled here reads it (`Stage2DMA`
has the thread that does). `ptThread` is never initialised by the code, so
`Init` chooses null or not null. Failures of `shm_open`, `ftruncate` and
`sem_init` in `ap` are left out. One thread of QEMU calls `aplib`
(`afl-proxy/README.md:72`: "only single core/thread is supported when using PT").

### The fork server and the map: `AFLClient`

Every statement of `AFLForkServer` with its two pipes, the processes it starts
(running, stopped, ended and not reaped), and `AFLMaybeLog` cut into its load,
its store and its update of `prev_loc`. afl-fuzz is external: it clears the map,
sends requests, kills an execution at any moment (`AflTimeout`) and may die. The
signal that stops a child in persistent mode is external, too: no statement of
`ap` sends it. `prev_loc` is not initialised, so the first index may be outside
the map, which ends the process or goes unnoticed. The exclusive or of two
locations is a constant, to which `MCAFLClient` gives its value. An `ap` is assumed to end by
itself; that it does is the subject of `EpochIPC`. If afl-fuzz is dead before the
server has greeted it, the write fails and the process goes on as a plain `ap`
(`HelloFails`, control point `alone`). Left out: a launch without afl-fuzz, where
there is no map either, and a failing `fork`.

### Intel PT: `PTRing`, `PTDecode`, `PTPackets`

`PTRing` has `ptWorker` and `check_buffer` on one side and the kernel with the
processor (external) on the other. Positions count from the beginning of the
trace and are reduced where memory is touched, so that an overwritten byte is
seen. Of the kernel it is assumed that `aux_head` is published before the record
for it, that the processor never passes `aux_tail + AuxSize`, that the event is
switched off in the same step as the record of a full ring is written, and that
a record without room is replaced by a `LOST` record later. A record written
during a pass is skipped for good (`Publish`), and so is its AUX space; the
ghost `late` marks it. A data record takes one unit of the ring.

`PTDecode` is `decode` on real bytes, one action per kind of packet. An address
is four 16-bit words. `PTPackets` is what the trace means to a reader of packets:
the forms of packets, a trace as bytes in which packets of these forms lie one
behind the other, with anything before and after them, and what is understood of
the first `k` packets (`Readings`). A packet with IPL 0 leaves the last address
as it is there; `decode` resets it (finding 4), so the addresses completed from it
are marked and nothing is said of their values. The forms are those that `PTDecoder.h` names,
with its sizes (an OVF has 8 bytes there). Two things are assumed of a trace
(`TracesAssumption`). The 16 bytes of a PSB are found nowhere but in PSBs. The
last byte of an MNT is one that also passes for a packet of one byte, such as 0:
`decode` skips ten of the eleven bytes, and would misread the trace after any
other. `MCPTDecode` makes traces out of 25 packets. Payloads are filled with
bytes that look like headers of TIP packets.

### Device models: `ProbeModel`, `HWInputs`, `Stage2DMA`

`ProbeModel` has the generated read function (one static counter per register,
`CHECK_RESET`, a bound on the reads answered) in the three styles found in the
repository: `HWModel_de2104x` resets its counters and has a default,
`HWModel_nosy` does neither, and `HWModel_sunhme` has no `break`. Around it are
the four ways of `aplib` to answer a read (the usual one, `MODEL_PROBE_FUZZ`,
`TEST_PROBE` alone, and `ap_qemu_mmio_read`), `NO_REDIRECT_READ`, restarts and
writes. A register is one cell. What uninitialised memory holds is any value,
marked `garbage` or `dest`. The dictionary of stage 2 is in `HWInputs`. `ap` is
given a file with the test case: the branches for direct mode
(`aplib.cpp:351-355` and `418-422`) and the assertion at line 310 that there is a
path are left out. `EpochIPC` has the reads of direct mode, and nothing has the
writes.

`HWInputs` follows one hardware input from the conditions of the driver
(`Constraint`, which drops some of them: expressions that compare nothing with a
constant, and equations of anything but the input itself or a value under a
mask), over the printed initialisers (`Emit`) and the dictionary
(`genDict`, made twice for USB), to the values fed. A byte has two bits, so that
all values of an input can be enumerated, and the outcomes of a condition can
be compared with what the dictionary produces. `Bits` has the operators `&` and
`|` of C as recursive functions. `powerSet` is a constant of the module;
`MCHWInputs` gives it its value, the recursion of the code.

`Stage2DMA` has the threads of QEMU: vcpu threads that capture DMA registers,
one of them attaching to test cases, and the IRQ thread. The buffer list is
under a lock, the flag and the input are not. Of the device data it assumes
what holds in the repository: fields lie in their struct, and no struct is
longer than a buffer (`ModelsAssumption`). Mappings are never removed, as in
the code.

## Runs

| run | bounds | states | shows |
|---|---|---|---|
| `epochs` | 3 executions (1 dry), 3 reads per epoch, 2 log calls | 14,836 | safety, refinement and both liveness properties of an execution |
| `qemu_death` | the same, one death, file and direct mode | 615,578 | attachment, input and refinement survive a death at any point |
| `afl_client` | 2 processes, map of 4 cells with 2 values, 2 calls per execution | 484,886 | the fork server and the map |
| `pt_ring` | AUX ring of 3 bytes, 3 data slots, 6 bytes, 4 records | 497,444 | collection of PT data |
| `pt_decode` | 3 packets of 25 kinds, 2 with the last cut at each byte | 147,178 | the decoder against its reference |
| `stage2_dma` | 2 vcpus, 3 addresses, 2 registers, 2 fields, 2 files | 3,376,778 | DMA buffers between threads |
| `hw_inputs` | 3 of 33 conditions, 3 sizes, words of 4 bytes of 2 bits | 526,302 | from branches to dictionaries and feeds |
| `probe_model` | 4 registers, 2 recorded, 3 styles, 1 restart | 225,085 | replay of the recording and feeding |
| `qemu_restart` | one death | violation | finding 1 |
| `direct_read` | direct mode | violation | finding 2 |
| `pt_attach` | file mode | violation | finding 3 |
| `pt_ipl` | 2 packets | violation | finding 4 |

Why the bounds are enough. Three executions give a dry run, an epoch and a
successor to confuse it with; 3 reads (100 in the code) give reads that do and
do not end the epoch, two log calls a request behind another; `RETRY` is 8 in
the code and 1 or 0 here. In `afl_client` a cell of two values wraps at the
second hit, and two processes allow a second child if the server could start
one. In `pt_ring` six bytes are two turns of the AUX ring, records end before,
at and behind its end, and four records overrun the data ring of three. In
`pt_decode` two packets before an address packet show any loss of position. In
`stage2_dma` an address is at, and one inside, a page that another register also
names; the input fits no buffer, or one of each length and not two of the longer,
so that a second buffer is reached with and without wrapping, or is missing. In
`hw_inputs` three conditions exceed the number of bits that are combined in all
ways, and five of the 33 are dropped or not understood. In `probe_model` the recording of one register is longer than that of the
other, and the bound on reads falls between.

`CHECK_DEADLOCK FALSE` is used where the program may really stop: in
`qemu_death`, when a death leaves everybody waiting; in `direct_read`, when `ap`
has aborted under its client; in `afl_client`, when afl-fuzz and its server are
dead; in `pt_ring` and `probe_model`, when the thread or QEMU has ended; in
`hw_inputs`, which ends with a feed. Elsewhere deadlock is checked.

### Properties

`epochs`, `qemu_death`. `AttachedToLive`: an attached QEMU is attached to the
object of the `ap` the fork server waits for, and that `ap` is serving.
`FedFromOwnInput`: size and mapping belong to the current test case.
`OneRequestAtATime`: a request is in flight exactly while the client waits for
it. `CoverageExact`: `ap` has logged what was sent. `TracedByOwnAp`: no other
`ap` has a PT thread while the guest runs. `ImplementsFuzzEpochs`: the
refinement. `ExecutionsEnd`, `ExecutionsFed`: every execution ends, and every
one that is not a dry run gets the guest attached. The first two and the
refinement are stated for at most one QEMU death, and the next three for none.
With two deaths `AttachedToLive` is false: the first death leaves a token on
`semw`, and a second between the write of type 0xff and the clearing of `ready`
lets that token end the execution under a new client.

`afl_client`. `ServerSurvives`: whenever the timeout strikes, no `waitpid` meets
a process that has been reaped. `OneChild`: one `ap` at a time. `MapOfThisRun`:
a cell has the hits of this execution modulo its width; where the two threads
meet, hits can only get lost. It is stated without persistent mode, in which the
PT thread can carry a count over the clearing of the map. `RequestsAnswered`.
`ServerEndsWithAFL`: after the death of afl-fuzz the server ends, or becomes a
plain `ap` if it had not greeted yet. The write outside the map that an
uninitialised `prev_loc` can cause is in the model and outside these properties.

`pt_ring`. `DecodesWhatWasTraced`: the copy has the bytes of its record.
`AbortsOnlyOnOverrun`: the assertion on `aux_tail` holds, and `ap` aborts only
after an overrun of the data ring. `RecordsHandledOnce`: in order, at most once,
and only records written during a pass are skipped. `SpaceReturned`,
`OnWhenIdle`: when there is nothing to do, the AUX space is returned and the
event is on, with the exceptions named there: the space of a record that was
passed over never comes back. `RecordsConsumed`, `StopsWhenTold`.

`pt_decode`. `DecodesStream`: the addresses are those that `Readings` has, where
it has not marked them. `InBuffer`: the position is at most one byte behind the
record; it is about the position only, and the message about an unknown packet
(`PTDecoder.h:209-213`) shows the three bytes after it as well. `ResyncAdvances`,
`Terminates`: the search for a PSB cannot loop.

`stage2_dma`. `RegionsOnce`, `ListStable`: no page twice, and no change during a
fill. `WritesInBuffer`, `ReadsInFile`, `FitsIsFed`: a fill stays in the buffer
and in the file and starves nobody. `ReadsInFile` is stated for fills that no
attachment overlaps: otherwise size and pointer may be of two files.

`hw_inputs`. `BranchesCovered`: the dictionary has a value for each possible
outcome of each comparison of the input itself, masked or shifted. Conditions on
values computed from it (`x + 1 < c`) and equations of a shift without a mask
(`switch (x >> 24)`) are left out: the analysis notes nothing of such equations.
There are two more exceptions: for `x == c` only `c` itself is in it, and `x > c` is taken for a test of one bit when
the lowest bytes of `c` are ones, which misses an outcome of, for example,
`x > 0xff00ff` and `x >= 0xff`.
`SecondDictSame`: making it twice changes no value. `FeedOverlay`: a feed writes
its field and nothing behind the buffer.

`probe_model`. `Replays`: the n-th read of a register since the restart gets
its n-th recorded value. `RecordedNotLost`: nor does it get uninitialised
memory instead. Both exclude cases without `break`, and models that do not count
restarts after their first; there they are false. `FedAfterProbe`: in the end
the driver is fed the test case.

### Fairness

Weak fairness of the fork server, of each `ap`, of its PT thread and of a thread
inside `aplib` is what a preemptive scheduler gives; `decode` is a loop in one
thread. Reads by the driver are strongly fair in `EpochIPC` (`Read` is disabled
again and again while the thread is in another call) and weakly fair in
`ProbeModel`: the guest runs a driver, or a workload, that keeps accessing its
device. `CallInit`, `CallDirect`, `Restart` and `ap_init` are weakly fair, and
so is afl-fuzz while it lives. Deaths, timeouts, the guest's tracing and the end
of `ap` as seen by its PT thread are not fair.

### Findings

1. `ap_exit` clears `ready` before it posts the exit request. A death in
   between leaves an `ap` that never exits and that nobody can attach to, so
   the restart that the comment on `watch_dog` promises does not resume fuzzing.
2. Direct reads send type 3, which `ap` does not handle: it aborts and the
   reader blocks.
3. `ptThread` is uninitialised, so a PT request may be acknowledged without a
   PT thread being started.
4. `get_ip_val` resets the last address at a packet with IPL 0, although its
   comment says "no IP update"; the next compressed address is then wrong.

## Proofs

TLAPS proves the theorems for every value of the constants allowed by the named
assumptions, without the bounds of the runs. (The bounds on counters are
constants, too, and arbitrary.)

### The execution

All safety properties of the run `epochs`, and the refinement for
`MaxCrashes <= 1`, from `ConstantsAssumption`. `EpochIPCInv` has the inductive
invariant, `EpochIPCProofs` the proof that it is one, and the theorems.

The inductive invariant `IInv` is needed because the properties speak of an
attached client only, while what makes them true happens before and after.

* `Lifecycle`: only the last execution can have a live `ap`, and the name is
  bound to it from creation to unlinking. This is the fork server's waitpid.
* `Objects`: an object of which `ap` has not initialised a semaphore has no
  token, is not ready, and what QEMU has mapped exists.
* `Slot`: with an input file, nothing is posted for an empty slot, and a posted
  slot has the type of the request being made.
* `Live`: a ready object is served and no exit is pending for it, except in the
  window of `ap_exit` between writing the type and clearing the flag. This is
  what makes clearing the flag before the post necessary.
* `Fed`, `Exact`, `Logged`, `Traced`, `Provenance`: the same for the input, the
  request in flight, the log, the PT threads and the origin of the pcs.

Each has one lemma saying that `[Next]_vars` preserves it, given the others.
The refinement maps every action to one abstract action or a stutter.

### PT collection

`PTRingProofs`: the five invariants of `pt_ring`, a theorem for each, for rings
of any size, from `SizesAssumption`. The invariant orders the positions,
`aux_tail <= start <= aux_head <= hw <= limit <= aux_tail + AuxSize`,
says that the records describe consecutive stretches of the trace, that those
behind the snapshot of the current pass are late, and that the AUX ring holds
the last `AuxSize` bytes. `AuxIndex` is then the position modulo the size
(`Modular`), and no byte of a record that is not yet returned can have been
overwritten.

### The decoder

`PTDecodeProofs`: `TypeOK`, `InBuffer` and the action property `ResyncAdvances`
for records of arbitrary bytes, not only those made of packets. The invariant
adds `BehindPSB`: the packet loop is at the PSB it was entered with, or at least
16 bytes behind it. Only the branch for packets that begin with 2 can take a PSB
(`PSBIsExtended`), and it takes all of it, which is why no search finds the same
PSB again. `Moves` bounds how far a packet of any kind moves the position. That
a search and the CYC loop stop at the first position of their kind rests on the
least element of a set of naturals (`MinOfNats`).

`DecodesEveryStream`: `DecodesStream` for every trace of packets of the known
forms, of any number and with any payloads, cut off anywhere, from
`TracesAssumption`, with the two reservations above: marked addresses may have
any value, and a trace with an MNT whose last byte does not pass for a packet is
covered up to that packet. A record of arbitrary bytes is such a trace, with no packets;
then the theorem says nothing of it. The invariant `OnTrack` names the packet the
decoder is at: the loop is behind the `k`-th packet, at the PSB that the search
has found, or at the last byte of an MNT (`InStep`), the search starts from the
beginning or from a packet that is not known (`Searching`), and what is reported
is what is understood of the first `k` packets (`Known`). There is a lemma for a
step at each kind of packet (`PSBStep`, `OtherStep`, `AddressStep`,
`StrangeStep`); they need that the branches of the loop exclude each other
(`Branches`) and that `get_ip_val` completes an address as the packet means it
(`AddressMatches`), unless it is marked; an address that does not depend on the
last one is right whatever the decoder's last address is (`AddressAlone`). That
`Readings` has a solution (`ReadingsStep`), and that
nothing is understood between an unknown packet and the next PSB (`Silence`),
is shown with the least number for which it would fail.

`NoEndlessLoop` is what can be proved of `Terminates`: for records of arbitrary
bytes each step makes `Remaining` smaller, a natural number that begins with
`2 * length + 5`, and until `decode` is done it has a branch to take
(`SomeBranch`). The one step that does not move forward is the way back to the
search. It is taken at a byte that begins no PSB (`LeftBehind`), so that the
search moves. What is missing is the fairness that makes the steps happen.

### The fork server and the map

`AFLClientProofs`: the three invariants of `afl_client` for any set of processes,
map size and counter width, from `MapAssumption`; the exclusive or of two
locations is any operator (`LocXor`). The invariant `Server` ties what the server
believes (`child_pid`, `child_stopped`, its control point) to the one process
that may exist, `Sync` the two pipes to the control points on their ends,
`Counted` the map to the ghost count of hits, and `Calls` says what each thread
in `AFLMaybeLog` has loaded and not yet stored.

### DMA

`Stage2DMAProofs`: the four invariants and the action property of `stage2_dma`
for any number of threads, registers, models and files, from `SizesAssumption`
and `ModelsAssumption`. The invariant adds who holds the lock, that size and
mapping agree whenever the attaching thread is not between its statements, that
the IRQ thread's copies of them agree unless `mixed`, and what the loop over the
list has done so far.

### Dictionaries and feeds

`HWInputsProofs`: the two invariants and the action property of `hw_inputs` for
any widths of a byte and of a word, sizes, offsets and lengths, and any set of
conditions of the modelled forms, from three assumptions. `SizesAssumption`: an
input fits into a word. `ExprsAssumption`: the forms of conditions; masks and
constants are words, and shifts are less than the width. `PowerSetAssumption`: `powerSet` makes the selections of at least one
element; for the code's `powerSet` and the sizes it is called with, 1 to 4, TLC
evaluates it (`EachSelectionOnce`).

The inductive invariant says

* that what the analysis collects is finite, so that the dictionary is a
  sequence (`Finite`);
* that every condition seen so far that the analysis does not drop has left its
  mark, as a value, a word of bits or a range, and that no later condition removes
  it (`Collected`);
* that once made, the set of the dictionary's values is a function of the
  analysis alone and contains the combinations of bits (`Dictionary`).

`BranchesCovered` follows from these without another step of the system, but not
easily: it is about numbers, and the provers know neither powers of two nor
bits. `HWValuesProofs` therefore has the theory. A number is its bits
(`BitsEqual`), and remainder, division and product by a power of two,
complement, `&` and `|` are characterised by the bits of the result. The lemmas
that need induction are proved from the least counterexample, which the library's
theorem on well-founded relations gives. From there:

* A test under a mask: the constant, or the mask if the constant is zero, shifted
  back and cut to the input, passes or fails as some input does; zero gives the
  other outcome (`TestedConstant`, `TestedMask`, `MaskCovered`).
* `generateBitCombs` produces each word noted, zero, and the union of all with
  its complement, whether it combines the words or not (`CombsRange`).
* A comparison: what the driver compares is nothing for the input zero and at its
  most for the greatest input, and every range noted has both among the values
  next to its ends, once these have been cut to the input; `0 - 1` and the value
  above the greatest are what makes this so (`TestedMonotone`, `EndsCut`,
  `RangeCovered`).
* A comparison with bytes of ones asks whether some higher bit is set. Any word
  or its complement has that bit (`SomeBitCovered`). A test of the sign is decided
  by the bit noted (`SignCovered`).

### Replay

`ProbeModelProofs`: the two invariants of `probe_model` for any recording, bound,
order of reads and number of restarts, from `RecordingAssumption`. The lazily
reset counters are the difficulty: the invariant says that the counter a case
would work with (`Start`) is the number of its reads since the restart, whether
or not the reset has been made, and that no version is ahead of `restart_cnt`.

### Only model-checked

* Liveness: `ExecutionsEnd`, `ExecutionsFed`, `RequestsAnswered`,
  `ServerEndsWithAFL`, `RecordsConsumed`, `StopsWhenTold`, `Terminates`,
  `FedAfterProbe`. Fairness is beyond the prover.
* That the properties fail where the findings say so.

## Not modelled

* PeX, the S2E plugin of the probe phase: its callbacks work on S2E's symbolic
  states, expressions and forks, which decide what they do. Two
  things to know about its code: a configuration write meant for another device
  changes its header, and the last 15 bytes of a BAR are not taken for the device.
* The LLVM pass of stage 2 (`apstage2.cpp`): a traversal of whole-kernel
  bitcode. What it does with the conditions it finds is in `HWInputs`.
* The data of the generated `HWModel_*` headers: constants of `ProbeModel`,
  `HWInputs` and `Stage2DMA`. Models with hand-written state of their own.
* `ap_qemu_fuzz_dma_generic`, called by devices of QEMU that are not part of the
  repository; `ap_check_irq_request`, for a semaphore nobody posts to; the scan
  for secondary DMA buffers, which a flag disables.
* `EnvKnob` (parsing of environment variables), `send` (a test client for an
  older layout), generators, scripts and plots.
* The death of afl-fuzz or `ap` together with the shared memory name: `AFLClient`
  has the one, `EpochIPC` the other.

Seen in the code and outside the properties: each epoch leaks the old mapping of
the input, which `Stage2DMA` relies on; a DMA region is never removed and its
address is cut to the page, wherever in it the driver's buffer begins;
`dma_inputs` is keyed by buffer length, so of several models of one length the
last stays; `get_event` takes a 64-bit position as an `int`; register and USB
feeds read as many bytes as asked for, even at the end of the input; writes of the
driver go to the input modulo its size and change what another register reads;
`sm` is set before the object is known to be ready.

The vendored S2E, KLEE and QEMU sources and the generated headers are by far the
largest part of the lines in the repository; the modules cover most of the code
in `afl-proxy` that runs while fuzzing, which is a very small share of the whole.
