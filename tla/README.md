# DeroStorm in TLA+

A verification development kept beside DeroStorm, the AstroBWTv3 (DERO) CPU and GPU miner:
TLA+ modules of its concurrent core, of what surrounds it and of its console, TLC configurations
that check them on small instances, and TLAPS proofs of safety properties for every value of the
constants.

Paths below are relative to the repository (`src/`). Module names are files of this directory.

## 1. The system

DeroStorm is one process. `main` reads flags and a config file and calls `runMiner`
(`cmd/derostorm/runloop.go`), which starts:

| part | where | state it keeps | operations | talks to |
|---|---|---|---|---|
| getwork client | `engine.go` `RunGetWork` | current job, job counter, connection, shown state | dial, retry, publish job, lose connection | node (websocket), all workers through `job` / `jobCounter`, console through `events` |
| CPU worker pool | `engine.go` `SetThreads`, `RunMiner` | pool of stop channels, per-slot hash counters | grow, shrink, hash, notice a new job, stop | job, counters, `submit` |
| share submission | `engine.go` `submit` | shares sent, best share, last-share time, the socket's mutex | count, compare best, write | every worker, the connection RunGetWork installs |
| GPU workers | `gpu_worker.go`, `gpu_backend.go` | map of devices to stop channels, tuning count, per-device counters | start, stop, fill pipeline, collect, drain, verify | job, `submit`, the GPU library |
| GPU library, host side | `gpu/derostorm_gpu.cu` | a ring of two batch slots, two banks with a stream and events each | submit, collect, search, set blocks, free | the device (streams, events), one GPU worker |
| targets | `target.go`, `difficulty.go` | none | target from difficulty, hash against target | every worker, the GPU kernels (limbs) |
| run loop | `runloop.go` | terminal, done channel, refresh requests, series | signals, keys, run-for timer, painter, shutdown | engine, console, stats file |
| console log | `runloop.go` `logRing`, `events` of the engine | a bounded log, a channel of 256 entries | post, drop, forward, append, trim, snapshot | every goroutine |
| dashboard | `tui.go`, `tui_layout.go`, `tui_panels.go`, `tui_screens.go` | none between frames | lay out and draw a snapshot in a window of any size | the run loop, `internal/ui` |
| keys and commands | `tui.go`, `tui_state.go`, `commands.go` | screen, view of the log, command line, preferences | decode, act, save | the run loop, the config file |
| drawing library | `internal/ui` | a canvas | clip, rows, columns, panels, gauges, charts | the dashboard |
| node watcher | `nodeinfo.go` | what the daemon's RPC reported, an endpoint, the last failure | probe, poll, cache failure | node RPC, dashboard |
| sensors, system | `sensors.go`, `sysinfo.go`, `nvml*.go`, `rocmsmi*.go`, `cputemp*.go` | last readings | poll | drivers, dashboard, stats file |
| stats file | `statsfile.go` | a JSON file HiveOS reads | write (temporary file and rename), remove | run loop, `hiveos/` scripts |
| suffix sorts | `internal/dsa`, `sa_lib.go`, `native/` | the installed suffix-sort function | probe and install once, fall back, sort | every hash |
| GPU library loading | `gpu_backend.go` | extracted files, loaded backends, device list | extract, load once, enumerate once | several miner processes through the temporary directory |
| configuration | `config.go`, `setup.go`, `main.go` | config file, answers | load, save, ask | the user |

### What is hard

* Workers read a job and the counter that tells them it is gone at two moments, and no lock
  covers both.
* A worker that is told to stop is not waited for; its slot, counter and device can be given
  to a new one while it is still in its last hash or batch.
* `submit` runs on every worker at once over statistics that are single atomics and one socket.
* A GPU has two batches queued for a job that may end at any moment, on a ring whose indices
  are kept by the library and whose emptiness is polled by the worker; errors can leave a
  batch in flight.
* Two streams per device share one sort scratch and the slots' result buffers; only events
  order them.
* The console must never stall a miner: full channels drop, readers hold slices the writer
  keeps appending to.
* Shutdown comes from a signal, a key, a command or a timer, in any order and twice.
* Several processes on one rig extract the same library file, and a kill may come at any call.
* A script reads the stats file whenever it likes, once for every figure, while it is replaced.
* Devices are numbered by the backend, by each vendor's library and by the rows shown, and a
  card can be asked for, be absent, or have given up.
* The sampler reads counters one by one while they move, at times it does not choose.
* A run's settings come from a file, flags, questions and commands, over several runs.
* The layout has dozens of thresholds on two dimensions, and panels drop what does not fit.
* Keys are bytes in chunks, and a scrolled view of a log that grows must stay true.

The hazards, each with its line and the properties that cover it, are listed in `PROJECT.json`.

### What makes each component correct

| component | properties that matter |
|---|---|
| getwork client | a lost connection is dialled again; a job is published before its counter, so that a worker that sees the new counter finds the new job; jobs are only hashed when blob, difficulty and version were accepted |
| CPU worker pool | the pool, the count and the goroutines agree; a told worker leaves; a new counter reaches every worker; counts are never invented |
| share submission | one writer per socket; a share is counted before it is sent and never lost for want of a connection; the best share shown is one that was found |
| GPU worker | nonce ranges follow each other without a gap; a hit is submitted for the job it was searched for; nothing on the card is abandoned; a new job waits a bounded number of batches |
| GPU library | submit and collect are a bounded first-in first-out queue; no kernel or copy touches a buffer another one uses; a collect returns the whole of its batch; nothing is freed under a kernel |
| targets | the four-limb comparison is the big-integer comparison; a share is credited with at least its job's difficulty |
| run loop | whoever asks to quit, once, the process returns with the terminal given back; frames stay inside the alternate buffer; no goroutine waits for the loop in a way the loop waits for it |
| console log | a bounded log whose readers have a consistent view while it is appended to and trimmed |
| stats file, library extraction | readers see a whole file or the one before; two processes end with one good copy |
| node watcher | one probe walks the candidates, a failure is remembered, the last good sample is kept, the note names its source, it leaves when closed |
| devices and sensors | a row's rate and readings are of the card it names; a card marked as failed really is silent |
| nonce space | no input is hashed twice |
| sampler | every hash is in one sample and one slot of the history; nothing of a card is credited to the CPU |
| settings | a run that begins can mine; a setup that was answered leads to one |
| dashboard | panels tile the body, stay in their borders and are not overprinted, in every window |
| keys and commands | what is handled is what was pressed; a view that is scrolled back says so; preferences survive a restart |
| suffix sorts | the installed sort is fixed before the first hash; each agrees with the reference order |

## 2. How it is built

| modules | model | composed of | abstract specification |
|---|---|---|---|
| `Engine`, `EngineProps` | `engine.go`: getwork, pool, workers, submit | - | - |
| `GpuRing` | the slot ring of the GPU library's host side | - | `GpuQueue` |
| `GpuStreams` | streams, events and buffers under that ring | EXTENDS `GpuRing` | (through the ring) `GpuQueue` |
| `GpuWorker` | the goroutine that drives one ring | EXTENDS `GpuRing` | `GpuQueue` |
| `LogRing` | the console's log as Go slices | - | `EventLog` |
| `Console` | run loop, signals, shutdown | EXTENDS `LogRing` | `EventLog` |
| `Target` | targets, the comparison, the credit | - | the big-integer check, as an operator |
| `NonceSpace` | what each worker hashes, over jobs and restarts | - | each input once |
| `StatsFile` | the status document, its reader and kills | - | a register of whole documents |
| `LibCache` | libraries unpacked and loaded by several processes; choice of the suffix sort | - | - |
| `NodeWatcher` | probe, poll, cached failure, close | - | - |
| `Devices` | cards, workers, sensors and rows | - | - |
| `Settings` | file, flags, setup and commands over several runs | - | - |
| `Sampler` | counters to rates, peak and history | - | - |
| `Host` | the eight above, one followed at a time | EXTENDS them | - |
| `Rects`, `Widgets` | `internal/ui`: regions, what a widget writes to | `Widgets` EXTENDS `Rects` | - |
| `Panels`, `Screens`, `Layout` | `tui_panels.go`, `tui_screens.go`, `tui_layout.go` | each EXTENDS the one before | tiling |
| `Keys` | bytes, keys, commands, preferences | - | what was pressed |
| `Frame` | one frame in a window, and the keys | EXTENDS `Layout` and `Keys` | - |

`MCEngine`, `MCGpuStreams`, `MCGpuWorker`, `MCConsole`, `MCHost` and `MCFrame` give the constants small
values. The theorems are in eight modules:

| proofs | about |
|---|---|
| `Engine_proofs` | `Engine` and `EngineProps` |
| `GpuRing_proofs` | `GpuRing`, its refinement of `GpuQueue` |
| `GpuStreams_proofs` | `GpuStreams`; EXTENDS `GpuRing_proofs` |
| `GpuWorker_proofs` | `GpuWorker`; EXTENDS `GpuRing_proofs` |
| `Console_proofs` | `LogRing`, `Console`, their refinement of `EventLog` |
| `Host_proofs` | the eight modules `Host` is made of, and `Host` as a whole |
| `Layout_proofs` | `Rects`, `Widgets`, and `Layout`: the plan of the dashboard, the header, the banner of a block; where the panels of `Screens` go |
| `Frame_proofs` | `Keys`, what the panels of `Panels` and `Screens` draw, `Frame`; EXTENDS `Layout_proofs` |

What a further step would add: a proof of `NoOverprint`, that a dashboard's panel writes no text over another, panel by
panel, along the lines of the proof that what it draws stays inside of it.

## 3. The modules and the code

### Engine (`Engine.tla`, properties in `EngineProps.tla`)

One goroutine per name in `Goroutine` is what `go e.RunMiner(...)` starts; `gw` is the
program counter of `RunGetWork`, `pc` those of the workers. `job` and `jobCounter` are the two
shared values that `e.mu` protects at the publisher but that a worker reads at separate
moments (`TakeJob`, `TakeCounter`, `LoopTest`); each read or write of shared state is a step.
`RunGetWork` holds `e.connMu` between `InstallConn`, which sets the connection, and `UnlockConn`.
`submit` is five steps: count (`RecordShare`), compare and store the best share (two steps:
nothing makes them one), lock, write. Adding to a slot's hash counter is a load and a store,
because two workers may own the slot for a moment. `SetThreads` is one step: the caller is
the only one that changes the pool and no step of a worker looks at it.

Hashing is abstracted to the set of lanes that met the difficulty, a share to the difficulty
it met, a job to its number and whether it can be mined. Display texts and times are left out.

### GPU library and worker (`GpuRing`, `GpuQueue`, `GpuStreams`, `GpuWorker`)

`GpuRing` has the library's `head`, `tail`, `inflight` and slots and one action per outcome of
`dsg_submit` and `dsg_collect`, failures included. `GpuStreams` adds what the calls enqueue:
copies, kernels, event records and event waits on one stream per bank. An operation carries its
place in the order of the host's calls (batch, chunk, place in the chunk), so that the streams
are one set: within a stream operations are executed in that order, a wait also follows the
earlier records of its event, and nothing else is ordered (`Before`). Sequences per stream, one
index for each, say the same and are what the prover cannot follow. An operation is running
between its start and its finish, and the buffers it reads, writes and adds to are named, so
that a race is two running operations on one buffer. `dsg_submit` is one step, which hides no order:
what is not enqueued yet is what the card has not started. A submit that fails (`SubmitBreaks`) leaves the calls before
the one that failed if that is a copy or an event, which end the submit at once; a kernel's launch is only asked about when
its chunk is through (`cudaGetLastError`, 1054), so the rest of the chunk is enqueued too, but for any other of its
launches that fail. `DSG_OVERLAP_SHA` is a choice of the build and both are
explored. `Free` is `dsg_free`, which runs against whatever is still on the streams.
`GpuWorker` is `RunGPUMiner`: take job, take counter, verify once, fill the pipeline, collect,
check hits, drain at a job change, drain quietly after a failure. Any call may fail; a call
that follows may succeed again.

### Console (`EventLog`, `LogRing`, `Console`)

`LogRing` models Go's slices: an array has an address, a slice is an address and a length, an
`append` writes at the length or moves to a larger array, a trim builds a new one, a Snapshot
takes the slice itself. `EventLog` is the same with values. `Console` has the goroutine of
`run` from `tui.Enter` to its deferred calls, the signal and timer goroutines, the forwarder
and the reader of keys, one action per case of each `select`. `quit` is four steps inside
`sync.Once`, so that callers meet in it. `Render` holds `tui.mu` between two steps; `tui.Close`
by the signal's goroutine needs it. A signal before `signal.Notify` kills the process, as the
runtime does by default.

### What surrounds the loops (`Host` and the modules it extends)

These eight share no state that is modelled, so no order of steps of two of them can show
what each does not show alone: `Host` begins with all of them at their start, and follows one.

* `Target`: `NewTarget`, `Meets` and the kernel's copy of it, `CheckPowHashBig` and `shareDifficulty`, with
  the base of a byte, the bytes of a limb and the base of a limb as constants: four limbs, as in
  the code. The worker's loop is reduced to taking a job and trying a hash.
* `NonceSpace`: an input is a job, the random bytes a worker drew, a counter and the tag byte.
  Workers of one slot that follow each other draw different random bytes; of two other workers
  the worst is taken, that they draw the same, so that only tags keep them apart. A worker that
  was told to stop and lingers in its last pass is left out; its inputs carry the older random
  bytes, so they are none of its successor's. It is assumed that one job does not last for 2^32 nonces of one worker.
* `StatsFile`: `statsWriter.Write` is create, write, rename or undo, each of which may fail; `Remove` is
  two system calls; `StatsKilled` may come between any two of them and a new miner starts
  over. The reader is `hiveos/derostorm/h-stats.sh`: it checks the age, then opens the file
  again for each figure. A document is the time it was written at.
* `LibCache`: `extractEmbeddedLib`, `load` and `loadSA` by several processes on one directory. A name
  carries the hash of the contents, so a name stands for one whole file. A rename that fails
  because another process has the file open, as Windows has it, is the `lost` step.
* `NodeWatcher`: `loop`, `poll` and `Close`; time passes while an endpoint is asked, and ticks are
  dropped while one waits, as `time.Ticker` does.
* `Devices`: `SetGPUs`, `gpuDeviceList`, the sensors of each vendor renumbered, the rows of `main.go` and the
  document of `statsfile.go`. A reading is the card it was taken from, so that a row mixed of two
  cards shows.
* `Settings`: what decides whether a run begins. A start takes the file and flags; `main` asks when
  something is missing, saves, validates; commands of the run change and save.
* `Sampler`: `tick` reads the counters one by one with hashes landing between the reads; `series.add`
  and `rateWindow`, of which the long one is shown and the one-second one feeds the history. A rate is
  in hashes for `Unit` ticks of time, which every time between two samples divides, and a mean is its sum
  and its count, so that nothing is rounded.

### The console's screens (`Rects`, `Widgets`, `Panels`, `Screens`, `Layout`, `Frame`)

A *mark* is the region of cells something writes to. A widget is an operator from the rectangle
it is handed and the widths of its texts to a set of marks, and a panel a record of where it is,
the marks on its rule and the marks inside. What the run loop hands to a frame is a *snapshot*: a
record of what decides the form and the width of what is shown (how wide a rate is, how many
cards, how many log lines). The plan of the dashboard keeps the loops of `planBands`: a recursive
function over the panels that are packed, one over the rounds in which short rows are raised and one over
the rows a round visits. `Layout` has the header, the packing of bands and panels of the
dashboard and the banner; `Screens` the other screens; `Frame` the key bar and the frame as a
whole. The canvas drops what is written outside of it; the model keeps it, so that a panel
drawing over its border is seen whatever the size of the canvas.

### Keys (`Keys`)

`ReadKeys` reads the bytes of one press or several in a chunk, which are decoded at once (`decodeKeys`);
`Key` does what the first of the keys does, and `Enter` what the command line does. The next chunk is read when the keys of
the last are handled, and a chunk holds whole presses. In a chunk with Esc and a bracket before
another press (`Tangled`) the three are a sequence to the decoder, as its comment says
(`tui.go:131-134`); the model decodes it so and takes what it reads for what was meant. What happens when a read
splits a sequence is in section 7. `Frame` follows the keys without drawing and the drawings from any screen and
command line, since drawing changes none of the keys' state.

## 4. The runs

A property that is listed is often a conjunction of named parts about one promise; the parts have
their own comments in the modules.

| run | checks | bounds | why these |
|---|---|---|---|
| `engine_pool` | `TypeOK`, `PoolMatchesWorkers`, `OneWriter`, `NoShareWithoutConn` | 3 goroutines, 2 slots, 1 job | a third goroutine takes over a slot while the told one is still in its last hash and the other slot is busy |
| `engine_work` | `CountsAreReal`, `NeverAheadOfCounter`, `ConnStableWhileWriting` | 2 goroutines, 2 slots, 2 lanes, 2 jobs, 2 connections | a job change and a reconnect each happen once around every step of two workers; two lanes give one worker two shares |
| `engine_live` | `ToldWorkersLeave`, `NewCounterReachesWorkers`, `LostConnIsRedialled` | 1 goroutine, 3 jobs, 2 connections | a told worker with a share waits for `connMu` while the getwork goroutine holds it, the one holder another worker does not stand for: all of them give it back after one step; the third job overtakes a worker between its two reads |
| `slot_counter_race` | violation, section 7 | 2 goroutines, 1 slot | old and new owner |
| `gpu_streams` | `KeptApart`, `BatchesWhole` | 2 slots, 2 banks, 3 chunks, 3 batches | the build's slots and banks; three chunks make banks alternate within and across batches; the third batch reuses the first slot |
| `gpu_worker` | `NothingSkipped`, `HeadFollowsTail`, `MinesThisJob`, `ImplementsQueue`, `ToldWorkerLeaves`, `NewCounterTaken` | 2 slots, depth 2, 3 jobs of which one is unfit, 3 ranges | the build's depth; jobs change during fill, collect and drain; the nonce wraps |
| `gpu_drain_cut` | violation | as above | |
| `console` | `EndsOnce`, `LeavesCleanly`, `ImplementsEventLog` | log of 4 keeping 2, channels of 1, 2 posts, 2 keys | every channel fills; the log grows by doubling, so that its third and fourth entries are written in place beside a Snapshot that shares the array, fills and is trimmed with a Snapshot held |
| `console_quit` | `ShutdownCompletes` | log of 1, no posts, 2 keys | two refresh requests fill the channel of 1; posts never make anyone wait, as `console` shows |
| `host` | the properties of the next table | see there | |
| `ui` | `TilesTheBody`, `StaysInPlace`, `NoOverprint`, `ViewIsTrue`, `DecodedAsMeant`, `LeavesTheLogFollowing`, `PrefsSurvive` | 124 windows, 5 snapshots; 4 presses of 15 keys, one or two in a read and three of Esc, `[`, `a` and F5, 1 arrival, log of 3 keeping 2 | windows at and one below the widths and heights the layout decides at; a rig just started, one without cards, with one, with six and 128 threads, and one whose node is lost, with the widest rate; four presses are enough to open a command, type it, run it and press once more, or to scroll, filter and leave |
| `log_shifts` | violation, section 7 | as `ui` | |

`host` in parts:

| part | properties | bounds | why these |
|---|---|---|---|
| stats | `DocumentTrue`; `OnlyNewer` in `FailuresTakeNothing` | clock to 4, interval 1, age 1, one kill | a document grows too old, a reader is overtaken by a rename, a miner is killed in a write and started again |
| libraries | `LibrariesSound` | 3 miners, one with two candidates, a shared library, one not embedded | two find the file missing at once, both orders of rename, a kill in each |
| node | `NoteIsTrue`, `WatcherEnds`; `SampleStays` and `WalksSpaced` in `FailuresTakeNothing` | 2 endpoints, retry 2, clock 6 | both fail twice, the second answers after the first has failed, the chosen one fails later |
| devices | `RowsAreTrue` | 2 NVIDIA cards and one AMD, 5 lists of devices | lists out of order, with a device that is not there, listed twice, only the last vendor's |
| settings | `RunsCanBegin` | every flag set, two thread counts, one card | every pair of file and flags over any number of starts |
| sampler | `SamplesAccount` | 4 samples, window of 3, a second of 2, 1 slot of 2 ticks | late, early and repeated times; a window and a history that drop their oldest |
| target | `AcceptsAsReference`, `CreditCoversDifficulty` | limbs of 2 bits, 27 difficulties, all 256 hashes | every carry between limbs, difficulty 1 (a target one bit too wide), targets of 0, negative difficulties |
| nonces | `NoInputTwice` | counter of 4, tags of 8 from 6 for cards, 2 threads, 2 cards, 2 jobs, 3 starts, 7 tries | the counter wraps in a batch, a slot is started again on the same job, thread 6 shares card 0's tag |

Bounds on what the environment does (`MaxJobs`, `MaxConns`, `MaxHashes`, `MaxShares`, `MaxBatches`,
`MaxPosts`, `MaxKeys`, `Ranges`, `MaxNow`, `MaxKills`, `MaxNodeNow`, `MaxTicks`, `MaxCounted`, `MaxPublished`, `MaxStarts`,
`MaxTried`, `MaxInputs`, `MaxArrivals`) are guards of the actions that use them up, so a behaviour that
reaches one stops there: deadlock is not checked where that, or the end of the program, can stop
the system. Symmetry over goroutines is used in safety runs only.

What the deeper ones show:

* `PoolMatchesWorkers`: positions, slots, stop channels and the count agree after any sequence
  of `SetThreads`, although told workers linger.
* `NeverAheadOfCounter`: a worker may hash an old job under the new counter, never a new job under an
  old one. In the first case it does not notice and keeps the old job until the next one is
  published (`NewCounterReachesWorkers` promises no more than that it reaches a job newer than the
  one its counter was taken for); in the second it would leave the job at once, again and again.
* `NoShareWithoutConn`: the early return of `submit` for a missing connection is never taken with
  a share in hand, because a job only comes from a connection and `e.conn` is never cleared.
* `KeptApart`, `BatchesWhole`: the waits between banks are enough, including for a submit that fails
  after part of a batch was enqueued. They are more than enough: one part of `KeptApart`,
  `OneBatchAtATime`, says that batches follow each other on the card, which one comment of the
  library promises and another denies (section 7).
* `NothingSkipped`, `MinesThisJob`: even after failed calls, and after a drain that was cut, no share
  is sent for a job it was not found in.
* `ImplementsQueue` and `ImplementsEventLog`: refinements of the abstract modules under the mappings
  written in `GpuRing` and `LogRing`.
* `ShutdownCompletes`: a request to refresh made by the loop to itself is dropped when there is
  no room; made to wait, it would keep the loop from ever seeing `done`.
* `DocumentTrue`: the script's age check holds for every figure it reads after it, because what can
  replace the file meanwhile is newer, also when it was written before the check.
* `LibrariesSound`: check, write aside and rename need no lock between the processes; an
  `absent` is only said by a process that found none of its candidates embedded.
* `NoInputTwice`: it holds with no luck from the random bytes between different slots, but for
  threads past the 240th (section 7).
* `EveryBandFirst` in `TilesTheBody`: a second row of one band never pushes another band out.
* `DecodedAsMeant`: an unknown sequence is swallowed whole, and presses read together are
  not taken for one, Esc and a bracket before another one excepted.
* `ToldWorkersLeave`: also for a worker in `submit` that finds `e.connMu` held by `RunGetWork`; a
  lock that is not given back after the install keeps it for ever.

Each module has, before some definitions, a *slip*: the same definition as a plausible bug
would have it (a dropped guard, an index that does not wrap). They are not used by the
specifications; every property has one that it is known to detect.

## 5. Fairness

* `Engine`: weak fairness of every goroutine (the Go scheduler is preemptive), so of giving
  `e.connMu` back (`UnlockConn` and a worker's `WriteShare`; a node that never takes a share from
  its socket would keep the latter), and strong fairness of
  taking `e.connMu` and of installing a connection (a `sync.Mutex` in starvation mode hands itself
  to who waited longest). Dials, jobs, disconnections and `SetThreads` may never happen.
* `GpuWorker`: weak fairness of the goroutine. Waiting for the card is a step that can be
  taken: an event wait returns when the batch is done or the card has failed.
* `Console`: weak fairness of each goroutine where it is not in a `select`; strong fairness of the
  cases of the loop's `select` that matter, because Go picks at random among the ready ones;
  strong fairness of the signal goroutine, which waits for `tui.mu`. Signals, keys, posts and the
  timer have none.
* `Host`: weak fairness of the node watcher's goroutine (an answer or a failure comes within the
  client's three seconds), strong fairness of the closed channel's case of its `select`, which
  may be ready together with a tick. The other parts state safety only.

## 6. What is proved

The proofs hold for every value of the constants that satisfies the `ASSUME` of its module.

* `Engine_proofs`: `TypeInvariant`, `PoolInvariant`, `MutualExclusion`, `ShareHasConn`, `JobsInOrder`,
  `WriteKeepsConn`, from the inductive invariant `IInv`. None of them is inductive alone. That a
  worker in `submit` has a connection rests on its job having come from one (`JobsFromConn`), which
  for a worker rests on what it copied when (`Copied`); that a slot has one owner rests on who
  was told to stop (`Slotted`) and on the pool's order. The proof has one lemma per group of
  actions and a step per conjunct the action can disturb. Assumption: `EngineAssumption`, the
  bounds are naturals and `NoOne` and `Reader`, which is `RunGetWork` as a holder of `e.connMu`, are no
  workers. That the lock is held by the one worker that writes or by `Reader` between the install and its unlock is part
  of `OneWriter`.
* `GpuRing_proofs`: `HeadAlwaysFollowsTail`, `RingInvariants` and `RingImplementsQueue`, for any
  number of slots. The invariant is that head is tail plus the number in flight, modulo the
  slots; with it the slot a submit fills is none of those in flight (`HeadIsFree`), and the
  sequence of slots from tail is the queue.
* `GpuStreams_proofs`: `CardKeepsApart`, `BatchesAreWhole` and `StreamsKeepTheQueue`, for any number of banks, slots,
  chunks and batches, both builds, and a submit that fails at any call, with any launches of that chunk. First what a batch puts on the streams, and
  where (`BatchPlaced`, `OnePlace`). Then what has to be over before an operation begins: `Closed` says that what began has
  all that `Before` puts in front of it behind it, and a chain of stream order, record and wait is followed
  for each pair that matters: the upload before the other banks (`LeadFirst`), all banks before the readback
  (`BanksFirst`), a batch before the next (`BatchFirst`), a sort before the next bank's (`SortsFirst`). So two
  operations that run together are of one batch and of different banks (`Together`), which leaves no buffer to
  share. `Control` adds which batch is in which slot (`Numbered`), that a collected batch has nothing left to do
  (`GoneIsOver`) and that a freed bank's stream is empty (`FreedFrom`), which is what `dsg_free` rests on.
  `Data` says what each buffer holds, by which operations are over, from the upload to the readback; each
  operation disturbs the clause of its buffer only, because those that could are kept apart by `Control`.
  A batch whose submit failed may lack launches anywhere in its last chunk, so `Data` speaks of the batches
  that were submitted in full (`Full`); nothing is collected of the other, as the code has it.
  Assumptions: `RingAssumption`, and `StreamsAssumption`, that there is a bank and a chunk at least.
* `GpuWorker_proofs`, the worker: `WorkerSkipsNothing`, `WorkerMinesThisJob` and `WorkerKeepsTheQueue`, for any depth of
  the pipeline up to the slots, any jobs and any number of ranges. Neither `NothingSkipped` nor
  `MinesThisJob` is inductive. `WorkerInv` adds to the ring's invariant that every batch on the card
  is still to be counted until a failure ends the worker, and that a job is begun with an empty
  card unless a drain was cut (`Accounted`); that what is mined was published before its counter
  was read (`JobTaken`); and that what was collected since the counter moved and what is left are
  together one pipeline (`WithinPipeline`), which is why the bound is the depth and not one batch.
  Assumptions: `RingAssumption`, `WorkerAssumption` and that a batch is a job and a range (`BatchAssumption`).
* `Engine_proofs`, the work: `WorkShownIsReal`, from `CountInv`. A worker about to write its counter back
  read it before its own pass was computed (`ReadInTime`), so that a second owner of the slot can only make
  the counter lose. The shares sent and those recorded and not yet written are together no more than
  those counted (`SentInv`, by the cardinality of the set of their workers), and a best share
  that is still unset is about to be set by a worker that recorded one (`BestInv`).
* `Host_proofs`, the check: `AcceptsExactly` and `CreditedInFull`, for bytes and limbs of any width and every
  difficulty, and `JobInvariant`. A quotient cut into limbs reads back as itself (`Limb`), and comparing
  four limbs from the top compares the numbers they stand for. That the four limbs loaded from a hash
  stand for the number its reversed bytes are read as is `ReadingsAreOne`, an induction over the bytes:
  the base of a limb is what its bytes can hold (`ValuesOf`), and nothing else is assumed of it.
* `Host_proofs`, the nonces: `NoInputIsTriedTwice`, for any threads, cards, batch sizes and number of jobs and
  starts. Tags tell searchers apart; the inputs of a searcher's earlier starts and jobs carry older
  random bytes or job numbers (`TriedIsPast`); and what it tried of its present job lies behind its
  counter, within what it has searched (`TriedIsBehind`), so that a counter that wraps does not
  come back to it. The remainders that are needed are lemmas about one turn of the counter.
* `Console_proofs`: `LogRingImplements` and `ConsoleImplementsLog` show the refinement of `EventLog` for
  any size of the log; the invariant is that every slice lies in a held array, its cells were
  written, and a Snapshot sharing the log's array is no longer than the log, so that the
  cell an append writes is beyond every reader. `LeavesTheTerminal` and `LoopEndsOnce` show `LeavesCleanly` and
  `EndsOnce` from an invariant that relates `sync.Once` to who is inside `quit` (`OnceInv`), each point of
  the shutdown to what was done before it (`TerminalInv`), and each channel to its room.
* `Frame_proofs`, the keys: `ViewHolds`, `LogFollows` and `PrefsKept`, for any keys and commands, any rooms of the log and
  the command line. The view has to be held together with the log's length and levels, because what a
  filter shows depends on both. The file always holds what
  the last save was made from, under a name that `screenByName` gives back (`PrefsInv`).
* `Frame_proofs`, the decoding: `KeysAreMeant`, for any presses of which each sends one byte or one sequence. That
  `decodeKeys` of a press and what follows it is the press and the decoding of the rest (`PressDecodes`) is shown
  for a list with its first byte taken away again and again, by induction on what is left of it.
  That a chunk of any number of presses is decoded to their keys follows by two more inductions (`ChunkDecodes`): what
  is left to decode at the beginning of each press is a list of keys, and what was decoded before it is the keys of
  the presses before it. A `Tangled` chunk is kept out by `Joined`.
* `Layout_proofs` and `Frame_proofs`, the tiling: `PanelsTile`, for every window, and any snapshot. Columns that are given as much
  as there is lie side by side to the right edge (`SideBySideIs`), and a share of a sum by weights, with
  the remainder one at a time, is such a giving (`SpreadIs`, `SharesFit`). Packing keeps every panel once and in
  order, and no row is wider than the body unless it is one panel (`PackIs`); the rows that are kept are first rows
  before second ones (`KeptIs`); raising them a row at a time never spends more than there is (`RaisedIs`). So the cells of the plan
  cover the body and are apart (`PlanTiles`). The other screens are cut by `Rows` and `Cols` and each has a
  lemma. The invariant `FrameInv` says that a frame that is shown was drawn for a window of `Window` on a
  screen the keys can open.
* `Frame_proofs`, the ink: `DrawnInPlace`, for every window, every snapshot and every screen. The rectangle of a panel is meant with its
  border, so ink on the border itself is inside (section 7). A set of marks keeps to a
  rectangle when each of them is within it (`Keeps`); this survives a union and a larger rectangle, and each
  widget of `Widgets` has a lemma that says what it keeps to and from which size on. A panel is `Fine` when its ink
  and its title keep to the rectangle it was handed; the interior it draws in is empty or is that rectangle
  without its border (`Framed`), and a panel's own thresholds are what its proof turns on. Some of them are not
  in the panel: it relies on the width `planBands` packed it for or on the share `Cols` gives it in a window of
  56 columns (`PlanTiles`, `ColsRoom`), and on how wide a rate or a state can be (`SnapshotType`).
  The list of sources of the mining screen relies on 70 columns, which is the
  exception `InsideItsPanel` makes; `NoBorderOverlaps` in section 7 is what it would say without it.
* `Frame_proofs`, the edges, also in `DrawnInPlace`. What the header writes is followed from left to right and from the top: a set
  of marks that keeps to a region and is clear of another one stays clear when both are joined to more (`ClearUnion`). The
  key bar is an inequality between the widths of nine keys and a signature (`BarWhole`).
* `Host_proofs`, the document: `ReadersSeeWholeDocuments` and `FailuresKeepTheDocument`, for any interval, age and
  number of kills. The document that waits for its rename is no older than the one it replaces
  (`InOrder`), and both are fresh enough for a script that has checked the age (`FreshForReader`).
* `Host_proofs`, the libraries: `LibrariesAreSound`, for any number of processes and any lists of candidates: a
  name of the cache holds nothing or a whole file, and what a process will say of the
  candidates it has passed is true (`SaysTrue`).
* `Host_proofs`, the node: `NoteNamesTheSource`, `SampleIsKept` and `WalksAreSpaced`, for any list of endpoints and
  retry time, from the place `poll` is at in its list: the whole list before the first answer, and only
  the endpoint that gave it afterwards. For the walks, what the loop remembers of a failure is when the last
  one happened, from the second walk on (`FailureTimed`).
* `Host_proofs`, the settings: `SettingsHold`, over any runs, flags, answers and saves. What was answered waits for the flags
  unchanged (`AnswersKept`), what a run mines with can be read again (`RunInRange`), and a run that has
  just begun mines with what its settings say (`BegunAsSet`).
* `Host_proofs`, the sampler: `SamplesAreWhole`, for any ticker, window, history and counting. What a tick
  has read is no less than the sample before it and no more than was counted (`ReadsInOrder`); the two
  windows hold the newest rates, and these account for the hashes between the totals
  (`WindowsAgree`); the slots of the history are means of consecutive samples with none left out
  (`SlotsAgree`); no window of a second ever shown is above the peak (`NoneAbove`). Each is a section of lemmas
  that does not know of the others, and the steps of `tick` put them together.
* `Host_proofs`, the cards: `RowsHold`, for any cards of two vendors. A reading is of the card whose number it was
  given (`SensedOfCard`), for which `Back` has to find exactly one card; the end of a window is as silent
  as the history says and no longer (`SilenceCounted`); and every place in the list of rows has its card,
  a fact about counting those before it (`PlacesAreTaken`).
* `Host_proofs`, the whole: `HostKeepsItsParts` shows that `Host` implements each part's specification with no
  mapping, `HostHolds` that their invariants hold together, and `FailuresCostNothing` is the action
  property `FailuresTakeNothing`.

Assumed of the constants is what is in the modules: bounds, rooms and times are naturals, windows and
histories are not empty, bases have two values at least, identifiers are none of the special values,
and the ticker's times divide `Unit`. Windows begin at (0, 0) and have a cell at least. Of a snapshot, what the formatting code bounds is bounded
(`SnapshotAssumption`): a rate below 10^15 H/s is at most 12 cells and 25 in big digits, its unit 4, a state 12, a temperature
6, a card's note 8; counts, histories, texts of events and notes may have any width and number. And
what a key sends is one byte or `ESC`, `[` or `O`, digits and one byte more (`SendsAssumption`). None of
these leaves out a value the code uses. What the last one does leave out is in section 7: sequences with semicolons. A
lone Escape is one of the keys. `KeysAreMeant` speaks of one read that holds any number of whole presses; it does not
speak of a read with a typed Escape, `[` or `O` and one press more, which the decoder takes for a sequence (`Tangled`),
nor of a sequence that is split at the 32 bytes of a read.

Recursive functions on naturals are in reach: the library's induction cannot be instantiated, but the
least element of a set of naturals where a claim fails can, which is the lemma `Induction` of `Host_proofs` and `Layout_proofs`.

Model-checked only: every liveness property (the prover has no reasoning about fairness or
ENABLED: `ToldWorkersLeave`, `NewCounterReachesWorkers`, `LostConnIsRedialled`, `ToldWorkerLeaves`, `NewCounterTaken`,
`ShutdownCompletes`, `WatcherEnds`); and `NoOverprint`, about the order in which a panel's texts give way to each other.

## 7. Where the code and its texts disagree

Shown by a run that finds the violation:

* `slot_counter_race`: `engine.go:68-70` says a slot belongs to one running worker; a told worker
  may still add its last pass after a new one started on the slot, and since the add is a load and
  a store a total may fall.
* `gpu_drain_cut`: `gpu_worker.go:306` says that what is on the card was submitted for this job; a
  collect that fails in the drain leaves the old batch there under the next job. Shares stay
  right (`MinesThisJob`), because every hit is hashed again, but that batch's hits are lost.
* `log_shifts`: `tui_panels.go:1034` says that an entry arriving does not shift what is being read;
  `drawLogLines` (1052) counts back from the newest, so a view scrolled back moves by one line with
  every event.

Stated in a module and met while modelling, without a run of their own:

* `BestIsHighest` (`EngineProps`): `engine.go:89` says `bestShare` is the highest difficulty met;
  load, compare and store (417-418) are not one atomic step, and the lower of two shares may be stored last.
* `TerminalGivenBack` (`Console`): `runloop.go:198` says the terminal is given back whatever happens;
  between `tui.Enter` (210) and `signal.Notify` (254) a signal kills the process in the alternate buffer.
* `JustStarts` (`Settings`): `main.go:43` says that after the setup the miner starts with no arguments;
  but `save` in a run with `threads 0` and no card, or in one begun with `--testnet` and a testnet
  `--wallet` over a mainnet file, writes settings that the next start refuses.
* `FirstAnswerCached` (`NodeWatcher`): `nodeinfo.go:129` says a failed first probe is cached for two
  minutes; its time is not recorded, so the next probe follows after five seconds.
* `NoBorderOverlaps` (`Frame`): `tui.go:416-419` says that no window is drawn in which borders overlap values;
  `panelDevices` (`tui_screens.go:128`) writes a rate over the label, the border and past it in windows of 56 to 65
  columns, and up to 69 with the widest rates. Neither this definition nor `StaysInPlace` sees ink that ends on the panel's
  own border, because they measure against the panel's rectangle, which its border is a part of: of the disagreement with
  `tui_panels.go:209` below they say nothing.

Met while reading:

* Nonces: `maxThreads` is 256 (`engine.go:30`) and the cards' tags begin at 240, so threads 240 to 255
  share tags with the cards, which `gpu_worker.go:18-20` says never happens.
* `gpu_worker.go:263` logs that a new job waits at most one batch; it may wait for the two of a
  full pipeline (`WaitsAtMostPipeline` is the bound that holds).
* `gpu_worker.go:361` and 386: the count and the list of devices keep a worker that has given up.
* `derostorm_gpu.cu:149` says both batches ride the same stream; banks have streams of their
  own. Its conclusion holds (`OneBatchAtATime`): a batch's upload follows the readback of the one before.
  That contradicts the comment at 1087-1094, which leaves a barrier out after the readback so that a bank
  can start the next batch before this one has drained. It never can: the next batch's upload goes on the
  lead stream behind this readback (1023-1031), and the other banks wait for that upload (1037-1044), which is the
  barrier by another way. That the two comments disagree is what `OneBatchAtATime`, as a part of `KeptApart`, decides: what 149
  says is what the code does. No run shows 1087-1094 violated, because a batch that *may* begin
  early is no property of a behaviour.
* `statsfile.go:77` says an index is the GPU index; it is the position of the row, so with
  `--gpu=2` the only row has index 0.
* `runloop.go:798`: the CPU's share of a mixed rate is a difference that may be negative.
* `config.go:100` writes the config file in place; `save` in `commands.go` also writes what only a flag of
  this run set (`--wallet`, `--no-animation`, `--screen`), which makes it permanent.
* `tui.go:137-139` says unknown sequences are swallowed; `ESC [ 1 ; 5 C` becomes Home and the letters
  `5` and `C`, and a sequence that the 32-byte read splits is decoded in two parts.
* `tui_state.go:84-86` says a paused view freezes; `drawLogLines` does not look at `paused`, and keys
  that change the filter reset the scroll and leave the view paused.
* `tui.go:500`: Home adds 2^20 to the scroll, which is cut back only where the log is drawn.
* `tui_panels.go:209`: the mining panel decides on a row of its own for the GPU bar before the bar
  above takes one, so the bar can be drawn on the bottom border; rates of 100 KH/s and more in a
  window of exactly 100 columns run over the border. 602-606: the device list may be printed over (its comment, 688, says not).
* `tui_screens.go`: a screen's subtitle is drawn over its title in narrow windows; a chart's widest label begins one cell left of
  its region; a filter that hides every entry shows "no events yet".
* `canvas.go:113-143`: writing over half of a wide rune leaves the other half, which the comment at 125
  says it does not.

Where such a case is narrow, the windows of `MCFrame` stay outside of it (no window of 100 columns) or
the property names it; nothing is changed in the model to hide it.

## 8. What is not modelled

* The kernels that hash and sort, the descriptor suffix sort and native hashing: sequential
  computations whose promise is equality with a reference on inputs of tens of kilobytes, which
  the program's own self-tests compare and no bounded check reaches. Which sort is installed,
  and that a failed probe installs none, is in `LibCache`.
* GPU block tuning: the tuner is never started (`newBlockTuner` returns nil).
* What the sensors' and the system's drivers answer; the terminal's system calls; the benchmarks
  and previews, which run instead of the miner; vendored code.
* The classic and the plain console: they share the log and the shutdown of `Console`, and print
  lines with no state but the last one.
* Of the screens: glyphs, colours and wording, the difference a flush writes, animation. Of the
  keys: capitals, the key that picks a card.
* `dsg_init`, `dsg_set_blocks` and `dsg_hash_one`, which run with the card idle.
* Weak memory: the shared values of `Engine` are atomics or under a mutex; the counters' load and
  store are modelled as two steps. A settings file edited by hand.
