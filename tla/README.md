# A formal model of Fresnel

Fresnel simulates optical quantum experiments: sources emit pairs of entangled
wavepackets, optical elements pass them on, detectors measure them, and the
resulting time tags are written to Parquet files. Every node of the experiment is
a thread; the threads share one concurrent store of entangled states and are
connected by channels. This directory holds TLA+ modules of the parts whose
correctness depends on the order in which these threads act, TLC configurations
that check them on small experiments, and TLAPS proofs of what was worth proving
for experiments of every size.

Source files are named relative to the crate's `src/`; `README.md:n` is the
crate's README.

## Inventory

| Component | State | Operations | Interacts through | Correct if |
|---|---|---|---|---|
| **InteractionStore** (`concurrency/interaction_store.rs`, `registry.rs`) | ring of cells (island, tombstone, result), registry of cell states, buffer behind an `Arc` | `create_states`, `get_states`, `get_states_from_raw_handles`, `claim_collapsed_packets`; on a slice `set`, `get_mut`, `merge_islands`, `correct_state_handle_if_tombstone`, drop | mutex and condvar, shared by all threads; slices are used outside the mutex | no cell is in two slices; handles always lead to the packet's island; reference counts are exact; nobody waits for ever |
| **Nodes** (`nodes/*.rs`) | position in `process_batch`, batches, island clones of a detector | `process_batch` of source, single-port, dual-port and detector | channels of `WpBatch`es; the store | each photon is scattered, merged and measured once, an island only when complete |
| **Claimers** (`nodes/spd.rs`) | `last_click`, filtered clicks | claim, dead time, dark counts, send | `sync_channel(1)` from the detector, `sync_channel(16)` to the merge thread | tags sorted, dead time kept |
| **Merge thread** (`parquet/core.rs`) | pending tags and frontier of each channel | wait on the laggard, drain, emit | tag channels, `sync_channel(64)` to the writer | global order, no tag lost, no claimer blocked |
| **Writer thread** (`parquet/core.rs`) | builders, chunk count, file | collect, write a chunk, rotate, close | row channel | each tag in one finished file |
| **Ports and batches** (`wavepacket/wp.rs`, `types/core.rs`) | current period, current time | `get_batch`, `get_overlapping_or_before`, `send_batch` | node channels, `sync_channel(3)` | a beam splitter sees all overlapping packets in one batch |
| **Node runner** (`nodes/core.rs`) | heap of timed control events, time | handles, preload, serve, run, join | control channel | settings in order, before the batches they concern and never lost; a stopped node ends |
| **Collapser** (`collapser/monte_carlo.rs`) | operators of an island, `MonotonicMap`, stack of moving photons | `collapse` | called by a detector | modes that interfere are resolved together, photons are conserved, every detected packet gets one outcome |
| **Handle set** (`util/set.rs`) | open-address table | `insert`, `remove`, `contains`, `clear`, growth | called by `get_handles` | a set |
| **Snowflakes** (`concurrency/snowflake.rs`) | counter of a thread, 8-bit generator id | `next_u32` | thread-local | unique among live packets |
| **Context, telemetry, monitor** (`context.rs`, `main.rs`) | operator tables, atomic counters | load, add, reset | relaxed atomics | nothing is counted twice |
| **Topologies** (`main.rs`) | | `simple_epps_2spd`, `hom_experiment`, `entanglement_swap` | | |

The hard behaviours are: slices used outside the mutex while another thread
replaces the buffer; tombstones, which several threads consume; the two-phase
measurement of an island on a clone; sleeping and waking on one condvar for
different conditions; bounded channels that close a cycle between a detector and
its claimer, or between the two arms of an interferometer; periods that two ports cut
at different times; control events that overtake batches or are overtaken;
frontiers and late or early clicks in the merge of the tags; and stopping. `PROJECT.json` lists each of them at its line, with the property that
would show it going wrong or the reason there is none yet.

## Modules

| Module | Models |
|---|---|
| `InteractionStore` | The store's operations, over its variables. |
| `OpticalNodes` | The node and claimer threads, conjoined with the store. The specification that is checked. |
| `MCOpticalNodes` | Small experiments for TLC, after the topologies of `main.rs`. |
| `EntangledIslands` | What the store promises, without cells, handles, locks or threads, and the theorem that this keeps packets from being measured twice. `OpticalNodes` implements it. |
| `WavePackets` | Edges and overlap of wavepackets; how a beam splitter pairs those of its ports. Operators only. |
| `NodePorts` | Time in source, delay line and beam splitter: batches, `RxPort`, bounded channels. |
| `MCNodePorts` | Delays and sources for TLC. |
| `Collapser` | `collapse()`. |
| `MCCollapser` | Islands for TLC, built with `WavePackets` as the nodes build them. |
| `NodeRunner` | Handles, control events, the node loop, the end of nodes; claimer's tagger; monitor. |
| `MCNodeRunner` | Schedules of control events for TLC. |
| `Snowflakes` | Generators of packet identifiers. |
| `TimeTagPipeline` | Claimer loop after the claim, merge thread, writer thread. |
| `MCTimeTagPipeline` | The same for TLC. |
| `OpenAddressSet` | `U32OpenAddressSet`. |
| `OpticalNodesProofs` | Proof that the store and its nodes keep their types. Then the ring of cells, the inductive invariant of the store, and what its operations do to the ways of packets. |
| `StoreProofs` | Extends it: one lemma for each action of the nodes, the theorems about cells, handles and reference counts, and that `OpticalNodes` implements `EntangledIslands`. |
| `NodePortsProofs` | Types, order and clusters of packets in `NodePorts`. |
| `CollapserProofs` | The cells, groups and photons of `Collapser`, for any islands. |
| `TimeTagProofs`, `NodeRunnerProofs` | Theorems about the module of that name. |
| `UtilityProofs` | Theorems about `OpenAddressSet`, which it extends, and about `Snowflakes`, which it instantiates as `Snow!...`; the two share nothing. |

### InteractionStore and OpticalNodes

`reg`, `start`, `end` are the registry, `bufs` the buffers some `Arc` still
reaches (the store's own has capacity `cap`), `slice[t]` the
`InteractionStoreSlice` of thread `t`, `handle[p]` the `state_handle` of
wavepacket `p`. Handles are `0 .. IndexRange-1` and wrap; a slot is the handle
modulo the capacity, in buffer and registry alike, as in the code.

- A critical section is one step when it has no loop over tombstones
  (`CreateStates`, `GetStatesFromRawHandles`, `DropSlice`). `get_states` and
  `claim_collapsed_packets` are a step for `Acquire`, one for every tombstone they
  follow and one for the outcome (`LockCells`, `Sleep`, `ClaimCollapsed`), and
  `Next` lets no other thread move while `mutex` is held. This is sound for code
  that runs under one mutex, and no recursion is needed. What another thread does
  to its own slice without the mutex touches only locked cells, which the critical
  section does not read; `ExclusiveCells` is that condition.
- The `wait_while` closure redirects packets before it finds one that is locked
  and sleeps; the model keeps those side effects. It does not fix the order in
  which the closure looks at the packets, so it also covers the code's.
- `pc[t]` is the place in `process_batch`. Each step between two drops is one
  action: `GetBatch`, `Enter`/`Follow`/`LockBatch`, then `Transmit`, or
  `Correct`/`Merge`/`Split`, or `Terminate`, and so on. What a thread does to the
  cells of its slice is atomic in the model, again by `ExclusiveCells`.
- `DropSlice` and the sends that follow it are one step: a packet in the sink batch
  of a node that has dropped its slice cannot be told from one in the channel.
- Empty batches are left out: `process_batch` of an empty batch locks nothing and
  changes nothing but times.
- A packet's snowflake is its history (pair, then one label for each element
  passed), so it is fresh by construction. How far apart two draws of the code's
  generators must be to give the same number is the theorem of `Snowflakes`.
- Times are abstracted to `Before`, which of two packets is known to be earlier,
  and `MinBatch`, how finely a batch may cut. A batch is any set of queued packets
  that leaves no earlier one behind; any two packets of the two ports may overlap.
  Which ones do, and what a batch takes, is the subject of `NodePorts`.
- `collapse` is abstracted to what the store sees: one outcome for every packet of
  the island (`monte_carlo.rs:389-407`). That it gives just these is
  `EveryPacketAnswered` and `OneOutcomeEach` of `Collapser`.
- Reference counts are unbounded; in the code they are `u8`, for clusters below 256
  packets.
- The channels between nodes are unbounded. A bounded one can only stop a sender
  earlier; the deadlock this may cause with arms of different delay is examined in
  `NodePorts`.

### WavePackets and NodePorts

`hom_experiment` with one delay line: `Generate` is `process_batch` of the source
(`time` is its `runner.time`; the gaps between pulses, in pump periods, are the
outcome of `get_next_time_bin_count`), `StartDelay`, `GetDelay`, `Transmit` that of
the delay line, and `StartDual`, `GetLeft`, `GetRight`, `PullRight`, `PullLeft`,
`Check`, `Scatter` that of the beam splitter. `port[r]` is the `RxPort` (`period` the
rest of `current_period`, `current` the `current_time`), `channel[r]` its
`sync_channel(3)`. Each `recv()` that may block is a step of its own (`GetBatch`,
`Pull`, `Check` with their two disjuncts); what is done without blocking is one step,
since the port belongs to its thread. A sender's batches wait in `outbox` and `Send`
blocks on a full channel.

`Pushed` leaves out the `debug_assert` of `WpBatch::push` (`wp.rs:105-110`), which debug
builds only evaluate. What leaves the beam splitter is recorded in `scattered`, with the operators that
pass 3 makes; it does not block the beam splitter. `since` of a packet, the start of
the period it was made in, is kept for the properties only. `DualOperators` is pass 3:
the passes visit the packets of both ports by time, and each visited packet is paired
with the overlapping ones of the other port that are not yet visited. Packets of
different widths can be had by `SigmaOf`; the runs use one width (see below).

### Collapser

The state of the function `collapse`: the operators registered so far, the cells of
`MonotonicMap`, `mode_operator_map` (`consumer`, 0 for none), the stack and the
result. One action for each arm of the two `match`es, with the loops' heads as guards.
A mode is named by the packet in it. A photon is `Single` or `Vac`; a coin is a
choice of TLC's. The two outcomes that `indistinguishability` forces are among those
of the independent coins, so nothing is added or lost for the properties.
A photon in a mode without consumer is a panic in the code and a deadlock in the model.

What an island may be is stated by `IslandAssumption`. `Shaped`: every operator has
the numbers of source and sink modes its type fixes. `OneWayOn`: a packet goes on to one
element only, where it may be in several pairs, each time with the same two sinks
(`mode_map` of `dual_port.rs`). `OneWayHere`: a mode is registered once
(`register_wavepacket`, and `clone_with_offset` when islands are merged), so that it
comes out of one source or element only. `ForwardAssumption` says that elements are
connected without a loop, as those of `main.rs` are: in rounds, where an element lets a
photon out once all that interferes with it has come, every mode is reached. Only
`EveryPacketAnswered` needs it. With a loop in which a packet interferes with one that
comes out of its own beam splitter, a group would wait for itself.

`MCCollapser` makes the islands as the nodes would push their operators, with
`DualOperators` for the beam splitter. Within one pass of a beam splitter every new
pair meets a group on one side only, so `move_out_to` is not reached from there;
`ChainIslands` registers the pairs of a chain of three in any order and does reach
it, since `collapse` does not say that it relies on the order.

### NodeRunner

`simple_epps_2spd` and what `main` may do to its handles. `script` is what `main` still
sends; `control[n]` and `heap[n]` are channel and heap of a node; `phase[n]` its place
in `NodeRunner::run`, in `process_batch`, or in `drop` of the detector. Batches are
numbers of packets. `exited` is the end of the process: `main` has joined all threads,
or one that panicked.

- A batch of the source that leaves its time as it was is left out. Detectors and
  beam splitters never advance `runner.time`, so an event that is scheduled for them
  later than their `Start` is never served; `main` schedules none.
- Among events of the same time the heap takes any.
- The claimer waits for its results (`SendTags`, guard `Measured`) until the other
  detectors have read their batches of the same time: the source makes a batch for each
  exit port at once, and a packet's partner is in the other one. `Unread(n)` counts the
  batches made for detector `n` that it has not read, and `Unclaimed(n)` those it or its
  claimer is not through with, so that the claimer's batch is measured when every
  `Unread(m) < Unclaimed(n)`. A detector that has stopped reads no more. That detection
  and measurement are done when the batch has been read, is one step here and many in
  `OpticalNodes`; batches that are cut elsewhere are the subject of `ClusterCut`.
- `main` stops the nodes of `setup.stop` in this order, at any time after its script,
  and not a node it has joined.
- Packets are counted only in the experiment with a monitor.
- A detector's `recv()` never fails: `main` keeps a sender in the detector's handle
  until it has joined it (`spd.rs:237-242`, `spd.rs:315-317`).

### Snowflakes

`Allocate` is the first call of a thread, `Draw` every call. The widths are those of
the code (8, 24 and 32 bits). There is no run: 2^24 draws are too many, and the theorem
says more.

### TimeTagPipeline

A claimed batch spans `from .. until`; a click falls in it, `EarlyBy` before or
`LateBy` after it (a click is sampled from a Gaussian around its packet). The
efficiency coin is nondeterminism, and a click that does not survive is no step.
The merge thread's loop is `Control`, `AbsorbLaggard` or `LaggardTimeout`,
`DrainBatch` and `DrainNext` for every channel, `Emit`. `emitted` is a history
variable. `merger = "control"` initially: the phase before `Start` only collects
channels. From `emitted` on, tags are rows, and the row channel, the builders (`rows`),
the current file and the finished ones (`closed`) are sequences of the `Vec`s the merge
thread sent: `Stream` is all of them, so that a row that is written twice, or again in
the next file, is there twice. `WriteRows` is one turn of the writer's loop, with the
full chunk and the rotation, `CloseFile` what follows the loop. Stop is `SendStop`, served at the next `Control`; the process exits when
`stop()` has joined both threads.

### EntangledIslands

Packets live in disjoint islands. Sources emit new ones (`Emit`), a beam splitter
joins two (`Interfere`), a node replaces undetected packets by new ones in the same
island (`Scatter`), detectors detect, a complete island is measured at once, and
outcomes are claimed. The refinement mapping takes an island from the cell that
holds it now (`CellNow`: the holder's copy if a slice has it, else the store's), and
so makes reallocation, redirection, retirement and locking stuttering steps.

### OpenAddressSet

One action per operation on a table of `MinSlots` slots that may double up to
`MaxSlots`. The sentinel key is `KeyCount-1`. The loops are recursive functions.

## Runs

| Run | Checks | Shows |
|---|---|---|
| `DelayLine` | `TypeOK`, `ExclusiveCells`, `CloneCurrent`, `PacketsResolve` | source, delay line, two detectors; three pairs, all cuts into batches |
| `BeamSplitter` | `ExclusiveCells`, `ImplementsEntangledIslands`, `EverythingClaimed` | `hom_experiment` without delays; refinement and progress |
| `LongArm` | `PacketsResolve`, `RefCountsExact` | idlers delayed past the next signal, so islands are merged over several batches |
| `Ports` | `TypeOK`, `ClusterKept`, `OperatorsExact`, `SinkInOrder`, `SourceGoesOn` | overlapping packets meet in one batch and are paired exactly, order is kept, channels do not stop the source |
| `Collapse` | `TypeOK`, `GroupsAreComponents`, `PhotonsConserved`, `OneOutcomeEach`, `EveryPacketAnswered` | `collapse()` for every island of `MCCollapser` and all coins |
| `Runner` | `TypeOK`, `SinksConnected`, `FirstTagsSeen`, `NothingCountedTwice`, `SettingsOnTime`, `SettingsServed`, `StopEnds` | settings, start, stop of the source and both detectors, monitor |
| `Merge` | `TypeOK`, `DeadTimeKept`, `EachTagOnce`, `StreamSorted`, `ClaimersNotBlocked` | two channels, full chunks, rotation after each, stop; each row once; a blocked claimer is let on |
| `OpenAddressSet` | `LookupExact`, `OneKeyAtATime` | all tables of four slots and of the eight they grow to; each operation changes its own key only |
| `ClusterCut` | `EverythingClaimed`, violated | see below |
| `BoundaryCut` | `NoClusterCut`, violated | see below |
| `DarkUnsorted` | `StreamSorted`, violated | see below |
| `StopLoses` | `StopFlushes`, violated | see below |

### Bounds

The ring has 8 handles and starts at 6, so that it wraps after two cells; its first
buffer has one slot, so that two and four are reached by reallocation while slices
are out. Two pairs are enough for two islands to merge, be detected by different
detectors and be retired in either order, and with `LongArm` for a pair to be
redirected through a tombstone of an earlier batch. Three pairs in `DelayLine` let a
third island run when the first is retired.

In `Merge` queues of length one fill up; a chunk is full with two rows, and the bound
of a file is below a chunk, so that it is rotated after each chunk: with the four tags
of the instance rows are written and flushed after a rotation, and a second one may
follow. The builders are full, half full and empty at the final flush. Files of several
chunks are covered by `TagsOnceCorrect`. Three instants with a dead time of one are
enough for a click that is dropped, one in the next batch, and a frontier of one
channel that waits for the other. Clicks after the end of their batch (`LateBy`) make
the instance too large together with two tags per channel; the theorems of
`TimeTagProofs` cover them for every bound.

In `Ports` the unit of time is the pulse width: a packet reaches three units to each
side, pulses are 9 apart or fall together (gap 0), or 18 apart, a batch covers 10 units
and two packets, so that batches end by time and by size. With delays of 2 and 5 an
idler overlaps its own signal, or also the next signal, and clusters of several pairs
arise, which three batches of the source cut in every way. The fourth
experiment has a delay of 130, about as many periods as the channels and the delay
line hold, for `SourceGoesOn`.

`Collapse` has up to three pairs, an interferometer of two beam splitters with a
delay in one arm, and the pairs of a chain in any order. `Runner` has channels of length
one, three settings scheduled out of order and before, at and after the start; a detector,
the source and the other detector, stopped one after the other at any time or left
running, and serving their Stops in any order; and one round of the monitor. The table of the set
wraps, fills to 3/4 and grows once. All bounds are constants: `MaxPairs`, `MaxBatch`,
`MaxTime`, `MaxTags`, `MaxSlots`, and the fields of `Experiments`.

`DelayLine` cuts the queues into batches of any size; `BeamSplitter` into batches of
two or more (or all there is), since with smaller ones the program does stop
(`ClusterCut`). `Finished` in `OpticalNodes` is the end of a bounded behaviour, so
that deadlock checking is meaningful there, as it is in `Merge`, `Collapse` and
`OpenAddressSet`. In `Ports` and `Runner` the source stops at its bound and everybody
waits for it, so that deadlock says nothing; `SourceGoesOn` and `StopEnds` do.

### Fairness

`FairSpec` of `OpticalNodes` has weak fairness for the steps of each thread: the
operating system schedules every thread, and mutex and condvar let each waiter in
(no fairness is assumed for its choice of which batch it takes). In
`TimeTagPipeline` the merge thread and the writer are weakly fair, and a claimer in
what it does with a batch it has; nothing makes a detector get another batch or
anybody press Ctrl-C. `DrainNext` is strongly fair: the merge thread leaves the
`while let` over one channel when it finds it empty. A claimer could refill it
before each `try_recv` only if it made batches as fast as the merge thread takes
them, and for every batch the whole simulation must make a step.

`NodePorts` is weakly fair for each of its three threads. `NodeRunner` is weakly fair
for `main` (sending its script and joining), the source, each detector and each
claimer; not for the monitor, and not for `SendStop`, which nobody has to call.

### Disagreements between the code and what is said of it

- **`ClusterCut`.** If batches are so small (or periods so short) that a detector's
  batch ends inside a cluster of entangled packets several times in a row, the
  detector fills the `sync_channel(1)` to its claimer (`spd.rs:231`), the claimer
  waits for islands that need packets behind the blocked detector, and the
  simulation stops. `README.md:76` says that it runs until it is stopped. The
  default batch of 200 packets keeps this away from small clusters.
- **`DarkUnsorted`.** A dark count is put anywhere since the last click
  (`spd.rs:111-113`), maybe behind the frontier; `README.md:111-114` promises a
  globally sorted stream. For the same reason dark counts are not held to the dead
  time of `README.md:209-210`.
- **`StopLoses`.** Stop returns from the merge loop without emitting what is pending
  (`parquet/core.rs:118-121`); `README.md:76-77` speaks of flushing.
- **`BoundaryCut`.** A batch of the source ends at the time of its last pulse
  (`epps.rs:195-199`), and the first packet of the next batch may lie at the same time
  (`epps.rs:46-53`: two pulses in one bin) and so reaches three sigma back before the
  start of its period. The beam splitter, which looks ahead on the other port only up to
  the start of the next period, scatters a batch without it although it overlaps a
  packet of that batch; the comment at `dual_port.rs:109-110` wants no cluster cut.
  `ClusterKept` says that this is the only way.

Without a run of its own:

- `README.md:186` calls the ring fixed-size, while `suggest_realloc` doubles it on
  demand; every run of `OpticalNodes` grows it.
- `sample_time` (`wp.rs:81-90`) is not clamped to the leading edge, on which the comment
  at `parquet/core.rs:46-47` relies. With `EarlyBy > 0` TLC finds an unsorted stream.
- A file is rotated when `chunk_count > max_chunk_count` (`parquet/core.rs:280`), one
  chunk later than the comment at `parquet/core.rs:214-216` says.
- If the arms differ by more than channels and delay line hold (three batches each, with
  the batch a node is at), the beam splitter waits on the long arm, the channel of the
  short one fills up, and the source stops: with `delay = 190` instead of 130
  `SourceGoesOn` fails, against `README.md:76`.
- If packets have different widths (a pulse width changed by `SetWaveProfile`), the inner
  loops of the beam splitter end at the first packet that does not overlap
  (`dual_port.rs:158-160`, `dual_port.rs:230-232`) and miss a wider one behind it;
  `OperatorsExact` fails if `SigmaOf` is not constant. A TODO at `wp.rs:114-119` names a
  related limit.
- A detector that waits in `recv()` reads neither the Stop in its control channel
  nor, as `main` holds a sender to it, that the source has ended: if the source is stopped
  first, the detectors and `main` wait for ever, though the comment at `core.rs:258-259`
  means to let the thread join.
- A stopped detector does not end if its claimer has a batch whose partners another
  detector left unread when it stopped: the claimer waits in `claim_collapsed_packets`
  (`spd.rs:98`), `drop()` joins it (`spd.rs:57`) and `main` the detector, for ever, though
  the comment at `core.rs:258-259` means to let the thread join. It takes a source that
  has ended by a Stop (one that runs on panics on the closed channel, and `main` with
  it). `StopEnds` states that a stopped detector ends in all other cases; without its
  exception (`Stranded`) TLC finds the hang in `Runner`.
- Packets consumed between the monitor's load and its reset of a counter are in no
  total, which `README.md:74` calls cumulative packets.

## Proofs

All theorems hold for any values of the constants that satisfy the named
assumptions. These stand in the modules that declare the constants: every capacity
divides the range of the handles, as powers of two do (`CapacityAssumption`); a thread
has one role and `Route` leads to nodes (`RoleAssumption`); sizes of queues and batches
are positive numbers, times natural ones (`PipelineAssumption`, `RunnerAssumption`). TLC
evaluates them in every run.

### The store and its nodes

- `OpticalNodesProofs!StoreTypeCorrect`: `Spec => []TypeOK`. `TypeOK` is not
  inductive. `TypeInv` adds that the slice of every thread at a place where it uses
  one is held (`HoldersHold`) and points to a buffer that still exists
  (`BuffersHold`), that islands are finite sets (else the number of packets detected
  would not be a number), and that a detector's clones are finite islands at valid
  handles (`ClonesHold`). One lemma per operation of the store, one per action of
  the nodes. This is also where `DropSlice`, `CreateStates` and reallocation are
  shown to keep all handles in the window's range for every power-of-two capacity
  that divides the range.
- `StoreProofs!WaysCorrect`: `Spec => []StoreInv`, from which follow, each by a lemma,
  `ExclusiveCorrect` (`ExclusiveCells`), `ClonesCorrect` (`CloneCurrent`),
  `ResolveCorrect` (`PacketsResolve`) and `RefCountsCorrect` (`RefCountsExact`).
  None of the four is inductive, and they need one another: a cell is retired at
  the right moment because counts are exact, counts are exact because no other
  thread touches a cell on the way, and no other thread does because exactly the
  cells of slices are locked. `StoreInv` is `TypeInv` and
  - `RingInv`: the window fits into the buffer, slices are disjoint parts of it,
    exactly their cells are `Locked`, cells of slices on one buffer (also on one that
    the store has left behind) have slots of their own, and a retired cell, or one
    that stayed with its holder in an older buffer, is empty in the store's buffer;
  - `HoldingInv`: what the registry says of a free cell and what a thread may find in
    its slice at each place of `process_batch`;
  - `Counted`: an island counts its detected packets;
  - `ClonesInv`: a clone is of a complete island that is still as it was;
  - `FreshInv`: packets to come have snowflakes that no packet has;
  - `\E P : Led(P)`: there is an assignment `P` of packets to cells, the packets whose
    way from their handle passes the cell. An island or a result lists the packets
    assigned to it, a tombstone counts them and hands all of them to its destination
    (`StonesCount`), ways end in one cell and do not come back (`OneEnd`, `NoReturn`,
    `OneWay`), and every cell on the way of a packet is reached from its handle
    (`Shortest`, which is what an induction along the way would give and stands in
    for it in every proof). `P` is a history of the
    store that the code does not keep; each operation is shown to have a new one:
    a redirection takes the packet out of one cell, a merge adds those of the
    absorbed island to the survivor, a new tombstone takes over those of the cell it
    replaces, scattering exchanges packets for their successors.

  `Beside` and `OwnPart` in `StoreProofs` are the frame argument: a step of one
  thread that touches only cells no other thread holds or has cloned leaves the other
  threads' parts of the invariant alone, so that each action is looked at for its own
  thread only. `Trails` and `Rests`, which the two properties speak of, are recursive
  functions; they are taken as fixed points of their equations, which `P` shows to be
  what they should be, and that a way ends at all is `WayEnds`, a pigeonhole over the
  cells passed.
- `StoreProofs!RefinementCorrect`: `Spec => ImplementsEntangledIslands`.
  Every step of the nodes has one of seven shapes (`ListsStep`): it is a stutter, or it
  makes, joins, scatters, detects, measures or claims, and each is then one action
  of `EntangledIslands`. Reallocation, redirection, locking, retirement and waiting are
  stutters. Besides `StoreInv` this needs `RecordsCorrect`, `Spec => []RecordInv`: no
  packet is listed by two cells, and whatever a cell lists was made and its snowflake
  is not given out again. The latter is not obvious, since a result lists packets that
  have long claimed their outcomes and no longer exist until the last one has.
- `EntangledIslands!PacketsOnce`: the abstract store keeps islands disjoint and not
  empty, and outcomes apart from them, so no photon is measured twice.
  `StoreProofs!StorePacketsOnce` carries it over the refinement:
  `OpticalNodes` keeps it too.

### The time tags

- `TimeTagProofs!TypeCorrect`: `Spec => []TypeOK`, inductive as it stands.
- `TimeTagProofs!SortedWithoutDarkCounts`: with `DarkCounts = FALSE` and
  `EarlyBy = 0`, `Spec => StreamSorted`. `SortedInv` follows a tag back to its
  claimer: `Horizon(c)` is a time before which claimer `c` makes no further tag (the
  start of its batch, or the last click if that is later, thanks to the dead-time
  test); every frontier, present or queued, is at most the horizon; tags under way
  are not before the frontiers they arrive behind; what is emitted is not after any
  of these. Neither assumption can be dropped: `DarkUnsorted` shows it for dark
  counts, and TLC finds an unsorted stream as well with `EarlyBy > 0`.
- `TimeTagProofs!DeadTimeWithoutDarkCounts`: with `DarkCounts = FALSE`,
  `Spec => []DeadTimeKept`. `DeadTimeInv` adds that `lastClick` is never behind a
  tag already made and that tags stay on their channel.
- `TimeTagProofs!TagsOnceCorrect`: `Spec => []EachTagOnce`, dark counts included.
  Up to the merge thread's output a tag is at one stage (`OnceUntilEmitted`); from
  there `OnceInStream` says that the `Vec`s in channel, builders, current file and
  finished files, taken as one sequence, share no tag, and that together they are what
  was emitted. `TagsOnceInv` adds that the batches inside one queue share no tag
  (`BatchesApart`: the first is absorbed while the others stay), that the numbers of the
  tags have no gap (`Numbered`), and that a writer that is done holds nothing
  (`WriterDrained`). A turn of the writer, with or without a full chunk and a rotation,
  leaves `Stream` as it is, moving the borders of its parts only (`Regrouped`).

### The node runner

- `NodeRunnerProofs!RunnerTypeCorrect`: `Spec => []TypeOK`. `TypeInv` adds what main
  really sends: ports the source has and the settings of the experiment; who may be
  joined when; and that each node is at a place of its own kind.
- `NodeRunnerProofs!FirstTagsCorrect`: `Spec => []FirstTagsSeen`. The tagger goes from
  `main` through the detector's control channel and heap and its channel to the
  claimer, the batches from the source through another channel. `BeforeStart(n, e)`
  says of an event that it is still in the script or the control channel ahead of
  every `Start` of the node, or already in the heap of a node that waits;
  `TaggerInv` carries it from there to the claimer.
- `NodeRunnerProofs!SinksCorrect` and `SettingsCorrect`: `Spec => []SinksConnected` and
  `Spec => SettingsOnTime`, both from `SourceInv`: the shape of the script and of the
  source's control channel (`Start` comes last, after it only `Stop`), every setting
  and connection ahead of `Start`, and the order of the heap: what is served is not later
  than what is left, and nothing that is due is left when a batch is made.
- `NodeRunnerProofs!CountedOnce`: `Spec => []NothingCountedTwice`. The property counts what
  the monitor will still read (`StillToRead`: what it has not loaded yet, then what it has
  already reset) and is inductive with `TypeInv`: a load moves a term of the sum into the
  monitor's own, a reset exchanges a term that was read for one that is 0, and a detector
  adds to a term no more than to `consumed`. `SumOfOneChange` says what a changed term
  does to the sum. The sum is a recursive function; that it exists and what holds for
  all numbers is proved from a least counterexample (`LeastOfNumbers`).

### The ports

Besides `PortsAssumption` these theorems assume what a width is (`Widths`: `SigmaOf`
gives natural numbers), and the one about overlaps that all pulses have one width
(`Uniform`); with several, the loop over the ports is not enough (see above), and
`SetWaveProfile` is not scheduled by `main.rs`.

- `NodePortsProofs!PortsTypeCorrect`: `Spec => []TypeOK`. `TypeInv` adds that the places
  of the two getters are their own, that what a thread may take fits into its batch, and
  that `outbox` leads to the inputs of the topology.
- `NodePortsProofs!SinkOrderKept`: `Spec => SinkInOrder`, and
  `NodePortsProofs!ClustersKept`: with `Uniform`, `Spec => ClusterKept`. Both are from
  `OrderInvariant`, `Spec => [](TypeInv /\ InOrder)`. What the threads hold of the photons
  at any moment is one sequence cut into pieces, and `InOrder` says so: there are `src`,
  all packets of the source so far, and for each input `base`, how many of them have gone
  through it, and `cuts`, the places of `src` where the batches still to be received
  begin, such that batch, port, channel and outstanding send of the input are the
  successive pieces (`Line`). The delay line makes from the line of its input that of the
  beam splitter's right one, every time later by the delay (`Shifted`). `Announces` says
  of the end of each period, and of the clock of a port, what the code relies on: no
  packet behind it lies before it, and, if all widths are the same, none reaches back
  before it but those that `Unannounced` excepts. `DualPhase` says what each loop of the
  beam splitter has established of its two batches and the packets behind them, and
  `Passage` relates what is scattered to what is still to come: its packets are the first
  ones of `src`, none later than what follows, and none of a side overlaps what the other
  side has still to pass, up to the same exception.
- `NodePortsProofs!OperatorsCorrect`: with `Uniform`, `Spec => []OperatorsExact`. The
  property looks at the batches as they were scattered, so that what is shown is about the
  operator `DualOperators` on any two sorted sequences. The visits of pass 3 are a linear
  order over both ports (`VisitOrder`), the packets visited before a packet are an initial
  segment of the other port (`InitialSegment`), and with one width the partners the inner
  loop finds until its early break are exactly the later visited ones that overlap
  (`PartnersAre`); so each overlapping pair is made once, by the packet visited first
  (`InVisitOrder`, `PairsCounted`). `WatermarkIs` says that the watermark reaches a packet
  exactly if a partner was visited before it, from which the univariate operators follow
  (`LoneAre`).

### The collapser

All from one inductive invariant, `CollapserProofs!Invariant`, for any number of
operators of any kinds in any order; `IslandAssumption` is used throughout, and
`ForwardAssumption` by the last theorem only.

- `TypeCorrect`, `GroupsCorrect`: `Spec => []TypeOK`, `Spec => []GroupsAreComponents`. The
  properties speak of `Resolve`, a walk over moved cells, of `Absorbed` and of
  `Components`, all recursive functions. `Struct` says what makes them
  tractable: there are a root `R[h]` and a number `D[h]` for every cell, such that a moved cell
  leads to one with the same root and a smaller number (`RootedIn`), whence `Resolve` is `R`
  (`ResolveIs`, a pigeonhole over the chain of cells: a walk of `Len(cells)` steps is long
  enough); a mode with a consumer is a source of the cell it resolves to and of no
  other (`LedTo`, `LedFrom`); a cell's entries are those of registered operators, each
  source once (`Fit`); and all registered sources have a consumer (`Known`). That a
  cell is moved only if the roots differ (`same_cell`) is what keeps `D` descending.
  `Grouped` says that the sets of sources of the groups are the
  components so far: each operator merges on both sides the same sets (`GroupsNext`).
- `OutcomesCorrect`: `Spec => []OneOutcomeEach`. `Flow` adds the set `Q` of modes a photon,
  or none, has been in and left: no mode on the stack is in `Q` or there twice; a group
  keeps a photon for exactly those of its sources that are in `Q` (`Held`); a mode
  has been reached exactly if its source or the cell it comes out of has
  sent it, a cell having done so when all its sources are in `Q` (`Come`); and the outcomes
  are those of the detected modes in `Q` (`Answers`). `FlowMove` is one step of this for
  all elements: as a mode comes out of one place, nothing reaches a mode twice.
- `PhotonsCorrect`: `Spec => []PhotonsConserved`. A group that fires has kept its photons
  until then, each of which comes out on one side (`PhotonsExiting`), while the last one
  to come was on the stack (`WaitMore`, `WaitLess`). This needs `Held`, without which a group
  could get a photon twice and lose one.
- `AnswersComplete`: `Spec => []EveryPacketAnswered`. When the stack is empty, `Q` is
  closed under what sources emit and fired cells let out (`Come`), hence has every
  mode that `Forward` reaches, the sources of all detectors among them.

The sums and walks are proved from recursive functions that are built explicitly
(`Iterates`) and from the least counterexample (`UpTo`), as in `NodeRunnerProofs`.

### Snowflakes

- `UtilityProofs!SnowflakesFresh`: `Spec => []ReuseIsFar`, for any set of threads.
  The inductive invariant ties ids and counters to the histories: a generator's id is
  the number of ids handed out before it, modulo 256, its counter the number of its
  draws, modulo 2^32, and no two generators were born at once. Two equal numbers then
  have equal ids and equal low 24 bits, so that their births differ by a multiple of
  256 or their draws by one of 2^24.

### The open-address set

`UtilityProofs`, for any number of keys, any first size and any bound of growth
(`TableAssumption`: at least two slots and fewer slots than keys, as in the code).

- `LookupsExact`: `Spec => []LookupExact`, and `KeysChangeOneByOne`: `Spec =>
  OneKeyAtATime`. The inductive invariant is `SetInv`: for some number of slots the
  table is `Good`, that is every key is where probing for it ends (`Ends`), `len` is
  the number of keys, and at most three quarters of the slots are taken. Probing then
  ends at a slot (`ProbeEnds`) and only at one (`OneEnd`), so that no key is twice in
  the table and a lookup decides membership. `OneKeyAtATime` ties each change to the
  operation: `insert(x)` adds `x`, `remove(x)` removes `x`, and neither touches another
  key. The load is part of the invariant because
  without a free slot neither probing nor the shift would end.
- Growth: `Rehashing` says that the keys of the first `m` slots are in the new table
  and that it is good; inserting the next one keeps it (`RehashStep`, `PutKey`).
- Backward shift: a table with a hole is not good, so `Holed` says what is kept while
  the loop runs: slots not looked at yet are as before, no key but those still ahead
  has the hole on its way, and the keys are the old ones without the removed one.
  `HoledMoves` and `HoledStays` are the two cases of `PassesHole`; that no way from
  beyond the end of the cluster leads over the hole is the argument about the circle
  in `PassesFree`, and closes the loop in `HoledLast`. That the run ends at a free slot
  is again the load (`RunIs`).

The loops of the code are recursive functions of the model; that such a function
exists is proved where it is used (`Iterates`, `RehashedIs`, `ShiftedIs`).

### Model-checked only

- Liveness (`EverythingClaimed`, `ClaimersNotBlocked`, `SourceGoesOn`,
  `SettingsServed`, `StopEnds`), which the prover does not reach.

## Not modelled

- Matrices, operators and probabilities of the collapse, and the distribution of clicks:
  floating-point numbers and statistics. Their outcomes are choices of the model.
- The layout of Parquet files: an external library.
- `SetPumpFrequency`, `SetSuccessProbability`, `SetDelay` and `SyncTo`: events that
  nothing in the repository schedules. The first two change what `NodePorts` leaves
  open; the arithmetic of `SyncTo` is floating point.
- The operator tables of the context, written before the start and only read later; the
  times in the monitor's report.
- `entanglement_swap`: eleven threads on one store are beyond exhaustive checking.
  `OpticalNodes` takes any set of sources, and its theorems cover the topology.
- The packing of the registry, 32 states in each word; the model has a function.
- Reference counts beyond their eight bits: clusters of 256 packets are out of reach.

## State of the plan

All modules of the plan are written. Every safety property that a passing run checks is
also a theorem. What would come next: the custom events of the source that `main.rs`
does not schedule; and `NodePorts` with packets of several widths, once the code says
what it wants of them.
