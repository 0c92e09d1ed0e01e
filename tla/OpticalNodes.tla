---------------------------- MODULE OpticalNodes ----------------------------
(***************************************************************************)
(* The threads of a simulation and the wavepackets they pass on: EPPS      *)
(* sources (nodes/epps.rs), single-port nodes (nodes/single_port.rs),      *)
(* dual-port beam splitters (nodes/dual_port.rs), detectors and their      *)
(* claimer threads (nodes/spd.rs), all working on one InteractionStore.    *)
(*                                                                         *)
(* Simulation time is abstracted: a node takes into a batch any of the     *)
(* packets queued at its ports, but no later one before an earlier one (of *)
(* two ports: dual_port.rs, the loop over get_overlapping_or_before), and  *)
(* any packets of the two ports of a beam splitter may overlap.  With      *)
(* Before(p, q) == FALSE every choice of times is covered.                 *)
(***************************************************************************)
EXTENDS InteractionStore, Sequences

CONSTANTS
    Sources, Singles, Duals, Detectors, Claimers,
    Route,          \* exit <<thread, label>> -> entry [node, port] it is connected to
    ClaimerOf,      \* detector -> its claimer thread
    MaxPairs,       \* bound: pairs generated in a behaviour
    MaxBatch,       \* bound: pairs of one EPPS batch (batch.max_size)
    MinBatch(_),    \* bound: fewest packets a node takes when it leaves some queued
    Before(_, _)    \* which of two packets has the earlier time, if it is known

Nodes     == Sources \cup Singles \cup Duals \cup Detectors
Getters   == Singles \cup Duals \cup Detectors
OutLabels == {"signal", "idler", "through", "left", "right"}
Ports     == {"rx0", "rx1"}

ASSUME RoleAssumption ==
    /\ Threads = Nodes \cup Claimers
    /\ Singles \cap Duals = {} /\ (Singles \cup Duals) \cap Detectors = {}
    /\ Sources \cap (Getters \cup Claimers) = {} /\ Claimers \cap Getters = {}
    /\ MaxPairs \in Nat \ {0}
    /\ MaxBatch \in Nat \ {0}
    /\ \A t \in Getters : MinBatch(t) \in Nat
    /\ ClaimerOf \in [Detectors -> Claimers]
    /\ \A exit \in DOMAIN Route : Route[exit] \in [node : Getters, port : Ports]

\* A snowflake names the history of its packet: the number of the pair, then
\* one label for the side and one for each optical element passed.  It is
\* fresh; the code's snowflakes are so as long as their 32 bits do not repeat
\* among live packets (Snowflakes).
Packets == [pair : Int, path : Seq(OutLabels)]

NewPacket(pair, side)  == [pair |-> pair, path |-> <<side>>]
SetSnowflake(p, label) == [p EXCEPT !.path = Append(@, label)]
ParentOf(p)            == [p EXCEPT !.path = SubSeq(@, 1, Len(@) - 1)]

VARIABLES
    pc,         \* where each thread is in process_batch or in the claimer loop
    at,         \* where each wavepacket is: [node, box, port]
    generated,  \* number of pairs generated so far
    clones      \* island clones a detector took before it dropped its slice

nodeVars == <<pc, at, generated, clones>>
vars     == <<storeVars, nodeVars>>

\* "inbox": in a channel or already in the RxPort; "batch": in the batch being
\* processed; "detected": in the batch, SPD operator pushed; "out": sink batch.
Boxes == {"inbox", "batch", "detected", "out"}
Place(node, box, port) == [node |-> node, box |-> box, port |-> port]
PacketsAt(t, box)      == {p \in DOMAIN at : at[p].node = t /\ at[p].box = box}
BatchOf(t)             == PacketsAt(t, "batch")

Locations == {"idle", "wait", "populate", "populated", "work", "worked", "relock",
              "publish", "published", "forward"}

Goto(t, from, to) == pc[t] = from /\ pc' = [pc EXCEPT ![t] = to]

\* port.send_batch on every exit port, after the slice is dropped.  The
\* receiver is free to take what one port sent before what another did.
SendBatches(t) ==
    LET sent == PacketsAt(t, "out")
        entry(p) == Route[<<t, at[p].port>>]
    IN  /\ \A p \in sent : <<t, at[p].port>> \in DOMAIN Route
        /\ at' = [p \in DOMAIN at |->
                    IF p \in sent THEN Place(entry(p).node, "inbox", entry(p).port) ELSE at[p]]

Init ==
    /\ StoreInit
    /\ pc = [t \in Threads |-> "idle"]
    /\ at = [p \in {} |-> Place(NoThread, "inbox", "rx0")]
    /\ generated = 0
    /\ clones = [t \in Threads |-> [h \in {} |-> NoCell]]

-----------------------------------------------------------------------------
(* EPPSWorker::process_batch *)

Generate(t) ==
    /\ t \in Sources
    /\ Goto(t, "idle", "populate")
    /\ \E n \in 1 .. MaxBatch :
         /\ generated + n <= MaxPairs
         /\ CreateStates(t, n)
         /\ generated' = generated + n
    /\ UNCHANGED <<at, clones>>

\* Pairs are numbered in the order of their handles.
PairOf(h) == generated - ((end - h) % IndexRange)

Sides == {"signal", "idler"}

Populate(t) ==
    LET hs    == slice[t].indices
        pairs == [h \in hs |-> {NewPacket(PairOf(h), side) : side \in Sides}]
        made  == UNION {pairs[h] : h \in hs}
        new(x) == Island(UNION {pairs[h] : h \in {g \in hs : g % slice[t].buff = x}}, 0)
    IN  /\ t \in Sources
        /\ Goto(t, "populate", "populated")
        /\ SetCells(t, hs, new)
        /\ handle' = [p \in DOMAIN handle \cup made |->
                        IF p \in made THEN Plus(FirstIndex, p.pair) ELSE handle[p]]
        /\ at' = [p \in DOMAIN at \cup made |->
                    IF p \in made THEN Place(t, "out", p.path[1]) ELSE at[p]]
        /\ UNCHANGED <<generated, clones>>

SendPairs(t) ==
    /\ t \in Sources
    /\ Goto(t, "populated", "idle")
    /\ DropSlice(t)
    /\ SendBatches(t)
    /\ UNCHANGED <<generated, clones>>

-----------------------------------------------------------------------------
(* get_batch and get_states, at the head of process_batch of every node    *)
(* with an input.                                                          *)

GetBatch(t) ==
    /\ t \in Getters
    /\ Goto(t, "idle", "wait")
    /\ \E taken \in (SUBSET PacketsAt(t, "inbox")) \ {{}} :
         /\ taken = PacketsAt(t, "inbox") \/ Cardinality(taken) >= MinBatch(t)
         /\ \A p \in taken, q \in PacketsAt(t, "inbox") \ taken :
               ~ Before(q, p)
         /\ at' = [p \in DOMAIN at |->
                     IF p \in taken THEN [at[p] EXCEPT !.box = "batch"] ELSE at[p]]
    /\ UNCHANGED <<storeVars, generated, clones>>

Enter(t) ==
    /\ pc[t] = "wait"
    /\ Acquire(t)
    /\ UNCHANGED nodeVars

Follow(t) ==
    /\ pc[t] = "wait"
    /\ \E p \in BatchOf(t) : FollowMoved(t, p)
    /\ UNCHANGED nodeVars

WaitLocked(t) ==
    /\ pc[t] = "wait"
    /\ SleepLocked(t, {handle[p] : p \in BatchOf(t)})
    /\ UNCHANGED nodeVars

LockBatch(t) ==
    /\ t \in Getters
    /\ Goto(t, "wait", "work")
    /\ GetStates(t, BatchOf(t))
    /\ UNCHANGED <<at, generated, clones>>

-----------------------------------------------------------------------------
(* Every packet of the batch leaves its island and its sink packets enter  *)
(* it, at the same handle (single-port: one sink; dual-port: left, right). *)

Scatter(t, labels) ==
    LET batch   == BatchOf(t)
        c       == slice[t].buff
        here(x) == {p \in batch : handle[p] % c = x}
        sinks(packets) == {SetSnowflake(p, l) : p \in packets, l \in labels}
        new(x)  == Scattered(bufs[c][x], here(x), sinks(here(x)))
        label(q) == q.path[Len(q.path)]
    IN  /\ \A p \in batch :
              /\ IsIsland(SliceCell(t, handle[p]))
              /\ p \in SliceCell(t, handle[p]).active
        /\ SetCells(t, {handle[p] : p \in batch}, new)
        /\ handle' = [q \in (DOMAIN handle \ batch) \cup sinks(batch) |->
                        IF q \in sinks(batch) THEN handle[ParentOf(q)] ELSE handle[q]]
        /\ at' = [q \in (DOMAIN at \ batch) \cup sinks(batch) |->
                    IF q \in sinks(batch) THEN Place(t, "out", label(q)) ELSE at[q]]
        /\ UNCHANGED <<generated, clones>>

\* SinglePortWorker::process_batch
Transmit(t) ==
    /\ t \in Singles
    /\ Goto(t, "work", "worked")
    /\ Scatter(t, {"through"})

\* DualPortWorker::process_batch, first pass: islands of overlapping packets
\* of the two ports are merged, the late packet's into the early one's; a
\* packet whose island was merged away earlier in the pass is redirected.
Correct(t) ==
    /\ t \in Duals
    /\ pc[t] = "work"
    /\ \E p \in BatchOf(t) : CorrectHandle(t, p)
    /\ UNCHANGED nodeVars

Merge(t) ==
    /\ t \in Duals
    /\ pc[t] = "work"
    /\ \E early, late \in BatchOf(t) :
         /\ at[early].port # at[late].port
         /\ ~ Before(late, early)
         /\ handle[early] # handle[late]
         /\ MergeIslands(t, handle[late], handle[early])
    /\ UNCHANGED nodeVars

\* Second pass, once it has redirected the packets the first pass left: the
\* scattering of one packet and the redirection of the next commute.
Split(t) ==
    /\ t \in Duals
    /\ Goto(t, "work", "worked")
    /\ Scatter(t, {"left", "right"})

SendSinks(t) ==
    /\ t \in Singles \cup Duals
    /\ Goto(t, "worked", "idle")
    /\ DropSlice(t)
    /\ SendBatches(t)
    /\ UNCHANGED <<generated, clones>>

-----------------------------------------------------------------------------
(* SPDWorker::process_batch *)

\* The packets stay active in their islands, which count them as terminated;
\* of every island that is now complete a clone is taken.
Terminate(t) ==
    LET batch   == BatchOf(t)
        c       == slice[t].buff
        here(x) == {p \in batch : handle[p] % c = x}
        new(x)  == Island(bufs[c][x].active, bufs[c][x].done + Cardinality(here(x)))
        ready   == {h \in slice[t].indices : IsCollapseReady(new(h % c))}
    IN  /\ t \in Detectors
        /\ Goto(t, "work", "worked")
        /\ \A h \in slice[t].indices : IsIsland(SliceCell(t, h))
        /\ \A p \in batch : p \in SliceCell(t, handle[p]).active
        /\ SetCells(t, {handle[p] : p \in batch}, new)
        /\ clones' = [clones EXCEPT ![t] = [h \in ready |-> new(h % c)]]
        /\ at' = [p \in DOMAIN at |->
                    IF p \in batch THEN [at[p] EXCEPT !.box = "detected"] ELSE at[p]]
        /\ UNCHANGED <<handle, generated>>

DropDetected(t) ==
    /\ t \in Detectors
    /\ Goto(t, "worked", "relock")
    /\ DropSlice(t)
    /\ UNCHANGED <<at, generated, clones>>

Relock(t) ==
    /\ t \in Detectors
    /\ Goto(t, "relock", "publish")
    /\ GetStatesFromRawHandles(t, DOMAIN clones[t])
    /\ UNCHANGED <<at, generated, clones>>

\* collapse() gives every detected packet of the island one outcome.
Collapse(packets) == CollapseResult(packets, Cardinality(packets))

\* collapse() of each clone, written over its cell.
Publish(t) ==
    LET c        == slice[t].buff
        packets(x) == UNION {clones[t][h].active : h \in {g \in DOMAIN clones[t] : g % c = x}}
        new(x)   == Collapse(packets(x))
    IN  /\ t \in Detectors
        /\ Goto(t, "publish", "published")
        /\ SetCells(t, DOMAIN clones[t], new)
        /\ clones' = [clones EXCEPT ![t] = [h \in {} |-> NoCell]]
        /\ UNCHANGED <<handle, at, generated>>

DropPublished(t) ==
    /\ t \in Detectors
    /\ Goto(t, "published", "forward")
    /\ DropSlice(t)
    /\ UNCHANGED <<at, generated, clones>>

\* channel.send(batch): sync_channel(1) to the claimer thread.
Forward(t) ==
    /\ t \in Detectors
    /\ Goto(t, "forward", "idle")
    /\ PacketsAt(ClaimerOf[t], "inbox") = {}
    /\ at' = [p \in DOMAIN at |->
                IF p \in PacketsAt(t, "detected")
                THEN Place(ClaimerOf[t], "inbox", "rx0") ELSE at[p]]
    /\ UNCHANGED <<storeVars, generated, clones>>

-----------------------------------------------------------------------------
(* The claimer thread of a detector *)

Receive(t) ==
    /\ t \in Claimers
    /\ Goto(t, "idle", "wait")
    /\ PacketsAt(t, "inbox") # {}
    /\ at' = [p \in DOMAIN at |->
                IF p \in PacketsAt(t, "inbox") THEN Place(t, "batch", "rx0") ELSE at[p]]
    /\ UNCHANGED <<storeVars, generated, clones>>

WaitUncollapsed(t) ==
    /\ t \in Claimers
    /\ pc[t] = "wait"
    /\ SleepUncollapsed(t, BatchOf(t))
    /\ UNCHANGED nodeVars

Claim(t) ==
    /\ t \in Claimers
    /\ Goto(t, "wait", "idle")
    /\ ClaimCollapsed(t, BatchOf(t))
    /\ at' = [p \in DOMAIN at \ BatchOf(t) |-> at[p]]
    /\ UNCHANGED <<generated, clones>>

-----------------------------------------------------------------------------
Step(t) ==
    \/ Generate(t) \/ Populate(t) \/ SendPairs(t)
    \/ GetBatch(t) \/ Enter(t) \/ Follow(t) \/ WaitLocked(t) \/ LockBatch(t)
    \/ Transmit(t) \/ Correct(t) \/ Merge(t) \/ Split(t) \/ SendSinks(t)
    \/ Terminate(t) \/ DropDetected(t) \/ Relock(t)
    \/ Publish(t) \/ DropPublished(t) \/ Forward(t)
    \/ Receive(t) \/ WaitUncollapsed(t) \/ Claim(t)

\* The model ends when the bounded number of pairs has been generated and
\* every packet has been claimed; the program would go on.
Finished ==
    /\ generated = MaxPairs
    /\ DOMAIN at = {}
    /\ \A t \in Threads : pc[t] = "idle"
    /\ UNCHANGED vars

\* A critical section is not interleaved with anything.
Next == Finished \/ \E t \in Threads : mutex \in {NoThread, t} /\ Step(t)

Spec == Init /\ [][Next]_vars

\* The operating system schedules every thread, and the mutex and the
\* condvar let every waiter in eventually.
FairSpec == Spec /\ \A t \in Threads : WF_vars(mutex \in {NoThread, t} /\ Step(t))

-----------------------------------------------------------------------------
(* Properties *)

RingTypes ==
    /\ start \in Handles /\ end \in Handles
    /\ cap \in Capacities
    /\ reg \in [0 .. cap - 1 -> CellStates]
    /\ mutex \in Threads \cup {NoThread}
    /\ asleep \subseteq Threads

BufferTypes ==
    /\ cap \in DOMAIN bufs /\ DOMAIN bufs \subseteq Capacities
    /\ \A c \in DOMAIN bufs : bufs[c] \in [0 .. c - 1 -> InteractionCell(Packets)]

SliceTypes ==
    slice \in [Threads -> [held : BOOLEAN, buff : Capacities,
                          indices : SUBSET Handles, moved : SUBSET Handles]]

PacketTypes ==
    /\ handle \in [DOMAIN at -> Handles]
    /\ DOMAIN at \subseteq Packets
    /\ \A p \in DOMAIN at : at[p] \in [node : Threads, box : Boxes, port : Ports \cup OutLabels]

NodeTypes ==
    /\ pc \in [Threads -> Locations]
    /\ generated \in 0 .. MaxPairs
    /\ DOMAIN clones = Threads

\* Every variable keeps its type, the variables of the store included.
TypeOK == RingTypes /\ BufferTypes /\ SliceTypes /\ PacketTypes /\ NodeTypes

Holders == {t \in Threads : slice[t].held}

\* A cell is in the slice of at most one thread, the registry says Locked for
\* exactly the cells in a slice, and no cell in a slice leaves the ring or
\* shares a slot with another: two threads never hold &mut to one cell.
ExclusiveCells ==
    /\ WindowLen <= cap
    /\ \A t \in Holders : slice[t].indices \cup slice[t].moved \subseteq Window
    /\ \A t, u \in Holders : t # u => slice[t].indices \cap slice[u].indices = {}
    /\ \A h \in Window :
          State(h) = "Locked" <=> \E t \in Holders : h \in slice[t].indices

\* The cell of a handle, in whichever buffer it currently lives: its holder's
\* if a slice contains it, the store's otherwise.
CellNow(h) ==
    IF \E t \in Holders : h \in slice[t].indices
    THEN SliceCell(CHOOSE t \in Holders : h \in slice[t].indices, h)
    ELSE Cell(h)

CellsNow == [h \in Handles |-> CellNow(h)]

\* The handles a packet with state_handle h is redirected through, and the
\* last of them.
Trails(cells) ==
    LET trail[h \in Handles] ==
          IF IsTombstone(cells[h]) THEN {h} \cup trail[cells[h].dest] ELSE {h}
    IN  [p \in DOMAIN handle |-> trail[handle[p]]]
Rests(cells) ==
    LET rest[h \in Handles] ==
          IF IsTombstone(cells[h]) THEN rest[cells[h].dest] ELSE h
    IN  [p \in DOMAIN handle |-> rest[handle[p]]]
Detected      == {p \in DOMAIN at : at[p].box = "detected" \/ at[p].node \in Claimers}

\* Whatever merges, reallocations and retirements happened since it was last
\* looked up, every wavepacket is led by its handle, through cells still in
\* the ring and not retired, to the one island or result that lists it; and
\* an island lists exactly the packets led to it and counts exactly those of
\* them that were detected.
PacketsResolve ==
    LET cells  == CellsNow
        trails == Trails(cells)
        rests  == Rests(cells)
        seen   == Detected
    IN  /\ \A p \in DOMAIN handle :
             LET cell == cells[rests[p]]
             IN  /\ \A h \in trails[p] : InWindow(h) /\ State(h) # "Retired"
                 /\ \/ IsIsland(cell) /\ p \in cell.active
                    \/ IsResult(cell) /\ p \in cell.packets \cap seen
        /\ \A h \in Window :
             State(h) # "Retired" /\ IsIsland(cells[h]) =>
               /\ \A p \in cells[h].active : p \in DOMAIN handle /\ rests[p] = h
               /\ cells[h].done = Cardinality(cells[h].active \cap seen)

\* A tombstone counts the packets still to be redirected by it and a result
\* the packets still to be claimed from it: neither is retired while one is
\* on its way, and none keeps the ring from advancing once all are gone.
RefCountsExact ==
    LET cells  == CellsNow
        trails == Trails(cells)
        passing(h) == {p \in DOMAIN handle : h \in trails[p]}
    IN  \A h \in Window :
          /\ IsTombstone(cells[h]) \/ IsResult(cells[h]) =>
               cells[h].ref = Cardinality(passing(h))
          /\ State(h) \in {"Free", "Moved"} => passing(h) # {}

\* process_batch of a detector computes the result on a clone it took before
\* it dropped its slice and overwrites the cell after locking it again
\* (spd.rs:193-227): nothing happened to the cell in between, so
\* that the thread does not even have to wait for the lock.
CloneCurrent ==
    \A t \in Detectors :
      pc[t] \in {"worked", "relock", "publish"} =>
        \A h \in DOMAIN clones[t] :
          /\ InWindow(h)
          /\ CellNow(h) = clones[t][h]
          /\ pc[t] = "relock" => State(h) = "Free"

\* Every generated pair is eventually measured and claimed: no wakeup is lost,
\* no packet is stranded, and detectors and claimers do not wait in a circle.
EverythingClaimed == <>[](generated = MaxPairs /\ DOMAIN at = {})

-----------------------------------------------------------------------------
(* The store implements its abstract specification.                        *)

LiveCells == {CellNow(h) : h \in {g \in Window : State(g) # "Retired"}}

Abstract == INSTANCE EntangledIslands WITH
    Parent   <- ParentOf,
    islands  <- {cell.active : cell \in {c \in LiveCells : IsIsland(c)}},
    detected <- Detected,
    outcomes <- UNION {cell.packets \cap DOMAIN handle : cell \in {c \in LiveCells : IsResult(c)}}

\* Every step of every thread is, seen from the nodes, a step on disjoint
\* islands or none: no reallocation, redirection or retirement loses or
\* duplicates a packet, no island is measured early, twice or in part.
ImplementsEntangledIslands == Abstract!Spec

=============================================================================
