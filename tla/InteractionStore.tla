-------------------------- MODULE InteractionStore --------------------------
(***************************************************************************)
(* The shared store of entangled states, concurrency/interaction_store.rs: *)
(* a ring of cells addressed by wrapping u32 handles, a registry that says *)
(* which cells are free, locked, moved or retired, and a mutex/condvar     *)
(* through which threads reserve slices of cells.                          *)
(*                                                                         *)
(* The operators below are the store's operations as steps over the store  *)
(* variables.  OpticalNodes conjoins them with the program counter of the  *)
(* thread that calls them.  A critical section without a loop over         *)
(* tombstones is one step; get_states and claim_collapsed_packets hold     *)
(* `mutex` over several steps, one for each tombstone they follow, during  *)
(* which OpticalNodes lets no other thread move, so that the section is    *)
(* atomic and the loop needs no recursion.                                 *)
(***************************************************************************)
EXTENDS Integers, FiniteSets

CONSTANTS
    Threads,        \* node threads and claimer threads
    NoThread,       \* "nobody holds the mutex"
    IndexRange,     \* handles are 0 .. IndexRange-1 and wrap (2^32 in the code)
    FirstIndex,     \* the handle the ring starts at (0 in the code)
    Capacities,     \* the powers of two a buffer may have
    InitCapacity    \* the capacity of the first buffer (512 in the code)

ASSUME ThreadAssumption == NoThread \notin Threads

ASSUME CapacityAssumption ==
    /\ IndexRange \in Nat \ {0}
    /\ FirstIndex \in 0 .. IndexRange - 1
    /\ Capacities \subseteq 1 .. IndexRange - 1
    /\ \A c \in Capacities : IndexRange % c = 0
    /\ InitCapacity \in Capacities

VARIABLES
    start,      \* registry.start_index
    end,        \* registry.end_index
    cap,        \* capacity of data.buff and of the registry
    reg,        \* registry: slot -> state of the cell
    bufs,       \* the StatecellBuffers an Arc still reaches, by capacity
    slice,      \* the InteractionStoreSlice each thread owns
    mutex,      \* the thread inside the mutex, or NoThread
    asleep,     \* the threads waiting on the condvar
    handle      \* state_handle of every wavepacket that exists

storeVars == <<start, end, cap, reg, bufs, slice, mutex, asleep, handle>>

Handles    == 0 .. IndexRange - 1
CellStates == {"Free", "Locked", "Moved", "Retired"}

-----------------------------------------------------------------------------
(* Cells.  Operators and mode indices are abstracted: an island is the set *)
(* of its active packets and the number of those already terminated.       *)

NoCell == [kind |-> "none"]     \* InteractionCell::None, or uninitialised

Island(active, done)     == [kind |-> "island", active |-> active, done |-> done]
Tombstone(ref, dest)     == [kind |-> "tombstone", ref |-> ref, dest |-> dest]
CollapseResult(packets, ref) == [kind |-> "result", packets |-> packets, ref |-> ref]

InteractionCell(packets) ==
    {NoCell}
      \cup [kind : {"island"}, active : SUBSET packets, done : Nat]
      \cup [kind : {"tombstone"}, ref : Int, dest : Handles]
      \cup [kind : {"result"}, packets : SUBSET packets, ref : Int]

IsIsland(cell)       == cell.kind = "island"
IsTombstone(cell)    == cell.kind = "tombstone"
IsResult(cell)       == cell.kind = "result"

PartlyDetected(cell)  == IsIsland(cell) /\ cell.done > 0         \* mutant

IsCollapseReady(cell) == IsIsland(cell) /\ Cardinality(cell.active) = cell.done

\* extract_wavepacket of the packets gone, register_wavepacket of their sinks.
NotExtracted(island, gone, sinks) == Island(island.active \cup sinks, island.done)   \* mutant

Scattered(island, gone, sinks) == Island((island.active \ gone) \cup sinks, island.done)

\* The packets that a merged island's tombstone will still have to redirect.
UndetectedCount(island) == Cardinality(island.active) - island.done       \* mutant

RedirectCount(island) == Cardinality(island.active)

NoSlice ==
    [held |-> FALSE, buff |-> InitCapacity, indices |-> {}, moved |-> {}]

Slice(buff, indices) ==
    [held |-> TRUE, buff |-> buff, indices |-> indices, moved |-> {}]

-----------------------------------------------------------------------------
(* Ring arithmetic.  A handle lives in slot handle % capacity of a buffer  *)
(* and of the registry.                                                    *)

PlusUnwrapped(h, n) == h + n                    \* mutant

Plus(h, n)    == (h + n) % IndexRange
WindowLen     == (end - start) % IndexRange
InWindow(h)   == (h - start) % IndexRange < WindowLen
Window        == {h \in Handles : InWindow(h)}

State(h)      == reg[h % cap]           \* registry.get
Cell(h)       == bufs[cap][h % cap]     \* data.buff
SlotsOf(hs)   == {h % cap : h \in hs}

\* The cell a slice reaches: its own Arc to the buffer, which a realloc by
\* another thread leaves behind.
SliceCell(t, h) == bufs[slice[t].buff][h % slice[t].buff]

PutCell(c, h, cell)      == [bufs EXCEPT ![c][h % c] = cell]
PutSliceCell(t, h, cell) == PutCell(slice[t].buff, h, cell)

\* Buffers that some Arc still reaches once the slices are `slices` and the
\* store's buffer has capacity c.
Reachable(slices, c) == {c} \cup {slices[t].buff : t \in {u \in Threads : slices[u].held}}

-----------------------------------------------------------------------------
StoreInit ==
    /\ start = FirstIndex
    /\ end = FirstIndex
    /\ cap = InitCapacity
    /\ reg = [s \in 0 .. InitCapacity - 1 |-> "Free"]
    /\ bufs = [c \in {InitCapacity} |-> [s \in 0 .. c - 1 |-> NoCell]]
    /\ slice = [t \in Threads |-> NoSlice]
    /\ mutex = NoThread
    /\ asleep = {}
    /\ handle = [p \in {} |-> FirstIndex]

-----------------------------------------------------------------------------
(* create_states: grow if needed, append n locked cells, hand them out.    *)

\* next_power_of_two
FitsBest(c, n) == c >= n /\ \A d \in Capacities : d >= n => c <= d

\* The handle at or after `start` that falls in slot s of a ring of c slots.
HandleOfSlot(s, c) == Plus(start, (s - start) % c)

\* StoreData::suggest_realloc and realloc: locked cells stay behind in the
\* old buffer, their owner copies them when it drops its slice.
CapacityFor(n) ==
    IF WindowLen + n <= cap
    THEN {cap}
    ELSE {c \in Capacities : FitsBest(c, WindowLen + n)}

ResizedRegistry(c) ==
    [s \in 0 .. c - 1 |->
        LET h == HandleOfSlot(s, c)
        IN  IF InWindow(h) THEN State(h) ELSE "Free"]

ResizedBuffer(c) ==
    [s \in 0 .. c - 1 |->
        LET h == HandleOfSlot(s, c)
        IN  IF InWindow(h) /\ State(h) # "Locked" THEN Cell(h) ELSE NoCell]

CreateStates(t, n) ==
    /\ mutex = NoThread
    /\ \E c \in CapacityFor(n) :
         LET fresh    == {Plus(end, i) : i \in 0 .. n - 1}
             slots    == {h % c : h \in fresh}
             oldReg   == IF c = cap THEN reg ELSE ResizedRegistry(c)
             oldBuff  == IF c = cap THEN bufs[cap] ELSE ResizedBuffer(c)
             newSlice == [slice EXCEPT ![t] = Slice(c, fresh)]
         IN  /\ cap' = c
             /\ reg' = [s \in 0 .. c - 1 |-> IF s \in slots THEN "Locked" ELSE oldReg[s]]
             /\ slice' = newSlice
             /\ bufs' = [d \in Reachable(newSlice, c) |->
                           IF d = c
                           THEN [s \in 0 .. c - 1 |-> IF s \in slots THEN NoCell ELSE oldBuff[s]]
                           ELSE bufs[d]]
    /\ end' = Plus(end, n)
    /\ UNCHANGED <<start, mutex, asleep, handle>>

-----------------------------------------------------------------------------
(* The wait loop shared by get_states and claim_collapsed_packets.  The    *)
(* closure of wait_while runs under the mutex each time the thread enters  *)
(* or wakes; the tombstones it followed stay followed when it sleeps.      *)

Acquire(t) ==
    /\ mutex = NoThread
    /\ t \notin asleep
    /\ mutex' = t
    /\ UNCHANGED <<start, end, cap, reg, bufs, slice, asleep, handle>>

\* Is the tombstone exhausted by one more redirection?
RetiredEarly(tombstone) == tombstone.ref <= 2   \* mutant

Exhausted(tombstone) == tombstone.ref - 1 = 0

\* One round of `while registry.get(wp.state_handle) == Moved`.
FollowMoved(t, p) ==
    LET h    == handle[p]
        cell == Cell(h)
        last == Exhausted(cell)
    IN  /\ mutex = t
        /\ State(h) = "Moved"
        /\ IsTombstone(cell)
        /\ handle' = [handle EXCEPT ![p] = cell.dest]
        /\ reg' = IF last THEN [reg EXCEPT ![h % cap] = "Retired"] ELSE reg
        /\ bufs' = PutCell(cap, h,
                     IF last THEN NoCell ELSE Tombstone(cell.ref - 1, cell.dest))
        /\ UNCHANGED <<start, end, cap, slice, mutex, asleep>>

\* The closure returned true: release the mutex and wait for a notification.
Sleep(t) ==
    /\ mutex' = NoThread
    /\ asleep' = asleep \cup {t}
    /\ UNCHANGED <<start, end, cap, reg, bufs, slice, handle>>

SleepLocked(t, hs) ==
    /\ mutex = t
    /\ \E h \in hs : State(h) = "Locked"
    /\ Sleep(t)

\* Second pass: lock the cells and release the mutex.
LockCells(t, hs) ==
    /\ reg' = [s \in 0 .. cap - 1 |-> IF s \in SlotsOf(hs) THEN "Locked" ELSE reg[s]]
    /\ slice' = [slice EXCEPT ![t] = Slice(cap, hs)]
    /\ mutex' = NoThread
    /\ UNCHANGED <<start, end, cap, bufs, asleep, handle>>

\* No packet's cell is a tombstone or in somebody's slice.
FollowedOnly(packets) == \A p \in packets : State(handle[p]) # "Moved"       \* mutant

Available(packets) == \A p \in packets : State(handle[p]) \notin {"Moved", "Locked"}

GetStates(t, packets) ==
    /\ mutex = t
    /\ Available(packets)
    /\ LockCells(t, {handle[p] : p \in packets})

\* get_states_from_raw_handles looks only at the lock and follows no
\* tombstone.  It would sleep while a cell is locked; it never has to, see
\* CloneCurrent in OpticalNodes.
GetStatesFromRawHandles(t, hs) ==
    /\ mutex = NoThread
    /\ \A h \in hs : State(h) # "Locked"
    /\ LockCells(t, hs)

\* claim_collapsed_packets: a cell without a result puts the claimer to sleep.
SleepUncollapsed(t, packets) ==
    /\ mutex = t
    /\ Available(packets)
    /\ \E p \in packets : ~ IsResult(Cell(handle[p]))
    /\ Sleep(t)

\* claim_collapsed_packets: every packet takes its outcome out of its cell;
\* the last one out retires the cell.
ClaimCollapsed(t, packets) ==
    LET claims(s)  == {p \in packets : handle[p] % cap = s}
        left(s)    == bufs[cap][s].ref - Cardinality(claims(s))
        emptied    == {s \in 0 .. cap - 1 : claims(s) # {} /\ left(s) = 0}
    IN  /\ mutex = t
        /\ Available(packets)
        /\ \A p \in packets :
              /\ IsResult(Cell(handle[p]))
              /\ p \in Cell(handle[p]).packets
        /\ reg' = [s \in 0 .. cap - 1 |-> IF s \in emptied THEN "Retired" ELSE reg[s]]
        /\ bufs' = [bufs EXCEPT ![cap] =
                      [s \in 0 .. cap - 1 |->
                         CASE s \in emptied    -> NoCell
                           [] claims(s) = {}   -> bufs[cap][s]
                           [] OTHER            -> CollapseResult(bufs[cap][s].packets, left(s))]]
        /\ handle' = [p \in DOMAIN handle \ packets |-> handle[p]]
        /\ mutex' = NoThread
        /\ UNCHANGED <<start, end, cap, slice, asleep>>

-----------------------------------------------------------------------------
(* What a thread does with the cells of its slice, outside the mutex.      *)

\* Writes through get_mut or slice.set: the cells of the handles hs are
\* rewritten, `new` giving the cell of each slot.
SetCells(t, hs, new(_)) ==
    LET c == slice[t].buff
    IN  /\ hs \subseteq slice[t].indices
        /\ bufs' = [bufs EXCEPT ![c] =
                      [x \in 0 .. c - 1 |->
                         IF \E h \in hs : h % c = x THEN new(x) ELSE bufs[c][x]]]
        /\ UNCHANGED <<start, end, cap, reg, slice, mutex, asleep>>

\* One round of the loop of correct_state_handle_if_tombstone.
CorrectUncounted(t, p) ==                       \* mutant
    LET cell == SliceCell(t, handle[p])
    IN  /\ slice[t].held
        /\ IsTombstone(cell)
        /\ slice' = [slice EXCEPT ![t].moved = @ \cup {handle[p]}]
        /\ handle' = [handle EXCEPT ![p] = cell.dest]
        /\ UNCHANGED <<start, end, cap, reg, bufs, mutex, asleep>>

CorrectHandle(t, p) ==
    LET h    == handle[p]
        cell == SliceCell(t, h)
    IN  /\ slice[t].held
        /\ IsTombstone(cell)
        /\ bufs' = PutSliceCell(t, h, Tombstone(cell.ref - 1, cell.dest))
        /\ slice' = [slice EXCEPT ![t].moved = @ \cup {h}]
        /\ handle' = [handle EXCEPT ![p] = cell.dest]
        /\ UNCHANGED <<start, end, cap, reg, mutex, asleep>>

MergeIslands(t, donor, recipient) ==
    LET d == SliceCell(t, donor)
        r == SliceCell(t, recipient)
        c == slice[t].buff
    IN  /\ slice[t].held
        /\ IsIsland(d)
        /\ IsIsland(r)
        /\ bufs' = [bufs EXCEPT
                      ![c][donor % c] = Tombstone(RedirectCount(d), recipient),
                      ![c][recipient % c] = Island(r.active \cup d.active, r.done + d.done)]
        /\ slice' = [slice EXCEPT ![t].moved = @ \cup {donor}]
        /\ UNCHANGED <<start, end, cap, reg, mutex, asleep, handle>>

-----------------------------------------------------------------------------
(* Drop for InteractionStoreSlice: unlock, publish the tombstones, reclaim *)
(* the retired cells at the front, carry the cells over if the buffer was  *)
(* replaced meanwhile, and wake every waiter.                              *)

RetiredPrefix(registry, k) ==
    /\ \A i \in 0 .. k - 1 : registry[Plus(start, i) % cap] = "Retired"
    /\ k = WindowLen \/ registry[Plus(start, k) % cap] # "Retired"

\* The registry after the drop: all indices Free, then the moved ones Moved,
\* or Retired if their tombstone has nobody left to redirect.
Exhausteds(t) == {h \in slice[t].moved : SliceCell(t, h).ref = 0}

ReleasedRegistry(t) ==
    LET retired == SlotsOf(Exhausteds(t))
        moved   == SlotsOf(slice[t].moved) \ retired
        free    == SlotsOf(slice[t].indices) \ (moved \cup retired)
    IN  [x \in 0 .. cap - 1 |->
           CASE x \in retired -> "Retired"
             [] x \in moved   -> "Moved"
             [] x \in free    -> "Free"
             [] OTHER         -> reg[x]]

\* The store's buffer after the drop, if it is not the slice's: the cells of
\* the slice that are still in use are copied over.
NotCarried(t, registry) == bufs[cap]            \* mutant

CarriedBuffer(t, registry) ==
    [x \in 0 .. cap - 1 |->
       LET h == HandleOfSlot(x, cap)
       IN  IF h \in slice[t].indices /\ registry[x] # "Retired"
           THEN SliceCell(t, h)
           ELSE bufs[cap][x]]

ClearedBuffer(t) ==
    LET c == slice[t].buff
    IN  [x \in 0 .. c - 1 |->
           IF \E h \in Exhausteds(t) : h % c = x THEN NoCell ELSE bufs[c][x]]

\* Who still sleeps after cvar.notify_all.
NobodyNotified == asleep                        \* mutant

StillAsleep == {}

DropSlice(t) ==
    LET registry == ReleasedRegistry(t)
        newSlice == [slice EXCEPT ![t] = NoSlice]
    IN  /\ mutex = NoThread
        /\ slice[t].held
        /\ \A h \in slice[t].moved : IsTombstone(SliceCell(t, h))
        /\ reg' = registry
        /\ \E k \in 0 .. WindowLen :
             /\ RetiredPrefix(registry, k)
             /\ start' = Plus(start, k)
        /\ bufs' = [c \in Reachable(newSlice, cap) |->
                      CASE c = slice[t].buff             -> ClearedBuffer(t)
                        [] c = cap /\ c # slice[t].buff  -> CarriedBuffer(t, registry)
                        [] OTHER                         -> bufs[c]]
        /\ slice' = newSlice
        /\ asleep' = StillAsleep
        /\ UNCHANGED <<end, cap, mutex, handle>>
=============================================================================
