------------------------- MODULE OpticalNodesProofs -------------------------
(***************************************************************************)
(* Theorems about OpticalNodes, for any topology, any number of threads    *)
(* and any ring and buffer sizes.                                          *)
(*                                                                         *)
(* The first part is type correctness.  The second is about the ring of    *)
(* cells of InteractionStore: which cells the registry, the buffers and    *)
(* the slices of the threads say are where, what every operation of the    *)
(* store does to a cell seen through its handle, and how wavepackets find  *)
(* their cells in it: the ways of the packets through tombstones to the    *)
(* one cell that lists each, and what redirecting a packet, merging two    *)
(* islands and replacing packets by others do to these ways.               *)
(***************************************************************************)
EXTENDS OpticalNodes, FiniteSetTheorems, TLAPS

-----------------------------------------------------------------------------
(* Slots and handles stay in their ranges.                                 *)

LEMMA ModType ==
    ASSUME NEW a \in Int, NEW n \in Nat, n # 0
    PROVE  a % n \in 0 .. n - 1
  OBVIOUS

LEMMA CapacityType ==
    ASSUME NEW c \in Capacities
    PROVE  c \in Nat /\ c # 0
  BY CapacityAssumption

LEMMA SlotType ==
    ASSUME NEW c \in Capacities, NEW h \in Int
    PROVE  h % c \in 0 .. c - 1
  BY CapacityType, ModType

LEMMA PlusType ==
    ASSUME NEW h \in Int, NEW n \in Int
    PROVE  Plus(h, n) \in Handles
  BY CapacityAssumption, ModType DEF Plus, Handles

LEMMA HandlesAreIntegers == Handles \subseteq Int
  BY CapacityAssumption DEF Handles

-----------------------------------------------------------------------------
(* Cells.  An island's counters are cardinalities: they are numbers only   *)
(* because its sets are finite, which the type invariant does not say.     *)

FiniteIsland(cell) == IsIsland(cell) => IsFiniteSet(cell.active)

Cells == {cell \in InteractionCell(Packets) : FiniteIsland(cell)}

LEMMA IslandType ==
    ASSUME NEW active \in SUBSET Packets, IsFiniteSet(active), NEW done \in Nat
    PROVE  Island(active, done) \in Cells
  BY DEF Island, Cells, InteractionCell, FiniteIsland

LEMMA TombstoneType ==
    ASSUME NEW ref \in Int, NEW dest \in Handles
    PROVE  Tombstone(ref, dest) \in Cells
  BY DEF Tombstone, Cells, InteractionCell, FiniteIsland, IsIsland

LEMMA ResultType ==
    ASSUME NEW packets \in SUBSET Packets, NEW ref \in Int
    PROVE  CollapseResult(packets, ref) \in Cells
  BY DEF CollapseResult, Cells, InteractionCell, FiniteIsland, IsIsland

LEMMA NoCellType == NoCell \in Cells
  BY DEF NoCell, Cells, InteractionCell, FiniteIsland, IsIsland

LEMMA CellFields ==
    ASSUME NEW cell \in Cells
    PROVE  /\ IsIsland(cell) => /\ cell.active \in SUBSET Packets
                               /\ IsFiniteSet(cell.active)
                               /\ cell.done \in Nat
           /\ IsTombstone(cell) => cell.ref \in Int /\ cell.dest \in Handles
           /\ IsResult(cell) => cell.packets \in SUBSET Packets /\ cell.ref \in Int
  BY DEF Cells, InteractionCell, FiniteIsland, IsIsland, IsTombstone, IsResult, NoCell

-----------------------------------------------------------------------------
(* The inductive invariant behind TypeOK.                                  *)

\* The places of process_batch at which a thread holds a slice.
HoldingPlaces == {"populate", "populated", "work", "worked", "publish", "published"}

BuffersHold ==
    /\ cap \in DOMAIN bufs /\ DOMAIN bufs \subseteq Capacities
    /\ \A c \in DOMAIN bufs : bufs[c] \in [0 .. c - 1 -> Cells]
    /\ \A t \in Threads : slice[t].held => slice[t].buff \in DOMAIN bufs

HoldersHold == \A t \in Threads : pc[t] \in HoldingPlaces => slice[t].held

ClonesHold ==
    \A t \in Threads :
      /\ DOMAIN clones[t] \subseteq Handles
      /\ \A h \in DOMAIN clones[t] :
           /\ clones[t][h].active \in SUBSET Packets
           /\ IsFiniteSet(clones[t][h].active)

StoreTypes == RingTypes /\ BuffersHold /\ SliceTypes

TypeInv ==
    /\ StoreTypes /\ PacketTypes /\ NodeTypes
    /\ IsFiniteSet(DOMAIN at)
    /\ HoldersHold
    /\ ClonesHold

LEMMA TypeInvImpliesTypeOK == TypeInv => TypeOK
PROOF
  <1> SUFFICES ASSUME TypeInv PROVE BufferTypes
    BY DEF TypeInv, TypeOK, StoreTypes
  <1>1. \A cell \in Cells : cell \in InteractionCell(Packets)
    BY DEF Cells
  <1> QED BY <1>1 DEF TypeInv, StoreTypes, BuffersHold, BufferTypes

-----------------------------------------------------------------------------
(* The store's operations keep the store's types.                          *)

OthersKeep(t) == \A u \in Threads \ {t} : slice'[u].held = slice[u].held

LEMMA StoredCell ==
    ASSUME StoreTypes, NEW c \in DOMAIN bufs, NEW h \in Int
    PROVE  /\ c \in Capacities
           /\ h % c \in 0 .. c - 1
           /\ bufs[c][h % c] \in Cells
  BY SlotType DEF StoreTypes, BuffersHold

\* Whatever a thread writes into cells of the buffer its slice points to.
LEMMA BufferRewritten ==
    ASSUME StoreTypes, NEW c \in DOMAIN bufs, NEW f \in [0 .. c - 1 -> Cells],
           bufs' = [bufs EXCEPT ![c] = f],
           SliceTypes', \A u \in Threads : slice'[u].held = slice[u].held /\ slice'[u].buff = slice[u].buff,
           UNCHANGED <<start, end, cap, reg, mutex, asleep>>
    PROVE  StoreTypes'
PROOF
  <1>1. RingTypes'
    BY DEF StoreTypes, RingTypes, CellStates
  <1>2. BuffersHold'
    BY DEF StoreTypes, BuffersHold
  <1> QED BY <1>1, <1>2 DEF StoreTypes

LEMMA PutCellType ==
    ASSUME StoreTypes, NEW c \in DOMAIN bufs, NEW h \in Int, NEW cell \in Cells
    PROVE  /\ PutCell(c, h, cell) = [bufs EXCEPT ![c] = [bufs[c] EXCEPT ![h % c] = cell]]
           /\ [bufs[c] EXCEPT ![h % c] = cell] \in [0 .. c - 1 -> Cells]
  BY StoredCell DEF PutCell, StoreTypes, BuffersHold

LEMMA AcquireTypes ==
    ASSUME StoreTypes, NEW t \in Threads, Acquire(t)
    PROVE  StoreTypes'
  BY DEF Acquire, StoreTypes, RingTypes, BuffersHold, SliceTypes

LEMMA SleepTypes ==
    ASSUME StoreTypes, NEW t \in Threads, Sleep(t)
    PROVE  StoreTypes'
  BY DEF Sleep, StoreTypes, RingTypes, BuffersHold, SliceTypes

LEMMA FollowMovedTypes ==
    ASSUME StoreTypes, handle \in [DOMAIN at -> Handles],
           NEW t \in Threads, NEW p \in DOMAIN at, FollowMoved(t, p)
    PROVE  StoreTypes' /\ handle' \in [DOMAIN at -> Handles]
PROOF
  <1> DEFINE h    == handle[p]
             cell == Cell(h)
             last == Exhausted(cell)
             new  == IF last THEN NoCell ELSE Tombstone(cell.ref - 1, cell.dest)
  <1>1. h \in Int /\ cap \in DOMAIN bufs
    BY HandlesAreIntegers DEF StoreTypes, BuffersHold
  <1>2. cell \in Cells /\ IsTombstone(cell)
    BY <1>1, StoredCell DEF Cell, FollowMoved
  <1>3. cell.ref \in Int /\ cell.dest \in Handles
    BY <1>2, CellFields
  <1>4. new \in Cells
    BY <1>3, NoCellType, TombstoneType
  <1>5. bufs' = PutCell(cap, h, new)
    BY DEF FollowMoved
  <1>6. bufs' = [bufs EXCEPT ![cap] = [bufs[cap] EXCEPT ![h % cap] = new]]
        /\ [bufs[cap] EXCEPT ![h % cap] = new] \in [0 .. cap - 1 -> Cells]
    <2> HIDE DEF h, new
    <2> QED BY <1>1, <1>4, <1>5, PutCellType
  <1>7. BuffersHold'
    <2>1. UNCHANGED <<cap, slice>>
      BY DEF FollowMoved
    <2> HIDE DEF new, h
    <2> QED BY <1>1, <1>6, <2>1 DEF BuffersHold, StoreTypes
  <1>8. RingTypes'
    <2>1. reg' = reg \/ reg' = [reg EXCEPT ![h % cap] = "Retired"]
      BY DEF FollowMoved
    <2>2. UNCHANGED <<start, end, cap, mutex, asleep>>
      BY DEF FollowMoved
    <2> HIDE DEF h
    <2>3. reg' \in [0 .. cap - 1 -> CellStates]
      BY <2>1 DEF StoreTypes, RingTypes, CellStates
    <2> QED BY <2>2, <2>3 DEF StoreTypes, RingTypes
  <1>9. SliceTypes'
    BY DEF FollowMoved, SliceTypes, StoreTypes
  <1>10. handle' \in [DOMAIN at -> Handles]
    <2>1. handle' = [handle EXCEPT ![p] = cell.dest]
      BY DEF FollowMoved
    <2> HIDE DEF cell
    <2> QED BY <2>1, <1>3
  <1> QED BY <1>7, <1>8, <1>9, <1>10 DEF StoreTypes

LEMMA LockCellsTypes ==
    ASSUME StoreTypes, NEW t \in Threads, NEW hs \in SUBSET Handles, LockCells(t, hs)
    PROVE  StoreTypes' /\ slice'[t].held /\ OthersKeep(t)
PROOF
  <1>1. UNCHANGED <<start, end, cap, bufs, asleep>> /\ mutex' = NoThread
    BY DEF LockCells
  <1>2. reg' \in [0 .. cap - 1 -> CellStates]
    BY DEF LockCells, StoreTypes, RingTypes, CellStates
  <1>3. RingTypes'
    BY <1>1, <1>2 DEF StoreTypes, RingTypes
  <1>4. Slice(cap, hs) \in [held : BOOLEAN, buff : Capacities,
                            indices : SUBSET Handles, moved : SUBSET Handles]
    BY DEF Slice, StoreTypes, RingTypes
  <1>5. slice' = [slice EXCEPT ![t] = Slice(cap, hs)]
    BY DEF LockCells
  <1>6. SliceTypes'
    BY <1>4, <1>5 DEF StoreTypes, SliceTypes
  <1>7. slice'[t].held /\ slice'[t].buff = cap /\ \A u \in Threads \ {t} : slice'[u] = slice[u]
    BY <1>5 DEF Slice, StoreTypes, SliceTypes
  <1>8. BuffersHold'
    BY <1>1, <1>7 DEF StoreTypes, BuffersHold
  <1> QED BY <1>3, <1>6, <1>7, <1>8 DEF StoreTypes, OthersKeep

LEMMA ClaimCollapsedTypes ==
    ASSUME StoreTypes, handle \in [DOMAIN at -> Handles], IsFiniteSet(DOMAIN at),
           NEW t \in Threads, NEW packets \in SUBSET DOMAIN at, ClaimCollapsed(t, packets)
    PROVE  /\ StoreTypes'
           /\ handle' \in [DOMAIN at \ packets -> Handles]
PROOF
  <1> DEFINE claims(s) == {p \in packets : handle[p] % cap = s}
             left(s)   == bufs[cap][s].ref - Cardinality(claims(s))
             emptied   == {s \in 0 .. cap - 1 : claims(s) # {} /\ left(s) = 0}
             cells     == [s \in 0 .. cap - 1 |->
                             CASE s \in emptied  -> NoCell
                               [] claims(s) = {} -> bufs[cap][s]
                               [] OTHER          -> CollapseResult(bufs[cap][s].packets, left(s))]
  <1>1. /\ UNCHANGED <<start, end, cap, slice, asleep>> /\ mutex' = NoThread
        /\ reg' = [s \in 0 .. cap - 1 |-> IF s \in emptied THEN "Retired" ELSE reg[s]]
        /\ bufs' = [bufs EXCEPT ![cap] = cells]
        /\ handle' = [p \in DOMAIN handle \ packets |-> handle[p]]
        /\ \A p \in packets : IsResult(Cell(handle[p]))
    BY DEF ClaimCollapsed
  <1>2. cap \in DOMAIN bufs /\ bufs[cap] \in [0 .. cap - 1 -> Cells]
    BY DEF StoreTypes, BuffersHold
  <1>3. ASSUME NEW s \in 0 .. cap - 1 PROVE cells[s] \in Cells
    <2>1. CASE s \in emptied
      BY <2>1, NoCellType
    <2>2. CASE s \notin emptied /\ claims(s) = {}
      BY <2>2, <1>2
    <2>3. CASE s \notin emptied /\ claims(s) # {}
      <3>1. PICK p \in packets : handle[p] % cap = s
        BY <2>3
      <3>2. bufs[cap][s] \in Cells /\ IsResult(bufs[cap][s])
        BY <1>1, <1>2, <3>1 DEF Cell
      <3>3. bufs[cap][s].packets \in SUBSET Packets /\ bufs[cap][s].ref \in Int
        BY <3>2, CellFields
      <3>4. Cardinality(claims(s)) \in Nat
        BY FS_Subset, FS_CardinalityType
      <3>5. left(s) \in Int
        BY <3>3, <3>4
      <3>6. CollapseResult(bufs[cap][s].packets, left(s)) \in Cells
        <4> HIDE DEF left
        <4> QED BY <3>3, <3>5, ResultType
      <3> QED BY <2>3, <3>6
    <2> QED BY <2>1, <2>2, <2>3
  <1>4. cells \in [0 .. cap - 1 -> Cells]
    <2> HIDE DEF emptied, claims, left
    <2> QED BY <1>3
  <1>5. BuffersHold'
    <2> HIDE DEF cells
    <2> QED BY <1>1, <1>2, <1>4 DEF StoreTypes, BuffersHold
  <1>6. RingTypes'
    <2> HIDE DEF emptied, cells
    <2> QED BY <1>1 DEF StoreTypes, RingTypes, CellStates
  <1>7. SliceTypes'
    BY <1>1 DEF StoreTypes, SliceTypes
  <1> QED BY <1>1, <1>5, <1>6, <1>7 DEF StoreTypes

LEMMA CorrectHandleTypes ==
    ASSUME StoreTypes, handle \in [DOMAIN at -> Handles],
           NEW t \in Threads, NEW p \in DOMAIN at, CorrectHandle(t, p)
    PROVE  /\ StoreTypes' /\ slice'[t].held /\ OthersKeep(t)
           /\ handle' \in [DOMAIN at -> Handles]
PROOF
  <1> DEFINE h    == handle[p]
             c    == slice[t].buff
             cell == SliceCell(t, h)
             new  == Tombstone(cell.ref - 1, cell.dest)
  <1>1. h \in Handles /\ h \in Int /\ c \in DOMAIN bufs
    BY HandlesAreIntegers DEF StoreTypes, BuffersHold, CorrectHandle
  <1>2. cell \in Cells /\ IsTombstone(cell)
    BY <1>1, StoredCell DEF SliceCell, CorrectHandle
  <1>3. cell.ref \in Int /\ cell.dest \in Handles
    BY <1>2, CellFields
  <1>4. new \in Cells
    BY <1>3, TombstoneType
  <1>5. /\ slice[t].held
        /\ bufs' = PutCell(c, h, new)
        /\ slice' = [slice EXCEPT ![t].moved = @ \cup {h}]
        /\ handle' = [handle EXCEPT ![p] = cell.dest]
        /\ UNCHANGED <<start, end, cap, reg, mutex, asleep>>
    BY DEF CorrectHandle, PutSliceCell
  <1> HIDE DEF h, cell, new
  <1>6. /\ SliceTypes'
        /\ \A u \in Threads : slice'[u].held = slice[u].held /\ slice'[u].buff = slice[u].buff
    BY <1>1, <1>5 DEF StoreTypes, SliceTypes
  <1>7. bufs' = [bufs EXCEPT ![c] = [bufs[c] EXCEPT ![h % c] = new]]
        /\ [bufs[c] EXCEPT ![h % c] = new] \in [0 .. c - 1 -> Cells]
    <2> HIDE DEF c
    <2> QED BY <1>1, <1>4, <1>5, PutCellType
  <1>8. StoreTypes'
    <2> HIDE DEF c
    <2> QED BY <1>1, <1>5, <1>6, <1>7, BufferRewritten
  <1> QED BY <1>3, <1>5, <1>6, <1>8 DEF OthersKeep

LEMMA MergeIslandsTypes ==
    ASSUME StoreTypes, NEW t \in Threads, NEW donor \in Handles, NEW recipient \in Handles,
           MergeIslands(t, donor, recipient)
    PROVE  StoreTypes' /\ slice'[t].held /\ OthersKeep(t)
PROOF
  <1> DEFINE d     == SliceCell(t, donor)
             r     == SliceCell(t, recipient)
             c     == slice[t].buff
             stone == Tombstone(RedirectCount(d), recipient)
             merged == Island(r.active \cup d.active, r.done + d.done)
             cells == [bufs[c] EXCEPT ![donor % c] = stone, ![recipient % c] = merged]
  <1>1. /\ slice[t].held
        /\ IsIsland(d) /\ IsIsland(r)
        /\ bufs' = [bufs EXCEPT ![c][donor % c] = stone, ![c][recipient % c] = merged]
        /\ slice' = [slice EXCEPT ![t].moved = @ \cup {donor}]
        /\ UNCHANGED <<start, end, cap, reg, mutex, asleep>>
    BY DEF MergeIslands
  <1>2. c \in DOMAIN bufs /\ donor \in Int /\ recipient \in Int
    BY <1>1, HandlesAreIntegers DEF StoreTypes, BuffersHold
  <1>3. d \in Cells /\ r \in Cells
    BY <1>2, StoredCell DEF SliceCell
  <1>4. /\ d.active \in SUBSET Packets /\ IsFiniteSet(d.active) /\ d.done \in Nat
        /\ r.active \in SUBSET Packets /\ IsFiniteSet(r.active) /\ r.done \in Nat
    BY <1>1, <1>3, CellFields
  <1>5. stone \in Cells
    <2>1. RedirectCount(d) \in Int
      BY <1>4, FS_CardinalityType DEF RedirectCount
    <2> HIDE DEF d
    <2> QED BY <2>1, TombstoneType
  <1>6. merged \in Cells
    <2>1. IsFiniteSet(r.active \cup d.active)
      BY <1>4, FS_Union
    <2> HIDE DEF d, r
    <2> QED BY <1>4, <2>1, IslandType
  <1>7. cells \in [0 .. c - 1 -> Cells] /\ bufs' = [bufs EXCEPT ![c] = cells]
    <2>1. bufs[c] \in [0 .. c - 1 -> Cells]
      BY <1>2 DEF StoreTypes, BuffersHold
    <2> HIDE DEF stone, merged, c
    <2> QED BY <1>1, <1>2, <1>5, <1>6, <2>1
  <1>8. /\ SliceTypes'
        /\ \A u \in Threads : slice'[u].held = slice[u].held /\ slice'[u].buff = slice[u].buff
    BY <1>1 DEF StoreTypes, SliceTypes
  <1>9. StoreTypes'
    <2> HIDE DEF c, cells
    <2> QED BY <1>1, <1>2, <1>7, <1>8, BufferRewritten
  <1> QED BY <1>1, <1>8, <1>9 DEF OthersKeep

LEMMA CreateStatesTypes ==
    ASSUME StoreTypes, NEW t \in Threads, NEW n \in Nat, CreateStates(t, n)
    PROVE  StoreTypes' /\ slice'[t].held /\ OthersKeep(t)
PROOF
  <1> DEFINE fresh       == {Plus(end, i) : i \in 0 .. n - 1}
             slots(c)    == {h % c : h \in fresh}
             oldReg(c)   == IF c = cap THEN reg ELSE ResizedRegistry(c)
             oldBuff(c)  == IF c = cap THEN bufs[cap] ELSE ResizedBuffer(c)
             newSlice(c) == [slice EXCEPT ![t] = Slice(c, fresh)]
             cells(c)    == [s \in 0 .. c - 1 |-> IF s \in slots(c) THEN NoCell ELSE oldBuff(c)[s]]
  <1>1. PICK c \in CapacityFor(n) :
          /\ cap' = c
          /\ reg' = [s \in 0 .. c - 1 |-> IF s \in slots(c) THEN "Locked" ELSE oldReg(c)[s]]
          /\ slice' = newSlice(c)
          /\ bufs' = [d \in Reachable(newSlice(c), c) |-> IF d = c THEN cells(c) ELSE bufs[d]]
    BY DEF CreateStates
  <1>2. end' = Plus(end, n) /\ UNCHANGED <<start, mutex, asleep>>
    BY DEF CreateStates
  <1>3. /\ start \in Handles /\ end \in Handles /\ start \in Int /\ end \in Int
        /\ cap \in Capacities /\ reg \in [0 .. cap - 1 -> CellStates]
        /\ cap \in DOMAIN bufs /\ bufs[cap] \in [0 .. cap - 1 -> Cells]
    BY HandlesAreIntegers DEF StoreTypes, RingTypes, BuffersHold
  <1>4. c \in Capacities /\ c \in Nat /\ c # 0
    BY <1>3, CapacityType DEF CapacityFor
  <1>5. fresh \in SUBSET Handles
    BY <1>3, PlusType
  <1>6. ASSUME NEW s \in 0 .. c - 1, NEW h, h = HandleOfSlot(s, c)
        PROVE  h \in Handles /\ State(h) \in CellStates /\ Cell(h) \in Cells
    <2>1. (s - start) % c \in Int
      BY <1>3, <1>4, ModType
    <2>2. h \in Handles /\ h \in Int
      BY <1>3, <1>6, <2>1, PlusType, HandlesAreIntegers DEF HandleOfSlot
    <2> QED BY <1>3, <2>2, SlotType DEF State, Cell
  <1>7. ASSUME NEW s \in 0 .. c - 1 PROVE oldReg(c)[s] \in CellStates
    <2>1. ResizedRegistry(c)[s] \in CellStates
      BY <1>6 DEF ResizedRegistry, CellStates
    <2> QED BY <1>3, <2>1
  <1>8. ASSUME NEW s \in 0 .. c - 1 PROVE oldBuff(c)[s] \in Cells
    <2>1. ResizedBuffer(c)[s] \in Cells
      BY <1>6, NoCellType DEF ResizedBuffer
    <2> QED BY <1>3, <2>1
  <1>9. cells(c) \in [0 .. c - 1 -> Cells]
    <2> HIDE DEF slots, oldBuff
    <2> QED BY <1>8, NoCellType
  <1>10. reg' \in [0 .. c - 1 -> CellStates]
    <2> HIDE DEF slots, oldReg
    <2> QED BY <1>1, <1>7 DEF CellStates
  <1>11. RingTypes'
    <2>1. Plus(end, n) \in Handles
      BY <1>3, PlusType
    <2> QED BY <1>1, <1>2, <1>4, <1>10, <2>1 DEF StoreTypes, RingTypes
  <1>12. /\ slice' \in [Threads -> [held : BOOLEAN, buff : Capacities,
                                    indices : SUBSET Handles, moved : SUBSET Handles]]
         /\ slice'[t].held /\ slice'[t].buff = c
         /\ \A u \in Threads \ {t} : slice'[u] = slice[u]
    <2>1. Slice(c, fresh) \in [held : BOOLEAN, buff : Capacities,
                               indices : SUBSET Handles, moved : SUBSET Handles]
      BY <1>4, <1>5 DEF Slice
    <2>2. Slice(c, fresh).held /\ Slice(c, fresh).buff = c
      BY DEF Slice
    <2> HIDE DEF fresh
    <2> QED BY <1>1, <2>1, <2>2 DEF StoreTypes, SliceTypes
  <1>13. ASSUME NEW d \in Reachable(newSlice(c), c)
         PROVE  d = c \/ (d \in DOMAIN bufs /\ d \in Capacities /\ bufs[d] \in [0 .. d - 1 -> Cells])
    <2>1. newSlice(c) = slice'
      BY <1>1
    <2> HIDE DEF newSlice
    <2>2. CASE d = c
      BY <2>2
    <2>3. CASE d # c
      <3>1. PICK u \in Threads : slice'[u].held /\ slice'[u].buff = d
        BY <2>1, <2>3 DEF Reachable
      <3>2. u # t /\ slice[u].held /\ slice[u].buff = d
        BY <1>12, <2>3, <3>1
      <3> QED BY <3>2 DEF StoreTypes, BuffersHold
    <2> QED BY <2>2, <2>3
  <1>14. BuffersHold'
    <2>1. \A u \in Threads : slice'[u].held => slice'[u].buff \in Reachable(slice', c)
      BY DEF Reachable
    <2>2. c \in Reachable(slice', c)
      BY DEF Reachable
    <2>3. newSlice(c) = slice'
      BY <1>1
    <2> HIDE DEF newSlice, cells
    <2>4. /\ DOMAIN bufs' = Reachable(slice', c)
          /\ \A d \in Reachable(slice', c) : bufs'[d] = IF d = c THEN cells(c) ELSE bufs[d]
      BY <1>1, <2>3
    <2> QED BY <1>1, <1>4, <1>9, <1>13, <2>1, <2>2, <2>3, <2>4 DEF BuffersHold
  <1> QED BY <1>11, <1>12, <1>14 DEF StoreTypes, SliceTypes, OthersKeep

LEMMA DropSliceTypes ==
    ASSUME StoreTypes, NEW t \in Threads, DropSlice(t)
    PROVE  StoreTypes' /\ OthersKeep(t)
PROOF
  <1> DEFINE registry == ReleasedRegistry(t)
             newSlice == [slice EXCEPT ![t] = NoSlice]
             c        == slice[t].buff
  <1>1. /\ slice[t].held
        /\ \A h \in slice[t].moved : IsTombstone(SliceCell(t, h))
        /\ reg' = registry
        /\ slice' = newSlice
        /\ bufs' = [d \in Reachable(newSlice, cap) |->
                      CASE d = c            -> ClearedBuffer(t)
                        [] d = cap /\ d # c -> CarriedBuffer(t, registry)
                        [] OTHER            -> bufs[d]]
        /\ UNCHANGED <<end, cap, mutex>>
    BY DEF DropSlice
  <1>2. asleep' = {}
    BY DEF DropSlice, StillAsleep
  <1>3. /\ start \in Int /\ end \in Int
        /\ cap \in Capacities /\ reg \in [0 .. cap - 1 -> CellStates]
        /\ cap \in DOMAIN bufs /\ c \in DOMAIN bufs /\ c \in Capacities
        /\ bufs[cap] \in [0 .. cap - 1 -> Cells] /\ bufs[c] \in [0 .. c - 1 -> Cells]
        /\ slice[t].indices \subseteq Handles /\ NoSlice.buff \in Capacities
    BY <1>1, HandlesAreIntegers, CapacityAssumption
    DEF StoreTypes, RingTypes, BuffersHold, SliceTypes, NoSlice
  <1>4. start' \in Handles
    <2>1. PICK k \in 0 .. WindowLen : start' = Plus(start, k)
      BY DEF DropSlice
    <2> QED BY <1>3, <2>1, PlusType
  <1>5. registry \in [0 .. cap - 1 -> CellStates]
    BY <1>3 DEF ReleasedRegistry, CellStates
  <1>6. RingTypes'
    BY <1>1, <1>2, <1>4, <1>5 DEF StoreTypes, RingTypes
  <1>7. /\ slice' \in [Threads -> [held : BOOLEAN, buff : Capacities,
                                   indices : SUBSET Handles, moved : SUBSET Handles]]
        /\ ~ slice'[t].held
        /\ \A u \in Threads \ {t} : slice'[u] = slice[u]
    BY <1>1, CapacityAssumption DEF StoreTypes, SliceTypes, NoSlice
  <1>8. ClearedBuffer(t) \in [0 .. c - 1 -> Cells]
    BY <1>3, NoCellType DEF ClearedBuffer
  <1>9. CarriedBuffer(t, registry) \in [0 .. cap - 1 -> Cells]
    <2>1. ASSUME NEW h \in slice[t].indices PROVE SliceCell(t, h) \in Cells
      BY <1>3, HandlesAreIntegers, StoredCell DEF SliceCell
    <2> HIDE DEF registry
    <2> QED BY <1>3, <2>1 DEF CarriedBuffer
  <1>10. ASSUME NEW d \in Reachable(slice', cap)
         PROVE  d \in DOMAIN bufs /\ d \in Capacities /\ bufs[d] \in [0 .. d - 1 -> Cells]
    <2>1. CASE d = cap
      BY <1>3, <2>1
    <2>2. CASE d # cap
      <3>1. PICK u \in Threads : slice'[u].held /\ slice'[u].buff = d
        BY <2>2 DEF Reachable
      <3>2. u # t /\ slice[u].held /\ slice[u].buff = d
        BY <1>7, <3>1
      <3> QED BY <3>2 DEF StoreTypes, BuffersHold
    <2> QED BY <2>1, <2>2
  <1>11. BuffersHold'
    <2>1. cap \in Reachable(slice', cap)
          /\ \A u \in Threads : slice'[u].held => slice'[u].buff \in Reachable(slice', cap)
      BY DEF Reachable
    <2>2. /\ DOMAIN bufs' = Reachable(slice', cap)
          /\ \A d \in Reachable(slice', cap) :
               /\ (d = c => bufs'[d] = ClearedBuffer(t))
               /\ (d = cap /\ d # c => bufs'[d] = CarriedBuffer(t, registry))
               /\ (d # cap /\ d # c => bufs'[d] = bufs[d])
      <3> HIDE DEF registry, c
      <3> QED BY <1>1
    <2>3. ASSUME NEW d \in Reachable(slice', cap) PROVE bufs'[d] \in [0 .. d - 1 -> Cells]
      <3> HIDE DEF registry, c
      <3>1. CASE d = c
        BY <1>8, <2>2, <3>1
      <3>2. CASE d = cap /\ d # c
        BY <1>9, <2>2, <3>2
      <3>3. CASE d # cap /\ d # c
        BY <1>10, <2>2, <3>3
      <3> QED BY <3>1, <3>2, <3>3
    <2> QED BY <1>1, <1>10, <2>1, <2>2, <2>3 DEF BuffersHold
  <1> QED BY <1>6, <1>7, <1>11 DEF StoreTypes, SliceTypes, OthersKeep

-----------------------------------------------------------------------------
(* Packets: every set of them is finite, and a sink knows its parent.      *)

LEMMA ParentOfSink ==
    ASSUME NEW p \in Packets, NEW l \in OutLabels
    PROVE  /\ SetSnowflake(p, l) \in Packets
           /\ ParentOf(SetSnowflake(p, l)) = p
PROOF
  <1>1. p.path \in Seq(OutLabels) /\ p.pair \in Int
        /\ p = [pair |-> p.pair, path |-> p.path]
    BY DEF Packets
  <1>2. /\ Append(p.path, l) \in Seq(OutLabels)
        /\ Len(Append(p.path, l)) = Len(p.path) + 1
        /\ SubSeq(Append(p.path, l), 1, Len(p.path)) = p.path
    <2>1. \A s \in Seq(OutLabels) : /\ Append(s, l) \in Seq(OutLabels)
                                    /\ Len(Append(s, l)) = Len(s) + 1
                                    /\ \A i \in 1 .. Len(s) : Append(s, l)[i] = s[i]
      OBVIOUS
    <2> DEFINE s == p.path
               u == SubSeq(Append(s, l), 1, Len(s))
    <2>2. Len(s) \in Nat /\ s = [i \in 1 .. Len(s) |-> s[i]]
      BY <1>1
    <2>3. u = [i \in 1 .. Len(s) |-> Append(s, l)[i]]
      BY <1>1, <2>2
    <2> HIDE DEF u
    <2>4. u = [i \in 1 .. Len(s) |-> s[i]]
      BY <1>1, <2>1, <2>3
    <2>5. u = s
      BY <2>2, <2>4
    <2> QED BY <1>1, <2>1, <2>5 DEF u
  <1>3. SetSnowflake(p, l) = [pair |-> p.pair, path |-> Append(p.path, l)]
    <2>1. \A e : [p EXCEPT !.path = e] = [pair |-> p.pair, path |-> e]
      BY DEF Packets
    <2> QED BY <2>1 DEF SetSnowflake
  <1> QED BY <1>1, <1>2, <1>3 DEF ParentOf, Packets

LEMMA FiniteLabels == IsFiniteSet(OutLabels) /\ IsFiniteSet(Sides)
PROOF
  <1>1. IsFiniteSet({"signal"} \cup {"idler"})
    BY FS_Singleton, FS_Union
  <1>2. IsFiniteSet({"through"} \cup {"left"})
    BY FS_Singleton, FS_Union
  <1>3. IsFiniteSet(({"signal"} \cup {"idler"}) \cup ({"through"} \cup {"left"}))
    BY <1>1, <1>2, FS_Union
  <1>4. IsFiniteSet((({"signal"} \cup {"idler"}) \cup ({"through"} \cup {"left"})) \cup {"right"})
    BY <1>3, FS_Singleton, FS_Union
  <1>5. /\ Sides = {"signal"} \cup {"idler"}
        /\ OutLabels = (({"signal"} \cup {"idler"}) \cup ({"through"} \cup {"left"})) \cup {"right"}
    BY DEF OutLabels, Sides
  <1> QED BY <1>1, <1>4, <1>5

LEMMA FiniteSinks ==
    ASSUME NEW packets, IsFiniteSet(packets), NEW labels, IsFiniteSet(labels)
    PROVE  IsFiniteSet({SetSnowflake(p, l) : p \in packets, l \in labels})
PROOF
  <1> DEFINE sinks == {SetSnowflake(p, l) : p \in packets, l \in labels}
             f == [x \in packets \X labels |-> SetSnowflake(x[1], x[2])]
  <1>1. IsFiniteSet(packets \X labels)
    BY FS_Product
  <1>2. f \in Surjection(packets \X labels, sinks)
    <2>1. f \in [packets \X labels -> sinks]
      OBVIOUS
    <2>2. ASSUME NEW q \in sinks PROVE \E x \in packets \X labels : f[x] = q
      <3>1. PICK p \in packets, l \in labels : q = SetSnowflake(p, l)
        OBVIOUS
      <3>2. <<p, l>> \in packets \X labels /\ f[<<p, l>>] = q
        BY <3>1
      <3> QED BY <3>2
    <2> HIDE DEF f, sinks
    <2> QED BY <2>1, <2>2 DEF Surjection
  <1> QED BY <1>1, <1>2, FS_Surjection

LEMMA SendBatchesTypes ==
    ASSUME PacketTypes, UNCHANGED handle, NEW t \in Threads, SendBatches(t)
    PROVE  PacketTypes' /\ DOMAIN at' = DOMAIN at
PROOF
  <1> DEFINE sent == PacketsAt(t, "out")
             entry(p) == Route[<<t, at[p].port>>]
  <1>1. /\ \A p \in sent : <<t, at[p].port>> \in DOMAIN Route
        /\ at' = [p \in DOMAIN at |->
                    IF p \in sent THEN Place(entry(p).node, "inbox", entry(p).port) ELSE at[p]]
    BY DEF SendBatches
  <1>2. ASSUME NEW p \in sent
        PROVE  entry(p).node \in Threads /\ entry(p).port \in Ports
    <2>1. <<t, at[p].port>> \in DOMAIN Route
      BY <1>1
    <2>2. entry(p) \in [node : Getters, port : Ports]
      BY <2>1, RoleAssumption
    <2> QED BY <2>2, RoleAssumption DEF Nodes, Getters
  <1>3. \A p \in DOMAIN at :
          at'[p] \in [node : Threads, box : Boxes, port : Ports \cup OutLabels]
    <2> HIDE DEF sent, entry
    <2> QED BY <1>1, <1>2 DEF PacketTypes, Place, Boxes
  <1>4. DOMAIN at' = DOMAIN at
    BY <1>1
  <1> QED BY <1>3, <1>4 DEF PacketTypes

\* A thread that moves on holds a slice where process_batch needs one.
LEMMA GotoTypes ==
    ASSUME pc \in [Threads -> Locations], HoldersHold, NEW t \in Threads,
           NEW from, NEW to \in Locations, Goto(t, from, to), OthersKeep(t),
           to \in HoldingPlaces => slice'[t].held
    PROVE  pc' \in [Threads -> Locations] /\ HoldersHold'
  BY DEF Goto, HoldersHold, OthersKeep

-----------------------------------------------------------------------------
(* Every action keeps the invariant.                                       *)

LEMMA InitTypes == Init => TypeInv
PROOF
  <1> SUFFICES ASSUME Init PROVE TypeInv
    OBVIOUS
  <1> USE DEF Init, StoreInit
  <1>1. InitCapacity \in Capacities /\ InitCapacity \in Nat /\ FirstIndex \in Handles
    BY CapacityAssumption DEF Handles
  <1>2. RingTypes
    BY <1>1 DEF RingTypes, CellStates
  <1>3. SliceTypes
    BY <1>1 DEF SliceTypes, NoSlice
  <1>4. BuffersHold
    BY <1>1, NoCellType DEF BuffersHold, NoSlice
  <1>5. PacketTypes /\ IsFiniteSet(DOMAIN at)
    BY FS_EmptySet DEF PacketTypes
  <1>6. NodeTypes
    BY RoleAssumption DEF NodeTypes, Locations
  <1>7. HoldersHold
    BY DEF HoldersHold, HoldingPlaces
  <1>8. ClonesHold
    BY DEF ClonesHold
  <1> QED BY <1>2, <1>3, <1>4, <1>5, <1>6, <1>7, <1>8 DEF TypeInv, StoreTypes

LEMMA GenerateTypes ==
    ASSUME TypeInv, NEW t \in Threads, Generate(t)
    PROVE  TypeInv'
PROOF
  <1>1. PICK n \in 1 .. MaxBatch : /\ generated + n <= MaxPairs
                                   /\ CreateStates(t, n)
                                   /\ generated' = generated + n
    BY DEF Generate
  <1>2. n \in Nat
    BY RoleAssumption
  <1>3. StoreTypes' /\ slice'[t].held /\ OthersKeep(t)
    BY <1>1, <1>2, CreateStatesTypes DEF TypeInv
  <1>4. UNCHANGED <<at, clones, handle>>
    BY <1>1 DEF Generate, CreateStates
  <1>5. pc' \in [Threads -> Locations] /\ HoldersHold'
    BY <1>3, GotoTypes DEF Generate, TypeInv, NodeTypes, Locations
  <1>6. generated' \in 0 .. MaxPairs
    BY <1>1, <1>2, RoleAssumption DEF TypeInv, NodeTypes
  <1> QED BY <1>3, <1>4, <1>5, <1>6 DEF TypeInv, PacketTypes, NodeTypes, ClonesHold

LEMMA PopulateTypes ==
    ASSUME TypeInv, NEW t \in Threads, Populate(t)
    PROVE  TypeInv'
PROOF
  <1> DEFINE hs    == slice[t].indices
             c     == slice[t].buff
             pairs == [h \in hs |-> {NewPacket(PairOf(h), side) : side \in Sides}]
             made  == UNION {pairs[h] : h \in hs}
             here(x) == UNION {pairs[h] : h \in {g \in hs : g % c = x}}
             cells == [x \in 0 .. c - 1 |->
                         IF \E h \in hs : h % c = x THEN Island(here(x), 0) ELSE bufs[c][x]]
  <1>1. /\ bufs' = [bufs EXCEPT ![c] = cells]
        /\ UNCHANGED <<start, end, cap, reg, slice, mutex, asleep>>
    BY DEF Populate, SetCells
  <1>2. /\ Goto(t, "populate", "populated")
        /\ handle' = [p \in DOMAIN handle \cup made |->
                        IF p \in made THEN Plus(FirstIndex, p.pair) ELSE handle[p]]
        /\ at' = [p \in DOMAIN at \cup made |->
                    IF p \in made THEN Place(t, "out", p.path[1]) ELSE at[p]]
        /\ UNCHANGED <<generated, clones>>
    BY DEF Populate
  <1>3. /\ slice[t].held /\ c \in DOMAIN bufs /\ bufs[c] \in [0 .. c - 1 -> Cells]
        /\ hs \in SUBSET Handles
    BY <1>2 DEF TypeInv, HoldersHold, HoldingPlaces, StoreTypes, BuffersHold, SliceTypes, Goto
  <1>4. ASSUME NEW h \in hs PROVE pairs[h] \in SUBSET Packets /\ IsFiniteSet(pairs[h])
    <2>1. PairOf(h) \in Int
      <3>1. end \in Int /\ h \in Int /\ IndexRange \in Nat /\ IndexRange # 0
        BY <1>3, HandlesAreIntegers, CapacityAssumption DEF TypeInv, StoreTypes, RingTypes
      <3>2. end - h \in Int
        BY <3>1
      <3>3. (end - h) % IndexRange \in Int
        BY <3>1, <3>2, ModType
      <3>4. generated \in Int
        BY RoleAssumption DEF TypeInv, NodeTypes
      <3> QED BY <3>3, <3>4 DEF PairOf
    <2>2. \A side \in Sides : NewPacket(PairOf(h), side) \in Packets
      BY <2>1 DEF NewPacket, Packets, Sides, OutLabels
    <2>3. pairs[h] = {NewPacket(PairOf(h), "signal")} \cup {NewPacket(PairOf(h), "idler")}
      BY DEF Sides
    <2>4. IsFiniteSet(pairs[h])
      <3>1. \A x, y : IsFiniteSet({x} \cup {y})
        BY FS_Singleton, FS_Union
      <3> HIDE DEF pairs
      <3> QED BY <2>3, <3>1
    <2> QED BY <2>2, <2>4
  <1>5. IsFiniteSet(hs)
    <2>1. IsFiniteSet(Handles)
      BY CapacityAssumption, FS_Interval DEF Handles
    <2> QED BY <1>3, <2>1, FS_Subset
  <1>6. ASSUME NEW gs \in SUBSET hs
        PROVE  /\ (UNION {pairs[h] : h \in gs}) \in SUBSET Packets
               /\ IsFiniteSet(UNION {pairs[h] : h \in gs})
    <2> DEFINE f == [h \in gs |-> pairs[h]]
               S == {pairs[h] : h \in gs}
    <2>1. IsFiniteSet(gs)
      BY <1>5, FS_Subset
    <2>2. f \in Surjection(gs, S)
      BY DEF Surjection
    <2>3. IsFiniteSet(S)
      BY <2>1, <2>2, FS_Surjection
    <2>4. \A x \in S : IsFiniteSet(x) /\ x \in SUBSET Packets
      BY <1>4
    <2> HIDE DEF S
    <2>5. IsFiniteSet(UNION S) /\ (UNION S) \in SUBSET Packets
      BY <2>3, <2>4, FS_UNION
    <2> QED BY <2>5 DEF S
  <1>7. made \in SUBSET Packets /\ IsFiniteSet(made)
    BY <1>6
  <1>8. ASSUME NEW x PROVE Island(here(x), 0) \in Cells
    <2>1. here(x) \in SUBSET Packets /\ IsFiniteSet(here(x))
      BY <1>6
    <2> QED BY <2>1, IslandType
  <1>9. cells \in [0 .. c - 1 -> Cells]
    <2> HIDE DEF here
    <2> QED BY <1>3, <1>8
  <1>10. StoreTypes'
    <2>1. SliceTypes'
      BY <1>1 DEF TypeInv, StoreTypes, SliceTypes
    <2> HIDE DEF cells
    <2> QED BY <1>1, <1>3, <1>9, <2>1, BufferRewritten DEF TypeInv
  <1>11. PacketTypes' /\ IsFiniteSet((DOMAIN at)')
    <2>1. ASSUME NEW p \in made PROVE p.path[1] \in OutLabels
      <3>1. PICK h \in hs, side \in Sides : p = NewPacket(PairOf(h), side)
        OBVIOUS
      <3>2. p.path[1] = side
        BY <3>1 DEF NewPacket
      <3> QED BY <3>2 DEF Sides, OutLabels
    <2>2. ASSUME NEW p \in made PROVE Plus(FirstIndex, p.pair) \in Handles
      <3>1. p \in Packets
        BY <1>7
      <3>2. p.pair \in Int /\ FirstIndex \in Int
        <4> HIDE DEF made
        <4> QED BY <3>1, CapacityAssumption DEF Packets
      <3> QED BY <3>2, PlusType
    <2> HIDE DEF made
    <2>3. IsFiniteSet(DOMAIN at \cup made)
      BY <1>7, FS_Union DEF TypeInv
    <2> QED BY <1>2, <1>7, <2>1, <2>2, <2>3 DEF TypeInv, PacketTypes, Place, Boxes
  <1>12. pc' \in [Threads -> Locations] /\ HoldersHold'
    BY <1>1, <1>2, <1>3, GotoTypes DEF OthersKeep, TypeInv, NodeTypes, Locations
  <1> QED BY <1>2, <1>10, <1>11, <1>12 DEF TypeInv, NodeTypes, ClonesHold

LEMMA SendTypes ==
    ASSUME TypeInv, NEW t \in Threads, DropSlice(t), SendBatches(t),
           NEW from, Goto(t, from, "idle"), UNCHANGED <<generated, clones>>
    PROVE  TypeInv'
PROOF
  <1>1. StoreTypes' /\ OthersKeep(t)
    BY DropSliceTypes DEF TypeInv
  <1>2. UNCHANGED handle
    BY DEF DropSlice
  <1>3. PacketTypes' /\ DOMAIN at' = DOMAIN at
    BY <1>2, SendBatchesTypes DEF TypeInv
  <1>4. pc' \in [Threads -> Locations] /\ HoldersHold'
    BY <1>1, GotoTypes DEF TypeInv, NodeTypes, Locations, HoldingPlaces
  <1> QED BY <1>1, <1>3, <1>4 DEF TypeInv, NodeTypes, ClonesHold

\* Steps that only move packets from box to box.
LEMMA BoxTypes ==
    ASSUME TypeInv, NEW t \in Threads, NEW from, NEW to \in Locations,
           Goto(t, from, to), to \notin HoldingPlaces,
           DOMAIN at' = DOMAIN at,
           \A p \in DOMAIN at :
             at'[p] \in [node : Threads, box : Boxes, port : Ports \cup OutLabels],
           UNCHANGED <<storeVars, generated, clones>>
    PROVE  TypeInv'
PROOF
  <1>1. StoreTypes'
    BY DEF TypeInv, StoreTypes, RingTypes, BuffersHold, SliceTypes, storeVars
  <1>2. pc' \in [Threads -> Locations] /\ HoldersHold'
    BY GotoTypes DEF OthersKeep, TypeInv, NodeTypes, storeVars
  <1> QED BY <1>1, <1>2 DEF TypeInv, PacketTypes, NodeTypes, ClonesHold, storeVars

LEMMA GetBatchTypes ==
    ASSUME TypeInv, NEW t \in Threads, GetBatch(t)
    PROVE  TypeInv'
PROOF
  <1>1. PICK taken : at' = [p \in DOMAIN at |->
                        IF p \in taken THEN [at[p] EXCEPT !.box = "batch"] ELSE at[p]]
    BY DEF GetBatch
  <1>2. /\ DOMAIN at' = DOMAIN at
        /\ \A p \in DOMAIN at :
             at'[p] \in [node : Threads, box : Boxes, port : Ports \cup OutLabels]
    BY <1>1 DEF TypeInv, PacketTypes, Boxes
  <1>3. "wait" \in Locations /\ "wait" \notin HoldingPlaces
    BY DEF Locations, HoldingPlaces
  <1> QED BY <1>2, <1>3, BoxTypes DEF GetBatch

LEMMA ForwardTypes ==
    ASSUME TypeInv, NEW t \in Threads, Forward(t)
    PROVE  TypeInv'
PROOF
  <1>1. ClaimerOf[t] \in Threads
    BY RoleAssumption DEF Forward
  <1>2. /\ DOMAIN at' = DOMAIN at
        /\ \A p \in DOMAIN at :
             at'[p] \in [node : Threads, box : Boxes, port : Ports \cup OutLabels]
    BY <1>1 DEF Forward, TypeInv, PacketTypes, Boxes, Place, Ports
  <1>3. "idle" \in Locations /\ "idle" \notin HoldingPlaces
    BY DEF Locations, HoldingPlaces
  <1> QED BY <1>2, <1>3, BoxTypes DEF Forward

LEMMA ReceiveTypes ==
    ASSUME TypeInv, NEW t \in Threads, Receive(t)
    PROVE  TypeInv'
PROOF
  <1>1. /\ DOMAIN at' = DOMAIN at
        /\ \A p \in DOMAIN at :
             at'[p] \in [node : Threads, box : Boxes, port : Ports \cup OutLabels]
    BY DEF Receive, TypeInv, PacketTypes, Boxes, Place, Ports
  <1>2. "wait" \in Locations /\ "wait" \notin HoldingPlaces
    BY DEF Locations, HoldingPlaces
  <1> QED BY <1>1, <1>2, BoxTypes DEF Receive

\* Steps of the store alone, while the program counter stands still.
LEMMA StandingTypes ==
    ASSUME TypeInv, NEW t \in Threads, UNCHANGED nodeVars, StoreTypes',
           handle' \in [DOMAIN at -> Handles], OthersKeep(t),
           slice'[t].held \/ slice'[t].held = slice[t].held
    PROVE  TypeInv'
  BY DEF TypeInv, PacketTypes, NodeTypes, ClonesHold, HoldersHold, OthersKeep, nodeVars

LEMMA WaitTypes ==
    ASSUME TypeInv, NEW t \in Threads,
           Enter(t) \/ Follow(t) \/ WaitLocked(t) \/ WaitUncollapsed(t)
    PROVE  TypeInv'
PROOF
  <1>1. UNCHANGED nodeVars /\ UNCHANGED slice
    BY DEF Enter, Acquire, Follow, FollowMoved, WaitLocked, SleepLocked, Sleep,
           WaitUncollapsed, SleepUncollapsed
  <1>2. StoreTypes' /\ handle' \in [DOMAIN at -> Handles]
    <2>1. CASE Enter(t)
      BY <2>1, AcquireTypes DEF Enter, Acquire, TypeInv, PacketTypes
    <2>2. CASE Follow(t)
      <3>1. PICK p \in BatchOf(t) : FollowMoved(t, p)
        BY <2>2 DEF Follow
      <3>2. p \in DOMAIN at
        BY DEF BatchOf, PacketsAt
      <3> QED BY <3>1, <3>2, FollowMovedTypes DEF TypeInv, PacketTypes
    <2>3. CASE WaitLocked(t)
      BY <2>3, SleepTypes DEF WaitLocked, SleepLocked, Sleep, TypeInv, PacketTypes
    <2>4. CASE WaitUncollapsed(t)
      BY <2>4, SleepTypes DEF WaitUncollapsed, SleepUncollapsed, Sleep, TypeInv, PacketTypes
    <2> QED BY <2>1, <2>2, <2>3, <2>4
  <1> QED BY <1>1, <1>2, StandingTypes DEF OthersKeep

LEMMA LockBatchTypes ==
    ASSUME TypeInv, NEW t \in Threads, LockBatch(t)
    PROVE  TypeInv'
PROOF
  <1> DEFINE hs == {handle[p] : p \in BatchOf(t)}
  <1>1. hs \in SUBSET Handles
    BY DEF BatchOf, PacketsAt, TypeInv, PacketTypes
  <1>2. LockCells(t, hs)
    BY DEF LockBatch, GetStates
  <1>3. StoreTypes' /\ slice'[t].held /\ OthersKeep(t)
    <2> HIDE DEF hs
    <2> QED BY <1>1, <1>2, LockCellsTypes DEF TypeInv
  <1>4. UNCHANGED <<at, generated, clones, handle>>
    BY <1>2 DEF LockBatch, LockCells
  <1>5. pc' \in [Threads -> Locations] /\ HoldersHold'
    BY <1>3, GotoTypes DEF LockBatch, TypeInv, NodeTypes, Locations
  <1> QED BY <1>3, <1>4, <1>5 DEF TypeInv, PacketTypes, NodeTypes, ClonesHold

LEMMA RelockTypes ==
    ASSUME TypeInv, NEW t \in Threads, Relock(t)
    PROVE  TypeInv'
PROOF
  <1>1. DOMAIN clones[t] \in SUBSET Handles
    BY DEF TypeInv, ClonesHold
  <1>2. LockCells(t, DOMAIN clones[t])
    BY DEF Relock, GetStatesFromRawHandles
  <1>3. StoreTypes' /\ slice'[t].held /\ OthersKeep(t)
    BY <1>1, <1>2, LockCellsTypes DEF TypeInv
  <1>4. UNCHANGED <<at, generated, clones, handle>>
    BY <1>2 DEF Relock, LockCells
  <1>5. pc' \in [Threads -> Locations] /\ HoldersHold'
    BY <1>3, GotoTypes DEF Relock, TypeInv, NodeTypes, Locations
  <1> QED BY <1>3, <1>4, <1>5 DEF TypeInv, PacketTypes, NodeTypes, ClonesHold

LEMMA MixTypes ==
    ASSUME TypeInv, NEW t \in Threads, Correct(t) \/ Merge(t)
    PROVE  TypeInv'
PROOF
  <1>1. CASE Correct(t)
    <2>1. PICK p \in BatchOf(t) : CorrectHandle(t, p)
      BY <1>1 DEF Correct
    <2>2. p \in DOMAIN at
      BY DEF BatchOf, PacketsAt
    <2> QED BY <1>1, <2>1, <2>2, CorrectHandleTypes, StandingTypes DEF Correct, TypeInv, PacketTypes
  <1>2. CASE Merge(t)
    <2>1. PICK early, late \in BatchOf(t) : MergeIslands(t, handle[late], handle[early])
      BY <1>2 DEF Merge
    <2>2. handle[late] \in Handles /\ handle[early] \in Handles /\ UNCHANGED handle
      BY <2>1 DEF BatchOf, PacketsAt, TypeInv, PacketTypes, MergeIslands
    <2>3. StoreTypes' /\ slice'[t].held /\ OthersKeep(t)
      BY <2>1, <2>2, MergeIslandsTypes DEF TypeInv
    <2> QED BY <1>2, <2>2, <2>3, StandingTypes DEF Merge, TypeInv, PacketTypes
  <1> QED BY <1>1, <1>2

LEMMA ScatterTypes ==
    ASSUME TypeInv, NEW t \in Threads, NEW labels \in SUBSET OutLabels,
           Goto(t, "work", "worked"), Scatter(t, labels)
    PROVE  TypeInv'
PROOF
  <1> DEFINE batch   == BatchOf(t)
             c       == slice[t].buff
             here(x) == {p \in batch : handle[p] % c = x}
             sinks(packets) == {SetSnowflake(p, l) : p \in packets, l \in labels}
             new(x)  == Scattered(bufs[c][x], here(x), sinks(here(x)))
             cells   == [x \in 0 .. c - 1 |->
                           IF \E h \in {handle[p] : p \in batch} : h % c = x
                           THEN new(x) ELSE bufs[c][x]]
             label(q) == q.path[Len(q.path)]
  <1>1. /\ bufs' = [bufs EXCEPT ![c] = cells]
        /\ UNCHANGED <<start, end, cap, reg, slice, mutex, asleep>>
        /\ \A p \in batch : IsIsland(SliceCell(t, handle[p]))
    BY DEF Scatter, SetCells
  <1>2. /\ handle' = [q \in (DOMAIN handle \ batch) \cup sinks(batch) |->
                        IF q \in sinks(batch) THEN handle[ParentOf(q)] ELSE handle[q]]
        /\ at' = [q \in (DOMAIN at \ batch) \cup sinks(batch) |->
                    IF q \in sinks(batch) THEN Place(t, "out", label(q)) ELSE at[q]]
        /\ UNCHANGED <<generated, clones>>
    BY DEF Scatter
  <1>3. /\ batch \in SUBSET DOMAIN at /\ IsFiniteSet(batch) /\ batch \in SUBSET Packets
        /\ handle \in [DOMAIN at -> Handles]
    <2>1. batch \in SUBSET DOMAIN at /\ DOMAIN at \in SUBSET Packets /\ handle \in [DOMAIN at -> Handles]
      BY DEF BatchOf, PacketsAt, TypeInv, PacketTypes
    <2>2. IsFiniteSet(batch)
      BY <2>1, FS_Subset DEF TypeInv
    <2> QED BY <2>1, <2>2
  <1>4. slice[t].held /\ c \in DOMAIN bufs /\ bufs[c] \in [0 .. c - 1 -> Cells]
    BY DEF Goto, TypeInv, HoldersHold, HoldingPlaces, StoreTypes, BuffersHold
  <1>5. ASSUME NEW packets \in SUBSET batch
        PROVE  sinks(packets) \in SUBSET Packets /\ IsFiniteSet(sinks(packets))
    <2>1. IsFiniteSet(packets) /\ IsFiniteSet(labels)
      BY <1>3, FiniteLabels, FS_Subset
    <2>2. IsFiniteSet(sinks(packets))
      BY <2>1, FiniteSinks
    <2>3. \A p \in packets, l \in labels : SetSnowflake(p, l) \in Packets
      BY <1>3, ParentOfSink
    <2> QED BY <2>2, <2>3
  <1>6. ASSUME NEW x \in 0 .. c - 1, \E h \in {handle[p] : p \in batch} : h % c = x
        PROVE  new(x) \in Cells
    <2>1. bufs[c][x] \in Cells /\ IsIsland(bufs[c][x])
      BY <1>1, <1>4, <1>6 DEF SliceCell
    <2> DEFINE island == bufs[c][x]
    <2>2. /\ island.active \in SUBSET Packets /\ IsFiniteSet(island.active)
          /\ island.done \in Nat
      BY <2>1, CellFields
    <2>3. sinks(here(x)) \in SUBSET Packets /\ IsFiniteSet(sinks(here(x)))
      <3>1. here(x) \in SUBSET batch
        OBVIOUS
      <3> HIDE DEF here, sinks
      <3> QED BY <1>5, <3>1
    <2>4. IsFiniteSet(island.active \ here(x))
      BY <2>2, FS_Subset
    <2> HIDE DEF island, here, sinks
    <2>5. IsFiniteSet((island.active \ here(x)) \cup sinks(here(x)))
      BY <2>3, <2>4, FS_Union
    <2>6. ((island.active \ here(x)) \cup sinks(here(x))) \in SUBSET Packets
      BY <2>2, <2>3
    <2>7. Island((island.active \ here(x)) \cup sinks(here(x)), island.done) \in Cells
      BY <2>2, <2>5, <2>6, IslandType
    <2> QED BY <2>7 DEF Scattered, island
  <1>7. cells \in [0 .. c - 1 -> Cells]
    <2> HIDE DEF new
    <2> QED BY <1>4, <1>6
  <1>8. StoreTypes'
    <2>1. SliceTypes'
      BY <1>1 DEF TypeInv, StoreTypes, SliceTypes
    <2> HIDE DEF cells
    <2> QED BY <1>1, <1>4, <1>7, <2>1, BufferRewritten DEF TypeInv
  <1>9. ASSUME NEW q \in sinks(batch)
        PROVE  handle[ParentOf(q)] \in Handles /\ label(q) \in OutLabels
    <2>1. PICK p \in batch, l \in labels : q = SetSnowflake(p, l)
      OBVIOUS
    <2>2. p \in Packets /\ p \in DOMAIN at /\ l \in OutLabels
      BY <1>3
    <2>3. ParentOf(q) = p /\ label(q) = l
      <3>1. ParentOf(q) = p
        BY <2>1, <2>2, ParentOfSink
      <3>2. p.path \in Seq(OutLabels) /\ q.path = Append(p.path, l)
        BY <2>1, <2>2 DEF SetSnowflake, Packets
      <3> QED BY <3>1, <3>2
    <2> QED BY <1>3, <2>2, <2>3
  <1>10. PacketTypes' /\ IsFiniteSet((DOMAIN at)')
    <2>1. sinks(batch) \in SUBSET Packets /\ IsFiniteSet(sinks(batch))
      <3> HIDE DEF sinks, batch
      <3> QED BY <1>5
    <2>2. IsFiniteSet(DOMAIN at \ batch)
      BY FS_Subset DEF TypeInv
    <2> HIDE DEF sinks, batch, label
    <2>3. IsFiniteSet((DOMAIN at \ batch) \cup sinks(batch))
      BY <2>1, <2>2, FS_Union
    <2>4. DOMAIN at' = (DOMAIN at \ batch) \cup sinks(batch)
          /\ DOMAIN handle' = (DOMAIN at \ batch) \cup sinks(batch)
      BY <1>2, <1>3
    <2>5. ASSUME NEW q \in DOMAIN at'
          PROVE  /\ q \in Packets
                 /\ handle'[q] \in Handles
                 /\ at'[q] \in [node : Threads, box : Boxes, port : Ports \cup OutLabels]
      <3>1. CASE q \in sinks(batch)
        BY <1>2, <1>3, <1>9, <2>1, <2>4, <3>1 DEF Place, Boxes
      <3>2. CASE q \notin sinks(batch)
        BY <1>2, <1>3, <2>4, <3>2 DEF TypeInv, PacketTypes
      <3> QED BY <3>1, <3>2
    <2>6. handle' \in [DOMAIN at' -> Handles]
      BY <1>2, <2>4, <2>5
    <2> QED BY <2>3, <2>4, <2>5, <2>6 DEF PacketTypes
  <1>11. pc' \in [Threads -> Locations] /\ HoldersHold'
    BY <1>1, <1>4, GotoTypes DEF OthersKeep, TypeInv, NodeTypes, Locations
  <1> QED BY <1>2, <1>8, <1>10, <1>11 DEF TypeInv, NodeTypes, ClonesHold

LEMMA TerminateTypes ==
    ASSUME TypeInv, NEW t \in Threads, Terminate(t)
    PROVE  TypeInv'
PROOF
  <1> DEFINE batch   == BatchOf(t)
             c       == slice[t].buff
             here(x) == {p \in batch : handle[p] % c = x}
             new(x)  == Island(bufs[c][x].active, bufs[c][x].done + Cardinality(here(x)))
             ready   == {h \in slice[t].indices : IsCollapseReady(new(h % c))}
             cells   == [x \in 0 .. c - 1 |->
                           IF \E h \in {handle[p] : p \in batch} : h % c = x
                           THEN new(x) ELSE bufs[c][x]]
  <1>1. /\ bufs' = [bufs EXCEPT ![c] = cells]
        /\ UNCHANGED <<start, end, cap, reg, slice, mutex, asleep>>
        /\ {handle[p] : p \in batch} \subseteq slice[t].indices
    BY DEF Terminate, SetCells
  <1>2. /\ Goto(t, "work", "worked")
        /\ \A h \in slice[t].indices : IsIsland(SliceCell(t, h))
        /\ clones' = [clones EXCEPT ![t] = [h \in ready |-> new(h % c)]]
        /\ at' = [p \in DOMAIN at |->
                    IF p \in batch THEN [at[p] EXCEPT !.box = "detected"] ELSE at[p]]
        /\ UNCHANGED <<handle, generated>>
    BY DEF Terminate
  <1>3. /\ slice[t].held /\ c \in DOMAIN bufs /\ bufs[c] \in [0 .. c - 1 -> Cells]
        /\ slice[t].indices \in SUBSET Handles
    BY <1>2 DEF Goto, TypeInv, HoldersHold, HoldingPlaces, StoreTypes, BuffersHold, SliceTypes
  <1>4. ASSUME NEW h \in slice[t].indices
        PROVE  /\ new(h % c) \in Cells
               /\ new(h % c).active \in SUBSET Packets /\ IsFiniteSet(new(h % c).active)
    <2> DEFINE island == bufs[c][h % c]
    <2>1. island \in Cells /\ IsIsland(island)
      <3>1. h \in Int
        BY <1>3, HandlesAreIntegers
      <3> QED BY <1>2, <1>3, <3>1, StoredCell DEF SliceCell, TypeInv
    <2>2. /\ island.active \in SUBSET Packets /\ IsFiniteSet(island.active)
          /\ island.done \in Nat
      <3> HIDE DEF island
      <3> QED BY <2>1, CellFields
    <2>3. Cardinality(here(h % c)) \in Nat
      <3>1. here(h % c) \in SUBSET DOMAIN at
        BY DEF BatchOf, PacketsAt
      <3> HIDE DEF here
      <3> QED BY <3>1, FS_Subset, FS_CardinalityType DEF TypeInv
    <2>4. new(h % c) = Island(island.active, island.done + Cardinality(here(h % c)))
      OBVIOUS
    <2> HIDE DEF new, here, island
    <2>5. island.done + Cardinality(here(h % c)) \in Nat
      BY <2>2, <2>3
    <2>6. new(h % c) \in Cells
      BY <2>2, <2>4, <2>5, IslandType
    <2>7. new(h % c).active = island.active
      BY <2>4 DEF Island
    <2> QED BY <2>2, <2>6, <2>7
  <1>5. cells \in [0 .. c - 1 -> Cells]
    <2>1. \A x \in 0 .. c - 1 : (\E h \in {handle[p] : p \in batch} : h % c = x) => new(x) \in Cells
      <3> HIDE DEF new
      <3> QED BY <1>1, <1>4
    <2> HIDE DEF new
    <2> QED BY <1>3, <2>1
  <1>6. StoreTypes'
    <2>1. SliceTypes'
      BY <1>1 DEF TypeInv, StoreTypes, SliceTypes
    <2> HIDE DEF cells
    <2> QED BY <1>1, <1>3, <1>5, <2>1, BufferRewritten DEF TypeInv
  <1>7. PacketTypes' /\ DOMAIN at' = DOMAIN at
    <2> HIDE DEF batch
    <2> QED BY <1>2 DEF TypeInv, PacketTypes, Boxes
  <1>8. ClonesHold' /\ DOMAIN clones' = Threads
    <2>1. \A h \in ready : /\ h \in Handles
                           /\ new(h % c).active \in SUBSET Packets
                           /\ IsFiniteSet(new(h % c).active)
      <3> HIDE DEF new
      <3> QED BY <1>3, <1>4
    <2> DEFINE taken == [h \in ready |-> new(h % c)]
    <2>2. /\ DOMAIN taken \subseteq Handles
          /\ \A h \in DOMAIN taken : /\ taken[h].active \in SUBSET Packets
                                     /\ IsFiniteSet(taken[h].active)
      <3> HIDE DEF new, ready
      <3> QED BY <2>1
    <2>3. clones' = [clones EXCEPT ![t] = taken]
      BY <1>2
    <2> HIDE DEF taken
    <2> QED BY <2>2, <2>3 DEF TypeInv, ClonesHold, NodeTypes
  <1>9. pc' \in [Threads -> Locations] /\ HoldersHold'
    BY <1>1, <1>2, <1>3, GotoTypes DEF OthersKeep, TypeInv, NodeTypes, Locations
  <1> QED BY <1>2, <1>6, <1>7, <1>8, <1>9 DEF TypeInv, NodeTypes

LEMMA PublishTypes ==
    ASSUME TypeInv, NEW t \in Threads, Publish(t)
    PROVE  TypeInv'
PROOF
  <1> DEFINE c     == slice[t].buff
             hs    == DOMAIN clones[t]
             packets(x) == UNION {clones[t][h].active : h \in {g \in hs : g % c = x}}
             new(x) == Collapse(packets(x))
             cells == [x \in 0 .. c - 1 |-> IF \E h \in hs : h % c = x THEN new(x) ELSE bufs[c][x]]
  <1>1. /\ bufs' = [bufs EXCEPT ![c] = cells]
        /\ UNCHANGED <<start, end, cap, reg, slice, mutex, asleep>>
    BY DEF Publish, SetCells
  <1>2. /\ Goto(t, "publish", "published")
        /\ clones' = [clones EXCEPT ![t] = [h \in {} |-> NoCell]]
        /\ UNCHANGED <<handle, at, generated>>
    BY DEF Publish
  <1>3. slice[t].held /\ c \in DOMAIN bufs /\ bufs[c] \in [0 .. c - 1 -> Cells]
    BY <1>2 DEF Goto, TypeInv, HoldersHold, HoldingPlaces, StoreTypes, BuffersHold
  <1>4. hs \in SUBSET Handles
        /\ \A h \in hs : clones[t][h].active \in SUBSET Packets /\ IsFiniteSet(clones[t][h].active)
    BY DEF TypeInv, ClonesHold
  <1>5. ASSUME NEW x PROVE new(x) \in Cells
    <2> DEFINE gs == {g \in hs : g % c = x}
               f  == [h \in gs |-> clones[t][h].active]
               S  == {clones[t][h].active : h \in gs}
    <2>1. IsFiniteSet(gs)
      <3>1. IsFiniteSet(Handles)
        BY CapacityAssumption, FS_Interval DEF Handles
      <3> QED BY <1>4, <3>1, FS_Subset
    <2>2. f \in Surjection(gs, S)
      BY DEF Surjection
    <2>3. IsFiniteSet(S)
      BY <2>1, <2>2, FS_Surjection
    <2>4. \A y \in S : IsFiniteSet(y) /\ y \in SUBSET Packets
      BY <1>4
    <2>5. packets(x) = UNION S
      OBVIOUS
    <2> HIDE DEF S, packets
    <2>6. packets(x) \in SUBSET Packets /\ IsFiniteSet(packets(x))
      BY <2>3, <2>4, <2>5, FS_UNION
    <2>7. Cardinality(packets(x)) \in Int
      BY <2>6, FS_CardinalityType
    <2> QED BY <2>6, <2>7, ResultType DEF Collapse
  <1>6. cells \in [0 .. c - 1 -> Cells]
    <2> HIDE DEF new
    <2> QED BY <1>3, <1>5
  <1>7. StoreTypes'
    <2>1. SliceTypes'
      BY <1>1 DEF TypeInv, StoreTypes, SliceTypes
    <2> HIDE DEF cells
    <2> QED BY <1>1, <1>3, <1>6, <2>1, BufferRewritten DEF TypeInv
  <1>8. ClonesHold' /\ DOMAIN clones' = Threads
    BY <1>2 DEF TypeInv, ClonesHold, NodeTypes
  <1>9. pc' \in [Threads -> Locations] /\ HoldersHold'
    BY <1>1, <1>2, <1>3, GotoTypes DEF OthersKeep, TypeInv, NodeTypes, Locations
  <1> QED BY <1>2, <1>7, <1>8, <1>9 DEF TypeInv, PacketTypes, NodeTypes

LEMMA DropOnlyTypes ==
    ASSUME TypeInv, NEW t \in Threads, DropDetected(t) \/ DropPublished(t)
    PROVE  TypeInv'
PROOF
  <1>1. /\ DropSlice(t) /\ UNCHANGED <<at, generated, clones>>
        /\ \E from : \E to \in {"relock", "forward"} : Goto(t, from, to)
    BY DEF DropDetected, DropPublished
  <1>2. StoreTypes' /\ OthersKeep(t) /\ UNCHANGED handle
    BY <1>1, DropSliceTypes DEF TypeInv, DropSlice
  <1>3. pc' \in [Threads -> Locations] /\ HoldersHold'
    BY <1>1, <1>2, GotoTypes DEF TypeInv, NodeTypes, Locations, HoldingPlaces
  <1> QED BY <1>1, <1>2, <1>3 DEF TypeInv, PacketTypes, NodeTypes, ClonesHold

LEMMA ClaimTypes ==
    ASSUME TypeInv, NEW t \in Threads, Claim(t)
    PROVE  TypeInv'
PROOF
  <1>1. BatchOf(t) \in SUBSET DOMAIN at
    BY DEF BatchOf, PacketsAt
  <1>2. /\ ClaimCollapsed(t, BatchOf(t)) /\ Goto(t, "wait", "idle")
        /\ at' = [p \in DOMAIN at \ BatchOf(t) |-> at[p]]
        /\ UNCHANGED <<generated, clones>>
    BY DEF Claim
  <1>3. StoreTypes' /\ handle' \in [DOMAIN at \ BatchOf(t) -> Handles]
    BY <1>1, <1>2, ClaimCollapsedTypes DEF TypeInv, PacketTypes
  <1>4. OthersKeep(t)
    BY <1>2 DEF ClaimCollapsed, OthersKeep
  <1>5. PacketTypes' /\ IsFiniteSet((DOMAIN at)')
    <2>1. DOMAIN at' = DOMAIN at \ BatchOf(t) /\ \A p \in DOMAIN at' : at'[p] = at[p]
      BY <1>2
    <2>2. IsFiniteSet(DOMAIN at')
      BY <2>1, FS_Subset DEF TypeInv
    <2> QED BY <1>3, <2>1, <2>2 DEF TypeInv, PacketTypes
  <1>6. pc' \in [Threads -> Locations] /\ HoldersHold'
    BY <1>2, <1>4, GotoTypes DEF TypeInv, NodeTypes, Locations, HoldingPlaces
  <1> QED BY <1>2, <1>3, <1>5, <1>6 DEF TypeInv, NodeTypes, ClonesHold

LEMMA StepTypes ==
    ASSUME TypeInv, NEW t \in Threads, Step(t)
    PROVE  TypeInv'
PROOF
  <1>1. CASE Generate(t)
    BY <1>1, GenerateTypes
  <1>2. CASE Populate(t)
    BY <1>2, PopulateTypes
  <1>3. CASE SendPairs(t) \/ SendSinks(t)
    BY <1>3, SendTypes DEF SendPairs, SendSinks
  <1>4. CASE GetBatch(t)
    BY <1>4, GetBatchTypes
  <1>5. CASE Enter(t) \/ Follow(t) \/ WaitLocked(t) \/ WaitUncollapsed(t)
    BY <1>5, WaitTypes
  <1>6. CASE LockBatch(t)
    BY <1>6, LockBatchTypes
  <1>7. CASE Transmit(t) \/ Split(t)
    <2>1. {"through"} \in SUBSET OutLabels /\ {"left", "right"} \in SUBSET OutLabels
      BY DEF OutLabels
    <2> QED BY <1>7, <2>1, ScatterTypes DEF Transmit, Split
  <1>8. CASE Correct(t) \/ Merge(t)
    BY <1>8, MixTypes
  <1>9. CASE Terminate(t)
    BY <1>9, TerminateTypes
  <1>10. CASE DropDetected(t) \/ DropPublished(t)
    BY <1>10, DropOnlyTypes
  <1>11. CASE Relock(t)
    BY <1>11, RelockTypes
  <1>12. CASE Publish(t)
    BY <1>12, PublishTypes
  <1>13. CASE Forward(t)
    BY <1>13, ForwardTypes
  <1>14. CASE Receive(t)
    BY <1>14, ReceiveTypes
  <1>15. CASE Claim(t)
    BY <1>15, ClaimTypes
  <1> QED BY <1>1, <1>2, <1>3, <1>4, <1>5, <1>6, <1>7, <1>8, <1>9, <1>10, <1>11,
             <1>12, <1>13, <1>14, <1>15 DEF Step

\* Type correctness: whatever the topology, the number of threads, the bounds
\* and the sizes of the ring and of its buffers, every registry entry, cell,
\* slice, handle and packet keeps its type: in particular every handle stays
\* within the wrapping index range, whichever merges, redirections, reallocations
\* and retirements happened (interaction_store.rs).
THEOREM StoreTypeCorrect == Spec => []TypeOK
PROOF
  <1>1. Init => TypeInv
    BY InitTypes
  <1>2. TypeInv /\ [Next]_vars => TypeInv'
    <2> SUFFICES ASSUME TypeInv, [Next]_vars PROVE TypeInv'
      OBVIOUS
    <2>1. CASE \E t \in Threads : Step(t)
      BY <2>1, StepTypes
    <2>2. CASE UNCHANGED vars
      BY <2>2 DEF vars, storeVars, nodeVars, TypeInv, StoreTypes, RingTypes, BuffersHold,
                  SliceTypes, PacketTypes, NodeTypes, HoldersHold, ClonesHold
    <2> QED BY <2>1, <2>2 DEF Next, Finished
  <1>3. TypeInv => TypeOK
    BY TypeInvImpliesTypeOK
  <1> QED BY <1>1, <1>2, <1>3, PTL DEF Spec

-----------------------------------------------------------------------------
(* Remainders.                                                             *)

LEMMA MultiplesApart ==
    ASSUME NEW k \in Int, NEW n \in Nat, n # 0, - n < k * n, k * n < n
    PROVE  k = 0
PROOF
  <1>1. CASE k >= 1
    <2>1. PICK j \in Nat : k = j + 1
      <3>1. k - 1 \in Nat /\ k = (k - 1) + 1
        BY <1>1
      <3> QED BY <3>1
    <2>2. k * n = j * n + n /\ j * n >= 0
      BY <2>1
    <2> QED BY <2>2
  <1>2. CASE k <= - 1
    <2>1. PICK j \in Nat : k = - 1 - j
      <3>1. - 1 - k \in Nat /\ k = - 1 - (- 1 - k)
        BY <1>2
      <3> QED BY <3>1
    <2>2. k * n = - n - j * n /\ j * n >= 0
      BY <2>1
    <2> QED BY <2>2
  <1> QED BY <1>1, <1>2

LEMMA Quotient ==
    ASSUME NEW a \in Int, NEW n \in Nat, n # 0
    PROVE  \E q \in Int : a = q * n + (a % n)
PROOF
  <1>1. a \div n \in Int /\ a = (a \div n) * n + (a % n)
    OBVIOUS
  <1> QED BY <1>1

LEMMA RemainderIs ==
    ASSUME NEW a \in Int, NEW n \in Nat, n # 0, NEW q \in Int, NEW r \in 0 .. n - 1,
           a = q * n + r
    PROVE  a % n = r
PROOF
  <1>1. PICK q2 \in Int : a = q2 * n + (a % n)
    BY Quotient
  <1>2. a % n \in 0 .. n - 1
    BY ModType
  <1>3. (q2 - q) * n = q2 * n - q * n
    OBVIOUS
  <1>4. (q2 - q) * n = r - (a % n)
    BY <1>1, <1>2, <1>3
  <1>5. q2 - q = 0
    BY <1>2, <1>4, MultiplesApart
  <1> QED BY <1>2, <1>4, <1>5

LEMMA SmallRemainder ==
    ASSUME NEW n \in Nat, NEW a \in 0 .. n - 1
    PROVE  a % n = a
PROOF
  <1>1. n # 0 /\ a = 0 * n + a /\ a \in Int
    OBVIOUS
  <1> QED BY <1>1, RemainderIs

\* The same with the terms named, as the provers want them.
LEMMA SumOfMultiples ==
    ASSUME NEW n \in Int, NEW k \in Int, NEW j \in Int, NEW a \in Int, NEW b \in Int,
           NEW r \in Int, NEW v \in Int, a = k * n + r, r + b = j * n + v
    PROVE  a + b = (k + j) * n + v
  OBVIOUS

LEMMA MultipleOfMultiple ==
    ASSUME NEW n \in Int, NEW m \in Int, NEW c \in Int, NEW a \in Int, NEW r \in Int,
           NEW k \in Int, NEW j \in Int, NEW v \in Int,
           n = m * c, a = k * n + r, r = j * c + v
    PROVE  a = (k * m + j) * c + v
PROOF
  <1>1. k * n = (k * m) * c
    OBVIOUS
  <1> QED BY <1>1

LEMMA RemainderOfSum ==
    ASSUME NEW a \in Int, NEW b \in Int, NEW n \in Nat, n # 0
    PROVE  ((a % n) + b) % n = (a + b) % n
PROOF
  <1> DEFINE r == a % n
             u == a + b
             w == r + b
             v == w % n
  <1>1. PICK k \in Int : a = k * n + r
    BY Quotient
  <1>2. r \in Int /\ u \in Int /\ w \in Int
    BY ModType
  <1>3. v \in 0 .. n - 1
    <2> HIDE DEF w
    <2> QED BY <1>2, ModType
  <1>4. PICK j \in Int : w = j * n + v
    <2> HIDE DEF w
    <2> QED BY <1>2, Quotient
  <1>5. PICK i \in Int : u = i * n + v
    <2>1. r + b = j * n + v
      BY <1>4
    <2> HIDE DEF r, v
    <2>2. u = (k + j) * n + v
      BY <1>1, <1>2, <1>3, <2>1, SumOfMultiples
    <2>3. k + j \in Int
      OBVIOUS
    <2> QED BY <2>2, <2>3, Zenon
  <1>6. u % n = v
    <2> HIDE DEF u, v
    <2> QED BY <1>2, <1>3, <1>5, RemainderIs
  <1> QED BY <1>6

LEMMA RemainderOfRemainder ==
    ASSUME NEW a \in Int, NEW c \in Capacities
    PROVE  (a % IndexRange) % c = a % c
PROOF
  <1> DEFINE n == IndexRange
             r == a % n
             v == r % c
  <1>1. c \in Nat /\ c # 0 /\ n \in Nat /\ n # 0 /\ n \in Int
    BY CapacityAssumption, CapacityType
  <1> HIDE DEF n
  <1>2. PICK m \in Int : n = m * c
    <2> DEFINE z == n % c
    <2>1. PICK m \in Int : n = m * c + z
      BY Zenon, <1>1, Quotient
    <2>2. z = 0
      BY CapacityAssumption DEF n
    <2> HIDE DEF z
    <2> QED BY <1>1, <2>1, <2>2
  <1>3. r \in Int
    BY <1>1, ModType
  <1>4. PICK k \in Int : a = k * n + r
    BY <1>1, Quotient
  <1> HIDE DEF r
  <1>5. v \in 0 .. c - 1
    BY <1>1, <1>3, ModType
  <1>6. PICK j \in Int : r = j * c + v
    BY <1>1, <1>3, Quotient
  <1> HIDE DEF v
  <1>7. PICK i \in Int : a = i * c + v
    <2>1. a = (k * m + j) * c + v
      BY <1>1, <1>2, <1>3, <1>4, <1>5, <1>6, MultipleOfMultiple
    <2>2. k * m + j \in Int
      OBVIOUS
    <2> QED BY <2>1, <2>2
  <1>8. a % c = v
    BY <1>1, <1>5, <1>7, RemainderIs
  <1> QED BY <1>8 DEF n, r, v

-----------------------------------------------------------------------------
(* The ring: a handle is determined by its distance from `start`, and two  *)
(* handles less than a capacity away from it never share a slot.           *)

Offset(h) == (h - start) % IndexRange

LEMMA RangeType == IndexRange \in Nat /\ IndexRange # 0 /\ IndexRange \in Int
  BY CapacityAssumption

LEMMA RingNumbers ==
    ASSUME RingTypes
    PROVE  /\ start \in Handles /\ start \in Int /\ end \in Handles /\ end \in Int
           /\ WindowLen \in 0 .. IndexRange - 1 /\ WindowLen \in Int
           /\ cap \in Capacities /\ cap \in Nat /\ cap # 0
PROOF
  <1>1. start \in Handles /\ start \in Int /\ end \in Handles /\ end \in Int
        /\ cap \in Capacities
    BY HandlesAreIntegers DEF RingTypes
  <1>2. end - start \in Int
    BY <1>1
  <1>3. WindowLen \in 0 .. IndexRange - 1
    BY <1>2, RangeType, ModType DEF WindowLen
  <1> QED BY <1>1, <1>3, CapacityType, RangeType

LEMMA OffsetType ==
    ASSUME start \in Int, NEW h \in Int
    PROVE  Offset(h) \in 0 .. IndexRange - 1
PROOF
  <1>1. h - start \in Int
    OBVIOUS
  <1> QED BY <1>1, RangeType, ModType DEF Offset

LEMMA PlusZero ==
    ASSUME NEW h \in Handles
    PROVE  Plus(h, 0) = h
PROOF
  <1>1. h + 0 = h /\ h \in 0 .. IndexRange - 1
    BY RangeType DEF Handles
  <1> QED BY <1>1, RangeType, SmallRemainder DEF Plus

LEMMA PlusPlus ==
    ASSUME NEW h \in Int, NEW i \in Int, NEW j \in Int
    PROVE  Plus(Plus(h, i), j) = Plus(h, i + j)
PROOF
  <1> DEFINE a == h + i
  <1>1. a \in Int /\ a + j = h + (i + j)
    OBVIOUS
  <1> HIDE DEF a
  <1>2. ((a % IndexRange) + j) % IndexRange = (a + j) % IndexRange
    BY <1>1, RangeType, RemainderOfSum
  <1>3. Plus(h, i) = a % IndexRange
    BY DEF Plus, a
  <1>4. Plus(Plus(h, i), j) = ((a % IndexRange) + j) % IndexRange
    BY <1>3 DEF Plus
  <1>5. Plus(h, i + j) = (a + j) % IndexRange
    BY <1>1 DEF Plus
  <1> QED BY <1>2, <1>4, <1>5

LEMMA PlusOffset ==
    ASSUME start \in Int, NEW h \in Handles
    PROVE  Plus(start, Offset(h)) = h
PROOF
  <1> DEFINE a == h - start
             b == start
             n == IndexRange
  <1>1. a \in Int /\ b \in Int /\ a + b = h /\ h \in 0 .. n - 1 /\ n \in Nat /\ n # 0
    BY HandlesAreIntegers, RangeType DEF Handles
  <1>2. Offset(h) = a % n
    BY DEF Offset
  <1>3. Plus(start, Offset(h)) = (b + (a % n)) % n
    BY <1>2 DEF Plus
  <1>4. a % n \in Int
    <2> HIDE DEF a, n
    <2> QED BY <1>1, ModType
  <1> HIDE DEF a, b, n
  <1>5. b + (a % n) = (a % n) + b
    BY <1>1, <1>4
  <1>6. ((a % n) + b) % n = (a + b) % n
    BY <1>1, RemainderOfSum
  <1>7. h % n = h
    BY <1>1, SmallRemainder
  <1> QED BY <1>1, <1>3, <1>5, <1>6, <1>7

LEMMA OffsetOfPlus ==
    ASSUME start \in Int, NEW i \in 0 .. IndexRange - 1
    PROVE  Offset(Plus(start, i)) = i
PROOF
  <1> DEFINE a == start + i
             b == - start
             n == IndexRange
  <1>1. a \in Int /\ b \in Int /\ a + b = i /\ i \in 0 .. n - 1 /\ n \in Nat /\ n # 0
    BY RangeType
  <1>2. Offset(Plus(start, i)) = ((a % n) - start) % n
    BY DEF Offset, Plus
  <1>3. (a % n) - start = (a % n) + b
    <2>1. a % n \in Int
      <3> HIDE DEF a, n
      <3> QED BY <1>1, ModType
    <2> DEFINE r == a % n
    <2> HIDE DEF a, n, r
    <2>2. r - start = r + b
      BY <2>1 DEF r
    <2> QED BY <2>2 DEF r
  <1> HIDE DEF a, b, n
  <1>4. ((a % n) + b) % n = (a + b) % n
    BY <1>1, RemainderOfSum
  <1>5. i % n = i
    BY <1>1, SmallRemainder
  <1> QED BY <1>1, <1>2, <1>3, <1>4, <1>5

LEMMA SlotOfPlus ==
    ASSUME NEW h \in Int, NEW i \in Int, NEW c \in Capacities
    PROVE  Plus(h, i) % c = (h + i) % c
PROOF
  <1>1. h + i \in Int
    OBVIOUS
  <1> QED BY <1>1, RemainderOfRemainder DEF Plus

LEMMA EqualRemainders ==
    ASSUME NEW a \in Int, NEW b \in Int, NEW n \in Nat, n # 0, a % n = b % n,
           - n < a - b, a - b < n
    PROVE  a = b
PROOF
  <1> DEFINE r == a % n
  <1>1. r \in Int
    BY ModType
  <1>2. PICK k \in Int : a = k * n + r
    BY Quotient
  <1>3. PICK j \in Int : b = j * n + r
    BY Quotient
  <1> HIDE DEF r
  <1>4. k - j \in Int /\ (k - j) * n = a - b
    BY <1>1, <1>2, <1>3
  <1>5. k - j = 0
    BY <1>4, MultiplesApart
  <1> QED BY <1>1, <1>2, <1>3, <1>5

LEMMA SlotsDiffer ==
    ASSUME start \in Int, NEW c \in Capacities, NEW h \in Handles, NEW g \in Handles,
           Offset(h) < c, Offset(g) < c, h % c = g % c
    PROVE  h = g
PROOF
  <1> DEFINE i == Offset(h)
             j == Offset(g)
  <1>1. i \in Nat /\ j \in Nat /\ c \in Nat /\ c # 0 /\ i < c /\ j < c
    BY HandlesAreIntegers, OffsetType, RangeType, CapacityType
  <1>2. h = Plus(start, i) /\ g = Plus(start, j)
    BY PlusOffset
  <1> HIDE DEF i, j
  <1>3. (start + i) % c = (start + j) % c
    BY <1>1, <1>2, SlotOfPlus
  <1> DEFINE a == start + i
             b == start + j
  <1>4. a \in Int /\ b \in Int /\ - c < a - b /\ a - b < c
    BY <1>1
  <1>5. a = b
    <2>1. a % c = b % c
      BY <1>3
    <2> HIDE DEF a, b
    <2> QED BY <1>1, <1>4, <2>1, EqualRemainders
  <1>6. i = j
    BY <1>1, <1>5
  <1> QED BY <1>2, <1>6

LEMMA HandleOfSlotIs ==
    ASSUME start \in Int, NEW c \in Capacities, NEW h \in Handles, Offset(h) < c
    PROVE  HandleOfSlot(h % c, c) = h
PROOF
  <1> DEFINE i == Offset(h)
             b == - start
             a == h
  <1>1. i \in Int /\ i \in 0 .. c - 1 /\ c \in Nat /\ c # 0 /\ a \in Int /\ b \in Int
    BY HandlesAreIntegers, OffsetType, RangeType, CapacityType
  <1>2. ((a % c) + b) % c = (a + b) % c
    <2> HIDE DEF a, b
    <2> QED BY <1>1, RemainderOfSum
  <1>3. (a % c) - start = (a % c) + b
    <2> DEFINE r == a % c
    <2>1. r \in Int
      BY <1>1, ModType
    <2> HIDE DEF r
    <2>2. r - start = r + b
      BY <2>1
    <2> QED BY <2>2 DEF r
  <1>4. (a + b) % c = i % c
    <2>1. ((h - start) % IndexRange) % c = (h - start) % c
      <3>1. h - start \in Int
        BY <1>1
      <3> QED BY <3>1, RemainderOfRemainder
    <2>2. a + b = h - start
      BY <1>1
    <2> QED BY <2>1, <2>2 DEF Offset
  <1>5. i % c = i
    <2> HIDE DEF i
    <2> QED BY <1>1, SmallRemainder
  <1>6. ((h % c) - start) % c = i
    BY <1>2, <1>3, <1>4, <1>5
  <1> QED BY <1>6, PlusOffset DEF HandleOfSlot

LEMMA SameRemainder ==
    ASSUME NEW a \in Int, NEW b \in Int, NEW n \in Nat, n # 0, NEW k \in Int, a = k * n + b
    PROVE  a % n = b % n
PROOF
  <1> DEFINE r == b % n
  <1>1. r \in 0 .. n - 1 /\ r \in Int
    BY ModType
  <1>2. PICK j \in Int : b = j * n + r
    BY Quotient
  <1> HIDE DEF r
  <1>3. a = (k + j) * n + r /\ k + j \in Int
    BY <1>1, <1>2
  <1>4. a % n = r
    <2> DEFINE i == k + j
    <2>1. a = i * n + r /\ i \in Int
      BY <1>3
    <2> HIDE DEF i
    <2> QED BY <1>1, <2>1, RemainderIs
  <1> QED BY <1>4 DEF r

Congruent(a, b, n) == \E k \in Int : a = k * n + b

LEMMA CongruentRemainders ==
    ASSUME NEW a \in Int, NEW b \in Int, NEW n \in Nat, n # 0, Congruent(a, b, n)
    PROVE  a % n = b % n
PROOF
  <1>1. PICK k \in Int : a = k * n + b
    BY DEF Congruent
  <1> QED BY <1>1, SameRemainder

LEMMA RemainderOfDifference ==
    ASSUME NEW n \in Nat, n # 0, NEW x \in Int, NEW h \in Int, NEW m \in Int
    PROVE  (h - ((x + m) % n)) % n = (((h - x) % n) - m) % n
PROOF
  <1>1. PICK s \in Int, q \in Int : s = (x + m) % n /\ x + m = q * n + s
    <2>1. PICK a \in Int : a = x + m
      OBVIOUS
    <2>2. PICK q \in Int : a = q * n + (a % n)
      BY Quotient
    <2>3. a % n \in Int
      BY ModType
    <2> QED BY <2>1, <2>2, <2>3
  <1>2. PICK i \in Int, q2 \in Int : i = (h - x) % n /\ h - x = q2 * n + i
    <2>1. PICK b \in Int : b = h - x
      OBVIOUS
    <2>2. PICK q2 \in Int : b = q2 * n + (b % n)
      BY Quotient
    <2>3. b % n \in Int
      BY ModType
    <2> QED BY <2>1, <2>2, <2>3
  <1>3. Congruent(h - s, i - m, n)
    <2>1. h - s = (q2 + q) * n + (i - m)
      <3>1. x + m = q * n + s
        BY <1>1
      <3>2. h - x = q2 * n + i
        BY <1>2
      <3> QED BY <3>1, <3>2
    <2>2. q2 + q \in Int
      OBVIOUS
    <2> QED BY <2>1, <2>2 DEF Congruent
  <1>4. h - s \in Int /\ i - m \in Int
    OBVIOUS
  <1>5. (h - s) % n = (i - m) % n
    BY <1>3, <1>4, CongruentRemainders
  <1> QED BY <1>1, <1>2, <1>5

\* Distances after `start` advanced by k.
LEMMA OffsetAfter ==
    ASSUME start \in Int, NEW h \in Handles, NEW k \in Nat, k < IndexRange, start' = Plus(start, k)
    PROVE  /\ start' \in Handles
           /\ Offset(h) >= k => Offset(h)' = Offset(h) - k
           /\ Offset(h) < k => Offset(h)' = Offset(h) - k + IndexRange
PROOF
  <1>1. PICK n \in Nat : n = IndexRange /\ n # 0
    BY RangeType
  <1>2. h \in Int /\ k \in Int /\ Offset(h) \in 0 .. n - 1
    BY <1>1, HandlesAreIntegers, OffsetType
  <1>3. PICK i \in 0 .. n - 1 : i = Offset(h)
    BY <1>2
  <1>4. Offset(h)' = (i - k) % n
    <2>1. (h - ((start + k) % n)) % n = (((h - start) % n) - k) % n
      BY <1>1, <1>2, RemainderOfDifference
    <2> QED BY <1>1, <1>3, <2>1 DEF Offset, Plus
  <1>5. CASE i >= k
    <2>1. i - k \in 0 .. n - 1
      BY <1>1, <1>5
    <2>2. (i - k) % n = i - k
      BY <2>1, SmallRemainder
    <2> QED BY <1>2, <1>3, <1>4, <1>5, <2>2, PlusType
  <1>6. CASE ~ (i >= k)
    <2>1. PICK f \in Int : f = i - k + n /\ f \in 0 .. n - 1
      <3>1. i - k + n \in 0 .. n - 1
        BY <1>1, <1>6
      <3> QED BY <3>1
    <2>2. (i - k) % n = f % n
      <3>1. Congruent(i - k, f, n)
        <4>1. i - k = (- 1) * n + f /\ - 1 \in Int
          BY <2>1
        <4> QED BY <4>1 DEF Congruent
      <3>2. i - k \in Int
        OBVIOUS
      <3> QED BY <1>1, <3>1, <3>2, CongruentRemainders
    <2>3. f % n = f
      BY <2>1, SmallRemainder
    <2> QED BY <1>1, <1>2, <1>3, <1>4, <1>6, <2>1, <2>2, <2>3, PlusType
  <1> QED BY <1>5, <1>6

LEMMA WindowIs ==
    /\ Window \subseteq Handles
    /\ \A h \in Handles : h \in Window <=> Offset(h) < WindowLen
    /\ WindowLen = Offset(end)
  BY DEF Window, InWindow, Offset, WindowLen

\* create_states appends n handles at the end.
LEMMA WindowGrows ==
    ASSUME RingTypes, NEW n \in Nat, WindowLen + n < IndexRange,
           end' = Plus(end, n), start' = start,
           NEW fresh, fresh = {Plus(end, i) : i \in 0 .. n - 1}
    PROVE  /\ WindowLen' = WindowLen + n
           /\ fresh \subseteq Handles /\ fresh \cap Window = {}
           /\ Window' = Window \cup fresh
           /\ \A h \in Window' : Offset(h)' = Offset(h) /\ Offset(h) < WindowLen + n
PROOF
  <1> DEFINE w == WindowLen
  <1>1. /\ start \in Int /\ end \in Handles /\ end \in Int /\ w \in 0 .. IndexRange - 1 /\ w \in Int
        /\ IndexRange \in Int
    BY RingNumbers, RangeType
  <1>2. end = Plus(start, w)
    BY <1>1, PlusOffset, WindowIs
  <1> HIDE DEF w
  <1>3. ASSUME NEW i \in 0 .. n PROVE Plus(end, i) \in Handles /\ Offset(Plus(end, i)) = w + i
    <2>1. Plus(end, i) = Plus(start, w + i)
      BY <1>1, <1>2, PlusPlus
    <2>2. w + i \in 0 .. IndexRange - 1
      BY <1>1 DEF w
    <2>3. Offset(Plus(start, w + i)) = w + i
      BY <1>1, <2>2, OffsetOfPlus
    <2> QED BY <1>1, <2>1, <2>3, PlusType
  <1>4. \A h : Offset(h)' = Offset(h)
    BY DEF Offset
  <1>5. WindowLen' = w + n
    <2>1. n \in 0 .. n
      OBVIOUS
    <2>2. WindowLen' = Offset(end')
      BY DEF WindowLen, Offset
    <2> QED BY <1>3, <2>1, <2>2
  <1>6. fresh \subseteq Handles /\ \A h \in fresh : Offset(h) >= w /\ Offset(h) < w + n
    BY <1>1, <1>3
  <1>7. \A h \in Handles : h \in Window <=> Offset(h) < w
    BY WindowIs DEF w
  <1>8. \A h : h \in Window' <=> h \in Handles /\ Offset(h) < w + n
    BY <1>4, <1>5 DEF Window, InWindow, Offset
  <1>9. ASSUME NEW h \in Handles, Offset(h) >= w, Offset(h) < w + n PROVE h \in fresh
    <2> DEFINE i == Offset(h) - w
    <2>1. Offset(h) \in Int
      BY <1>1, HandlesAreIntegers, OffsetType, RangeType
    <2>2. i \in Int /\ i \in 0 .. n - 1 /\ w + i = Offset(h)
      BY <1>1, <1>9, <2>1
    <2>3. Plus(end, i) = Plus(start, w + i)
      <3> HIDE DEF i
      <3> QED BY <1>1, <1>2, <2>2, PlusPlus
    <2>4. h = Plus(end, i)
      BY <1>1, <2>2, <2>3, PlusOffset
    <2> QED BY <2>2, <2>4
  <1>10. \A h \in Handles : Offset(h) \in Int
    BY <1>1, HandlesAreIntegers, OffsetType, RangeType
  <1>11. fresh \cap Window = {}
    <2> SUFFICES ASSUME NEW h \in fresh, h \in Window PROVE FALSE
      OBVIOUS
    <2>1. h \in Handles /\ Offset(h) >= w /\ Offset(h) \in Int
      BY <1>6, <1>10
    <2>2. Offset(h) < w
      BY <1>7, <2>1
    <2> QED BY <1>1, <2>1, <2>2
  <1>12. Window' = Window \cup fresh
    <2>1. ASSUME NEW h \in Window' PROVE h \in Window \cup fresh
      <3>1. h \in Handles /\ Offset(h) < w + n /\ Offset(h) \in Int
        BY <1>8, <1>10, <2>1
      <3>2. CASE Offset(h) < w
        BY <1>7, <3>1, <3>2
      <3>3. CASE Offset(h) >= w
        BY <1>9, <3>1, <3>3
      <3> QED BY <1>1, <3>1, <3>2, <3>3
    <2>2. ASSUME NEW h \in Window \cup fresh PROVE h \in Window'
      <3>1. h \in Handles /\ Offset(h) \in Int
        BY <1>6, <1>10, WindowIs
      <3> QED BY <1>1, <1>6, <1>7, <1>8, <3>1
    <2> QED BY <2>1, <2>2
  <1> QED BY <1>4, <1>5, <1>6, <1>8, <1>11, <1>12 DEF w

\* The drop of a slice takes the first k handles away.
LEMMA WindowShrinks ==
    ASSUME RingTypes, NEW k \in 0 .. WindowLen, start' = Plus(start, k), end' = end
    PROVE  /\ WindowLen' = WindowLen - k
           /\ \A h : h \in Window' <=> h \in Window /\ Offset(h) >= k
PROOF
  <1>1. /\ start \in Int /\ end \in Handles /\ WindowLen \in 0 .. IndexRange - 1 /\ IndexRange \in Int
        /\ k \in Nat /\ k < IndexRange /\ WindowLen \in Int
    BY RingNumbers, RangeType
  <1>2. WindowLen' = WindowLen - k
    <2>1. Offset(end)' = Offset(end) - k
      BY <1>1, OffsetAfter, WindowIs
    <2>2. WindowLen' = Offset(end)'
      BY DEF WindowLen, Offset
    <2> QED BY <2>1, <2>2, WindowIs
  <1>3. ASSUME NEW h \in Handles PROVE h \in Window' <=> h \in Window /\ Offset(h) >= k
    <2>1. h \in Window' <=> Offset(h)' < WindowLen'
      BY DEF Window, InWindow, Offset
    <2>2. Offset(h) \in 0 .. IndexRange - 1
      BY <1>1, HandlesAreIntegers, OffsetType
    <2>3. h \in Window <=> Offset(h) < WindowLen
      BY WindowIs
    <2>4. /\ Offset(h) >= k => Offset(h)' = Offset(h) - k
          /\ Offset(h) < k => Offset(h)' = Offset(h) - k + IndexRange
      BY <1>1, OffsetAfter
    <2>5. CASE Offset(h) >= k
      BY <1>1, <1>2, <2>1, <2>2, <2>3, <2>4, <2>5
    <2>6. CASE Offset(h) < k
      BY <1>1, <1>2, <2>1, <2>2, <2>3, <2>4, <2>6
    <2> QED BY <1>1, <2>2, <2>5, <2>6
  <1>4. Window' \subseteq Handles /\ Window \subseteq Handles
    BY DEF Window
  <1> QED BY <1>2, <1>3, <1>4

-----------------------------------------------------------------------------
(* The invariant of the ring.                                              *)

WindowFits == WindowLen <= cap

SlicesInWindow ==
    \A t \in Holders :
      /\ slice[t].indices \subseteq Window
      /\ slice[t].moved \subseteq slice[t].indices
      /\ slice[t].buff <= cap

SlicesApart ==
    \A t, u \in Holders : t # u => slice[t].indices \cap slice[u].indices = {}

LockedIsHeld ==
    \A h \in Window : State(h) = "Locked" <=> \E t \in Holders : h \in slice[t].indices

\* Cells in slices of one buffer have slots of their own, also in a buffer that
\* the store has left behind.
SlotsApart ==
    \A t, u \in Holders :
      slice[t].buff = slice[u].buff =>
        \A h \in slice[t].indices, g \in slice[u].indices :
          h % slice[t].buff = g % slice[t].buff => h = g

\* The store's buffer has no cell where nothing was left and where the cell
\* stayed behind with its owner: a tombstone there would redirect again.
VacantEmpty ==
    /\ \A h \in Window : State(h) = "Retired" => Cell(h) = NoCell
    /\ \A t \in Holders : slice[t].buff # cap =>
         \A h \in slice[t].indices : Cell(h) = NoCell

RingInv ==
    WindowFits /\ SlicesInWindow /\ SlicesApart /\ LockedIsHeld /\ SlotsApart /\ VacantEmpty

LEMMA RingInvImpliesExclusive == RingInv => ExclusiveCells
  BY DEF RingInv, WindowFits, SlicesInWindow, SlicesApart, LockedIsHeld, ExclusiveCells

\* The cells in use: in the ring and not retired.
Live == {h \in Window : State(h) # "Retired"}

HeldBy(t, h)  == t \in Holders /\ h \in slice[t].indices
Unheld(h)     == \A t \in Holders : h \notin slice[t].indices

LEMMA CellOfHolder ==
    SlicesApart => \A t \in Threads : \A h : HeldBy(t, h) => CellNow(h) = SliceCell(t, h)
PROOF
  <1> SUFFICES ASSUME SlicesApart, NEW t \in Threads, NEW h, HeldBy(t, h)
               PROVE  CellNow(h) = SliceCell(t, h)
    OBVIOUS
  <1>1. t \in Holders /\ h \in slice[t].indices
    BY DEF HeldBy
  <1>2. \A u \in Holders : h \in slice[u].indices => u = t
    BY <1>1 DEF SlicesApart
  <1>3. (CHOOSE u \in Holders : h \in slice[u].indices) = t
    BY <1>1, <1>2
  <1> QED BY <1>1, <1>3 DEF CellNow

LEMMA CellOfStore == \A h : Unheld(h) => CellNow(h) = Cell(h)
  BY DEF CellNow, Unheld

LEMMA CellsNext ==
    ASSUME SlicesApart'
    PROVE  /\ \A t \in Threads : \A h : HeldBy(t, h)' => CellNow(h)' = SliceCell(t, h)'
           /\ \A h : Unheld(h)' => CellNow(h)' = Cell(h)'
PROOF
  <1>1. (SlicesApart => \A t \in Threads : \A h : HeldBy(t, h) => CellNow(h) = SliceCell(t, h))'
    BY CellOfHolder, PTL
  <1>2. (\A h : Unheld(h) => CellNow(h) = Cell(h))'
    BY CellOfStore, PTL
  <1> QED BY <1>1, <1>2

\* In a ring of c slots every handle of the window has a slot of its own.
SlotsUnique ==
    \A c \in Capacities : WindowLen <= c =>
      \A h \in Window :
        /\ h % c \in 0 .. c - 1
        /\ HandleOfSlot(h % c, c) = h
        /\ \A g \in Window : h % c = g % c => h = g

LEMMA WindowSlots == RingTypes => SlotsUnique
PROOF
  <1> SUFFICES ASSUME RingTypes, NEW c \in Capacities, WindowLen <= c, NEW h \in Window
               PROVE  /\ h % c \in 0 .. c - 1
                      /\ HandleOfSlot(h % c, c) = h
                      /\ \A g \in Window : h % c = g % c => h = g
    BY DEF SlotsUnique
  <1>1. start \in Int /\ WindowLen \in Int /\ c \in Int
    BY RingNumbers, CapacityType
  <1>2. ASSUME NEW g \in Window PROVE g \in Handles /\ g \in Int /\ Offset(g) < c
    <2>1. g \in Handles /\ g \in Int /\ Offset(g) < WindowLen
      BY WindowIs, HandlesAreIntegers
    <2>2. Offset(g) \in Int
      BY <1>1, <2>1, OffsetType, RangeType
    <2> QED BY <1>1, <2>1, <2>2
  <1> QED BY <1>1, <1>2, SlotType, HandleOfSlotIs, SlotsDiffer

LEMMA HolderFacts ==
    ASSUME StoreTypes, RingInv, NEW t \in Holders, NEW h \in slice[t].indices
    PROVE  /\ t \in Threads /\ slice[t].buff \in Capacities /\ slice[t].buff \in DOMAIN bufs
           /\ slice[t].buff <= cap
           /\ h \in Window /\ h \in Handles /\ h \in Int
           /\ State(h) = "Locked"
           /\ h % slice[t].buff \in 0 .. slice[t].buff - 1
PROOF
  <1>1. t \in Threads /\ slice[t].held
    BY DEF Holders
  <1>2. slice[t].buff \in Capacities /\ slice[t].buff \in DOMAIN bufs
    BY <1>1 DEF StoreTypes, SliceTypes, BuffersHold
  <1>3. slice[t].buff <= cap /\ h \in Window
    BY DEF RingInv, SlicesInWindow
  <1>4. h \in Handles /\ h \in Int
    BY <1>3, WindowIs, HandlesAreIntegers
  <1>5. State(h) = "Locked"
    BY <1>3 DEF RingInv, LockedIsHeld
  <1> QED BY <1>1, <1>2, <1>3, <1>4, <1>5, SlotType

Fresh(n) == {Plus(end, i) : i \in 0 .. n - 1}

\* create_states: n new locked cells, and nothing else changes, also if the
\* cells have to move to a larger buffer.
LEMMA CreateEffect ==
    ASSUME StoreTypes, RingInv, NEW t \in Threads, ~ slice[t].held, NEW n \in Nat,
           CreateStates(t, n)
    PROVE  /\ RingInv'
           /\ WindowLen + n < IndexRange
           /\ Fresh(n) \subseteq Handles /\ Fresh(n) \cap Window = {} /\ Window' = Window \cup Fresh(n)
           /\ slice'[t] = Slice(cap', Fresh(n))
           /\ \A u \in Threads \ {t} : slice'[u] = slice[u]
           /\ \A h \in Window : State(h)' = State(h) /\ CellNow(h)' = CellNow(h)
           /\ \A h \in Fresh(n) : State(h)' = "Locked" /\ CellNow(h)' = NoCell
PROOF
  <1> DEFINE slots(c)    == {h % c : h \in Fresh(n)}
             oldReg(c)   == IF c = cap THEN reg ELSE ResizedRegistry(c)
             oldBuff(c)  == IF c = cap THEN bufs[cap] ELSE ResizedBuffer(c)
             newSlice(c) == [slice EXCEPT ![t] = Slice(c, Fresh(n))]
             cells(c)    == [s \in 0 .. c - 1 |-> IF s \in slots(c) THEN NoCell ELSE oldBuff(c)[s]]
  <1>1. PICK c \in CapacityFor(n) :
          /\ cap' = c
          /\ reg' = [s \in 0 .. c - 1 |-> IF s \in slots(c) THEN "Locked" ELSE oldReg(c)[s]]
          /\ slice' = newSlice(c)
          /\ bufs' = [d \in Reachable(newSlice(c), c) |-> IF d = c THEN cells(c) ELSE bufs[d]]
    BY DEF CreateStates, Fresh
  <1>2. end' = Plus(end, n) /\ start' = start
    BY DEF CreateStates
  <1>3. RingTypes /\ WindowLen \in Int /\ cap \in Capacities /\ cap \in Int
        /\ slice \in [Threads -> [held : BOOLEAN, buff : Capacities,
                                  indices : SUBSET Handles, moved : SUBSET Handles]]
    BY RingNumbers DEF StoreTypes, SliceTypes
  <1>4. /\ c \in Capacities /\ c \in Int /\ cap <= c /\ WindowLen + n <= c /\ c < IndexRange
        /\ WindowLen <= c
    <2>1. c \in Capacities /\ c \in Nat
      BY <1>3, CapacityType DEF CapacityFor
    <2>2. CASE WindowLen + n <= cap
      BY <1>3, <2>1, <2>2, CapacityAssumption DEF CapacityFor
    <2>3. CASE ~ (WindowLen + n <= cap)
      <3>1. c >= WindowLen + n
        BY <2>3 DEF CapacityFor, FitsBest
      <3> QED BY <1>3, <2>1, <2>3, <3>1, CapacityAssumption
    <2> QED BY <2>2, <2>3
  <1>5. WindowLen + n < IndexRange
    BY <1>3, <1>4, RangeType
  <1>6. /\ WindowLen' = WindowLen + n
        /\ Fresh(n) \subseteq Handles /\ Fresh(n) \cap Window = {} /\ Window' = Window \cup Fresh(n)
    BY <1>2, <1>3, <1>5, WindowGrows DEF Fresh
  <1>7. StoreTypes'
    BY CreateStatesTypes
  <1>8. \A h \in Window : /\ h % c \in 0 .. c - 1
                          /\ HandleOfSlot(h % c, c) = h
    BY <1>3, <1>4, WindowSlots DEF SlotsUnique
  <1>9. \A h, g \in Window' : h % c \in 0 .. c - 1 /\ (h % c = g % c => h = g)
    <2>1. (RingTypes => SlotsUnique)'
      BY WindowSlots, PTL
    <2>2. RingTypes' /\ WindowLen' <= c
      BY <1>4, <1>6, <1>7 DEF StoreTypes
    <2> QED BY <1>4, <2>1, <2>2 DEF SlotsUnique
  <1>10. \A h \in Window : h % c \notin slots(c)
    BY <1>6, <1>9
  <1>11. ASSUME NEW h \in Window PROVE State(h)' = State(h)
    <2>1. State(h)' = oldReg(c)[h % c]
      BY <1>1, <1>8, <1>10 DEF State
    <2>2. CASE c = cap
      BY <2>1, <2>2 DEF State
    <2>3. CASE c # cap
      BY <1>8, <2>1, <2>3 DEF ResizedRegistry, Window
    <2> QED BY <2>2, <2>3
  <1>12. ASSUME NEW h \in Fresh(n) PROVE State(h)' = "Locked"
    <2>1. h % c \in slots(c) /\ h % c \in 0 .. c - 1
      BY <1>6, <1>9
    <2> QED BY <1>1, <2>1 DEF State
  <1>13. /\ slice'[t] = Slice(cap', Fresh(n)) /\ slice'[t].held /\ slice'[t].indices = Fresh(n)
         /\ slice'[t].moved = {} /\ slice'[t].buff = c
         /\ \A u \in Threads \ {t} : slice'[u] = slice[u]
    <2> HIDE DEF slots, oldReg, oldBuff, cells
    <2> QED BY <1>1, <1>3 DEF Slice
  <1>14. Holders' = Holders \cup {t} /\ t \notin Holders
    BY <1>13 DEF Holders
  <1>15. SlicesInWindow'
    <2> SUFFICES ASSUME NEW u \in Threads, u \in Holders'
                 PROVE  /\ slice'[u].indices \subseteq Window'
                        /\ slice'[u].moved \subseteq slice'[u].indices
                        /\ slice'[u].buff <= cap'
      BY DEF SlicesInWindow, Holders
    <2>1. CASE u = t
      BY <1>1, <1>4, <1>6, <1>13, <2>1
    <2>2. CASE u # t
      <3>1. u \in Holders /\ slice'[u] = slice[u] /\ slice[u].buff \in Capacities
        BY <1>3, <1>13, <1>14, <2>2
      <3>2. slice[u].buff \in Int
        BY <3>1, CapacityType
      <3>3. /\ slice[u].indices \subseteq Window
            /\ slice[u].moved \subseteq slice[u].indices
            /\ slice[u].buff <= cap
        BY <3>1 DEF RingInv, SlicesInWindow
      <3> QED BY <1>1, <1>3, <1>4, <1>6, <3>1, <3>2, <3>3
    <2> QED BY <2>1, <2>2
  <1>16. ASSUME NEW u \in Holders
         PROVE  /\ u \in Threads /\ u # t /\ u \in Holders' /\ slice'[u] = slice[u]
                /\ slice[u].indices \subseteq Window /\ slice[u].indices \cap Fresh(n) = {}
    <2>1. u \in Threads /\ u # t
      BY <1>14 DEF Holders
    <2>2. slice[u].indices \subseteq Window
      BY DEF RingInv, SlicesInWindow
    <2> QED BY <1>6, <1>13, <1>14, <2>1, <2>2
  <1>17. SlicesApart'
    <2> SUFFICES ASSUME NEW u \in Holders', NEW v \in Holders', u # v
                 PROVE  slice'[u].indices \cap slice'[v].indices = {}
      BY DEF SlicesApart
    <2>1. CASE u = t
      BY <1>13, <1>14, <1>16, <2>1
    <2>2. CASE v = t
      BY <1>13, <1>14, <1>16, <2>2
    <2>3. CASE u # t /\ v # t
      BY <1>14, <1>16, <2>3 DEF RingInv, SlicesApart
    <2> QED BY <2>1, <2>2, <2>3
  <1>18. LockedIsHeld'
    <2> SUFFICES ASSUME NEW h \in Window'
                 PROVE  State(h)' = "Locked" <=> \E u \in Holders' : h \in slice'[u].indices
      BY DEF LockedIsHeld
    <2>1. CASE h \in Fresh(n)
      BY <1>12, <1>13, <1>14, <2>1
    <2>2. CASE h \notin Fresh(n)
      <3>1. h \in Window /\ State(h)' = State(h)
        BY <1>6, <1>11, <2>2
      <3>2. State(h) = "Locked" <=> \E u \in Holders : h \in slice[u].indices
        BY <3>1 DEF RingInv, LockedIsHeld
      <3>3. (\E u \in Holders : h \in slice[u].indices) <=> \E u \in Holders' : h \in slice'[u].indices
        BY <1>13, <1>14, <1>16, <2>2
      <3> QED BY <3>1, <3>2, <3>3
    <2> QED BY <2>1, <2>2
  <1>19. SlotsApart'
    <2> SUFFICES ASSUME NEW u \in Holders', NEW v \in Holders',
                        slice'[u].buff = slice'[v].buff,
                        NEW h \in slice'[u].indices, NEW g \in slice'[v].indices,
                        h % slice'[u].buff = g % slice'[u].buff
                 PROVE  h = g
      BY DEF SlotsApart
    <2>1. CASE slice'[u].buff = c
      <3>1. h \in Window' /\ g \in Window'
        BY <1>15 DEF SlicesInWindow
      <3> QED BY <1>9, <2>1, <3>1
    <2>2. CASE slice'[u].buff # c
      <3>1. u \in Holders /\ v \in Holders /\ slice'[u] = slice[u] /\ slice'[v] = slice[v]
        BY <1>13, <1>14, <1>16, <2>2
      <3> QED BY <3>1 DEF RingInv, SlotsApart
    <2> QED BY <2>1, <2>2
  <1>20. /\ DOMAIN bufs' = Reachable(slice', c)
         /\ \A d \in Reachable(slice', c) : bufs'[d] = IF d = c THEN cells(c) ELSE bufs[d]
    <2>1. newSlice(c) = slice'
      BY <1>1
    <2> HIDE DEF newSlice, cells
    <2> QED BY <1>1, <2>1
  <1>21. ASSUME NEW h \in Window
         PROVE  /\ c = cap => Cell(h)' = Cell(h)
                /\ State(h) # "Locked" => Cell(h)' = Cell(h)
                /\ c # cap /\ State(h) = "Locked" => Cell(h)' = NoCell
    <2>1. Cell(h)' = cells(c)[h % c]
      <3>1. c \in Reachable(slice', c)
        BY DEF Reachable
      <3> HIDE DEF cells
      <3> QED BY <1>1, <1>20, <3>1 DEF Cell
    <2>2. cells(c)[h % c] = oldBuff(c)[h % c]
      BY <1>8, <1>10
    <2>3. c = cap => oldBuff(c)[h % c] = Cell(h)
      BY DEF Cell
    <2>4. c # cap => oldBuff(c)[h % c] = IF State(h) # "Locked" THEN Cell(h) ELSE NoCell
      BY <1>8 DEF ResizedBuffer, Window
    <2> QED BY <2>1, <2>2, <2>3, <2>4
  <1>22. VacantEmpty'
    <2>1. ASSUME NEW h \in Window', State(h)' = "Retired" PROVE Cell(h)' = NoCell
      <3>1. h \in Window /\ State(h) = "Retired"
        BY <1>6, <1>11, <1>12, <2>1
      <3> QED BY <1>21, <3>1 DEF RingInv, VacantEmpty
    <2>2. ASSUME NEW u \in Holders', slice'[u].buff # cap', NEW h \in slice'[u].indices
          PROVE  Cell(h)' = NoCell
      <3>1. u \in Holders /\ slice'[u] = slice[u]
        BY <1>1, <1>13, <1>14, <1>16, <2>2
      <3>2. h \in Window /\ State(h) = "Locked"
        BY <2>2, <3>1, HolderFacts
      <3>3. CASE c = cap
        <4>1. Cell(h) = NoCell
          BY <1>1, <2>2, <3>1, <3>3 DEF RingInv, VacantEmpty
        <4> QED BY <1>21, <3>2, <3>3, <4>1
      <3> QED BY <1>21, <3>2, <3>3
    <2> QED BY <2>1, <2>2 DEF VacantEmpty
  <1>23. RingInv'
    BY <1>1, <1>4, <1>6, <1>15, <1>17, <1>18, <1>19, <1>22 DEF RingInv, WindowFits
  <1>24. ASSUME NEW h \in Fresh(n) PROVE CellNow(h)' = NoCell
    <2>1. HeldBy(t, h)'
      BY <1>13, <1>14 DEF HeldBy
    <2>2. CellNow(h)' = SliceCell(t, h)'
      BY <1>17, <2>1, CellsNext
    <2>3. SliceCell(t, h)' = cells(c)[h % c]
      <3>1. c \in Reachable(slice', c)
        BY DEF Reachable
      <3> HIDE DEF cells
      <3> QED BY <1>13, <1>20, <3>1 DEF SliceCell
    <2>4. h % c \in slots(c) /\ h % c \in 0 .. c - 1
      BY <1>6, <1>9
    <2> QED BY <2>2, <2>3, <2>4
  <1>25. ASSUME NEW h \in Window PROVE CellNow(h)' = CellNow(h)
    <2>1. CASE \E u \in Holders : h \in slice[u].indices
      <3>1. PICK u \in Holders : h \in slice[u].indices
        BY <2>1
      <3>2. HeldBy(u, h) /\ HeldBy(u, h)' /\ u \in Threads /\ slice'[u] = slice[u]
        BY <1>16, <3>1 DEF HeldBy
      <3>3. CellNow(h) = SliceCell(u, h) /\ CellNow(h)' = SliceCell(u, h)'
        BY <1>17, <3>2, CellOfHolder, CellsNext DEF RingInv
      <3> DEFINE d == slice[u].buff
      <3>4. d \in Capacities /\ d <= cap /\ d \in Int /\ d \in Reachable(slice', c)
        <4>1. d \in Capacities /\ d <= cap
          BY <3>1, HolderFacts
        <4>2. u \in {v \in Threads : slice'[v].held}
          BY <1>16, <3>1, <3>2 DEF Holders
        <4> QED BY <3>2, <4>1, <4>2, CapacityType DEF Reachable
      <3>5. SliceCell(u, h) = bufs[d][h % d] /\ SliceCell(u, h)' = bufs'[d][h % d]
        BY <3>2 DEF SliceCell
      <3>6. CASE d = c
        <4>1. c = cap /\ bufs'[d] = cells(c)
          BY <1>3, <1>4, <1>20, <3>4, <3>6
        <4>2. cells(c)[h % c] = bufs[cap][h % c]
          BY <1>8, <1>10, <4>1
        <4> HIDE DEF cells
        <4> QED BY <3>3, <3>5, <3>6, <4>1, <4>2
      <3>7. CASE d # c
        <4> HIDE DEF cells, d
        <4> QED BY <1>20, <3>3, <3>4, <3>5, <3>7
      <3> QED BY <3>6, <3>7
    <2>2. CASE ~ \E u \in Holders : h \in slice[u].indices
      <3>1. Unheld(h) /\ Unheld(h)'
        BY <1>6, <1>13, <1>14, <1>16, <2>2 DEF Unheld
      <3>2. CellNow(h) = Cell(h) /\ CellNow(h)' = Cell(h)'
        BY <1>17, <3>1, CellOfStore, CellsNext
      <3>3. State(h) # "Locked"
        BY <2>2 DEF RingInv, LockedIsHeld
      <3> QED BY <1>21, <3>2, <3>3
    <2> QED BY <2>1, <2>2
  <1> QED BY <1>5, <1>6, <1>11, <1>12, <1>13, <1>23, <1>24, <1>25

\* The second pass of get_states: cells nobody holds become the thread's.
LEMMA LockEffect ==
    ASSUME StoreTypes, RingInv, NEW t \in Threads, ~ slice[t].held,
           NEW hs \in SUBSET Window, \A h \in hs : State(h) # "Locked", LockCells(t, hs)
    PROVE  /\ RingInv' /\ Window' = Window
           /\ slice'[t] = Slice(cap, hs)
           /\ \A u \in Threads \ {t} : slice'[u] = slice[u]
           /\ \A h \in Window : /\ State(h)' = IF h \in hs THEN "Locked" ELSE State(h)
                                /\ CellNow(h)' = CellNow(h)
PROOF
  <1>1. /\ UNCHANGED <<start, end, cap, bufs>>
        /\ reg' = [s \in 0 .. cap - 1 |-> IF s \in SlotsOf(hs) THEN "Locked" ELSE reg[s]]
        /\ slice' = [slice EXCEPT ![t] = Slice(cap, hs)]
    BY DEF LockCells
  <1>2. RingTypes /\ cap \in Capacities /\ cap \in Int /\ WindowLen <= cap
        /\ slice \in [Threads -> [held : BOOLEAN, buff : Capacities,
                                  indices : SUBSET Handles, moved : SUBSET Handles]]
    BY RingNumbers DEF StoreTypes, SliceTypes, RingInv, WindowFits
  <1>3. Window' = Window /\ WindowLen' = WindowLen /\ Window \subseteq Handles
    BY <1>1, WindowIs DEF Window, InWindow, WindowLen
  <1>4. \A h \in Window : h % cap \in 0 .. cap - 1 /\ \A g \in Window : h % cap = g % cap => h = g
    BY <1>2, WindowSlots DEF SlotsUnique
  <1>5. \A h \in Window : h % cap \in SlotsOf(hs) <=> h \in hs
    BY <1>4 DEF SlotsOf
  <1>6. \A h \in Window : State(h)' = IF h \in hs THEN "Locked" ELSE State(h)
    BY <1>1, <1>4, <1>5 DEF State
  <1>7. /\ slice'[t] = Slice(cap, hs) /\ slice'[t].held /\ slice'[t].indices = hs
        /\ slice'[t].moved = {} /\ slice'[t].buff = cap
        /\ \A u \in Threads \ {t} : slice'[u] = slice[u]
    BY <1>1, <1>2 DEF Slice
  <1>8. Holders' = Holders \cup {t} /\ t \notin Holders
    BY <1>7 DEF Holders
  <1>9. ASSUME NEW u \in Holders
        PROVE  /\ u \in Threads /\ u # t /\ u \in Holders' /\ slice'[u] = slice[u]
               /\ slice[u].indices \subseteq Window /\ slice[u].indices \cap hs = {}
    <2>1. u \in Threads /\ u # t
      BY <1>8 DEF Holders
    <2>2. \A h \in slice[u].indices : h \in Window /\ State(h) = "Locked"
      BY HolderFacts
    <2> QED BY <1>7, <1>8, <2>1, <2>2
  <1>10. SlicesInWindow'
    <2> SUFFICES ASSUME NEW u \in Threads, u \in Holders'
                 PROVE  /\ slice'[u].indices \subseteq Window'
                        /\ slice'[u].moved \subseteq slice'[u].indices
                        /\ slice'[u].buff <= cap'
      BY DEF SlicesInWindow, Holders
    <2>1. CASE u = t
      BY <1>1, <1>2, <1>3, <1>7, <2>1
    <2>2. CASE u # t
      BY <1>1, <1>3, <1>7, <1>8, <2>2 DEF RingInv, SlicesInWindow
    <2> QED BY <2>1, <2>2
  <1>11. SlicesApart'
    <2> SUFFICES ASSUME NEW u \in Holders', NEW v \in Holders', u # v
                 PROVE  slice'[u].indices \cap slice'[v].indices = {}
      BY DEF SlicesApart
    <2>1. CASE u = t
      BY <1>7, <1>8, <1>9, <2>1
    <2>2. CASE v = t
      BY <1>7, <1>8, <1>9, <2>2
    <2>3. CASE u # t /\ v # t
      BY <1>8, <1>9, <2>3 DEF RingInv, SlicesApart
    <2> QED BY <2>1, <2>2, <2>3
  <1>12. LockedIsHeld'
    <2> SUFFICES ASSUME NEW h \in Window
                 PROVE  State(h)' = "Locked" <=> \E u \in Holders' : h \in slice'[u].indices
      BY <1>3 DEF LockedIsHeld
    <2>1. CASE h \in hs
      BY <1>6, <1>7, <1>8, <2>1
    <2>2. CASE h \notin hs
      <3>1. State(h) = "Locked" <=> \E u \in Holders : h \in slice[u].indices
        BY DEF RingInv, LockedIsHeld
      <3>2. (\E u \in Holders : h \in slice[u].indices) <=> \E u \in Holders' : h \in slice'[u].indices
        BY <1>7, <1>8, <1>9, <2>2
      <3> QED BY <1>6, <2>2, <3>1, <3>2
    <2> QED BY <2>1, <2>2
  <1>13. SlotsApart'
    <2> SUFFICES ASSUME NEW u \in Holders', NEW v \in Holders',
                        slice'[u].buff = slice'[v].buff,
                        NEW h \in slice'[u].indices, NEW g \in slice'[v].indices,
                        h % slice'[u].buff = g % slice'[u].buff
                 PROVE  h = g
      BY DEF SlotsApart
    <2>1. CASE slice'[u].buff = cap
      <3>1. h \in Window /\ g \in Window
        BY <1>3, <1>10 DEF SlicesInWindow
      <3> QED BY <1>4, <2>1, <3>1
    <2>2. CASE slice'[u].buff # cap
      <3>1. u \in Holders /\ v \in Holders /\ slice'[u] = slice[u] /\ slice'[v] = slice[v]
        BY <1>7, <1>8, <1>9, <2>2
      <3> QED BY <3>1 DEF RingInv, SlotsApart
    <2> QED BY <2>1, <2>2
  <1>14. VacantEmpty'
    <2>1. ASSUME NEW h \in Window, State(h)' = "Retired" PROVE Cell(h) = NoCell
      BY <1>6, <2>1 DEF RingInv, VacantEmpty
    <2>2. ASSUME NEW u \in Holders', slice'[u].buff # cap, NEW h \in slice'[u].indices
          PROVE  Cell(h) = NoCell
      <3>1. u \in Holders /\ slice'[u] = slice[u]
        BY <1>7, <1>8, <1>9, <2>2
      <3> QED BY <2>2, <3>1 DEF RingInv, VacantEmpty
    <2>3. \A h : Cell(h)' = Cell(h)
      BY <1>1 DEF Cell
    <2> QED BY <1>1, <1>3, <2>1, <2>2, <2>3 DEF VacantEmpty
  <1>15. RingInv'
    BY <1>1, <1>2, <1>3, <1>10, <1>11, <1>12, <1>13, <1>14 DEF RingInv, WindowFits
  <1>16. ASSUME NEW h \in Window PROVE CellNow(h)' = CellNow(h)
    <2>1. CASE \E u \in Holders : h \in slice[u].indices
      <3>1. PICK u \in Holders : h \in slice[u].indices
        BY <2>1
      <3>2. HeldBy(u, h) /\ HeldBy(u, h)' /\ u \in Threads /\ slice'[u] = slice[u]
        BY <1>9, <3>1 DEF HeldBy
      <3>3. CellNow(h) = SliceCell(u, h) /\ CellNow(h)' = SliceCell(u, h)'
        BY <1>11, <3>2, CellOfHolder, CellsNext DEF RingInv
      <3> QED BY <1>1, <3>2, <3>3 DEF SliceCell
    <2>2. CASE h \in hs
      <3>1. Unheld(h)
        BY <1>9, <2>2 DEF Unheld
      <3>2. HeldBy(t, h)'
        BY <1>7, <1>8, <2>2 DEF HeldBy
      <3>3. CellNow(h) = Cell(h) /\ CellNow(h)' = SliceCell(t, h)'
        BY <1>11, <3>1, <3>2, CellOfStore, CellsNext
      <3> QED BY <1>1, <1>7, <3>3 DEF Cell, SliceCell
    <2>3. CASE h \notin hs /\ ~ \E u \in Holders : h \in slice[u].indices
      <3>1. Unheld(h) /\ Unheld(h)'
        BY <1>7, <1>8, <1>9, <2>3 DEF Unheld
      <3>2. CellNow(h) = Cell(h) /\ CellNow(h)' = Cell(h)'
        BY <1>11, <3>1, CellOfStore, CellsNext
      <3> QED BY <1>1, <3>2 DEF Cell
    <2> QED BY <2>1, <2>2, <2>3
  <1> QED BY <1>3, <1>6, <1>7, <1>15, <1>16

\* A thread rewrites cells of its own slice, hs, in the buffer it holds, to f.
Rewrites(t, hs, f) ==
    LET c == slice[t].buff
    IN  /\ hs \subseteq slice[t].indices
        /\ bufs' = [bufs EXCEPT ![c] = f]
        /\ \A x \in 0 .. c - 1 : (\A h \in hs : h % c # x) => f[x] = bufs[c][x]
        /\ \A u \in Threads : /\ slice'[u].held = slice[u].held
                              /\ slice'[u].buff = slice[u].buff
                              /\ slice'[u].indices = slice[u].indices
                              /\ slice[u].held => slice'[u].moved \subseteq slice'[u].indices
        /\ UNCHANGED <<start, end, cap, reg>>

LEMMA RewriteEffect ==
    ASSUME StoreTypes, RingInv, NEW t \in Holders, NEW hs, NEW f, Rewrites(t, hs, f)
    PROVE  /\ RingInv' /\ Window' = Window
           /\ \A h \in Window :
                /\ State(h)' = State(h)
                /\ CellNow(h)' = IF h \in hs THEN f[h % slice[t].buff] ELSE CellNow(h)
PROOF
  <1> DEFINE c == slice[t].buff
  <1>0. /\ hs \subseteq slice[t].indices
        /\ bufs' = [bufs EXCEPT ![c] = f]
        /\ \A x \in 0 .. c - 1 : (\A h \in hs : h % c # x) => f[x] = bufs[c][x]
        /\ \A u \in Threads : /\ slice'[u].held = slice[u].held
                              /\ slice'[u].buff = slice[u].buff
                              /\ slice'[u].indices = slice[u].indices
                              /\ slice[u].held => slice'[u].moved \subseteq slice'[u].indices
        /\ UNCHANGED <<start, end, cap, reg>>
    BY DEF Rewrites
  <1>1. Window' = Window /\ WindowLen' = WindowLen /\ Window \subseteq Handles
    BY <1>0, WindowIs DEF Window, InWindow, WindowLen
  <1>2. Holders' = Holders
    BY <1>0 DEF Holders
  <1>3. \A h : State(h)' = State(h)
    BY <1>0 DEF State
  <1>4. \A u \in Holders : /\ u \in Threads /\ slice'[u].buff = slice[u].buff
                           /\ slice'[u].indices = slice[u].indices
                           /\ slice'[u].moved \subseteq slice'[u].indices
    BY <1>0 DEF Holders
  <1>5. SlicesInWindow' /\ SlicesApart' /\ SlotsApart'
    BY <1>0, <1>1, <1>2, <1>4 DEF RingInv, SlicesInWindow, SlicesApart, SlotsApart
  <1>6. LockedIsHeld'
    BY <1>1, <1>2, <1>3, <1>4 DEF RingInv, LockedIsHeld
  <1>7. t \in Threads /\ c \in DOMAIN bufs /\ c \in Capacities
    BY DEF Holders, StoreTypes, SliceTypes, BuffersHold
  <1>8. /\ bufs'[c] = f
        /\ \A d \in DOMAIN bufs : d # c => bufs'[d] = bufs[d]
    BY <1>0, <1>7
  <1>9. VacantEmpty'
    <2>1. cap \in DOMAIN bufs /\ cap \in Capacities /\ RingTypes /\ WindowLen <= cap
      BY DEF StoreTypes, BuffersHold, RingTypes, RingInv, WindowFits
    <2>2. ASSUME NEW h \in Window, h \notin hs PROVE Cell(h)' = Cell(h)
      <3>1. Cell(h) = bufs[cap][h % cap] /\ Cell(h)' = bufs'[cap][h % cap]
        BY <1>0 DEF Cell
      <3>2. CASE cap # c
        BY <1>8, <2>1, <3>1, <3>2
      <3>3. CASE cap = c
        <4>1. hs \subseteq Window
          BY <1>0 DEF RingInv, SlicesInWindow
        <4>2. h % cap \in 0 .. cap - 1 /\ \A g \in hs : g % cap # h % cap
          BY <2>1, <2>2, <4>1, WindowSlots DEF SlotsUnique
        <4> QED BY <1>0, <1>8, <3>1, <3>3, <4>2
      <3> QED BY <3>2, <3>3
    <2>3. ASSUME NEW h \in Window, State(h) = "Retired" PROVE Cell(h)' = NoCell
      <3>1. h \notin hs
        BY <1>0, <2>3 DEF RingInv, LockedIsHeld
      <3> QED BY <2>2, <2>3, <3>1 DEF RingInv, VacantEmpty
    <2>4. ASSUME NEW u \in Holders, slice[u].buff # cap, NEW h \in slice[u].indices
          PROVE  Cell(h)' = NoCell
      <3>1. h \in Window /\ Cell(h) = NoCell
        BY <2>4 DEF RingInv, SlicesInWindow, VacantEmpty
      <3>2. CASE h \notin hs
        BY <2>2, <3>1, <3>2
      <3>3. CASE h \in hs
        <4>1. u = t
          BY <1>0, <3>3 DEF RingInv, SlicesApart
        <4> QED BY <1>0, <1>8, <2>1, <2>4, <3>1, <4>1 DEF Cell
      <3> QED BY <3>2, <3>3
    <2>5. \A u \in Holders' : u \in Holders /\ slice'[u].buff = slice[u].buff
                              /\ slice'[u].indices = slice[u].indices
      BY <1>2, <1>4
    <2> QED BY <1>0, <1>1, <1>3, <2>3, <2>4, <2>5 DEF VacantEmpty
  <1>10. RingInv'
    BY <1>0, <1>1, <1>5, <1>6, <1>9 DEF RingInv, WindowFits
  <1>11. ASSUME NEW h \in Window
         PROVE  CellNow(h)' = IF h \in hs THEN f[h % c] ELSE CellNow(h)
    <2>1. CASE \E u \in Holders : h \in slice[u].indices
      <3>1. PICK u \in Holders : h \in slice[u].indices
        BY <2>1
      <3>2. HeldBy(u, h) /\ HeldBy(u, h)' /\ u \in Threads
        BY <1>2, <1>4, <3>1 DEF HeldBy
      <3>3. CellNow(h) = SliceCell(u, h) /\ CellNow(h)' = SliceCell(u, h)'
        BY <1>5, <3>2, CellOfHolder, CellsNext DEF RingInv
      <3> DEFINE d == slice[u].buff
      <3>4. /\ SliceCell(u, h) = bufs[d][h % d]
            /\ SliceCell(u, h)' = bufs'[d][h % d]
            /\ d \in DOMAIN bufs /\ h % d \in 0 .. d - 1
        BY <1>0, <1>4, <3>1, HolderFacts DEF SliceCell
      <3>5. h \in hs => u = t
        BY <1>0, <3>1 DEF RingInv, SlicesApart
      <3>6. CASE h \in hs
        BY <1>8, <3>3, <3>4, <3>5, <3>6
      <3>7. CASE h \notin hs /\ d # c
        BY <1>8, <3>3, <3>4, <3>7
      <3>8. CASE h \notin hs /\ d = c
        <4>1. \A g \in hs : g % c # h % c
          BY <1>0, <3>1, <3>8 DEF RingInv, SlotsApart
        <4> QED BY <1>0, <1>8, <3>3, <3>4, <3>8, <4>1
      <3> QED BY <3>6, <3>7, <3>8
    <2>2. CASE ~ \E u \in Holders : h \in slice[u].indices
      <3>1. Unheld(h) /\ Unheld(h)' /\ h \notin hs
        BY <1>0, <1>2, <1>4, <2>2 DEF Unheld
      <3>2. CellNow(h) = Cell(h) /\ CellNow(h)' = Cell(h)'
        BY <1>5, <3>1, CellOfStore, CellsNext
      <3>3. cap \in DOMAIN bufs /\ cap \in Capacities /\ RingTypes /\ WindowLen <= cap
        BY DEF StoreTypes, BuffersHold, RingTypes, RingInv, WindowFits
      <3>4. Cell(h) = bufs[cap][h % cap] /\ Cell(h)' = bufs'[cap][h % cap]
        BY <1>0 DEF Cell
      <3>5. CASE cap # c
        BY <1>0, <1>8, <3>1, <3>2, <3>3, <3>4, <3>5
      <3>6. CASE cap = c
        <4>1. hs \subseteq Window
          BY <1>0 DEF RingInv, SlicesInWindow
        <4>2. h % cap \in 0 .. cap - 1 /\ \A g \in hs : g % cap # h % cap
          BY <3>1, <3>3, <4>1, WindowSlots DEF SlotsUnique
        <4> QED BY <1>0, <1>8, <3>1, <3>2, <3>4, <3>6, <4>2
      <3> QED BY <3>5, <3>6
    <2> QED BY <2>1, <2>2
  <1> QED BY <1>1, <1>3, <1>10, <1>11

\* A thread in the mutex rewrites cells nobody holds, hs, and their states.
LEMMA StoreEffect ==
    ASSUME StoreTypes, RingInv, NEW hs \in SUBSET Window, \A h \in hs : State(h) # "Locked",
           NEW f, bufs' = [bufs EXCEPT ![cap] = f],
           \A x \in 0 .. cap - 1 : (\A h \in hs : h % cap # x) =>
             f[x] = bufs[cap][x] /\ reg'[x] = reg[x],
           \A h \in hs : reg'[h % cap] # "Locked",
           \A h \in hs : reg'[h % cap] = "Retired" => f[h % cap] = NoCell,
           UNCHANGED <<start, end, cap, slice>>
    PROVE  /\ RingInv' /\ Window' = Window
           /\ \A h \in Window \ hs : State(h)' = State(h) /\ CellNow(h)' = CellNow(h)
           /\ \A h \in hs : State(h)' = reg'[h % cap] /\ CellNow(h)' = f[h % cap]
PROOF
  <1>1. Window' = Window /\ WindowLen' = WindowLen /\ Window \subseteq Handles
    BY WindowIs DEF Window, InWindow, WindowLen
  <1>2. Holders' = Holders
    BY DEF Holders
  <1>3. RingTypes /\ cap \in Capacities /\ cap \in DOMAIN bufs /\ WindowLen <= cap
    BY DEF StoreTypes, RingTypes, BuffersHold, RingInv, WindowFits
  <1>4. \A h \in Window : h % cap \in 0 .. cap - 1 /\ \A g \in Window : h % cap = g % cap => h = g
    BY <1>3, WindowSlots DEF SlotsUnique
  <1>5. \A h \in Window \ hs : \A g \in hs : g % cap # h % cap
    BY <1>4
  <1>6. \A h \in Window \ hs : State(h)' = State(h) /\ f[h % cap] = bufs[cap][h % cap]
    BY <1>4, <1>5 DEF State
  <1>7. \A h \in hs : State(h)' = reg'[h % cap] /\ State(h)' # "Locked"
    BY DEF State
  <1>8. SlicesInWindow' /\ SlicesApart' /\ SlotsApart'
    BY <1>1, <1>2 DEF RingInv, SlicesInWindow, SlicesApart, SlotsApart
  <1>9. LockedIsHeld'
    <2> SUFFICES ASSUME NEW h \in Window
                 PROVE  State(h)' = "Locked" <=> \E u \in Holders : h \in slice[u].indices
      BY <1>1, <1>2 DEF LockedIsHeld
    <2>1. State(h) = "Locked" <=> \E u \in Holders : h \in slice[u].indices
      BY DEF RingInv, LockedIsHeld
    <2> QED BY <1>6, <1>7, <2>1
  <1>10. /\ bufs'[cap] = f
         /\ \A d \in DOMAIN bufs : d # cap => bufs'[d] = bufs[d]
    BY <1>3
  <1>11. VacantEmpty'
    <2>1. \A h : Cell(h)' = f[h % cap]
      BY <1>10 DEF Cell
    <2>2. ASSUME NEW h \in Window, State(h)' = "Retired" PROVE Cell(h)' = NoCell
      <3>1. CASE h \in hs
        BY <2>1, <2>2, <3>1 DEF State
      <3>2. CASE h \notin hs
        <4>1. State(h) = "Retired" /\ Cell(h)' = Cell(h)
          BY <1>6, <2>1, <2>2, <3>2 DEF Cell
        <4> QED BY <4>1 DEF RingInv, VacantEmpty
      <3> QED BY <3>1, <3>2
    <2>3. ASSUME NEW u \in Holders, slice[u].buff # cap, NEW h \in slice[u].indices
          PROVE  Cell(h)' = NoCell
      <3>1. h \in Window /\ State(h) = "Locked" /\ Cell(h) = NoCell
        BY <2>3, HolderFacts DEF RingInv, VacantEmpty
      <3>2. Cell(h)' = Cell(h)
        BY <1>6, <2>1, <3>1 DEF Cell
      <3> QED BY <3>1, <3>2
    <2> QED BY <1>1, <1>2, <2>2, <2>3 DEF VacantEmpty
  <1>12. RingInv'
    BY <1>1, <1>8, <1>9, <1>11 DEF RingInv, WindowFits
  <1>13. ASSUME NEW h \in hs PROVE CellNow(h)' = f[h % cap]
    <2>1. Unheld(h)'
      BY <1>2 DEF RingInv, LockedIsHeld, Unheld
    <2>2. CellNow(h)' = Cell(h)'
      BY <1>8, <2>1, CellsNext
    <2> QED BY <1>10, <2>2 DEF Cell
  <1>14. ASSUME NEW h \in Window \ hs PROVE CellNow(h)' = CellNow(h)
    <2>1. CASE \E u \in Holders : h \in slice[u].indices
      <3>1. PICK u \in Holders : h \in slice[u].indices
        BY <2>1
      <3>2. HeldBy(u, h) /\ HeldBy(u, h)' /\ u \in Threads
        BY <1>2, <3>1 DEF HeldBy, Holders
      <3>3. CellNow(h) = SliceCell(u, h) /\ CellNow(h)' = SliceCell(u, h)'
        BY <1>8, <3>2, CellOfHolder, CellsNext DEF RingInv
      <3> DEFINE d == slice[u].buff
      <3>4. /\ SliceCell(u, h) = bufs[d][h % d]
            /\ SliceCell(u, h)' = bufs'[d][h % d]
            /\ d \in DOMAIN bufs
        BY <3>1, HolderFacts DEF SliceCell
      <3> QED BY <1>6, <1>10, <3>3, <3>4
    <2>2. CASE ~ \E u \in Holders : h \in slice[u].indices
      <3>1. Unheld(h) /\ Unheld(h)'
        BY <1>2, <2>2 DEF Unheld
      <3>2. CellNow(h) = Cell(h) /\ CellNow(h)' = Cell(h)'
        BY <1>8, <3>1, CellOfStore, CellsNext
      <3> QED BY <1>6, <1>10, <3>2 DEF Cell
    <2> QED BY <2>1, <2>2
  <1> QED BY <1>1, <1>6, <1>7, <1>12, <1>13, <1>14

\* One redirection by a tombstone: it loses a packet, and is retired with the
\* last one.
LEMMA FollowEffect ==
    ASSUME StoreTypes, RingInv, NEW t \in Threads, NEW p \in DOMAIN handle,
           NEW h \in Window, h = handle[p], FollowMoved(t, p)
    PROVE  /\ RingInv' /\ Window' = Window /\ slice' = slice
           /\ State(h) = "Moved" /\ IsTombstone(CellNow(h))
           /\ handle' = [handle EXCEPT ![p] = CellNow(h).dest]
           /\ \A g \in Window \ {h} : State(g)' = State(g) /\ CellNow(g)' = CellNow(g)
           /\ Exhausted(CellNow(h)) => State(h)' = "Retired"
           /\ ~ Exhausted(CellNow(h)) =>
                /\ State(h)' = "Moved"
                /\ CellNow(h)' = Tombstone(CellNow(h).ref - 1, CellNow(h).dest)
PROOF
  <1> DEFINE cell == Cell(h)
             last == Exhausted(cell)
             new  == IF last THEN NoCell ELSE Tombstone(cell.ref - 1, cell.dest)
             f    == [bufs[cap] EXCEPT ![h % cap] = new]
  <1>1. /\ State(h) = "Moved" /\ IsTombstone(cell)
        /\ handle' = [handle EXCEPT ![p] = cell.dest]
        /\ reg' = IF last THEN [reg EXCEPT ![h % cap] = "Retired"] ELSE reg
        /\ bufs' = PutCell(cap, h, new)
        /\ UNCHANGED <<start, end, cap, slice>>
    BY DEF FollowMoved
  <1>2. h \in Int /\ cap \in DOMAIN bufs /\ cap \in Capacities
    BY WindowIs, HandlesAreIntegers DEF StoreTypes, BuffersHold, RingTypes
  <1>3. h % cap \in 0 .. cap - 1 /\ cell \in Cells
    BY <1>2, StoredCell DEF Cell
  <1>4. cell.ref \in Int /\ cell.dest \in Handles
    BY <1>1, <1>3, CellFields
  <1>5. new \in Cells
    BY <1>4, NoCellType, TombstoneType
  <1> HIDE DEF new, cell
  <1>6. bufs' = [bufs EXCEPT ![cap] = f] /\ f \in [0 .. cap - 1 -> Cells]
    BY <1>1, <1>2, <1>5, PutCellType
  <1>7. f[h % cap] = new /\ \A x \in 0 .. cap - 1 : x # h % cap => f[x] = bufs[cap][x]
    BY <1>3, <1>2 DEF StoreTypes, BuffersHold
  <1> HIDE DEF f
  <1>8. /\ reg \in [0 .. cap - 1 -> CellStates]
        /\ \A x \in 0 .. cap - 1 : x # h % cap => reg'[x] = reg[x]
        /\ reg'[h % cap] = IF last THEN "Retired" ELSE "Moved"
    BY <1>1, <1>3 DEF StoreTypes, RingTypes, State
  <1>9. Unheld(h)
    BY <1>1 DEF RingInv, LockedIsHeld, Unheld
  <1>10. CellNow(h) = cell
    BY <1>9, CellOfStore DEF cell
  <1> DEFINE hs == {h}
  <1>11. /\ hs \in SUBSET Window /\ \A g \in hs : State(g) # "Locked"
         /\ \A x \in 0 .. cap - 1 : (\A g \in hs : g % cap # x) =>
              f[x] = bufs[cap][x] /\ reg'[x] = reg[x]
         /\ \A g \in hs : reg'[g % cap] # "Locked"
         /\ \A g \in hs : reg'[g % cap] = "Retired" => f[g % cap] = NoCell
    <2>1. last => new = NoCell
      BY DEF new
    <2> QED BY <1>1, <1>7, <1>8, <2>1
  <1>12. /\ RingInv' /\ Window' = Window
         /\ \A g \in Window \ hs : State(g)' = State(g) /\ CellNow(g)' = CellNow(g)
         /\ \A g \in hs : State(g)' = reg'[g % cap] /\ CellNow(g)' = f[g % cap]
    <2> HIDE DEF hs
    <2> QED BY <1>1, <1>6, <1>11, StoreEffect
  <1>13. State(h)' = IF last THEN "Retired" ELSE "Moved"
    BY <1>8, <1>12
  <1>14. CellNow(h)' = new
    BY <1>7, <1>12
  <1>15. ~ last => new = Tombstone(cell.ref - 1, cell.dest)
    BY DEF new
  <1> QED BY <1>1, <1>10, <1>12, <1>13, <1>14, <1>15

\* The redirection of a packet by a tombstone of the thread's own slice.
LEMMA CorrectEffect ==
    ASSUME StoreTypes, RingInv, NEW t \in Threads, NEW p \in DOMAIN handle,
           NEW h \in slice[t].indices, h = handle[p], CorrectHandle(t, p)
    PROVE  /\ RingInv' /\ Window' = Window
           /\ IsTombstone(CellNow(h)) /\ handle' = [handle EXCEPT ![p] = CellNow(h).dest]
           /\ slice' = [slice EXCEPT ![t].moved = @ \cup {h}]
           /\ \A g \in Window : State(g)' = State(g)
           /\ \A g \in Window \ {h} : CellNow(g)' = CellNow(g)
           /\ CellNow(h)' = Tombstone(CellNow(h).ref - 1, CellNow(h).dest)
PROOF
  <1> DEFINE c    == slice[t].buff
             cell == SliceCell(t, h)
             new  == Tombstone(cell.ref - 1, cell.dest)
             f    == [bufs[c] EXCEPT ![h % c] = new]
             hs   == {h}
  <1>1. /\ slice[t].held /\ IsTombstone(cell)
        /\ bufs' = PutCell(c, h, new)
        /\ slice' = [slice EXCEPT ![t].moved = @ \cup {h}]
        /\ handle' = [handle EXCEPT ![p] = cell.dest]
        /\ UNCHANGED <<start, end, cap, reg>>
    BY DEF CorrectHandle, PutSliceCell
  <1>2. t \in Holders
    BY <1>1 DEF Holders
  <1>3. h \in Int /\ h \in Window /\ c \in DOMAIN bufs /\ h % c \in 0 .. c - 1
    BY <1>2, HolderFacts
  <1>4. CellNow(h) = cell
    BY <1>2, CellOfHolder DEF HeldBy, RingInv, Holders
  <1>5. cell \in Cells
    BY <1>3, StoredCell DEF SliceCell
  <1>6. cell.ref \in Int /\ cell.dest \in Handles
    BY <1>1, <1>5, CellFields
  <1>7. new \in Cells
    BY <1>6, TombstoneType
  <1> HIDE DEF cell, new
  <1>8. bufs' = [bufs EXCEPT ![c] = f]
    BY <1>1, <1>3, <1>7, PutCellType
  <1>9. f[h % c] = new /\ \A x \in 0 .. c - 1 : x # h % c => f[x] = bufs[c][x]
    BY <1>3 DEF StoreTypes, BuffersHold
  <1> HIDE DEF f
  <1>10. \A u \in Threads : /\ slice'[u].held = slice[u].held
                            /\ slice'[u].buff = slice[u].buff
                            /\ slice'[u].indices = slice[u].indices
                            /\ slice[u].held => slice'[u].moved \subseteq slice'[u].indices
    <2>1. \A u \in Threads : slice[u].held => slice[u].moved \subseteq slice[u].indices
      BY DEF RingInv, SlicesInWindow, Holders
    <2> QED BY <1>1, <2>1 DEF StoreTypes, SliceTypes
  <1>11. hs \in SUBSET slice[t].indices
         /\ \A x \in 0 .. c - 1 : (\A g \in hs : g % c # x) => f[x] = bufs[c][x]
    BY <1>9
  <1>12. /\ RingInv' /\ Window' = Window
         /\ \A g \in Window : /\ State(g)' = State(g)
                              /\ CellNow(g)' = IF g \in hs THEN f[g % c] ELSE CellNow(g)
    <2>1. Rewrites(t, hs, f)
      BY <1>1, <1>8, <1>10, <1>11 DEF Rewrites
    <2> HIDE DEF hs
    <2> QED BY <1>2, <2>1, RewriteEffect
  <1>13. CellNow(h)' = new
    BY <1>3, <1>9, <1>12
  <1>14. \A g \in Window \ {h} : CellNow(g)' = CellNow(g)
    BY <1>12
  <1> QED BY <1>1, <1>4, <1>12, <1>13, <1>14 DEF new

\* The merge of two islands of the thread's own slice.
LEMMA MergeEffect ==
    ASSUME StoreTypes, RingInv, NEW t \in Threads,
           NEW donor \in slice[t].indices, NEW recipient \in slice[t].indices, donor # recipient,
           MergeIslands(t, donor, recipient)
    PROVE  /\ RingInv' /\ Window' = Window
           /\ slice[t].held /\ handle' = handle
           /\ IsIsland(CellNow(donor)) /\ IsIsland(CellNow(recipient))
           /\ slice' = [slice EXCEPT ![t].moved = @ \cup {donor}]
           /\ \A g \in Window : State(g)' = State(g)
           /\ \A g \in Window \ {donor, recipient} : CellNow(g)' = CellNow(g)
           /\ CellNow(donor)' = Tombstone(RedirectCount(CellNow(donor)), recipient)
           /\ CellNow(recipient)' = Island(CellNow(recipient).active \cup CellNow(donor).active,
                                           CellNow(recipient).done + CellNow(donor).done)
PROOF
  <1> DEFINE c      == slice[t].buff
             d      == SliceCell(t, donor)
             r      == SliceCell(t, recipient)
             stone  == Tombstone(RedirectCount(d), recipient)
             merged == Island(r.active \cup d.active, r.done + d.done)
             f      == [bufs[c] EXCEPT ![donor % c] = stone, ![recipient % c] = merged]
             hs     == {donor, recipient}
  <1>1. /\ slice[t].held /\ IsIsland(d) /\ IsIsland(r)
        /\ bufs' = [bufs EXCEPT ![c][donor % c] = stone, ![c][recipient % c] = merged]
        /\ slice' = [slice EXCEPT ![t].moved = @ \cup {donor}]
        /\ UNCHANGED <<start, end, cap, reg, handle>>
    BY DEF MergeIslands
  <1>2. t \in Holders
    BY <1>1 DEF Holders
  <1>3. \A h \in hs : h \in Int /\ h \in Window /\ c \in DOMAIN bufs /\ h % c \in 0 .. c - 1
    BY <1>2, HolderFacts
  <1>4. CellNow(donor) = d /\ CellNow(recipient) = r
    BY <1>2, CellOfHolder DEF HeldBy, RingInv, Holders
  <1>5. donor % c # recipient % c
    BY <1>2 DEF RingInv, SlotsApart
  <1> HIDE DEF d, r, stone, merged, c
  <1>6. bufs' = [bufs EXCEPT ![c] = f]
    BY <1>1, <1>3 DEF StoreTypes, BuffersHold
  <1>7. bufs[c] \in [0 .. c - 1 -> Cells]
    BY <1>3 DEF StoreTypes, BuffersHold
  <1>8. /\ f[donor % c] = stone /\ f[recipient % c] = merged
        /\ \A x \in 0 .. c - 1 : x # donor % c /\ x # recipient % c => f[x] = bufs[c][x]
    BY <1>3, <1>5, <1>7
  <1> HIDE DEF f
  <1>9. \A u \in Threads : /\ slice'[u].held = slice[u].held
                           /\ slice'[u].buff = slice[u].buff
                           /\ slice'[u].indices = slice[u].indices
                           /\ slice[u].held => slice'[u].moved \subseteq slice'[u].indices
    <2>1. \A u \in Threads : slice[u].held => slice[u].moved \subseteq slice[u].indices
      BY DEF RingInv, SlicesInWindow, Holders
    <2> QED BY <1>1, <2>1 DEF StoreTypes, SliceTypes
  <1>10. hs \in SUBSET slice[t].indices
         /\ \A x \in 0 .. c - 1 : (\A g \in hs : g % c # x) => f[x] = bufs[c][x]
    BY <1>8
  <1>11. /\ RingInv' /\ Window' = Window
         /\ \A g \in Window : /\ State(g)' = State(g)
                              /\ CellNow(g)' = IF g \in hs THEN f[g % c] ELSE CellNow(g)
    <2>1. c = slice[t].buff
      BY DEF c
    <2> HIDE DEF hs
    <2>2. Rewrites(t, hs, f)
      BY <1>1, <1>6, <1>9, <1>10, <2>1 DEF Rewrites
    <2> QED BY <1>2, <2>1, <2>2, RewriteEffect
  <1>12. CellNow(donor)' = stone /\ CellNow(recipient)' = merged
    BY <1>3, <1>8, <1>11
  <1>13. \A g \in Window \ {donor, recipient} : CellNow(g)' = CellNow(g)
    BY <1>11
  <1> QED BY <1>1, <1>4, <1>11, <1>12, <1>13 DEF stone, merged

Here(t, h) == {p \in BatchOf(t) : handle[p] = h}
Sinks(packets, labels) == {SetSnowflake(p, l) : p \in packets, l \in labels}

LEMMA HereInSlot ==
    ASSUME RingInv, NEW t \in Holders, \A p \in BatchOf(t) : handle[p] \in slice[t].indices,
           NEW h \in slice[t].indices
    PROVE  {p \in BatchOf(t) : handle[p] % slice[t].buff = h % slice[t].buff} = Here(t, h)
PROOF
  <1>1. \A g \in slice[t].indices : g % slice[t].buff = h % slice[t].buff => g = h
    BY DEF RingInv, SlotsApart
  <1> QED BY <1>1 DEF Here

\* The packets of a batch are replaced by their sinks in their islands.
LEMMA ScatterEffect ==
    ASSUME StoreTypes, RingInv, NEW t \in Threads, slice[t].held, NEW labels, Scatter(t, labels)
    PROVE  /\ RingInv' /\ Window' = Window /\ slice' = slice
           /\ \A p \in BatchOf(t) : /\ handle[p] \in slice[t].indices
                                    /\ IsIsland(CellNow(handle[p]))
                                    /\ p \in CellNow(handle[p]).active
           /\ \A h \in Window :
                /\ State(h)' = State(h)
                /\ CellNow(h)' = IF Here(t, h) = {} THEN CellNow(h)
                                 ELSE Scattered(CellNow(h), Here(t, h), Sinks(Here(t, h), labels))
PROOF
  <1> DEFINE batch   == BatchOf(t)
             c       == slice[t].buff
             here(x) == {p \in batch : handle[p] % c = x}
             sinks(packets) == {SetSnowflake(p, l) : p \in packets, l \in labels}
             new(x)  == Scattered(bufs[c][x], here(x), sinks(here(x)))
             hs      == {handle[p] : p \in batch}
             cells   == [x \in 0 .. c - 1 |-> IF \E h \in hs : h % c = x THEN new(x) ELSE bufs[c][x]]
  <1>1. /\ bufs' = [bufs EXCEPT ![c] = cells]
        /\ UNCHANGED <<start, end, cap, reg, slice, mutex, asleep>>
        /\ hs \subseteq slice[t].indices
        /\ \A p \in batch : IsIsland(SliceCell(t, handle[p])) /\ p \in SliceCell(t, handle[p]).active
    BY DEF Scatter, SetCells
  <1>2. t \in Holders
    BY DEF Holders
  <1>3. \A h \in slice[t].indices : CellNow(h) = SliceCell(t, h)
    BY <1>2, CellOfHolder DEF HeldBy, RingInv, Holders
  <1>4. \A h \in slice[t].indices : here(h % c) = Here(t, h) /\ h % c \in 0 .. c - 1
    BY <1>1, <1>2, HereInSlot, HolderFacts
  <1>5. \A h \in hs : cells[h % c] = new(h % c)
    <2> HIDE DEF new, hs
    <2> QED BY <1>1, <1>4
  <1>6. \A h \in hs : new(h % c) = Scattered(CellNow(h), Here(t, h), Sinks(Here(t, h), labels))
    <2> SUFFICES ASSUME NEW h \in hs
                 PROVE  new(h % c) = Scattered(CellNow(h), Here(t, h), Sinks(Here(t, h), labels))
      OBVIOUS
    <2>1. here(h % c) = Here(t, h) /\ CellNow(h) = bufs[c][h % c]
      BY <1>1, <1>3, <1>4 DEF SliceCell
    <2>2. sinks(Here(t, h)) = Sinks(Here(t, h), labels)
      BY DEF Sinks
    <2> HIDE DEF here, sinks, hs
    <2> QED BY <2>1, <2>2
  <1>7. \A x \in 0 .. c - 1 : (\A g \in hs : g % c # x) => cells[x] = bufs[c][x]
    <2> HIDE DEF new, hs
    <2> QED OBVIOUS
  <1>8. \A h : h \in hs <=> Here(t, h) # {}
    BY DEF Here
  <1>9. \A u \in Threads : slice[u].held => slice[u].moved \subseteq slice[u].indices
    BY DEF RingInv, SlicesInWindow, Holders
  <1> HIDE DEF hs, cells
  <1>10. /\ RingInv' /\ Window' = Window
         /\ \A g \in Window : /\ State(g)' = State(g)
                              /\ CellNow(g)' = IF g \in hs THEN cells[g % c] ELSE CellNow(g)
    <2>1. Rewrites(t, hs, cells)
      BY <1>1, <1>7, <1>9 DEF Rewrites
    <2> QED BY <1>2, <2>1, RewriteEffect
  <1>11. \A p \in batch : handle[p] \in slice[t].indices
    BY <1>1 DEF hs
  <1> HIDE DEF new
  <1> QED BY <1>1, <1>3, <1>5, <1>6, <1>8, <1>10, <1>11

LEMMA IslandIs ==
    ASSUME NEW cell \in Cells, IsIsland(cell)
    PROVE  cell = Island(cell.active, cell.done)
  BY DEF Cells, InteractionCell, IsIsland, Island, NoCell

LEMMA NobodyHere ==
    ASSUME NEW t, NEW h, Here(t, h) = {}, NEW cell \in Cells, IsIsland(cell)
    PROVE  cell = Island(cell.active, cell.done + Cardinality(Here(t, h)))
PROOF
  <1>1. Cardinality(Here(t, h)) = 0
    BY FS_EmptySet
  <1>2. cell.done \in Nat
    BY CellFields
  <1> QED BY <1>1, <1>2, IslandIs

\* A detector counts its batch in its islands and clones the complete ones.
LEMMA TerminateEffect ==
    ASSUME StoreTypes, RingInv, NEW t \in Threads, slice[t].held, Terminate(t),
           DOMAIN clones = Threads
    PROVE  /\ RingInv' /\ Window' = Window /\ slice' = slice
           /\ \A p \in BatchOf(t) : /\ handle[p] \in slice[t].indices
                                    /\ p \in CellNow(handle[p]).active
           /\ \A h \in slice[t].indices :
                /\ IsIsland(CellNow(h))
                /\ CellNow(h)' = Island(CellNow(h).active,
                                        CellNow(h).done + Cardinality(Here(t, h)))
           /\ \A h \in Window : State(h)' = State(h)
           /\ \A h \in Window \ slice[t].indices : CellNow(h)' = CellNow(h)
           /\ \A u \in Threads \ {t} : clones'[u] = clones[u]
           /\ DOMAIN clones'[t] = {h \in slice[t].indices : IsCollapseReady(CellNow(h)')}
           /\ \A h \in DOMAIN clones'[t] : clones'[t][h] = CellNow(h)'
PROOF
  <1> DEFINE batch   == BatchOf(t)
             c       == slice[t].buff
             here(x) == {p \in batch : handle[p] % c = x}
             new(x)  == Island(bufs[c][x].active, bufs[c][x].done + Cardinality(here(x)))
             ready   == {h \in slice[t].indices : IsCollapseReady(new(h % c))}
             hs      == {handle[p] : p \in batch}
             cells   == [x \in 0 .. c - 1 |-> IF \E h \in hs : h % c = x THEN new(x) ELSE bufs[c][x]]
  <1>1. /\ bufs' = [bufs EXCEPT ![c] = cells]
        /\ UNCHANGED <<start, end, cap, reg, slice, mutex, asleep>>
        /\ hs \subseteq slice[t].indices
    BY DEF Terminate, SetCells
  <1>2. /\ \A h \in slice[t].indices : IsIsland(SliceCell(t, h))
        /\ \A p \in batch : p \in SliceCell(t, handle[p]).active
        /\ clones' = [clones EXCEPT ![t] = [h \in ready |-> new(h % c)]]
    BY DEF Terminate
  <1>3. t \in Holders
    BY DEF Holders
  <1>4. \A h \in slice[t].indices : CellNow(h) = SliceCell(t, h)
    BY <1>3, CellOfHolder DEF HeldBy, RingInv, Holders
  <1>5. \A h \in slice[t].indices :
          /\ here(h % c) = Here(t, h) /\ h % c \in 0 .. c - 1
          /\ h \in Window /\ h \in Int /\ c \in DOMAIN bufs
    BY <1>1, <1>3, HereInSlot, HolderFacts
  <1>6. ASSUME NEW h \in slice[t].indices
        PROVE  /\ new(h % c) = Island(CellNow(h).active, CellNow(h).done + Cardinality(Here(t, h)))
               /\ h \notin hs => new(h % c) = CellNow(h)
    <2>1. here(h % c) = Here(t, h) /\ CellNow(h) = bufs[c][h % c] /\ IsIsland(CellNow(h))
      BY <1>2, <1>4, <1>5 DEF SliceCell
    <2>2. new(h % c) = Island(CellNow(h).active, CellNow(h).done + Cardinality(Here(t, h)))
      <3> HIDE DEF here
      <3> QED BY <2>1
    <2>3. CellNow(h) \in Cells
      BY <1>5, <2>1, StoredCell
    <2>4. h \notin hs => Here(t, h) = {}
      BY DEF Here
    <2> QED BY <2>1, <2>2, <2>3, <2>4, NobodyHere
  <1>7. \A h \in hs : cells[h % c] = new(h % c)
    <2> HIDE DEF new, hs
    <2> QED BY <1>1, <1>5
  <1>8. \A x \in 0 .. c - 1 : (\A g \in hs : g % c # x) => cells[x] = bufs[c][x]
    <2> HIDE DEF new, hs
    <2> QED OBVIOUS
  <1>9. \A u \in Threads : slice[u].held => slice[u].moved \subseteq slice[u].indices
    BY DEF RingInv, SlicesInWindow, Holders
  <1> HIDE DEF hs, cells
  <1>10. /\ RingInv' /\ Window' = Window
         /\ \A g \in Window : /\ State(g)' = State(g)
                              /\ CellNow(g)' = IF g \in hs THEN cells[g % c] ELSE CellNow(g)
    <2>1. Rewrites(t, hs, cells)
      BY <1>1, <1>8, <1>9 DEF Rewrites
    <2> QED BY <1>3, <2>1, RewriteEffect
  <1>11. \A p \in batch : handle[p] \in slice[t].indices
    BY <1>1 DEF hs
  <1> HIDE DEF new
  <1>12. \A h \in slice[t].indices : CellNow(h)' = new(h % c)
    BY <1>5, <1>6, <1>7, <1>10
  <1>13. ready = {h \in slice[t].indices : IsCollapseReady(CellNow(h)')}
    BY <1>12
  <1>14. DOMAIN clones'[t] = ready /\ (\A h \in ready : clones'[t][h] = new(h % c))
         /\ \A u \in Threads \ {t} : clones'[u] = clones[u]
    <2> DEFINE taken == [h \in ready |-> new(h % c)]
    <2>1. DOMAIN taken = ready /\ \A h \in ready : taken[h] = new(h % c)
      <3> HIDE DEF ready
      <3> QED OBVIOUS
    <2>2. clones' = [clones EXCEPT ![t] = taken]
      BY <1>2
    <2> HIDE DEF taken, ready
    <2> QED BY <2>1, <2>2
  <1>15. \A h \in DOMAIN clones'[t] : clones'[t][h] = CellNow(h)'
    BY <1>12, <1>14
  <1>16. DOMAIN clones'[t] = {h \in slice[t].indices : IsCollapseReady(CellNow(h)')}
    BY <1>13, <1>14
  <1>17. \A h \in Window \ slice[t].indices : CellNow(h)' = CellNow(h)
    BY <1>1, <1>10
  <1>18. \A h \in slice[t].indices :
           /\ IsIsland(CellNow(h))
           /\ CellNow(h)' = Island(CellNow(h).active, CellNow(h).done + Cardinality(Here(t, h)))
    BY <1>2, <1>4, <1>6, <1>12
  <1> HIDE DEF ready
  <1> QED BY <1>1, <1>2, <1>4, <1>10, <1>11, <1>14, <1>15, <1>16, <1>17, <1>18

\* A detector writes the results of its clones.
LEMMA PublishEffect ==
    ASSUME StoreTypes, RingInv, NEW t \in Threads, slice[t].held, Publish(t)
    PROVE  /\ RingInv' /\ Window' = Window /\ slice' = slice
           /\ DOMAIN clones[t] \subseteq slice[t].indices
           /\ \A h \in Window : State(h)' = State(h)
           /\ \A h \in Window \ DOMAIN clones[t] : CellNow(h)' = CellNow(h)
           /\ \A h \in DOMAIN clones[t] : CellNow(h)' = Collapse(clones[t][h].active)
PROOF
  <1> DEFINE c     == slice[t].buff
             hs    == DOMAIN clones[t]
             packets(x) == UNION {clones[t][h].active : h \in {g \in hs : g % c = x}}
             new(x) == Collapse(packets(x))
             cells == [x \in 0 .. c - 1 |-> IF \E h \in hs : h % c = x THEN new(x) ELSE bufs[c][x]]
  <1>1. /\ bufs' = [bufs EXCEPT ![c] = cells]
        /\ UNCHANGED <<start, end, cap, reg, slice, mutex, asleep>>
        /\ hs \subseteq slice[t].indices
    BY DEF Publish, SetCells
  <1>2. t \in Holders
    BY DEF Holders
  <1>3. \A h \in slice[t].indices : h % c \in 0 .. c - 1 /\ h \in Window
    BY <1>2, HolderFacts
  <1>4. ASSUME NEW h \in hs PROVE packets(h % c) = clones[t][h].active
    <2>1. \A g \in hs : g % c = h % c => g = h
      BY <1>1, <1>2 DEF RingInv, SlotsApart
    <2>2. {g \in hs : g % c = h % c} = {h}
      BY <2>1
    <2> QED BY <2>2
  <1>5. \A h \in hs : new(h % c) = Collapse(clones[t][h].active)
    <2> HIDE DEF packets
    <2> QED BY <1>4
  <1> HIDE DEF new
  <1>6. \A h \in hs : cells[h % c] = new(h % c)
    BY <1>1, <1>3
  <1>7. \A x \in 0 .. c - 1 : (\A g \in hs : g % c # x) => cells[x] = bufs[c][x]
    OBVIOUS
  <1>8. \A u \in Threads : slice[u].held => slice[u].moved \subseteq slice[u].indices
    BY DEF RingInv, SlicesInWindow, Holders
  <1> HIDE DEF cells
  <1>9. /\ RingInv' /\ Window' = Window
        /\ \A g \in Window : /\ State(g)' = State(g)
                             /\ CellNow(g)' = IF g \in hs THEN cells[g % c] ELSE CellNow(g)
    <2>1. Rewrites(t, hs, cells)
      BY <1>1, <1>7, <1>8 DEF Rewrites
    <2> QED BY <1>2, <2>1, RewriteEffect
  <1> QED BY <1>1, <1>3, <1>5, <1>6, <1>9

PairAt(h) == {NewPacket(PairOf(h), side) : side \in Sides}

\* A source makes an island of each of its new cells.
LEMMA PopulateEffect ==
    ASSUME StoreTypes, RingInv, NEW t \in Threads, slice[t].held, Populate(t)
    PROVE  /\ RingInv' /\ Window' = Window /\ slice' = slice
           /\ \A h \in Window : State(h)' = State(h)
           /\ \A h \in Window \ slice[t].indices : CellNow(h)' = CellNow(h)
           /\ \A h \in slice[t].indices : CellNow(h)' = Island(PairAt(h), 0)
PROOF
  <1> DEFINE c     == slice[t].buff
             hs    == slice[t].indices
             pairs == [h \in hs |-> {NewPacket(PairOf(h), side) : side \in Sides}]
             new(x) == Island(UNION {pairs[h] : h \in {g \in hs : g % c = x}}, 0)
             cells == [x \in 0 .. c - 1 |-> IF \E h \in hs : h % c = x THEN new(x) ELSE bufs[c][x]]
  <1>1. /\ bufs' = [bufs EXCEPT ![c] = cells]
        /\ UNCHANGED <<start, end, cap, reg, slice, mutex, asleep>>
    BY DEF Populate, SetCells
  <1>2. t \in Holders
    BY DEF Holders
  <1>3. \A h \in hs : h % c \in 0 .. c - 1 /\ h \in Window
    BY <1>2, HolderFacts
  <1>4. ASSUME NEW h \in hs PROVE new(h % c) = Island(PairAt(h), 0)
    <2>1. \A g \in hs : g % c = h % c => g = h
      BY <1>2 DEF RingInv, SlotsApart
    <2>2. {g \in hs : g % c = h % c} = {h}
      BY <2>1
    <2>3. pairs[h] = PairAt(h)
      BY DEF PairAt
    <2> HIDE DEF pairs
    <2>4. (UNION {pairs[g] : g \in {h}}) = PairAt(h)
      BY <2>3
    <2> QED BY <2>2, <2>4
  <1> HIDE DEF new
  <1>5. \A h \in hs : cells[h % c] = new(h % c)
    BY <1>3
  <1>6. \A x \in 0 .. c - 1 : (\A g \in hs : g % c # x) => cells[x] = bufs[c][x]
    OBVIOUS
  <1>7. \A u \in Threads : slice[u].held => slice[u].moved \subseteq slice[u].indices
    BY DEF RingInv, SlicesInWindow, Holders
  <1> HIDE DEF cells
  <1>8. /\ RingInv' /\ Window' = Window
        /\ \A g \in Window : /\ State(g)' = State(g)
                             /\ CellNow(g)' = IF g \in hs THEN cells[g % c] ELSE CellNow(g)
    <2>1. Rewrites(t, hs, cells)
      BY <1>1, <1>6, <1>7 DEF Rewrites
    <2> QED BY <1>2, <2>1, RewriteEffect
  <1> QED BY <1>1, <1>3, <1>4, <1>5, <1>8

ClaimsOn(packets, h) == {p \in packets : handle[p] = h}

\* A claimer takes its outcomes; a result that is left by its last packet is
\* retired.
LEMMA ClaimEffect ==
    ASSUME StoreTypes, RingInv, NEW t \in Threads, NEW packets \in SUBSET DOMAIN handle,
           \A p \in packets : handle[p] \in Window, ClaimCollapsed(t, packets)
    PROVE  /\ RingInv' /\ Window' = Window /\ slice' = slice
           /\ handle' = [p \in DOMAIN handle \ packets |-> handle[p]]
           /\ \A p \in packets : /\ State(handle[p]) \notin {"Moved", "Locked"}
                                 /\ IsResult(CellNow(handle[p]))
                                 /\ p \in CellNow(handle[p]).packets
           /\ \A h \in Window : ClaimsOn(packets, h) = {} =>
                State(h)' = State(h) /\ CellNow(h)' = CellNow(h)
           /\ \A h \in Window : ClaimsOn(packets, h) # {} =>
                LET left == CellNow(h).ref - Cardinality(ClaimsOn(packets, h))
                IN  /\ left = 0 => State(h)' = "Retired"
                    /\ left # 0 => /\ State(h)' = State(h)
                                   /\ CellNow(h)' = CollapseResult(CellNow(h).packets, left)
PROOF
  <1> DEFINE claims(s)  == {p \in packets : handle[p] % cap = s}
             left(s)    == bufs[cap][s].ref - Cardinality(claims(s))
             emptied    == {s \in 0 .. cap - 1 : claims(s) # {} /\ left(s) = 0}
             cells      == [s \in 0 .. cap - 1 |->
                             CASE s \in emptied    -> NoCell
                               [] claims(s) = {}   -> bufs[cap][s]
                               [] OTHER            -> CollapseResult(bufs[cap][s].packets, left(s))]
             hs         == {handle[p] : p \in packets}
  <1>1. /\ \A p \in packets : State(handle[p]) \notin {"Moved", "Locked"}
        /\ \A p \in packets : IsResult(Cell(handle[p])) /\ p \in Cell(handle[p]).packets
        /\ reg' = [s \in 0 .. cap - 1 |-> IF s \in emptied THEN "Retired" ELSE reg[s]]
        /\ bufs' = [bufs EXCEPT ![cap] = cells]
        /\ handle' = [p \in DOMAIN handle \ packets |-> handle[p]]
        /\ UNCHANGED <<start, end, cap, slice>>
    BY DEF ClaimCollapsed, Available
  <1>2. RingTypes /\ cap \in Capacities /\ WindowLen <= cap
    BY DEF StoreTypes, RingTypes, RingInv, WindowFits
  <1>3. \A h \in Window : /\ h % cap \in 0 .. cap - 1
                          /\ \A g \in Window : h % cap = g % cap => h = g
    BY <1>2, WindowSlots DEF SlotsUnique
  <1>4. hs \in SUBSET Window /\ \A h \in hs : State(h) # "Locked"
    BY <1>1
  <1>5. \A h \in Window : claims(h % cap) = ClaimsOn(packets, h)
    BY <1>3 DEF ClaimsOn
  <1>6. \A h : h \in hs <=> ClaimsOn(packets, h) # {}
    BY DEF ClaimsOn
  <1>7. \A h \in hs : CellNow(h) = Cell(h)
    <2>1. \A h \in hs : Unheld(h)
      BY <1>4 DEF RingInv, LockedIsHeld, Unheld
    <2> QED BY <2>1, CellOfStore
  <1>8. \A x \in 0 .. cap - 1 : (\A h \in hs : h % cap # x) => claims(x) = {}
    OBVIOUS
  <1> HIDE DEF claims, left
  <1>9. \A x \in 0 .. cap - 1 : (\A h \in hs : h % cap # x) => cells[x] = bufs[cap][x] /\ reg'[x] = reg[x]
    <2> HIDE DEF hs
    <2> QED BY <1>1, <1>8
  <1>10. \A h \in Window : reg'[h % cap] = IF h % cap \in emptied THEN "Retired" ELSE State(h)
    <2> HIDE DEF emptied
    <2> QED BY <1>1, <1>3 DEF State
  <1>11. /\ \A h \in hs : reg'[h % cap] # "Locked"
         /\ \A h \in hs : reg'[h % cap] = "Retired" => cells[h % cap] = NoCell
    <2> SUFFICES ASSUME NEW h \in hs
                 PROVE  /\ reg'[h % cap] # "Locked"
                        /\ reg'[h % cap] = "Retired" => cells[h % cap] = NoCell
      OBVIOUS
    <2>1. h \in Window /\ State(h) # "Locked" /\ h % cap \in 0 .. cap - 1
      BY <1>3, <1>4
    <2>2. h % cap \in emptied => cells[h % cap] = NoCell
      <3>1. h % cap \in emptied => claims(h % cap) # {}
        OBVIOUS
      <3> HIDE DEF emptied
      <3> QED BY <2>1, <3>1
    <2>3. State(h) # "Retired"
      BY <1>1, <2>1 DEF RingInv, VacantEmpty, IsResult, NoCell, hs
    <2> HIDE DEF emptied, hs, cells
    <2> QED BY <1>10, <2>1, <2>2, <2>3
  <1>12. ASSUME NEW h \in hs
         PROVE  /\ left(h % cap) = CellNow(h).ref - Cardinality(ClaimsOn(packets, h))
                /\ h % cap \in emptied <=> left(h % cap) = 0
                /\ h % cap \notin emptied =>
                     cells[h % cap] = CollapseResult(CellNow(h).packets, left(h % cap))
    <2>1. h \in Window /\ h % cap \in 0 .. cap - 1 /\ CellNow(h) = bufs[cap][h % cap]
      BY <1>3, <1>4, <1>7 DEF Cell
    <2>2. claims(h % cap) = ClaimsOn(packets, h) /\ claims(h % cap) # {}
      BY <1>5, <1>6, <2>1
    <2>3. left(h % cap) = CellNow(h).ref - Cardinality(ClaimsOn(packets, h))
      BY <2>1, <2>2 DEF left
    <2>4. h % cap \in emptied <=> left(h % cap) = 0
      BY <2>1, <2>2
    <2> HIDE DEF emptied
    <2>5. h % cap \notin emptied =>
            cells[h % cap] = CollapseResult(CellNow(h).packets, left(h % cap))
      BY <2>1, <2>2
    <2> QED BY <2>3, <2>4, <2>5
  <1> HIDE DEF hs, cells, emptied
  <1>13. /\ RingInv' /\ Window' = Window
         /\ \A h \in Window \ hs : State(h)' = State(h) /\ CellNow(h)' = CellNow(h)
         /\ \A h \in hs : State(h)' = reg'[h % cap] /\ CellNow(h)' = cells[h % cap]
    BY <1>1, <1>4, <1>9, <1>11, StoreEffect
  <1>14. ASSUME NEW h \in Window, ClaimsOn(packets, h) # {}
         PROVE  LET l == CellNow(h).ref - Cardinality(ClaimsOn(packets, h))
                IN  /\ l = 0 => State(h)' = "Retired"
                    /\ l # 0 => /\ State(h)' = State(h)
                                /\ CellNow(h)' = CollapseResult(CellNow(h).packets, l)
    <2>1. h \in hs
      BY <1>6, <1>14
    <2> QED BY <1>10, <1>12, <1>13, <2>1
  <1>15. \A h \in Window : ClaimsOn(packets, h) = {} => State(h)' = State(h) /\ CellNow(h)' = CellNow(h)
    BY <1>6, <1>13
  <1>16. \A p \in packets : handle[p] \in hs
    BY DEF hs
  <1> QED BY <1>1, <1>7, <1>13, <1>14, <1>15, <1>16

Emptied(t) == {h \in slice[t].moved : CellNow(h).ref = 0}

\* The drop of a slice: its cells go back to the store, in whichever buffer
\* the thread held them and the store now has; only tombstones that nobody is
\* to be redirected by are retired, and the ring advances over retired cells
\* only.
LEMMA DropEffect ==
    ASSUME StoreTypes, RingInv, NEW t \in Threads, DropSlice(t)
    PROVE  /\ RingInv' /\ Window' \subseteq Window
           /\ slice[t].held /\ slice' = [slice EXCEPT ![t] = NoSlice] /\ handle' = handle
           /\ \A h \in slice[t].moved : IsTombstone(CellNow(h))
           /\ Live' = Live \ Emptied(t)
           /\ \A h \in Live' :
                /\ CellNow(h)' = CellNow(h)
                /\ State(h)' = IF h \in slice[t].moved THEN "Moved"
                               ELSE IF h \in slice[t].indices THEN "Free" ELSE State(h)
PROOF
  <1> DEFINE registry == ReleasedRegistry(t)
             newSlice == [slice EXCEPT ![t] = NoSlice]
             b        == slice[t].buff
  <1>1. /\ slice[t].held
        /\ \A h \in slice[t].moved : IsTombstone(SliceCell(t, h))
        /\ reg' = registry
        /\ bufs' = [c \in Reachable(newSlice, cap) |->
                      CASE c = b             -> ClearedBuffer(t)
                        [] c = cap /\ c # b  -> CarriedBuffer(t, registry)
                        [] OTHER             -> bufs[c]]
        /\ slice' = newSlice
        /\ UNCHANGED <<end, cap, handle>>
    BY DEF DropSlice
  <1>2. PICK k \in 0 .. WindowLen :
          (\A i \in 0 .. k - 1 : registry[Plus(start, i) % cap] = "Retired") /\ start' = Plus(start, k)
    BY DEF DropSlice, RetiredPrefix
  <1>3. t \in Holders
    BY <1>1 DEF Holders
  <1>4. /\ RingTypes /\ cap \in Capacities /\ cap \in DOMAIN bufs /\ WindowLen <= cap
        /\ WindowLen \in Int /\ cap \in Int /\ start \in Int
        /\ slice \in [Threads -> [held : BOOLEAN, buff : Capacities,
                                  indices : SUBSET Handles, moved : SUBSET Handles]]
    BY RingNumbers DEF StoreTypes, RingTypes, BuffersHold, RingInv, WindowFits, SliceTypes
  <1>5. \A h \in Window : /\ h % cap \in 0 .. cap - 1
                          /\ HandleOfSlot(h % cap, cap) = h
                          /\ \A g \in Window : h % cap = g % cap => h = g
    BY <1>4, WindowSlots DEF SlotsUnique
  <1>6. /\ slice[t].indices \subseteq Window /\ slice[t].moved \subseteq slice[t].indices
    BY <1>3 DEF RingInv, SlicesInWindow
  <1>7. \A h \in slice[t].indices : CellNow(h) = SliceCell(t, h) /\ State(h) = "Locked"
    BY <1>3, CellOfHolder, HolderFacts DEF HeldBy, RingInv, Holders
  <1>8. Exhausteds(t) = Emptied(t) /\ Exhausteds(t) \subseteq slice[t].moved
    BY <1>6, <1>7 DEF Exhausteds, Emptied
  <1>9. ASSUME NEW h \in Window, NEW hs \in SUBSET Window PROVE h % cap \in SlotsOf(hs) <=> h \in hs
    BY <1>5 DEF SlotsOf
  <1>10. ASSUME NEW h \in Window
         PROVE  registry[h % cap] =
                  IF h \in Emptied(t) THEN "Retired"
                  ELSE IF h \in slice[t].moved THEN "Moved"
                  ELSE IF h \in slice[t].indices THEN "Free" ELSE State(h)
    <2> DEFINE x       == h % cap
               retired == SlotsOf(Exhausteds(t))
               moved   == SlotsOf(slice[t].moved) \ retired
               free    == SlotsOf(slice[t].indices) \ (moved \cup retired)
    <2>1. /\ x \in retired <=> h \in Emptied(t)
          /\ x \in SlotsOf(slice[t].moved) <=> h \in slice[t].moved
          /\ x \in SlotsOf(slice[t].indices) <=> h \in slice[t].indices
      BY <1>6, <1>8, <1>9
    <2>2. registry[x] = CASE x \in retired -> "Retired"
                          [] x \in moved   -> "Moved"
                          [] x \in free    -> "Free"
                          [] OTHER         -> reg[x]
      <3>1. x \in 0 .. cap - 1
        BY <1>5
      <3> HIDE DEF x
      <3> QED BY <3>1 DEF ReleasedRegistry
    <2>3. reg[x] = State(h)
      BY DEF State
    <2> HIDE DEF x, retired
    <2> QED BY <1>6, <2>1, <2>2, <2>3 DEF x
  <1>11. \A h \in Window : State(h)' = registry[h % cap]
    BY <1>1 DEF State
  <1>12. /\ WindowLen' = WindowLen - k
         /\ \A h : h \in Window' <=> h \in Window /\ Offset(h) >= k
    BY <1>1, <1>2, <1>4, WindowShrinks
  <1>13. Window' \subseteq Window
    BY <1>12
  <1>14. ASSUME NEW h \in Window, registry[h % cap] # "Retired" PROVE h \in Window'
    <2>1. h \in Handles /\ h \in Int
      BY WindowIs, HandlesAreIntegers
    <2>2. Plus(start, Offset(h)) = h /\ Offset(h) \in Int /\ Offset(h) >= 0
      BY <1>4, <2>1, PlusOffset, OffsetType, RangeType
    <2>3. ~ Offset(h) \in 0 .. k - 1
      BY <1>2, <1>14, <2>2
    <2> QED BY <1>4, <1>12, <2>2, <2>3
  <1> HIDE DEF registry
  <1>15. /\ slice'[t] = NoSlice /\ ~ slice'[t].held
         /\ \A u \in Threads \ {t} : slice'[u] = slice[u]
    BY <1>1, <1>4 DEF NoSlice
  <1>16. Holders' = Holders \ {t}
    BY <1>15 DEF Holders
  <1>17. ASSUME NEW u \in Holders, u # t
         PROVE  /\ u \in Threads /\ slice'[u] = slice[u] /\ u \in Holders'
                /\ slice[u].indices \cap slice[t].indices = {}
                /\ slice[u].indices \subseteq Window'
    <2>1. u \in Threads /\ slice'[u] = slice[u] /\ u \in Holders'
      BY <1>15, <1>16, <1>17 DEF Holders
    <2>2. slice[u].indices \cap slice[t].indices = {}
      BY <1>3, <1>17 DEF RingInv, SlicesApart
    <2>3. ASSUME NEW h \in slice[u].indices PROVE h \in Window'
      <3>1. h \in Window /\ State(h) = "Locked"
        BY HolderFacts
      <3>2. registry[h % cap] = "Locked"
        BY <1>6, <1>8, <1>10, <2>2, <3>1
      <3> QED BY <1>14, <3>1, <3>2
    <2> QED BY <2>1, <2>2, <2>3
  <1>18. SlicesInWindow'
    BY <1>1, <1>16, <1>17 DEF RingInv, SlicesInWindow
  <1>19. SlicesApart' /\ SlotsApart'
    BY <1>16, <1>17 DEF RingInv, SlicesApart, SlotsApart
  <1>20. LockedIsHeld'
    <2> SUFFICES ASSUME NEW h \in Window'
                 PROVE  State(h)' = "Locked" <=> \E u \in Holders' : h \in slice'[u].indices
      BY DEF LockedIsHeld
    <2>1. h \in Window /\ State(h)' = registry[h % cap]
      BY <1>11, <1>13
    <2>2. State(h) = "Locked" <=> \E u \in Holders : h \in slice[u].indices
      BY <2>1 DEF RingInv, LockedIsHeld
    <2>3. CASE h \in slice[t].indices
      <3>1. State(h)' # "Locked"
        BY <1>10, <2>1, <2>3
      <3>2. \A u \in Holders' : h \notin slice'[u].indices
        BY <1>16, <1>17, <2>3
      <3> QED BY <3>1, <3>2
    <2>4. CASE h \notin slice[t].indices
      <3>1. State(h)' = State(h)
        BY <1>6, <1>8, <1>10, <2>1, <2>4
      <3>2. (\E u \in Holders : h \in slice[u].indices) <=> \E u \in Holders' : h \in slice'[u].indices
        BY <1>16, <1>17, <2>4
      <3> QED BY <2>2, <3>1, <3>2
    <2> QED BY <2>3, <2>4
  <1>21. WindowFits'
    BY <1>1, <1>4, <1>12 DEF WindowFits
  <1>22. Live' = Live \ Emptied(t)
    <2>1. Live' = {h \in Window' : State(h)' # "Retired"}
      BY DEF Live
    <2>2. ASSUME NEW h \in Live' PROVE h \in Live \ Emptied(t)
      <3>1. h \in Window /\ registry[h % cap] # "Retired"
        BY <1>11, <1>13, <2>1, <2>2
      <3>2. h \notin Emptied(t)
        BY <1>10, <3>1
      <3>3. CASE h \in slice[t].indices
        BY <1>7, <3>1, <3>2, <3>3 DEF Live
      <3>4. CASE h \notin slice[t].indices
        BY <1>6, <1>10, <3>1, <3>2, <3>4 DEF Live
      <3> QED BY <3>3, <3>4
    <2>3. ASSUME NEW h \in Live \ Emptied(t) PROVE h \in Live'
      <3>1. h \in Window /\ State(h) # "Retired" /\ h \notin Emptied(t)
        BY <2>3 DEF Live
      <3>2. registry[h % cap] # "Retired"
        BY <1>10, <3>1
      <3> QED BY <1>11, <1>14, <2>1, <3>1, <3>2
    <2> QED BY <2>2, <2>3
  <1>23. ASSUME NEW h \in Live'
         PROVE  /\ h \in Window /\ h \notin Emptied(t) /\ registry[h % cap] # "Retired"
                /\ State(h)' = IF h \in slice[t].moved THEN "Moved"
                               ELSE IF h \in slice[t].indices THEN "Free" ELSE State(h)
    <2>1. h \in Window /\ h \notin Emptied(t) /\ State(h)' # "Retired"
      <3>1. h \in Window' /\ State(h)' # "Retired"
        BY DEF Live
      <3> QED BY <1>13, <1>22, <3>1
    <2> QED BY <1>10, <1>11, <2>1
  <1>24. /\ DOMAIN bufs' = Reachable(slice', cap)
         /\ \A c \in Reachable(slice', cap) :
              /\ c = b => bufs'[c] = ClearedBuffer(t)
              /\ c = cap /\ c # b => bufs'[c] = CarriedBuffer(t, registry)
              /\ c # cap /\ c # b => bufs'[c] = bufs[c]
    <2>1. newSlice = slice'
      BY <1>1
    <2> HIDE DEF newSlice, b
    <2> QED BY <1>1, <2>1
  <1>25. b \in Capacities /\ b \in DOMAIN bufs /\ cap \in Reachable(slice', cap)
    BY <1>1, <1>4 DEF StoreTypes, BuffersHold, Reachable
  <1>26. ASSUME NEW h \in Window, h \notin Emptied(t), registry[h % cap] # "Retired"
         PROVE  /\ h \in slice[t].indices => bufs'[cap][h % cap] = SliceCell(t, h)
                /\ h \notin slice[t].indices => bufs'[cap][h % cap] = Cell(h)
    <2>1. h % cap \in 0 .. cap - 1 /\ HandleOfSlot(h % cap, cap) = h
      BY <1>5
    <2>2. CASE cap = b
      <3>1. \A g \in Exhausteds(t) : g % b # h % b
        BY <1>5, <1>6, <1>8, <1>26, <2>2
      <3>2. bufs'[cap] = ClearedBuffer(t)
        BY <1>24, <1>25, <2>2
      <3>3. ClearedBuffer(t)[h % cap] = bufs[cap][h % cap]
        BY <2>1, <2>2, <3>1 DEF ClearedBuffer
      <3> QED BY <2>2, <3>2, <3>3 DEF SliceCell, Cell
    <2>3. CASE cap # b
      <3>1. bufs'[cap] = CarriedBuffer(t, registry)
        BY <1>24, <1>25, <2>3
      <3>2. CarriedBuffer(t, registry)[h % cap] =
              IF h \in slice[t].indices THEN SliceCell(t, h) ELSE bufs[cap][h % cap]
        <4> DEFINE x == h % cap
        <4>1. x \in 0 .. cap - 1 /\ HandleOfSlot(x, cap) = h /\ registry[x] # "Retired"
          BY <1>26, <2>1
        <4> HIDE DEF x
        <4>2. CarriedBuffer(t, registry)[x] = IF h \in slice[t].indices THEN SliceCell(t, h) ELSE bufs[cap][x]
          BY <4>1 DEF CarriedBuffer
        <4> QED BY <4>2 DEF x
      <3> QED BY <3>1, <3>2 DEF Cell
    <2> QED BY <2>2, <2>3
  <1>27. ASSUME NEW u \in Holders, u # t, NEW h \in slice[u].indices
         PROVE  SliceCell(u, h)' = SliceCell(u, h)
    <2> DEFINE d == slice[u].buff
    <2>1. /\ d \in Capacities /\ h \in Window /\ h \in Int /\ h % d \in 0 .. d - 1
          /\ d \in Reachable(slice', cap)
      <3>1. u \in {v \in Threads : slice'[v].held}
        BY <1>16, <1>17, <1>27 DEF Holders
      <3>2. d \in Reachable(slice', cap)
        BY <1>17, <1>27, <3>1 DEF Reachable
      <3> QED BY <3>2, HolderFacts
    <2>2. SliceCell(u, h)' = bufs'[d][h % d] /\ SliceCell(u, h) = bufs[d][h % d]
      BY <1>17, <1>27 DEF SliceCell
    <2>3. h \notin slice[t].indices
      BY <1>17, <1>27
    <2>4. CASE d = b
      <3>1. \A g \in Exhausteds(t) : g % b # h % b
        <4>1. \A g \in slice[t].indices : g % b = h % b => g = h
          BY <1>3, <2>4 DEF RingInv, SlotsApart
        <4> QED BY <1>6, <1>8, <2>3, <4>1
      <3>2. bufs'[d] = ClearedBuffer(t)
        BY <1>24, <2>1, <2>4
      <3>3. ClearedBuffer(t)[h % d] = bufs[d][h % d]
        BY <2>1, <2>4, <3>1 DEF ClearedBuffer
      <3> QED BY <2>2, <3>2, <3>3
    <2>5. CASE d # b /\ d = cap
      <3>1. registry[h % cap] # "Retired" /\ h \notin Emptied(t)
        <4>1. State(h) = "Locked" /\ h \notin Emptied(t)
          BY <1>6, <1>8, <2>3, HolderFacts
        <4> QED BY <1>6, <1>10, <2>1, <2>3, <4>1
      <3> QED BY <1>26, <2>1, <2>2, <2>3, <2>5, <3>1 DEF Cell
    <2>6. CASE d # b /\ d # cap
      <3> HIDE DEF d
      <3> QED BY <1>24, <2>1, <2>2, <2>6
    <2> QED BY <2>4, <2>5, <2>6
  <1>28. VacantEmpty'
    <2>1. ASSUME NEW h \in Window, Cell(h) = NoCell,
                 ~ (h \in slice[t].indices /\ registry[h % cap] # "Retired")
          PROVE  Cell(h)' = NoCell
      <3>1. h % cap \in 0 .. cap - 1 /\ HandleOfSlot(h % cap, cap) = h
        BY <1>5
      <3>2. Cell(h)' = bufs'[cap][h % cap] /\ Cell(h) = bufs[cap][h % cap]
        BY <1>1 DEF Cell
      <3>3. CASE cap = b
        <4>1. bufs'[cap] = ClearedBuffer(t)
          BY <1>24, <1>25, <3>3
        <4> QED BY <2>1, <3>1, <3>2, <3>3, <4>1 DEF ClearedBuffer
      <3>4. CASE cap # b
        <4>1. bufs'[cap] = CarriedBuffer(t, registry)
          BY <1>24, <1>25, <3>4
        <4>2. CarriedBuffer(t, registry)[h % cap] = bufs[cap][h % cap]
          <5> DEFINE x == h % cap
          <5>1. x \in 0 .. cap - 1 /\ HandleOfSlot(x, cap) = h
            BY <3>1
          <5>2. ~ (h \in slice[t].indices /\ registry[x] # "Retired")
            BY <2>1
          <5> HIDE DEF x
          <5>3. CarriedBuffer(t, registry)[x] = bufs[cap][x]
            BY <5>1, <5>2 DEF CarriedBuffer
          <5> QED BY <5>3 DEF x
        <4> QED BY <2>1, <3>2, <4>1, <4>2
      <3> QED BY <3>3, <3>4
    <2>2. ASSUME NEW h \in Emptied(t) PROVE Cell(h)' = NoCell
      <3>1. h \in Window /\ h \in slice[t].indices /\ registry[h % cap] = "Retired"
        BY <1>6, <1>8, <1>10, <2>2
      <3>2. CASE cap = b
        <4>1. bufs'[cap] = ClearedBuffer(t)
          BY <1>24, <1>25, <3>2
        <4>2. ClearedBuffer(t)[h % cap] = NoCell
          BY <1>5, <1>8, <2>2, <3>1, <3>2 DEF ClearedBuffer
        <4> QED BY <1>1, <4>1, <4>2 DEF Cell
      <3>3. CASE cap # b
        BY <1>3, <2>1, <3>1, <3>3 DEF RingInv, VacantEmpty
      <3> QED BY <3>2, <3>3
    <2>3. ASSUME NEW h \in Window', State(h)' = "Retired" PROVE Cell(h)' = NoCell
      <3>1. h \in Window /\ registry[h % cap] = "Retired"
        BY <1>11, <1>13, <2>3
      <3>2. CASE h \notin Emptied(t)
        <4>1. State(h) = "Retired"
          BY <1>10, <3>1, <3>2
        <4> QED BY <2>1, <3>1, <4>1 DEF RingInv, VacantEmpty
      <3> QED BY <2>2, <3>2
    <2>4. ASSUME NEW u \in Holders', slice'[u].buff # cap', NEW h \in slice'[u].indices
          PROVE  Cell(h)' = NoCell
      <3>1. /\ u \in Holders /\ slice'[u] = slice[u] /\ cap' = cap
            /\ slice[u].indices \cap slice[t].indices = {}
        BY <1>1, <1>16, <1>17
      <3>2. h \in Window /\ Cell(h) = NoCell
        BY <2>4, <3>1 DEF RingInv, SlicesInWindow, VacantEmpty
      <3> QED BY <2>1, <2>4, <3>1, <3>2
    <2> QED BY <2>3, <2>4 DEF VacantEmpty
  <1>29. RingInv'
    BY <1>18, <1>19, <1>20, <1>21, <1>28 DEF RingInv
  <1>30. ASSUME NEW h \in Live' PROVE CellNow(h)' = CellNow(h)
    <2>1. CASE \E u \in Holders : u # t /\ h \in slice[u].indices
      <3>1. PICK u \in Holders : u # t /\ h \in slice[u].indices
        BY <2>1
      <3>2. HeldBy(u, h) /\ HeldBy(u, h)' /\ u \in Threads
        BY <1>17, <3>1 DEF HeldBy
      <3>3. CellNow(h) = SliceCell(u, h) /\ CellNow(h)' = SliceCell(u, h)'
        BY <1>19, <3>2, CellOfHolder, CellsNext DEF RingInv
      <3> QED BY <1>27, <3>1, <3>3
    <2>2. CASE ~ \E u \in Holders : u # t /\ h \in slice[u].indices
      <3>1. Unheld(h)'
        BY <1>16, <1>17, <2>2 DEF Unheld
      <3>2. CellNow(h)' = bufs'[cap][h % cap]
        BY <1>1, <1>19, <3>1, CellsNext DEF Cell
      <3>3. CASE h \in slice[t].indices
        BY <1>7, <1>23, <1>26, <3>2, <3>3
      <3>4. CASE h \notin slice[t].indices
        <4>1. Unheld(h)
          BY <2>2, <3>4 DEF Unheld
        <4>2. CellNow(h) = Cell(h)
          BY <4>1, CellOfStore
        <4> QED BY <1>23, <1>26, <3>2, <3>4, <4>2
      <3> QED BY <3>3, <3>4
    <2> QED BY <2>1, <2>2
  <1>31. \A h \in slice[t].moved : IsTombstone(CellNow(h))
    BY <1>1, <1>6, <1>7
  <1> QED BY <1>1, <1>13, <1>22, <1>23, <1>29, <1>30, <1>31

\* Steps that do not touch the ring, its cells and the slices.
LEMMA QuietEffect ==
    ASSUME UNCHANGED <<start, end, cap, reg, bufs, slice>>
    PROVE  /\ RingInv => RingInv'
           /\ Window' = Window /\ Live' = Live
           /\ \A h : State(h)' = State(h) /\ CellNow(h)' = CellNow(h)
PROOF
  <1>1. Window' = Window /\ WindowLen' = WindowLen
    BY DEF Window, InWindow, WindowLen
  <1>2. \A h : State(h)' = State(h)
    BY DEF State
  <1>3. Holders' = Holders
    BY DEF Holders
  <1>4. \A h : CellNow(h)' = CellNow(h)
    BY <1>3 DEF CellNow, SliceCell, Cell
  <1>5. Live' = Live
    BY <1>1, <1>2 DEF Live
  <1>6. RingInv => RingInv'
    <2>1. \A h : Cell(h)' = Cell(h)
      BY DEF Cell
    <2>2. VacantEmpty => VacantEmpty'
      BY <1>1, <1>2, <1>3, <2>1 DEF VacantEmpty
    <2> QED BY <1>1, <1>2, <1>3, <2>2
            DEF RingInv, WindowFits, SlicesInWindow, SlicesApart, LockedIsHeld, SlotsApart
  <1> QED BY <1>1, <1>2, <1>4, <1>5, <1>6

LEMMA EmptyRing == StoreInit => RingInv /\ Window = {}
PROOF
  <1> SUFFICES ASSUME StoreInit PROVE RingInv /\ Window = {}
    OBVIOUS
  <1>1. FirstIndex \in Int /\ IndexRange \in Nat /\ IndexRange # 0
    BY CapacityAssumption
  <1>2. WindowLen = 0
    <2>1. 0 % IndexRange = 0
      BY <1>1, SmallRemainder
    <2> QED BY <1>1, <2>1 DEF StoreInit, WindowLen
  <1>3. Window = {}
    <2>1. \A h \in Handles : Offset(h) \in 0 .. IndexRange - 1
      BY <1>1, OffsetType, HandlesAreIntegers DEF StoreInit
    <2> QED BY <1>1, <1>2, <2>1, WindowIs
  <1>4. Holders = {}
    BY DEF Holders, StoreInit, NoSlice
  <1>5. WindowFits
    BY <1>2, CapacityType, CapacityAssumption DEF WindowFits, StoreInit
  <1> QED BY <1>3, <1>4, <1>5
          DEF RingInv, SlicesInWindow, SlicesApart, LockedIsHeld, SlotsApart, VacantEmpty

-----------------------------------------------------------------------------
(* The inductive invariant.                                                *)

Stones  == {h \in Live : IsTombstone(CellNow(h))}
Islands == {h \in Live : IsIsland(CellNow(h))}
Results == {h \in Live : IsResult(CellNow(h))}
Blanks  == {h \in Live : CellNow(h) = NoCell}

\* P[h] is the set of the packets whose way from their handles passes h.
Located(P) ==
    /\ P \in [Handles -> SUBSET DOMAIN at]
    /\ \A h \in Handles \ Live : P[h] = {}
    /\ \A p \in DOMAIN at : p \in P[handle[p]]

\* A cell lists or counts the packets that pass it.
IslandsList(P) == \A h \in Islands : P[h] = CellNow(h).active /\ P[h] # {}

ResultsList(P) ==
    \A h \in Results :
      /\ CellNow(h).ref = Cardinality(P[h]) /\ P[h] # {}
      /\ P[h] \subseteq CellNow(h).packets \cap Detected

StonesCount(P) ==
    \A h \in Stones :
      /\ CellNow(h).ref = Cardinality(P[h])
      /\ P[h] \subseteq P[CellNow(h).dest]
      /\ State(h) = "Moved" => P[h] # {}

BlanksEmpty(P) == \A h \in Blanks : P[h] = {}

\* A way ends in one cell, comes to a cell only from one, never back to its
\* beginning, and has no cell that it does not need.
OneEnd(P) == \A h, g \in Live \ Stones : h # g => P[h] \cap P[g] = {}

NoReturn(P) == \A g \in Stones : \A p \in P[g] : CellNow(g).dest # handle[p]

OneWay(P) ==
    \A f, g \in Stones : f # g /\ CellNow(f).dest = CellNow(g).dest => P[f] \cap P[g] = {}

LeadsOn(P, p, X) ==
    /\ handle[p] \in X
    /\ \A g \in X \cap Stones : p \in P[g] => CellNow(g).dest \in X

Shortest(P) ==
    \A p \in DOMAIN at : \A X \in SUBSET Handles :
      LeadsOn(P, p, X) => \A h \in Handles : p \in P[h] => h \in X

Led(P) ==
    /\ Located(P)
    /\ IslandsList(P) /\ ResultsList(P) /\ StonesCount(P) /\ BlanksEmpty(P)
    /\ OneEnd(P) /\ NoReturn(P) /\ OneWay(P) /\ Shortest(P)

\* What the registry says of a cell that nobody holds, and what a thread may
\* find in the cells it holds.
StateFits(h) ==
    /\ State(h) = "Moved" => IsTombstone(CellNow(h))
    /\ State(h) = "Free" => IsIsland(CellNow(h)) \/ IsResult(CellNow(h))

SliceFits(t) ==
    slice[t].held =>
      \A h \in slice[t].indices :
        /\ IsTombstone(CellNow(h)) <=> h \in slice[t].moved
        /\ CellNow(h) = NoCell <=> pc[t] = "populate"
        /\ IsTombstone(CellNow(h)) => CellNow(h).dest \in slice[t].indices

HolderAt(t)  == slice[t].held <=> pc[t] \in HoldingPlaces
BatchHeld(t) == pc[t] = "work" => \A p \in BatchOf(t) : handle[p] \in slice[t].indices

HoldingInv ==
    /\ \A h \in Live : StateFits(h)
    /\ \A t \in Threads : SliceFits(t) /\ HolderAt(t) /\ BatchHeld(t)

\* An island counts its detected packets.
Counted == \A h \in Islands : CellNow(h).done = Cardinality(CellNow(h).active \cap Detected)

\* The clones of a detector are of complete islands, still as they were.
ClonePlaces == {"worked", "relock", "publish"}

CloneKept(t) ==
    /\ t \notin Detectors \/ pc[t] \notin ClonePlaces => DOMAIN clones[t] = {}
    /\ \A h \in DOMAIN clones[t] :
         /\ h \in Islands
         /\ CellNow(h) = clones[t][h]
         /\ IsCollapseReady(CellNow(h))
         /\ pc[t] = "relock" => State(h) = "Free"
         /\ pc[t] # "relock" => slice[t].held /\ h \in slice[t].indices

ClonesInv ==
    /\ \A t \in Threads : CloneKept(t)
    /\ \A t, u \in Threads : t # u => DOMAIN clones[t] \cap DOMAIN clones[u] = {}

\* Snowflakes are fresh: no packet has the number of a pair to come, and no
\* packet has a beginning of the history of another one.
Prefix(r, s) == Len(r) <= Len(s) /\ \A i \in 1 .. Len(r) : r[i] = s[i]

PairsFresh ==
    /\ end = Plus(FirstIndex, generated)
    /\ \A p \in DOMAIN at : p.pair < generated
    /\ \A h \in Blanks : \A p \in DOMAIN at : p.pair # PairOf(h)

PathsFresh ==
    \A p, q \in DOMAIN at : p.pair = q.pair /\ Prefix(p.path, q.path) => p = q

FreshInv == PairsFresh /\ PathsFresh

LogicInv ==
    RingInv /\ HoldingInv /\ Counted /\ ClonesInv /\ FreshInv /\ \E P : Led(P)

StoreInv == TypeInv /\ LogicInv

LEMMA Kinds ==
    /\ \A cell : /\ IsIsland(cell) => ~ IsTombstone(cell) /\ ~ IsResult(cell) /\ cell # NoCell
                 /\ IsTombstone(cell) => ~ IsResult(cell) /\ cell # NoCell
                 /\ IsResult(cell) => cell # NoCell
    /\ \A active, done : /\ IsIsland(Island(active, done))
                         /\ Island(active, done).active = active
                         /\ Island(active, done).done = done
    /\ \A ref, dest : /\ IsTombstone(Tombstone(ref, dest))
                      /\ Tombstone(ref, dest).ref = ref
                      /\ Tombstone(ref, dest).dest = dest
    /\ \A packets, ref : /\ IsResult(CollapseResult(packets, ref))
                         /\ CollapseResult(packets, ref).packets = packets
                         /\ CollapseResult(packets, ref).ref = ref
  BY DEF IsIsland, IsTombstone, IsResult, NoCell, Island, Tombstone, CollapseResult

LEMMA CellKinds ==
    ASSUME NEW cell \in Cells
    PROVE  cell = NoCell \/ IsIsland(cell) \/ IsTombstone(cell) \/ IsResult(cell)
  BY DEF Cells, InteractionCell, IsIsland, IsTombstone, IsResult

-----------------------------------------------------------------------------
(* What being led means for one packet.                                    *)

LEMMA LiveHandles == Live \subseteq Handles
  BY WindowIs DEF Live

\* A packet whose handle is not a tombstone's is nowhere else.
LEMMA Arrived ==
    ASSUME NEW P, Led(P), NEW p \in DOMAIN at, handle[p] \notin Stones, handle[p] \in Handles,
           NEW h \in Handles, p \in P[h]
    PROVE  h = handle[p]
PROOF
  <1> DEFINE X == {handle[p]}
  <1>1. X \in SUBSET Handles /\ LeadsOn(P, p, X)
    BY DEF LeadsOn
  <1>2. h \in X
    <2> HIDE DEF X
    <2> QED BY <1>1 DEF Led, Shortest
  <1> QED BY <1>2

\* The handle of a packet is of a cell in use.
LEMMA LedToLive ==
    ASSUME TypeInv, NEW P, Led(P), NEW p \in DOMAIN at
    PROVE  /\ handle[p] \in Live /\ handle[p] \in Window /\ handle[p] \in Handles
           /\ p \in P[handle[p]] /\ p \in DOMAIN handle
PROOF
  <1>1. handle \in [DOMAIN at -> Handles]
    BY DEF TypeInv, PacketTypes
  <1>2. p \in P[handle[p]] /\ handle[p] \in Handles
    BY <1>1 DEF Led, Located
  <1>3. handle[p] \in Live
    BY <1>2 DEF Led, Located
  <1> QED BY <1>1, <1>2, <1>3 DEF Live

\* Cells of the ring are well typed.
LEMMA CellNowType ==
    ASSUME StoreTypes, RingInv, NEW h \in Window
    PROVE  CellNow(h) \in Cells
PROOF
  <1>1. h \in Int
    BY WindowIs, HandlesAreIntegers
  <1>2. CASE \E t \in Holders : h \in slice[t].indices
    <2>1. PICK t \in Holders : h \in slice[t].indices
      BY <1>2
    <2>2. CellNow(h) = SliceCell(t, h) /\ slice[t].buff \in DOMAIN bufs
      BY <2>1, CellOfHolder, HolderFacts DEF HeldBy, RingInv, Holders
    <2> QED BY <1>1, <2>2, StoredCell DEF SliceCell
  <1>3. CASE ~ \E t \in Holders : h \in slice[t].indices
    <2>1. CellNow(h) = Cell(h) /\ cap \in DOMAIN bufs
      BY <1>3, CellOfStore DEF Unheld, StoreTypes, BuffersHold
    <2> QED BY <1>1, <2>1, StoredCell DEF Cell
  <1> QED BY <1>2, <1>3

-----------------------------------------------------------------------------
(* Steps that keep every packet's way.                                     *)

SameListing(h) ==
    \/ CellNow(h)' = CellNow(h)
    \/ /\ IsIsland(CellNow(h)) /\ IsIsland(CellNow(h)')
       /\ CellNow(h)'.active = CellNow(h).active

SameWays(P) ==
    /\ handle' = handle /\ DOMAIN at' = DOMAIN at /\ Detected \subseteq Detected'
    /\ Live' \subseteq Handles
    /\ \A h \in Live \ Live' : P[h] = {}
    /\ \A h \in Live' \ Live : CellNow(h)' = NoCell
    /\ \A h \in Live \cap Live' : /\ SameListing(h)
                                  /\ State(h)' = "Moved" => State(h) = "Moved" \/ P[h] # {}

LEMMA LedStays ==
    ASSUME NEW P, Led(P), SameWays(P)
    PROVE  Led(P)'
PROOF
  <1>1. /\ handle' = handle /\ DOMAIN at' = DOMAIN at /\ Detected \subseteq Detected'
        /\ Live' \subseteq Handles
        /\ \A h \in Live \ Live' : P[h] = {}
        /\ \A h \in Live' \ Live : CellNow(h)' = NoCell
        /\ \A h \in Live \cap Live' : SameListing(h)
        /\ \A h \in Live \cap Live' : State(h)' = "Moved" => State(h) = "Moved" \/ P[h] # {}
    BY DEF SameWays
  <1>2. /\ P \in [Handles -> SUBSET DOMAIN at]
        /\ \A h \in Handles \ Live : P[h] = {}
        /\ \A p \in DOMAIN at : p \in P[handle[p]]
    BY DEF Led, Located
  <1>3. /\ \A h \in Stones' : h \in Stones /\ h \in Live' /\ CellNow(h)' = CellNow(h)
        /\ \A h \in Stones : h \in Live' => h \in Stones' /\ CellNow(h)' = CellNow(h)
    <2>1. \A h \in Live' : IsTombstone(CellNow(h)') => h \in Live /\ CellNow(h)' = CellNow(h)
      BY <1>1, Kinds DEF SameListing
    <2>2. \A h \in Live \cap Live' : IsTombstone(CellNow(h)) => CellNow(h)' = CellNow(h)
      BY <1>1, Kinds DEF SameListing
    <2> QED BY <2>1, <2>2 DEF Stones
  <1>4. \A h \in Islands' : h \in Islands /\ h \in Live' /\ CellNow(h)'.active = CellNow(h).active
    <2>1. \A h \in Live' : IsIsland(CellNow(h)') =>
            h \in Live /\ IsIsland(CellNow(h)) /\ CellNow(h)'.active = CellNow(h).active
      BY <1>1, Kinds DEF SameListing
    <2> QED BY <2>1 DEF Islands
  <1>5. \A h \in Results' : h \in Results /\ h \in Live' /\ CellNow(h)' = CellNow(h)
    <2>1. \A h \in Live' : IsResult(CellNow(h)') => h \in Live /\ CellNow(h)' = CellNow(h)
      BY <1>1, Kinds DEF SameListing
    <2> QED BY <2>1 DEF Results
  <1>6. Located(P)'
    <2>1. \A h \in Handles \ Live' : P[h] = {}
      BY <1>1, <1>2
    <2> QED BY <1>1, <1>2, <2>1 DEF Located
  <1>7. IslandsList(P)'
    BY <1>4 DEF IslandsList, Led
  <1>8. ResultsList(P)'
    BY <1>1, <1>5 DEF ResultsList, Led
  <1>9. StonesCount(P)'
    <2> SUFFICES ASSUME NEW h \in Stones'
                 PROVE  /\ CellNow(h)'.ref = Cardinality(P[h])
                        /\ P[h] \subseteq P[CellNow(h)'.dest]
                        /\ State(h)' = "Moved" => P[h] # {}
      BY DEF StonesCount
    <2>1. h \in Stones /\ CellNow(h)' = CellNow(h) /\ h \in Live \cap Live'
      BY <1>3 DEF Stones
    <2>2. /\ CellNow(h).ref = Cardinality(P[h])
          /\ P[h] \subseteq P[CellNow(h).dest]
          /\ State(h) = "Moved" => P[h] # {}
      BY <2>1 DEF Led, StonesCount
    <2> QED BY <1>1, <2>1, <2>2
  <1>10. BlanksEmpty(P)'
    <2> SUFFICES ASSUME NEW h \in Blanks' PROVE P[h] = {}
      BY DEF BlanksEmpty
    <2>1. h \in Live' /\ CellNow(h)' = NoCell
      BY DEF Blanks
    <2>2. CASE h \in Live
      <3>1. CellNow(h) = NoCell
        BY <1>1, <2>1, <2>2, Kinds DEF SameListing
      <3> QED BY <2>2, <3>1 DEF Led, BlanksEmpty, Blanks
    <2>3. CASE h \notin Live
      BY <1>1, <1>2, <2>1, <2>3
    <2> QED BY <2>2, <2>3
  <1>11. OneEnd(P)'
    <2> SUFFICES ASSUME NEW h \in Live' \ Stones', NEW g \in Live' \ Stones', h # g
                 PROVE  P[h] \cap P[g] = {}
      BY DEF OneEnd
    <2>1. CASE h \in Live /\ g \in Live
      <3>1. h \in Live \ Stones /\ g \in Live \ Stones
        BY <1>3, <2>1
      <3> QED BY <2>1, <3>1 DEF Led, OneEnd
    <2>2. CASE h \notin Live \/ g \notin Live
      BY <1>1, <1>2, <2>2
    <2> QED BY <2>1, <2>2
  <1>12. NoReturn(P)'
    BY <1>1, <1>3 DEF NoReturn, Led
  <1>13. OneWay(P)'
    <2> SUFFICES ASSUME NEW f \in Stones', NEW g \in Stones', f # g, CellNow(f)'.dest = CellNow(g)'.dest
                 PROVE  P[f] \cap P[g] = {}
      BY DEF OneWay
    <2>1. f \in Stones /\ g \in Stones /\ CellNow(f).dest = CellNow(g).dest
      BY <1>3
    <2> QED BY <2>1 DEF Led, OneWay
  <1>14. Shortest(P)'
    <2> SUFFICES ASSUME NEW p \in DOMAIN at, NEW X \in SUBSET Handles, LeadsOn(P, p, X)',
                        NEW h \in Handles, p \in P[h]
                 PROVE  h \in X
      BY <1>1 DEF Shortest
    <2>1. LeadsOn(P, p, X)
      <3>1. handle[p] \in X
        BY <1>1 DEF LeadsOn
      <3>2. ASSUME NEW g \in X \cap Stones, p \in P[g] PROVE CellNow(g).dest \in X
        <4>1. g \in Live'
          BY <1>1, <3>2 DEF Stones
        <4>2. g \in X \cap Stones' /\ CellNow(g)' = CellNow(g)
          BY <1>3, <4>1
        <4>3. CellNow(g)'.dest \in X
          BY <3>2, <4>2 DEF LeadsOn
        <4> QED BY <4>2, <4>3
      <3> QED BY <3>1, <3>2 DEF LeadsOn
    <2> QED BY <2>1 DEF Led, Shortest
  <1> QED BY <1>6, <1>7, <1>8, <1>9, <1>10, <1>11, <1>12, <1>13, <1>14 DEF Led

-----------------------------------------------------------------------------
(* A packet is redirected by the tombstone its handle leads to.            *)

Redirects(p, h) ==
    LET cell == CellNow(h)
    IN  /\ h = handle[p] /\ h \in Stones /\ cell.dest \in Handles
        /\ handle' = [handle EXCEPT ![p] = cell.dest]
        /\ DOMAIN at' = DOMAIN at /\ Detected \subseteq Detected'
        /\ Live' \subseteq Live
        /\ \A g \in Live \ {h} : /\ g \in Live' /\ CellNow(g)' = CellNow(g)
                                 /\ State(g)' = State(g)
        /\ h \in Live' => /\ CellNow(h)' = Tombstone(cell.ref - 1, cell.dest)
                          /\ State(h)' = "Moved" => cell.ref - 1 # 0
        /\ h \notin Live' => cell.ref - 1 = 0

LEMMA LedOn ==
    ASSUME TypeInv, NEW P, Led(P), NEW p \in DOMAIN at, NEW h, Redirects(p, h)
    PROVE  \E Q : Led(Q)'
PROOF
  <1> PICK Q : Q = [P EXCEPT ![h] = @ \ {p}]
    OBVIOUS
  <1> DEFINE dest == CellNow(h).dest
  <1>1. /\ h = handle[p] /\ h \in Stones /\ dest \in Handles
        /\ handle' = [handle EXCEPT ![p] = dest]
        /\ DOMAIN at' = DOMAIN at /\ Detected \subseteq Detected'
        /\ Live' \subseteq Live
        /\ \A g \in Live \ {h} : /\ g \in Live' /\ CellNow(g)' = CellNow(g)
                                 /\ State(g)' = State(g)
        /\ h \in Live' => /\ CellNow(h)' = Tombstone(CellNow(h).ref - 1, dest)
                          /\ State(h)' = "Moved" => CellNow(h).ref - 1 # 0
        /\ h \notin Live' => CellNow(h).ref - 1 = 0
    BY DEF Redirects
  <1>2. /\ P \in [Handles -> SUBSET DOMAIN at]
        /\ \A g \in Handles \ Live : P[g] = {}
        /\ \A q \in DOMAIN at : q \in P[handle[q]]
        /\ Live \subseteq Handles /\ h \in Live /\ h \in Handles
        /\ DOMAIN handle = DOMAIN at /\ IsTombstone(CellNow(h))
    BY <1>1, LiveHandles DEF Led, Located, Stones, TypeInv, PacketTypes
  <1>3. /\ Q \in [Handles -> SUBSET DOMAIN at]
        /\ Q[h] = P[h] \ {p}
        /\ \A g \in Handles \ {h} : Q[g] = P[g]
    BY <1>2
  <1>4. /\ CellNow(h).ref = Cardinality(P[h]) /\ P[h] \subseteq P[dest]
        /\ p \in P[h]
    BY <1>1, <1>2 DEF Led, StonesCount
  <1>5. \A g \in Stones : p \in P[g] => CellNow(g).dest # h
    BY <1>1 DEF Led, NoReturn
  <1>6. dest # h
    BY <1>1, <1>4, <1>5
  <1>7. /\ Cardinality(Q[h]) = CellNow(h).ref - 1
        /\ CellNow(h).ref - 1 = 0 <=> Q[h] = {}
    <2>1. IsFiniteSet(P[h])
      BY <1>2, FS_Subset DEF TypeInv
    <2>2. IsFiniteSet(P[h] \ {p}) /\ Cardinality(P[h] \ {p}) = Cardinality(P[h]) - 1
      BY <1>4, <2>1, FS_RemoveElement
    <2>3. Cardinality(P[h] \ {p}) = 0 <=> P[h] \ {p} = {}
      BY <2>2, FS_EmptySet
    <2> QED BY <1>3, <1>4, <2>2, <2>3
  <1> HIDE DEF dest
  <1>8. /\ \A g \in Stones' : g \in Stones /\ g \in Live' /\ CellNow(g)'.dest = CellNow(g).dest
        /\ \A g \in Stones : g \in Live' => g \in Stones' /\ CellNow(g)'.dest = CellNow(g).dest
        /\ \A g \in Stones' : g # h => CellNow(g)' = CellNow(g) /\ State(g)' = State(g)
    <2>1. h \in Live' => IsTombstone(CellNow(h)') /\ CellNow(h)'.dest = CellNow(h).dest
      BY <1>1, Kinds DEF dest
    <2> QED BY <1>1, <2>1 DEF Stones
  <1>9. h \in Live' => IsTombstone(CellNow(h)') /\ CellNow(h)'.ref = CellNow(h).ref - 1
                       /\ CellNow(h)'.dest = dest
    BY <1>1, Kinds
  <1>10. Located(Q)'
    <2>1. ASSUME NEW g \in Handles \ Live' PROVE Q[g] = {}
      BY <1>1, <1>2, <1>3, <1>7
    <2>2. ASSUME NEW q \in DOMAIN at PROVE q \in Q[handle'[q]]
      <3>1. CASE q = p
        BY <1>1, <1>2, <1>3, <1>4, <1>6, <3>1
      <3>2. CASE q # p
        <4>1. handle'[q] = handle[q] /\ handle[q] \in Handles
          BY <1>1, <1>2, <3>2 DEF TypeInv, PacketTypes
        <4> QED BY <1>2, <1>3, <3>2, <4>1
      <3> QED BY <3>1, <3>2
    <2> QED BY <1>1, <1>3, <2>1, <2>2 DEF Located
  <1>11. IslandsList(Q)'
    <2> SUFFICES ASSUME NEW g \in Islands' PROVE Q[g] = CellNow(g)'.active /\ Q[g] # {}
      BY DEF IslandsList
    <2>1. g # h /\ g \in Live /\ CellNow(g)' = CellNow(g) /\ g \in Handles
      BY <1>1, <1>2, <1>9, Kinds DEF Islands
    <2>2. g \in Islands
      BY <2>1 DEF Islands
    <2> QED BY <1>3, <2>1, <2>2 DEF Led, IslandsList
  <1>12. ResultsList(Q)'
    <2> SUFFICES ASSUME NEW g \in Results'
                 PROVE  /\ CellNow(g)'.ref = Cardinality(Q[g]) /\ Q[g] # {}
                        /\ Q[g] \subseteq CellNow(g)'.packets \cap Detected'
      BY DEF ResultsList
    <2>1. g # h /\ g \in Live /\ CellNow(g)' = CellNow(g) /\ g \in Handles
      BY <1>1, <1>2, <1>9, Kinds DEF Results
    <2>2. g \in Results
      BY <2>1 DEF Results
    <2> QED BY <1>1, <1>3, <2>1, <2>2 DEF Led, ResultsList
  <1>13. StonesCount(Q)'
    <2> SUFFICES ASSUME NEW g \in Stones'
                 PROVE  /\ CellNow(g)'.ref = Cardinality(Q[g])
                        /\ Q[g] \subseteq Q[CellNow(g)'.dest]
                        /\ State(g)' = "Moved" => Q[g] # {}
      BY DEF StonesCount
    <2>1. g \in Stones /\ g \in Live /\ CellNow(g)'.dest = CellNow(g).dest /\ g \in Handles /\ g \in Live'
      BY <1>2, <1>8 DEF Stones
    <2>2. P[g] \subseteq P[CellNow(g).dest]
      BY <2>1 DEF Led, StonesCount
    <2>3. \A q \in P[g] : q # p => q \in Q[CellNow(g).dest]
      <3>1. CASE CellNow(g).dest \in Handles
        BY <1>3, <2>2, <3>1
      <3>2. CASE CellNow(g).dest \notin Handles
        <4>1. Q[CellNow(g).dest] = P[CellNow(g).dest]
          BY <1>2, <1>3, <3>2
        <4> QED BY <2>2, <4>1
      <3> QED BY <3>1, <3>2
    <2>4. CASE g = h
      <3>1. Q[g] \subseteq Q[CellNow(g)'.dest]
        BY <1>3, <2>1, <2>3, <2>4
      <3> QED BY <1>1, <1>7, <1>9, <2>1, <2>4, <3>1
    <2>5. CASE g # h
      <3>1. p \in P[g] => p \in Q[CellNow(g).dest]
        <4> SUFFICES ASSUME p \in P[g] PROVE p \in Q[CellNow(g).dest]
          OBVIOUS
        <4>1. CellNow(g).dest # h
          BY <1>5, <2>1
        <4>2. Q[CellNow(g).dest] = P[CellNow(g).dest]
          BY <1>2, <1>3, <4>1
        <4> QED BY <2>2, <4>2
      <3>2. Q[g] = P[g]
        BY <1>3, <2>1, <2>5
      <3>3. CellNow(g).ref = Cardinality(P[g]) /\ (State(g) = "Moved" => P[g] # {})
        BY <2>1 DEF Led, StonesCount
      <3> QED BY <1>8, <2>1, <2>3, <2>5, <3>1, <3>2, <3>3
    <2> QED BY <2>4, <2>5
  <1>14. BlanksEmpty(Q)'
    <2> SUFFICES ASSUME NEW g \in Blanks' PROVE Q[g] = {}
      BY DEF BlanksEmpty
    <2>1. g # h /\ g \in Live /\ CellNow(g)' = CellNow(g) /\ g \in Handles
      BY <1>1, <1>2, <1>9, Kinds DEF Blanks
    <2>2. g \in Blanks
      BY <2>1 DEF Blanks
    <2> QED BY <1>3, <2>1, <2>2 DEF Led, BlanksEmpty
  <1>15. OneEnd(Q)'
    <2> SUFFICES ASSUME NEW f \in Live' \ Stones', NEW g \in Live' \ Stones', f # g
                 PROVE  Q[f] \cap Q[g] = {}
      BY DEF OneEnd
    <2>1. f \in Live \ Stones /\ g \in Live \ Stones /\ f \in Handles /\ g \in Handles
      BY <1>1, <1>2, <1>8
    <2>2. P[f] \cap P[g] = {}
      BY <2>1 DEF Led, OneEnd
    <2> QED BY <1>3, <2>1, <2>2
  <1>16. NoReturn(Q)'
    <2> SUFFICES ASSUME NEW g \in Stones', NEW q \in Q[g] PROVE CellNow(g)'.dest # handle'[q]
      BY DEF NoReturn
    <2>1. g \in Stones /\ CellNow(g)'.dest = CellNow(g).dest /\ g \in Handles
      BY <1>2, <1>8 DEF Stones
    <2>2. q \in P[g] /\ (q = p => g # h) /\ q \in DOMAIN at
      BY <1>2, <1>3, <2>1
    <2>3. CASE q = p
      <3>1. P[g] \cap P[h] # {}
        BY <1>4, <2>2, <2>3
      <3>2. CellNow(g).dest # dest
        BY <1>1, <2>1, <2>2, <2>3, <3>1 DEF Led, OneWay, dest
      <3>3. handle'[q] = dest
        BY <1>1, <1>2, <2>3
      <3> QED BY <2>1, <3>2, <3>3
    <2>4. CASE q # p
      <3>1. handle'[q] = handle[q]
        BY <1>1, <1>2, <2>2, <2>4
      <3> QED BY <2>1, <2>2, <3>1 DEF Led, NoReturn
    <2> QED BY <2>3, <2>4
  <1>17. OneWay(Q)'
    <2> SUFFICES ASSUME NEW f \in Stones', NEW g \in Stones', f # g, CellNow(f)'.dest = CellNow(g)'.dest
                 PROVE  Q[f] \cap Q[g] = {}
      BY DEF OneWay
    <2>1. f \in Stones /\ g \in Stones /\ CellNow(f).dest = CellNow(g).dest /\ f \in Handles /\ g \in Handles
      BY <1>2, <1>8 DEF Stones
    <2>2. P[f] \cap P[g] = {}
      BY <2>1 DEF Led, OneWay
    <2> QED BY <1>3, <2>1, <2>2
  <1>18. Shortest(Q)'
    <2> SUFFICES ASSUME NEW q \in DOMAIN at, NEW X \in SUBSET Handles, LeadsOn(Q, q, X)',
                        NEW f \in Handles, q \in Q[f]
                 PROVE  f \in X
      BY <1>1 DEF Shortest
    <2>1. /\ handle'[q] \in X
          /\ \A g \in X \cap Stones' : q \in Q[g] => CellNow(g)'.dest \in X
      BY DEF LeadsOn
    <2>2. \A g \in X \cap Stones : g # h /\ q \in P[g] => CellNow(g).dest \in X
      <3> SUFFICES ASSUME NEW g \in X \cap Stones, g # h, q \in P[g] PROVE CellNow(g).dest \in X
        OBVIOUS
      <3>1. g \in Live' /\ g \in Handles
        BY <1>1, <1>2 DEF Stones
      <3>2. g \in Stones' /\ CellNow(g)'.dest = CellNow(g).dest /\ q \in Q[g]
        BY <1>3, <1>8, <3>1
      <3> QED BY <2>1, <3>2
    <2>3. q \in P[f] /\ (q = p => f # h)
      BY <1>2, <1>3
    <2>4. CASE q = p
      <3> DEFINE Y == X \cup {h}
      <3>1. handle'[q] = dest
        BY <1>1, <1>2, <2>4
      <3>2. LeadsOn(P, p, Y)
        <4>1. handle[p] \in Y
          BY <1>1
        <4>2. ASSUME NEW g \in Y \cap Stones, p \in P[g] PROVE CellNow(g).dest \in Y
          <5>1. CASE g = h
            BY <2>1, <3>1, <5>1 DEF dest
          <5>2. CASE g # h
            BY <2>2, <2>4, <4>2, <5>2
          <5> QED BY <5>1, <5>2
        <4> QED BY <4>1, <4>2 DEF LeadsOn
      <3>3. Y \in SUBSET Handles
        BY <1>2
      <3>4. f \in Y
        <4> HIDE DEF Y
        <4> QED BY <2>3, <2>4, <3>2, <3>3 DEF Led, Shortest
      <3> QED BY <2>3, <2>4, <3>4
    <2>5. CASE q # p
      <3>1. handle'[q] = handle[q]
        BY <1>1, <1>2, <2>5
      <3>2. ASSUME h \in X, q \in P[h] PROVE CellNow(h).dest \in X
        <4>1. q \in Q[h]
          BY <1>3, <2>5, <3>2
        <4>2. h \in Live'
          BY <1>1, <1>7, <4>1
        <4>3. h \in Stones' /\ CellNow(h)'.dest = CellNow(h).dest
          BY <1>1, <1>8, <4>2
        <4> QED BY <2>1, <3>2, <4>1, <4>3
      <3>3. LeadsOn(P, q, X)
        BY <2>1, <2>2, <3>1, <3>2 DEF LeadsOn
      <3> QED BY <2>3, <3>3 DEF Led, Shortest
    <2> QED BY <2>4, <2>5
  <1>19. Led(Q)'
    BY <1>10, <1>11, <1>12, <1>13, <1>14, <1>15, <1>16, <1>17, <1>18 DEF Led
  <1> QED BY <1>19

-----------------------------------------------------------------------------
(* An island is merged into another one and leaves a tombstone.            *)

Merges(d, r) ==
    /\ d \in Islands /\ r \in Islands /\ d # r
    /\ handle' = handle /\ DOMAIN at' = DOMAIN at /\ Detected \subseteq Detected'
    /\ Live' = Live
    /\ \A g \in Live : State(g)' = State(g)
    /\ \A g \in Live \ {d, r} : CellNow(g)' = CellNow(g)
    /\ CellNow(d)' = Tombstone(RedirectCount(CellNow(d)), r)
    /\ IsIsland(CellNow(r)')
    /\ CellNow(r)'.active = CellNow(r).active \cup CellNow(d).active

LEMMA LedTogether ==
    ASSUME TypeInv, NEW P, Led(P), NEW d, NEW r, Merges(d, r)
    PROVE  \E Q : Led(Q)'
PROOF
  <1> PICK Q : Q = [P EXCEPT ![r] = @ \cup P[d]]
    OBVIOUS
  <1>1. /\ d \in Islands /\ r \in Islands /\ d # r
        /\ handle' = handle /\ DOMAIN at' = DOMAIN at /\ Detected \subseteq Detected'
        /\ Live' = Live
        /\ \A g \in Live : State(g)' = State(g)
        /\ \A g \in Live \ {d, r} : CellNow(g)' = CellNow(g)
        /\ CellNow(d)' = Tombstone(RedirectCount(CellNow(d)), r)
        /\ IsIsland(CellNow(r)')
        /\ CellNow(r)'.active = CellNow(r).active \cup CellNow(d).active
    BY DEF Merges
  <1>2. /\ P \in [Handles -> SUBSET DOMAIN at]
        /\ \A g \in Handles \ Live : P[g] = {}
        /\ \A q \in DOMAIN at : q \in P[handle[q]]
        /\ Live \subseteq Handles /\ d \in Live /\ r \in Live /\ d \in Handles /\ r \in Handles
        /\ IsIsland(CellNow(d)) /\ IsIsland(CellNow(r))
        /\ handle \in [DOMAIN at -> Handles]
    BY <1>1, LiveHandles DEF Led, Located, Islands, TypeInv, PacketTypes
  <1>3. /\ Q \in [Handles -> SUBSET DOMAIN at]
        /\ Q[r] = P[r] \cup P[d]
        /\ \A g \in Handles \ {r} : Q[g] = P[g]
    BY <1>2
  <1>4. d \notin Stones /\ r \notin Stones
    BY <1>2, Kinds DEF Stones
  <1>5. P[d] \cap P[r] = {}
    BY <1>1, <1>2, <1>4 DEF Led, OneEnd
  <1>6. P[d] = CellNow(d).active /\ P[r] = CellNow(r).active /\ P[d] # {} /\ P[r] # {}
    BY <1>1 DEF Led, IslandsList
  <1>7. IsTombstone(CellNow(d)') /\ CellNow(d)'.dest = r /\ CellNow(d)'.ref = Cardinality(P[d])
    BY <1>1, <1>6, Kinds DEF RedirectCount
  <1>8. /\ \A g \in Stones : g \in Stones' /\ CellNow(g)' = CellNow(g)
        /\ \A g \in Stones' : g = d \/ (g \in Stones /\ g # d /\ CellNow(g)' = CellNow(g))
        /\ d \in Stones' /\ r \notin Stones'
    BY <1>1, <1>2, <1>4, <1>7, Kinds DEF Stones
  <1>9. \A g \in Stones, q \in P[d] : q \in P[g] => CellNow(g).dest # r
    BY <1>5 DEF Led, StonesCount
  <1>10. Located(Q)'
    <2>1. \A q \in DOMAIN at : q \in Q[handle[q]]
      BY <1>2, <1>3
    <2> QED BY <1>1, <1>2, <1>3, <2>1 DEF Located
  <1>11. IslandsList(Q)'
    <2> SUFFICES ASSUME NEW g \in Islands' PROVE Q[g] = CellNow(g)'.active /\ Q[g] # {}
      BY DEF IslandsList
    <2>1. CASE g = r
      BY <1>1, <1>3, <1>6, <2>1
    <2>2. CASE g # r
      <3>1. g # d /\ g \in Live /\ IsIsland(CellNow(g)')
        BY <1>1, <1>7, Kinds DEF Islands
      <3>2. g \in Islands /\ CellNow(g)' = CellNow(g) /\ g \in Handles
        BY <1>1, <1>2, <2>2, <3>1 DEF Islands
      <3> QED BY <1>3, <2>2, <3>2 DEF Led, IslandsList
    <2> QED BY <2>1, <2>2
  <1>12. ResultsList(Q)'
    <2> SUFFICES ASSUME NEW g \in Results'
                 PROVE  /\ CellNow(g)'.ref = Cardinality(Q[g]) /\ Q[g] # {}
                        /\ Q[g] \subseteq CellNow(g)'.packets \cap Detected'
      BY DEF ResultsList
    <2>1. g # d /\ g # r /\ g \in Live /\ IsResult(CellNow(g)')
      BY <1>1, <1>7, Kinds DEF Results
    <2>2. g \in Results /\ CellNow(g)' = CellNow(g) /\ g \in Handles
      BY <1>1, <1>2, <2>1 DEF Results
    <2> QED BY <1>1, <1>3, <2>1, <2>2 DEF Led, ResultsList
  <1>13. StonesCount(Q)'
    <2> SUFFICES ASSUME NEW g \in Stones'
                 PROVE  /\ CellNow(g)'.ref = Cardinality(Q[g])
                        /\ Q[g] \subseteq Q[CellNow(g)'.dest]
                        /\ State(g)' = "Moved" => Q[g] # {}
      BY DEF StonesCount
    <2>1. CASE g = d
      BY <1>1, <1>2, <1>3, <1>6, <1>7, <2>1
    <2>2. CASE g # d
      <3>1. g \in Stones /\ CellNow(g)' = CellNow(g) /\ g \in Live /\ g \in Handles /\ g # r
        BY <1>2, <1>4, <1>8, <2>2 DEF Stones
      <3>2. /\ CellNow(g).ref = Cardinality(P[g])
            /\ P[g] \subseteq P[CellNow(g).dest]
            /\ State(g) = "Moved" => P[g] # {}
        BY <3>1 DEF Led, StonesCount
      <3>3. P[CellNow(g).dest] \subseteq Q[CellNow(g).dest]
        BY <1>2, <1>3
      <3> QED BY <1>1, <1>3, <3>1, <3>2, <3>3
    <2> QED BY <2>1, <2>2
  <1>14. BlanksEmpty(Q)'
    <2> SUFFICES ASSUME NEW g \in Blanks' PROVE Q[g] = {}
      BY DEF BlanksEmpty
    <2>1. g # d /\ g # r /\ g \in Live /\ CellNow(g)' = NoCell
      BY <1>1, <1>7, Kinds DEF Blanks
    <2>2. g \in Blanks /\ g \in Handles
      BY <1>1, <1>2, <2>1 DEF Blanks
    <2> QED BY <1>3, <2>1, <2>2 DEF Led, BlanksEmpty
  <1>15. OneEnd(Q)'
    <2> SUFFICES ASSUME NEW f \in Live' \ Stones', NEW g \in Live' \ Stones', f # g
                 PROVE  Q[f] \cap Q[g] = {}
      BY DEF OneEnd
    <2>1. f \in Live \ Stones /\ g \in Live \ Stones /\ f \in Handles /\ g \in Handles /\ f # d /\ g # d
      BY <1>1, <1>2, <1>8
    <2>2. P[f] \cap P[g] = {} /\ P[f] \cap P[d] = {} /\ P[g] \cap P[d] = {}
      BY <1>2, <1>4, <2>1 DEF Led, OneEnd
    <2> QED BY <1>3, <2>1, <2>2
  <1>16. NoReturn(Q)'
    <2> SUFFICES ASSUME NEW g \in Stones', NEW q \in Q[g] PROVE CellNow(g)'.dest # handle[q]
      BY <1>1 DEF NoReturn
    <2>1. q \in DOMAIN at /\ q \in P[g] /\ g \in Handles
      BY <1>1, <1>2, <1>3, <1>8 DEF Stones
    <2>2. CASE g = d
      <3>1. handle[q] # r
        <4> SUFFICES ASSUME handle[q] = r PROVE FALSE
          OBVIOUS
        <4>1. d = handle[q]
          BY <1>2, <1>4, <2>1, <2>2, Arrived
        <4> QED BY <1>1, <4>1
      <3> QED BY <1>7, <2>2, <3>1
    <2>3. CASE g # d
      <3>1. g \in Stones /\ CellNow(g)' = CellNow(g)
        BY <1>8, <2>3
      <3> QED BY <2>1, <3>1 DEF Led, NoReturn
    <2> QED BY <2>2, <2>3
  <1>17. OneWay(Q)'
    <2> SUFFICES ASSUME NEW f \in Stones', NEW g \in Stones', f # g,
                        CellNow(f)'.dest = CellNow(g)'.dest,
                        NEW q \in Q[f], q \in Q[g]
                 PROVE  FALSE
      BY DEF OneWay
    <2>1. f \in Handles /\ g \in Handles /\ q \in P[f] /\ q \in P[g]
      BY <1>1, <1>2, <1>3, <1>8 DEF Stones
    <2>2. CASE f = d
      <3>1. g \in Stones /\ CellNow(g)'.dest = CellNow(g).dest /\ CellNow(g).dest = r
        BY <1>7, <1>8, <2>2
      <3> QED BY <1>9, <2>1, <2>2, <3>1
    <2>3. CASE g = d
      <3>1. f \in Stones /\ CellNow(f)'.dest = CellNow(f).dest /\ CellNow(f).dest = r
        BY <1>7, <1>8, <2>3
      <3> QED BY <1>9, <2>1, <2>3, <3>1
    <2>4. CASE f # d /\ g # d
      <3>1. f \in Stones /\ g \in Stones /\ CellNow(f).dest = CellNow(g).dest
        BY <1>8, <2>4
      <3>2. P[f] \cap P[g] = {}
        BY <3>1 DEF Led, OneWay
      <3> QED BY <2>1, <3>2
    <2> QED BY <2>2, <2>3, <2>4
  <1>18. Shortest(Q)'
    <2> SUFFICES ASSUME NEW q \in DOMAIN at, NEW X \in SUBSET Handles, LeadsOn(Q, q, X)',
                        NEW f \in Handles, q \in Q[f]
                 PROVE  f \in X
      BY <1>1 DEF Shortest
    <2>1. /\ handle[q] \in X
          /\ \A g \in X \cap Stones' : q \in Q[g] => CellNow(g)'.dest \in X
      BY <1>1 DEF LeadsOn
    <2>2. LeadsOn(P, q, X)
      <3>1. ASSUME NEW g \in X \cap Stones, q \in P[g] PROVE CellNow(g).dest \in X
        <4>1. g \in Stones' /\ CellNow(g)' = CellNow(g) /\ q \in Q[g]
          BY <1>2, <1>3, <1>4, <1>8, <3>1 DEF Stones
        <4> QED BY <2>1, <3>1, <4>1
      <3> QED BY <2>1, <3>1 DEF LeadsOn
    <2>3. \A g \in Handles : q \in P[g] => g \in X
      BY <2>2 DEF Led, Shortest
    <2>4. CASE f = r /\ q \in P[d]
      <3>1. d \in X \cap Stones' /\ q \in Q[d]
        BY <1>1, <1>2, <1>3, <1>8, <2>3, <2>4
      <3> QED BY <1>7, <2>1, <2>4, <3>1
    <2>5. CASE ~ (f = r /\ q \in P[d])
      BY <1>3, <2>3, <2>5
    <2> QED BY <2>4, <2>5
  <1>19. Led(Q)'
    BY <1>10, <1>11, <1>12, <1>13, <1>14, <1>15, <1>16, <1>17, <1>18 DEF Led
  <1> QED BY <1>19

-----------------------------------------------------------------------------
(* Packets leave the cells their handles are of, and new packets come to   *)
(* cells that are not tombstones.                                          *)

LEMMA StoneDest ==
    ASSUME StoreTypes, RingInv, NEW g \in Stones
    PROVE  CellNow(g).ref \in Int /\ CellNow(g).dest \in Handles
PROOF
  <1>1. g \in Window /\ IsTombstone(CellNow(g))
    BY DEF Stones, Live
  <1> QED BY <1>1, CellNowType, CellFields

Passing(P, gone, fresh, g) == (P[g] \ gone) \cup {q \in fresh : handle'[q] = g}

Replaces(P, gone, fresh) ==
    /\ gone \subseteq DOMAIN at /\ \A p \in gone : handle[p] \notin Stones
    /\ fresh \cap DOMAIN at = {} /\ \A q \in fresh : handle'[q] \in Live \ Stones
    /\ DOMAIN at' = (DOMAIN at \ gone) \cup fresh
    /\ \A q \in DOMAIN at \ gone : handle'[q] = handle[q]
    /\ Live' \subseteq Live
    /\ \A g \in Live \ Live' : Passing(P, gone, fresh, g) = {}
    /\ \A g \in Stones : g \in Live' /\ CellNow(g)' = CellNow(g) /\ State(g)' = State(g)
    /\ \A g \in Live' \ Stones :
         /\ ~ IsTombstone(CellNow(g)')
         /\ IsIsland(CellNow(g)') =>
              /\ CellNow(g)'.active = Passing(P, gone, fresh, g)
              /\ Passing(P, gone, fresh, g) # {}
         /\ IsResult(CellNow(g)') =>
              /\ CellNow(g)'.ref = Cardinality(Passing(P, gone, fresh, g))
              /\ Passing(P, gone, fresh, g) # {}
              /\ Passing(P, gone, fresh, g) \subseteq CellNow(g)'.packets \cap Detected'
         /\ CellNow(g)' = NoCell => Passing(P, gone, fresh, g) = {}

LEMMA LedAnew ==
    ASSUME TypeInv, RingInv, NEW P, Led(P), NEW gone, NEW fresh, Replaces(P, gone, fresh)
    PROVE  \E Q : Led(Q)'
PROOF
  <1> PICK Q : Q = [g \in Handles |-> Passing(P, gone, fresh, g)]
    OBVIOUS
  <1>1. /\ gone \subseteq DOMAIN at /\ \A p \in gone : handle[p] \notin Stones
        /\ fresh \cap DOMAIN at = {} /\ \A q \in fresh : handle'[q] \in Live \ Stones
        /\ DOMAIN at' = (DOMAIN at \ gone) \cup fresh
        /\ \A q \in DOMAIN at \ gone : handle'[q] = handle[q]
        /\ Live' \subseteq Live
        /\ \A g \in Stones : g \in Live' /\ CellNow(g)' = CellNow(g) /\ State(g)' = State(g)
        /\ \A g \in Live' \ Stones : ~ IsTombstone(CellNow(g)')
    BY DEF Replaces
  <1>2. /\ P \in [Handles -> SUBSET DOMAIN at]
        /\ \A g \in Handles \ Live : P[g] = {}
        /\ \A q \in DOMAIN at : q \in P[handle[q]]
        /\ Live \subseteq Handles
        /\ handle \in [DOMAIN at -> Handles]
    BY LiveHandles DEF Led, Located, TypeInv, PacketTypes
  <1>3. \A g \in Handles : Q[g] = (P[g] \ gone) \cup {q \in fresh : handle'[q] = g}
    BY DEF Passing
  <1>4. /\ \A g \in Live \ Live' : Q[g] = {}
        /\ \A g \in Live' \ Stones :
             /\ IsIsland(CellNow(g)') => CellNow(g)'.active = Q[g] /\ Q[g] # {}
             /\ IsResult(CellNow(g)') =>
                  /\ CellNow(g)'.ref = Cardinality(Q[g]) /\ Q[g] # {}
                  /\ Q[g] \subseteq CellNow(g)'.packets \cap Detected'
             /\ CellNow(g)' = NoCell => Q[g] = {}
    <2>1. \A g \in Live : Q[g] = Passing(P, gone, fresh, g)
      BY <1>2
    <2> QED BY <1>1, <2>1 DEF Replaces
  <1>5. Stones \subseteq Handles /\ Stones' = Stones
        /\ \A g \in Stones : CellNow(g)' = CellNow(g) /\ State(g)' = State(g)
    BY <1>1, <1>2 DEF Stones
  <1>6. ASSUME NEW g \in Stones, NEW q \in P[g] PROVE q \in DOMAIN at /\ q \notin gone
    <2>1. q \in DOMAIN at /\ g \in Handles
      BY <1>2, <1>5
    <2> SUFFICES ASSUME q \in gone PROVE FALSE
      BY <2>1
    <2>2. handle[q] \notin Stones /\ handle[q] \in Handles
      BY <1>1, <1>2, <2>1
    <2>3. g = handle[q]
      BY <2>1, <2>2, Arrived
    <2> QED BY <2>2, <2>3
  <1>7. ASSUME NEW g \in Stones PROVE Q[g] = P[g]
    <2>1. P[g] \ gone = P[g]
      BY <1>6
    <2>2. {q \in fresh : handle'[q] = g} = {}
      BY <1>1
    <2>3. Q[g] = (P[g] \ gone) \cup {q \in fresh : handle'[q] = g}
      BY <1>3, <1>5
    <2> QED BY <2>1, <2>2, <2>3
  <1>8. Q \in [Handles -> SUBSET DOMAIN at']
    BY <1>1, <1>2, <1>3 DEF Passing
  <1>9. Located(Q)'
    <2>1. ASSUME NEW g \in Handles \ Live' PROVE Q[g] = {}
      <3>1. CASE g \in Live
        BY <1>4, <3>1
      <3>2. CASE g \notin Live
        BY <1>1, <1>2, <1>3, <3>2
      <3> QED BY <3>1, <3>2
    <2>2. ASSUME NEW q \in DOMAIN at' PROVE q \in Q[handle'[q]]
      <3>1. CASE q \in fresh
        BY <1>1, <1>2, <1>3, <3>1
      <3>2. CASE q \notin fresh
        <4>1. q \in DOMAIN at \ gone /\ handle'[q] = handle[q] /\ handle[q] \in Handles
          BY <1>1, <1>2, <3>2
        <4> QED BY <1>2, <1>3, <4>1
      <3> QED BY <3>1, <3>2
    <2> QED BY <1>8, <2>1, <2>2 DEF Located
  <1>10. IslandsList(Q)' /\ ResultsList(Q)' /\ BlanksEmpty(Q)'
    <2>1. \A g \in Live' : g \in Stones' => IsTombstone(CellNow(g)')
      BY DEF Stones
    <2>2. \A g \in Islands' \cup Results' \cup Blanks' : g \in Live' \ Stones
      BY <1>5, <2>1, Kinds DEF Islands, Results, Blanks
    <2> QED BY <1>4, <2>2 DEF IslandsList, ResultsList, BlanksEmpty, Islands, Results, Blanks
  <1>11. StonesCount(Q)'
    <2> SUFFICES ASSUME NEW g \in Stones
                 PROVE  /\ CellNow(g)'.ref = Cardinality(Q[g])
                        /\ Q[g] \subseteq Q[CellNow(g)'.dest]
                        /\ State(g)' = "Moved" => Q[g] # {}
      BY <1>5 DEF StonesCount
    <2>1. /\ CellNow(g).ref = Cardinality(P[g])
          /\ P[g] \subseteq P[CellNow(g).dest]
          /\ State(g) = "Moved" => P[g] # {}
      BY DEF Led, StonesCount
    <2>2. CellNow(g).dest \in Handles
      BY StoneDest DEF TypeInv
    <2>3. P[g] \subseteq Q[CellNow(g).dest]
      BY <1>3, <1>6, <2>1, <2>2
    <2> QED BY <1>5, <1>7, <2>1, <2>3
  <1>12. OneEnd(Q)'
    <2> SUFFICES ASSUME NEW f \in Live' \ Stones', NEW g \in Live' \ Stones', f # g
                 PROVE  Q[f] \cap Q[g] = {}
      BY DEF OneEnd
    <2>1. f \in Live \ Stones /\ g \in Live \ Stones /\ f \in Handles /\ g \in Handles
      BY <1>1, <1>2, <1>5
    <2>2. P[f] \cap P[g] = {} /\ P[f] \subseteq DOMAIN at /\ P[g] \subseteq DOMAIN at
      BY <1>2, <2>1 DEF Led, OneEnd
    <2> QED BY <1>1, <1>3, <2>1, <2>2
  <1>13. NoReturn(Q)'
    <2> SUFFICES ASSUME NEW g \in Stones, NEW q \in P[g] PROVE CellNow(g)'.dest # handle'[q]
      BY <1>5, <1>7 DEF NoReturn
    <2>1. handle'[q] = handle[q]
      BY <1>1, <1>6
    <2> QED BY <1>5, <2>1 DEF Led, NoReturn
  <1>14. OneWay(Q)'
    <2> SUFFICES ASSUME NEW f \in Stones, NEW g \in Stones, f # g, CellNow(f).dest = CellNow(g).dest
                 PROVE  P[f] \cap P[g] = {}
      BY <1>5, <1>7 DEF OneWay
    <2> QED BY DEF Led, OneWay
  <1>15. Shortest(Q)'
    <2> SUFFICES ASSUME NEW q \in DOMAIN at', NEW X \in SUBSET Handles, LeadsOn(Q, q, X)',
                        NEW f \in Handles, q \in Q[f]
                 PROVE  f \in X
      BY DEF Shortest
    <2>1. /\ handle'[q] \in X
          /\ \A g \in X \cap Stones : q \in P[g] => CellNow(g).dest \in X
      BY <1>5, <1>7 DEF LeadsOn
    <2>2. CASE q \in fresh
      <3>1. q \notin P[f]
        BY <1>1, <1>2, <2>2
      <3> QED BY <1>3, <2>1, <3>1
    <2>3. CASE q \notin fresh
      <3>1. q \in DOMAIN at /\ handle'[q] = handle[q] /\ q \in P[f]
        BY <1>1, <1>3, <2>3
      <3>2. LeadsOn(P, q, X)
        BY <2>1, <3>1 DEF LeadsOn
      <3> QED BY <3>1, <3>2 DEF Led, Shortest
    <2> QED BY <2>2, <2>3
  <1>16. Led(Q)'
    BY <1>9, <1>10, <1>11, <1>12, <1>13, <1>14, <1>15 DEF Led
  <1> QED BY <1>16

-----------------------------------------------------------------------------
(* The ways are the trails.  Trails and Rests are recursive functions; that *)
(* there are such functions follows from the set of handles that cannot be  *)
(* told apart from those reached through tombstones, and what they are for  *)
(* a packet from Shortest, which is induction along its way.                *)

DestsTyped(cells) == \A h \in Handles : IsTombstone(cells[h]) => cells[h].dest \in Handles

Closed(cells, X) == \A g \in X : IsTombstone(cells[g]) => cells[g].dest \in X

Reach(cells, h) ==
    {g \in Handles : \A X \in SUBSET Handles : h \in X /\ Closed(cells, X) => g \in X}

LEMMA ReachIs ==
    ASSUME NEW cells, DestsTyped(cells), NEW h \in Handles
    PROVE  Reach(cells, h) = IF IsTombstone(cells[h]) THEN {h} \cup Reach(cells, cells[h].dest)
                             ELSE {h}
PROOF
  <1>1. h \in Reach(cells, h)
    BY DEF Reach
  <1>2. CASE ~ IsTombstone(cells[h])
    <2>1. Closed(cells, {h})
      BY <1>2 DEF Closed
    <2>2. Reach(cells, h) \subseteq {h}
      BY <2>1 DEF Reach
    <2> QED BY <1>1, <1>2, <2>2
  <1>3. CASE IsTombstone(cells[h])
    <2> PICK d : d = cells[h].dest
      OBVIOUS
    <2>1. d \in Handles
      BY <1>3 DEF DestsTyped
    <2>2. d \in Reach(cells, d)
      BY <2>1 DEF Reach
    <2>3. ASSUME NEW g \in Reach(cells, d), IsTombstone(cells[g])
          PROVE  cells[g].dest \in Reach(cells, d)
      <3>1. cells[g].dest \in Handles
        BY <2>3 DEF Reach, DestsTyped
      <3>2. ASSUME NEW X \in SUBSET Handles, d \in X, Closed(cells, X) PROVE cells[g].dest \in X
        <4>1. g \in X
          BY <3>2 DEF Reach
        <4> QED BY <2>3, <3>2, <4>1 DEF Closed
      <3> QED BY <3>1, <3>2 DEF Reach
    <2>4. Reach(cells, h) \subseteq {h} \cup Reach(cells, d)
      <3> PICK X : X = {h} \cup Reach(cells, d)
        OBVIOUS
      <3>1. X \in SUBSET Handles /\ h \in X
        BY DEF Reach
      <3>2. Closed(cells, X)
        BY <2>2, <2>3 DEF Closed
      <3>3. \A g \in Reach(cells, h) : g \in X
        BY <3>1, <3>2 DEF Reach
      <3> QED BY <3>3
    <2>5. ASSUME NEW g \in Reach(cells, d) PROVE g \in Reach(cells, h)
      <3>1. g \in Handles
        BY DEF Reach
      <3>2. ASSUME NEW X \in SUBSET Handles, h \in X, Closed(cells, X) PROVE g \in X
        <4>1. d \in X
          BY <1>3, <3>2 DEF Closed
        <4> QED BY <3>2, <4>1 DEF Reach
      <3> QED BY <3>1, <3>2 DEF Reach
    <2> QED BY <1>1, <1>3, <2>4, <2>5
  <1> QED BY <1>2, <1>3

\* The equations of the recursive functions in Trails and Rests.
TrailFunction(cells, f) ==
    f = [h \in Handles |-> IF IsTombstone(cells[h]) THEN {h} \cup f[cells[h].dest] ELSE {h}]

RestFunction(cells, f) ==
    f = [h \in Handles |-> IF IsTombstone(cells[h]) THEN f[cells[h].dest] ELSE h]

LEMMA TrailsAre ==
    ASSUME NEW cells, DestsTyped(cells)
    PROVE  \E f : TrailFunction(cells, f) /\ Trails(cells) = [p \in DOMAIN handle |-> f[handle[p]]]
PROOF
  <1> DEFINE trail == CHOOSE f : TrailFunction(cells, f)
  <1>1. \E f : TrailFunction(cells, f)
    <2> PICK f : f = [h \in Handles |-> Reach(cells, h)]
      OBVIOUS
    <2>1. \A h \in Handles : f[h] = IF IsTombstone(cells[h]) THEN {h} \cup f[cells[h].dest] ELSE {h}
      BY ReachIs DEF DestsTyped
    <2>2. TrailFunction(cells, f)
      BY <2>1 DEF TrailFunction
    <2> QED BY <2>2
  <1>2. TrailFunction(cells, trail)
    BY <1>1
  <1>3. Trails(cells) = [p \in DOMAIN handle |-> trail[handle[p]]]
    BY DEF Trails, TrailFunction
  <1> QED BY <1>2, <1>3

LEMMA RestsAre ==
    ASSUME NEW cells, DestsTyped(cells)
    PROVE  \E f : RestFunction(cells, f) /\ Rests(cells) = [p \in DOMAIN handle |-> f[handle[p]]]
PROOF
  <1> DEFINE rest    == CHOOSE f : RestFunction(cells, f)
             ends(h) == {g \in Reach(cells, h) : ~ IsTombstone(cells[g])}
             last(h) == CHOOSE g : g \in ends(h)
  <1>1. \E f : RestFunction(cells, f)
    <2> PICK f : f = [h \in Handles |-> last(h)]
      OBVIOUS
    <2>1. ASSUME NEW h \in Handles
          PROVE  f[h] = IF IsTombstone(cells[h]) THEN f[cells[h].dest] ELSE h
      <3>1. CASE IsTombstone(cells[h])
        <4>1. cells[h].dest \in Handles
          BY <3>1 DEF DestsTyped
        <4>2. Reach(cells, h) = {h} \cup Reach(cells, cells[h].dest)
          BY <3>1, ReachIs
        <4>3. ends(h) = ends(cells[h].dest)
          BY <3>1, <4>2
        <4> HIDE DEF ends
        <4>4. last(h) = last(cells[h].dest)
          BY <4>3
        <4> HIDE DEF last
        <4>5. f[h] = last(h) /\ f[cells[h].dest] = last(cells[h].dest)
          BY <4>1
        <4> QED BY <3>1, <4>4, <4>5
      <3>2. CASE ~ IsTombstone(cells[h])
        <4>1. Reach(cells, h) = {h}
          BY <3>2, ReachIs
        <4>2. ends(h) = {h}
          BY <3>2, <4>1
        <4> HIDE DEF ends
        <4>3. last(h) = h
          BY <4>2
        <4> QED BY <3>2, <4>3
      <3> QED BY <3>1, <3>2
    <2>2. RestFunction(cells, f)
      <3> HIDE DEF last
      <3> QED BY <2>1 DEF RestFunction
    <2> QED BY <2>2
  <1>2. RestFunction(cells, rest)
    BY <1>1
  <1>3. Rests(cells) = [p \in DOMAIN handle |-> rest[handle[p]]]
    BY DEF Rests, RestFunction
  <1> QED BY <1>2, <1>3

Way(P, p) == {h \in Handles : p \in P[h]}

LEMMA CellsNowIs ==
    ASSUME TypeInv, RingInv
    PROVE  /\ \A h \in Handles : CellsNow[h] = CellNow(h)
           /\ DestsTyped(CellsNow)
           /\ \A g \in Stones : /\ g \in Handles /\ g \in Live /\ IsTombstone(CellsNow[g])
                                /\ CellsNow[g] = CellNow(g)
           /\ \A g \in Live \ Stones : ~ IsTombstone(CellsNow[g]) /\ CellsNow[g] = CellNow(g)
PROOF
  <1>1. \A h \in Handles : CellsNow[h] = CellNow(h)
    BY DEF CellsNow
  <1>2. ASSUME NEW h \in Handles, IsTombstone(CellNow(h)) PROVE CellNow(h).dest \in Handles
    <2>1. StoreTypes
      BY DEF TypeInv
    <2>2. CellNow(h) \in Cells
      <3>1. CASE \E t \in Holders : h \in slice[t].indices
        BY <2>1, <3>1, CellNowType DEF RingInv, SlicesInWindow
      <3>2. CASE ~ \E t \in Holders : h \in slice[t].indices
        <4>1. CellNow(h) = Cell(h)
          BY <3>2, CellOfStore DEF Unheld
        <4>2. cap \in DOMAIN bufs /\ cap \in Capacities
          BY <2>1 DEF StoreTypes, BuffersHold, RingTypes
        <4> QED BY <2>1, <4>1, <4>2, StoredCell, HandlesAreIntegers DEF Cell
      <3> QED BY <3>1, <3>2
    <2> QED BY <1>2, <2>2, CellFields
  <1>3. Live \subseteq Handles
    BY LiveHandles
  <1> QED BY <1>1, <1>2, <1>3 DEF DestsTyped, Stones

\* A way is finite and never comes twice to a cell, so that it has an end.
LEMMA WayEnds ==
    ASSUME TypeInv, RingInv, NEW P, Led(P), NEW p \in DOMAIN at
    PROVE  \E e \in Live \ Stones : p \in P[e]
PROOF
  <1> SUFFICES ASSUME \A e \in Live \ Stones : p \notin P[e] PROVE FALSE
    OBVIOUS
  <1> PICK S : S = Way(P, p)
    OBVIOUS
  <1>1. handle[p] \in S /\ handle[p] \in Handles
    BY LedToLive DEF Way
  <1>2. Located(P) /\ StonesCount(P) /\ NoReturn(P) /\ OneWay(P)
    BY DEF Led
  <1>3. \A h \in S : h \in Stones /\ p \in P[h]
    BY <1>2 DEF Way, Located
  <1>4. ASSUME NEW h \in S PROVE CellNow(h).dest \in S \ {handle[p]}
    <2>1. h \in Stones /\ p \in P[h] /\ StoreTypes
      BY <1>3 DEF TypeInv
    <2>2. CellNow(h).dest \in Handles
      BY <2>1, StoneDest
    <2>3. p \in P[CellNow(h).dest]
      BY <1>2, <2>1 DEF StonesCount
    <2>4. CellNow(h).dest # handle[p]
      BY <1>2, <2>1 DEF NoReturn
    <2> QED BY <2>2, <2>3, <2>4 DEF Way
  <1>5. IsFiniteSet(S)
    <2>1. IsFiniteSet(Handles)
      BY RangeType, FS_Interval DEF Handles
    <2> QED BY <2>1, FS_Subset DEF Way
  <1>6. Cardinality(S \ {handle[p]}) < Cardinality(S) /\ IsFiniteSet(S \ {handle[p]})
    <2>1. Cardinality(S) \in Nat
      BY <1>5, FS_CardinalityType
    <2>2. /\ IsFiniteSet(S \ {handle[p]})
          /\ Cardinality(S \ {handle[p]}) = Cardinality(S) - 1
      BY <1>1, <1>5, FS_RemoveElement, Zenon
    <2> QED BY <2>1, <2>2
  <1> PICK d : d = [h \in S |-> CellNow(h).dest]
    OBVIOUS
  <1>7. d \in [S -> S \ {handle[p]}]
    BY <1>4
  <1>8. PICK f \in S, g \in S : f # g /\ d[f] = d[g]
    BY <1>5, <1>6, <1>7, FS_PigeonHole
  <1>9. P[f] \cap P[g] = {}
    BY <1>2, <1>3, <1>8 DEF OneWay
  <1> QED BY <1>3, <1>9

LEMMA TrailIsWay ==
    ASSUME TypeInv, RingInv, NEW P, Led(P), NEW f, TrailFunction(CellsNow, f), NEW p \in DOMAIN at
    PROVE  f[handle[p]] = Way(P, p)
PROOF
  <1> PICK first : first = handle[p]
    OBVIOUS
  <1> PICK cells : cells = CellsNow
    OBVIOUS
  <1>1. first \in Handles /\ first \in Way(P, p)
    BY LedToLive DEF Way
  <1>2. \A h \in Handles : f[h] = IF IsTombstone(cells[h]) THEN {h} \cup f[cells[h].dest] ELSE {h}
    BY DEF TrailFunction
  <1>3. /\ DestsTyped(cells)
        /\ \A g \in Stones : g \in Handles /\ IsTombstone(cells[g]) /\ cells[g] = CellNow(g)
        /\ \A g \in Live \ Stones : ~ IsTombstone(cells[g])
    BY CellsNowIs
  <1>4. Located(P) /\ StonesCount(P) /\ Shortest(P)
    BY DEF Led
  <1>5. \A h \in Handles : h \in f[h]
    BY <1>2
  <1>6. \A g \in Stones : CellNow(g).dest \in Handles /\ f[g] = {g} \cup f[CellNow(g).dest]
    BY <1>2, <1>3 DEF DestsTyped
  <1>7. Way(P, p) \subseteq f[first]
    <2> PICK X : X = {g \in Handles : g \in f[first] /\ f[g] \subseteq f[first]}
      OBVIOUS
    <2>1. first \in X
      BY <1>1, <1>5
    <2>2. ASSUME NEW g \in X \cap Stones PROVE CellNow(g).dest \in X
      <3>1. /\ f[g] \subseteq f[first] /\ CellNow(g).dest \in Handles
            /\ f[g] = {g} \cup f[CellNow(g).dest]
        BY <1>6
      <3> QED BY <1>5, <3>1
    <2>3. LeadsOn(P, p, X)
      BY <2>1, <2>2 DEF LeadsOn
    <2>4. \A h \in Handles : p \in P[h] => h \in X
      BY <1>4, <2>3 DEF Shortest
    <2> QED BY <2>4 DEF Way
  <1>8. f[first] \subseteq Way(P, p)
    <2> PICK Y : Y = {h \in Way(P, p) : f[h] \subseteq Way(P, p)}
      OBVIOUS
    <2>1. PICK e \in Live \ Stones : p \in P[e]
      BY WayEnds
    <2>2. e \in Y
      <3>1. e \in Handles /\ e \in Way(P, p)
        BY <2>1, LiveHandles DEF Way
      <3>2. f[e] = {e}
        BY <1>2, <1>3, <2>1, <3>1
      <3> QED BY <3>1, <3>2
    <2>3. ASSUME NEW g \in Stones, p \in P[g]
          PROVE  CellNow(g).dest \in Way(P, p) /\ (CellNow(g).dest \in Y => g \in Y)
      <3>1. p \in P[CellNow(g).dest] /\ CellNow(g).dest \in Handles
        BY <1>4, <1>6, <2>3 DEF StonesCount
      <3>2. g \in Way(P, p)
        BY <1>3, <2>3 DEF Way
      <3> QED BY <1>6, <3>1, <3>2 DEF Way
    <2>4. CASE first \in Y
      BY <2>4
    <2>5. CASE first \notin Y
      <3> PICK X : X = Way(P, p) \ Y
        OBVIOUS
      <3>1. X \in SUBSET Handles /\ first \in X
        BY <1>1, <2>5 DEF Way
      <3>2. \A g \in X \cap Stones : p \in P[g] => CellNow(g).dest \in X
        BY <2>3
      <3>3. LeadsOn(P, p, X)
        BY <3>1, <3>2 DEF LeadsOn
      <3>4. \A h \in Handles : p \in P[h] => h \in X
        BY <1>4, <3>1, <3>3 DEF Shortest
      <3> QED BY <2>1, <2>2, <3>4, LiveHandles
    <2> QED BY <2>4, <2>5
  <1> QED BY <1>7, <1>8

LEMMA RestIsEnd ==
    ASSUME TypeInv, RingInv, NEW P, Led(P), NEW f, RestFunction(CellsNow, f), NEW p \in DOMAIN at,
           NEW e \in Live \ Stones, p \in P[e]
    PROVE  f[handle[p]] = e
PROOF
  <1> PICK first : first = handle[p]
    OBVIOUS
  <1> PICK cells : cells = CellsNow
    OBVIOUS
  <1>1. first \in Handles /\ e \in Handles
    BY LedToLive, LiveHandles
  <1>2. \A h \in Handles : f[h] = IF IsTombstone(cells[h]) THEN f[cells[h].dest] ELSE h
    BY DEF RestFunction
  <1>3. /\ DestsTyped(cells)
        /\ \A g \in Stones : g \in Handles /\ IsTombstone(cells[g]) /\ cells[g] = CellNow(g)
        /\ \A g \in Live \ Stones : ~ IsTombstone(cells[g])
    BY CellsNowIs
  <1> PICK X : X = {g \in Handles : f[g] = f[first]}
    OBVIOUS
  <1>4. ASSUME NEW g \in X \cap Stones PROVE CellNow(g).dest \in X
    <2>1. IsTombstone(cells[g]) /\ cells[g] = CellNow(g) /\ g \in Handles /\ f[g] = f[first]
      BY <1>3
    <2>2. cells[g].dest \in Handles
      BY <1>3, <2>1 DEF DestsTyped
    <2> QED BY <1>2, <2>1, <2>2
  <1>5. LeadsOn(P, p, X)
    BY <1>1, <1>4 DEF LeadsOn
  <1>6. e \in X
    BY <1>1, <1>5 DEF Led, Shortest
  <1> QED BY <1>1, <1>2, <1>3, <1>6

\* What a way ends in.
LEMMA EndIs ==
    ASSUME TypeInv, RingInv, NEW P, Led(P), NEW p \in DOMAIN at, NEW e \in Live \ Stones, p \in P[e]
    PROVE  \/ IsIsland(CellNow(e)) /\ p \in CellNow(e).active
           \/ IsResult(CellNow(e)) /\ p \in CellNow(e).packets \cap Detected
PROOF
  <1>1. e \in Live /\ e \in Window /\ ~ IsTombstone(CellNow(e))
    BY DEF Stones, Live
  <1>2. CellNow(e) \in Cells
    BY <1>1, CellNowType DEF TypeInv
  <1>3. CASE IsIsland(CellNow(e))
    BY <1>1, <1>3 DEF Led, IslandsList, Islands
  <1>4. CASE IsResult(CellNow(e))
    BY <1>1, <1>4 DEF Led, ResultsList, Results
  <1>5. CellNow(e) # NoCell
    BY <1>1 DEF Led, BlanksEmpty, Blanks
  <1> QED BY <1>1, <1>2, <1>3, <1>4, <1>5, CellKinds

LEMMA StoreInvImpliesResolve == StoreInv => PacketsResolve
PROOF
  <1> SUFFICES ASSUME StoreInv PROVE PacketsResolve
    OBVIOUS
  <1>1. TypeInv /\ RingInv /\ Counted /\ PacketTypes
    BY DEF StoreInv, LogicInv, TypeInv
  <1>2. PICK P : Led(P)
    BY DEF StoreInv, LogicInv
  <1> PICK cells : cells = CellsNow
    OBVIOUS
  <1>3. DOMAIN handle = DOMAIN at /\ DestsTyped(cells) /\ \A h \in Handles : cells[h] = CellNow(h)
    BY <1>1, CellsNowIs DEF PacketTypes
  <1>4. PICK trail : TrailFunction(cells, trail)
                     /\ Trails(cells) = [p \in DOMAIN handle |-> trail[handle[p]]]
    BY <1>3, TrailsAre
  <1>5. PICK rest : RestFunction(cells, rest)
                    /\ Rests(cells) = [p \in DOMAIN handle |-> rest[handle[p]]]
    BY <1>3, RestsAre
  <1>6. ASSUME NEW p \in DOMAIN handle
        PROVE  LET cell == cells[Rests(cells)[p]]
               IN  /\ \A h \in Trails(cells)[p] : InWindow(h) /\ State(h) # "Retired"
                   /\ \/ IsIsland(cell) /\ p \in cell.active
                      \/ IsResult(cell) /\ p \in cell.packets \cap Detected
    <2>1. Trails(cells)[p] = Way(P, p)
      BY <1>1, <1>2, <1>3, <1>4, TrailIsWay
    <2>2. Way(P, p) \subseteq Live
      BY <1>2 DEF Led, Located, Way
    <2>3. PICK e \in Live \ Stones : p \in P[e]
      BY <1>1, <1>2, <1>3, WayEnds
    <2>4. Rests(cells)[p] = e
      BY <1>1, <1>2, <1>3, <1>5, <2>3, RestIsEnd
    <2>5. cells[e] = CellNow(e)
      BY <1>3, <2>3, LiveHandles
    <2> QED BY <1>1, <1>2, <1>3, <2>1, <2>2, <2>3, <2>4, <2>5, EndIs DEF Live, Window
  <1>7. ASSUME NEW h \in Window, State(h) # "Retired", IsIsland(cells[h])
        PROVE  /\ \A p \in cells[h].active : p \in DOMAIN handle /\ Rests(cells)[p] = h
               /\ cells[h].done = Cardinality(cells[h].active \cap Detected)
    <2>1. h \in Handles /\ cells[h] = CellNow(h)
      BY <1>3, WindowIs
    <2>2. h \in Islands /\ h \in Live \ Stones
      BY <1>7, <2>1, Kinds DEF Islands, Live, Stones
    <2>3. cells[h].active = P[h] /\ P[h] \subseteq DOMAIN at
      BY <1>2, <2>1, <2>2 DEF Led, IslandsList, Located
    <2>4. \A p \in P[h] : rest[handle[p]] = h
      BY <1>1, <1>2, <1>5, <2>2, <2>3, RestIsEnd
    <2>5. CellNow(h).done = Cardinality(CellNow(h).active \cap Detected)
      BY <1>1, <2>2 DEF Counted
    <2> QED BY <1>3, <1>5, <2>1, <2>3, <2>4, <2>5
  <1> QED BY <1>6, <1>7 DEF PacketsResolve

LEMMA VacantIsNoCell ==
    ASSUME RingInv, NEW h \in Window, State(h) = "Retired"
    PROVE  CellNow(h) = NoCell
PROOF
  <1>1. Unheld(h)
    BY DEF RingInv, LockedIsHeld, Unheld
  <1> QED BY <1>1, CellOfStore DEF RingInv, VacantEmpty

LEMMA StoreInvImpliesRefCounts == StoreInv => RefCountsExact
PROOF
  <1> SUFFICES ASSUME StoreInv PROVE RefCountsExact
    OBVIOUS
  <1>1. TypeInv /\ RingInv /\ HoldingInv /\ PacketTypes
    BY DEF StoreInv, LogicInv, TypeInv
  <1>2. PICK P : Led(P)
    BY DEF StoreInv, LogicInv
  <1> PICK cells : cells = CellsNow
    OBVIOUS
  <1>3. DOMAIN handle = DOMAIN at /\ DestsTyped(cells) /\ \A h \in Handles : cells[h] = CellNow(h)
    BY <1>1, CellsNowIs DEF PacketTypes
  <1>4. PICK trail : TrailFunction(cells, trail)
                     /\ Trails(cells) = [p \in DOMAIN handle |-> trail[handle[p]]]
    BY <1>3, TrailsAre
  <1>5. \A p \in DOMAIN handle : Trails(cells)[p] = Way(P, p)
    BY <1>1, <1>2, <1>3, <1>4, TrailIsWay
  <1>6. /\ IslandsList(P) /\ ResultsList(P) /\ StonesCount(P)
        /\ \A h \in Handles : P[h] \subseteq DOMAIN at
    BY <1>2 DEF Led, Located
  <1>7. ASSUME NEW h \in Window
        PROVE  LET passing == {p \in DOMAIN handle : h \in Trails(cells)[p]}
               IN  /\ IsTombstone(cells[h]) \/ IsResult(cells[h]) =>
                        cells[h].ref = Cardinality(passing)
                   /\ State(h) \in {"Free", "Moved"} => passing # {}
    <2> PICK passing : passing = {p \in DOMAIN handle : h \in Trails(cells)[p]}
      OBVIOUS
    <2>1. h \in Handles /\ cells[h] = CellNow(h)
      BY <1>3, WindowIs
    <2>2. passing = P[h]
      <3>1. \A p \in DOMAIN handle : h \in Trails(cells)[p] <=> p \in P[h]
        BY <1>5, <2>1 DEF Way
      <3> QED BY <1>3, <1>6, <2>1, <3>1
    <2>3. CASE State(h) = "Retired"
      <3>1. CellNow(h) = NoCell
        BY <1>1, <2>3, VacantIsNoCell
      <3> QED BY <2>1, <2>3, <3>1, Kinds
    <2>4. CASE State(h) # "Retired"
      <3>1. h \in Live /\ StateFits(h)
        BY <1>1, <2>4 DEF HoldingInv, Live
      <3>2. IsTombstone(CellNow(h)) => CellNow(h).ref = Cardinality(P[h])
                                       /\ (State(h) = "Moved" => P[h] # {})
        BY <1>6, <3>1 DEF StonesCount, Stones
      <3>3. IsResult(CellNow(h)) => CellNow(h).ref = Cardinality(P[h]) /\ P[h] # {}
        BY <1>6, <3>1 DEF ResultsList, Results
      <3>4. IsIsland(CellNow(h)) => P[h] # {}
        BY <1>6, <3>1 DEF IslandsList, Islands
      <3> QED BY <2>1, <2>2, <3>1, <3>2, <3>3, <3>4 DEF StateFits
    <2> QED BY <2>3, <2>4
  <1> QED BY <1>7 DEF RefCountsExact
=============================================================================
