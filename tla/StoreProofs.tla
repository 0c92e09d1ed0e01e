----------------------------- MODULE StoreProofs -----------------------------
(***************************************************************************)
(* Theorems about the interaction store while any number of threads work   *)
(* on it: every wavepacket is led by its handle to the one cell that lists *)
(* it, no cell is retired that a wavepacket still has to pass, two threads *)
(* never hold one cell, and the clone a detector measures is current.      *)
(*                                                                         *)
(* The last part shows that the store implements EntangledIslands: the     *)
(* invariant that relates the packets that the cells list to the packets   *)
(* that exist, and one step of the abstract specification (or none) for    *)
(* every step of a thread.                                                 *)
(***************************************************************************)
EXTENDS OpticalNodesProofs

-----------------------------------------------------------------------------
(* A step of one thread beside the others: it touches the cells hs only,   *)
(* none of which another thread holds or has a clone of.                   *)

Beside(t, hs) ==
    /\ \A u \in Threads \ {t} :
         /\ slice'[u] = slice[u] /\ pc'[u] = pc[u] /\ clones'[u] = clones[u]
         /\ slice[u].held => slice[u].indices \cap hs = {}
         /\ DOMAIN clones[u] \cap hs = {}
         /\ \A p \in BatchOf(u)' : p \in BatchOf(u) /\ handle'[p] = handle[p]
    /\ Live' \subseteq Live \cup hs
    /\ \A h \in Live \ hs : h \in Live' /\ CellNow(h)' = CellNow(h) /\ State(h)' = State(h)

OwnPart(t, hs) ==
    /\ \A h \in hs : h \in Live' => StateFits(h)'
    /\ SliceFits(t)' /\ HolderAt(t)' /\ BatchHeld(t)' /\ CloneKept(t)'
    /\ DOMAIN clones'[t] \subseteq hs \cup DOMAIN clones[t]

LEMMA HeldIsLive ==
    ASSUME RingInv, NEW t \in Threads, slice[t].held
    PROVE  slice[t].indices \subseteq Live /\ slice[t].moved \subseteq slice[t].indices
PROOF
  <1>1. t \in Holders
    BY DEF Holders
  <1>2. \A h \in slice[t].indices : h \in Window /\ State(h) = "Locked"
    BY <1>1 DEF RingInv, SlicesInWindow, LockedIsHeld
  <1> QED BY <1>1, <1>2 DEF Live, RingInv, SlicesInWindow

LEMMA StepBeside ==
    ASSUME RingInv, HoldingInv, ClonesInv, NEW t \in Threads, NEW hs,
           Beside(t, hs), OwnPart(t, hs)
    PROVE  HoldingInv' /\ ClonesInv'
PROOF
  <1>1. ASSUME NEW u \in Threads \ {t}
        PROVE  /\ slice'[u] = slice[u] /\ pc'[u] = pc[u] /\ clones'[u] = clones[u]
               /\ slice[u].held => slice[u].indices \cap hs = {}
               /\ DOMAIN clones[u] \cap hs = {}
               /\ \A p \in BatchOf(u)' : p \in BatchOf(u) /\ handle'[p] = handle[p]
    BY DEF Beside
  <1>2. /\ Live' \subseteq Live \cup hs
        /\ \A h \in Live \ hs : h \in Live' /\ CellNow(h)' = CellNow(h) /\ State(h)' = State(h)
    BY DEF Beside
  <1>3. /\ \A h \in hs : h \in Live' => StateFits(h)'
        /\ SliceFits(t)' /\ HolderAt(t)' /\ BatchHeld(t)' /\ CloneKept(t)'
        /\ DOMAIN clones'[t] \subseteq hs \cup DOMAIN clones[t]
    BY DEF OwnPart
  <1>4. ASSUME NEW h \in Live' PROVE StateFits(h)'
    <2>1. CASE h \in hs
      BY <1>3, <2>1
    <2>2. CASE h \notin hs
      <3>1. StateFits(h) /\ CellNow(h)' = CellNow(h) /\ State(h)' = State(h)
        BY <1>2, <2>2 DEF HoldingInv
      <3> QED BY <3>1 DEF StateFits
    <2> QED BY <2>1, <2>2
  <1>5. ASSUME NEW u \in Threads \ {t} PROVE SliceFits(u)' /\ HolderAt(u)' /\ BatchHeld(u)'
    <2>1. SliceFits(u) /\ HolderAt(u) /\ BatchHeld(u)
      BY DEF HoldingInv
    <2>2. slice[u].held => \A h \in slice[u].indices : CellNow(h)' = CellNow(h)
      BY <1>1, <1>2, HeldIsLive
    <2>3. SliceFits(u)'
      BY <1>1, <2>1, <2>2 DEF SliceFits
    <2>4. HolderAt(u)'
      BY <1>1, <2>1 DEF HolderAt
    <2>5. BatchHeld(u)'
      BY <1>1, <2>1 DEF BatchHeld
    <2> QED BY <2>3, <2>4, <2>5
  <1>6. ASSUME NEW u \in Threads \ {t} PROVE CloneKept(u)'
    <2>1. CloneKept(u)
      BY DEF ClonesInv
    <2>2. ASSUME NEW h \in DOMAIN clones[u]
          PROVE  h \in Islands' /\ CellNow(h)' = CellNow(h) /\ State(h)' = State(h)
      <3>1. h \in Islands /\ h \notin hs
        BY <1>1, <2>1 DEF CloneKept
      <3> QED BY <1>2, <3>1 DEF Islands
    <2> QED BY <1>1, <2>1, <2>2 DEF CloneKept
  <1>7. HoldingInv'
    BY <1>3, <1>4, <1>5 DEF HoldingInv
  <1>8. ClonesInv'
    <2>1. ASSUME NEW u \in Threads, u # t PROVE DOMAIN clones'[t] \cap DOMAIN clones'[u] = {}
      <3>1. clones'[u] = clones[u] /\ DOMAIN clones[u] \cap hs = {}
        BY <1>1, <2>1
      <3>2. DOMAIN clones[t] \cap DOMAIN clones[u] = {}
        BY <2>1 DEF ClonesInv
      <3> QED BY <1>3, <3>1, <3>2
    <2>2. ASSUME NEW u \in Threads, NEW v \in Threads, u # v
          PROVE  DOMAIN clones'[u] \cap DOMAIN clones'[v] = {}
      <3>1. CASE u = t \/ v = t
        BY <2>1, <2>2, <3>1
      <3>2. CASE u # t /\ v # t
        BY <1>1, <2>2, <3>2 DEF ClonesInv
      <3> QED BY <3>1, <3>2
    <2> QED BY <1>3, <1>6, <2>2 DEF ClonesInv
  <1> QED BY <1>7, <1>8

\* What a thread holds, no other thread holds or has a clone of.
LEMMA OwnCells ==
    ASSUME RingInv, ClonesInv, NEW t \in Threads, slice[t].held, NEW u \in Threads \ {t}
    PROVE  /\ slice[u].held => slice[u].indices \cap slice[t].indices = {}
           /\ DOMAIN clones[u] \cap slice[t].indices = {}
PROOF
  <1>1. t \in Holders /\ (slice[u].held => u \in Holders)
    BY DEF Holders
  <1>2. slice[u].held => slice[u].indices \cap slice[t].indices = {}
    BY <1>1 DEF RingInv, SlicesApart
  <1>3. \A h \in slice[t].indices : h \in Window /\ State(h) = "Locked"
    BY <1>1 DEF RingInv, SlicesInWindow, LockedIsHeld
  <1>4. CloneKept(u)
    BY DEF ClonesInv
  <1>5. \A h \in DOMAIN clones[u] : State(h) = "Free" \/ (slice[u].held /\ h \in slice[u].indices)
    BY <1>4 DEF CloneKept
  <1> QED BY <1>2, <1>3, <1>5

\* Nothing is detected, and the islands that changed are counted.
LEMMA CountedStays ==
    ASSUME Counted, Detected' = Detected,
           \A h \in Islands' : \/ h \in Islands /\ CellNow(h)' = CellNow(h)
                               \/ CellNow(h)'.done = Cardinality(CellNow(h)'.active \cap Detected')
    PROVE  Counted'
  BY DEF Counted

\* A snowflake that is not made any more.
Spent(r) ==
    /\ r.pair < generated /\ \A h \in Blanks : r.pair # PairOf(h)
    /\ \A p \in DOMAIN at : p.pair = r.pair /\ Prefix(p.path, r.path) => p = r

StaySpent == \A r \in Packets : Spent(r) => Spent(r)'

\* No packet and no empty cell is new.
LEMMA FreshStays ==
    ASSUME FreshInv, end' = end, generated' = generated, DOMAIN at' \subseteq DOMAIN at,
           Blanks' \subseteq Blanks
    PROVE  FreshInv' /\ StaySpent
PROOF
  <1>1. \A h : PairOf(h)' = PairOf(h)
    BY DEF PairOf
  <1>2. PairsFresh'
    BY <1>1 DEF FreshInv, PairsFresh
  <1>3. PathsFresh'
    BY DEF FreshInv, PathsFresh
  <1>4. StaySpent
    BY <1>1 DEF StaySpent, Spent
  <1> QED BY <1>2, <1>3, <1>4 DEF FreshInv

-----------------------------------------------------------------------------
(* What a step does to the packets that the cells list.                    *)

Lists(h) ==
    IF h \in Islands THEN CellNow(h).active
    ELSE IF h \in Results THEN CellNow(h).packets ELSE {}

SameLists(hs) == \A h \in hs : Lists(h)' = Lists(h)

\* Tombstones and empty cells come and go.
Stutters ==
    /\ Islands' = Islands /\ Results' = Results /\ SameLists(Islands \cup Results)
    /\ DOMAIN at' = DOMAIN at /\ Detected' = Detected /\ StaySpent

\* Sources fill the cells hs with a pair each.
Populates(hs) ==
    /\ hs \subseteq Blanks
    /\ Islands' = Islands \cup hs /\ Results' = Results /\ SameLists(Islands \cup Results)
    /\ \A h \in hs : Lists(h)' = PairAt(h)
    /\ DOMAIN at' = DOMAIN at \cup UNION {PairAt(h) : h \in hs} /\ Detected' = Detected
    /\ UNCHANGED generated /\ Blanks' \subseteq Blanks /\ \A h : PairOf(h)' = PairOf(h)

\* The island at d is merged into the one at r.
Joins(d, r) ==
    /\ d \in Islands /\ r \in Islands /\ d # r
    /\ Islands' = Islands \ {d} /\ Results' = Results
    /\ SameLists((Islands \cup Results) \ {d, r})
    /\ Lists(r)' = Lists(r) \cup Lists(d)
    /\ DOMAIN at' = DOMAIN at /\ Detected' = Detected /\ StaySpent

\* The packets of a batch are replaced by their sinks.
Scatters(batch, labels) ==
    /\ batch \subseteq DOMAIN at /\ batch \cap Detected = {}
    /\ labels \subseteq OutLabels /\ labels # {}
    /\ Islands' = Islands /\ Results' = Results /\ SameLists(Results)
    /\ \A h \in Islands :
         Lists(h)' = (Lists(h) \ batch) \cup Sinks(Lists(h) \cap batch, labels)
    /\ DOMAIN at' = (DOMAIN at \ batch) \cup Sinks(batch, labels) /\ Detected' = Detected
    /\ Sinks(batch, labels) \cap DOMAIN at = {}
    /\ UNCHANGED generated /\ Blanks' \subseteq Blanks /\ \A h : PairOf(h)' = PairOf(h)

\* The packets of a batch are detected.
Detects(batch) ==
    /\ batch \subseteq DOMAIN at /\ batch \cap Detected = {}
    /\ Islands' = Islands /\ Results' = Results /\ SameLists(Islands \cup Results)
    /\ DOMAIN at' = DOMAIN at /\ Detected' = Detected \cup batch /\ StaySpent

\* The islands at hs, all detected, become results.
Measures(hs) ==
    /\ hs \subseteq Islands /\ \A h \in hs : Lists(h) \subseteq Detected
    /\ Islands' = Islands \ hs /\ Results' = Results \cup hs /\ SameLists(Islands \cup Results)
    /\ DOMAIN at' = DOMAIN at /\ Detected' = Detected /\ StaySpent

\* The packets of a batch take their outcomes; results go that nobody else is led to.
Claims(batch) ==
    /\ batch \subseteq DOMAIN at /\ \A p \in batch : \E h \in Results : p \in Lists(h)
    /\ Islands' = Islands /\ Results' \subseteq Results /\ SameLists(Islands \cup Results')
    /\ \E P : Led(P) /\ \A h \in Results \ Results' : P[h] \subseteq batch
    /\ DOMAIN at' = DOMAIN at \ batch /\ Detected' = Detected \ batch /\ StaySpent

ListsStep ==
    \/ Stutters
    \/ \E hs : Populates(hs) \/ Measures(hs)
    \/ \E d, r : Joins(d, r)
    \/ \E batch : Detects(batch) \/ Claims(batch) \/ \E labels : Scatters(batch, labels)

LEMMA Kinded ==
    /\ \A h : /\ h \in Islands <=> h \in Live /\ IsIsland(CellNow(h))
             /\ h \in Results <=> h \in Live /\ IsResult(CellNow(h))
    /\ \A h : /\ h \in Islands' <=> h \in Live' /\ IsIsland(CellNow(h)')
             /\ h \in Results' <=> h \in Live' /\ IsResult(CellNow(h)')
  BY DEF Islands, Results

\* Nothing is listed by a cell that is neither island nor result.
LEMMA ListsKept ==
    ASSUME \A h \in Live \cap Live' :
             SameListing(h) \/ (IsTombstone(CellNow(h)) /\ IsTombstone(CellNow(h)')),
           \A h \in Live \ Live' : IsTombstone(CellNow(h)),
           \A h \in Live' \ Live : CellNow(h)' = NoCell
    PROVE  Islands' = Islands /\ Results' = Results /\ SameLists(Islands \cup Results)
PROOF
  <1>1. ASSUME NEW h \in Live
        PROVE  /\ IsIsland(CellNow(h)) => /\ h \in Live' /\ IsIsland(CellNow(h)')
                                          /\ CellNow(h)'.active = CellNow(h).active
               /\ IsResult(CellNow(h)) => /\ h \in Live' /\ IsResult(CellNow(h)')
                                          /\ CellNow(h)'.packets = CellNow(h).packets
    BY Kinds DEF SameListing
  <1>2. ASSUME NEW h \in Live'
        PROVE  /\ IsIsland(CellNow(h)') => h \in Live /\ IsIsland(CellNow(h))
               /\ IsResult(CellNow(h)') => h \in Live /\ IsResult(CellNow(h))
    BY Kinds DEF SameListing
  <1>3. Islands' = Islands /\ Results' = Results
    BY <1>1, <1>2 DEF Islands, Results
  <1>4. \A h \in Islands : CellNow(h)'.active = CellNow(h).active
    BY <1>1 DEF Islands
  <1>5. \A h \in Results : CellNow(h)'.packets = CellNow(h).packets
    BY <1>1 DEF Results
  <1> QED BY <1>3, <1>4, <1>5 DEF SameLists, Lists

-----------------------------------------------------------------------------
(* Steps that leave the store alone.                                       *)

Standing(place) == place \notin HoldingPlaces /\ place \notin ClonePlaces

QuietStep(t) ==
    /\ UNCHANGED <<start, end, cap, reg, bufs, slice, handle, generated, clones>>
    /\ Standing(pc[t]) /\ Standing(pc'[t])
    /\ \A u \in Threads \ {t} : pc'[u] = pc[u] /\ BatchOf(u)' \subseteq BatchOf(u)
    /\ DOMAIN at' = DOMAIN at /\ Detected' = Detected

LEMMA PlacesAre ==
    /\ \A place \in {"idle", "wait", "forward"} : Standing(place)
    /\ \A place : Standing(place) => place # "work" /\ place # "relock" /\ place # "populate"
  BY DEF Standing, HoldingPlaces, ClonePlaces

LEMMA QuietKeeps ==
    ASSUME StoreInv, NEW t \in Threads, QuietStep(t)
    PROVE  LogicInv' /\ Stutters
PROOF
  <1>1. TypeInv /\ RingInv /\ HoldingInv /\ Counted /\ ClonesInv /\ FreshInv
    BY DEF StoreInv, LogicInv
  <1>2. /\ UNCHANGED <<start, end, cap, reg, bufs, slice, handle, generated, clones>>
        /\ Standing(pc[t]) /\ Standing(pc'[t])
        /\ \A u \in Threads \ {t} : pc'[u] = pc[u] /\ BatchOf(u)' \subseteq BatchOf(u)
        /\ DOMAIN at' = DOMAIN at /\ Detected' = Detected
    BY DEF QuietStep
  <1>3. /\ RingInv' /\ Window' = Window /\ Live' = Live
        /\ \A h : State(h)' = State(h) /\ CellNow(h)' = CellNow(h)
    BY <1>1, <1>2, QuietEffect
  <1>4. Beside(t, {})
    BY <1>2, <1>3 DEF Beside
  <1>5. OwnPart(t, {})
    <2>1. HolderAt(t) /\ CloneKept(t)
      BY <1>1 DEF HoldingInv, ClonesInv
    <2>2. ~ slice[t].held /\ DOMAIN clones[t] = {}
      BY <1>2, <2>1 DEF HolderAt, CloneKept, Standing
    <2>3. SliceFits(t)' /\ HolderAt(t)'
      BY <1>2, <2>2 DEF SliceFits, HolderAt, Standing
    <2>4. BatchHeld(t)'
      BY <1>2, PlacesAre DEF BatchHeld
    <2>5. CloneKept(t)'
      BY <1>2, <2>2 DEF CloneKept
    <2> QED BY <1>2, <2>2, <2>3, <2>4, <2>5 DEF OwnPart
  <1>6. HoldingInv' /\ ClonesInv'
    BY <1>1, <1>4, <1>5, StepBeside
  <1>7. Counted'
    BY <1>1, <1>2, <1>3, CountedStays DEF Islands
  <1>8. FreshInv' /\ StaySpent
    BY <1>1, <1>2, <1>3, FreshStays DEF Blanks
  <1>9. \E P : Led(P)'
    <2>1. PICK P : Led(P)
      BY DEF StoreInv, LogicInv
    <2>2. SameWays(P)
      BY <1>2, <1>3, LiveHandles DEF SameWays, SameListing
    <2> QED BY <2>1, <2>2, LedStays
  <1>10. Stutters
    BY <1>2, <1>3, <1>8, ListsKept DEF Stutters, SameListing
  <1> QED BY <1>3, <1>6, <1>7, <1>8, <1>9, <1>10 DEF LogicInv

LEMMA RolesApart ==
    /\ Getters \subseteq Threads /\ Sources \subseteq Threads /\ Claimers \subseteq Threads
    /\ Getters \cap Claimers = {} /\ Sources \cap Claimers = {} /\ Detectors \subseteq Getters
    /\ Singles \subseteq Getters /\ Duals \subseteq Getters
  BY RoleAssumption DEF Nodes, Getters

LEMMA GotoIs ==
    ASSUME NodeTypes, NEW t \in Threads, NEW from, NEW to, Goto(t, from, to)
    PROVE  /\ pc[t] = from /\ pc'[t] = to
           /\ \A u \in Threads \ {t} : pc'[u] = pc[u]
  BY DEF Goto, NodeTypes

LEMMA PlaceIs ==
    \A node, box, port : /\ Place(node, box, port).node = node
                         /\ Place(node, box, port).box = box
                         /\ Place(node, box, port).port = port
  BY DEF Place

LEMMA GetBatchIsQuiet ==
    ASSUME StoreInv, NEW t \in Threads, GetBatch(t)
    PROVE  QuietStep(t)
PROOF
  <1>1. TypeInv /\ NodeTypes /\ PacketTypes
    BY DEF StoreInv, TypeInv
  <1>2. PICK taken \in SUBSET PacketsAt(t, "inbox") :
          at' = [p \in DOMAIN at |->
                   IF p \in taken THEN [at[p] EXCEPT !.box = "batch"] ELSE at[p]]
    BY DEF GetBatch
  <1>3. t \in Getters /\ t \notin Claimers /\ Goto(t, "idle", "wait")
        /\ UNCHANGED <<storeVars, generated, clones>>
    BY RolesApart DEF GetBatch
  <1>4. DOMAIN at' = DOMAIN at
        /\ \A p \in DOMAIN at : IF p \in taken THEN /\ at[p].node = t /\ at[p].box = "inbox"
                                                    /\ at'[p].node = t /\ at'[p].box = "batch"
                                ELSE at'[p] = at[p]
    BY <1>1, <1>2 DEF PacketsAt, PacketTypes
  <1>5. Detected' = Detected
    BY <1>3, <1>4 DEF Detected
  <1>6. \A u \in Threads \ {t} : BatchOf(u)' \subseteq BatchOf(u)
    BY <1>4 DEF BatchOf, PacketsAt
  <1>7. QuietStep(t)
    BY <1>1, <1>3, <1>4, <1>5, <1>6, GotoIs, PlacesAre DEF QuietStep, storeVars
  <1> QED BY <1>7

LEMMA ReceiveIsQuiet ==
    ASSUME StoreInv, NEW t \in Threads, Receive(t)
    PROVE  QuietStep(t)
PROOF
  <1>1. TypeInv /\ NodeTypes /\ PacketTypes
    BY DEF StoreInv, TypeInv
  <1>2. /\ t \in Claimers /\ Goto(t, "idle", "wait") /\ UNCHANGED <<storeVars, generated, clones>>
        /\ at' = [p \in DOMAIN at |->
                    IF p \in PacketsAt(t, "inbox") THEN Place(t, "batch", "rx0") ELSE at[p]]
    BY DEF Receive
  <1>3. DOMAIN at' = DOMAIN at
        /\ \A p \in DOMAIN at : IF p \in PacketsAt(t, "inbox")
                                THEN at[p].node = t /\ at'[p].node = t
                                ELSE at'[p] = at[p]
    BY <1>2, PlaceIs DEF PacketsAt
  <1>4. Detected' = Detected
    BY <1>2, <1>3 DEF Detected
  <1>5. \A u \in Threads \ {t} : BatchOf(u)' \subseteq BatchOf(u)
    BY <1>3 DEF BatchOf, PacketsAt
  <1>6. QuietStep(t)
    BY <1>1, <1>2, <1>3, <1>4, <1>5, GotoIs, PlacesAre DEF QuietStep, storeVars
  <1> QED BY <1>6

LEMMA ForwardIsQuiet ==
    ASSUME StoreInv, NEW t \in Threads, Forward(t)
    PROVE  QuietStep(t)
PROOF
  <1>1. TypeInv /\ NodeTypes /\ PacketTypes
    BY DEF StoreInv, TypeInv
  <1>2. /\ t \in Detectors /\ Goto(t, "forward", "idle") /\ UNCHANGED <<storeVars, generated, clones>>
        /\ at' = [p \in DOMAIN at |->
                    IF p \in PacketsAt(t, "detected")
                    THEN Place(ClaimerOf[t], "inbox", "rx0") ELSE at[p]]
    BY DEF Forward
  <1>3. ClaimerOf[t] \in Claimers
    BY <1>2, RoleAssumption
  <1>4. DOMAIN at' = DOMAIN at
        /\ \A p \in DOMAIN at : IF p \in PacketsAt(t, "detected")
                                THEN /\ at[p].box = "detected"
                                     /\ at'[p].node \in Claimers /\ at'[p].box = "inbox"
                                ELSE at'[p] = at[p]
    BY <1>2, <1>3, PlaceIs DEF PacketsAt
  <1>5. Detected' = Detected
    BY <1>4 DEF Detected
  <1>6. \A u \in Threads \ {t} : BatchOf(u)' \subseteq BatchOf(u)
    BY <1>4 DEF BatchOf, PacketsAt
  <1>7. QuietStep(t)
    BY <1>1, <1>2, <1>4, <1>5, <1>6, GotoIs, PlacesAre DEF QuietStep, storeVars
  <1> QED BY <1>7

LEMMA WaitIsQuiet ==
    ASSUME StoreInv, NEW t \in Threads, Enter(t) \/ WaitLocked(t) \/ WaitUncollapsed(t)
    PROVE  QuietStep(t)
PROOF
  <1>1. /\ pc[t] = "wait" /\ pc' = pc /\ at' = at
        /\ UNCHANGED <<start, end, cap, reg, bufs, slice, handle, generated, clones>>
    BY DEF Enter, WaitLocked, WaitUncollapsed, Acquire, SleepLocked, SleepUncollapsed, Sleep, nodeVars
  <1>2. Detected' = Detected /\ \A u \in Threads : BatchOf(u)' = BatchOf(u)
    BY <1>1 DEF Detected, BatchOf, PacketsAt
  <1>3. QuietStep(t)
    BY <1>1, <1>2, PlacesAre DEF QuietStep
  <1> QED BY <1>3

-----------------------------------------------------------------------------
(* A thread drops its slice.                                               *)

LEMMA StateType ==
    ASSUME RingTypes, NEW h \in Handles
    PROVE  State(h) \in CellStates
  BY SlotType, HandlesAreIntegers DEF RingTypes, State

\* Nobody is left to be redirected by a tombstone that is retired.
LEMMA EmptiedIsEmpty ==
    ASSUME TypeInv, RingInv, HoldingInv, NEW P, Led(P), NEW t \in Threads, slice[t].held
    PROVE  \A h \in slice[t].moved : h \in Emptied(t) <=> P[h] = {}
PROOF
  <1> SUFFICES ASSUME NEW h \in slice[t].moved PROVE h \in Emptied(t) <=> P[h] = {}
    OBVIOUS
  <1>1. h \in slice[t].indices /\ h \in Live /\ h \in Handles
    BY HeldIsLive, LiveHandles
  <1>2. IsTombstone(CellNow(h))
    BY <1>1 DEF HoldingInv, SliceFits
  <1>3. CellNow(h).ref = Cardinality(P[h])
    BY <1>1, <1>2 DEF Led, StonesCount, Stones
  <1>4. IsFiniteSet(P[h])
    <2>1. P[h] \subseteq DOMAIN at /\ IsFiniteSet(DOMAIN at)
      BY <1>1 DEF Led, Located, TypeInv
    <2> QED BY <2>1, FS_Subset
  <1>5. Cardinality(P[h]) = 0 <=> P[h] = {}
    BY <1>4, FS_EmptySet
  <1> QED BY <1>3, <1>5 DEF Emptied

DropStep(t) ==
    /\ DropSlice(t) /\ UNCHANGED <<generated, clones>>
    /\ pc[t] # "populate"
    /\ Standing(pc'[t]) \/ pc'[t] = "relock"
    /\ Standing(pc'[t]) => t \notin Detectors \/ pc[t] \notin ClonePlaces
    /\ \A u \in Threads \ {t} : pc'[u] = pc[u] /\ BatchOf(u)' \subseteq BatchOf(u)
    /\ DOMAIN at' = DOMAIN at /\ Detected' = Detected

LEMMA DropKeeps ==
    ASSUME StoreInv, NEW t \in Threads, DropStep(t)
    PROVE  LogicInv' /\ Stutters
PROOF
  <1>1. TypeInv /\ StoreTypes /\ RingInv /\ HoldingInv /\ Counted /\ ClonesInv /\ FreshInv
    BY DEF StoreInv, LogicInv, TypeInv
  <1>2. /\ DropSlice(t) /\ UNCHANGED <<generated, clones>>
        /\ pc[t] # "populate"
        /\ Standing(pc'[t]) \/ pc'[t] = "relock"
        /\ Standing(pc'[t]) => t \notin Detectors \/ pc[t] \notin ClonePlaces
        /\ \A u \in Threads \ {t} : pc'[u] = pc[u] /\ BatchOf(u)' \subseteq BatchOf(u)
        /\ DOMAIN at' = DOMAIN at /\ Detected' = Detected
    BY DEF DropStep
  <1>3. /\ RingInv' /\ Window' \subseteq Window
        /\ slice[t].held /\ slice' = [slice EXCEPT ![t] = NoSlice] /\ handle' = handle
        /\ \A h \in slice[t].moved : IsTombstone(CellNow(h))
        /\ Live' = Live \ Emptied(t)
        /\ \A h \in Live' :
             /\ CellNow(h)' = CellNow(h)
             /\ State(h)' = IF h \in slice[t].moved THEN "Moved"
                            ELSE IF h \in slice[t].indices THEN "Free" ELSE State(h)
    BY <1>1, <1>2, DropEffect
  <1>4. end' = end
    BY <1>2 DEF DropSlice
  <1>5. Emptied(t) \subseteq slice[t].moved /\ slice[t].moved \subseteq slice[t].indices
        /\ slice[t].indices \subseteq Live
    BY <1>1, <1>3, HeldIsLive DEF Emptied
  <1>6. slice'[t] = NoSlice /\ ~ slice'[t].held /\ \A u \in Threads \ {t} : slice'[u] = slice[u]
    BY <1>1, <1>3 DEF StoreTypes, SliceTypes, NoSlice
  <1>7. SliceFits(t) /\ CloneKept(t)
    BY <1>1 DEF HoldingInv, ClonesInv
  <1>8. Beside(t, slice[t].indices)
    <2>1. ASSUME NEW h \in Live \ slice[t].indices
          PROVE  h \in Live' /\ CellNow(h)' = CellNow(h) /\ State(h)' = State(h)
      BY <1>3, <1>5
    <2>2. ASSUME NEW u \in Threads \ {t}
          PROVE  /\ slice[u].held => slice[u].indices \cap slice[t].indices = {}
                 /\ DOMAIN clones[u] \cap slice[t].indices = {}
      BY <1>1, <1>3, OwnCells
    <2>3. ASSUME NEW u \in Threads \ {t}
          PROVE  /\ slice'[u] = slice[u] /\ pc'[u] = pc[u] /\ clones'[u] = clones[u]
                 /\ \A p \in BatchOf(u)' : p \in BatchOf(u) /\ handle'[p] = handle[p]
      BY <1>2, <1>3, <1>6
    <2> QED BY <1>3, <2>1, <2>2, <2>3 DEF Beside
  <1>9. OwnPart(t, slice[t].indices)
    <2>1. ASSUME NEW h \in slice[t].indices, h \in Live' PROVE StateFits(h)'
      <3>1. CellNow(h) \in Cells
        BY <1>1, <1>5, CellNowType DEF Live
      <3>2. CellNow(h) = NoCell \/ IsIsland(CellNow(h)) \/ IsTombstone(CellNow(h)) \/ IsResult(CellNow(h))
        BY <3>1, CellKinds
      <3>3. /\ IsTombstone(CellNow(h)) <=> h \in slice[t].moved
            /\ CellNow(h) # NoCell
        BY <1>2, <1>3, <1>7 DEF SliceFits
      <3>4. /\ CellNow(h)' = CellNow(h)
            /\ State(h)' = IF h \in slice[t].moved THEN "Moved" ELSE "Free"
        BY <1>3, <2>1
      <3> QED BY <3>2, <3>3, <3>4 DEF StateFits
    <2>2. SliceFits(t)' /\ HolderAt(t)'
      BY <1>2, <1>6 DEF SliceFits, HolderAt, Standing, HoldingPlaces
    <2>3. BatchHeld(t)'
      BY <1>2, PlacesAre DEF BatchHeld
    <2>4. CloneKept(t)'
      <3>1. CASE Standing(pc'[t])
        <4>1. DOMAIN clones'[t] = {}
          BY <1>2, <1>7, <3>1 DEF CloneKept
        <4> QED BY <4>1 DEF CloneKept
      <3>2. CASE pc'[t] = "relock"
        <4>1. ASSUME NEW h \in DOMAIN clones'[t]
              PROVE  /\ h \in Islands' /\ CellNow(h)' = clones'[t][h]
                     /\ IsCollapseReady(CellNow(h))' /\ State(h)' = "Free"
          <5>1. /\ h \in Islands /\ CellNow(h) = clones[t][h] /\ IsCollapseReady(CellNow(h))
                /\ pc[t] # "relock" => slice[t].held /\ h \in slice[t].indices
            BY <1>2, <1>7, <4>1 DEF CloneKept
          <5>2. pc[t] # "relock"
            BY <1>1, <1>3 DEF HoldingInv, HolderAt, HoldingPlaces
          <5>3. h \notin slice[t].moved /\ h \in slice[t].indices
            BY <1>3, <5>1, <5>2, Kinds DEF Islands
          <5>4. h \in Live'
            BY <1>3, <1>5, <5>3
          <5>5. CellNow(h)' = CellNow(h) /\ State(h)' = "Free"
            BY <1>3, <5>3, <5>4
          <5> QED BY <1>2, <5>1, <5>4, <5>5 DEF Islands, IsCollapseReady
        <4>2. t \notin Detectors => DOMAIN clones'[t] = {}
          BY <1>2, <1>7 DEF CloneKept
        <4> QED BY <3>2, <4>1, <4>2 DEF CloneKept, ClonePlaces
      <3> QED BY <1>2, <3>1, <3>2
    <2> QED BY <1>2, <2>1, <2>2, <2>3, <2>4 DEF OwnPart
  <1>10. HoldingInv' /\ ClonesInv'
    BY <1>1, <1>8, <1>9, StepBeside
  <1>11. Counted'
    BY <1>1, <1>2, <1>3, CountedStays DEF Islands
  <1>12. FreshInv' /\ StaySpent
    BY <1>1, <1>2, <1>3, <1>4, FreshStays DEF Blanks
  <1>13. \E P : Led(P)'
    <2>1. PICK P : Led(P)
      BY DEF StoreInv, LogicInv
    <2>2. \A h \in slice[t].moved : h \in Emptied(t) <=> P[h] = {}
      BY <1>1, <1>3, <2>1, EmptiedIsEmpty
    <2>3. SameWays(P)
      BY <1>2, <1>3, <1>5, <2>2, LiveHandles DEF SameWays, SameListing
    <2> QED BY <2>1, <2>3, LedStays
  <1>14. Stutters
    <2>1. \A h \in Live \ Live' : IsTombstone(CellNow(h))
      BY <1>3, <1>5
    <2>2. /\ \A h \in Live' \ Live : CellNow(h)' = NoCell
          /\ \A h \in Live \cap Live' : SameListing(h)
      BY <1>3 DEF SameListing
    <2> QED BY <1>2, <1>12, <2>1, <2>2, ListsKept DEF Stutters
  <1> QED BY <1>3, <1>10, <1>11, <1>12, <1>13, <1>14 DEF LogicInv

LEMMA SendBatchesEffect ==
    ASSUME PacketTypes, NEW t \in Getters \cup Sources, SendBatches(t)
    PROVE  /\ DOMAIN at' = DOMAIN at /\ Detected' = Detected
           /\ \A u \in Threads : BatchOf(u)' \subseteq BatchOf(u)
PROOF
  <1>1. /\ \A p \in PacketsAt(t, "out") : <<t, at[p].port>> \in DOMAIN Route
        /\ at' = [p \in DOMAIN at |->
                    IF p \in PacketsAt(t, "out")
                    THEN Place(Route[<<t, at[p].port>>].node, "inbox", Route[<<t, at[p].port>>].port)
                    ELSE at[p]]
    BY DEF SendBatches
  <1>2. \A p \in PacketsAt(t, "out") : Route[<<t, at[p].port>>].node \in Getters
    BY <1>1, RoleAssumption
  <1>3. DOMAIN at' = DOMAIN at
        /\ \A p \in DOMAIN at : IF p \in PacketsAt(t, "out")
                                THEN /\ at[p].node = t /\ at[p].box = "out"
                                     /\ at'[p].node \in Getters /\ at'[p].box = "inbox"
                                ELSE at'[p] = at[p]
    BY <1>1, <1>2, PlaceIs DEF PacketsAt
  <1>4. Detected' = Detected
    BY <1>3, RolesApart DEF Detected
  <1>5. \A u \in Threads : BatchOf(u)' \subseteq BatchOf(u)
    BY <1>3 DEF BatchOf, PacketsAt
  <1> QED BY <1>3, <1>4, <1>5

LEMMA SendDrops ==
    ASSUME StoreInv, NEW t \in Threads, SendPairs(t) \/ SendSinks(t)
    PROVE  DropStep(t)
PROOF
  <1>1. TypeInv /\ NodeTypes /\ PacketTypes
    BY DEF StoreInv, TypeInv
  <1>2. /\ DropSlice(t) /\ SendBatches(t) /\ UNCHANGED <<generated, clones>>
        /\ t \in Getters \cup Sources /\ t \notin Detectors
        /\ Goto(t, "populated", "idle") \/ Goto(t, "worked", "idle")
    BY RoleAssumption DEF SendPairs, SendSinks, Getters
  <1>3. /\ pc[t] # "populate" /\ pc'[t] = "idle"
        /\ \A u \in Threads \ {t} : pc'[u] = pc[u]
    BY <1>1, <1>2, GotoIs
  <1>4. DropStep(t)
    BY <1>1, <1>2, <1>3, SendBatchesEffect, PlacesAre DEF DropStep
  <1> QED BY <1>4

LEMMA DropOnlyDrops ==
    ASSUME StoreInv, NEW t \in Threads, DropDetected(t) \/ DropPublished(t)
    PROVE  DropStep(t)
PROOF
  <1>1. TypeInv /\ NodeTypes
    BY DEF StoreInv, TypeInv
  <1>2. /\ DropSlice(t) /\ UNCHANGED <<at, generated, clones>>
        /\ Goto(t, "worked", "relock") \/ Goto(t, "published", "forward")
    BY DEF DropDetected, DropPublished
  <1>3. /\ pc[t] # "populate" /\ (pc'[t] = "relock" \/ (pc'[t] = "forward" /\ pc[t] = "published"))
        /\ \A u \in Threads \ {t} : pc'[u] = pc[u]
    BY <1>1, <1>2, GotoIs
  <1>4. DOMAIN at' = DOMAIN at /\ Detected' = Detected /\ \A u \in Threads : BatchOf(u)' = BatchOf(u)
    BY <1>2 DEF Detected, BatchOf, PacketsAt
  <1>5. ~ Standing("relock") /\ "published" \notin ClonePlaces
    BY DEF Standing, ClonePlaces
  <1>6. DropStep(t)
    BY <1>2, <1>3, <1>4, <1>5, PlacesAre DEF DropStep
  <1> QED BY <1>6

-----------------------------------------------------------------------------
(* A thread locks cells.                                                   *)

LockStep(t, hs) ==
    /\ LockCells(t, hs) /\ UNCHANGED <<at, generated, clones>>
    /\ ~ slice[t].held /\ hs \subseteq Window
    /\ \A h \in hs : State(h) \notin {"Locked", "Moved", "Retired"}
    /\ \A u \in Threads \ {t} : pc'[u] = pc[u] /\ DOMAIN clones[u] \cap hs = {}
    /\ DOMAIN clones[t] \subseteq hs
    /\ \/ /\ pc'[t] = "work"
          /\ \A p \in BatchOf(t) : handle[p] \in hs
          /\ DOMAIN clones[t] = {}
       \/ pc[t] = "relock" /\ pc'[t] = "publish"

LEMMA LockKeeps ==
    ASSUME StoreInv, NEW t \in Threads, NEW hs, LockStep(t, hs)
    PROVE  LogicInv' /\ Stutters
PROOF
  <1>1. TypeInv /\ StoreTypes /\ RingInv /\ HoldingInv /\ Counted /\ ClonesInv /\ FreshInv
    BY DEF StoreInv, LogicInv, TypeInv
  <1>2. /\ LockCells(t, hs) /\ UNCHANGED <<at, generated, clones>>
        /\ ~ slice[t].held /\ hs \subseteq Window
        /\ \A h \in hs : State(h) \notin {"Locked", "Moved", "Retired"}
        /\ \A u \in Threads \ {t} : pc'[u] = pc[u] /\ DOMAIN clones[u] \cap hs = {}
        /\ DOMAIN clones[t] \subseteq hs
        /\ \/ /\ pc'[t] = "work"
              /\ \A p \in BatchOf(t) : handle[p] \in hs
              /\ DOMAIN clones[t] = {}
           \/ pc[t] = "relock" /\ pc'[t] = "publish"
    BY DEF LockStep
  <1>3. /\ RingInv' /\ Window' = Window
        /\ slice'[t] = Slice(cap, hs)
        /\ \A u \in Threads \ {t} : slice'[u] = slice[u]
        /\ \A h \in Window : /\ State(h)' = IF h \in hs THEN "Locked" ELSE State(h)
                             /\ CellNow(h)' = CellNow(h)
    BY <1>1, <1>2, LockEffect
  <1>4. end' = end /\ handle' = handle
    BY <1>2 DEF LockCells
  <1>5. Live' = Live /\ hs \subseteq Live
    BY <1>2, <1>3 DEF Live
  <1>6. Detected' = Detected /\ \A u \in Threads : BatchOf(u)' = BatchOf(u)
    BY <1>2 DEF Detected, BatchOf, PacketsAt
  <1>7. slice'[t].held /\ slice'[t].indices = hs /\ slice'[t].moved = {}
    BY <1>3 DEF Slice
  <1>8. Beside(t, hs)
    <2>1. ASSUME NEW u \in Threads \ {t}, slice[u].held PROVE slice[u].indices \cap hs = {}
      <3>1. \A h \in slice[u].indices : h \in Window /\ State(h) = "Locked"
        BY <1>1, <2>1 DEF RingInv, SlicesInWindow, LockedIsHeld, Holders
      <3> QED BY <1>2, <3>1
    <2>2. \A h \in Live \ hs : CellNow(h)' = CellNow(h) /\ State(h)' = State(h)
      BY <1>3 DEF Live
    <2> QED BY <1>2, <1>3, <1>4, <1>5, <1>6, <2>1, <2>2 DEF Beside
  <1>9. OwnPart(t, hs)
    <2>1. ASSUME NEW h \in hs
          PROVE  /\ IsIsland(CellNow(h)) \/ IsResult(CellNow(h))
                 /\ CellNow(h)' = CellNow(h) /\ State(h)' = "Locked"
      <3>1. State(h) = "Free"
        BY <1>1, <1>2, StateType, LiveHandles, <1>5 DEF CellStates, StoreTypes
      <3>2. StateFits(h)
        BY <1>1, <1>5 DEF HoldingInv
      <3> QED BY <1>2, <1>3, <3>1, <3>2 DEF StateFits
    <2>2. \A h \in hs : StateFits(h)'
      BY <2>1 DEF StateFits
    <2>3. SliceFits(t)'
      <3>1. pc'[t] # "populate"
        BY <1>2
      <3> QED BY <1>7, <2>1, <3>1, Kinds DEF SliceFits
    <2>4. HolderAt(t)'
      BY <1>2, <1>7 DEF HolderAt, HoldingPlaces
    <2>5. BatchHeld(t)'
      BY <1>2, <1>4, <1>6, <1>7 DEF BatchHeld
    <2>6. CloneKept(t)'
      <3>1. CloneKept(t)
        BY <1>1 DEF ClonesInv
      <3>2. ASSUME NEW h \in DOMAIN clones[t]
            PROVE  h \in Islands' /\ IsCollapseReady(CellNow(h))' /\ CellNow(h)' = CellNow(h)
        <4>1. CellNow(h)' = CellNow(h) /\ h \in Live'
          BY <1>2, <1>5, <2>1
        <4> QED BY <3>1, <4>1 DEF CloneKept, Islands, IsCollapseReady
      <3> QED BY <1>2, <1>7, <3>1, <3>2 DEF CloneKept, ClonePlaces
    <2> QED BY <1>2, <2>2, <2>3, <2>4, <2>5, <2>6 DEF OwnPart
  <1>10. HoldingInv' /\ ClonesInv'
    BY <1>1, <1>8, <1>9, StepBeside
  <1>11. \A h \in Live : CellNow(h)' = CellNow(h)
    BY <1>3 DEF Live
  <1>12. Counted'
    BY <1>1, <1>5, <1>6, <1>11, CountedStays DEF Islands
  <1>13. FreshInv' /\ StaySpent
    BY <1>1, <1>2, <1>4, <1>5, <1>11, FreshStays DEF Blanks
  <1>14. \E P : Led(P)'
    <2>1. PICK P : Led(P)
      BY DEF StoreInv, LogicInv
    <2>2. \A h \in Live : State(h)' = "Moved" => State(h) = "Moved"
      BY <1>3 DEF Live
    <2>3. SameWays(P)
      BY <1>2, <1>4, <1>5, <1>6, <1>11, <2>2, LiveHandles DEF SameWays, SameListing
    <2> QED BY <2>1, <2>3, LedStays
  <1>15. Stutters
    BY <1>2, <1>5, <1>6, <1>11, <1>13, ListsKept DEF Stutters, SameListing
  <1> QED BY <1>3, <1>10, <1>12, <1>13, <1>14, <1>15 DEF LogicInv

LEMMA BatchWaits ==
    ASSUME NEW t \in Getters
    PROVE  BatchOf(t) \cap Detected = {}
  BY RolesApart DEF BatchOf, PacketsAt, Detected

\* Every packet of a complete island was detected.
LEMMA CompleteIsDetected ==
    ASSUME TypeInv, RingInv, Counted, NEW h \in Islands, IsCollapseReady(CellNow(h))
    PROVE  CellNow(h).active \subseteq Detected
PROOF
  <1>1. CellNow(h) \in Cells
    BY CellNowType DEF Islands, Live, TypeInv
  <1>2. IsFiniteSet(CellNow(h).active)
    BY <1>1, CellFields DEF Islands
  <1>3. CellNow(h).done = Cardinality(CellNow(h).active \cap Detected)
    BY DEF Counted
  <1>4. Cardinality(CellNow(h).active \cap Detected) = Cardinality(CellNow(h).active)
    BY <1>3 DEF IsCollapseReady
  <1>5. CellNow(h).active \cap Detected = CellNow(h).active
    <2> DEFINE A == CellNow(h).active
               B == A \cap Detected
    <2>1. B \subseteq A /\ IsFiniteSet(A) /\ Cardinality(A) = Cardinality(B)
      BY <1>2, <1>4
    <2> HIDE DEF A, B
    <2>2. B = A
      BY <2>1, FS_Subset
    <2> QED BY <2>2 DEF A, B
  <1> QED BY <1>5

LEMMA LockBatchLocks ==
    ASSUME StoreInv, NEW t \in Threads, LockBatch(t)
    PROVE  LockStep(t, {handle[p] : p \in BatchOf(t)})
PROOF
  <1> DEFINE hs == {handle[p] : p \in BatchOf(t)}
  <1>1. /\ TypeInv /\ NodeTypes /\ PacketTypes /\ StoreTypes
        /\ RingInv /\ HoldingInv /\ Counted /\ ClonesInv
    BY DEF StoreInv, LogicInv, TypeInv
  <1>2. /\ t \in Getters /\ Goto(t, "wait", "work") /\ UNCHANGED <<at, generated, clones>>
        /\ Available(BatchOf(t)) /\ LockCells(t, hs)
    BY DEF LockBatch, GetStates
  <1>3. pc[t] = "wait" /\ pc'[t] = "work" /\ \A u \in Threads \ {t} : pc'[u] = pc[u]
    BY <1>1, <1>2, GotoIs
  <1>4. ~ slice[t].held /\ DOMAIN clones[t] = {}
    BY <1>1, <1>3 DEF HoldingInv, HolderAt, HoldingPlaces, ClonesInv, CloneKept, ClonePlaces
  <1>5. PICK P : Led(P)
    BY DEF StoreInv, LogicInv
  <1>6. ASSUME NEW p \in BatchOf(t)
        PROVE  /\ handle[p] \in Window /\ handle[p] \in Live /\ p \in P[handle[p]]
               /\ State(handle[p]) \notin {"Locked", "Moved", "Retired"}
    <2>1. p \in DOMAIN at
      BY DEF BatchOf, PacketsAt
    <2> QED BY <1>1, <1>2, <1>5, <2>1, LedToLive DEF Available, Live
  <1>7. ASSUME NEW u \in Threads \ {t}, NEW p \in BatchOf(t), handle[p] \in DOMAIN clones[u]
        PROVE  FALSE
    <2> DEFINE h == handle[p]
    <2>1. h \in Islands /\ IsCollapseReady(CellNow(h))
      BY <1>1, <1>7 DEF ClonesInv, CloneKept
    <2>2. CellNow(h).active \subseteq Detected
      BY <1>1, <2>1, CompleteIsDetected
    <2>3. P[h] = CellNow(h).active
      BY <1>5, <2>1 DEF Led, IslandsList
    <2> QED BY <1>2, <1>6, <2>2, <2>3, BatchWaits
  <1>8. LockStep(t, hs)
    BY <1>2, <1>3, <1>4, <1>6, <1>7 DEF LockStep
  <1> QED BY <1>8

LEMMA RelockLocks ==
    ASSUME StoreInv, NEW t \in Threads, Relock(t)
    PROVE  LockStep(t, DOMAIN clones[t])
PROOF
  <1> DEFINE hs == DOMAIN clones[t]
  <1>1. /\ TypeInv /\ NodeTypes /\ RingInv /\ HoldingInv /\ Counted /\ ClonesInv
    BY DEF StoreInv, LogicInv, TypeInv
  <1>2. /\ Goto(t, "relock", "publish") /\ UNCHANGED <<at, generated, clones>>
        /\ LockCells(t, hs)
    BY DEF Relock, GetStatesFromRawHandles
  <1>3. pc[t] = "relock" /\ pc'[t] = "publish" /\ \A u \in Threads \ {t} : pc'[u] = pc[u]
    BY <1>1, <1>2, GotoIs
  <1>4. ~ slice[t].held
    BY <1>1, <1>3 DEF HoldingInv, HolderAt, HoldingPlaces
  <1>5. \A h \in hs : h \in Window /\ State(h) = "Free"
    BY <1>1, <1>3 DEF ClonesInv, CloneKept, Islands, Live
  <1>6. \A u \in Threads \ {t} : DOMAIN clones[u] \cap hs = {}
    BY <1>1 DEF ClonesInv
  <1>7. LockStep(t, hs)
    BY <1>2, <1>3, <1>4, <1>5, <1>6 DEF LockStep
  <1> QED BY <1>7

-----------------------------------------------------------------------------
(* A thread creates states.                                                *)

\* Pairs are numbered along the ring.
LEMMA PairIs ==
    RingTypes /\ generated \in Int =>
      \A h \in Window : PairOf(h) = generated - WindowLen + Offset(h)
PROOF
  <1> SUFFICES ASSUME RingTypes, generated \in Int, NEW h \in Window
               PROVE  PairOf(h) = generated - WindowLen + Offset(h)
    OBVIOUS
  <1>1. /\ start \in Int /\ end \in Int /\ WindowLen \in 0 .. IndexRange - 1
        /\ IndexRange \in Nat /\ IndexRange # 0
    BY RingNumbers, RangeType
  <1>2. h \in Handles /\ h \in Int /\ Offset(h) < WindowLen
    BY WindowIs, HandlesAreIntegers
  <1>3. Offset(h) \in 0 .. IndexRange - 1 /\ Offset(h) \in Int
    BY <1>1, <1>2, OffsetType
  <1>4. h = (start + Offset(h)) % IndexRange
    BY <1>1, <1>2, PlusOffset DEF Plus
  <1>5. (end - ((start + Offset(h)) % IndexRange)) % IndexRange
          = (((end - start) % IndexRange) - Offset(h)) % IndexRange
    BY <1>1, <1>3, RemainderOfDifference
  <1>6. (end - h) % IndexRange = (WindowLen - Offset(h)) % IndexRange
    BY <1>4, <1>5 DEF WindowLen
  <1>7. WindowLen - Offset(h) \in 0 .. IndexRange - 1
    BY <1>1, <1>2, <1>3
  <1>8. (WindowLen - Offset(h)) % IndexRange = WindowLen - Offset(h)
    BY <1>1, <1>7, SmallRemainder
  <1>9. PairOf(h) = generated - (WindowLen - Offset(h))
    BY <1>6, <1>8 DEF PairOf
  <1> QED BY <1>1, <1>3, <1>9

LEMMA GenerateKeeps ==
    ASSUME StoreInv, NEW t \in Threads, Generate(t)
    PROVE  LogicInv' /\ Stutters
PROOF
  <1>1. /\ TypeInv /\ NodeTypes /\ StoreTypes /\ RingTypes /\ RingInv /\ HoldingInv /\ Counted
        /\ ClonesInv /\ FreshInv
    BY DEF StoreInv, LogicInv, TypeInv, StoreTypes
  <1>2. PICK n \in 1 .. MaxBatch : CreateStates(t, n) /\ generated' = generated + n
    BY DEF Generate
  <1>3. n \in Nat /\ n \in Int /\ n # 0
    BY RoleAssumption
  <1>4. /\ pc[t] = "idle" /\ pc'[t] = "populate" /\ \A u \in Threads \ {t} : pc'[u] = pc[u]
        /\ UNCHANGED <<at, clones>>
    BY <1>1, GotoIs DEF Generate
  <1>5. ~ slice[t].held /\ DOMAIN clones[t] = {}
    BY <1>1, <1>4 DEF HoldingInv, HolderAt, HoldingPlaces, ClonesInv, CloneKept, ClonePlaces
  <1>6. /\ RingInv'
        /\ WindowLen + n < IndexRange
        /\ Fresh(n) \subseteq Handles /\ Fresh(n) \cap Window = {} /\ Window' = Window \cup Fresh(n)
        /\ slice'[t] = Slice(cap', Fresh(n))
        /\ \A u \in Threads \ {t} : slice'[u] = slice[u]
        /\ \A h \in Window : State(h)' = State(h) /\ CellNow(h)' = CellNow(h)
        /\ \A h \in Fresh(n) : State(h)' = "Locked" /\ CellNow(h)' = NoCell
    BY <1>1, <1>2, <1>3, <1>5, CreateEffect
  <1>7. start' = start /\ end' = Plus(end, n) /\ handle' = handle
    BY <1>2 DEF CreateStates
  <1>8. Live' = Live \cup Fresh(n) /\ Fresh(n) \cap Live = {}
    BY <1>6 DEF Live
  <1>9. Detected' = Detected /\ \A u \in Threads : BatchOf(u)' = BatchOf(u)
    BY <1>4 DEF Detected, BatchOf, PacketsAt
  <1>10. \A h \in Live : State(h)' = State(h) /\ CellNow(h)' = CellNow(h)
    BY <1>6 DEF Live
  <1>11. slice'[t].held /\ slice'[t].indices = Fresh(n) /\ slice'[t].moved = {}
    BY <1>6 DEF Slice
  <1>12. Beside(t, Fresh(n))
    <2>1. ASSUME NEW u \in Threads \ {t}
          PROVE  /\ slice[u].held => slice[u].indices \cap Fresh(n) = {}
                 /\ DOMAIN clones[u] \cap Fresh(n) = {}
      <3>1. slice[u].held => slice[u].indices \subseteq Live
        BY <1>1, HeldIsLive
      <3>2. DOMAIN clones[u] \subseteq Live
        BY <1>1 DEF ClonesInv, CloneKept, Islands
      <3> QED BY <1>8, <3>1, <3>2
    <2> QED BY <1>4, <1>6, <1>7, <1>8, <1>9, <1>10, <2>1 DEF Beside
  <1>13. OwnPart(t, Fresh(n))
    <2>1. \A h \in Fresh(n) : StateFits(h)'
      BY <1>6 DEF StateFits
    <2>2. SliceFits(t)'
      BY <1>4, <1>6, <1>11, Kinds DEF SliceFits
    <2>3. HolderAt(t)' /\ BatchHeld(t)'
      BY <1>4, <1>11 DEF HolderAt, BatchHeld, HoldingPlaces
    <2>4. CloneKept(t)'
      BY <1>4, <1>5 DEF CloneKept
    <2> QED BY <1>4, <1>5, <2>1, <2>2, <2>3, <2>4 DEF OwnPart
  <1>14. HoldingInv' /\ ClonesInv'
    BY <1>1, <1>12, <1>13, StepBeside
  <1>15. Counted'
    <2>1. \A h \in Islands' : h \in Islands /\ CellNow(h)' = CellNow(h)
      BY <1>6, <1>8, <1>10, Kinds DEF Islands
    <2> QED BY <1>1, <1>9, <2>1, CountedStays
  <1>16. /\ \A h \in Window : PairOf(h)' = PairOf(h)
         /\ \A h \in Fresh(n) : PairOf(h)' >= generated
    <2>1. generated \in Int /\ generated' \in Int /\ RingTypes' /\ generated \in Nat
      BY <1>1, GenerateTypes, RoleAssumption DEF NodeTypes, TypeInv, StoreTypes
    <2>2. \A h \in Window : PairOf(h) = generated - WindowLen + Offset(h)
      BY <1>1, <2>1, PairIs
    <2>3. (RingTypes /\ generated \in Int =>
             \A h \in Window : PairOf(h) = generated - WindowLen + Offset(h))'
      BY PairIs, PTL
    <2>4. \A h \in Window' : PairOf(h)' = generated' - WindowLen' + Offset(h)'
      BY <2>1, <2>3
    <2>5. /\ WindowLen' = WindowLen + n
          /\ \A h \in Window' : Offset(h)' = Offset(h) /\ Offset(h) < WindowLen + n
      BY <1>1, <1>3, <1>6, <1>7, WindowGrows DEF Fresh
    <2>6. WindowLen \in Int /\ start \in Int
      BY <1>1, RingNumbers
    <2>7. ASSUME NEW h \in Window' PROVE Offset(h) \in Int
      BY <1>6, <2>6, <2>7, OffsetType, WindowIs, HandlesAreIntegers
    <2>8. ASSUME NEW h \in Window PROVE PairOf(h)' = PairOf(h)
      <3>1. h \in Window'
        BY <1>6
      <3>2. PairOf(h)' = generated' - WindowLen' + Offset(h) /\ Offset(h) \in Int
        BY <2>4, <2>5, <2>7, <3>1
      <3> QED BY <1>2, <1>3, <2>1, <2>2, <2>5, <2>6, <3>2
    <2>9. ASSUME NEW h \in Fresh(n) PROVE PairOf(h)' >= generated
      <3>1. h \in Window' /\ h \notin Window /\ h \in Handles
        BY <1>6
      <3>2. PairOf(h)' = generated' - WindowLen' + Offset(h) /\ Offset(h) \in Int
        BY <2>4, <2>5, <2>7, <3>1
      <3>3. ~ (Offset(h) < WindowLen)
        BY <3>1, WindowIs
      <3> QED BY <1>2, <1>3, <2>1, <2>5, <2>6, <3>2, <3>3
    <2> QED BY <2>8, <2>9
  <1>17. FreshInv'
    <2>1. generated \in Int /\ \A p \in DOMAIN at : p.pair \in Int
      BY <1>1, RoleAssumption DEF NodeTypes, TypeInv, PacketTypes, Packets
    <2>2. end' = Plus(FirstIndex, generated')
      <3>1. end = Plus(FirstIndex, generated) /\ FirstIndex \in Int
        BY <1>1, CapacityAssumption DEF FreshInv, PairsFresh
      <3> QED BY <1>2, <1>3, <1>7, <2>1, <3>1, PlusPlus
    <2>3. \A p \in DOMAIN at : p.pair < generated
      BY <1>1 DEF FreshInv, PairsFresh
    <2>4. \A p \in DOMAIN at' : p.pair < generated'
      BY <1>2, <1>3, <1>4, <2>1, <2>3
    <2>5. ASSUME NEW h \in Blanks', NEW p \in DOMAIN at PROVE p.pair # PairOf(h)'
      <3>1. CASE h \in Fresh(n)
        <4>1. PairOf(h)' >= generated /\ p.pair < generated
          BY <1>16, <2>3, <3>1
        <4> QED BY <2>1, <4>1
      <3>2. CASE h \notin Fresh(n)
        <4>1. h \in Blanks /\ h \in Window
          BY <1>8, <1>10, <3>2 DEF Blanks, Live
        <4> QED BY <1>1, <1>16, <4>1 DEF FreshInv, PairsFresh
      <3> QED BY <3>1, <3>2
    <2>6. PairsFresh'
      BY <1>4, <2>2, <2>4, <2>5 DEF PairsFresh
    <2>7. PathsFresh'
      BY <1>1, <1>4 DEF FreshInv, PathsFresh
    <2> QED BY <2>6, <2>7 DEF FreshInv
  <1>18. \E P : Led(P)'
    <2>1. PICK P : Led(P)
      BY DEF StoreInv, LogicInv
    <2>2. SameWays(P)
      BY <1>4, <1>6, <1>7, <1>8, <1>9, <1>10, LiveHandles DEF SameWays, SameListing
    <2> QED BY <2>1, <2>2, LedStays
  <1>19. StaySpent
    <2> SUFFICES ASSUME NEW r \in Packets, Spent(r) PROVE Spent(r)'
      BY DEF StaySpent
    <2>1. generated \in Int /\ r.pair \in Int /\ r.pair < generated
      BY <1>1, RoleAssumption DEF NodeTypes, Packets, Spent
    <2>2. ASSUME NEW h \in Blanks' PROVE r.pair # PairOf(h)'
      <3>1. CASE h \in Fresh(n)
        BY <1>16, <2>1, <3>1
      <3>2. CASE h \notin Fresh(n)
        <4>1. h \in Blanks /\ h \in Window
          BY <1>8, <1>10, <3>2 DEF Blanks, Live
        <4> QED BY <1>16, <4>1 DEF Spent
      <3> QED BY <3>1, <3>2
    <2> QED BY <1>2, <1>3, <1>4, <2>1, <2>2 DEF Spent
  <1>20. Stutters
    <2>1. /\ \A h \in Live' \ Live : CellNow(h)' = NoCell
          /\ \A h \in Live \cap Live' : SameListing(h)
          /\ Live \subseteq Live'
      BY <1>6, <1>8, <1>10 DEF SameListing
    <2> QED BY <1>4, <1>9, <1>19, <2>1, ListsKept DEF Stutters
  <1> QED BY <1>6, <1>14, <1>15, <1>17, <1>18, <1>20 DEF LogicInv

-----------------------------------------------------------------------------
(* A thread follows a tombstone, in the ring or in its slice, and merges   *)
(* two islands of its slice.                                               *)

LEMMA BatchIn ==
    ASSUME NEW t
    PROVE  /\ BatchOf(t) \subseteq DOMAIN at
           /\ \A u : u # t => BatchOf(t) \cap BatchOf(u) = {}
  BY DEF BatchOf, PacketsAt

LEMMA FollowKeeps ==
    ASSUME StoreInv, NEW t \in Threads, Follow(t)
    PROVE  LogicInv' /\ Stutters
PROOF
  <1>1. /\ TypeInv /\ PacketTypes /\ StoreTypes /\ RingInv /\ HoldingInv /\ Counted
        /\ ClonesInv /\ FreshInv
    BY DEF StoreInv, LogicInv, TypeInv
  <1>2. PICK P : Led(P)
    BY DEF StoreInv, LogicInv
  <1>3. PICK p \in BatchOf(t) : FollowMoved(t, p)
    BY DEF Follow
  <1>4. pc[t] = "wait" /\ UNCHANGED <<pc, at, generated, clones>>
    BY DEF Follow, nodeVars
  <1>5. p \in DOMAIN at /\ DOMAIN handle = DOMAIN at
    BY <1>1, <1>3, BatchIn DEF PacketTypes
  <1> PICK h : h = handle[p]
    OBVIOUS
  <1> DEFINE cell == CellNow(h)
  <1>6. h \in Window /\ h \in Live /\ h \in Handles
    BY <1>1, <1>2, <1>5, LedToLive
  <1>7. h = handle[p]
    OBVIOUS
  <1>8. /\ RingInv' /\ Window' = Window /\ slice' = slice
        /\ State(h) = "Moved" /\ IsTombstone(cell)
        /\ handle' = [handle EXCEPT ![p] = cell.dest]
        /\ \A g \in Window \ {h} : State(g)' = State(g) /\ CellNow(g)' = CellNow(g)
        /\ Exhausted(cell) => State(h)' = "Retired"
        /\ ~ Exhausted(cell) => /\ State(h)' = "Moved"
                                /\ CellNow(h)' = Tombstone(cell.ref - 1, cell.dest)
    BY <1>1, <1>3, <1>5, <1>6, <1>7, FollowEffect
  <1>9. end' = end
    BY <1>3 DEF FollowMoved
  <1>10. /\ Live' \subseteq Live /\ Live \ {h} \subseteq Live'
         /\ \A g \in Live \ {h} : State(g)' = State(g) /\ CellNow(g)' = CellNow(g)
         /\ h \in Live' => /\ ~ Exhausted(cell) /\ State(h)' = "Moved"
                           /\ CellNow(h)' = Tombstone(cell.ref - 1, cell.dest)
         /\ h \notin Live' => Exhausted(cell)
    BY <1>6, <1>8 DEF Live
  <1>11. Detected' = Detected /\ \A u \in Threads : BatchOf(u)' = BatchOf(u)
    BY <1>4 DEF Detected, BatchOf, PacketsAt
  <1>12. \A q \in DOMAIN at : q # p => handle'[q] = handle[q]
    BY <1>1, <1>8 DEF PacketTypes
  <1>13. Beside(t, {h})
    <2>1. ASSUME NEW u \in Threads \ {t}
          PROVE  /\ slice[u].held => slice[u].indices \cap {h} = {}
                 /\ DOMAIN clones[u] \cap {h} = {}
      <3>1. slice[u].held => \A g \in slice[u].indices : State(g) = "Locked"
        BY <1>1 DEF RingInv, SlicesInWindow, LockedIsHeld, Holders
      <3>2. \A g \in DOMAIN clones[u] : g \in Islands
        BY <1>1 DEF ClonesInv, CloneKept
      <3>3. h \notin Islands
        BY <1>8, Kinds DEF Islands
      <3> QED BY <1>8, <3>1, <3>2, <3>3
    <2>2. ASSUME NEW u \in Threads \ {t}
          PROVE  \A q \in BatchOf(u)' : q \in BatchOf(u) /\ handle'[q] = handle[q]
      <3>1. \A q \in BatchOf(u) : q \in DOMAIN at /\ q # p
        BY <1>3, BatchIn
      <3> QED BY <1>11, <1>12, <3>1
    <2> QED BY <1>4, <1>8, <1>10, <2>1, <2>2 DEF Beside
  <1>14. OwnPart(t, {h})
    <2>1. h \in Live' => StateFits(h)'
      BY <1>10, Kinds DEF StateFits
    <2>2. ~ slice[t].held /\ DOMAIN clones[t] = {}
      BY <1>1, <1>4 DEF HoldingInv, HolderAt, HoldingPlaces, ClonesInv, CloneKept, ClonePlaces
    <2>3. SliceFits(t)' /\ HolderAt(t)' /\ BatchHeld(t)'
      BY <1>4, <1>8, <2>2 DEF SliceFits, HolderAt, BatchHeld, HoldingPlaces
    <2>4. CloneKept(t)'
      BY <1>4, <2>2 DEF CloneKept
    <2> QED BY <1>4, <2>1, <2>2, <2>3, <2>4 DEF OwnPart
  <1>15. HoldingInv' /\ ClonesInv'
    BY <1>1, <1>13, <1>14, StepBeside
  <1>16. Counted'
    <2>1. \A g \in Islands' : g \in Islands /\ CellNow(g)' = CellNow(g)
      BY <1>10, Kinds DEF Islands
    <2> QED BY <1>1, <1>11, <2>1, CountedStays
  <1>17. FreshInv' /\ StaySpent
    <2>1. Blanks' \subseteq Blanks
      BY <1>10, Kinds DEF Blanks
    <2> QED BY <1>1, <1>4, <1>9, <2>1, FreshStays
  <1>18. \E Q : Led(Q)'
    <2>1. h \in Stones
      BY <1>6, <1>8 DEF Stones
    <2>2. cell.ref \in Int /\ cell.dest \in Handles
      BY <1>1, <2>1, StoneDest
    <2>3. Exhausted(cell) <=> cell.ref - 1 = 0
      BY DEF Exhausted
    <2>4. Redirects(p, h)
      BY <1>4, <1>7, <1>8, <1>10, <1>11, <2>1, <2>2, <2>3 DEF Redirects
    <2> QED BY <1>1, <1>2, <1>5, <2>4, LedOn
  <1>19. Stutters
    <2>1. \A g \in Live \cap Live' :
            SameListing(g) \/ (IsTombstone(CellNow(g)) /\ IsTombstone(CellNow(g)'))
      BY <1>8, <1>10, Kinds DEF SameListing
    <2>2. Live' \subseteq Live /\ \A g \in Live \ Live' : IsTombstone(CellNow(g))
      BY <1>8, <1>10
    <2> QED BY <1>4, <1>11, <1>17, <2>1, <2>2, ListsKept DEF Stutters
  <1> QED BY <1>8, <1>15, <1>16, <1>17, <1>18, <1>19 DEF LogicInv

\* A step on the cells of the thread's slice.
SliceStep(t) ==
    /\ slice[t].held
    /\ RingInv' /\ Window' = Window
    /\ \A h \in Window : State(h)' = State(h)
    /\ \A h \in Window \ slice[t].indices : CellNow(h)' = CellNow(h)
    /\ slice'[t].held /\ slice'[t].indices = slice[t].indices
    /\ \A u \in Threads \ {t} :
         /\ slice'[u] = slice[u] /\ pc'[u] = pc[u] /\ clones'[u] = clones[u]
         /\ \A p \in BatchOf(u)' : p \in BatchOf(u) /\ handle'[p] = handle[p]

LEMMA SliceBeside ==
    ASSUME RingInv, ClonesInv, NEW t \in Threads, SliceStep(t)
    PROVE  /\ Live' = Live /\ slice[t].indices \subseteq Live
           /\ \A h \in Live : State(h)' = State(h)
           /\ \A h \in slice[t].indices : State(h) = "Locked" /\ StateFits(h)'
           /\ Beside(t, slice[t].indices)
PROOF
  <1>1. /\ slice[t].held
        /\ RingInv' /\ Window' = Window
        /\ \A h \in Window : State(h)' = State(h)
        /\ \A h \in Window \ slice[t].indices : CellNow(h)' = CellNow(h)
        /\ \A u \in Threads \ {t} :
             /\ slice'[u] = slice[u] /\ pc'[u] = pc[u] /\ clones'[u] = clones[u]
             /\ \A p \in BatchOf(u)' : p \in BatchOf(u) /\ handle'[p] = handle[p]
    BY DEF SliceStep
  <1>2. Live' = Live /\ \A h \in Live : State(h)' = State(h)
    BY <1>1 DEF Live
  <1>3. slice[t].indices \subseteq Live
    BY <1>1, HeldIsLive
  <1>4. \A h \in slice[t].indices : State(h) = "Locked"
    BY <1>1 DEF RingInv, SlicesInWindow, LockedIsHeld, Holders
  <1>5. \A h \in slice[t].indices : StateFits(h)'
    BY <1>2, <1>3, <1>4 DEF StateFits
  <1>6. ASSUME NEW u \in Threads \ {t}
        PROVE  /\ slice[u].held => slice[u].indices \cap slice[t].indices = {}
               /\ DOMAIN clones[u] \cap slice[t].indices = {}
    BY <1>1, OwnCells
  <1>7. \A h \in Live \ slice[t].indices : CellNow(h)' = CellNow(h)
    BY <1>1 DEF Live
  <1>8. Beside(t, slice[t].indices)
    BY <1>1, <1>2, <1>6, <1>7 DEF Beside
  <1> QED BY <1>2, <1>3, <1>4, <1>5, <1>8

LEMMA CorrectKeeps ==
    ASSUME StoreInv, NEW t \in Threads, Correct(t)
    PROVE  LogicInv' /\ Stutters
PROOF
  <1>1. /\ TypeInv /\ PacketTypes /\ StoreTypes /\ SliceTypes /\ RingInv /\ HoldingInv /\ Counted
        /\ ClonesInv /\ FreshInv
    BY DEF StoreInv, LogicInv, TypeInv, StoreTypes
  <1>2. PICK P : Led(P)
    BY DEF StoreInv, LogicInv
  <1>3. PICK p \in BatchOf(t) : CorrectHandle(t, p)
    BY DEF Correct
  <1>4. pc[t] = "work" /\ UNCHANGED <<pc, at, generated, clones>>
    BY DEF Correct, nodeVars
  <1>5. p \in DOMAIN at /\ DOMAIN handle = DOMAIN at
    BY <1>1, <1>3, BatchIn DEF PacketTypes
  <1> PICK h : h = handle[p]
    OBVIOUS
  <1> DEFINE cell == CellNow(h)
  <1>6. /\ SliceFits(t) /\ slice[t].held /\ h \in slice[t].indices
        /\ \A q \in BatchOf(t) : handle[q] \in slice[t].indices
    BY <1>1, <1>3, <1>4 DEF HoldingInv, HolderAt, BatchHeld, HoldingPlaces
  <1>7. h = handle[p]
    OBVIOUS
  <1>8. /\ RingInv' /\ Window' = Window
        /\ IsTombstone(cell) /\ handle' = [handle EXCEPT ![p] = cell.dest]
        /\ slice' = [slice EXCEPT ![t].moved = @ \cup {h}]
        /\ \A g \in Window : State(g)' = State(g)
        /\ \A g \in Window \ {h} : CellNow(g)' = CellNow(g)
        /\ CellNow(h)' = Tombstone(cell.ref - 1, cell.dest)
    BY <1>1, <1>3, <1>5, <1>6, <1>7, CorrectEffect
  <1>9. end' = end
    BY <1>3 DEF CorrectHandle
  <1>10. h \in slice[t].moved /\ cell.dest \in slice[t].indices
    BY <1>6, <1>8 DEF SliceFits
  <1>11. /\ slice'[t].held /\ slice'[t].indices = slice[t].indices /\ slice'[t].moved = slice[t].moved
         /\ \A u \in Threads \ {t} : slice'[u] = slice[u]
    BY <1>1, <1>6, <1>8, <1>10 DEF SliceTypes
  <1>12. Detected' = Detected /\ \A u \in Threads : BatchOf(u)' = BatchOf(u)
    BY <1>4 DEF Detected, BatchOf, PacketsAt
  <1>13. \A q \in DOMAIN at : handle'[q] = IF q = p THEN cell.dest ELSE handle[q]
    BY <1>1, <1>8 DEF PacketTypes
  <1>14. SliceStep(t)
    <2>1. ASSUME NEW u \in Threads \ {t}
          PROVE  \A q \in BatchOf(u)' : q \in BatchOf(u) /\ handle'[q] = handle[q]
      <3>1. \A q \in BatchOf(u) : q \in DOMAIN at /\ q # p
        BY <1>3, BatchIn
      <3> QED BY <1>12, <1>13, <3>1
    <2> QED BY <1>4, <1>6, <1>8, <1>11, <2>1 DEF SliceStep
  <1>15. /\ Live' = Live /\ slice[t].indices \subseteq Live
         /\ \A g \in Live : State(g)' = State(g)
         /\ \A g \in slice[t].indices : State(g) = "Locked" /\ StateFits(g)'
         /\ Beside(t, slice[t].indices)
    BY <1>1, <1>14, SliceBeside
  <1>16. \A g \in Live \ {h} : CellNow(g)' = CellNow(g)
    BY <1>8 DEF Live
  <1>17. OwnPart(t, slice[t].indices)
    <2>1. SliceFits(t)'
      <3> SUFFICES ASSUME NEW g \in slice[t].indices
                   PROVE  /\ IsTombstone(CellNow(g)') <=> g \in slice[t].moved
                          /\ CellNow(g)' = NoCell <=> pc[t] = "populate"
                          /\ IsTombstone(CellNow(g)') => CellNow(g)'.dest \in slice[t].indices
        BY <1>4, <1>11 DEF SliceFits
      <3>1. CASE g = h
        BY <1>4, <1>8, <1>10, <3>1, Kinds
      <3>2. CASE g # h
        <4>1. CellNow(g)' = CellNow(g)
          BY <1>15, <1>16, <3>2
        <4> QED BY <1>6, <4>1 DEF SliceFits
      <3> QED BY <3>1, <3>2
    <2>2. HolderAt(t)'
      BY <1>4, <1>11 DEF HolderAt, HoldingPlaces
    <2>3. BatchHeld(t)'
      <3>1. \A q \in BatchOf(t) : handle'[q] \in slice[t].indices
        BY <1>6, <1>10, <1>13, BatchIn
      <3> QED BY <1>11, <1>12, <3>1 DEF BatchHeld
    <2>4. DOMAIN clones[t] = {}
      BY <1>1, <1>4 DEF ClonesInv, CloneKept, ClonePlaces
    <2>5. CloneKept(t)'
      BY <1>4, <2>4 DEF CloneKept
    <2> QED BY <1>4, <1>15, <2>1, <2>2, <2>3, <2>4, <2>5 DEF OwnPart
  <1>18. HoldingInv' /\ ClonesInv'
    BY <1>1, <1>15, <1>17, StepBeside
  <1>19. Counted'
    <2>1. \A g \in Islands' : g \in Islands /\ CellNow(g)' = CellNow(g)
      BY <1>8, <1>15, <1>16, Kinds DEF Islands
    <2> QED BY <1>1, <1>12, <2>1, CountedStays
  <1>20. FreshInv' /\ StaySpent
    <2>1. Blanks' \subseteq Blanks
      BY <1>8, <1>15, <1>16, Kinds DEF Blanks
    <2> QED BY <1>1, <1>4, <1>9, <2>1, FreshStays
  <1>21. \E Q : Led(Q)'
    <2>1. h \in Stones
      BY <1>6, <1>8, <1>15 DEF Stones
    <2>2. cell.ref \in Int /\ cell.dest \in Handles
      BY <1>1, <2>1, StoneDest
    <2>3. h \in Live' /\ State(h)' # "Moved"
      BY <1>6, <1>15
    <2>4. Redirects(p, h)
      BY <1>4, <1>7, <1>8, <1>12, <1>15, <1>16, <2>1, <2>2, <2>3 DEF Redirects
    <2> QED BY <1>1, <1>2, <1>5, <2>4, LedOn
  <1>22. Stutters
    <2>1. \A g \in Live :
            SameListing(g) \/ (IsTombstone(CellNow(g)) /\ IsTombstone(CellNow(g)'))
      BY <1>8, <1>16, Kinds DEF SameListing
    <2> QED BY <1>4, <1>12, <1>15, <1>20, <2>1, ListsKept DEF Stutters
  <1> QED BY <1>8, <1>18, <1>19, <1>20, <1>21, <1>22 DEF LogicInv

Parts(C, A, B) == IsFiniteSet(A) /\ IsFiniteSet(B) /\ A \cap B = {} /\ C = A \cup B

Common(A, D) == Cardinality(A \cap D)

LEMMA CountParts ==
    ASSUME NEW A, NEW B, NEW C, NEW D, Parts(C, A, B)
    PROVE  Common(C, D) = Common(A, D) + Common(B, D)
PROOF
  <1>1. IsFiniteSet(A \cap D) /\ IsFiniteSet(B \cap D)
    BY FS_Intersection DEF Parts
  <1>2. /\ (A \cap D) \cap (B \cap D) = {}
        /\ C \cap D = (A \cap D) \cup (B \cap D)
    BY DEF Parts
  <1>3. Cardinality((A \cap D) \cap (B \cap D)) = 0
    BY <1>2, FS_EmptySet
  <1>4. Cardinality((A \cap D) \cup (B \cap D))
          = Cardinality(A \cap D) + Cardinality(B \cap D) - Cardinality((A \cap D) \cap (B \cap D))
    BY <1>1, FS_Union
  <1>5. Cardinality(A \cap D) \in Nat /\ Cardinality(B \cap D) \in Nat
    BY <1>1, FS_CardinalityType
  <1>6. Cardinality(C \cap D) = Cardinality((A \cap D) \cup (B \cap D))
    BY <1>2, Zenon
  <1>7. \A m, n \in Nat : m + n - 0 = m + n
    OBVIOUS
  <1> QED BY <1>3, <1>4, <1>5, <1>6, <1>7 DEF Common

LEMMA CountApart ==
    ASSUME NEW A, NEW B, NEW D, IsFiniteSet(A), D \cap B = {}
    PROVE  Cardinality(A \cap (D \cup B)) = Cardinality(A \cap D) + Cardinality(A \cap B)
PROOF
  <1>1. IsFiniteSet(A \cap D) /\ IsFiniteSet(A \cap B)
    BY FS_Intersection
  <1>2. /\ (A \cap D) \cap (A \cap B) = {}
        /\ A \cap (D \cup B) = (A \cap D) \cup (A \cap B)
    OBVIOUS
  <1>3. Cardinality((A \cap D) \cap (A \cap B)) = 0
    BY <1>2, FS_EmptySet
  <1>4. Cardinality((A \cap D) \cup (A \cap B))
          = Cardinality(A \cap D) + Cardinality(A \cap B) - Cardinality((A \cap D) \cap (A \cap B))
    BY <1>1, FS_Union
  <1>5. Cardinality(A \cap D) \in Nat /\ Cardinality(A \cap B) \in Nat
    BY <1>1, FS_CardinalityType
  <1>6. Cardinality(A \cap (D \cup B)) = Cardinality((A \cap D) \cup (A \cap B))
    BY <1>2, Zenon
  <1>7. \A m, n \in Nat : m + n - 0 = m + n
    OBVIOUS
  <1> QED BY <1>3, <1>4, <1>5, <1>6, <1>7

LEMMA LiveIslands ==
    ASSUME TypeInv, RingInv, NEW h \in Islands
    PROVE  /\ h \in Live /\ h \in Window /\ h \in Handles /\ h \notin Stones
           /\ CellNow(h) \in Cells /\ IsIsland(CellNow(h))
           /\ IsFiniteSet(CellNow(h).active) /\ CellNow(h).done \in Nat
PROOF
  <1>1. h \in Live /\ h \in Window /\ h \in Handles /\ IsIsland(CellNow(h))
    BY LiveHandles DEF Islands, Live
  <1>2. CellNow(h) \in Cells
    BY <1>1, CellNowType DEF TypeInv
  <1> QED BY <1>1, <1>2, CellFields, Kinds DEF Stones

LEMMA MergeKeeps ==
    ASSUME StoreInv, NEW t \in Threads, Merge(t)
    PROVE  LogicInv' /\ \E d, r : Joins(d, r)
PROOF
  <1>1. /\ TypeInv /\ PacketTypes /\ StoreTypes /\ SliceTypes /\ RingInv /\ HoldingInv /\ Counted
        /\ ClonesInv /\ FreshInv
    BY DEF StoreInv, LogicInv, TypeInv, StoreTypes
  <1>2. PICK P : Led(P)
    BY DEF StoreInv, LogicInv
  <1>3. PICK early \in BatchOf(t), late \in BatchOf(t) :
          handle[early] # handle[late] /\ MergeIslands(t, handle[late], handle[early])
    BY DEF Merge
  <1>4. pc[t] = "work" /\ UNCHANGED <<pc, at, generated, clones>>
    BY DEF Merge, nodeVars
  <1> PICK d, r : d = handle[late] /\ r = handle[early]
    OBVIOUS
  <1>5. /\ SliceFits(t) /\ slice[t].held /\ d \in slice[t].indices /\ r \in slice[t].indices
        /\ \A q \in BatchOf(t) : handle[q] \in slice[t].indices
    BY <1>1, <1>3, <1>4 DEF HoldingInv, HolderAt, BatchHeld, HoldingPlaces
  <1>6. d # r /\ MergeIslands(t, d, r)
    BY <1>3
  <1>7. /\ RingInv' /\ Window' = Window
        /\ handle' = handle
        /\ IsIsland(CellNow(d)) /\ IsIsland(CellNow(r))
        /\ slice' = [slice EXCEPT ![t].moved = @ \cup {d}]
        /\ \A g \in Window : State(g)' = State(g)
        /\ \A g \in Window \ {d, r} : CellNow(g)' = CellNow(g)
        /\ CellNow(d)' = Tombstone(RedirectCount(CellNow(d)), r)
        /\ CellNow(r)' = Island(CellNow(r).active \cup CellNow(d).active,
                                CellNow(r).done + CellNow(d).done)
    BY <1>1, <1>5, <1>6, MergeEffect
  <1>8. end' = end
    BY <1>6 DEF MergeIslands
  <1>9. /\ slice'[t].held /\ slice'[t].indices = slice[t].indices
        /\ slice'[t].moved = slice[t].moved \cup {d}
        /\ \A u \in Threads \ {t} : slice'[u] = slice[u]
    BY <1>1, <1>5, <1>7 DEF SliceTypes
  <1>10. Detected' = Detected /\ \A u \in Threads : BatchOf(u)' = BatchOf(u)
    BY <1>4 DEF Detected, BatchOf, PacketsAt
  <1>11. SliceStep(t)
    <2>1. \A g \in Window \ slice[t].indices : CellNow(g)' = CellNow(g)
      BY <1>5, <1>7
    <2> QED BY <1>4, <1>5, <1>7, <1>9, <1>10, <2>1 DEF SliceStep
  <1>12. /\ Live' = Live /\ slice[t].indices \subseteq Live
         /\ \A g \in Live : State(g)' = State(g)
         /\ \A g \in slice[t].indices : State(g) = "Locked" /\ StateFits(g)'
         /\ Beside(t, slice[t].indices)
    BY <1>1, <1>11, SliceBeside
  <1>13. \A g \in Live \ {d, r} : CellNow(g)' = CellNow(g)
    BY <1>7 DEF Live
  <1>14. /\ IsTombstone(CellNow(d)') /\ CellNow(d)'.dest = r
         /\ IsIsland(CellNow(r)')
         /\ CellNow(r)'.active = CellNow(r).active \cup CellNow(d).active
         /\ CellNow(r)'.done = CellNow(r).done + CellNow(d).done
    BY <1>7, Kinds
  <1>15. d \in Islands /\ r \in Islands
    BY <1>5, <1>7, <1>12 DEF Islands
  <1>16. OwnPart(t, slice[t].indices)
    <2>1. SliceFits(t)'
      <3> SUFFICES ASSUME NEW g \in slice[t].indices
                   PROVE  /\ IsTombstone(CellNow(g)') <=> g \in slice[t].moved \cup {d}
                          /\ CellNow(g)' = NoCell <=> pc[t] = "populate"
                          /\ IsTombstone(CellNow(g)') => CellNow(g)'.dest \in slice[t].indices
        BY <1>4, <1>9 DEF SliceFits
      <3>1. CASE g = d
        BY <1>4, <1>5, <1>14, <3>1, Kinds
      <3>2. CASE g = r
        <4>1. g \notin slice[t].moved
          BY <1>5, <1>7, <3>2, Kinds DEF SliceFits
        <4> QED BY <1>4, <1>6, <1>14, <3>2, <4>1, Kinds
      <3>3. CASE g # d /\ g # r
        <4>1. CellNow(g)' = CellNow(g)
          BY <1>12, <1>13, <3>3
        <4> QED BY <1>5, <3>3, <4>1 DEF SliceFits
      <3> QED BY <3>1, <3>2, <3>3
    <2>2. HolderAt(t)' /\ BatchHeld(t)'
      BY <1>4, <1>5, <1>7, <1>9, <1>10 DEF HolderAt, HoldingPlaces, BatchHeld
    <2>3. DOMAIN clones[t] = {}
      BY <1>1, <1>4 DEF ClonesInv, CloneKept, ClonePlaces
    <2>4. CloneKept(t)'
      BY <1>4, <2>3 DEF CloneKept
    <2> QED BY <1>4, <1>12, <2>1, <2>2, <2>3, <2>4 DEF OwnPart
  <1>17. HoldingInv' /\ ClonesInv'
    BY <1>1, <1>12, <1>16, StepBeside
  <1>18. Counted'
    <2>1. CellNow(r)'.done = Cardinality(CellNow(r)'.active \cap Detected)
      <3> PICK A, B, C : A = CellNow(r).active /\ B = CellNow(d).active /\ C = A \cup B
        OBVIOUS
      <3>1. IsFiniteSet(A) /\ IsFiniteSet(B) /\ d \notin Stones /\ r \notin Stones
            /\ d \in Live /\ r \in Live
        BY <1>1, <1>15, LiveIslands
      <3>2. P[r] = A /\ P[d] = B
        BY <1>2, <1>15 DEF Led, IslandsList
      <3>3. A \cap B = {}
        BY <1>2, <1>6, <3>1, <3>2 DEF Led, OneEnd
      <3>4. CellNow(r).done = Cardinality(A \cap Detected) /\ CellNow(d).done = Cardinality(B \cap Detected)
        BY <1>1, <1>15 DEF Counted
      <3>5. Parts(C, A, B)
        BY <3>1, <3>3 DEF Parts
      <3>6. Common(C, Detected) = Common(A, Detected) + Common(B, Detected)
        BY <3>5, CountParts
      <3> QED BY <1>14, <3>4, <3>6 DEF Common
    <2>2. ASSUME NEW g \in Islands', g # r PROVE g \in Islands /\ CellNow(g)' = CellNow(g)
      <3>1. g # d /\ g \in Live
        BY <1>12, <1>14, <2>2, Kinds DEF Islands
      <3> QED BY <1>13, <2>2, <3>1 DEF Islands
    <2> QED BY <1>1, <1>10, <2>1, <2>2, CountedStays
  <1>19. FreshInv' /\ StaySpent
    <2>1. Blanks' \subseteq Blanks
      BY <1>12, <1>13, <1>14, Kinds DEF Blanks
    <2> QED BY <1>1, <1>4, <1>8, <2>1, FreshStays
  <1>20. \E Q : Led(Q)'
    <2>1. Merges(d, r)
      BY <1>4, <1>6, <1>7, <1>10, <1>12, <1>13, <1>14, <1>15 DEF Merges
    <2> QED BY <1>1, <1>2, <2>1, LedTogether
  <1>21. Joins(d, r)
    <2>1. Islands' = Islands \ {d} /\ Results' = Results
      <3>1. ASSUME NEW g \in Live
            PROVE  /\ IsIsland(CellNow(g)') => IsIsland(CellNow(g)) /\ g # d
                   /\ IsIsland(CellNow(g)) /\ g # d => IsIsland(CellNow(g)')
                   /\ IsResult(CellNow(g)') => IsResult(CellNow(g))
                   /\ IsResult(CellNow(g)) => IsResult(CellNow(g)')
        BY <1>7, <1>13, <1>14, Kinds
      <3> QED BY <1>12, <3>1 DEF Islands, Results
    <2>2. d \notin Results /\ r \notin Results
      BY <1>7, Kinds DEF Results
    <2>3. \A g \in (Islands \cup Results) \ {d, r} : CellNow(g)' = CellNow(g)
      BY <1>13 DEF Islands, Results
    <2>4. SameLists((Islands \cup Results) \ {d, r})
      BY <2>1, <2>3 DEF SameLists, Lists
    <2>5. Lists(r)' = Lists(r) \cup Lists(d)
      BY <1>6, <1>14, <1>15, <2>1 DEF Lists
    <2> QED BY <1>4, <1>6, <1>10, <1>15, <1>19, <2>1, <2>4, <2>5 DEF Joins
  <1> QED BY <1>7, <1>17, <1>18, <1>19, <1>20, <1>21 DEF LogicInv

-----------------------------------------------------------------------------
(* A detector counts the packets of its batch and publishes the results of *)
(* the islands that are complete.                                          *)

\* Where the packets of the batch are that an island lists.
LEMMA BatchListed ==
    ASSUME TypeInv, RingInv, NEW P, Led(P), NEW t, NEW h \in Handles,
           \A p \in BatchOf(t) : handle[p] \notin Stones
    PROVE  P[h] \cap BatchOf(t) = Here(t, h)
PROOF
  <1>1. \A p \in BatchOf(t) : p \in DOMAIN at /\ handle[p] \in Handles /\ p \in P[handle[p]]
    BY BatchIn, LedToLive
  <1>2. ASSUME NEW p \in P[h] \cap BatchOf(t) PROVE p \in Here(t, h)
    <2>1. h = handle[p]
      BY <1>1, Arrived
    <2> QED BY <2>1 DEF Here
  <1>3. ASSUME NEW p \in Here(t, h) PROVE p \in P[h] \cap BatchOf(t)
    BY <1>1 DEF Here
  <1> QED BY <1>2, <1>3

LEMMA TerminateKeeps ==
    ASSUME StoreInv, NEW t \in Threads, Terminate(t)
    PROVE  LogicInv' /\ Detects(BatchOf(t))
PROOF
  <1>1. /\ TypeInv /\ NodeTypes /\ PacketTypes /\ StoreTypes /\ RingInv /\ HoldingInv /\ Counted
        /\ ClonesInv /\ FreshInv
    BY DEF StoreInv, LogicInv, TypeInv, StoreTypes
  <1>2. PICK P : Led(P)
    BY DEF StoreInv, LogicInv
  <1>3. /\ t \in Detectors /\ t \in Getters
        /\ at' = [p \in DOMAIN at |->
                    IF p \in BatchOf(t) THEN [at[p] EXCEPT !.box = "detected"] ELSE at[p]]
        /\ UNCHANGED <<handle, generated>>
    BY RolesApart DEF Terminate
  <1>4. pc[t] = "work" /\ pc'[t] = "worked" /\ \A u \in Threads \ {t} : pc'[u] = pc[u]
    BY <1>1, GotoIs DEF Terminate
  <1>5. SliceFits(t) /\ slice[t].held /\ DOMAIN clones = Threads
    BY <1>1, <1>4 DEF HoldingInv, HolderAt, HoldingPlaces, NodeTypes
  <1>6. /\ RingInv' /\ Window' = Window /\ slice' = slice
        /\ \A p \in BatchOf(t) : /\ handle[p] \in slice[t].indices
                                 /\ p \in CellNow(handle[p]).active
        /\ \A h \in slice[t].indices :
             /\ IsIsland(CellNow(h))
             /\ CellNow(h)' = Island(CellNow(h).active,
                                     CellNow(h).done + Cardinality(Here(t, h)))
        /\ \A h \in Window : State(h)' = State(h)
        /\ \A h \in Window \ slice[t].indices : CellNow(h)' = CellNow(h)
        /\ \A u \in Threads \ {t} : clones'[u] = clones[u]
        /\ DOMAIN clones'[t] = {h \in slice[t].indices : IsCollapseReady(CellNow(h)')}
        /\ \A h \in DOMAIN clones'[t] : clones'[t][h] = CellNow(h)'
    BY <1>1, <1>5, TerminateEffect
  <1>7. end' = end
    BY DEF Terminate, SetCells
  <1>8. DOMAIN at' = DOMAIN at
        /\ \A p \in DOMAIN at : IF p \in BatchOf(t) THEN /\ at[p].node = t /\ at'[p].node = t
                                                         /\ at'[p].box = "detected"
                                ELSE at'[p] = at[p]
    BY <1>1, <1>3 DEF BatchOf, PacketsAt, PacketTypes
  <1>9. Detected' = Detected \cup BatchOf(t)
    BY <1>8, BatchIn DEF Detected
  <1>10. \A u \in Threads \ {t} : BatchOf(u)' \subseteq BatchOf(u)
    BY <1>8 DEF BatchOf, PacketsAt
  <1>11. SliceStep(t)
    BY <1>3, <1>4, <1>5, <1>6, <1>10 DEF SliceStep
  <1>12. /\ Live' = Live /\ slice[t].indices \subseteq Live
         /\ \A g \in Live : State(g)' = State(g)
         /\ \A g \in slice[t].indices : State(g) = "Locked" /\ StateFits(g)'
         /\ Beside(t, slice[t].indices)
    BY <1>1, <1>11, SliceBeside
  <1>13. \A h \in slice[t].indices : /\ IsIsland(CellNow(h)')
                                     /\ CellNow(h)'.active = CellNow(h).active
                                     /\ CellNow(h)'.done = CellNow(h).done + Cardinality(Here(t, h))
    BY <1>6, Kinds
  <1>14. \A h \in Live \ slice[t].indices : CellNow(h)' = CellNow(h)
    BY <1>6 DEF Live
  <1>15. OwnPart(t, slice[t].indices)
    <2>1. SliceFits(t)'
      BY <1>4, <1>5, <1>6, <1>13, Kinds DEF SliceFits
    <2>2. HolderAt(t)' /\ BatchHeld(t)'
      BY <1>4, <1>5, <1>6 DEF HolderAt, BatchHeld, HoldingPlaces
    <2>3. CloneKept(t)'
      <3>1. \A h \in DOMAIN clones'[t] : h \in Islands' /\ h \in slice[t].indices
        BY <1>6, <1>12, <1>13 DEF Islands
      <3> QED BY <1>3, <1>4, <1>5, <1>6, <3>1 DEF CloneKept, ClonePlaces, IsCollapseReady
    <2> QED BY <1>6, <1>12, <2>1, <2>2, <2>3 DEF OwnPart
  <1>16. HoldingInv' /\ ClonesInv'
    BY <1>1, <1>12, <1>15, StepBeside
  <1>17. \A p \in BatchOf(t) : handle[p] \notin Stones
    BY <1>6, Kinds DEF Stones
  <1>18. Counted'
    <2> SUFFICES ASSUME NEW h \in Islands'
                 PROVE  CellNow(h)'.done = Cardinality(CellNow(h)'.active \cap Detected')
      BY DEF Counted
    <2>1. h \in Islands /\ CellNow(h)'.active = CellNow(h).active
      BY <1>6, <1>12, <1>13, <1>14 DEF Islands
    <2> DEFINE A == CellNow(h).active
    <2>2. h \in Handles /\ IsFiniteSet(A) /\ CellNow(h).done \in Nat
      BY <1>1, <2>1, LiveIslands
    <2>3. A \cap BatchOf(t) = Here(t, h)
      <3>1. P[h] = A
        BY <1>2, <2>1 DEF Led, IslandsList
      <3> QED BY <1>1, <1>2, <1>17, <2>2, <3>1, BatchListed
    <2>4. CellNow(h).done = Cardinality(A \cap Detected)
      BY <1>1, <2>1 DEF Counted
    <2> HIDE DEF A
    <2>5. Cardinality(A \cap Detected') = Cardinality(A \cap Detected) + Cardinality(Here(t, h))
      <3>1. Detected \cap BatchOf(t) = {}
        BY <1>3, BatchWaits
      <3>2. Cardinality(A \cap (Detected \cup BatchOf(t)))
              = Cardinality(A \cap Detected) + Cardinality(A \cap BatchOf(t))
        BY <2>2, <3>1, CountApart
      <3> QED BY <1>9, <2>3, <3>2
    <2>6. CASE h \in slice[t].indices
      BY <1>13, <2>1, <2>4, <2>5, <2>6 DEF A
    <2>7. CASE h \notin slice[t].indices
      <3>1. Here(t, h) = {}
        BY <1>6, <2>7 DEF Here
      <3>2. CellNow(h)' = CellNow(h)
        BY <1>14, <2>1, <2>7 DEF Islands
      <3>3. Cardinality(Here(t, h)) = 0
        BY <3>1, FS_EmptySet
      <3> QED BY <2>1, <2>2, <2>4, <2>5, <3>2, <3>3 DEF A
    <2> QED BY <2>6, <2>7
  <1>19. FreshInv' /\ StaySpent
    <2>1. Blanks' \subseteq Blanks
      BY <1>12, <1>13, <1>14, Kinds DEF Blanks
    <2> QED BY <1>1, <1>3, <1>7, <1>8, <2>1, FreshStays
  <1>20. \E Q : Led(Q)'
    <2>1. \A g \in Live : SameListing(g)
      BY <1>6, <1>13, <1>14 DEF SameListing
    <2>2. SameWays(P)
      BY <1>3, <1>8, <1>9, <1>12, <2>1, LiveHandles DEF SameWays
    <2> QED BY <1>2, <2>2, LedStays
  <1>21. Detects(BatchOf(t))
    <2>1. \A g \in Live : SameListing(g)
      BY <1>6, <1>13, <1>14 DEF SameListing
    <2>2. Islands' = Islands /\ Results' = Results /\ SameLists(Islands \cup Results)
      BY <1>12, <2>1, ListsKept
    <2> QED BY <1>3, <1>8, <1>9, <1>19, <2>2, BatchIn, BatchWaits DEF Detects
  <1> QED BY <1>6, <1>16, <1>18, <1>19, <1>20, <1>21 DEF LogicInv

LEMMA PublishKeeps ==
    ASSUME StoreInv, NEW t \in Threads, Publish(t)
    PROVE  LogicInv' /\ Measures(DOMAIN clones[t])
PROOF
  <1>1. /\ TypeInv /\ NodeTypes /\ PacketTypes /\ StoreTypes /\ RingInv /\ HoldingInv /\ Counted
        /\ ClonesInv /\ FreshInv
    BY DEF StoreInv, LogicInv, TypeInv, StoreTypes
  <1>2. PICK P : Led(P)
    BY DEF StoreInv, LogicInv
  <1>3. /\ clones' = [clones EXCEPT ![t] = [h \in {} |-> NoCell]]
        /\ UNCHANGED <<handle, at, generated>>
    BY DEF Publish
  <1>4. pc[t] = "publish" /\ pc'[t] = "published" /\ \A u \in Threads \ {t} : pc'[u] = pc[u]
    BY <1>1, GotoIs DEF Publish
  <1>5. SliceFits(t) /\ slice[t].held /\ CloneKept(t) /\ DOMAIN clones = Threads
    BY <1>1, <1>4 DEF HoldingInv, HolderAt, HoldingPlaces, NodeTypes, ClonesInv
  <1>6. DOMAIN clones'[t] = {} /\ \A u \in Threads \ {t} : clones'[u] = clones[u]
    BY <1>3, <1>5
  <1> PICK hs : hs = DOMAIN clones[t]
    OBVIOUS
  <1>7. /\ RingInv' /\ Window' = Window /\ slice' = slice
        /\ hs \subseteq slice[t].indices
        /\ \A h \in Window : State(h)' = State(h)
        /\ \A h \in Window \ hs : CellNow(h)' = CellNow(h)
        /\ \A h \in hs : CellNow(h)' = Collapse(clones[t][h].active)
    BY <1>1, <1>5, PublishEffect
  <1>8. end' = end
    BY DEF Publish, SetCells
  <1>9. Detected' = Detected /\ \A u \in Threads : BatchOf(u)' = BatchOf(u)
    BY <1>3 DEF Detected, BatchOf, PacketsAt
  <1>10. SliceStep(t)
    BY <1>3, <1>4, <1>5, <1>6, <1>7, <1>9 DEF SliceStep
  <1>11. /\ Live' = Live /\ slice[t].indices \subseteq Live
         /\ \A g \in Live : State(g)' = State(g)
         /\ \A g \in slice[t].indices : State(g) = "Locked" /\ StateFits(g)'
         /\ Beside(t, slice[t].indices)
    BY <1>1, <1>10, SliceBeside
  <1>12. \A h \in hs : /\ h \in Islands /\ h \notin Stones /\ h \in Handles
                       /\ IsCollapseReady(CellNow(h))
                       /\ IsResult(CellNow(h)')
                       /\ CellNow(h)'.packets = CellNow(h).active
                       /\ CellNow(h)'.ref = Cardinality(CellNow(h).active)
    <2>1. ASSUME NEW h \in hs
          PROVE  h \in Islands /\ CellNow(h) = clones[t][h] /\ IsCollapseReady(CellNow(h))
      BY <1>5 DEF CloneKept
    <2>2. ASSUME NEW h \in hs PROVE h \notin Stones /\ h \in Handles
      BY <1>1, <2>1, LiveIslands
    <2> QED BY <1>7, <2>1, <2>2, Kinds DEF Collapse
  <1>13. \A h \in Live \ hs : CellNow(h)' = CellNow(h)
    BY <1>7 DEF Live
  <1>14. \A h \in hs : ~ IsTombstone(CellNow(h)') /\ ~ IsIsland(CellNow(h)') /\ CellNow(h)' # NoCell
    BY <1>12, Kinds
  <1>15. OwnPart(t, slice[t].indices)
    <2>1. SliceFits(t)'
      <3> SUFFICES ASSUME NEW g \in slice[t].indices
                   PROVE  /\ IsTombstone(CellNow(g)') <=> g \in slice[t].moved
                          /\ CellNow(g)' = NoCell <=> pc'[t] = "populate"
                          /\ IsTombstone(CellNow(g)') => CellNow(g)'.dest \in slice[t].indices
        BY <1>7 DEF SliceFits
      <3>1. CASE g \in hs
        <4>1. ~ IsTombstone(CellNow(g))
          BY <1>12, <3>1, Kinds DEF Islands
        <4>2. g \notin slice[t].moved
          BY <1>5, <4>1 DEF SliceFits
        <4> QED BY <1>4, <1>14, <3>1, <4>2
      <3>2. CASE g \notin hs
        <4>1. CellNow(g)' = CellNow(g)
          BY <1>11, <1>13, <3>2
        <4> QED BY <1>4, <1>5, <4>1 DEF SliceFits
      <3> QED BY <3>1, <3>2
    <2>2. HolderAt(t)' /\ BatchHeld(t)'
      BY <1>4, <1>5, <1>7 DEF HolderAt, BatchHeld, HoldingPlaces
    <2>3. CloneKept(t)'
      BY <1>6 DEF CloneKept
    <2> QED BY <1>6, <1>11, <2>1, <2>2, <2>3 DEF OwnPart
  <1>16. HoldingInv' /\ ClonesInv'
    BY <1>1, <1>11, <1>15, StepBeside
  <1>17. Counted'
    <2>1. \A g \in Islands' : g \in Islands /\ CellNow(g)' = CellNow(g)
      BY <1>11, <1>13, <1>14 DEF Islands
    <2> QED BY <1>1, <1>9, <2>1, CountedStays
  <1>18. FreshInv' /\ StaySpent
    <2>1. Blanks' \subseteq Blanks
      BY <1>11, <1>13, <1>14 DEF Blanks
    <2> QED BY <1>1, <1>3, <1>8, <2>1, FreshStays
  <1>19. \E Q : Led(Q)'
    <2>1. \A g \in Live : Passing(P, {}, {}, g) = P[g]
      BY DEF Passing
    <2>2. \A g \in hs : /\ P[g] = CellNow(g).active /\ P[g] # {} /\ P[g] \subseteq Detected
      BY <1>1, <1>2, <1>12, CompleteIsDetected DEF Led, IslandsList
    <2>3. ASSUME NEW g \in Stones
          PROVE  g \in Live' /\ CellNow(g)' = CellNow(g) /\ State(g)' = State(g)
      BY <1>11, <1>12, <1>13 DEF Stones
    <2>4. ASSUME NEW g \in Live' \ Stones
          PROVE  /\ ~ IsTombstone(CellNow(g)')
                 /\ IsIsland(CellNow(g)') => CellNow(g)'.active = P[g] /\ P[g] # {}
                 /\ IsResult(CellNow(g)') =>
                      /\ CellNow(g)'.ref = Cardinality(P[g]) /\ P[g] # {}
                      /\ P[g] \subseteq CellNow(g)'.packets \cap Detected'
                 /\ CellNow(g)' = NoCell => P[g] = {}
      <3>1. CASE g \in hs
        BY <1>9, <1>12, <1>14, <2>2, <3>1
      <3>2. CASE g \notin hs
        <4>1. CellNow(g)' = CellNow(g) /\ g \in Live /\ ~ IsTombstone(CellNow(g))
          BY <1>11, <1>13, <3>2 DEF Stones
        <4>2. /\ IslandsList(P) /\ ResultsList(P) /\ BlanksEmpty(P)
          BY <1>2 DEF Led
        <4> QED BY <1>9, <4>1, <4>2 DEF IslandsList, ResultsList, BlanksEmpty, Islands, Results, Blanks
      <3> QED BY <3>1, <3>2
    <2>5. Replaces(P, {}, {})
      BY <1>3, <1>11, <2>1, <2>3, <2>4 DEF Replaces
    <2> QED BY <1>1, <1>2, <2>5, LedAnew
  <1>20. Measures(hs)
    <2>1. ASSUME NEW g \in Live
          PROVE  /\ IsIsland(CellNow(g)') => IsIsland(CellNow(g)) /\ g \notin hs
                 /\ IsIsland(CellNow(g)) /\ g \notin hs => IsIsland(CellNow(g)')
                 /\ IsResult(CellNow(g)') => IsResult(CellNow(g)) \/ g \in hs
                 /\ IsResult(CellNow(g)) \/ g \in hs => IsResult(CellNow(g)')
      BY <1>12, <1>13, <1>14, Kinds
    <2>2. Islands' = Islands \ hs /\ Results' = Results \cup hs
      BY <1>11, <1>12, <2>1 DEF Islands, Results
    <2>3. \A g \in hs : g \notin Results /\ g \in Islands /\ CellNow(g)'.packets = CellNow(g).active
      BY <1>12, Kinds DEF Islands, Results
    <2>4. \A g \in (Islands \cup Results) \ hs : CellNow(g)' = CellNow(g)
      BY <1>13 DEF Islands, Results
    <2>5. \A g \in Islands : g \notin Results
      BY Kinds DEF Islands, Results
    <2>6. SameLists(Islands \cup Results)
      BY <2>2, <2>3, <2>4, <2>5 DEF SameLists, Lists
    <2>7. \A g \in hs : Lists(g) \subseteq Detected
      BY <1>1, <1>12, CompleteIsDetected DEF Lists
    <2> QED BY <1>3, <1>9, <1>12, <1>18, <2>2, <2>6, <2>7 DEF Measures
  <1> QED BY <1>7, <1>16, <1>17, <1>18, <1>19, <1>20 DEF LogicInv

-----------------------------------------------------------------------------
(* A claimer takes the outcomes of its packets.                            *)

LEMMA ClaimKeeps ==
    ASSUME StoreInv, NEW t \in Threads, Claim(t)
    PROVE  LogicInv' /\ Claims(BatchOf(t))
PROOF
  <1>1. /\ TypeInv /\ NodeTypes /\ PacketTypes /\ StoreTypes /\ RingInv /\ HoldingInv /\ Counted
        /\ ClonesInv /\ FreshInv
    BY DEF StoreInv, LogicInv, TypeInv, StoreTypes
  <1>2. PICK P : Led(P)
    BY DEF StoreInv, LogicInv
  <1> PICK batch : batch = BatchOf(t)
    OBVIOUS
  <1>3. /\ t \in Claimers /\ ClaimCollapsed(t, batch)
        /\ at' = [p \in DOMAIN at \ batch |-> at[p]]
        /\ UNCHANGED <<generated, clones>>
    BY DEF Claim
  <1>4. pc[t] = "wait" /\ pc'[t] = "idle" /\ \A u \in Threads \ {t} : pc'[u] = pc[u]
    BY <1>1, GotoIs DEF Claim
  <1>5. ~ slice[t].held /\ DOMAIN clones[t] = {}
    BY <1>1, <1>4 DEF HoldingInv, HolderAt, HoldingPlaces, ClonesInv, CloneKept, ClonePlaces
  <1>6. batch \subseteq DOMAIN at /\ DOMAIN handle = DOMAIN at
    BY <1>1, BatchIn DEF PacketTypes
  <1>7. \A p \in batch : handle[p] \in Window /\ handle[p] \in Live /\ handle[p] \in Handles
    BY <1>1, <1>2, <1>6, LedToLive
  <1>8. /\ RingInv' /\ Window' = Window /\ slice' = slice
        /\ handle' = [p \in DOMAIN handle \ batch |-> handle[p]]
        /\ \A p \in batch : /\ State(handle[p]) \notin {"Moved", "Locked"}
                            /\ IsResult(CellNow(handle[p]))
                            /\ p \in CellNow(handle[p]).packets
        /\ \A h \in Window : ClaimsOn(batch, h) = {} =>
             State(h)' = State(h) /\ CellNow(h)' = CellNow(h)
        /\ \A h \in Window : ClaimsOn(batch, h) # {} =>
             LET left == CellNow(h).ref - Cardinality(ClaimsOn(batch, h))
             IN  /\ left = 0 => State(h)' = "Retired"
                 /\ left # 0 => /\ State(h)' = State(h)
                                /\ CellNow(h)' = CollapseResult(CellNow(h).packets, left)
    BY <1>1, <1>3, <1>6, <1>7, ClaimEffect
  <1>9. end' = end
    BY <1>3 DEF ClaimCollapsed
  <1> PICK hs : hs = {h \in Window : ClaimsOn(batch, h) # {}}
    OBVIOUS
  <1>10. \A h \in hs : /\ h \in Live /\ h \in Handles /\ IsResult(CellNow(h))
                       /\ State(h) \notin {"Moved", "Locked"}
                       /\ h \notin Stones /\ h \notin Islands
    BY <1>7, <1>8, Kinds DEF ClaimsOn, Stones, Islands
  <1>11. \A h \in Live \ hs : /\ h \in Live' /\ CellNow(h)' = CellNow(h) /\ State(h)' = State(h)
                              /\ ClaimsOn(batch, h) = {}
    BY <1>8 DEF Live
  <1>12. Live' \subseteq Live
    <2>1. \A h \in Window : h \notin hs => State(h)' = State(h)
      BY <1>8
    <2> QED BY <1>8, <1>10, <2>1 DEF Live
  <1>13. \A h \in hs \cap Live' :
           /\ CellNow(h)' = CollapseResult(CellNow(h).packets, CellNow(h).ref - Cardinality(ClaimsOn(batch, h)))
           /\ State(h)' = State(h)
           /\ CellNow(h).ref - Cardinality(ClaimsOn(batch, h)) # 0
    <2>1. \A h \in hs \cap Live' : State(h)' # "Retired" /\ h \in Window /\ ClaimsOn(batch, h) # {}
      BY DEF Live
    <2> QED BY <1>8, <2>1
  <1>14. \A h \in hs \ Live' : CellNow(h).ref - Cardinality(ClaimsOn(batch, h)) = 0
    <2>1. \A h \in hs : h \in Window /\ ClaimsOn(batch, h) # {} /\ State(h) # "Retired"
      BY <1>10 DEF Live
    <2> QED BY <1>8, <2>1 DEF Live
  <1>15. \A h \in hs \cap Live' : /\ IsResult(CellNow(h)')
                                  /\ ~ IsTombstone(CellNow(h)') /\ ~ IsIsland(CellNow(h)')
                                  /\ CellNow(h)' # NoCell
    BY <1>13, Kinds
  <1>16. /\ DOMAIN at' = DOMAIN at \ batch
         /\ \A p \in DOMAIN at \ batch : at'[p] = at[p] /\ handle'[p] = handle[p]
    BY <1>3, <1>6, <1>8
  <1>17. Detected' = Detected \ batch
    BY <1>16 DEF Detected
  <1>18. ASSUME NEW u \in Threads \ {t}
         PROVE  \A p \in BatchOf(u)' : p \in BatchOf(u) /\ handle'[p] = handle[p]
    BY <1>16 DEF BatchOf, PacketsAt
  <1>19. Beside(t, hs)
    <2>1. ASSUME NEW u \in Threads \ {t}
          PROVE  /\ slice[u].held => slice[u].indices \cap hs = {}
                 /\ DOMAIN clones[u] \cap hs = {}
      <3>1. slice[u].held => \A g \in slice[u].indices : State(g) = "Locked"
        BY <1>1 DEF RingInv, SlicesInWindow, LockedIsHeld, Holders
      <3>2. \A g \in DOMAIN clones[u] : g \in Islands
        BY <1>1 DEF ClonesInv, CloneKept
      <3> QED BY <1>10, <3>1, <3>2
    <2> QED BY <1>3, <1>4, <1>8, <1>11, <1>12, <1>18, <2>1 DEF Beside
  <1>20. OwnPart(t, hs)
    <2>1. \A h \in hs : h \in Live' => StateFits(h)'
      BY <1>10, <1>13, <1>15 DEF StateFits
    <2>2. SliceFits(t)' /\ HolderAt(t)' /\ BatchHeld(t)'
      BY <1>4, <1>5, <1>8 DEF SliceFits, HolderAt, BatchHeld, HoldingPlaces
    <2>3. CloneKept(t)'
      BY <1>3, <1>5 DEF CloneKept
    <2> QED BY <1>3, <2>1, <2>2, <2>3 DEF OwnPart
  <1>21. HoldingInv' /\ ClonesInv'
    BY <1>1, <1>19, <1>20, StepBeside
  <1>22. \A h \in Live \ Stones : P[h] \cap batch = ClaimsOn(batch, h)
    <2>1. \A p \in BatchOf(t) : handle[p] \notin Stones
      BY <1>8, Kinds DEF Stones
    <2>2. ASSUME NEW h \in Live PROVE P[h] \cap batch = ClaimsOn(batch, h)
      <3>1. h \in Handles
        BY LiveHandles
      <3>2. P[h] \cap BatchOf(t) = Here(t, h)
        BY <1>1, <1>2, <2>1, <3>1, BatchListed
      <3> QED BY <3>2 DEF Here, ClaimsOn
    <2> QED BY <2>2
  <1>23. Counted'
    <2> SUFFICES ASSUME NEW h \in Islands'
                 PROVE  CellNow(h)'.done = Cardinality(CellNow(h)'.active \cap Detected')
      BY DEF Counted
    <2>1. h \in Islands /\ CellNow(h)' = CellNow(h) /\ h \notin hs
      BY <1>11, <1>12, <1>15 DEF Islands
    <2>2. h \in Live /\ h \notin Stones
      BY <1>1, <2>1, LiveIslands
    <2>3. CellNow(h).active \cap batch = {}
      BY <1>2, <1>11, <1>22, <2>1, <2>2 DEF Led, IslandsList
    <2>4. CellNow(h).active \cap Detected' = CellNow(h).active \cap Detected
      BY <1>17, <2>3
    <2>5. CellNow(h).done = Cardinality(CellNow(h).active \cap Detected)
      BY <1>1, <2>1 DEF Counted
    <2> QED BY <2>1, <2>4, <2>5
  <1>24. FreshInv' /\ StaySpent
    <2>1. Blanks' \subseteq Blanks
      BY <1>11, <1>12, <1>15 DEF Blanks
    <2> QED BY <1>1, <1>3, <1>9, <1>16, <2>1, FreshStays
  <1>25. (\E Q : Led(Q)') /\ \A g \in Live \ Live' : P[g] \subseteq batch
    <2>1. \A g \in Live : Passing(P, batch, {}, g) = P[g] \ batch
      BY DEF Passing
    <2>2. P \in [Handles -> SUBSET DOMAIN at] /\ IsFiniteSet(DOMAIN at)
      BY <1>1, <1>2 DEF Led, Located, TypeInv
    <2>3. ASSUME NEW g \in hs
          PROVE  /\ CellNow(g).ref - Cardinality(ClaimsOn(batch, g)) = Cardinality(P[g] \ batch)
                 /\ IsFiniteSet(P[g] \ batch)
                 /\ P[g] \subseteq CellNow(g).packets \cap Detected
      <3>1. g \in Results /\ g \in Live \ Stones /\ g \in Handles
        BY <1>10 DEF Results
      <3>2. CellNow(g).ref = Cardinality(P[g]) /\ P[g] \subseteq CellNow(g).packets \cap Detected
        BY <1>2, <3>1 DEF Led, ResultsList
      <3>3. IsFiniteSet(P[g])
        BY <2>2, <3>1, FS_Subset
      <3>4. Cardinality(P[g] \ batch) = Cardinality(P[g]) - Cardinality(P[g] \cap batch)
            /\ IsFiniteSet(P[g] \ batch)
        BY <3>3, FS_Difference
      <3> QED BY <1>22, <3>1, <3>2, <3>4
    <2>4. \A g \in hs : Cardinality(P[g] \ batch) = 0 <=> P[g] \ batch = {}
      BY <2>3, FS_EmptySet
    <2>5. ASSUME NEW g \in Live \ Live' PROVE P[g] \ batch = {}
      BY <1>11, <1>14, <2>3, <2>4
    <2>6. ASSUME NEW g \in Stones
          PROVE  g \in Live' /\ CellNow(g)' = CellNow(g) /\ State(g)' = State(g)
      BY <1>10, <1>11 DEF Stones
    <2>7. ASSUME NEW g \in Live' \ Stones
          PROVE  /\ ~ IsTombstone(CellNow(g)')
                 /\ IsIsland(CellNow(g)') => CellNow(g)'.active = P[g] \ batch /\ P[g] \ batch # {}
                 /\ IsResult(CellNow(g)') =>
                      /\ CellNow(g)'.ref = Cardinality(P[g] \ batch) /\ P[g] \ batch # {}
                      /\ P[g] \ batch \subseteq CellNow(g)'.packets \cap Detected'
                 /\ CellNow(g)' = NoCell => P[g] \ batch = {}
      <3>1. CASE g \in hs
        <4>1. /\ CellNow(g)'.packets = CellNow(g).packets
              /\ CellNow(g)'.ref = Cardinality(P[g] \ batch)
          BY <1>13, <2>3, <3>1, Kinds
        <4>2. P[g] \ batch # {}
          BY <1>13, <2>3, <2>4, <3>1
        <4> QED BY <1>15, <1>17, <2>3, <3>1, <4>1, <4>2
      <3>2. CASE g \notin hs
        <4>1. CellNow(g)' = CellNow(g) /\ g \in Live /\ ~ IsTombstone(CellNow(g))
          BY <1>11, <1>12, <3>2 DEF Stones
        <4>2. P[g] \cap batch = {}
          BY <1>11, <1>22, <3>2, <4>1
        <4>3. P[g] \ batch = P[g]
          BY <4>2
        <4>4. IslandsList(P) /\ ResultsList(P) /\ BlanksEmpty(P)
          BY <1>2 DEF Led
        <4>5. /\ IsIsland(CellNow(g)) => CellNow(g).active = P[g] /\ P[g] # {}
              /\ IsResult(CellNow(g)) => /\ CellNow(g).ref = Cardinality(P[g]) /\ P[g] # {}
                                         /\ P[g] \subseteq CellNow(g).packets \cap Detected
              /\ CellNow(g) = NoCell => P[g] = {}
          BY <4>1, <4>4 DEF IslandsList, ResultsList, BlanksEmpty, Islands, Results, Blanks
        <4>6. P[g] \subseteq Detected => P[g] \subseteq Detected'
          BY <1>17, <4>2
        <4> QED BY <4>1, <4>3, <4>5, <4>6
      <3> QED BY <3>1, <3>2
    <2>8. \A p \in batch : handle[p] \notin Stones
      BY <1>8, Kinds DEF Stones
    <2>9. Replaces(P, batch, {})
      <3>1. \A g \in Live \ Live' : Passing(P, batch, {}, g) = {}
        BY <2>1, <2>5
      <3>2. \A g \in Live' \ Stones :
              /\ ~ IsTombstone(CellNow(g)')
              /\ IsIsland(CellNow(g)') =>
                   /\ CellNow(g)'.active = Passing(P, batch, {}, g)
                   /\ Passing(P, batch, {}, g) # {}
              /\ IsResult(CellNow(g)') =>
                   /\ CellNow(g)'.ref = Cardinality(Passing(P, batch, {}, g))
                   /\ Passing(P, batch, {}, g) # {}
                   /\ Passing(P, batch, {}, g) \subseteq CellNow(g)'.packets \cap Detected'
              /\ CellNow(g)' = NoCell => Passing(P, batch, {}, g) = {}
        <4>1. ASSUME NEW g \in Live' \ Stones PROVE Passing(P, batch, {}, g) = P[g] \ batch
          BY <1>12, <2>1
        <4> QED BY <2>7, <4>1
      <3> QED BY <1>6, <1>12, <1>16, <2>6, <2>8, <3>1, <3>2 DEF Replaces
    <2>10. \E Q : Led(Q)'
      BY <1>1, <1>2, <2>9, LedAnew
    <2> QED BY <2>5, <2>10
  <1>26. Claims(batch)
    <2>1. ASSUME NEW g \in Live
          PROVE  /\ g \in Live' => /\ IsIsland(CellNow(g)') => IsIsland(CellNow(g))
                                   /\ IsIsland(CellNow(g)) => IsIsland(CellNow(g)')
                                   /\ IsResult(CellNow(g)') => IsResult(CellNow(g))
                                   /\ IsResult(CellNow(g)) => IsResult(CellNow(g)')
                 /\ g \notin Live' => g \in hs /\ ~ IsIsland(CellNow(g))
      BY <1>10, <1>11, <1>15, Kinds
    <2>2. /\ Islands' = Islands /\ Results' \subseteq Results
          /\ \A g \in Results \ Results' : g \in hs \ Live' /\ g \in Live
      <3>1. /\ \A g \in Islands : g \in Islands'
            /\ \A g \in Islands' : g \in Islands
        BY <1>12, <2>1 DEF Islands
      <3>2. Results' \subseteq Results
        BY <1>12, <2>1 DEF Results
      <3>3. \A g \in Results \ Results' : g \in hs \ Live' /\ g \in Live
        BY <1>12, <2>1 DEF Results
      <3> QED BY <3>1, <3>2, <3>3
    <2>3. \A g \in Islands : g \notin Results /\ CellNow(g)' = CellNow(g)
      BY <1>10, <1>11, Kinds DEF Islands, Results
    <2>4. \A g \in Results' : CellNow(g)'.packets = CellNow(g).packets
      <3>1. \A g \in hs \cap Live' : CellNow(g)'.packets = CellNow(g).packets
        BY <1>13, Kinds
      <3> QED BY <1>11, <1>12, <3>1 DEF Results
    <2>5. SameLists(Islands \cup Results')
      BY <2>2, <2>3, <2>4 DEF SameLists, Lists
    <2>6. ASSUME NEW p \in batch PROVE \E h \in Results : p \in Lists(h)
      <3>1. handle[p] \in Results /\ handle[p] \notin Islands
        BY <1>7, <1>8, Kinds DEF Results, Islands
      <3> QED BY <1>8, <3>1 DEF Lists
    <2>7. \A h \in Results \ Results' : P[h] \subseteq batch
      BY <1>25, <2>2
    <2> QED BY <1>2, <1>6, <1>16, <1>17, <1>24, <2>2, <2>5, <2>6, <2>7 DEF Claims
  <1> QED BY <1>8, <1>21, <1>23, <1>24, <1>25, <1>26 DEF LogicInv

-----------------------------------------------------------------------------
(* An optical element replaces the packets of its batch by their sinks.    *)

LEMMA SinkIs ==
    ASSUME NEW p \in Packets, NEW l \in OutLabels, NEW q, q = SetSnowflake(p, l)
    PROVE  /\ q \in Packets /\ ParentOf(q) = p
           /\ q.pair = p.pair /\ Len(p.path) \in Nat /\ Len(q.path) = Len(p.path) + 1
           /\ \A i \in 1 .. Len(p.path) : q.path[i] = p.path[i]
           /\ q.path[Len(p.path) + 1] = l
           /\ Prefix(p.path, q.path)
PROOF
  <1>1. q \in Packets /\ ParentOf(q) = p
    BY ParentOfSink
  <1>2. p.path \in Seq(OutLabels) /\ q.path = Append(p.path, l) /\ q.pair = p.pair
    BY DEF Packets, SetSnowflake
  <1>3. /\ Len(p.path) \in Nat /\ Len(q.path) = Len(p.path) + 1
        /\ \A i \in 1 .. Len(p.path) : q.path[i] = p.path[i]
        /\ q.path[Len(p.path) + 1] = l
    BY <1>2
  <1>4. Prefix(p.path, q.path)
    BY <1>3 DEF Prefix
  <1> QED BY <1>1, <1>2, <1>3, <1>4

\* Whether no packet of a set has a beginning of the history of another one.
Unprefixed(packets) ==
    \A p, q \in packets : p.pair = q.pair /\ Prefix(p.path, q.path) => p = q

LEMMA PacketIs ==
    ASSUME NEW p \in Packets
    PROVE  p.path \in Seq(OutLabels) /\ Len(p.path) \in Nat /\ p.pair \in Int
  BY DEF Packets

LEMMA PrefixOfSink ==
    ASSUME NEW p \in Packets, NEW l \in OutLabels, NEW q, q = SetSnowflake(p, l),
           NEW r \in Packets, Prefix(r.path, q.path)
    PROVE  Prefix(r.path, p.path) \/ Prefix(p.path, r.path)
PROOF
  <1>1. /\ Len(p.path) \in Nat /\ Len(q.path) = Len(p.path) + 1 /\ Len(r.path) \in Nat
        /\ \A i \in 1 .. Len(p.path) : q.path[i] = p.path[i]
    <2>1. /\ Len(p.path) \in Nat /\ Len(q.path) = Len(p.path) + 1
          /\ \A i \in 1 .. Len(p.path) : q.path[i] = p.path[i]
      BY SinkIs
    <2> QED BY <2>1, PacketIs
  <1>2. Len(r.path) <= Len(q.path) /\ \A i \in 1 .. Len(r.path) : r.path[i] = q.path[i]
    BY DEF Prefix
  <1>3. CASE Len(r.path) <= Len(p.path)
    <2>1. \A i \in 1 .. Len(r.path) : r.path[i] = p.path[i]
      BY <1>1, <1>2, <1>3
    <2> QED BY <1>3, <2>1 DEF Prefix
  <1>4. CASE ~ (Len(r.path) <= Len(p.path))
    <2>1. \A i \in 1 .. Len(p.path) : p.path[i] = r.path[i]
      BY <1>1, <1>2, <1>4
    <2>2. Len(p.path) <= Len(r.path)
      BY <1>1, <1>4
    <2> QED BY <2>1, <2>2 DEF Prefix
  <1> QED BY <1>3, <1>4

LEMMA SinkOfPrefix ==
    ASSUME NEW p \in Packets, NEW l \in OutLabels, NEW q, q = SetSnowflake(p, l),
           NEW r \in Packets, Prefix(q.path, r.path)
    PROVE  Prefix(p.path, r.path)
PROOF
  <1>1. /\ Len(p.path) \in Nat /\ Len(q.path) = Len(p.path) + 1 /\ Len(r.path) \in Nat
        /\ \A i \in 1 .. Len(p.path) : q.path[i] = p.path[i]
    <2>1. /\ Len(p.path) \in Nat /\ Len(q.path) = Len(p.path) + 1
          /\ \A i \in 1 .. Len(p.path) : q.path[i] = p.path[i]
      BY SinkIs
    <2> QED BY <2>1, PacketIs
  <1>2. Len(q.path) <= Len(r.path) /\ \A i \in 1 .. Len(q.path) : q.path[i] = r.path[i]
    BY DEF Prefix
  <1> QED BY <1>1, <1>2 DEF Prefix

LEMMA SinksFresh ==
    ASSUME NEW packets \in SUBSET Packets, Unprefixed(packets),
           NEW batch \in SUBSET packets, NEW labels \in SUBSET OutLabels
    PROVE  /\ Sinks(batch, labels) \cap packets = {}
           /\ Unprefixed((packets \ batch) \cup Sinks(batch, labels))
PROOF
  <1> DEFINE sinks == Sinks(batch, labels)
  <1>1. ASSUME NEW q \in sinks
        PROVE  \E p \in batch, l \in labels : q = SetSnowflake(p, l)
    BY DEF Sinks
  <1>2. \A p, q \in packets : p.pair = q.pair /\ Prefix(p.path, q.path) => p = q
    BY DEF Unprefixed
  <1>3. sinks \cap packets = {}
    <2> SUFFICES ASSUME NEW q \in sinks, q \in packets PROVE FALSE
      OBVIOUS
    <2>1. PICK p \in batch, l \in labels : q = SetSnowflake(p, l)
      BY <1>1
    <2>2. q.pair = p.pair /\ Prefix(p.path, q.path) /\ Len(q.path) = Len(p.path) + 1 /\ Len(p.path) \in Nat
      BY <2>1, SinkIs
    <2>3. p = q
      BY <1>2, <2>2
    <2> QED BY <2>2, <2>3
  <1>4. ASSUME NEW r \in packets \ batch, NEW q \in sinks, r.pair = q.pair
        PROVE  ~ Prefix(r.path, q.path) /\ ~ Prefix(q.path, r.path)
    <2>1. PICK p \in batch, l \in labels : q = SetSnowflake(p, l)
      BY <1>1
    <2>2. q.pair = p.pair /\ p # r /\ p \in packets /\ p \in Packets /\ r \in Packets /\ l \in OutLabels
      BY <2>1, SinkIs
    <2>3. ~ Prefix(r.path, p.path) /\ ~ Prefix(p.path, r.path)
      BY <1>2, <1>4, <2>2
    <2> QED BY <2>1, <2>2, <2>3, PrefixOfSink, SinkOfPrefix
  <1>5. ASSUME NEW q \in sinks, NEW r \in sinks, q.pair = r.pair, Prefix(q.path, r.path)
        PROVE  q = r
    <2>1. PICK p \in batch, l \in labels : q = SetSnowflake(p, l)
      BY <1>1
    <2>2. PICK o \in batch, m \in labels : r = SetSnowflake(o, m)
      BY <1>1
    <2>3. /\ p \in Packets /\ o \in Packets /\ l \in OutLabels /\ m \in OutLabels
          /\ q \in Packets /\ r \in Packets /\ q.pair = p.pair /\ r.pair = o.pair
      BY <2>1, <2>2, SinkIs
    <2>4. Prefix(p.path, r.path)
      BY <1>5, <2>1, <2>3, SinkOfPrefix
    <2>5. Prefix(p.path, o.path) \/ Prefix(o.path, p.path)
      BY <2>2, <2>3, <2>4, PrefixOfSink
    <2>6. p = o
      BY <1>2, <1>5, <2>3, <2>5
    <2>7. /\ Len(p.path) \in Nat /\ Len(q.path) = Len(p.path) + 1 /\ q.path[Len(p.path) + 1] = l
          /\ r.path[Len(p.path) + 1] = m
      BY <2>1, <2>2, <2>3, <2>6, SinkIs
    <2>8. q.path[Len(p.path) + 1] = r.path[Len(p.path) + 1]
      <3>1. \A i \in 1 .. Len(q.path) : q.path[i] = r.path[i]
        BY <1>5 DEF Prefix
      <3>2. Len(p.path) + 1 \in 1 .. Len(q.path)
        BY <2>7
      <3> QED BY <3>1, <3>2
    <2> QED BY <2>1, <2>2, <2>6, <2>7, <2>8
  <1>6. Unprefixed((packets \ batch) \cup sinks)
    <2> HIDE DEF sinks
    <2> SUFFICES ASSUME NEW p \in (packets \ batch) \cup sinks, NEW q \in (packets \ batch) \cup sinks,
                        p.pair = q.pair, Prefix(p.path, q.path)
                 PROVE  p = q
      BY DEF Unprefixed
    <2>1. CASE p \in sinks /\ q \in sinks
      BY <1>5, <2>1
    <2>2. CASE p \notin sinks /\ q \notin sinks
      BY <1>2, <2>2
    <2>3. CASE p \in sinks /\ q \notin sinks
      BY <1>4, <2>3
    <2>4. CASE p \notin sinks /\ q \in sinks
      BY <1>4, <2>4
    <2> QED BY <2>1, <2>2, <2>3, <2>4
  <1> QED BY <1>3, <1>6

LEMMA ScatteredIs ==
    ASSUME NEW island, NEW gone, NEW sinks
    PROVE  LET cell == Scattered(island, gone, sinks)
           IN  /\ IsIsland(cell) /\ cell.active = (island.active \ gone) \cup sinks
               /\ cell.done = island.done
  BY DEF Scattered, Island, IsIsland

LEMMA ScatterKeeps ==
    ASSUME StoreInv, NEW t \in Getters \ Detectors, NEW labels \in SUBSET OutLabels, labels # {},
           Goto(t, "work", "worked"), Scatter(t, labels)
    PROVE  LogicInv' /\ Scatters(BatchOf(t), labels)
PROOF
  <1>1. /\ TypeInv /\ NodeTypes /\ PacketTypes /\ StoreTypes /\ RingInv /\ HoldingInv /\ Counted
        /\ ClonesInv /\ FreshInv /\ t \in Threads
    BY RolesApart DEF StoreInv, LogicInv, TypeInv, StoreTypes
  <1>2. PICK P : Led(P)
    BY DEF StoreInv, LogicInv
  <1> PICK batch : batch = BatchOf(t)
    OBVIOUS
  <1> PICK sinks : sinks = Sinks(batch, labels)
    OBVIOUS
  <1>3. /\ handle' = [q \in (DOMAIN handle \ batch) \cup sinks |->
                        IF q \in sinks THEN handle[ParentOf(q)] ELSE handle[q]]
        /\ at' = [q \in (DOMAIN at \ batch) \cup sinks |->
                    IF q \in sinks THEN Place(t, "out", q.path[Len(q.path)]) ELSE at[q]]
        /\ UNCHANGED <<generated, clones, end>>
    BY DEF Scatter, SetCells, Sinks
  <1>4. pc[t] = "work" /\ pc'[t] = "worked" /\ \A u \in Threads \ {t} : pc'[u] = pc[u]
    BY <1>1, GotoIs
  <1>5. SliceFits(t) /\ slice[t].held /\ DOMAIN clones[t] = {}
    BY <1>1, <1>4 DEF HoldingInv, HolderAt, HoldingPlaces, ClonesInv, CloneKept, ClonePlaces
  <1>6. /\ RingInv' /\ Window' = Window /\ slice' = slice
        /\ \A p \in batch : /\ handle[p] \in slice[t].indices
                            /\ IsIsland(CellNow(handle[p]))
                            /\ p \in CellNow(handle[p]).active
        /\ \A h \in Window :
             /\ State(h)' = State(h)
             /\ CellNow(h)' = IF Here(t, h) = {} THEN CellNow(h)
                              ELSE Scattered(CellNow(h), Here(t, h), Sinks(Here(t, h), labels))
    BY <1>1, <1>5, ScatterEffect
  <1>7. batch \subseteq DOMAIN at /\ DOMAIN handle = DOMAIN at /\ DOMAIN at \in SUBSET Packets
        /\ batch \subseteq Packets
    BY <1>1, BatchIn DEF PacketTypes
  <1>8. \A p \in batch : handle[p] \notin Stones
    BY <1>6, Kinds DEF Stones
  <1>9. sinks \cap DOMAIN at = {} /\ Unprefixed((DOMAIN at \ batch) \cup sinks)
    <2>1. Unprefixed(DOMAIN at)
      BY <1>1 DEF FreshInv, PathsFresh, Unprefixed
    <2> QED BY <1>7, <2>1, SinksFresh
  <1>10. \A p \in batch, l \in labels : LET q == SetSnowflake(p, l)
                                         IN  q \in sinks /\ ParentOf(q) = p /\ q.pair = p.pair
    BY <1>7, SinkIs DEF Sinks
  <1>11. \A q \in sinks : \E p \in batch, l \in labels : q = SetSnowflake(p, l)
    BY DEF Sinks
  <1>12. /\ DOMAIN at' = (DOMAIN at \ batch) \cup sinks
         /\ \A q \in sinks : /\ at'[q].node = t /\ at'[q].box = "out"
                             /\ handle'[q] = handle[ParentOf(q)]
         /\ \A q \in DOMAIN at \ batch : at'[q] = at[q] /\ handle'[q] = handle[q]
    BY <1>3, <1>7, <1>9, PlaceIs
  <1>13. batch \cap Detected = {} /\ t \notin Claimers
    BY BatchWaits, RolesApart
  <1>14. Detected' = Detected
    BY <1>9, <1>12, <1>13 DEF Detected
  <1>15. ASSUME NEW u \in Threads \ {t}
         PROVE  \A q \in BatchOf(u)' : q \in BatchOf(u) /\ handle'[q] = handle[q]
    BY <1>12 DEF BatchOf, PacketsAt
  <1>16. \A h : Here(t, h) # {} => h \in slice[t].indices /\ IsIsland(CellNow(h))
    BY <1>6 DEF Here
  <1>17. SliceStep(t)
    <2>1. \A h \in Window \ slice[t].indices : CellNow(h)' = CellNow(h)
      BY <1>6, <1>16
    <2> QED BY <1>3, <1>4, <1>5, <1>6, <1>15, <2>1 DEF SliceStep
  <1>18. /\ Live' = Live /\ slice[t].indices \subseteq Live
         /\ \A g \in Live : State(g)' = State(g)
         /\ \A g \in slice[t].indices : State(g) = "Locked" /\ StateFits(g)'
         /\ Beside(t, slice[t].indices)
    BY <1>1, <1>17, SliceBeside
  <1>19. \A h \in Live : Here(t, h) = {} => CellNow(h)' = CellNow(h)
    BY <1>6 DEF Live
  <1>20. \A h \in Live : Here(t, h) # {} =>
           /\ IsIsland(CellNow(h)) /\ IsIsland(CellNow(h)')
           /\ CellNow(h)'.active = (CellNow(h).active \ Here(t, h)) \cup Sinks(Here(t, h), labels)
           /\ CellNow(h)'.done = CellNow(h).done
    <2>1. \A h \in Live : Here(t, h) # {} =>
            CellNow(h)' = Scattered(CellNow(h), Here(t, h), Sinks(Here(t, h), labels))
      BY <1>6 DEF Live
    <2> QED BY <1>16, <2>1, ScatteredIs
  <1>21. OwnPart(t, slice[t].indices)
    <2>1. SliceFits(t)'
      <3> SUFFICES ASSUME NEW g \in slice[t].indices
                   PROVE  /\ IsTombstone(CellNow(g)') <=> g \in slice[t].moved
                          /\ CellNow(g)' = NoCell <=> pc'[t] = "populate"
                          /\ IsTombstone(CellNow(g)') => CellNow(g)'.dest \in slice[t].indices
        BY <1>6 DEF SliceFits
      <3>1. CASE Here(t, g) = {}
        <4>1. CellNow(g)' = CellNow(g)
          BY <1>18, <1>19, <3>1
        <4> QED BY <1>4, <1>5, <4>1 DEF SliceFits
      <3>2. CASE Here(t, g) # {}
        <4>1. IsIsland(CellNow(g)) /\ IsIsland(CellNow(g)')
          BY <1>18, <1>20, <3>2
        <4>2. /\ ~ IsTombstone(CellNow(g)) /\ ~ IsTombstone(CellNow(g)') /\ CellNow(g)' # NoCell
          BY <4>1, Kinds
        <4>3. g \notin slice[t].moved
          BY <1>5, <4>2 DEF SliceFits
        <4> QED BY <1>4, <4>2, <4>3
      <3> QED BY <3>1, <3>2
    <2>2. HolderAt(t)' /\ BatchHeld(t)'
      BY <1>4, <1>5, <1>6 DEF HolderAt, BatchHeld, HoldingPlaces
    <2>3. CloneKept(t)'
      BY <1>3, <1>5 DEF CloneKept
    <2> QED BY <1>3, <1>18, <2>1, <2>2, <2>3 DEF OwnPart
  <1>22. HoldingInv' /\ ClonesInv'
    BY <1>1, <1>18, <1>21, StepBeside
  <1>23. Counted'
    <2> SUFFICES ASSUME NEW h \in Islands'
                 PROVE  CellNow(h)'.done = Cardinality(CellNow(h)'.active \cap Detected)
      BY <1>14 DEF Counted
    <2>1. h \in Live
      BY <1>18 DEF Islands
    <2>2. CASE Here(t, h) = {}
      <3>1. CellNow(h)' = CellNow(h) /\ h \in Islands
        BY <1>19, <2>1, <2>2 DEF Islands
      <3> QED BY <1>1, <3>1 DEF Counted
    <2>3. CASE Here(t, h) # {}
      <3>1. h \in Islands
        BY <1>20, <2>1, <2>3 DEF Islands
      <3>2. Here(t, h) \subseteq batch /\ Sinks(Here(t, h), labels) \subseteq sinks
        BY DEF Here, Sinks
      <3>3. Detected \subseteq DOMAIN at
        BY DEF Detected
      <3>4. ((CellNow(h).active \ Here(t, h)) \cup Sinks(Here(t, h), labels)) \cap Detected
              = CellNow(h).active \cap Detected
        BY <1>9, <1>13, <3>2, <3>3
      <3>5. CellNow(h)'.active \cap Detected = CellNow(h).active \cap Detected
        BY <1>20, <2>1, <2>3, <3>4
      <3>6. CellNow(h).done = Cardinality(CellNow(h).active \cap Detected)
        BY <1>1, <3>1 DEF Counted
      <3> QED BY <1>20, <2>1, <2>3, <3>5, <3>6
    <2> QED BY <2>2, <2>3
  <1>24. FreshInv'
    <2>1. Blanks' \subseteq Blanks
      BY <1>18, <1>19, <1>20, Kinds DEF Blanks
    <2>2. \A h : PairOf(h)' = PairOf(h)
      BY <1>3 DEF PairOf
    <2>3. ASSUME NEW q \in DOMAIN at' PROVE \E p \in DOMAIN at : q.pair = p.pair
      <3>1. CASE q \in sinks
        BY <1>7, <1>10, <1>11, <3>1
      <3>2. CASE q \notin sinks
        BY <1>12, <3>2
      <3> QED BY <3>1, <3>2
    <2>4. /\ end = Plus(FirstIndex, generated)
          /\ \A p \in DOMAIN at : p.pair < generated
          /\ \A h \in Blanks : \A p \in DOMAIN at : p.pair # PairOf(h)
      BY <1>1 DEF FreshInv, PairsFresh
    <2>5. PairsFresh'
      BY <1>3, <2>1, <2>2, <2>3, <2>4 DEF PairsFresh
    <2>6. PathsFresh'
      BY <1>9, <1>12 DEF PathsFresh, Unprefixed
    <2> QED BY <2>5, <2>6 DEF FreshInv
  <1>25. \E Q : Led(Q)'
    <2>1. ASSUME NEW g \in Live \ Stones
          PROVE  /\ P[g] \cap batch = Here(t, g)
                 /\ {q \in sinks : handle'[q] = g} = Sinks(Here(t, g), labels)
      <3>1. P[g] \cap batch = Here(t, g)
        BY <1>1, <1>2, <1>8, LiveHandles, BatchListed
      <3>2. ASSUME NEW q \in sinks, handle'[q] = g PROVE q \in Sinks(Here(t, g), labels)
        <4>1. PICK p \in batch, l \in labels : q = SetSnowflake(p, l)
          BY <1>11
        <4>2. handle[p] = g
          BY <1>10, <1>12, <3>2, <4>1
        <4> QED BY <4>1, <4>2 DEF Here, Sinks
      <3>3. ASSUME NEW q \in Sinks(Here(t, g), labels) PROVE q \in sinks /\ handle'[q] = g
        <4>1. PICK p \in Here(t, g), l \in labels : q = SetSnowflake(p, l)
          BY DEF Sinks
        <4>2. p \in batch /\ handle[p] = g
          BY DEF Here
        <4> QED BY <1>10, <1>12, <4>1, <4>2
      <3> QED BY <3>1, <3>2, <3>3
    <2>2. ASSUME NEW g \in Live' \ Stones
          PROVE  /\ ~ IsTombstone(CellNow(g)')
                 /\ IsIsland(CellNow(g)') =>
                      /\ CellNow(g)'.active = Passing(P, batch, sinks, g)
                      /\ Passing(P, batch, sinks, g) # {}
                 /\ IsResult(CellNow(g)') =>
                      /\ CellNow(g)'.ref = Cardinality(Passing(P, batch, sinks, g))
                      /\ Passing(P, batch, sinks, g) # {}
                      /\ Passing(P, batch, sinks, g) \subseteq CellNow(g)'.packets \cap Detected'
                 /\ CellNow(g)' = NoCell => Passing(P, batch, sinks, g) = {}
      <3>1. g \in Live /\ g \notin Stones /\ ~ IsTombstone(CellNow(g))
        BY <1>18 DEF Stones
      <3>2. Passing(P, batch, sinks, g) = (P[g] \ Here(t, g)) \cup Sinks(Here(t, g), labels)
        <4>1. P[g] \ batch = P[g] \ Here(t, g)
          BY <2>1, <3>1
        <4> QED BY <2>1, <3>1, <4>1 DEF Passing
      <3>3. IslandsList(P) /\ ResultsList(P) /\ BlanksEmpty(P)
        BY <1>2 DEF Led
      <3>4. /\ IsIsland(CellNow(g)) => CellNow(g).active = P[g] /\ P[g] # {}
            /\ IsResult(CellNow(g)) => /\ CellNow(g).ref = Cardinality(P[g]) /\ P[g] # {}
                                       /\ P[g] \subseteq CellNow(g).packets \cap Detected
            /\ CellNow(g) = NoCell => P[g] = {}
        BY <3>1, <3>3 DEF IslandsList, ResultsList, BlanksEmpty, Islands, Results, Blanks
      <3>5. CASE Here(t, g) = {}
        <4>1. CellNow(g)' = CellNow(g)
          BY <1>19, <3>1, <3>5
        <4>2. Sinks(Here(t, g), labels) = {}
          BY <3>5 DEF Sinks
        <4>3. Passing(P, batch, sinks, g) = P[g]
          BY <3>2, <3>5, <4>2
        <4> QED BY <1>14, <3>1, <3>4, <4>1, <4>3
      <3>6. CASE Here(t, g) # {}
        <4>1. /\ IsIsland(CellNow(g)) /\ IsIsland(CellNow(g)')
              /\ CellNow(g)'.active = (CellNow(g).active \ Here(t, g)) \cup Sinks(Here(t, g), labels)
          BY <1>20, <3>1, <3>6
        <4>2. Sinks(Here(t, g), labels) # {}
          BY <3>6 DEF Sinks
        <4>3. Passing(P, batch, sinks, g) # {} /\ CellNow(g)'.active = Passing(P, batch, sinks, g)
          BY <3>2, <3>4, <4>1, <4>2
        <4> QED BY <4>1, <4>3, Kinds
      <3> QED BY <3>5, <3>6
    <2>3. ASSUME NEW g \in Stones
          PROVE  g \in Live' /\ CellNow(g)' = CellNow(g) /\ State(g)' = State(g)
      <3>1. g \in Live /\ Here(t, g) = {}
        BY <1>16, Kinds DEF Stones
      <3> QED BY <1>18, <1>19, <3>1
    <2>4. \A q \in sinks : handle'[q] \in Live \ Stones
      <3>1. \A p \in batch : handle[p] \in Live
        BY <1>1, <1>2, <1>7, LedToLive
      <3> QED BY <1>8, <1>10, <1>11, <1>12, <3>1
    <2>5. Replaces(P, batch, sinks)
      BY <1>7, <1>8, <1>9, <1>12, <1>18, <2>2, <2>3, <2>4 DEF Replaces
    <2> QED BY <1>1, <1>2, <2>5, LedAnew
  <1>26. Scatters(batch, labels)
    <2>1. ASSUME NEW g \in Live
          PROVE  /\ IsIsland(CellNow(g)') => IsIsland(CellNow(g))
                 /\ IsIsland(CellNow(g)) => IsIsland(CellNow(g)')
                 /\ IsResult(CellNow(g)) => CellNow(g)' = CellNow(g)
                 /\ IsResult(CellNow(g)') => IsResult(CellNow(g))
      BY <1>19, <1>20, Kinds
    <2>2. Islands' = Islands /\ Results' = Results
      BY <1>18, <2>1 DEF Islands, Results
    <2>3. SameLists(Results)
      BY <2>1, <2>2, Kinds DEF SameLists, Lists, Results, Islands
    <2>4. ASSUME NEW h \in Islands
          PROVE  Lists(h)' = (Lists(h) \ batch) \cup Sinks(Lists(h) \cap batch, labels)
      <3>1. Lists(h) = CellNow(h).active /\ Lists(h)' = CellNow(h)'.active /\ h \in Live /\ h \in Handles
        BY <1>1, <2>2, LiveIslands DEF Lists
      <3>2. Lists(h) \cap batch = Here(t, h)
        <4>1. P[h] = Lists(h)
          BY <1>2, <3>1 DEF Led, IslandsList
        <4> QED BY <1>1, <1>2, <1>8, <3>1, <4>1, BatchListed
      <3>3. Lists(h) \ batch = Lists(h) \ Here(t, h)
        BY <3>2
      <3>4. CASE Here(t, h) # {}
        BY <1>20, <3>1, <3>2, <3>3, <3>4
      <3>5. CASE Here(t, h) = {}
        <4>1. Sinks(Here(t, h), labels) = {}
          BY <3>5 DEF Sinks
        <4> QED BY <1>19, <3>1, <3>2, <3>3, <3>5, <4>1
      <3> QED BY <3>4, <3>5
    <2>5. Blanks' \subseteq Blanks
      BY <1>18, <1>19, <1>20, Kinds DEF Blanks
    <2>6. \A h : PairOf(h)' = PairOf(h)
      BY <1>3 DEF PairOf
    <2> QED BY <1>3, <1>7, <1>9, <1>12, <1>13, <1>14, <2>2, <2>3, <2>4, <2>5, <2>6 DEF Scatters
  <1> QED BY <1>6, <1>22, <1>23, <1>24, <1>25, <1>26 DEF LogicInv

LEMMA SplitKeeps ==
    ASSUME StoreInv, NEW t \in Threads, Transmit(t) \/ Split(t)
    PROVE  LogicInv' /\ \E labels : Scatters(BatchOf(t), labels)
PROOF
  <1>1. t \in Getters \ Detectors
    BY RoleAssumption DEF Transmit, Split, Getters
  <1>2. Goto(t, "work", "worked") /\ (Scatter(t, {"through"}) \/ Scatter(t, {"left", "right"}))
    BY DEF Transmit, Split
  <1>3. /\ {"through"} \in SUBSET OutLabels /\ {"through"} # {}
        /\ {"left", "right"} \in SUBSET OutLabels /\ {"left", "right"} # {}
    BY DEF OutLabels
  <1>4. CASE Scatter(t, {"through"})
    BY <1>1, <1>2, <1>3, <1>4, ScatterKeeps
  <1>5. CASE Scatter(t, {"left", "right"})
    BY <1>1, <1>2, <1>3, <1>5, ScatterKeeps
  <1> QED BY <1>2, <1>4, <1>5

-----------------------------------------------------------------------------
(* A source fills its new cells with islands of new pairs.                 *)

LEMMA HandleOfPair ==
    ASSUME RingTypes, generated \in Int, end = Plus(FirstIndex, generated), NEW h \in Window
    PROVE  PairOf(h) \in Int /\ PairOf(h) < generated /\ Plus(FirstIndex, PairOf(h)) = h
PROOF
  <1>1. PairOf(h) = generated - WindowLen + Offset(h)
    BY PairIs
  <1>2. /\ start \in Int /\ end \in Handles /\ WindowLen \in Int /\ FirstIndex \in Int
        /\ h \in Handles /\ h \in Int /\ Offset(h) < WindowLen /\ WindowLen = Offset(end)
    BY RingNumbers, WindowIs, HandlesAreIntegers, CapacityAssumption
  <1>3. Offset(h) \in Int
    BY <1>2, OffsetType
  <1> PICK i \in Int : i = Offset(h) - WindowLen
    BY <1>2, <1>3
  <1>4. PairOf(h) = generated + i /\ i < 0 /\ WindowLen + i = Offset(h)
    BY <1>1, <1>2, <1>3
  <1>5. Plus(start, WindowLen) = end
    BY <1>2, PlusOffset
  <1>6. Plus(end, i) = Plus(start, WindowLen + i)
    BY <1>2, <1>5, PlusPlus
  <1>7. Plus(start, WindowLen + i) = h
    BY <1>2, <1>4, PlusOffset
  <1>8. Plus(FirstIndex, generated + i) = Plus(end, i)
    BY <1>2, PlusPlus
  <1> QED BY <1>4, <1>6, <1>7, <1>8

LEMMA NewPacketIs ==
    \A n, side : /\ NewPacket(n, side).pair = n /\ NewPacket(n, side).path = <<side>>
                 /\ Len(NewPacket(n, side).path) = 1 /\ NewPacket(n, side).path[1] = side
  BY DEF NewPacket

LEMMA PairAtIs ==
    ASSUME NEW h
    PROVE  PairAt(h) # {} /\ \A q \in PairAt(h) : q.pair = PairOf(h)
  BY NewPacketIs DEF PairAt, Sides

LEMMA PairsUnprefixed ==
    ASSUME NEW h, NEW q \in PairAt(h), NEW r \in PairAt(h), Prefix(q.path, r.path)
    PROVE  q = r
PROOF
  <1>1. PICK side \in Sides : q = NewPacket(PairOf(h), side)
    BY DEF PairAt
  <1>2. PICK other \in Sides : r = NewPacket(PairOf(h), other)
    BY DEF PairAt
  <1>3. side = other
    <2>1. Len(q.path) = 1 /\ q.path[1] = side /\ r.path[1] = other
      BY <1>1, <1>2, NewPacketIs
    <2>2. \A i \in 1 .. Len(q.path) : q.path[i] = r.path[i]
      BY DEF Prefix
    <2>3. 1 \in 1 .. Len(q.path)
      BY <2>1
    <2> QED BY <2>1, <2>2, <2>3
  <1> QED BY <1>1, <1>2, <1>3

LEMMA PopulateKeeps ==
    ASSUME StoreInv, NEW t \in Threads, Populate(t)
    PROVE  LogicInv' /\ Populates(slice[t].indices)
PROOF
  <1>1. /\ TypeInv /\ NodeTypes /\ PacketTypes /\ StoreTypes /\ RingTypes /\ RingInv /\ HoldingInv
        /\ Counted /\ ClonesInv /\ FreshInv /\ t \in Sources
    BY DEF StoreInv, LogicInv, TypeInv, StoreTypes, Populate
  <1>2. PICK P : Led(P)
    BY DEF StoreInv, LogicInv
  <1> PICK hs : hs = slice[t].indices
    OBVIOUS
  <1> PICK made : made = UNION {PairAt(h) : h \in hs}
    OBVIOUS
  <1>3. /\ handle' = [p \in DOMAIN handle \cup made |->
                        IF p \in made THEN Plus(FirstIndex, p.pair) ELSE handle[p]]
        /\ at' = [p \in DOMAIN at \cup made |->
                    IF p \in made THEN Place(t, "out", p.path[1]) ELSE at[p]]
        /\ UNCHANGED <<generated, clones, end>>
    <2> PICK pairs : pairs = [h \in slice[t].indices |-> {NewPacket(PairOf(h), side) : side \in Sides}]
      OBVIOUS
    <2> PICK all : all = UNION {pairs[h] : h \in slice[t].indices}
      OBVIOUS
    <2>1. \A h \in hs : pairs[h] = PairAt(h)
      BY DEF PairAt
    <2>2. all = made
      BY <2>1
    <2>3. UNCHANGED <<generated, clones, end>>
      BY DEF Populate, SetCells
    <2>4. handle' = [p \in DOMAIN handle \cup all |->
                       IF p \in all THEN Plus(FirstIndex, p.pair) ELSE handle[p]]
      BY DEF Populate
    <2>5. at' = [p \in DOMAIN at \cup all |->
                   IF p \in all THEN Place(t, "out", p.path[1]) ELSE at[p]]
      BY DEF Populate
    <2> QED BY <2>2, <2>3, <2>4, <2>5
  <1>4. pc[t] = "populate" /\ pc'[t] = "populated" /\ \A u \in Threads \ {t} : pc'[u] = pc[u]
    BY <1>1, GotoIs DEF Populate
  <1>5. SliceFits(t) /\ slice[t].held /\ DOMAIN clones[t] = {} /\ t \notin Claimers
    BY <1>1, <1>4, RolesApart
       DEF HoldingInv, HolderAt, HoldingPlaces, ClonesInv, CloneKept, ClonePlaces
  <1>6. /\ RingInv' /\ Window' = Window /\ slice' = slice
        /\ \A h \in Window : State(h)' = State(h)
        /\ \A h \in Window \ hs : CellNow(h)' = CellNow(h)
        /\ \A h \in hs : CellNow(h)' = Island(PairAt(h), 0)
    BY <1>1, <1>5, PopulateEffect
  <1>7. /\ hs \subseteq Live /\ hs \subseteq Window /\ slice[t].moved \subseteq hs
        /\ \A h \in hs : CellNow(h) = NoCell /\ h \in Blanks
    <2>1. hs \subseteq Live /\ slice[t].moved \subseteq hs
      BY <1>1, <1>5, HeldIsLive
    <2>2. \A h \in hs : CellNow(h) = NoCell
      BY <1>4, <1>5 DEF SliceFits
    <2> QED BY <2>1, <2>2 DEF Live, Blanks
  <1>8. /\ end = Plus(FirstIndex, generated) /\ generated \in Int
        /\ \A p \in DOMAIN at : p.pair < generated
        /\ \A h \in Blanks : \A p \in DOMAIN at : p.pair # PairOf(h)
    BY <1>1, RoleAssumption DEF FreshInv, PairsFresh, NodeTypes
  <1>9. \A h \in Window : /\ PairOf(h) \in Int /\ PairOf(h) < generated
                          /\ Plus(FirstIndex, PairOf(h)) = h
    BY <1>1, <1>8, HandleOfPair
  <1>10. \A q \in made : \E h \in hs : q \in PairAt(h)
    OBVIOUS
  <1>11. \A h \in hs : PairAt(h) # {} /\ \A q \in PairAt(h) : q \in made /\ q.pair = PairOf(h)
    BY PairAtIs
  <1>12. made \cap DOMAIN at = {} /\ DOMAIN handle = DOMAIN at
    <2>1. \A q \in made : q \notin DOMAIN at
      BY <1>7, <1>8, <1>10, <1>11
    <2> QED BY <1>1, <2>1 DEF PacketTypes
  <1>13. /\ DOMAIN at' = DOMAIN at \cup made
         /\ \A q \in made : /\ at'[q].node = t /\ at'[q].box = "out"
                            /\ handle'[q] = Plus(FirstIndex, q.pair)
         /\ \A q \in DOMAIN at : at'[q] = at[q] /\ handle'[q] = handle[q]
    BY <1>3, <1>12, PlaceIs
  <1>14. \A h \in hs : {q \in made : handle'[q] = h} = PairAt(h)
    <2>1. \A h \in hs : \A q \in PairAt(h) : q \in made /\ handle'[q] = h
      BY <1>7, <1>9, <1>11, <1>13
    <2> QED BY <1>10, <2>1
  <1>15. \A q \in made : handle'[q] \in hs
    <2>1. \A h \in hs : \A q \in PairAt(h) : handle'[q] = h
      BY <1>14
    <2> QED BY <1>10, <2>1
  <1>16. Detected' = Detected
    BY <1>5, <1>12, <1>13 DEF Detected
  <1>17. ASSUME NEW u \in Threads
         PROVE  \A q \in BatchOf(u)' : q \in BatchOf(u) /\ handle'[q] = handle[q]
    BY <1>13 DEF BatchOf, PacketsAt
  <1>18. SliceStep(t)
    BY <1>3, <1>4, <1>5, <1>6, <1>17 DEF SliceStep
  <1>19. /\ Live' = Live
         /\ \A g \in Live : State(g)' = State(g)
         /\ \A g \in hs : State(g) = "Locked" /\ StateFits(g)'
         /\ Beside(t, hs)
    BY <1>1, <1>18, SliceBeside
  <1>20. /\ \A h \in Live \ hs : CellNow(h)' = CellNow(h)
         /\ \A h \in hs : /\ IsIsland(CellNow(h)') /\ CellNow(h)'.active = PairAt(h)
                          /\ CellNow(h)'.done = 0
    BY <1>6, Kinds DEF Live
  <1>21. OwnPart(t, hs)
    <2>1. \A h \in hs : h \notin slice[t].moved
      BY <1>5, <1>7, Kinds DEF SliceFits
    <2>2. SliceFits(t)'
      BY <1>4, <1>6, <1>20, <2>1, Kinds DEF SliceFits
    <2>3. HolderAt(t)' /\ BatchHeld(t)'
      BY <1>4, <1>5, <1>6 DEF HolderAt, BatchHeld, HoldingPlaces
    <2>4. CloneKept(t)'
      BY <1>3, <1>5 DEF CloneKept
    <2> QED BY <1>3, <1>19, <2>2, <2>3, <2>4 DEF OwnPart
  <1>22. HoldingInv' /\ ClonesInv'
    BY <1>1, <1>19, <1>21, StepBeside
  <1>23. Counted'
    <2> SUFFICES ASSUME NEW h \in Islands'
                 PROVE  CellNow(h)'.done = Cardinality(CellNow(h)'.active \cap Detected)
      BY <1>16 DEF Counted
    <2>1. h \in Live
      BY <1>19 DEF Islands
    <2>2. CASE h \notin hs
      <3>1. CellNow(h)' = CellNow(h) /\ h \in Islands
        BY <1>20, <2>1, <2>2 DEF Islands
      <3> QED BY <1>1, <3>1 DEF Counted
    <2>3. CASE h \in hs
      <3>1. CellNow(h)'.active = PairAt(h) /\ CellNow(h)'.done = 0
        BY <1>20, <2>3
      <3>2. PairAt(h) \cap Detected = {}
        BY <1>11, <1>12, <2>3 DEF Detected
      <3>3. Cardinality(PairAt(h) \cap Detected) = 0
        BY <3>2, FS_EmptySet
      <3> QED BY <3>1, <3>3
    <2> QED BY <2>2, <2>3
  <1>24. FreshInv'
    <2>1. Blanks' \subseteq Blanks \ hs
      BY <1>19, <1>20, Kinds DEF Blanks
    <2>2. \A h : PairOf(h)' = PairOf(h)
      BY <1>3 DEF PairOf
    <2>3. ASSUME NEW h \in Blanks', NEW q \in made PROVE q.pair # PairOf(h)
      <3>1. PICK g \in hs : q \in PairAt(g)
        BY <1>10
      <3>2. h \in Window /\ g \in Window /\ h # g
        BY <1>7, <2>1, <3>1 DEF Blanks, Live
      <3> QED BY <1>9, <1>11, <3>1, <3>2
    <2>4. \A q \in made : q.pair < generated
      BY <1>7, <1>9, <1>10, <1>11
    <2>5. PairsFresh'
      BY <1>3, <1>8, <1>13, <2>1, <2>2, <2>3, <2>4 DEF PairsFresh
    <2>6. ASSUME NEW p \in made, NEW q \in DOMAIN at PROVE p.pair # q.pair
      BY <1>7, <1>8, <1>10, <1>11
    <2>7. ASSUME NEW p \in made, NEW q \in made, p.pair = q.pair, Prefix(p.path, q.path)
          PROVE  p = q
      <3>1. PICK h \in hs : p \in PairAt(h)
        BY <1>10
      <3>2. PICK g \in hs : q \in PairAt(g)
        BY <1>10
      <3>3. h = g
        <4>1. PairOf(h) = PairOf(g) /\ h \in Window /\ g \in Window
          BY <1>7, <1>11, <2>7, <3>1, <3>2
        <4> QED BY <1>9, <4>1
      <3> QED BY <2>7, <3>1, <3>2, <3>3, PairsUnprefixed
    <2>8. \A p, q \in DOMAIN at : p.pair = q.pair /\ Prefix(p.path, q.path) => p = q
      BY <1>1 DEF FreshInv, PathsFresh
    <2>9. PathsFresh'
      BY <1>13, <2>6, <2>7, <2>8 DEF PathsFresh
    <2> QED BY <2>5, <2>9 DEF FreshInv
  <1>25. \E Q : Led(Q)'
    <2>1. \A h \in hs : h \notin Stones
      BY <1>7, Kinds DEF Stones
    <2>2. ASSUME NEW g \in Live' \ Stones
          PROVE  /\ ~ IsTombstone(CellNow(g)')
                 /\ IsIsland(CellNow(g)') =>
                      /\ CellNow(g)'.active = Passing(P, {}, made, g)
                      /\ Passing(P, {}, made, g) # {}
                 /\ IsResult(CellNow(g)') =>
                      /\ CellNow(g)'.ref = Cardinality(Passing(P, {}, made, g))
                      /\ Passing(P, {}, made, g) # {}
                      /\ Passing(P, {}, made, g) \subseteq CellNow(g)'.packets \cap Detected'
                 /\ CellNow(g)' = NoCell => Passing(P, {}, made, g) = {}
      <3>1. g \in Live /\ g \notin Stones /\ ~ IsTombstone(CellNow(g))
        BY <1>19 DEF Stones
      <3>2. IslandsList(P) /\ ResultsList(P) /\ BlanksEmpty(P)
        BY <1>2 DEF Led
      <3>3. CASE g \notin hs
        <4>1. CellNow(g)' = CellNow(g)
          BY <1>20, <3>1, <3>3
        <4>2. {q \in made : handle'[q] = g} = {}
          BY <1>15, <3>3
        <4>3. Passing(P, {}, made, g) = P[g]
          BY <4>2 DEF Passing
        <4>4. /\ IsIsland(CellNow(g)) => CellNow(g).active = P[g] /\ P[g] # {}
              /\ IsResult(CellNow(g)) => /\ CellNow(g).ref = Cardinality(P[g]) /\ P[g] # {}
                                         /\ P[g] \subseteq CellNow(g).packets \cap Detected
              /\ CellNow(g) = NoCell => P[g] = {}
          BY <3>1, <3>2 DEF IslandsList, ResultsList, BlanksEmpty, Islands, Results, Blanks
        <4> QED BY <1>16, <3>1, <4>1, <4>3, <4>4
      <3>4. CASE g \in hs
        <4>1. P[g] = {}
          BY <1>7, <3>2, <3>4 DEF BlanksEmpty
        <4>2. Passing(P, {}, made, g) = PairAt(g)
          BY <1>14, <3>4, <4>1 DEF Passing
        <4>3. PairAt(g) # {} /\ IsIsland(CellNow(g)') /\ CellNow(g)'.active = PairAt(g)
          BY <1>11, <1>20, <3>4
        <4> QED BY <4>2, <4>3, Kinds
      <3> QED BY <3>3, <3>4
    <2>3. ASSUME NEW g \in Stones
          PROVE  g \in Live' /\ CellNow(g)' = CellNow(g) /\ State(g)' = State(g)
      <3>1. g \in Live /\ g \notin hs
        BY <2>1 DEF Stones
      <3> QED BY <1>19, <1>20, <3>1
    <2>4. \A q \in made : handle'[q] \in Live \ Stones
      BY <1>7, <1>15, <2>1
    <2>5. Replaces(P, {}, made)
      BY <1>12, <1>13, <1>19, <2>2, <2>3, <2>4 DEF Replaces
    <2> QED BY <1>1, <1>2, <2>5, LedAnew
  <1>26. Populates(hs)
    <2>1. \A g \in hs : ~ IsResult(CellNow(g)') /\ ~ IsResult(CellNow(g))
                      /\ ~ IsIsland(CellNow(g)) /\ IsIsland(CellNow(g)')
      BY <1>7, <1>20, Kinds
    <2>2. Islands' = Islands \cup hs /\ Results' = Results
      <3>1. ASSUME NEW g \in Live \ hs
            PROVE  /\ IsIsland(CellNow(g)') => IsIsland(CellNow(g))
                   /\ IsIsland(CellNow(g)) => IsIsland(CellNow(g)')
                   /\ IsResult(CellNow(g)') => IsResult(CellNow(g))
                   /\ IsResult(CellNow(g)) => IsResult(CellNow(g)')
        BY <1>20
      <3> QED BY <1>7, <1>19, <2>1, <3>1 DEF Islands, Results
    <2>3. \A g \in Islands \cup Results : CellNow(g)' = CellNow(g) /\ g \notin hs
      BY <1>20, <2>1 DEF Islands, Results
    <2>4. SameLists(Islands \cup Results)
      BY <2>2, <2>3 DEF SameLists, Lists
    <2>5. \A g \in hs : Lists(g)' = PairAt(g)
      BY <1>20, <2>2 DEF Lists
    <2>6. Blanks' \subseteq Blanks
      BY <1>19, <1>20, Kinds DEF Blanks
    <2>7. \A h : PairOf(h)' = PairOf(h)
      BY <1>3 DEF PairOf
    <2> QED BY <1>3, <1>7, <1>13, <1>16, <2>2, <2>4, <2>5, <2>6, <2>7 DEF Populates
  <1> QED BY <1>6, <1>22, <1>23, <1>24, <1>25, <1>26 DEF LogicInv

-----------------------------------------------------------------------------
(* The invariant holds initially and is kept by every step.                *)

LEMMA StoreInvInit == Init => StoreInv
PROOF
  <1> SUFFICES ASSUME Init PROVE StoreInv
    OBVIOUS
  <1>1. TypeInv
    BY InitTypes
  <1>2. RingInv /\ Window = {}
    BY EmptyRing DEF Init
  <1>3. /\ \A t \in Threads : ~ slice[t].held /\ pc[t] = "idle" /\ DOMAIN clones[t] = {}
        /\ DOMAIN at = {} /\ generated = 0 /\ end = FirstIndex
    BY DEF Init, StoreInit, NoSlice
  <1>4. Live = {} /\ Islands = {} /\ Stones = {} /\ Results = {} /\ Blanks = {}
    BY <1>2 DEF Live, Islands, Stones, Results, Blanks
  <1>5. HoldingInv
    BY <1>3, <1>4 DEF HoldingInv, SliceFits, HolderAt, BatchHeld, HoldingPlaces
  <1>6. Counted
    BY <1>4 DEF Counted
  <1>7. ClonesInv
    BY <1>3 DEF ClonesInv, CloneKept
  <1>8. FreshInv
    <2>1. Plus(FirstIndex, 0) = FirstIndex
      BY PlusZero, CapacityAssumption DEF Handles
    <2> QED BY <1>3, <1>4, <2>1 DEF FreshInv, PairsFresh, PathsFresh
  <1>9. \E P : Led(P)
    <2> PICK P : P = [h \in Handles |-> {}]
      OBVIOUS
    <2>1. Located(P)
      BY <1>3 DEF Located
    <2>2. IslandsList(P) /\ ResultsList(P) /\ StonesCount(P) /\ BlanksEmpty(P)
      BY <1>4 DEF IslandsList, ResultsList, StonesCount, BlanksEmpty
    <2>3. OneEnd(P) /\ NoReturn(P) /\ OneWay(P) /\ Shortest(P)
      BY <1>3, <1>4 DEF OneEnd, NoReturn, OneWay, Shortest
    <2> QED BY <2>1, <2>2, <2>3 DEF Led
  <1> QED BY <1>1, <1>2, <1>5, <1>6, <1>7, <1>8, <1>9 DEF StoreInv, LogicInv

LEMMA StutterKeeps ==
    ASSUME StoreInv, UNCHANGED vars
    PROVE  LogicInv' /\ Stutters
PROOF
  <1>1. RingInv /\ HoldingInv /\ Counted /\ ClonesInv /\ FreshInv
    BY DEF StoreInv, LogicInv
  <1>2. UNCHANGED <<start, end, cap, reg, bufs, slice, handle, pc, at, generated, clones>>
    BY DEF vars, storeVars, nodeVars
  <1>3. /\ RingInv' /\ Live' = Live
        /\ \A h : State(h)' = State(h) /\ CellNow(h)' = CellNow(h)
    BY <1>1, <1>2, QuietEffect
  <1>4. Detected' = Detected /\ \A t \in Threads : BatchOf(t)' = BatchOf(t)
    BY <1>2 DEF Detected, BatchOf, PacketsAt
  <1>5. Islands' = Islands /\ Blanks' = Blanks
    BY <1>3 DEF Islands, Blanks
  <1>6. HoldingInv'
    BY <1>1, <1>2, <1>3, <1>4
       DEF HoldingInv, StateFits, SliceFits, HolderAt, BatchHeld
  <1>7. Counted'
    BY <1>1, <1>3, <1>4, <1>5, CountedStays
  <1>8. ClonesInv'
    BY <1>1, <1>2, <1>3, <1>5 DEF ClonesInv, CloneKept
  <1>9. FreshInv' /\ StaySpent
    BY <1>1, <1>2, <1>5, FreshStays
  <1>10. \E P : Led(P)'
    <2>1. PICK P : Led(P)
      BY DEF StoreInv, LogicInv
    <2>2. SameWays(P)
      BY <1>2, <1>3, <1>4, LiveHandles DEF SameWays, SameListing
    <2> QED BY <2>1, <2>2, LedStays
  <1>11. Stutters
    BY <1>2, <1>3, <1>4, <1>9, ListsKept DEF Stutters, SameListing
  <1> QED BY <1>3, <1>6, <1>7, <1>8, <1>9, <1>10, <1>11 DEF LogicInv

LEMMA StepKeeps ==
    ASSUME StoreInv, NEW t \in Threads, Step(t)
    PROVE  StoreInv' /\ ListsStep
PROOF
  <1>1. TypeInv'
    BY StepTypes DEF StoreInv
  <1>2. LogicInv' /\ ListsStep
    <2>1. CASE Generate(t)
      BY <2>1, GenerateKeeps DEF ListsStep
    <2>2. CASE Populate(t)
      BY <2>2, PopulateKeeps DEF ListsStep
    <2>3. CASE SendPairs(t) \/ SendSinks(t)
      BY <2>3, SendDrops, DropKeeps DEF ListsStep
    <2>4. CASE GetBatch(t)
      BY <2>4, GetBatchIsQuiet, QuietKeeps DEF ListsStep
    <2>5. CASE Enter(t) \/ WaitLocked(t) \/ WaitUncollapsed(t)
      BY <2>5, WaitIsQuiet, QuietKeeps DEF ListsStep
    <2>6. CASE Follow(t)
      BY <2>6, FollowKeeps DEF ListsStep
    <2>7. CASE LockBatch(t)
      BY <2>7, LockBatchLocks, LockKeeps DEF ListsStep
    <2>8. CASE Transmit(t) \/ Split(t)
      BY <2>8, SplitKeeps DEF ListsStep
    <2>9. CASE Correct(t)
      BY <2>9, CorrectKeeps DEF ListsStep
    <2>10. CASE Merge(t)
      BY <2>10, MergeKeeps DEF ListsStep
    <2>11. CASE Terminate(t)
      BY <2>11, TerminateKeeps DEF ListsStep
    <2>12. CASE DropDetected(t) \/ DropPublished(t)
      BY <2>12, DropOnlyDrops, DropKeeps DEF ListsStep
    <2>13. CASE Relock(t)
      BY <2>13, RelockLocks, LockKeeps DEF ListsStep
    <2>14. CASE Publish(t)
      BY <2>14, PublishKeeps DEF ListsStep
    <2>15. CASE Forward(t)
      BY <2>15, ForwardIsQuiet, QuietKeeps DEF ListsStep
    <2>16. CASE Receive(t)
      BY <2>16, ReceiveIsQuiet, QuietKeeps DEF ListsStep
    <2>17. CASE Claim(t)
      BY <2>17, ClaimKeeps DEF ListsStep
    <2> QED BY <2>1, <2>2, <2>3, <2>4, <2>5, <2>6, <2>7, <2>8, <2>9, <2>10, <2>11, <2>12,
               <2>13, <2>14, <2>15, <2>16, <2>17 DEF Step
  <1> QED BY <1>1, <1>2 DEF StoreInv

LEMMA NextKeeps ==
    ASSUME StoreInv, [Next]_vars
    PROVE  StoreInv' /\ ListsStep
PROOF
  <1>1. CASE \E t \in Threads : Step(t)
    BY <1>1, StepKeeps
  <1>2. CASE UNCHANGED vars
    <2>1. TypeInv'
      BY <1>2 DEF StoreInv, vars, storeVars, nodeVars, TypeInv, StoreTypes, RingTypes, BuffersHold,
                  SliceTypes, PacketTypes, NodeTypes, HoldersHold, ClonesHold
    <2>2. LogicInv' /\ Stutters
      BY <1>2, StutterKeeps
    <2> QED BY <2>1, <2>2 DEF StoreInv, ListsStep
  <1> QED BY <1>1, <1>2 DEF Next, Finished

\* The registry, the slices and the packets fit together in every reachable
\* state: there is an assignment of ways to the packets such that every packet
\* is led by its handle to the one cell that lists it, through tombstones that
\* are in the ring, not retired, and count exactly the packets still on their
\* way (interaction_store.rs: get_state, mark_moved, retire, advance_start).
THEOREM WaysCorrect == Spec => []StoreInv
PROOF
  <1>1. Init => StoreInv
    BY StoreInvInit
  <1>2. StoreInv /\ [Next]_vars => StoreInv'
    BY NextKeeps
  <1> QED BY <1>1, <1>2, PTL DEF Spec

\* Two threads never hold &mut to one cell, whatever they merge, redirect,
\* retire or reallocate in the meantime: a cell is in at most one slice, it is
\* Locked exactly as long, and it keeps its place in the ring and a slot of its
\* own in the buffer its holder works on (interaction_store.rs: lock_states,
\* create_states, Drop of InteractionStoreSlice).
THEOREM ExclusiveCorrect == Spec => []ExclusiveCells
PROOF
  <1>1. StoreInv => ExclusiveCells
    BY RingInvImpliesExclusive DEF StoreInv, LogicInv
  <1> QED BY <1>1, WaysCorrect, PTL

LEMMA StoreInvImpliesCloneCurrent == StoreInv => CloneCurrent
PROOF
  <1> SUFFICES ASSUME StoreInv, NEW t \in Detectors, pc[t] \in {"worked", "relock", "publish"},
                      NEW h \in DOMAIN clones[t]
               PROVE  /\ InWindow(h) /\ CellNow(h) = clones[t][h]
                      /\ pc[t] = "relock" => State(h) = "Free"
    BY DEF CloneCurrent
  <1>1. t \in Threads
    BY RolesApart
  <1>2. /\ h \in Islands /\ CellNow(h) = clones[t][h]
        /\ pc[t] = "relock" => State(h) = "Free"
    BY <1>1 DEF StoreInv, LogicInv, ClonesInv, CloneKept
  <1>3. InWindow(h)
    BY <1>2 DEF Islands, Live, Window
  <1> QED BY <1>2, <1>3

\* The result that a detector computes from the clone of an island, with no
\* lock held, is still that island's when it is written over its cell: nobody
\* scattered, merged, retired or moved the island in between, and the detector
\* finds its cell unlocked (spd.rs: process_batch).
THEOREM ClonesCorrect == Spec => []CloneCurrent
PROOF
  <1>1. StoreInv => CloneCurrent
    BY StoreInvImpliesCloneCurrent
  <1> QED BY <1>1, WaysCorrect, PTL

\* No packet is ever stranded: through whatever merges, reallocations and
\* retirements, its handle leads through cells still in the ring and not retired
\* to the one island or result that lists it, and an island lists exactly the
\* packets led to it and counts exactly those of them that were detected
\* (interaction_store.rs: merge_islands, get_states,
\* correct_state_handle_if_tombstone, Drop of InteractionStoreSlice; spd.rs:
\* process_batch).
THEOREM ResolveCorrect == Spec => []PacketsResolve
PROOF
  <1>1. StoreInv => PacketsResolve
    BY StoreInvImpliesResolve
  <1> QED BY <1>1, WaysCorrect, PTL

\* The reference counts are exact: a tombstone is retired with the last packet
\* that it redirects and a result with the last packet that claims its outcome,
\* never earlier (a packet would look up a cell that another pair reuses) and
\* never later (the ring could not advance past it any more)
\* (interaction_store.rs: merge_islands, get_states, claim_collapsed_packets).
THEOREM RefCountsCorrect == Spec => []RefCountsExact
PROOF
  <1>1. StoreInv => RefCountsExact
    BY StoreInvImpliesRefCounts
  <1> QED BY <1>1, WaysCorrect, PTL

-----------------------------------------------------------------------------
(* A packet is listed at most once, and no later snowflake is that of a    *)
(* listed packet, also when the packet itself is gone: a result lists the  *)
(* packets that have claimed their outcomes till its last one has.         *)

Listing == Islands \cup Results

ListsApart == \A h, g \in Listing : h # g => Lists(h) \cap Lists(g) = {}

ListsSpent == \A h \in Listing : \A r \in Lists(h) : r \in Packets /\ Spent(r)

RecordInv == ListsApart /\ ListsSpent

\* What a cell lists, and of that what exists.
LEMMA ListsAre ==
    ASSUME StoreInv, ListsApart, NEW P, Led(P)
    PROVE  /\ \A h \in Islands : h \notin Results /\ Lists(h) = P[h]
           /\ \A h \in Results : Lists(h) \cap DOMAIN at = P[h] /\ P[h] \subseteq Detected
           /\ \A h \in Listing : P[h] # {} /\ P[h] \subseteq DOMAIN at
           /\ \A p \in DOMAIN at : \E h \in Listing : p \in P[h]
PROOF
  <1>1. TypeInv /\ RingInv
    BY DEF StoreInv, LogicInv
  <1>2. \A h \in Islands : h \notin Results
    BY Kinds DEF Islands, Results
  <1>3. \A h \in Listing : h \in Handles
    BY LiveHandles DEF Listing, Islands, Results
  <1>4. \A h \in Islands : Lists(h) = P[h] /\ P[h] # {}
    BY DEF Lists, Led, IslandsList
  <1>5. \A h \in Results : P[h] \subseteq Lists(h) \cap Detected /\ P[h] # {}
    BY <1>2 DEF Lists, Led, ResultsList
  <1>6. \A h \in Listing : P[h] \subseteq DOMAIN at
    BY <1>3 DEF Led, Located
  <1>7. ASSUME NEW p \in DOMAIN at PROVE \E h \in Listing : p \in P[h]
    <2>1. PICK e \in Live \ Stones : p \in P[e]
      BY <1>1, WayEnds
    <2>2. e \in Islands \/ e \in Results
      BY <1>1, <2>1, EndIs DEF Islands, Results
    <2> QED BY <2>1, <2>2 DEF Listing
  <1>8. ASSUME NEW h \in Results, NEW p \in Lists(h) \cap DOMAIN at PROVE p \in P[h]
    <2>1. PICK g \in Listing : p \in P[g]
      BY <1>7
    <2>2. p \in Lists(g) /\ h \in Listing
      BY <1>4, <1>5, <2>1 DEF Listing
    <2> QED BY <2>1, <2>2 DEF ListsApart
  <1>9. \A h \in Results : Lists(h) \cap DOMAIN at = P[h] /\ P[h] \subseteq Detected
    BY <1>5, <1>6, <1>8 DEF Listing
  <1> QED BY <1>2, <1>4, <1>5, <1>6, <1>7, <1>9 DEF Listing

-----------------------------------------------------------------------------
(* A spent snowflake stays spent.                                          *)

LEMMA SinkOf ==
    ASSUME NEW batch \in SUBSET Packets, NEW labels \in SUBSET OutLabels,
           NEW q \in Sinks(batch, labels)
    PROVE  /\ q \in Packets /\ ParentOf(q) \in batch /\ q.pair = ParentOf(q).pair
           /\ Prefix(ParentOf(q).path, q.path) /\ ~ Prefix(q.path, ParentOf(q).path)
PROOF
  <1>1. PICK p \in batch, l \in labels : q = SetSnowflake(p, l)
    BY DEF Sinks
  <1>2. /\ q \in Packets /\ ParentOf(q) = p /\ q.pair = p.pair
        /\ Len(p.path) \in Nat /\ Len(q.path) = Len(p.path) + 1 /\ Prefix(p.path, q.path)
    BY <1>1, SinkIs
  <1>3. ~ Prefix(q.path, p.path)
    BY <1>2 DEF Prefix
  <1> QED BY <1>2, <1>3

\* A sink has a new snowflake.
LEMMA SinkUnspent ==
    ASSUME NEW batch \in SUBSET DOMAIN at, DOMAIN at \subseteq Packets,
           NEW labels \in SUBSET OutLabels, NEW q \in Sinks(batch, labels)
    PROVE  ~ Spent(q)
PROOF
  <1>1. /\ ParentOf(q) \in batch /\ q.pair = ParentOf(q).pair
        /\ Prefix(ParentOf(q).path, q.path) /\ ~ Prefix(q.path, ParentOf(q).path)
    BY SinkOf
  <1>2. ParentOf(q) \in DOMAIN at /\ ParentOf(q) # q
    BY <1>1
  <1> QED BY <1>1, <1>2 DEF Spent

LEMMA PrefixTrans ==
    ASSUME NEW p \in Packets, NEW q \in Packets, NEW r \in Packets,
           Prefix(p.path, q.path), Prefix(q.path, r.path)
    PROVE  Prefix(p.path, r.path)
PROOF
  <1>1. Len(p.path) \in Nat /\ Len(q.path) \in Nat /\ Len(r.path) \in Nat
    BY PacketIs
  <1> QED BY <1>1 DEF Prefix

LEMMA SpentStays ==
    ASSUME StoreInv, ListsStep
    PROVE  StaySpent
PROOF
  <1>1. DOMAIN at \subseteq Packets
    BY DEF StoreInv, TypeInv, PacketTypes
  <1>2. ASSUME NEW hs, Populates(hs), NEW r \in Packets, Spent(r) PROVE Spent(r)'
    <2>1. /\ UNCHANGED generated /\ Blanks' \subseteq Blanks /\ \A h : PairOf(h)' = PairOf(h)
          /\ hs \subseteq Blanks /\ DOMAIN at' = DOMAIN at \cup UNION {PairAt(h) : h \in hs}
      BY <1>2 DEF Populates
    <2>2. ASSUME NEW p \in DOMAIN at', p.pair = r.pair, Prefix(p.path, r.path) PROVE p = r
      <3>1. CASE p \in DOMAIN at
        BY <1>2, <2>2, <3>1 DEF Spent
      <3>2. CASE p \notin DOMAIN at
        <4>1. PICK h \in hs : p \in PairAt(h)
          BY <2>1, <3>2
        <4>2. p.pair = PairOf(h) /\ h \in Blanks
          BY <2>1, <4>1, PairAtIs
        <4> QED BY <1>2, <2>2, <4>2 DEF Spent
      <3> QED BY <3>1, <3>2
    <2> QED BY <1>2, <2>1, <2>2 DEF Spent
  <1>3. ASSUME NEW batch, NEW labels, Scatters(batch, labels), NEW r \in Packets, Spent(r)
        PROVE  Spent(r)'
    <2>1. /\ UNCHANGED generated /\ Blanks' \subseteq Blanks /\ \A h : PairOf(h)' = PairOf(h)
          /\ batch \subseteq DOMAIN at /\ labels \subseteq OutLabels
          /\ DOMAIN at' = (DOMAIN at \ batch) \cup Sinks(batch, labels)
      BY <1>3 DEF Scatters
    <2>2. ASSUME NEW p \in DOMAIN at', p.pair = r.pair, Prefix(p.path, r.path) PROVE p = r
      <3>1. CASE p \in DOMAIN at
        BY <1>3, <2>2, <3>1 DEF Spent
      <3>2. CASE p \in Sinks(batch, labels)
        <4> PICK o : o = ParentOf(p)
          OBVIOUS
        <4>1. /\ p \in Packets /\ o \in batch /\ p.pair = o.pair
              /\ Prefix(o.path, p.path) /\ ~ Prefix(p.path, o.path)
          BY <1>1, <2>1, <3>2, SinkOf
        <4>2. o \in DOMAIN at /\ o \in Packets
          BY <1>1, <2>1, <4>1
        <4>3. Prefix(o.path, r.path)
          BY <2>2, <4>1, <4>2, PrefixTrans
        <4>4. o = r
          BY <1>3, <2>2, <4>1, <4>2, <4>3 DEF Spent
        <4> QED BY <2>2, <4>1, <4>4
      <3> QED BY <2>1, <3>1, <3>2
    <2> QED BY <1>3, <2>1, <2>2 DEF Spent
  <1>4. CASE \E hs : Populates(hs)
    BY <1>2, <1>4 DEF StaySpent
  <1>5. CASE \E batch, labels : Scatters(batch, labels)
    BY <1>3, <1>5 DEF StaySpent
  <1> QED BY <1>4, <1>5 DEF ListsStep, Stutters, Joins, Detects, Measures, Claims
-----------------------------------------------------------------------------
(* What is listed after a step was listed before, or it is new.            *)

LEMMA PairsApart ==
    ASSUME StoreInv, NEW h \in Blanks, NEW g \in Blanks, h # g
    PROVE  PairAt(h) \cap PairAt(g) = {}
PROOF
  <1>1. RingTypes /\ generated \in Int /\ end = Plus(FirstIndex, generated)
    BY RoleAssumption DEF StoreInv, LogicInv, TypeInv, StoreTypes, NodeTypes, FreshInv, PairsFresh
  <1>2. h \in Window /\ g \in Window
    BY DEF Blanks, Live
  <1>3. Plus(FirstIndex, PairOf(h)) = h /\ Plus(FirstIndex, PairOf(g)) = g
    BY <1>1, <1>2, HandleOfPair
  <1>4. PairOf(h) # PairOf(g)
    BY <1>3
  <1> QED BY <1>4, PairAtIs

\* A step that lists nothing new.
LEMMA ListsNarrow ==
    ASSUME ListsApart, Listing' \subseteq Listing, \A h \in Listing' : Lists(h)' \subseteq Lists(h)
    PROVE  ListsApart'
  BY DEF ListsApart

LEMMA StuttersRecord ==
    ASSUME ListsApart, Stutters
    PROVE  ListsApart' /\ Listing' = Listing /\ \A h \in Listing : Lists(h)' = Lists(h)
PROOF
  <1>1. Listing' = Listing /\ \A h \in Listing : Lists(h)' = Lists(h)
    BY DEF Stutters, Listing, SameLists
  <1> QED BY <1>1, ListsNarrow

LEMMA DetectsRecord ==
    ASSUME ListsApart, NEW batch, Detects(batch)
    PROVE  ListsApart' /\ Listing' = Listing /\ \A h \in Listing : Lists(h)' = Lists(h)
PROOF
  <1>1. Listing' = Listing /\ \A h \in Listing : Lists(h)' = Lists(h)
    BY DEF Detects, Listing, SameLists
  <1> QED BY <1>1, ListsNarrow

LEMMA MeasuresRecord ==
    ASSUME ListsApart, NEW hs, Measures(hs)
    PROVE  ListsApart' /\ Listing' = Listing /\ \A h \in Listing : Lists(h)' = Lists(h)
PROOF
  <1>1. Listing' = Listing /\ \A h \in Listing : Lists(h)' = Lists(h)
    BY DEF Measures, Listing, SameLists
  <1> QED BY <1>1, ListsNarrow

LEMMA ClaimsRecord ==
    ASSUME ListsApart, NEW batch, Claims(batch)
    PROVE  ListsApart' /\ Listing' \subseteq Listing /\ \A h \in Listing' : Lists(h)' = Lists(h)
PROOF
  <1>1. Listing' \subseteq Listing /\ \A h \in Listing' : Lists(h)' = Lists(h)
    BY DEF Claims, Listing, SameLists
  <1> QED BY <1>1, ListsNarrow

LEMMA JoinsRecord ==
    ASSUME ListsApart, NEW d, NEW r, Joins(d, r)
    PROVE  /\ ListsApart' /\ Listing' = Listing \ {d}
           /\ Lists(r)' = Lists(r) \cup Lists(d)
           /\ \A h \in Listing' \ {r} : Lists(h)' = Lists(h)
PROOF
  <1>1. d \in Listing /\ r \in Listing /\ d # r /\ d \notin Results
    BY Kinds DEF Joins, Listing, Islands, Results
  <1>2. /\ Listing' = Listing \ {d} /\ Lists(r)' = Lists(r) \cup Lists(d)
        /\ \A h \in Listing' \ {r} : Lists(h)' = Lists(h)
    BY <1>1 DEF Joins, Listing, SameLists
  <1>3. ASSUME NEW h \in Listing', NEW g \in Listing', h # g PROVE Lists(h)' \cap Lists(g)' = {}
    <2>1. /\ h \in Listing /\ g \in Listing /\ h # d /\ g # d
          /\ Lists(h) \cap Lists(g) = {} /\ Lists(h) \cap Lists(d) = {} /\ Lists(d) \cap Lists(g) = {}
      BY <1>1, <1>2, <1>3 DEF ListsApart
    <2> QED BY <1>2, <1>3, <2>1
  <1> QED BY <1>2, <1>3 DEF ListsApart

LEMMA PopulatesRecord ==
    ASSUME StoreInv, RecordInv, NEW hs, Populates(hs)
    PROVE  /\ ListsApart' /\ Listing' = Listing \cup hs /\ Listing \cap hs = {}
           /\ \A h \in hs : Lists(h)' = PairAt(h)
           /\ \A h \in Listing : Lists(h)' = Lists(h)
           /\ \A h \in hs, g \in Listing : PairAt(h) \cap Lists(g) = {}
PROOF
  <1>1. hs \subseteq Blanks /\ Listing \cap hs = {}
    BY Kinds DEF Populates, Listing, Islands, Results, Blanks
  <1>2. /\ Listing' = Listing \cup hs
        /\ \A h \in hs : Lists(h)' = PairAt(h)
        /\ \A h \in Listing : Lists(h)' = Lists(h)
    BY DEF Populates, Listing, SameLists
  <1>3. ASSUME NEW h \in hs, NEW g \in Listing PROVE PairAt(h) \cap Lists(g) = {}
    <2> SUFFICES ASSUME NEW q \in PairAt(h), q \in Lists(g) PROVE FALSE
      OBVIOUS
    <2>1. q.pair = PairOf(h)
      BY PairAtIs
    <2>2. Spent(q)
      BY DEF RecordInv, ListsSpent
    <2> QED BY <1>1, <2>1, <2>2 DEF Spent
  <1>4. ASSUME NEW h \in hs, NEW g \in hs, h # g PROVE PairAt(h) \cap PairAt(g) = {}
    BY <1>1, <1>4, PairsApart
  <1>5. ASSUME NEW h \in Listing', NEW g \in Listing', h # g PROVE Lists(h)' \cap Lists(g)' = {}
    <2>1. CASE h \in hs /\ g \in hs
      BY <1>2, <1>4, <1>5, <2>1
    <2>2. CASE h \in hs /\ g \notin hs
      BY <1>2, <1>3, <2>2
    <2>3. CASE h \notin hs /\ g \in hs
      BY <1>2, <1>3, <2>3
    <2>4. CASE h \notin hs /\ g \notin hs
      <3>1. h \in Listing /\ g \in Listing
        BY <1>2, <2>4
      <3>2. Lists(h) \cap Lists(g) = {}
        BY <1>5, <3>1 DEF RecordInv, ListsApart
      <3> QED BY <1>2, <3>1, <3>2
    <2> QED BY <2>1, <2>2, <2>3, <2>4
  <1>6. ListsApart'
    BY <1>5 DEF ListsApart
  <1> QED BY <1>1, <1>2, <1>3, <1>6

LEMMA ScattersRecord ==
    ASSUME StoreInv, RecordInv, NEW batch, NEW labels, Scatters(batch, labels)
    PROVE  /\ ListsApart' /\ Listing' = Listing
           /\ \A h \in Results : Lists(h)' = Lists(h)
           /\ \A h \in Islands :
                Lists(h)' = (Lists(h) \ batch) \cup Sinks(Lists(h) \cap batch, labels)
           /\ \A h \in Listing : Sinks(batch, labels) \cap Lists(h) = {}
PROOF
  <1>1. /\ batch \subseteq DOMAIN at /\ labels \subseteq OutLabels
        /\ Listing' = Listing /\ \A h \in Results : Lists(h)' = Lists(h)
        /\ \A h \in Islands :
             Lists(h)' = (Lists(h) \ batch) \cup Sinks(Lists(h) \cap batch, labels)
    BY DEF Scatters, Listing, SameLists
  <1>2. DOMAIN at \subseteq Packets
    BY DEF StoreInv, TypeInv, PacketTypes
  <1>3. \A h \in Listing : Sinks(batch, labels) \cap Lists(h) = {}
    <2>1. \A q \in Sinks(batch, labels) : ~ Spent(q)
      BY <1>1, <1>2, SinkUnspent
    <2> QED BY <2>1 DEF RecordInv, ListsSpent
  <1>4. ASSUME NEW h \in Listing, NEW q \in Lists(h)'
        PROVE  \/ q \in Lists(h) /\ q \notin Sinks(batch, labels)
               \/ q \in Sinks(batch, labels) /\ ParentOf(q) \in Lists(h)
    <2>1. CASE q \in Lists(h)
      BY <1>3, <2>1
    <2>2. CASE q \notin Lists(h)
      <3>1. h \in Islands /\ q \in Sinks(Lists(h) \cap batch, labels)
        BY <1>1, <2>2 DEF Listing
      <3>2. ParentOf(q) \in Lists(h)
        <4>1. Lists(h) \cap batch \subseteq Packets
          BY <1>1, <1>2
        <4> QED BY <1>1, <3>1, <4>1, SinkOf
      <3>3. q \in Sinks(batch, labels)
        BY <3>1 DEF Sinks
      <3> QED BY <3>2, <3>3
    <2> QED BY <2>1, <2>2
  <1>5. ASSUME NEW h \in Listing', NEW g \in Listing', h # g PROVE Lists(h)' \cap Lists(g)' = {}
    <2> SUFFICES ASSUME NEW q \in Lists(h)', q \in Lists(g)' PROVE FALSE
      OBVIOUS
    <2>1. h \in Listing /\ g \in Listing
      BY <1>1
    <2>2. Lists(h) \cap Lists(g) = {}
      BY <1>5, <2>1 DEF RecordInv, ListsApart
    <2> QED BY <1>4, <2>1, <2>2
  <1>6. ListsApart'
    BY <1>5 DEF ListsApart
  <1> QED BY <1>1, <1>3, <1>6
LEMMA RecordKeeps ==
    ASSUME StoreInv, StoreInv', RecordInv, ListsStep
    PROVE  RecordInv'
PROOF
  <1>1. ListsApart
    BY DEF RecordInv
  <1>2. DOMAIN at' \subseteq Packets /\ FreshInv'
    BY DEF StoreInv, LogicInv, TypeInv, PacketTypes
  <1>3. ASSUME NEW r \in DOMAIN at' PROVE Spent(r)'
    BY <1>2, <1>3 DEF FreshInv, PairsFresh, PathsFresh, Spent
  <1>4. /\ ListsApart'
        /\ \A h \in Listing' : \A r \in Lists(h)' :
             r \in DOMAIN at' \/ \E g \in Listing : r \in Lists(g)
    <2>1. CASE Stutters
      BY <1>1, <2>1, StuttersRecord
    <2>2. CASE \E hs : Populates(hs)
      <3> PICK hs : Populates(hs)
        BY <2>2
      <3>1. \A h \in hs : PairAt(h) \subseteq DOMAIN at'
        BY DEF Populates
      <3> QED BY <3>1, PopulatesRecord
    <2>3. CASE \E hs : Measures(hs)
      BY <1>1, <2>3, MeasuresRecord
    <2>4. CASE \E d, r : Joins(d, r)
      <3> PICK d, r : Joins(d, r)
        BY <2>4
      <3>1. d \in Listing /\ r \in Listing
        BY DEF Joins, Listing
      <3> QED BY <1>1, <3>1, JoinsRecord
    <2>5. CASE \E batch : Detects(batch)
      BY <1>1, <2>5, DetectsRecord
    <2>6. CASE \E batch : Claims(batch)
      BY <1>1, <2>6, ClaimsRecord
    <2>7. CASE \E batch, labels : Scatters(batch, labels)
      <3> PICK batch, labels : Scatters(batch, labels)
        BY <2>7
      <3>1. ASSUME NEW h \in Listing, NEW q \in Lists(h)'
            PROVE  q \in Lists(h) \/ q \in DOMAIN at'
        <4>1. CASE h \in Results
          BY <4>1, ScattersRecord
        <4>2. CASE h \in Islands
          <5>1. q \in Lists(h) \/ q \in Sinks(Lists(h) \cap batch, labels)
            BY <4>2, ScattersRecord
          <5>2. Sinks(Lists(h) \cap batch, labels) \subseteq DOMAIN at'
            BY DEF Scatters, Sinks
          <5> QED BY <5>1, <5>2
        <4> QED BY <4>1, <4>2 DEF Listing
      <3> QED BY <3>1, ScattersRecord
    <2> QED BY <2>1, <2>2, <2>3, <2>4, <2>5, <2>6, <2>7 DEF ListsStep
  <1>5. ASSUME NEW h \in Listing', NEW r \in Lists(h)' PROVE r \in Packets /\ Spent(r)'
    <2>1. CASE r \in DOMAIN at'
      BY <1>2, <1>3, <2>1
    <2>2. CASE r \notin DOMAIN at'
      <3>1. r \in Packets /\ Spent(r)
        BY <1>4, <2>2 DEF RecordInv, ListsSpent
      <3> QED BY <3>1, SpentStays DEF StaySpent
    <2> QED BY <2>1, <2>2
  <1> QED BY <1>4, <1>5 DEF RecordInv, ListsSpent

-----------------------------------------------------------------------------
(* The refinement mapping, in terms of what the cells list.                *)

IslandSets == {cell.active : cell \in {c \in LiveCells : IsIsland(c)}}

Outcomes ==
    UNION {cell.packets \cap DOMAIN handle : cell \in {c \in LiveCells : IsResult(c)}}

ListedIslands  == {Lists(h) : h \in Islands}
ListedOutcomes == UNION {Lists(h) \cap DOMAIN at : h \in Results}

LEMMA MappingIs ==
    ASSUME PacketTypes
    PROVE  IslandSets = ListedIslands /\ Outcomes = ListedOutcomes
PROOF
  <1>1. DOMAIN handle = DOMAIN at
    BY DEF PacketTypes
  <1>2. LiveCells = {CellNow(h) : h \in Live}
    BY DEF LiveCells, Live
  <1>3. \A h \in Islands : Lists(h) = CellNow(h).active
    BY DEF Lists
  <1>4. \A h \in Results : Lists(h) = CellNow(h).packets
    <2>1. \A h \in Results : h \notin Islands
      BY Kinds DEF Results, Islands
    <2> QED BY <2>1 DEF Lists
  <1>5. IslandSets = {CellNow(h).active : h \in Islands}
    BY <1>2 DEF IslandSets, Islands
  <1>6. Outcomes = UNION {CellNow(h).packets \cap DOMAIN at : h \in Results}
    BY <1>1, <1>2 DEF Outcomes, Results
  <1> QED BY <1>3, <1>4, <1>5, <1>6 DEF ListedIslands, ListedOutcomes

LEMMA MappingIsNow == PacketTypes => IslandSets = ListedIslands /\ Outcomes = ListedOutcomes
  BY MappingIs
Mapped == IslandSets = ListedIslands /\ Outcomes = ListedOutcomes

LEMMA StatesMapped == StoreInv => Mapped
  BY MappingIs DEF Mapped, StoreInv, TypeInv

-----------------------------------------------------------------------------
(* Every step is one of the abstract specification.                        *)

LEMMA StuttersImplements ==
    ASSUME Mapped, Mapped', Stutters
    PROVE  UNCHANGED <<IslandSets, Detected, Outcomes>>
PROOF
  <1>1. /\ Islands' = Islands /\ Results' = Results /\ DOMAIN at' = DOMAIN at /\ Detected' = Detected
        /\ \A h \in Islands : Lists(h)' = Lists(h)
        /\ \A h \in Results : Lists(h)' = Lists(h)
    BY DEF Stutters, SameLists
  <1>2. ListedIslands' = ListedIslands
    BY <1>1 DEF ListedIslands
  <1>3. ListedOutcomes' = ListedOutcomes
    BY <1>1 DEF ListedOutcomes
  <1> QED BY <1>1, <1>2, <1>3 DEF Mapped

\* New pairs in cells of their own: Emit.
LEMMA PopulatesImplements ==
    ASSUME StoreInv, RecordInv, RecordInv', Mapped, Mapped', NEW hs, Populates(hs)
    PROVE  Abstract!Emit
PROOF
  <1>1. /\ Islands' = Islands \cup hs /\ Results' = Results /\ Detected' = Detected
        /\ DOMAIN at' = DOMAIN at \cup UNION {PairAt(h) : h \in hs}
    BY DEF Populates
  <1>2. /\ \A h \in hs : Lists(h)' = PairAt(h)
        /\ \A h \in Listing : Lists(h)' = Lists(h)
        /\ \A h \in hs, g \in Listing : PairAt(h) \cap Lists(g) = {}
    BY PopulatesRecord
  <1>3. IslandSets = {Lists(h) : h \in Islands} /\ IslandSets' = {Lists(h)' : h \in Islands'}
    BY DEF Mapped, ListedIslands
  <1>4. IslandSets \subseteq IslandSets'
    BY <1>1, <1>2, <1>3 DEF Listing
  <1>5. ASSUME NEW s \in IslandSets' \ IslandSets
        PROVE  \E h \in hs : s = Lists(h)' /\ s = PairAt(h) /\ h \in Islands'
    BY <1>1, <1>2, <1>3 DEF Listing
  <1>6. ASSUME NEW s \in IslandSets' \ IslandSets, NEW r \in IslandSets' \ IslandSets, s # r
        PROVE  s \cap r = {}
    <2>1. PICK h \in hs : s = Lists(h)' /\ h \in Islands'
      BY <1>5
    <2>2. PICK g \in hs : r = Lists(g)' /\ g \in Islands'
      BY <1>5
    <2>3. h # g /\ h \in Listing' /\ g \in Listing'
      BY <1>6, <2>1, <2>2 DEF Listing
    <2> QED BY <2>1, <2>2, <2>3 DEF RecordInv, ListsApart
  <1>7. {} \notin IslandSets' \ IslandSets
    BY <1>5, PairAtIs
  <1>8. (UNION (IslandSets' \ IslandSets)) \cap ((UNION IslandSets) \cup Outcomes) = {}
    <2> SUFFICES ASSUME NEW s \in IslandSets' \ IslandSets, NEW q \in s,
                        q \in (UNION IslandSets) \cup Outcomes
                 PROVE  FALSE
      OBVIOUS
    <2>1. PICK h \in hs : s = PairAt(h)
      BY <1>5
    <2>2. CASE q \in UNION IslandSets
      <3>1. PICK g \in Islands : q \in Lists(g)
        BY <1>3, <2>2
      <3> QED BY <1>2, <2>1, <3>1 DEF Listing
    <2>3. CASE q \in Outcomes
      <3>1. PICK g \in Results : q \in Lists(g)
        BY <2>3 DEF Mapped, ListedOutcomes
      <3> QED BY <1>2, <2>1, <3>1 DEF Listing
    <2> QED BY <2>2, <2>3
  <1>9. Outcomes' = Outcomes
    <2>1. \A g \in Results : Lists(g)' = Lists(g) /\ Lists(g) \cap DOMAIN at' = Lists(g) \cap DOMAIN at
      <3>1. \A g \in Results : Lists(g) \cap UNION {PairAt(h) : h \in hs} = {}
        BY <1>2 DEF Listing
      <3> QED BY <1>1, <1>2, <3>1 DEF Listing
    <2>2. ListedOutcomes' = ListedOutcomes
      BY <1>1, <2>1 DEF ListedOutcomes
    <2> QED BY <2>2 DEF Mapped
  <1> QED BY <1>1, <1>4, <1>6, <1>7, <1>8, <1>9
          DEF Abstract!Emit, Abstract!PacketsOf, Abstract!Disjoint, IslandSets, Outcomes

\* The island of one cell passes to another: Interfere.
LEMMA JoinsImplements ==
    ASSUME StoreInv, RecordInv, Mapped, Mapped', NEW d, NEW r, Joins(d, r)
    PROVE  Abstract!Interfere
PROOF
  <1>1. /\ d \in Islands /\ r \in Islands /\ d # r /\ Islands' = Islands \ {d} /\ Results' = Results
        /\ Lists(r)' = Lists(r) \cup Lists(d) /\ DOMAIN at' = DOMAIN at /\ Detected' = Detected
        /\ \A h \in (Islands \cup Results) \ {d, r} : Lists(h)' = Lists(h)
    BY DEF Joins, SameLists
  <1>2. PICK P : Led(P)
    BY DEF StoreInv, LogicInv
  <1>3. /\ \A h \in Islands : h \in Listing /\ h \notin Results /\ Lists(h) # {}
        /\ \A h, g \in Islands : h # g => Lists(h) \cap Lists(g) = {}
    <2>1. \A h \in Islands : h \in Listing
      BY DEF Listing
    <2>2. \A h \in Islands : h \notin Results /\ Lists(h) # {}
      BY <1>2, <2>1, ListsAre DEF RecordInv
    <2> QED BY <2>1, <2>2 DEF RecordInv, ListsApart
  <1>4. IslandSets = {Lists(h) : h \in Islands} /\ IslandSets' = {Lists(h)' : h \in Islands'}
    BY DEF Mapped, ListedIslands
  <1>5. Lists(d) \in IslandSets /\ Lists(r) \in IslandSets /\ Lists(d) # Lists(r)
    BY <1>1, <1>3, <1>4
  <1>6. IslandSets' = (IslandSets \ {Lists(d), Lists(r)}) \cup {Lists(d) \cup Lists(r)}
    <2>1. ASSUME NEW s \in IslandSets'
          PROVE  s \in (IslandSets \ {Lists(d), Lists(r)}) \cup {Lists(d) \cup Lists(r)}
      <3>1. PICK h \in Islands' : s = Lists(h)'
        BY <1>4
      <3>2. CASE h = r
        BY <1>1, <3>1, <3>2
      <3>3. CASE h # r
        <4>1. h \in Islands /\ h # d /\ s = Lists(h)
          BY <1>1, <3>1, <3>3
        <4>2. Lists(h) # Lists(d) /\ Lists(h) # Lists(r)
          BY <1>1, <1>3, <3>3, <4>1
        <4> QED BY <1>4, <4>1, <4>2
      <3> QED BY <3>2, <3>3
    <2>2. Lists(d) \cup Lists(r) \in IslandSets'
      BY <1>1, <1>4
    <2>3. ASSUME NEW s \in IslandSets, s # Lists(d), s # Lists(r) PROVE s \in IslandSets'
      BY <1>1, <1>4, <2>3
    <2> QED BY <2>1, <2>2, <2>3
  <1>7. Outcomes' = Outcomes
    <2>1. \A h \in Results : Lists(h)' = Lists(h)
      BY <1>1, <1>3
    <2>2. ListedOutcomes' = ListedOutcomes
      BY <1>1, <2>1 DEF ListedOutcomes
    <2> QED BY <2>2 DEF Mapped
  <1> QED BY <1>1, <1>5, <1>6, <1>7 DEF Abstract!Interfere, IslandSets, Outcomes
\* Packets that are not detected are in islands.
LEMMA UndetectedInIslands ==
    ASSUME StoreInv, RecordInv, NEW p \in DOMAIN at, p \notin Detected
    PROVE  \E h \in Islands : p \in Lists(h)
PROOF
  <1>1. PICK P : Led(P)
    BY DEF StoreInv, LogicInv
  <1>2. PICK h \in Listing : p \in P[h]
    BY <1>1, ListsAre DEF RecordInv
  <1>3. h \notin Results
    BY <1>1, <1>2, ListsAre DEF RecordInv
  <1>4. h \in Islands /\ p \in Lists(h)
    BY <1>1, <1>2, <1>3, ListsAre DEF RecordInv, Listing
  <1> QED BY <1>4

LEMMA DetectsImplements ==
    ASSUME StoreInv, RecordInv, Mapped, Mapped', NEW batch, Detects(batch)
    PROVE  Abstract!Detect
PROOF
  <1>1. /\ Islands' = Islands /\ Results' = Results /\ DOMAIN at' = DOMAIN at
        /\ Detected' = Detected \cup batch /\ batch \subseteq DOMAIN at
        /\ \A h \in Islands : Lists(h)' = Lists(h)
        /\ \A h \in Results : Lists(h)' = Lists(h)
    BY DEF Detects, SameLists
  <1>2. ListedIslands' = ListedIslands
    BY <1>1 DEF ListedIslands
  <1>3. ListedOutcomes' = ListedOutcomes
    BY <1>1 DEF ListedOutcomes
  <1>4. Detected' \ Detected \subseteq UNION IslandSets
    <2>1. \A p \in Detected' \ Detected : \E h \in Islands : p \in Lists(h)
      BY <1>1, UndetectedInIslands
    <2> QED BY <2>1 DEF Mapped, ListedIslands
  <1>5. IslandSets' = IslandSets /\ Outcomes' = Outcomes /\ Detected \subseteq Detected'
    BY <1>1, <1>2, <1>3 DEF Mapped
  <1> QED BY <1>4, <1>5 DEF Abstract!Detect, Abstract!PacketsOf, IslandSets, Outcomes

\* Complete islands become results: Measure.
LEMMA MeasuresImplements ==
    ASSUME StoreInv, RecordInv, Mapped, Mapped', NEW hs, Measures(hs)
    PROVE  Abstract!Measure
PROOF
  <1>1. /\ hs \subseteq Islands /\ \A h \in hs : Lists(h) \subseteq Detected
        /\ Islands' = Islands \ hs /\ Results' = Results \cup hs
        /\ DOMAIN at' = DOMAIN at /\ Detected' = Detected
        /\ \A h \in Islands \cup Results : Lists(h)' = Lists(h)
    BY DEF Measures, SameLists
  <1>2. PICK P : Led(P)
    BY DEF StoreInv, LogicInv
  <1>3. /\ \A h \in Islands : Lists(h) # {} /\ Lists(h) \subseteq DOMAIN at
        /\ \A h, g \in Islands : h # g => Lists(h) \cap Lists(g) = {}
    <2>1. \A h \in Islands : h \in Listing
      BY DEF Listing
    <2>2. \A h \in Islands : Lists(h) # {} /\ Lists(h) \subseteq DOMAIN at
      BY <1>2, <2>1, ListsAre DEF RecordInv
    <2> QED BY <2>1, <2>2 DEF RecordInv, ListsApart
  <1>4. IslandSets = {Lists(h) : h \in Islands} /\ IslandSets' = {Lists(h)' : h \in Islands'}
    BY DEF Mapped, ListedIslands
  <1>5. IslandSets' = {Lists(h) : h \in Islands \ hs}
    BY <1>1, <1>4
  <1>6. IslandSets' \subseteq IslandSets
    BY <1>4, <1>5
  <1>7. IslandSets \ IslandSets' = {Lists(h) : h \in hs}
    <2>1. ASSUME NEW h \in hs PROVE Lists(h) \in IslandSets \ IslandSets'
      <3>1. \A g \in Islands \ hs : Lists(g) # Lists(h)
        BY <1>1, <1>3
      <3> QED BY <1>1, <1>4, <1>5, <3>1
    <2>2. ASSUME NEW s \in IslandSets \ IslandSets' PROVE \E h \in hs : s = Lists(h)
      BY <1>4, <1>5
    <2> QED BY <2>1, <2>2
  <1>8. UNION (IslandSets \ IslandSets') \subseteq Detected
    BY <1>1, <1>7
  <1>9. Outcomes' = Outcomes \cup UNION (IslandSets \ IslandSets')
    <2>1. /\ Outcomes = UNION {Lists(h) \cap DOMAIN at : h \in Results}
          /\ Outcomes' = UNION {Lists(h)' \cap DOMAIN at' : h \in Results'}
      BY DEF Mapped, ListedOutcomes
    <2>2. Outcomes' = UNION {Lists(h) \cap DOMAIN at : h \in Results \cup hs}
      BY <1>1, <2>1
    <2>3. \A h \in hs : Lists(h) \cap DOMAIN at = Lists(h)
      BY <1>1, <1>3
    <2> QED BY <1>7, <2>1, <2>2, <2>3
  <1> QED BY <1>1, <1>6, <1>8, <1>9
          DEF Abstract!Measure, Abstract!PacketsOf, IslandSets, Outcomes

\* Packets take their outcomes: Claim.
LEMMA ClaimsImplements ==
    ASSUME StoreInv, RecordInv, Mapped, Mapped', NEW batch, Claims(batch)
    PROVE  Abstract!Claim
PROOF
  <1>1. /\ batch \subseteq DOMAIN at /\ \A p \in batch : \E h \in Results : p \in Lists(h)
        /\ Islands' = Islands /\ Results' \subseteq Results
        /\ DOMAIN at' = DOMAIN at \ batch /\ Detected' = Detected \ batch
        /\ \A h \in Islands : Lists(h)' = Lists(h)
        /\ \A h \in Results' : Lists(h)' = Lists(h)
    BY DEF Claims, SameLists
  <1>2. PICK P : Led(P) /\ \A h \in Results \ Results' : P[h] \subseteq batch
    BY DEF Claims
  <1>3. \A h \in Results : Lists(h) \cap DOMAIN at = P[h]
    BY <1>2, ListsAre DEF RecordInv
  <1>4. ListedIslands' = ListedIslands
    BY <1>1 DEF ListedIslands
  <1>5. /\ Outcomes = UNION {Lists(h) \cap DOMAIN at : h \in Results}
        /\ Outcomes' = UNION {Lists(h)' \cap DOMAIN at' : h \in Results'}
    BY DEF Mapped, ListedOutcomes
  <1>6. Outcomes' = UNION {(Lists(h) \cap DOMAIN at) \ batch : h \in Results'}
    <2>1. \A h \in Results' : Lists(h)' \cap DOMAIN at' = (Lists(h) \cap DOMAIN at) \ batch
      BY <1>1
    <2> QED BY <1>5, <2>1
  <1>7. Outcomes' \subseteq Outcomes
    BY <1>1, <1>5, <1>6
  <1>8. Outcomes \ Outcomes' = batch
    <2>1. ASSUME NEW p \in batch PROVE p \in Outcomes /\ p \notin Outcomes'
      BY <1>1, <1>5, <1>6
    <2>2. ASSUME NEW p \in Outcomes, p \notin Outcomes' PROVE p \in batch
      <3>1. PICK h \in Results : p \in Lists(h) \cap DOMAIN at
        BY <1>5
      <3>2. CASE h \in Results'
        BY <1>6, <2>2, <3>1, <3>2
      <3>3. CASE h \notin Results'
        BY <1>2, <1>3, <3>1, <3>3
      <3> QED BY <3>2, <3>3
    <2> QED BY <2>1, <2>2
  <1>9. IslandSets' = IslandSets /\ Detected' = Detected \ (Outcomes \ Outcomes')
    BY <1>1, <1>4, <1>8 DEF Mapped
  <1> QED BY <1>7, <1>9 DEF Abstract!Claim, IslandSets, Outcomes

\* Packets are replaced by their sinks: Scatter.
LEMMA ScattersImplements ==
    ASSUME StoreInv, RecordInv, Mapped, Mapped', NEW batch, NEW labels, Scatters(batch, labels)
    PROVE  Abstract!Scatter
PROOF
  <1> PICK sinks : sinks = Sinks(batch, labels)
    OBVIOUS
  <1>1. /\ batch \subseteq DOMAIN at /\ batch \cap Detected = {}
        /\ labels \subseteq OutLabels /\ labels # {}
        /\ Islands' = Islands /\ Results' = Results
        /\ DOMAIN at' = (DOMAIN at \ batch) \cup sinks /\ Detected' = Detected
        /\ sinks \cap DOMAIN at = {}
    BY DEF Scatters
  <1>2. /\ \A h \in Results : Lists(h)' = Lists(h)
        /\ \A h \in Islands : Lists(h)' = (Lists(h) \ batch) \cup Sinks(Lists(h) \cap batch, labels)
        /\ \A h \in Listing : sinks \cap Lists(h) = {}
    BY ScattersRecord
  <1>3. DOMAIN at \subseteq Packets
    BY DEF StoreInv, TypeInv, PacketTypes
  <1>4. PICK P : Led(P)
    BY DEF StoreInv, LogicInv
  <1>5. /\ \A h \in Islands : Lists(h) \subseteq DOMAIN at
        /\ \A h \in Results : Lists(h) \cap DOMAIN at \subseteq Detected
    <2>1. \A h \in Islands : h \in Listing
      BY DEF Listing
    <2> QED BY <1>4, <2>1, ListsAre DEF RecordInv
  <1>6. \A q \in sinks : ParentOf(q) \in batch
    BY <1>1, <1>3, SinkOf
  <1>7. ASSUME NEW p \in batch PROVE \E q \in sinks : ParentOf(q) = p
    <2>1. PICK l \in labels : l \in OutLabels
      BY <1>1
    <2>2. SetSnowflake(p, l) \in sinks /\ p \in Packets
      BY <1>1, <1>3 DEF Sinks
    <2> QED BY <2>1, <2>2, ParentOfSink
  <1>8. ASSUME NEW h \in Islands
        PROVE  Lists(h)' = (Lists(h) \ batch) \cup {q \in sinks : ParentOf(q) \in Lists(h)}
    <2>1. ASSUME NEW q \in Sinks(Lists(h) \cap batch, labels)
          PROVE  q \in sinks /\ ParentOf(q) \in Lists(h)
      <3>1. q \in sinks
        BY DEF Sinks
      <3>2. Lists(h) \cap batch \subseteq Packets
        BY <1>1, <1>3
      <3> QED BY <1>1, <3>1, <3>2, SinkOf
    <2>2. ASSUME NEW q \in sinks, ParentOf(q) \in Lists(h)
          PROVE  q \in Sinks(Lists(h) \cap batch, labels)
      <3>1. PICK p \in batch, l \in labels : q = SetSnowflake(p, l)
        BY DEF Sinks
      <3>2. ParentOf(q) = p
        BY <1>1, <1>3, <3>1, ParentOfSink
      <3> QED BY <2>2, <3>1, <3>2 DEF Sinks
    <2> QED BY <1>2, <2>1, <2>2
  <1>9. IslandSets = {Lists(h) : h \in Islands} /\ IslandSets' = {Lists(h)' : h \in Islands'}
    BY DEF Mapped, ListedIslands
  <1>10. \A p \in batch : \E h \in Islands : p \in Lists(h)
    BY <1>1, UndetectedInIslands
  <1>11. (UNION IslandSets) \ (UNION IslandSets') = batch
    <2>1. ASSUME NEW p \in batch PROVE p \in UNION IslandSets /\ p \notin UNION IslandSets'
      <3>1. p \notin sinks
        BY <1>1
      <3>2. \A h \in Islands' : p \notin Lists(h)'
        BY <1>1, <1>8, <3>1
      <3> QED BY <1>9, <1>10, <3>2
    <2>2. ASSUME NEW p \in UNION IslandSets, p \notin batch PROVE p \in UNION IslandSets'
      <3>1. PICK h \in Islands : p \in Lists(h)
        BY <1>9
      <3>2. p \in Lists(h)' /\ h \in Islands'
        BY <1>1, <1>8, <2>2, <3>1
      <3> QED BY <1>9, <3>2
    <2> QED BY <2>1, <2>2
  <1>12. (UNION IslandSets') \ (UNION IslandSets) = sinks
    <2>1. ASSUME NEW q \in sinks PROVE q \in UNION IslandSets' /\ q \notin UNION IslandSets
      <3>1. PICK h \in Islands : ParentOf(q) \in Lists(h)
        BY <1>6, <1>10
      <3>2. q \in Lists(h)' /\ h \in Islands'
        BY <1>1, <1>8, <3>1
      <3>3. \A g \in Islands : q \notin Lists(g)
        BY <1>2 DEF Listing
      <3> QED BY <1>9, <3>2, <3>3
    <2>2. ASSUME NEW q \in UNION IslandSets', q \notin sinks PROVE q \in UNION IslandSets
      <3>1. PICK h \in Islands : q \in Lists(h)'
        BY <1>1, <1>9
      <3>2. q \in Lists(h)
        BY <1>8, <2>2, <3>1
      <3> QED BY <1>9, <3>2
    <2> QED BY <2>1, <2>2
  <1>13. IslandSets' = {(s \ batch) \cup {q \in sinks : ParentOf(q) \in s} : s \in IslandSets}
    <2>1. IslandSets' = {Lists(h)' : h \in Islands}
      BY <1>1, <1>9
    <2>2. ASSUME NEW r \in IslandSets'
          PROVE  \E s \in IslandSets : r = (s \ batch) \cup {q \in sinks : ParentOf(q) \in s}
      <3>1. PICK h \in Islands : r = Lists(h)'
        BY <2>1
      <3>2. Lists(h) \in IslandSets
        BY <1>9
      <3> QED BY <1>8, <3>1, <3>2
    <2>3. ASSUME NEW s \in IslandSets
          PROVE  (s \ batch) \cup {q \in sinks : ParentOf(q) \in s} \in IslandSets'
      <3>1. PICK h \in Islands : s = Lists(h)
        BY <1>9
      <3>2. Lists(h)' = (s \ batch) \cup {q \in sinks : ParentOf(q) \in s}
        BY <1>8, <3>1
      <3> QED BY <2>1, <3>2
    <2> QED BY <2>2, <2>3
  <1>14. sinks \cap Outcomes = {}
    BY <1>1 DEF Mapped, ListedOutcomes
  <1>15. Outcomes' = Outcomes
    <2>1. \A h \in Results : Lists(h)' \cap DOMAIN at' = Lists(h) \cap DOMAIN at
      <3>1. \A h \in Results : sinks \cap Lists(h) = {} /\ Lists(h) \cap batch = {}
        BY <1>1, <1>2, <1>5 DEF Listing
      <3> QED BY <1>1, <1>2, <3>1
    <2>2. ListedOutcomes' = ListedOutcomes
      BY <1>1, <2>1 DEF ListedOutcomes
    <2> QED BY <2>2 DEF Mapped
  <1>16. batch = {ParentOf(q) : q \in sinks}
    BY <1>6, <1>7
  <1>17. LET gone == (UNION IslandSets) \ (UNION IslandSets')
             new  == (UNION IslandSets') \ (UNION IslandSets)
         IN  /\ gone \cap Detected = {}
             /\ new \cap Outcomes = {}
             /\ gone = {ParentOf(q) : q \in new}
             /\ IslandSets' = {(s \ gone) \cup {q \in new : ParentOf(q) \in s} : s \in IslandSets}
             /\ UNCHANGED <<Detected, Outcomes>>
    <2> DEFINE gone == (UNION IslandSets) \ (UNION IslandSets')
               new  == (UNION IslandSets') \ (UNION IslandSets)
    <2>1. gone = batch /\ new = sinks
      BY <1>11, <1>12
    <2> HIDE DEF gone, new
    <2>2. gone \cap Detected = {} /\ new \cap Outcomes = {}
      BY <1>1, <1>14, <2>1
    <2>3. gone = {ParentOf(q) : q \in new}
      BY <1>16, <2>1
    <2>4. IslandSets' = {(s \ gone) \cup {q \in new : ParentOf(q) \in s} : s \in IslandSets}
      BY <1>13, <2>1
    <2> USE DEF gone, new
    <2> QED BY <1>1, <1>15, <2>2, <2>3, <2>4
  <1> QED BY <1>17 DEF Abstract!Scatter, Abstract!PacketsOf, IslandSets, Outcomes
-----------------------------------------------------------------------------

LEMMA MappedInit == Init => RecordInv /\ Abstract!Init
PROOF
  <1> SUFFICES ASSUME Init PROVE RecordInv /\ Abstract!Init
    OBVIOUS
  <1>1. StoreInv /\ Window = {} /\ DOMAIN at = {}
    BY StoreInvInit, EmptyRing DEF Init
  <1>2. Islands = {} /\ Results = {}
    BY <1>1 DEF Islands, Results, Live
  <1>3. RecordInv
    BY <1>2 DEF RecordInv, ListsApart, ListsSpent, Listing
  <1>4. IslandSets = {} /\ Outcomes = {} /\ Detected = {}
    BY <1>1, <1>2, StatesMapped DEF Mapped, ListedIslands, ListedOutcomes, Detected
  <1> QED BY <1>3, <1>4 DEF Abstract!Init, IslandSets, Outcomes

LEMMA StepImplements ==
    ASSUME StoreInv, RecordInv, RecordInv', Mapped, Mapped', ListsStep
    PROVE  [Abstract!Next]_Abstract!vars
PROOF
  <1>1. CASE Stutters
    <2>1. UNCHANGED <<IslandSets, Detected, Outcomes>>
      BY <1>1, StuttersImplements
    <2> QED BY <2>1 DEF Abstract!vars, IslandSets, Outcomes
  <1>2. CASE \E hs : Populates(hs)
    BY <1>2, PopulatesImplements DEF Abstract!Next
  <1>3. CASE \E hs : Measures(hs)
    BY <1>3, MeasuresImplements DEF Abstract!Next
  <1>4. CASE \E d, r : Joins(d, r)
    BY <1>4, JoinsImplements DEF Abstract!Next
  <1>5. CASE \E batch : Detects(batch)
    BY <1>5, DetectsImplements DEF Abstract!Next
  <1>6. CASE \E batch : Claims(batch)
    BY <1>6, ClaimsImplements DEF Abstract!Next
  <1>7. CASE \E batch, labels : Scatters(batch, labels)
    BY <1>7, ScattersImplements DEF Abstract!Next
  <1> QED BY <1>1, <1>2, <1>3, <1>4, <1>5, <1>6, <1>7 DEF ListsStep

LEMMA NextImplements ==
    StoreInv /\ Mapped /\ StoreInv' /\ Mapped' /\ RecordInv /\ [Next]_vars
      => RecordInv' /\ [Abstract!Next]_Abstract!vars
PROOF
  <1> SUFFICES ASSUME StoreInv, Mapped, StoreInv', Mapped', RecordInv, [Next]_vars
               PROVE  RecordInv' /\ [Abstract!Next]_Abstract!vars
    OBVIOUS
  <1>1. ListsStep
    BY NextKeeps
  <1>2. RecordInv'
    BY <1>1, RecordKeeps
  <1> QED BY <1>1, <1>2, StepImplements

\* No packet is listed twice, and the snowflake of a listed packet is not given
\* to another one while a result still lists it (interaction_store.rs:
\* merge_islands, get_states; snowflake.rs: next).
THEOREM RecordsCorrect == Spec => []RecordInv
PROOF
  <1>1. Init => RecordInv
    BY MappedInit
  <1>2. Spec => []StoreInv
    BY WaysCorrect
  <1>3. StoreInv => Mapped
    BY StatesMapped
  <1>4. StoreInv /\ Mapped /\ StoreInv' /\ Mapped' /\ RecordInv /\ [Next]_vars => RecordInv'
    BY NextImplements
  <1> QED BY <1>1, <1>2, <1>3, <1>4, PTL DEF Spec

\* The interaction store implements EntangledIslands: whatever the threads do
\* to cells, handles, slices and locks, and in whatever order, the nodes see
\* disjoint islands that only merge, are measured at once and as a whole, not
\* before their last packet is detected, and yield every packet's outcome once
\* (interaction_store.rs, epps.rs, single_port.rs, dual_port.rs, spd.rs).
THEOREM RefinementCorrect == Spec => ImplementsEntangledIslands
PROOF
  <1>1. Init => Abstract!Init
    BY MappedInit
  <1>2. Spec => []StoreInv
    BY WaysCorrect
  <1>3. StoreInv => Mapped
    BY StatesMapped
  <1>4. Spec => []RecordInv
    BY RecordsCorrect
  <1>5. StoreInv /\ Mapped /\ StoreInv' /\ Mapped' /\ RecordInv /\ [Next]_vars
          => [Abstract!Next]_Abstract!vars
    BY NextImplements
  <1> QED BY <1>1, <1>2, <1>3, <1>4, <1>5, PTL DEF Spec, ImplementsEntangledIslands, Abstract!Spec

\* No photon is measured twice, none is in two islands and none is lost between
\* them: a packet is in one island or has an outcome waiting, an island is never
\* empty, and what has an outcome was detected before (interaction_store.rs:
\* merge_islands, claim_collapsed_packets; spd.rs: process_batch).
THEOREM StorePacketsOnce == Spec => []Abstract!NoPacketTwice
PROOF
  <1>1. Abstract!Spec => []Abstract!NoPacketTwice
    BY Abstract!PacketsOnce
  <1> QED BY <1>1, RefinementCorrect, PTL DEF ImplementsEntangledIslands
=============================================================================
