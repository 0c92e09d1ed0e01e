---------------------------- MODULE OpenAddressSet ----------------------------
(***************************************************************************)
(* U32OpenAddressSet (util/set.rs), the set of handles that get_handles    *)
(* builds: open addressing with linear probing, growth at a load of 3/4,   *)
(* deletion by backward shift, and the sentinel u32::MAX as a key beside   *)
(* the table.                                                              *)
(***************************************************************************)
EXTENDS Integers, FiniteSets

CONSTANTS
    KeyCount,       \* keys are 0 .. KeyCount-1 (2^32 in the code)
    MinSlots,       \* slots of a new set (32 in the code)
    MaxSlots        \* bound: the set does not grow beyond it

ASSUME TableAssumption ==
    /\ KeyCount \in Nat /\ MinSlots \in Nat /\ MaxSlots \in Nat
    /\ 2 <= MinSlots /\ MinSlots <= MaxSlots /\ MaxSlots < KeyCount

Keys  == 0 .. KeyCount - 1
EMPTY == KeyCount - 1           \* u32::MAX

VARIABLES
    slots,      \* slot -> key or EMPTY
    len,        \* occupied slots
    has_max     \* is u32::MAX a member?

vars == <<slots, len, has_max>>

Cap(table)       == Cardinality(DOMAIN table)
EmptyTable(cap)  == [i \in 0 .. cap - 1 |-> EMPTY]
Home(x, table)   == x % Cap(table)
After(i, d, table) == (i + d) % Cap(table)

Init ==
    /\ slots = EmptyTable(MinSlots)
    /\ len = 0
    /\ has_max = FALSE

-----------------------------------------------------------------------------
\* Where linear probing for x ends: at x or at the first empty slot.
Stops(x, d, table) == table[After(Home(x, table), d, table)] \in {x, EMPTY}

Probe(x, table) ==
    LET d == CHOOSE d \in 0 .. Cap(table) - 1 :
               Stops(x, d, table) /\ \A e \in 0 .. d - 1 : ~ Stops(x, e, table)
    IN  After(Home(x, table), d, table)

Contains(x) == IF x = EMPTY THEN has_max ELSE slots[Probe(x, slots)] = x

\* The keys of the first `count' slots, inserted anew in the order of the old slots.
Rehashed(count) ==
    LET into[n \in 0 .. count] ==
          IF n = 0 THEN EmptyTable(2 * Cap(slots))
          ELSE IF slots[n - 1] = EMPTY THEN into[n - 1]
          ELSE [into[n - 1] EXCEPT ![Probe(slots[n - 1], into[n - 1])] = slots[n - 1]]
    IN  into[count]

\* grow
LastSlotForgotten == Rehashed(Cap(slots) - 1)   \* mutant

Grown == Rehashed(Cap(slots))

\* Is there room for one more key at a load of 3/4?
HasRoom == (len + 1) * 4 <= Cap(slots) * 3

Insert(x) ==
    /\ x # EMPTY
    /\ HasRoom \/ 2 * Cap(slots) <= MaxSlots
    /\ LET table == IF HasRoom THEN slots ELSE Grown
           i     == Probe(x, table)
       IN  /\ slots' = [table EXCEPT ![i] = x]
           /\ len' = IF table[i] = x THEN len ELSE len + 1
    /\ UNCHANGED has_max

InsertMax ==
    /\ has_max' = TRUE
    /\ UNCHANGED <<slots, len>>

\* May the key at slot j move back into the hole?  Only if its probe sequence
\* passes the hole.
AlwaysMoves(j, hole) == TRUE                    \* mutant

PassesHole(j, hole) ==
    (j - Home(slots[j], slots)) % Cap(slots) >= (j - hole) % Cap(slots)

\* The cluster behind slot i, up to the first empty slot, shifted back.
Shifted(i) ==
    LET cap == Cap(slots)
        run == CHOOSE k \in 1 .. cap :
                 /\ slots[After(i, k, slots)] = EMPTY
                 /\ \A e \in 1 .. k - 1 : slots[After(i, e, slots)] # EMPTY
        shift[k \in 0 .. run - 1] ==
          IF k = 0 THEN [table |-> slots, hole |-> i]
          ELSE LET before == shift[k - 1]
                   j      == After(i, k, slots)
               IN  IF PassesHole(j, before.hole)
                   THEN [table |-> [before.table EXCEPT ![before.hole] = slots[j]], hole |-> j]
                   ELSE before
        done == shift[run - 1]
    IN  [done.table EXCEPT ![done.hole] = EMPTY]

Remove(x) ==
    LET i == Probe(x, slots)
    IN  /\ x # EMPTY
        /\ slots[i] = x
        /\ slots' = Shifted(i)
        /\ len' = len - 1
        /\ UNCHANGED has_max

RemoveMax ==
    /\ has_max' = FALSE
    /\ UNCHANGED <<slots, len>>

Clear ==
    /\ slots' = EmptyTable(Cap(slots))
    /\ len' = 0
    /\ has_max' = FALSE

Next ==
    \/ \E x \in Keys : Insert(x) \/ Remove(x)
    \/ InsertMax \/ RemoveMax \/ Clear

Spec == Init /\ [][Next]_vars

-----------------------------------------------------------------------------
\* What iter() yields.
Members ==
    {slots[i] : i \in {j \in DOMAIN slots : slots[j] # EMPTY}}
      \cup (IF has_max THEN {EMPTY} ELSE {})

Occupied == {i \in DOMAIN slots : slots[i] # EMPTY}

\* Whatever was inserted, removed and shifted before, a lookup finds exactly
\* the keys that iter() yields, each of them once, and len() counts them; a
\* slot is always free, so that probing ends.
LookupExact ==
    /\ Occupied # DOMAIN slots
    /\ \A x \in Keys : Contains(x) <=> x \in Members
    /\ \A i, j \in Occupied : slots[i] = slots[j] => i = j
    /\ len = Cardinality(Occupied)

\* Every operation does to the members what it is called for: insert(x) adds x,
\* remove(x) takes x and no other key away, clear() all.  Growth and backward
\* shift, on the way, lose no key and bring none back.
OneKeyAtATime ==
    [][/\ \A x \in Keys : Insert(x) => Members' = Members \cup {x}
       /\ \A x \in Keys : Remove(x) => Members' = Members \ {x}
       /\ InsertMax => Members' = Members \cup {EMPTY}
       /\ RemoveMax => Members' = Members \ {EMPTY}
       /\ Clear     => Members' = {}]_vars
=============================================================================
