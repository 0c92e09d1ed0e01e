-------------------------- MODULE EntangledIslands --------------------------
(***************************************************************************)
(* What the interaction store promises to the nodes, without cells,        *)
(* handles, locks or threads: wavepackets live in disjoint islands of      *)
(* interaction; islands only ever merge; an island is measured at once and *)
(* not before its last packet is detected; every packet of a measured      *)
(* island yields its outcome once.                                         *)
(***************************************************************************)
EXTENDS TLAPS

CONSTANT
    Parent(_)       \* the packet a sink packet was scattered from

VARIABLES
    islands,        \* the set of islands, each the set of its packets
    detected,       \* packets a detector has terminated and nobody has claimed
    outcomes        \* packets of measured islands, outcome not yet claimed

vars == <<islands, detected, outcomes>>

PacketsOf(sets) == UNION sets

Disjoint(sets) == \A s, r \in sets : s # r => s \cap r = {}

Init == islands = {} /\ detected = {} /\ outcomes = {}

\* Sources emit new islands of new packets.
Emit ==
    LET new == islands' \ islands
    IN  /\ islands \subseteq islands'
        /\ Disjoint(new)
        /\ {} \notin new
        /\ PacketsOf(new) \cap (PacketsOf(islands) \cup outcomes) = {}
        /\ UNCHANGED <<detected, outcomes>>

\* Packets overlapping at a beam splitter entangle their islands.
Interfere ==
    /\ \E s, r \in islands :
         /\ s # r
         /\ islands' = (islands \ {s, r}) \cup {s \cup r}
    /\ UNCHANGED <<detected, outcomes>>

\* Packets not yet detected are replaced by new ones, in the same island.
Scatter ==
    LET gone == PacketsOf(islands) \ PacketsOf(islands')
        new  == PacketsOf(islands') \ PacketsOf(islands)
    IN  /\ gone \cap detected = {}
        /\ new \cap outcomes = {}
        /\ gone = {Parent(q) : q \in new}
        /\ islands' = {(s \ gone) \cup {q \in new : Parent(q) \in s} : s \in islands}
        /\ UNCHANGED <<detected, outcomes>>

Detect ==
    /\ detected \subseteq detected'
    /\ detected' \ detected \subseteq PacketsOf(islands)
    /\ UNCHANGED <<islands, outcomes>>

\* Islands are measured as a whole, and only when all is detected.
Measure ==
    LET done == islands \ islands'
    IN  /\ islands' \subseteq islands
        /\ PacketsOf(done) \subseteq detected
        /\ outcomes' = outcomes \cup PacketsOf(done)
        /\ UNCHANGED detected

Claim ==
    /\ outcomes' \subseteq outcomes
    /\ detected' = detected \ (outcomes \ outcomes')
    /\ UNCHANGED islands

Next == Emit \/ Interfere \/ Scatter \/ Detect \/ Measure \/ Claim

Spec == Init /\ [][Next]_vars

\* A packet is in one island or has an outcome, never in two places, and only
\* detected packets have outcomes: no photon is measured twice.
NoPacketTwice ==
    /\ Disjoint(islands)
    /\ {} \notin islands
    /\ PacketsOf(islands) \cap outcomes = {}
    /\ outcomes \subseteq detected
    /\ detected \subseteq PacketsOf(islands) \cup outcomes

-----------------------------------------------------------------------------
(* What follows from the promise alone.                                    *)

\* Scattering keeps islands apart: every new packet is in the island of the
\* packet it comes from and in no other.
LEMMA ScatterKeeps ==
    ASSUME NoPacketTwice, Scatter
    PROVE  NoPacketTwice'
PROOF
  <1> USE DEF PacketsOf
  <1> DEFINE gone == PacketsOf(islands) \ PacketsOf(islands')
             new  == PacketsOf(islands') \ PacketsOf(islands)
             after(s) == (s \ gone) \cup {q \in new : Parent(q) \in s}
  <1>1. /\ gone \cap detected = {}
        /\ new \cap outcomes = {}
        /\ gone = {Parent(q) : q \in new}
        /\ islands' = {after(s) : s \in islands}
        /\ UNCHANGED <<detected, outcomes>>
    BY DEF Scatter
  <1>2. \A s \in islands : s \cap new = {}
    OBVIOUS
  <1> HIDE DEF gone, new
  <1>3. Disjoint(islands')
    <2>1. ASSUME NEW s \in islands, NEW r \in islands, NEW p \in after(s), p \in after(r)
          PROVE  s = r
      <3>1. CASE p \in new
        BY <1>2, <2>1, <3>1 DEF NoPacketTwice, Disjoint
      <3>2. CASE p \notin new
        BY <2>1, <3>2 DEF NoPacketTwice, Disjoint
      <3> QED BY <3>1, <3>2
    <2> HIDE DEF after
    <2>2. ASSUME NEW s1 \in islands', NEW s2 \in islands', s1 # s2
          PROVE  s1 \cap s2 = {}
      <3>1. PICK s \in islands, r \in islands : s1 = after(s) /\ s2 = after(r)
        BY <1>1
      <3>2. s # r
        BY <2>2, <3>1
      <3> QED BY <2>1, <3>1, <3>2
    <2> QED BY <2>2 DEF Disjoint
  <1>4. {} \notin islands'
    <2>1. ASSUME NEW s \in islands
          PROVE  after(s) # {}
      <3>1. PICK p \in s : TRUE
        BY DEF NoPacketTwice
      <3>2. CASE p \in gone
        <4>1. PICK q \in new : p = Parent(q)
          BY <1>1, <3>2
        <4> QED BY <3>1, <4>1
      <3>3. CASE p \notin gone
        BY <3>1, <3>3
      <3> QED BY <3>2, <3>3
    <2> HIDE DEF after
    <2> QED BY <1>1, <2>1
  <1>5. PacketsOf(islands') \subseteq PacketsOf(islands) \cup new
    BY <1>1
  <1>6. PacketsOf(islands) \subseteq PacketsOf(islands') \cup gone
    BY DEF gone
  <1> QED BY <1>1, <1>3, <1>4, <1>5, <1>6 DEF NoPacketTwice

LEMMA EmitKeeps ==
    ASSUME NoPacketTwice, Emit
    PROVE  NoPacketTwice'
PROOF
  <1> USE DEF PacketsOf
  <1> DEFINE new == islands' \ islands
  <1>1. /\ islands' = islands \cup new
        /\ Disjoint(new)
        /\ {} \notin new
        /\ PacketsOf(new) \cap (PacketsOf(islands) \cup outcomes) = {}
        /\ UNCHANGED <<detected, outcomes>>
    BY DEF Emit
  <1> HIDE DEF new
  <1>2. \A s \in islands, r \in new : s \cap r = {}
    BY <1>1
  <1>3. Disjoint(islands')
    BY <1>1, <1>2 DEF NoPacketTwice, Disjoint
  <1>4. PacketsOf(islands') = PacketsOf(islands) \cup PacketsOf(new)
    BY <1>1
  <1> QED BY <1>1, <1>3, <1>4 DEF NoPacketTwice

LEMMA InterfereKeeps ==
    ASSUME NoPacketTwice, Interfere
    PROVE  NoPacketTwice'
PROOF
  <1> USE DEF PacketsOf
  <1>1. PICK s \in islands, r \in islands :
          s # r /\ islands' = (islands \ {s, r}) \cup {s \cup r}
    BY DEF Interfere
  <1>2. UNCHANGED <<detected, outcomes>>
    BY DEF Interfere
  <1>3. PacketsOf(islands') = PacketsOf(islands)
    BY <1>1
  <1>4. \A x \in islands \ {s, r} : x \cap (s \cup r) = {}
    BY <1>1 DEF NoPacketTwice, Disjoint
  <1>5. Disjoint(islands')
    BY <1>1, <1>4 DEF NoPacketTwice, Disjoint
  <1>6. {} \notin islands'
    BY <1>1 DEF NoPacketTwice
  <1> QED BY <1>2, <1>3, <1>5, <1>6 DEF NoPacketTwice

LEMMA MeasureKeeps ==
    ASSUME NoPacketTwice, Measure
    PROVE  NoPacketTwice'
PROOF
  <1> USE DEF PacketsOf
  <1> DEFINE done == islands \ islands'
  <1>1. /\ islands' \subseteq islands
        /\ PacketsOf(done) \subseteq detected
        /\ outcomes' = outcomes \cup PacketsOf(done)
        /\ UNCHANGED detected
    BY DEF Measure
  <1>2. PacketsOf(islands') \cap PacketsOf(done) = {}
    BY <1>1 DEF NoPacketTwice, Disjoint
  <1>3. PacketsOf(islands) = PacketsOf(islands') \cup PacketsOf(done)
    BY <1>1
  <1>4. Disjoint(islands') /\ {} \notin islands'
    BY <1>1 DEF NoPacketTwice, Disjoint
  <1> HIDE DEF done
  <1> QED BY <1>1, <1>2, <1>3, <1>4 DEF NoPacketTwice

\* Whoever keeps the store's promise never measures a photon twice and never
\* has it in two islands.  OpticalNodes keeps it (ImplementsEntangledIslands).
THEOREM PacketsOnce == Spec => []NoPacketTwice
PROOF
  <1> USE DEF PacketsOf
  <1>1. Init => NoPacketTwice
    BY DEF Init, NoPacketTwice, Disjoint
  <1>2. NoPacketTwice /\ [Next]_vars => NoPacketTwice'
    <2> SUFFICES ASSUME NoPacketTwice, [Next]_vars
                 PROVE  NoPacketTwice'
      OBVIOUS
    <2>1. CASE Detect
      BY <2>1 DEF Detect, NoPacketTwice
    <2>2. CASE Claim
      BY <2>2 DEF Claim, NoPacketTwice
    <2>3. CASE UNCHANGED vars
      BY <2>3 DEF vars, NoPacketTwice, Disjoint
    <2> QED
      BY <2>1, <2>2, <2>3, EmitKeeps, InterfereKeeps, ScatterKeeps, MeasureKeeps DEF Next
  <1> QED BY <1>1, <1>2, PTL DEF Spec
=============================================================================
