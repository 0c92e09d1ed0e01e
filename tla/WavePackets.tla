---------------------------- MODULE WavePackets ----------------------------
(***************************************************************************)
(* What time does to wavepackets (wavepacket/wp.rs) and how a beam         *)
(* splitter pairs the packets of its two ports (nodes/dual_port.rs,        *)
(* passes 1 and 3).  Pure operators on two sequences of packets, each a    *)
(* record with at least the fields time and sigma.                         *)
(***************************************************************************)
EXTENDS Integers, Sequences, FiniteSets, FiniteSetsExt

Sides       == {"left", "right"}
Other(side) == IF side = "left" THEN "right" ELSE "left"

\* Three sigma to each side, cut off at time 0.
LeadingEdge(wp)  == IF wp.time < 3 * wp.sigma THEN 0 ELSE wp.time - 3 * wp.sigma
TrailingEdge(wp) == wp.time + 3 * wp.sigma
Overlaps(a, b)   == LeadingEdge(a) < TrailingEdge(b) /\ LeadingEdge(b) < TrailingEdge(a)
IsStrictlyAfter(wp, reference) == LeadingEdge(wp) > reference

(***************************************************************************)
(* The passes visit the packets of both ports by time, of two at the same  *)
(* time the left one first.  <<side, i>> is the i-th packet of a port;     *)
(* wps is a function from sides to sequences of packets.                   *)
(***************************************************************************)
Visits(wps)    == UNION {{side} \X (1 .. Len(wps[side])) : side \in Sides}
Packet(wps, v) == wps[v[1]][v[2]]

VisitedFirst(wps, v, w) ==
    \/ Packet(wps, v).time < Packet(wps, w).time
    \/ Packet(wps, v).time = Packet(wps, w).time
       /\ IF v[1] = w[1] THEN v[2] < w[2] ELSE v[1] = "left"

\* late_index: the packets of the other port visited before v.
LateIndex(wps, v) ==
    Cardinality({j \in 1 .. Len(wps[Other(v[1])]) : VisitedFirst(wps, <<Other(v[1]), j>>, v)})

\* The inner loop from late_index on, which breaks at the first packet that
\* does not overlap.
PartnersOf(wps, v) ==
    LET late == wps[Other(v[1])]
        first == LateIndex(wps, v) + 1
    IN  {j \in first .. Len(late) :
            \A k \in first .. j : Overlaps(Packet(wps, v), late[k])}

\* Mutant: forgets that a packet without later partners may be a partner itself.
NoWatermark(wps, partners, v) == 0

\* high_watermark of v's port when v is visited: the last packet paired by the
\* last visit of the other port that paired any, or 0.
Watermark(wps, partners, v) ==
    LET other  == Other(v[1])
        makers == {i \in 1 .. Len(wps[other]) : /\ VisitedFirst(wps, <<other, i>>, v)
                                                /\ partners[<<other, i>>] # {}}
    IN  IF makers = {} THEN 0 ELSE Max(partners[<<other, Max(makers)>>])

\* Pass 3: a DualBivariate for each visited packet and partner, a DualUnivariate
\* for a packet that has no partner and was none.
DualOperators(wps) ==
    LET partners == [v \in Visits(wps) |-> PartnersOf(wps, v)]
    IN  [pairs |-> UNION {{<<v, <<Other(v[1]), j>>>> : j \in partners[v]} : v \in Visits(wps)},
         lone  |-> {v \in Visits(wps) :
                      partners[v] = {} /\ Watermark(wps, partners, v) < v[2]}]
=============================================================================
