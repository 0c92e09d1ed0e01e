---------------------------- MODULE MCCollapser ----------------------------
(* Islands for TLC: what the nodes push onto an island for small numbers   *)
(* of pairs.  A packet carries the mode it occupies, which is its history. *)
EXTENDS Collapser, WavePackets, TLC

Wp(mode, time, sigma)           == [mode |-> mode, time |-> time, sigma |-> sigma]
Operation(kind, sources, sinks) == [kind |-> kind, sources |-> sources, sinks |-> sinks]
SinkModes(mode)                 == <<Append(mode, "l"), Append(mode, "r")>>

Signal(n) == <<ToString(n), "s">>
Idler(n)  == <<ToString(n), "i">>
Pairs(count) == [n \in 1 .. count |-> Operation("EPPS", <<>>, <<Signal(n), Idler(n)>>)]

\* process_batch of a beam splitter: its operators in the order of the visits,
\* and the packets that leave at an exit.
InOrder(wps) == SetToSortSeq(Visits(wps), LAMBDA v, w : VisitedFirst(wps, v, w))
OperatorsAt(wps, made, v) ==
    LET early == Packet(wps, v).mode
        late  == SetToSortSeq({pair[2][2] : pair \in {p \in made.pairs : p[1] = v}}, <)
        mode(j) == wps[Other(v[1])][late[j]].mode
    IN  IF v \in made.lone
        THEN <<Operation("DualUnivariate", <<early>>, SinkModes(early))>>
        ELSE [j \in DOMAIN late |-> Operation("DualBivariate", <<early, mode(j)>>,
                                              SinkModes(early) \o SinkModes(mode(j)))]
DualOps(wps) ==
    LET made  == DualOperators(wps)
        order == InOrder(wps)
    IN  FlattenSeq([i \in DOMAIN order |-> OperatorsAt(wps, made, order[i])])
Leaving(wps, exit) ==
    LET order == InOrder(wps)
        source(i) == Packet(wps, order[i])
    IN  [i \in DOMAIN order |-> [source(i) EXCEPT !.mode = SinkModes(@)[exit]]]

DetectorOps(wps) == [i \in DOMAIN wps |-> Operation("SPD", <<wps[i].mode>>, <<>>)]

\* A delay line.
Delayed(wps, delay) == [i \in DOMAIN wps |->
    [wps[i] EXCEPT !.mode = Append(@, "d"), !.time = @ + delay]]
DelayOps(wps) == [i \in DOMAIN wps |->
    Operation("Single", <<wps[i].mode>>, <<Append(wps[i].mode, "d")>>)]

Ports(left, right) == [side \in Sides |-> IF side = "left" THEN left ELSE right]
BothDetected(ports) == DetectorOps(Leaving(ports, 1)) \o DetectorOps(Leaving(ports, 2))

\* The packets of one island are connected by interference.
OneIsland(ops) ==
    LET links == [i \in DOMAIN ops |->
                    CASE ops[i].kind = "EPPS"          -> {ToSet(ops[i].sinks)}
                      [] ops[i].kind = "DualBivariate" -> {ToSet(ops[i].sources)}
                      [] OTHER                         -> {}]
        parts[n \in 0 .. Len(ops)] ==
            IF n = 0 THEN {}
            ELSE IF links[n] = {} THEN parts[n - 1] ELSE Merge(parts[n - 1], UNION links[n])
    IN  Cardinality(parts[Len(ops)]) = 1

\* hom_experiment: signals at 0, 4, 8 .., idlers later by a delay of their own.
HomPorts(count, spacing, delays) ==
    Ports([n \in 1 .. count |-> Wp(Signal(n), spacing * n, 1)],
          [n \in 1 .. count |-> Wp(Idler(n), spacing * n + delays, 1)])
HomIsland(ports, count) == Pairs(count) \o DualOps(ports) \o BothDetected(ports)
HomIslands ==
    {island \in {HomIsland(HomPorts(count, spacing, delay), count) :
                    count \in 1 .. 3, spacing \in {1, 3, 5}, delay \in {0, 2, 4, 8}} :
        OneIsland(island)}

\* An interferometer of two beam splitters, with a delay in one arm.
MachZehnder(offset, delay) ==
    LET first  == Ports(<<Wp(Signal(1), 10, 1)>>, <<Wp(Idler(1), 10 + offset, 1)>>)
        arm    == Leaving(first, 2)
        second == Ports(Leaving(first, 1), Delayed(arm, delay))
    IN  Pairs(1) \o DualOps(first) \o DelayOps(arm) \o DualOps(second) \o BothDetected(second)
MachZehnders == {MachZehnder(offset, delay) : offset \in {0, 5}, delay \in {0, 1, 5}}

\* collapse() does not rely on the order in which a beam splitter pairs its
\* packets: the pairs of a chain of three in any order.
Reordered(ops) ==
    LET pairing == {i \in DOMAIN ops : ops[i].kind = "DualBivariate"}
    IN  {[i \in DOMAIN ops |-> IF i \in pairing THEN ops[f[i]] ELSE ops[i]] :
            f \in {g \in [pairing -> pairing] : \A i, j \in pairing : i # j => g[i] # g[j]}}
ChainIslands == Reordered(HomIsland(HomPorts(3, 7, 4), 3))

Islands_ == HomIslands \cup MachZehnders \cup ChainIslands
=============================================================================
