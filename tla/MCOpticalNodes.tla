--------------------------- MODULE MCOpticalNodes ---------------------------
(* Small simulations for TLC: the topologies main.rs builds, cut down.     *)
EXTENDS OpticalNodes, TLC

CONSTANTS epps, single, bs, spdA, spdB, claimA, claimB

Entry(node, port) == [node |-> node, port |-> port]

\* simple_epps_2spd with a delay line in one arm.
DelayLineRoute ==
    <<epps, "signal">> :> Entry(spdA, "rx0") @@ <<epps, "idler">> :> Entry(single, "rx0")
      @@ <<single, "through">> :> Entry(spdB, "rx0")

\* hom_experiment without its delay lines: both photons of a pair meet at
\* the beam splitter, each output has a detector.
BeamSplitterRoute ==
    <<epps, "signal">> :> Entry(bs, "rx0") @@ <<epps, "idler">> :> Entry(bs, "rx1")
      @@ <<bs, "left">> :> Entry(spdA, "rx0") @@ <<bs, "right">> :> Entry(spdB, "rx0")

\* Pairs are created and arrive one after the other, and the signal of a pair
\* never after its idler.
PairOrder(p, q) ==
    \/ p.pair < q.pair
    \/ p.pair = q.pair /\ p.path[1] = "signal" /\ q.path[1] = "idler"

\* The idler's arm is longer: it comes after the signal of the next pair.
LongArm(p, q) ==
    LET arrival(r) == 2 * r.pair + (IF r.path[1] = "idler" THEN 3 ELSE 0)
    IN  arrival(p) < arrival(q)

\* How finely a node may cut the packets queued at it into batches.
Singly(t)       == 1
InPairs(t)      == 2
SplitterCuts(t) == IF t = bs THEN 1 ELSE 8
OneDetectorCuts(t) == IF t = spdA THEN 1 ELSE 4

MCClaimerOf == spdA :> claimA @@ spdB :> claimB
=============================================================================
