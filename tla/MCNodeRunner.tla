---------------------------- MODULE MCNodeRunner ----------------------------
(* simple_epps_2spd, with taggers, for TLC: with settings before, at and after *)
(* the start, with nodes that are stopped, and with the monitor.             *)
EXTENDS NodeRunner, TLC

CONSTANTS spd1, spd2

Experiment(profiles, start, stop, rounds, until) ==
    [profiles |-> profiles, start |-> start, stop |-> stop, rounds |-> rounds, until |-> until]
Experiments_ ==
    {Experiment(<<2, 0, 1>>, 1, <<>>, 0, 3), Experiment(<<>>, 0, <<spd2, EPPS, spd1>>, 0, 0),
     Experiment(<<>>, 0, <<>>, 1, 1)}
=============================================================================
