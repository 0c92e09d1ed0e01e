---------------------------- MODULE MCNodePorts ----------------------------
(* Experiments with one delay line for TLC.  Times are in units of the     *)
(* pulse width: a packet reaches three units to each side.                 *)
EXTENDS NodePorts

Experiment(delay, bins, count) == [delay |-> delay, bins |-> bins, batches |-> count]

\* Idlers that meet their own signal, or the one before and the one after; and a
\* regular source with a delay about as long as the channels can hold.
Experiments_ ==
    {Experiment(2, {0, 1}, 3), Experiment(5, {0, 1}, 3), Experiment(5, {0, 2}, 3),
     Experiment(130, {1}, 12)}

OneWidth(n) == 1
=============================================================================
