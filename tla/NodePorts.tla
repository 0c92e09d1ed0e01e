----------------------------- MODULE NodePorts -----------------------------
(***************************************************************************)
(* Time in the optical nodes.  A source sends the two photons of its pairs *)
(* in batches (nodes/epps.rs), the idlers pass a delay line                *)
(* (nodes/single_port.rs), and a beam splitter must find every two packets *)
(* of its ports that overlap (nodes/dual_port.rs), although the periods    *)
(* its ports receive are cut at different times and it knows the future of *)
(* a port only from the end of the period it has (RxPort in                *)
(* wavepacket/wp.rs).  The threads are connected by bounded channels.      *)
(*                                                                         *)
(* This is hom_experiment (main.rs) with one delay line; what leaves the   *)
(* beam splitter is recorded in "scattered" and never blocks it.           *)
(***************************************************************************)
EXTENDS WavePackets, SequencesExt

CONSTANTS
    Experiments,   \* [delay, bins, batches]: delay of the idlers, possible gaps between
                   \* pulses in pump periods, bound on the batches of the source
    PumpPeriod,
    SigmaOf(_),    \* pulse width of the n-th pair (SetWaveProfile may change it)
    BatchPeriod,   \* config.batch.period
    MaxSize,       \* config.batch.max_size
    ChannelSize    \* sync_channel(3)

ASSUME PortsAssumption ==
    /\ PumpPeriod \in Nat /\ BatchPeriod \in Nat
    /\ MaxSize \in Nat \ {0} /\ ChannelSize \in Nat \ {0}
    /\ \A e \in Experiments : e.delay \in Nat /\ e.batches \in Nat /\ e.bins \subseteq Nat

Inputs  == {"delay", "left", "right"}   \* the ports: of the delay line, of the beam splitter
Getters == {"delay", "dual"}
Senders == {"epps", "delay"}

WpBatch(start, end, wps) == [start |-> start, end |-> end, wps |-> wps]

VARIABLES
    setup,      \* the experiment
    time,       \* runner.time of the source
    batches,    \* batches it made
    generated,  \* pairs it made
    channel,    \* input -> batches in its channel
    port,       \* input -> RxPort: period (rest of current_period), start, end, current
    batch,      \* input -> the batch a node collects from it
    timeout,    \* getter -> batch_constraint.timeout
    endTime,    \* end_time in process_batch of the beam splitter
    outbox,     \* sender -> send_batch calls still to be made
    pc,         \* getter -> place in process_batch
    scattered   \* history: what the beam splitter did with each of its batches

vars == <<setup, time, batches, generated, channel, port, batch, timeout, endTime,
          outbox, pc, scattered>>

Init ==
    /\ setup \in Experiments
    /\ time = 0 /\ batches = 0 /\ generated = 0
    /\ channel = [r \in Inputs |-> <<>>]
    /\ port = [r \in Inputs |-> [period |-> <<>>, start |-> 0, end |-> 0, current |-> 0]]
    /\ batch = [r \in Inputs |-> WpBatch(0, 0, <<>>)]
    /\ timeout = [t \in Getters |-> 0]
    /\ endTime = 0
    /\ outbox = [t \in Senders |-> <<>>]
    /\ pc = [t \in Getters |-> "idle"]
    /\ scattered = <<>>

-----------------------------------------------------------------------------
(* Senders                                                                 *)

\* The next of a thread's send_batch calls; it blocks while the channel is full.
\* Mutants: the bound of the channel is off by one.
RoomForOneMore(r) == Len(channel[r]) <= ChannelSize
RoomForOneLess(r) == Len(channel[r]) < ChannelSize - 1
HasRoom(r) == Len(channel[r]) < ChannelSize
Send(t) ==
    /\ outbox[t] # <<>>
    /\ HasRoom(Head(outbox[t]).to)
    /\ channel' = [channel EXCEPT ![Head(outbox[t]).to] = Append(@, Head(outbox[t]).batch)]
    /\ outbox' = [outbox EXCEPT ![t] = Tail(@)]
    /\ UNCHANGED <<setup, time, batches, generated, port, batch, timeout, endTime, pc, scattered>>

\* Times of the pulses that the given gaps lead to, and whether the loop of
\* the source makes just these.
Pulses(gaps) ==
    LET at[i \in 0 .. Len(gaps)] == IF i = 0 THEN time ELSE at[i-1] + PumpPeriod * gaps[i]
    IN  [i \in 1 .. Len(gaps) |-> at[i]]
FillsBatch(pulses) ==
    /\ pulses # <<>>
    /\ \A i \in 1 .. Len(pulses) - 1 : pulses[i] <= time + BatchPeriod
    /\ Len(pulses) = MaxSize \/ pulses[Len(pulses)] > time + BatchPeriod

\* "since", the start of the batch it was made in, is kept for the properties.
EmittedPacket(n, pulse) ==
    [pair |-> n, time |-> pulse, sigma |-> SigmaOf(n), since |-> time]

\* process_batch of the source.
Generate ==
    /\ outbox["epps"] = <<>> /\ batches < setup.batches
    /\ \E gaps \in BoundedSeq(setup.bins, MaxSize) :
        LET pulses == Pulses(gaps)
            wps    == [i \in 1 .. Len(gaps) |-> EmittedPacket(generated + i, pulses[i])]
            period == WpBatch(time, pulses[Len(gaps)], wps)
        IN  /\ FillsBatch(pulses)
            /\ time' = period.end
            /\ generated' = generated + Len(gaps)
            /\ outbox' = [outbox EXCEPT !["epps"] = <<[to |-> "left", batch |-> period],
                                                      [to |-> "delay", batch |-> period]>>]
    /\ batches' = batches + 1
    /\ UNCHANGED <<setup, channel, port, batch, timeout, endTime, pc, scattered>>

-----------------------------------------------------------------------------
(* RxPort                                                                  *)

\* The port after k packets are taken from its current period, with the clock
\* at the next packet or, if there is none, at the end of the period.
Advanced(p, k) ==
    LET rest == SubSeq(p.period, k + 1, Len(p.period))
    IN  [p EXCEPT !.period = rest,
                  !.current = IF rest = <<>> THEN p.end ELSE LeadingEdge(Head(rest))]

\* recv(): the next period from the channel; blocks while there is none.
Recv(r) == [port[r] EXCEPT !.period = Head(channel[r]).wps,
                           !.start = Head(channel[r]).start, !.end = Head(channel[r]).end]
Receive(r) ==
    /\ channel[r] # <<>>
    /\ channel' = [channel EXCEPT ![r] = Tail(@)]
    /\ port' = [port EXCEPT ![r] = Recv(r)]

\* How many packets of the current period get_batch takes.
Takable(t, r) ==
    Max({k \in 0 .. Len(port[r].period) :
            /\ Len(batch[r].wps) + k <= MaxSize
            /\ \A i \in 1 .. k : LeadingEdge(port[r].period[i]) <= timeout[t]})

\* get_batch ends at a packet after the timeout, at the size of a batch, or as
\* soon as the period is known to reach beyond the timeout.
BatchComplete(t, r) ==
    \/ Takable(t, r) < Len(port[r].period)
    \/ Len(batch[r].wps) + Takable(t, r) = MaxSize
    \/ timeout[t] < port[r].end

GetBatch(t, r, next) ==
    LET k   == Takable(t, r)
        got == SubSeq(port[r].period, 1, k)
        now == Advanced(port[r], k)
    IN  \/ /\ BatchComplete(t, r)
           /\ port' = [port EXCEPT ![r] = now]
           /\ batch' = [batch EXCEPT ![r].wps = @ \o got, ![r].end = now.current]
           /\ pc' = [pc EXCEPT ![t] = next]
           /\ UNCHANGED channel
        \/ /\ ~BatchComplete(t, r)
           /\ Receive(r)
           /\ batch' = [batch EXCEPT ![r].wps = @ \o got]
           /\ UNCHANGED pc

-----------------------------------------------------------------------------
(* The delay line                                                          *)

NewBatch(r) == WpBatch(port[r].current, 0, <<>>)

StartDelay ==
    /\ pc["delay"] = "idle" /\ outbox["delay"] = <<>>
    /\ timeout' = [timeout EXCEPT !["delay"] = port["delay"].current + BatchPeriod]
    /\ batch' = [batch EXCEPT !["delay"] = NewBatch("delay")]
    /\ pc' = [pc EXCEPT !["delay"] = "get"]
    /\ UNCHANGED <<setup, time, batches, generated, channel, port, endTime, outbox, scattered>>

GetDelay ==
    /\ pc["delay"] = "get"
    /\ GetBatch("delay", "delay", "transmit")
    /\ UNCHANGED <<setup, time, batches, generated, timeout, endTime, outbox, scattered>>

DelayedPacket(wp) == [wp EXCEPT !.time = @ + setup.delay, !.since = @ + setup.delay]

Transmit ==
    /\ pc["delay"] = "transmit"
    /\ LET b == batch["delay"]
           wps == [i \in 1 .. Len(b.wps) |-> DelayedPacket(b.wps[i])]
       IN  outbox' = [outbox EXCEPT !["delay"] =
               <<[to |-> "right", batch |-> WpBatch(b.start + setup.delay, b.end + setup.delay, wps)]>>]
    /\ batch' = [batch EXCEPT !["delay"] = WpBatch(0, 0, <<>>)]
    /\ pc' = [pc EXCEPT !["delay"] = "idle"]
    /\ UNCHANGED <<setup, time, batches, generated, channel, port, timeout, endTime, scattered>>

-----------------------------------------------------------------------------
(* The beam splitter                                                       *)

StartDual ==
    /\ pc["dual"] = "idle"
    /\ timeout' = [timeout EXCEPT !["dual"] =
                     Min({port["left"].current, port["right"].current}) + BatchPeriod]
    /\ batch' = [batch EXCEPT !["left"] = NewBatch("left"), !["right"] = NewBatch("right")]
    /\ pc' = [pc EXCEPT !["dual"] = "getLeft"]
    /\ UNCHANGED <<setup, time, batches, generated, channel, port, endTime, outbox, scattered>>

GetLeft ==
    /\ pc["dual"] = "getLeft"
    /\ GetBatch("dual", "left", "getRight")
    /\ UNCHANGED <<setup, time, batches, generated, timeout, endTime, outbox, scattered>>

\* Mutant: announces what only one of the ports has reached.
LaterEnd(left, right)   == Max({left.end, right.end})
EarlierEnd(left, right) == Min({left.end, right.end})

GetRight ==
    /\ pc["dual"] = "getRight"
    /\ GetBatch("dual", "right", "pullRight")
    /\ endTime' = EarlierEnd(batch'["left"], batch'["right"])
    /\ UNCHANGED <<setup, time, batches, generated, timeout, outbox, scattered>>

\* WpBatch::trailing_edge
BatchTrailingEdge(b) == IF b.wps = <<>> THEN b.end ELSE TrailingEdge(Last(b.wps))

\* WpBatch::push of the packets taken; end_time is raised to their times.
Pushed(b, got) ==
    IF got = <<>> THEN b ELSE [b EXCEPT !.wps = @ \o got, !.end = LeadingEdge(Last(got))]
RaisedEnd(got) == Max({endTime} \cup {got[i].time : i \in 1 .. Len(got)})

\* The calls of get_overlapping_or_before on one port until it returns None.
\* A period that starts after the reference is not looked into.
Pull(r, next) ==
    LET reference == BatchTrailingEdge(batch[Other(r)])
        p    == port[r]
        k    == Max({j \in 0 .. Len(p.period) :
                        \A i \in 1 .. j : ~IsStrictlyAfter(p.period[i], reference)})
        got  == SubSeq(p.period, 1, k)
        done == k < Len(p.period) \/ reference < p.end
        now  == IF k = 0 THEN p ELSE Advanced(p, k)
    IN  /\ batch' = [batch EXCEPT ![r] = Pushed(@, got)]
        /\ endTime' = RaisedEnd(got)
        /\ \/ /\ done
              /\ port' = [port EXCEPT ![r] = now]
              /\ pc' = [pc EXCEPT !["dual"] = next]
              /\ UNCHANGED channel
           \/ /\ ~done
              /\ channel[r] # <<>>
              /\ channel' = [channel EXCEPT ![r] = Tail(@)]
              /\ port' = [port EXCEPT ![r] = [Recv(r) EXCEPT !.current = now.current]]
              /\ pc' = [pc EXCEPT !["dual"] = IF reference < Head(channel[r]).start THEN next ELSE @]

PullRight ==
    /\ pc["dual"] = "pullRight"
    /\ Pull("right", "pullLeft")
    /\ UNCHANGED <<setup, time, batches, generated, timeout, outbox, scattered>>

PullLeft ==
    /\ pc["dual"] = "pullLeft"
    /\ Pull("left", "check")
    /\ UNCHANGED <<setup, time, batches, generated, timeout, outbox, scattered>>

\* is_strictly_after on the right port ends the loop or starts it again.
\* Mutant: leaves the loop after one round.
OneRound(p, reference) == TRUE
AllAfter(p, reference) ==
    IF p.period # <<>> THEN IsStrictlyAfter(Head(p.period), reference) ELSE TRUE

Check ==
    LET reference == BatchTrailingEdge(batch["left"])
        p == port["right"]
    IN  /\ pc["dual"] = "check"
        /\ \/ /\ p.period # <<>> \/ reference < p.end
              /\ pc' = [pc EXCEPT !["dual"] =
                          IF AllAfter(p, reference) THEN "scatter" ELSE "pullRight"]
              /\ UNCHANGED <<channel, port>>
           \/ /\ p.period = <<>> /\ reference >= p.end
              /\ Receive("right")
              /\ pc' = [pc EXCEPT !["dual"] =
                          IF reference < Head(channel["right"]).start THEN "scatter" ELSE @]
        /\ UNCHANGED <<setup, time, batches, generated, batch, timeout, endTime, outbox, scattered>>

\* Passes 1 to 3 and the sends.
Scatter ==
    /\ pc["dual"] = "scatter"
    /\ LET wps == [side \in Sides |-> batch[side].wps]
       IN  scattered' = Append(scattered,
               [wps |-> wps, end |-> endTime, operators |-> DualOperators(wps)])
    /\ batch' = [r \in Inputs |-> IF r \in Sides THEN WpBatch(0, 0, <<>>) ELSE batch[r]]
    /\ endTime' = 0
    /\ pc' = [pc EXCEPT !["dual"] = "idle"]
    /\ UNCHANGED <<setup, time, batches, generated, channel, port, timeout, outbox>>

Dual == StartDual \/ GetLeft \/ GetRight \/ PullRight \/ PullLeft \/ Check \/ Scatter
Delay == StartDelay \/ GetDelay \/ Transmit \/ Send("delay")
EPPS == Generate \/ Send("epps")

Next == EPPS \/ Delay \/ Dual

Spec     == Init /\ [][Next]_vars
FairSpec == Spec /\ WF_vars(EPPS) /\ WF_vars(Delay) /\ WF_vars(Dual)
-----------------------------------------------------------------------------
(* Properties                                                              *)

WavePacket == [pair : Nat, time : Nat, sigma : Nat, since : Nat]
Batch      == [start : Nat, end : Nat, wps : Seq(WavePacket)]

\* Types; also that no channel holds more than its bound (core.rs:196) and no
\* thread has more sends outstanding than exit ports.
TypeOK ==
    /\ setup \in Experiments
    /\ time \in Nat /\ batches \in 0 .. setup.batches /\ generated \in Nat
    /\ \A r \in Inputs :
        /\ channel[r] \in Seq(Batch) /\ Len(channel[r]) <= ChannelSize
        /\ port[r] \in [period : Seq(WavePacket), start : Nat, end : Nat, current : Nat]
        /\ batch[r] \in Batch
    /\ timeout \in [Getters -> Nat] /\ endTime \in Nat
    /\ outbox \in [Senders -> Seq([to : Inputs, batch : Batch])]
    /\ Len(outbox["epps"]) <= 2 /\ Len(outbox["delay"]) <= 1
    /\ pc \in [Getters -> {"idle", "get", "transmit", "getLeft", "getRight", "pullRight",
                          "pullLeft", "check", "scatter"}]
    /\ \A n \in 1 .. Len(scattered) :
          /\ scattered[n].wps \in [Sides -> Seq(WavePacket)] /\ scattered[n].end \in Nat
          /\ scattered[n].operators.lone \subseteq Visits(scattered[n].wps)
          /\ \A e \in scattered[n].operators.pairs : {e[1], e[2]} \subseteq Visits(scattered[n].wps)

\* Packets of a side in the n-th batch of the beam splitter, or of both sides.
Passed(n, side) == ToSet(scattered[n].wps[side])
PassedBoth(n)   == Passed(n, "left") \cup Passed(n, "right")

\* A packet that reaches back before the period it came in (a pulse at the very
\* time of the last one of the period before): the port could not announce it.
Unannounced(wp) == LeadingEdge(wp) < wp.since

Scatters == scattered' # scattered

\* Overlapping packets of the two ports, the earlier one of them in a batch
\* before the n-th and the other one in the n-th.
SeparatedAt(n) ==
    {ab \in UNION {Passed(m, side) \X Passed(n, Other(side)) : m \in 1 .. n - 1, side \in Sides} :
        Overlaps(ab[1], ab[2])}

\* The loop over the two ports brings all overlapping packets into one batch,
\* however their periods were cut, unless one was not announced by its port
\* (dual_port.rs:113-133, wp.rs:184-248).
ClusterKept ==
    [][Scatters => \A ab \in SeparatedAt(Len(scattered))' : Unannounced(ab[1]) \/ Unannounced(ab[2])]_scattered

\* "We don't want any packet clusters (island of interaction) cross batch
\* boundary" (dual_port.rs:109-110).
NoClusterCut == [][Scatters => SeparatedAt(Len(scattered))' = {}]_scattered

\* Pass 3 makes one bivariate operator for every overlapping pair of a batch, and
\* a univariate one exactly for the packets that overlap none
\* (dual_port.rs:207-257).
OverlappingPairs(wps) ==
    {e \in (1 .. Len(wps["left"])) \X (1 .. Len(wps["right"])) :
        Overlaps(wps["left"][e[1]], wps["right"][e[2]])}
AsLeftRight(pair) ==
    IF pair[1][1] = "left" THEN <<pair[1][2], pair[2][2]>> ELSE <<pair[2][2], pair[1][2]>>
Exact(s) ==
    LET overlapping == OverlappingPairs(s.wps)
    IN  /\ {AsLeftRight(pair) : pair \in s.operators.pairs} = overlapping
        /\ Cardinality(s.operators.pairs) = Cardinality(overlapping)
        /\ s.operators.lone = {v \in Visits(s.wps) :
                        \A e \in overlapping : e[IF v[1] = "left" THEN 1 ELSE 2] # v[2]}
OperatorsExact == [][Scatters => Exact(Last(scattered'))]_scattered

\* No packet is lost, repeated or overtaken on its way through channels, ports
\* and batches: the beam splitter passes the packets of each port in the order
\* of the source, and nothing comes after the end time it announced for an
\* earlier batch (wp.rs:120-126, dual_port.rs:104-133).
InSourceOrder(wps, before) == \A i \in 1 .. Len(wps) : wps[i].pair = before + i
SinkInOrder ==
    [][Scatters =>
       LET last == Last(scattered')
       IN  /\ \A side \in Sides :
                 InSourceOrder(last.wps[side],
                               Cardinality(UNION {Passed(m, side) : m \in 1 .. Len(scattered)}))
           /\ \A m \in 1 .. Len(scattered), wp \in UNION {ToSet(last.wps[side]) : side \in Sides} :
                 /\ wp.time >= scattered[m].end
                 /\ \A earlier \in PassedBoth(m) : earlier.time <= wp.time]_scattered

\* The source is never stopped for good by full channels: nodes do not wait for
\* each other in a circle (core.rs:196).
SourceGoesOn == <>(batches = setup.batches /\ outbox["epps"] = <<>>)
=============================================================================
