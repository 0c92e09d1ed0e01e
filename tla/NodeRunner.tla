----------------------------- MODULE NodeRunner -----------------------------
(***************************************************************************)
(* How an experiment starts, is changed while it runs, and stops: the      *)
(* threads of simple_epps_2spd (main.rs), one source and two detectors     *)
(* with taggers.  main sends each node its timed control events; the node  *)
(* runner (nodes/core.rs) keeps them in a heap until Start and then serves *)
(* those that are due before each batch.  A detector (nodes/spd.rs) passes *)
(* its batches, and the tagger it is told of, on to a thread of its own,   *)
(* the claimer.  The throughput monitor (main.rs) reads and resets the     *)
(* detectors' counters.                                                    *)
(*                                                                         *)
(* The batches are numbers of packets: what is done with the packets is    *)
(* the subject of OpticalNodes and NodePorts.                              *)
(***************************************************************************)
EXTENDS Integers, Sequences, FiniteSets, SequencesExt

CONSTANTS
    EPPS,           \* the source
    SPDs,           \* the detectors, one at each exit port of the source
    Experiments,    \* [profiles, start, stop, rounds, until]: times for which main schedules
                    \* wave profiles, time of Start, nodes it stops later, in this order, and
                    \* the bounds on the monitor's rounds and on the simulated time
    MaxSize,        \* config.batch.max_size
    ChannelSize,    \* sync_channel(3) between nodes
    ClaimerSize     \* sync_channel(1) to a claimer

ASSUME RunnerAssumption ==
    /\ IsFiniteSet(SPDs) /\ SPDs # {} /\ EPPS \notin SPDs
    /\ \A e \in Experiments : /\ e.until \in Nat /\ e.rounds \in Nat
                            /\ e.profiles \in Seq(0 .. e.until) /\ e.start \in 0 .. e.until
                            /\ e.stop \in Seq(SPDs \cup {EPPS})
    /\ {MaxSize, ChannelSize, ClaimerSize} \subseteq Nat \ {0}

Nodes     == SPDs \cup {EPPS}
PortOf(i) == SetToSeq(SPDs)[i]   \* the detector at exit port i of the source

\* TimedControlEvent
Connect(port)         == [kind |-> "Connect", time |-> 0, value |-> port]
SetProfile(n, time)   == [kind |-> "SetWaveProfile", time |-> time, value |-> n]
ConnectTagger         == [kind |-> "ConnectTimeTagger", time |-> 0, value |-> 0]
Start(time)           == [kind |-> "Start", time |-> time, value |-> 0]
Stop(time)            == [kind |-> "Stop", time |-> time, value |-> 0]

VARIABLES
    setup,      \* the experiment
    script,     \* [node, event]: what main still sends, in this order
    stops,      \* nodes main still stops, in this order
    joined,     \* nodes whose threads main has joined
    exited,     \* the process is over
    control,    \* node -> control channel
    heap,       \* node -> control_event_queue
    phase,      \* node -> place in run()
    time,       \* node -> runner.time
    sinks,      \* exit ports of the source that are connected
    profile,    \* wave profile of the source, 0 before the first setting
    served,     \* wave profiles the source has applied
    outbox,     \* batches the source still has to send
    channel,    \* detector -> batches in its input channel
    received,   \* detector -> size of the batch it is at
    claimQueue, \* detector -> batches in the channel to its claimer
    hungUp,     \* detectors that have dropped their end of it
    settagger,  \* detector -> whether a tagger is in settagger_channel
    claimer,    \* detector -> place in the claimer's loop
    tagger,     \* detector -> whether tagger_channel is Some
    untagged,   \* detectors with a claimed batch that no tagger was told of
    counter,    \* detector -> packet_consumed (kept if there is a monitor)
    consumed,   \* packets the detectors have consumed
    monitor     \* the monitor's place, how many counters it is through, sum, total and rounds

mainVars    == <<setup, script, stops, joined, exited>>
eventVars   == <<control, heap>>
sourceVars  == <<sinks, profile, served, outbox>>
claimerVars == <<claimQueue, hungUp, settagger, claimer, tagger, untagged>>
countVars   == <<counter, consumed>>
vars == <<mainVars, eventVars, phase, time, sourceVars, channel, received, claimerVars,
          countVars, monitor>>

\* main connects, schedules settings and starts, the detectors first.
To(node, events) == [i \in DOMAIN events |-> [node |-> node, event |-> events[i]]]
Planned(e)  == [i \in DOMAIN e.profiles |-> SetProfile(i, e.profiles[i])]
MainScript(e) ==
    LET detectors == SetToSeq(SPDs)
        all(event) == [i \in DOMAIN detectors |-> [node |-> detectors[i], event |-> event]]
    IN  To(EPPS, [i \in DOMAIN detectors |-> Connect(i)] \o Planned(e))
          \o all(ConnectTagger) \o all(Start(0)) \o To(EPPS, <<Start(e.start)>>)

Init ==
    /\ setup \in Experiments
    /\ script = MainScript(setup) /\ stops = setup.stop /\ joined = {} /\ exited = FALSE
    /\ control = [n \in Nodes |-> <<>>] /\ heap = [n \in Nodes |-> {}]
    /\ phase = [n \in Nodes |-> "preload"]
    /\ time = [n \in Nodes |-> 0]
    /\ sinks = {} /\ profile = 0 /\ served = {} /\ outbox = <<>>
    /\ channel = [n \in SPDs |-> <<>>] /\ received = [n \in SPDs |-> 0]
    /\ claimQueue = [n \in SPDs |-> <<>>] /\ hungUp = {}
    /\ settagger = [n \in SPDs |-> FALSE]
    /\ claimer = [n \in SPDs |-> "spawned"]
    /\ tagger = [n \in SPDs |-> FALSE] /\ untagged = {}
    /\ counter = [n \in SPDs |-> 0] /\ consumed = 0
    /\ monitor = [place |-> "load", through |-> 0, sum |-> 0, total |-> 0, rounds |-> 0]

-----------------------------------------------------------------------------
(* Control events                                                          *)

\* schedule_connect, schedule_start, .. on a node's handle.
SendTo(n, event) == control' = [control EXCEPT ![n] = Append(@, event)]
SendControl ==
    /\ script # <<>>
    /\ SendTo(Head(script).node, Head(script).event)
    /\ script' = Tail(script)
    /\ UNCHANGED <<setup, stops, joined, exited, heap, phase, time, sourceVars, channel, received,
                   claimerVars, countVars, monitor>>
SendStop ==
    /\ script = <<>>
    /\ stops # <<>> /\ Head(stops) \notin joined
    /\ SendTo(Head(stops), Stop(0))
    /\ stops' = Tail(stops)
    /\ UNCHANGED <<setup, script, joined, exited, heap, phase, time, sourceVars, channel, received,
                   claimerVars, countVars, monitor>>

\* join().unwrap() on one handle after the other, the source's first.  A thread
\* that has panicked makes main panic, and the process ends with main.
Join ==
    LET n == IF joined = {} THEN EPPS ELSE PortOf(Cardinality(joined))
    IN  /\ script = <<>>
        /\ phase[n] \in {"ended", "panicked", "unconnected"}
        /\ joined' = joined \cup {n}
        /\ exited' = (phase[n] # "ended" \/ joined' = Nodes)
        /\ UNCHANGED <<setup, script, stops, eventVars, phase, time, sourceVars, channel, received,
                       claimerVars, countVars, monitor>>

Enter(n, place) == phase' = [phase EXCEPT ![n] = place]

\* preload_control_events, one recv().
Preload(n) ==
    /\ phase[n] = "preload" /\ control[n] # <<>>
    /\ LET event == Head(control[n])
       IN  IF event.kind = "Start"
           THEN /\ time' = [time EXCEPT ![n] = event.time]
                /\ Enter(n, "poll")
                /\ UNCHANGED heap
           ELSE /\ heap' = [heap EXCEPT ![n] = @ \cup {event}]
                /\ UNCHANGED <<time, phase>>
    /\ control' = [control EXCEPT ![n] = Tail(@)]
    /\ UNCHANGED <<mainVars, sourceVars, channel, received, claimerVars, countVars, monitor>>

\* try_recv() until the channel is empty.
Poll(n) ==
    /\ phase[n] = "poll"
    /\ heap' = [heap EXCEPT ![n] = @ \cup ToSet(control[n])]
    /\ control' = [control EXCEPT ![n] = <<>>]
    /\ Enter(n, "serve")
    /\ UNCHANGED <<mainVars, time, sourceVars, channel, received, claimerVars, countVars, monitor>>

\* Mutants: an event of this very time must wait; one that a batch has jumped
\* over is forgotten.
IsPast(event, now) == event.time < now
IsNow(event, now)  == event.time = now
IsDue(event, now)  == event.time <= now
DueEvents(n)       == {event \in heap[n] : IsDue(event, time[n])}

\* The order of the heap is reversed to make it a min-heap.
\* Mutant: it is not.
AtLatest(events)   == {e \in events : \A f \in events : f.time <= e.time}
AtEarliest(events) == {e \in events : \A f \in events : e.time <= f.time}

\* A node ends: run() returns, and a detector drops its input channel and runs
\* drop() of SPDWorker.
Ending(n) == IF n = EPPS THEN "ended" ELSE "dropping"

\* What pop() returns, one of those with the least time; handle_connection,
\* handle_custom_event.
Serve(n) ==
    /\ phase[n] = "serve"
    /\ \E event \in AtEarliest(DueEvents(n)) :
        /\ heap' = [heap EXCEPT ![n] = @ \ {event}]
        /\ sinks' = IF event.kind = "Connect" THEN sinks \cup {event.value} ELSE sinks
        /\ profile' = IF event.kind = "SetWaveProfile" THEN event.value ELSE profile
        /\ served' = IF event.kind = "SetWaveProfile" THEN served \cup {event} ELSE served
        /\ settagger' = IF event.kind = "ConnectTimeTagger"
                        THEN [settagger EXCEPT ![n] = TRUE] ELSE settagger
        /\ IF event.kind = "Stop" THEN Enter(n, Ending(n)) ELSE UNCHANGED phase
    /\ UNCHANGED <<mainVars, control, time, outbox, channel, received, claimQueue, hungUp, claimer,
                   tagger, untagged, countVars, monitor>>

AllServed(n) ==
    /\ phase[n] = "serve" /\ DueEvents(n) = {}
    /\ Enter(n, "batch")
    /\ UNCHANGED <<mainVars, eventVars, time, sourceVars, channel, received, claimerVars,
                   countVars, monitor>>

-----------------------------------------------------------------------------
(* process_batch of the source                                             *)

\* A batch that leaves the time as it was (no pump period between any two of
\* its pairs) is no step of this model.  The clock stops at its bound; without
\* a monitor nothing is counted, and the source goes on.
Generate ==
    /\ phase[EPPS] = "batch"
    /\ \/ \E t \in time[EPPS] + 1 .. setup.until : time' = [time EXCEPT ![EPPS] = t]
       \/ time[EPPS] = setup.until /\ setup.rounds = 0 /\ UNCHANGED time
    /\ \E size \in 1 .. MaxSize :
          outbox' = [i \in 1 .. Cardinality(SPDs) |-> [port |-> i, size |-> size]]
    /\ Enter(EPPS, "send")
    /\ UNCHANGED <<mainVars, eventVars, sinks, profile, served, channel, received, claimerVars,
                   countVars, monitor>>

\* Mutant: the channel takes one batch more.
RoomForOneMore(queue, size) == Len(queue) <= size
HasRoom(queue, size)        == Len(queue) < size
\* Nobody receives any more.
Closed(n) == phase[n] \in {"dropping", "joining", "ended"}

\* send_batch(..).unwrap() at one exit port after the other.
SendBatch ==
    LET port == Head(outbox).port
        n    == PortOf(port)
    IN  /\ phase[EPPS] = "send"
        /\ \/ /\ port \notin sinks                \* panic!("signal sink undefined ..")
              /\ Enter(EPPS, "unconnected") /\ UNCHANGED <<channel, outbox>>
           \/ /\ port \in sinks /\ Closed(n)
              /\ Enter(EPPS, "panicked") /\ UNCHANGED <<channel, outbox>>
           \/ /\ port \in sinks /\ ~Closed(n)
              /\ HasRoom(channel[n], ChannelSize)
              /\ channel' = [channel EXCEPT ![n] = Append(@, Head(outbox).size)]
              /\ outbox' = Tail(outbox)
              /\ IF Len(outbox) = 1 THEN Enter(EPPS, "poll") ELSE UNCHANGED phase
        /\ UNCHANGED <<mainVars, eventVars, time, sinks, profile, served, received, claimerVars,
                       countVars, monitor>>

-----------------------------------------------------------------------------
(* process_batch of a detector, and its end                                *)

Counted(size) == IF setup.rounds = 0 THEN 0 ELSE size

\* get_batch and packet_consumed.fetch_add.  recv() never fails, also if the
\* source has ended: main keeps a TxPort to the detector in the handle it will join.
Consume(n) ==
    /\ phase[n] = "batch" /\ channel[n] # <<>>
    /\ received' = [received EXCEPT ![n] = Head(channel[n])]
    /\ channel' = [channel EXCEPT ![n] = Tail(@)]
    /\ counter' = [counter EXCEPT ![n] = @ + Counted(Head(channel[n]))]
    /\ consumed' = consumed + Counted(Head(channel[n]))
    /\ Enter(n, "handOver")
    /\ UNCHANGED <<mainVars, eventVars, time, sourceVars, claimerVars, monitor>>

HandOver(n) ==
    /\ phase[n] = "handOver" /\ HasRoom(claimQueue[n], ClaimerSize)
    /\ claimQueue' = [claimQueue EXCEPT ![n] = Append(@, received[n])]
    /\ Enter(n, "poll")
    /\ UNCHANGED <<mainVars, eventVars, time, sourceVars, channel, received, hungUp, settagger,
                   claimer, tagger, untagged, countVars, monitor>>

\* drop() of SPDWorker: hang up FIRST, then join the claimer.
\* Mutant: joins while the claimer still waits for batches.
NotHungUp(n) == hungUp
HungUp(n)    == hungUp \cup {n}
DropWorker(n) ==
    /\ phase[n] = "dropping"
    /\ hungUp' = HungUp(n)
    /\ Enter(n, "joining")
    /\ UNCHANGED <<mainVars, eventVars, time, sourceVars, channel, received, claimQueue, settagger,
                   claimer, tagger, untagged, countVars, monitor>>

JoinClaimer(n) ==
    /\ phase[n] = "joining" /\ claimer[n] = "ended"
    /\ Enter(n, "ended")
    /\ UNCHANGED <<mainVars, eventVars, time, sourceVars, channel, received, claimerVars,
                   countVars, monitor>>

-----------------------------------------------------------------------------
(* The claimer of a detector                                               *)

\* Mutant: looks for a tagger before it waits for a batch.
PollsFirst == [spawned |-> "poll", poll |-> "recv", recv |-> "tag", tag |-> "poll"]
LoopOrder  == [spawned |-> "recv", recv |-> "poll", poll |-> "tag", tag |-> "recv"]
Proceed(n) == claimer' = [claimer EXCEPT ![n] = LoopOrder[@]]

\* settagger's try_recv(), once when the thread starts and once in the loop.
LookForTagger(n) ==
    /\ claimer[n] \in {"spawned", "poll"}
    /\ tagger' = [tagger EXCEPT ![n] = @ \/ settagger[n]]
    /\ settagger' = [settagger EXCEPT ![n] = FALSE]
    /\ Proceed(n)
    /\ UNCHANGED <<claimQueue, hungUp, untagged>>

\* rx.recv().unwrap()
ReceiveBatch(n) ==
    /\ claimer[n] = "recv"
    /\ \/ /\ claimQueue[n] # <<>>
          /\ claimQueue' = [claimQueue EXCEPT ![n] = Tail(@)]
          /\ Proceed(n)
       \/ /\ claimQueue[n] = <<>> /\ n \in hungUp
          /\ claimer' = [claimer EXCEPT ![n] = "ended"]
          /\ UNCHANGED claimQueue
    /\ UNCHANGED <<hungUp, settagger, tagger, untagged>>

\* The source makes a batch for every exit port at a time, with the partners of
\* its packets in the others: an island is measured when every detector has read
\* its batch of that time.
OneIf(condition) == IF condition THEN 1 ELSE 0
Unread(n)    == Len(channel[n]) + Cardinality({i \in DOMAIN outbox : PortOf(outbox[i].port) = n})
Unclaimed(n) == Unread(n) + OneIf(phase[n] = "handOver") + Len(claimQueue[n])
                  + OneIf(claimer[n] \in {"poll", "tag"})
Measured(n)  == \A m \in SPDs : Unread(m) < Unclaimed(n)

\* Waits for the results, claims them and sends the tags, if there is somewhere to
\* send them.
SendTags(n) ==
    /\ claimer[n] = "tag" /\ Measured(n)
    /\ untagged' = IF tagger[n] THEN untagged ELSE untagged \cup {n}
    /\ Proceed(n)
    /\ UNCHANGED <<claimQueue, hungUp, settagger, tagger>>

Claim(n) ==
    /\ ~exited
    /\ LookForTagger(n) \/ ReceiveBatch(n) \/ SendTags(n)
    /\ UNCHANGED <<mainVars, eventVars, phase, time, sourceVars, channel, received, countVars, monitor>>

-----------------------------------------------------------------------------
(* The monitor                                                             *)

\* Each counter is loaded, one after the other, then each is reset: single
\* atomic accesses.  Rounds before the first packet add nothing.
Load ==
    /\ monitor.place = "load" /\ monitor.through < Cardinality(SPDs)
    /\ monitor.rounds < setup.rounds /\ consumed > 0
    /\ monitor' = [monitor EXCEPT !.sum = @ + counter[PortOf(monitor.through + 1)],
                                  !.through = @ + 1]
    /\ UNCHANGED counter

AddUp ==
    /\ monitor.place = "load" /\ monitor.through = Cardinality(SPDs)
    /\ monitor' = [monitor EXCEPT !.total = @ + monitor.sum, !.sum = 0, !.through = 0,
                                  !.place = "reset"]
    /\ UNCHANGED counter

\* Mutant: the last counter is forgotten.
AllButOne(i) == [counter EXCEPT ![PortOf(1)] = 0]
Cleared(i)   == [counter EXCEPT ![PortOf(i)] = 0]
Reset ==
    /\ monitor.place = "reset"
    /\ counter' = Cleared(monitor.through + 1)
    /\ monitor' = IF monitor.through + 1 = Cardinality(SPDs)
                  THEN [monitor EXCEPT !.place = "load", !.through = 0, !.rounds = @ + 1]
                  ELSE [monitor EXCEPT !.through = @ + 1]

Monitor ==
    /\ ~exited
    /\ Load \/ AddUp \/ Reset
    /\ UNCHANGED <<mainVars, eventVars, phase, time, sourceVars, channel, received, claimerVars,
                   consumed>>

-----------------------------------------------------------------------------
Main        == ~exited /\ (SendControl \/ Join)
Run(n)      == Preload(n) \/ Poll(n) \/ Serve(n) \/ AllServed(n)
Source      == ~exited /\ (Run(EPPS) \/ Generate \/ SendBatch)
Detector(n) == ~exited /\ (Run(n) \/ Consume(n) \/ HandOver(n) \/ DropWorker(n) \/ JoinClaimer(n))

Next ==
    \/ Main
    \/ ~exited /\ SendStop
    \/ Source
    \/ \E n \in SPDs : Detector(n) \/ Claim(n)
    \/ Monitor

Spec == Init /\ [][Next]_vars

\* Every thread is scheduled; the monitor is not needed for progress, and nobody
\* has to stop a node.
FairSpec ==
    /\ Spec
    /\ WF_vars(Main) /\ WF_vars(Source)
    /\ \A n \in SPDs : WF_vars(Detector(n)) /\ WF_vars(Claim(n))
-----------------------------------------------------------------------------
(* Properties                                                              *)

Events == [kind : {"Connect", "SetWaveProfile", "ConnectTimeTagger", "Start", "Stop"},
           time : 0 .. setup.until, value : Nat]
Sizes  == 1 .. MaxSize

\* Types, and the bounds of the channels.
TypeOK ==
    /\ setup \in Experiments /\ stops \in Seq(Nodes) /\ joined \subseteq Nodes /\ exited \in BOOLEAN
    /\ script \in Seq([node : Nodes, event : Events])
    /\ control \in [Nodes -> Seq(Events)] /\ \A n \in Nodes : heap[n] \subseteq Events
    /\ \A n \in Nodes :
          phase[n] \in {"preload", "poll", "serve", "batch", "send", "handOver", "dropping",
                        "joining", "ended", "unconnected", "panicked"}
    /\ time \in [Nodes -> 0 .. setup.until]
    /\ sinks \subseteq 1 .. Cardinality(SPDs) /\ profile \in Nat /\ served \subseteq ToSet(Planned(setup))
    /\ outbox \in Seq([port : 1 .. Cardinality(SPDs), size : Sizes]) /\ received \in [SPDs -> 0 .. MaxSize]
    /\ \A n \in SPDs :
        /\ channel[n] \in Seq(Sizes) /\ Len(channel[n]) <= ChannelSize
        /\ claimQueue[n] \in Seq(Sizes) /\ Len(claimQueue[n]) <= ClaimerSize
    /\ hungUp \subseteq SPDs
    /\ settagger \in [SPDs -> BOOLEAN] /\ tagger \in [SPDs -> BOOLEAN]
    /\ claimer \in [SPDs -> {"spawned", "recv", "poll", "tag", "ended"}]
    /\ untagged \subseteq SPDs /\ counter \in [SPDs -> Nat] /\ consumed \in Nat
    /\ monitor \in [place : {"load", "reset"}, through : 0 .. Cardinality(SPDs), sum : Nat, total : Nat,
                    rounds : Nat]

Generates == phase[EPPS] = "batch"

\* A batch of the source is made under exactly the settings that were scheduled
\* for its start or before, however main, the channel and the heap were
\* interleaved, and the latest of them is the one in force
\* (core.rs:230-244, 248-270).
InForce(events) == {e \in events : \A f \in events : f.time <= e.time}
SettingsOnTime ==
    [][Generates =>
        LET due == {e \in ToSet(Planned(setup)) : e.time <= time[EPPS]}
        IN  /\ served = due
            /\ profile \in (IF due = {} THEN {0} ELSE {e.value : e \in InForce(due)})]_time

\* No batch is made before the exit ports are connected, which would be a panic
\* (epps.rs:194-212): events sent before Start precede the first batch.
SinksConnected == phase[EPPS] # "unconnected"

\* "polling here guarantees the very first batch of tags already sees the tagger"
\* (spd.rs:91-97): the tagger overtakes the batches on its own channel, from main
\* through the detector to the claimer.
FirstTagsSeen == untagged = {}

\* The monitor may miss packets that are consumed between its load and its reset
\* of a counter, but counts none twice: what it has reported and what it will
\* still read in the counters, which are those it has not loaded in this round and
\* those it has reset after the last, is no more than was consumed
\* (main.rs:42-70).
StillToRead ==
    {i \in 1 .. Cardinality(SPDs) : IF monitor.place = "load" THEN i > monitor.through
                                                              ELSE i <= monitor.through}
ToRead      == [i \in 1 .. Cardinality(SPDs) |-> IF i \in StillToRead THEN counter[PortOf(i)] ELSE 0]
SumTo(f, n) == LET sum[i \in 0 .. n] == IF i = 0 THEN 0 ELSE sum[i - 1] + f[i]
               IN  sum[n]
NothingCountedTwice ==
    monitor.total + monitor.sum + SumTo(ToRead, Cardinality(SPDs)) <= consumed

\* A setting is not left in the heap: the source comes to every time that it is
\* scheduled for, or beyond it, and applies it, unless somebody stops a node
\* (core.rs:251).
SettingsServed == <>(served = ToSet(Planned(setup)) \/ stops # setup.stop)

\* A detector that is stopped ends, with its claimer, on which it hangs up before
\* it waits for it, and takes the source down, whose next batch it does not
\* receive; unless the process is over first, or its claimer has a batch whose
\* partners another detector left unread when it stopped: then it waits for ever,
\* and main for it (core.rs:258-261, spd.rs:53-60, 98).
Stranded(n) == /\ phase[n] = "joining" /\ claimer[n] = "tag"
               /\ \E m \in SPDs : Closed(m) /\ Unread(m) >= Unclaimed(n)
Ended(n)    == phase[n] = "ended" /\ claimer[n] = "ended"
StopEnds ==
    (\E n \in SPDs : Closed(n))
        ~> \/ exited
           \/ /\ \A n \in SPDs : Closed(n) => Ended(n) \/ Stranded(n)
              /\ phase[EPPS] \in {"ended", "panicked"}
=============================================================================
