-------------------------- MODULE NodeRunnerProofs ---------------------------
(***************************************************************************)
(* Theorems about NodeRunner, for any number of detectors, any schedule of *)
(* settings and any sizes of batches and channels.                         *)
(***************************************************************************)
EXTENDS NodeRunner, FiniteSetTheorems, WellFoundedInduction, TLAPS

Ports  == 1 .. Cardinality(SPDs)
Places == {"preload", "poll", "serve", "batch", "send", "handOver", "dropping",
           "joining", "ended", "unconnected", "panicked"}

\* The events main really sends: ports the source has, settings of the experiment.
Scheduled ==
    {e \in Events : /\ e.kind = "Connect" => e.value \in Ports
                    /\ e.kind = "SetWaveProfile" => e \in ToSet(Planned(setup))}

MainTypes ==
    /\ setup \in Experiments /\ stops \in Seq(Nodes) /\ joined \subseteq Nodes /\ exited \in BOOLEAN
    /\ joined # {} => EPPS \in joined
    /\ ~exited => joined # Nodes
    /\ script \in Seq([node : Nodes, event : Scheduled])

EventTypes ==
    /\ control \in [Nodes -> Seq(Scheduled)] /\ heap \in [Nodes -> SUBSET Scheduled]
    /\ phase \in [Nodes -> Places] /\ time \in [Nodes -> 0 .. setup.until]

SourceTypes ==
    /\ sinks \subseteq Ports /\ profile \in Nat /\ served \subseteq ToSet(Planned(setup))
    /\ outbox \in Seq([port : Ports, size : Sizes])
    /\ phase[EPPS] = "send" => outbox # <<>>

QueueTypes ==
    /\ received \in [SPDs -> 0 .. MaxSize]
    /\ \A n \in SPDs : phase[n] = "handOver" => received[n] \in Sizes
    /\ channel \in [SPDs -> Seq(Sizes)] /\ \A n \in SPDs : Len(channel[n]) <= ChannelSize
    /\ claimQueue \in [SPDs -> Seq(Sizes)] /\ \A n \in SPDs : Len(claimQueue[n]) <= ClaimerSize

ClaimerTypes ==
    /\ hungUp \subseteq SPDs /\ untagged \subseteq SPDs
    /\ settagger \in [SPDs -> BOOLEAN] /\ tagger \in [SPDs -> BOOLEAN]
    /\ claimer \in [SPDs -> {"spawned", "recv", "poll", "tag", "ended"}]

CountTypes ==
    /\ counter \in [SPDs -> Nat] /\ consumed \in Nat
    /\ monitor \in [place : {"load", "reset"}, through : 0 .. Cardinality(SPDs), sum : Nat,
                    total : Nat, rounds : Nat]
    /\ monitor.place = "reset" => monitor.through # Cardinality(SPDs)

TypeInv == /\ MainTypes /\ EventTypes /\ SourceTypes /\ QueueTypes /\ ClaimerTypes /\ CountTypes

LEMMA WiderSeq ==
    ASSUME NEW S, NEW T, S \subseteq T, NEW s \in Seq(S)
    PROVE  s \in Seq(T)
  OBVIOUS

LEMMA TabulatedSeq ==
    ASSUME NEW S, NEW n \in Nat, NEW f \in [1 .. n -> S]
    PROVE  f \in Seq(S) /\ Len(f) = n /\ DOMAIN f = 1 .. n
  OBVIOUS

LEMMA TypeInvImpliesTypeOK ==
    ASSUME TypeInv
    PROVE  TypeOK
PROOF
  <1>1. Scheduled \subseteq Events
    BY DEF Scheduled
  <1>2. \A s \in Seq(Scheduled) : s \in Seq(Events)
    BY <1>1
  <1>3. script \in Seq([node : Nodes, event : Events])
    <2>1. [node : Nodes, event : Scheduled] \subseteq [node : Nodes, event : Events]
      BY <1>1
    <2> QED BY <2>1, WiderSeq DEF TypeInv, MainTypes
  <1>4. control \in [Nodes -> Seq(Events)] /\ \A n \in Nodes : heap[n] \subseteq Events
    BY <1>1, <1>2 DEF TypeInv, EventTypes
  <1> HIDE DEF Scheduled
  <1> QED
    BY <1>3, <1>4
    DEF TypeInv, MainTypes, EventTypes, SourceTypes, QueueTypes, ClaimerTypes, CountTypes,
        TypeOK, Ports, Places

-----------------------------------------------------------------------------
(* The detectors and the script of main                                    *)

LEMMA PortCount == Cardinality(SPDs) \in Nat \ {0}
  BY FS_CardinalityType, FS_EmptySet, RunnerAssumption

LEMMA DetectorSeq ==
    /\ SetToSeq(SPDs) \in [Ports -> SPDs]
    /\ \A i, j \in Ports : PortOf(i) = PortOf(j) => i = j
    /\ \A n \in SPDs : \E i \in Ports : PortOf(i) = n
PROOF
  <1>1. PICK f \in Bijection(Ports, SPDs) : TRUE
    BY FS_CardinalityType, RunnerAssumption DEF Ports, ExistsBijection
  <1>2. f \in [1 .. Cardinality(SPDs) -> SPDs] /\ IsInjective(f)
    BY <1>1 DEF Bijection, Injection, Ports
  <1> DEFINE g == SetToSeq(SPDs)
  <1>3. g \in [Ports -> SPDs] /\ IsInjective(g)
    BY <1>2 DEF SetToSeq, Ports
  <1>4. g \in Injection(Ports, SPDs)
    BY <1>3 DEF Injection
  <1>5. IsFiniteSet(Ports) /\ Cardinality(Ports) = Cardinality(SPDs)
    BY PortCount, FS_Interval DEF Ports
  <1>6. g \in Surjection(Ports, SPDs)
    BY <1>4, <1>5, FS_Injection, RunnerAssumption
  <1> QED BY <1>3, <1>6 DEF IsInjective, Surjection, PortOf

LEMMA PortType == ASSUME NEW i \in Ports PROVE PortOf(i) \in SPDs
  BY DetectorSeq DEF PortOf

LEMMA NodeCount == IsFiniteSet(Nodes) /\ Cardinality(Nodes) = Cardinality(SPDs) + 1
  BY FS_AddElement, RunnerAssumption DEF Nodes

LEMMA ToIs ==
    ASSUME NEW E, NEW n \in Nodes, NEW events \in Seq(E)
    PROVE  /\ To(n, events) \in Seq([node : Nodes, event : E])
           /\ Len(To(n, events)) = Len(events)
           /\ \A i \in 1 .. Len(events) : To(n, events)[i] = [node |-> n, event |-> events[i]]
PROOF
  <1>1. DOMAIN events = 1 .. Len(events) /\ Len(events) \in Nat
    OBVIOUS
  <1>2. To(n, events) \in [1 .. Len(events) -> [node : Nodes, event : E]]
    BY <1>1 DEF To
  <1>3. \A i \in 1 .. Len(events) : To(n, events)[i] = [node |-> n, event |-> events[i]]
    BY <1>1 DEF To
  <1> QED BY <1>1, <1>2, <1>3, TabulatedSeq

Joined(s, t) == s \o t

LEMMA Concatenated ==
    ASSUME NEW A, NEW s \in Seq(A), NEW t \in Seq(A), NEW k \in Nat, NEW n \in Nat,
           Len(s) = k, Len(t) = n
    PROVE  /\ Joined(s, t) \in Seq(A) /\ Len(Joined(s, t)) = k + n
           /\ \A i \in 1 .. k : Joined(s, t)[i] = s[i]
           /\ \A i \in 1 .. n : Joined(s, t)[k + i] = t[i]
PROOF
  <1>1. s \o t \in Seq(A) /\ Len(s \o t) = k + n
    OBVIOUS
  <1>2. \A i \in 1 .. k : (s \o t)[i] = s[i]
    OBVIOUS
  <1>3. \A i \in 1 .. n : (s \o t)[k + i] = t[i]
    OBVIOUS
  <1> QED BY <1>1, <1>2, <1>3 DEF Joined

\* The script: where each event stands in it.
ScriptLength(e) == 3 * Cardinality(SPDs) + Len(e.profiles) + 1
EventsOf(e) ==
    {Connect(i) : i \in Ports} \cup {Planned(e)[i] : i \in DOMAIN e.profiles}
        \cup {ConnectTagger, Start(0), Start(e.start)}

LEMMA ScriptIs ==
    ASSUME NEW e \in Experiments
    PROVE  LET d == Cardinality(SPDs)
               m == Len(e.profiles)
           IN  /\ m \in Nat /\ MainScript(e) \in Seq([node : Nodes, event : EventsOf(e)])
               /\ Len(MainScript(e)) = ScriptLength(e)
               /\ \A i \in 1 .. d : /\ MainScript(e)[i] = [node |-> EPPS, event |-> Connect(i)]
                                    /\ MainScript(e)[d + m + i] = [node |-> PortOf(i), event |-> ConnectTagger]
                                    /\ MainScript(e)[2 * d + m + i] = [node |-> PortOf(i), event |-> Start(0)]
               /\ \A i \in 1 .. m : MainScript(e)[d + i] = [node |-> EPPS, event |-> Planned(e)[i]]
               /\ MainScript(e)[3 * d + m + 1] = [node |-> EPPS, event |-> Start(e.start)]
PROOF
  <1> DEFINE d == Cardinality(SPDs)
             m == Len(e.profiles)
             E == EventsOf(e)
             A == [node : Nodes, event : E]
             ds == SetToSeq(SPDs)
             connects == [i \in DOMAIN ds |-> Connect(i)]
             all(event) == [i \in DOMAIN ds |-> [node |-> ds[i], event |-> event]]
             planned == Planned(e)
             first == Joined(connects, planned)
             s1 == To(EPPS, first)
             s2 == all(ConnectTagger)
             s3 == all(Start(0))
             s4 == To(EPPS, <<Start(e.start)>>)
  <1>1. d \in Nat /\ m \in Nat /\ DOMAIN e.profiles = 1 .. m /\ EPPS \in Nodes
    BY PortCount, RunnerAssumption DEF Nodes
  <1>2. DOMAIN ds = 1 .. d /\ \A i \in 1 .. d : ds[i] = PortOf(i) /\ PortOf(i) \in Nodes
    BY DetectorSeq, PortType DEF Ports, PortOf, Nodes
  <1>3. MainScript(e) = ((s1 \o s2) \o s3) \o s4
    BY DEF MainScript, Joined
  <1>0. d \in Nat /\ m \in Nat
    BY <1>1
  <1> HIDE DEF ds, m, d
  <1>4. connects \in Seq(E) /\ Len(connects) = d /\ \A i \in 1 .. d : connects[i] = Connect(i)
    <2>1. connects \in [1 .. d -> E]
      BY <1>2 DEF EventsOf, Ports, d
    <2>2. \A i \in 1 .. d : connects[i] = Connect(i)
      BY <1>2
    <2> HIDE DEF connects
    <2> QED BY <1>1, <2>1, <2>2, TabulatedSeq
  <1>5. planned \in Seq(E) /\ Len(planned) = m
    <2>1. planned \in [1 .. m -> E]
      BY <1>1 DEF Planned, EventsOf
    <2> HIDE DEF planned
    <2> QED BY <1>1, <2>1, TabulatedSeq
  <1>6. ASSUME NEW event \in {ConnectTagger, Start(0)}
        PROVE  /\ all(event) \in Seq(A) /\ Len(all(event)) = d
               /\ \A i \in 1 .. d : all(event)[i] = [node |-> PortOf(i), event |-> event]
    <2>1. event \in E
      BY DEF EventsOf
    <2>2. all(event) \in [1 .. d -> A]
      BY <1>2, <2>1
    <2>3. \A i \in 1 .. d : all(event)[i] = [node |-> PortOf(i), event |-> event]
      BY <1>2
    <2> HIDE DEF all
    <2> QED BY <1>1, <2>2, <2>3, TabulatedSeq
  <1>7. /\ s4 \in Seq(A) /\ Len(s4) = 1 /\ s4[1] = [node |-> EPPS, event |-> Start(e.start)]
    <2>1. <<Start(e.start)>> \in Seq(E) /\ Len(<<Start(e.start)>>) = 1
      BY DEF EventsOf
    <2>2. <<Start(e.start)>>[1] = Start(e.start)
      OBVIOUS
    <2> DEFINE one == <<Start(e.start)>>
    <2> HIDE DEF one, E
    <2>3. one \in Seq(E) /\ Len(one) = 1 /\ one[1] = Start(e.start)
      BY <2>1, <2>2 DEF one
    <2>4. s4 = To(EPPS, one)
      BY DEF one
    <2>5. To(EPPS, one) \in Seq(A) /\ Len(To(EPPS, one)) = 1
      BY <1>1, <2>3, ToIs
    <2>6. \A i \in 1 .. Len(one) : To(EPPS, one)[i] = [node |-> EPPS, event |-> one[i]]
      BY <1>1, <2>3, ToIs
    <2> QED BY <2>3, <2>4, <2>5, <2>6
  <1>8. /\ s2 \in Seq(A) /\ Len(s2) = d /\ \A i \in 1 .. d : s2[i] = [node |-> PortOf(i), event |-> ConnectTagger]
        /\ s3 \in Seq(A) /\ Len(s3) = d /\ \A i \in 1 .. d : s3[i] = [node |-> PortOf(i), event |-> Start(0)]
    BY <1>6
  <1> HIDE DEF E, connects, planned
  <1>9. /\ first \in Seq(E) /\ Len(first) = d + m
        /\ \A i \in 1 .. d : first[i] = Connect(i)
        /\ \A i \in 1 .. m : first[d + i] = planned[i]
    <2>1. /\ first \in Seq(E) /\ Len(first) = d + m
          /\ \A i \in 1 .. d : first[i] = connects[i]
          /\ \A i \in 1 .. m : first[d + i] = planned[i]
      <3>1. connects \in Seq(E) /\ planned \in Seq(E) /\ Len(connects) = d /\ Len(planned) = m
        BY <1>4, <1>5
      <3>2. Joined(connects, planned) \in Seq(E) /\ Len(Joined(connects, planned)) = d + m
        BY <1>0, <3>1, Concatenated
      <3>3. \A i \in 1 .. d : Joined(connects, planned)[i] = connects[i]
        BY <1>0, <3>1, Concatenated
      <3>4. \A i \in 1 .. m : Joined(connects, planned)[d + i] = planned[i]
        BY <1>0, <3>1, Concatenated
      <3> QED BY <3>2, <3>3, <3>4
    <2> QED BY <1>4, <2>1
  <1> HIDE DEF first
  <1>10. /\ s1 \in Seq(A) /\ Len(s1) = d + m
         /\ \A i \in 1 .. d + m : s1[i] = [node |-> EPPS, event |-> first[i]]
    <2>1. first \in Seq(E) /\ Len(first) = d + m
      BY <1>9
    <2>2. s1 \in Seq(A) /\ Len(s1) = d + m
      BY <1>1, <2>1, ToIs
    <2>3. \A i \in 1 .. Len(first) : s1[i] = [node |-> EPPS, event |-> first[i]]
      BY <1>1, <2>1, ToIs
    <2> QED BY <2>1, <2>2, <2>3
  <1> HIDE DEF A, all, s1, s2, s3, s4
  <1> DEFINE t2 == Joined(s1, s2)
  <1>11. /\ t2 \in Seq(A) /\ Len(t2) = 2 * d + m
         /\ \A i \in 1 .. d + m : t2[i] = s1[i]
         /\ \A i \in 1 .. d : t2[d + m + i] = s2[i]
    <2>1. d + m \in Nat /\ d + m + d = 2 * d + m
      BY <1>1
    <2>3. s1 \in Seq(A) /\ Len(s1) = d + m /\ s2 \in Seq(A) /\ Len(s2) = d
      BY <1>8, <1>10
    <2> DEFINE k == d + m
    <2>4. k \in Nat /\ Len(s1) = k
      BY <2>1, <2>3
    <2> HIDE DEF k
    <2> HIDE DEF t2
    <2>5. LET u == Joined(s1, s2)
          IN  /\ u \in Seq(A) /\ Len(u) = k + d
              /\ \A i \in 1 .. k : u[i] = s1[i]
              /\ \A i \in 1 .. d : u[k + i] = s2[i]
      <3>1. s1 \in Seq(A) /\ s2 \in Seq(A) /\ Len(s2) = d
        BY <2>3
      <3>2. Joined(s1, s2) \in Seq(A) /\ Len(Joined(s1, s2)) = k + d
        BY <1>0, <2>4, <3>1, Concatenated
      <3>3. \A i \in 1 .. k : Joined(s1, s2)[i] = s1[i]
        BY <1>0, <2>4, <3>1, Concatenated
      <3>4. \A i \in 1 .. d : Joined(s1, s2)[k + i] = s2[i]
        BY <1>0, <2>4, <3>1, Concatenated
      <3> QED BY <3>2, <3>3, <3>4
    <2>6. t2 = Joined(s1, s2)
      BY DEF t2
    <2> QED BY <2>1, <2>5, <2>6 DEF k
  <1> HIDE DEF t2
  <1> DEFINE t3 == Joined(t2, s3)
  <1>12. /\ t3 \in Seq(A) /\ Len(t3) = 3 * d + m
         /\ \A i \in 1 .. 2 * d + m : t3[i] = t2[i]
         /\ \A i \in 1 .. d : t3[2 * d + m + i] = s3[i]
    <2>1. 2 * d + m \in Nat /\ 2 * d + m + d = 3 * d + m
      BY <1>1
    <2>3. t2 \in Seq(A) /\ Len(t2) = 2 * d + m /\ s3 \in Seq(A) /\ Len(s3) = d
      BY <1>8, <1>11
    <2> DEFINE k == 2 * d + m
    <2>4. k \in Nat /\ Len(t2) = k
      BY <2>1, <2>3
    <2> HIDE DEF k
    <2> HIDE DEF t3
    <2>5. LET u == Joined(t2, s3)
          IN  /\ u \in Seq(A) /\ Len(u) = k + d
              /\ \A i \in 1 .. k : u[i] = t2[i]
              /\ \A i \in 1 .. d : u[k + i] = s3[i]
      <3>1. t2 \in Seq(A) /\ s3 \in Seq(A) /\ Len(s3) = d
        BY <2>3
      <3>2. Joined(t2, s3) \in Seq(A) /\ Len(Joined(t2, s3)) = k + d
        BY <1>0, <2>4, <3>1, Concatenated
      <3>3. \A i \in 1 .. k : Joined(t2, s3)[i] = t2[i]
        BY <1>0, <2>4, <3>1, Concatenated
      <3>4. \A i \in 1 .. d : Joined(t2, s3)[k + i] = s3[i]
        BY <1>0, <2>4, <3>1, Concatenated
      <3> QED BY <3>2, <3>3, <3>4
    <2>6. t3 = Joined(t2, s3)
      BY DEF t3
    <2> QED BY <2>1, <2>5, <2>6 DEF k
  <1> HIDE DEF t3
  <1> DEFINE t4 == Joined(t3, s4)
  <1>13. /\ t4 \in Seq(A) /\ Len(t4) = 3 * d + m + 1
         /\ \A i \in 1 .. 3 * d + m : t4[i] = t3[i]
         /\ t4[3 * d + m + 1] = s4[1]
    <2>1. 3 * d + m \in Nat /\ 1 \in Nat /\ 1 \in 1 .. 1
      BY <1>1
    <2>3. t3 \in Seq(A) /\ Len(t3) = 3 * d + m /\ s4 \in Seq(A) /\ Len(s4) = 1
      BY <1>7, <1>12
    <2> DEFINE k == 3 * d + m
               n == 1
    <2>4. k \in Nat /\ Len(t3) = k /\ n \in Nat /\ Len(s4) = n /\ n \in 1 .. n
      BY <2>1, <2>3
    <2>5. t3 \in Seq(A) /\ s4 \in Seq(A)
      BY <2>3
    <2> HIDE DEF k, n
    <2>6. /\ t4 \in Seq(A) /\ Len(t4) = k + n
          /\ \A i \in 1 .. k : t4[i] = t3[i]
          /\ \A i \in 1 .. n : t4[k + i] = s4[i]
      <3>1. t4 \in Seq(A) /\ Len(t4) = k + n
        BY <2>4, <2>5, Concatenated
      <3>2. \A i \in 1 .. k : t4[i] = t3[i]
        BY <2>4, <2>5, Concatenated
      <3>3. \A i \in 1 .. n : t4[k + i] = s4[i]
        BY <2>4, <2>5, Concatenated
      <3> QED BY <3>1, <3>2, <3>3
    <2> QED BY <2>1, <2>4, <2>6 DEF k, n
  <1>14. MainScript(e) = t4
    BY <1>3 DEF t2, t3, Joined
  <1> HIDE DEF t4
  <1>15. \A i \in 1 .. d : /\ i \in 1 .. d + m /\ i \in 1 .. 2 * d + m /\ i \in 1 .. 3 * d + m
                           /\ d + m + i \in 1 .. 2 * d + m /\ d + m + i \in 1 .. 3 * d + m
                           /\ 2 * d + m + i \in 1 .. 3 * d + m
    BY <1>1
  <1>16. \A i \in 1 .. m : d + i \in 1 .. d + m /\ d + i \in 1 .. 2 * d + m /\ d + i \in 1 .. 3 * d + m
    BY <1>1
  <1>17. \A i \in 1 .. d : /\ t4[i] = [node |-> EPPS, event |-> Connect(i)]
                           /\ t4[d + m + i] = [node |-> PortOf(i), event |-> ConnectTagger]
                           /\ t4[2 * d + m + i] = [node |-> PortOf(i), event |-> Start(0)]
    <2> SUFFICES ASSUME NEW i \in 1 .. d
                 PROVE  /\ t4[i] = [node |-> EPPS, event |-> Connect(i)]
                        /\ t4[d + m + i] = [node |-> PortOf(i), event |-> ConnectTagger]
                        /\ t4[2 * d + m + i] = [node |-> PortOf(i), event |-> Start(0)]
      OBVIOUS
    <2>1. t4[i] = [node |-> EPPS, event |-> first[i]] /\ first[i] = Connect(i)
      BY <1>9, <1>10, <1>11, <1>12, <1>13, <1>15
    <2>2. t4[d + m + i] = [node |-> PortOf(i), event |-> ConnectTagger]
      BY <1>8, <1>11, <1>12, <1>13, <1>15
    <2>3. t4[2 * d + m + i] = [node |-> PortOf(i), event |-> Start(0)]
      BY <1>8, <1>12, <1>13, <1>15
    <2> QED BY <2>1, <2>2, <2>3
  <1>18. \A i \in 1 .. m : t4[d + i] = [node |-> EPPS, event |-> planned[i]]
    BY <1>9, <1>10, <1>11, <1>12, <1>13, <1>16
  <1> QED BY <1>1, <1>7, <1>13, <1>14, <1>17, <1>18 DEF ScriptLength, d, m, A, E, planned

-----------------------------------------------------------------------------
(* Type correctness                                                        *)

LEMMA EventsAreScheduled ==
    ASSUME setup \in Experiments
    PROVE  EventsOf(setup) \subseteq Scheduled
PROOF
  <1>1. 0 \in 0 .. setup.until /\ setup.start \in 0 .. setup.until
    BY RunnerAssumption
  <1>2. \A i \in Ports : i \in Nat
    BY PortCount DEF Ports
  <1>3. \A i \in Ports : Connect(i) \in Scheduled
    BY <1>1, <1>2 DEF Connect, Scheduled, Events
  <1>4. {ConnectTagger, Start(0), Start(setup.start)} \subseteq Scheduled
    BY <1>1 DEF ConnectTagger, Start, Scheduled, Events
  <1>5. \A i \in DOMAIN setup.profiles : Planned(setup)[i] \in Scheduled
    <2> SUFFICES ASSUME NEW i \in DOMAIN setup.profiles
                 PROVE  Planned(setup)[i] \in Scheduled
      OBVIOUS
    <2>1. i \in Nat /\ setup.profiles[i] \in 0 .. setup.until
      BY RunnerAssumption
    <2>2. Planned(setup)[i] = SetProfile(i, setup.profiles[i]) /\ DOMAIN Planned(setup) = DOMAIN setup.profiles
      BY DEF Planned
    <2>3. Planned(setup)[i] \in ToSet(Planned(setup))
      BY <2>2 DEF ToSet
    <2> QED BY <2>1, <2>2, <2>3 DEF SetProfile, Scheduled, Events
  <1> QED BY <1>3, <1>4, <1>5 DEF EventsOf

LEMMA InitTypes ==
    ASSUME Init
    PROVE  TypeInv
PROOF
  <1>1. setup \in Experiments /\ script = MainScript(setup)
    BY DEF Init
  <1>2. script \in Seq([node : Nodes, event : Scheduled])
    <2>1. MainScript(setup) \in Seq([node : Nodes, event : EventsOf(setup)])
      BY <1>1, ScriptIs
    <2>2. [node : Nodes, event : EventsOf(setup)] \subseteq [node : Nodes, event : Scheduled]
      BY <1>1, EventsAreScheduled
    <2> DEFINE R == [node : Nodes, event : EventsOf(setup)]
               T == [node : Nodes, event : Scheduled]
    <2> HIDE DEF R, T
    <2>4. MainScript(setup) \in Seq(R) /\ R \subseteq T
      BY <2>1, <2>2 DEF R, T
    <2>5. MainScript(setup) \in Seq(T)
      BY <2>4, WiderSeq
    <2>3. MainScript(setup) \in Seq([node : Nodes, event : Scheduled])
      BY <2>5 DEF T
    <2> QED BY <1>1, <2>3
  <1>3. setup.until \in Nat /\ setup.stop \in Seq(Nodes)
    BY <1>1, RunnerAssumption DEF Nodes
  <1>4. MainTypes
    BY <1>1, <1>2, <1>3 DEF Init, MainTypes, Nodes
  <1>5. EventTypes
    BY <1>3 DEF Init, EventTypes, Places
  <1>6. SourceTypes
    BY <1>3 DEF Init, SourceTypes, Nodes
  <1>7. QueueTypes
    BY RunnerAssumption DEF Init, QueueTypes, Nodes
  <1>8. ClaimerTypes
    BY DEF Init, ClaimerTypes
  <1>9. CountTypes
    BY PortCount DEF Init, CountTypes
  <1> QED BY <1>4, <1>5, <1>6, <1>7, <1>8, <1>9 DEF TypeInv

\* Steps that leave a group of variables alone.
LEMMA SettingsAreConstant ==
    ASSUME UNCHANGED setup
    PROVE  ToSet(Planned(setup))' = ToSet(Planned(setup)) /\ Scheduled' = Scheduled
PROOF
  <1>1. Planned(setup)' = Planned(setup)
    BY DEF Planned, SetProfile
  <1>2. ToSet(Planned(setup))' = ToSet(Planned(setup))
    BY <1>1 DEF ToSet
  <1> QED BY <1>2 DEF Scheduled, Events

LEMMA EventsKept ==
    ASSUME EventTypes, UNCHANGED <<setup, control, heap, phase, time>>
    PROVE  EventTypes'
  BY SettingsAreConstant DEF EventTypes

LEMMA MainKept ==
    ASSUME MainTypes, UNCHANGED mainVars
    PROVE  MainTypes'
  BY SettingsAreConstant DEF MainTypes, mainVars

LEMMA SourceKept ==
    ASSUME SourceTypes, UNCHANGED <<setup, sourceVars>>,
           phase'[EPPS] = "send" => phase[EPPS] = "send"
    PROVE  SourceTypes'
  BY SettingsAreConstant DEF SourceTypes, sourceVars

LEMMA QueuesKept ==
    ASSUME QueueTypes, UNCHANGED <<received, channel, claimQueue>>,
           \A n \in SPDs : phase'[n] = "handOver" => phase[n] = "handOver"
    PROVE  QueueTypes'
  BY DEF QueueTypes

LEMMA ClaimersKept ==
    ASSUME ClaimerTypes, UNCHANGED claimerVars
    PROVE  ClaimerTypes'
  BY DEF ClaimerTypes, claimerVars

LEMMA CountsKept ==
    ASSUME CountTypes, UNCHANGED <<countVars, monitor>>
    PROVE  CountTypes'
  BY DEF CountTypes, countVars

\* What main does.
LEMMA SendTypes ==
    ASSUME TypeInv, SendControl \/ SendStop
    PROVE  TypeInv'
PROOF
  <1>1. PICK n \in Nodes, event \in Scheduled :
          SendTo(n, event) /\ script' \in Seq([node : Nodes, event : Scheduled]) /\ stops' \in Seq(Nodes)
    <2>0. stops \in Seq(Nodes)
      BY DEF TypeInv, MainTypes
    <2>1. CASE SendControl
      <3>1. script # <<>> /\ script \in Seq([node : Nodes, event : Scheduled])
        BY <2>1 DEF SendControl, TypeInv, MainTypes
      <3> DEFINE R == [node : Nodes, event : Scheduled]
      <3> HIDE DEF R
      <3>4. script # <<>> /\ script \in Seq(R)
        BY <3>1 DEF R
      <3>2. Head(script) \in [node : Nodes, event : Scheduled] /\ Tail(script) \in Seq([node : Nodes, event : Scheduled])
        <4>1. Head(script) \in R /\ Tail(script) \in Seq(R)
          BY <3>4
        <4> QED BY <4>1 DEF R
      <3>3. Head(script).node \in Nodes /\ Head(script).event \in Scheduled
        BY <3>2
      <3> QED BY <2>0, <2>1, <3>2, <3>3 DEF SendControl
    <2>2. CASE SendStop
      <3>1. Head(stops) \in Nodes /\ stops' \in Seq(Nodes)
        BY <2>0, <2>2 DEF SendStop
      <3>2. SendTo(Head(stops), Stop(0))
        BY <2>2 DEF SendStop
      <3>3. Stop(0) \in Scheduled
        BY RunnerAssumption DEF Stop, Scheduled, Events, TypeInv, MainTypes
      <3> QED BY <2>2, <3>1, <3>2, <3>3 DEF SendStop, TypeInv, MainTypes
    <2> QED BY <2>1, <2>2
  <1>2. UNCHANGED <<setup, joined, exited, heap, phase, time, sourceVars, channel, received,
                    claimerVars, claimQueue, countVars, monitor>>
    BY DEF SendControl, SendStop, claimerVars
  <1>3. Scheduled' = Scheduled
    BY <1>2, SettingsAreConstant
  <1>4. control' \in [Nodes -> Seq(Scheduled)]
    BY <1>1 DEF SendTo, TypeInv, EventTypes
  <1>5. MainTypes'
    BY <1>1, <1>2, <1>3 DEF TypeInv, MainTypes
  <1>6. EventTypes'
    BY <1>2, <1>3, <1>4 DEF TypeInv, EventTypes
  <1> QED
    BY <1>2, <1>5, <1>6, SourceKept, QueuesKept, ClaimersKept, CountsKept DEF TypeInv

\* The next handle that main joins.
LEMMA JoinedNode ==
    ASSUME MainTypes, ~exited
    PROVE  (IF joined = {} THEN EPPS ELSE PortOf(Cardinality(joined))) \in Nodes
PROOF
  <1>1. CASE joined = {}
    BY <1>1 DEF Nodes
  <1>2. CASE joined # {}
    <2>1. joined \subseteq Nodes /\ joined # Nodes
      BY DEF MainTypes
    <2>2. /\ IsFiniteSet(joined) /\ Cardinality(joined) <= Cardinality(SPDs) + 1
          /\ Cardinality(joined) # Cardinality(SPDs) + 1
      BY <2>1, NodeCount, FS_Subset
    <2>3. Cardinality(joined) \in Nat /\ Cardinality(joined) # 0
      BY <1>2, <2>2, FS_CardinalityType, FS_EmptySet
    <2>4. Cardinality(joined) \in Ports
      BY <2>2, <2>3, PortCount DEF Ports
    <2> QED BY <1>2, <2>4, PortType DEF Nodes
  <1> QED BY <1>1, <1>2

LEMMA JoinTypes ==
    ASSUME TypeInv, ~exited, Join
    PROVE  TypeInv'
PROOF
  <1> DEFINE n == IF joined = {} THEN EPPS ELSE PortOf(Cardinality(joined))
  <1>1. n \in Nodes /\ (joined = {} => n = EPPS)
    BY JoinedNode DEF TypeInv
  <1>2. joined' = joined \cup {n} /\ exited' = (phase[n] # "ended" \/ joined' = Nodes)
    BY DEF Join
  <1> HIDE DEF n
  <1>3. UNCHANGED <<setup, script, stops, control, heap, phase, time, sourceVars, channel, received,
                    claimerVars, claimQueue, countVars, monitor>>
    BY DEF Join, eventVars, claimerVars
  <1>4. Scheduled' = Scheduled
    BY <1>3, SettingsAreConstant
  <1>5. MainTypes'
    BY <1>1, <1>2, <1>3, <1>4 DEF TypeInv, MainTypes
  <1> QED
    BY <1>3, <1>5, EventsKept, SourceKept, QueuesKept, ClaimersKept, CountsKept DEF TypeInv

\* A node enters a place where nothing is owed.
LEMMA Entered ==
    ASSUME TypeInv, NEW n \in Nodes, NEW place \in Places, Enter(n, place)
    PROVE  /\ phase' \in [Nodes -> Places]
           /\ place # "send" => (phase'[EPPS] = "send" => phase[EPPS] = "send")
           /\ place # "handOver" =>
                \A k \in SPDs : phase'[k] = "handOver" => phase[k] = "handOver"
  BY DEF TypeInv, EventTypes, Enter, Nodes

LEMMA PreloadTypes ==
    ASSUME TypeInv, NEW n \in Nodes, Preload(n)
    PROVE  TypeInv'
PROOF
  <1>1. UNCHANGED <<mainVars, setup, sourceVars, channel, received, claimerVars, claimQueue, countVars, monitor>>
    BY DEF Preload, mainVars, claimerVars
  <1>2. Scheduled' = Scheduled
    BY <1>1, SettingsAreConstant
  <1>3. control[n] \in Seq(Scheduled) /\ control[n] # <<>>
    BY DEF Preload, TypeInv, EventTypes
  <1>4. Head(control[n]) \in Scheduled /\ Tail(control[n]) \in Seq(Scheduled)
    BY <1>3
  <1>5. control' = [control EXCEPT ![n] = Tail(control[n])]
    BY DEF Preload
  <1>6. Head(control[n]).time \in 0 .. setup.until
    BY <1>4 DEF Scheduled, Events
  <1> HIDE DEF Scheduled
  <1>7. control' \in [Nodes -> Seq(Scheduled)]
    BY <1>4, <1>5 DEF TypeInv, EventTypes
  <1>8. /\ heap' \in [Nodes -> SUBSET Scheduled] /\ phase' \in [Nodes -> Places]
        /\ time' \in [Nodes -> 0 .. setup.until]
        /\ phase'[EPPS] = "send" => phase[EPPS] = "send"
        /\ \A k \in SPDs : phase'[k] = "handOver" => phase[k] = "handOver"
    <2>1. CASE /\ time' = [time EXCEPT ![n] = Head(control[n]).time]
               /\ Enter(n, "poll") /\ UNCHANGED heap
      BY <1>6, <2>1, Entered DEF TypeInv, EventTypes, Places
    <2>2. CASE /\ heap' = [heap EXCEPT ![n] = @ \cup {Head(control[n])}]
               /\ UNCHANGED <<time, phase>>
      BY <1>4, <2>2 DEF TypeInv, EventTypes
    <2> QED BY <2>1, <2>2 DEF Preload
  <1>9. EventTypes'
    BY <1>1, <1>2, <1>7, <1>8 DEF EventTypes
  <1> QED
    BY <1>1, <1>8, <1>9, MainKept, SourceKept, QueuesKept, ClaimersKept, CountsKept DEF TypeInv

LEMMA PollTypes ==
    ASSUME TypeInv, NEW n \in Nodes, Poll(n) \/ AllServed(n)
    PROVE  TypeInv'
PROOF
  <1>1. UNCHANGED <<mainVars, setup, time, sourceVars, channel, received, claimerVars, claimQueue,
                    countVars, monitor>>
    BY DEF Poll, AllServed, mainVars, claimerVars
  <1>2. Scheduled' = Scheduled
    BY <1>1, SettingsAreConstant
  <1>3. /\ phase' \in [Nodes -> Places]
        /\ phase'[EPPS] = "send" => phase[EPPS] = "send"
        /\ \A k \in SPDs : phase'[k] = "handOver" => phase[k] = "handOver"
    <2>1. Enter(n, "serve") \/ Enter(n, "batch")
      BY DEF Poll, AllServed
    <2> QED BY <2>1, Entered DEF Places
  <1>4. control \in [Nodes -> Seq(Scheduled)] /\ heap \in [Nodes -> SUBSET Scheduled]
    BY DEF TypeInv, EventTypes
  <1> HIDE DEF Scheduled
  <1>5. ToSet(control[n]) \subseteq Scheduled /\ <<>> \in Seq(Scheduled)
    BY <1>4 DEF ToSet
  <1>6. control' \in [Nodes -> Seq(Scheduled)] /\ heap' \in [Nodes -> SUBSET Scheduled]
    <2>1. CASE Poll(n)
      <3>1. /\ heap' = [heap EXCEPT ![n] = @ \cup ToSet(control[n])]
            /\ control' = [control EXCEPT ![n] = <<>>]
        BY <2>1 DEF Poll
      <3> QED BY <1>4, <1>5, <3>1
    <2>2. CASE AllServed(n)
      BY <1>4, <2>2 DEF AllServed, eventVars
    <2> QED BY <2>1, <2>2
  <1>7. EventTypes'
    BY <1>1, <1>2, <1>3, <1>6 DEF TypeInv, EventTypes
  <1> QED
    BY <1>1, <1>3, <1>7, MainKept, SourceKept, QueuesKept, ClaimersKept, CountsKept DEF TypeInv

LEMMA ServeTypes ==
    ASSUME TypeInv, NEW n \in Nodes, Serve(n)
    PROVE  TypeInv'
PROOF
  <1>1. UNCHANGED <<mainVars, setup, control, time, outbox, channel, received, claimQueue, hungUp,
                    claimer, tagger, untagged, countVars, monitor>>
    BY DEF Serve, mainVars
  <1>2. Scheduled' = Scheduled /\ ToSet(Planned(setup))' = ToSet(Planned(setup))
    BY <1>1, SettingsAreConstant
  <1>3. PICK event \in AtEarliest(DueEvents(n)) :
          /\ heap' = [heap EXCEPT ![n] = @ \ {event}]
          /\ sinks' = IF event.kind = "Connect" THEN sinks \cup {event.value} ELSE sinks
          /\ profile' = IF event.kind = "SetWaveProfile" THEN event.value ELSE profile
          /\ served' = IF event.kind = "SetWaveProfile" THEN served \cup {event} ELSE served
          /\ settagger' = IF event.kind = "ConnectTimeTagger"
                          THEN [settagger EXCEPT ![n] = TRUE] ELSE settagger
          /\ IF event.kind = "Stop" THEN Enter(n, Ending(n)) ELSE UNCHANGED phase
    BY DEF Serve
  <1>4. event \in Scheduled
    BY DEF AtEarliest, DueEvents, TypeInv, EventTypes
  <1>5. /\ event.kind = "Connect" => event.value \in Ports
        /\ event.kind = "SetWaveProfile" => event \in ToSet(Planned(setup))
        /\ event.value \in Nat
    BY <1>4 DEF Scheduled, Events
  <1> HIDE DEF Scheduled
  <1>6. /\ phase' \in [Nodes -> Places]
        /\ phase'[EPPS] = "send" => phase[EPPS] = "send"
        /\ \A k \in SPDs : phase'[k] = "handOver" => phase[k] = "handOver"
    <2>1. Enter(n, Ending(n)) \/ UNCHANGED phase
      BY <1>3
    <2>2. Ending(n) \in Places \ {"send", "handOver"}
      BY DEF Ending, Places
    <2>3. CASE Enter(n, Ending(n))
      BY <2>2, <2>3, Entered
    <2>4. CASE UNCHANGED phase
      BY <2>4 DEF TypeInv, EventTypes
    <2> QED BY <2>1, <2>3, <2>4
  <1>7. EventTypes'
    BY <1>1, <1>2, <1>3, <1>6 DEF TypeInv, EventTypes
  <1>8. SourceTypes'
    BY <1>1, <1>2, <1>3, <1>5, <1>6 DEF TypeInv, SourceTypes
  <1>9. ClaimerTypes'
    BY <1>1, <1>3 DEF TypeInv, ClaimerTypes
  <1> QED
    BY <1>1, <1>6, <1>7, <1>8, <1>9, MainKept, QueuesKept, CountsKept DEF TypeInv

\* What is kept when a node only moves on, to a place where nothing is owed.
LEMMA MovedTypes ==
    ASSUME TypeInv, NEW n \in Nodes, NEW place \in Places \ {"send", "handOver"}, Enter(n, place),
           UNCHANGED <<mainVars, eventVars, time, sourceVars>>
    PROVE  MainTypes' /\ EventTypes' /\ SourceTypes'
PROOF
  <1>1. UNCHANGED <<setup, control, heap, time>>
    BY DEF mainVars, eventVars
  <1>2. Scheduled' = Scheduled
    BY <1>1, SettingsAreConstant
  <1>3. EventTypes'
    BY <1>1, <1>2, Entered DEF TypeInv, EventTypes
  <1> QED BY <1>1, <1>3, Entered, MainKept, SourceKept DEF TypeInv

LEMMA GenerateTypes ==
    ASSUME TypeInv, Generate
    PROVE  TypeInv'
PROOF
  <1>1. UNCHANGED <<mainVars, setup, control, heap, sinks, profile, served, channel, received,
                    claimerVars, claimQueue, countVars, monitor>>
    BY DEF Generate, mainVars, eventVars, claimerVars
  <1>2. Scheduled' = Scheduled /\ ToSet(Planned(setup))' = ToSet(Planned(setup))
    BY <1>1, SettingsAreConstant
  <1>3. EPPS \in Nodes /\ "send" \in Places
    BY DEF Nodes, Places
  <1>4. time' \in [Nodes -> 0 .. setup.until]
    <2>1. time[EPPS] \in 0 .. setup.until /\ setup.until \in Nat
      BY <1>3, RunnerAssumption DEF TypeInv, MainTypes, EventTypes
    <2>2. CASE \E t \in time[EPPS] + 1 .. setup.until : time' = [time EXCEPT ![EPPS] = t]
      <3>1. PICK t \in time[EPPS] + 1 .. setup.until : time' = [time EXCEPT ![EPPS] = t]
        BY <2>2
      <3>2. t \in 0 .. setup.until
        BY <2>1, <3>1
      <3> QED BY <3>1, <3>2 DEF TypeInv, EventTypes
    <2>3. CASE UNCHANGED time
      BY <2>3 DEF TypeInv, EventTypes
    <2> QED BY <2>2, <2>3 DEF Generate
  <1>5. /\ phase' \in [Nodes -> Places]
        /\ \A k \in SPDs : phase'[k] = "handOver" => phase[k] = "handOver"
    BY <1>3, Entered DEF Generate
  <1>6. outbox' \in Seq([port : Ports, size : Sizes]) /\ outbox' # <<>>
    <2>1. PICK size \in Sizes :
            outbox' = [i \in 1 .. Cardinality(SPDs) |-> [port |-> i, size |-> size]]
      BY DEF Generate, Sizes
    <2> DEFINE R == [port : Ports, size : Sizes]
               d == Cardinality(SPDs)
    <2>2. d \in Nat \ {0} /\ outbox' \in [1 .. d -> R]
      BY <2>1, PortCount DEF Ports
    <2> HIDE DEF d, R
    <2>3. outbox' \in Seq(R) /\ Len(outbox') = d
      BY <2>2, TabulatedSeq
    <2>4. Len(<<>>) = 0
      OBVIOUS
    <2> QED BY <2>2, <2>3, <2>4 DEF R
  <1>7. EventTypes'
    BY <1>1, <1>2, <1>4, <1>5 DEF TypeInv, EventTypes
  <1>8. SourceTypes'
    BY <1>1, <1>2, <1>6 DEF TypeInv, SourceTypes
  <1> QED
    BY <1>1, <1>5, <1>7, <1>8, MainKept, QueuesKept, ClaimersKept, CountsKept DEF TypeInv

LEMMA SendBatchTypes ==
    ASSUME TypeInv, SendBatch
    PROVE  TypeInv'
PROOF
  <1> DEFINE port == Head(outbox).port
             n    == PortOf(port)
             R    == [port : Ports, size : Sizes]
  <1>1. UNCHANGED <<mainVars, eventVars, time, sinks, profile, served, received, claimerVars, claimQueue,
                    countVars, monitor>>
    BY DEF SendBatch, claimerVars
  <1>2. phase[EPPS] = "send" /\ outbox # <<>> /\ outbox \in Seq(R)
    BY DEF SendBatch, TypeInv, SourceTypes
  <1>3. Head(outbox) \in R /\ Tail(outbox) \in Seq(R)
    <2> HIDE DEF R
    <2> QED BY <1>2
  <1>4. n \in SPDs /\ Head(outbox).size \in Sizes
    BY <1>3, PortType
  <1>5. EPPS \in Nodes /\ \A k \in SPDs : k # EPPS
    BY RunnerAssumption DEF Nodes
  <1>6. CASE \/ Enter(EPPS, "unconnected") /\ UNCHANGED <<channel, outbox>>
             \/ Enter(EPPS, "panicked") /\ UNCHANGED <<channel, outbox>>
    <2>1. PICK place \in {"unconnected", "panicked"} : Enter(EPPS, place)
      BY <1>6
    <2>2. place \in Places \ {"send", "handOver"}
      BY DEF Places
    <2>3. UNCHANGED sourceVars
      BY <1>1, <1>6 DEF sourceVars
    <2>4. MainTypes' /\ EventTypes' /\ SourceTypes'
      BY <1>1, <1>5, <2>1, <2>2, <2>3, MovedTypes
    <2>5. \A k \in SPDs : phase'[k] = "handOver" => phase[k] = "handOver"
      BY <1>5, <2>1, <2>2, Entered
    <2> QED
      BY <1>1, <1>6, <2>4, <2>5, QueuesKept, ClaimersKept, CountsKept DEF TypeInv
  <1>7. CASE /\ HasRoom(channel[n], ChannelSize)
             /\ channel' = [channel EXCEPT ![n] = Append(@, Head(outbox).size)]
             /\ outbox' = Tail(outbox)
             /\ IF Len(outbox) = 1 THEN Enter(EPPS, "poll") ELSE UNCHANGED phase
    <2>1. UNCHANGED <<setup, control, heap>>
      BY <1>1 DEF mainVars, eventVars
    <2>2. Scheduled' = Scheduled /\ ToSet(Planned(setup))' = ToSet(Planned(setup))
      BY <2>1, SettingsAreConstant
    <2>3. phase \in [Nodes -> Places]
      BY DEF TypeInv, EventTypes
    <2>4. /\ phase' \in [Nodes -> Places]
          /\ phase'[EPPS] = "send" => Tail(outbox) # <<>>
          /\ \A k \in SPDs : phase'[k] = "handOver" => phase[k] = "handOver"
      <3>1. Enter(EPPS, "poll") \/ (Len(outbox) # 1 /\ UNCHANGED phase)
        BY <1>7
      <3>2. CASE Enter(EPPS, "poll")
        BY <1>5, <2>3, <3>2 DEF Enter, Places
      <3>3. CASE Len(outbox) # 1 /\ UNCHANGED phase
        <4>1. Len(Tail(outbox)) = Len(outbox) - 1 /\ Len(outbox) \in Nat \ {0} /\ Len(<<>>) = 0
          <5> HIDE DEF R
          <5> QED BY <1>2
        <4>2. Tail(outbox) # <<>>
          BY <3>3, <4>1
        <4> QED BY <2>3, <3>3, <4>2
      <3> QED BY <3>1, <3>2, <3>3
    <2>5. EventTypes'
      BY <1>1, <2>1, <2>2, <2>4 DEF TypeInv, EventTypes
    <2>6. SourceTypes'
      BY <1>1, <1>3, <1>7, <2>2, <2>4 DEF TypeInv, SourceTypes
    <2>7. QueueTypes'
      <3>1. channel[n] \in Seq(Sizes) /\ Len(channel[n]) < ChannelSize
        BY <1>4, <1>7 DEF HasRoom, TypeInv, QueueTypes
      <3>2. Append(channel[n], Head(outbox).size) \in Seq(Sizes)
        BY <1>4, <3>1
      <3>3. Len(Append(channel[n], Head(outbox).size)) <= ChannelSize
        BY <1>4, <3>1, RunnerAssumption
      <3> HIDE DEF n
      <3> QED BY <1>1, <1>4, <1>7, <2>4, <3>2, <3>3 DEF TypeInv, QueueTypes
    <2> QED
      BY <1>1, <2>5, <2>6, <2>7, MainKept, ClaimersKept, CountsKept DEF TypeInv
  <1> QED BY <1>6, <1>7 DEF SendBatch

LEMMA DetectorTypes ==
    ASSUME TypeInv, NEW n \in SPDs,
           Consume(n) \/ HandOver(n) \/ DropWorker(n) \/ JoinClaimer(n)
    PROVE  TypeInv'
PROOF
  <1>0. n \in Nodes /\ n # EPPS
    BY RunnerAssumption DEF Nodes
  <1>1. CASE Consume(n)
    <2>1. UNCHANGED <<mainVars, setup, control, heap, time, sourceVars, claimerVars, claimQueue, monitor>>
      BY <1>1 DEF Consume, mainVars, eventVars, claimerVars
    <2>2. channel[n] \in Seq(Sizes) /\ channel[n] # <<>> /\ Len(channel[n]) <= ChannelSize
      BY <1>1 DEF Consume, TypeInv, QueueTypes
    <2>3. /\ Head(channel[n]) \in Sizes /\ Tail(channel[n]) \in Seq(Sizes)
          /\ Len(Tail(channel[n])) <= ChannelSize
      BY <2>2, RunnerAssumption
    <2>4. Head(channel[n]) \in 0 .. MaxSize /\ Counted(Head(channel[n])) \in Nat
      BY <2>3, RunnerAssumption DEF Sizes, Counted
    <2>5. phase' = [phase EXCEPT ![n] = "handOver"] /\ phase \in [Nodes -> Places] /\ "handOver" \in Places
      BY <1>1 DEF Consume, Enter, TypeInv, EventTypes, Places
    <2>6. /\ received' = [received EXCEPT ![n] = Head(channel[n])]
          /\ channel' = [channel EXCEPT ![n] = Tail(channel[n])]
          /\ counter' = [counter EXCEPT ![n] = @ + Counted(Head(channel[n]))]
          /\ consumed' = consumed + Counted(Head(channel[n]))
      BY <1>1 DEF Consume
    <2>7. EventTypes'
      BY <1>0, <2>1, <2>5, SettingsAreConstant DEF TypeInv, EventTypes
    <2>8. SourceTypes'
      BY <1>0, <2>1, <2>5, SourceKept DEF TypeInv
    <2>9. QueueTypes'
      BY <1>0, <2>1, <2>3, <2>4, <2>5, <2>6 DEF TypeInv, QueueTypes
    <2>10. CountTypes'
      BY <2>1, <2>4, <2>6 DEF TypeInv, CountTypes
    <2> QED BY <2>1, <2>7, <2>8, <2>9, <2>10, MainKept, ClaimersKept DEF TypeInv
  <1>2. CASE HandOver(n)
    <2>1. UNCHANGED <<mainVars, eventVars, time, sourceVars, channel, received, hungUp, settagger,
                      claimer, tagger, untagged, countVars, monitor>> /\ Enter(n, "poll")
      BY <1>2 DEF HandOver
    <2>2. "poll" \in Places \ {"send", "handOver"}
      BY DEF Places
    <2>3. claimQueue[n] \in Seq(Sizes) /\ Len(claimQueue[n]) < ClaimerSize /\ received[n] \in Sizes
      BY <1>2 DEF HandOver, HasRoom, TypeInv, QueueTypes
    <2>4. /\ Append(claimQueue[n], received[n]) \in Seq(Sizes)
          /\ Len(Append(claimQueue[n], received[n])) <= ClaimerSize
      BY <2>3, RunnerAssumption
    <2>5. claimQueue' = [claimQueue EXCEPT ![n] = Append(claimQueue[n], received[n])]
      BY <1>2 DEF HandOver
    <2>6. \A k \in SPDs : phase'[k] = "handOver" => phase[k] = "handOver"
      BY <1>0, <2>1, <2>2, Entered
    <2>7. QueueTypes'
      BY <2>1, <2>4, <2>5, <2>6 DEF TypeInv, QueueTypes
    <2>8. ClaimerTypes'
      BY <2>1 DEF TypeInv, ClaimerTypes
    <2> QED BY <1>0, <2>1, <2>2, <2>7, <2>8, MovedTypes, CountsKept DEF TypeInv
  <1>3. CASE DropWorker(n) \/ JoinClaimer(n)
    <2>1. UNCHANGED <<mainVars, eventVars, time, sourceVars, channel, received, claimQueue, settagger,
                      claimer, tagger, untagged, countVars, monitor>>
      BY <1>3 DEF DropWorker, JoinClaimer, claimerVars
    <2>2. PICK place \in Places \ {"send", "handOver"} : Enter(n, place)
      BY <1>3 DEF DropWorker, JoinClaimer, Places
    <2>3. hungUp' \subseteq SPDs
      BY <1>3 DEF DropWorker, JoinClaimer, claimerVars, HungUp, TypeInv, ClaimerTypes
    <2>4. \A k \in SPDs : phase'[k] = "handOver" => phase[k] = "handOver"
      BY <1>0, <2>2, Entered
    <2>5. ClaimerTypes'
      BY <2>1, <2>3 DEF TypeInv, ClaimerTypes
    <2> QED BY <1>0, <2>1, <2>2, <2>4, <2>5, MovedTypes, QueuesKept, CountsKept DEF TypeInv
  <1> QED BY <1>1, <1>2, <1>3

LEMMA ClaimTypes ==
    ASSUME TypeInv, NEW n \in SPDs, Claim(n)
    PROVE  TypeInv'
PROOF
  <1>1. UNCHANGED <<mainVars, setup, control, heap, phase, time, sourceVars, channel, received, countVars,
                    monitor>>
    BY DEF Claim, mainVars, eventVars
  <1> DEFINE P == {"spawned", "recv", "poll", "tag", "ended"}
  <1>2. claimer[n] \in P \ {"ended"} => LoopOrder[claimer[n]] \in P
    BY DEF LoopOrder
  <1>3. claimer' \in [SPDs -> P]
    <2>1. CASE claimer[n] # "ended" /\ claimer' = [claimer EXCEPT ![n] = LoopOrder[claimer[n]]]
      BY <1>2, <2>1 DEF TypeInv, ClaimerTypes
    <2>2. CASE claimer' = [claimer EXCEPT ![n] = "ended"]
      BY <2>2 DEF TypeInv, ClaimerTypes
    <2> QED
      BY <2>1, <2>2 DEF Claim, LookForTagger, ReceiveBatch, SendTags, Proceed
  <1>4. /\ hungUp' \subseteq SPDs /\ untagged' \subseteq SPDs
        /\ settagger' \in [SPDs -> BOOLEAN] /\ tagger' \in [SPDs -> BOOLEAN]
    <2>1. CASE LookForTagger(n)
      <3>1. /\ tagger' = [tagger EXCEPT ![n] = @ \/ settagger[n]]
            /\ settagger' = [settagger EXCEPT ![n] = FALSE] /\ UNCHANGED <<hungUp, untagged>>
        BY <2>1 DEF LookForTagger
      <3>2. (tagger[n] \/ settagger[n]) \in BOOLEAN
        OBVIOUS
      <3> QED BY <3>1, <3>2 DEF TypeInv, ClaimerTypes
    <2>2. CASE ReceiveBatch(n)
      BY <2>2 DEF ReceiveBatch, TypeInv, ClaimerTypes
    <2>3. CASE SendTags(n)
      BY <2>3 DEF SendTags, TypeInv, ClaimerTypes
    <2> QED BY <2>1, <2>2, <2>3 DEF Claim
  <1>5. ClaimerTypes'
    BY <1>3, <1>4 DEF ClaimerTypes
  <1>6. QueueTypes'
    <2>1. CASE UNCHANGED claimQueue
      BY <1>1, <2>1, QueuesKept DEF TypeInv
    <2>2. CASE claimQueue[n] # <<>> /\ claimQueue' = [claimQueue EXCEPT ![n] = Tail(@)]
      <3>1. claimQueue[n] \in Seq(Sizes) /\ Len(claimQueue[n]) <= ClaimerSize
        BY DEF TypeInv, QueueTypes
      <3>2. Tail(claimQueue[n]) \in Seq(Sizes) /\ Len(Tail(claimQueue[n])) <= ClaimerSize
        BY <2>2, <3>1, RunnerAssumption
      <3> QED BY <1>1, <2>2, <3>2 DEF TypeInv, QueueTypes
    <2> QED BY <2>1, <2>2 DEF Claim, LookForTagger, ReceiveBatch, SendTags
  <1> QED
    BY <1>1, <1>5, <1>6, MainKept, EventsKept, SourceKept, CountsKept DEF TypeInv

LEMMA MonitorTypes ==
    ASSUME TypeInv, Monitor
    PROVE  TypeInv'
PROOF
  <1>1. UNCHANGED <<mainVars, setup, control, heap, phase, time, sourceVars, channel, received, claimerVars,
                    claimQueue, consumed>>
    BY DEF Monitor, mainVars, eventVars, claimerVars
  <1>2. /\ monitor \in [place : {"load", "reset"}, through : 0 .. Cardinality(SPDs), sum : Nat,
                    total : Nat, rounds : Nat]
        /\ monitor.place = "reset" => monitor.through # Cardinality(SPDs)
        /\ counter \in [SPDs -> Nat] /\ consumed \in Nat
    BY DEF TypeInv, CountTypes
  <1> DEFINE d == Cardinality(SPDs)
             M == [place : {"load", "reset"}, through : 0 .. d, sum : Nat, total : Nat, rounds : Nat]
  <1>3. /\ monitor.through \in 0 .. d /\ monitor.sum \in Nat /\ monitor.total \in Nat
        /\ monitor.rounds \in Nat /\ d \in Nat \ {0} /\ monitor \in M
    BY <1>2, PortCount
  <1> HIDE DEF d
  <1>4. CountTypes'
    <2>1. CASE Load
      <3> DEFINE s == monitor.sum + counter[PortOf(monitor.through + 1)]
                 t == monitor.through + 1
      <3>1. t \in Ports /\ t \in 0 .. d
        BY <1>3, <2>1 DEF Load, Ports, d
      <3>2. s \in Nat
        BY <1>2, <1>3, <3>1, PortType
      <3>3. monitor' = [monitor EXCEPT !.sum = s, !.through = t] /\ UNCHANGED counter /\ monitor.place = "load"
        BY <2>1 DEF Load
      <3> HIDE DEF s, t
      <3>4. monitor' \in M /\ monitor'.place = "load"
        BY <1>3, <3>1, <3>2, <3>3
      <3> QED BY <1>1, <1>2, <3>3, <3>4 DEF CountTypes, d
    <2>2. CASE AddUp
      <3> DEFINE t == monitor.total + monitor.sum
      <3>1. t \in Nat /\ 0 \in 0 .. d
        BY <1>3
      <3>2. /\ monitor' = [monitor EXCEPT !.total = t, !.sum = 0, !.through = 0, !.place = "reset"]
            /\ UNCHANGED counter
        BY <2>2 DEF AddUp
      <3> HIDE DEF t
      <3>3. monitor' \in M /\ monitor'.through = 0
        BY <1>3, <3>1, <3>2
      <3> QED BY <1>1, <1>2, <1>3, <3>2, <3>3 DEF CountTypes, d
    <2>3. CASE Reset
      <3> DEFINE t == monitor.through + 1
                 r == monitor.rounds + 1
      <3>1. t \in Ports /\ t \in 0 .. d /\ r \in Nat /\ 0 \in 0 .. d
        BY <1>2, <1>3, <2>3 DEF Reset, Ports, d
      <3>2. counter' = [counter EXCEPT ![PortOf(t)] = 0] /\ monitor.place = "reset"
        BY <2>3 DEF Reset, Cleared
      <3>3. monitor' = IF t = d THEN [monitor EXCEPT !.place = "load", !.through = 0, !.rounds = r]
                       ELSE [monitor EXCEPT !.through = t]
        BY <2>3 DEF Reset, d
      <3> HIDE DEF t, r
      <3>4. monitor' \in M /\ (monitor'.place = "reset" => monitor'.through # d)
        BY <1>3, <3>1, <3>2, <3>3
      <3> QED BY <1>1, <1>2, <3>1, <3>2, <3>4, PortType DEF CountTypes, d
    <2> QED BY <2>1, <2>2, <2>3 DEF Monitor
  <1> QED
    BY <1>1, <1>4, MainKept, EventsKept, SourceKept, QueuesKept, ClaimersKept DEF TypeInv

LEMMA TypesStep ==
    ASSUME TypeInv, [Next]_vars
    PROVE  TypeInv'
PROOF
  <1>1. CASE Main
    BY <1>1, SendTypes, JoinTypes DEF Main
  <1>2. CASE ~exited /\ SendStop
    BY <1>2, SendTypes
  <1>3. CASE Source
    <2>1. EPPS \in Nodes
      BY DEF Nodes
    <2> QED
      BY <1>3, <2>1, PreloadTypes, PollTypes, ServeTypes, GenerateTypes, SendBatchTypes DEF Source, Run
  <1>4. CASE \E n \in SPDs : Detector(n)
    <2>1. PICK n \in SPDs : Detector(n)
      BY <1>4
    <2>2. n \in Nodes
      BY DEF Nodes
    <2> QED
      BY <2>1, <2>2, PreloadTypes, PollTypes, ServeTypes, DetectorTypes DEF Detector, Run
  <1>5. CASE \E n \in SPDs : Claim(n)
    BY <1>5, ClaimTypes
  <1>6. CASE Monitor
    BY <1>6, MonitorTypes
  <1>7. CASE UNCHANGED vars
    BY <1>7, MainKept, EventsKept, SourceKept, QueuesKept, ClaimersKept, CountsKept
    DEF TypeInv, vars, mainVars, eventVars, claimerVars
  <1> QED BY <1>1, <1>2, <1>3, <1>4, <1>5, <1>6, <1>7 DEF Next

\* Every variable keeps its type, the channels their bounds, and main joins
\* each thread at most once.
THEOREM RunnerTypeCorrect == Spec => []TypeOK
PROOF
  <1>1. Init => TypeInv
    BY InitTypes
  <1>2. TypeInv /\ [Next]_vars => TypeInv'
    BY TypesStep
  <1>3. TypeInv => TypeOK
    BY TypeInvImpliesTypeOK
  <1> QED BY <1>1, <1>2, <1>3, PTL DEF Spec

-----------------------------------------------------------------------------
(* The order in which the events take effect: what main sends a node       *)
(* before Start is in force at the node's first batch, although it passes  *)
(* through main's script, a channel, a heap and, for a tagger, a second    *)
(* channel to the claimer.                                                 *)

Starts       == {e \in Scheduled : e.kind = "Start"}
For(n, e)    == [node |-> n, event |-> e]
StartsFor(n) == {For(n, e) : e \in Starts}

Has(s, x)      == \E i \in 1 .. Len(s) : s[i] = x
Leads(s, x, Z) == \A j \in 1 .. Len(s) : s[j] \in Z => \E i \in 1 .. j - 1 : s[i] = x

\* While node n waits for Start, event e precedes it: in the heap already, or
\* on its way and ahead of every Start.
BeforeStart(n, e) ==
    phase[n] = "preload" =>
        \/ e \in heap[n]
        \/ /\ Leads(control[n], e, Starts)
           /\ Has(control[n], e) \/ Leads(script, For(n, e), StartsFor(n))

LEMMA LeadsAppend ==
    ASSUME NEW A, NEW s \in Seq(A), NEW y \in A, NEW x, NEW Z,
           Leads(s, x, Z), y \in Z => Has(s, x)
    PROVE  Leads(Append(s, y), x, Z) /\ (Has(s, x) \/ y = x => Has(Append(s, y), x))
PROOF
  <1> DEFINE t == Append(s, y)
             n == Len(s)
  <1>1. n \in Nat /\ Len(t) = n + 1 /\ t[n + 1] = y /\ \A i \in 1 .. n : t[i] = s[i]
    OBVIOUS
  <1>2. Len(s) = n
    OBVIOUS
  <1> HIDE DEF t, n
  <1>3. Has(s, x) \/ y = x => Has(t, x)
    BY <1>1, <1>2 DEF Has
  <1>4. ASSUME NEW j \in 1 .. n + 1, t[j] \in Z
        PROVE  \E i \in 1 .. j - 1 : t[i] = x
    <2>1. CASE j = n + 1
      BY <1>1, <1>2, <1>4, <2>1 DEF Has
    <2>2. CASE j \in 1 .. n
      <3>1. PICK i \in 1 .. j - 1 : s[i] = x
        BY <1>1, <1>2, <1>4, <2>2 DEF Leads
      <3> QED BY <1>1, <2>2, <3>1
    <2> QED BY <1>1, <2>1, <2>2
  <1>5. Leads(t, x, Z)
    BY <1>1, <1>4 DEF Leads
  <1> QED BY <1>3, <1>5 DEF t

LEMMA LeadsTail ==
    ASSUME NEW A, NEW s \in Seq(A), s # <<>>, NEW x, NEW Z, Leads(s, x, Z)
    PROVE  /\ Head(s) \notin Z
           /\ Head(s) # x => Leads(Tail(s), x, Z)
           /\ Head(s) # x /\ Has(s, x) => Has(Tail(s), x)
PROOF
  <1> DEFINE t == Tail(s)
             n == Len(t)
  <1>1. n \in Nat /\ Len(s) = n + 1 /\ s[1] = Head(s) /\ \A i \in 1 .. n : t[i] = s[i + 1]
    OBVIOUS
  <1>2. Len(t) = n
    OBVIOUS
  <1> HIDE DEF t, n
  <1>3. Head(s) \notin Z
    <2>1. 1 \in 1 .. n + 1 /\ 1 .. 1 - 1 = {}
      BY <1>1
    <2> QED BY <1>1, <2>1 DEF Leads
  <1>4. ASSUME Head(s) # x
        PROVE  Leads(t, x, Z) /\ (Has(s, x) => Has(t, x))
    <2>1. ASSUME NEW j \in 1 .. n, t[j] \in Z
          PROVE  \E i \in 1 .. j - 1 : t[i] = x
      <3>1. j + 1 \in 1 .. Len(s) /\ s[j + 1] \in Z
        BY <1>1, <2>1
      <3>2. PICK i \in 1 .. (j + 1) - 1 : s[i] = x
        BY <3>1 DEF Leads
      <3>3. i - 1 \in 1 .. j - 1 /\ i - 1 \in 1 .. n /\ (i - 1) + 1 = i
        BY <1>1, <1>4, <3>2
      <3>4. t[i - 1] = x
        BY <1>1, <3>2, <3>3
      <3> QED BY <3>3, <3>4
    <2>2. ASSUME Has(s, x)
          PROVE  Has(t, x)
      <3>1. PICK i \in 1 .. n + 1 : s[i] = x
        BY <1>1, <2>2 DEF Has
      <3>2. i - 1 \in 1 .. n /\ (i - 1) + 1 = i
        BY <1>1, <1>4, <3>1
      <3>3. t[i - 1] = x
        BY <1>1, <3>1, <3>2
      <3> QED BY <1>2, <3>2, <3>3 DEF Has
    <2> QED BY <1>2, <2>1, <2>2 DEF Leads
  <1> QED BY <1>3, <1>4 DEF t
-----------------------------------------------------------------------------
(* Before Start                                                            *)

LEMMA SetupFixed ==
    ASSUME [Next]_vars
    PROVE  UNCHANGED setup
  BY DEF Next, Main, Source, Detector, Claim, Monitor, Run, SendControl, SendStop, Join, Preload,
         Poll, Serve, AllServed, Generate, SendBatch, Consume, HandOver, DropWorker, JoinClaimer,
         mainVars, vars

LEMMA StartsFixed ==
    ASSUME UNCHANGED setup
    PROVE  Starts' = Starts /\ \A n : StartsFor(n)' = StartsFor(n)
PROOF
  <1>1. Starts' = Starts
    BY SettingsAreConstant DEF Starts
  <1> QED BY <1>1 DEF StartsFor, For

\* A node that waits for Start is not touched by any other action.
Waiting(n) == phase[n] = "preload"
Untouched(n) ==
    /\ Waiting(n)' <=> Waiting(n)
    /\ Waiting(n) => UNCHANGED <<control[n], heap[n]>>

LEMMA WaitingIsLeftAlone ==
    ASSUME TypeInv, [Next]_vars, NEW n \in Nodes
    PROVE  \/ SendControl \/ SendStop \/ Preload(n)
           \/ UNCHANGED script /\ Untouched(n)
PROOF
  <1>0. /\ phase \in [Nodes -> Places] /\ control \in [Nodes -> Seq(Scheduled)]
        /\ heap \in [Nodes -> SUBSET Scheduled]
    BY DEF TypeInv, EventTypes
  <1>1. ASSUME NEW k \in Nodes, Run(k), ~Preload(n)
        PROVE  UNCHANGED script /\ Untouched(n)
    <2>1. CASE Preload(k)
      <3>1. k # n /\ UNCHANGED script
        BY <1>1, <2>1 DEF Preload, mainVars
      <3>2. /\ phase' = phase \/ phase' = [phase EXCEPT ![k] = "poll"]
            /\ heap' = heap \/ heap' = [heap EXCEPT ![k] = @ \cup {Head(control[k])}]
            /\ control' = [control EXCEPT ![k] = Tail(@)]
        BY <2>1 DEF Preload, Enter
      <3> QED BY <1>0, <3>1, <3>2 DEF Untouched, Waiting
    <2>2. CASE Poll(k)
      BY <1>0, <2>2 DEF Poll, Enter, Untouched, Waiting, mainVars
    <2>3. CASE Serve(k)
      <3>1. PICK event : heap' = [heap EXCEPT ![k] = @ \ {event}]
        BY <2>3 DEF Serve
      <3>2. \/ phase' = phase
            \/ phase' = [phase EXCEPT ![k] = "ended"]
            \/ phase' = [phase EXCEPT ![k] = "dropping"]
        BY <2>3 DEF Serve, Enter, Ending
      <3>3. phase[k] = "serve" /\ UNCHANGED <<script, control>>
        BY <2>3 DEF Serve, mainVars
      <3> QED BY <1>0, <3>1, <3>2, <3>3 DEF Untouched, Waiting
    <2>4. CASE AllServed(k)
      BY <1>0, <2>4 DEF AllServed, Enter, Untouched, Waiting, mainVars, eventVars
    <2> QED BY <1>1, <2>1, <2>2, <2>3, <2>4 DEF Run
  <1>2. CASE Generate \/ SendBatch
    <2>1. phase[EPPS] # "preload" /\ EPPS \in Nodes /\ UNCHANGED <<script, control, heap>>
      BY <1>2 DEF Generate, SendBatch, mainVars, eventVars, Nodes
    <2>2. phase' = phase \/ \E place \in Places \ {"preload"} : phase' = [phase EXCEPT ![EPPS] = place]
      BY <1>2 DEF Generate, SendBatch, Enter, Places
    <2> QED BY <1>0, <2>1, <2>2 DEF Untouched, Waiting
  <1>3. ASSUME NEW k \in SPDs, Consume(k) \/ HandOver(k) \/ DropWorker(k) \/ JoinClaimer(k)
        PROVE  UNCHANGED script /\ Untouched(n)
    <2>1. phase[k] # "preload" /\ k \in Nodes /\ UNCHANGED <<script, control, heap>>
      BY <1>3 DEF Consume, HandOver, DropWorker, JoinClaimer, mainVars, eventVars, Nodes
    <2>2. \E place \in Places \ {"preload"} : phase' = [phase EXCEPT ![k] = place]
      BY <1>3 DEF Consume, HandOver, DropWorker, JoinClaimer, Enter, Places
    <2> QED BY <1>0, <2>1, <2>2 DEF Untouched, Waiting
  <1>4. CASE Join \/ Monitor \/ (\E k \in SPDs : Claim(k)) \/ UNCHANGED vars
    BY <1>4 DEF Join, Monitor, Claim, vars, mainVars, eventVars, Untouched, Waiting
  <1> QED BY <1>1, <1>2, <1>3, <1>4 DEF Next, Main, Source, Detector, Nodes

\* What main sends next, and the nodes that get it.
LEMMA SentNext ==
    ASSUME TypeInv, SendControl \/ SendStop, NEW n \in Nodes
    PROVE  /\ UNCHANGED <<setup, heap, phase>> /\ control[n] \in Seq(Scheduled)
           /\ \/ UNCHANGED control[n]
              \/ control'[n] = Append(control[n], Stop(0)) /\ Stop(0) \in Scheduled
              \/ /\ script # <<>> /\ Head(script).event \in Scheduled
                 /\ Head(script) = For(n, Head(script).event)
                 /\ control'[n] = Append(control[n], Head(script).event)
           /\ SendControl => /\ script # <<>> /\ script' = Tail(script)
                             /\ Head(script) = For(Head(script).node, Head(script).event)
                             /\ Head(script).node # n => UNCHANGED control[n]
           /\ SendStop => UNCHANGED script /\ script = <<>>
PROOF
  <1>0. /\ control \in [Nodes -> Seq(Scheduled)] /\ setup \in Experiments
        /\ script \in Seq([node : Nodes, event : Scheduled])
    BY DEF TypeInv, EventTypes, MainTypes
  <1>1. UNCHANGED <<setup, heap, phase>>
    BY DEF SendControl, SendStop
  <1>2. CASE SendControl
    <2>1. script # <<>>
      BY <1>2 DEF SendControl
    <2> DEFINE R == [node : Nodes, event : Scheduled]
    <2> HIDE DEF R
    <2>2. script \in Seq(R)
      BY <1>0 DEF R
    <2>3. Head(script) \in R
      BY <2>1, <2>2
    <2>4. /\ Head(script).event \in Scheduled /\ Head(script).node \in Nodes
          /\ Head(script) = [node |-> Head(script).node, event |-> Head(script).event]
      BY <2>3 DEF R
    <2> DEFINE x == Head(script)
    <2>5. control' = [control EXCEPT ![x.node] = Append(@, x.event)] /\ script' = Tail(script)
      BY <1>2 DEF SendControl, SendTo
    <2>6. ~SendStop
      BY <1>2, <2>1 DEF SendStop
    <2> HIDE DEF x
    <2>7. /\ x.event \in Scheduled /\ x.node \in Nodes
          /\ x = For(x.node, x.event)
      BY <2>4 DEF x, For
    <2>8. CASE x.node = n
      BY <1>0, <1>1, <1>2, <2>1, <2>5, <2>6, <2>7, <2>8 DEF x
    <2>9. CASE x.node # n
      BY <1>0, <1>1, <1>2, <2>1, <2>5, <2>6, <2>7, <2>9 DEF x
    <2> QED BY <2>8, <2>9
  <1>3. CASE SendStop
    <2>1. PICK k : k = Head(stops) /\ SendTo(k, Stop(0))
      BY <1>3 DEF SendStop
    <2>2. script = <<>> /\ UNCHANGED script
      BY <1>3 DEF SendStop
    <2>3. ~SendControl
      BY <2>2 DEF SendControl
    <2>4. 0 \in 0 .. setup.until
      BY <1>0, RunnerAssumption
    <2>5. Stop(0) \in Scheduled
      BY <2>4 DEF Stop, Scheduled, Events
    <2>6. control' = [control EXCEPT ![k] = Append(@, Stop(0))]
      BY <2>1 DEF SendTo
    <2> QED BY <1>0, <1>1, <1>3, <2>2, <2>3, <2>5, <2>6
  <1> QED BY <1>2, <1>3

LEMMA PreloadOf ==
    ASSUME TypeInv, NEW n \in Nodes, Preload(n)
    PROVE  /\ UNCHANGED <<setup, script>> /\ phase[n] = "preload"
           /\ control[n] \in Seq(Scheduled) /\ control[n] # <<>> /\ Head(control[n]) \in Scheduled
           /\ control'[n] = Tail(control[n])
           /\ \/ /\ Head(control[n]) \in Starts /\ phase'[n] = "poll" /\ UNCHANGED heap
                 /\ time'[n] = Head(control[n]).time
              \/ /\ Head(control[n]) \notin Starts /\ UNCHANGED <<phase, time>>
                 /\ heap'[n] = heap[n] \cup {Head(control[n])}
PROOF
  <1>0. /\ phase \in [Nodes -> Places] /\ control \in [Nodes -> Seq(Scheduled)]
        /\ heap \in [Nodes -> SUBSET Scheduled] /\ time \in [Nodes -> 0 .. setup.until]
    BY DEF TypeInv, EventTypes
  <1>1. UNCHANGED <<setup, script>> /\ phase[n] = "preload" /\ control[n] # <<>>
    BY DEF Preload, mainVars
  <1>2. control[n] \in Seq(Scheduled) /\ Head(control[n]) \in Scheduled
    BY <1>0, <1>1
  <1>3. control' = [control EXCEPT ![n] = Tail(@)]
    BY DEF Preload
  <1>4. \/ /\ Head(control[n]).kind = "Start" /\ Enter(n, "poll") /\ UNCHANGED heap
           /\ time' = [time EXCEPT ![n] = Head(control[n]).time]
        \/ /\ Head(control[n]).kind # "Start" /\ UNCHANGED <<phase, time>>
           /\ heap' = [heap EXCEPT ![n] = @ \cup {Head(control[n])}]
    BY DEF Preload
  <1>5. Head(control[n]) \in Starts <=> Head(control[n]).kind = "Start"
    BY <1>2 DEF Starts
  <1> HIDE DEF Scheduled, Starts
  <1> QED BY <1>0, <1>1, <1>2, <1>3, <1>4, <1>5 DEF Enter

\* An event that main sends before Start is in the heap when the node leaves
\* the place where it waits for Start.
LEMMA BeforeStartStep ==
    ASSUME TypeInv, [Next]_vars, NEW n \in Nodes, NEW e, e.kind \notin {"Start", "Stop"},
           BeforeStart(n, e)
    PROVE  /\ BeforeStart(n, e)'
           /\ Waiting(n) /\ ~Waiting(n)' => e \in heap'[n]
PROOF
  <1>1. UNCHANGED setup /\ Starts' = Starts /\ StartsFor(n)' = StartsFor(n) /\ For(n, e)' = For(n, e)
    BY SetupFixed, StartsFixed DEF For
  <1>2. e \notin Starts /\ For(n, e) \notin StartsFor(n) /\ e # Stop(0) /\ Stop(0) \notin Starts
    <2>1. e \notin Starts /\ e # Stop(0) /\ Stop(0) \notin Starts
      BY DEF Starts, Stop
    <2>2. \A f \in Starts : For(n, f).event = f /\ For(n, e).event = e
      BY DEF For
    <2> QED BY <2>1, <2>2 DEF StartsFor
  <1>3. CASE SendControl \/ SendStop
    <2>1. /\ UNCHANGED <<heap, phase>> /\ control[n] \in Seq(Scheduled)
          /\ \/ UNCHANGED control[n]
             \/ control'[n] = Append(control[n], Stop(0)) /\ Stop(0) \in Scheduled
             \/ /\ script # <<>> /\ Head(script).event \in Scheduled
                /\ Head(script) = For(n, Head(script).event)
                /\ control'[n] = Append(control[n], Head(script).event)
      BY <1>3, SentNext
    <2>2. \/ UNCHANGED script
          \/ /\ script # <<>> /\ script' = Tail(script)
             /\ Head(script).node # n => UNCHANGED control[n]
      BY <1>3, SentNext
    <2>3. SUFFICES ASSUME Waiting(n), e \notin heap[n],
                          Leads(control[n], e, Starts),
                          Has(control[n], e) \/ Leads(script, For(n, e), StartsFor(n))
                   PROVE  /\ Leads(control[n], e, Starts)'
                          /\ \/ Has(control[n], e)'
                             \/ Leads(script, For(n, e), StartsFor(n))'
      BY <1>1, <2>1 DEF BeforeStart, Waiting
    <2> DEFINE R == [node : Nodes, event : Scheduled]
    <2> HIDE DEF R
    <2>4. script \in Seq(R)
      BY DEF TypeInv, MainTypes, R
    <2>5. CASE UNCHANGED control[n]
      <3>1. SUFFICES ASSUME ~Has(control[n], e), Leads(script, For(n, e), StartsFor(n))
                     PROVE  Has(control[n], e)' \/ Leads(script, For(n, e), StartsFor(n))'
        BY <1>1, <2>3, <2>5 DEF Has, Leads
      <3>2. CASE UNCHANGED script
        BY <1>1, <3>1, <3>2 DEF Leads
      <3>3. CASE script # <<>> /\ script' = Tail(script) /\ Head(script) # For(n, e)
        <4>1. Leads(Tail(script), For(n, e), StartsFor(n))
          BY <2>4, <3>1, <3>3, LeadsTail
        <4> QED BY <1>1, <3>3, <4>1 DEF Leads
      <3>4. CASE script # <<>> /\ Head(script) = For(n, e) /\ script' = Tail(script)
        <4>1. SendControl /\ Head(script).node = n /\ Head(script).event = e
          BY <1>3, <3>4 DEF For, SendStop
        <4>2. control' = [control EXCEPT ![n] = Append(@, e)]
          BY <4>1 DEF SendControl, SendTo
        <4>3. control'[n] = Append(control[n], e) /\ Len(Append(control[n], e)) = Len(control[n]) + 1
          BY <2>1, <4>2 DEF TypeInv, EventTypes
        <4>4. Len(control[n]) \in Nat
          BY <2>1
        <4> QED BY <2>5, <4>3, <4>4
      <3> QED BY <2>2, <3>2, <3>3, <3>4
    <2>6. CASE control'[n] = Append(control[n], Stop(0)) /\ Stop(0) \in Scheduled /\ ~UNCHANGED control[n]
      <3>1. /\ Leads(Append(control[n], Stop(0)), e, Starts)
            /\ Has(control[n], e) => Has(Append(control[n], Stop(0)), e)
        BY <1>2, <2>1, <2>3, <2>6, LeadsAppend
      <3>2. Leads(control[n], e, Starts)' /\ (Has(control[n], e) => Has(control[n], e)')
        BY <1>1, <2>6, <3>1 DEF Leads, Has
      <3>3. SUFFICES ASSUME ~Has(control[n], e), Leads(script, For(n, e), StartsFor(n))
                     PROVE  Leads(script, For(n, e), StartsFor(n))'
        BY <2>3, <3>2
      <3>4. CASE UNCHANGED script
        BY <1>1, <3>3, <3>4 DEF Leads
      <3>5. CASE script # <<>> /\ script' = Tail(script)
        <4>1. SendControl
          BY <1>3, <3>5 DEF SendStop
        <4>2. Head(script).node = n
          BY <2>6, <4>1, SentNext
        <4>3. control'[n] = Append(control[n], Head(script).event)
          BY <4>1, <4>2 DEF SendControl, SendTo, TypeInv, EventTypes
        <4>4. Append(control[n], Head(script).event)[Len(control[n]) + 1] = Head(script).event
          BY <2>1, <4>1, SentNext
        <4>5. Append(control[n], Stop(0))[Len(control[n]) + 1] = Stop(0)
          BY <2>1
        <4>6. Head(script).event # e
          BY <1>2, <2>6, <4>3, <4>4, <4>5
        <4>7. Head(script) # For(n, e)
          BY <4>6 DEF For
        <4>8. Leads(Tail(script), For(n, e), StartsFor(n))
          BY <2>4, <3>3, <3>5, <4>7, LeadsTail
        <4> QED BY <1>1, <3>5, <4>8 DEF Leads
      <3> QED BY <2>2, <3>4, <3>5
    <2>7. CASE /\ script # <<>> /\ Head(script).event \in Scheduled
               /\ Head(script) = For(n, Head(script).event)
               /\ control'[n] = Append(control[n], Head(script).event)
               /\ ~UNCHANGED control[n]
      <3> DEFINE y == Head(script).event
      <3>1. script' = Tail(script) /\ Head(script) = For(n, y)
        BY <1>3, <2>7, SentNext DEF SendControl, SendStop
      <3>2. y \in Starts => For(n, y) \in StartsFor(n)
        BY DEF StartsFor
      <3>3. ~Has(control[n], e) => Head(script) \notin StartsFor(n)
        BY <2>3, <2>4, <2>7, LeadsTail
      <3>4. y \in Starts => Has(control[n], e)
        BY <3>1, <3>2, <3>3
      <3>5. y \in Scheduled
        BY <2>7
      <3> HIDE DEF y
      <3>6. /\ Leads(Append(control[n], y), e, Starts)
            /\ Has(control[n], e) \/ y = e => Has(Append(control[n], y), e)
        BY <2>1, <2>3, <3>4, <3>5, LeadsAppend
      <3>7. control'[n] = Append(control[n], y)
        BY <2>7 DEF y
      <3>8. Leads(control[n], e, Starts)' /\ (Has(control[n], e) \/ y = e => Has(control[n], e)')
        BY <1>1, <3>6, <3>7 DEF Leads, Has
      <3>9. SUFFICES ASSUME ~Has(control[n], e), y # e, Leads(script, For(n, e), StartsFor(n))
                     PROVE  Leads(script, For(n, e), StartsFor(n))'
        BY <2>3, <3>8
      <3>10. Head(script) # For(n, e)
        BY <3>1, <3>9 DEF For
      <3>11. Leads(Tail(script), For(n, e), StartsFor(n))
        BY <2>4, <2>7, <3>9, <3>10, LeadsTail
      <3> QED BY <1>1, <3>1, <3>11 DEF Leads
    <2>8. Waiting(n)' <=> Waiting(n)
      BY <2>1 DEF Waiting
    <2> QED BY <2>1, <2>5, <2>6, <2>7, <2>8
  <1>4. CASE Preload(n)
    <2>1. /\ UNCHANGED <<setup, script>> /\ phase[n] = "preload"
          /\ control[n] \in Seq(Scheduled) /\ control[n] # <<>>
          /\ control'[n] = Tail(control[n])
          /\ \/ Head(control[n]) \in Starts /\ phase'[n] = "poll" /\ UNCHANGED heap
             \/ /\ Head(control[n]) \notin Starts /\ UNCHANGED phase
                /\ heap'[n] = heap[n] \cup {Head(control[n])}
      BY <1>4, PreloadOf
    <2>2. CASE Head(control[n]) \in Starts /\ phase'[n] = "poll" /\ UNCHANGED heap
      <3>1. e \in heap[n]
        BY <2>1, <2>2, LeadsTail DEF BeforeStart
      <3> QED BY <2>2, <3>1 DEF BeforeStart
    <2>3. CASE /\ Head(control[n]) \notin Starts /\ UNCHANGED phase
               /\ heap'[n] = heap[n] \cup {Head(control[n])}
      <3>1. SUFFICES ASSUME e \notin heap[n], Head(control[n]) # e
                     PROVE  /\ Leads(control[n], e, Starts)'
                            /\ Has(control[n], e)' \/ Leads(script, For(n, e), StartsFor(n))'
        BY <2>1, <2>3 DEF BeforeStart, Waiting
      <3>2. /\ Leads(control[n], e, Starts)
            /\ Has(control[n], e) \/ Leads(script, For(n, e), StartsFor(n))
        BY <2>1, <3>1 DEF BeforeStart
      <3>3. /\ Leads(Tail(control[n]), e, Starts)
            /\ Has(control[n], e) => Has(Tail(control[n]), e)
        BY <2>1, <3>1, <3>2, LeadsTail
      <3> QED BY <1>1, <2>1, <3>2, <3>3 DEF Leads, Has
    <2> QED BY <2>1, <2>2, <2>3
  <1>5. CASE UNCHANGED script /\ Untouched(n)
    BY <1>1, <1>5 DEF BeforeStart, Untouched, Waiting, Leads, Has
  <1> QED BY <1>3, <1>4, <1>5, WaitingIsLeftAlone

\* In the script, what the nodes need comes before their Starts.
LEMMA InitBeforeStart ==
    ASSUME Init
    PROVE  /\ \A n \in SPDs : BeforeStart(n, ConnectTagger)
           /\ \A i \in Ports : BeforeStart(EPPS, Connect(i))
PROOF
  <1>1. setup \in Experiments /\ script = MainScript(setup) /\ TypeInv
    BY InitTypes DEF Init
  <1>2. \A n \in Nodes : Len(control[n]) = 0
    BY DEF Init
  <1>3. ASSUME NEW n \in Nodes, NEW e, Leads(script, For(n, e), StartsFor(n))
        PROVE  BeforeStart(n, e)
    BY <1>2, <1>3 DEF BeforeStart, Leads
  <1> DEFINE d == Cardinality(SPDs)
             m == Len(setup.profiles)
  <1>4. d \in Nat \ {0} /\ m \in Nat /\ Ports = 1 .. d
    BY <1>1, PortCount, ScriptIs DEF Ports
  <1>5. /\ Len(script) = 3 * d + m + 1
        /\ \A i \in 1 .. d : /\ script[i] = For(EPPS, Connect(i))
                             /\ script[d + m + i] = For(PortOf(i), ConnectTagger)
                             /\ script[2 * d + m + i] = For(PortOf(i), Start(0))
        /\ \A i \in 1 .. m : script[d + i] = For(EPPS, Planned(setup)[i])
        /\ script[3 * d + m + 1] = For(EPPS, Start(setup.start))
    BY <1>1, ScriptIs DEF ScriptLength, For
  <1> HIDE DEF d, m
  <1>6. ASSUME NEW j \in 1 .. Len(script)
        PROVE  \/ \E i \in 1 .. d : j = i \/ j = d + m + i \/ j = 2 * d + m + i
               \/ \E i \in 1 .. m : j = d + i
               \/ j = 3 * d + m + 1
    <2>1. \/ j \in 1 .. d \/ j - d \in 1 .. m \/ j - (d + m) \in 1 .. d
          \/ j - (2 * d + m) \in 1 .. d \/ j = 3 * d + m + 1
      BY <1>4, <1>5
    <2>2. /\ j = d + (j - d) /\ j = d + m + (j - (d + m)) /\ j = 2 * d + m + (j - (2 * d + m))
      BY <1>4, <1>5
    <2> QED BY <2>1, <2>2
  <1>7. \A n, f : For(n, f).node = n /\ For(n, f).event = f
    BY DEF For
  <1>8. \A n : \A x \in StartsFor(n) : x.node = n /\ x.event.kind = "Start"
    BY <1>7 DEF StartsFor, Starts
  <1>9. \A i : Connect(i).kind = "Connect" /\ ConnectTagger.kind = "ConnectTimeTagger"
    BY DEF Connect, ConnectTagger
  <1>10. \A i \in 1 .. m : Planned(setup)[i].kind = "SetWaveProfile"
    BY <1>1, RunnerAssumption DEF Planned, SetProfile, m
  <1>11. \A i \in 1 .. d : PortOf(i) \in SPDs /\ PortOf(i) \in Nodes /\ PortOf(i) # EPPS
    BY <1>4, PortType, RunnerAssumption DEF Nodes
  <1>12. ASSUME NEW n \in SPDs
         PROVE  BeforeStart(n, ConnectTagger)
    <2>1. ASSUME NEW j \in 1 .. Len(script), script[j] \in StartsFor(n)
          PROVE  \E i \in 1 .. j - 1 : script[i] = For(n, ConnectTagger)
      <3>1. script[j].node = n /\ script[j].event.kind = "Start" /\ n # EPPS
        BY <1>8, <2>1, RunnerAssumption
      <3>2. PICK i \in 1 .. d : j = 2 * d + m + i
        BY <1>5, <1>6, <1>7, <1>9, <3>1
      <3>3. PortOf(i) = n /\ script[d + m + i] = For(n, ConnectTagger)
        BY <1>5, <1>7, <3>1, <3>2
      <3>4. d + m + i \in 1 .. j - 1
        BY <1>4, <3>2
      <3> QED BY <3>3, <3>4
    <2> QED BY <1>3, <2>1 DEF Leads, Nodes
  <1>13. ASSUME NEW k \in Ports
         PROVE  BeforeStart(EPPS, Connect(k))
    <2>1. ASSUME NEW j \in 1 .. Len(script), script[j] \in StartsFor(EPPS)
          PROVE  \E i \in 1 .. j - 1 : script[i] = For(EPPS, Connect(k))
      <3>1. script[j].node = EPPS /\ script[j].event.kind = "Start"
        BY <1>8, <2>1
      <3>2. j = 3 * d + m + 1
        <4>1. ASSUME NEW i \in 1 .. d, j = i
              PROVE  FALSE
          BY <1>5, <1>7, <1>9, <3>1, <4>1
        <4>2. ASSUME NEW i \in 1 .. d, j = d + m + i \/ j = 2 * d + m + i
              PROVE  FALSE
          BY <1>5, <1>7, <1>11, <3>1, <4>2
        <4>3. ASSUME NEW i \in 1 .. m, j = d + i
              PROVE  FALSE
          <5>1. script[j] = For(EPPS, Planned(setup)[i])
            BY <1>5, <4>3
          <5> QED BY <1>7, <1>10, <3>1, <5>1
        <4> QED BY <1>6, <4>1, <4>2, <4>3
      <3>3. k \in 1 .. j - 1 /\ script[k] = For(EPPS, Connect(k))
        BY <1>4, <1>5, <3>2
      <3> QED BY <3>3
    <2> QED BY <1>3, <2>1 DEF Leads, Nodes
  <1> QED BY <1>12, <1>13
-----------------------------------------------------------------------------
(* The first tags                                                          *)

\* A detector has been told of its tagger, and the claimer will find it.
Told(n) == settagger[n] \/ tagger[n]

TaggerInv(n) ==
    /\ BeforeStart(n, ConnectTagger)
    /\ ~Waiting(n) => ConnectTagger \in heap[n] \/ Told(n)
    /\ phase[n] \in {"batch", "handOver"} => Told(n)
    /\ claimQueue[n] # <<>> => Told(n)
    /\ claimer[n] = "poll" => Told(n)
    /\ claimer[n] = "tag" => tagger[n]
    /\ n \notin untagged

DetectorAt(n) == <<phase[n], heap[n], claimQueue[n], settagger[n], tagger[n], claimer[n], n \in untagged>>
OwnStep(n)    == \/ Run(n) \/ Consume(n) \/ HandOver(n) \/ DropWorker(n) \/ JoinClaimer(n)
                 \/ Claim(n)

\* A detector's place, heap, tagger and claimer are its own.
LEMMA OnlyOwnSteps ==
    ASSUME TypeInv, [Next]_vars, NEW n \in SPDs
    PROVE  OwnStep(n) \/ UNCHANGED DetectorAt(n)
PROOF
  <1>0. /\ phase \in [Nodes -> Places] /\ heap \in [Nodes -> SUBSET Scheduled]
        /\ settagger \in [SPDs -> BOOLEAN] /\ tagger \in [SPDs -> BOOLEAN]
        /\ claimer \in [SPDs -> {"spawned", "recv", "poll", "tag", "ended"}]
        /\ claimQueue \in [SPDs -> Seq(Sizes)]
    BY DEF TypeInv, EventTypes, ClaimerTypes, QueueTypes
  <1>1. n \in Nodes /\ n # EPPS
    BY RunnerAssumption DEF Nodes
  <1>2. ASSUME NEW k \in Nodes \ {n}, Run(k)
        PROVE  UNCHANGED DetectorAt(n)
    <2>1. CASE Serve(k)
      <3>1. PICK event : /\ heap' = [heap EXCEPT ![k] = @ \ {event}]
                         /\ settagger' = IF event.kind = "ConnectTimeTagger"
                                         THEN [settagger EXCEPT ![k] = TRUE] ELSE settagger
                         /\ IF event.kind = "Stop" THEN Enter(k, Ending(k)) ELSE UNCHANGED phase
        BY Zenon, <2>1 DEF Serve
      <3>2. UNCHANGED <<claimQueue, tagger, claimer, untagged>>
        BY <2>1 DEF Serve
      <3>3. UNCHANGED <<heap[n], settagger[n], phase[n]>>
        BY <1>0, <1>1, <3>1 DEF Enter
      <3> QED BY <3>2, <3>3 DEF DetectorAt
    <2>2. CASE Preload(k) \/ Poll(k) \/ AllServed(k)
      <3>1. UNCHANGED <<claimQueue, settagger, tagger, claimer, untagged>>
        BY <2>2 DEF Preload, Poll, AllServed, claimerVars
      <3>2. UNCHANGED <<heap[n], phase[n]>>
        <4>1. CASE Preload(k)
          <5>1. UNCHANGED phase \/ Enter(k, "poll")
            BY <4>1 DEF Preload
          <5>2. UNCHANGED heap \/ heap' = [heap EXCEPT ![k] = @ \cup {Head(control[k])}]
            BY <4>1 DEF Preload
          <5> QED BY <1>0, <1>1, <5>1, <5>2 DEF Enter
        <4>2. CASE Poll(k)
          BY <1>0, <1>1, <4>2 DEF Poll, Enter
        <4>3. CASE AllServed(k)
          BY <1>0, <1>1, <4>3 DEF AllServed, eventVars, Enter
        <4> QED BY <2>2, <4>1, <4>2, <4>3
      <3> QED BY <3>1, <3>2 DEF DetectorAt
    <2> QED BY <1>2, <2>1, <2>2 DEF Run
  <1>3. CASE Generate \/ SendBatch
    <2>1. UNCHANGED <<heap, claimQueue, settagger, tagger, claimer, untagged>>
      BY <1>3 DEF Generate, SendBatch, eventVars, claimerVars
    <2>2. UNCHANGED phase \/ \E place \in Places : Enter(EPPS, place)
      BY <1>3 DEF Generate, SendBatch, Places
    <2> QED BY <1>0, <1>1, <2>1, <2>2 DEF DetectorAt, Enter
  <1>4. ASSUME NEW k \in SPDs \ {n}, Consume(k) \/ HandOver(k) \/ DropWorker(k) \/ JoinClaimer(k)
        PROVE  UNCHANGED DetectorAt(n)
    <2>1. UNCHANGED <<heap, settagger, tagger, claimer, untagged>>
      BY <1>4 DEF Consume, HandOver, DropWorker, JoinClaimer, eventVars, claimerVars
    <2>2. \E place \in Places : Enter(k, place)
      BY <1>4 DEF Consume, HandOver, DropWorker, JoinClaimer, Places
    <2>3. UNCHANGED claimQueue \/ claimQueue' = [claimQueue EXCEPT ![k] = Append(@, received[k])]
      BY <1>4 DEF Consume, HandOver, DropWorker, JoinClaimer, claimerVars
    <2> QED BY <1>0, <1>1, <2>1, <2>2, <2>3 DEF DetectorAt, Enter
  <1>5. ASSUME NEW k \in SPDs \ {n}, Claim(k)
        PROVE  UNCHANGED DetectorAt(n)
    <2>1. UNCHANGED <<heap, phase>>
      BY <1>5 DEF Claim, eventVars
    <2>2. UNCHANGED claimQueue[n] /\ UNCHANGED settagger[n] /\ UNCHANGED tagger[n]
          /\ UNCHANGED claimer[n] /\ UNCHANGED (n \in untagged)
      <3>1. CASE LookForTagger(k)
        BY <1>0, <1>1, <3>1 DEF LookForTagger, Proceed
      <3>2. CASE ReceiveBatch(k)
        BY <1>0, <1>1, <3>2 DEF ReceiveBatch, Proceed
      <3>3. CASE SendTags(k)
        BY <1>0, <1>1, <3>3 DEF SendTags, Proceed
      <3> QED BY <1>5, <3>1, <3>2, <3>3 DEF Claim
    <2> QED BY <2>1, <2>2 DEF DetectorAt
  <1>6. CASE SendControl \/ SendStop \/ Join \/ Monitor \/ UNCHANGED vars
    BY <1>6 DEF SendControl, SendStop, Join, Monitor, vars, eventVars, claimerVars, DetectorAt
  <1> QED BY <1>1, <1>2, <1>3, <1>4, <1>5, <1>6
          DEF Next, Main, Source, Detector, Nodes, OwnStep

LEMMA TaggerStep ==
    ASSUME TypeInv, [Next]_vars, NEW n \in SPDs, TaggerInv(n)
    PROVE  TaggerInv(n)'
PROOF
  <1>0. /\ phase \in [Nodes -> Places] /\ heap \in [Nodes -> SUBSET Scheduled]
        /\ settagger \in [SPDs -> BOOLEAN] /\ tagger \in [SPDs -> BOOLEAN]
        /\ claimer \in [SPDs -> {"spawned", "recv", "poll", "tag", "ended"}]
        /\ claimQueue \in [SPDs -> Seq(Sizes)] /\ time[n] \in Nat
    BY RunnerAssumption DEF TypeInv, MainTypes, EventTypes, ClaimerTypes, QueueTypes, Nodes
  <1>1. n \in Nodes /\ n # EPPS
    BY RunnerAssumption DEF Nodes
  <1>2. BeforeStart(n, ConnectTagger)' /\ (Waiting(n) /\ ~Waiting(n)' => ConnectTagger \in heap'[n])
    BY <1>1, BeforeStartStep DEF TaggerInv, ConnectTagger
  <1>3. CASE UNCHANGED DetectorAt(n)
    BY <1>2, <1>3 DEF TaggerInv, DetectorAt, Told, Waiting
  <1>4. CASE Preload(n) \/ Poll(n)
    <2>1. UNCHANGED <<claimQueue, settagger, tagger, claimer, untagged>>
      BY <1>4 DEF Preload, Poll, claimerVars
    <2>2. phase'[n] \in {phase[n], "poll", "serve"}
      BY <1>0, <1>1, <1>4 DEF Preload, Poll, Enter
    <2>3. heap[n] \subseteq heap'[n]
      <3>1. CASE Preload(n)
        BY <1>0, <1>1, <3>1 DEF Preload
      <3>2. CASE Poll(n)
        BY <1>0, <1>1, <3>2 DEF Poll
      <3> QED BY <1>4, <3>1, <3>2
    <2> QED BY <1>2, <2>1, <2>2, <2>3 DEF TaggerInv, Told, Waiting
  <1>5. CASE Serve(n)
    <2>1. PICK event : /\ heap' = [heap EXCEPT ![n] = @ \ {event}]
                       /\ settagger' = IF event.kind = "ConnectTimeTagger"
                                       THEN [settagger EXCEPT ![n] = TRUE] ELSE settagger
                       /\ IF event.kind = "Stop" THEN Enter(n, Ending(n)) ELSE UNCHANGED phase
      BY Zenon, <1>5 DEF Serve
    <2>2. UNCHANGED <<claimQueue, tagger, claimer, untagged>> /\ phase[n] = "serve"
      BY <1>5 DEF Serve
    <2>3. phase'[n] \in {"serve", "dropping"}
      BY <1>0, <1>1, <2>1, <2>2 DEF Enter, Ending
    <2>4. heap'[n] = heap[n] \ {event}
      BY <1>0, <1>1, <2>1
    <2>5. /\ settagger[n] => settagger'[n]
          /\ event = ConnectTagger => settagger'[n]
      BY <1>0, <2>1 DEF ConnectTagger
    <2> QED BY <1>2, <2>2, <2>3, <2>4, <2>5 DEF TaggerInv, Told, Waiting
  <1>6. CASE AllServed(n)
    <2>1. /\ UNCHANGED <<heap, claimQueue, settagger, tagger, claimer, untagged>>
          /\ phase[n] = "serve" /\ phase'[n] = "batch" /\ DueEvents(n) = {}
      BY <1>0, <1>1, <1>6 DEF AllServed, claimerVars, eventVars, Enter
    <2>2. ConnectTagger \notin heap[n]
      BY <1>0, <2>1 DEF DueEvents, IsDue, ConnectTagger
    <2> QED BY <1>2, <2>1, <2>2 DEF TaggerInv, Told, Waiting
  <1>7. CASE Consume(n) \/ DropWorker(n) \/ JoinClaimer(n)
    <2>1. UNCHANGED <<heap, claimQueue, settagger, tagger, claimer, untagged>>
      BY <1>7 DEF Consume, DropWorker, JoinClaimer, claimerVars, eventVars
    <2>2. \/ phase[n] = "batch" /\ phase'[n] = "handOver"
          \/ phase[n] \in {"dropping", "joining"} /\ phase'[n] \in {"joining", "ended"}
      BY <1>0, <1>1, <1>7 DEF Consume, DropWorker, JoinClaimer, Enter
    <2> QED BY <1>2, <2>1, <2>2 DEF TaggerInv, Told, Waiting
  <1>8. CASE HandOver(n)
    <2>1. /\ UNCHANGED <<heap, settagger, tagger, claimer, untagged>>
          /\ phase[n] = "handOver" /\ phase'[n] = "poll"
      BY <1>0, <1>1, <1>8 DEF HandOver, eventVars, Enter
    <2> QED BY <1>2, <2>1 DEF TaggerInv, Told, Waiting
  <1>9. CASE Claim(n)
    <2>1. UNCHANGED <<heap, phase>>
      BY <1>9 DEF Claim, eventVars
    <2>2. CASE LookForTagger(n)
      <3>1. UNCHANGED <<claimQueue, untagged>> /\ tagger'[n] = Told(n)
        BY <1>0, <2>2 DEF LookForTagger, Told
      <3>2. \/ claimer[n] = "poll" /\ claimer'[n] = "tag"
            \/ claimer[n] = "spawned" /\ claimer'[n] = "recv"
        BY <1>0, <2>2 DEF LookForTagger, Proceed, LoopOrder
      <3> QED BY <1>2, <2>1, <3>1, <3>2 DEF TaggerInv, Told, Waiting
    <2>3. CASE ReceiveBatch(n)
      <3>1. UNCHANGED <<settagger, tagger, untagged>>
        BY <2>3 DEF ReceiveBatch
      <3>2. \/ /\ claimQueue[n] # <<>> /\ claimer'[n] = "poll"
            \/ /\ claimQueue[n] = <<>> /\ UNCHANGED claimQueue /\ claimer'[n] = "ended"
        BY <1>0, <2>3 DEF ReceiveBatch, Proceed, LoopOrder
      <3> QED BY <1>2, <2>1, <3>1, <3>2 DEF TaggerInv, Told, Waiting
    <2>4. CASE SendTags(n)
      <3>1. UNCHANGED <<claimQueue, settagger, tagger>> /\ claimer[n] = "tag" /\ claimer'[n] = "recv"
        BY <1>0, <2>4 DEF SendTags, Proceed, LoopOrder
      <3>2. tagger[n] /\ untagged' = untagged
        BY <2>4, <3>1 DEF SendTags, TaggerInv
      <3> QED BY <1>2, <2>1, <3>1, <3>2 DEF TaggerInv, Told, Waiting
    <2> QED BY <1>9, <2>2, <2>3, <2>4 DEF Claim
  <1> QED BY <1>3, <1>4, <1>5, <1>6, <1>7, <1>8, <1>9, OnlyOwnSteps DEF OwnStep, Run

\* "The very first batch of tags already sees the tagger": whatever the order in
\* which main, the detector and its claimer run, a claimer that has claimed a
\* batch has been told of the tagger (spd.rs:91-97).
THEOREM FirstTagsCorrect == Spec => []FirstTagsSeen
PROOF
  <1> DEFINE Inv == TypeInv /\ \A n \in SPDs : TaggerInv(n)
  <1>1. Init => Inv
    <2> SUFFICES ASSUME Init, NEW n \in SPDs PROVE TaggerInv(n)
      BY InitTypes
    <2>1. BeforeStart(n, ConnectTagger)
      BY InitBeforeStart
    <2>2. n \in Nodes
      BY DEF Nodes
    <2> QED BY <2>1, <2>2 DEF Init, TaggerInv, Waiting
  <1>2. Inv /\ [Next]_vars => Inv'
    <2> SUFFICES ASSUME Inv, [Next]_vars PROVE Inv'
      OBVIOUS
    <2>1. TypeInv'
      BY TypesStep
    <2>2. \A n \in SPDs : TaggerInv(n)'
      BY TaggerStep
    <2> QED BY <2>1, <2>2
  <1>3. Inv => FirstTagsSeen
    BY DEF TypeInv, ClaimerTypes, TaggerInv, FirstTagsSeen
  <1> QED BY <1>1, <1>2, <1>3, PTL DEF Spec
-----------------------------------------------------------------------------
(* What is sent to whom, and when                                          *)

SourceOnly == {e \in Scheduled : e.kind \in {"Connect", "SetWaveProfile"}}
Addressed  == {x \in [node : Nodes, event : Scheduled] : x.event \in SourceOnly => x.node = EPPS}
OnlyStops  == {Stop(0)}

\* Start is the last event that main sends the source, except Stop; only the
\* source is sent connections and settings.
ScriptShape ==
    /\ script \in Seq(Addressed)
    /\ \A j \in 1 .. Len(script) : script[j] \in StartsFor(EPPS) => j = Len(script)
    /\ script # <<>> => Waiting(EPPS) /\ control[EPPS] \in Seq(Scheduled \ Starts)

StopsAfterStart(s) ==
    \A i, j \in 1 .. Len(s) : i < j /\ s[i] \in Starts => s[j] \in OnlyStops

ControlShape ==
    /\ \A n \in SPDs : control[n] \in Seq(Scheduled \ SourceOnly) /\ heap[n] \cap SourceOnly = {}
    /\ StopsAfterStart(control[EPPS])
    /\ ~Waiting(EPPS) => control[EPPS] \in Seq(OnlyStops)

LEMMA ShapesFixed ==
    ASSUME UNCHANGED setup
    PROVE  /\ Scheduled' = Scheduled /\ Starts' = Starts /\ SourceOnly' = SourceOnly
           /\ Addressed' = Addressed /\ OnlyStops' = OnlyStops
           /\ StartsFor(EPPS)' = StartsFor(EPPS)
PROOF
  <1>1. Scheduled' = Scheduled
    BY SettingsAreConstant
  <1>2. SourceOnly' = SourceOnly
    BY <1>1 DEF SourceOnly
  <1>3. Addressed' = Addressed
    BY <1>1, <1>2 DEF Addressed
  <1> QED BY <1>1, <1>2, <1>3, StartsFixed DEF OnlyStops, Stop

LEMMA StopIsNeither ==
    ASSUME setup \in Experiments
    PROVE  Stop(0) \in Scheduled /\ Stop(0) \notin Starts /\ Stop(0) \notin SourceOnly
PROOF
  <1>1. 0 \in 0 .. setup.until
    BY RunnerAssumption
  <1> QED BY <1>1 DEF Stop, Scheduled, Events, Starts, SourceOnly

LEMMA StopsAppend ==
    ASSUME NEW A, NEW s \in Seq(A), NEW y \in A, StopsAfterStart(s),
           y \in OnlyStops \/ s \in Seq(A \ Starts)
    PROVE  StopsAfterStart(Append(s, y))
PROOF
  <1> DEFINE t == Append(s, y)
             n == Len(s)
  <1>1. n \in Nat /\ Len(t) = n + 1 /\ t[n + 1] = y /\ \A i \in 1 .. n : t[i] = s[i]
    OBVIOUS
  <1>2. Len(s) = n
    OBVIOUS
  <1>3. s \in Seq(A \ Starts) => \A i \in 1 .. n : s[i] \notin Starts
    OBVIOUS
  <1> HIDE DEF t, n
  <1>4. ASSUME NEW i \in 1 .. n + 1, NEW j \in 1 .. n + 1, i < j, t[i] \in Starts
        PROVE  t[j] \in OnlyStops
    <2>1. i \in 1 .. n
      BY <1>1, <1>4
    <2>2. CASE j = n + 1
      BY <1>1, <1>3, <1>4, <2>1, <2>2
    <2>3. CASE j \in 1 .. n
      BY <1>1, <1>2, <1>4, <2>1, <2>3 DEF StopsAfterStart
    <2> QED BY <1>1, <2>2, <2>3
  <1> QED BY <1>1, <1>4 DEF StopsAfterStart, t

LEMMA StopsTail ==
    ASSUME NEW A, NEW s \in Seq(A), s # <<>>, StopsAfterStart(s)
    PROVE  /\ StopsAfterStart(Tail(s))
           /\ Head(s) \in Starts => Tail(s) \in Seq(OnlyStops)
PROOF
  <1> DEFINE t == Tail(s)
             n == Len(t)
  <1>1. n \in Nat /\ Len(s) = n + 1 /\ s[1] = Head(s) /\ \A i \in 1 .. n : t[i] = s[i + 1]
    OBVIOUS
  <1>2. Len(t) = n /\ t \in Seq(A)
    OBVIOUS
  <1> HIDE DEF t, n
  <1>3. StopsAfterStart(t)
    <2> SUFFICES ASSUME NEW i \in 1 .. n, NEW j \in 1 .. n, i < j, t[i] \in Starts
                 PROVE  t[j] \in OnlyStops
      BY <1>2 DEF StopsAfterStart
    <2>1. i + 1 \in 1 .. Len(s) /\ j + 1 \in 1 .. Len(s) /\ i + 1 < j + 1
      BY <1>1
    <2>2. s[i + 1] = t[i] /\ s[j + 1] = t[j]
      BY <1>1
    <2> QED BY <2>1, <2>2 DEF StopsAfterStart
  <1>4. ASSUME Head(s) \in Starts
        PROVE  t \in Seq(OnlyStops)
    <2>1. ASSUME NEW j \in 1 .. n
          PROVE  t[j] \in OnlyStops
      <3>1. 1 \in 1 .. Len(s) /\ j + 1 \in 1 .. Len(s) /\ 1 < j + 1
        BY <1>1
      <3>2. s[1] \in Starts /\ s[j + 1] = t[j]
        BY <1>1, <1>4
      <3> QED BY <3>1, <3>2 DEF StopsAfterStart
    <2> QED BY <1>2, <2>1
  <1> QED BY <1>3, <1>4 DEF t

\* What SendControl and SendStop leave at every node.
LEMMA ShapeOfSending ==
    ASSUME TypeInv, ScriptShape, ControlShape, SendControl \/ SendStop
    PROVE  ScriptShape' /\ ControlShape'
PROOF
  <1>0. /\ control \in [Nodes -> Seq(Scheduled)] /\ setup \in Experiments
        /\ UNCHANGED <<setup, heap, phase>>
    BY DEF TypeInv, EventTypes, MainTypes, SendControl, SendStop
  <1>1. /\ Scheduled' = Scheduled /\ Starts' = Starts /\ SourceOnly' = SourceOnly
        /\ Addressed' = Addressed /\ OnlyStops' = OnlyStops
        /\ StartsFor(EPPS)' = StartsFor(EPPS)
    BY <1>0, ShapesFixed
  <1>2. Stop(0) \in Scheduled /\ Stop(0) \notin Starts /\ Stop(0) \notin SourceOnly
    BY <1>0, StopIsNeither
  <1>3. EPPS \in Nodes /\ \A n \in SPDs : n \in Nodes /\ n # EPPS
    BY RunnerAssumption DEF Nodes
  <1>4. PICK k \in Nodes, y \in Scheduled :
           /\ control' = [control EXCEPT ![k] = Append(@, y)]
           /\ y \in SourceOnly => k = EPPS
           /\ \/ y = Stop(0) /\ UNCHANGED script /\ script = <<>>
              \/ /\ script # <<>> /\ script' = Tail(script)
                 /\ Head(script) = For(k, y)
    <2>1. CASE SendStop
      <3>1. stops \in Seq(Nodes) /\ stops # <<>> /\ SendTo(Head(stops), Stop(0))
        BY <2>1 DEF SendStop, TypeInv, MainTypes
      <3>2. Head(stops) \in Nodes
        BY <3>1
      <3> QED BY <1>2, <2>1, <3>1, <3>2 DEF SendStop, SendTo
    <2>2. CASE SendControl
      <3>1. script # <<>> /\ script \in Seq(Addressed)
        BY <2>2 DEF SendControl, ScriptShape
      <3>2. Head(script) \in Addressed
        BY <3>1
      <3>3. /\ Head(script).node \in Nodes /\ Head(script).event \in Scheduled
            /\ Head(script).event \in SourceOnly => Head(script).node = EPPS
            /\ Head(script) = For(Head(script).node, Head(script).event)
        BY <3>2 DEF Addressed, For
      <3> QED BY <2>2, <3>1, <3>3 DEF SendControl, SendTo
    <2> QED BY <2>1, <2>2
  <1>5. control'[k] = Append(control[k], y) /\ \A n \in Nodes \ {k} : control'[n] = control[n]
    BY <1>0, <1>4
  <1>6. script \in Seq(Addressed) /\ control[EPPS] \in Seq(Scheduled) /\ control[k] \in Seq(Scheduled)
    BY <1>0, <1>3 DEF ScriptShape
  <1>7. \A n \in SPDs : control'[n] \in Seq(Scheduled \ SourceOnly)
    <2> SUFFICES ASSUME NEW n \in SPDs PROVE control'[n] \in Seq(Scheduled \ SourceOnly)
      OBVIOUS
    <2>1. CASE n # k
      BY <1>3, <1>5, <2>1 DEF ControlShape
    <2>2. CASE n = k
      <3>1. y \in Scheduled \ SourceOnly /\ control[n] \in Seq(Scheduled \ SourceOnly)
        BY <1>3, <1>4, <2>2 DEF ControlShape
      <3>2. Append(control[n], y) \in Seq(Scheduled \ SourceOnly)
        BY <3>1
      <3> QED BY <1>5, <2>2, <3>2
    <2> QED BY <2>1, <2>2
  <1>8. StopsAfterStart(control[EPPS])' /\ (~Waiting(EPPS) => control'[EPPS] \in Seq(OnlyStops))
    <2>1. StopsAfterStart(control[EPPS]) /\ (~Waiting(EPPS) => control[EPPS] \in Seq(OnlyStops))
      BY DEF ControlShape
    <2>2. CASE k # EPPS
      BY <1>1, <1>3, <1>5, <2>1, <2>2 DEF StopsAfterStart
    <2>3. CASE k = EPPS
      <3>1. y \in OnlyStops \/ (Waiting(EPPS) /\ control[EPPS] \in Seq(Scheduled \ Starts))
        BY <1>4 DEF OnlyStops, ScriptShape
      <3>2. StopsAfterStart(Append(control[EPPS], y))
        BY <1>6, <2>1, <3>1, StopsAppend
      <3>3. y \in OnlyStops /\ control[EPPS] \in Seq(OnlyStops) => Append(control[EPPS], y) \in Seq(OnlyStops)
        OBVIOUS
      <3>4. control'[EPPS] = Append(control[EPPS], y)
        BY <1>5, <2>3
      <3> QED BY <1>1, <2>1, <3>1, <3>2, <3>3, <3>4 DEF StopsAfterStart
    <2> QED BY <2>2, <2>3
  <1>9. ControlShape'
    BY <1>0, <1>1, <1>7, <1>8 DEF ControlShape, Waiting
  <1>10. ScriptShape'
    <2>1. CASE UNCHANGED script /\ script = <<>>
      BY <1>1, <1>6, <2>1 DEF ScriptShape
    <2>2. CASE script # <<>> /\ script' = Tail(script) /\ Head(script) = For(k, y)
      <3> DEFINE t == Tail(script)
                 n == Len(t)
      <3>1. /\ n \in Nat /\ Len(script) = n + 1 /\ script[1] = Head(script) /\ t \in Seq(Addressed)
            /\ \A i \in 1 .. n : t[i] = script[i + 1]
        BY <1>6, <2>2
      <3>2. Len(t) = n /\ (t # <<>> => n # 0)
        BY <3>1
      <3> HIDE DEF t, n
      <3>3. \A j \in 1 .. n : t[j] \in StartsFor(EPPS) => j = n
        <4> SUFFICES ASSUME NEW j \in 1 .. n, t[j] \in StartsFor(EPPS) PROVE j = n
          OBVIOUS
        <4>1. j + 1 \in 1 .. Len(script) /\ script[j + 1] \in StartsFor(EPPS)
          BY <3>1
        <4>2. j + 1 = Len(script)
          BY <4>1 DEF ScriptShape
        <4> QED BY <3>1, <4>2
      <3>4. Waiting(EPPS) /\ control[EPPS] \in Seq(Scheduled \ Starts)
        BY <2>2 DEF ScriptShape
      <3>5. ASSUME t # <<>>
            PROVE  control'[EPPS] \in Seq(Scheduled \ Starts)
        <4>1. 1 \in 1 .. Len(script) /\ 1 # Len(script)
          BY <3>1, <3>2, <3>5
        <4>2. For(k, y) \notin StartsFor(EPPS)
          BY <2>2, <3>1, <4>1 DEF ScriptShape
        <4>3. k = EPPS => y \in Scheduled \ Starts
          BY <1>4, <4>2 DEF StartsFor
        <4>4. k = EPPS => Append(control[EPPS], y) \in Seq(Scheduled \ Starts)
          BY <3>4, <4>3
        <4> QED BY <1>3, <1>5, <3>4, <4>4
      <3> QED BY <1>0, <1>1, <2>2, <3>1, <3>2, <3>3, <3>4, <3>5 DEF ScriptShape, Waiting, t
    <2> QED BY <1>4, <2>1, <2>2
  <1> QED BY <1>9, <1>10

\* A node's run takes events from its channel into its heap, and out of that.
LEMMA EventsOfRun ==
    ASSUME TypeInv, NEW k \in Nodes, Run(k)
    PROVE  /\ UNCHANGED <<setup, script>>
           /\ \A n \in Nodes \ {k} : UNCHANGED <<control[n], heap[n], phase[n], time[n]>>
           /\ \/ Preload(k)
              \/ /\ phase[k] = "poll" /\ phase'[k] = "serve" /\ UNCHANGED time
                 /\ control'[k] = <<>> /\ heap'[k] = heap[k] \cup ToSet(control[k])
              \/ /\ phase[k] = "serve" /\ phase'[k] = "batch" /\ UNCHANGED <<time, control, heap>>
                 /\ DueEvents(k) = {}
              \/ /\ phase[k] = "serve" /\ phase'[k] \in {"serve", Ending(k)} /\ UNCHANGED <<time, control>>
                 /\ \E event \in heap[k] : heap'[k] = heap[k] \ {event}
PROOF
  <1>0. /\ phase \in [Nodes -> Places] /\ heap \in [Nodes -> SUBSET Scheduled]
        /\ control \in [Nodes -> Seq(Scheduled)] /\ time \in [Nodes -> 0 .. setup.until]
    BY DEF TypeInv, EventTypes
  <1>1. CASE Preload(k)
    <2>1. /\ UNCHANGED phase \/ Enter(k, "poll")
          /\ UNCHANGED heap \/ heap' = [heap EXCEPT ![k] = @ \cup {Head(control[k])}]
          /\ UNCHANGED time \/ time' = [time EXCEPT ![k] = Head(control[k]).time]
          /\ control' = [control EXCEPT ![k] = Tail(@)]
          /\ UNCHANGED <<setup, script>>
      BY <1>1 DEF Preload, mainVars
    <2> QED BY <1>0, <1>1, <2>1 DEF Enter
  <1>2. CASE Poll(k)
    BY <1>0, <1>2 DEF Poll, Enter, mainVars
  <1>3. CASE AllServed(k)
    BY <1>0, <1>3 DEF AllServed, Enter, mainVars, eventVars
  <1>4. CASE Serve(k)
    <2>1. PICK event \in AtEarliest(DueEvents(k)) :
              /\ heap' = [heap EXCEPT ![k] = @ \ {event}]
              /\ IF event.kind = "Stop" THEN Enter(k, Ending(k)) ELSE UNCHANGED phase
      BY Zenon, <1>4 DEF Serve
    <2>2. event \in heap[k]
      BY DEF AtEarliest, DueEvents
    <2>3. UNCHANGED <<setup, script, time, control>> /\ phase[k] = "serve"
      BY <1>4 DEF Serve, mainVars
    <2> QED BY <1>0, <2>1, <2>2, <2>3 DEF Enter
  <1> QED BY <1>1, <1>2, <1>3, <1>4 DEF Run

\* No other action moves an event, and none but these changes the source.
LEMMA EventsElsewhere ==
    ASSUME TypeInv, [Next]_vars
    PROVE  \/ SendControl \/ SendStop \/ \E k \in Nodes : Run(k)
           \/ /\ UNCHANGED <<setup, script, control, heap, sinks, profile, served>>
              /\ \/ Generate \/ SendBatch
                 \/ UNCHANGED <<phase[EPPS], time>>
PROOF
  <1>0. phase \in [Nodes -> Places] /\ EPPS \in Nodes /\ \A k \in SPDs : k # EPPS
    BY RunnerAssumption DEF TypeInv, EventTypes, Nodes
  <1>1. CASE Generate \/ SendBatch
    BY <1>1 DEF Generate, SendBatch, mainVars, eventVars
  <1>2. ASSUME NEW k \in SPDs, Consume(k) \/ HandOver(k) \/ DropWorker(k) \/ JoinClaimer(k)
        PROVE  UNCHANGED <<setup, script, control, heap, sinks, profile, served, phase[EPPS], time>>
    <2>1. UNCHANGED <<setup, script, control, heap, sinks, profile, served, time>>
      BY <1>2 DEF Consume, HandOver, DropWorker, JoinClaimer, mainVars, eventVars, sourceVars
    <2>2. \E place \in Places : Enter(k, place)
      BY <1>2 DEF Consume, HandOver, DropWorker, JoinClaimer, Places
    <2> QED BY <1>0, <2>1, <2>2 DEF Enter
  <1>3. CASE Join \/ Monitor \/ (\E k \in SPDs : Claim(k)) \/ UNCHANGED vars
    BY <1>3 DEF Join, Monitor, Claim, vars, mainVars, eventVars, sourceVars
  <1> QED BY <1>1, <1>2, <1>3 DEF Next, Main, Source, Detector, Nodes

LEMMA ShapeStep ==
    ASSUME TypeInv, [Next]_vars, ScriptShape, ControlShape
    PROVE  ScriptShape' /\ ControlShape'
PROOF
  <1>0. /\ control \in [Nodes -> Seq(Scheduled)] /\ setup \in Experiments
        /\ heap \in [Nodes -> SUBSET Scheduled]
    BY DEF TypeInv, EventTypes, MainTypes
  <1>1. UNCHANGED setup
    BY SetupFixed
  <1>2. /\ Scheduled' = Scheduled /\ Starts' = Starts /\ SourceOnly' = SourceOnly
        /\ Addressed' = Addressed /\ OnlyStops' = OnlyStops
        /\ StartsFor(EPPS)' = StartsFor(EPPS)
    BY <1>1, ShapesFixed
  <1>3. EPPS \in Nodes /\ \A n \in SPDs : n \in Nodes /\ n # EPPS
    BY RunnerAssumption DEF Nodes
  <1>4. CASE SendControl \/ SendStop
    BY <1>4, ShapeOfSending
  <1>5. CASE \E k \in Nodes : Run(k)
    <2>1. PICK k \in Nodes : Run(k)
      BY <1>5
    <2>2. UNCHANGED script /\ \A n \in Nodes \ {k} : UNCHANGED <<control[n], heap[n], phase[n]>>
      BY <2>1, EventsOfRun
    <2>3. /\ \/ UNCHANGED control[k] \/ control'[k] = <<>>
             \/ control[k] # <<>> /\ control'[k] = Tail(control[k])
          /\ heap'[k] \subseteq heap[k] \cup ToSet(control[k])
      <3>1. CASE Preload(k)
        <4>1. /\ control[k] \in Seq(Scheduled) /\ control[k] # <<>>
              /\ control'[k] = Tail(control[k])
              /\ UNCHANGED heap \/ heap'[k] = heap[k] \cup {Head(control[k])}
          BY <3>1, PreloadOf
        <4>2. Head(control[k]) \in ToSet(control[k])
          BY <4>1 DEF ToSet
        <4> QED BY <4>1, <4>2
      <3> QED BY <2>1, <3>1, EventsOfRun
    <2>4. ASSUME NEW S, control[k] \in Seq(S)
          PROVE  control'[k] \in Seq(S) /\ ToSet(control[k]) \subseteq S
      <3>1. <<>> \in Seq(S)
        OBVIOUS
      <3>2. control[k] # <<>> => Tail(control[k]) \in Seq(S)
        BY <2>4
      <3>3. \A i \in DOMAIN control[k] : control[k][i] \in S
        BY <2>4
      <3> QED BY <2>3, <2>4, <3>1, <3>2, <3>3 DEF ToSet
    <2>5. ASSUME NEW n \in SPDs
          PROVE  control'[n] \in Seq(Scheduled \ SourceOnly) /\ heap'[n] \cap SourceOnly = {}
      <3>1. control[n] \in Seq(Scheduled \ SourceOnly) /\ heap[n] \cap SourceOnly = {}
        BY DEF ControlShape
      <3>2. CASE n # k
        BY <1>3, <2>2, <3>1, <3>2
      <3>3. CASE n = k
        <4>1. control'[n] \in Seq(Scheduled \ SourceOnly) /\ ToSet(control[n]) \subseteq Scheduled \ SourceOnly
          BY <2>4, <3>1, <3>3
        <4> QED BY <2>3, <3>1, <3>3, <4>1
      <3> QED BY <3>2, <3>3
    <2>6. /\ StopsAfterStart(control[EPPS])' /\ (~Waiting(EPPS)' => control'[EPPS] \in Seq(OnlyStops))
          /\ script # <<>> => Waiting(EPPS)' /\ control'[EPPS] \in Seq(Scheduled \ Starts)
      <3>1. /\ StopsAfterStart(control[EPPS]) /\ (~Waiting(EPPS) => control[EPPS] \in Seq(OnlyStops))
            /\ script # <<>> => Waiting(EPPS) /\ control[EPPS] \in Seq(Scheduled \ Starts)
        BY DEF ControlShape, ScriptShape
      <3>2. CASE k # EPPS
        BY <1>2, <1>3, <2>2, <3>1, <3>2 DEF StopsAfterStart, Waiting
      <3>3. CASE k = EPPS
        <4>1. control[EPPS] \in Seq(Scheduled)
          BY <1>0, <1>3
        <4>2. StopsAfterStart(control'[EPPS])
          <5>1. StopsAfterStart(<<>>)
            BY DEF StopsAfterStart
          <5>2. control[EPPS] # <<>> => StopsAfterStart(Tail(control[EPPS]))
            BY <3>1, <4>1, StopsTail
          <5> QED BY <2>3, <3>1, <3>3, <5>1, <5>2
        <4>3. StopsAfterStart(control[EPPS])'
          BY <1>2, <4>2 DEF StopsAfterStart
        <4>4. CASE ~Waiting(EPPS)
          <5>1. control'[EPPS] \in Seq(OnlyStops)
            BY <2>4, <3>1, <3>3, <4>4
          <5> QED BY <3>1, <4>3, <4>4, <5>1
        <4>5. CASE Waiting(EPPS)
          <5>1. Preload(EPPS)
            BY <2>1, <3>3, <4>5, EventsOfRun DEF Waiting
          <5>2. /\ control[EPPS] # <<>> /\ control'[EPPS] = Tail(control[EPPS])
                /\ \/ Head(control[EPPS]) \in Starts /\ phase'[EPPS] = "poll"
                   \/ Head(control[EPPS]) \notin Starts /\ UNCHANGED phase
            BY <1>3, <5>1, PreloadOf
          <5>3. CASE Head(control[EPPS]) \in Starts /\ phase'[EPPS] = "poll"
            <6>1. control'[EPPS] \in Seq(OnlyStops)
              BY <3>1, <4>1, <5>2, <5>3, StopsTail
            <6>2. control[EPPS] \notin Seq(Scheduled \ Starts)
              BY <5>2, <5>3
            <6> QED BY <3>1, <4>3, <6>1, <6>2
          <5>4. CASE Head(control[EPPS]) \notin Starts /\ UNCHANGED phase
            <6>1. script # <<>> => control'[EPPS] \in Seq(Scheduled \ Starts)
              BY <2>4, <3>1, <3>3
            <6> QED BY <4>3, <4>5, <5>4, <6>1 DEF Waiting
          <5> QED BY <5>2, <5>3, <5>4
        <4> QED BY <4>4, <4>5
      <3> QED BY <3>2, <3>3
    <2>7. ScriptShape'
      BY <1>2, <2>2, <2>6 DEF ScriptShape
    <2>8. ControlShape'
      BY <1>2, <2>5, <2>6 DEF ControlShape
    <2> QED BY <2>7, <2>8
  <1>6. CASE /\ UNCHANGED <<script, control, heap>>
             /\ Generate \/ SendBatch \/ UNCHANGED phase[EPPS]
    <2>1. Waiting(EPPS)' <=> Waiting(EPPS)
      <3>1. CASE UNCHANGED phase[EPPS]
        BY <3>1 DEF Waiting
      <3>2. CASE Generate \/ SendBatch
        <4>1. phase[EPPS] # "preload" /\ phase \in [Nodes -> Places]
          BY <3>2 DEF Generate, SendBatch, TypeInv, EventTypes
        <4>2. UNCHANGED phase \/ \E place \in Places \ {"preload"} : Enter(EPPS, place)
          BY <3>2 DEF Generate, SendBatch, Places
        <4> QED BY <1>3, <4>1, <4>2 DEF Enter, Waiting
      <3> QED BY <1>6, <3>1, <3>2
    <2> QED BY <1>2, <1>6, <2>1 DEF ScriptShape, ControlShape, StopsAfterStart
  <1> QED BY <1>4, <1>5, <1>6, EventsElsewhere
-----------------------------------------------------------------------------
(* The source's settings and connections                                   *)

Settings == ToSet(Planned(setup))

\* Settings go from the heap to those served, in the order of their times, and
\* none is left that is due when a batch is made.
SettingsInv ==
    /\ \A e \in Settings : BeforeStart(EPPS, e)
    /\ Waiting(EPPS) => served = {}
    /\ ~Waiting(EPPS) => Settings \subseteq heap[EPPS] \cup served
    /\ served \cap heap[EPPS] = {}
    /\ \A e \in served : e.time <= time[EPPS]
    /\ \A e \in served, g \in heap[EPPS] \cap Settings : e.time <= g.time
    /\ IF served = {} THEN profile = 0 ELSE profile \in {e.value : e \in InForce(served)}
    /\ phase[EPPS] = "batch" => \A g \in heap[EPPS] \cap Settings : time[EPPS] < g.time

ConnectionsInv ==
    /\ \A i \in Ports : BeforeStart(EPPS, Connect(i))
    /\ ~Waiting(EPPS) => \A i \in Ports : Connect(i) \in heap[EPPS] \/ i \in sinks
    /\ phase[EPPS] \in {"batch", "send"} => Ports \subseteq sinks
    /\ SinksConnected

SourceInv == ScriptShape /\ ControlShape /\ SettingsInv /\ ConnectionsInv

LEMMA SettingsAre ==
    ASSUME TypeInv
    PROVE  /\ \A e \in Settings : e.kind = "SetWaveProfile" /\ e.time \in Int /\ e \in SourceOnly
           /\ \A e \in Scheduled : e.kind = "SetWaveProfile" => e \in Settings
           /\ \A e \in Scheduled : e.time \in Int
           /\ time[EPPS] \in Int
PROOF
  <1>0. setup \in Experiments
    BY DEF TypeInv, MainTypes
  <1>2. Settings \subseteq Scheduled
    <2>1. \A e \in Settings : \E i \in DOMAIN setup.profiles : e = Planned(setup)[i]
      BY DEF Settings, Planned, ToSet
    <2>2. \A i \in DOMAIN setup.profiles : Planned(setup)[i] \in EventsOf(setup)
      BY DEF EventsOf
    <2> QED BY <1>0, <2>1, <2>2, EventsAreScheduled
  <1>3. \A e \in Settings : e.kind = "SetWaveProfile"
    <2>1. \A i, t : SetProfile(i, t).kind = "SetWaveProfile"
      BY DEF SetProfile
    <2>2. ASSUME NEW e \in Settings
          PROVE  \E i, t : e = SetProfile(i, t)
      BY DEF Settings, Planned, ToSet
    <2> QED BY <2>1, <2>2
  <1>4. \A e \in Scheduled : e.time \in Int
    <2>1. 0 .. setup.until \subseteq Int
      BY <1>0, RunnerAssumption
    <2> QED BY <2>1 DEF Scheduled, Events
  <1>5. \A e \in Scheduled : e.kind = "SetWaveProfile" => e \in Settings
    BY DEF Scheduled, Settings
  <1>6. time[EPPS] \in Int
    BY <1>0, RunnerAssumption DEF TypeInv, EventTypes, Nodes
  <1> QED BY <1>2, <1>3, <1>4, <1>5, <1>6 DEF SourceOnly

LEMMA SettingsFixed ==
    ASSUME UNCHANGED setup
    PROVE  Settings' = Settings
  BY SettingsAreConstant DEF Settings

LEMMA InitSource ==
    ASSUME Init
    PROVE  SourceInv
PROOF
  <1>1. setup \in Experiments /\ script = MainScript(setup) /\ TypeInv
    BY InitTypes DEF Init
  <1>2. EPPS \in Nodes /\ \A n \in SPDs : n \in Nodes /\ n # EPPS
    BY RunnerAssumption DEF Nodes
  <1>3. /\ \A n \in Nodes : control[n] = <<>> /\ heap[n] = {} /\ phase[n] = "preload"
        /\ served = {} /\ profile = 0
    BY DEF Init
  <1> DEFINE d == Cardinality(SPDs)
             m == Len(setup.profiles)
  <1>4. d \in Nat \ {0} /\ m \in Nat /\ Ports = 1 .. d
    BY <1>1, PortCount, ScriptIs DEF Ports
  <1>5. /\ Len(script) = 3 * d + m + 1
        /\ \A i \in 1 .. d : /\ script[i] = For(EPPS, Connect(i))
                             /\ script[d + m + i] = For(PortOf(i), ConnectTagger)
                             /\ script[2 * d + m + i] = For(PortOf(i), Start(0))
        /\ \A i \in 1 .. m : script[d + i] = For(EPPS, Planned(setup)[i])
        /\ script[3 * d + m + 1] = For(EPPS, Start(setup.start))
    BY <1>1, ScriptIs DEF ScriptLength, For
  <1>6. DOMAIN setup.profiles = 1 .. m
    BY <1>1, RunnerAssumption
  <1> HIDE DEF d, m
  <1>7. ASSUME NEW j \in 1 .. Len(script)
        PROVE  \/ \E i \in 1 .. d : j = i \/ j = d + m + i \/ j = 2 * d + m + i
               \/ \E i \in 1 .. m : j = d + i
               \/ j = 3 * d + m + 1
    <2>1. \/ j \in 1 .. d \/ j - d \in 1 .. m \/ j - (d + m) \in 1 .. d
          \/ j - (2 * d + m) \in 1 .. d \/ j = 3 * d + m + 1
      BY <1>4, <1>5
    <2>2. /\ j = d + (j - d) /\ j = d + m + (j - (d + m)) /\ j = 2 * d + m + (j - (2 * d + m))
      BY <1>4, <1>5
    <2> QED BY <2>1, <2>2
  <1>8. \A n, f : For(n, f).node = n /\ For(n, f).event = f
    BY DEF For
  <1>9. \A x \in StartsFor(EPPS) : x.node = EPPS /\ x.event.kind = "Start"
    BY <1>8 DEF StartsFor, Starts
  <1>10. \A i \in 1 .. d : /\ PortOf(i) \in SPDs /\ PortOf(i) # EPPS
                           /\ ConnectTagger \notin SourceOnly /\ Start(0) \notin SourceOnly
    BY <1>2, <1>4, PortType DEF ConnectTagger, Start, SourceOnly
  <1>11. ASSUME NEW j \in 1 .. Len(script)
         PROVE  /\ script[j] \in Addressed
                /\ script[j] \in StartsFor(EPPS) => j = Len(script)
    <2>1. script[j].event \in SourceOnly => script[j].node = EPPS
      <3>1. ASSUME NEW i \in 1 .. d, j = i \/ j = d + m + i \/ j = 2 * d + m + i
            PROVE  script[j].event \in SourceOnly => script[j].node = EPPS
        BY <1>5, <1>8, <1>10, <3>1
      <3>2. ASSUME NEW i \in 1 .. m, j = d + i
            PROVE  script[j].event \in SourceOnly => script[j].node = EPPS
        BY <1>5, <1>8, <3>2
      <3> QED BY <1>5, <1>7, <1>8, <3>1, <3>2
    <2>2. script[j] \in StartsFor(EPPS) => j = Len(script)
      <3>0. SUFFICES ASSUME script[j].node = EPPS, script[j].event.kind = "Start"
                     PROVE  j = Len(script)
        BY <1>9
      <3>1. ASSUME NEW i \in 1 .. d, j = i
            PROVE  FALSE
        <4>1. script[j].event = Connect(i)
          BY <1>5, <1>8, <3>1
        <4> QED BY <3>0, <4>1 DEF Connect
      <3>2. ASSUME NEW i \in 1 .. d, j = d + m + i \/ j = 2 * d + m + i
            PROVE  FALSE
        BY <1>5, <1>8, <1>10, <3>0, <3>2
      <3>3. ASSUME NEW i \in 1 .. m, j = d + i
            PROVE  FALSE
        <4>1. script[j].event = SetProfile(i, setup.profiles[i])
          BY <1>5, <1>6, <1>8, <3>3 DEF Planned
        <4> QED BY <3>0, <4>1 DEF SetProfile
      <3> QED BY <1>5, <1>7, <3>1, <3>2, <3>3
    <2>3. script[j] \in [node : Nodes, event : Scheduled]
      <3> DEFINE R == [node : Nodes, event : Scheduled]
      <3> HIDE DEF R
      <3>1. script \in Seq(R)
        BY <1>1 DEF TypeInv, MainTypes, R
      <3>2. script[j] \in R
        BY <3>1
      <3> QED BY <3>2 DEF R
    <2> QED BY <2>1, <2>2, <2>3 DEF Addressed
  <1>12. ScriptShape
    <2>1. script \in Seq(Addressed)
      <3> DEFINE R == [node : Nodes, event : Scheduled]
      <3> HIDE DEF R
      <3>1. script \in Seq(R)
        BY <1>1 DEF TypeInv, MainTypes, R
      <3> QED BY <1>11, <3>1
    <2>2. <<>> \in Seq(Scheduled \ Starts)
      OBVIOUS
    <2> QED BY <1>2, <1>3, <1>11, <2>1, <2>2 DEF ScriptShape, Waiting
  <1>13. ControlShape
    <2>1. ASSUME NEW S PROVE <<>> \in Seq(S)
      OBVIOUS
    <2>2. StopsAfterStart(<<>>)
      BY DEF StopsAfterStart
    <2> QED BY <1>2, <1>3, <2>1, <2>2 DEF ControlShape, Waiting
  <1>14. SettingsInv
    <2>1. ASSUME NEW e \in Settings
          PROVE  BeforeStart(EPPS, e)
      <3>1. PICK k \in 1 .. m : e = Planned(setup)[k]
        BY <1>6 DEF Settings, Planned, ToSet
      <3>2. ASSUME NEW j \in 1 .. Len(script), script[j] \in StartsFor(EPPS)
            PROVE  \E i \in 1 .. j - 1 : script[i] = For(EPPS, e)
        <4>1. j = 3 * d + m + 1
          BY <1>5, <1>11, <3>2
        <4>2. d + k \in 1 .. j - 1 /\ script[d + k] = For(EPPS, e)
          BY <1>4, <1>5, <3>1, <4>1
        <4> QED BY <4>2
      <3> QED BY <1>2, <1>3, <3>2 DEF BeforeStart, Leads
    <2> QED BY <1>2, <1>3, <2>1 DEF SettingsInv, Waiting
  <1>15. ConnectionsInv
    BY <1>2, <1>3, InitBeforeStart DEF ConnectionsInv, Waiting, SinksConnected
  <1> QED BY <1>12, <1>13, <1>14, <1>15 DEF SourceInv

\* What the source serves; a detector serves no setting and no connection.
LEMMA ServedBy ==
    ASSUME TypeInv, ControlShape, NEW k \in Nodes, Serve(k)
    PROVE  IF k # EPPS
           THEN UNCHANGED <<sinks, profile, served, phase[EPPS], heap[EPPS], time[EPPS]>>
           ELSE /\ phase[EPPS] = "serve" /\ phase'[EPPS] \in {"serve", "ended"} /\ UNCHANGED time
                /\ \E event \in AtEarliest(DueEvents(EPPS)) :
                     /\ heap'[EPPS] = heap[EPPS] \ {event} /\ event \in Scheduled
                     /\ sinks' = IF event.kind = "Connect" THEN sinks \cup {event.value} ELSE sinks
                     /\ IF event.kind = "SetWaveProfile"
                        THEN profile' = event.value /\ served' = served \cup {event}
                        ELSE UNCHANGED <<profile, served>>
PROOF
  <1>0. /\ heap \in [Nodes -> SUBSET Scheduled] /\ phase \in [Nodes -> Places]
        /\ EPPS \in Nodes /\ \A n \in SPDs : n # EPPS
    BY RunnerAssumption DEF TypeInv, EventTypes, Nodes
  <1>1. PICK event \in AtEarliest(DueEvents(k)) :
           /\ heap' = [heap EXCEPT ![k] = @ \ {event}]
           /\ sinks' = IF event.kind = "Connect" THEN sinks \cup {event.value} ELSE sinks
           /\ profile' = IF event.kind = "SetWaveProfile" THEN event.value ELSE profile
           /\ served' = IF event.kind = "SetWaveProfile" THEN served \cup {event} ELSE served
           /\ IF event.kind = "Stop" THEN Enter(k, Ending(k)) ELSE UNCHANGED phase
    BY Zenon DEF Serve
  <1>2. event \in heap[k] /\ event \in Scheduled
    BY <1>0 DEF AtEarliest, DueEvents
  <1>3. phase[k] = "serve" /\ UNCHANGED time
    BY DEF Serve
  <1>4. CASE k = EPPS
    <2>1. phase'[EPPS] \in {"serve", "ended"} /\ heap'[EPPS] = heap[EPPS] \ {event}
      BY <1>0, <1>1, <1>3, <1>4 DEF Enter, Ending
    <2> QED BY <1>1, <1>2, <1>3, <1>4, <2>1
  <1>5. CASE k # EPPS
    <2>1. k \in SPDs
      BY <1>5 DEF Nodes
    <2>2. event.kind \notin {"Connect", "SetWaveProfile"}
      BY <1>2, <2>1 DEF ControlShape, SourceOnly
    <2>3. UNCHANGED <<heap[EPPS], phase[EPPS]>>
      BY <1>0, <1>1, <1>5 DEF Enter
    <2> QED BY <1>1, <1>3, <1>5, <2>2, <2>3
  <1> QED BY <1>4, <1>5

\* All that happens to the source's events and settings.
LEMMA SourceSteps ==
    ASSUME TypeInv, ControlShape, [Next]_vars
    PROVE  \/ UNCHANGED <<phase[EPPS], heap[EPPS], time[EPPS], sinks, profile, served>>
           \/ Preload(EPPS) /\ UNCHANGED <<sinks, profile, served>>
           \/ /\ phase[EPPS] = "poll" /\ phase'[EPPS] = "serve"
              /\ heap'[EPPS] = heap[EPPS] \cup ToSet(control[EPPS])
              /\ UNCHANGED <<time, sinks, profile, served>>
           \/ /\ phase[EPPS] = "serve" /\ phase'[EPPS] = "batch" /\ DueEvents(EPPS) = {}
              /\ UNCHANGED <<heap, time, sinks, profile, served>>
           \/ Serve(EPPS)
           \/ /\ phase[EPPS] = "batch" /\ phase'[EPPS] = "send" /\ time'[EPPS] >= time[EPPS]
              /\ UNCHANGED <<heap, sinks, profile, served>>
           \/ SendBatch /\ UNCHANGED <<heap, time, sinks, profile, served>>
PROOF
  <1>0. /\ heap \in [Nodes -> SUBSET Scheduled] /\ phase \in [Nodes -> Places]
        /\ time \in [Nodes -> 0 .. setup.until] /\ setup \in Experiments
        /\ EPPS \in Nodes /\ \A n \in SPDs : n \in Nodes /\ n # EPPS
    BY RunnerAssumption DEF TypeInv, MainTypes, EventTypes, Nodes
  <1>1. CASE SendControl \/ SendStop
    BY <1>1 DEF SendControl, SendStop, sourceVars
  <1>2. ASSUME NEW k \in Nodes, Run(k), ~Serve(k)
        PROVE  UNCHANGED <<sinks, profile, served>>
    BY <1>2 DEF Run, Preload, Poll, AllServed, sourceVars
  <1>3. ASSUME NEW k \in SPDs, Run(k)
        PROVE  UNCHANGED <<phase[EPPS], heap[EPPS], time[EPPS], sinks, profile, served>>
    <2>1. UNCHANGED <<sinks, profile, served>>
      BY <1>0, <1>2, <1>3, ServedBy
    <2>2. UNCHANGED <<phase[EPPS], heap[EPPS], time[EPPS]>>
      BY <1>0, <1>3, EventsOfRun
    <2> QED BY <2>1, <2>2
  <1>4. CASE Preload(EPPS)
    BY <1>4 DEF Preload, sourceVars
  <1>5. CASE Poll(EPPS)
    BY <1>0, <1>5 DEF Poll, Enter, sourceVars
  <1>6. CASE AllServed(EPPS)
    BY <1>0, <1>6 DEF AllServed, Enter, sourceVars, eventVars
  <1>7. CASE Generate
    <2>1. phase[EPPS] = "batch" /\ phase'[EPPS] = "send" /\ UNCHANGED <<heap, sinks, profile, served>>
      BY <1>0, <1>7 DEF Generate, Enter, eventVars
    <2>2. time'[EPPS] >= time[EPPS]
      <3>1. setup.until \in Nat /\ time[EPPS] \in Int
        BY <1>0, RunnerAssumption
      <3>2. UNCHANGED time \/ \E t \in time[EPPS] + 1 .. setup.until : time' = [time EXCEPT ![EPPS] = t]
        BY <1>7 DEF Generate
      <3> QED BY <1>0, <3>1, <3>2
    <2> QED BY <2>1, <2>2
  <1>8. CASE SendBatch
    BY <1>8 DEF SendBatch, eventVars
  <1>9. CASE UNCHANGED <<heap, sinks, profile, served, phase[EPPS], time>>
    BY <1>9
  <1>10. ASSUME NEW k \in SPDs, Consume(k) \/ HandOver(k) \/ DropWorker(k) \/ JoinClaimer(k)
         PROVE  UNCHANGED <<heap, sinks, profile, served, phase[EPPS], time>>
    <2>1. UNCHANGED <<heap, sinks, profile, served, time>>
      BY <1>10 DEF Consume, HandOver, DropWorker, JoinClaimer, mainVars, eventVars, sourceVars
    <2>2. \E place \in Places : Enter(k, place)
      BY <1>10 DEF Consume, HandOver, DropWorker, JoinClaimer, Places
    <2> QED BY <1>0, <2>1, <2>2 DEF Enter
  <1>11. CASE Join \/ Monitor \/ (\E k \in SPDs : Claim(k)) \/ UNCHANGED vars
    BY <1>11 DEF Join, Monitor, Claim, vars, mainVars, eventVars, sourceVars
  <1> QED BY <1>1, <1>3, <1>4, <1>5, <1>6, <1>7, <1>8, <1>9, <1>10, <1>11
          DEF Next, Main, Source, Detector, Run

LEMMA SettingsStep ==
    ASSUME TypeInv, [Next]_vars, ControlShape, SettingsInv
    PROVE  SettingsInv'
PROOF
  <1>0. EPPS \in Nodes /\ heap[EPPS] \subseteq Scheduled
    BY DEF TypeInv, EventTypes, Nodes
  <1>1. UNCHANGED setup
    BY SetupFixed
  <1>2. /\ Settings' = Settings
        /\ \A e \in Settings : e.kind = "SetWaveProfile" /\ e.time \in Int /\ e \in SourceOnly
        /\ \A e \in Scheduled : e.kind = "SetWaveProfile" => e \in Settings
        /\ \A e \in Scheduled : e.time \in Int
        /\ time[EPPS] \in Int
    BY <1>1, SettingsFixed, SettingsAre
  <1>3. \A e \in Settings : /\ BeforeStart(EPPS, e)'
                            /\ Waiting(EPPS) /\ ~Waiting(EPPS)' => e \in heap'[EPPS]
    BY <1>0, <1>2, BeforeStartStep DEF SettingsInv
  <1>4. served \subseteq Settings
    BY DEF TypeInv, SourceTypes, Settings
  <1>5. CASE UNCHANGED <<phase[EPPS], heap[EPPS], time[EPPS], profile, served>>
    BY <1>2, <1>3, <1>5 DEF SettingsInv, Waiting, InForce
  <1>6. CASE Preload(EPPS) /\ UNCHANGED <<sinks, profile, served>>
    <2>1. Waiting(EPPS) /\ phase'[EPPS] \in {"preload", "poll"}
      BY <1>0, <1>6, PreloadOf DEF Waiting
    <2>2. served' = {} /\ profile' = 0
      BY <1>6, <2>1 DEF SettingsInv
    <2> QED BY <1>2, <1>3, <2>1, <2>2 DEF SettingsInv, Waiting
  <1>7. CASE /\ phase[EPPS] = "poll" /\ phase'[EPPS] = "serve"
             /\ heap'[EPPS] = heap[EPPS] \cup ToSet(control[EPPS])
             /\ UNCHANGED <<time, sinks, profile, served>>
    <2>1. control[EPPS] \in Seq(OnlyStops)
      BY <1>7 DEF ControlShape, Waiting
    <2>2. ToSet(control[EPPS]) \subseteq OnlyStops
      BY <2>1 DEF ToSet
    <2>3. ToSet(control[EPPS]) \cap Settings = {}
      BY <1>2, <2>2 DEF OnlyStops, Stop
    <2> QED BY <1>2, <1>3, <1>4, <1>7, <2>3 DEF SettingsInv, Waiting, InForce
  <1>8. CASE /\ phase[EPPS] = "serve" /\ phase'[EPPS] = "batch" /\ DueEvents(EPPS) = {}
             /\ UNCHANGED <<heap, time, sinks, profile, served>>
    <2>1. \A g \in heap[EPPS] \cap Settings : time[EPPS] < g.time
      BY <1>2, <1>8 DEF DueEvents, IsDue
    <2> QED BY <1>2, <1>3, <1>8, <2>1 DEF SettingsInv, Waiting, InForce
  <1>9. CASE Serve(EPPS)
    <2>1. /\ phase[EPPS] = "serve" /\ phase'[EPPS] \in {"serve", "ended"} /\ UNCHANGED time
          /\ \E event \in AtEarliest(DueEvents(EPPS)) :
                     /\ heap'[EPPS] = heap[EPPS] \ {event} /\ event \in Scheduled
                     /\ IF event.kind = "SetWaveProfile"
                        THEN profile' = event.value /\ served' = served \cup {event}
                        ELSE UNCHANGED <<profile, served>>
      BY <1>0, <1>9, ServedBy
    <2>2. PICK event \in AtEarliest(DueEvents(EPPS)) :
                     /\ heap'[EPPS] = heap[EPPS] \ {event} /\ event \in Scheduled
                     /\ IF event.kind = "SetWaveProfile"
                        THEN profile' = event.value /\ served' = served \cup {event}
                        ELSE UNCHANGED <<profile, served>>
      BY <2>1
    <2>3. /\ event \in heap[EPPS] /\ event.time <= time[EPPS]
          /\ \A g \in heap[EPPS] : g.time <= time[EPPS] => event.time <= g.time
      BY DEF AtEarliest, DueEvents, IsDue
    <2>4. \A g \in heap[EPPS] : event.time <= g.time
      BY <1>0, <1>2, <2>2, <2>3
    <2>5. CASE event.kind = "SetWaveProfile"
      <3>1. profile' = event.value /\ served' = served \cup {event} /\ event \in Settings
        BY <1>2, <2>2, <2>5
      <3>2. \A e \in served : e.time <= event.time
        BY <2>3, <3>1 DEF SettingsInv
      <3>3. event \in InForce(served')
        BY <1>2, <3>1, <3>2 DEF InForce
      <3>4. profile' \in {e.value : e \in InForce(served)'} /\ served' # {}
        BY <3>1, <3>3 DEF InForce
      <3>5. served' \cap heap'[EPPS] = {} /\ Settings \subseteq heap'[EPPS] \cup served'
        BY <2>1, <2>2, <3>1 DEF SettingsInv, Waiting
      <3>6. \A e \in served', g \in heap'[EPPS] \cap Settings : e.time <= g.time
        BY <2>2, <2>4, <3>1 DEF SettingsInv
      <3>7. \A e \in served' : e.time <= time'[EPPS]
        BY <2>1, <2>3, <3>1 DEF SettingsInv
      <3> QED BY <1>2, <1>3, <2>1, <3>4, <3>5, <3>6, <3>7 DEF SettingsInv, Waiting
    <2>6. CASE event.kind # "SetWaveProfile"
      <3>1. UNCHANGED <<profile, served>> /\ event \notin Settings
        BY <1>2, <2>2, <2>6
      <3> QED BY <1>2, <1>3, <2>1, <2>2, <3>1 DEF SettingsInv, Waiting, InForce
    <2> QED BY <2>5, <2>6
  <1>10. CASE /\ phase[EPPS] = "batch" /\ phase'[EPPS] = "send" /\ time'[EPPS] >= time[EPPS]
              /\ UNCHANGED <<heap, sinks, profile, served>>
    <2>1. time'[EPPS] \in Int
      <3>1. TypeInv'
        BY TypesStep
      <3>2. (time[EPPS] \in Int)'
        BY <3>1, RunnerAssumption DEF TypeInv, MainTypes, EventTypes, Nodes
      <3> QED BY <3>2
    <2>2. \A e \in served : e.time \in Int /\ e.time <= time[EPPS]
      BY <1>2, <1>4 DEF SettingsInv
    <2>3. \A e \in served : e.time <= time'[EPPS]
      BY <1>2, <1>10, <2>1, <2>2
    <2> QED BY <1>2, <1>3, <1>10, <2>3 DEF SettingsInv, Waiting, InForce
  <1>11. CASE SendBatch /\ UNCHANGED <<heap, time, sinks, profile, served>>
    <2>1. phase[EPPS] = "send" /\ phase'[EPPS] \in {"send", "poll", "unconnected", "panicked"}
      BY <1>0, <1>11 DEF SendBatch, Enter, TypeInv, EventTypes
    <2> QED BY <1>2, <1>3, <1>11, <2>1 DEF SettingsInv, Waiting, InForce
  <1> QED BY <1>5, <1>6, <1>7, <1>8, <1>9, <1>10, <1>11, SourceSteps

LEMMA ConnectionsStep ==
    ASSUME TypeInv, [Next]_vars, ControlShape, ConnectionsInv
    PROVE  ConnectionsInv'
PROOF
  <1>0. EPPS \in Nodes /\ heap[EPPS] \subseteq Scheduled
    BY DEF TypeInv, EventTypes, Nodes
  <1>1. \A i \in Ports : Connect(i).kind = "Connect" /\ Connect(i).value = i /\ Connect(i).time = 0
    BY DEF Connect
  <1>2. \A i \in Ports : /\ BeforeStart(EPPS, Connect(i))'
                         /\ Waiting(EPPS) /\ ~Waiting(EPPS)' => Connect(i) \in heap'[EPPS]
    BY <1>0, <1>1, BeforeStartStep DEF ConnectionsInv
  <1>3. \A i \in Ports : Connect(i)' = Connect(i)
    BY DEF Connect
  <1>4. Ports' = Ports
    BY DEF Ports
  <1>5. time[EPPS] >= 0
    BY RunnerAssumption DEF TypeInv, MainTypes, EventTypes, Nodes
  <1>6. CASE UNCHANGED <<phase[EPPS], heap[EPPS], sinks>>
    BY <1>2, <1>3, <1>6 DEF ConnectionsInv, Waiting, SinksConnected, Ports
  <1>7. CASE Preload(EPPS) /\ UNCHANGED <<sinks, profile, served>>
    <2>1. Waiting(EPPS) /\ phase'[EPPS] \in {"preload", "poll"}
      BY <1>0, <1>7, PreloadOf DEF Waiting
    <2> QED BY <1>2, <1>3, <1>7, <2>1 DEF ConnectionsInv, Waiting, SinksConnected, Ports
  <1>8. CASE /\ phase[EPPS] = "poll" /\ phase'[EPPS] = "serve"
             /\ heap'[EPPS] = heap[EPPS] \cup ToSet(control[EPPS])
             /\ UNCHANGED <<time, sinks, profile, served>>
    BY <1>2, <1>3, <1>8 DEF ConnectionsInv, Waiting, SinksConnected, Ports
  <1>9. CASE /\ phase[EPPS] = "serve" /\ phase'[EPPS] = "batch" /\ DueEvents(EPPS) = {}
             /\ UNCHANGED <<heap, time, sinks, profile, served>>
    <2>1. \A i \in Ports : Connect(i) \notin heap[EPPS]
      BY <1>1, <1>5, <1>9 DEF DueEvents, IsDue
    <2>2. Ports \subseteq sinks
      BY <1>9, <2>1 DEF ConnectionsInv, Waiting
    <2> QED BY <1>2, <1>3, <1>9, <2>2 DEF ConnectionsInv, Waiting, SinksConnected, Ports
  <1>10. CASE Serve(EPPS)
    <2>1. /\ phase[EPPS] = "serve" /\ phase'[EPPS] \in {"serve", "ended"}
          /\ \E event : /\ heap'[EPPS] = heap[EPPS] \ {event}
                        /\ sinks' = IF event.kind = "Connect" THEN sinks \cup {event.value} ELSE sinks
      BY <1>0, <1>10, ServedBy
    <2>2. PICK event : /\ heap'[EPPS] = heap[EPPS] \ {event}
                       /\ sinks' = IF event.kind = "Connect" THEN sinks \cup {event.value} ELSE sinks
      BY <2>1
    <2>3. \A i \in Ports : Connect(i) \in heap'[EPPS] \/ i \in sinks'
      BY <1>1, <2>1, <2>2 DEF ConnectionsInv, Waiting
    <2> QED BY <1>2, <1>3, <2>1, <2>3 DEF ConnectionsInv, Waiting, SinksConnected, Ports
  <1>11. CASE /\ phase[EPPS] = "batch" /\ phase'[EPPS] = "send"
              /\ UNCHANGED <<heap, sinks, profile, served>>
    BY <1>2, <1>3, <1>11 DEF ConnectionsInv, Waiting, SinksConnected, Ports
  <1>12. CASE SendBatch /\ UNCHANGED <<heap, time, sinks, profile, served>>
    <2>1. phase[EPPS] = "send" /\ Ports \subseteq sinks
      BY <1>12 DEF SendBatch, ConnectionsInv
    <2>2. Head(outbox).port \in Ports
      <3> DEFINE B == [port : Ports, size : Sizes]
      <3> HIDE DEF B
      <3>1. outbox \in Seq(B) /\ outbox # <<>>
        BY <2>1 DEF TypeInv, SourceTypes, B
      <3>2. Head(outbox) \in B
        BY <3>1
      <3> QED BY <3>2 DEF B
    <2>3. phase'[EPPS] \in {"send", "poll", "panicked"}
      BY <1>0, <1>12, <2>1, <2>2 DEF SendBatch, Enter, TypeInv, EventTypes
    <2> QED BY <1>2, <1>3, <1>12, <2>1, <2>3 DEF ConnectionsInv, Waiting, SinksConnected, Ports
  <1> QED BY <1>6, <1>7, <1>8, <1>9, <1>10, <1>11, <1>12, SourceSteps

\* No batch is made before the exit ports are connected (epps.rs:194-212).
THEOREM SinksCorrect == Spec => []SinksConnected
PROOF
  <1> DEFINE Inv == TypeInv /\ SourceInv
  <1>1. Init => Inv
    BY InitTypes, InitSource
  <1>2. Inv /\ [Next]_vars => Inv'
    BY TypesStep, ShapeStep, SettingsStep, ConnectionsStep DEF SourceInv
  <1>3. Inv => SinksConnected
    BY DEF SourceInv, ConnectionsInv
  <1> QED BY <1>1, <1>2, <1>3, PTL DEF Spec

\* A batch is made under exactly the settings that were scheduled for its start
\* or before, and the latest of them is in force (core.rs:230-270).
THEOREM SettingsCorrect == Spec => SettingsOnTime
PROOF
  <1> DEFINE Inv == TypeInv /\ SourceInv
             Timely == Generates =>
                 LET due == {e \in ToSet(Planned(setup)) : e.time <= time[EPPS]}
                 IN  /\ served = due
                     /\ profile \in (IF due = {} THEN {0} ELSE {e.value : e \in InForce(due)})
  <1>1. Init => Inv
    BY InitTypes, InitSource
  <1>2. Inv /\ [Next]_vars => Inv'
    BY TypesStep, ShapeStep, SettingsStep, ConnectionsStep DEF SourceInv
  <1>3. Inv => Timely
    <2> SUFFICES ASSUME Inv, Generates PROVE Timely
      BY DEF Generates
    <2> DEFINE due == {e \in Settings : e.time <= time[EPPS]}
    <2>1. served \subseteq Settings /\ phase[EPPS] = "batch"
      BY DEF TypeInv, SourceTypes, Settings, Generates
    <2>2. /\ Settings \subseteq heap[EPPS] \cup served
          /\ \A e \in served : e.time <= time[EPPS]
          /\ \A g \in heap[EPPS] \cap Settings : time[EPPS] < g.time
          /\ IF served = {} THEN profile = 0 ELSE profile \in {e.value : e \in InForce(served)}
      BY <2>1 DEF SourceInv, SettingsInv, Waiting
    <2>3. (\A e \in Settings : e.time \in Int) /\ time[EPPS] \in Int
      BY SettingsAre
    <2>5. served = due
      BY <2>1, <2>2, <2>3
    <2> QED BY <2>2, <2>5 DEF Settings
  <1>4. Timely => [Timely]_time
    OBVIOUS
  <1>5. SettingsOnTime <=> [][Timely]_time
    BY DEF SettingsOnTime
  <1> HIDE DEF Timely
  <1> QED BY <1>1, <1>2, <1>3, <1>4, <1>5, PTL DEF Spec

-----------------------------------------------------------------------------
(* Counting.  A property of all numbers up to n is proved from a least     *)
(* number that does not have it.                                           *)

LEMMA LeastOfNumbers ==
    ASSUME NEW T, T \subseteq Nat, T # {}
    PROVE  \E k \in T : \A j \in Nat : j < k => j \notin T
PROOF
  <1>1. PICK k \in T : \A j \in T : ~ (<<j, k>> \in OpToRel(<, Nat))
    BY NatLessThanWellFounded, WFMin
  <1>2. \A j \in T : ~ (j < k)
    BY <1>1 DEF OpToRel
  <1> QED BY <1>2

\* The recursive function of SumTo exists, and takes natural numbers.
LEMMA SumIs ==
    ASSUME NEW n \in Nat, NEW f \in [1 .. n -> Nat]
    PROVE  \E at \in [0 .. n -> Nat] :
              /\ at[0] = 0 /\ \A i \in 1 .. n : at[i] = at[i - 1] + f[i]
              /\ SumTo(f, n) = at[n]
PROOF
  <1> DEFINE step(s, i) == IF i = 0 THEN 0 ELSE s[i - 1] + f[i]
             upTo(m) == \E s : s = [i \in 0 .. m |-> step(s, i)]
  <1>0. n \in 0 .. n
    OBVIOUS
  <1>1. upTo(n)
    <2> DEFINE B == {m \in 0 .. n : ~ upTo(m)}
    <2> HIDE DEF upTo
    <2> SUFFICES ASSUME B # {} PROVE FALSE
      BY <1>0
    <2> USE DEF upTo
    <2>1. B \subseteq Nat
      OBVIOUS
    <2> HIDE DEF B
    <2>2. PICK k \in B : \A j \in Nat : j < k => j \notin B
      BY <2>1, LeastOfNumbers
    <2>3. k \in 0 .. n
      BY <2>2 DEF B
    <2>4. CASE k = 0
      <3>1. [i \in 0 .. 0 |-> 0] = [i \in 0 .. 0 |-> step([h \in 0 .. 0 |-> 0], i)]
        OBVIOUS
      <3>2. upTo(0)
        BY <3>1
      <3> QED BY <2>2, <2>4, <3>2 DEF B
    <2>5. CASE k # 0
      <3>1. k - 1 \in 0 .. n /\ k - 1 \notin B
        BY <2>2, <2>3, <2>5
      <3>2. PICK s : s = [i \in 0 .. k - 1 |-> step(s, i)]
        BY <3>1 DEF B
      <3> DEFINE g == [i \in 0 .. k |-> IF i = k THEN s[k - 1] + f[k] ELSE s[i]]
      <3>3. \A i \in 0 .. k : g[i] = step(g, i)
        <4> SUFFICES ASSUME NEW i \in 0 .. k PROVE g[i] = step(g, i)
          OBVIOUS
        <4>1. CASE i = k
          <5>1. k - 1 \in 0 .. k /\ k - 1 # k
            BY <2>3, <2>5
          <5>2. g[k - 1] = s[k - 1]
            BY <5>1
          <5> QED BY <2>3, <2>5, <4>1, <5>2
        <4>2. CASE i # k
          <5>1. i \in 0 .. k - 1
            BY <2>3, <4>2
          <5>2. s[i] = step(s, i)
            BY <3>2, <5>1
          <5>3. i # 0 => i - 1 \in 0 .. k /\ i - 1 # k
            BY <2>3, <5>1
          <5> QED BY <4>2, <5>1, <5>2, <5>3
        <4> QED BY <4>1, <4>2
      <3>4. g = [i \in 0 .. k |-> g[i]]
        OBVIOUS
      <3> HIDE DEF g
      <3>5. g = [i \in 0 .. k |-> step(g, i)]
        BY <3>3, <3>4
      <3> QED BY <2>2, <3>5 DEF B
    <2> QED BY <2>4, <2>5
  <1> DEFINE at == CHOOSE s : s = [i \in 0 .. n |-> step(s, i)]
  <1>2. at = [i \in 0 .. n |-> step(at, i)]
    BY <1>1
  <1>3. SumTo(f, n) = at[n]
    BY DEF SumTo
  <1> HIDE DEF at
  <1>4. at[0] = 0 /\ \A i \in 1 .. n : at[i] = at[i - 1] + f[i]
    <2>1. \A i \in 0 .. n : at[i] = step(at, i)
      BY <1>2
    <2>2. 0 \in 0 .. n /\ \A i \in 1 .. n : i \in 0 .. n /\ i # 0
      OBVIOUS
    <2> QED BY <2>1, <2>2
  <1>5. \A i \in 0 .. n : at[i] \in Nat
    <2> DEFINE B == {i \in 0 .. n : at[i] \notin Nat}
    <2> SUFFICES ASSUME B # {} PROVE FALSE
      OBVIOUS
    <2>1. B \subseteq Nat
      OBVIOUS
    <2> HIDE DEF B
    <2>2. PICK k \in B : \A j \in Nat : j < k => j \notin B
      BY <2>1, LeastOfNumbers
    <2>3. k \in 0 .. n /\ at[k] \notin Nat
      BY <2>2 DEF B
    <2>4. k \in 1 .. n /\ k - 1 \in 0 .. n
      BY <1>4, <2>3
    <2>5. at[k - 1] \in Nat
      BY <2>2, <2>4 DEF B
    <2> QED BY <1>4, <2>3, <2>4, <2>5
  <1>6. at \in [0 .. n -> Nat]
    BY <1>2, <1>5
  <1> QED BY <1>3, <1>4, <1>6

\* A sum changes by what one of its terms changes.
LEMMA SumOfOneChange ==
    ASSUME NEW n \in Nat, NEW f \in [1 .. n -> Nat], NEW g \in [1 .. n -> Nat], NEW k \in 1 .. n,
           \A i \in 1 .. n : i # k => g[i] = f[i]
    PROVE  /\ SumTo(f, n) \in Nat /\ SumTo(g, n) \in Nat
           /\ SumTo(g, n) + f[k] = SumTo(f, n) + g[k]
PROOF
  <1>1. PICK a \in [0 .. n -> Nat] :
          a[0] = 0 /\ (\A i \in 1 .. n : a[i] = a[i - 1] + f[i]) /\ SumTo(f, n) = a[n]
    BY SumIs
  <1>2. PICK b \in [0 .. n -> Nat] :
          b[0] = 0 /\ (\A i \in 1 .. n : b[i] = b[i - 1] + g[i]) /\ SumTo(g, n) = b[n]
    BY SumIs
  <1> DEFINE Good(i) == IF i < k THEN b[i] = a[i] ELSE b[i] + f[k] = a[i] + g[k]
             B == {i \in 0 .. n : ~ Good(i)}
  <1>3. B = {}
    <2> SUFFICES ASSUME B # {} PROVE FALSE
      OBVIOUS
    <2>1. B \subseteq Nat
      OBVIOUS
    <2> HIDE DEF B
    <2>2. PICK i \in B : \A j \in Nat : j < i => j \notin B
      BY <2>1, LeastOfNumbers
    <2>3. i \in 0 .. n /\ ~ Good(i)
      BY <2>2 DEF B
    <2>4. i # 0
      BY <1>1, <1>2, <2>3
    <2>5. i \in 1 .. n /\ i - 1 \in 0 .. n
      BY <2>3, <2>4
    <2>6. Good(i - 1)
      <3>1. i - 1 \in Nat /\ i - 1 < i
        BY <2>5
      <3>2. i - 1 \notin B
        BY <2>2, <3>1
      <3> HIDE DEF Good
      <3> QED BY <2>5, <3>2 DEF B
    <2>7. a[i] = a[i - 1] + f[i] /\ b[i] = b[i - 1] + g[i]
      BY <1>1, <1>2, <2>5
    <2>8. /\ a[i] \in Nat /\ a[i - 1] \in Nat /\ b[i] \in Nat /\ b[i - 1] \in Nat
          /\ f[i] \in Nat /\ g[i] \in Nat /\ f[k] \in Nat /\ g[k] \in Nat
      BY <2>5
    <2>a. PICK p \in Nat, q \in Nat, u \in Nat, v \in Nat, h \in Nat, l \in Nat, r \in Nat, t \in Nat :
            /\ p = a[i - 1] /\ q = b[i - 1] /\ u = a[i] /\ v = b[i]
            /\ h = f[i] /\ l = g[i] /\ r = f[k] /\ t = g[k]
      BY <2>8
    <2>b. u = p + h /\ v = q + l
      BY <2>7, <2>a
    <2>9. CASE i < k
      <3>1. b[i - 1] = a[i - 1] /\ g[i] = f[i]
        BY <2>5, <2>6, <2>9
      <3> QED BY <2>3, <2>7, <2>9, <3>1
    <2>10. CASE i = k
      <3>1. b[i - 1] = a[i - 1]
        BY <2>5, <2>6, <2>10
      <3>2. v + h = u + l
        <4>1. p = q
          BY <2>a, <3>1
        <4> QED BY <2>b, <4>1
      <3>3. v + r = u + t
        BY <2>a, <2>10, <3>2
      <3> QED BY <2>3, <2>a, <2>10, <3>3
    <2>11. CASE k < i
      <3>1. b[i - 1] + f[k] = a[i - 1] + g[k] /\ g[i] = f[i]
        BY <2>5, <2>6, <2>11
      <3>2. v + r = u + t
        <4>1. q + r = p + t /\ l = h
          BY <2>a, <3>1
        <4> QED BY <2>b, <4>1
      <3> QED BY <2>3, <2>a, <2>11, <3>2
    <2> QED BY <2>3, <2>9, <2>10, <2>11
  <1>4. n \in 0 .. n /\ ~ (n < k)
    OBVIOUS
  <1>5. b[n] + f[k] = a[n] + g[k]
    BY <1>3, <1>4
  <1>6. a[n] \in Nat /\ b[n] \in Nat
    BY <1>4
  <1> QED BY <1>1, <1>2, <1>5, <1>6

LEMMA SumOfZeros ==
    ASSUME NEW n \in Nat, NEW f \in [1 .. n -> Nat], \A i \in 1 .. n : f[i] = 0
    PROVE  SumTo(f, n) = 0
PROOF
  <1>1. PICK a \in [0 .. n -> Nat] :
          a[0] = 0 /\ (\A i \in 1 .. n : a[i] = a[i - 1] + f[i]) /\ SumTo(f, n) = a[n]
    BY SumIs
  <1> DEFINE B == {i \in 0 .. n : a[i] # 0}
  <1>2. B = {}
    <2> SUFFICES ASSUME B # {} PROVE FALSE
      OBVIOUS
    <2>1. B \subseteq Nat
      OBVIOUS
    <2> HIDE DEF B
    <2>2. PICK i \in B : \A j \in Nat : j < i => j \notin B
      BY <2>1, LeastOfNumbers
    <2>3. i \in 1 .. n /\ i - 1 \in 0 .. n /\ a[i] # 0
      BY <1>1, <2>2 DEF B
    <2>4. a[i - 1] = 0
      BY <2>2, <2>3 DEF B
    <2> QED BY <1>1, <2>3, <2>4
  <1> QED BY <1>1, <1>2

-----------------------------------------------------------------------------
(* The monitor counts no packet twice.                                     *)

LEMMA ToReadIs ==
    ASSUME TypeInv
    PROVE  /\ ToRead \in [Ports -> Nat]
           /\ \A i \in Ports : ToRead[i] = IF i \in StillToRead THEN counter[PortOf(i)] ELSE 0
PROOF
  <1>1. \A i \in Ports : PortOf(i) \in SPDs
    BY PortType
  <1>2. counter \in [SPDs -> Nat]
    BY DEF TypeInv, CountTypes
  <1> QED BY <1>1, <1>2 DEF ToRead, Ports

LEMMA InitCount == Init => NothingCountedTwice
PROOF
  <1> SUFFICES ASSUME Init PROVE NothingCountedTwice
    OBVIOUS
  <1> DEFINE d == Cardinality(SPDs)
  <1>1. d \in Nat /\ ToRead \in [1 .. d -> Nat]
    BY InitTypes, ToReadIs, PortCount DEF Ports
  <1>2. \A i \in 1 .. d : ToRead[i] = 0
    BY InitTypes, ToReadIs, PortType DEF Ports, Init
  <1>3. SumTo(ToRead, d) = 0
    <2> HIDE DEF d
    <2> QED BY <1>1, <1>2, SumOfZeros
  <1> QED BY <1>3 DEF NothingCountedTwice, Init

\* A detector adds to its counter what it adds to the packets consumed.
LEMMA ConsumeCounts ==
    ASSUME TypeInv, TypeInv', NothingCountedTwice, NEW n \in SPDs, Consume(n)
    PROVE  NothingCountedTwice'
PROOF
  <1> DEFINE d == Cardinality(SPDs)
  <1>1. PICK c : c = Counted(Head(channel[n]))
    OBVIOUS
  <1>2. c \in Nat
    <2>1. channel[n] \in Seq(Sizes) /\ channel[n] # <<>>
      BY DEF Consume, TypeInv, QueueTypes
    <2>2. Head(channel[n]) \in Sizes
      BY <2>1
    <2> QED BY <1>1, <2>2, RunnerAssumption DEF Counted, Sizes
  <1>3. counter' = [counter EXCEPT ![n] = @ + c] /\ consumed' = consumed + c /\ monitor' = monitor
    BY <1>1 DEF Consume
  <1>4. PICK k \in Ports : PortOf(k) = n
    BY DetectorSeq
  <1>5. PICK f, g : f = ToRead /\ g = ToRead'
    OBVIOUS
  <1>6. /\ f \in [Ports -> Nat]
        /\ \A i \in Ports : f[i] = IF i \in StillToRead THEN counter[PortOf(i)] ELSE 0
    BY <1>5, ToReadIs
  <1>7. /\ \A i \in Ports : g[i] = IF i \in StillToRead THEN counter'[PortOf(i)] ELSE 0
        /\ g \in [Ports -> Nat]
    <2>1. StillToRead' = StillToRead
      BY <1>3 DEF StillToRead
    <2>2. \A i \in Ports : PortOf(i)' = PortOf(i)
      BY DEF PortOf
    <2>3. /\ g = [i \in Ports |-> g[i]]
          /\ \A i \in Ports : g[i] = IF i \in StillToRead THEN counter'[PortOf(i)] ELSE 0
      BY <1>5, <2>1, <2>2 DEF ToRead, Ports
    <2>4. counter' \in [SPDs -> Nat]
      BY DEF TypeInv, CountTypes
    <2>5. \A i \in Ports : g[i] \in Nat
      BY <2>3, <2>4, PortType
    <2> QED BY <2>3, <2>5
  <1>8. counter \in [SPDs -> Nat]
    BY DEF TypeInv, CountTypes
  <1>9. \A i \in Ports : i # k => g[i] = f[i]
    <2>1. \A i \in Ports : i # k => PortOf(i) # n /\ PortOf(i) \in SPDs
      BY <1>4, DetectorSeq, PortType
    <2> QED BY <1>3, <1>6, <1>7, <1>8, <2>1
  <1>10. g[k] <= f[k] + c
    BY <1>2, <1>3, <1>4, <1>6, <1>7, <1>8
  <1>11. PICK x, y : x = SumTo(f, d) /\ y = SumTo(g, d)
    OBVIOUS
  <1>12. x \in Nat /\ y \in Nat /\ y + f[k] = x + g[k]
    <2>1. d \in Nat /\ k \in 1 .. d /\ f \in [1 .. d -> Nat] /\ g \in [1 .. d -> Nat]
      BY <1>6, <1>7, PortCount DEF Ports
    <2>2. \A i \in 1 .. d : i # k => g[i] = f[i]
      BY <1>9 DEF Ports
    <2> HIDE DEF d
    <2> QED BY <1>11, <2>1, <2>2, SumOfOneChange
  <1>13. f[k] \in Nat /\ g[k] \in Nat
    BY <1>6, <1>7
  <1>14. y <= x + c
    BY <1>2, <1>10, <1>12, <1>13
  <1>15. monitor.total + monitor.sum + x <= consumed
    BY <1>5, <1>11 DEF NothingCountedTwice
  <1>16. monitor.total \in Nat /\ monitor.sum \in Nat /\ consumed \in Nat
    BY DEF TypeInv, CountTypes
  <1>17. monitor'.total + monitor'.sum + y <= consumed'
    BY <1>2, <1>3, <1>12, <1>14, <1>15, <1>16
  <1> QED BY <1>5, <1>11, <1>17 DEF NothingCountedTwice

\* Load moves a counter from what is to be read to the sum; AddUp moves the sum;
\* Reset exchanges a counter that was read for one that is to be read and is 0.
LEMMA MonitorCounts ==
    ASSUME TypeInv, TypeInv', NothingCountedTwice, Monitor
    PROVE  NothingCountedTwice'
PROOF
  <1> DEFINE d == Cardinality(SPDs)
  <1>1. consumed' = consumed
    BY DEF Monitor
  <1>2. /\ monitor \in [place : {"load", "reset"}, through : 0 .. d, sum : Nat, total : Nat, rounds : Nat]
        /\ monitor.total \in Nat /\ monitor.sum \in Nat /\ consumed \in Nat /\ monitor.through \in 0 .. d
        /\ counter \in [SPDs -> Nat] /\ d \in Nat
        /\ monitor.place = "load" \/ monitor.place = "reset"
        /\ monitor.place = "reset" => monitor.through # d
    BY PortCount DEF TypeInv, CountTypes
  <1>3. PICK f, g : f = ToRead /\ g = ToRead'
    OBVIOUS
  <1>4. /\ f \in [Ports -> Nat]
        /\ \A i \in Ports : f[i] = IF i \in StillToRead THEN counter[PortOf(i)] ELSE 0
    BY <1>3, ToReadIs
  <1>5. /\ \A i \in Ports : g[i] = IF i \in StillToRead' THEN counter'[PortOf(i)] ELSE 0
        /\ g \in [Ports -> Nat]
    <2>1. \A i \in Ports : PortOf(i)' = PortOf(i)
      BY DEF PortOf
    <2>2. /\ g = [i \in Ports |-> g[i]]
          /\ \A i \in Ports : g[i] = IF i \in StillToRead' THEN counter'[PortOf(i)] ELSE 0
      BY <1>3, <2>1 DEF ToRead, Ports
    <2>3. counter' \in [SPDs -> Nat]
      BY DEF TypeInv, CountTypes
    <2>4. \A i \in Ports : g[i] \in Nat
      BY <2>2, <2>3, PortType
    <2> QED BY <2>2, <2>4
  <1>6. /\ \A i \in Ports : i \in StillToRead <=> IF monitor.place = "load" THEN i > monitor.through
                                                 ELSE i <= monitor.through
        /\ \A i \in Ports : i \in StillToRead' <=> IF monitor'.place = "load" THEN i > monitor'.through
                                                  ELSE i <= monitor'.through
    BY DEF StillToRead, Ports
  <1>7. PICK x, y : x = SumTo(f, d) /\ y = SumTo(g, d)
    OBVIOUS
  <1>8. monitor.total + monitor.sum + x <= consumed
    BY <1>3, <1>7 DEF NothingCountedTwice
  <1>9. f \in [1 .. d -> Nat] /\ g \in [1 .. d -> Nat] /\ \A i \in Ports : i \in 1 .. d /\ i \in Nat
    BY <1>4, <1>5 DEF Ports
  <1>10. x \in Nat /\ y \in Nat
    <2>1. \A h \in [1 .. d -> Nat] : SumTo(h, d) \in Nat
      <3> SUFFICES ASSUME NEW h \in [1 .. d -> Nat] PROVE SumTo(h, d) \in Nat
        OBVIOUS
      <3>1. PICK at \in [0 .. d -> Nat] : SumTo(h, d) = at[d]
        <4> HIDE DEF d
        <4> QED BY <1>2, SumIs
      <3> QED BY <1>2, <3>1
    <2> HIDE DEF d
    <2> QED BY <1>7, <1>9, <2>1
  <1>11. monitor'.total + monitor'.sum + y <= consumed
    <2>1. CASE Load
      <3>1. PICK k : k = monitor.through + 1
        OBVIOUS
      <3>2. k \in Ports /\ monitor.place = "load"
        BY <1>2, <2>1, <3>1 DEF Load, Ports
      <3>3. /\ monitor' = [monitor EXCEPT !.sum = @ + counter[PortOf(k)], !.through = k]
            /\ counter' = counter
        BY <2>1, <3>1 DEF Load
      <3>4. /\ monitor'.place = "load" /\ monitor'.through = k /\ monitor'.total = monitor.total
            /\ monitor'.sum = monitor.sum + counter[PortOf(k)]
        BY <1>2, <3>2, <3>3
      <3>5. \A i \in Ports : i # k => (i \in StillToRead <=> i \in StillToRead')
        BY <1>2, <1>6, <1>9, <3>1, <3>2, <3>4
      <3>6. k \in StillToRead /\ k \notin StillToRead'
        BY <1>2, <1>6, <1>9, <3>1, <3>2, <3>4
      <3>7. \A i \in 1 .. d : i # k => g[i] = f[i]
        BY <1>4, <1>5, <3>3, <3>5 DEF Ports
      <3>8. f[k] = counter[PortOf(k)] /\ g[k] = 0
        BY <1>4, <1>5, <3>2, <3>6
      <3>9. y + f[k] = x + g[k] /\ k \in 1 .. d
        <4>1. k \in 1 .. d
          BY <1>9, <3>2
        <4> HIDE DEF d
        <4> QED BY <1>2, <1>7, <1>9, <3>7, <4>1, SumOfOneChange
      <3>10. f[k] \in Nat
        BY <1>9, <3>9
      <3> QED BY <1>2, <1>8, <1>10, <3>4, <3>8, <3>9, <3>10
    <2>2. CASE AddUp
      <3>1. /\ monitor.place = "load" /\ monitor.through = d /\ counter' = counter
            /\ monitor'.place = "reset" /\ monitor'.through = 0
            /\ monitor'.total = monitor.total + monitor.sum /\ monitor'.sum = 0
        <4>1. PICK t : t = monitor.total + monitor.sum
          OBVIOUS
        <4>2. /\ monitor.place = "load" /\ monitor.through = d /\ counter' = counter
              /\ monitor' = [monitor EXCEPT !.total = t, !.sum = 0, !.through = 0, !.place = "reset"]
          BY <2>2, <4>1 DEF AddUp
        <4> HIDE DEF d
        <4> QED BY <1>2, <4>1, <4>2
      <3>2. \A i \in Ports : i \notin StillToRead /\ i \notin StillToRead'
        BY <1>2, <1>6, <1>9, <3>1
      <3>3. \A i \in Ports : f[i] = g[i]
        BY <1>4, <1>5, <3>2
      <3>4. f = g
        BY <1>4, <1>5, <3>3
      <3> QED BY <1>2, <1>7, <1>8, <1>10, <3>1, <3>4
    <2>3. CASE Reset
      <3>1. PICK k : k = monitor.through + 1
        OBVIOUS
      <3>2. k \in Ports /\ monitor.place = "reset" /\ counter' = [counter EXCEPT ![PortOf(k)] = 0]
        BY <1>2, <2>3, <3>1 DEF Reset, Cleared, Ports
      <3>3. /\ monitor'.total = monitor.total /\ monitor'.sum = monitor.sum
            /\ IF k = d THEN monitor'.place = "load" /\ monitor'.through = 0
                        ELSE monitor'.place = "reset" /\ monitor'.through = k
        BY <1>2, <2>3, <3>1, <3>2 DEF Reset
      <3>4. \A i \in Ports : i # k => (i \in StillToRead <=> i \in StillToRead')
        BY <1>2, <1>6, <1>9, <3>1, <3>2, <3>3
      <3>5. k \notin StillToRead
        BY <1>2, <1>6, <1>9, <3>1, <3>2
      <3>6. PortOf(k) \in SPDs /\ counter'[PortOf(k)] = 0
        BY <1>2, <3>2, PortType
      <3>7. \A i \in Ports : i # k => counter'[PortOf(i)] = counter[PortOf(i)]
        BY <1>2, <3>2, DetectorSeq, PortType
      <3>8. \A i \in Ports : f[i] = g[i]
        BY <1>4, <1>5, <3>4, <3>5, <3>6, <3>7
      <3>9. f = g
        BY <1>4, <1>5, <3>8
      <3> QED BY <1>2, <1>7, <1>8, <1>10, <3>3, <3>9
    <2> QED BY <2>1, <2>2, <2>3 DEF Monitor
  <1> QED BY <1>1, <1>3, <1>7, <1>11 DEF NothingCountedTwice

LEMMA CountStep ==
    ASSUME TypeInv, TypeInv', NothingCountedTwice, [Next]_vars
    PROVE  NothingCountedTwice'
PROOF
  <1>1. ASSUME UNCHANGED <<counter, consumed, monitor>>
        PROVE  NothingCountedTwice'
    <2>1. StillToRead' = StillToRead
      BY <1>1 DEF StillToRead
    <2>2. ToRead' = ToRead
      BY <1>1, <2>1 DEF ToRead, PortOf
    <2> QED BY <1>1, <2>2 DEF NothingCountedTwice
  <1>2. \/ \E n \in SPDs : Consume(n)
        \/ Monitor
        \/ UNCHANGED <<counter, consumed, monitor>>
    <2>1. CASE Main \/ (~exited /\ SendStop)
      BY <2>1 DEF Main, SendControl, SendStop, Join, countVars
    <2>2. \A n : Run(n) => UNCHANGED <<counter, consumed, monitor>>
      BY DEF Run, Preload, Poll, Serve, AllServed, countVars
    <2>3. CASE Source
      BY <2>2, <2>3 DEF Source, Generate, SendBatch, countVars
    <2>4. CASE \E n \in SPDs : Detector(n)
      BY <2>2, <2>4 DEF Detector, HandOver, DropWorker, JoinClaimer, countVars
    <2>5. CASE \E n \in SPDs : Claim(n)
      BY <2>5 DEF Claim, countVars
    <2>6. CASE UNCHANGED vars
      BY <2>6 DEF vars, countVars
    <2> QED BY <2>1, <2>3, <2>4, <2>5, <2>6 DEF Next
  <1> QED BY <1>1, <1>2, ConsumeCounts, MonitorCounts

\* What the monitor has reported and what it will still read never exceeds what
\* the detectors have consumed, for any number of detectors and any interleaving
\* of their additions with its loads and resets (main.rs:42-70).
THEOREM CountedOnce == Spec => []NothingCountedTwice
PROOF
  <1>1. Init => TypeInv
    BY InitTypes
  <1>2. TypeInv /\ [Next]_vars => TypeInv'
    BY TypesStep
  <1>3. Init => NothingCountedTwice
    BY InitCount
  <1>4. TypeInv /\ TypeInv' /\ NothingCountedTwice /\ [Next]_vars => NothingCountedTwice'
    BY CountStep
  <1> QED BY <1>1, <1>2, <1>3, <1>4, PTL DEF Spec
=============================================================================
