-------------------------- MODULE NodePortsProofs --------------------------
(***************************************************************************)
(* Theorems about NodePorts, for any delay, any gaps between the pulses,   *)
(* any sizes of batches and channels and any number of batches.            *)
(***************************************************************************)
EXTENDS NodePorts, FiniteSetTheorems, SequenceTheorems, TLAPS

-----------------------------------------------------------------------------
(* Greatest and least elements.                                            *)

LEMMA MaxIsGreatest ==
    ASSUME NEW S \in SUBSET Int, IsFiniteSet(S), S # {}
    PROVE  Max(S) \in S /\ \A x \in S : x <= Max(S)
PROOF
  <1> DEFINE T == {X \in SUBSET S : X # {} /\ \A x \in X, s \in S : s > x => s \in X}
             R == StrictSubsetOrdering(S)
  <1>0. FiniteSubsetsOf(S) = SUBSET S
    BY FS_FiniteSubsetsOfFinite
  <1>1. IsWellFoundedOn(R, SUBSET S)
    <2>1. IsWellFoundedOn(R, FiniteSubsetsOf(S))
      BY FS_StrictSubsetOrderingWellFounded
    <2> HIDE DEF R
    <2> QED BY <1>0, <2>1
  <1>2. S \in T /\ T \subseteq SUBSET S
    OBVIOUS
  <1> HIDE DEF R
  <1>3. PICK X \in T : \A Y \in T : ~ (<<Y, X>> \in R)
    <2> HIDE DEF T
    <2>1. T # {} /\ T \subseteq SUBSET S
      BY <1>2
    <2> QED BY <1>1, <2>1, WFMin
  <1>4. PICK x \in X : TRUE
    BY <1>3
  <1>5. \A s \in S : s <= x
    <2> SUFFICES ASSUME NEW s \in S, s > x PROVE FALSE
      <3>1. x \in Int /\ S \subseteq Int
        BY <1>3, <1>4
      <3> QED BY <3>1
    <2> DEFINE Y == {y \in S : y > x}
    <2>0. S \subseteq Int /\ X \subseteq S /\ x \in X /\ \A z \in X, r \in S : r > z => r \in X
      BY <1>3, <1>4
    <2>1. Y \in T /\ Y \subseteq X /\ Y # X
      <3>1. \A z \in Y, r \in S : r > z => r \in Y
        BY <2>0
      <3>2. Y \subseteq X /\ s \in Y /\ Y \subseteq S
        BY <2>0
      <3>3. x \notin Y
        BY <2>0
      <3> HIDE DEF Y
      <3> QED BY <2>0, <3>1, <3>2, <3>3
    <2>2. <<Y, X>> \in R
      BY <1>3, <2>1 DEF R, StrictSubsetOrdering
    <2> QED BY <1>3, <2>1, <2>2
  <1>6. x \in S
    BY <1>3, <1>4
  <1> QED BY <1>5, <1>6 DEF Max

LEMMA MinIsLeast ==
    ASSUME NEW S \in SUBSET Int, IsFiniteSet(S), S # {}
    PROVE  Min(S) \in S /\ \A x \in S : Min(S) <= x
PROOF
  <1> DEFINE T == {X \in SUBSET S : X # {} /\ \A x \in X, s \in S : s < x => s \in X}
             R == StrictSubsetOrdering(S)
  <1>0. FiniteSubsetsOf(S) = SUBSET S
    BY FS_FiniteSubsetsOfFinite
  <1>1. IsWellFoundedOn(R, SUBSET S)
    <2>1. IsWellFoundedOn(R, FiniteSubsetsOf(S))
      BY FS_StrictSubsetOrderingWellFounded
    <2> HIDE DEF R
    <2> QED BY <1>0, <2>1
  <1>2. S \in T /\ T \subseteq SUBSET S
    OBVIOUS
  <1> HIDE DEF R
  <1>3. PICK X \in T : \A Y \in T : ~ (<<Y, X>> \in R)
    <2> HIDE DEF T
    <2>1. T # {} /\ T \subseteq SUBSET S
      BY <1>2
    <2> QED BY <1>1, <2>1, WFMin
  <1>4. PICK x \in X : TRUE
    BY <1>3
  <1>5. \A s \in S : x <= s
    <2> SUFFICES ASSUME NEW s \in S, s < x PROVE FALSE
      <3>1. x \in Int /\ S \subseteq Int
        BY <1>3, <1>4
      <3> QED BY <3>1
    <2> DEFINE Y == {y \in S : y < x}
    <2>0. S \subseteq Int /\ X \subseteq S /\ x \in X /\ \A z \in X, r \in S : r < z => r \in X
      BY <1>3, <1>4
    <2>1. Y \in T /\ Y \subseteq X /\ Y # X
      <3>1. \A z \in Y, r \in S : r < z => r \in Y
        BY <2>0
      <3>2. Y \subseteq X /\ s \in Y /\ Y \subseteq S
        BY <2>0
      <3>3. x \notin Y
        BY <2>0
      <3> HIDE DEF Y
      <3> QED BY <2>0, <3>1, <3>2, <3>3
    <2>2. <<Y, X>> \in R
      BY <1>3, <2>1 DEF R, StrictSubsetOrdering
    <2> QED BY <1>3, <2>1, <2>2
  <1>6. x \in S
    BY <1>3, <1>4
  <1> QED BY <1>5, <1>6 DEF Min

\* How many of the first elements of n have a property that is asked of each
\* of them: the loops of RxPort.
LEMMA LongestPrefix ==
    ASSUME NEW n \in Nat, NEW S \in SUBSET (0 .. n), 0 \in S
    PROVE  Max(S) \in S /\ Max(S) \in 0 .. n /\ \A k \in S : k <= Max(S)
PROOF
  <1>1. IsFiniteSet(S)
    <2>1. IsFiniteSet(0 .. n)
      BY FS_Interval
    <2> QED BY <2>1, FS_Subset
  <1>2. S \in SUBSET Int /\ S # {}
    OBVIOUS
  <1> QED BY <1>1, <1>2, MaxIsGreatest

\* A statement about 0 .. n that fails has a first number for which it fails.
LEMMA FirstFailure ==
    ASSUME NEW n \in Nat, NEW B \in SUBSET (0 .. n), B # {}
    PROVE  \E k \in B : \A j \in 0 .. n : j < k => j \notin B
PROOF
  <1>1. IsFiniteSet(B)
    <2>1. IsFiniteSet(0 .. n)
      BY FS_Interval
    <2> QED BY <2>1, FS_Subset
  <1>2. B \in SUBSET Int
    OBVIOUS
  <1>3. Min(B) \in B /\ \A x \in B : Min(B) <= x
    BY <1>1, <1>2, MinIsLeast
  <1>4. PICK k \in B : \A x \in B : k <= x
    BY <1>3
  <1>5. \A j \in 0 .. n : j < k => j \notin B
    BY <1>2, <1>4
  <1> QED BY <1>4, <1>5

-----------------------------------------------------------------------------
(* The source's pulses.                                                    *)

LEMMA ProductType == \A a, b \in Nat : a * b \in Nat
  OBVIOUS

LEMMA PulsesAre ==
    ASSUME time \in Nat, PumpPeriod \in Nat, NEW gaps \in Seq(Nat)
    PROVE  /\ Pulses(gaps) \in [1 .. Len(gaps) -> Nat]
           /\ \A i \in 1 .. Len(gaps) : time <= Pulses(gaps)[i]
           /\ \A i, j \in 1 .. Len(gaps) : i <= j => Pulses(gaps)[i] <= Pulses(gaps)[j]
PROOF
  <1> DEFINE n == Len(gaps)
             step(f, i) == IF i = 0 THEN time ELSE f[i - 1] + PumpPeriod * gaps[i]
  <1>1. n \in Nat
    OBVIOUS
  <1>2. \A i \in 1 .. n : PumpPeriod * gaps[i] \in Nat
    BY ProductType
  <1> DEFINE upTo(m) == \E f : f = [i \in 0 .. m |-> step(f, i)]
  <1>3. upTo(n)
    <2> DEFINE B == {m \in 0 .. n : ~ upTo(m)}
    <2> SUFFICES ASSUME B # {} PROVE FALSE
      BY <1>1
    <2>1. B \in SUBSET (0 .. n)
      OBVIOUS
    <2> HIDE DEF B
    <2>2. PICK k \in B : \A j \in 0 .. n : j < k => j \notin B
      BY <1>1, <2>1, FirstFailure
    <2>3. k \in 0 .. n
      BY <2>1, <2>2
    <2>4. CASE k = 0
      <3>1. [i \in 0 .. 0 |-> time] = [i \in 0 .. 0 |-> step([h \in 0 .. 0 |-> time], i)]
        OBVIOUS
      <3>2. upTo(0)
        BY <3>1
      <3> QED BY <2>2, <2>4, <3>2 DEF B
    <2>5. CASE k # 0
      <3>1. k - 1 \in 0 .. n /\ k - 1 \notin B
        BY <1>1, <2>2, <2>3, <2>5
      <3>2. PICK f : f = [i \in 0 .. k - 1 |-> step(f, i)]
        BY <3>1 DEF B
      <3> DEFINE g == [i \in 0 .. k |-> IF i = k THEN f[k - 1] + PumpPeriod * gaps[k] ELSE f[i]]
      <3>3. \A i \in 0 .. k : g[i] = step(g, i)
        <4> SUFFICES ASSUME NEW i \in 0 .. k PROVE g[i] = step(g, i)
          OBVIOUS
        <4>1. CASE i = k
          <5>1. k - 1 \in 0 .. k /\ k - 1 # k
            BY <2>3, <2>5
          <5>2. g[k - 1] = f[k - 1]
            BY <5>1
          <5> QED BY <2>3, <2>5, <4>1, <5>2
        <4>2. CASE i # k
          <5>1. i \in 0 .. k - 1
            BY <2>3, <4>2
          <5>2. f[i] = step(f, i)
            BY <3>2, <5>1
          <5>3. i # 0 => i - 1 \in 0 .. k /\ i - 1 # k
            BY <2>3, <5>1
          <5> QED BY <4>2, <5>1, <5>2, <5>3
        <4> QED BY <4>1, <4>2
      <3>4. g = [i \in 0 .. k |-> g[i]]
        OBVIOUS
      <3> HIDE DEF g
      <3>5. g = [i \in 0 .. k |-> step(g, i)]
        BY <3>3, <3>4
      <3> QED BY <2>2, <3>5 DEF B
    <2> QED BY <2>4, <2>5
  <1> DEFINE at == CHOOSE f : f = [i \in 0 .. n |-> step(f, i)]
  <1>4. at = [i \in 0 .. n |-> step(at, i)]
    BY <1>3
  <1>5. Pulses(gaps) = [i \in 1 .. n |-> at[i]]
    BY DEF Pulses
  <1> HIDE DEF at
  <1> HIDE DEF n
  <1>6. at[0] = time /\ \A i \in 1 .. n : at[i] = at[i - 1] + PumpPeriod * gaps[i]
    <2>1. \A i \in 0 .. n : at[i] = step(at, i)
      BY <1>4
    <2>2. 0 \in 0 .. n /\ \A i \in 1 .. n : i \in 0 .. n /\ i # 0
      BY <1>1
    <2> QED BY <2>1, <2>2
  <1>7. \A i \in 0 .. n : at[i] \in Nat
    <2> DEFINE B == {i \in 0 .. n : at[i] \notin Nat}
    <2> SUFFICES ASSUME B # {} PROVE FALSE
      OBVIOUS
    <2>1. B \in SUBSET (0 .. n)
      OBVIOUS
    <2> HIDE DEF B
    <2>2. PICK k \in B : \A j \in 0 .. n : j < k => j \notin B
      BY <1>1, <2>1, FirstFailure
    <2>3. k \in 0 .. n /\ at[k] \notin Nat
      BY <2>2 DEF B
    <2>4. k # 0
      BY <1>6, <2>3
    <2>5. at[k - 1] \in Nat
      BY <1>1, <2>2, <2>3, <2>4 DEF B
    <2>6. at[k] = at[k - 1] + PumpPeriod * gaps[k] /\ PumpPeriod * gaps[k] \in Nat
      BY <1>2, <1>6, <2>3, <2>4 DEF n
    <2> QED BY <2>3, <2>5, <2>6
  <1>8. \A i, j \in 0 .. n : i <= j => at[i] <= at[j]
    <2> SUFFICES ASSUME NEW i \in 0 .. n, \E j \in 0 .. n : i <= j /\ ~ at[i] <= at[j] PROVE FALSE
      OBVIOUS
    <2> DEFINE B == {j \in 0 .. n : i <= j /\ ~ at[i] <= at[j]}
    <2>1. B \in SUBSET (0 .. n) /\ B # {}
      OBVIOUS
    <2> HIDE DEF B
    <2>2. PICK k \in B : \A j \in 0 .. n : j < k => j \notin B
      BY <1>1, <2>1, FirstFailure
    <2>3. k \in 0 .. n /\ i <= k /\ ~ at[i] <= at[k]
      BY <2>2 DEF B
    <2>4. i # k
      BY <1>7, <2>3
    <2>5. k - 1 \in 0 .. n /\ i <= k - 1 /\ k \in 1 .. n
      BY <1>1, <2>3, <2>4
    <2>6. at[i] <= at[k - 1]
      BY <2>2, <2>5 DEF B
    <2>7. at[k] = at[k - 1] + PumpPeriod * gaps[k] /\ PumpPeriod * gaps[k] \in Nat
      BY <1>2, <1>6, <2>5 DEF n
    <2>8. \A a, b, c, x \in Nat : a <= b /\ c = b + x => a <= c
      OBVIOUS
    <2>9. at[i] \in Nat /\ at[k - 1] \in Nat /\ at[k] \in Nat
      BY <1>7, <2>3, <2>5
    <2> QED BY <2>3, <2>6, <2>7, <2>8, <2>9
  <1>9. 0 \in 0 .. n /\ 1 .. n \subseteq 0 .. n
    BY <1>1
  <1>10. Len(gaps) = n
    BY DEF n
  <1> QED BY <1>1, <1>5, <1>6, <1>7, <1>8, <1>9, <1>10

-----------------------------------------------------------------------------
(* Type correctness.                                                       *)

Widths == \A n \in Nat : SigmaOf(n) \in Nat

RxPorts     == [period : Seq(WavePacket), start : Nat, end : Nat, current : Nat]
DelayPlaces == {"idle", "get", "transmit"}
PullPlaces  == {"pullRight", "pullLeft", "check", "scatter"}
DualPlaces  == {"idle", "getLeft", "getRight"} \cup PullPlaces
Operators   == [pairs : SUBSET ((Sides \X Nat) \X (Sides \X Nat)), lone : SUBSET (Sides \X Nat)]
Outcomes    == [wps : [Sides -> Seq(WavePacket)], end : Nat, operators : Operators]

\* Every function has its domain, every getter is at a place of its own, and a
\* batch that is still being collected is not larger than it may be, so that
\* get_batch takes some number of packets.
BatchFits ==
    /\ pc["delay"] = "get" => Len(batch["delay"].wps) <= MaxSize
    /\ pc["dual"] = "getLeft" => Len(batch["left"].wps) <= MaxSize
    /\ pc["dual"] \in {"getLeft", "getRight"} => Len(batch["right"].wps) <= MaxSize

SourceTypes ==
    /\ setup \in Experiments
    /\ time \in Nat /\ batches \in 0 .. setup.batches /\ generated \in Nat

PortTypes ==
    /\ channel \in [Inputs -> Seq(Batch)] /\ \A r \in Inputs : Len(channel[r]) <= ChannelSize
    /\ port \in [Inputs -> RxPorts] /\ batch \in [Inputs -> Batch]

TimeoutTypes == timeout \in [Getters -> Nat] /\ endTime \in Nat

OutboxTypes ==
    /\ outbox \in [Senders -> Seq([to : Inputs, batch : Batch])]
    /\ Len(outbox["epps"]) <= 2 /\ Len(outbox["delay"]) <= 1

PlaceTypes ==
    /\ pc \in [Getters -> DelayPlaces \cup DualPlaces]
    /\ pc["delay"] \in DelayPlaces /\ pc["dual"] \in DualPlaces

ScatteredTypes ==
    /\ scattered \in Seq(Outcomes)
    /\ \A n \in 1 .. Len(scattered) :
          /\ scattered[n].operators.lone \subseteq Visits(scattered[n].wps)
          /\ \A e \in scattered[n].operators.pairs : {e[1], e[2]} \subseteq Visits(scattered[n].wps)

TypeInv ==
    /\ SourceTypes /\ PortTypes /\ TimeoutTypes /\ OutboxTypes /\ PlaceTypes /\ ScatteredTypes
    /\ BatchFits

LEMMA TypesImplied == TypeInv => TypeOK
PROOF
  <1> SUFFICES ASSUME TypeInv PROVE TypeOK
    OBVIOUS
  <1>1. \A n \in 1 .. Len(scattered) :
          scattered[n].wps \in [Sides -> Seq(WavePacket)] /\ scattered[n].end \in Nat
    <2>1. \A n \in 1 .. Len(scattered) : scattered[n] \in Outcomes
      BY ElementOfSeq DEF TypeInv, ScatteredTypes
    <2> QED BY <2>1 DEF Outcomes
  <1>2. pc \in [Getters -> {"idle", "get", "transmit", "getLeft", "getRight", "pullRight",
                           "pullLeft", "check", "scatter"}]
    BY DEF TypeInv, PlaceTypes, DelayPlaces, DualPlaces, PullPlaces
  <1> QED BY <1>1, <1>2 DEF TypeInv, TypeOK, RxPorts, SourceTypes, PortTypes, TimeoutTypes, OutboxTypes, ScatteredTypes

LEMMA EdgeTypes ==
    ASSUME NEW wp \in WavePacket
    PROVE  /\ LeadingEdge(wp) \in Nat /\ TrailingEdge(wp) \in Nat
           /\ LeadingEdge(wp) <= wp.time /\ wp.time <= TrailingEdge(wp)
  BY DEF WavePacket, LeadingEdge, TrailingEdge

LEMMA DelayedIs ==
    ASSUME setup.delay \in Nat, NEW wp \in WavePacket
    PROVE  /\ DelayedPacket(wp) \in WavePacket
           /\ DelayedPacket(wp).pair = wp.pair /\ DelayedPacket(wp).sigma = wp.sigma
           /\ DelayedPacket(wp).time = wp.time + setup.delay
           /\ DelayedPacket(wp).since = wp.since + setup.delay
PROOF
  <1>1. DelayedPacket(wp) = [wp EXCEPT !.time = wp.time + setup.delay, !.since = wp.since + setup.delay]
    BY DEF DelayedPacket
  <1>2. wp.time + setup.delay \in Nat /\ wp.since + setup.delay \in Nat
    BY DEF WavePacket
  <1> QED BY <1>1, <1>2 DEF WavePacket

\* A sequence cut in two.
LEMMA CutSequence ==
    ASSUME NEW S, NEW s \in Seq(S), NEW k \in 0 .. Len(s)
    PROVE  /\ SubSeq(s, 1, k) \in Seq(S) /\ Len(SubSeq(s, 1, k)) = k
           /\ \A i \in 1 .. k : SubSeq(s, 1, k)[i] = s[i]
           /\ SubSeq(s, k + 1, Len(s)) \in Seq(S) /\ Len(SubSeq(s, k + 1, Len(s))) = Len(s) - k
           /\ \A i \in 1 .. Len(s) - k : SubSeq(s, k + 1, Len(s))[i] = s[k + i]
PROOF
  <1>1. \A i \in 1 .. k : s[i] \in S
    BY ElementOfSeq
  <1>2. \A i \in k + 1 .. Len(s) : s[i] \in S
    BY ElementOfSeq
  <1>3. /\ SubSeq(s, 1, k) \in Seq(S)
        /\ Len(SubSeq(s, 1, k)) = IF 1 <= k THEN k - 1 + 1 ELSE 0
        /\ \A i \in 1 .. k - 1 + 1 : SubSeq(s, 1, k)[i] = s[1 + i - 1]
    BY <1>1, SubSeqProperties
  <1>4. /\ SubSeq(s, k + 1, Len(s)) \in Seq(S)
        /\ Len(SubSeq(s, k + 1, Len(s))) = IF k + 1 <= Len(s) THEN Len(s) - (k + 1) + 1 ELSE 0
        /\ \A i \in 1 .. Len(s) - (k + 1) + 1 : SubSeq(s, k + 1, Len(s))[i] = s[k + 1 + i - 1]
    BY <1>2, SubSeqProperties
  <1> QED BY <1>3, <1>4

LEMMA AdvancedIs ==
    ASSUME NEW p \in RxPorts, NEW k \in 0 .. Len(p.period)
    PROVE  LET rest == SubSeq(p.period, k + 1, Len(p.period))
           IN  /\ Advanced(p, k) \in RxPorts
               /\ Advanced(p, k).period = rest
               /\ Advanced(p, k).start = p.start /\ Advanced(p, k).end = p.end
               /\ Len(rest) = Len(p.period) - k
               /\ k = Len(p.period) => rest = <<>> /\ Advanced(p, k).current = p.end
               /\ k < Len(p.period) => Advanced(p, k).current = LeadingEdge(p.period[k + 1])
PROOF
  <1> DEFINE rest == SubSeq(p.period, k + 1, Len(p.period))
  <1>1. p.period \in Seq(WavePacket) /\ p.start \in Nat /\ p.end \in Nat /\ p.current \in Nat
    BY DEF RxPorts
  <1>2. /\ rest \in Seq(WavePacket) /\ Len(rest) = Len(p.period) - k
        /\ \A i \in 1 .. Len(p.period) - k : rest[i] = p.period[k + i]
    BY <1>1, CutSequence
  <1> DEFINE now == IF rest = <<>> THEN p.end ELSE LeadingEdge(Head(rest))
  <1>3. Advanced(p, k) = [p EXCEPT !.period = rest, !.current = now]
    BY DEF Advanced
  <1> HIDE DEF rest
  <1>4. rest # <<>> => k < Len(p.period) /\ Head(rest) = p.period[k + 1]
    BY <1>1, <1>2
  <1>5. now \in Nat
    <2>1. rest # <<>> => Head(rest) \in WavePacket
      BY <1>2, HeadTailProperties
    <2> QED BY <1>1, <2>1, EdgeTypes
  <1>6. k = Len(p.period) <=> rest = <<>>
    BY <1>1, <1>2
  <1> HIDE DEF now
  <1>7. Advanced(p, k) = [period |-> rest, start |-> p.start, end |-> p.end, current |-> now]
    BY <1>3 DEF RxPorts
  <1>8. Advanced(p, k) \in RxPorts
    BY <1>1, <1>2, <1>5, <1>7 DEF RxPorts
  <1>9. /\ Advanced(p, k).period = rest /\ Advanced(p, k).start = p.start
        /\ Advanced(p, k).end = p.end /\ Advanced(p, k).current = now
    BY <1>7
  <1>10. k < Len(p.period) => k # Len(p.period)
    BY <1>1
  <1> QED BY <1>2, <1>4, <1>6, <1>8, <1>9, <1>10 DEF rest, now

LEMMA ReceivedPort ==
    ASSUME TypeInv, NEW r \in Inputs, channel[r] # <<>>
    PROVE  /\ Recv(r) \in RxPorts
           /\ Recv(r).period = Head(channel[r]).wps /\ Recv(r).start = Head(channel[r]).start
           /\ Recv(r).end = Head(channel[r]).end /\ Recv(r).current = port[r].current
           /\ Head(channel[r]) \in Batch /\ Head(channel[r]) = channel[r][1]
           /\ Tail(channel[r]) \in Seq(Batch) /\ Len(Tail(channel[r])) = Len(channel[r]) - 1
           /\ \A i \in 1 .. Len(channel[r]) - 1 : Tail(channel[r])[i] = channel[r][i + 1]
PROOF
  <1>1. channel[r] \in Seq(Batch) /\ port[r] \in RxPorts
    BY DEF TypeInv, PortTypes
  <1>2. /\ Head(channel[r]) \in Batch /\ Head(channel[r]) = channel[r][1]
        /\ Tail(channel[r]) \in Seq(Batch) /\ Len(Tail(channel[r])) = Len(channel[r]) - 1
        /\ \A i \in 1 .. Len(channel[r]) - 1 : Tail(channel[r])[i] = channel[r][i + 1]
    BY <1>1, HeadTailProperties
  <1>3. /\ Recv(r) \in RxPorts
        /\ Recv(r).period = Head(channel[r]).wps /\ Recv(r).start = Head(channel[r]).start
        /\ Recv(r).end = Head(channel[r]).end /\ Recv(r).current = port[r].current
    <2>1. /\ Head(channel[r]).wps \in Seq(WavePacket)
          /\ Head(channel[r]).start \in Nat /\ Head(channel[r]).end \in Nat
      BY <1>2 DEF Batch
    <2> DEFINE a == Head(channel[r]).wps
               b == Head(channel[r]).start
               c == Head(channel[r]).end
               q == [port[r] EXCEPT !.period = a, !.start = b, !.end = c]
    <2>3. Recv(r) = q
      BY DEF Recv
    <2>4. a \in Seq(WavePacket) /\ b \in Nat /\ c \in Nat
      BY <2>1
    <2> HIDE DEF a, b, c
    <2>5. q \in RxPorts /\ q.period = a /\ q.start = b /\ q.end = c /\ q.current = port[r].current
      <3>1. PICK p \in RxPorts : p = port[r]
        BY <1>1
      <3>2. q = [p EXCEPT !.period = a, !.start = b, !.end = c]
        BY <3>1
      <3> HIDE DEF q
      <3>3. q \in RxPorts
        BY <2>4, <3>2 DEF RxPorts
      <3>4. q.period = a /\ q.start = b /\ q.end = c /\ q.current = p.current
        BY <2>4, <3>2 DEF RxPorts
      <3> QED BY <3>1, <3>3, <3>4
    <2> HIDE DEF q
    <2> QED BY <2>3, <2>5 DEF a, b, c
  <1> QED BY <1>2, <1>3

LEMMA TakableIs ==
    ASSUME TypeInv, NEW t \in Getters, NEW r \in Inputs, Len(batch[r].wps) <= MaxSize
    PROVE  /\ Takable(t, r) \in 0 .. Len(port[r].period)
           /\ Len(batch[r].wps) + Takable(t, r) <= MaxSize
PROOF
  <1> DEFINE S == {k \in 0 .. Len(port[r].period) :
                     /\ Len(batch[r].wps) + k <= MaxSize
                     /\ \A i \in 1 .. k : LeadingEdge(port[r].period[i]) <= timeout[t]}
  <1>1. port[r].period \in Seq(WavePacket) /\ batch[r].wps \in Seq(WavePacket)
    BY DEF TypeInv, PortTypes, RxPorts, Batch
  <1>2. Len(port[r].period) \in Nat /\ Len(batch[r].wps) \in Nat /\ MaxSize \in Nat
    BY <1>1, PortsAssumption
  <1>3. S \in SUBSET (0 .. Len(port[r].period)) /\ 0 \in S
    BY <1>2
  <1>4. Takable(t, r) = Max(S)
    BY DEF Takable
  <1>5. \A k \in S : k \in 0 .. Len(port[r].period) /\ Len(batch[r].wps) + k <= MaxSize
    OBVIOUS
  <1> HIDE DEF S
  <1>6. Max(S) \in S
    BY <1>2, <1>3, LongestPrefix
  <1> QED BY <1>4, <1>5, <1>6

\* What a node takes from a port.
LEMMA GetBatchTypes ==
    ASSUME TypeInv, NEW t \in Getters, NEW r \in Inputs, NEW next, Len(batch[r].wps) <= MaxSize,
           GetBatch(t, r, next)
    PROVE  /\ channel' \in [Inputs -> Seq(Batch)] /\ \A q \in Inputs : Len(channel'[q]) <= ChannelSize
           /\ port' \in [Inputs -> RxPorts] /\ batch' \in [Inputs -> Batch]
           /\ \A q \in Inputs \ {r} : batch'[q] = batch[q] /\ port'[q] = port[q] /\ channel'[q] = channel[q]
           /\ Len(batch'[r].wps) <= MaxSize
           /\ pc' = [pc EXCEPT ![t] = next] \/ pc' = pc
PROOF
  <1> DEFINE k   == Takable(t, r)
             got == SubSeq(port[r].period, 1, k)
             now == Advanced(port[r], k)
             b   == batch[r].wps \o got
  <1>1. /\ channel \in [Inputs -> Seq(Batch)] /\ \A q \in Inputs : Len(channel[q]) <= ChannelSize
        /\ port \in [Inputs -> RxPorts] /\ batch \in [Inputs -> Batch]
    BY DEF TypeInv, PortTypes
  <1>2. k \in 0 .. Len(port[r].period) /\ Len(batch[r].wps) + k <= MaxSize
    BY TakableIs
  <1>3. /\ port[r].period \in Seq(WavePacket) /\ batch[r] \in Batch
        /\ batch[r].wps \in Seq(WavePacket) /\ port[r] \in RxPorts
    BY <1>1 DEF RxPorts, Batch
  <1> HIDE DEF k
  <1>4. got \in Seq(WavePacket) /\ Len(got) = k
    BY <1>2, <1>3, CutSequence
  <1> HIDE DEF got
  <1>5. b \in Seq(WavePacket) /\ Len(b) <= MaxSize
    BY <1>2, <1>3, <1>4, ConcatProperties
  <1>6. now \in RxPorts /\ now.current \in Nat
    <2>1. now \in RxPorts
      BY <1>2, <1>3, AdvancedIs
    <2> QED BY <2>1 DEF RxPorts
  <1> HIDE DEF b, now
  <1>7. CASE /\ port' = [port EXCEPT ![r] = now]
             /\ batch' = [batch EXCEPT ![r].wps = b, ![r].end = now.current]
             /\ pc' = [pc EXCEPT ![t] = next] /\ UNCHANGED channel
    <2>1. batch' \in [Inputs -> Batch] /\ batch'[r].wps = b /\ \A q \in Inputs \ {r} : batch'[q] = batch[q]
      BY <1>1, <1>3, <1>5, <1>6, <1>7 DEF Batch
    <2>2. port' \in [Inputs -> RxPorts] /\ \A q \in Inputs \ {r} : port'[q] = port[q]
      BY <1>1, <1>6, <1>7
    <2> QED BY <1>1, <1>5, <1>7, <2>1, <2>2
  <1>8. CASE Receive(r) /\ batch' = [batch EXCEPT ![r].wps = b] /\ UNCHANGED pc
    <2>1. batch' \in [Inputs -> Batch] /\ batch'[r].wps = b /\ \A q \in Inputs \ {r} : batch'[q] = batch[q]
      BY <1>1, <1>3, <1>5, <1>8 DEF Batch
    <2>2. /\ Recv(r) \in RxPorts /\ Tail(channel[r]) \in Seq(Batch)
          /\ Len(Tail(channel[r])) = Len(channel[r]) - 1
      BY <1>8, ReceivedPort DEF Receive
    <2>3. port' \in [Inputs -> RxPorts] /\ \A q \in Inputs \ {r} : port'[q] = port[q]
      BY <1>1, <1>8, <2>2 DEF Receive
    <2>4. channel' \in [Inputs -> Seq(Batch)] /\ \A q \in Inputs \ {r} : channel'[q] = channel[q]
      BY <1>1, <1>8, <2>2 DEF Receive
    <2>5. Len(channel[r]) \in Nat /\ ChannelSize \in Nat
      BY <1>1, PortsAssumption
    <2>6. channel'[r] = Tail(channel[r])
      BY <1>1, <1>8 DEF Receive
    <2>7. \A q \in Inputs : Len(channel'[q]) <= ChannelSize
      <3>1. Len(channel'[r]) <= ChannelSize
        BY <1>1, <2>2, <2>5, <2>6
      <3>2. \A q \in Inputs \ {r} : Len(channel'[q]) <= ChannelSize
        BY <1>1, <2>4
      <3> QED BY <3>1, <3>2
    <2> QED BY <1>5, <1>8, <2>1, <2>3, <2>4, <2>7
  <1> QED BY <1>7, <1>8 DEF GetBatch, k, got, now, b

LEMMA LateIndexType ==
    ASSUME NEW wps \in [Sides -> Seq(WavePacket)], NEW v \in Visits(wps)
    PROVE  /\ v[1] \in Sides /\ Other(v[1]) \in Sides /\ v[2] \in 1 .. Len(wps[v[1]]) /\ v = <<v[1], v[2]>>
           /\ LateIndex(wps, v) \in Nat
           /\ PartnersOf(wps, v) \subseteq 1 .. Len(wps[Other(v[1])])
PROOF
  <1>1. v[1] \in Sides /\ v[2] \in 1 .. Len(wps[v[1]]) /\ v = <<v[1], v[2]>>
    BY DEF Visits
  <1>2. Other(v[1]) \in Sides
    BY <1>1 DEF Other, Sides
  <1>3. Len(wps[Other(v[1])]) \in Nat
    BY <1>2
  <1>4. IsFiniteSet(1 .. Len(wps[Other(v[1])]))
    BY <1>3, FS_Interval
  <1>5. LateIndex(wps, v) \in Nat
    BY <1>4, FS_Subset, FS_CardinalityType DEF LateIndex
  <1>6. PartnersOf(wps, v) \subseteq 1 .. Len(wps[Other(v[1])])
    BY <1>3, <1>5 DEF PartnersOf
  <1> QED BY <1>1, <1>2, <1>5, <1>6

LEMMA OperatorTypes ==
    ASSUME NEW wps \in [Sides -> Seq(WavePacket)]
    PROVE  /\ DualOperators(wps) \in Operators
           /\ DualOperators(wps).lone \subseteq Visits(wps)
           /\ \A e \in DualOperators(wps).pairs : {e[1], e[2]} \subseteq Visits(wps)
PROOF
  <1> DEFINE partners == [v \in Visits(wps) |-> PartnersOf(wps, v)]
             pairs == UNION {{<<v, <<Other(v[1]), j>>>> : j \in partners[v]} : v \in Visits(wps)}
             lone  == {v \in Visits(wps) : partners[v] = {} /\ Watermark(wps, partners, v) < v[2]}
  <1>1. DualOperators(wps) = [pairs |-> pairs, lone |-> lone]
    BY DEF DualOperators
  <1>2. \A v \in Visits(wps) : partners[v] = PartnersOf(wps, v)
    OBVIOUS
  <1> HIDE DEF partners
  <1>3. ASSUME NEW v \in Visits(wps), NEW j \in partners[v]
        PROVE  <<Other(v[1]), j>> \in Visits(wps)
    <2>1. Other(v[1]) \in Sides /\ j \in 1 .. Len(wps[Other(v[1])])
      BY <1>2, <1>3, LateIndexType
    <2> QED BY <2>1 DEF Visits
  <1>4. Visits(wps) \subseteq Sides \X Nat
    BY DEF Visits
  <1>5. \A e \in pairs : e = <<e[1], e[2]>> /\ e[1] \in Visits(wps) /\ e[2] \in Visits(wps)
    BY <1>3
  <1>6. lone \subseteq Visits(wps)
    OBVIOUS
  <1> HIDE DEF pairs, lone
  <1>7. pairs \subseteq (Sides \X Nat) \X (Sides \X Nat)
    BY <1>4, <1>5
  <1>8. lone \subseteq Sides \X Nat
    BY <1>4, <1>6
  <1> QED BY <1>1, <1>5, <1>6, <1>7, <1>8 DEF Operators

LEMMA InitTypes == Init => TypeInv
PROOF
  <1> SUFFICES ASSUME Init PROVE TypeInv
    OBVIOUS
  <1>1. <<>> \in Seq(WavePacket) /\ <<>> \in Seq(Batch) /\ Len(<<>>) = 0 /\ <<>> \in Seq(Outcomes)
    BY EmptySeq
  <1>2. ChannelSize \in Nat /\ MaxSize \in Nat /\ setup \in Experiments /\ setup.batches \in Nat
    BY PortsAssumption DEF Init
  <1>3. /\ channel \in [Inputs -> Seq(Batch)] /\ \A r \in Inputs : Len(channel[r]) <= ChannelSize
        /\ port \in [Inputs -> RxPorts] /\ batch \in [Inputs -> Batch]
    BY <1>1, <1>2 DEF Init, RxPorts, Batch, WpBatch
  <1>4. /\ outbox \in [Senders -> Seq([to : Inputs, batch : Batch])]
        /\ Len(outbox["epps"]) <= 2 /\ Len(outbox["delay"]) <= 1
    BY <1>1 DEF Init, Senders
  <1>5. /\ pc \in [Getters -> DelayPlaces \cup DualPlaces]
        /\ pc["delay"] = "idle" /\ pc["dual"] = "idle"
        /\ timeout \in [Getters -> Nat]
    BY DEF Init, DelayPlaces, DualPlaces, Getters
  <1> QED BY <1>1, <1>2, <1>3, <1>4, <1>5
          DEF Init, TypeInv, BatchFits, DelayPlaces, DualPlaces, SourceTypes, PortTypes,
              TimeoutTypes, OutboxTypes, PlaceTypes, ScatteredTypes

LEMMA SendTypes ==
    ASSUME TypeInv, NEW t \in Senders, Send(t)
    PROVE  TypeInv'
PROOF
  <1> DEFINE x == Head(outbox[t])
  <1>1. /\ outbox \in [Senders -> Seq([to : Inputs, batch : Batch])]
        /\ Len(outbox["epps"]) <= 2 /\ Len(outbox["delay"]) <= 1
        /\ channel \in [Inputs -> Seq(Batch)] /\ \A r \in Inputs : Len(channel[r]) <= ChannelSize
    BY DEF TypeInv, OutboxTypes, PortTypes
  <1>2. /\ x \in [to : Inputs, batch : Batch] /\ Tail(outbox[t]) \in Seq([to : Inputs, batch : Batch])
        /\ Len(Tail(outbox[t])) = Len(outbox[t]) - 1
    BY <1>1, HeadTailProperties DEF Send
  <1>3. x.to \in Inputs /\ x.batch \in Batch
    BY <1>2
  <1> HIDE DEF x
  <1>4. /\ channel' = [channel EXCEPT ![x.to] = Append(@, x.batch)]
        /\ outbox' = [outbox EXCEPT ![t] = Tail(@)] /\ Len(channel[x.to]) < ChannelSize
    BY DEF Send, HasRoom, x
  <1>5. Append(channel[x.to], x.batch) \in Seq(Batch) /\ Len(Append(channel[x.to], x.batch)) = Len(channel[x.to]) + 1
    BY <1>1, <1>3, AppendProperties
  <1>6. Len(channel[x.to]) \in Nat /\ ChannelSize \in Nat
    BY <1>1, <1>3, PortsAssumption
  <1>7. channel' \in [Inputs -> Seq(Batch)] /\ \A r \in Inputs : Len(channel'[r]) <= ChannelSize
    BY <1>1, <1>3, <1>4, <1>5, <1>6
  <1>8. /\ outbox' \in [Senders -> Seq([to : Inputs, batch : Batch])]
        /\ \A u \in Senders : Len(outbox'[u]) <= Len(outbox[u])
    <2>1. outbox' \in [Senders -> Seq([to : Inputs, batch : Batch])]
      BY <1>1, <1>2, <1>4
    <2>2. Len(outbox[t]) \in Nat
      BY <1>1
    <2>3. Len(outbox'[t]) <= Len(outbox[t])
      BY <1>1, <1>2, <1>4, <2>2
    <2>4. \A u \in Senders \ {t} : outbox'[u] = outbox[u]
      BY <1>1, <1>4
    <2>5. \A u \in Senders \ {t} : Len(outbox[u]) \in Nat
      BY <1>1
    <2>6. \A u \in Senders \ {t} : Len(outbox'[u]) <= Len(outbox[u])
      BY <2>4, <2>5
    <2> QED BY <2>1, <2>3, <2>6
  <1>9. Len(outbox'["epps"]) <= 2 /\ Len(outbox'["delay"]) <= 1
    <2>1. \A u \in Senders : Len(outbox[u]) \in Nat /\ Len(outbox'[u]) \in Nat
      BY <1>1, <1>8
    <2>2. "epps" \in Senders /\ "delay" \in Senders
      BY DEF Senders
    <2> QED BY <1>1, <1>8, <2>1, <2>2
  <1>10. SourceTypes' /\ TimeoutTypes' /\ PlaceTypes' /\ ScatteredTypes' /\ BatchFits'
    BY DEF TypeInv, SourceTypes, TimeoutTypes, PlaceTypes, ScatteredTypes, BatchFits, Send
  <1>11. PortTypes'
    BY <1>7 DEF TypeInv, PortTypes, Send
  <1> QED BY <1>8, <1>9, <1>10, <1>11 DEF TypeInv, OutboxTypes

\* What the source makes and sends to both its receivers.
Makes(period) ==
    /\ period \in Batch /\ period.start = time /\ period.end = time' /\ period.wps # <<>>
    /\ time' \in Nat /\ time <= time' /\ generated' = generated + Len(period.wps)
    /\ \A i \in 1 .. Len(period.wps) :
          LET wp == period.wps[i]
          IN  /\ wp.pair = generated + i /\ wp.sigma = SigmaOf(generated + i) /\ wp.since = time
              /\ time <= wp.time /\ wp.time <= time'
              /\ \A j \in i .. Len(period.wps) : wp.time <= period.wps[j].time
    /\ outbox' = [outbox EXCEPT !["epps"] = <<[to |-> "left", batch |-> period], [to |-> "delay", batch |-> period]>>]

LEMMA GenerateIs ==
    ASSUME TypeInv, Widths, Generate
    PROVE  \E period : Makes(period)
PROOF
  <1>1. PICK gaps \in BoundedSeq(setup.bins, MaxSize) :
          LET pulses == Pulses(gaps)
              wps    == [i \in 1 .. Len(gaps) |-> EmittedPacket(generated + i, pulses[i])]
              period == WpBatch(time, pulses[Len(gaps)], wps)
          IN  /\ FillsBatch(pulses)
              /\ time' = period.end
              /\ generated' = generated + Len(gaps)
              /\ outbox' = [outbox EXCEPT !["epps"] = <<[to |-> "left", batch |-> period],
                                                        [to |-> "delay", batch |-> period]>>]
    BY DEF Generate
  <1> DEFINE pulses == Pulses(gaps)
             n      == Len(gaps)
             wps    == [i \in 1 .. n |-> EmittedPacket(generated + i, pulses[i])]
             period == WpBatch(time, pulses[n], wps)
  <1>2. /\ setup \in Experiments /\ setup.bins \subseteq Nat
        /\ time \in Nat /\ generated \in Nat /\ PumpPeriod \in Nat /\ MaxSize \in Nat
    BY PortsAssumption DEF TypeInv, SourceTypes
  <1>3. gaps \in Seq(Nat)
    <2>1. PICK m \in 0 .. MaxSize : gaps \in [1 .. m -> setup.bins]
      BY DEF BoundedSeq, SeqOf
    <2>2. m \in Nat /\ gaps \in [1 .. m -> Nat]
      BY <1>2, <2>1
    <2> QED BY <2>2 DEF Seq
  <1>4. /\ n \in Nat /\ pulses \in [1 .. n -> Nat] /\ pulses # <<>>
        /\ \A i \in 1 .. n : time <= pulses[i]
        /\ \A i, j \in 1 .. n : i <= j => pulses[i] <= pulses[j]
    BY <1>1, <1>2, <1>3, PulsesAre DEF FillsBatch
  <1>5. n # 0
    <2> SUFFICES ASSUME n = 0 PROVE FALSE
      OBVIOUS
    <2>1. pulses \in [1 .. 0 -> Nat]
      BY <1>4
    <2>2. pulses \in Seq(Nat) /\ Len(pulses) = 0
      BY <2>1
    <2> QED BY <1>4, <2>2
  <1> HIDE DEF pulses, n
  <1>6. /\ wps \in Seq(WavePacket) /\ Len(wps) = n
        /\ \A i \in 1 .. n : wps[i] = EmittedPacket(generated + i, pulses[i])
    <2>1. \A i \in 1 .. n : EmittedPacket(generated + i, pulses[i]) \in WavePacket
      <3> SUFFICES ASSUME NEW i \in 1 .. n PROVE EmittedPacket(generated + i, pulses[i]) \in WavePacket
        OBVIOUS
      <3>1. generated + i \in Nat /\ pulses[i] \in Nat
        BY <1>2, <1>4
      <3>2. SigmaOf(generated + i) \in Nat
        BY <3>1 DEF Widths
      <3> QED BY <1>2, <3>1, <3>2 DEF EmittedPacket, WavePacket
    <2>2. wps \in [1 .. n -> WavePacket]
      BY <2>1
    <2>3. wps \in Seq(WavePacket) /\ Len(wps) = n
      BY <1>4, <2>2 DEF Seq
    <2> QED BY <2>3
  <1>7. pulses[n] \in Nat /\ time <= pulses[n] /\ \A i \in 1 .. n : pulses[i] <= pulses[n]
    <2>1. n \in 1 .. n /\ \A i \in 1 .. n : i <= n
      BY <1>4, <1>5
    <2> QED BY <1>4, <2>1
  <1> HIDE DEF wps
  <1>8. period \in Batch /\ period.start = time /\ period.end = pulses[n] /\ period.wps = wps /\ wps # <<>>
    BY <1>2, <1>4, <1>5, <1>6, <1>7, EmptySeq DEF WpBatch, Batch
  <1> HIDE DEF period
  <1>9. /\ time' = period.end /\ generated' = generated + n
        /\ outbox' = [outbox EXCEPT !["epps"] = <<[to |-> "left", batch |-> period], [to |-> "delay", batch |-> period]>>]
    BY <1>1 DEF period, wps, n, pulses
  <1>10. ASSUME NEW i \in 1 .. n
         PROVE  /\ wps[i].pair = generated + i /\ wps[i].sigma = SigmaOf(generated + i) /\ wps[i].since = time
                /\ time <= wps[i].time /\ wps[i].time <= pulses[n]
                /\ \A j \in i .. n : wps[i].time <= wps[j].time
    <2>1. \A j \in 1 .. n : wps[j].time = pulses[j]
      BY <1>6 DEF EmittedPacket
    <2>2. wps[i].pair = generated + i /\ wps[i].sigma = SigmaOf(generated + i) /\ wps[i].since = time
      BY <1>6 DEF EmittedPacket
    <2>3. \A j \in i .. n : j \in 1 .. n /\ i <= j
      BY <1>4
    <2> QED BY <1>4, <1>7, <2>1, <2>2, <2>3
  <1>11. Makes(period)
    BY <1>6, <1>7, <1>8, <1>9, <1>10 DEF Makes
  <1> QED BY <1>11

LEMMA GenerateTypes ==
    ASSUME TypeInv, Widths, Generate
    PROVE  TypeInv'
PROOF
  <1>1. PICK period : Makes(period)
    BY GenerateIs
  <1> DEFINE sends == <<[to |-> "left", batch |-> period], [to |-> "delay", batch |-> period]>>
  <1>2. /\ period \in Batch /\ time' \in Nat /\ generated' = generated + Len(period.wps)
        /\ outbox' = [outbox EXCEPT !["epps"] = sends]
    BY <1>1 DEF Makes
  <1>3. sends \in Seq([to : Inputs, batch : Batch]) /\ Len(sends) = 2
    BY <1>2 DEF Inputs
  <1> HIDE DEF sends
  <1>4. /\ outbox' \in [Senders -> Seq([to : Inputs, batch : Batch])]
        /\ Len(outbox'["epps"]) <= 2 /\ Len(outbox'["delay"]) <= 1
    <2>1. /\ outbox \in [Senders -> Seq([to : Inputs, batch : Batch])]
          /\ Len(outbox["delay"]) <= 1
      BY DEF TypeInv, OutboxTypes
    <2>2. "epps" \in Senders /\ "delay" \in Senders
      BY DEF Senders
    <2>3. outbox'["epps"] = sends /\ outbox'["delay"] = outbox["delay"]
      BY <1>2, <2>1, <2>2
    <2>4. outbox' \in [Senders -> Seq([to : Inputs, batch : Batch])]
      BY <1>2, <1>3, <2>1
    <2>5. Len(outbox'["epps"]) = 2
      BY <1>3, <2>3
    <2>6. Len(outbox'["delay"]) <= 1
      BY <2>1, <2>3
    <2>7. \A n \in Nat : n = 2 => n <= 2
      OBVIOUS
    <2> QED BY <2>4, <2>5, <2>6, <2>7
  <1>5. setup' \in Experiments /\ generated' \in Nat /\ batches' \in 0 .. setup'.batches
    <2>1. setup \in Experiments /\ setup.batches \in Nat /\ generated \in Nat /\ batches \in 0 .. setup.batches
      BY PortsAssumption DEF TypeInv, SourceTypes
    <2>2. Len(period.wps) \in Nat
      BY <1>2 DEF Batch
    <2>3. generated' \in Nat
      BY <1>2, <2>1, <2>2
    <2> QED BY <2>1, <2>3 DEF Generate
  <1>6. PortTypes' /\ TimeoutTypes' /\ PlaceTypes' /\ ScatteredTypes' /\ BatchFits'
    BY DEF TypeInv, PortTypes, TimeoutTypes, PlaceTypes, ScatteredTypes, BatchFits, Generate
  <1> QED BY <1>2, <1>4, <1>5, <1>6 DEF TypeInv, OutboxTypes, SourceTypes

LEMMA StartDelayTypes == ASSUME TypeInv, StartDelay PROVE TypeInv'
PROOF
  <1>1. /\ batch \in [Inputs -> Batch] /\ port["delay"] \in RxPorts /\ port["delay"].current \in Nat
        /\ timeout \in [Getters -> Nat] /\ pc \in [Getters -> DelayPlaces \cup DualPlaces]
        /\ MaxSize \in Nat /\ BatchPeriod \in Nat
    BY PortsAssumption DEF TypeInv, PortTypes, TimeoutTypes, PlaceTypes, RxPorts, Inputs
  <1>2. NewBatch("delay") \in Batch /\ Len(NewBatch("delay").wps) = 0
    BY <1>1, EmptySeq DEF NewBatch, WpBatch, Batch
  <1>3. batch' \in [Inputs -> Batch] /\ Len(batch'["delay"].wps) = 0 /\ \A r \in Sides : batch'[r] = batch[r]
    BY <1>1, <1>2 DEF StartDelay, Inputs, Sides
  <1>4. timeout' \in [Getters -> Nat]
    <2>1. port["delay"].current + BatchPeriod \in Nat
      BY <1>1
    <2> QED BY <1>1, <2>1 DEF StartDelay
  <1>5. pc' \in [Getters -> DelayPlaces \cup DualPlaces] /\ pc'["delay"] = "get" /\ pc'["dual"] = pc["dual"]
    BY <1>1 DEF StartDelay, Getters, DelayPlaces
  <1>6. PlaceTypes'
    BY <1>5 DEF TypeInv, PlaceTypes, DelayPlaces
  <1>7. BatchFits'
    BY <1>1, <1>3, <1>5 DEF TypeInv, BatchFits, Sides
  <1>8. SourceTypes' /\ OutboxTypes' /\ ScatteredTypes'
    BY DEF TypeInv, SourceTypes, OutboxTypes, ScatteredTypes, StartDelay
  <1>9. PortTypes' /\ TimeoutTypes'
    BY <1>3, <1>4 DEF TypeInv, PortTypes, TimeoutTypes, StartDelay
  <1> QED BY <1>6, <1>7, <1>8, <1>9 DEF TypeInv

LEMMA TransmitTypes == ASSUME TypeInv, Transmit PROVE TypeInv'
PROOF
  <1> DEFINE b   == batch["delay"]
             wps == [i \in 1 .. Len(b.wps) |-> DelayedPacket(b.wps[i])]
             out == WpBatch(b.start + setup.delay, b.end + setup.delay, wps)
  <1>1. batch \in [Inputs -> Batch] /\ b \in Batch /\ setup.delay \in Nat
    BY PortsAssumption DEF TypeInv, SourceTypes, PortTypes, Inputs
  <1>2. b.wps \in Seq(WavePacket) /\ b.start \in Nat /\ b.end \in Nat /\ Len(b.wps) \in Nat
    BY <1>1 DEF Batch
  <1>3. \A i \in 1 .. Len(b.wps) : DelayedPacket(b.wps[i]) \in WavePacket
    BY <1>1, <1>2, DelayedIs, ElementOfSeq
  <1>4. wps \in Seq(WavePacket)
    BY <1>2, <1>3 DEF Seq
  <1> HIDE DEF wps
  <1>5. out \in Batch
    BY <1>1, <1>2, <1>4 DEF WpBatch, Batch
  <1>6. WpBatch(0, 0, <<>>) \in Batch
    BY EmptySeq DEF WpBatch, Batch
  <1>7. outbox' = [outbox EXCEPT !["delay"] = <<[to |-> "right", batch |-> out]>>]
    BY DEF Transmit, wps
  <1> HIDE DEF out
  <1>8. OutboxTypes'
    <2>1. /\ outbox \in [Senders -> Seq([to : Inputs, batch : Batch])]
          /\ Len(outbox["epps"]) <= 2
      BY DEF TypeInv, OutboxTypes
    <2>2. [to |-> "right", batch |-> out] \in [to : Inputs, batch : Batch]
      BY <1>5 DEF Inputs
    <2> QED BY <1>7, <2>1, <2>2 DEF OutboxTypes, Senders
  <1>9. batch' \in [Inputs -> Batch] /\ \A r \in Sides : batch'[r] = batch[r]
    BY <1>1, <1>6 DEF Transmit, Inputs, Sides
  <1>10. pc'["delay"] = "idle" /\ pc'["dual"] = pc["dual"] /\ PlaceTypes'
    BY DEF Transmit, TypeInv, PlaceTypes, Getters, DelayPlaces
  <1>11. BatchFits'
    BY <1>9, <1>10 DEF TypeInv, BatchFits, Sides
  <1>12. SourceTypes' /\ TimeoutTypes' /\ ScatteredTypes'
    BY DEF TypeInv, SourceTypes, TimeoutTypes, ScatteredTypes, Transmit
  <1>13. PortTypes'
    BY <1>9 DEF TypeInv, PortTypes, Transmit
  <1> QED BY <1>8, <1>10, <1>11, <1>12, <1>13 DEF TypeInv

LEMMA GetDelayTypes == ASSUME TypeInv, GetDelay PROVE TypeInv'
PROOF
  <1>1. "delay" \in Getters /\ "delay" \in Inputs /\ "left" \in Inputs /\ "right" \in Inputs
    BY DEF Getters, Inputs
  <1>2. Len(batch["delay"].wps) <= MaxSize /\ GetBatch("delay", "delay", "transmit")
    BY DEF GetDelay, TypeInv, BatchFits
  <1>3. /\ channel' \in [Inputs -> Seq(Batch)] /\ \A q \in Inputs : Len(channel'[q]) <= ChannelSize
        /\ port' \in [Inputs -> RxPorts] /\ batch' \in [Inputs -> Batch]
        /\ \A q \in Inputs \ {"delay"} : batch'[q] = batch[q]
        /\ Len(batch'["delay"].wps) <= MaxSize
        /\ pc' = [pc EXCEPT !["delay"] = "transmit"] \/ pc' = pc
    BY <1>1, <1>2, GetBatchTypes
  <1>4. PlaceTypes' /\ pc'["dual"] = pc["dual"]
    <2>1. PlaceTypes
      BY DEF TypeInv
    <2>2. "dual" \in Getters /\ "transmit" \in DelayPlaces
      BY DEF Getters, DelayPlaces
    <2> QED BY <1>1, <1>3, <2>1, <2>2 DEF PlaceTypes
  <1>5. BatchFits'
    BY <1>1, <1>3, <1>4 DEF TypeInv, BatchFits
  <1>6. SourceTypes' /\ TimeoutTypes' /\ OutboxTypes' /\ ScatteredTypes'
    BY DEF TypeInv, SourceTypes, TimeoutTypes, OutboxTypes, ScatteredTypes, GetDelay
  <1> QED BY <1>3, <1>4, <1>5, <1>6 DEF TypeInv, PortTypes

\* The places of the beam splitter are those of one thread.
LEMMA DualPlaceTypes ==
    ASSUME TypeInv, NEW place \in DualPlaces, pc' = [pc EXCEPT !["dual"] = place] \/ pc' = pc
    PROVE  /\ PlaceTypes' /\ pc'["delay"] = pc["delay"]
           /\ pc'["dual"] = place \/ pc'["dual"] = pc["dual"]
PROOF
  <1>1. PlaceTypes
    BY DEF TypeInv
  <1>2. "dual" \in Getters /\ "delay" \in Getters
    BY DEF Getters
  <1> QED BY <1>1, <1>2 DEF PlaceTypes

LEMMA MinOfTwo ==
    ASSUME NEW a \in Nat, NEW b \in Nat
    PROVE  Min({a, b}) \in Nat /\ Min({a, b}) <= a /\ Min({a, b}) <= b
PROOF
  <1>1. IsFiniteSet({a} \cup {b})
    BY FS_Singleton, FS_AddElement
  <1>2. PICK S : S = {a, b}
    OBVIOUS
  <1>3. S = {a} \cup {b} /\ S \in SUBSET Int /\ S # {}
    BY <1>2
  <1>4. Min(S) \in S /\ \A x \in S : Min(S) <= x
    BY <1>1, <1>3, MinIsLeast
  <1> QED BY <1>2, <1>4

LEMMA StartDualTypes == ASSUME TypeInv, StartDual PROVE TypeInv'
PROOF
  <1>1. /\ batch \in [Inputs -> Batch] /\ port \in [Inputs -> RxPorts]
        /\ port["left"].current \in Nat /\ port["right"].current \in Nat
        /\ timeout \in [Getters -> Nat] /\ pc \in [Getters -> DelayPlaces \cup DualPlaces]
        /\ MaxSize \in Nat /\ BatchPeriod \in Nat
    BY PortsAssumption DEF TypeInv, PortTypes, TimeoutTypes, PlaceTypes, RxPorts, Inputs
  <1>2. \A r \in Sides : NewBatch(r) \in Batch /\ Len(NewBatch(r).wps) = 0
    BY <1>1, EmptySeq DEF NewBatch, WpBatch, Batch, Sides
  <1>3. /\ batch' \in [Inputs -> Batch] /\ batch'["delay"] = batch["delay"]
        /\ \A r \in Sides : Len(batch'[r].wps) = 0
    BY <1>1, <1>2 DEF StartDual, Inputs, Sides
  <1>4. timeout' \in [Getters -> Nat]
    <2> DEFINE m == Min({port["left"].current, port["right"].current})
    <2>1. m \in Nat
      BY <1>1, MinOfTwo
    <2>2. timeout' = [timeout EXCEPT !["dual"] = m + BatchPeriod]
      BY DEF StartDual
    <2> HIDE DEF m
    <2>3. m + BatchPeriod \in Nat
      BY <1>1, <2>1
    <2> QED BY <1>1, <2>2, <2>3
  <1>5. PlaceTypes' /\ pc'["dual"] = "getLeft" /\ pc'["delay"] = pc["delay"]
    <2>1. "getLeft" \in DualPlaces /\ pc' = [pc EXCEPT !["dual"] = "getLeft"] /\ "dual" \in Getters
      BY DEF StartDual, DualPlaces, Getters
    <2> QED BY <1>1, <2>1, DualPlaceTypes
  <1>6. BatchFits'
    BY <1>1, <1>3, <1>5 DEF TypeInv, BatchFits, Sides
  <1>7. SourceTypes' /\ OutboxTypes' /\ ScatteredTypes'
    BY DEF TypeInv, SourceTypes, OutboxTypes, ScatteredTypes, StartDual
  <1>8. PortTypes' /\ TimeoutTypes'
    BY <1>3, <1>4 DEF TypeInv, PortTypes, TimeoutTypes, StartDual
  <1> QED BY <1>5, <1>6, <1>7, <1>8 DEF TypeInv

LEMMA GetLeftTypes == ASSUME TypeInv, GetLeft PROVE TypeInv'
PROOF
  <1>1. "dual" \in Getters /\ "delay" \in Inputs /\ "left" \in Inputs /\ "right" \in Inputs
    BY DEF Getters, Inputs
  <1>2. Len(batch["left"].wps) <= MaxSize /\ Len(batch["right"].wps) <= MaxSize /\ GetBatch("dual", "left", "getRight")
    BY DEF GetLeft, TypeInv, BatchFits
  <1>3. /\ channel' \in [Inputs -> Seq(Batch)] /\ \A q \in Inputs : Len(channel'[q]) <= ChannelSize
        /\ port' \in [Inputs -> RxPorts] /\ batch' \in [Inputs -> Batch]
        /\ \A q \in Inputs \ {"left"} : batch'[q] = batch[q]
        /\ Len(batch'["left"].wps) <= MaxSize
        /\ pc' = [pc EXCEPT !["dual"] = "getRight"] \/ pc' = pc
    BY <1>1, <1>2, GetBatchTypes
  <1>4. PlaceTypes' /\ pc'["delay"] = pc["delay"]
    <2>1. "getRight" \in DualPlaces
      BY DEF DualPlaces
    <2> QED BY <1>3, <2>1, DualPlaceTypes
  <1>5. BatchFits'
    BY <1>1, <1>2, <1>3, <1>4 DEF TypeInv, BatchFits
  <1>6. SourceTypes' /\ TimeoutTypes' /\ OutboxTypes' /\ ScatteredTypes'
    BY DEF TypeInv, SourceTypes, TimeoutTypes, OutboxTypes, ScatteredTypes, GetLeft
  <1> QED BY <1>3, <1>4, <1>5, <1>6 DEF TypeInv, PortTypes

LEMMA GetRightTypes == ASSUME TypeInv, GetRight PROVE TypeInv'
PROOF
  <1>1. "dual" \in Getters /\ "delay" \in Inputs /\ "left" \in Inputs /\ "right" \in Inputs
    BY DEF Getters, Inputs
  <1>2. Len(batch["right"].wps) <= MaxSize /\ GetBatch("dual", "right", "pullRight")
    BY DEF GetRight, TypeInv, BatchFits
  <1>3. /\ channel' \in [Inputs -> Seq(Batch)] /\ \A q \in Inputs : Len(channel'[q]) <= ChannelSize
        /\ port' \in [Inputs -> RxPorts] /\ batch' \in [Inputs -> Batch]
        /\ \A q \in Inputs \ {"right"} : batch'[q] = batch[q]
        /\ Len(batch'["right"].wps) <= MaxSize
        /\ pc' = [pc EXCEPT !["dual"] = "pullRight"] \/ pc' = pc
    BY <1>1, <1>2, GetBatchTypes
  <1>4. PlaceTypes' /\ pc'["delay"] = pc["delay"] /\ (pc'["dual"] = "pullRight" \/ pc'["dual"] = pc["dual"])
    <2>1. "pullRight" \in DualPlaces
      BY DEF DualPlaces, PullPlaces
    <2> QED BY <1>3, <2>1, DualPlaceTypes
  <1>5. BatchFits'
    BY <1>1, <1>2, <1>3, <1>4 DEF TypeInv, BatchFits, GetRight
  <1>6. endTime' \in Nat
    <2>1. batch'["left"].end \in Nat /\ batch'["right"].end \in Nat
      BY <1>1, <1>3 DEF Batch
    <2> QED BY <2>1, MinOfTwo DEF GetRight, EarlierEnd
  <1>7. SourceTypes' /\ OutboxTypes' /\ ScatteredTypes'
    BY DEF TypeInv, SourceTypes, OutboxTypes, ScatteredTypes, GetRight
  <1>8. TimeoutTypes'
    BY <1>6 DEF TypeInv, TimeoutTypes, GetRight
  <1> QED BY <1>3, <1>4, <1>5, <1>7, <1>8 DEF TypeInv, PortTypes

\* What the beam splitter takes from a port that reaches the reference.
Reference(r) == BatchTrailingEdge(batch[Other(r)])
Reached(r)   == Max({j \in 0 .. Len(port[r].period) :
                        \A i \in 1 .. j : ~IsStrictlyAfter(port[r].period[i], Reference(r))})

LEMMA ReachedIs ==
    ASSUME TypeInv, NEW r \in Inputs
    PROVE  /\ Reached(r) \in 0 .. Len(port[r].period)
           /\ \A i \in 1 .. Reached(r) : ~IsStrictlyAfter(port[r].period[i], Reference(r))
           /\ Reached(r) < Len(port[r].period) =>
                 IsStrictlyAfter(port[r].period[Reached(r) + 1], Reference(r))
PROOF
  <1> DEFINE n == Len(port[r].period)
             S == {j \in 0 .. n : \A i \in 1 .. j : ~IsStrictlyAfter(port[r].period[i], Reference(r))}
             k == Reached(r)
  <1>1. n \in Nat
    BY DEF TypeInv, PortTypes, RxPorts
  <1>2. S \in SUBSET (0 .. n) /\ 0 \in S
    BY <1>1
  <1>3. k = Max(S)
    BY DEF Reached
  <1>4. \A j \in 0 .. n : j \in S <=> \A i \in 1 .. j : ~IsStrictlyAfter(port[r].period[i], Reference(r))
    OBVIOUS
  <1> HIDE DEF S, k
  <1>5. k \in S /\ k \in 0 .. n /\ \A j \in S : j <= k
    BY <1>1, <1>2, <1>3, LongestPrefix
  <1>6. \A i \in 1 .. k : ~IsStrictlyAfter(port[r].period[i], Reference(r))
    BY <1>4, <1>5
  <1>7. ASSUME k < n PROVE IsStrictlyAfter(port[r].period[k + 1], Reference(r))
    <2>1. k + 1 \in 0 .. n /\ ~ (k + 1 <= k)
      BY <1>1, <1>5, <1>7
    <2>2. k + 1 \notin S
      BY <1>5, <2>1
    <2>3. PICK i \in 1 .. k + 1 : IsStrictlyAfter(port[r].period[i], Reference(r))
      BY <1>4, <2>1, <2>2
    <2>4. i \notin 1 .. k
      BY <1>6, <2>3
    <2>5. i = k + 1
      BY <1>1, <1>5, <2>4
    <2> QED BY <2>3, <2>5
  <1> QED BY <1>5, <1>6, <1>7 DEF k

LEMMA BatchTrailingEdgeType ==
    ASSUME NEW b \in Batch
    PROVE  BatchTrailingEdge(b) \in Nat
PROOF
  <1>1. b.wps \in Seq(WavePacket) /\ b.end \in Nat
    BY DEF Batch
  <1>2. b.wps # <<>> => Last(b.wps) \in WavePacket
    <2>1. b.wps # <<>> => Len(b.wps) \in 1 .. Len(b.wps)
      BY <1>1, EmptySeq
    <2> QED BY <1>1, <2>1, ElementOfSeq DEF Last
  <1> QED BY <1>1, <1>2, EdgeTypes DEF BatchTrailingEdge

LEMMA PushedIs ==
    ASSUME NEW b \in Batch, NEW got \in Seq(WavePacket)
    PROVE  /\ Pushed(b, got) \in Batch
           /\ Pushed(b, got).wps = b.wps \o got
           /\ Pushed(b, got).start = b.start
           /\ got # <<>> => Pushed(b, got).end = LeadingEdge(Last(got))
           /\ got = <<>> => Pushed(b, got) = b
PROOF
  <1>1. b.wps \in Seq(WavePacket) /\ b.start \in Nat /\ b.end \in Nat
    BY DEF Batch
  <1>2. CASE got = <<>>
    <2>1. b.wps \o <<>> = b.wps
      BY <1>1
    <2> QED BY <1>2, <2>1 DEF Pushed
  <1>3. CASE got # <<>>
    <2> DEFINE e == LeadingEdge(Last(got))
               w == b.wps \o got
    <2>1. e \in Nat
      <3>1. Len(got) \in 1 .. Len(got)
        BY <1>3, EmptySeq
      <3>2. Last(got) \in WavePacket
        BY <3>1, ElementOfSeq DEF Last
      <3> QED BY <3>2, EdgeTypes
    <2>2. w \in Seq(WavePacket)
      BY <1>1
    <2>3. Pushed(b, got) = [b EXCEPT !.wps = w, !.end = e]
      BY <1>3 DEF Pushed
    <2> HIDE DEF e, w
    <2>4. Pushed(b, got) \in Batch
      BY <1>1, <2>1, <2>2, <2>3 DEF Batch
    <2>5. Pushed(b, got).wps = w /\ Pushed(b, got).start = b.start /\ Pushed(b, got).end = e
      BY <1>1, <2>3 DEF Batch
    <2> QED BY <1>3, <2>4, <2>5 DEF e, w
  <1> QED BY <1>2, <1>3

LEMMA RaisedEndIs ==
    ASSUME endTime \in Nat, NEW got \in Seq(WavePacket)
    PROVE  /\ RaisedEnd(got) \in Nat /\ endTime <= RaisedEnd(got)
           /\ RaisedEnd(got) = endTime \/ \E i \in 1 .. Len(got) : RaisedEnd(got) = got[i].time
PROOF
  <1> DEFINE T == {got[i].time : i \in 1 .. Len(got)}
             S == {endTime} \cup T
  <1>1. IsFiniteSet(1 .. Len(got))
    BY FS_Interval
  <1>2. IsFiniteSet(T)
    <2> DEFINE f == [i \in 1 .. Len(got) |-> got[i].time]
    <2>1. f \in Surjection(1 .. Len(got), T)
      BY DEF Surjection
    <2> HIDE DEF f, T
    <2> QED BY <1>1, <2>1, FS_Surjection
  <1>3. T \subseteq Nat
    <2>1. \A i \in 1 .. Len(got) : got[i] \in WavePacket
      BY ElementOfSeq
    <2>2. \A i \in 1 .. Len(got) : got[i].time \in Nat
      BY <2>1 DEF WavePacket
    <2> QED BY <2>2
  <1>4. \A x \in T : \E i \in 1 .. Len(got) : x = got[i].time
    OBVIOUS
  <1>5. RaisedEnd(got) = Max(S)
    BY DEF RaisedEnd
  <1> HIDE DEF T
  <1>6. IsFiniteSet(S)
    <2>1. IsFiniteSet(T \cup {endTime})
      BY <1>2, FS_AddElement
    <2>2. S = T \cup {endTime}
      OBVIOUS
    <2> QED BY <2>1, <2>2
  <1>7. S \in SUBSET Int /\ S # {} /\ S \subseteq Nat /\ endTime \in S /\ \A x \in S : x = endTime \/ x \in T
    BY <1>3
  <1> HIDE DEF S
  <1>8. Max(S) \in S /\ \A x \in S : x <= Max(S)
    BY <1>6, <1>7, MaxIsGreatest
  <1> QED BY <1>4, <1>5, <1>7, <1>8

\* A round of the beam splitter on one port, in the terms above.
LEMMA PullIs ==
    ASSUME TypeInv, NEW r \in Inputs, NEW next, Pull(r, next)
    PROVE  LET k   == Reached(r)
               got == SubSeq(port[r].period, 1, k)
               now == IF k = 0 THEN port[r] ELSE Advanced(port[r], k)
           IN  /\ got \in Seq(WavePacket) /\ now \in RxPorts
               /\ batch' = [batch EXCEPT ![r] = Pushed(batch[r], got)]
               /\ endTime' = RaisedEnd(got)
               /\ \/ /\ k < Len(port[r].period) \/ Reference(r) < port[r].end
                     /\ port' = [port EXCEPT ![r] = now]
                     /\ pc' = [pc EXCEPT !["dual"] = next]
                     /\ UNCHANGED channel
                  \/ /\ k = Len(port[r].period) /\ port[r].end <= Reference(r)
                     /\ channel[r] # <<>>
                     /\ channel' = [channel EXCEPT ![r] = Tail(channel[r])]
                     /\ port' = [port EXCEPT ![r] = [Recv(r) EXCEPT !.current = now.current]]
                     /\ \/ /\ Reference(r) < Head(channel[r]).start
                           /\ pc' = [pc EXCEPT !["dual"] = next]
                        \/ /\ Head(channel[r]).start <= Reference(r)
                           /\ pc' = [pc EXCEPT !["dual"] = pc["dual"]]
PROOF
  <1> DEFINE k   == Reached(r)
             got == SubSeq(port[r].period, 1, k)
             now == IF k = 0 THEN port[r] ELSE Advanced(port[r], k)
  <1>1. port[r] \in RxPorts /\ port[r].period \in Seq(WavePacket) /\ port[r].end \in Nat
    BY DEF TypeInv, PortTypes, RxPorts
  <1>2. k \in 0 .. Len(port[r].period)
    BY ReachedIs
  <1>3. got \in Seq(WavePacket)
    BY <1>1, <1>2, CutSequence
  <1>4. now \in RxPorts
    BY <1>1, <1>2, AdvancedIs
  <1>5. Reference(r) \in Nat
    <2>1. Other(r) \in Inputs
      BY DEF Other, Inputs
    <2> QED BY <2>1, BatchTrailingEdgeType DEF Reference, TypeInv, PortTypes
  <1>6. /\ batch' = [batch EXCEPT ![r] = Pushed(batch[r], got)]
        /\ endTime' = RaisedEnd(got)
        /\ \/ /\ k < Len(port[r].period) \/ Reference(r) < port[r].end
              /\ port' = [port EXCEPT ![r] = now]
              /\ pc' = [pc EXCEPT !["dual"] = next]
              /\ UNCHANGED channel
           \/ /\ ~ (k < Len(port[r].period) \/ Reference(r) < port[r].end)
              /\ channel[r] # <<>>
              /\ channel' = [channel EXCEPT ![r] = Tail(channel[r])]
              /\ port' = [port EXCEPT ![r] = [Recv(r) EXCEPT !.current = now.current]]
              /\ pc' = [pc EXCEPT !["dual"] = IF Reference(r) < Head(channel[r]).start THEN next ELSE pc["dual"]]
    BY DEF Pull, Reference, Reached
  <1> HIDE DEF k, got, now
  <1>7. CASE /\ ~ (k < Len(port[r].period) \/ Reference(r) < port[r].end)
             /\ channel[r] # <<>>
             /\ pc' = [pc EXCEPT !["dual"] = IF Reference(r) < Head(channel[r]).start THEN next ELSE pc["dual"]]
    <2>1. k = Len(port[r].period) /\ port[r].end <= Reference(r)
      BY <1>1, <1>2, <1>5, <1>7
    <2>2. Head(channel[r]).start \in Nat
      BY <1>7, ReceivedPort DEF Batch
    <2>3. \/ /\ Reference(r) < Head(channel[r]).start
             /\ pc' = [pc EXCEPT !["dual"] = next]
          \/ /\ Head(channel[r]).start <= Reference(r)
             /\ pc' = [pc EXCEPT !["dual"] = pc["dual"]]
      <3>1. CASE Reference(r) < Head(channel[r]).start
        BY <1>7, <3>1
      <3>2. CASE ~ (Reference(r) < Head(channel[r]).start)
        <4>1. Head(channel[r]).start <= Reference(r)
          BY <1>5, <2>2, <3>2
        <4> QED BY <1>7, <3>2, <4>1
      <3> QED BY <3>1, <3>2
    <2> QED BY <1>3, <1>4, <1>6, <2>1, <2>3 DEF k, got, now
  <1> QED BY <1>3, <1>4, <1>6, <1>7 DEF k, got, now

LEMMA PullTypes ==
    ASSUME TypeInv, NEW r \in Sides, NEW next \in PullPlaces, pc["dual"] \in PullPlaces, Pull(r, next),
           UNCHANGED <<setup, time, batches, generated, timeout, outbox, scattered>>
    PROVE  TypeInv'
PROOF
  <1> DEFINE k   == Reached(r)
             got == SubSeq(port[r].period, 1, k)
             now == IF k = 0 THEN port[r] ELSE Advanced(port[r], k)
  <1>1. r \in Inputs
    BY DEF Sides, Inputs
  <1>2. /\ got \in Seq(WavePacket) /\ now \in RxPorts
        /\ batch' = [batch EXCEPT ![r] = Pushed(batch[r], got)]
        /\ endTime' = RaisedEnd(got)
        /\ \/ /\ port' = [port EXCEPT ![r] = now]
              /\ pc' = [pc EXCEPT !["dual"] = next]
              /\ UNCHANGED channel
           \/ /\ channel[r] # <<>>
              /\ channel' = [channel EXCEPT ![r] = Tail(channel[r])]
              /\ port' = [port EXCEPT ![r] = [Recv(r) EXCEPT !.current = now.current]]
              /\ \/ pc' = [pc EXCEPT !["dual"] = next]
                 \/ pc' = [pc EXCEPT !["dual"] = pc["dual"]]
    BY <1>1, PullIs
  <1> HIDE DEF k, got, now
  <1>3. /\ channel \in [Inputs -> Seq(Batch)] /\ \A q \in Inputs : Len(channel[q]) <= ChannelSize
        /\ port \in [Inputs -> RxPorts] /\ batch \in [Inputs -> Batch] /\ endTime \in Nat
        /\ pc \in [Getters -> DelayPlaces \cup DualPlaces] /\ pc["delay"] \in DelayPlaces
    BY DEF TypeInv, PortTypes, TimeoutTypes, PlaceTypes
  <1>4. batch' \in [Inputs -> Batch]
    BY <1>1, <1>2, <1>3, PushedIs
  <1>5. endTime' \in Nat
    BY <1>2, <1>3, RaisedEndIs
  <1>6. /\ channel' \in [Inputs -> Seq(Batch)] /\ \A q \in Inputs : Len(channel'[q]) <= ChannelSize
        /\ port' \in [Inputs -> RxPorts]
    <2>1. CASE port' = [port EXCEPT ![r] = now] /\ UNCHANGED channel
      BY <1>1, <1>2, <1>3, <2>1
    <2>2. CASE /\ channel[r] # <<>>
               /\ channel' = [channel EXCEPT ![r] = Tail(channel[r])]
               /\ port' = [port EXCEPT ![r] = [Recv(r) EXCEPT !.current = now.current]]
      <3>1. /\ Recv(r) \in RxPorts /\ Tail(channel[r]) \in Seq(Batch)
            /\ Len(Tail(channel[r])) = Len(channel[r]) - 1
        BY <1>1, <2>2, ReceivedPort
      <3>2. now.current \in Nat
        BY <1>2 DEF RxPorts
      <3>3. [Recv(r) EXCEPT !.current = now.current] \in RxPorts
        BY <3>1, <3>2 DEF RxPorts
      <3>4. Len(channel[r]) \in Nat /\ ChannelSize \in Nat /\ Len(channel[r]) <= ChannelSize
        BY <1>1, <1>3, PortsAssumption
      <3>5. Len(Tail(channel[r])) <= ChannelSize
        BY <3>1, <3>4
      <3>6. port' \in [Inputs -> RxPorts]
        BY <1>1, <1>3, <2>2, <3>3
      <3>7. channel' \in [Inputs -> Seq(Batch)]
        BY <1>1, <1>3, <2>2, <3>1
      <3>8. \A q \in Inputs : Len(channel'[q]) <= ChannelSize
        BY <1>1, <1>3, <2>2, <3>5
      <3> QED BY <3>6, <3>7, <3>8
    <2> QED BY <1>2, <2>1, <2>2
  <1>7. pc["dual"] \in DualPlaces /\ next \in DualPlaces
    BY DEF DualPlaces
  <1>8. PlaceTypes' /\ pc'["delay"] = pc["delay"] /\ pc'["dual"] \in PullPlaces
    <2>1. CASE pc' = [pc EXCEPT !["dual"] = next]
      BY <1>7, <2>1, DualPlaceTypes, <1>3 DEF Getters
    <2>2. CASE pc' = [pc EXCEPT !["dual"] = pc["dual"]]
      BY <1>7, <2>2, DualPlaceTypes, <1>3 DEF Getters
    <2> QED BY <1>2, <2>1, <2>2
  <1>9. BatchFits'
    <2>1. batch'["delay"] = batch["delay"]
      BY <1>2, <1>3 DEF Sides, Inputs
    <2>2. pc'["dual"] # "getLeft" /\ pc'["dual"] # "getRight"
      BY <1>8 DEF PullPlaces
    <2> QED BY <1>8, <2>1, <2>2 DEF TypeInv, BatchFits
  <1>10. SourceTypes' /\ OutboxTypes' /\ ScatteredTypes'
    BY DEF TypeInv, SourceTypes, OutboxTypes, ScatteredTypes
  <1>11. TimeoutTypes'
    BY <1>5 DEF TypeInv, TimeoutTypes
  <1> QED BY <1>4, <1>6, <1>8, <1>9, <1>10, <1>11 DEF TypeInv, PortTypes

LEMMA CheckTypes == ASSUME TypeInv, Check PROVE TypeInv'
PROOF
  <1>1. /\ channel \in [Inputs -> Seq(Batch)] /\ \A q \in Inputs : Len(channel[q]) <= ChannelSize
        /\ port \in [Inputs -> RxPorts] /\ "right" \in Inputs
        /\ pc \in [Getters -> DelayPlaces \cup DualPlaces] /\ pc["dual"] = "check"
    BY DEF TypeInv, PortTypes, PlaceTypes, Inputs, Check
  <1>2. /\ "scatter" \in PullPlaces /\ "pullRight" \in PullPlaces /\ "check" \in PullPlaces
        /\ PullPlaces \subseteq DualPlaces
    BY DEF PullPlaces, DualPlaces
  <1>3. \E place \in PullPlaces : pc' = [pc EXCEPT !["dual"] = place]
    BY <1>1, <1>2 DEF Check
  <1>4. PlaceTypes' /\ pc'["delay"] = pc["delay"] /\ pc'["dual"] \in PullPlaces
    BY <1>1, <1>2, <1>3, DualPlaceTypes
  <1>5. /\ channel' \in [Inputs -> Seq(Batch)] /\ \A q \in Inputs : Len(channel'[q]) <= ChannelSize
        /\ port' \in [Inputs -> RxPorts]
    <2>1. CASE UNCHANGED <<channel, port>>
      BY <1>1, <2>1
    <2>2. CASE Receive("right")
      <3>1. /\ Recv("right") \in RxPorts /\ Tail(channel["right"]) \in Seq(Batch)
            /\ Len(Tail(channel["right"])) = Len(channel["right"]) - 1
        BY <1>1, <2>2, ReceivedPort DEF Receive
      <3>2. Len(channel["right"]) \in Nat /\ ChannelSize \in Nat /\ Len(channel["right"]) <= ChannelSize
        BY <1>1, PortsAssumption
      <3>3. Len(Tail(channel["right"])) <= ChannelSize
        BY <3>1, <3>2
      <3>4. /\ channel' = [channel EXCEPT !["right"] = Tail(channel["right"])]
            /\ port' = [port EXCEPT !["right"] = Recv("right")]
        BY <2>2 DEF Receive
      <3>5. port' \in [Inputs -> RxPorts]
        BY <1>1, <3>1, <3>4
      <3>6. channel' \in [Inputs -> Seq(Batch)]
        BY <1>1, <3>1, <3>4
      <3>7. \A q \in Inputs : Len(channel'[q]) <= ChannelSize
        BY <1>1, <3>3, <3>4
      <3> QED BY <3>5, <3>6, <3>7
    <2> QED BY <2>1, <2>2 DEF Check
  <1>6. BatchFits'
    <2>1. pc'["dual"] # "getLeft" /\ pc'["dual"] # "getRight"
      BY <1>4 DEF PullPlaces
    <2> QED BY <1>4, <2>1 DEF TypeInv, BatchFits, Check
  <1>7. SourceTypes' /\ OutboxTypes' /\ ScatteredTypes' /\ TimeoutTypes' /\ batch' \in [Inputs -> Batch]
    BY DEF TypeInv, SourceTypes, OutboxTypes, ScatteredTypes, TimeoutTypes, PortTypes, Check
  <1> QED BY <1>4, <1>5, <1>6, <1>7 DEF TypeInv, PortTypes

LEMMA ScatterTypes == ASSUME TypeInv, Scatter PROVE TypeInv'
PROOF
  <1> DEFINE wps == [side \in Sides |-> batch[side].wps]
             s   == [wps |-> wps, end |-> endTime, operators |-> DualOperators(wps)]
  <1>1. /\ batch \in [Inputs -> Batch] /\ endTime \in Nat /\ scattered \in Seq(Outcomes)
        /\ pc \in [Getters -> DelayPlaces \cup DualPlaces] /\ "dual" \in Getters /\ "delay" \in Getters
    BY DEF TypeInv, PortTypes, TimeoutTypes, PlaceTypes, ScatteredTypes, Getters
  <1>2. wps \in [Sides -> Seq(WavePacket)]
    BY <1>1 DEF Sides, Inputs, Batch
  <1>3. scattered' = Append(scattered, s)
    BY DEF Scatter
  <1> HIDE DEF wps
  <1>4. /\ DualOperators(wps) \in Operators
        /\ DualOperators(wps).lone \subseteq Visits(wps)
        /\ \A e \in DualOperators(wps).pairs : {e[1], e[2]} \subseteq Visits(wps)
    BY <1>2, OperatorTypes
  <1>5. /\ s \in Outcomes /\ s.operators.lone \subseteq Visits(s.wps)
        /\ \A e \in s.operators.pairs : {e[1], e[2]} \subseteq Visits(s.wps)
    BY <1>1, <1>2, <1>4 DEF Outcomes
  <1> HIDE DEF s
  <1>6. ScatteredTypes'
    <2>1. /\ scattered' \in Seq(Outcomes) /\ Len(scattered') = Len(scattered) + 1
          /\ \A n \in 1 .. Len(scattered) : scattered'[n] = scattered[n]
          /\ scattered'[Len(scattered) + 1] = s
      BY <1>1, <1>3, <1>5, AppendProperties
    <2>2. Len(scattered) \in Nat
      BY <1>1
    <2>3. \A n \in 1 .. Len(scattered') : n \in 1 .. Len(scattered) \/ n = Len(scattered) + 1
      BY <2>1, <2>2
    <2>4. \A n \in 1 .. Len(scattered') :
             /\ scattered'[n].operators.lone \subseteq Visits(scattered'[n].wps)
             /\ \A e \in scattered'[n].operators.pairs : {e[1], e[2]} \subseteq Visits(scattered'[n].wps)
      BY <1>5, <2>1, <2>3 DEF TypeInv, ScatteredTypes
    <2> QED BY <2>1, <2>4 DEF ScatteredTypes
  <1>7. WpBatch(0, 0, <<>>) \in Batch
    BY EmptySeq DEF WpBatch, Batch
  <1>8. batch' \in [Inputs -> Batch] /\ batch'["delay"] = batch["delay"]
    BY <1>1, <1>7 DEF Scatter, Inputs, Sides
  <1>9. pc'["dual"] = "idle" /\ pc'["delay"] = pc["delay"] /\ PlaceTypes'
    <2>1. "idle" \in DualPlaces /\ pc' = [pc EXCEPT !["dual"] = "idle"]
      BY DEF Scatter, DualPlaces
    <2> QED BY <1>1, <2>1, DualPlaceTypes
  <1>10. BatchFits'
    BY <1>8, <1>9 DEF TypeInv, BatchFits
  <1>11. SourceTypes' /\ OutboxTypes' /\ TimeoutTypes'
    BY DEF TypeInv, SourceTypes, OutboxTypes, TimeoutTypes, Scatter
  <1>12. PortTypes'
    BY <1>8 DEF TypeInv, PortTypes, Scatter
  <1> QED BY <1>6, <1>9, <1>10, <1>11, <1>12 DEF TypeInv

LEMMA StepTypes == ASSUME TypeInv, Widths, [Next]_vars PROVE TypeInv'
PROOF
  <1>1. CASE Generate
    BY <1>1, GenerateTypes
  <1>2. CASE \E t \in Senders : Send(t)
    BY <1>2, SendTypes
  <1>3. CASE StartDelay
    BY <1>3, StartDelayTypes
  <1>4. CASE GetDelay
    BY <1>4, GetDelayTypes
  <1>5. CASE Transmit
    BY <1>5, TransmitTypes
  <1>6. CASE StartDual
    BY <1>6, StartDualTypes
  <1>7. CASE GetLeft
    BY <1>7, GetLeftTypes
  <1>8. CASE GetRight
    BY <1>8, GetRightTypes
  <1>9. CASE PullRight
    <2>1. "right" \in Sides /\ "pullLeft" \in PullPlaces /\ "pullRight" \in PullPlaces
      BY DEF Sides, PullPlaces
    <2> QED BY <1>9, <2>1, PullTypes DEF PullRight
  <1>10. CASE PullLeft
    <2>1. "left" \in Sides /\ "check" \in PullPlaces /\ "pullLeft" \in PullPlaces
      BY DEF Sides, PullPlaces
    <2> QED BY <1>10, <2>1, PullTypes DEF PullLeft
  <1>11. CASE Check
    BY <1>11, CheckTypes
  <1>12. CASE Scatter
    BY <1>12, ScatterTypes
  <1>13. CASE UNCHANGED vars
    BY <1>13 DEF vars, TypeInv, SourceTypes, PortTypes, TimeoutTypes, OutboxTypes, PlaceTypes,
                 ScatteredTypes, BatchFits
  <1> QED BY <1>1, <1>2, <1>3, <1>4, <1>5, <1>6, <1>7, <1>8, <1>9, <1>10, <1>11, <1>12, <1>13
          DEF Next, EPPS, Delay, Dual, Senders

LEMMA TypeInvariant == ASSUME Widths PROVE Spec => []TypeInv
PROOF
  <1>1. TypeInv /\ [Next]_vars => TypeInv'
    BY StepTypes
  <1> QED BY <1>1, InitTypes, PTL DEF Spec

\* Type correctness of the sources, the delay line and the beam splitter, with
\* the bounds of the channels (core.rs:196), of the outstanding sends, and the
\* operators of the beam splitter being made for packets of its own batch
\* (dual_port.rs:135-257), for every delay, gap, period and size of a batch.
THEOREM PortsTypeCorrect == ASSUME Widths PROVE Spec => []TypeOK
  BY TypeInvariant, TypesImplied, PTL

-----------------------------------------------------------------------------
(* The order of the packets.  What the threads hold of the pairs is one    *)
(* sequence cut into pieces: src, all packets of the source; for each      *)
(* input base, how many of them have passed it, and cuts, the places in    *)
(* src where the batches that it will receive begin and the last one ends. *)

\* The hypothesis of the theorems about overlaps: one width for all pulses.
Uniform == \A m, n \in Nat : SigmaOf(m) = SigmaOf(n)

Emitted(src, t) ==
    /\ src \in Seq(WavePacket)
    /\ \A n \in 1 .. Len(src) : src[n].pair = n /\ src[n].sigma = SigmaOf(n) /\ src[n].time <= t
    /\ \A m, n \in 1 .. Len(src) : m <= n => src[m].time <= src[n].time

\* A packet as it comes to an input, behind a delay line or not.
Shifted(s, wp) == [wp EXCEPT !.time = @ + s, !.since = @ + s]

\* No packet that comes after the n-th is earlier than e; none of them reaches
\* back before e, but those that their own port could not announce.
Behind(s, t, src, n, e) == e <= t + s /\ \A k \in n + 1 .. Len(src) : e <= Shifted(s, src[k]).time
Clear(s, t, src, n, e)  ==
    /\ e <= t + s
    /\ \A k \in n + 1 .. Len(src) : Unannounced(Shifted(s, src[k])) \/ e <= LeadingEdge(Shifted(s, src[k]))
Announces(s, t, src, n, e) == Behind(s, t, src, n, e) /\ (Uniform => Clear(s, t, src, n, e))

\* wps is what comes after the n-th packet.
Piece(s, src, n, wps) ==
    /\ n + Len(wps) <= Len(src)
    /\ \A i \in 1 .. Len(wps) : wps[i] = Shifted(s, src[n + i])

Link(s, t, src, n, m, b) ==
    /\ Piece(s, src, n, b.wps) /\ m = n + Len(b.wps)
    /\ Announces(s, t, src, n, b.start) /\ Announces(s, t, src, m, b.end)

\* An input that collects b, has p before it and will receive the batches q.
Line(s, t, src, n, cuts, b, p, q, total) ==
    /\ Len(cuts) = Len(q) + 1
    /\ Piece(s, src, n, b.wps)
    /\ Piece(s, src, n + Len(b.wps), p.period)
    /\ Announces(s, t, src, n + Len(b.wps), p.current)
    /\ cuts[1] = n + Len(b.wps) + Len(p.period)
    /\ Announces(s, t, src, cuts[1], p.end)
    /\ \A i \in 1 .. Len(q) : Link(s, t, src, cuts[i], cuts[i + 1], q[i])
    /\ cuts[Len(q) + 1] = total

LEMMA ShiftedIs ==
    ASSUME NEW s \in Nat, NEW wp \in WavePacket
    PROVE  /\ Shifted(s, wp) \in WavePacket
           /\ Shifted(s, wp).pair = wp.pair /\ Shifted(s, wp).sigma = wp.sigma
           /\ Shifted(s, wp).time = wp.time + s /\ Shifted(s, wp).since = wp.since + s
           /\ s = 0 => Shifted(s, wp) = wp
PROOF
  <1> DEFINE a == wp.time + s
             b == wp.since + s
  <1>1. wp.time \in Nat /\ wp.since \in Nat /\ a \in Nat /\ b \in Nat
    BY DEF WavePacket
  <1>2. Shifted(s, wp) = [wp EXCEPT !.time = a, !.since = b]
    BY DEF Shifted
  <1>3. s = 0 => a = wp.time /\ b = wp.since
    BY <1>1
  <1> HIDE DEF a, b
  <1>4. Shifted(s, wp) \in WavePacket
    BY <1>1, <1>2 DEF WavePacket
  <1>5. /\ Shifted(s, wp).pair = wp.pair /\ Shifted(s, wp).sigma = wp.sigma
        /\ Shifted(s, wp).time = a /\ Shifted(s, wp).since = b
    BY <1>1, <1>2 DEF WavePacket
  <1>6. s = 0 => Shifted(s, wp) = wp
    BY <1>1, <1>2, <1>3 DEF WavePacket
  <1> QED BY <1>4, <1>5, <1>6 DEF a, b

\* What is announced stays announced while packets pass.
LEMMA AnnouncesLater ==
    ASSUME NEW s \in Nat, NEW t \in Nat, NEW src \in Seq(WavePacket), NEW n \in Nat, NEW m \in Nat,
           NEW e \in Nat, NEW f \in Nat, n <= m, f <= e
    PROVE  /\ Behind(s, t, src, n, e) => Behind(s, t, src, m, f)
           /\ Clear(s, t, src, n, e) => Clear(s, t, src, m, f)
           /\ Announces(s, t, src, n, e) => Announces(s, t, src, m, f)
PROOF
  <1>1. Len(src) \in Nat
    OBVIOUS
  <1>2. \A k \in m + 1 .. Len(src) : k \in n + 1 .. Len(src) /\ k \in 1 .. Len(src)
    BY <1>1
  <1>3. \A k \in m + 1 .. Len(src) :
           Shifted(s, src[k]).time \in Nat /\ LeadingEdge(Shifted(s, src[k])) \in Nat
    <2> SUFFICES ASSUME NEW k \in m + 1 .. Len(src)
                 PROVE Shifted(s, src[k]).time \in Nat /\ LeadingEdge(Shifted(s, src[k])) \in Nat
      OBVIOUS
    <2>1. src[k] \in WavePacket
      BY <1>2, ElementOfSeq
    <2>2. Shifted(s, src[k]) \in WavePacket
      BY <2>1, ShiftedIs
    <2> QED BY <2>2, EdgeTypes DEF WavePacket
  <1>4. \A x \in Nat : e <= x => f <= x
    OBVIOUS
  <1>5. e <= t + s => f <= t + s
    OBVIOUS
  <1>6. Behind(s, t, src, n, e) => Behind(s, t, src, m, f)
    BY <1>2, <1>3, <1>4, <1>5 DEF Behind
  <1>7. Clear(s, t, src, n, e) => Clear(s, t, src, m, f)
    BY <1>2, <1>3, <1>4, <1>5 DEF Clear
  <1> QED BY <1>6, <1>7 DEF Announces

\* The packet that comes next announces its leading edge: the packets behind it
\* are not earlier and, with one width, reach back no further.
LEMMA NextAnnounces ==
    ASSUME NEW s \in Nat, NEW t \in Nat, NEW src, Emitted(src, t), NEW n \in Nat, n < Len(src),
           NEW f \in Nat, f <= LeadingEdge(Shifted(s, src[n + 1])), Widths
    PROVE  Announces(s, t, src, n, f)
PROOF
  <1>1. src \in Seq(WavePacket) /\ Len(src) \in Nat /\ n + 1 \in 1 .. Len(src)
    BY DEF Emitted
  <1>2. \A k \in n + 1 .. Len(src) : k \in 1 .. Len(src) /\ src[k] \in WavePacket
    BY <1>1, ElementOfSeq
  <1>3. \A k \in n + 1 .. Len(src) :
          /\ Shifted(s, src[k]) \in WavePacket
          /\ Shifted(s, src[k]).sigma = SigmaOf(k) /\ Shifted(s, src[k]).time = src[k].time + s
          /\ Shifted(s, src[k]).time >= Shifted(s, src[n + 1]).time
    <2> SUFFICES ASSUME NEW k \in n + 1 .. Len(src)
                 PROVE  /\ Shifted(s, src[k]) \in WavePacket
                        /\ Shifted(s, src[k]).sigma = SigmaOf(k) /\ Shifted(s, src[k]).time = src[k].time + s
                        /\ Shifted(s, src[k]).time >= Shifted(s, src[n + 1]).time
      OBVIOUS
    <2>1. n + 1 \in n + 1 .. Len(src) /\ n + 1 <= k
      BY <1>1
    <2>2. src[n + 1].time <= src[k].time /\ src[k].sigma = SigmaOf(k)
      BY <1>1, <1>2, <2>1 DEF Emitted
    <2>3. src[k].time \in Nat /\ src[n + 1].time \in Nat
      BY <1>2, <2>1 DEF WavePacket
    <2>4. /\ Shifted(s, src[k]) \in WavePacket /\ Shifted(s, src[k]).sigma = src[k].sigma
          /\ Shifted(s, src[k]).time = src[k].time + s
      BY <1>2, ShiftedIs
    <2>5. Shifted(s, src[n + 1]).time = src[n + 1].time + s
      BY <1>2, <2>1, ShiftedIs
    <2>6. src[k].time + s >= src[n + 1].time + s
      BY <2>2, <2>3
    <2> QED BY <2>2, <2>4, <2>5, <2>6
  <1>4. Behind(s, t, src, n, f)
    <2>1. n + 1 \in n + 1 .. Len(src)
      BY <1>1
    <2>2. /\ LeadingEdge(Shifted(s, src[n + 1])) \in Nat /\ Shifted(s, src[n + 1]).time \in Nat
          /\ LeadingEdge(Shifted(s, src[n + 1])) <= Shifted(s, src[n + 1]).time
      BY <1>3, <2>1, EdgeTypes DEF WavePacket
    <2>3. src[n + 1].time <= t /\ src[n + 1].time \in Nat /\ Shifted(s, src[n + 1]).time = src[n + 1].time + s
      BY <1>1, <1>2, <1>3, <2>1 DEF Emitted, WavePacket
    <2>4. f <= t + s
      BY <2>2, <2>3
    <2>5. \A k \in n + 1 .. Len(src) : Shifted(s, src[k]).time \in Nat
      BY <1>3 DEF WavePacket
    <2>6. \A k \in n + 1 .. Len(src) : f <= Shifted(s, src[k]).time
      BY <1>3, <2>2, <2>5
    <2> QED BY <2>4, <2>6 DEF Behind
  <1>5. ASSUME Uniform PROVE Clear(s, t, src, n, f)
    <2> SUFFICES ASSUME NEW k \in n + 1 .. Len(src) PROVE f <= LeadingEdge(Shifted(s, src[k]))
      BY <1>4 DEF Clear, Behind
    <2>1. n + 1 \in n + 1 .. Len(src) /\ k \in Nat /\ n + 1 \in Nat
      BY <1>1, <1>2
    <2>2. SigmaOf(k) = SigmaOf(n + 1) /\ SigmaOf(k) \in Nat
      BY <1>5, <2>1 DEF Uniform, Widths
    <2> DEFINE a == Shifted(s, src[n + 1])
               b == Shifted(s, src[k])
    <2>3. a.time \in Nat /\ b.time \in Nat /\ a.time <= b.time /\ a.sigma = b.sigma /\ a.sigma \in Nat
      BY <1>3, <2>1, <2>2 DEF WavePacket
    <2>4. f <= LeadingEdge(a)
      OBVIOUS
    <2> HIDE DEF a, b
    <2>5. LeadingEdge(a) <= LeadingEdge(b) /\ LeadingEdge(a) \in Nat /\ LeadingEdge(b) \in Nat
      <3>1. PICK x \in Nat, y \in Nat, g \in Nat : x = a.time /\ y = b.time /\ g = a.sigma
        BY <2>3
      <3>2. x <= y /\ g = b.sigma
        BY <2>3, <3>1
      <3>3. LeadingEdge(a) = IF x < 3 * g THEN 0 ELSE x - 3 * g
        BY <3>1 DEF LeadingEdge
      <3>4. LeadingEdge(b) = IF y < 3 * g THEN 0 ELSE y - 3 * g
        BY <3>1, <3>2 DEF LeadingEdge
      <3>5. PICK h \in Nat : h = 3 * g
        OBVIOUS
      <3>6. LeadingEdge(a) = (IF x < h THEN 0 ELSE x - h) /\ LeadingEdge(b) = (IF y < h THEN 0 ELSE y - h)
        BY <3>3, <3>4, <3>5
      <3> QED BY <3>2, <3>6
    <2>6. f <= LeadingEdge(b)
      BY <2>4, <2>5
    <2> QED BY <2>6 DEF b
  <1> QED BY <1>4, <1>5 DEF Announces

\* src2 is src and what the source makes from time t on, until t2.
Extends(src, t, src2, t2) ==
    /\ Len(src) <= Len(src2) /\ t <= t2
    /\ \A k \in 1 .. Len(src) : src2[k] = src[k]
    /\ \A k \in Len(src) + 1 .. Len(src2) : t <= src2[k].time /\ src2[k].since = t

LEMMA AnnouncesMore ==
    ASSUME NEW s \in Nat, NEW t \in Nat, NEW src \in Seq(WavePacket), NEW t2 \in Nat,
           NEW src2 \in Seq(WavePacket), Extends(src, t, src2, t2), NEW n \in Nat, NEW e \in Nat
    PROVE  /\ Behind(s, t, src, n, e) => Behind(s, t2, src2, n, e)
           /\ Clear(s, t, src, n, e) => Clear(s, t2, src2, n, e)
           /\ Announces(s, t, src, n, e) => Announces(s, t2, src2, n, e)
PROOF
  <1>1. Len(src) \in Nat /\ Len(src2) \in Nat
    OBVIOUS
  <1>2. e <= t + s => e <= t2 + s
    BY DEF Extends
  <1>3. \A k \in n + 1 .. Len(src2) : k \in 1 .. Len(src2) /\ src2[k] \in WavePacket
    BY <1>1, ElementOfSeq
  <1>4. \A k \in n + 1 .. Len(src2) :
          \/ k \in n + 1 .. Len(src) /\ src2[k] = src[k]
          \/ k \in Len(src) + 1 .. Len(src2)
    BY <1>1 DEF Extends
  <1>5. ASSUME NEW k \in Len(src) + 1 .. Len(src2), k \in n + 1 .. Len(src2), e <= t + s
        PROVE  /\ e <= Shifted(s, src2[k]).time
               /\ Unannounced(Shifted(s, src2[k])) \/ e <= LeadingEdge(Shifted(s, src2[k]))
    <2>1. t <= src2[k].time /\ src2[k].since = t /\ src2[k] \in WavePacket /\ src2[k].time \in Nat
      BY <1>3, <1>5 DEF Extends, WavePacket
    <2> DEFINE w == Shifted(s, src2[k])
    <2>2. w \in WavePacket /\ w.time = src2[k].time + s /\ w.since = t + s
      BY <2>1, ShiftedIs
    <2>3. LeadingEdge(w) \in Nat
      BY <2>2, EdgeTypes
    <2> HIDE DEF w
    <2>4. e <= w.time
      BY <1>5, <2>1, <2>2
    <2>5. Unannounced(w) \/ e <= LeadingEdge(w)
      BY <1>5, <2>2, <2>3 DEF Unannounced
    <2> QED BY <2>4, <2>5 DEF w
  <1>6. Behind(s, t, src, n, e) => Behind(s, t2, src2, n, e)
    BY <1>2, <1>4, <1>5 DEF Behind
  <1>7. Clear(s, t, src, n, e) => Clear(s, t2, src2, n, e)
    BY <1>2, <1>4, <1>5 DEF Clear
  <1> QED BY <1>6, <1>7 DEF Announces

\* A delay line announces by its delay later.
LEMMA AnnouncesDelayed ==
    ASSUME NEW s \in Nat, NEW t \in Nat, NEW src \in Seq(WavePacket), NEW n \in Nat, NEW e \in Nat,
           Announces(0, t, src, n, e)
    PROVE  Announces(s, t, src, n, e + s)
PROOF
  <1>1. Len(src) \in Nat /\ \A k \in n + 1 .. Len(src) : k \in 1 .. Len(src) /\ src[k] \in WavePacket
    BY ElementOfSeq
  <1>2. e + s <= t + s
    BY DEF Announces, Behind
  <1>3. \A k \in n + 1 .. Len(src) :
          /\ Shifted(0, src[k]) = src[k] /\ src[k].time \in Nat
          /\ Shifted(s, src[k]).time = src[k].time + s
    BY <1>1, ShiftedIs DEF WavePacket
  <1>4. Behind(s, t, src, n, e + s)
    <2>1. \A k \in n + 1 .. Len(src) : e <= src[k].time
      BY <1>3 DEF Announces, Behind
    <2> QED BY <1>2, <1>3, <2>1 DEF Behind
  <1>5. ASSUME Uniform, NEW k \in n + 1 .. Len(src)
        PROVE  Unannounced(Shifted(s, src[k])) \/ e + s <= LeadingEdge(Shifted(s, src[k]))
    <2> DEFINE w == Shifted(s, src[k])
    <2>1. Unannounced(src[k]) \/ e <= LeadingEdge(src[k])
      BY <1>3, <1>5 DEF Announces, Clear
    <2>2. PICK p \in WavePacket : p = src[k]
      BY <1>1
    <2>3. p.time \in Nat /\ p.sigma \in Nat /\ p.since \in Nat
      BY DEF WavePacket
    <2>4. w.time = p.time + s /\ w.sigma = p.sigma /\ w.since = p.since + s
      BY <2>2, ShiftedIs
    <2> HIDE DEF w
    <2>5. LeadingEdge(w) = IF p.time + s < 3 * p.sigma THEN 0 ELSE p.time + s - 3 * p.sigma
      BY <2>3, <2>4 DEF LeadingEdge
    <2>6. CASE p.time < 3 * p.sigma /\ p.time + s < 3 * p.sigma
      <3>1. Unannounced(p) \/ e = 0
        BY <2>1, <2>2, <2>6 DEF LeadingEdge
      <3>2. CASE s = 0
        <4>1. LeadingEdge(p) = LeadingEdge(w) /\ w.since = p.since
          BY <2>3, <2>4, <2>6, <3>2 DEF LeadingEdge
        <4>2. e + s = e
          BY <3>2
        <4> QED BY <2>1, <2>2, <4>1, <4>2 DEF Unannounced, w
      <3>3. CASE s # 0
        <4>1. LeadingEdge(w) = 0 /\ 0 < w.since
          BY <2>3, <2>4, <2>5, <2>6, <3>3
        <4> QED BY <4>1 DEF Unannounced, w
      <3> QED BY <3>2, <3>3
    <2>7. CASE p.time < 3 * p.sigma /\ ~ p.time + s < 3 * p.sigma
      <3>0. PICK h \in Nat : h = 3 * p.sigma
        BY <2>3
      <3>1. LeadingEdge(w) = p.time + s - h
        BY <2>5, <2>7, <3>0
      <3>2. LeadingEdge(w) < s /\ s <= w.since
        <4>1. p.time < h
          BY <2>7, <3>0
        <4>2. s <= p.since + s
          BY <2>3
        <4> QED BY <2>3, <2>4, <3>1, <4>1, <4>2
      <3>3. LeadingEdge(w) \in Int /\ w.since \in Nat
        BY <2>3, <2>4, <3>1
      <3>4. LeadingEdge(w) < w.since
        BY <3>2, <3>3
      <3> QED BY <3>4 DEF Unannounced, w
    <2>8. CASE ~ p.time < 3 * p.sigma
      <3>1. LeadingEdge(p) = p.time - 3 * p.sigma /\ ~ p.time + s < 3 * p.sigma
        BY <2>3, <2>8 DEF LeadingEdge
      <3>2. LeadingEdge(w) = LeadingEdge(p) + s /\ LeadingEdge(p) \in Int
        BY <2>3, <2>5, <3>1
      <3>3. LeadingEdge(p) < p.since => LeadingEdge(w) < w.since
        BY <2>3, <2>4, <3>2
      <3>4. e <= LeadingEdge(p) => e + s <= LeadingEdge(w)
        BY <3>2
      <3> QED BY <2>1, <2>2, <3>3, <3>4 DEF Unannounced, w
    <2> QED BY <2>6, <2>7, <2>8, <2>3
  <1> QED BY <1>2, <1>4, <1>5 DEF Announces, Clear

LEMMA PieceJoined ==
    ASSUME NEW s, NEW src \in Seq(WavePacket), NEW n \in Nat, NEW u \in Seq(WavePacket), NEW v \in Seq(WavePacket),
           Piece(s, src, n, u), Piece(s, src, n + Len(u), v)
    PROVE  Piece(s, src, n, u \o v)
PROOF
  <1>1. /\ Len(u) \in Nat /\ Len(v) \in Nat /\ Len(u \o v) = Len(u) + Len(v)
        /\ \A i \in 1 .. Len(u) + Len(v) : (u \o v)[i] = IF i <= Len(u) THEN u[i] ELSE v[i - Len(u)]
    BY ConcatProperties
  <1>2. n + Len(u \o v) <= Len(src)
    BY <1>1 DEF Piece
  <1>3. ASSUME NEW i \in 1 .. Len(u) + Len(v) PROVE (u \o v)[i] = Shifted(s, src[n + i])
    <2>1. CASE i <= Len(u)
      <3>1. i \in 1 .. Len(u)
        BY <1>1, <2>1
      <3> QED BY <1>1, <2>1, <3>1 DEF Piece
    <2>2. CASE ~ i <= Len(u)
      <3>1. i - Len(u) \in 1 .. Len(v) /\ n + Len(u) + (i - Len(u)) = n + i
        BY <1>1, <2>2
      <3>2. v[i - Len(u)] = Shifted(s, src[n + Len(u) + (i - Len(u))])
        BY <3>1 DEF Piece
      <3> QED BY <1>1, <2>2, <3>1, <3>2
    <2> QED BY <2>1, <2>2
  <1> QED BY <1>1, <1>2, <1>3 DEF Piece

LEMMA PieceCut ==
    ASSUME NEW s, NEW src \in Seq(WavePacket), NEW n \in Nat, NEW v \in Seq(WavePacket), NEW k \in 0 .. Len(v),
           Piece(s, src, n, v)
    PROVE  /\ Piece(s, src, n, SubSeq(v, 1, k))
           /\ Piece(s, src, n + k, SubSeq(v, k + 1, Len(v)))
PROOF
  <1>1. /\ Len(v) \in Nat /\ Len(src) \in Nat /\ k \in Nat /\ k <= Len(v)
        /\ Len(SubSeq(v, 1, k)) = k /\ \A i \in 1 .. k : SubSeq(v, 1, k)[i] = v[i]
        /\ Len(SubSeq(v, k + 1, Len(v))) = Len(v) - k
        /\ \A i \in 1 .. Len(v) - k : SubSeq(v, k + 1, Len(v))[i] = v[k + i]
    BY CutSequence
  <1>2. n + Len(v) <= Len(src) /\ \A i \in 1 .. Len(v) : v[i] = Shifted(s, src[n + i])
    BY DEF Piece
  <1>3. n + k <= Len(src) /\ n + k + (Len(v) - k) <= Len(src)
    BY <1>1, <1>2
  <1>4. \A i \in 1 .. k : i \in 1 .. Len(v)
    BY <1>1
  <1>5. \A i \in 1 .. Len(v) - k : k + i \in 1 .. Len(v) /\ n + (k + i) = n + k + i
    BY <1>1
  <1>6. \A i \in 1 .. k : SubSeq(v, 1, k)[i] = Shifted(s, src[n + i])
    BY <1>1, <1>2, <1>4
  <1>7. \A i \in 1 .. Len(v) - k : SubSeq(v, k + 1, Len(v))[i] = Shifted(s, src[n + k + i])
    BY <1>1, <1>2, <1>5
  <1> QED BY <1>1, <1>3, <1>6, <1>7 DEF Piece

LEMMA PieceMore ==
    ASSUME NEW s, NEW t, NEW src \in Seq(WavePacket), NEW src2 \in Seq(WavePacket), NEW t2,
           Extends(src, t, src2, t2), NEW n \in Nat, NEW v \in Seq(WavePacket), Piece(s, src, n, v)
    PROVE  Piece(s, src2, n, v)
PROOF
  <1>1. Len(v) \in Nat /\ Len(src) \in Nat /\ Len(src2) \in Nat /\ Len(src) <= Len(src2)
    BY DEF Extends
  <1>2. \A i \in 1 .. Len(v) : n + i \in 1 .. Len(src)
    BY <1>1 DEF Piece
  <1>3. n + Len(v) <= Len(src2)
    BY <1>1 DEF Piece
  <1> QED BY <1>2, <1>3 DEF Piece, Extends

\* The types of a line.
LineTypes(src, n, cuts, b, p, q) ==
    /\ src \in Seq(WavePacket) /\ n \in Nat /\ cuts \in Seq(Nat)
    /\ b \in Batch /\ p \in RxPorts /\ q \in Seq(Batch)

LEMMA LineTyped ==
    ASSUME NEW src, NEW n, NEW cuts, NEW b, NEW p, NEW q, LineTypes(src, n, cuts, b, p, q)
    PROVE  /\ b.wps \in Seq(WavePacket) /\ Len(b.wps) \in Nat /\ n + Len(b.wps) \in Nat
           /\ p.period \in Seq(WavePacket) /\ Len(p.period) \in Nat /\ p.end \in Nat /\ p.current \in Nat
           /\ Len(q) \in Nat /\ \A i \in 1 .. Len(q) : /\ q[i] \in Batch /\ q[i].wps \in Seq(WavePacket)
                                                       /\ q[i].start \in Nat /\ q[i].end \in Nat
           /\ \A i \in 1 .. Len(cuts) : cuts[i] \in Nat
PROOF
  <1>1. \A i \in 1 .. Len(q) : q[i] \in Batch
    BY ElementOfSeq DEF LineTypes
  <1>2. \A i \in 1 .. Len(q) : q[i].wps \in Seq(WavePacket) /\ q[i].start \in Nat /\ q[i].end \in Nat
    BY <1>1 DEF Batch
  <1>3. b.wps \in Seq(WavePacket) /\ p.period \in Seq(WavePacket) /\ p.end \in Nat /\ p.current \in Nat /\ n \in Nat
    BY DEF LineTypes, Batch, RxPorts
  <1>4. \A i \in 1 .. Len(cuts) : cuts[i] \in Nat
    BY ElementOfSeq DEF LineTypes
  <1> QED BY <1>1, <1>2, <1>3, <1>4 DEF LineTypes

\* A line and all that is known of its parts.
GoodLine(s, t, src, n, cuts, b, p, q, total) ==
    /\ s \in Nat /\ t \in Nat /\ Emitted(src, t)
    /\ LineTypes(src, n, cuts, b, p, q)
    /\ Line(s, t, src, n, cuts, b, p, q, total)

\* c is b with the first k packets of p, and r is what is left of p.
Grown(b, p, k, c) == k \in 0 .. Len(p.period) /\ c \in Batch /\ c.wps = b.wps \o SubSeq(p.period, 1, k)
Left(p, k, r)     == r \in RxPorts /\ r.period = SubSeq(p.period, k + 1, Len(p.period)) /\ r.end = p.end

\* k packets of the period are moved to the batch.
LEMMA LineTakes ==
    ASSUME NEW s, NEW t, NEW src, NEW n, NEW cuts, NEW b, NEW p, NEW q, NEW total,
           GoodLine(s, t, src, n, cuts, b, p, q, total), NEW k, NEW c, NEW r, Grown(b, p, k, c), Left(p, k, r),
           Announces(s, t, src, n + Len(b.wps) + k, r.current)
    PROVE  GoodLine(s, t, src, n, cuts, c, r, q, total) /\ Len(c.wps) = Len(b.wps) + k
PROOF
  <1>0. /\ LineTypes(src, n, cuts, b, p, q) /\ Line(s, t, src, n, cuts, b, p, q, total)
        /\ k \in 0 .. Len(p.period) /\ c \in Batch /\ r \in RxPorts
        /\ c.wps = b.wps \o SubSeq(p.period, 1, k) /\ r.period = SubSeq(p.period, k + 1, Len(p.period))
        /\ r.end = p.end
    BY DEF GoodLine, Grown, Left
  <1>1. /\ b.wps \in Seq(WavePacket) /\ Len(b.wps) \in Nat /\ n \in Nat /\ src \in Seq(WavePacket)
        /\ p.period \in Seq(WavePacket) /\ Len(p.period) \in Nat /\ n + Len(b.wps) \in Nat
    BY <1>0, LineTyped DEF LineTypes
  <1>2. /\ SubSeq(p.period, 1, k) \in Seq(WavePacket) /\ Len(SubSeq(p.period, 1, k)) = k
        /\ Len(SubSeq(p.period, k + 1, Len(p.period))) = Len(p.period) - k
    BY <1>0, <1>1, CutSequence
  <1>3. Len(c.wps) = Len(b.wps) + k
    <2>1. PICK u \in Seq(WavePacket) : u = SubSeq(p.period, 1, k)
      BY <1>2
    <2>2. Len(b.wps \o u) = Len(b.wps) + Len(u)
      BY <1>1, ConcatProperties
    <2> QED BY <1>0, <1>2, <2>1, <2>2
  <1>4. /\ Piece(s, src, n + Len(b.wps), SubSeq(p.period, 1, k))
        /\ Piece(s, src, n + Len(b.wps) + k, SubSeq(p.period, k + 1, Len(p.period)))
    BY <1>0, <1>1, PieceCut DEF Line
  <1>5. Piece(s, src, n, c.wps)
    BY <1>0, <1>1, <1>2, <1>4, PieceJoined DEF Line
  <1>6. n + Len(c.wps) = n + Len(b.wps) + k
    <2>1. PICK x \in Nat, y \in Nat : x = n /\ y = Len(b.wps)
      BY <1>1
    <2>2. Len(c.wps) = y + k
      BY <1>0, <1>3, <2>1
    <2>3. x + (y + k) = x + y + k
      BY <1>0, <1>1
    <2> QED BY <2>1, <2>2, <2>3
  <1>7. Piece(s, src, n + Len(c.wps), r.period) /\ Announces(s, t, src, n + Len(c.wps), r.current)
    BY <1>0, <1>4, <1>6
  <1>8. n + Len(c.wps) + Len(r.period) = n + Len(b.wps) + Len(p.period)
    <2>1. PICK x \in Nat, y \in Nat, z \in Nat : x = n /\ y = Len(b.wps) /\ z = Len(p.period)
      BY <1>1
    <2>2. Len(c.wps) = y + k /\ Len(r.period) = z - k
      BY <1>0, <1>2, <1>3, <2>1
    <2>3. x + (y + k) + (z - k) = x + y + z
      BY <1>0, <1>1
    <2> QED BY <2>1, <2>2, <2>3
  <1>9. Line(s, t, src, n, cuts, c, r, q, total)
    BY <1>0, <1>5, <1>7, <1>8 DEF Line
  <1>10. LineTypes(src, n, cuts, c, r, q)
    BY <1>0 DEF LineTypes
  <1> QED BY <1>3, <1>9, <1>10 DEF GoodLine

\* The period is used up, and the next batch comes from the channel.
Renewed(q, r) == q # <<>> /\ r \in RxPorts /\ r.period = Head(q).wps /\ r.end = Head(q).end

LEMMA LineReceives ==
    ASSUME NEW s, NEW t, NEW src, NEW n, NEW cuts, NEW b, NEW p, NEW q, NEW total,
           GoodLine(s, t, src, n, cuts, b, p, q, total), p.period = <<>>, NEW r, Renewed(q, r),
           Announces(s, t, src, n + Len(b.wps), r.current)
    PROVE  /\ GoodLine(s, t, src, n, Tail(cuts), b, r, Tail(q), total)
           /\ Tail(cuts) \in Seq(Nat) /\ Tail(q) \in Seq(Batch)
           /\ Announces(s, t, src, n + Len(b.wps), Head(q).start)
PROOF
  <1>0. /\ LineTypes(src, n, cuts, b, p, q) /\ Line(s, t, src, n, cuts, b, p, q, total)
        /\ q # <<>> /\ r \in RxPorts /\ r.period = Head(q).wps /\ r.end = Head(q).end
    BY DEF GoodLine, Renewed
  <1>1. /\ Len(b.wps) \in Nat /\ n + Len(b.wps) \in Nat /\ Len(q) \in Nat
        /\ cuts \in Seq(Nat) /\ q \in Seq(Batch) /\ Len(cuts) = Len(q) + 1
        /\ \A i \in 1 .. Len(q) : q[i].wps \in Seq(WavePacket)
    BY <1>0, LineTyped DEF LineTypes, Line
  <1>2. Len(q) # 0 /\ 1 \in 1 .. Len(q) /\ Head(q) = q[1] /\ Len(p.period) = 0
    BY <1>0, <1>1, EmptySeq
  <1>3. /\ Tail(q) \in Seq(Batch) /\ Len(Tail(q)) = Len(q) - 1
        /\ \A i \in 1 .. Len(q) - 1 : Tail(q)[i] = q[i + 1]
    BY <1>0, <1>1, HeadTailProperties
  <1>4. /\ Tail(cuts) \in Seq(Nat) /\ Len(Tail(cuts)) = Len(q)
        /\ \A i \in 1 .. Len(q) : Tail(cuts)[i] = cuts[i + 1]
    <2>1. cuts # <<>>
      BY <1>1, EmptySeq
    <2>2. /\ Tail(cuts) \in Seq(Nat) /\ Len(Tail(cuts)) = Len(cuts) - 1
          /\ \A i \in 1 .. Len(cuts) - 1 : Tail(cuts)[i] = cuts[i + 1]
      BY <1>1, <2>1, HeadTailProperties
    <2>3. Len(cuts) - 1 = Len(q)
      BY <1>1
    <2> QED BY <2>2, <2>3
  <1>5. cuts[1] = n + Len(b.wps)
    BY <1>0, <1>1, <1>2 DEF Line
  <1>6. Link(s, t, src, cuts[1], cuts[2], q[1])
    BY <1>0, <1>1, <1>2 DEF Line
  <1>7. /\ Piece(s, src, n + Len(b.wps), r.period) /\ cuts[2] = n + Len(b.wps) + Len(r.period)
        /\ Announces(s, t, src, cuts[2], r.end) /\ Announces(s, t, src, n + Len(b.wps), q[1].start)
    BY <1>0, <1>2, <1>5, <1>6 DEF Link
  <1>8. Tail(cuts)[1] = cuts[2]
    BY <1>2, <1>4
  <1>9. \A i \in 1 .. Len(q) - 1 : Link(s, t, src, Tail(cuts)[i], Tail(cuts)[i + 1], Tail(q)[i])
    <2> SUFFICES ASSUME NEW i \in 1 .. Len(q) - 1
                 PROVE Link(s, t, src, Tail(cuts)[i], Tail(cuts)[i + 1], Tail(q)[i])
      OBVIOUS
    <2>1. i + 1 \in 1 .. Len(q) /\ i \in 1 .. Len(q)
      BY <1>1
    <2>2. Link(s, t, src, cuts[i + 1], cuts[i + 1 + 1], q[i + 1])
      BY <1>0, <2>1 DEF Line
    <2> QED BY <1>3, <1>4, <2>1, <2>2
  <1>10. Tail(cuts)[Len(Tail(q)) + 1] = total
    <2>1. Len(Tail(q)) + 1 = Len(q) /\ Len(q) \in 1 .. Len(q)
      BY <1>1, <1>2, <1>3
    <2> QED BY <1>0, <1>4, <2>1 DEF Line
  <1>11. Len(Tail(cuts)) = Len(Tail(q)) + 1
    BY <1>1, <1>3, <1>4
  <1>12. Line(s, t, src, n, Tail(cuts), b, r, Tail(q), total)
    BY <1>0, <1>3, <1>7, <1>8, <1>9, <1>10, <1>11 DEF Line
  <1>13. LineTypes(src, n, Tail(cuts), b, r, Tail(q))
    BY <1>0, <1>3, <1>4 DEF LineTypes
  <1>14. GoodLine(s, t, src, n, Tail(cuts), b, r, Tail(q), total)
    BY <1>12, <1>13 DEF GoodLine
  <1> QED BY <1>2, <1>3, <1>4, <1>7, <1>14

\* The sender makes another batch for the input.
LEMMA LineEnters ==
    ASSUME NEW s, NEW t, NEW src, NEW n, NEW cuts, NEW b, NEW p, NEW q, NEW total,
           GoodLine(s, t, src, n, cuts, b, p, q, total), NEW c \in Batch, NEW more \in Nat, Link(s, t, src, total, more, c)
    PROVE  /\ GoodLine(s, t, src, n, Append(cuts, more), b, p, Append(q, c), more)
           /\ Append(cuts, more) \in Seq(Nat) /\ Append(q, c) \in Seq(Batch)
PROOF
  <1>0. LineTypes(src, n, cuts, b, p, q) /\ Line(s, t, src, n, cuts, b, p, q, total)
    BY DEF GoodLine
  <1>1. Len(q) \in Nat /\ cuts \in Seq(Nat) /\ q \in Seq(Batch) /\ Len(cuts) = Len(q) + 1
    BY <1>0, LineTyped DEF LineTypes, Line
  <1>2. /\ Append(q, c) \in Seq(Batch) /\ Len(Append(q, c)) = Len(q) + 1
        /\ \A i \in 1 .. Len(q) : Append(q, c)[i] = q[i]
        /\ Append(q, c)[Len(q) + 1] = c
    BY <1>1, AppendProperties
  <1>3. /\ Append(cuts, more) \in Seq(Nat) /\ Len(Append(cuts, more)) = Len(q) + 2
        /\ \A i \in 1 .. Len(q) + 1 : Append(cuts, more)[i] = cuts[i]
        /\ Append(cuts, more)[Len(q) + 2] = more
    <2>1. /\ Append(cuts, more) \in Seq(Nat) /\ Len(Append(cuts, more)) = Len(cuts) + 1
          /\ \A i \in 1 .. Len(cuts) : Append(cuts, more)[i] = cuts[i]
          /\ Append(cuts, more)[Len(cuts) + 1] = more
      BY <1>1, AppendProperties
    <2>2. Len(cuts) + 1 = Len(q) + 2
      BY <1>1
    <2> QED BY <1>1, <2>1, <2>2
  <1>4. 1 \in 1 .. Len(q) + 1
    BY <1>1
  <1>5. Append(cuts, more)[1] = cuts[1]
    BY <1>3, <1>4
  <1>6. ASSUME NEW i \in 1 .. Len(q) + 1
        PROVE  Link(s, t, src, Append(cuts, more)[i], Append(cuts, more)[i + 1], Append(q, c)[i])
    <2>1. CASE i = Len(q) + 1
      <3>1. i + 1 = Len(q) + 2 /\ i \in 1 .. Len(q) + 1
        BY <1>1, <2>1
      <3>2. Append(cuts, more)[i] = total
        BY <1>0, <1>3, <2>1 DEF Line
      <3> QED BY <1>2, <1>3, <2>1, <3>1, <3>2
    <2>2. CASE i # Len(q) + 1
      <3>1. i \in 1 .. Len(q) /\ i + 1 \in 1 .. Len(q) + 1
        BY <1>1, <2>2
      <3>2. Link(s, t, src, cuts[i], cuts[i + 1], q[i])
        BY <1>0, <3>1 DEF Line
      <3> QED BY <1>2, <1>3, <3>1, <3>2
    <2> QED BY <2>1, <2>2
  <1>7. Len(Append(cuts, more)) = Len(Append(q, c)) + 1 /\ Append(cuts, more)[Len(Append(q, c)) + 1] = more
    <2>1. Len(q) + 1 + 1 = Len(q) + 2
      BY <1>1
    <2> QED BY <1>2, <1>3, <2>1
  <1>8. Line(s, t, src, n, Append(cuts, more), b, p, Append(q, c), more)
    BY <1>0, <1>2, <1>5, <1>6, <1>7 DEF Line
  <1>9. LineTypes(src, n, Append(cuts, more), b, p, Append(q, c))
    BY <1>0, <1>2, <1>3 DEF LineTypes
  <1>10. GoodLine(s, t, src, n, Append(cuts, more), b, p, Append(q, c), more)
    BY <1>8, <1>9 DEF GoodLine
  <1> QED BY <1>2, <1>3, <1>10

\* The batch is passed on, and the next one is empty.
LEMMA LineClears ==
    ASSUME NEW s, NEW t, NEW src, NEW n, NEW cuts, NEW b, NEW p, NEW q, NEW total,
           GoodLine(s, t, src, n, cuts, b, p, q, total), NEW c \in Batch, c.wps = <<>>
    PROVE  GoodLine(s, t, src, n + Len(b.wps), cuts, c, p, q, total)
PROOF
  <1>0. LineTypes(src, n, cuts, b, p, q) /\ Line(s, t, src, n, cuts, b, p, q, total)
    BY DEF GoodLine
  <1>1. /\ n + Len(b.wps) \in Nat /\ Len(p.period) \in Nat /\ Len(c.wps) = 0 /\ Len(b.wps) \in Nat
        /\ n \in Nat /\ src \in Seq(WavePacket)
    BY <1>0, LineTyped, EmptySeq DEF LineTypes
  <1>2. n + Len(b.wps) + Len(c.wps) = n + Len(b.wps)
    BY <1>1
  <1>3. Piece(s, src, n + Len(b.wps), c.wps)
    BY <1>0, <1>1 DEF Line, Piece
  <1>4. Line(s, t, src, n + Len(b.wps), cuts, c, p, q, total)
    BY <1>0, <1>2, <1>3 DEF Line
  <1>5. LineTypes(src, n + Len(b.wps), cuts, c, p, q)
    BY <1>0, <1>1 DEF LineTypes
  <1> QED BY <1>4, <1>5 DEF GoodLine

\* The source makes packets that the line does not hold yet.
LEMMA LineMore ==
    ASSUME NEW s, NEW t, NEW src, NEW n, NEW cuts, NEW b, NEW p, NEW q, NEW total,
           GoodLine(s, t, src, n, cuts, b, p, q, total),
           NEW t2 \in Nat, NEW src2, Emitted(src2, t2), Extends(src, t, src2, t2)
    PROVE  GoodLine(s, t2, src2, n, cuts, b, p, q, total)
PROOF
  <1>0. /\ LineTypes(src, n, cuts, b, p, q) /\ Line(s, t, src, n, cuts, b, p, q, total)
        /\ s \in Nat /\ t \in Nat /\ src2 \in Seq(WavePacket)
    BY DEF GoodLine, Emitted
  <1>1. /\ b.wps \in Seq(WavePacket) /\ n + Len(b.wps) \in Nat /\ n \in Nat /\ src \in Seq(WavePacket)
        /\ p.period \in Seq(WavePacket) /\ p.end \in Nat /\ p.current \in Nat /\ Len(q) \in Nat
        /\ Len(cuts) = Len(q) + 1
    BY <1>0, LineTyped DEF LineTypes, Line
  <1>2. \A i \in 1 .. Len(q) + 1 : cuts[i] \in Nat
    BY <1>0, <1>1, LineTyped
  <1>3. Piece(s, src2, n, b.wps) /\ Piece(s, src2, n + Len(b.wps), p.period)
    BY <1>0, <1>1, PieceMore DEF Line
  <1>4. 1 \in 1 .. Len(q) + 1 /\ cuts[1] \in Nat
    BY <1>1, <1>2
  <1>7. \A m, e \in Nat : Announces(s, t, src, m, e) => Announces(s, t2, src2, m, e)
    BY <1>0, <1>1, AnnouncesMore
  <1>5. Announces(s, t2, src2, n + Len(b.wps), p.current) /\ Announces(s, t2, src2, cuts[1], p.end)
    BY <1>0, <1>1, <1>4, <1>7 DEF Line
  <1>6. ASSUME NEW i \in 1 .. Len(q) PROVE Link(s, t2, src2, cuts[i], cuts[i + 1], q[i])
    <2>1. i \in 1 .. Len(q) + 1 /\ i + 1 \in 1 .. Len(q) + 1
      BY <1>1
    <2>2. /\ cuts[i] \in Nat /\ cuts[i + 1] \in Nat
          /\ q[i].wps \in Seq(WavePacket) /\ q[i].start \in Nat /\ q[i].end \in Nat
      BY <1>0, <1>2, <2>1, LineTyped
    <2>3. Link(s, t, src, cuts[i], cuts[i + 1], q[i])
      BY <1>0 DEF Line
    <2>4. Piece(s, src2, cuts[i], q[i].wps)
      BY <1>0, <1>1, <2>2, <2>3, PieceMore DEF Link
    <2>5. Announces(s, t2, src2, cuts[i], q[i].start) /\ Announces(s, t2, src2, cuts[i + 1], q[i].end)
      BY <1>7, <2>2, <2>3 DEF Link
    <2> QED BY <2>3, <2>4, <2>5 DEF Link
  <1>8. Line(s, t2, src2, n, cuts, b, p, q, total)
    BY <1>0, <1>3, <1>5, <1>6 DEF Line
  <1>9. LineTypes(src2, n, cuts, b, p, q)
    BY <1>0 DEF LineTypes
  <1> QED BY <1>0, <1>8, <1>9 DEF GoodLine

LEMMA TailJoined ==
    ASSUME NEW S, NEW u \in Seq(S), u # <<>>, NEW v \in Seq(S)
    PROVE  /\ Tail(u) \o v = Tail(u \o v) /\ Head(u \o v) = Head(u) /\ u \o v # <<>>
           /\ u \o v \in Seq(S)
PROOF
  <1>1. Len(u) \in Nat \ {0} /\ Len(v) \in Nat
    BY EmptySeq
  <1>2. /\ u \o v \in Seq(S) /\ Len(u \o v) = Len(u) + Len(v)
        /\ \A i \in 1 .. Len(u) + Len(v) : (u \o v)[i] = IF i <= Len(u) THEN u[i] ELSE v[i - Len(u)]
    BY ConcatProperties
  <1>3. Len(u \o v) # 0
    BY <1>1, <1>2
  <1>4. u \o v # <<>>
    BY <1>3
  <1>5. /\ Tail(u) \in Seq(S) /\ Len(Tail(u)) = Len(u) - 1
        /\ \A i \in 1 .. Len(u) - 1 : Tail(u)[i] = u[i + 1]
    BY HeadTailProperties
  <1>6. /\ Tail(u \o v) \in Seq(S) /\ Len(Tail(u \o v)) = Len(u) + Len(v) - 1
        /\ \A i \in 1 .. Len(u) + Len(v) - 1 : Tail(u \o v)[i] = (u \o v)[i + 1]
    BY <1>2, <1>4, HeadTailProperties
  <1>7. /\ Tail(u) \o v \in Seq(S) /\ Len(Tail(u) \o v) = Len(u) - 1 + Len(v)
        /\ \A i \in 1 .. Len(u) - 1 + Len(v) :
              (Tail(u) \o v)[i] = IF i <= Len(u) - 1 THEN Tail(u)[i] ELSE v[i - (Len(u) - 1)]
    <2>1. /\ Tail(u) \o v \in Seq(S) /\ Len(Tail(u) \o v) = Len(Tail(u)) + Len(v)
          /\ \A i \in 1 .. Len(Tail(u)) + Len(v) :
                (Tail(u) \o v)[i] = IF i <= Len(Tail(u)) THEN Tail(u)[i] ELSE v[i - Len(Tail(u))]
      BY <1>5, ConcatProperties
    <2> QED BY <1>5, <2>1
  <1>8. ASSUME NEW i \in 1 .. Len(u) - 1 + Len(v) PROVE (Tail(u) \o v)[i] = Tail(u \o v)[i]
    <2>1. i \in 1 .. Len(u) + Len(v) - 1 /\ i + 1 \in 1 .. Len(u) + Len(v)
      BY <1>1
    <2>2. Tail(u \o v)[i] = IF i + 1 <= Len(u) THEN u[i + 1] ELSE v[i + 1 - Len(u)]
      BY <1>2, <1>6, <2>1
    <2>3. CASE i <= Len(u) - 1
      <3>1. i \in 1 .. Len(u) - 1 /\ i + 1 <= Len(u)
        BY <1>1, <2>3
      <3> QED BY <1>5, <1>7, <2>2, <2>3, <3>1
    <2>4. CASE ~ i <= Len(u) - 1
      <3>1. ~ i + 1 <= Len(u) /\ i - (Len(u) - 1) = i + 1 - Len(u)
        BY <1>1, <2>4
      <3> QED BY <1>7, <2>2, <2>4, <3>1
    <2> QED BY <2>3, <2>4
  <1>9. Len(u) - 1 + Len(v) = Len(u) + Len(v) - 1
    BY <1>1
  <1>10. Tail(u) \o v = Tail(u \o v)
    BY <1>6, <1>7, <1>8, <1>9, SeqEqual
  <1>11. Head(u \o v) = Head(u)
    <2>1. 1 \in 1 .. Len(u) + Len(v) /\ 1 <= Len(u)
      BY <1>1
    <2>2. (u \o v)[1] = u[1]
      BY <1>2, <2>1
    <2> QED BY <1>2, <1>4, <2>2
  <1> QED BY <1>2, <1>4, <1>10, <1>11

LEMMA AppendJoined ==
    ASSUME NEW S, NEW u \in Seq(S), NEW e \in S
    PROVE  /\ Append(u, e) \o <<>> = u \o <<e>>
           /\ Append(u \o <<>>, e) = u \o <<e>>
           /\ u \o <<>> = u
PROOF
  <1>1. Append(u, e) \in Seq(S) /\ Append(u, e) = u \o <<e>>
    BY AppendProperties, AppendIsConcat
  <1>2. Append(u, e) \o <<>> = Append(u, e) /\ u \o <<>> = u
    BY <1>1, ConcatEmptySeq
  <1> QED BY <1>1, <1>2

-----------------------------------------------------------------------------
(* The invariant.                                                          *)

Source(src)    == Emitted(src, time) /\ Len(src) = generated
Shift(r)       == IF r = "right" THEN setup.delay ELSE 0
Mid(r, base)   == base[r] + Len(batch[r].wps)
Total(r, base) == IF r = "right" THEN base["delay"] ELSE generated

\* The batches on their way to an input, in the channel or with the sender.
Queued(r) ==
    IF r = "left" THEN IF Len(outbox["epps"]) = 2 THEN <<outbox["epps"][1].batch>> ELSE <<>>
    ELSE IF r = "delay"
         THEN IF outbox["epps"] # <<>> THEN <<outbox["epps"][Len(outbox["epps"])].batch>> ELSE <<>>
         ELSE IF outbox["delay"] # <<>> THEN <<outbox["delay"][1].batch>> ELSE <<>>
Pending(r) == channel[r] \o Queued(r)

Destinations ==
    /\ Len(outbox["epps"]) = 2 => outbox["epps"][1].to = "left" /\ outbox["epps"][2].to = "delay"
    /\ Len(outbox["epps"]) = 1 => outbox["epps"][1].to = "delay"
    /\ Len(outbox["delay"]) = 1 => outbox["delay"][1].to = "right"

Lines(src, base, cuts) ==
    \A r \in Inputs :
        Line(Shift(r), time, src, base[r], cuts[r], batch[r], port[r], Pending(r), Total(r, base))

DelayPhase(src, base) ==
    /\ pc["delay"] = "idle" => batch["delay"].wps = <<>>
    /\ pc["delay"] # "idle" => /\ outbox["delay"] = <<>>
                               /\ Announces(0, time, src, base["delay"], batch["delay"].start)
    /\ pc["delay"] = "transmit" => Announces(0, time, src, Mid("delay", base), batch["delay"].end)

\* The end time of the beam splitter is one that both ports have announced or
\* that of a packet in its batches.
EndAnnounced(src, base) ==
    \/ \A r \in Sides : Behind(Shift(r), time, src, Mid(r, base), endTime)
    \/ \E r \in Sides : \E i \in 1 .. Len(batch[r].wps) : endTime = batch[r].wps[i].time

DualPhase(src, base) ==
    /\ pc["dual"] = "idle" => \A r \in Sides : batch[r].wps = <<>>
    /\ pc["dual"] = "getRight" => Announces(0, time, src, Mid("left", base), batch["left"].end)
    /\ pc["dual"] \in PullPlaces => EndAnnounced(src, base)
    /\ pc["dual"] \in {"check", "scatter"} => Announces(0, time, src, Mid("left", base), Reference("left"))
    /\ pc["dual"] = "scatter" => Announces(Shift("right"), time, src, Mid("right", base), Reference("right"))

\* The first n packets as they come to an input.
First(s, src, n) == {Shifted(s, src[k]) : k \in 1 .. n}

\* What the beam splitter has passed: the first packets of each side. Those to
\* come do not belong before them.
Passage(src, base) ==
    \A r \in Sides :
        /\ UNION {Passed(m, r) : m \in 1 .. Len(scattered)} = First(Shift(r), src, base[r])
        /\ \A m \in 1 .. Len(scattered) :
              /\ Behind(Shift(r), time, src, base[r], scattered[m].end)
              /\ \A wp \in PassedBoth(m) : Behind(Shift(r), time, src, base[r], wp.time)
              /\ Uniform => \A wp \in Passed(m, Other(r)) :
                               Clear(Shift(r), time, src, base[r], TrailingEdge(wp))

Order(src, base, cuts) ==
    /\ base \in [Inputs -> Nat] /\ cuts \in [Inputs -> Seq(Nat)]
    /\ Source(src) /\ Destinations /\ Lines(src, base, cuts)
    /\ DelayPhase(src, base) /\ DualPhase(src, base) /\ Passage(src, base)

InOrder ==
    \E src \in Seq(WavePacket), base \in [Inputs -> Nat], cuts \in [Inputs -> Seq(Nat)] :
        Order(src, base, cuts)

LEMMA QueuedAre ==
    /\ Queued("left") = IF Len(outbox["epps"]) = 2 THEN <<outbox["epps"][1].batch>> ELSE <<>>
    /\ Queued("delay") = IF outbox["epps"] # <<>> THEN <<outbox["epps"][Len(outbox["epps"])].batch>> ELSE <<>>
    /\ Queued("right") = IF outbox["delay"] # <<>> THEN <<outbox["delay"][1].batch>> ELSE <<>>
PROOF
  <1>1. "left" # "delay" /\ "delay" # "right" /\ "left" # "right"
    OBVIOUS
  <1> QED BY <1>1, Zenon DEF Queued

LEMMA QueuedTypes ==
    ASSUME TypeInv, NEW r \in Inputs
    PROVE  Queued(r) \in Seq(Batch) /\ Pending(r) \in Seq(Batch)
PROOF
  <1>1. outbox["epps"] \in Seq([to : Inputs, batch : Batch]) /\ outbox["delay"] \in Seq([to : Inputs, batch : Batch])
    BY DEF TypeInv, OutboxTypes, Senders
  <1>2. \A e \in [to : Inputs, batch : Batch] : <<e.batch>> \in Seq(Batch)
    OBVIOUS
  <1>3. \A s \in Seq([to : Inputs, batch : Batch]) :
           s # <<>> => s[1] \in [to : Inputs, batch : Batch] /\ s[Len(s)] \in [to : Inputs, batch : Batch]
    <2> SUFFICES ASSUME NEW s \in Seq([to : Inputs, batch : Batch]), s # <<>>
                 PROVE s[1] \in [to : Inputs, batch : Batch] /\ s[Len(s)] \in [to : Inputs, batch : Batch]
      OBVIOUS
    <2>1. Len(s) \in Nat \ {0}
      BY EmptySeq
    <2>2. 1 \in 1 .. Len(s) /\ Len(s) \in 1 .. Len(s)
      BY <2>1
    <2> QED BY <2>2, ElementOfSeq
  <1>4. <<>> \in Seq(Batch)
    BY EmptySeq
  <1>5. Len(outbox["epps"]) = 2 => outbox["epps"] # <<>>
    <2>1. Len(<<>>) = 0 /\ 0 # 2
      OBVIOUS
    <2> QED BY <2>1, Zenon
  <1>6. Queued("left") \in Seq(Batch)
    <2>1. CASE Len(outbox["epps"]) = 2
      <3>1. outbox["epps"][1] \in [to : Inputs, batch : Batch]
        BY <1>1, <1>3, <1>5, <2>1
      <3>2. <<outbox["epps"][1].batch>> \in Seq(Batch)
        BY <1>2, <3>1
      <3> QED BY <2>1, <3>2, QueuedAre, Zenon
    <2>2. CASE Len(outbox["epps"]) # 2
      BY <1>4, <2>2, QueuedAre, Zenon
    <2> QED BY <2>1, <2>2
  <1>7. Queued("delay") \in Seq(Batch)
    <2>1. CASE outbox["epps"] # <<>>
      <3>1. outbox["epps"][Len(outbox["epps"])] \in [to : Inputs, batch : Batch]
        BY <1>1, <1>3, <2>1
      <3>2. <<outbox["epps"][Len(outbox["epps"])].batch>> \in Seq(Batch)
        BY <1>2, <3>1
      <3> QED BY <2>1, <3>2, QueuedAre, Zenon
    <2>2. CASE outbox["epps"] = <<>>
      BY <1>4, <2>2, QueuedAre, Zenon
    <2> QED BY <2>1, <2>2
  <1>8. Queued("right") \in Seq(Batch)
    <2>1. CASE outbox["delay"] # <<>>
      <3>1. outbox["delay"][1] \in [to : Inputs, batch : Batch]
        BY <1>1, <1>3, <2>1
      <3>2. <<outbox["delay"][1].batch>> \in Seq(Batch)
        BY <1>2, <3>1
      <3> QED BY <2>1, <3>2, QueuedAre, Zenon
    <2>2. CASE outbox["delay"] = <<>>
      BY <1>4, <2>2, QueuedAre, Zenon
    <2> QED BY <2>1, <2>2
  <1>10. Queued(r) \in Seq(Batch)
    BY <1>6, <1>7, <1>8 DEF Inputs
  <1>11. channel[r] \in Seq(Batch)
    BY DEF TypeInv, PortTypes
  <1> QED BY <1>10, <1>11, ConcatProperties DEF Pending

LEMMA OrderTypes ==
    ASSUME TypeInv, NEW src, NEW base, NEW cuts, Order(src, base, cuts), NEW r \in Inputs
    PROVE  /\ LineTypes(src, base[r], cuts[r], batch[r], port[r], Pending(r))
           /\ GoodLine(Shift(r), time, src, base[r], cuts[r], batch[r], port[r], Pending(r), Total(r, base))
           /\ Shift(r) \in Nat /\ time \in Nat /\ Total(r, base) \in Nat
           /\ base[r] \in Nat /\ batch[r].wps \in Seq(WavePacket) /\ Len(batch[r].wps) \in Nat /\ Mid(r, base) \in Nat
           /\ src \in Seq(WavePacket) /\ Emitted(src, time) /\ Len(src) = generated
PROOF
  <1>1. src \in Seq(WavePacket) /\ Emitted(src, time) /\ Len(src) = generated
    BY DEF Order, Source, Emitted
  <1>2. LineTypes(src, base[r], cuts[r], batch[r], port[r], Pending(r))
    BY <1>1, QueuedTypes DEF LineTypes, Order, TypeInv, PortTypes
  <1>3. time \in Nat /\ setup.delay \in Nat /\ generated \in Nat
    BY PortsAssumption DEF TypeInv, SourceTypes
  <1>4. Shift(r) \in Nat
    BY <1>3 DEF Shift
  <1>5. base["delay"] \in Nat /\ base[r] \in Nat
    BY DEF Order, Inputs
  <1>6. Total(r, base) \in Nat
    BY <1>3, <1>5 DEF Total
  <1>7. batch[r].wps \in Seq(WavePacket) /\ Len(batch[r].wps) \in Nat
    BY <1>2, LineTyped
  <1>8. Mid(r, base) \in Nat
    BY <1>5, <1>7 DEF Mid
  <1>9. GoodLine(Shift(r), time, src, base[r], cuts[r], batch[r], port[r], Pending(r), Total(r, base))
    BY <1>1, <1>2, <1>3, <1>4 DEF Order, Lines, GoodLine
  <1> QED BY <1>1, <1>2, <1>3, <1>4, <1>5, <1>6, <1>7, <1>8, <1>9

LEMMA QueuedNext ==
    /\ Queued("left")' = IF Len(outbox'["epps"]) = 2 THEN <<outbox'["epps"][1].batch>> ELSE <<>>
    /\ Queued("delay")' = IF outbox'["epps"] # <<>> THEN <<outbox'["epps"][Len(outbox'["epps"])].batch>> ELSE <<>>
    /\ Queued("right")' = IF outbox'["delay"] # <<>> THEN <<outbox'["delay"][1].batch>> ELSE <<>>
PROOF
  <1>1. "left" # "delay" /\ "delay" # "right" /\ "left" # "right"
    OBVIOUS
  <1> QED BY <1>1, Zenon DEF Queued

\* A send changes nothing of what is on the way.
LEMMA SendPending ==
    ASSUME TypeInv, Destinations, NEW t \in Senders, Send(t)
    PROVE  Destinations' /\ \A r \in Inputs : Pending(r)' = Pending(r)
PROOF
  <1> DEFINE Sends == [to : Inputs, batch : Batch]
             ob    == outbox[t]
             x     == ob[1]
  <1>1. /\ ob \in Seq(Sends) /\ ob # <<>> /\ Head(ob) = ob[1]
        /\ outbox \in [Senders -> Seq(Sends)] /\ Len(outbox["epps"]) <= 2 /\ Len(outbox["delay"]) <= 1
        /\ channel \in [Inputs -> Seq(Batch)]
    <2>1. /\ outbox \in [Senders -> Seq(Sends)] /\ Len(outbox["epps"]) <= 2 /\ Len(outbox["delay"]) <= 1
          /\ channel \in [Inputs -> Seq(Batch)]
      BY DEF TypeInv, OutboxTypes, PortTypes
    <2>2. ob \in Seq(Sends) /\ ob # <<>>
      BY <2>1 DEF Send
    <2>3. Head(ob) = ob[1]
      BY <2>2
    <2> HIDE DEF ob, Sends
    <2> QED BY <2>1, <2>2, <2>3
  <1>2. /\ Len(ob) \in Nat \ {0} /\ x \in Sends
        /\ Len(Tail(ob)) = Len(ob) - 1 /\ \A i \in 1 .. Len(ob) - 1 : Tail(ob)[i] = ob[i + 1]
    <2>1. Len(ob) \in Nat \ {0}
      BY <1>1, EmptySeq
    <2>2. 1 \in 1 .. Len(ob)
      BY <2>1
    <2>3. x \in Sends
      BY <1>1, <2>2, ElementOfSeq
    <2>4. Len(Tail(ob)) = Len(ob) - 1 /\ \A i \in 1 .. Len(Tail(ob)) : Tail(ob)[i] = ob[i + 1]
      BY <1>1, HeadTailProperties
    <2> HIDE DEF ob
    <2> QED BY <2>1, <2>3, <2>4
  <1>3. channel' = [channel EXCEPT ![x.to] = Append(@, x.batch)] /\ outbox' = [outbox EXCEPT ![t] = Tail(ob)]
    BY <1>1 DEF Send
  <1>4. x.to \in Inputs /\ x.batch \in Batch
    BY <1>2
  <1>5. /\ channel'[x.to] = Append(channel[x.to], x.batch)
        /\ \A r \in Inputs : r # x.to => channel'[r] = channel[r]
        /\ channel[x.to] \in Seq(Batch)
    BY <1>1, <1>3, <1>4
  <1>6. /\ channel'[x.to] \o <<>> = channel[x.to] \o <<x.batch>>
    <2>1. PICK u \in Seq(Batch), e \in Batch : u = channel[x.to] /\ e = x.batch
      BY <1>4, <1>5
    <2>2. Append(u, e) \o <<>> = u \o <<e>>
      BY AppendJoined
    <2> QED BY <1>5, <2>1, <2>2
  <1>7. outbox'[t] = Tail(ob) /\ \A u \in Senders : u # t => outbox'[u] = outbox[u]
    BY <1>1, <1>3
  <1>8. "epps" \in Senders /\ "delay" \in Senders
    BY DEF Senders
  <1>9. CASE t = "epps" /\ Len(ob) = 2
    <2>1. x.to = "left" /\ ob[2].to = "delay" /\ outbox'["delay"] = outbox["delay"]
      BY <1>7, <1>8, <1>9 DEF Destinations
    <2>2. Len(outbox'["epps"]) = 1 /\ outbox'["epps"][1] = ob[2]
      <3>1. 1 \in 1 .. Len(ob) - 1 /\ Len(ob) - 1 = 1 /\ 1 + 1 = 2
        BY <1>9
      <3>2. Len(Tail(ob)) = 1 /\ Tail(ob)[1] = ob[2]
        BY <1>2, <3>1
      <3> QED BY <1>7, <1>9, <3>2
    <2>3. outbox'["epps"] # <<>> /\ Len(outbox'["epps"]) # 2
      <3>1. Len(<<>>) = 0
        OBVIOUS
      <3> QED BY <2>2, <3>1
    <2>4. Queued("left") = <<x.batch>> /\ Queued("delay") = <<ob[2].batch>>
      BY <1>1, <1>9, QueuedAre
    <2>5. Queued("left")' = <<>> /\ Queued("delay")' = <<ob[2].batch>> /\ Queued("right")' = Queued("right")
      <3>1. Queued("left")' = <<>>
        BY <2>3, QueuedNext, Zenon
      <3>2. Queued("delay")' = <<ob[2].batch>>
        BY <2>2, <2>3, QueuedNext, Zenon
      <3>3. Queued("right")' = Queued("right")
        BY <2>1, QueuedNext, QueuedAre, Zenon
      <3> QED BY <3>1, <3>2, <3>3
    <2>6. Destinations'
      BY <2>1, <2>2 DEF Destinations
    <2>7. Pending("left")' = Pending("left")
      BY <1>6, <2>1, <2>4, <2>5, Zenon DEF Pending
    <2>8. \A r \in {"delay", "right"} : channel'[r] = channel[r]
      BY <1>5, <2>1 DEF Inputs
    <2>9. Pending("delay")' = Pending("delay") /\ Pending("right")' = Pending("right")
      BY <2>4, <2>5, <2>8, Zenon DEF Pending
    <2> QED BY <2>6, <2>7, <2>9 DEF Inputs
  <1>10. CASE t = "epps" /\ Len(ob) = 1
    <2>1. x.to = "delay" /\ outbox'["delay"] = outbox["delay"]
      BY <1>7, <1>8, <1>10 DEF Destinations
    <2>2. Len(outbox'["epps"]) = 0 /\ outbox'["epps"] = <<>>
      <3>1. Tail(ob) \in Seq(Sends) /\ Len(Tail(ob)) = 0
        BY <1>1, <1>2, <1>10, HeadTailProperties
      <3>2. Tail(ob) = <<>>
        BY <3>1, EmptySeq
      <3> QED BY <1>7, <1>10, <3>1, <3>2
    <2>3. Len(outbox["epps"]) # 2 /\ outbox["epps"] # <<>> /\ Len(outbox'["epps"]) # 2 /\ outbox["epps"][Len(outbox["epps"])] = x
      BY <1>1, <1>10, <2>2
    <2>4. Queued("left") = <<>> /\ Queued("delay") = <<x.batch>>
      BY <2>3, QueuedAre, Zenon
    <2>5. Queued("left")' = <<>> /\ Queued("delay")' = <<>> /\ Queued("right")' = Queued("right")
      <3>1. Queued("left")' = <<>> /\ Queued("delay")' = <<>>
        BY <2>2, <2>3, QueuedNext, Zenon
      <3>2. Queued("right")' = Queued("right")
        BY <2>1, QueuedNext, QueuedAre, Zenon
      <3> QED BY <3>1, <3>2
    <2>6. Destinations'
      BY <2>1, <2>2 DEF Destinations
    <2>7. Pending("delay")' = Pending("delay")
      BY <1>6, <2>1, <2>4, <2>5, Zenon DEF Pending
    <2>8. \A r \in {"left", "right"} : channel'[r] = channel[r]
      BY <1>5, <2>1 DEF Inputs
    <2>9. Pending("left")' = Pending("left") /\ Pending("right")' = Pending("right")
      BY <2>4, <2>5, <2>8, Zenon DEF Pending
    <2> QED BY <2>6, <2>7, <2>9 DEF Inputs
  <1>11. CASE t = "delay"
    <2>0. Len(ob) = 1
      <3>1. PICK m \in Nat : m # 0 /\ m = Len(ob)
        BY <1>2
      <3>2. m <= 1
        BY <1>1, <1>11, <3>1
      <3>3. \A i \in Nat : i # 0 /\ i <= 1 => i = 1
        OBVIOUS
      <3>4. m = 1
        BY <3>1, <3>2, <3>3
      <3> QED BY <3>1, <3>4
    <2>1. x.to = "right" /\ outbox'["epps"] = outbox["epps"]
      BY <1>7, <1>8, <1>11, <2>0 DEF Destinations
    <2>2. Len(outbox'["delay"]) = 0 /\ outbox'["delay"] = <<>>
      <3>1. Tail(ob) \in Seq(Sends) /\ Len(Tail(ob)) = 0
        BY <1>1, <1>2, <2>0, HeadTailProperties
      <3>2. Tail(ob) = <<>>
        BY <3>1, EmptySeq
      <3> QED BY <1>7, <1>11, <3>1, <3>2
    <2>4. Queued("right") = <<x.batch>> /\ Queued("right")' = <<>>
      BY <1>1, <1>11, <2>2, QueuedAre, QueuedNext, Zenon
    <2>5. Queued("left")' = Queued("left") /\ Queued("delay")' = Queued("delay")
      <3>1. Queued("left")' = Queued("left")
        BY <2>1, QueuedNext, QueuedAre
      <3>2. Queued("delay")' = Queued("delay")
        BY <2>1, QueuedNext, QueuedAre
      <3> QED BY <3>1, <3>2
    <2>6. Destinations'
      BY <2>1, <2>2 DEF Destinations
    <2>7. Pending("right")' = Pending("right")
      BY <1>6, <2>1, <2>4, Zenon DEF Pending
    <2>8. \A r \in {"left", "delay"} : channel'[r] = channel[r]
      BY <1>5, <2>1 DEF Inputs
    <2>9. Pending("left")' = Pending("left") /\ Pending("delay")' = Pending("delay")
      BY <2>5, <2>8, Zenon DEF Pending
    <2> QED BY <2>6, <2>7, <2>9 DEF Inputs
  <1>12. t = "epps" => Len(ob) = 1 \/ Len(ob) = 2
    <2>1. PICK m \in Nat : m # 0 /\ m = Len(ob)
      BY <1>2
    <2>2. t = "epps" => m <= 2
      BY <1>1, <2>1
    <2>3. \A i \in Nat : i # 0 /\ i <= 2 => i = 1 \/ i = 2
      OBVIOUS
    <2>4. t = "epps" => m = 1 \/ m = 2
      BY <2>1, <2>2, <2>3
    <2> QED BY <2>1, <2>4
  <1> QED BY <1>9, <1>10, <1>11, <1>12 DEF Senders

LEMMA PassageStays ==
    ASSUME NEW src, NEW base, UNCHANGED <<setup, time, scattered>>, Passage(src, base)
    PROVE  Passage(src, base)'
PROOF
  <1>1. \A r \in Sides : Shift(r)' = Shift(r)
    BY DEF Shift
  <1>2. \A m : PassedBoth(m)' = PassedBoth(m) /\ \A r : Passed(m, r)' = Passed(m, r)
    BY DEF PassedBoth, Passed
  <1> QED BY <1>1, <1>2 DEF Passage

LEMMA SendOrder ==
    ASSUME TypeInv, NEW src, NEW base, NEW cuts, Order(src, base, cuts), NEW t \in Senders, Send(t)
    PROVE  Order(src, base, cuts)'
PROOF
  <1>1. Destinations' /\ \A r \in Inputs : Pending(r)' = Pending(r)
    BY SendPending DEF Order
  <1>2. UNCHANGED <<setup, time, generated, port, batch, endTime, pc, scattered>>
    BY DEF Send
  <1>3. \A r \in Inputs : Shift(r)' = Shift(r) /\ Total(r, base)' = Total(r, base)
    BY <1>2 DEF Shift, Total
  <1>4. Lines(src, base, cuts)'
    BY <1>1, <1>2, <1>3 DEF Order, Lines
  <1>5. pc["delay"] # "idle" => outbox'["delay"] = outbox["delay"]
    <2>1. pc["delay"] # "idle" => t # "delay"
      BY DEF Send, Order, DelayPhase
    <2>2. outbox \in [Senders -> Seq([to : Inputs, batch : Batch])] /\ "delay" \in Senders
      BY DEF TypeInv, OutboxTypes, Senders
    <2> QED BY <2>1, <2>2 DEF Send
  <1>6. DelayPhase(src, base)'
    BY <1>2, <1>5 DEF Order, DelayPhase, Mid
  <1>7. DualPhase(src, base)'
    BY <1>2 DEF Order, DualPhase, EndAnnounced, Mid, Shift, Reference
  <1>8. Passage(src, base)' /\ Source(src)'
    BY <1>2, PassageStays DEF Order, Source
  <1> QED BY <1>1, <1>4, <1>6, <1>7, <1>8 DEF Order

\* The clock of a port that has been advanced announces what it shows.
LEMMA NowAnnounced ==
    ASSUME NEW s, NEW t, NEW src, NEW n, NEW cuts, NEW b, NEW p, NEW q, NEW total,
           GoodLine(s, t, src, n, cuts, b, p, q, total), Widths, NEW k \in 0 .. Len(p.period)
    PROVE  Announces(s, t, src, n + Len(b.wps) + k, Advanced(p, k).current)
PROOF
  <1>0. /\ LineTypes(src, n, cuts, b, p, q) /\ Line(s, t, src, n, cuts, b, p, q, total)
        /\ s \in Nat /\ t \in Nat /\ Emitted(src, t) /\ src \in Seq(WavePacket) /\ p \in RxPorts
    BY DEF GoodLine, LineTypes
  <1>1. /\ n + Len(b.wps) \in Nat /\ Len(p.period) \in Nat
        /\ p.period \in Seq(WavePacket) /\ Len(src) \in Nat
    BY <1>0, LineTyped
  <1>2. PICK m \in Nat, l \in Nat : m = n + Len(b.wps) /\ l = Len(p.period)
    BY <1>1
  <1>3. /\ k = l => Advanced(p, k).current = p.end
        /\ k < l => Advanced(p, k).current = LeadingEdge(p.period[k + 1])
    BY <1>0, <1>1, <1>2, AdvancedIs
  <1>4. CASE k = l
    BY <1>0, <1>2, <1>3, <1>4 DEF Line
  <1>5. CASE k < l
    <2>1. k + 1 \in 1 .. l /\ m + k \in Nat /\ m + (k + 1) = m + k + 1
      BY <1>5
    <2>2. Piece(s, src, m, p.period)
      BY <1>0, <1>2 DEF Line
    <2>3. p.period[k + 1] = Shifted(s, src[m + k + 1]) /\ m + l <= Len(src)
      BY <1>2, <2>1, <2>2 DEF Piece
    <2>4. m + k < Len(src)
      BY <1>0, <1>1, <1>5, <2>3
    <2>5. p.period[k + 1] \in WavePacket
      BY <1>1, <1>2, <2>1, ElementOfSeq
    <2> DEFINE f == LeadingEdge(p.period[k + 1])
    <2>6. f \in Nat
      BY <2>5, EdgeTypes
    <2>7. f <= LeadingEdge(Shifted(s, src[m + k + 1]))
      BY <2>3, <2>6
    <2> HIDE DEF f
    <2>8. Announces(s, t, src, m + k, f)
      BY <1>0, <2>1, <2>4, <2>6, <2>7, NextAnnounces
    <2> QED BY <1>2, <1>3, <1>5, <2>8 DEF f
  <1> QED BY <1>2, <1>4, <1>5

LEMMA LineAdvances ==
    ASSUME NEW s, NEW t, NEW src, NEW n, NEW cuts, NEW b, NEW p, NEW q, NEW total,
           GoodLine(s, t, src, n, cuts, b, p, q, total), Widths, NEW k, NEW c, Grown(b, p, k, c)
    PROVE  /\ GoodLine(s, t, src, n, cuts, c, Advanced(p, k), q, total)
           /\ Len(c.wps) = Len(b.wps) + k
PROOF
  <1>1. p \in RxPorts /\ k \in 0 .. Len(p.period)
    BY DEF GoodLine, LineTypes, Grown
  <1>2. Left(p, k, Advanced(p, k))
    BY <1>1, AdvancedIs DEF Left
  <1>3. Announces(s, t, src, n + Len(b.wps) + k, Advanced(p, k).current)
    BY <1>1, NowAnnounced
  <1> QED BY <1>2, <1>3, LineTakes

\* The whole period is taken and the next one received; the clock of the port
\* may stand anywhere it could stand before.
LEMMA LineTurns ==
    ASSUME NEW s, NEW t, NEW src, NEW n, NEW cuts, NEW b, NEW p, NEW q, NEW total,
           GoodLine(s, t, src, n, cuts, b, p, q, total), Widths,
           NEW c, Grown(b, p, Len(p.period), c), NEW r, Renewed(q, r),
           r.current = p.current \/ r.current = Advanced(p, Len(p.period)).current
    PROVE  /\ GoodLine(s, t, src, n, Tail(cuts), c, r, Tail(q), total)
           /\ Tail(cuts) \in Seq(Nat)
           /\ Announces(s, t, src, n + Len(c.wps), Head(q).start)
PROOF
  <1>a. PICK k : k = Len(p.period)
    OBVIOUS
  <1>b. PICK now : now = Advanced(p, k)
    OBVIOUS
  <1>c. Grown(b, p, k, c)
    BY <1>a
  <1>0. LineTypes(src, n, cuts, b, p, q) /\ Line(s, t, src, n, cuts, b, p, q, total) /\ s \in Nat /\ t \in Nat
    BY DEF GoodLine
  <1>1. /\ n + Len(b.wps) \in Nat /\ Len(p.period) \in Nat /\ p \in RxPorts /\ n \in Nat /\ Len(b.wps) \in Nat
        /\ src \in Seq(WavePacket) /\ p.current \in Nat
    <2>1. /\ n + Len(b.wps) \in Nat /\ Len(p.period) \in Nat /\ Len(b.wps) \in Nat /\ p.current \in Nat
      BY <1>0, LineTyped
    <2> QED BY <1>0, <2>1 DEF LineTypes
  <1>2. k \in 0 .. Len(p.period) /\ k \in Nat
    BY <1>1, <1>a
  <1>3. GoodLine(s, t, src, n, cuts, c, now, q, total) /\ Len(c.wps) = Len(b.wps) + k
    BY <1>b, <1>c, LineAdvances
  <1>4. now.period = <<>>
    BY <1>1, <1>2, <1>a, <1>b, AdvancedIs
  <1>5. Announces(s, t, src, n + Len(c.wps), r.current)
    <2>1. CASE r.current = now.current
      <3>1. Announces(s, t, src, n + Len(c.wps), now.current)
        BY <1>3 DEF GoodLine, Line
      <3> QED BY <2>1, <3>1
    <2>2. CASE r.current = p.current
      <3>1. Announces(s, t, src, n + Len(b.wps), p.current)
        BY <1>0 DEF Line
      <3>2. PICK x \in Nat, y \in Nat, z \in Nat : x = n /\ y = Len(b.wps) /\ z = k
        BY <1>1, <1>2
      <3>3. n + Len(b.wps) = x + y /\ n + Len(c.wps) = x + (y + z)
        BY <1>3, <3>2
      <3>4. PICK m \in Nat, l \in Nat : m = x + y /\ l = x + (y + z) /\ m <= l
        OBVIOUS
      <3>5. p.current <= p.current
        BY <1>1
      <3>6. Announces(s, t, src, m, p.current)
        BY <3>1, <3>3, <3>4
      <3>7. Announces(s, t, src, l, p.current)
        BY <1>0, <1>1, <3>4, <3>5, <3>6, AnnouncesLater
      <3> QED BY <2>2, <3>3, <3>4, <3>7
    <2> QED BY <1>a, <1>b, <2>1, <2>2
  <1> QED BY <1>3, <1>4, <1>5, LineReceives

LEMMA ReceivePending ==
    ASSUME TypeInv, NEW r \in Inputs, channel[r] # <<>>,
           channel' = [channel EXCEPT ![r] = Tail(channel[r])], UNCHANGED outbox
    PROVE  /\ Pending(r)' = Tail(Pending(r)) /\ Pending(r) # <<>> /\ Head(Pending(r)) = Head(channel[r])
           /\ \A i \in Inputs \ {r} : Pending(i)' = Pending(i)
PROOF
  <1>1. channel \in [Inputs -> Seq(Batch)] /\ Queued(r) \in Seq(Batch)
    BY QueuedTypes DEF TypeInv, PortTypes
  <1>2. \A i \in Inputs : Queued(i)' = Queued(i)
    BY DEF Queued
  <1>3. channel'[r] = Tail(channel[r]) /\ \A i \in Inputs \ {r} : channel'[i] = channel[i]
    BY <1>1
  <1>4. /\ Tail(channel[r]) \o Queued(r) = Tail(channel[r] \o Queued(r))
        /\ Head(channel[r] \o Queued(r)) = Head(channel[r]) /\ channel[r] \o Queued(r) # <<>>
    BY <1>1, TailJoined
  <1>5. Pending(r)' = Tail(channel[r]) \o Queued(r)
    BY <1>2, <1>3 DEF Pending
  <1>6. \A i \in Inputs \ {r} : Pending(i)' = Pending(i)
    BY <1>2, <1>3 DEF Pending
  <1> QED BY <1>4, <1>5, <1>6 DEF Pending

LEMMA SamePending ==
    ASSUME UNCHANGED <<channel, outbox>>
    PROVE  \A i \in Inputs : Pending(i)' = Pending(i)
  BY DEF Pending, Queued

\* get_batch keeps the line, and what it gives as the end of the batch is
\* announced.
LEMMA GetBatchOrder ==
    ASSUME TypeInv, TypeInv', Widths, NEW src, NEW base, NEW cuts, Order(src, base, cuts),
           NEW t \in Getters, NEW r \in Inputs, NEW next, Len(batch[r].wps) <= MaxSize,
           GetBatch(t, r, next), UNCHANGED outbox
    PROVE  /\ \E c \in Seq(Nat) :
                GoodLine(Shift(r), time, src, base[r], c, batch'[r], port'[r], Pending(r)', Total(r, base))
           /\ \A i \in Inputs \ {r} : Pending(i)' = Pending(i)
           /\ batch'[r].start = batch[r].start
           /\ \/ pc' = pc
              \/ /\ pc' = [pc EXCEPT ![t] = next]
                 /\ Announces(Shift(r), time, src, base[r] + Len(batch'[r].wps), batch'[r].end)
PROOF
  <1> DEFINE k   == Takable(t, r)
             got == SubSeq(port[r].period, 1, k)
             now == Advanced(port[r], k)
             b   == batch[r].wps \o got
  <1>1. /\ channel \in [Inputs -> Seq(Batch)] /\ port \in [Inputs -> RxPorts] /\ batch \in [Inputs -> Batch]
        /\ batch' \in [Inputs -> Batch] /\ port' \in [Inputs -> RxPorts]
    BY DEF TypeInv, PortTypes
  <1>2. k \in 0 .. Len(port[r].period) /\ Len(batch[r].wps) + k <= MaxSize
    BY TakableIs
  <1>3. /\ GoodLine(Shift(r), time, src, base[r], cuts[r], batch[r], port[r], Pending(r), Total(r, base))
        /\ cuts[r] \in Seq(Nat)
    BY OrderTypes DEF LineTypes
  <1>4. batch'[r] \in Batch /\ port'[r] \in RxPorts /\ batch[r] \in Batch
    BY <1>1
  <1> HIDE DEF k
  <1>5. CASE /\ port' = [port EXCEPT ![r] = now]
             /\ batch' = [batch EXCEPT ![r].wps = b, ![r].end = now.current]
             /\ pc' = [pc EXCEPT ![t] = next] /\ UNCHANGED channel
    <2>1. port'[r] = now
      BY <1>1, <1>5
    <2>2. batch'[r].wps = b /\ batch'[r].start = batch[r].start /\ batch'[r].end = now.current
      <3> HIDE DEF b, now
      <3> QED BY <1>1, <1>4, <1>5 DEF Batch
    <2>3. \A i \in Inputs : Pending(i)' = Pending(i)
      BY <1>5, SamePending
    <2>8. Grown(batch[r], port[r], k, batch'[r])
      BY <1>2, <1>4, <2>2 DEF Grown
    <2>4. GoodLine(Shift(r), time, src, base[r], cuts[r], batch'[r], now, Pending(r), Total(r, base))
      BY <1>3, <2>8, LineAdvances
    <2>5. Announces(Shift(r), time, src, base[r] + Len(batch'[r].wps), batch'[r].end)
      BY <2>2, <2>4 DEF GoodLine, Line
    <2>6. GoodLine(Shift(r), time, src, base[r], cuts[r], batch'[r], port'[r], Pending(r)', Total(r, base))
      BY <2>1, <2>3, <2>4
    <2> QED BY <1>3, <1>5, <2>2, <2>3, <2>5, <2>6
  <1>6. CASE k = Len(port[r].period) /\ Receive(r) /\ batch' = [batch EXCEPT ![r].wps = b] /\ UNCHANGED pc
    <2>1. /\ channel[r] # <<>> /\ channel' = [channel EXCEPT ![r] = Tail(channel[r])]
          /\ port'[r] = Recv(r)
      BY <1>1, <1>6 DEF Receive
    <2>2. /\ Pending(r)' = Tail(Pending(r)) /\ Pending(r) # <<>> /\ Head(Pending(r)) = Head(channel[r])
          /\ \A i \in Inputs \ {r} : Pending(i)' = Pending(i)
      BY <2>1, ReceivePending
    <2>3. /\ Recv(r) \in RxPorts /\ Recv(r).period = Head(channel[r]).wps
          /\ Recv(r).end = Head(channel[r]).end /\ Recv(r).current = port[r].current
      BY <2>1, ReceivedPort
    <2>4. batch'[r].wps = b /\ batch'[r].start = batch[r].start
      <3> HIDE DEF b
      <3> QED BY <1>1, <1>4, <1>6 DEF Batch
    <2>5. batch'[r].wps = batch[r].wps \o SubSeq(port[r].period, 1, Len(port[r].period))
      BY <1>6, <2>4
    <2>9. Grown(batch[r], port[r], Len(port[r].period), batch'[r]) /\ Renewed(Pending(r), Recv(r))
      BY <1>2, <1>4, <1>6, <2>2, <2>3, <2>5 DEF Grown, Renewed
    <2>6. /\ GoodLine(Shift(r), time, src, base[r], Tail(cuts[r]), batch'[r], Recv(r), Tail(Pending(r)), Total(r, base))
          /\ Tail(cuts[r]) \in Seq(Nat)
      BY <1>3, <2>3, <2>9, LineTurns
    <2>7. GoodLine(Shift(r), time, src, base[r], Tail(cuts[r]), batch'[r], port'[r], Pending(r)', Total(r, base))
      BY <2>1, <2>2, <2>6
    <2> QED BY <1>6, <2>2, <2>4, <2>6, <2>7
  <1>7. ~ k < Len(port[r].period) => k = Len(port[r].period)
    <2>1. Len(port[r].period) \in Nat
      BY <1>3, LineTyped DEF GoodLine
    <2> QED BY <1>2, <2>1
  <1> QED BY <1>5, <1>6, <1>7 DEF GetBatch, BatchComplete, k, got, now, b

-----------------------------------------------------------------------------
(* The parts of the invariant that a step leaves as they are.              *)

LEMMA LinesStay ==
    ASSUME TypeInv, TypeInv', NEW src, NEW base, NEW cuts, Order(src, base, cuts),
           UNCHANGED <<setup, time, generated>>, NEW r \in Inputs,
           NEW base2, NEW cuts2, base2[r] = base[r], cuts2[r] = cuts[r], Total(r, base2) = Total(r, base),
           batch'[r].wps = batch[r].wps, port'[r] = port[r], Pending(r)' = Pending(r)
    PROVE  Line(Shift(r), time, src, base2[r], cuts2[r], batch[r], port[r], Pending(r), Total(r, base2))'
PROOF
  <1>1. Shift(r)' = Shift(r) /\ Total(r, base2)' = Total(r, base)
    BY DEF Shift, Total
  <1>2. Line(Shift(r), time, src, base[r], cuts[r], batch[r], port[r], Pending(r), Total(r, base))
    BY DEF Order, Lines
  <1> QED BY <1>1, <1>2 DEF Line

LEMMA DelayPhaseStays ==
    ASSUME NEW src, NEW base, DelayPhase(src, base), time' = time, pc'["delay"] = pc["delay"],
           batch'["delay"] = batch["delay"], outbox'["delay"] = outbox["delay"]
    PROVE  DelayPhase(src, base)'
  BY DEF DelayPhase, Mid

LEMMA DualPhaseStays ==
    ASSUME NEW src, NEW base, NEW base2, DualPhase(src, base), time' = time, setup' = setup, endTime' = endTime,
           pc'["dual"] = pc["dual"], \A r \in Sides : batch'[r] = batch[r] /\ base2[r] = base[r]
    PROVE  DualPhase(src, base2)'
PROOF
  <1>1. \A r \in Sides : Mid(r, base2)' = Mid(r, base) /\ Shift(r)' = Shift(r) /\ Reference(r)' = Reference(r)
    BY DEF Mid, Shift, Reference, Sides, Other
  <1>2. "left" \in Sides /\ "right" \in Sides
    BY DEF Sides
  <1>3. EndAnnounced(src, base) => EndAnnounced(src, base2)'
    BY <1>1 DEF EndAnnounced
  <1> QED BY <1>1, <1>2, <1>3 DEF DualPhase

LEMMA PassageSame ==
    ASSUME NEW src, NEW base, NEW base2, UNCHANGED <<setup, time, scattered>>, Passage(src, base),
           \A r \in Sides : base2[r] = base[r]
    PROVE  Passage(src, base2)'
PROOF
  <1>1. Passage(src, base)'
    BY PassageStays
  <1> QED BY <1>1 DEF Passage

\* get_batch moves packets of one input.
LEMMA GetLines ==
    ASSUME TypeInv, TypeInv', Widths, NEW src, NEW base, NEW cuts, Order(src, base, cuts),
           NEW t \in Getters, NEW r \in Inputs, NEW next, Len(batch[r].wps) <= MaxSize,
           GetBatch(t, r, next), UNCHANGED <<setup, time, generated, outbox>>
    PROVE  \E cuts2 : cuts2 \in [Inputs -> Seq(Nat)] /\ Lines(src, base, cuts2)'
PROOF
  <1>1. \A i \in Inputs \ {r} : batch'[i] = batch[i] /\ port'[i] = port[i]
    BY GetBatchTypes
  <1>2. PICK c \in Seq(Nat) :
             GoodLine(Shift(r), time, src, base[r], c, batch'[r], port'[r], Pending(r)', Total(r, base))
    BY GetBatchOrder
  <1>3. \A i \in Inputs \ {r} : Pending(i)' = Pending(i)
    BY GetBatchOrder
  <1> DEFINE cuts2 == [cuts EXCEPT ![r] = c]
  <1>4. cuts2 \in [Inputs -> Seq(Nat)] /\ cuts2[r] = c /\ \A i \in Inputs \ {r} : cuts2[i] = cuts[i]
    BY DEF Order
  <1> HIDE DEF cuts2
  <1>5. ASSUME NEW i \in Inputs
        PROVE  Line(Shift(i), time, src, base[i], cuts2[i], batch[i], port[i], Pending(i), Total(i, base))'
    <2>1. CASE i = r
      <3>1. Shift(i)' = Shift(i) /\ Total(i, base)' = Total(i, base)
        BY DEF Shift, Total
      <3> QED BY <1>2, <1>4, <2>1, <3>1 DEF GoodLine
    <2>2. CASE i # r
      BY <1>1, <1>3, <1>4, <2>2, LinesStay
    <2> QED BY <2>1, <2>2
  <1> QED BY <1>4, <1>5 DEF Lines

-----------------------------------------------------------------------------
(* The delay line.                                                         *)

LEMMA StartDelayOrder ==
    ASSUME TypeInv, TypeInv', Widths, NEW src, NEW base, NEW cuts, Order(src, base, cuts), StartDelay
    PROVE  Order(src, base, cuts)'
PROOF
  <1>1. /\ UNCHANGED <<setup, time, generated, channel, port, endTime, outbox, scattered>>
        /\ pc["delay"] = "idle" /\ outbox["delay"] = <<>>
        /\ batch' = [batch EXCEPT !["delay"] = NewBatch("delay")] /\ pc' = [pc EXCEPT !["delay"] = "get"]
    BY DEF StartDelay
  <1>2. batch \in [Inputs -> Batch] /\ pc \in [Getters -> DelayPlaces \cup DualPlaces]
    BY DEF TypeInv, PortTypes, PlaceTypes
  <1>3. /\ batch'["delay"] = NewBatch("delay") /\ \A r \in Sides : batch'[r] = batch[r]
        /\ pc'["delay"] = "get" /\ pc'["dual"] = pc["dual"]
    BY <1>1, <1>2 DEF Inputs, Getters, Sides
  <1>4. batch["delay"].wps = <<>> /\ batch'["delay"].wps = <<>> /\ batch'["delay"].start = port["delay"].current
    BY <1>1, <1>3 DEF Order, DelayPhase, NewBatch, WpBatch
  <1>5. \A r \in Inputs : Pending(r)' = Pending(r)
    BY <1>1, SamePending
  <1>6. ASSUME NEW r \in Inputs
        PROVE  Line(Shift(r), time, src, base[r], cuts[r], batch[r], port[r], Pending(r), Total(r, base))'
    <2>1. batch'[r].wps = batch[r].wps
      BY <1>3, <1>4 DEF Inputs, Sides
    <2> QED BY <1>1, <1>5, <2>1, LinesStay
  <1>7. Announces(0, time, src, base["delay"], port["delay"].current)
    <2>1. Line(Shift("delay"), time, src, base["delay"], cuts["delay"], batch["delay"], port["delay"],
               Pending("delay"), Total("delay", base)) /\ base["delay"] \in Nat
      BY DEF Order, Lines, Inputs
    <2>2. Shift("delay") = 0
      BY DEF Shift
    <2>3. base["delay"] + Len(batch["delay"].wps) = base["delay"]
      BY <1>4, <2>1
    <2> QED BY <2>1, <2>2, <2>3 DEF Line
  <1>8. DelayPhase(src, base)'
    BY <1>1, <1>3, <1>4, <1>7 DEF DelayPhase
  <1>9. DualPhase(src, base)'
    BY <1>1, <1>3, DualPhaseStays DEF Order
  <1>10. Passage(src, base)' /\ Source(src)' /\ Destinations'
    BY <1>1, PassageStays DEF Order, Source, Destinations
  <1> QED BY <1>6, <1>8, <1>9, <1>10 DEF Order, Lines

LEMMA GetDelayOrder ==
    ASSUME TypeInv, TypeInv', Widths, NEW src, NEW base, NEW cuts, Order(src, base, cuts), GetDelay
    PROVE  \E cuts2 : Order(src, base, cuts2)'
PROOF
  <1>1. /\ UNCHANGED <<setup, time, generated, endTime, outbox, scattered>>
        /\ pc["delay"] = "get" /\ GetBatch("delay", "delay", "transmit")
    BY DEF GetDelay
  <1>2. Len(batch["delay"].wps) <= MaxSize
    BY <1>1 DEF TypeInv, BatchFits
  <1>3. "delay" \in Inputs /\ "delay" \in Getters
    BY DEF Inputs, Getters
  <1>4. \A q \in Inputs \ {"delay"} : batch'[q] = batch[q]
    BY <1>1, <1>2, <1>3, GetBatchTypes
  <1>5. PICK cuts2 : cuts2 \in [Inputs -> Seq(Nat)] /\ Lines(src, base, cuts2)'
    BY <1>1, <1>2, <1>3, GetLines
  <1>6. /\ batch'["delay"].start = batch["delay"].start
        /\ \/ pc' = pc
           \/ /\ pc' = [pc EXCEPT !["delay"] = "transmit"]
              /\ Announces(Shift("delay"), time, src, base["delay"] + Len(batch'["delay"].wps), batch'["delay"].end)
    BY <1>1, <1>2, <1>3, GetBatchOrder
  <1>9. pc \in [Getters -> DelayPlaces \cup DualPlaces]
    BY DEF TypeInv, PlaceTypes
  <1>10. DelayPhase(src, base)'
    <2>1. outbox'["delay"] = <<>> /\ Announces(0, time, src, base["delay"], batch'["delay"].start)
      BY <1>1, <1>6 DEF Order, DelayPhase
    <2>2. pc'["delay"] = "get" \/ /\ pc'["delay"] = "transmit"
                                  /\ Announces(0, time, src, base["delay"] + Len(batch'["delay"].wps), batch'["delay"].end)
      BY <1>1, <1>3, <1>6, <1>9 DEF Shift
    <2> QED BY <1>1, <2>1, <2>2 DEF DelayPhase, Mid
  <1>11. DualPhase(src, base)'
    <2>1. pc'["dual"] = pc["dual"]
      BY <1>6, <1>9 DEF Getters
    <2>2. \A r \in Sides : batch'[r] = batch[r]
      BY <1>4 DEF Inputs, Sides
    <2> QED BY <1>1, <2>1, <2>2, DualPhaseStays DEF Order
  <1>12. Passage(src, base)' /\ Source(src)' /\ Destinations'
    BY <1>1, PassageStays DEF Order, Source, Destinations
  <1>13. Order(src, base, cuts2)'
    BY <1>5, <1>10, <1>11, <1>12 DEF Order
  <1> QED BY <1>13

\* The delay line passes its batch on: the places in src do not change.
LEMMA DelayedPiece ==
    ASSUME NEW src \in Seq(WavePacket), NEW n \in Nat, NEW u \in Seq(WavePacket), NEW v \in Seq(WavePacket),
           setup.delay \in Nat, Piece(0, src, n, u),
           Len(v) = Len(u), \A i \in 1 .. Len(u) : v[i] = DelayedPacket(u[i])
    PROVE  Piece(setup.delay, src, n, v)
PROOF
  <1>1. n + Len(u) <= Len(src) /\ Len(u) \in Nat /\ Len(src) \in Nat
    BY DEF Piece
  <1>2. ASSUME NEW i \in 1 .. Len(u)
        PROVE  v[i] = Shifted(setup.delay, src[n + i])
    <2>1. n + i \in 1 .. Len(src)
      BY <1>1
    <2>2. src[n + i] \in WavePacket
      BY <2>1, ElementOfSeq
    <2>3. u[i] = src[n + i]
      BY <2>2, ShiftedIs DEF Piece
    <2>4. v[i] = DelayedPacket(src[n + i])
      BY <2>3
    <2> QED BY <2>4 DEF DelayedPacket, Shifted
  <1> QED BY <1>1, <1>2 DEF Piece

LEMMA TransmitOrder ==
    ASSUME TypeInv, TypeInv', Widths, NEW src, NEW base, NEW cuts, Order(src, base, cuts), Transmit
    PROVE  \E base2, cuts2 : Order(src, base2, cuts2)'
PROOF
  <1> DEFINE b     == batch["delay"]
             wps   == [i \in 1 .. Len(b.wps) |-> DelayedPacket(b.wps[i])]
             sent  == WpBatch(b.start + setup.delay, b.end + setup.delay, wps)
             mid   == Mid("delay", base)
  <1>a. PICK base2, cuts2 : /\ base2 = [base EXCEPT !["delay"] = mid]
                            /\ cuts2 = [cuts EXCEPT !["right"] = Append(cuts["right"], mid)]
    OBVIOUS
  <1>1. /\ UNCHANGED <<setup, time, generated, channel, port, endTime, scattered>>
        /\ pc["delay"] = "transmit" /\ outbox' = [outbox EXCEPT !["delay"] = <<[to |-> "right", batch |-> sent]>>]
        /\ batch' = [batch EXCEPT !["delay"] = WpBatch(0, 0, <<>>)] /\ pc' = [pc EXCEPT !["delay"] = "idle"]
    BY DEF Transmit
  <1>2. /\ batch \in [Inputs -> Batch] /\ pc \in [Getters -> DelayPlaces \cup DualPlaces]
        /\ outbox \in [Senders -> Seq([to : Inputs, batch : Batch])] /\ port \in [Inputs -> RxPorts]
        /\ base \in [Inputs -> Nat] /\ cuts \in [Inputs -> Seq(Nat)] /\ setup.delay \in Nat
    BY PortsAssumption DEF TypeInv, PortTypes, PlaceTypes, OutboxTypes, SourceTypes, Order
  <1>3. /\ b.wps \in Seq(WavePacket) /\ Len(b.wps) \in Nat /\ b.start \in Nat /\ b.end \in Nat
        /\ mid \in Nat /\ base["delay"] \in Nat /\ src \in Seq(WavePacket) /\ "delay" \in Inputs /\ mid = base["delay"] + Len(b.wps)
        /\ GoodLine(0, time, src, base["delay"], cuts["delay"], b, port["delay"], Pending("delay"), generated)
        /\ time \in Nat
    <2>1. "delay" \in Inputs /\ Shift("delay") = 0 /\ Total("delay", base) = generated
      BY DEF Inputs, Shift, Total
    <2>2. b \in Batch
      BY <1>2, <2>1
    <2>3. /\ mid \in Nat /\ base["delay"] \in Nat /\ src \in Seq(WavePacket) /\ Len(b.wps) \in Nat /\ time \in Nat
          /\ GoodLine(0, time, src, base["delay"], cuts["delay"], b, port["delay"], Pending("delay"), generated)
      BY <2>1, OrderTypes
    <2> QED BY <2>1, <2>2, <2>3 DEF Batch, Mid
  <1>4. /\ batch'["delay"].wps = <<>> /\ \A r \in Sides : batch'[r] = batch[r]
        /\ batch'["delay"] = WpBatch(0, 0, <<>>)
        /\ pc'["delay"] = "idle" /\ pc'["dual"] = pc["dual"]
        /\ outbox'["epps"] = outbox["epps"] /\ outbox'["delay"] = <<[to |-> "right", batch |-> sent]>>
    BY <1>1, <1>2 DEF Inputs, Getters, Senders, Sides, WpBatch
  <1>5. /\ base2 \in [Inputs -> Nat] /\ base2["delay"] = mid /\ \A r \in Sides : base2[r] = base[r]
        /\ cuts2 \in [Inputs -> Seq(Nat)] /\ cuts2["right"] = Append(cuts["right"], mid)
        /\ cuts2["delay"] = cuts["delay"] /\ cuts2["left"] = cuts["left"]
    <2>1. cuts["right"] \in Seq(Nat) /\ "right" \in Inputs
      BY <1>2 DEF Inputs
    <2>2. Append(cuts["right"], mid) \in Seq(Nat)
      BY <1>3, <2>1
    <2> HIDE DEF mid
    <2> QED BY <1>2, <1>3, <1>a, <2>2 DEF Inputs, Sides
  <1>6. /\ wps \in Seq(WavePacket) /\ Len(wps) = Len(b.wps)
        /\ \A i \in 1 .. Len(b.wps) : wps[i] = DelayedPacket(b.wps[i])
    <2>1. \A i \in 1 .. Len(b.wps) : DelayedPacket(b.wps[i]) \in WavePacket
      BY <1>2, <1>3, ElementOfSeq, DelayedIs
    <2> QED BY <1>3, <2>1
  <1>7. b.start + setup.delay \in Nat /\ b.end + setup.delay \in Nat
    <2>1. b.start \in Nat /\ b.end \in Nat
      BY <1>3
    <2>2. setup.delay \in Nat
      BY <1>2
    <2>3. PICK s \in Nat, e \in Nat, d \in Nat : s = b.start /\ e = b.end /\ d = setup.delay
      BY <2>1, <2>2
    <2>4. s + d \in Nat /\ e + d \in Nat
      OBVIOUS
    <2> QED BY <2>3, <2>4
  <1>8. sent \in Batch /\ sent.wps = wps /\ sent.start = b.start + setup.delay /\ sent.end = b.end + setup.delay
    BY <1>6, <1>7 DEF WpBatch, Batch
  <1>9. Link(setup.delay, time, src, base["delay"], mid, sent)
    <2>1. Piece(0, src, base["delay"], b.wps)
      BY <1>3 DEF GoodLine, Line
    <2>2. Piece(setup.delay, src, base["delay"], sent.wps)
      BY <1>2, <1>3, <1>6, <1>8, <2>1, DelayedPiece
    <2>3. Announces(0, time, src, base["delay"], b.start) /\ Announces(0, time, src, mid, b.end)
      BY <1>1 DEF Order, DelayPhase
    <2>4. Announces(setup.delay, time, src, base["delay"], b.start + setup.delay)
      BY <1>2, <1>3, <2>3, AnnouncesDelayed
    <2>5. Announces(setup.delay, time, src, mid, b.end + setup.delay)
      <3> HIDE DEF mid
      <3> QED BY <1>2, <1>3, <2>3, AnnouncesDelayed
    <2> QED BY <1>3, <1>6, <1>8, <2>2, <2>4, <2>5 DEF Link
  <1>10. /\ Pending("right")' = Append(Pending("right"), sent)
         /\ Pending("left")' = Pending("left") /\ Pending("delay")' = Pending("delay")
    <2>1. /\ Queued("left")' = Queued("left") /\ Queued("delay")' = Queued("delay")
          /\ Queued("right")' = <<sent>> /\ Queued("right") = <<>>
      <3>1. outbox["delay"] = <<>>
        BY <1>1 DEF Order, DelayPhase
      <3>2. outbox'["delay"] # <<>> /\ outbox'["delay"][1].batch = sent
        BY <1>4
      <3> QED BY <1>4, <3>1, <3>2, QueuedAre, QueuedNext
    <2>2. channel["right"] \in Seq(Batch)
      BY DEF TypeInv, PortTypes, Inputs
    <2>3. Append(channel["right"] \o <<>>, sent) = channel["right"] \o <<sent>>
      BY <1>8, <2>2, AppendJoined
    <2>4. channel'["right"] = channel["right"] /\ channel'["left"] = channel["left"] /\ channel'["delay"] = channel["delay"]
      BY <1>1
    <2> HIDE DEF sent
    <2> QED BY <2>1, <2>3, <2>4, Zenon DEF Pending
  <1> HIDE DEF sent
  <1>11. Line(Shift("delay"), time, src, base2["delay"], cuts2["delay"], batch["delay"], port["delay"],
              Pending("delay"), Total("delay", base2))'
    <2>1. WpBatch(0, 0, <<>>) \in Batch /\ WpBatch(0, 0, <<>>).wps = <<>>
      BY EmptySeq DEF WpBatch, Batch
    <2>2. GoodLine(0, time, src, base["delay"] + Len(b.wps), cuts["delay"], WpBatch(0, 0, <<>>), port["delay"],
                   Pending("delay"), generated)
      BY <1>3, <2>1, LineClears
    <2>3. Line(0, time, src, mid, cuts["delay"], batch'["delay"], port["delay"], Pending("delay"), generated)
      BY <1>3, <1>4, <2>2 DEF GoodLine
    <2>4. Shift("delay")' = 0 /\ Total("delay", base2)' = generated
      BY <1>1 DEF Shift, Total
    <2> QED BY <1>1, <1>5, <1>10, <2>3, <2>4
  <1>12. Line(Shift("right"), time, src, base2["right"], cuts2["right"], batch["right"], port["right"],
              Pending("right"), Total("right", base2))'
    <2>0. "right" \in Inputs /\ "right" \in Sides
      BY DEF Inputs, Sides
    <2>1. Shift("right") = setup.delay /\ Shift("right")' = setup.delay
          /\ Total("right", base) = base["delay"] /\ Total("right", base2)' = mid
      BY <1>1, <1>5 DEF Shift, Total
    <2>2. GoodLine(setup.delay, time, src, base["right"], cuts["right"], batch["right"], port["right"],
                   Pending("right"), base["delay"])
      BY <2>0, <2>1, OrderTypes
    <2>3. GoodLine(setup.delay, time, src, base["right"], Append(cuts["right"], mid), batch["right"], port["right"],
                   Append(Pending("right"), sent), mid)
      BY <1>3, <1>8, <1>9, <2>2, LineEnters
    <2> QED BY <1>1, <1>4, <1>5, <1>10, <2>0, <2>1, <2>3 DEF GoodLine
  <1>13. Line(Shift("left"), time, src, base2["left"], cuts2["left"], batch["left"], port["left"],
              Pending("left"), Total("left", base2))'
    <2>1. "left" \in Inputs /\ "left" \in Sides /\ Total("left", base2) = Total("left", base)
      BY DEF Inputs, Sides, Total
    <2> QED BY <1>1, <1>4, <1>5, <1>10, <2>1, LinesStay
  <1>14. DelayPhase(src, base2)'
    BY <1>4 DEF DelayPhase
  <1>15. DualPhase(src, base2)'
    <2>1. \A r \in Sides : batch'[r] = batch[r] /\ base2[r] = base[r]
      BY <1>4, <1>5
    <2>2. DualPhase(src, base)
      BY DEF Order
    <2>3. time' = time /\ setup' = setup /\ endTime' = endTime /\ pc'["dual"] = pc["dual"]
      BY <1>1, <1>4
    <2> QED BY <2>1, <2>2, <2>3, DualPhaseStays
  <1>16. Passage(src, base2)' /\ Source(src)'
    BY <1>1, <1>5, PassageSame DEF Order, Source
  <1>17. Destinations'
    <2>1. outbox'["delay"][1].to = "right"
      BY <1>4
    <2> QED BY <1>4, <2>1 DEF Order, Destinations
  <1>18. Order(src, base2, cuts2)'
    BY <1>5, <1>11, <1>12, <1>13, <1>14, <1>15, <1>16, <1>17 DEF Order, Lines, Inputs
  <1> QED BY <1>18

-----------------------------------------------------------------------------
(* The beam splitter.                                                      *)

LEMMA StartDualOrder ==
    ASSUME TypeInv, TypeInv', Widths, NEW src, NEW base, NEW cuts, Order(src, base, cuts), StartDual
    PROVE  Order(src, base, cuts)'
PROOF
  <1>1. /\ UNCHANGED <<setup, time, generated, channel, port, endTime, outbox, scattered>>
        /\ pc["dual"] = "idle" /\ pc' = [pc EXCEPT !["dual"] = "getLeft"]
        /\ batch' = [batch EXCEPT !["left"] = NewBatch("left"), !["right"] = NewBatch("right")]
    BY DEF StartDual
  <1>2. batch \in [Inputs -> Batch] /\ pc \in [Getters -> DelayPlaces \cup DualPlaces]
    BY DEF TypeInv, PortTypes, PlaceTypes
  <1>3. /\ batch'["delay"] = batch["delay"] /\ \A r \in Sides : batch'[r] = NewBatch(r)
        /\ pc'["dual"] = "getLeft" /\ pc'["delay"] = pc["delay"]
    BY <1>1, <1>2 DEF Inputs, Getters, Sides
  <1>4. \A r \in Inputs : batch'[r].wps = batch[r].wps
    BY <1>1, <1>3 DEF Order, DualPhase, NewBatch, WpBatch, Inputs, Sides
  <1>5. \A r \in Inputs : Pending(r)' = Pending(r)
    BY <1>1, SamePending
  <1>6. ASSUME NEW r \in Inputs
        PROVE  Line(Shift(r), time, src, base[r], cuts[r], batch[r], port[r], Pending(r), Total(r, base))'
    BY <1>1, <1>4, <1>5, LinesStay
  <1>7. DelayPhase(src, base)'
    BY <1>1, <1>3, DelayPhaseStays DEF Order
  <1>8. DualPhase(src, base)'
    BY <1>3 DEF DualPhase, PullPlaces
  <1>9. Passage(src, base)' /\ Source(src)' /\ Destinations'
    BY <1>1, PassageStays DEF Order, Source, Destinations
  <1> QED BY <1>6, <1>7, <1>8, <1>9 DEF Order, Lines

LEMMA GetLeftOrder ==
    ASSUME TypeInv, TypeInv', Widths, NEW src, NEW base, NEW cuts, Order(src, base, cuts), GetLeft
    PROVE  \E cuts2 : Order(src, base, cuts2)'
PROOF
  <1>1. /\ UNCHANGED <<setup, time, generated, endTime, outbox, scattered>>
        /\ pc["dual"] = "getLeft" /\ GetBatch("dual", "left", "getRight")
    BY DEF GetLeft
  <1>2. Len(batch["left"].wps) <= MaxSize
    BY <1>1 DEF TypeInv, BatchFits
  <1>3. "left" \in Inputs /\ "dual" \in Getters
    BY DEF Inputs, Getters
  <1>4. \A q \in Inputs \ {"left"} : batch'[q] = batch[q]
    BY <1>1, <1>2, <1>3, GetBatchTypes
  <1>5. PICK cuts2 : cuts2 \in [Inputs -> Seq(Nat)] /\ Lines(src, base, cuts2)'
    BY <1>1, <1>2, <1>3, GetLines
  <1>6. \/ pc' = pc
        \/ /\ pc' = [pc EXCEPT !["dual"] = "getRight"]
           /\ Announces(Shift("left"), time, src, base["left"] + Len(batch'["left"].wps), batch'["left"].end)
    BY <1>1, <1>2, <1>3, GetBatchOrder
  <1>7. pc \in [Getters -> DelayPlaces \cup DualPlaces]
    BY DEF TypeInv, PlaceTypes
  <1>8. DelayPhase(src, base)'
    <2>1. pc'["delay"] = pc["delay"] /\ batch'["delay"] = batch["delay"]
      BY <1>4, <1>6, <1>7 DEF Getters, Inputs
    <2> QED BY <1>1, <2>1, DelayPhaseStays DEF Order
  <1>9. DualPhase(src, base)'
    <2>1. \/ pc'["dual"] = "getLeft"
          \/ /\ pc'["dual"] = "getRight"
             /\ Announces(0, time, src, base["left"] + Len(batch'["left"].wps), batch'["left"].end)
      BY <1>1, <1>3, <1>6, <1>7 DEF Shift
    <2> QED BY <1>1, <2>1 DEF DualPhase, PullPlaces, Mid
  <1>10. Passage(src, base)' /\ Source(src)' /\ Destinations'
    BY <1>1, PassageStays DEF Order, Source, Destinations
  <1>11. Order(src, base, cuts2)'
    BY <1>5, <1>8, <1>9, <1>10 DEF Order
  <1> QED BY <1>11

\* The end time is announced by both ports: it is the earlier one of what they
\* have announced.
LEMMA GetRightOrder ==
    ASSUME TypeInv, TypeInv', Widths, NEW src, NEW base, NEW cuts, Order(src, base, cuts), GetRight
    PROVE  \E cuts2 : Order(src, base, cuts2)'
PROOF
  <1>1. /\ UNCHANGED <<setup, time, generated, outbox, scattered>>
        /\ pc["dual"] = "getRight" /\ GetBatch("dual", "right", "pullRight")
        /\ endTime' = EarlierEnd(batch'["left"], batch'["right"])
    BY DEF GetRight
  <1>2. Len(batch["right"].wps) <= MaxSize
    BY <1>1 DEF TypeInv, BatchFits
  <1>3. "right" \in Inputs /\ "left" \in Inputs /\ "dual" \in Getters
    BY DEF Inputs, Getters
  <1>4. \A q \in Inputs \ {"right"} : batch'[q] = batch[q]
    BY <1>1, <1>2, <1>3, GetBatchTypes
  <1>5. PICK cuts2 : cuts2 \in [Inputs -> Seq(Nat)] /\ Lines(src, base, cuts2)'
    BY <1>1, <1>2, <1>3, GetLines
  <1>6. \/ pc' = pc
        \/ /\ pc' = [pc EXCEPT !["dual"] = "pullRight"]
           /\ Announces(Shift("right"), time, src, base["right"] + Len(batch'["right"].wps), batch'["right"].end)
    BY <1>1, <1>2, <1>3, GetBatchOrder
  <1>7. pc \in [Getters -> DelayPlaces \cup DualPlaces]
    BY DEF TypeInv, PlaceTypes
  <1>8. DelayPhase(src, base)'
    <2>1. pc'["delay"] = pc["delay"] /\ batch'["delay"] = batch["delay"]
      BY <1>4, <1>6, <1>7 DEF Getters, Inputs
    <2> QED BY <1>1, <2>1, DelayPhaseStays DEF Order
  <1>9. Announces(0, time, src, base["left"] + Len(batch'["left"].wps), batch'["left"].end)
    <2>1. batch'["left"] = batch["left"]
      BY <1>3, <1>4
    <2> QED BY <1>1, <2>1 DEF Order, DualPhase, Mid
  <1>10. ASSUME pc' = pc
         PROVE  DualPhase(src, base)'
    BY <1>1, <1>9, <1>10 DEF DualPhase, PullPlaces, Mid
  <1>11. ASSUME pc' # pc
         PROVE  DualPhase(src, base)'
    <2>1. pc'["dual"] = "pullRight"
      BY <1>3, <1>6, <1>7, <1>11
    <2>2. /\ Behind(0, time, src, base["left"] + Len(batch'["left"].wps), batch'["left"].end)
          /\ Behind(Shift("right"), time, src, base["right"] + Len(batch'["right"].wps), batch'["right"].end)
      BY <1>6, <1>9, <1>11 DEF Announces
    <2>3. /\ batch'["left"].end \in Nat /\ batch'["right"].end \in Nat
          /\ Len(batch'["left"].wps) \in Nat /\ Len(batch'["right"].wps) \in Nat
      <3>1. batch' \in [Inputs -> Batch]
        BY DEF TypeInv, PortTypes
      <3>2. batch'["left"] \in Batch /\ batch'["right"] \in Batch
        BY <1>3, <3>1
      <3> QED BY <3>2 DEF Batch
    <2>4. endTime' \in Nat /\ endTime' <= batch'["left"].end /\ endTime' <= batch'["right"].end
      BY <1>1, <2>3, MinOfTwo DEF EarlierEnd
    <2>5. /\ src \in Seq(WavePacket) /\ time \in Nat /\ Shift("right") \in Nat
          /\ base["left"] \in Nat /\ base["right"] \in Nat
      BY <1>3, OrderTypes
    <2>6. PICK m \in Nat, n \in Nat : /\ m = base["left"] + Len(batch'["left"].wps)
                                      /\ n = base["right"] + Len(batch'["right"].wps)
      <3>1. PICK x \in Nat, y \in Nat : x = Len(batch'["left"].wps) /\ y = Len(batch'["right"].wps)
        BY <2>3
      <3>2. base["left"] + x \in Nat /\ base["right"] + y \in Nat
        BY <2>5
      <3> QED BY <3>1, <3>2
    <2>a. PICK e \in Nat, f \in Nat, g \in Nat :
              e = endTime' /\ f = batch'["left"].end /\ g = batch'["right"].end /\ e <= f /\ e <= g
      BY <2>3, <2>4
    <2>7. Behind(0, time, src, m, e)
      <3>1. PICK d \in Nat : d = 0
        OBVIOUS
      <3>2. Behind(d, time, src, m, f) /\ m <= m
        BY <2>2, <2>6, <2>a, <3>1
      <3>3. src \in Seq(WavePacket) /\ time \in Nat /\ e <= f
        BY <2>5, <2>a
      <3>4. Behind(d, time, src, m, e)
        BY <3>2, <3>3, AnnouncesLater
      <3> QED BY <3>1, <3>4
    <2>8. Behind(Shift("right"), time, src, n, e)
      <3>1. PICK d \in Nat : d = Shift("right")
        BY <2>5
      <3>2. Behind(d, time, src, n, g) /\ n <= n
        BY <2>2, <2>6, <2>a, <3>1
      <3>3. src \in Seq(WavePacket) /\ time \in Nat /\ e <= g
        BY <2>5, <2>a
      <3>4. Behind(d, time, src, n, e)
        BY <3>2, <3>3, AnnouncesLater
      <3> QED BY <3>1, <3>4
    <2>9. \A r \in Sides : Behind(Shift(r)', time', src, Mid(r, base)', endTime')
      BY <1>1, <2>6, <2>a, <2>7, <2>8 DEF Sides, Shift, Mid
    <2>10. EndAnnounced(src, base)'
      BY <2>9 DEF EndAnnounced
    <2> QED BY <2>1, <2>10 DEF DualPhase
  <1>12. Passage(src, base)' /\ Source(src)' /\ Destinations'
    BY <1>1, PassageStays DEF Order, Source, Destinations
  <1>13. Order(src, base, cuts2)'
    BY <1>5, <1>8, <1>10, <1>11, <1>12 DEF Order
  <1> QED BY <1>13

\* The end time stays announced while batches grow.
LEMMA EndStays ==
    ASSUME TypeInv, NEW src, NEW base, NEW cuts, Order(src, base, cuts), EndAnnounced(src, base),
           UNCHANGED <<setup, time>>, endTime' = endTime,
           \A r \in Sides : /\ Len(batch'[r].wps) \in Nat /\ Len(batch[r].wps) <= Len(batch'[r].wps)
                            /\ \A i \in 1 .. Len(batch[r].wps) : batch'[r].wps[i] = batch[r].wps[i]
    PROVE  EndAnnounced(src, base)'
PROOF
  <1>1. \A r \in Sides : Shift(r)' = Shift(r)
    BY DEF Shift
  <1>2. ASSUME \A r \in Sides : Behind(Shift(r), time, src, Mid(r, base), endTime)
        PROVE  \A r \in Sides : Behind(Shift(r), time, src, Mid(r, base)', endTime)
    <2>1. SUFFICES ASSUME NEW r \in Sides
                   PROVE  Behind(Shift(r), time, src, Mid(r, base)', endTime)
      OBVIOUS
    <2>2. r \in Inputs
      BY DEF Sides, Inputs
    <2>3. /\ Shift(r) \in Nat /\ time \in Nat /\ src \in Seq(WavePacket) /\ base[r] \in Nat
          /\ Len(batch[r].wps) \in Nat /\ endTime \in Nat
      BY <2>2, OrderTypes DEF TypeInv, TimeoutTypes
    <2>4. PICK x \in Nat, y \in Nat, z \in Nat :
              x = base[r] /\ y = Len(batch[r].wps) /\ z = Len(batch'[r].wps) /\ y <= z
      BY <2>3
    <2>5. PICK m \in Nat, n \in Nat : m = x + y /\ n = x + z /\ m <= n
      <3>1. y <= z
        BY <2>4
      <3>2. x + y \in Nat /\ x + z \in Nat /\ x + y <= x + z
        BY <3>1
      <3> QED BY <3>2
    <2>6. m = Mid(r, base) /\ n = Mid(r, base)'
      BY <2>4, <2>5 DEF Mid
    <2>7. PICK d \in Nat, e \in Nat : d = Shift(r) /\ e = endTime /\ e <= e
      BY <2>3
    <2>8. Behind(d, time, src, m, e)
      BY <1>2, <2>6, <2>7
    <2>9. time \in Nat /\ src \in Seq(WavePacket) /\ e <= e /\ m <= n
      BY <2>3, <2>5, <2>7
    <2>10. Behind(d, time, src, n, e)
      BY <2>8, <2>9, AnnouncesLater
    <2> QED BY <2>6, <2>7, <2>10
  <1>3. ASSUME NEW r \in Sides, NEW i \in 1 .. Len(batch[r].wps), endTime = batch[r].wps[i].time
        PROVE  i \in 1 .. Len(batch'[r].wps) /\ endTime = batch'[r].wps[i].time
    <2>1. r \in Inputs
      BY DEF Sides, Inputs
    <2>2. Len(batch[r].wps) \in Nat
      BY <2>1, OrderTypes
    <2>3. PICK y \in Nat, z \in Nat : y = Len(batch[r].wps) /\ z = Len(batch'[r].wps) /\ y <= z
      BY <2>2
    <2> QED BY <1>3, <2>3
  <1> QED BY <1>1, <1>2, <1>3 DEF EndAnnounced

\* A round of the beam splitter on one port. When it goes on, what is left of
\* the port lies behind the batch of the other one.
LEMMA PullOrder ==
    ASSUME TypeInv, TypeInv', Widths, NEW src, NEW base, NEW cuts, Order(src, base, cuts),
           NEW r \in Sides, NEW next, Pull(r, next), pc["dual"] \in PullPlaces,
           UNCHANGED <<setup, time, generated, outbox>>
    PROVE  /\ \E c \in Seq(Nat) :
                GoodLine(Shift(r), time, src, base[r], c, batch'[r], port'[r], Pending(r)', Total(r, base))
           /\ \A i \in Inputs \ {r} : batch'[i] = batch[i] /\ port'[i] = port[i] /\ Pending(i)' = Pending(i)
           /\ Len(batch'[r].wps) \in Nat /\ Len(batch[r].wps) <= Len(batch'[r].wps)
           /\ \A i \in 1 .. Len(batch[r].wps) : batch'[r].wps[i] = batch[r].wps[i]
           /\ endTime' = endTime \/ \E i \in 1 .. Len(batch'[r].wps) : endTime' = batch'[r].wps[i].time
           /\ \/ pc' = [pc EXCEPT !["dual"] = pc["dual"]]
              \/ /\ pc' = [pc EXCEPT !["dual"] = next]
                 /\ Announces(Shift(r), time, src, base[r] + Len(batch'[r].wps), Reference(r))
PROOF
  <1>1. PICK k, got, now, c :
            /\ k = Reached(r) /\ got = SubSeq(port[r].period, 1, k)
            /\ now = IF k = 0 THEN port[r] ELSE Advanced(port[r], k)
            /\ c = Pushed(batch[r], got)
    OBVIOUS
  <1>2. /\ r \in Inputs /\ channel \in [Inputs -> Seq(Batch)] /\ port \in [Inputs -> RxPorts]
        /\ batch \in [Inputs -> Batch] /\ endTime \in Nat
    BY DEF TypeInv, PortTypes, TimeoutTypes, Inputs, Sides
  <1>3. /\ got \in Seq(WavePacket) /\ now \in RxPorts
        /\ batch' = [batch EXCEPT ![r] = c]
        /\ endTime' = RaisedEnd(got)
        /\ \/ /\ k < Len(port[r].period) \/ Reference(r) < port[r].end
              /\ port' = [port EXCEPT ![r] = now]
              /\ pc' = [pc EXCEPT !["dual"] = next]
              /\ UNCHANGED channel
           \/ /\ k = Len(port[r].period) /\ port[r].end <= Reference(r)
              /\ channel[r] # <<>>
              /\ channel' = [channel EXCEPT ![r] = Tail(channel[r])]
              /\ port' = [port EXCEPT ![r] = [Recv(r) EXCEPT !.current = now.current]]
              /\ \/ /\ Reference(r) < Head(channel[r]).start
                    /\ pc' = [pc EXCEPT !["dual"] = next]
                 \/ pc' = [pc EXCEPT !["dual"] = pc["dual"]]
    BY <1>1, <1>2, PullIs
  <1>4. /\ k \in 0 .. Len(port[r].period) /\ Len(port[r].period) \in Nat /\ k \in Nat
        /\ k < Len(port[r].period) => IsStrictlyAfter(port[r].period[k + 1], Reference(r))
        /\ port[r] \in RxPorts /\ batch[r] \in Batch /\ port[r].period \in Seq(WavePacket)
    <2>1. port[r] \in RxPorts /\ batch[r] \in Batch
      BY <1>2
    <2>2. port[r].period \in Seq(WavePacket) /\ Len(port[r].period) \in Nat
      BY <2>1 DEF RxPorts
    <2> QED BY <1>1, <1>2, <2>1, <2>2, ReachedIs
  <1>5. /\ c \in Batch /\ c.wps = batch[r].wps \o got /\ Len(got) = k
        /\ batch'[r] = c /\ \A i \in Inputs \ {r} : batch'[i] = batch[i]
        /\ Grown(batch[r], port[r], k, c)
    <2>1. c \in Batch /\ c.wps = batch[r].wps \o got
      BY <1>1, <1>3, <1>4, PushedIs
    <2>2. Len(got) = k
      BY <1>1, <1>4, CutSequence
    <2> QED BY <1>1, <1>2, <1>3, <1>4, <2>1, <2>2 DEF Grown
  <1>6. /\ GoodLine(Shift(r), time, src, base[r], cuts[r], batch[r], port[r], Pending(r), Total(r, base))
        /\ cuts[r] \in Seq(Nat) /\ src \in Seq(WavePacket) /\ time \in Nat /\ Shift(r) \in Nat
        /\ base[r] \in Nat /\ Len(batch[r].wps) \in Nat /\ batch[r].wps \in Seq(WavePacket)
    BY <1>2, OrderTypes DEF LineTypes
  <1>7. /\ Len(c.wps) = Len(batch[r].wps) + k
        /\ \A i \in 1 .. Len(batch[r].wps) : c.wps[i] = batch[r].wps[i]
        /\ \A i \in 1 .. Len(got) : c.wps[Len(batch[r].wps) + i] = got[i]
    <2>1. /\ Len(batch[r].wps \o got) = Len(batch[r].wps) + Len(got)
          /\ \A i \in 1 .. Len(batch[r].wps) + Len(got) :
                (batch[r].wps \o got)[i] = IF i <= Len(batch[r].wps) THEN batch[r].wps[i]
                                           ELSE got[i - Len(batch[r].wps)]
      BY <1>3, <1>6, ConcatProperties
    <2>2. PICK x \in Nat, y \in Nat : x = Len(batch[r].wps) /\ y = Len(got)
      BY <1>4, <1>5, <1>6
    <2>3. \A i \in 1 .. x : i \in 1 .. x + y /\ i <= x
      BY <2>2
    <2>4. \A i \in 1 .. y : x + i \in 1 .. x + y /\ ~ x + i <= x /\ (x + i) - x = i
      BY <2>2
    <2> QED BY <1>5, <2>1, <2>2, <2>3, <2>4
  <1>8. Reference(r) \in Nat
    <2>1. batch[Other(r)] \in Batch
      BY <1>2 DEF Other, Inputs
    <2> QED BY <2>1, BatchTrailingEdgeType DEF Reference
  <1>9. GoodLine(Shift(r), time, src, base[r], cuts[r], c, Advanced(port[r], k), Pending(r), Total(r, base))
    BY <1>5, <1>6, LineAdvances
  <1>10. now.current = port[r].current \/ now.current = Advanced(port[r], k).current
    BY <1>1
  <1>11. endTime' = endTime \/ \E i \in 1 .. Len(batch'[r].wps) : endTime' = batch'[r].wps[i].time
    <2>1. endTime' = endTime \/ \E i \in 1 .. Len(got) : endTime' = got[i].time
      BY <1>2, <1>3, RaisedEndIs
    <2>2. ASSUME NEW i \in 1 .. Len(got), endTime' = got[i].time
          PROVE  \E j \in 1 .. Len(batch'[r].wps) : endTime' = batch'[r].wps[j].time
      <3>1. PICK x \in Nat, y \in Nat : x = Len(batch[r].wps) /\ y = k /\ Len(c.wps) = x + y
        BY <1>4, <1>6, <1>7
      <3>2. x + i \in 1 .. x + y
        BY <1>5, <3>1
      <3>3. c.wps[x + i] = got[i]
        BY <1>7, <3>1
      <3> QED BY <1>5, <2>2, <3>1, <3>2, <3>3
    <2> QED BY <2>1, <2>2
  <1>12. Len(batch'[r].wps) \in Nat /\ Len(batch[r].wps) <= Len(batch'[r].wps)
    BY <1>4, <1>5, <1>6, <1>7
  <1>13. CASE /\ k < Len(port[r].period) \/ Reference(r) < port[r].end
              /\ port' = [port EXCEPT ![r] = now]
              /\ pc' = [pc EXCEPT !["dual"] = next]
              /\ UNCHANGED channel
    <2>1. port'[r] = now /\ \A i \in Inputs \ {r} : port'[i] = port[i]
      BY <1>2, <1>13
    <2>2. \A i \in Inputs : Pending(i)' = Pending(i)
      BY <1>13, SamePending
    <2>3. GoodLine(Shift(r), time, src, base[r], cuts[r], c, now, Pending(r), Total(r, base))
      <3>1. CASE k = 0
        <4>1. now = port[r] /\ got = <<>>
          BY <1>1, <1>3, <1>5, <3>1, EmptySeq
        <4>2. c = batch[r]
          BY <1>1, <1>4, <4>1, PushedIs, EmptySeq
        <4> QED BY <1>6, <4>1, <4>2
      <3>2. CASE k # 0
        BY <1>1, <1>9, <3>2
      <3> QED BY <3>1, <3>2
    <2>4. Reference(r) <= Advanced(port[r], k).current /\ Advanced(port[r], k).current \in Nat
      <3>1. CASE k < Len(port[r].period)
        <4>1. Advanced(port[r], k).current = LeadingEdge(port[r].period[k + 1])
          BY <1>4, <3>1, AdvancedIs
        <4>2. Reference(r) < LeadingEdge(port[r].period[k + 1])
          BY <1>4, <3>1 DEF IsStrictlyAfter
        <4>3. port[r].period[k + 1] \in WavePacket
          BY <1>4, <3>1, ElementOfSeq
        <4>4. LeadingEdge(port[r].period[k + 1]) \in Nat
          BY <4>3, EdgeTypes
        <4> QED BY <1>8, <4>1, <4>2, <4>4
      <3>2. CASE k = Len(port[r].period)
        <4>1. Advanced(port[r], k).current = port[r].end /\ port[r].end \in Nat
          BY <1>4, <3>2, AdvancedIs DEF RxPorts
        <4>2. Reference(r) < port[r].end
          BY <1>4, <1>13, <3>2
        <4> QED BY <1>8, <4>1, <4>2
      <3> QED BY <1>4, <3>1, <3>2
    <2>5. Announces(Shift(r), time, src, base[r] + Len(c.wps), Reference(r))
      <3>1. PICK d \in Nat, n \in Nat, e \in Nat, f \in Nat :
                /\ d = Shift(r) /\ n = base[r] + Len(c.wps) /\ e = Advanced(port[r], k).current
                /\ f = Reference(r) /\ f <= e /\ n <= n
        <4>1. base[r] + Len(c.wps) \in Nat
          BY <1>5, <1>6, <1>12
        <4> QED BY <1>6, <1>8, <2>4, <4>1
      <3>2. Announces(Shift(r), time, src, base[r] + Len(c.wps), Advanced(port[r], k).current)
        BY <1>9 DEF GoodLine, Line
      <3>3. Announces(d, time, src, n, e) /\ f <= e /\ n <= n
        BY <3>1, <3>2
      <3>4. src \in Seq(WavePacket) /\ time \in Nat
        BY <1>6
      <3>5. Announces(d, time, src, n, f)
        BY <3>3, <3>4, AnnouncesLater
      <3> QED BY <3>1, <3>5
    <2>6. GoodLine(Shift(r), time, src, base[r], cuts[r], batch'[r], port'[r], Pending(r)', Total(r, base))
      BY <1>2, <1>5, <2>1, <2>2, <2>3
    <2> QED BY <1>5, <1>6, <1>7, <1>11, <1>12, <1>13, <2>1, <2>2, <2>5, <2>6
  <1>14. CASE /\ k = Len(port[r].period) /\ port[r].end <= Reference(r)
              /\ channel[r] # <<>>
              /\ channel' = [channel EXCEPT ![r] = Tail(channel[r])]
              /\ port' = [port EXCEPT ![r] = [Recv(r) EXCEPT !.current = now.current]]
              /\ \/ /\ Reference(r) < Head(channel[r]).start
                    /\ pc' = [pc EXCEPT !["dual"] = next]
                 \/ pc' = [pc EXCEPT !["dual"] = pc["dual"]]
    <2>1. port'[r] = [Recv(r) EXCEPT !.current = now.current] /\ \A i \in Inputs \ {r} : port'[i] = port[i]
      BY <1>2, <1>14
    <2>2. /\ Pending(r)' = Tail(Pending(r)) /\ Pending(r) # <<>> /\ Head(Pending(r)) = Head(channel[r])
          /\ \A i \in Inputs \ {r} : Pending(i)' = Pending(i)
      BY <1>2, <1>14, ReceivePending
    <2>3. /\ Recv(r) \in RxPorts /\ Recv(r).period = Head(channel[r]).wps /\ Recv(r).end = Head(channel[r]).end
          /\ Head(channel[r]) \in Batch
      BY <1>2, <1>14, ReceivedPort
    <2>4. PICK p : p = port'[r]
      OBVIOUS
    <2>5. p \in RxPorts /\ p.period = Recv(r).period /\ p.end = Recv(r).end /\ p.current = now.current
      BY <1>3, <2>1, <2>3, <2>4 DEF RxPorts
    <2>6. Renewed(Pending(r), p)
      BY <2>2, <2>3, <2>5 DEF Renewed
    <2>7. Grown(batch[r], port[r], Len(port[r].period), c)
      BY <1>5, <1>14
    <2>8. p.current = port[r].current \/ p.current = Advanced(port[r], Len(port[r].period)).current
      BY <1>10, <1>14, <2>5
    <2>9. /\ GoodLine(Shift(r), time, src, base[r], Tail(cuts[r]), c, p, Tail(Pending(r)), Total(r, base))
          /\ Tail(cuts[r]) \in Seq(Nat)
          /\ Announces(Shift(r), time, src, base[r] + Len(c.wps), Head(Pending(r)).start)
      BY <1>6, <2>6, <2>7, <2>8, LineTurns
    <2>10. ASSUME Reference(r) < Head(channel[r]).start
           PROVE  Announces(Shift(r), time, src, base[r] + Len(c.wps), Reference(r))
      <3>1. PICK d \in Nat, n \in Nat, e \in Nat, f \in Nat :
                /\ d = Shift(r) /\ n = base[r] + Len(c.wps) /\ e = Head(channel[r]).start
                /\ f = Reference(r) /\ f <= e /\ n <= n
        <4>1. base[r] + Len(c.wps) \in Nat
          BY <1>5, <1>6, <1>12
        <4>2. Head(channel[r]).start \in Nat
          BY <2>3 DEF Batch
        <4> QED BY <1>6, <1>8, <2>10, <4>1, <4>2
      <3>2. Announces(d, time, src, n, e) /\ f <= e /\ n <= n
        BY <2>2, <2>9, <3>1
      <3>3. src \in Seq(WavePacket) /\ time \in Nat
        BY <1>6
      <3>4. Announces(d, time, src, n, f)
        BY <3>2, <3>3, AnnouncesLater
      <3> QED BY <3>1, <3>4
    <2>11. GoodLine(Shift(r), time, src, base[r], Tail(cuts[r]), batch'[r], port'[r], Pending(r)', Total(r, base))
      BY <1>5, <2>2, <2>4, <2>9
    <2> QED BY <1>5, <1>7, <1>11, <1>12, <1>14, <2>1, <2>2, <2>9, <2>10, <2>11
  <1> QED BY <1>3, <1>13, <1>14

\* The line of one input changes.
LEMMA OneLine ==
    ASSUME TypeInv, TypeInv', NEW src, NEW base, NEW cuts, Order(src, base, cuts), NEW r \in Inputs, NEW c \in Seq(Nat),
           UNCHANGED <<setup, time, generated>>,
           GoodLine(Shift(r), time, src, base[r], c, batch'[r], port'[r], Pending(r)', Total(r, base)),
           \A i \in Inputs \ {r} : batch'[i] = batch[i] /\ port'[i] = port[i] /\ Pending(i)' = Pending(i)
    PROVE  \E cuts2 : cuts2 \in [Inputs -> Seq(Nat)] /\ Lines(src, base, cuts2)'
PROOF
  <1> DEFINE cuts2 == [cuts EXCEPT ![r] = c]
  <1>1. cuts2 \in [Inputs -> Seq(Nat)] /\ cuts2[r] = c /\ \A i \in Inputs \ {r} : cuts2[i] = cuts[i]
    BY DEF Order
  <1> HIDE DEF cuts2
  <1>2. ASSUME NEW i \in Inputs
        PROVE  Line(Shift(i), time, src, base[i], cuts2[i], batch[i], port[i], Pending(i), Total(i, base))'
    <2>1. CASE i = r
      <3>1. Shift(i)' = Shift(i) /\ Total(i, base)' = Total(i, base)
        BY DEF Shift, Total
      <3> QED BY <1>1, <2>1, <3>1 DEF GoodLine
    <2>2. CASE i # r
      BY <1>1, <2>2, LinesStay
    <2> QED BY <2>1, <2>2
  <1> QED BY <1>1, <1>2 DEF Lines

\* What both directions of the loop over the two ports keep.
LEMMA PullKeeps ==
    ASSUME TypeInv, TypeInv', Widths, NEW src, NEW base, NEW cuts, Order(src, base, cuts),
           NEW r \in Sides, NEW next, Pull(r, next), pc["dual"] \in PullPlaces,
           UNCHANGED <<setup, time, batches, generated, timeout, outbox, scattered>>
    PROVE  /\ \E cuts2 : cuts2 \in [Inputs -> Seq(Nat)] /\ Lines(src, base, cuts2)'
           /\ Source(src)' /\ Destinations' /\ DelayPhase(src, base)' /\ Passage(src, base)'
           /\ EndAnnounced(src, base)'
           /\ \/ pc'["dual"] = pc["dual"]
              \/ /\ pc'["dual"] = next
                 /\ Announces(Shift(r)', time', src, Mid(r, base)', Reference(r)')
PROOF
  <1>1. r \in Inputs /\ pc \in [Getters -> DelayPlaces \cup DualPlaces]
    BY DEF Inputs, Sides, TypeInv, PlaceTypes
  <1>2. PICK c \in Seq(Nat) :
             GoodLine(Shift(r), time, src, base[r], c, batch'[r], port'[r], Pending(r)', Total(r, base))
    BY PullOrder
  <1>3. /\ \A i \in Inputs \ {r} : batch'[i] = batch[i] /\ port'[i] = port[i] /\ Pending(i)' = Pending(i)
        /\ Len(batch'[r].wps) \in Nat /\ Len(batch[r].wps) <= Len(batch'[r].wps)
        /\ \A i \in 1 .. Len(batch[r].wps) : batch'[r].wps[i] = batch[r].wps[i]
        /\ endTime' = endTime \/ \E i \in 1 .. Len(batch'[r].wps) : endTime' = batch'[r].wps[i].time
        /\ \/ pc' = [pc EXCEPT !["dual"] = pc["dual"]]
           \/ /\ pc' = [pc EXCEPT !["dual"] = next]
              /\ Announces(Shift(r), time, src, base[r] + Len(batch'[r].wps), Reference(r))
    BY PullOrder
  <1>4. \E cuts2 : cuts2 \in [Inputs -> Seq(Nat)] /\ Lines(src, base, cuts2)'
    BY <1>1, <1>2, <1>3, OneLine
  <1>5. DelayPhase(src, base)'
    <2>1. pc'["delay"] = pc["delay"]
      BY <1>1, <1>3 DEF Getters
    <2>2. batch'["delay"] = batch["delay"]
      BY <1>3 DEF Inputs, Sides
    <2> QED BY <2>1, <2>2, DelayPhaseStays DEF Order
  <1>6. EndAnnounced(src, base)'
    <2>1. CASE endTime' = endTime
      <3>1. ASSUME NEW q \in Sides
            PROVE  /\ Len(batch'[q].wps) \in Nat /\ Len(batch[q].wps) <= Len(batch'[q].wps)
                   /\ \A i \in 1 .. Len(batch[q].wps) : batch'[q].wps[i] = batch[q].wps[i]
        <4>1. q \in Inputs
          BY DEF Inputs, Sides
        <4>2. Len(batch[q].wps) \in Nat
          BY <4>1, OrderTypes
        <4>3. q # r => batch'[q] = batch[q]
          BY <1>3, <4>1
        <4>4. CASE q = r
          BY <1>3, <4>4
        <4>5. CASE q # r
          BY <4>2, <4>3, <4>5
        <4> QED BY <4>4, <4>5
      <3>2. EndAnnounced(src, base)
        BY DEF Order, DualPhase
      <3> QED BY <2>1, <3>1, <3>2, EndStays
    <2>2. CASE \E i \in 1 .. Len(batch'[r].wps) : endTime' = batch'[r].wps[i].time
      BY <2>2 DEF EndAnnounced
    <2> QED BY <1>3, <2>1, <2>2
  <1>7. \/ pc'["dual"] = pc["dual"]
        \/ /\ pc'["dual"] = next
           /\ Announces(Shift(r)', time', src, Mid(r, base)', Reference(r)')
    <2>1. Shift(r)' = Shift(r) /\ Mid(r, base)' = base[r] + Len(batch'[r].wps)
      BY DEF Shift, Mid
    <2>2. Reference(r)' = Reference(r)
      <3>1. Other(r) \in Inputs \ {r}
        BY DEF Other, Inputs, Sides
      <3> QED BY <1>3, <3>1 DEF Reference
    <2>3. "dual" \in Getters
      BY DEF Getters
    <2> QED BY <1>1, <1>3, <2>1, <2>2, <2>3
  <1>8. Source(src)' /\ Destinations' /\ Passage(src, base)'
    BY PassageStays DEF Order, Source, Destinations
  <1> QED BY <1>4, <1>5, <1>6, <1>7, <1>8

LEMMA PullRightOrder ==
    ASSUME TypeInv, TypeInv', Widths, NEW src, NEW base, NEW cuts, Order(src, base, cuts), PullRight
    PROVE  \E cuts2 : Order(src, base, cuts2)'
PROOF
  <1>1. /\ UNCHANGED <<setup, time, batches, generated, timeout, outbox, scattered>>
        /\ pc["dual"] = "pullRight" /\ Pull("right", "pullLeft")
    BY DEF PullRight
  <1>2. "right" \in Sides /\ pc["dual"] \in PullPlaces
    BY <1>1 DEF Sides, PullPlaces
  <1>3. PICK cuts2 : cuts2 \in [Inputs -> Seq(Nat)] /\ Lines(src, base, cuts2)'
    BY <1>1, <1>2, PullKeeps
  <1>4. /\ Source(src)' /\ Destinations' /\ DelayPhase(src, base)' /\ Passage(src, base)'
        /\ EndAnnounced(src, base)' /\ pc'["dual"] \in {"pullRight", "pullLeft"}
    BY <1>1, <1>2, PullKeeps
  <1>5. DualPhase(src, base)'
    BY <1>4 DEF DualPhase
  <1>6. Order(src, base, cuts2)'
    BY <1>3, <1>4, <1>5 DEF Order
  <1> QED BY <1>6

LEMMA PullLeftOrder ==
    ASSUME TypeInv, TypeInv', Widths, NEW src, NEW base, NEW cuts, Order(src, base, cuts), PullLeft
    PROVE  \E cuts2 : Order(src, base, cuts2)'
PROOF
  <1>1. /\ UNCHANGED <<setup, time, batches, generated, timeout, outbox, scattered>>
        /\ pc["dual"] = "pullLeft" /\ Pull("left", "check")
    BY DEF PullLeft
  <1>2. "left" \in Sides /\ pc["dual"] \in PullPlaces
    BY <1>1 DEF Sides, PullPlaces
  <1>3. PICK cuts2 : cuts2 \in [Inputs -> Seq(Nat)] /\ Lines(src, base, cuts2)'
    BY <1>1, <1>2, PullKeeps
  <1>4. /\ Source(src)' /\ Destinations' /\ DelayPhase(src, base)' /\ Passage(src, base)'
        /\ EndAnnounced(src, base)'
        /\ \/ pc'["dual"] = "pullLeft"
           \/ pc'["dual"] = "check" /\ Announces(Shift("left")', time', src, Mid("left", base)', Reference("left")')
    BY <1>1, <1>2, PullKeeps
  <1>5. Shift("left")' = 0
    BY DEF Shift
  <1>6. DualPhase(src, base)'
    BY <1>4, <1>5 DEF DualPhase
  <1>7. Order(src, base, cuts2)'
    BY <1>3, <1>4, <1>6 DEF Order
  <1> QED BY <1>7

\* The loop ends when the right port lies behind the left batch, too.
LEMMA CheckOrder ==
    ASSUME TypeInv, TypeInv', Widths, NEW src, NEW base, NEW cuts, Order(src, base, cuts), Check
    PROVE  \E cuts2 : Order(src, base, cuts2)'
PROOF
  <1> DEFINE p == port["right"]
             e == Reference("right")
             n == base["right"] + Len(batch["right"].wps)
             d == Shift("right")
  <1>1. /\ UNCHANGED <<setup, time, batches, generated, batch, timeout, endTime, outbox, scattered>>
        /\ pc["dual"] = "check"
        /\ \/ /\ p.period # <<>> \/ e < p.end
              /\ pc' = [pc EXCEPT !["dual"] = IF AllAfter(p, e) THEN "scatter" ELSE "pullRight"]
              /\ UNCHANGED <<channel, port>>
           \/ /\ p.period = <<>> /\ e >= p.end
              /\ Receive("right")
              /\ pc' = [pc EXCEPT !["dual"] = IF e < Head(channel["right"]).start THEN "scatter" ELSE pc["dual"]]
    BY DEF Check, Reference, Other
  <1>2. /\ "right" \in Inputs /\ p \in RxPorts /\ e \in Nat /\ pc \in [Getters -> DelayPlaces \cup DualPlaces]
        /\ port \in [Inputs -> RxPorts]
    <2>1. "right" \in Inputs /\ batch["left"] \in Batch
      BY DEF TypeInv, PortTypes, Inputs
    <2> QED BY <2>1, BatchTrailingEdgeType DEF TypeInv, PortTypes, PlaceTypes, Reference, Other
  <1>3. /\ GoodLine(d, time, src, base["right"], cuts["right"], batch["right"], p, Pending("right"), Total("right", base))
        /\ cuts["right"] \in Seq(Nat) /\ src \in Seq(WavePacket) /\ time \in Nat /\ d \in Nat /\ n \in Nat
        /\ p.period \in Seq(WavePacket) /\ Len(p.period) \in Nat /\ p.end \in Nat
    <2>1. n = Mid("right", base)
      BY DEF Mid
    <2> QED BY <1>2, <2>1, OrderTypes DEF LineTypes, RxPorts
  <1>4. /\ \E cuts2 : cuts2 \in [Inputs -> Seq(Nat)] /\ Lines(src, base, cuts2)'
        /\ \/ pc'["dual"] \in {"check", "pullRight"}
           \/ pc'["dual"] = "scatter" /\ Announces(d, time, src, n, e)
        /\ pc'["delay"] = pc["delay"]
    <2>1. CASE /\ p.period # <<>> \/ e < p.end
               /\ pc' = [pc EXCEPT !["dual"] = IF AllAfter(p, e) THEN "scatter" ELSE "pullRight"]
               /\ UNCHANGED <<channel, port>>
      <3>1. \A r \in Inputs : Pending(r)' = Pending(r)
        BY <1>1, <2>1, SamePending
      <3>2. \A r \in Inputs :
               Line(Shift(r), time, src, base[r], cuts[r], batch[r], port[r], Pending(r), Total(r, base))'
        BY <1>1, <2>1, <3>1, LinesStay
      <3>3. pc'["delay"] = pc["delay"] /\ pc'["dual"] = IF AllAfter(p, e) THEN "scatter" ELSE "pullRight"
        BY <1>2, <2>1 DEF Getters
      <3>4. ASSUME AllAfter(p, e)
            PROVE  Announces(d, time, src, n, e)
        <4>1. Announces(d, time, src, n + 0, Advanced(p, 0).current)
          <5>1. 0 \in 0 .. Len(p.period)
            BY <1>3
          <5> QED BY <1>3, <5>1, NowAnnounced
        <4>2. Advanced(p, 0).current \in Nat /\ e <= Advanced(p, 0).current
          <5>1. CASE p.period # <<>>
            <6>1. Len(p.period) # 0 /\ 0 < Len(p.period)
              BY <1>3, <5>1, EmptySeq
            <6>2. Head(p.period) = p.period[1] /\ p.period[1] \in WavePacket
              BY <1>3, <6>1, ElementOfSeq
            <6>3. Advanced(p, 0).current = LeadingEdge(p.period[0 + 1])
              BY <1>2, <1>3, <6>1, AdvancedIs
            <6>4. e < LeadingEdge(p.period[1]) /\ LeadingEdge(p.period[1]) \in Nat
              BY <3>4, <5>1, <6>2, EdgeTypes DEF AllAfter, IsStrictlyAfter
            <6> QED BY <1>2, <6>3, <6>4
          <5>2. CASE p.period = <<>>
            <6>1. Len(p.period) = 0
              BY <5>2, EmptySeq
            <6>2. Advanced(p, 0).current = p.end
              BY <1>2, <6>1, AdvancedIs
            <6> QED BY <1>2, <1>3, <2>1, <5>2, <6>2
          <5> QED BY <5>1, <5>2
        <4>3. PICK f \in Nat, g \in Nat, m \in Nat, s \in Nat :
                  f = e /\ g = Advanced(p, 0).current /\ m = n /\ s = d /\ f <= g /\ m <= m
          BY <1>2, <1>3, <4>2
        <4>4. Announces(s, time, src, m, g) /\ f <= g /\ m <= m
          <5>1. n + 0 = n
            BY <1>3
          <5> QED BY <4>1, <4>3, <5>1
        <4>5. src \in Seq(WavePacket) /\ time \in Nat
          BY <1>3
        <4>6. Announces(s, time, src, m, f)
          BY <4>4, <4>5, AnnouncesLater
        <4> QED BY <4>3, <4>6
      <3>5. cuts \in [Inputs -> Seq(Nat)]
        BY DEF Order
      <3> QED BY <3>2, <3>3, <3>4, <3>5 DEF Lines
    <2>2. CASE /\ p.period = <<>> /\ e >= p.end
               /\ Receive("right")
               /\ pc' = [pc EXCEPT !["dual"] = IF e < Head(channel["right"]).start THEN "scatter" ELSE pc["dual"]]
      <3>1. /\ channel["right"] # <<>> /\ channel' = [channel EXCEPT !["right"] = Tail(channel["right"])]
            /\ port' = [port EXCEPT !["right"] = Recv("right")]
        BY <2>2 DEF Receive
      <3>2. port'["right"] = Recv("right") /\ \A i \in Inputs \ {"right"} : port'[i] = port[i]
        BY <1>2, <3>1
      <3>3. /\ Pending("right")' = Tail(Pending("right")) /\ Pending("right") # <<>>
            /\ Head(Pending("right")) = Head(channel["right"])
            /\ \A i \in Inputs \ {"right"} : Pending(i)' = Pending(i)
        BY <1>1, <1>2, <3>1, ReceivePending
      <3>4. /\ Recv("right") \in RxPorts /\ Recv("right").period = Head(channel["right"]).wps
            /\ Recv("right").end = Head(channel["right"]).end /\ Recv("right").current = p.current
            /\ Head(channel["right"]) \in Batch
        BY <1>2, <3>1, ReceivedPort
      <3>5. Renewed(Pending("right"), Recv("right"))
        BY <3>3, <3>4 DEF Renewed
      <3>6. Announces(d, time, src, n, Recv("right").current)
        BY <1>3, <3>4 DEF GoodLine, Line
      <3>7. PICK q : q = Recv("right")
        OBVIOUS
      <3>8. Renewed(Pending("right"), q) /\ Announces(d, time, src, n, q.current)
        BY <3>5, <3>6, <3>7
      <3>9. /\ GoodLine(d, time, src, base["right"], Tail(cuts["right"]), batch["right"], q, Tail(Pending("right")),
                        Total("right", base))
            /\ Tail(cuts["right"]) \in Seq(Nat)
            /\ Announces(d, time, src, n, Head(Pending("right")).start)
        BY <1>3, <2>2, <3>8, LineReceives
      <3>10. GoodLine(d, time, src, base["right"], Tail(cuts["right"]), batch'["right"], port'["right"], Pending("right")',
                      Total("right", base))
        BY <1>1, <3>2, <3>3, <3>7, <3>9
      <3>11. \E cuts2 : cuts2 \in [Inputs -> Seq(Nat)] /\ Lines(src, base, cuts2)'
        <4>1. \A i \in Inputs \ {"right"} : batch'[i] = batch[i] /\ port'[i] = port[i] /\ Pending(i)' = Pending(i)
          BY <1>1, <3>2, <3>3
        <4> HIDE DEF n, p
        <4> QED BY <1>1, <1>2, <3>9, <3>10, <4>1, OneLine
      <3>12. /\ pc'["delay"] = pc["delay"]
             /\ pc'["dual"] = IF e < Head(channel["right"]).start THEN "scatter" ELSE pc["dual"]
        BY <1>2, <2>2 DEF Getters
      <3>13. ASSUME e < Head(channel["right"]).start
             PROVE  Announces(d, time, src, n, e)
        <4>1. Head(channel["right"]).start \in Nat
          BY <3>4 DEF Batch
        <4>2. PICK f \in Nat, g \in Nat, m \in Nat, s \in Nat :
                  f = e /\ g = Head(channel["right"]).start /\ m = n /\ s = d /\ f <= g /\ m <= m
          BY <1>2, <1>3, <3>13, <4>1
        <4>3. Announces(s, time, src, m, g) /\ f <= g /\ m <= m
          BY <3>3, <3>9, <4>2
        <4>4. src \in Seq(WavePacket) /\ time \in Nat
          BY <1>3
        <4>5. Announces(s, time, src, m, f)
          BY <4>3, <4>4, AnnouncesLater
        <4> QED BY <4>2, <4>5
      <3> QED BY <1>1, <3>11, <3>12, <3>13
    <2> QED BY <1>1, <2>1, <2>2
  <1>5. PICK cuts2 : cuts2 \in [Inputs -> Seq(Nat)] /\ Lines(src, base, cuts2)'
    BY <1>4
  <1>6. DelayPhase(src, base)'
    BY <1>1, <1>4, DelayPhaseStays DEF Order
  <1>7. /\ \A r \in Sides : Mid(r, base)' = Mid(r, base) /\ Shift(r)' = Shift(r) /\ Reference(r)' = Reference(r)
        /\ d = Shift("right") /\ e = Reference("right") /\ n = Mid("right", base) /\ "left" \in Sides /\ "right" \in Sides
    BY <1>1 DEF Mid, Shift, Reference, Sides
  <1>8. EndAnnounced(src, base) /\ Announces(0, time, src, Mid("left", base), Reference("left"))
    BY <1>1 DEF Order, DualPhase, PullPlaces
  <1>9. EndAnnounced(src, base)'
    BY <1>1, <1>7, <1>8 DEF EndAnnounced
  <1> HIDE DEF d, e, n
  <1>10. DualPhase(src, base)'
    BY <1>1, <1>4, <1>7, <1>8, <1>9 DEF DualPhase
  <1>11. Passage(src, base)' /\ Source(src)' /\ Destinations'
    BY <1>1, PassageStays DEF Order, Source, Destinations
  <1>12. Order(src, base, cuts2)'
    BY <1>5, <1>6, <1>10, <1>11 DEF Order
  <1> QED BY <1>12

-----------------------------------------------------------------------------
(* What the beam splitter passes on.                                       *)

LEMMA PieceSorted ==
    ASSUME NEW s \in Nat, NEW t \in Nat, NEW src, Emitted(src, t), NEW n \in Nat, NEW wps \in Seq(WavePacket),
           Piece(s, src, n, wps), NEW i \in 1 .. Len(wps)
    PROVE  /\ wps[i] \in WavePacket /\ n + i \in 1 .. Len(src) /\ wps[i] = Shifted(s, src[n + i])
           /\ wps[i].pair = n + i /\ wps[i].sigma = SigmaOf(n + i)
           /\ Behind(s, t, src, n + Len(wps), wps[i].time)
           /\ \A j \in 1 .. Len(wps) : i <= j => wps[i].time <= wps[j].time
PROOF
  <1>1. src \in Seq(WavePacket) /\ Len(src) \in Nat /\ Len(wps) \in Nat /\ n + Len(wps) <= Len(src)
    BY DEF Emitted, Piece
  <1>2. \A k \in 1 .. Len(src) :
          /\ src[k] \in WavePacket /\ src[k].time \in Nat /\ src[k].time <= t
          /\ Shifted(s, src[k]).time = src[k].time + s /\ Shifted(s, src[k]).pair = k
          /\ Shifted(s, src[k]).sigma = SigmaOf(k)
    <2>1. SUFFICES ASSUME NEW k \in 1 .. Len(src)
                   PROVE  /\ src[k] \in WavePacket /\ src[k].time \in Nat /\ src[k].time <= t
                          /\ Shifted(s, src[k]).time = src[k].time + s /\ Shifted(s, src[k]).pair = k
                          /\ Shifted(s, src[k]).sigma = SigmaOf(k)
      OBVIOUS
    <2>2. src[k] \in WavePacket
      BY <1>1, ElementOfSeq
    <2>3. src[k].pair = k /\ src[k].sigma = SigmaOf(k) /\ src[k].time <= t
      BY DEF Emitted
    <2>4. src[k].time \in Nat
      BY <2>2 DEF WavePacket
    <2> QED BY <2>2, <2>3, <2>4, ShiftedIs
  <1>3. \A j \in 1 .. Len(wps) : n + j \in 1 .. Len(src)
    BY <1>1
  <1>4. \A j \in 1 .. Len(wps) : wps[j] = Shifted(s, src[n + j])
    BY DEF Piece
  <1>5. wps[i] \in WavePacket
    BY <1>1, ElementOfSeq
  <1>6. PICK a \in 1 .. Len(src) : a = n + i
    BY <1>3
  <1>7. /\ wps[i].time = src[a].time + s /\ src[a].time \in Nat /\ src[a].time <= t
        /\ wps[i].pair = a /\ wps[i].sigma = SigmaOf(a)
    BY <1>2, <1>4, <1>6
  <1>8. \A k \in 1 .. Len(src) : a <= k => src[a].time <= src[k].time
    BY DEF Emitted
  <1>9. \A k \in 1 .. Len(src) : a <= k => wps[i].time <= Shifted(s, src[k]).time
    <2>1. SUFFICES ASSUME NEW k \in 1 .. Len(src), a <= k
                   PROVE  wps[i].time <= Shifted(s, src[k]).time
      OBVIOUS
    <2>2. src[k].time \in Nat /\ Shifted(s, src[k]).time = src[k].time + s /\ src[a].time <= src[k].time
      BY <1>2, <1>8, <2>1
    <2> QED BY <1>7, <2>2
  <1>10. \A j \in 1 .. Len(wps) : i <= j => wps[i].time <= wps[j].time
    <2>1. SUFFICES ASSUME NEW j \in 1 .. Len(wps), i <= j
                   PROVE  wps[i].time <= wps[j].time
      OBVIOUS
    <2>2. PICK k \in 1 .. Len(src) : k = n + j
      BY <1>3
    <2>3. a <= k
      BY <1>6, <2>1, <2>2
    <2> QED BY <1>4, <1>9, <2>2, <2>3
  <1>11. Behind(s, t, src, n + Len(wps), wps[i].time)
    <2>1. wps[i].time <= t + s
      BY <1>7
    <2>2. \A k \in n + Len(wps) + 1 .. Len(src) : k \in 1 .. Len(src) /\ a <= k
      BY <1>1, <1>6
    <2> QED BY <1>9, <2>1, <2>2 DEF Behind
  <1> QED BY <1>4, <1>5, <1>6, <1>7, <1>10, <1>11

Grained(n, wps) ==
    \A k \in 1 .. Len(wps) : /\ wps[k].sigma = SigmaOf(n + k)
                             /\ \A j \in 1 .. Len(wps) : k <= j => wps[k].time <= wps[j].time

LEMMA PieceGrained ==
    ASSUME NEW s \in Nat, NEW t \in Nat, NEW src, Emitted(src, t), NEW n \in Nat, NEW wps \in Seq(WavePacket),
           Piece(s, src, n, wps)
    PROVE  Grained(n, wps)
PROOF
  <1>1. ASSUME NEW k \in 1 .. Len(wps)
        PROVE  wps[k].sigma = SigmaOf(n + k)
    BY PieceSorted
  <1>2. ASSUME NEW k \in 1 .. Len(wps)
        PROVE  \A j \in 1 .. Len(wps) : k <= j => wps[k].time <= wps[j].time
    BY PieceSorted
  <1> QED BY <1>1, <1>2 DEF Grained

\* When the beam splitter passes its batches on, none of the packets to come
\* belongs before those of either batch, or reaches back to those of the other.
LEMMA BatchesBehind ==
    ASSUME TypeInv, Widths, NEW src, NEW base, NEW cuts, Order(src, base, cuts), pc["dual"] = "scatter",
           NEW r \in Sides
    PROVE  /\ \A q \in Sides : \A i \in 1 .. Len(batch[q].wps) :
                Behind(Shift(r), time, src, Mid(r, base), batch[q].wps[i].time)
           /\ Behind(Shift(r), time, src, Mid(r, base), endTime)
           /\ Uniform => \A i \in 1 .. Len(batch[Other(r)].wps) :
                Clear(Shift(r), time, src, Mid(r, base), TrailingEdge(batch[Other(r)].wps[i]))
PROOF
  <1>1. PICK q : q = Other(r)
    OBVIOUS
  <1>2. r \in Inputs /\ q \in Inputs /\ q \in Sides /\ Sides = {r, q}
    BY <1>1 DEF Sides, Inputs, Other
  <1>3. /\ Shift(r) \in Nat /\ time \in Nat /\ src \in Seq(WavePacket) /\ Emitted(src, time)
        /\ Mid(r, base) \in Nat /\ base[r] \in Nat /\ batch[r].wps \in Seq(WavePacket)
    BY <1>2, OrderTypes
  <1>4. /\ Shift(q) \in Nat /\ base[q] \in Nat /\ batch[q].wps \in Seq(WavePacket) /\ Len(batch[q].wps) \in Nat
    BY <1>2, OrderTypes
  <1>5. /\ Piece(Shift(r), src, base[r], batch[r].wps)
        /\ Piece(Shift(q), src, base[q], batch[q].wps)
    BY <1>2 DEF Order, Lines, Line
  <1>6. Announces(Shift(r), time, src, Mid(r, base), Reference(r)) /\ Reference(r) \in Nat
    <2>1. /\ Announces(0, time, src, Mid("left", base), Reference("left")) /\ Shift("left") = 0
          /\ Announces(Shift("right"), time, src, Mid("right", base), Reference("right"))
      BY DEF Order, DualPhase, Shift
    <2>2. batch[Other(r)] \in Batch
      BY <1>1, <1>2 DEF TypeInv, PortTypes
    <2> QED BY <2>1, <2>2, BatchTrailingEdgeType DEF Sides, Reference
  <1>7. ASSUME NEW i \in 1 .. Len(batch[q].wps)
        PROVE  /\ batch[q].wps[i].time \in Nat /\ batch[q].wps[i].time <= Reference(r)
               /\ Uniform => TrailingEdge(batch[q].wps[i]) <= Reference(r) /\ TrailingEdge(batch[q].wps[i]) \in Nat
    <2>1. PICK j : j = Len(batch[q].wps)
      OBVIOUS
    <2>2. j \in 1 .. Len(batch[q].wps) /\ i <= j /\ batch[q].wps # <<>>
      BY <1>4, <2>1, EmptySeq
    <2>0. PICK s \in Nat, n \in Nat, w \in Seq(WavePacket) : s = Shift(q) /\ n = base[q] /\ w = batch[q].wps
      BY <1>4
    <2>3. PICK h, x, y : h = i /\ x = w[h] /\ y = w[j]
      OBVIOUS
    <2>a. Piece(s, src, n, w) /\ h \in 1 .. Len(w) /\ j \in 1 .. Len(w) /\ Len(w) \in Nat
      BY <1>4, <1>5, <2>0, <2>2, <2>3
    <2>b. time \in Nat /\ Emitted(src, time)
      BY <1>3
    <2>4. /\ x \in WavePacket /\ x.sigma = SigmaOf(n + h) /\ n + h \in Nat
          /\ \A k \in 1 .. Len(w) : h <= k => w[h].time <= w[k].time
      <3>1. n + h \in Nat
        BY <2>a
      <3>2. w[h] \in WavePacket /\ w[h].sigma = SigmaOf(n + h)
        BY <2>a, <2>b, PieceSorted
      <3>3. \A k \in 1 .. Len(w) : h <= k => w[h].time <= w[k].time
        BY <2>a, <2>b, PieceSorted
      <3> QED BY <2>3, <3>1, <3>2, <3>3
    <2>5. x.time <= y.time
      BY <2>2, <2>3, <2>4, <2>a
    <2>6. y \in WavePacket /\ y.sigma = SigmaOf(n + j) /\ n + j \in Nat
      <3>1. n + j \in Nat
        BY <2>a
      <3>2. w[j] \in WavePacket /\ w[j].sigma = SigmaOf(n + j)
        BY <2>a, <2>b, PieceSorted
      <3> QED BY <2>3, <3>1, <3>2
    <2>7. Reference(r) = TrailingEdge(y)
      BY <1>1, <2>0, <2>1, <2>2, <2>3 DEF Reference, BatchTrailingEdge, Last
    <2>8. /\ x.time \in Nat /\ y.time \in Nat /\ x.sigma \in Nat /\ y.sigma \in Nat
          /\ y.time <= TrailingEdge(y) /\ TrailingEdge(y) \in Nat /\ TrailingEdge(x) \in Nat
      BY <2>4, <2>6, EdgeTypes DEF WavePacket
    <2>9. ASSUME Uniform
          PROVE  TrailingEdge(x) <= TrailingEdge(y)
      <3>1. x.sigma = y.sigma
        BY <2>4, <2>6, <2>9 DEF Uniform
      <3>2. PICK g \in Nat : g = x.sigma /\ g = y.sigma
        BY <2>8, <3>1
      <3> QED BY <2>5, <2>8, <3>2 DEF TrailingEdge
    <2>10. x.time <= Reference(r)
      BY <1>6, <2>5, <2>7, <2>8
    <2> QED BY <2>0, <2>3, <2>7, <2>8, <2>9, <2>10
  <1>8. PICK d \in Nat, m \in Nat, e \in Nat : d = Shift(r) /\ m = Mid(r, base) /\ e = Reference(r) /\ m <= m
    BY <1>3, <1>6
  <1>9. /\ Announces(d, time, src, m, e) /\ src \in Seq(WavePacket) /\ time \in Nat /\ m <= m
    BY <1>3, <1>6, <1>8
  <1>10. ASSUME NEW p \in Sides, NEW i \in 1 .. Len(batch[p].wps)
         PROVE  Behind(Shift(r), time, src, Mid(r, base), batch[p].wps[i].time)
    <2>1. CASE p = r
      <3>1. Behind(Shift(r), time, src, base[r] + Len(batch[r].wps), batch[r].wps[i].time)
        BY <1>3, <1>5, <2>1, PieceSorted
      <3> QED BY <2>1, <3>1 DEF Mid
    <2>2. CASE p = q
      <3>1. PICK f \in Nat : f = batch[q].wps[i].time /\ f <= e
        BY <1>7, <1>8, <2>2
      <3>2. Behind(d, time, src, m, e) /\ f <= e
        BY <1>9, <3>1 DEF Announces
      <3>3. Behind(d, time, src, m, f)
        BY <1>9, <3>2, AnnouncesLater
      <3> QED BY <1>8, <2>2, <3>1, <3>3
    <2> QED BY <1>2, <2>1, <2>2
  <1>11. ASSUME Uniform, NEW i \in 1 .. Len(batch[q].wps)
         PROVE  Clear(Shift(r), time, src, Mid(r, base), TrailingEdge(batch[q].wps[i]))
    <2>1. PICK f \in Nat : f = TrailingEdge(batch[q].wps[i]) /\ f <= e
      BY <1>7, <1>8, <1>11
    <2>2. Clear(d, time, src, m, e) /\ f <= e
      BY <1>9, <1>11, <2>1 DEF Announces
    <2>3. Clear(d, time, src, m, f)
      BY <1>9, <2>2, AnnouncesLater
    <2> QED BY <1>8, <2>1, <2>3
  <1>12. Behind(Shift(r), time, src, Mid(r, base), endTime)
    <2>1. EndAnnounced(src, base)
      BY DEF Order, DualPhase, PullPlaces
    <2> QED BY <1>10, <2>1 DEF EndAnnounced
  <1> QED BY <1>1, <1>10, <1>11, <1>12

LEMMA ToSetIs == ASSUME NEW S, NEW s \in Seq(S) PROVE ToSet(s) = {s[i] : i \in 1 .. Len(s)}
  BY DEF ToSet

LEMMA UnionAppended ==
    ASSUME NEW S, NEW s \in Seq(S), NEW t \in Seq(S), NEW n \in Nat, NEW r,
           Len(s) = n, Len(t) = n + 1, \A m \in 1 .. n : t[m] = s[m]
    PROVE  UNION {ToSet(t[m].wps[r]) : m \in 1 .. Len(t)} =
               (UNION {ToSet(s[m].wps[r]) : m \in 1 .. Len(s)}) \cup ToSet(t[n + 1].wps[r])
PROOF
  <1> DEFINE A == {ToSet(t[m].wps[r]) : m \in 1 .. Len(t)}
             B == {ToSet(s[m].wps[r]) : m \in 1 .. Len(s)}
             C == ToSet(t[n + 1].wps[r])
  <1>1. \A m \in 1 .. Len(t) : m \in 1 .. n \/ m = n + 1
    OBVIOUS
  <1>2. \A m \in 1 .. n : ToSet(t[m].wps[r]) = ToSet(s[m].wps[r])
    OBVIOUS
  <1>3. \A a \in A : a \in B \/ a = C
    <2>1. SUFFICES ASSUME NEW a \in A PROVE a \in B \/ a = C
      OBVIOUS
    <2>2. PICK m \in 1 .. Len(t) : a = ToSet(t[m].wps[r])
      OBVIOUS
    <2>3. CASE m \in 1 .. n
      BY <1>2, <2>2, <2>3
    <2>4. CASE m = n + 1
      BY <2>2, <2>4
    <2> QED BY <1>1, <2>3, <2>4
  <1>4. C \in A
    <2>1. n + 1 \in 1 .. Len(t)
      OBVIOUS
    <2> QED BY <2>1
  <1>5. \A b \in B : b \in A
    <2>1. SUFFICES ASSUME NEW b \in B PROVE b \in A
      OBVIOUS
    <2>2. PICK m \in 1 .. Len(s) : b = ToSet(s[m].wps[r])
      OBVIOUS
    <2>3. m \in 1 .. Len(t) /\ b = ToSet(t[m].wps[r])
      BY <1>2, <2>2
    <2> QED BY <2>3
  <1> HIDE DEF A, B, C
  <1>6. UNION A = (UNION B) \cup C
    BY <1>3, <1>4, <1>5
  <1> QED BY <1>6 DEF A, B, C

\* The packets of a side passed before, and those of its batch.
LEMMA PassedNext ==
    ASSUME TypeInv, TypeInv', NEW src, NEW base, NEW cuts, Order(src, base, cuts), Scatter
    PROVE  /\ Len(scattered) \in Nat /\ Len(scattered') = Len(scattered) + 1
           /\ \A m \in 1 .. Len(scattered) : scattered'[m] = scattered[m]
           /\ scattered'[Len(scattered) + 1].end = endTime
           /\ \A r \in Sides : scattered'[Len(scattered) + 1].wps[r] = batch[r].wps
           /\ \A r \in Sides :
                UNION {Passed(m, r)' : m \in 1 .. Len(scattered')} =
                    (UNION {Passed(m, r) : m \in 1 .. Len(scattered)}) \cup ToSet(batch[r].wps)
PROOF
  <1> DEFINE wps == [side \in Sides |-> batch[side].wps]
             new == [wps |-> wps, end |-> endTime, operators |-> DualOperators(wps)]
  <1>1. scattered' = Append(scattered, new)
    BY DEF Scatter
  <1>2. new.end = endTime /\ \A r \in Sides : new.wps[r] = batch[r].wps
    OBVIOUS
  <1>3. scattered \in Seq(Outcomes) /\ scattered' \in Seq(Outcomes)
    BY DEF TypeInv, ScatteredTypes
  <1> HIDE DEF new
  <1>4. PICK n \in Nat : n = Len(scattered)
    BY <1>3
  <1>5. /\ Len(scattered') = n + 1
        /\ \A m \in 1 .. n : scattered'[m] = scattered[m]
        /\ scattered'[n + 1] = new
    BY <1>1, <1>3, <1>4, AppendProperties
  <1>6. PICK s, t : s = scattered /\ t = scattered'
    OBVIOUS
  <1>7. ASSUME NEW r \in Sides
        PROVE  UNION {Passed(m, r)' : m \in 1 .. Len(scattered')} =
                   (UNION {Passed(m, r) : m \in 1 .. Len(scattered)}) \cup ToSet(batch[r].wps)
    <2>1. /\ s \in Seq(Outcomes) /\ t \in Seq(Outcomes) /\ Len(s) = n /\ Len(t) = n + 1
          /\ \A m \in 1 .. n : t[m] = s[m]
      BY <1>3, <1>4, <1>5, <1>6
    <2>2. UNION {ToSet(t[m].wps[r]) : m \in 1 .. Len(t)} =
              (UNION {ToSet(s[m].wps[r]) : m \in 1 .. Len(s)}) \cup ToSet(t[n + 1].wps[r])
      BY <2>1, UnionAppended
    <2>3. t[n + 1].wps[r] = batch[r].wps
      BY <1>2, <1>5, <1>6
    <2> QED BY <1>6, <2>2, <2>3 DEF Passed
  <1> QED BY <1>2, <1>3, <1>4, <1>5, <1>7

Joined(A, B, C) == A \cup B = C
LEMMA PieceSet ==
    ASSUME NEW s, NEW src, NEW n \in Nat, NEW wps \in Seq(WavePacket), Piece(s, src, n, wps)
    PROVE  Joined(First(s, src, n), ToSet(wps), First(s, src, n + Len(wps)))
PROOF
  <1>1. Len(wps) \in Nat /\ \A i \in 1 .. Len(wps) : wps[i] = Shifted(s, src[n + i])
    BY DEF Piece
  <1>2. ToSet(wps) = {wps[i] : i \in 1 .. Len(wps)}
    BY DEF ToSet
  <1>3. \A k \in 1 .. n + Len(wps) : k \in 1 .. n \/ \E i \in 1 .. Len(wps) : k = n + i
    <2>1. PICK l \in Nat : l = Len(wps)
      BY <1>1
    <2>2. \A k \in 1 .. n + l : k \in 1 .. n \/ (k - n \in 1 .. l /\ k = n + (k - n))
      OBVIOUS
    <2> QED BY <2>1, <2>2
  <1>4. \A i \in 1 .. Len(wps) : n + i \in 1 .. n + Len(wps)
    BY <1>1
  <1>5. \A k \in 1 .. n : k \in 1 .. n + Len(wps)
    BY <1>1
  <1>6. ASSUME NEW x \in {Shifted(s, src[k]) : k \in 1 .. n + Len(wps)}
        PROVE  x \in {Shifted(s, src[k]) : k \in 1 .. n} \cup {wps[i] : i \in 1 .. Len(wps)}
    <2>1. PICK k \in 1 .. n + Len(wps) : x = Shifted(s, src[k])
      OBVIOUS
    <2>2. CASE k \in 1 .. n
      BY <2>1, <2>2
    <2>3. CASE \E i \in 1 .. Len(wps) : k = n + i
      <3>1. PICK i \in 1 .. Len(wps) : k = n + i
        BY <2>3
      <3>2. x = wps[i]
        BY <1>1, <2>1, <3>1
      <3> QED BY <3>2
    <2> QED BY <1>3, <2>2, <2>3
  <1>7. ASSUME NEW x \in {wps[i] : i \in 1 .. Len(wps)}
        PROVE  x \in {Shifted(s, src[k]) : k \in 1 .. n + Len(wps)}
    <2>1. PICK i \in 1 .. Len(wps) : x = wps[i]
      OBVIOUS
    <2>2. x = Shifted(s, src[n + i]) /\ n + i \in 1 .. n + Len(wps)
      BY <1>1, <1>4, <2>1
    <2> QED BY <2>2
  <1>8. ASSUME NEW x \in {Shifted(s, src[k]) : k \in 1 .. n}
        PROVE  x \in {Shifted(s, src[k]) : k \in 1 .. n + Len(wps)}
    BY <1>5
  <1> QED BY <1>2, <1>6, <1>7, <1>8 DEF First, Joined

\* What was announced for batches passed before holds on.
LEMMA PassageLater ==
    ASSUME TypeInv, NEW src, NEW base, NEW cuts, Order(src, base, cuts), NEW r \in Sides, NEW m \in 1 .. Len(scattered)
    PROVE  /\ Behind(Shift(r), time, src, Mid(r, base), scattered[m].end)
           /\ \A wp \in PassedBoth(m) : Behind(Shift(r), time, src, Mid(r, base), wp.time)
           /\ Uniform => \A wp \in Passed(m, Other(r)) : Clear(Shift(r), time, src, Mid(r, base), TrailingEdge(wp))
PROOF
  <1>1. r \in Inputs
    BY DEF Sides, Inputs
  <1>2. /\ Shift(r) \in Nat /\ time \in Nat /\ src \in Seq(WavePacket)
        /\ Mid(r, base) \in Nat /\ base[r] \in Nat /\ Len(batch[r].wps) \in Nat
    BY <1>1, OrderTypes
  <1>3. PICK d \in Nat, n \in Nat, l \in Nat : d = Shift(r) /\ n = base[r] /\ l = Mid(r, base) /\ n <= l
    BY <1>2 DEF Mid
  <1>4. scattered[m] \in Outcomes
    BY DEF TypeInv, ScatteredTypes
  <1>5. \A q \in Sides : \A wp \in Passed(m, q) : wp \in WavePacket
    <2>1. SUFFICES ASSUME NEW q \in Sides, NEW wp \in Passed(m, q) PROVE wp \in WavePacket
      OBVIOUS
    <2>2. scattered[m].wps[q] \in Seq(WavePacket)
      BY <1>4 DEF Outcomes
    <2>3. wp \in {scattered[m].wps[q][i] : i \in 1 .. Len(scattered[m].wps[q])}
      BY DEF Passed, ToSet
    <2> QED BY <2>2, <2>3, ElementOfSeq
  <1>6. /\ Behind(d, time, src, n, scattered[m].end)
        /\ \A wp \in PassedBoth(m) : Behind(d, time, src, n, wp.time)
        /\ Uniform => \A wp \in Passed(m, Other(r)) : Clear(d, time, src, n, TrailingEdge(wp))
    BY <1>3 DEF Order, Passage
  <1>7. ASSUME NEW e \in Nat
        PROVE  /\ Behind(d, time, src, n, e) => Behind(d, time, src, l, e)
               /\ Clear(d, time, src, n, e) => Clear(d, time, src, l, e)
    <2>1. n <= l /\ e <= e /\ time \in Nat /\ src \in Seq(WavePacket)
      BY <1>2, <1>3
    <2> QED BY <2>1, AnnouncesLater
  <1>8. Behind(d, time, src, l, scattered[m].end)
    <2>1. scattered[m].end \in Nat
      BY <1>4 DEF Outcomes
    <2> QED BY <1>6, <1>7, <2>1
  <1>9. ASSUME NEW wp \in PassedBoth(m)
        PROVE  Behind(d, time, src, l, wp.time)
    <2>1. wp.time \in Nat
      BY <1>5 DEF PassedBoth, Sides, WavePacket
    <2> QED BY <1>6, <1>7, <2>1
  <1>10. ASSUME Uniform, NEW wp \in Passed(m, Other(r))
         PROVE  Clear(d, time, src, l, TrailingEdge(wp))
    <2>1. wp \in WavePacket
      BY <1>5 DEF Sides, Other
    <2>2. TrailingEdge(wp) \in Nat
      BY <2>1, EdgeTypes
    <2> QED BY <1>6, <1>7, <1>10, <2>2
  <1> QED BY <1>3, <1>8, <1>9, <1>10

LEMMA ScatterPassage ==
    ASSUME TypeInv, TypeInv', Widths, NEW src, NEW base, NEW cuts, Order(src, base, cuts), Scatter,
           NEW base2, \A r \in Sides : base2[r] = Mid(r, base)
    PROVE  Passage(src, base2)'
PROOF
  <1>1. pc["dual"] = "scatter" /\ UNCHANGED <<setup, time>>
    BY DEF Scatter
  <1>2. PICK n : n = Len(scattered) + 1
    OBVIOUS
  <1>3. /\ Len(scattered) \in Nat /\ Len(scattered') = n
        /\ \A m \in 1 .. Len(scattered) : scattered'[m] = scattered[m]
        /\ scattered'[n].end = endTime
        /\ \A r \in Sides : scattered'[n].wps[r] = batch[r].wps
    BY <1>2, PassedNext
  <1>4. \A m \in 1 .. Len(scattered') : m \in 1 .. Len(scattered) \/ m = n
    BY <1>2, <1>3
  <1>5. \A m \in 1 .. Len(scattered) : PassedBoth(m)' = PassedBoth(m) /\ \A q : Passed(m, q)' = Passed(m, q)
    BY <1>3 DEF PassedBoth, Passed
  <1>6. \A q \in Sides : Passed(n, q)' = ToSet(batch[q].wps)
    BY <1>3 DEF Passed
  <1>7. PassedBoth(n)' = ToSet(batch["left"].wps) \cup ToSet(batch["right"].wps)
    <2>1. Passed(n, "left")' = ToSet(batch["left"].wps) /\ Passed(n, "right")' = ToSet(batch["right"].wps)
      BY <1>6 DEF Sides
    <2> QED BY <2>1 DEF PassedBoth
  <1>8. ASSUME NEW r \in Sides
        PROVE  /\ UNION {Passed(m, r)' : m \in 1 .. Len(scattered')} =
                     First(Shift(r), src, Mid(r, base))
               /\ \A m \in 1 .. Len(scattered') :
                     /\ Behind(Shift(r), time, src, Mid(r, base), scattered'[m].end)
                     /\ \A wp \in PassedBoth(m)' : Behind(Shift(r), time, src, Mid(r, base), wp.time)
                     /\ Uniform => \A wp \in Passed(m, Other(r))' :
                                      Clear(Shift(r), time, src, Mid(r, base), TrailingEdge(wp))
    <2>1. r \in Inputs
      BY DEF Sides, Inputs
    <2>2. base[r] \in Nat /\ batch[r].wps \in Seq(WavePacket) /\ Shift(r) \in Nat
      BY <2>1, OrderTypes
    <2>3. Piece(Shift(r), src, base[r], batch[r].wps)
      BY <2>1 DEF Order, Lines, Line
    <2>4. First(Shift(r), src, base[r]) \cup ToSet(batch[r].wps)
              = First(Shift(r), src, Mid(r, base))
      <3>1. PICK d \in Nat, b \in Nat, w \in Seq(WavePacket) : d = Shift(r) /\ b = base[r] /\ w = batch[r].wps
        BY <2>2
      <3>2. Piece(d, src, b, w)
        BY <2>3, <3>1
      <3>3. Joined(First(d, src, b), ToSet(w), First(d, src, b + Len(w)))
        BY <3>2, PieceSet
      <3> QED BY <3>1, <3>3 DEF Mid, Joined
    <2>5. UNION {Passed(m, r)' : m \in 1 .. Len(scattered')} =
              First(Shift(r), src, Mid(r, base))
      <3>1. UNION {Passed(m, r)' : m \in 1 .. Len(scattered')} =
                (UNION {Passed(m, r) : m \in 1 .. Len(scattered)}) \cup ToSet(batch[r].wps)
        BY PassedNext
      <3>2. UNION {Passed(m, r) : m \in 1 .. Len(scattered)} = First(Shift(r), src, base[r])
        BY DEF Order, Passage
      <3> QED BY <2>4, <3>1, <3>2
    <2>6. ASSUME NEW m \in 1 .. Len(scattered)
          PROVE  /\ Behind(Shift(r), time, src, Mid(r, base), scattered'[m].end)
                 /\ \A wp \in PassedBoth(m)' : Behind(Shift(r), time, src, Mid(r, base), wp.time)
                 /\ Uniform => \A wp \in Passed(m, Other(r))' :
                                  Clear(Shift(r), time, src, Mid(r, base), TrailingEdge(wp))
      <3>1. scattered'[m] = scattered[m] /\ PassedBoth(m)' = PassedBoth(m) /\ Passed(m, Other(r))' = Passed(m, Other(r))
        BY <1>3, <1>5
      <3> QED BY <3>1, PassageLater
    <2>7. ASSUME NEW q \in Sides, NEW wp \in ToSet(batch[q].wps)
          PROVE  /\ Behind(Shift(r), time, src, Mid(r, base), wp.time)
                 /\ Uniform /\ q = Other(r) => Clear(Shift(r), time, src, Mid(r, base), TrailingEdge(wp))
      <3>1. PICK i \in 1 .. Len(batch[q].wps) : wp = batch[q].wps[i]
        <4>1. q \in Inputs
          BY DEF Sides, Inputs
        <4>2. batch[q].wps \in Seq(WavePacket)
          BY <4>1, OrderTypes
        <4> QED BY <4>2, ToSetIs
      <3> QED BY <1>1, <3>1, BatchesBehind
    <2>8. /\ Behind(Shift(r), time, src, Mid(r, base), scattered'[n].end)
          /\ \A wp \in PassedBoth(n)' : Behind(Shift(r), time, src, Mid(r, base), wp.time)
          /\ Uniform => \A wp \in Passed(n, Other(r))' :
                           Clear(Shift(r), time, src, Mid(r, base), TrailingEdge(wp))
      <3>1. Behind(Shift(r), time, src, Mid(r, base), scattered'[n].end)
        BY <1>1, <1>3, BatchesBehind
      <3>2. "left" \in Sides /\ "right" \in Sides /\ Other(r) \in Sides
        BY DEF Sides, Other
      <3>3. \A wp \in PassedBoth(n)' : Behind(Shift(r), time, src, Mid(r, base), wp.time)
        BY <1>7, <2>7, <3>2
      <3>4. Passed(n, Other(r))' = ToSet(batch[Other(r)].wps)
        BY <1>6, <3>2
      <3>5. ASSUME Uniform, NEW wp \in ToSet(batch[Other(r)].wps)
            PROVE  Clear(Shift(r), time, src, Mid(r, base), TrailingEdge(wp))
        BY <2>7, <3>2, <3>5
      <3> QED BY <3>1, <3>3, <3>4, <3>5
    <2> QED BY <1>4, <2>5, <2>6, <2>8
  <1>9. \A r \in Sides : Shift(r)' = Shift(r)
    BY <1>1 DEF Shift
  <1> QED BY <1>1, <1>8, <1>9 DEF Passage

LEMMA ScatterOrder ==
    ASSUME TypeInv, TypeInv', Widths, NEW src, NEW base, NEW cuts, Order(src, base, cuts), Scatter
    PROVE  \E base2 : Order(src, base2, cuts)'
PROOF
  <1>1. /\ UNCHANGED <<setup, time, batches, generated, channel, port, timeout, outbox>>
        /\ batch' = [r \in Inputs |-> IF r \in Sides THEN WpBatch(0, 0, <<>>) ELSE batch[r]]
        /\ pc' = [pc EXCEPT !["dual"] = "idle"]
    BY DEF Scatter
  <1>2. pc \in [Getters -> DelayPlaces \cup DualPlaces] /\ base \in [Inputs -> Nat] /\ cuts \in [Inputs -> Seq(Nat)]
    BY DEF TypeInv, PlaceTypes, Order
  <1>3. pc'["dual"] = "idle" /\ pc'["delay"] = pc["delay"]
    BY <1>1, <1>2 DEF Getters
  <1>4. /\ \A r \in Sides : batch'[r] = WpBatch(0, 0, <<>>) /\ batch'["delay"] = batch["delay"]
        /\ "delay" \in Inputs /\ "delay" \notin Sides /\ Inputs = Sides \cup {"delay"}
    BY <1>1 DEF Inputs, Sides
  <1>5. WpBatch(0, 0, <<>>) \in Batch /\ WpBatch(0, 0, <<>>).wps = <<>>
    BY EmptySeq DEF WpBatch, Batch
  <1>6. PICK base2 : base2 = [r \in Inputs |-> IF r \in Sides THEN Mid(r, base) ELSE base[r]]
    OBVIOUS
  <1>7. base2 \in [Inputs -> Nat]
    <2>1. \A r \in Inputs : Mid(r, base) \in Nat /\ base[r] \in Nat
      BY OrderTypes
    <2> QED BY <1>6, <2>1
  <1>8. (\A r \in Sides : base2[r] = Mid(r, base)) /\ base2["delay"] = base["delay"]
    BY <1>4, <1>6
  <1>9. \A r \in Inputs : Pending(r)' = Pending(r)
    BY <1>1, SamePending
  <1>10. ASSUME NEW r \in Inputs
         PROVE  Line(Shift(r), time, src, base2[r], cuts[r], batch[r], port[r], Pending(r), Total(r, base2))'
    <2>1. Shift(r)' = Shift(r) /\ Total(r, base2)' = Total(r, base)
      BY <1>1, <1>8 DEF Shift, Total
    <2>2. GoodLine(Shift(r), time, src, base[r], cuts[r], batch[r], port[r], Pending(r), Total(r, base))
      BY OrderTypes
    <2>3. CASE r \in Sides
      <3>1. GoodLine(Shift(r), time, src, base[r] + Len(batch[r].wps), cuts[r], WpBatch(0, 0, <<>>), port[r], Pending(r),
                     Total(r, base))
        BY <1>5, <2>2, LineClears
      <3>2. base2[r] = base[r] + Len(batch[r].wps)
        BY <1>8, <2>3 DEF Mid
      <3> QED BY <1>1, <1>4, <1>9, <2>1, <2>3, <3>1, <3>2 DEF GoodLine
    <2>4. CASE r = "delay"
      <3>1. Total(r, base2) = Total(r, base)
        BY <2>4 DEF Total
      <3> QED BY <1>1, <1>4, <1>8, <1>9, <2>4, <3>1, LinesStay
    <2> QED BY <1>4, <2>3, <2>4
  <1>11. DelayPhase(src, base2)'
    <2>1. DelayPhase(src, base)'
      BY <1>1, <1>3, <1>4, DelayPhaseStays DEF Order, Sides
    <2> QED BY <1>8, <2>1 DEF DelayPhase, Mid
  <1>12. DualPhase(src, base2)'
    BY <1>3, <1>4, <1>5 DEF DualPhase, PullPlaces
  <1>13. Passage(src, base2)'
    BY <1>8, ScatterPassage
  <1>14. Source(src)' /\ Destinations'
    BY <1>1 DEF Order, Source, Destinations
  <1>15. Order(src, base2, cuts)'
    BY <1>2, <1>7, <1>10, <1>11, <1>12, <1>13, <1>14 DEF Order, Lines
  <1> QED BY <1>15

-----------------------------------------------------------------------------
(* The source.                                                             *)

\* The packets of a batch made from t to t2, after those of src.
ComesNext(src, t, t2, wps) ==
    \A i \in 1 .. Len(wps) :
        /\ wps[i].pair = Len(src) + i /\ wps[i].sigma = SigmaOf(Len(src) + i) /\ wps[i].since = t
        /\ t <= wps[i].time /\ wps[i].time <= t2
        /\ \A j \in i .. Len(wps) : wps[i].time <= wps[j].time

\* What it makes comes after all it has made.
LEMMA SourceExtends ==
    ASSUME NEW src, NEW t \in Nat, Emitted(src, t), NEW t2 \in Nat, t <= t2, NEW wps \in Seq(WavePacket),
           ComesNext(src, t, t2, wps)
    PROVE  /\ Emitted(src \o wps, t2) /\ Extends(src, t, src \o wps, t2)
           /\ src \o wps \in Seq(WavePacket) /\ Len(src \o wps) = Len(src) + Len(wps)
           /\ \A i \in 1 .. Len(wps) : (src \o wps)[Len(src) + i] = wps[i]
PROOF
  <1>1. src \in Seq(WavePacket)
    BY DEF Emitted
  <1>2. PICK n \in Nat, l \in Nat : n = Len(src) /\ l = Len(wps)
    BY <1>1
  <1>3. PICK src2 : src2 = src \o wps
    OBVIOUS
  <1>4. /\ src2 \in Seq(WavePacket) /\ Len(src2) = n + l
        /\ \A i \in 1 .. n + l : src2[i] = IF i <= n THEN src[i] ELSE wps[i - n]
    BY <1>1, <1>2, <1>3, ConcatProperties
  <1>5. /\ \A k \in 1 .. n : src2[k] = src[k]
        /\ \A i \in 1 .. l : src2[n + i] = wps[i]
    <2>1. \A k \in 1 .. n : k \in 1 .. n + l /\ k <= n
      OBVIOUS
    <2>2. \A i \in 1 .. l : n + i \in 1 .. n + l /\ ~ n + i <= n /\ (n + i) - n = i
      OBVIOUS
    <2> QED BY <1>4, <2>1, <2>2
  <1>6. \A k \in 1 .. n + l : k \in 1 .. n \/ \E i \in 1 .. l : k = n + i
    <2>1. \A k \in 1 .. n + l : k \in 1 .. n \/ (k - n \in 1 .. l /\ k = n + (k - n))
      OBVIOUS
    <2> QED BY <2>1
  <1>7. \A k \in 1 .. n : src2[k].pair = k /\ src2[k].sigma = SigmaOf(k) /\ src2[k].time \in Nat /\ src2[k].time <= t
    <2>1. SUFFICES ASSUME NEW k \in 1 .. n
                   PROVE  src2[k].pair = k /\ src2[k].sigma = SigmaOf(k) /\ src2[k].time \in Nat /\ src2[k].time <= t
      OBVIOUS
    <2>2. src[k] \in WavePacket
      BY <1>1, <1>2, ElementOfSeq
    <2>3. src[k].pair = k /\ src[k].sigma = SigmaOf(k) /\ src[k].time <= t
      BY <1>2 DEF Emitted
    <2> QED BY <1>5, <2>2, <2>3 DEF WavePacket
  <1>8. \A i \in 1 .. l : /\ src2[n + i].pair = n + i /\ src2[n + i].sigma = SigmaOf(n + i) /\ src2[n + i].since = t
                          /\ src2[n + i].time \in Nat /\ t <= src2[n + i].time /\ src2[n + i].time <= t2
    <2>1. SUFFICES ASSUME NEW i \in 1 .. l
                   PROVE  /\ src2[n + i].pair = n + i /\ src2[n + i].sigma = SigmaOf(n + i) /\ src2[n + i].since = t
                          /\ src2[n + i].time \in Nat /\ t <= src2[n + i].time /\ src2[n + i].time <= t2
      OBVIOUS
    <2>2. src2[n + i] = wps[i]
      BY <1>5
    <2>3. wps[i] \in WavePacket
      BY <1>2, ElementOfSeq
    <2>4. /\ wps[i].pair = n + i /\ wps[i].sigma = SigmaOf(n + i) /\ wps[i].since = t
          /\ t <= wps[i].time /\ wps[i].time <= t2
      BY <1>2 DEF ComesNext
    <2> QED BY <2>2, <2>3, <2>4 DEF WavePacket
  <1>9. ASSUME NEW j \in 1 .. n + l, NEW k \in 1 .. n + l, j <= k
        PROVE  src2[j].time <= src2[k].time
    <2>1. CASE j \in 1 .. n /\ k \in 1 .. n
      <3>1. src[j].time <= src[k].time
        BY <1>2, <1>9, <2>1 DEF Emitted
      <3> QED BY <1>5, <2>1, <3>1
    <2>2. CASE j \in 1 .. n /\ \E i \in 1 .. l : k = n + i
      <3>1. src2[j].time \in Nat /\ src2[j].time <= t
        BY <1>7, <2>2
      <3>2. src2[k].time \in Nat /\ t <= src2[k].time
        BY <1>8, <2>2
      <3> QED BY <3>1, <3>2
    <2>3. CASE (\E i \in 1 .. l : j = n + i) /\ k \notin 1 .. n
      <3>1. PICK x \in 1 .. l, y \in 1 .. l : j = n + x /\ k = n + y
        BY <1>6, <2>3
      <3>2. y \in x .. l
        BY <1>9, <3>1
      <3>3. wps[x].time <= wps[y].time
        BY <1>2, <3>2 DEF ComesNext
      <3> QED BY <1>5, <3>1, <3>3
    <2>4. \A i \in 1 .. l : j = n + i => k \notin 1 .. n
      BY <1>9
    <2> QED BY <1>6, <2>1, <2>2, <2>3, <2>4
  <1>10. \A k \in 1 .. n + l : src2[k].pair = k /\ src2[k].sigma = SigmaOf(k) /\ src2[k].time <= t2
    <2>1. SUFFICES ASSUME NEW k \in 1 .. n + l
                   PROVE  src2[k].pair = k /\ src2[k].sigma = SigmaOf(k) /\ src2[k].time <= t2
      OBVIOUS
    <2>2. CASE k \in 1 .. n
      BY <1>7, <2>2
    <2>3. CASE \E i \in 1 .. l : k = n + i
      BY <1>8, <2>3
    <2> QED BY <1>6, <2>2, <2>3
  <1>11. Emitted(src2, t2)
    BY <1>4, <1>9, <1>10 DEF Emitted
  <1>12. Extends(src, t, src2, t2)
    <2>1. \A k \in n + 1 .. n + l : \E i \in 1 .. l : k = n + i
      <3>1. \A k \in n + 1 .. n + l : k - n \in 1 .. l /\ k = n + (k - n)
        OBVIOUS
      <3> QED BY <3>1
    <2>2. \A k \in n + 1 .. n + l : t <= src2[k].time /\ src2[k].since = t
      BY <1>8, <2>1
    <2>3. n <= n + l
      OBVIOUS
    <2> QED BY <1>2, <1>4, <1>5, <2>2, <2>3 DEF Extends
  <1> QED BY <1>2, <1>3, <1>4, <1>5, <1>11, <1>12

\* The batch it makes is the next piece of each of its receivers.
LEMMA NewLink ==
    ASSUME NEW src \in Seq(WavePacket), NEW t \in Nat, NEW t2 \in Nat, t <= t2, NEW src2 \in Seq(WavePacket),
           Extends(src, t, src2, t2), NEW b \in Batch, b.start = t, b.end = t2, Len(src2) = Len(src) + Len(b.wps),
           \A i \in 1 .. Len(b.wps) : src2[Len(src) + i] = b.wps[i]
    PROVE  Link(0, t2, src2, Len(src), Len(src2), b)
PROOF
  <1>1. b.wps \in Seq(WavePacket)
    BY DEF Batch
  <1>2. PICK n \in Nat, l \in Nat : n = Len(src) /\ l = Len(b.wps)
    BY <1>1
  <1>3. Len(src2) = n + l
    BY <1>2
  <1>4. \A k \in 1 .. n + l : Shifted(0, src2[k]) = src2[k]
    <2>1. SUFFICES ASSUME NEW k \in 1 .. n + l PROVE Shifted(0, src2[k]) = src2[k]
      OBVIOUS
    <2>2. src2[k] \in WavePacket
      BY <1>3, ElementOfSeq
    <2> QED BY <2>2, ShiftedIs
  <1>5. Piece(0, src2, n, b.wps)
    <2>1. \A i \in 1 .. l : n + i \in 1 .. n + l
      OBVIOUS
    <2> QED BY <1>2, <1>3, <1>4, <2>1 DEF Piece
  <1>6. \A k \in n + 1 .. n + l : k \in 1 .. n + l /\ t <= src2[k].time /\ src2[k].since = t
    BY <1>2, <1>3 DEF Extends
  <1>7. Announces(0, t2, src2, n, t)
    <2>1. t <= t2 + 0
      OBVIOUS
    <2>2. ASSUME NEW k \in n + 1 .. n + l
          PROVE  /\ t <= Shifted(0, src2[k]).time
                 /\ Unannounced(Shifted(0, src2[k])) \/ t <= LeadingEdge(Shifted(0, src2[k]))
      <3>1. Shifted(0, src2[k]) = src2[k] /\ t <= src2[k].time /\ src2[k].since = t
        BY <1>4, <1>6
      <3>2. src2[k] \in WavePacket
        BY <1>3, <1>6, ElementOfSeq
      <3>3. LeadingEdge(src2[k]) \in Nat
        BY <3>2, EdgeTypes
      <3> QED BY <3>1, <3>3 DEF Unannounced
    <2> QED BY <1>3, <2>1, <2>2 DEF Announces, Behind, Clear
  <1>8. Announces(0, t2, src2, n + l, t2)
    <2>1. t2 <= t2 + 0 /\ n + l + 1 .. n + l = {}
      OBVIOUS
    <2> QED BY <1>3, <2>1 DEF Announces, Behind, Clear
  <1> QED BY <1>2, <1>3, <1>5, <1>7, <1>8 DEF Link

\* Nothing that is announced is taken back.
LEMMA PhasesMore ==
    ASSUME TypeInv, NEW src, NEW base, NEW cuts, Order(src, base, cuts), NEW src2 \in Seq(WavePacket),
           time' \in Nat, Extends(src, time, src2, time'),
           UNCHANGED <<setup, port, batch, endTime, pc, scattered>>, outbox'["delay"] = outbox["delay"]
    PROVE  DelayPhase(src2, base)' /\ DualPhase(src2, base)' /\ Passage(src2, base)'
PROOF
  <1>1. time \in Nat /\ src \in Seq(WavePacket) /\ endTime \in Nat
    BY DEF TypeInv, SourceTypes, TimeoutTypes, Order, Source, Emitted
  <1>2. PICK t \in Nat : t = time'
    OBVIOUS
  <1>3. \A s \in Nat, n \in Nat, e \in Nat :
          /\ Behind(s, time, src, n, e) => Behind(s, t, src2, n, e)
          /\ Clear(s, time, src, n, e) => Clear(s, t, src2, n, e)
          /\ Announces(s, time, src, n, e) => Announces(s, t, src2, n, e)
    <2>1. SUFFICES ASSUME NEW s \in Nat, NEW n \in Nat, NEW e \in Nat
                   PROVE  /\ Behind(s, time, src, n, e) => Behind(s, t, src2, n, e)
                          /\ Clear(s, time, src, n, e) => Clear(s, t, src2, n, e)
                          /\ Announces(s, time, src, n, e) => Announces(s, t, src2, n, e)
      OBVIOUS
    <2>2. Extends(src, time, src2, t)
      BY <1>2
    <2> QED BY <1>1, <2>2, AnnouncesMore
  <1>4. \A r \in Inputs : /\ Shift(r) \in Nat /\ Mid(r, base) \in Nat /\ base[r] \in Nat
                          /\ Shift(r)' = Shift(r) /\ Mid(r, base)' = Mid(r, base)
                          /\ batch[r] \in Batch /\ batch[r].start \in Nat /\ batch[r].end \in Nat
    <2>1. SUFFICES ASSUME NEW r \in Inputs
                   PROVE  /\ Shift(r) \in Nat /\ Mid(r, base) \in Nat /\ base[r] \in Nat
                          /\ Shift(r)' = Shift(r) /\ Mid(r, base)' = Mid(r, base)
                          /\ batch[r] \in Batch /\ batch[r].start \in Nat /\ batch[r].end \in Nat
      OBVIOUS
    <2>2. Shift(r) \in Nat /\ Mid(r, base) \in Nat /\ base[r] \in Nat
      BY OrderTypes
    <2>3. Shift(r)' = Shift(r) /\ Mid(r, base)' = Mid(r, base)
      BY DEF Shift, Mid
    <2>4. batch[r] \in Batch
      BY DEF TypeInv, PortTypes
    <2> QED BY <2>2, <2>3, <2>4 DEF Batch
  <1>5. "delay" \in Inputs /\ "left" \in Inputs /\ "right" \in Inputs /\ Sides = {"left", "right"}
    BY DEF Inputs, Sides
  <1>6. DelayPhase(src2, base)'
    <2>1. DelayPhase(src, base)
      BY DEF Order
    <2>2. /\ base["delay"] \in Nat /\ batch["delay"].start \in Nat /\ batch["delay"].end \in Nat
          /\ Mid("delay", base) \in Nat /\ Mid("delay", base)' = Mid("delay", base)
      BY <1>4, <1>5
    <2>3. Announces(0, time, src, base["delay"], batch["delay"].start)
             => Announces(0, t, src2, base["delay"], batch["delay"].start)
      BY <1>3, <2>2
    <2>4. Announces(0, time, src, Mid("delay", base), batch["delay"].end)
             => Announces(0, t, src2, Mid("delay", base), batch["delay"].end)
      BY <1>3, <2>2
    <2> QED BY <1>2, <2>1, <2>2, <2>3, <2>4 DEF DelayPhase
  <1>7. \A r \in Sides : Reference(r) \in Nat /\ Reference(r)' = Reference(r)
    <2>1. SUFFICES ASSUME NEW r \in Sides PROVE Reference(r) \in Nat /\ Reference(r)' = Reference(r)
      OBVIOUS
    <2>2. batch[Other(r)] \in Batch
      BY <1>4, <1>5 DEF Other
    <2> QED BY <2>2, BatchTrailingEdgeType DEF Reference
  <1>8. DualPhase(src2, base)'
    <2>1. DualPhase(src, base)
      BY DEF Order
    <2>2. /\ \A r \in Sides : /\ Mid(r, base)' = Mid(r, base) /\ Mid(r, base) \in Nat
                              /\ Shift(r)' = Shift(r) /\ Shift(r) \in Nat
          /\ batch["left"].end \in Nat /\ "left" \in Sides /\ "right" \in Sides
      BY <1>4, <1>5
    <2>3. Announces(0, time, src, Mid("left", base), batch["left"].end)
             => Announces(0, t, src2, Mid("left", base), batch["left"].end)
      BY <1>3, <2>2
    <2>4. Announces(0, time, src, Mid("left", base), Reference("left"))
             => Announces(0, t, src2, Mid("left", base), Reference("left"))
      BY <1>3, <1>7, <2>2
    <2>5. Announces(Shift("right"), time, src, Mid("right", base), Reference("right"))
             => Announces(Shift("right"), t, src2, Mid("right", base), Reference("right"))
      BY <1>3, <1>7, <2>2
    <2>6. EndAnnounced(src, base) => EndAnnounced(src2, base)'
      <3>1. \A r \in Sides : Behind(Shift(r), time, src, Mid(r, base), endTime)
                                => Behind(Shift(r), t, src2, Mid(r, base), endTime)
        BY <1>1, <1>3, <2>2
      <3> QED BY <1>2, <2>2, <3>1 DEF EndAnnounced
    <2>7. /\ Mid("left", base)' = Mid("left", base) /\ Mid("right", base)' = Mid("right", base)
          /\ Shift("right")' = Shift("right") /\ Reference("left")' = Reference("left")
          /\ Reference("right")' = Reference("right")
      BY <1>7, <2>2
    <2> QED BY <1>2, <2>1, <2>3, <2>4, <2>5, <2>6, <2>7 DEF DualPhase
  <1>9. Passage(src2, base)'
    <2>1. SUFFICES ASSUME NEW r \in Sides
                   PROVE  /\ UNION {Passed(m, r) : m \in 1 .. Len(scattered)} = First(Shift(r), src2, base[r])
                          /\ \A m \in 1 .. Len(scattered) :
                                /\ Behind(Shift(r), t, src2, base[r], scattered[m].end)
                                /\ \A wp \in PassedBoth(m) : Behind(Shift(r), t, src2, base[r], wp.time)
                                /\ Uniform => \A wp \in Passed(m, Other(r)) :
                                                 Clear(Shift(r), t, src2, base[r], TrailingEdge(wp))
      <3>1. \A r \in Sides : Shift(r)' = Shift(r)
        BY <1>4, <1>5
      <3>2. \A m : PassedBoth(m)' = PassedBoth(m) /\ \A r : Passed(m, r)' = Passed(m, r)
        BY DEF PassedBoth, Passed
      <3> QED BY <1>2, <3>1, <3>2 DEF Passage
    <2>2. r \in Inputs /\ Shift(r) \in Nat /\ base[r] \in Nat
      BY <1>4, <1>5
    <2>3. First(Shift(r), src2, base[r]) = First(Shift(r), src, base[r])
      <3>1. Piece(Shift(r), src, base[r], batch[r].wps) /\ Len(batch[r].wps) \in Nat
        BY <2>2, OrderTypes DEF Order, Lines, Line
      <3>2. Len(src) \in Nat /\ base[r] <= Len(src)
        BY <1>1, <2>2, <3>1 DEF Piece
      <3>3. \A k \in 1 .. base[r] : src2[k] = src[k]
        BY <2>2, <3>2 DEF Extends
      <3> QED BY <3>3 DEF First
    <2>4. Passage(src, base)
      BY DEF Order
    <2>5. ASSUME NEW m \in 1 .. Len(scattered)
          PROVE  /\ scattered[m].end \in Nat
                 /\ \A wp \in PassedBoth(m) : wp.time \in Nat
                 /\ \A wp \in Passed(m, Other(r)) : TrailingEdge(wp) \in Nat
      <3>1. scattered[m] \in Outcomes
        BY DEF TypeInv, ScatteredTypes
      <3>2. \A q \in Sides : \A wp \in Passed(m, q) : wp \in WavePacket
        <4>1. SUFFICES ASSUME NEW q \in Sides, NEW wp \in Passed(m, q) PROVE wp \in WavePacket
          OBVIOUS
        <4>2. scattered[m].wps[q] \in Seq(WavePacket)
          BY <3>1 DEF Outcomes
        <4>3. wp \in {scattered[m].wps[q][i] : i \in 1 .. Len(scattered[m].wps[q])}
          BY <4>2, ToSetIs DEF Passed
        <4> QED BY <4>2, <4>3, ElementOfSeq
      <3>3. \A wp \in Passed(m, Other(r)) : wp \in WavePacket
        BY <1>5, <3>2 DEF Other
      <3>4. \A wp \in PassedBoth(m) : wp \in WavePacket
        BY <1>5, <3>2 DEF PassedBoth
      <3> QED BY <3>1, <3>3, <3>4, EdgeTypes DEF Outcomes, WavePacket
    <2>6. ASSUME NEW m \in 1 .. Len(scattered)
          PROVE  /\ Behind(Shift(r), t, src2, base[r], scattered[m].end)
                 /\ \A wp \in PassedBoth(m) : Behind(Shift(r), t, src2, base[r], wp.time)
                 /\ Uniform => \A wp \in Passed(m, Other(r)) : Clear(Shift(r), t, src2, base[r], TrailingEdge(wp))
      <3>1. /\ Behind(Shift(r), time, src, base[r], scattered[m].end)
            /\ \A wp \in PassedBoth(m) : Behind(Shift(r), time, src, base[r], wp.time)
            /\ Uniform => \A wp \in Passed(m, Other(r)) : Clear(Shift(r), time, src, base[r], TrailingEdge(wp))
        BY <2>4 DEF Passage
      <3>2. Behind(Shift(r), t, src2, base[r], scattered[m].end)
        BY <1>3, <2>2, <2>5, <3>1
      <3>3. \A wp \in PassedBoth(m) : Behind(Shift(r), t, src2, base[r], wp.time)
        BY <1>3, <2>2, <2>5, <3>1
      <3>4. Uniform => \A wp \in Passed(m, Other(r)) : Clear(Shift(r), t, src2, base[r], TrailingEdge(wp))
        BY <1>3, <2>2, <2>5, <3>1
      <3> QED BY <3>2, <3>3, <3>4
    <2> QED BY <2>3, <2>4, <2>6 DEF Passage
  <1> QED BY <1>6, <1>8, <1>9

LEMMA GenerateOrder ==
    ASSUME TypeInv, TypeInv', Widths, NEW src, NEW base, NEW cuts, Order(src, base, cuts), Generate
    PROVE  \E src2, cuts2 : Order(src2, base, cuts2)'
PROOF
  <1>1. PICK period : Makes(period)
    BY GenerateIs
  <1>2. /\ outbox["epps"] = <<>>
        /\ UNCHANGED <<setup, channel, port, batch, timeout, endTime, pc, scattered>>
    BY DEF Generate
  <1>3. PICK n, t, t2, src2 : n = generated' /\ t = time /\ t2 = time' /\ src2 = src \o period.wps
    OBVIOUS
  <1>4. /\ period \in Batch /\ period.start = t /\ period.end = t2 /\ period.wps \in Seq(WavePacket)
        /\ t2 \in Nat /\ t <= t2 /\ n = generated + Len(period.wps)
        /\ outbox' = [outbox EXCEPT !["epps"] = <<[to |-> "left", batch |-> period], [to |-> "delay", batch |-> period]>>]
    BY <1>1, <1>3 DEF Makes, Batch
  <1>5. /\ t \in Nat /\ Emitted(src, t) /\ src \in Seq(WavePacket) /\ Len(src) = generated /\ generated \in Nat
    BY <1>3 DEF Order, Source, Emitted, TypeInv, SourceTypes
  <1>6. \A i \in 1 .. Len(period.wps) :
              /\ period.wps[i].pair = Len(src) + i /\ period.wps[i].sigma = SigmaOf(Len(src) + i)
              /\ period.wps[i].since = t
              /\ t <= period.wps[i].time /\ period.wps[i].time <= t2
              /\ \A j \in i .. Len(period.wps) : period.wps[i].time <= period.wps[j].time
    BY <1>1, <1>3, <1>5 DEF Makes
  <1>7. /\ Emitted(src \o period.wps, t2) /\ Extends(src, t, src \o period.wps, t2)
        /\ src \o period.wps \in Seq(WavePacket) /\ Len(src \o period.wps) = Len(src) + Len(period.wps)
        /\ \A i \in 1 .. Len(period.wps) : (src \o period.wps)[Len(src) + i] = period.wps[i]
    <2>1. PICK w \in Seq(WavePacket) : w = period.wps
      BY <1>4
    <2>2. ComesNext(src, t, t2, w)
      BY <1>6, <2>1 DEF ComesNext
    <2>3. t \in Nat /\ t2 \in Nat /\ t <= t2 /\ Emitted(src, t)
      BY <1>4, <1>5
    <2>4. /\ Emitted(src \o w, t2) /\ Extends(src, t, src \o w, t2)
          /\ src \o w \in Seq(WavePacket) /\ Len(src \o w) = Len(src) + Len(w)
          /\ \A i \in 1 .. Len(w) : (src \o w)[Len(src) + i] = w[i]
      BY <2>1, <2>2, <2>3, SourceExtends
    <2> QED BY <2>1, <2>4
  <1>8. /\ Emitted(src2, t2) /\ Extends(src, t, src2, t2) /\ src2 \in Seq(WavePacket) /\ Len(src2) = n
        /\ Len(src2) = Len(src) + Len(period.wps)
        /\ \A i \in 1 .. Len(period.wps) : src2[Len(src) + i] = period.wps[i]
    BY <1>3, <1>4, <1>5, <1>7
  <1>9. Link(0, t2, src2, Len(src), Len(src2), period)
    BY <1>4, <1>5, <1>8, NewLink
  <1>10. n \in Nat
    BY <1>8
  <1>11. /\ Pending("left")' = Append(Pending("left"), period) /\ Pending("delay")' = Append(Pending("delay"), period)
         /\ Pending("right")' = Pending("right") /\ Destinations'
    <2>1. outbox \in [Senders -> Seq([to : Inputs, batch : Batch])] /\ "epps" \in Senders /\ "delay" \in Senders
      BY DEF TypeInv, OutboxTypes, Senders
    <2>2. PICK x, y : x = [to |-> "left", batch |-> period] /\ y = [to |-> "delay", batch |-> period]
      OBVIOUS
    <2>3. /\ outbox'["epps"] = <<x, y>> /\ outbox'["delay"] = outbox["delay"]
          /\ x.to = "left" /\ y.to = "delay" /\ x.batch = period /\ y.batch = period
      BY <1>4, <2>1, <2>2
    <2>4. /\ Len(outbox'["epps"]) = 2 /\ outbox'["epps"] # <<>>
          /\ outbox'["epps"][1] = x /\ outbox'["epps"][2] = y /\ outbox'["epps"][Len(outbox'["epps"])] = y
      BY <2>3
    <2>5. /\ Queued("left") = <<>> /\ Queued("delay") = <<>> /\ Queued("right")' = Queued("right")
          /\ Queued("left")' = <<period>> /\ Queued("delay")' = <<period>>
      <3>1. Len(outbox["epps"]) # 2
        BY <1>2, EmptySeq
      <3>2. Queued("left") = <<>> /\ Queued("delay") = <<>>
        BY <1>2, <3>1, QueuedAre
      <3>3. Queued("left")' = <<period>> /\ Queued("delay")' = <<period>>
        BY <2>3, <2>4, QueuedNext
      <3>4. Queued("right")' = Queued("right")
        BY <2>3, QueuedAre, QueuedNext
      <3> QED BY <3>2, <3>3, <3>4
    <2>6. channel["left"] \in Seq(Batch) /\ channel["delay"] \in Seq(Batch)
      BY DEF TypeInv, PortTypes, Inputs
    <2>7. /\ Append(channel["left"] \o <<>>, period) = channel["left"] \o <<period>>
          /\ Append(channel["delay"] \o <<>>, period) = channel["delay"] \o <<period>>
      BY <1>4, <2>6, AppendJoined
    <2>8. channel' = channel
      BY <1>2
    <2>9. Pending("left")' = channel["left"] \o <<period>> /\ Pending("delay")' = channel["delay"] \o <<period>>
          /\ Pending("right")' = channel["right"] \o Queued("right")
      BY <2>5, <2>8, Zenon DEF Pending
    <2>10. Pending("left") = channel["left"] \o <<>> /\ Pending("delay") = channel["delay"] \o <<>>
           /\ Pending("right") = channel["right"] \o Queued("right")
      BY <2>5, Zenon DEF Pending
    <2>11. Destinations'
      <3>1. Len(outbox'["epps"]) # 1
        BY <2>4
      <3> QED BY <2>3, <2>4, <3>1 DEF Order, Destinations
    <2> QED BY <2>7, <2>9, <2>10, <2>11
  <1>12. PICK cuts2 : cuts2 = [r \in Inputs |-> IF r = "right" THEN cuts[r] ELSE Append(cuts[r], n)]
    OBVIOUS
  <1>13. \A r \in Inputs : cuts[r] \in Seq(Nat)
    BY DEF Order
  <1>14. cuts2 \in [Inputs -> Seq(Nat)]
    <2>1. \A r \in Inputs : Append(cuts[r], n) \in Seq(Nat)
      BY <1>10, <1>13
    <2> QED BY <1>12, <1>13, <2>1
  <1>15. ASSUME NEW r \in Inputs
         PROVE  Line(Shift(r), time, src2, base[r], cuts2[r], batch[r], port[r], Pending(r), Total(r, base))'
    <2>1. GoodLine(Shift(r), t, src, base[r], cuts[r], batch[r], port[r], Pending(r), Total(r, base))
      BY <1>3, OrderTypes
    <2>2. GoodLine(Shift(r), t2, src2, base[r], cuts[r], batch[r], port[r], Pending(r), Total(r, base))
      BY <1>4, <1>8, <2>1, LineMore
    <2>3. Shift(r)' = Shift(r)
      BY <1>2 DEF Shift
    <2>4. CASE r = "right"
      <3>1. Total(r, base)' = Total(r, base) /\ Pending(r)' = Pending(r)
        BY <1>11, <2>4 DEF Total
      <3>2. cuts2[r] = cuts[r]
        BY <1>12, <2>4
      <3> QED BY <1>2, <1>3, <2>2, <2>3, <3>1, <3>2 DEF GoodLine
    <2>5. CASE r # "right"
      <3>1. /\ Total(r, base) = Len(src) /\ Total(r, base)' = Len(src2) /\ Shift(r) = 0
            /\ cuts2[r] = Append(cuts[r], Len(src2))
        BY <1>3, <1>5, <1>8, <1>12, <2>5 DEF Total, Shift
      <3>2. Pending(r)' = Append(Pending(r), period)
        <4>1. r = "left" \/ r = "delay"
          BY <2>5 DEF Inputs
        <4> QED BY <1>11, <4>1
      <3>3. GoodLine(0, t2, src2, base[r], cuts[r], batch[r], port[r], Pending(r), Len(src))
        BY <2>2, <3>1
      <3>4. GoodLine(0, t2, src2, base[r], Append(cuts[r], Len(src2)), batch[r], port[r], Append(Pending(r), period), Len(src2))
        <4>1. Len(src2) \in Nat
          BY <1>8
        <4> QED BY <1>4, <1>9, <3>3, <4>1, LineEnters
      <3> QED BY <1>2, <1>3, <2>3, <3>1, <3>2, <3>4 DEF GoodLine
    <2> QED BY <2>4, <2>5
  <1>16. DelayPhase(src2, base)' /\ DualPhase(src2, base)' /\ Passage(src2, base)'
    <2>1. outbox'["delay"] = outbox["delay"]
      <3>1. outbox \in [Senders -> Seq([to : Inputs, batch : Batch])] /\ "delay" \in Senders
        BY DEF TypeInv, OutboxTypes, Senders
      <3> QED BY <1>4, <3>1
    <2>2. time' \in Nat /\ Extends(src, time, src2, time') /\ src2 \in Seq(WavePacket)
      BY <1>3, <1>4, <1>8
    <2> QED BY <1>2, <2>1, <2>2, PhasesMore
  <1>17. Source(src2)'
    BY <1>3, <1>8 DEF Source
  <1>18. Order(src2, base, cuts2)'
    BY <1>11, <1>14, <1>15, <1>16, <1>17 DEF Order, Lines
  <1> QED BY <1>18

-----------------------------------------------------------------------------
(* The invariant holds.                                                    *)

LEMMA InitOrder == ASSUME TypeInv, Init PROVE InOrder
PROOF
  <1>1. PICK src, base, cuts : src = <<>> /\ base = [r \in Inputs |-> 0] /\ cuts = [r \in Inputs |-> <<0>>]
    OBVIOUS
  <1>2. /\ time = 0 /\ generated = 0 /\ endTime = 0 /\ scattered = <<>> /\ setup.delay \in Nat
        /\ \A r \in Inputs : /\ channel[r] = <<>>
                             /\ port[r] = [period |-> <<>>, start |-> 0, end |-> 0, current |-> 0]
                             /\ batch[r] = WpBatch(0, 0, <<>>)
        /\ outbox["epps"] = <<>> /\ outbox["delay"] = <<>>
        /\ pc["delay"] = "idle" /\ pc["dual"] = "idle"
    BY PortsAssumption DEF Init, Senders, Getters
  <1>3. src \in Seq(WavePacket) /\ Len(src) = 0 /\ base \in [Inputs -> Nat] /\ cuts \in [Inputs -> Seq(Nat)]
    BY <1>1, EmptySeq
  <1>4. \A r \in Inputs : base[r] = 0 /\ Len(cuts[r]) = 1 /\ cuts[r][1] = 0
    BY <1>1
  <1>5. \A r \in Inputs : Pending(r) = <<>> /\ Shift(r) \in Nat /\ Total(r, base) = 0
    <2>1. Queued("left") = <<>> /\ Queued("delay") = <<>> /\ Queued("right") = <<>>
      <3>1. Len(outbox["epps"]) # 2
        BY <1>2, EmptySeq
      <3> QED BY <1>2, <3>1, QueuedAre
    <2>2. <<>> \o <<>> = <<>>
      BY AppendJoined
    <2> QED BY <1>2, <1>4, <2>1, <2>2 DEF Pending, Shift, Total, Inputs
  <1>6. \A k \in 1 .. Len(src) : FALSE
    BY <1>3
  <1>7. Source(src)
    BY <1>2, <1>3, <1>6 DEF Source, Emitted
  <1>8. Destinations
    <2>1. Len(outbox["epps"]) = 0 /\ Len(outbox["delay"]) = 0
      BY <1>2, EmptySeq
    <2> QED BY <2>1 DEF Destinations
  <1>9. \A s \in Nat : \A w : w = <<>> => Piece(s, src, 0, w)
    <2>1. SUFFICES ASSUME NEW s \in Nat PROVE Piece(s, src, 0, <<>>)
      OBVIOUS
    <2>2. Len(<<>>) = 0 /\ 0 + 0 <= 0 /\ 1 .. 0 = {}
      OBVIOUS
    <2> QED BY <1>3, <2>2 DEF Piece
  <1>10. \A s \in Nat : Announces(s, 0, src, 0, 0)
    <2>1. \A s \in Nat : 0 <= 0 + s
      OBVIOUS
    <2>2. 0 + 1 .. Len(src) = {}
      BY <1>3
    <2> QED BY <2>1, <2>2 DEF Announces, Behind, Clear
  <1>11. Lines(src, base, cuts)
    <2>1. SUFFICES ASSUME NEW r \in Inputs
                   PROVE  Line(Shift(r), 0, src, 0, cuts[r], batch[r], port[r], <<>>, 0)
      BY <1>2, <1>4, <1>5 DEF Lines
    <2>2. /\ batch[r].wps = <<>> /\ port[r].period = <<>> /\ port[r].current = 0 /\ port[r].end = 0
          /\ Len(<<>>) = 0 /\ Shift(r) \in Nat
      BY <1>2, <1>5, EmptySeq DEF WpBatch
    <2>3. 0 + Len(batch[r].wps) = 0 /\ 0 + Len(batch[r].wps) + Len(port[r].period) = 0
      BY <2>2
    <2>4. Piece(Shift(r), src, 0, batch[r].wps) /\ Piece(Shift(r), src, 0, port[r].period)
      BY <1>9, <2>2
    <2>5. Announces(Shift(r), 0, src, 0, 0)
      BY <1>10, <2>2
    <2>6. Len(cuts[r]) = Len(<<>>) + 1 /\ cuts[r][Len(<<>>) + 1] = 0 /\ cuts[r][1] = 0 /\ 1 .. Len(<<>>) = {}
      BY <1>4, <2>2
    <2> QED BY <2>2, <2>3, <2>4, <2>5, <2>6 DEF Line
  <1>12. DelayPhase(src, base)
    BY <1>2 DEF DelayPhase, WpBatch, Inputs
  <1>13. DualPhase(src, base)
    BY <1>2 DEF DualPhase, WpBatch, Inputs, Sides, PullPlaces
  <1>14. Passage(src, base)
    <2>1. 1 .. Len(scattered) = {}
      BY <1>2, EmptySeq
    <2>2. \A r \in Sides : base[r] = 0
      BY <1>4 DEF Sides, Inputs
    <2>3. \A r \in Sides : First(Shift(r), src, base[r]) = {}
      BY <2>2 DEF First
    <2> QED BY <2>1, <2>3 DEF Passage
  <1> QED BY <1>3, <1>7, <1>8, <1>11, <1>12, <1>13, <1>14 DEF InOrder, Order

LEMMA StepOrder == ASSUME TypeInv, TypeInv', Widths, InOrder, [Next]_vars PROVE InOrder'
PROOF
  <1>1. PICK src, base, cuts : Order(src, base, cuts)
    BY DEF InOrder
  <1>2. \A s, b, c : Order(s, b, c)' => s \in Seq(WavePacket) /\ b \in [Inputs -> Nat] /\ c \in [Inputs -> Seq(Nat)]
    BY DEF Order, Source, Emitted
  <1>3. SUFFICES \E s, b, c : Order(s, b, c)'
    BY <1>2 DEF InOrder
  <1>4. CASE Generate
    BY <1>1, <1>4, GenerateOrder
  <1>5. ASSUME NEW t \in Senders, Send(t)
        PROVE  \E s, b, c : Order(s, b, c)'
    BY <1>1, <1>5, SendOrder
  <1>6. CASE StartDelay
    BY <1>1, <1>6, StartDelayOrder
  <1>7. CASE GetDelay
    BY <1>1, <1>7, GetDelayOrder
  <1>8. CASE Transmit
    BY <1>1, <1>8, TransmitOrder
  <1>9. CASE StartDual
    BY <1>1, <1>9, StartDualOrder
  <1>10. CASE GetLeft
    BY <1>1, <1>10, GetLeftOrder
  <1>11. CASE GetRight
    BY <1>1, <1>11, GetRightOrder
  <1>12. CASE PullRight
    BY <1>1, <1>12, PullRightOrder
  <1>13. CASE PullLeft
    BY <1>1, <1>13, PullLeftOrder
  <1>14. CASE Check
    BY <1>1, <1>14, CheckOrder
  <1>15. CASE Scatter
    BY <1>1, <1>15, ScatterOrder
  <1>16. CASE UNCHANGED vars
    <2>1. Order(src, base, cuts)'
      <3>1. /\ UNCHANGED <<setup, time, batches, generated, channel, port, batch, timeout, endTime, outbox, pc, scattered>>
        BY <1>16 DEF vars
      <3>2. \A r \in Inputs : Pending(r)' = Pending(r)
        BY <3>1, SamePending
      <3>3. \A r \in Inputs :
               Line(Shift(r), time, src, base[r], cuts[r], batch[r], port[r], Pending(r), Total(r, base))'
        BY <1>1, <3>1, <3>2, LinesStay
      <3>4. DelayPhase(src, base)'
        BY <1>1, <3>1, DelayPhaseStays DEF Order
      <3>5. DualPhase(src, base)'
        BY <1>1, <3>1, DualPhaseStays DEF Order
      <3>6. Passage(src, base)' /\ Source(src)' /\ Destinations'
        BY <1>1, <3>1, PassageStays DEF Order, Source, Destinations
      <3> QED BY <1>1, <3>3, <3>4, <3>5, <3>6 DEF Order, Lines
    <2> QED BY <2>1
  <1> QED BY <1>4, <1>5, <1>6, <1>7, <1>8, <1>9, <1>10, <1>11, <1>12, <1>13, <1>14, <1>15, <1>16
          DEF Next, EPPS, Delay, Dual, Senders

LEMMA OrderInvariant == ASSUME Widths PROVE Spec => [](TypeInv /\ InOrder)
PROOF
  <1>1. Init => TypeInv /\ InOrder
    BY InitTypes, InitOrder
  <1>2. TypeInv /\ InOrder /\ [Next]_vars => (TypeInv /\ InOrder)'
    BY StepTypes, StepOrder
  <1> QED BY <1>1, <1>2, PTL DEF Spec

-----------------------------------------------------------------------------
(* The theorems about the beam splitter.                                   *)

LEMMA FirstSize ==
    ASSUME NEW s \in Nat, NEW t, NEW src, Emitted(src, t), NEW n \in Nat, n <= Len(src)
    PROVE  Cardinality(First(s, src, n)) = n
PROOF
  <1>1. src \in Seq(WavePacket) /\ Len(src) \in Nat
    BY DEF Emitted
  <1>2. \A k \in 1 .. n : Shifted(s, src[k]).pair = k
    <2>1. SUFFICES ASSUME NEW k \in 1 .. n PROVE Shifted(s, src[k]).pair = k
      OBVIOUS
    <2>2. k \in 1 .. Len(src)
      BY <1>1
    <2>3. src[k] \in WavePacket
      BY <1>1, <2>2, ElementOfSeq
    <2>4. src[k].pair = k
      BY <2>2 DEF Emitted
    <2> QED BY <2>3, <2>4, ShiftedIs
  <1>3. PICK f : f = [k \in 1 .. n |-> Shifted(s, src[k])]
    OBVIOUS
  <1>4. f \in [1 .. n -> First(s, src, n)]
    BY <1>3 DEF First
  <1>5. \A x \in First(s, src, n) : \E k \in 1 .. n : f[k] = x
    BY <1>3 DEF First
  <1>6. \A j, k \in 1 .. n : f[j] = f[k] => j = k
    BY <1>2, <1>3
  <1>7. ExistsBijection(1 .. n, First(s, src, n))
    <2>1. f \in Injection(1 .. n, First(s, src, n))
      BY <1>4, <1>6 DEF Injection, IsInjective
    <2>2. f \in Surjection(1 .. n, First(s, src, n))
      BY <1>4, <1>5 DEF Surjection
    <2> QED BY <2>1, <2>2 DEF ExistsBijection, Bijection
  <1>8. IsFiniteSet(1 .. n) /\ Cardinality(1 .. n) = n
    BY FS_Interval
  <1> QED BY <1>7, <1>8, FS_Bijection

\* Only a scattering changes the history.
LEMMA OnlyScatters == ASSUME [Next]_vars, Scatters PROVE Scatter
PROOF
  <1>1. CASE UNCHANGED vars
    BY <1>1 DEF vars, Scatters
  <1>2. CASE Next
    BY <1>2 DEF Next, EPPS, Delay, Dual, Scatters, Generate, Send, StartDelay, GetDelay, Transmit, StartDual,
                GetLeft, GetRight, PullRight, PullLeft, Check
  <1> QED BY <1>1, <1>2

\* What the beam splitter passes in one step: a piece of each side.
LEMMA PassesPieces ==
    ASSUME TypeInv, TypeInv', NEW src, NEW base, NEW cuts, Order(src, base, cuts), Scatter, NEW r \in Sides
    PROVE  /\ Len(scattered) \in Nat /\ Len(scattered') = Len(scattered) + 1
           /\ \A m \in 1 .. Len(scattered) : scattered'[m] = scattered[m]
           /\ scattered'[Len(scattered')].wps[r] = batch[r].wps
           /\ Last(scattered').wps[r] = batch[r].wps
           /\ Piece(Shift(r), src, base[r], batch[r].wps)
           /\ Shift(r) \in Nat /\ base[r] \in Nat /\ batch[r].wps \in Seq(WavePacket)
           /\ Emitted(src, time) /\ src \in Seq(WavePacket) /\ time \in Nat
PROOF
  <1>1. r \in Inputs
    BY DEF Sides, Inputs
  <1>2. /\ Len(scattered) \in Nat /\ Len(scattered') = Len(scattered) + 1
        /\ \A m \in 1 .. Len(scattered) : scattered'[m] = scattered[m]
        /\ scattered'[Len(scattered) + 1].wps[r] = batch[r].wps
    BY PassedNext
  <1>3. scattered'[Len(scattered')].wps[r] = batch[r].wps
    BY <1>2
  <1>4. Piece(Shift(r), src, base[r], batch[r].wps)
    BY <1>1 DEF Order, Lines, Line
  <1>5. /\ Shift(r) \in Nat /\ base[r] \in Nat /\ batch[r].wps \in Seq(WavePacket)
        /\ Emitted(src, time) /\ src \in Seq(WavePacket) /\ time \in Nat
    BY <1>1, OrderTypes
  <1> QED BY <1>2, <1>3, <1>4, <1>5 DEF Last

\* The packets that have passed a side are the first ones of the source.
LEMMA PassedSoFar ==
    ASSUME TypeInv, TypeInv', NEW src, NEW base, NEW cuts, Order(src, base, cuts), Scatter, NEW r \in Sides
    PROVE  Cardinality(UNION {Passed(m, r) : m \in 1 .. Len(scattered)}) = base[r]
PROOF
  <1>1. PICK d \in Nat, n \in Nat, w \in Seq(WavePacket) : d = Shift(r) /\ n = base[r] /\ w = batch[r].wps
    BY PassesPieces
  <1>2. Emitted(src, time) /\ src \in Seq(WavePacket) /\ Piece(d, src, n, w)
    BY <1>1, PassesPieces
  <1>3. n <= Len(src)
    <2>1. Len(src) \in Nat /\ Len(w) \in Nat /\ n + Len(w) <= Len(src)
      BY <1>2 DEF Piece
    <2> QED BY <2>1
  <1>4. Cardinality(First(d, src, n)) = n
    BY <1>2, <1>3, FirstSize
  <1>5. UNION {Passed(m, r) : m \in 1 .. Len(scattered)} = First(Shift(r), src, base[r])
    BY DEF Order, Passage
  <1> QED BY <1>1, <1>4, <1>5

LEMMA StepSinkInOrder ==
    ASSUME TypeInv, TypeInv', Widths, InOrder, [Next]_vars, Scatters
    PROVE  /\ \A side \in Sides :
                 InSourceOrder(Last(scattered').wps[side],
                               Cardinality(UNION {Passed(m, side) : m \in 1 .. Len(scattered)}))
           /\ \A m \in 1 .. Len(scattered), wp \in UNION {ToSet(Last(scattered').wps[side]) : side \in Sides} :
                 /\ wp.time >= scattered[m].end
                 /\ \A earlier \in PassedBoth(m) : earlier.time <= wp.time
PROOF
  <1>1. Scatter
    BY OnlyScatters
  <1>2. PICK src, base, cuts : Order(src, base, cuts)
    BY DEF InOrder
  <1>3. ASSUME NEW side \in Sides
        PROVE  InSourceOrder(Last(scattered').wps[side],
                             Cardinality(UNION {Passed(m, side) : m \in 1 .. Len(scattered)}))
    <2>1. PICK d \in Nat, n \in Nat, w \in Seq(WavePacket) : d = Shift(side) /\ n = base[side] /\ w = batch[side].wps
      BY <1>1, <1>2, PassesPieces
    <2>2. /\ Last(scattered').wps[side] = w /\ Piece(d, src, n, w)
          /\ Emitted(src, time) /\ time \in Nat
      BY <1>1, <1>2, <2>1, PassesPieces
    <2>3. \A i \in 1 .. Len(w) : w[i].pair = n + i
      BY <2>2, PieceSorted
    <2>4. Cardinality(UNION {Passed(m, side) : m \in 1 .. Len(scattered)}) = n
      BY <1>1, <1>2, <2>1, PassedSoFar
    <2> QED BY <2>2, <2>3, <2>4 DEF InSourceOrder
  <1>4. ASSUME NEW m \in 1 .. Len(scattered), NEW wp \in UNION {ToSet(Last(scattered').wps[side]) : side \in Sides}
        PROVE  /\ wp.time >= scattered[m].end
               /\ \A earlier \in PassedBoth(m) : earlier.time <= wp.time
    <2>1. PICK side \in Sides : wp \in ToSet(Last(scattered').wps[side])
      OBVIOUS
    <2>2. PICK d \in Nat, n \in Nat, w \in Seq(WavePacket) : d = Shift(side) /\ n = base[side] /\ w = batch[side].wps
      BY <1>1, <1>2, PassesPieces
    <2>3. Last(scattered').wps[side] = w /\ Piece(d, src, n, w) /\ src \in Seq(WavePacket)
      BY <1>1, <1>2, <2>2, PassesPieces
    <2>4. PICK i \in 1 .. Len(w) : wp = w[i]
      BY <2>1, <2>3, ToSetIs
    <2>5. PICK k : k = n + i
      OBVIOUS
    <2>6. k \in n + 1 .. Len(src) /\ wp = Shifted(d, src[k])
      <3>1. n + Len(w) <= Len(src) /\ wp = Shifted(d, src[n + i]) /\ Len(src) \in Nat /\ Len(w) \in Nat
        BY <2>3, <2>4 DEF Piece
      <3> QED BY <2>5, <3>1
    <2>7. \A e : Behind(d, time, src, n, e) => e <= wp.time
      BY <2>6 DEF Behind
    <2>8. /\ Behind(d, time, src, n, scattered[m].end)
          /\ \A earlier \in PassedBoth(m) : Behind(d, time, src, n, earlier.time)
      BY <1>2, <2>2 DEF Order, Passage
    <2>9. scattered[m].end <= wp.time /\ \A earlier \in PassedBoth(m) : earlier.time <= wp.time
      BY <2>7, <2>8
    <2>10. scattered[m].end \in Nat /\ wp.time \in Nat
      <3>1. scattered[m] \in Outcomes
        BY DEF TypeInv, ScatteredTypes
      <3>2. wp \in WavePacket
        BY <2>4, ElementOfSeq
      <3> QED BY <3>1, <3>2 DEF Outcomes, WavePacket
    <2> QED BY <2>9, <2>10
  <1> QED BY <1>3, <1>4

\* No packet is lost, repeated or overtaken on its way from the source through
\* channels, ports, batches and the delay line, and nothing leaves the beam
\* splitter behind the end time of an earlier batch (wp.rs:120-126,
\* dual_port.rs:104-133): for every delay, gap, pulse width, period, size of a
\* batch and size of a channel.
THEOREM SinkOrderKept == ASSUME Widths PROVE Spec => SinkInOrder
PROOF
  <1>1. TypeInv /\ TypeInv' /\ InOrder /\ [Next]_vars =>
          [Scatters =>
             LET last == Last(scattered')
             IN  /\ \A side \in Sides :
                       InSourceOrder(last.wps[side],
                                     Cardinality(UNION {Passed(m, side) : m \in 1 .. Len(scattered)}))
                 /\ \A m \in 1 .. Len(scattered), wp \in UNION {ToSet(last.wps[side]) : side \in Sides} :
                       /\ wp.time >= scattered[m].end
                       /\ \A earlier \in PassedBoth(m) : earlier.time <= wp.time]_scattered
    BY StepSinkInOrder
  <1> QED BY <1>1, OrderInvariant, PTL DEF Spec, SinkInOrder

LEMMA StepClusterKept ==
    ASSUME TypeInv, TypeInv', Widths, Uniform, InOrder, [Next]_vars, Scatters
    PROVE  \A ab \in SeparatedAt(Len(scattered))' : Unannounced(ab[1]) \/ Unannounced(ab[2])
PROOF
  <1>1. Scatter
    BY OnlyScatters
  <1>2. PICK src, base, cuts : Order(src, base, cuts)
    BY DEF InOrder
  <1>3. /\ Len(scattered) \in Nat /\ Len(scattered') = Len(scattered) + 1
        /\ \A m \in 1 .. Len(scattered) : scattered'[m] = scattered[m]
        /\ \A r \in Sides : scattered'[Len(scattered')].wps[r] = batch[r].wps
    BY <1>1, <1>2, PassesPieces DEF Sides
  <1>4. \A m \in 1 .. Len(scattered), q \in Sides : Passed(m, q)' = Passed(m, q)
    BY <1>3 DEF Passed
  <1>5. PICK n \in Nat : n = Len(scattered')
    BY <1>3
  <1>6. \A r \in Sides : Passed(n, r)' = ToSet(batch[r].wps)
    BY <1>3, <1>5 DEF Passed
  <1>7. SUFFICES ASSUME NEW ab \in SeparatedAt(n)' PROVE Unannounced(ab[1]) \/ Unannounced(ab[2])
    BY <1>5 DEF SeparatedAt
  <1>8. PICK m \in 1 .. n - 1, side \in Sides :
             ab \in Passed(m, side)' \X Passed(n, Other(side))' /\ Overlaps(ab[1], ab[2])
    BY <1>7 DEF SeparatedAt
  <1>9. PICK r : r = Other(side)
    OBVIOUS
  <1>10. r \in Sides /\ side = Other(r) /\ m \in 1 .. Len(scattered)
    BY <1>3, <1>5, <1>8, <1>9 DEF Sides, Other
  <1>11. ab[1] \in Passed(m, Other(r)) /\ ab[2] \in ToSet(batch[r].wps)
    BY <1>4, <1>6, <1>8, <1>9, <1>10
  <1>12. PICK d \in Nat, b \in Nat, w \in Seq(WavePacket) : d = Shift(r) /\ b = base[r] /\ w = batch[r].wps
    BY <1>1, <1>2, <1>10, PassesPieces
  <1>13. Piece(d, src, b, w) /\ src \in Seq(WavePacket)
    BY <1>1, <1>2, <1>10, <1>12, PassesPieces
  <1>14. PICK i \in 1 .. Len(w) : ab[2] = w[i]
    BY <1>11, <1>12, ToSetIs
  <1>15. b + i \in b + 1 .. Len(src) /\ ab[2] = Shifted(d, src[b + i])
    BY <1>13, <1>14 DEF Piece
  <1>16. Clear(d, time, src, b, TrailingEdge(ab[1]))
    BY <1>2, <1>10, <1>11, <1>12 DEF Order, Passage
  <1>17. Unannounced(ab[2]) \/ TrailingEdge(ab[1]) <= LeadingEdge(ab[2])
    BY <1>15, <1>16 DEF Clear
  <1>18. LeadingEdge(ab[2]) < TrailingEdge(ab[1]) /\ LeadingEdge(ab[2]) \in Nat /\ TrailingEdge(ab[1]) \in Nat
    <2>1. ab[2] \in WavePacket
      BY <1>14, ElementOfSeq
    <2>2. scattered[m] \in Outcomes /\ side \in Sides
      BY <1>10 DEF TypeInv, ScatteredTypes
    <2>3. scattered[m].wps[side] \in Seq(WavePacket)
      BY <2>2 DEF Outcomes
    <2>4. PICK j \in 1 .. Len(scattered[m].wps[side]) : ab[1] = scattered[m].wps[side][j]
      BY <1>10, <1>11, <2>3, ToSetIs DEF Passed
    <2>5. ab[1] \in WavePacket
      BY <2>3, <2>4, ElementOfSeq
    <2> QED BY <1>8, <2>1, <2>5, EdgeTypes DEF Overlaps
  <1> QED BY <1>17, <1>18

\* When all pulses have one width, the loop over the two ports brings all
\* packets that overlap into one batch, however their periods were cut, unless
\* one of them was not announced by its port (dual_port.rs:113-133,
\* wp.rs:184-248).
THEOREM ClustersKept == ASSUME Widths, Uniform PROVE Spec => ClusterKept
PROOF
  <1>1. TypeInv /\ TypeInv' /\ InOrder /\ [Next]_vars =>
          [Scatters => \A ab \in SeparatedAt(Len(scattered))' : Unannounced(ab[1]) \/ Unannounced(ab[2])]_scattered
    BY StepClusterKept
  <1> QED BY <1>1, OrderInvariant, PTL DEF Spec, ClusterKept

-----------------------------------------------------------------------------
(* Pass 3 on packets of one width.                                         *)

\* The packets of each port come by time, and all have one width.
Even(wps) ==
    /\ \A v, w \in Visits(wps) : v[1] = w[1] /\ v[2] <= w[2] => Packet(wps, v).time <= Packet(wps, w).time
    /\ \A v, w \in Visits(wps) : Packet(wps, v).sigma = Packet(wps, w).sigma

Meet(wps, v, w) == Overlaps(Packet(wps, v), Packet(wps, w))

LEMMA OverlapsAre ==
    ASSUME NEW a \in WavePacket, NEW b \in WavePacket, NEW g \in Nat, a.sigma = g, b.sigma = g
    PROVE  Overlaps(a, b) <=> a.time < b.time + 6 * g /\ b.time < a.time + 6 * g
PROOF
  <1>1. PICK t \in Nat, u \in Nat : t = a.time /\ u = b.time
    BY DEF WavePacket
  <1>2. TrailingEdge(a) = t + 3 * g /\ TrailingEdge(b) = u + 3 * g
    BY <1>1 DEF TrailingEdge
  <1>3. /\ LeadingEdge(a) = IF t < 3 * g THEN 0 ELSE t - 3 * g
        /\ LeadingEdge(b) = IF u < 3 * g THEN 0 ELSE u - 3 * g
    BY <1>1 DEF LeadingEdge
  <1>4. LeadingEdge(a) < TrailingEdge(b) <=> t < u + 6 * g
    BY <1>2, <1>3
  <1>5. LeadingEdge(b) < TrailingEdge(a) <=> u < t + 6 * g
    BY <1>2, <1>3
  <1> QED BY <1>1, <1>4, <1>5 DEF Overlaps

LEMMA VisitIs ==
    ASSUME NEW wps \in [Sides -> Seq(WavePacket)], NEW v \in Visits(wps)
    PROVE  /\ v[1] \in Sides /\ v[2] \in 1 .. Len(wps[v[1]]) /\ v = <<v[1], v[2]>> /\ v[2] \in Nat
           /\ Packet(wps, v) \in WavePacket /\ Packet(wps, v).time \in Nat /\ Packet(wps, v).sigma \in Nat
PROOF
  <1>1. v[1] \in Sides /\ v[2] \in 1 .. Len(wps[v[1]]) /\ v = <<v[1], v[2]>>
    BY DEF Visits
  <1>2. wps[v[1]] \in Seq(WavePacket)
    BY <1>1
  <1>3. Packet(wps, v) \in WavePacket
    BY <1>1, <1>2, ElementOfSeq DEF Packet
  <1>4. v[2] \in Nat
    BY <1>1, <1>2
  <1> QED BY <1>1, <1>3, <1>4 DEF WavePacket

\* The packets of the two ports are visited in a linear order.
LEMMA VisitOrder ==
    ASSUME NEW wps \in [Sides -> Seq(WavePacket)], Even(wps),
           NEW v \in Visits(wps), NEW w \in Visits(wps), v[1] # w[1]
    PROVE  /\ VisitedFirst(wps, v, w) \/ VisitedFirst(wps, w, v)
           /\ ~ (VisitedFirst(wps, v, w) /\ VisitedFirst(wps, w, v))
           /\ Meet(wps, v, w) <=> Meet(wps, w, v)
           /\ \A u \in Visits(wps) : u[1] = w[1] /\ u[2] <= w[2] /\ VisitedFirst(wps, w, v) => VisitedFirst(wps, u, v)
           /\ \A u \in Visits(wps) :
                 u[1] = w[1] /\ u[2] <= w[2] /\ VisitedFirst(wps, v, u) /\ Meet(wps, v, w) => Meet(wps, v, u)
           /\ \A u \in Visits(wps) :
                 u[1] = w[1] /\ w[2] <= u[2] /\ VisitedFirst(wps, u, v) /\ Meet(wps, v, w) => Meet(wps, v, u)
PROOF
  <1>1. PICK t \in Nat, g \in Nat : t = Packet(wps, v).time /\ g = Packet(wps, v).sigma
    BY VisitIs
  <1>2. PICK z \in Nat : z = Packet(wps, w).time
    BY VisitIs
  <1>3. v[1] \in Sides /\ w[1] \in Sides /\ v[1] # w[1]
    BY VisitIs
  <1>4. ASSUME NEW u \in Visits(wps), u[1] = w[1]
        PROVE  /\ Packet(wps, u).time \in Nat
               /\ VisitedFirst(wps, u, v) <=> (Packet(wps, u).time < t \/ (Packet(wps, u).time = t /\ w[1] = "left"))
               /\ VisitedFirst(wps, v, u) <=> (t < Packet(wps, u).time \/ (Packet(wps, u).time = t /\ v[1] = "left"))
               /\ Meet(wps, v, u) <=> t < Packet(wps, u).time + 6 * g /\ Packet(wps, u).time < t + 6 * g
               /\ Meet(wps, u, v) <=> t < Packet(wps, u).time + 6 * g /\ Packet(wps, u).time < t + 6 * g
               /\ u[2] <= w[2] => Packet(wps, u).time <= z
               /\ w[2] <= u[2] => z <= Packet(wps, u).time
    <2>1. Packet(wps, u) \in WavePacket /\ Packet(wps, v) \in WavePacket /\ Packet(wps, u).time \in Nat
      BY <1>4, VisitIs
    <2>2. Packet(wps, u).sigma = g /\ Packet(wps, v).sigma = g
      BY <1>1 DEF Even
    <2>3. /\ Meet(wps, v, u) <=> t < Packet(wps, u).time + 6 * g /\ Packet(wps, u).time < t + 6 * g
          /\ Meet(wps, u, v) <=> t < Packet(wps, u).time + 6 * g /\ Packet(wps, u).time < t + 6 * g
      BY <1>1, <2>1, <2>2, OverlapsAre DEF Meet
    <2>4. VisitedFirst(wps, u, v) <=> (Packet(wps, u).time < t \/ (Packet(wps, u).time = t /\ w[1] = "left"))
      BY <1>1, <1>3, <1>4 DEF VisitedFirst
    <2>5. VisitedFirst(wps, v, u) <=> (t < Packet(wps, u).time \/ (Packet(wps, u).time = t /\ v[1] = "left"))
      BY <1>1, <1>3, <1>4 DEF VisitedFirst
    <2>6. /\ u[2] <= w[2] => Packet(wps, u).time <= z
          /\ w[2] <= u[2] => z <= Packet(wps, u).time
      BY <1>2, <1>4 DEF Even
    <2> QED BY <2>1, <2>3, <2>4, <2>5, <2>6
  <1>5. v[1] = "left" <=> w[1] # "left"
    BY <1>3 DEF Sides
  <1>6. /\ VisitedFirst(wps, w, v) <=> (z < t \/ (z = t /\ w[1] = "left"))
        /\ VisitedFirst(wps, v, w) <=> (t < z \/ (z = t /\ v[1] = "left"))
        /\ Meet(wps, v, w) <=> t < z + 6 * g /\ z < t + 6 * g
        /\ Meet(wps, w, v) <=> t < z + 6 * g /\ z < t + 6 * g
    BY <1>2, <1>4
  <1>7. /\ VisitedFirst(wps, v, w) \/ VisitedFirst(wps, w, v)
        /\ ~ (VisitedFirst(wps, v, w) /\ VisitedFirst(wps, w, v))
        /\ Meet(wps, v, w) <=> Meet(wps, w, v)
    BY <1>5, <1>6
  <1>8. ASSUME NEW u \in Visits(wps), u[1] = w[1], u[2] <= w[2], VisitedFirst(wps, w, v)
        PROVE  VisitedFirst(wps, u, v)
    BY <1>4, <1>6, <1>8
  <1>9. ASSUME NEW u \in Visits(wps), u[1] = w[1], u[2] <= w[2], VisitedFirst(wps, v, u), Meet(wps, v, w)
        PROVE  Meet(wps, v, u)
    <2>1. PICK y \in Nat : y = Packet(wps, u).time
      BY <1>4, <1>9
    <2>2. y <= z /\ t <= y /\ t < z + 6 * g /\ z < t + 6 * g
      BY <1>4, <1>6, <1>9, <2>1
    <2>3. t < y + 6 * g /\ y < t + 6 * g
      BY <2>2
    <2> QED BY <1>4, <1>9, <2>1, <2>3
  <1>10. ASSUME NEW u \in Visits(wps), u[1] = w[1], w[2] <= u[2], VisitedFirst(wps, u, v), Meet(wps, v, w)
         PROVE  Meet(wps, v, u)
    <2>1. PICK y \in Nat : y = Packet(wps, u).time
      BY <1>4, <1>10
    <2>2. z <= y /\ y <= t /\ t < z + 6 * g /\ z < t + 6 * g
      BY <1>4, <1>6, <1>10, <2>1
    <2>3. t < y + 6 * g /\ y < t + 6 * g
      BY <2>2
    <2> QED BY <1>4, <1>10, <2>1, <2>3
  <1> QED BY <1>7, <1>8, <1>9, <1>10

LEMMA InitialSegment ==
    ASSUME NEW n \in Nat, NEW D \in SUBSET (1 .. n), \A i \in D : \A j \in 1 .. i : j \in D
    PROVE  D = 1 .. Cardinality(D) /\ Cardinality(D) \in Nat
PROOF
  <1>1. IsFiniteSet(D)
    <2>1. IsFiniteSet(1 .. n)
      BY FS_Interval
    <2> QED BY <2>1, FS_Subset
  <1>2. CASE D = {}
    BY <1>2, FS_EmptySet
  <1>3. CASE D # {}
    <2>1. PICK k : k \in D /\ \A x \in D : x <= k
      BY <1>1, <1>3, MaxIsGreatest
    <2>2. k \in Nat /\ D \subseteq 1 .. k
      BY <2>1
    <2>5. 1 .. k \subseteq D
      BY <2>1
    <2>3. Cardinality(1 .. k) = k
      <3>1. Cardinality(1 .. k) = IF 1 > k THEN 0 ELSE k - 1 + 1
        BY <2>2, FS_Interval
      <3> QED BY <2>1, <2>2, <3>1
    <2>4. D = 1 .. k
      BY <2>2, <2>5
    <2> QED BY <2>2, <2>3, <2>4
  <1> QED BY <1>2, <1>3

LEMMA VisitAt ==
    ASSUME NEW wps, NEW s \in Sides
    PROVE  \A i \in 1 .. Len(wps[s]) : <<s, i>> \in Visits(wps)
  BY DEF Visits

LEMMA Across ==
    ASSUME NEW wps \in [Sides -> Seq(WavePacket)], NEW v \in Visits(wps), NEW j \in 1 .. Len(wps[Other(v[1])])
    PROVE  /\ <<Other(v[1]), j>> \in Visits(wps) /\ Other(v[1]) # v[1] /\ Other(Other(v[1])) = v[1]
           /\ Packet(wps, <<Other(v[1]), j>>) = wps[Other(v[1])][j]
PROOF
  <1>1. v[1] \in Sides
    BY VisitIs
  <1>2. Other(v[1]) \in Sides /\ Other(v[1]) # v[1] /\ Other(Other(v[1])) = v[1]
    BY <1>1 DEF Sides, Other
  <1> QED BY <1>2 DEF Visits, Packet

\* The inner loop finds all packets of the other port that overlap and are
\* visited later, since it can stop at none before them.
LEMMA PartnersAre ==
    ASSUME NEW wps \in [Sides -> Seq(WavePacket)], Even(wps), NEW v \in Visits(wps)
    PROVE  /\ PartnersOf(wps, v) \subseteq 1 .. Len(wps[Other(v[1])])
           /\ \A j \in 1 .. Len(wps[Other(v[1])]) :
                 LET w == <<Other(v[1]), j>>
                 IN  j \in PartnersOf(wps, v) <=> VisitedFirst(wps, v, w) /\ Meet(wps, v, w)
           /\ \A j \in PartnersOf(wps, v) : \A k \in 1 .. j :
                 LET w == <<Other(v[1]), k>>
                 IN  VisitedFirst(wps, v, w) => Meet(wps, v, w)
PROOF
  <1>1. PICK o \in Sides : o = Other(v[1])
    BY LateIndexType
  <1>2. PICK n \in Nat : n = Len(wps[o])
    OBVIOUS
  <1>3. \A j \in 1 .. n : <<o, j>> \in Visits(wps) /\ o # v[1] /\ Packet(wps, <<o, j>>) = wps[o][j]
    BY <1>1, <1>2, Across
  <1>4. PICK D : D = {j \in 1 .. n : VisitedFirst(wps, <<o, j>>, v)}
    OBVIOUS
  <1>5. ASSUME NEW i \in D, NEW j \in 1 .. i
        PROVE  j \in D
    <2>1. i \in 1 .. n /\ j \in 1 .. n /\ j <= i /\ VisitedFirst(wps, <<o, i>>, v)
      BY <1>2, <1>4, <1>5
    <2>2. PICK u \in Visits(wps), w \in Visits(wps) : u = <<o, j>> /\ w = <<o, i>>
      BY <1>3, <2>1
    <2>3. VisitedFirst(wps, u, v)
      BY <1>3, <2>1, <2>2, VisitOrder
    <2> QED BY <1>4, <2>1, <2>2, <2>3
  <1>6. PICK l \in Nat : l = Cardinality(D) /\ D = 1 .. l
    BY <1>2, <1>4, <1>5, InitialSegment
  <1>7. PartnersOf(wps, v) = {j \in l + 1 .. n : \A k \in l + 1 .. j : Overlaps(Packet(wps, v), wps[o][k])}
    BY <1>1, <1>2, <1>4, <1>6 DEF PartnersOf, LateIndex
  <1>8. \A j \in 1 .. n : VisitedFirst(wps, v, <<o, j>>) <=> j \in l + 1 .. n
    <2>1. SUFFICES ASSUME NEW j \in 1 .. n PROVE VisitedFirst(wps, v, <<o, j>>) <=> j \in l + 1 .. n
      OBVIOUS
    <2>2. PICK w \in Visits(wps) : w = <<o, j>>
      BY <1>3
    <2>3. w[1] # v[1]
      BY <1>3, <2>2
    <2>4. VisitedFirst(wps, v, w) <=> ~ VisitedFirst(wps, w, v)
      BY <2>3, VisitOrder
    <2>5. VisitedFirst(wps, w, v) <=> j \in 1 .. l
      BY <1>4, <1>6, <2>2
    <2> QED BY <1>6, <2>2, <2>4, <2>5
  <1>9. \A j \in 1 .. n : Meet(wps, v, <<o, j>>) <=> Overlaps(Packet(wps, v), wps[o][j])
    BY <1>3 DEF Meet
  <1>10. ASSUME NEW j \in l + 1 .. n, NEW k \in l + 1 .. j, Meet(wps, v, <<o, j>>)
         PROVE  Meet(wps, v, <<o, k>>)
    <2>1. j \in 1 .. n /\ k \in 1 .. n /\ k \in l + 1 .. n /\ k <= j
      BY <1>2, <1>6
    <2>2. PICK u \in Visits(wps), w \in Visits(wps) : u = <<o, k>> /\ w = <<o, j>>
      BY <1>3, <2>1
    <2>3. VisitedFirst(wps, v, u) /\ u[1] = w[1] /\ u[2] <= w[2] /\ v[1] # w[1] /\ Meet(wps, v, w)
      BY <1>3, <1>8, <1>10, <2>1, <2>2
    <2>4. Meet(wps, v, u)
      BY <2>3, VisitOrder
    <2> QED BY <2>2, <2>4
  <1>11. l + 1 .. n \subseteq 1 .. n
    BY <1>6
  <1>12. ASSUME NEW j \in 1 .. n
         PROVE  j \in PartnersOf(wps, v) <=> VisitedFirst(wps, v, <<o, j>>) /\ Meet(wps, v, <<o, j>>)
    <2>1. CASE j \in l + 1 .. n
      <3>1. \A k \in l + 1 .. j : k \in 1 .. n
        BY <1>2, <1>6, <2>1
      <3>2. j \in l + 1 .. j
        BY <1>6, <2>1
      <3> QED BY <1>7, <1>8, <1>9, <1>10, <2>1, <3>1, <3>2
    <2>2. CASE j \notin l + 1 .. n
      BY <1>7, <1>8, <2>2
    <2> QED BY <2>1, <2>2
  <1>13. ASSUME NEW j \in PartnersOf(wps, v), NEW k \in 1 .. j, VisitedFirst(wps, v, <<o, k>>)
         PROVE  Meet(wps, v, <<o, k>>)
    <2>1. j \in l + 1 .. n /\ Meet(wps, v, <<o, j>>)
      BY <1>7, <1>11, <1>12
    <2>2. k \in 1 .. n /\ k \in l + 1 .. n
      BY <1>2, <1>6, <1>8, <1>13, <2>1
    <2>3. k \in l + 1 .. j
      BY <1>6, <2>1, <2>2
    <2> QED BY <1>10, <2>1, <2>3
  <1>14. PartnersOf(wps, v) \subseteq 1 .. n
    BY <1>7, <1>11
  <1> QED BY <1>1, <1>2, <1>12, <1>13, <1>14

\* Pass 3 pairs those that overlap, the one visited first first.
LEMMA PairsAre ==
    ASSUME NEW wps \in [Sides -> Seq(WavePacket)], Even(wps)
    PROVE  /\ \A e \in DualOperators(wps).pairs :
                 /\ e = <<e[1], e[2]>> /\ e[1] \in Visits(wps) /\ e[2] \in Visits(wps) /\ e[1][1] # e[2][1]
                 /\ VisitedFirst(wps, e[1], e[2]) /\ Meet(wps, e[1], e[2])
           /\ \A v, w \in Visits(wps) :
                 v[1] # w[1] /\ VisitedFirst(wps, v, w) /\ Meet(wps, v, w) => <<v, w>> \in DualOperators(wps).pairs
PROOF
  <1> DEFINE partners == [v \in Visits(wps) |-> PartnersOf(wps, v)]
             pairs == UNION {{<<v, <<Other(v[1]), j>>>> : j \in partners[v]} : v \in Visits(wps)}
             lone  == {v \in Visits(wps) : partners[v] = {} /\ Watermark(wps, partners, v) < v[2]}
  <1>1. DualOperators(wps) = [pairs |-> pairs, lone |-> lone]
    BY DEF DualOperators
  <1>2. \A v \in Visits(wps) : partners[v] = PartnersOf(wps, v)
    OBVIOUS
  <1> HIDE DEF partners, lone
  <1>3. \A e : e \in pairs <=> \E v \in Visits(wps) : \E j \in partners[v] : e = <<v, <<Other(v[1]), j>>>>
    OBVIOUS
  <1> HIDE DEF pairs
  <1>4. ASSUME NEW e \in pairs
        PROVE  /\ e = <<e[1], e[2]>> /\ e[1] \in Visits(wps) /\ e[2] \in Visits(wps) /\ e[1][1] # e[2][1]
               /\ VisitedFirst(wps, e[1], e[2]) /\ Meet(wps, e[1], e[2])
    <2>1. PICK v \in Visits(wps) : \E j \in partners[v] : e = <<v, <<Other(v[1]), j>>>>
      BY <1>3, <1>4
    <2>2. PICK j \in PartnersOf(wps, v) : e = <<v, <<Other(v[1]), j>>>>
      BY <1>2, <2>1
    <2>3. j \in 1 .. Len(wps[Other(v[1])])
      BY PartnersAre
    <2>7. <<Other(v[1]), j>> \in Visits(wps) /\ Other(v[1]) # v[1]
      BY <2>3, Across
    <2>4. PICK w \in Visits(wps) : w = <<Other(v[1]), j>> /\ w[1] # v[1]
      BY <2>7
    <2>8. \A k \in 1 .. Len(wps[Other(v[1])]) :
            k \in PartnersOf(wps, v) => VisitedFirst(wps, v, <<Other(v[1]), k>>) /\ Meet(wps, v, <<Other(v[1]), k>>)
      BY PartnersAre
    <2>5. VisitedFirst(wps, v, w) /\ Meet(wps, v, w)
      BY <2>3, <2>4, <2>8
    <2>6. e = <<v, w>> /\ e[1] = v /\ e[2] = w
      BY <2>2, <2>4
    <2> QED BY <2>4, <2>5, <2>6
  <1>5. ASSUME NEW v \in Visits(wps), NEW w \in Visits(wps),
               v[1] # w[1], VisitedFirst(wps, v, w), Meet(wps, v, w)
        PROVE  <<v, w>> \in pairs
    <2>1. v[1] \in Sides /\ w[1] \in Sides /\ w[2] \in 1 .. Len(wps[w[1]]) /\ w = <<w[1], w[2]>>
      BY VisitIs
    <2>2. w[1] = Other(v[1])
      BY <1>5, <2>1 DEF Sides, Other
    <2>3. w = <<Other(v[1]), w[2]>> /\ w[2] \in 1 .. Len(wps[Other(v[1])])
      BY <2>1, <2>2
    <2>4. PICK j \in 1 .. Len(wps[Other(v[1])]) : j = w[2]
      BY <2>3
    <2>5. VisitedFirst(wps, v, <<Other(v[1]), j>>) /\ Meet(wps, v, <<Other(v[1]), j>>)
      BY <1>5, <2>3, <2>4
    <2>7. \A k \in 1 .. Len(wps[Other(v[1])]) :
            VisitedFirst(wps, v, <<Other(v[1]), k>>) /\ Meet(wps, v, <<Other(v[1]), k>>) => k \in PartnersOf(wps, v)
      BY PartnersAre
    <2>6. j \in partners[v]
      BY <1>2, <2>5, <2>7
    <2> QED BY <1>3, <2>3, <2>4, <2>6
  <1> QED BY <1>1, <1>4, <1>5

\* The two packets of an overlapping pair, in the order of the visits.
InVisitOrder(wps, e) ==
    IF VisitedFirst(wps, <<"left", e[1]>>, <<"right", e[2]>>)
    THEN <<<<"left", e[1]>>, <<"right", e[2]>>>> ELSE <<<<"right", e[2]>>, <<"left", e[1]>>>>

LEMMA PairsMatch ==
    ASSUME NEW wps \in [Sides -> Seq(WavePacket)], Even(wps)
    PROVE  /\ \A e \in OverlappingPairs(wps) :
                 /\ InVisitOrder(wps, e) \in DualOperators(wps).pairs
                 /\ AsLeftRight(InVisitOrder(wps, e)) = e
           /\ \A p \in DualOperators(wps).pairs :
                 AsLeftRight(p) \in OverlappingPairs(wps) /\ InVisitOrder(wps, AsLeftRight(p)) = p
PROOF
  <1>1. "left" \in Sides /\ "right" \in Sides /\ "left" # "right"
    BY DEF Sides
  <1>2. \A e \in OverlappingPairs(wps) :
          /\ e = <<e[1], e[2]>> /\ e[1] \in 1 .. Len(wps["left"]) /\ e[2] \in 1 .. Len(wps["right"])
          /\ Overlaps(wps["left"][e[1]], wps["right"][e[2]])
    BY DEF OverlappingPairs
  <1>3. ASSUME NEW e \in OverlappingPairs(wps)
        PROVE  InVisitOrder(wps, e) \in DualOperators(wps).pairs /\ AsLeftRight(InVisitOrder(wps, e)) = e
    <2>6. <<"left", e[1]>> \in Visits(wps) /\ <<"right", e[2]>> \in Visits(wps)
      BY <1>1, <1>2, VisitAt
    <2>1. PICK l \in Visits(wps), r \in Visits(wps) : l = <<"left", e[1]>> /\ r = <<"right", e[2]>>
      BY <2>6
    <2>2. l[1] = "left" /\ r[1] = "right" /\ l[2] = e[1] /\ r[2] = e[2] /\ l[1] # r[1]
      BY <1>1, <2>1
    <2>3. Meet(wps, l, r)
      BY <1>2, <2>2 DEF Meet, Packet
    <2>4. CASE VisitedFirst(wps, l, r)
      <3>1. InVisitOrder(wps, e) = <<l, r>>
        BY <2>1, <2>4 DEF InVisitOrder
      <3>2. <<l, r>> \in DualOperators(wps).pairs
        BY <2>2, <2>3, <2>4, PairsAre
      <3>3. AsLeftRight(<<l, r>>) = <<e[1], e[2]>>
        BY <2>2 DEF AsLeftRight
      <3> QED BY <1>2, <3>1, <3>2, <3>3
    <2>5. CASE ~ VisitedFirst(wps, l, r)
      <3>1. InVisitOrder(wps, e) = <<r, l>>
        BY <2>1, <2>5 DEF InVisitOrder
      <3>2. VisitedFirst(wps, r, l) /\ Meet(wps, r, l)
        BY <2>2, <2>3, <2>5, VisitOrder
      <3>3. <<r, l>> \in DualOperators(wps).pairs
        BY <2>2, <3>2, PairsAre
      <3>4. AsLeftRight(<<r, l>>) = <<e[1], e[2]>>
        BY <1>1, <2>2 DEF AsLeftRight
      <3> QED BY <1>2, <3>1, <3>3, <3>4
    <2> QED BY <2>4, <2>5
  <1>4. ASSUME NEW p \in DualOperators(wps).pairs
        PROVE  AsLeftRight(p) \in OverlappingPairs(wps) /\ InVisitOrder(wps, AsLeftRight(p)) = p
    <2>1. PICK v \in Visits(wps), w \in Visits(wps) : p = <<v, w>> /\ p[1] = v /\ p[2] = w
      BY PairsAre
    <2>2. v[1] # w[1] /\ VisitedFirst(wps, v, w) /\ Meet(wps, v, w)
      BY <2>1, PairsAre
    <2>3. /\ v[1] \in Sides /\ v[2] \in 1 .. Len(wps[v[1]]) /\ v = <<v[1], v[2]>>
          /\ w[1] \in Sides /\ w[2] \in 1 .. Len(wps[w[1]]) /\ w = <<w[1], w[2]>>
      BY VisitIs
    <2>4. CASE v[1] = "left"
      <3>1. w[1] = "right"
        BY <2>2, <2>3, <2>4 DEF Sides
      <3>2. AsLeftRight(p) = <<v[2], w[2]>>
        BY <2>1, <2>4 DEF AsLeftRight
      <3>3. Overlaps(wps["left"][v[2]], wps["right"][w[2]])
        BY <2>2, <2>4, <3>1 DEF Meet, Packet
      <3>4. <<v[2], w[2]>> \in OverlappingPairs(wps)
        BY <2>3, <2>4, <3>1, <3>3 DEF OverlappingPairs
      <3>5. v = <<"left", v[2]>> /\ w = <<"right", w[2]>>
        BY <2>3, <2>4, <3>1
      <3>6. InVisitOrder(wps, <<v[2], w[2]>>) = <<v, w>>
        BY <2>2, <3>5 DEF InVisitOrder
      <3> QED BY <2>1, <3>2, <3>4, <3>6
    <2>5. CASE v[1] # "left"
      <3>1. v[1] = "right" /\ w[1] = "left"
        BY <2>2, <2>3, <2>5 DEF Sides
      <3>2. AsLeftRight(p) = <<w[2], v[2]>>
        BY <2>1, <2>5 DEF AsLeftRight
      <3>3. ~ VisitedFirst(wps, w, v) /\ Meet(wps, w, v)
        BY <2>2, VisitOrder
      <3>4. Overlaps(wps["left"][w[2]], wps["right"][v[2]])
        BY <3>1, <3>3 DEF Meet, Packet
      <3>5. <<w[2], v[2]>> \in OverlappingPairs(wps)
        BY <2>3, <3>1, <3>4 DEF OverlappingPairs
      <3>6. w = <<"left", w[2]>> /\ v = <<"right", v[2]>>
        BY <2>3, <3>1
      <3>7. InVisitOrder(wps, <<w[2], v[2]>>) = <<v, w>>
        BY <3>3, <3>6 DEF InVisitOrder
      <3> QED BY <2>1, <3>2, <3>5, <3>7
    <2> QED BY <2>4, <2>5
  <1> QED BY <1>3, <1>4

LEMMA PairsCounted ==
    ASSUME NEW wps \in [Sides -> Seq(WavePacket)], Even(wps)
    PROVE  /\ {AsLeftRight(p) : p \in DualOperators(wps).pairs} = OverlappingPairs(wps)
           /\ Cardinality(DualOperators(wps).pairs) = Cardinality(OverlappingPairs(wps))
PROOF
  <1> DEFINE S == OverlappingPairs(wps)
             T == DualOperators(wps).pairs
  <1>1. PICK f : f = [e \in S |-> InVisitOrder(wps, e)]
    OBVIOUS
  <1>2. /\ \A e \in S : f[e] \in T /\ AsLeftRight(f[e]) = e
        /\ \A p \in T : AsLeftRight(p) \in S /\ f[AsLeftRight(p)] = p
    BY <1>1, PairsMatch
  <1>3. IsFiniteSet(S)
    <2>1. "left" \in Sides /\ "right" \in Sides
      BY DEF Sides
    <2>2. Len(wps["left"]) \in Nat /\ Len(wps["right"]) \in Nat
      BY <2>1
    <2>3. PICK A, B : A = 1 .. Len(wps["left"]) /\ B = 1 .. Len(wps["right"])
      OBVIOUS
    <2>6. IsFiniteSet(A) /\ IsFiniteSet(B)
      BY <2>2, <2>3, FS_Interval
    <2>4. IsFiniteSet(A \X B)
      BY <2>6, FS_Product
    <2>5. S \subseteq A \X B
      BY <2>3 DEF OverlappingPairs
    <2> QED BY <2>4, <2>5, FS_Subset
  <1>4. f \in [S -> T]
    BY <1>1, <1>2
  <1> HIDE DEF S, T
  <1>5. {AsLeftRight(p) : p \in T} = S
    BY <1>2
  <1>6. ExistsBijection(S, T)
    <2>1. f \in Injection(S, T)
      BY <1>2, <1>4 DEF Injection, IsInjective
    <2>2. f \in Surjection(S, T)
      BY <1>2, <1>4 DEF Surjection
    <2> QED BY <2>1, <2>2 DEF ExistsBijection, Bijection
  <1>7. Cardinality(T) = Cardinality(S)
    BY <1>3, <1>6, FS_Bijection
  <1> QED BY <1>5, <1>7 DEF S, T

\* A packet that overlaps one visited before it is not behind the watermark: the
\* last visit that paired any came at least as near to it.
LEMMA WatermarkIs ==
    ASSUME NEW wps \in [Sides -> Seq(WavePacket)], Even(wps), NEW v \in Visits(wps),
           NEW partners, partners = [u \in Visits(wps) |-> PartnersOf(wps, u)]
    PROVE  /\ Watermark(wps, partners, v) \in Nat
           /\ Watermark(wps, partners, v) < v[2] <=>
                \A w \in Visits(wps) : w[1] # v[1] /\ VisitedFirst(wps, w, v) => ~ Meet(wps, v, w)
PROOF
  <1>1. PICK o \in Sides : o = Other(v[1]) /\ o # v[1] /\ Other(o) = v[1]
    <2>1. v[1] \in Sides
      BY VisitIs
    <2> QED BY <2>1 DEF Sides, Other
  <1>2. PICK n \in Nat : n = Len(wps[o])
    OBVIOUS
  <1>3. v[2] \in Nat /\ v[2] \in 1 .. Len(wps[v[1]]) /\ v = <<v[1], v[2]>>
    BY VisitIs
  <1>4. \A i \in 1 .. n : <<o, i>> \in Visits(wps)
    BY <1>2, VisitAt
  <1>5. ASSUME NEW i \in 1 .. n
        PROVE  /\ partners[<<o, i>>] \subseteq 1 .. Len(wps[v[1]])
               /\ v[2] \in partners[<<o, i>>] <=> VisitedFirst(wps, <<o, i>>, v) /\ Meet(wps, v, <<o, i>>)
               /\ VisitedFirst(wps, <<o, i>>, v) /\ (\E j \in partners[<<o, i>>] : v[2] <= j) =>
                     Meet(wps, v, <<o, i>>)
    <2>1. PICK w \in Visits(wps) : w = <<o, i>>
      BY <1>4
    <2>2. w[1] = o /\ Other(w[1]) = v[1] /\ partners[w] = PartnersOf(wps, w) /\ w[1] # v[1]
      BY <1>1, <2>1
    <2>3. /\ PartnersOf(wps, w) \subseteq 1 .. Len(wps[v[1]])
          /\ \A j \in 1 .. Len(wps[v[1]]) :
                j \in PartnersOf(wps, w) <=> VisitedFirst(wps, w, <<v[1], j>>) /\ Meet(wps, w, <<v[1], j>>)
          /\ \A j \in PartnersOf(wps, w) : \A k \in 1 .. j :
                VisitedFirst(wps, w, <<v[1], k>>) => Meet(wps, w, <<v[1], k>>)
      BY <2>2, PartnersAre
    <2>4. Meet(wps, w, v) <=> Meet(wps, v, w)
      BY <2>2, VisitOrder
    <2>5. v[2] \in PartnersOf(wps, w) <=> VisitedFirst(wps, w, v) /\ Meet(wps, v, w)
      BY <1>3, <2>3, <2>4
    <2>6. ASSUME VisitedFirst(wps, w, v), NEW j \in PartnersOf(wps, w), v[2] <= j
          PROVE  Meet(wps, v, w)
      <3>1. v[2] \in 1 .. j
        BY <1>3, <2>3, <2>6
      <3>2. VisitedFirst(wps, w, <<v[1], v[2]>>)
        BY <1>3, <2>6
      <3>3. Meet(wps, w, <<v[1], v[2]>>)
        BY <2>3, <3>1, <3>2
      <3> QED BY <1>3, <2>4, <3>3
    <2> QED BY <2>1, <2>2, <2>3, <2>5, <2>6
  <1>6. PICK M : M = {i \in 1 .. n : VisitedFirst(wps, <<o, i>>, v) /\ partners[<<o, i>>] # {}}
    OBVIOUS
  <1>7. Watermark(wps, partners, v) = IF M = {} THEN 0 ELSE Max(partners[<<o, Max(M)>>])
    BY <1>1, <1>2, <1>6 DEF Watermark
  <1>8. ASSUME NEW w \in Visits(wps), w[1] # v[1]
        PROVE  \E i \in 1 .. n : w = <<o, i>>
    <2>1. w[1] \in Sides /\ w[2] \in 1 .. Len(wps[w[1]]) /\ w = <<w[1], w[2]>> /\ v[1] \in Sides
      BY VisitIs
    <2>2. w[1] = o
      BY <1>1, <1>8, <2>1 DEF Sides
    <2> QED BY <1>2, <2>1, <2>2
  <1>9. CASE M = {}
    <2>1. Watermark(wps, partners, v) = 0
      BY <1>7, <1>9
    <2>2. 0 < v[2]
      BY <1>3
    <2>3. ASSUME NEW w \in Visits(wps), w[1] # v[1], VisitedFirst(wps, w, v)
          PROVE  ~ Meet(wps, v, w)
      <3>1. PICK i \in 1 .. n : w = <<o, i>>
        BY <1>8, <2>3
      <3>2. partners[<<o, i>>] = {}
        BY <1>6, <1>9, <2>3, <3>1
      <3> QED BY <1>5, <2>3, <3>1, <3>2
    <2> QED BY <2>1, <2>2, <2>3
  <1>10. CASE M # {}
    <2>1. IsFiniteSet(M) /\ M \subseteq Int
      <3>1. IsFiniteSet(1 .. n) /\ M \in SUBSET (1 .. n)
        BY <1>6, FS_Interval
      <3>2. IsFiniteSet(M)
        BY <3>1, FS_Subset
      <3> QED BY <3>1, <3>2
    <2>2. PICK m : m = Max(M) /\ m \in M /\ \A i \in M : i <= m
      BY <1>10, <2>1, MaxIsGreatest
    <2>3. m \in 1 .. n /\ VisitedFirst(wps, <<o, m>>, v) /\ partners[<<o, m>>] # {}
      BY <1>6, <2>2
    <2>4. PICK P : P = partners[<<o, m>>]
      OBVIOUS
    <2>5. PICK l \in Nat : l = Len(wps[v[1]])
      <3>1. v[1] \in Sides
        BY VisitIs
      <3> QED BY <3>1
    <2>6. P \subseteq 1 .. l /\ P # {}
      BY <1>5, <2>3, <2>4, <2>5
    <2>7. IsFiniteSet(P) /\ P \subseteq Int
      <3>1. IsFiniteSet(1 .. l) /\ P \in SUBSET (1 .. l)
        BY <2>6, FS_Interval
      <3>2. IsFiniteSet(P)
        BY <3>1, FS_Subset
      <3> QED BY <3>1, <3>2
    <2>8. PICK k : k = Max(P) /\ k \in P /\ \A j \in P : j <= k
      BY <2>6, <2>7, MaxIsGreatest
    <2>14. k \in Nat
      BY <2>6, <2>8
    <2>15. Watermark(wps, partners, v) = k
      BY <1>7, <1>10, <2>2, <2>4, <2>8
    <2>9. Watermark(wps, partners, v) = k /\ k \in Nat
      BY <2>14, <2>15
    <2>10. PICK u \in Visits(wps) : u = <<o, m>> /\ u[1] = o /\ u[2] = m
      BY <1>4, <2>3
    <2>11. ASSUME v[2] <= k
           PROVE  ~ \A w \in Visits(wps) : w[1] # v[1] /\ VisitedFirst(wps, w, v) => ~ Meet(wps, v, w)
      <3>1. Meet(wps, v, u)
        BY <1>5, <2>3, <2>4, <2>8, <2>10, <2>11
      <3> QED BY <1>1, <2>3, <2>10, <3>1
    <2>12. ASSUME NEW w \in Visits(wps), w[1] # v[1], VisitedFirst(wps, w, v), Meet(wps, v, w)
           PROVE  v[2] <= k
      <3>1. PICK i \in 1 .. n : w = <<o, i>> /\ w[1] = o /\ w[2] = i
        BY <1>8, <2>12
      <3>2. v[2] \in partners[<<o, i>>]
        BY <1>5, <2>12, <3>1
      <3>3. i <= m
        BY <1>6, <2>2, <2>12, <3>1, <3>2
      <3>4. VisitedFirst(wps, u, v) /\ u[1] = w[1] /\ w[2] <= u[2]
        BY <2>3, <2>10, <3>1, <3>3
      <3>5. Meet(wps, v, u)
        BY <2>12, <3>4, VisitOrder
      <3>6. v[2] \in P
        BY <1>5, <2>3, <2>4, <2>10, <3>4, <3>5
      <3> QED BY <2>8, <3>6
    <2>13. k < v[2] <=> ~ (v[2] <= k)
      BY <1>3, <2>9
    <2> QED BY <2>9, <2>11, <2>12, <2>13
  <1> QED BY <1>9, <1>10

LEMMA LoneAre ==
    ASSUME NEW wps \in [Sides -> Seq(WavePacket)], Even(wps)
    PROVE  DualOperators(wps).lone =
             {v \in Visits(wps) :
                 \A e \in OverlappingPairs(wps) : e[IF v[1] = "left" THEN 1 ELSE 2] # v[2]}
PROOF
  <1>1. PICK f : f = [v \in Visits(wps) |-> PartnersOf(wps, v)]
    OBVIOUS
  <1>2. DualOperators(wps).lone = {v \in Visits(wps) : f[v] = {} /\ Watermark(wps, f, v) < v[2]}
    BY <1>1 DEF DualOperators
  <1>3. ASSUME NEW v \in Visits(wps)
        PROVE  f[v] = {} <=> \A w \in Visits(wps) : w[1] # v[1] /\ VisitedFirst(wps, v, w) => ~ Meet(wps, v, w)
    <2>1. f[v] = PartnersOf(wps, v)
      BY <1>1
    <2>2. PICK o \in Sides : o = Other(v[1]) /\ o # v[1] /\ v[1] \in Sides
      <3>1. v[1] \in Sides
        BY VisitIs
      <3> QED BY <3>1 DEF Sides, Other
    <2>3. /\ PartnersOf(wps, v) \subseteq 1 .. Len(wps[o])
          /\ \A j \in 1 .. Len(wps[o]) :
                j \in PartnersOf(wps, v) <=> VisitedFirst(wps, v, <<o, j>>) /\ Meet(wps, v, <<o, j>>)
      BY <2>2, PartnersAre
    <2>4. \A j \in 1 .. Len(wps[o]) : <<o, j>> \in Visits(wps)
      BY VisitAt
    <2>5. \A w \in Visits(wps) : w[1] # v[1] => w = <<o, w[2]>> /\ w[2] \in 1 .. Len(wps[o])
      <3>1. SUFFICES ASSUME NEW w \in Visits(wps), w[1] # v[1]
                     PROVE  w = <<o, w[2]>> /\ w[2] \in 1 .. Len(wps[o])
        OBVIOUS
      <3>2. w[1] \in Sides /\ w[2] \in 1 .. Len(wps[w[1]]) /\ w = <<w[1], w[2]>>
        BY VisitIs
      <3>3. w[1] = o
        BY <2>2, <3>1, <3>2 DEF Sides
      <3> QED BY <3>2, <3>3
    <2>6. ASSUME f[v] = {}, NEW w \in Visits(wps), w[1] # v[1], VisitedFirst(wps, v, w)
          PROVE  ~ Meet(wps, v, w)
      BY <2>1, <2>3, <2>5, <2>6
    <2>7. ASSUME f[v] # {}
          PROVE  \E w \in Visits(wps) : w[1] # v[1] /\ VisitedFirst(wps, v, w) /\ Meet(wps, v, w)
      <3>1. PICK j \in PartnersOf(wps, v) : TRUE
        BY <2>1, <2>7
      <3>2. PICK w \in Visits(wps) : w = <<o, j>> /\ w[1] = o
        BY <2>3, <2>4
      <3> QED BY <2>2, <2>3, <3>2
    <2> QED BY <2>6, <2>7
  <1>4. ASSUME NEW v \in Visits(wps)
        PROVE  Watermark(wps, f, v) < v[2] <=>
                 \A w \in Visits(wps) : w[1] # v[1] /\ VisitedFirst(wps, w, v) => ~ Meet(wps, v, w)
    BY <1>1, WatermarkIs
  <1>5. ASSUME NEW v \in Visits(wps)
        PROVE  f[v] = {} /\ Watermark(wps, f, v) < v[2] <=>
                 \A w \in Visits(wps) : w[1] # v[1] => ~ Meet(wps, v, w)
    <2>1. \A w \in Visits(wps) : w[1] # v[1] => VisitedFirst(wps, v, w) \/ VisitedFirst(wps, w, v)
      BY VisitOrder
    <2> QED BY <1>3, <1>4, <2>1
  <1>6. ASSUME NEW v \in Visits(wps)
        PROVE  (\A w \in Visits(wps) : w[1] # v[1] => ~ Meet(wps, v, w)) <=>
                 \A e \in OverlappingPairs(wps) : e[IF v[1] = "left" THEN 1 ELSE 2] # v[2]
    <2>1. /\ "left" \in Sides /\ "right" \in Sides /\ "left" # "right"
          /\ v[1] \in {"left", "right"} /\ v[2] \in 1 .. Len(wps[v[1]]) /\ v = <<v[1], v[2]>>
      BY VisitIs DEF Sides
    <2>2. \A e : e \in OverlappingPairs(wps) <=>
            /\ e = <<e[1], e[2]>> /\ e[1] \in 1 .. Len(wps["left"]) /\ e[2] \in 1 .. Len(wps["right"])
            /\ Overlaps(wps["left"][e[1]], wps["right"][e[2]])
      BY DEF OverlappingPairs
    <2>3. \A w \in Visits(wps) : w[1] \in {"left", "right"} /\ w[2] \in 1 .. Len(wps[w[1]])
      BY VisitIs DEF Sides
    <2>4. \A w \in Visits(wps) : w[1] # v[1] => (Meet(wps, v, w) <=> Meet(wps, w, v))
      BY VisitOrder
    <2>5. /\ \A i \in 1 .. Len(wps["left"]) : <<"left", i>> \in Visits(wps)
          /\ \A i \in 1 .. Len(wps["right"]) : <<"right", i>> \in Visits(wps)
      BY <2>1, VisitAt
    <2>6. ASSUME NEW w \in Visits(wps), w[1] # v[1], Meet(wps, v, w)
          PROVE  \E e \in OverlappingPairs(wps) : e[IF v[1] = "left" THEN 1 ELSE 2] = v[2]
      <3>1. CASE v[1] = "left"
        <4>1. w[1] = "right" /\ w[2] \in 1 .. Len(wps["right"])
          BY <2>3, <2>6, <3>1
        <4>2. Overlaps(wps["left"][v[2]], wps["right"][w[2]])
          BY <2>6, <3>1, <4>1 DEF Meet, Packet
        <4>3. <<v[2], w[2]>> \in OverlappingPairs(wps)
          BY <2>1, <3>1, <4>1, <4>2 DEF OverlappingPairs
        <4>4. <<v[2], w[2]>>[IF v[1] = "left" THEN 1 ELSE 2] = v[2]
          BY <3>1
        <4> QED BY <4>3, <4>4
      <3>2. CASE v[1] = "right"
        <4>1. w[1] = "left" /\ w[2] \in 1 .. Len(wps["left"])
          BY <2>3, <2>6, <3>2
        <4>2. Overlaps(wps["left"][w[2]], wps["right"][v[2]])
          BY <2>4, <2>6, <3>2, <4>1 DEF Meet, Packet
        <4>3. <<w[2], v[2]>> \in OverlappingPairs(wps)
          BY <2>1, <3>2, <4>1, <4>2 DEF OverlappingPairs
        <4>4. <<w[2], v[2]>>[IF v[1] = "left" THEN 1 ELSE 2] = v[2]
          BY <2>1, <3>2
        <4> QED BY <4>3, <4>4
      <3> QED BY <2>1, <3>1, <3>2
    <2>7. ASSUME NEW e \in OverlappingPairs(wps), e[IF v[1] = "left" THEN 1 ELSE 2] = v[2]
          PROVE  \E w \in Visits(wps) : w[1] # v[1] /\ Meet(wps, v, w)
      <3>1. /\ e[1] \in 1 .. Len(wps["left"]) /\ e[2] \in 1 .. Len(wps["right"])
            /\ Overlaps(wps["left"][e[1]], wps["right"][e[2]])
        BY <2>2
      <3>2. PICK l \in Visits(wps), r \in Visits(wps) : l = <<"left", e[1]>> /\ r = <<"right", e[2]>>
        BY <2>5, <3>1
      <3>3. Meet(wps, l, r) /\ l[1] = "left" /\ r[1] = "right"
        BY <3>1, <3>2 DEF Meet, Packet
      <3>4. CASE v[1] = "left"
        <4>1. v = l
          BY <2>1, <2>7, <3>2, <3>4
        <4> QED BY <2>1, <3>3, <4>1
      <3>5. CASE v[1] = "right"
        <4>1. v = r
          BY <2>1, <2>7, <3>2, <3>5
        <4>2. Meet(wps, v, l)
          BY <2>1, <2>4, <3>3, <4>1
        <4> QED BY <2>1, <3>3, <4>1, <4>2
      <3> QED BY <2>1, <3>4, <3>5
    <2> QED BY <2>6, <2>7
  <1>7. \A v \in Visits(wps) : f[v] = {} /\ Watermark(wps, f, v) < v[2] <=>
          \A e \in OverlappingPairs(wps) : e[IF v[1] = "left" THEN 1 ELSE 2] # v[2]
    BY <1>5, <1>6
  <1> QED BY <1>2, <1>7

\* Exact(s) does not depend on the end time of s.
LEMMA PassThree ==
    ASSUME NEW wps \in [Sides -> Seq(WavePacket)], Even(wps),
           NEW s, s.wps = wps, s.operators = DualOperators(wps)
    PROVE  Exact(s)
  BY PairsCounted, LoneAre DEF Exact

LEMMA StepOperatorsExact ==
    ASSUME TypeInv, TypeInv', Widths, Uniform, InOrder, [Next]_vars, Scatters
    PROVE  Exact(Last(scattered'))
PROOF
  <1>1. Scatter
    BY OnlyScatters
  <1>2. PICK src, base, cuts : Order(src, base, cuts)
    BY DEF InOrder
  <1>3. PICK wps : wps = [side \in Sides |-> batch[side].wps]
    OBVIOUS
  <1>4. \A side \in Sides : wps[side] \in Seq(WavePacket) /\ wps[side] = batch[side].wps
    BY <1>1, <1>2, <1>3, PassesPieces
  <1>5. wps \in [Sides -> Seq(WavePacket)]
    BY <1>3, <1>4
  <1>6. PICK s : s = [wps |-> wps, end |-> endTime, operators |-> DualOperators(wps)]
    OBVIOUS
  <1>7. scattered' = Append(scattered, s)
    BY <1>1, <1>3, <1>6 DEF Scatter
  <1>8. scattered \in Seq(Outcomes) /\ scattered' \in Seq(Outcomes)
    BY DEF TypeInv, ScatteredTypes
  <1>9. s \in Outcomes
    <2>1. endTime \in Nat
      BY DEF TypeInv, TimeoutTypes
    <2>2. DualOperators(wps) \in Operators
      BY <1>5, OperatorTypes
    <2> QED BY <1>5, <1>6, <2>1, <2>2 DEF Outcomes
  <1>10. Last(scattered') = s
    BY <1>7, <1>8, <1>9, AppendProperties DEF Last
  <1>11. PICK g : g = SigmaOf(0)
    OBVIOUS
  <1>12. ASSUME NEW side \in Sides, NEW i \in 1 .. Len(wps[side])
         PROVE  /\ wps[side][i].sigma = g
                /\ \A j \in 1 .. Len(wps[side]) : i <= j => wps[side][i].time <= wps[side][j].time
    <2>1. PICK d \in Nat, n \in Nat, w \in Seq(WavePacket) : d = Shift(side) /\ n = base[side] /\ w = batch[side].wps
      BY <1>1, <1>2, PassesPieces
    <2>2. wps[side] = w /\ Piece(d, src, n, w) /\ Emitted(src, time) /\ time \in Nat
      BY <1>1, <1>2, <1>4, <2>1, PassesPieces
    <2>3. i \in 1 .. Len(w)
      BY <2>2
    <2>8. \A k \in 1 .. Len(w) : /\ w[k].sigma = SigmaOf(n + k)
                                 /\ \A j \in 1 .. Len(w) : k <= j => w[k].time <= w[j].time
      <3>1. Grained(n, w)
        BY <2>2, PieceGrained
      <3> QED BY <3>1 DEF Grained
    <2>4. w[i].sigma = SigmaOf(n + i)
      BY <2>3, <2>8
    <2>7. \A j \in 1 .. Len(w) : i <= j => w[i].time <= w[j].time
      BY <2>3, <2>8
    <2>5. PICK m \in Nat : m = n + i
      BY <2>1, <2>3
    <2>6. SigmaOf(m) = g
      BY <1>11 DEF Uniform
    <2> QED BY <2>2, <2>4, <2>5, <2>6, <2>7
  <1>13. Even(wps)
    <2>1. ASSUME NEW v \in Visits(wps), NEW w \in Visits(wps)
          PROVE  /\ v[1] = w[1] /\ v[2] <= w[2] => Packet(wps, v).time <= Packet(wps, w).time
                 /\ Packet(wps, v).sigma = Packet(wps, w).sigma
      <3>1. /\ v[1] \in Sides /\ v[2] \in 1 .. Len(wps[v[1]])
            /\ w[1] \in Sides /\ w[2] \in 1 .. Len(wps[w[1]])
        BY <1>5, VisitIs
      <3> QED BY <1>12, <3>1 DEF Packet
    <2> QED BY <2>1 DEF Even
  <1>14. s.wps = wps /\ s.operators = DualOperators(wps)
    BY <1>6
  <1> QED BY <1>5, <1>10, <1>13, <1>14, PassThree

\* When all pulses have one width, pass 3 makes one bivariate operator for every
\* overlapping pair of packets of a batch of the beam splitter, and a univariate
\* one exactly for the packets that overlap none (dual_port.rs:207-257): late_index,
\* the early end of the inner loop and the watermark miss nothing and repeat nothing.
THEOREM OperatorsCorrect == ASSUME Widths, Uniform PROVE Spec => OperatorsExact
PROOF
  <1>1. TypeInv /\ TypeInv' /\ InOrder /\ [Next]_vars => [Scatters => Exact(Last(scattered'))]_scattered
    BY StepOperatorsExact
  <1> QED BY <1>1, OrderInvariant, PTL DEF Spec, OperatorsExact
=============================================================================
