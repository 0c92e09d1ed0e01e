--------------------------- MODULE CollapserProofs ---------------------------
(***************************************************************************)
(* Theorems about Collapser, for any islands: any number of operators of   *)
(* any kinds, in any order.                                                *)
(***************************************************************************)
EXTENDS Collapser, FiniteSetTheorems, SequenceTheorems, WellFoundedInduction, TLAPS

(***************************************************************************)
(* Recursive functions.  A property of all numbers up to n is proved from  *)
(* a least number that does not have it.                                   *)
(***************************************************************************)

LEMMA LeastOfNumbers ==
    ASSUME NEW T, T \subseteq Nat, T # {}
    PROVE  \E k \in T : \A j \in Nat : j < k => j \notin T
PROOF
  <1>1. PICK k \in T : \A j \in T : ~ (<<j, k>> \in OpToRel(<, Nat))
    BY NatLessThanWellFounded, WFMin
  <1>2. \A j \in T : ~ (j < k)
    BY <1>1 DEF OpToRel
  <1> QED BY <1>2

\* Induction up to n, over the set of numbers that have the property.
LEMMA UpTo ==
    ASSUME NEW n \in Nat, NEW P, 0 \in P, \A i \in 1 .. n : i - 1 \in P => i \in P
    PROVE  \A i \in 0 .. n : i \in P
PROOF
  <1> DEFINE B == {i \in 0 .. n : i \notin P}
  <1> SUFFICES ASSUME B # {} PROVE FALSE
    OBVIOUS
  <1>1. B \subseteq Nat
    OBVIOUS
  <1> HIDE DEF B
  <1>2. PICK k \in B : \A j \in Nat : j < k => j \notin B
    BY <1>1, LeastOfNumbers
  <1>3. k \in 0 .. n /\ k \notin P
    BY <1>2 DEF B
  <1>4. k \in 1 .. n /\ k - 1 \in 0 .. n /\ k - 1 < k /\ k - 1 \in Nat
    BY <1>3
  <1>5. k - 1 \in P
    BY <1>2, <1>4 DEF B
  <1> QED BY <1>3, <1>4, <1>5

Steps(n, S, base, step) == n \in Nat /\ base \in S /\ step \in [1 .. n -> [S -> S]]
Iteration(n, S, base, step, f) ==
    f \in [0 .. n -> S] /\ f[0] = base /\ \A i \in 1 .. n : f[i] = step[i][f[i - 1]]

LEMMA Iterates ==
    ASSUME NEW n, NEW S, NEW base, NEW step, Steps(n, S, base, step)
    PROVE  \E f : Iteration(n, S, base, step, f)
PROOF
  <1>0. n \in Nat /\ base \in S /\ step \in [1 .. n -> [S -> S]]
    BY DEF Steps
  <1> DEFINE P == {m \in 0 .. n : \E f \in [0 .. m -> S] :
                      f[0] = base /\ \A i \in 1 .. m : f[i] = step[i][f[i - 1]]}
  <1>1. 0 \in P
    <2>1. PICK f : f = [i \in 0 .. 0 |-> base]
      OBVIOUS
    <2>2. f \in [0 .. 0 -> S] /\ f[0] = base /\ 0 \in 0 .. n
      BY <1>0, <2>1
    <2>3. \A i \in 1 .. 0 : f[i] = step[i][f[i - 1]]
      OBVIOUS
    <2> QED BY <2>2, <2>3
  <1>2. ASSUME NEW m \in 1 .. n, m - 1 \in P
        PROVE  m \in P
    <2>0. m \in Nat /\ m \in 1 .. n /\ m \in 0 .. n
      BY <1>0
    <2>1. PICK f \in [0 .. m - 1 -> S] : f[0] = base /\ \A i \in 1 .. m - 1 : f[i] = step[i][f[i - 1]]
      BY <1>2
    <2>2. m - 1 \in 0 .. m - 1 /\ f[m - 1] \in S
      BY <2>0, <2>1
    <2>3. step[m][f[m - 1]] \in S
      BY <1>0, <2>0, <2>2
    <2> DEFINE g == [i \in 0 .. m |-> IF i = m THEN step[m][f[m - 1]] ELSE f[i]]
    <2>4. g \in [0 .. m -> S]
      <3>1. \A i \in 0 .. m : i # m => i \in 0 .. m - 1
        BY <2>0
      <3> QED BY <2>1, <2>3, <3>1
    <2>5. g[0] = base
      BY <2>0, <2>1
    <2>6. ASSUME NEW i \in 1 .. m
          PROVE  g[i] = step[i][g[i - 1]]
      <3>1. CASE i = m
        <4>1. m - 1 \in 0 .. m /\ m - 1 # m /\ m \in 0 .. m
          BY <2>0
        <4>2. g[m - 1] = f[m - 1] /\ g[m] = step[m][f[m - 1]]
          BY <4>1
        <4> QED BY <3>1, <4>2
      <3>2. CASE i # m
        <4>1. i \in 1 .. m - 1 /\ i \in 0 .. m /\ i - 1 \in 0 .. m /\ i - 1 # m
          BY <2>0, <3>2
        <4>2. g[i] = f[i] /\ g[i - 1] = f[i - 1]
          BY <3>2, <4>1
        <4> QED BY <2>1, <4>1, <4>2
      <3> QED BY <3>1, <3>2
    <2> HIDE DEF g
    <2> QED BY <2>0, <2>4, <2>5, <2>6
  <1> HIDE DEF P
  <1>3. n \in P
    <2>1. n \in Nat /\ n \in 0 .. n
      BY <1>0
    <2> QED BY <1>1, <1>2, <2>1, UpTo
  <1> QED BY <1>3 DEF P, Iteration

-----------------------------------------------------------------------------
(* Moved cells                                                             *)

\* Where every handle leads: to a cell that is not moved, over ever fewer others.
RootedIn(c, R, D) ==
    /\ R \in [DOMAIN c -> DOMAIN c] /\ D \in [DOMAIN c -> Nat]
    /\ \A h \in DOMAIN c :
          /\ c[R[h]].kind # "Moved"
          /\ IF c[h].kind = "Moved" THEN /\ c[h].to \in DOMAIN c
                                         /\ R[h] = R[c[h].to] /\ D[c[h].to] < D[h]
             ELSE R[h] = h

Hop(c, h) == IF c[h].kind = "Moved" THEN c[h].to ELSE h

HopTo(c, handle) ==
    LET hop[n \in 0 .. Len(c)] ==
            IF n = 0 THEN handle
            ELSE LET h == hop[n - 1] IN IF c[h].kind = "Moved" THEN c[h].to ELSE h
    IN  hop[Len(c)]

LEMMA ResolveIsHopTo == \A handle : Resolve(handle) = HopTo(cells, handle)
  BY DEF Resolve, HopTo

\* A chain of n hops in a set of n has come to its end.
Chain(n, T, M, next, R, D, f) ==
    /\ n \in Nat /\ IsFiniteSet(T) /\ Cardinality(T) = n
    /\ \A h \in T : D[h] \in Nat
    /\ \A h \in T : h \in M => R[h] = R[next[h]] /\ D[next[h]] < D[h]
    /\ \A h \in T : h \notin M => R[h] = h /\ next[h] = h
    /\ f \in [0 .. n -> T] /\ \A i \in 1 .. n : f[i] = next[f[i - 1]]

LEMMA ChainEnds ==
    ASSUME NEW n, NEW T, NEW M, NEW next, NEW R, NEW D, NEW f, Chain(n, T, M, next, R, D, f)
    PROVE  f[n] = R[f[0]]
PROOF
  <1> USE DEF Chain
  <1>0. n \in Nat /\ \A i \in 0 .. n : f[i] \in T
    OBVIOUS
  <1> DEFINE P == {i \in 0 .. n : /\ R[f[i]] = R[f[0]]
                                  /\ f[i] \in M => \A j \in 0 .. i - 1 : f[j] \in M /\ D[f[i]] < D[f[j]]}
  <1>1. 0 \in P
    BY <1>0
  <1>2. ASSUME NEW i \in 1 .. n, i - 1 \in P
        PROVE  i \in P
    <2>1. i \in 0 .. n /\ i - 1 \in 0 .. n /\ \A j \in 0 .. i - 1 : j \in 0 .. n /\ (j = i - 1 \/ j \in 0 .. (i - 1) - 1)
      OBVIOUS
    <2>2. /\ R[f[i - 1]] = R[f[0]]
          /\ f[i - 1] \in M => \A j \in 0 .. (i - 1) - 1 : f[j] \in M /\ D[f[i - 1]] < D[f[j]]
      BY <1>2
    <2>3. f[i] = next[f[i - 1]] /\ f[i - 1] \in T /\ f[i] \in T
      BY <1>0, <2>1
    <2> HIDE DEF P
    <2>4. PICK g, h : g = f[i - 1] /\ h = f[i]
      OBVIOUS
    <2>5. h = next[g] /\ g \in T /\ h \in T /\ D[g] \in Nat /\ D[h] \in Nat
      BY <2>3, <2>4
    <2>6. CASE g \in M
      <3>1. R[h] = R[f[0]] /\ D[h] < D[g]
        BY <2>2, <2>4, <2>5, <2>6
      <3>2. ASSUME NEW j \in 0 .. i - 1
            PROVE  f[j] \in M /\ D[h] < D[f[j]]
        <4>1. CASE j = i - 1
          BY <2>4, <2>6, <3>1, <4>1
        <4>2. CASE j \in 0 .. (i - 1) - 1
          <5>1. f[j] \in M /\ D[g] < D[f[j]]
            BY <2>2, <2>4, <2>6, <4>2
          <5>2. D[f[j]] \in Nat
            BY <1>0, <2>1
          <5>3. PICK a \in Nat : a = D[f[j]]
            BY <5>2
          <5> QED BY <2>5, <3>1, <5>1, <5>3
        <4> QED BY <2>1, <4>1, <4>2
      <3> QED BY <2>1, <2>4, <3>1, <3>2 DEF P
    <2>7. CASE g \notin M
      <3>1. h = g
        BY <2>5, <2>7
      <3> QED BY <2>1, <2>2, <2>4, <2>7, <3>1 DEF P
    <2> QED BY <2>6, <2>7
  <1> HIDE DEF P
  <1>3. \A i \in 0 .. n : i \in P
    BY <1>0, <1>1, <1>2, UpTo
  <1>4. n \in 0 .. n /\ f[n] \in T
    BY <1>0
  <1>5. CASE f[n] \in M
    <2>1. \A i \in 0 .. n : f[i] \in M
      <3>1. \A i \in 0 .. n : i = n \/ i \in 0 .. n - 1
        OBVIOUS
      <3>2. \A j \in 0 .. n - 1 : f[j] \in M
        BY <1>3, <1>4, <1>5 DEF P
      <3> QED BY <1>5, <3>1, <3>2
    <2>2. \A i \in 0 .. n : \A j \in 0 .. i - 1 : D[f[i]] < D[f[j]]
      BY <1>3, <2>1 DEF P
    <2>3. ASSUME NEW i \in 0 .. n, NEW j \in 0 .. n, j < i
          PROVE  f[i] # f[j]
      <3>1. j \in 0 .. i - 1
        BY <2>3
      <3>2. D[f[i]] < D[f[j]] /\ D[f[i]] \in Nat
        BY <1>0, <2>2, <3>1
      <3> QED BY <3>2
    <2>4. \A i, j \in 0 .. n : i # j => f[i] # f[j]
      <3>1. \A i, j \in 0 .. n : i # j => i < j \/ j < i
        OBVIOUS
      <3> QED BY <2>3, <3>1
    <2>5. IsFiniteSet(0 .. n) /\ Cardinality(0 .. n) = n + 1
      BY FS_Interval
    <2>6. n < n + 1
      OBVIOUS
    <2> QED BY <2>4, <2>5, <2>6, FS_PigeonHole
  <1>6. CASE f[n] \notin M
    BY <1>3, <1>4, <1>6 DEF P
  <1> QED BY <1>5, <1>6

\* The value of the recursive function is the end of the chain.
Hops(n, c, handle, f) ==
    n \in Nat /\ f = [i \in 0 .. n |-> IF i = 0 THEN handle ELSE Hop(c, f[i - 1])]

LEMMA HopSteps ==
    ASSUME NEW n, NEW c, NEW handle, NEW a, Hops(n, c, handle, a)
    PROVE  n \in Nat /\ a[0] = handle /\ \A i \in 1 .. n : a[i] = Hop(c, a[i - 1])
PROOF
  <1>1. n \in Nat /\ 0 \in 0 .. n /\ \A i \in 1 .. n : i \in 0 .. n /\ i # 0
    BY DEF Hops
  <1>2. \A i \in 0 .. n : a[i] = IF i = 0 THEN handle ELSE Hop(c, a[i - 1])
    BY DEF Hops
  <1> QED BY <1>1, <1>2

LEMMA HopFunction ==
    ASSUME NEW n, NEW c, NEW handle, NEW f, NEW a, Hops(n, c, handle, f), Hops(n, c, handle, a)
    PROVE  a[n] = f[n]
PROOF
  <1>0. n \in Nat /\ f[0] = handle /\ \A i \in 1 .. n : f[i] = Hop(c, f[i - 1])
    BY HopSteps
  <1>1. a[0] = handle /\ \A i \in 1 .. n : a[i] = Hop(c, a[i - 1])
    BY HopSteps
  <1>2. PICK P : P = {i \in 0 .. n : a[i] = f[i]}
    OBVIOUS
  <1>3. 0 \in P
    BY <1>0, <1>1, <1>2
  <1>4. \A i \in 1 .. n : i - 1 \in P => i \in P
    <2>1. \A i \in 1 .. n : i \in 0 .. n
      OBVIOUS
    <2> QED BY <1>0, <1>1, <1>2, <2>1
  <1>5. n \in Nat /\ n \in 0 .. n
    BY <1>0
  <1>6. \A i \in 0 .. n : i \in P
    BY <1>3, <1>4, <1>5, UpTo
  <1> QED BY <1>2, <1>5, <1>6

LEMMA HopsEnd ==
    ASSUME NEW c, NEW n \in Nat, Len(c) = n, DOMAIN c = 1 .. n,
           NEW R, NEW D, RootedIn(c, R, D), NEW handle \in DOMAIN c
    PROVE  HopTo(c, handle) = R[handle]
PROOF
  <1>1. PICK T : T = DOMAIN c
    OBVIOUS
  <1>2. PICK next : next = [h \in T |-> Hop(c, h)]
    OBVIOUS
  <1>3. \A h \in T : next[h] = Hop(c, h)
    BY <1>2
  <1>4. next \in [T -> T]
    BY <1>1, <1>2 DEF RootedIn, Hop
  <1>5. PICK st : st = [i \in 1 .. n |-> next]
    OBVIOUS
  <1>6. st \in [1 .. n -> [T -> T]] /\ handle \in T /\ \A i \in 1 .. n : st[i] = next
    BY <1>1, <1>4, <1>5
  <1>7. PICK f : f \in [0 .. n -> T] /\ f[0] = handle /\ \A i \in 1 .. n : f[i] = st[i][f[i - 1]]
    <2>1. Steps(n, T, handle, st)
      BY <1>6 DEF Steps
    <2>2. \E g : Iteration(n, T, handle, st, g)
      BY <2>1, Iterates
    <2> QED BY <2>2 DEF Iteration
  <1>8. \A i \in 1 .. n : f[i - 1] \in T /\ f[i] = Hop(c, f[i - 1])
    <2>1. \A i \in 1 .. n : i - 1 \in 0 .. n
      OBVIOUS
    <2> QED BY <1>3, <1>6, <1>7, <2>1
  <1>9. PICK at : at = CHOOSE g : g = [i \in 0 .. n |-> IF i = 0 THEN handle ELSE Hop(c, g[i - 1])]
    OBVIOUS
  <1>10. HopTo(c, handle) = at[n]
    BY <1>9 DEF HopTo, Hop
  <1>11. f[n] = R[f[0]]
    <2>1. PICK M : M = {h \in T : c[h].kind = "Moved"}
      OBVIOUS
    <2>2. \A h \in T : D[h] \in Nat
      BY <1>1 DEF RootedIn
    <2>3. \A h \in T : h \in M => R[h] = R[next[h]] /\ D[next[h]] < D[h]
      BY <1>1, <1>3, <2>1 DEF RootedIn, Hop
    <2>4. \A h \in T : h \notin M => R[h] = h /\ next[h] = h
      BY <1>1, <1>3, <2>1 DEF RootedIn, Hop
    <2>5. IsFiniteSet(T) /\ Cardinality(T) = n
      BY <1>1, FS_Interval
    <2>6. n \in Nat /\ f \in [0 .. n -> T] /\ \A i \in 1 .. n : f[i] = next[f[i - 1]]
      BY <1>3, <1>7, <1>8
    <2>7. Chain(n, T, M, next, R, D, f)
      BY <2>2, <2>3, <2>4, <2>5, <2>6 DEF Chain
    <2> QED BY <2>7, ChainEnds
  <1>12. at[n] = f[n]
    <2>1. f = [i \in 0 .. n |-> IF i = 0 THEN handle ELSE Hop(c, f[i - 1])]
      <3>1. \A i \in 0 .. n : i # 0 => i \in 1 .. n
        OBVIOUS
      <3> QED BY <1>7, <1>8, <3>1
    <2>2. at = [i \in 0 .. n |-> IF i = 0 THEN handle ELSE Hop(c, at[i - 1])]
      BY <1>9, <2>1
    <2>3. Hops(n, c, handle, f) /\ Hops(n, c, handle, at)
      BY <2>1, <2>2 DEF Hops
    <2> QED BY <2>3, HopFunction
  <1> QED BY <1>7, <1>10, <1>11, <1>12
-----------------------------------------------------------------------------
(* Operators                                                               *)

Photon     == {"Single", "Vac"}
PlainKinds == {"Single", "DualUnivariate", "SPD"}
OpKinds    == PlainKinds \cup {"EPPS", "DualBivariate"}
SourcesIn(entries) == {entries[i].source : i \in DOMAIN entries}

\* What the shape of the operators says of the n-th.
LEMMA OperatorShape ==
    ASSUME NEW ops, Shaped(ops), NEW n \in DOMAIN ops
    PROVE  /\ ops[n].kind \in OpKinds
           /\ ops[n].sources \in Seq(ModesOf(ops)) /\ ops[n].sinks \in Seq(ModesOf(ops))
           /\ ops[n].kind = "EPPS" => Len(ops[n].sources) = 0 /\ Len(ops[n].sinks) = 2
           /\ ops[n].kind = "Single" => Len(ops[n].sources) = 1 /\ Len(ops[n].sinks) = 1
           /\ ops[n].kind = "DualUnivariate" => Len(ops[n].sources) = 1 /\ Len(ops[n].sinks) = 2
           /\ ops[n].kind = "SPD" => Len(ops[n].sources) = 1 /\ Len(ops[n].sinks) = 0
           /\ ops[n].kind = "DualBivariate" => /\ Len(ops[n].sources) = 2 /\ Len(ops[n].sinks) = 4
                                               /\ ops[n].sources[1] # ops[n].sources[2]
PROOF
  <1>1. DOMAIN Arity = OpKinds
    BY DEF Arity, OpKinds, PlainKinds
  <1>2. ops[n] \in [kind : DOMAIN Arity, sources : Seq(ModesOf(ops)), sinks : Seq(ModesOf(ops))]
    <2>1. PICK M, A : M = ModesOf(ops) /\ A = DOMAIN Arity
      OBVIOUS
    <2>2. PICK S : S = [kind : A, sources : Seq(M), sinks : Seq(M)]
      OBVIOUS
    <2>3. ops \in Seq(S)
      BY <2>1, <2>2 DEF Shaped
    <2>4. n \in 1 .. Len(ops)
      BY <2>3, LenProperties
    <2>5. ops[n] \in S
      BY <2>3, <2>4, ElementOfSeq
    <2> QED BY <2>1, <2>2, <2>5
  <1>3. <<Len(ops[n].sources), Len(ops[n].sinks)>> = Arity[ops[n].kind]
    BY DEF Shaped
  <1>4. ops[n].kind = "DualBivariate" => ops[n].sources[1] # ops[n].sources[2]
    BY DEF Shaped
  <1>a. PICK k, l, m : k = ops[n].kind /\ l = Len(ops[n].sources) /\ m = Len(ops[n].sinks)
    OBVIOUS
  <1>b. <<l, m>> = Arity[k]
    BY <1>3, <1>a
  <1>c. /\ Arity["EPPS"] = <<0, 2>> /\ Arity["Single"] = <<1, 1>> /\ Arity["DualUnivariate"] = <<1, 2>>
        /\ Arity["DualBivariate"] = <<2, 4>> /\ Arity["SPD"] = <<1, 0>>
    BY DEF Arity
  <1>5. k = "EPPS" => l = 0 /\ m = 2
    BY <1>b, <1>c
  <1>6. k = "Single" => l = 1 /\ m = 1
    BY <1>b, <1>c
  <1>7. k = "DualUnivariate" => l = 1 /\ m = 2
    BY <1>b, <1>c
  <1>8. k = "SPD" => l = 1 /\ m = 0
    BY <1>b, <1>c
  <1>9. k = "DualBivariate" => l = 2 /\ m = 4
    BY <1>b, <1>c
  <1> QED BY <1>1, <1>2, <1>a, <1>4, <1>5, <1>6, <1>7, <1>8, <1>9

\* The sources of an operator are modes.
LEMMA SourcesAreModes ==
    ASSUME NEW ops, NEW n \in DOMAIN ops
    PROVE  ToSet(ops[n].sources) \subseteq ModesOf(ops) /\ ToSet(ops[n].sinks) \subseteq ModesOf(ops)
  BY DEF ModesOf

LEMMA PlainEntry ==
    ASSUME NEW op, op.kind \in PlainKinds
    PROVE  EntriesOf(op) = {Entry(op.sources[1], op.sinks)}
  BY DEF EntriesOf, PlainKinds

LEMMA PairEntries ==
    ASSUME NEW op, op.kind = "DualBivariate", NEW M, op.sources \in Seq(M), op.sinks \in Seq(M),
           Len(op.sources) = 2, Len(op.sinks) = 4, op.sources[1] # op.sources[2]
    PROVE  /\ Len(BivariateEntries(op)) = 2 /\ DOMAIN BivariateEntries(op) = 1 .. 2
           /\ BivariateEntries(op) \in Seq(EntriesOf(op))
           /\ \A i \in 1 .. 2 : /\ BivariateEntries(op)[i].source = op.sources[i]
                                /\ BivariateEntries(op)[i].sinks \in Seq(M)
                                /\ Len(BivariateEntries(op)[i].sinks) = 2
           /\ EntriesOf(op) = {BivariateEntries(op)[1], BivariateEntries(op)[2]}
           /\ SourcesIn(BivariateEntries(op)) = ToSet(op.sources)
           /\ ToSet(op.sources) = {op.sources[1], op.sources[2]}
PROOF
  <1>1. PICK first, second : /\ first = Entry(op.sources[1], SubSeq(op.sinks, 1, 2))
                             /\ second = Entry(op.sources[2], SubSeq(op.sinks, 3, 4))
    OBVIOUS
  <1>2. PICK b : b = <<first, second>>
    OBVIOUS
  <1>3. BivariateEntries(op) = b
    BY <1>1, <1>2 DEF BivariateEntries
  <1>4. Len(b) = 2 /\ DOMAIN b = 1 .. 2 /\ b[1] = first /\ b[2] = second
    BY <1>2
  <1>5. ToSet(b) = {first, second}
    BY <1>4 DEF ToSet
  <1>6. EntriesOf(op) = {first, second}
    BY <1>3, <1>5 DEF EntriesOf
  <1>7. b \in Seq(EntriesOf(op))
    BY <1>2, <1>6
  <1>8. first.source = op.sources[1] /\ second.source = op.sources[2]
    BY <1>1 DEF Entry
  <1>9. /\ first.sinks = SubSeq(op.sinks, 1, 2) /\ second.sinks = SubSeq(op.sinks, 3, 4)
    BY <1>1 DEF Entry
  <1>10. \A i \in 1 .. 4 : op.sinks[i] \in M
    BY ElementOfSeq
  <1>11. first.sinks \in Seq(M) /\ Len(first.sinks) = 2
    <2>1. \A i \in 1 .. 2 : op.sinks[i] \in M
      BY <1>10
    <2>2. SubSeq(op.sinks, 1, 2) \in Seq(M) /\ Len(SubSeq(op.sinks, 1, 2)) = 2 - 1 + 1
      BY <2>1, SubSeqProperties
    <2> QED BY <1>9, <2>2
  <1>12. second.sinks \in Seq(M) /\ Len(second.sinks) = 2
    <2>1. \A i \in 3 .. 4 : op.sinks[i] \in M
      BY <1>10
    <2>2. SubSeq(op.sinks, 3, 4) \in Seq(M) /\ Len(SubSeq(op.sinks, 3, 4)) = 4 - 3 + 1
      BY <2>1, SubSeqProperties
    <2> QED BY <1>9, <2>2
  <1>13. DOMAIN op.sources = 1 .. 2
    BY LenProperties
  <1>14. ToSet(op.sources) = {op.sources[1], op.sources[2]}
    BY <1>13 DEF ToSet
  <1>15. SourcesIn(b) = {op.sources[1], op.sources[2]}
    BY <1>4, <1>8 DEF SourcesIn
  <1>16. \A i \in 1 .. 2 : i = 1 \/ i = 2
    OBVIOUS
  <1>17. \A i \in 1 .. 2 : b[i].source = op.sources[i] /\ b[i].sinks \in Seq(M) /\ Len(b[i].sinks) = 2
    BY <1>4, <1>8, <1>11, <1>12, <1>16
  <1> QED BY <1>3, <1>4, <1>6, <1>7, <1>14, <1>15, <1>17
LEMMA EntryShape ==
    ASSUME NEW ops, Shaped(ops), NEW n \in DOMAIN ops, NEW e \in EntriesOf(ops[n])
    PROVE  /\ ops[n].kind \in PlainKinds \cup {"DualBivariate"}
           /\ e.source \in ToSet(ops[n].sources) /\ e.source \in ModesOf(ops)
           /\ e.sinks \in Seq(ModesOf(ops))
           /\ ops[n].kind = "Single" => Len(e.sinks) = 1
           /\ ops[n].kind = "SPD" => Len(e.sinks) = 0
           /\ ops[n].kind \in {"DualUnivariate", "DualBivariate"} => Len(e.sinks) = 2
PROOF
  <1>1. PICK op, M : op = ops[n] /\ M = ModesOf(ops)
    OBVIOUS
  <1>2. /\ op.kind \in OpKinds /\ op.sources \in Seq(M) /\ op.sinks \in Seq(M)
        /\ op.kind = "Single" => Len(op.sources) = 1 /\ Len(op.sinks) = 1
        /\ op.kind = "DualUnivariate" => Len(op.sources) = 1 /\ Len(op.sinks) = 2
        /\ op.kind = "SPD" => Len(op.sources) = 1 /\ Len(op.sinks) = 0
        /\ op.kind = "DualBivariate" => /\ Len(op.sources) = 2 /\ Len(op.sinks) = 4
                                        /\ op.sources[1] # op.sources[2]
    BY <1>1, OperatorShape
  <1>3. ToSet(op.sources) \subseteq M
    BY <1>1, SourcesAreModes
  <1>4. e \in EntriesOf(op)
    BY <1>1
  <1>5. CASE op.kind \in PlainKinds
    <2>1. e = Entry(op.sources[1], op.sinks)
      BY <1>4, <1>5, PlainEntry
    <2>2. e.source = op.sources[1] /\ e.sinks = op.sinks
      BY <2>1 DEF Entry
    <2>3. DOMAIN op.sources = 1 .. 1
      BY <1>2, <1>5, LenProperties DEF PlainKinds
    <2>4. op.sources[1] \in ToSet(op.sources)
      BY <2>3 DEF ToSet
    <2> QED BY <1>1, <1>2, <1>3, <1>5, <2>2, <2>4 DEF PlainKinds
  <1>6. CASE op.kind = "DualBivariate"
    <2>1. PICK b : b = BivariateEntries(op)
      OBVIOUS
    <2>2. /\ \A i \in 1 .. 2 : /\ b[i].source = op.sources[i]
                               /\ b[i].sinks \in Seq(M) /\ Len(b[i].sinks) = 2
          /\ EntriesOf(op) = {b[1], b[2]}
          /\ ToSet(op.sources) = {op.sources[1], op.sources[2]}
      BY <1>2, <1>6, <2>1, PairEntries
    <2>3. PICK i \in 1 .. 2 : e = b[i]
      BY <1>4, <2>2
    <2>4. e.source \in ToSet(op.sources) /\ e.sinks \in Seq(M) /\ Len(e.sinks) = 2
      BY <2>2, <2>3
    <2> QED BY <1>1, <1>3, <1>6, <2>4 DEF PlainKinds
  <1>7. CASE op.kind = "EPPS"
    BY <1>4, <1>7 DEF EntriesOf
  <1> QED BY <1>2, <1>5, <1>6, <1>7 DEF OpKinds

LEMMA EntryOfSource ==
    ASSUME NEW ops, Shaped(ops), NEW n \in DOMAIN ops, ops[n].kind # "EPPS",
           NEW m \in ToSet(ops[n].sources)
    PROVE  \E e \in EntriesOf(ops[n]) : e.source = m
PROOF
  <1>1. PICK op, M : op = ops[n] /\ M = ModesOf(ops)
    OBVIOUS
  <1>2. /\ op.kind \in OpKinds /\ op.sources \in Seq(M) /\ op.sinks \in Seq(M)
        /\ op.kind = "Single" => Len(op.sources) = 1 /\ Len(op.sinks) = 1
        /\ op.kind = "DualUnivariate" => Len(op.sources) = 1 /\ Len(op.sinks) = 2
        /\ op.kind = "SPD" => Len(op.sources) = 1 /\ Len(op.sinks) = 0
        /\ op.kind = "DualBivariate" => /\ Len(op.sources) = 2 /\ Len(op.sinks) = 4
                                        /\ op.sources[1] # op.sources[2]
    BY <1>1, OperatorShape
  <1>3. m \in ToSet(op.sources)
    BY <1>1
  <1>4. CASE op.kind \in PlainKinds
    <2>1. DOMAIN op.sources = 1 .. 1
      BY <1>2, <1>4, LenProperties DEF PlainKinds
    <2>2. m = op.sources[1]
      BY <1>3, <2>1 DEF ToSet
    <2>3. Entry(op.sources[1], op.sinks) \in EntriesOf(op)
      BY <1>4, PlainEntry
    <2>4. Entry(op.sources[1], op.sinks).source = m
      BY <2>2 DEF Entry
    <2> QED BY <1>1, <2>3, <2>4
  <1>5. CASE op.kind = "DualBivariate"
    <2>1. PICK b : b = BivariateEntries(op)
      OBVIOUS
    <2>2. /\ \A i \in 1 .. 2 : b[i].source = op.sources[i]
          /\ EntriesOf(op) = {b[1], b[2]}
          /\ ToSet(op.sources) = {op.sources[1], op.sources[2]}
      BY <1>2, <1>5, <2>1, PairEntries
    <2>3. PICK i \in 1 .. 2 : m = op.sources[i]
      BY <1>3, <2>2
    <2> QED BY <1>1, <2>2, <2>3
  <1> QED BY <1>1, <1>2, <1>4, <1>5 DEF OpKinds

-----------------------------------------------------------------------------
(* MultiModeMap::add                                                       *)

Distinct(entries) ==
    \A i, j \in DOMAIN entries : entries[i].source = entries[j].source => i = j

LEMMA AddedIs ==
    ASSUME NEW E, NEW s \in Seq(E), NEW x \in E
    PROVE  /\ Added(s, x) \in Seq(E)
           /\ SourcesIn(Added(s, x)) = SourcesIn(s) \cup {x.source}
           /\ ToSet(Added(s, x)) \subseteq ToSet(s) \cup {x}
           /\ Distinct(s) => Distinct(Added(s, x))
PROOF
  <1>1. CASE \E i \in DOMAIN s : s[i].source = x.source
    <2>1. Added(s, x) = s
      BY <1>1 DEF Added
    <2>2. x.source \in SourcesIn(s)
      BY <1>1 DEF SourcesIn
    <2> QED BY <2>1, <2>2
  <1>2. CASE ~ \E i \in DOMAIN s : s[i].source = x.source
    <2>1. Added(s, x) = Append(s, x)
      BY <1>2 DEF Added
    <2>2. PICK r, n : r = Append(s, x) /\ n = Len(s)
      OBVIOUS
    <2>3. n \in Nat /\ DOMAIN s = 1 .. n
      BY <2>2, LenProperties
    <2>4. /\ r \in Seq(E) /\ Len(r) = n + 1
          /\ \A i \in 1 .. n : r[i] = s[i]
          /\ r[n + 1] = x
      BY <2>2, AppendProperties
    <2>5. DOMAIN r = 1 .. n + 1
      BY <2>4, LenProperties
    <2>6. /\ \A i \in DOMAIN r : i \in DOMAIN s \/ i = n + 1
          /\ \A i \in DOMAIN s : i \in DOMAIN r
          /\ n + 1 \in DOMAIN r
      BY <2>3, <2>5
    <2>7. \A i \in DOMAIN s : r[i] = s[i]
      BY <2>3, <2>4
    <2> HIDE <2>5, <2>3
    <2>8. SourcesIn(r) = SourcesIn(s) \cup {x.source}
      BY <2>4, <2>6, <2>7 DEF SourcesIn
    <2>9. ToSet(r) \subseteq ToSet(s) \cup {x}
      BY <2>4, <2>6, <2>7 DEF ToSet
    <2>10. Distinct(s) => Distinct(r)
      BY <1>2, <2>4, <2>6, <2>7 DEF Distinct
    <2> QED BY <2>1, <2>2, <2>4, <2>8, <2>9, <2>10
  <1> QED BY <1>1, <1>2

Absorbing(entries, more, n, a) ==
    a = [i \in 0 .. n |-> IF i = 0 THEN entries ELSE Added(a[i - 1], more[i])]

LEMMA AbsorbedSteps ==
    ASSUME NEW E, NEW entries \in Seq(E), NEW more \in Seq(E), NEW n, n = Len(more)
    PROVE  \E a : Absorbing(entries, more, n, a) /\ a[n] = Absorbed(entries, more)
PROOF
  <1>1. n \in Nat /\ \A i \in 1 .. n : more[i] \in E
    BY LenProperties, ElementOfSeq
  <1>2. PICK S : S = Seq(E)
    OBVIOUS
  <1>3. PICK st : st = [i \in 1 .. n |-> [s \in S |-> Added(s, more[i])]]
    OBVIOUS
  <1>4. \A i \in 1 .. n : \A s \in S : Added(s, more[i]) \in S
    BY <1>1, <1>2, AddedIs
  <1>5. st \in [1 .. n -> [S -> S]] /\ \A i \in 1 .. n : \A s \in S : st[i][s] = Added(s, more[i])
    BY <1>3, <1>4
  <1>6. Steps(n, S, entries, st)
    BY <1>1, <1>2, <1>5 DEF Steps
  <1>7. PICK f : Iteration(n, S, entries, st, f)
    BY <1>6, Iterates
  <1>8. f = [i \in 0 .. n |-> IF i = 0 THEN entries ELSE Added(f[i - 1], more[i])]
    <2>1. f \in [0 .. n -> S] /\ f[0] = entries /\ \A i \in 1 .. n : f[i] = st[i][f[i - 1]]
      BY <1>7 DEF Iteration
    <2>2. \A i \in 1 .. n : i - 1 \in 0 .. n
      BY <1>1
    <2>3. \A i \in 1 .. n : f[i] = Added(f[i - 1], more[i])
      BY <1>5, <2>1, <2>2
    <2>4. \A i \in 0 .. n : i # 0 => i \in 1 .. n
      BY <1>1
    <2> QED BY <2>1, <2>3, <2>4
  <1>9. PICK a : a = CHOOSE g : g = [i \in 0 .. n |-> IF i = 0 THEN entries ELSE Added(g[i - 1], more[i])]
    OBVIOUS
  <1>10. Absorbing(entries, more, n, a)
    BY <1>8, <1>9 DEF Absorbing
  <1>11. a[n] = Absorbed(entries, more)
    BY <1>9 DEF Absorbed
  <1> QED BY <1>10, <1>11

LEMMA AbsorbedIs ==
    ASSUME NEW E, NEW entries \in Seq(E), NEW more \in Seq(E)
    PROVE  /\ Absorbed(entries, more) \in Seq(E)
           /\ SourcesIn(Absorbed(entries, more)) = SourcesIn(entries) \cup SourcesIn(more)
           /\ ToSet(Absorbed(entries, more)) \subseteq ToSet(entries) \cup ToSet(more)
           /\ Distinct(entries) => Distinct(Absorbed(entries, more))
PROOF
  <1>1. PICK n : n = Len(more)
    OBVIOUS
  <1>2. n \in Nat /\ DOMAIN more = 1 .. n /\ \A i \in 1 .. n : more[i] \in E
    BY <1>1, LenProperties, ElementOfSeq
  <1>3. PICK a : Absorbing(entries, more, n, a) /\ a[n] = Absorbed(entries, more)
    BY <1>1, AbsorbedSteps
  <1>4. a[0] = entries /\ \A i \in 1 .. n : a[i] = Added(a[i - 1], more[i])
    <2>1. 0 \in 0 .. n /\ \A i \in 1 .. n : i \in 0 .. n /\ i # 0
      BY <1>2
    <2>2. \A i \in 0 .. n : a[i] = IF i = 0 THEN entries ELSE Added(a[i - 1], more[i])
      BY <1>3 DEF Absorbing
    <2> QED BY <2>1, <2>2
  <1> DEFINE P == {i \in 0 .. n :
                     /\ a[i] \in Seq(E)
                     /\ SourcesIn(a[i]) = SourcesIn(entries) \cup {more[j].source : j \in 1 .. i}
                     /\ ToSet(a[i]) \subseteq ToSet(entries) \cup {more[j] : j \in 1 .. i}
                     /\ Distinct(entries) => Distinct(a[i])}
  <1>5. 0 \in P
    BY <1>2, <1>4
  <1>6. ASSUME NEW i \in 1 .. n, i - 1 \in P
        PROVE  i \in P
    <2>1. PICK b, x, c : b = a[i - 1] /\ x = more[i] /\ c = a[i]
      OBVIOUS
    <2>2. /\ b \in Seq(E) /\ x \in E /\ c = Added(b, x)
          /\ SourcesIn(b) = SourcesIn(entries) \cup {more[j].source : j \in 1 .. i - 1}
          /\ ToSet(b) \subseteq ToSet(entries) \cup {more[j] : j \in 1 .. i - 1}
          /\ Distinct(entries) => Distinct(b)
      BY <1>2, <1>4, <1>6, <2>1
    <2>3. /\ c \in Seq(E) /\ SourcesIn(c) = SourcesIn(b) \cup {x.source}
          /\ ToSet(c) \subseteq ToSet(b) \cup {x} /\ (Distinct(b) => Distinct(c))
      BY <2>2, AddedIs
    <2>4. 1 .. i = (1 .. i - 1) \cup {i}
      BY <1>2
    <2>5. {more[j].source : j \in 1 .. i} = {more[j].source : j \in 1 .. i - 1} \cup {x.source}
      BY <2>1, <2>4
    <2>6. {more[j] : j \in 1 .. i} = {more[j] : j \in 1 .. i - 1} \cup {x}
      BY <2>1, <2>4
    <2>7. i \in 0 .. n
      BY <1>2
    <2>8. SourcesIn(c) = SourcesIn(entries) \cup {more[j].source : j \in 1 .. i}
      BY <2>2, <2>3, <2>5
    <2>9. ToSet(c) \subseteq ToSet(entries) \cup {more[j] : j \in 1 .. i}
      BY <2>2, <2>3, <2>6
    <2> QED BY <2>1, <2>2, <2>3, <2>7, <2>8, <2>9
  <1> HIDE DEF P
  <1>7. n \in P
    <2>1. n \in 0 .. n
      BY <1>2
    <2> QED BY <1>2, <1>5, <1>6, <2>1, UpTo
  <1>8. SourcesIn(more) = {more[j].source : j \in 1 .. n}
    BY <1>2 DEF SourcesIn
  <1>9. ToSet(more) = {more[j] : j \in 1 .. n}
    BY <1>2 DEF ToSet
  <1> QED BY <1>3, <1>7, <1>8, <1>9 DEF P
-----------------------------------------------------------------------------
(* The structure of the cells.  ops, p, c and k are the operators, the     *)
(* position, the cells and the consumers of a state; R and D as above.     *)

CellKinds    == Grouping \cup PlainKinds \cup {"Moved"}
CellSet(ops) == [kind : CellKinds, entries : Seq(Elements(ops)),
                 photons : Seq(Photon \cup {"None"}), to : Nat]

Typed(ops, p, c, k) ==
    /\ ops \in Islands /\ p \in 1 .. Len(ops) + 1
    /\ c \in Seq(CellSet(ops)) /\ k \in [ModesOf(ops) -> 0 .. Len(c)]

\* What a cell holds comes from operators that were registered.
KindOf(kind)      == IF kind \in Grouping THEN "DualBivariate" ELSE kind
Comes(ops, p, cell) ==
    \A e \in ToSet(cell.entries) : \E n \in 1 .. p - 1 : e \in EntriesOf(ops[n]) /\ ops[n].kind = KindOf(cell.kind)
Fit(ops, p, cell) ==
    /\ Comes(ops, p, cell)
    /\ Distinct(cell.entries)
    /\ cell.kind \in PlainKinds => Len(cell.entries) = 1
    /\ DOMAIN cell.photons = DOMAIN cell.entries
    /\ cell.kind # "Moved" => cell.to = 0

\* A mode that has a consumer leads to the cell it is a source of, and to no other.
LedTo(c, k, R)   == \A m \in DOMAIN k : k[m] # 0 => k[m] \in DOMAIN c /\ m \in SourcesIn(c[R[k[m]]].entries)
LedFrom(c, k, R) ==
    \A h \in DOMAIN c : \A m \in SourcesIn(c[h].entries) : m \in DOMAIN k /\ k[m] # 0 /\ R[k[m]] = h
Known(ops, p, k) ==
    \A n \in 1 .. p - 1 : ops[n].kind # "EPPS" => \A m \in ToSet(ops[n].sources) : k[m] # 0

Struct(ops, p, c, k, R, D) ==
    /\ Typed(ops, p, c, k)
    /\ RootedIn(c, R, D)
    /\ \A h \in DOMAIN c : Fit(ops, p, c[h])
    /\ LedTo(c, k, R) /\ LedFrom(c, k, R)
    /\ Known(ops, p, k)

LEMMA StructTypes ==
    ASSUME NEW ops, NEW p, NEW c, NEW k, NEW R, NEW D, Struct(ops, p, c, k, R, D)
    PROVE  /\ ops \in Islands /\ Shaped(ops) /\ OneWayOn(ops) /\ OneWayHere(ops)
           /\ Len(ops) \in Nat /\ DOMAIN ops = 1 .. Len(ops) /\ p \in 1 .. Len(ops) + 1 /\ p \in Nat
           /\ c \in Seq(CellSet(ops)) /\ Len(c) \in Nat /\ DOMAIN c = 1 .. Len(c)
           /\ \A h \in DOMAIN c : c[h] \in CellSet(ops)
           /\ k \in [ModesOf(ops) -> 0 .. Len(c)]
           /\ \A h \in DOMAIN c : R[h] \in DOMAIN c
PROOF
  <1>1. ops \in Islands /\ p \in 1 .. Len(ops) + 1 /\ c \in Seq(CellSet(ops)) /\ k \in [ModesOf(ops) -> 0 .. Len(c)]
    BY DEF Struct, Typed
  <1>2. Shaped(ops) /\ OneWayOn(ops) /\ OneWayHere(ops)
    BY <1>1, IslandAssumption
  <1>3. Len(ops) \in Nat /\ DOMAIN ops = 1 .. Len(ops)
    <2>1. PICK S : ops \in Seq(S)
      BY <1>2 DEF Shaped
    <2> QED BY <2>1, LenProperties
  <1>4. PICK S : S = CellSet(ops)
    OBVIOUS
  <1>5. Len(c) \in Nat /\ DOMAIN c = 1 .. Len(c) /\ \A h \in 1 .. Len(c) : c[h] \in S
    BY <1>1, <1>4, LenProperties, ElementOfSeq
  <1>6. \A h \in DOMAIN c : R[h] \in DOMAIN c
    BY DEF Struct, RootedIn
  <1> QED BY <1>1, <1>2, <1>3, <1>4, <1>5, <1>6

LEMMA SourcesOfSome ==
    ASSUME NEW entries, NEW m
    PROVE  m \in SourcesIn(entries) <=> \E e \in ToSet(entries) : e.source = m
  BY DEF SourcesIn, ToSet

LEMMA OneOp ==
    ASSUME NEW ops, OneWayOn(ops), NEW i \in DOMAIN ops, NEW j \in DOMAIN ops,
           NEW e \in EntriesOf(ops[i]), NEW f \in EntriesOf(ops[j]), e.source = f.source
    PROVE  e = f /\ (i # j => ops[i].kind = "DualBivariate" /\ ops[j].kind = "DualBivariate")
PROOF
  <1>1. e = f /\ (i # j => {ops[i].kind, ops[j].kind} = {"DualBivariate"})
    BY DEF OneWayOn
  <1>2. \A a, b : {a, b} = {"DualBivariate"} => a = "DualBivariate" /\ b = "DualBivariate"
    OBVIOUS
  <1> QED BY <1>1, <1>2

\* A source that is known before its operator belongs to a group.
LEMMA MetBefore ==
    ASSUME NEW ops, NEW p, NEW c, NEW k, NEW R, NEW D, Struct(ops, p, c, k, R, D),
           p \in DOMAIN ops, NEW m \in ToSet(ops[p].sources), k[m] # 0, ops[p].kind # "EPPS"
    PROVE  /\ ops[p].kind = "DualBivariate"
           /\ k[m] \in DOMAIN c /\ R[k[m]] \in DOMAIN c /\ c[R[k[m]]].kind \in Grouping
           /\ m \in SourcesIn(c[R[k[m]]].entries)
PROOF
  <1>1. /\ Shaped(ops) /\ OneWayOn(ops) /\ Len(ops) \in Nat /\ DOMAIN ops = 1 .. Len(ops) /\ p \in Nat
        /\ \A h \in DOMAIN c : c[h] \in CellSet(ops)
        /\ k \in [ModesOf(ops) -> 0 .. Len(c)]
        /\ \A h \in DOMAIN c : R[h] \in DOMAIN c
    BY StructTypes
  <1>2. m \in DOMAIN k
    BY <1>1, SourcesAreModes
  <1>3. k[m] \in DOMAIN c /\ m \in SourcesIn(c[R[k[m]]].entries)
    BY <1>2 DEF Struct, LedTo
  <1>4. PICK h \in DOMAIN c : h = R[k[m]]
    BY <1>1, <1>3
  <1>5. PICK e \in ToSet(c[h].entries) : e.source = m
    BY <1>3, <1>4, SourcesOfSome
  <1>6. PICK n \in 1 .. p - 1 : e \in EntriesOf(ops[n]) /\ ops[n].kind = KindOf(c[h].kind)
    <2>1. Fit(ops, p, c[h])
      BY DEF Struct
    <2> QED BY <1>5, <2>1 DEF Fit, Comes
  <1>7. PICK f \in EntriesOf(ops[p]) : f.source = m
    BY <1>1, EntryOfSource
  <1>8. n \in DOMAIN ops /\ n # p
    BY <1>1
  <1>9. ops[n].kind = "DualBivariate" /\ ops[p].kind = "DualBivariate"
    BY <1>1, <1>5, <1>6, <1>7, <1>8, OneOp
  <1>10. c[h].kind \in CellKinds
    BY <1>1 DEF CellSet
  <1>11. c[h].kind \in Grouping
    BY <1>6, <1>9, <1>10 DEF KindOf, CellKinds, PlainKinds
  <1> QED BY <1>3, <1>4, <1>9, <1>11

LEMMA ComesLater ==
    ASSUME NEW ops, NEW p \in Nat, NEW cell, Comes(ops, p, cell)
    PROVE  Comes(ops, p + 1, cell)
PROOF
  <1>1. \A n \in 1 .. p - 1 : n \in 1 .. (p + 1) - 1
    OBVIOUS
  <1> QED BY <1>1 DEF Comes

LEMMA FitLater ==
    ASSUME NEW ops, NEW p \in Nat, NEW cell, Fit(ops, p, cell)
    PROVE  Fit(ops, p + 1, cell)
  BY ComesLater DEF Fit
\* A new cell, for an operator whose sources no operator had.
Fresh(ops, p, k, new) ==
    /\ p \in DOMAIN ops /\ new \in CellSet(ops) /\ new.kind # "Moved"
    /\ Fit(ops, p + 1, new)
    /\ SourcesIn(new.entries) = ToSet(ops[p].sources)
    /\ \A m \in ToSet(ops[p].sources) : k[m] = 0

Adding(ops, p, c, k, new, d, l) ==
    /\ d = Append(c, new)
    /\ l = [m \in DOMAIN k |-> IF m \in ToSet(ops[p].sources) THEN Len(c) + 1 ELSE k[m]]

LEMMA StructAdd ==
    ASSUME NEW ops, NEW p, NEW c, NEW k, NEW R, NEW D, Struct(ops, p, c, k, R, D),
           NEW new, Fresh(ops, p, k, new), NEW d, NEW l, Adding(ops, p, c, k, new, d, l)
    PROVE  \E S, E : Struct(ops, p + 1, d, l, S, E)
PROOF
  <1>a. PICK n : n = Len(c)
    OBVIOUS
  <1>b. d = Append(c, new) /\ l = [m \in DOMAIN k |-> IF m \in ToSet(ops[p].sources) THEN n + 1 ELSE k[m]]
    BY <1>a DEF Adding
  <1>1. /\ ops \in Islands /\ Len(ops) \in Nat /\ DOMAIN ops = 1 .. Len(ops) /\ p \in Nat
        /\ c \in Seq(CellSet(ops)) /\ n \in Nat /\ DOMAIN c = 1 .. n
        /\ k \in [ModesOf(ops) -> 0 .. n]
        /\ \A h \in DOMAIN c : R[h] \in DOMAIN c
    BY <1>a, StructTypes
  <1>2. p \in 1 .. Len(ops) /\ new \in CellSet(ops) /\ new.kind # "Moved" /\ Fit(ops, p + 1, new)
    BY <1>1 DEF Fresh
  <1>3. /\ d \in Seq(CellSet(ops)) /\ Len(d) = n + 1
        /\ \A h \in 1 .. n : d[h] = c[h]
        /\ d[n + 1] = new
    <2>1. PICK S : S = CellSet(ops)
      OBVIOUS
    <2> QED BY <1>a, <1>b, <1>1, <1>2, <2>1, AppendProperties
  <1>4. DOMAIN d = 1 .. n + 1
    BY <1>3, LenProperties
  <1>5. PICK N : N = n + 1
    OBVIOUS
  <1>6. /\ N \in DOMAIN d /\ N \notin DOMAIN c /\ d[N] = new
        /\ \A h \in DOMAIN c : h \in DOMAIN d /\ d[h] = c[h] /\ h # N /\ h # 0
        /\ \A h \in DOMAIN d : h \in DOMAIN c \/ h = N
        /\ N # 0
    BY <1>1, <1>3, <1>4, <1>5
  <1>7. PICK S, E : /\ S = [h \in DOMAIN d |-> IF h = N THEN N ELSE R[h]]
                    /\ E = [h \in DOMAIN d |-> IF h = N THEN 0 ELSE D[h]]
    OBVIOUS
  <1>8. Typed(ops, p + 1, d, l)
    <2>1. p + 1 \in 1 .. Len(ops) + 1
      BY <1>1, <1>2
    <2>2. l \in [ModesOf(ops) -> 0 .. N]
      <3>1. \A v \in 0 .. n : v \in 0 .. N
        BY <1>1, <1>5
      <3>2. N \in 0 .. N
        BY <1>1, <1>5
      <3> QED BY <1>b, <1>1, <1>5, <3>1, <3>2
    <2> QED BY <1>1, <1>3, <1>5, <2>1, <2>2 DEF Typed
  <1>9. RootedIn(d, S, E)
    <2>1. RootedIn(c, R, D)
      BY DEF Struct
    <2>2. S \in [DOMAIN d -> DOMAIN d] /\ E \in [DOMAIN d -> Nat]
      BY <1>6, <1>7, <2>1 DEF RootedIn
    <2>3. ASSUME NEW h \in DOMAIN d
          PROVE  /\ d[S[h]].kind # "Moved"
                 /\ IF d[h].kind = "Moved" THEN /\ d[h].to \in DOMAIN d
                                                /\ S[h] = S[d[h].to] /\ E[d[h].to] < E[h]
                    ELSE S[h] = h
      <3>1. CASE h = N
        BY <1>2, <1>6, <1>7, <3>1
      <3>2. CASE h \in DOMAIN c
        <4>1. S[h] = R[h] /\ E[h] = D[h] /\ R[h] \in DOMAIN c /\ d[R[h]] = c[R[h]] /\ d[h] = c[h]
          BY <1>1, <1>6, <1>7, <3>2
        <4>2. CASE c[h].kind = "Moved"
          <5>1. c[h].to \in DOMAIN c /\ R[h] = R[c[h].to] /\ D[c[h].to] < D[h]
            BY <2>1, <3>2, <4>2 DEF RootedIn
          <5>2. S[c[h].to] = R[c[h].to] /\ E[c[h].to] = D[c[h].to] /\ c[h].to \in DOMAIN d
            BY <1>6, <1>7, <5>1
          <5> QED BY <2>1, <3>2, <4>1, <4>2, <5>1, <5>2 DEF RootedIn
        <4> QED BY <2>1, <3>2, <4>1, <4>2 DEF RootedIn
      <3> QED BY <1>6, <3>1, <3>2
    <2> QED BY <2>2, <2>3 DEF RootedIn
  <1>10. \A h \in DOMAIN d : Fit(ops, p + 1, d[h])
    <2>1. \A h \in DOMAIN c : Fit(ops, p + 1, c[h])
      BY <1>1, FitLater DEF Struct
    <2> QED BY <1>2, <1>6, <2>1
  <1>11. /\ DOMAIN l = DOMAIN k
         /\ \A m \in DOMAIN k : m \in ToSet(ops[p].sources) => l[m] = N /\ k[m] = 0
         /\ \A m \in DOMAIN k : m \notin ToSet(ops[p].sources) => l[m] = k[m]
         /\ SourcesIn(new.entries) = ToSet(ops[p].sources)
         /\ ToSet(ops[p].sources) \subseteq DOMAIN k
    BY <1>b, <1>1, <1>2, <1>5, SourcesAreModes DEF Fresh
  <1>12. LedTo(d, l, S)
    <2> SUFFICES ASSUME NEW m \in DOMAIN l, l[m] # 0
                 PROVE  l[m] \in DOMAIN d /\ m \in SourcesIn(d[S[l[m]]].entries)
      BY DEF LedTo
    <2>1. CASE m \in ToSet(ops[p].sources)
      BY <1>6, <1>7, <1>11, <2>1
    <2>2. CASE m \notin ToSet(ops[p].sources)
      <3>1. l[m] = k[m] /\ m \in DOMAIN k
        BY <1>11, <2>2
      <3>2. k[m] \in DOMAIN c /\ m \in SourcesIn(c[R[k[m]]].entries)
        BY <3>1 DEF Struct, LedTo
      <3>3. S[k[m]] = R[k[m]] /\ R[k[m]] \in DOMAIN c
        BY <1>1, <1>6, <1>7, <3>2
      <3> QED BY <1>6, <3>1, <3>2, <3>3
    <2> QED BY <2>1, <2>2
  <1>13. LedFrom(d, l, S)
    <2> SUFFICES ASSUME NEW h \in DOMAIN d, NEW m \in SourcesIn(d[h].entries)
                 PROVE  m \in DOMAIN l /\ l[m] # 0 /\ S[l[m]] = h
      BY DEF LedFrom
    <2>1. CASE h = N
      BY <1>6, <1>7, <1>11, <2>1
    <2>2. CASE h \in DOMAIN c
      <3>1. m \in DOMAIN k /\ k[m] # 0 /\ R[k[m]] = h
        BY <1>6, <2>2 DEF Struct, LedFrom
      <3>2. k[m] \in DOMAIN c
        BY <3>1 DEF Struct, LedTo
      <3>3. l[m] = k[m]
        BY <1>11, <3>1
      <3> QED BY <1>6, <1>7, <1>11, <3>1, <3>2, <3>3
    <2> QED BY <1>6, <2>1, <2>2
  <1>14. Known(ops, p + 1, l)
    <2> SUFFICES ASSUME NEW i \in 1 .. (p + 1) - 1, ops[i].kind # "EPPS", NEW m \in ToSet(ops[i].sources)
                 PROVE  l[m] # 0
      BY DEF Known
    <2>1. i \in DOMAIN ops /\ (i = p \/ i \in 1 .. p - 1)
      BY <1>1, <1>2
    <2>2. m \in DOMAIN k
      BY <1>1, <2>1, SourcesAreModes
    <2>3. CASE i = p
      BY <1>6, <1>11, <2>2, <2>3
    <2>4. CASE i \in 1 .. p - 1
      <3>1. k[m] # 0
        BY <2>4 DEF Struct, Known
      <3> QED BY <1>6, <1>11, <2>2, <3>1
    <2> QED BY <2>1, <2>3, <2>4
  <1> QED BY <1>8, <1>9, <1>10, <1>12, <1>13, <1>14 DEF Struct

\* Modes a, whose cell is a group, and b, which no other cell has or the same one.
Staying(ops, p, c, k, R, a, b, here, group, d, l) ==
    /\ p \in DOMAIN ops /\ ToSet(ops[p].sources) = {a, b} /\ k[a] # 0
    /\ here = R[k[a]] /\ (k[b] = 0 \/ R[k[b]] = here)
    /\ group \in CellSet(ops) /\ group.kind \in Grouping /\ Fit(ops, p + 1, group)
    /\ SourcesIn(group.entries) = SourcesIn(c[here].entries) \cup {a, b}
    /\ d = [h \in DOMAIN c |-> IF h = here THEN group ELSE c[h]]
    /\ l = [k EXCEPT ![b] = IF @ = 0 THEN k[a] ELSE @]

LEMMA StructStay ==
    ASSUME NEW ops, NEW p, NEW c, NEW k, NEW R, NEW D, Struct(ops, p, c, k, R, D),
           NEW a, NEW b, NEW here, NEW group, NEW d, NEW l, Staying(ops, p, c, k, R, a, b, here, group, d, l)
    PROVE  Struct(ops, p + 1, d, l, R, D)
PROOF
  <1> USE DEF Staying
  <1>1. /\ ops \in Islands /\ Len(ops) \in Nat /\ DOMAIN ops = 1 .. Len(ops) /\ p \in Nat
        /\ c \in Seq(CellSet(ops)) /\ Len(c) \in Nat /\ DOMAIN c = 1 .. Len(c)
        /\ k \in [ModesOf(ops) -> 0 .. Len(c)]
        /\ \A h \in DOMAIN c : R[h] \in DOMAIN c /\ c[h] \in CellSet(ops)
    BY StructTypes
  <1>2. a \in DOMAIN k /\ b \in DOMAIN k
    BY <1>1, SourcesAreModes
  <1>3. k[a] \in DOMAIN c /\ a \in SourcesIn(c[here].entries) /\ here \in DOMAIN c
    BY <1>1, <1>2 DEF Struct, LedTo
  <1>4. RootedIn(c, R, D)
    BY DEF Struct
  <1>5. R[here] = here /\ c[here].kind # "Moved"
    BY <1>3, <1>4 DEF RootedIn
  <1>6. DOMAIN d = DOMAIN c /\ d[here] = group /\ \A h \in DOMAIN c : h # here => d[h] = c[h]
    BY <1>3
  <1>7. \A h \in DOMAIN c : d[h] \in CellSet(ops)
    BY <1>1, <1>6
  <1>8. d \in Seq(CellSet(ops)) /\ Len(d) = Len(c)
    <2>1. PICK S, n : S = CellSet(ops) /\ n = Len(c)
      OBVIOUS
    <2>2. d \in [1 .. n -> S]
      BY <1>1, <1>6, <1>7, <2>1
    <2>3. n \in Nat
      BY <1>1, <2>1
    <2> QED BY <2>1, <2>2, <2>3
  <1>9. /\ DOMAIN l = DOMAIN k /\ \A m \in DOMAIN k : m # b => l[m] = k[m]
        /\ l[b] = IF k[b] = 0 THEN k[a] ELSE k[b]
    BY <1>1, <1>2
  <1>10. R[l[b]] = here /\ l[b] \in DOMAIN c /\ l[b] # 0
    <2>1. CASE k[b] = 0
      BY <1>3, <1>9, <2>1
    <2>2. CASE k[b] # 0
      BY <1>2, <1>9, <2>2 DEF Struct, LedTo
    <2> QED BY <2>1, <2>2
  <1>11. Typed(ops, p + 1, d, l)
    <2>1. p + 1 \in 1 .. Len(ops) + 1
      BY <1>1
    <2>2. l \in [ModesOf(ops) -> 0 .. Len(d)]
      BY <1>1, <1>2, <1>3, <1>8, <1>9, <1>10
    <2> QED BY <1>1, <1>8, <2>1, <2>2 DEF Typed
  <1>12. RootedIn(d, R, D)
    <2>1. \A h \in DOMAIN d : d[h].kind = "Moved" <=> c[h].kind = "Moved"
      BY <1>5, <1>6 DEF Grouping
    <2>2. \A h \in DOMAIN d : d[h].kind = "Moved" => d[h] = c[h]
      BY <1>5, <1>6 DEF Grouping
    <2> QED BY <1>4, <1>6, <2>1, <2>2 DEF RootedIn
  <1>13. \A h \in DOMAIN d : Fit(ops, p + 1, d[h])
    <2>1. \A h \in DOMAIN c : Fit(ops, p + 1, c[h])
      BY <1>1, FitLater DEF Struct
    <2> QED BY <1>6, <2>1
  <1>14. LedTo(d, l, R)
    <2> SUFFICES ASSUME NEW m \in DOMAIN l, l[m] # 0
                 PROVE  l[m] \in DOMAIN d /\ m \in SourcesIn(d[R[l[m]]].entries)
      BY DEF LedTo
    <2>1. CASE m = b
      BY <1>6, <1>10, <2>1
    <2>2. CASE m # b
      <3>1. l[m] = k[m] /\ m \in DOMAIN k
        BY <1>9, <2>2
      <3>2. k[m] \in DOMAIN c /\ m \in SourcesIn(c[R[k[m]]].entries)
        BY <3>1 DEF Struct, LedTo
      <3> QED BY <1>1, <1>6, <3>1, <3>2
    <2> QED BY <2>1, <2>2
  <1>15. LedFrom(d, l, R)
    <2>1. \A h \in DOMAIN c : \A m \in SourcesIn(c[h].entries) : m \in DOMAIN l /\ l[m] # 0 /\ R[l[m]] = h
      <3> SUFFICES ASSUME NEW h \in DOMAIN c, NEW m \in SourcesIn(c[h].entries)
                   PROVE  m \in DOMAIN l /\ l[m] # 0 /\ R[l[m]] = h
        OBVIOUS
      <3>1. m \in DOMAIN k /\ k[m] # 0 /\ R[k[m]] = h
        BY DEF Struct, LedFrom
      <3> QED BY <1>9, <3>1
    <2>2. l[a] # 0 /\ R[l[a]] = here
      BY <1>2, <1>3, <2>1
    <2> SUFFICES ASSUME NEW h \in DOMAIN d, NEW m \in SourcesIn(d[h].entries)
                 PROVE  m \in DOMAIN l /\ l[m] # 0 /\ R[l[m]] = h
      BY DEF LedFrom
    <2>3. CASE h = here
      <3>1. m \in SourcesIn(c[here].entries) \/ m = a \/ m = b
        BY <1>6, <2>3
      <3> QED BY <1>2, <1>3, <1>9, <1>10, <2>1, <2>2, <2>3, <3>1
    <2>4. CASE h # here
      BY <1>6, <2>1, <2>4
    <2> QED BY <2>3, <2>4
  <1>16. Known(ops, p + 1, l)
    <2> SUFFICES ASSUME NEW i \in 1 .. (p + 1) - 1, ops[i].kind # "EPPS", NEW m \in ToSet(ops[i].sources)
                 PROVE  l[m] # 0
      BY DEF Known
    <2>1. i \in DOMAIN ops /\ (i = p \/ i \in 1 .. p - 1)
      BY <1>1
    <2>2. m \in DOMAIN k
      BY <1>1, <2>1, SourcesAreModes
    <2>3. k[m] # 0 \/ m = b
      BY <2>1 DEF Struct, Known
    <2> QED BY <1>9, <1>10, <2>2, <2>3
  <1> QED BY <1>11, <1>12, <1>13, <1>14, <1>15, <1>16 DEF Struct

\* The cell of b is moved into the one of a.
LEMMA StructMove ==
    ASSUME NEW ops, NEW p, NEW c, NEW k, NEW R, NEW D, Struct(ops, p, c, k, R, D), p \in DOMAIN ops,
           NEW a, NEW b, ToSet(ops[p].sources) = {a, b}, k[a] # 0, k[b] # 0,
           NEW here, here = R[k[a]], NEW there, there = R[k[b]], there # here,
           NEW group, group \in CellSet(ops), group.kind \in Grouping, Fit(ops, p + 1, group),
           SourcesIn(group.entries) = SourcesIn(c[here].entries) \cup {a, b} \cup SourcesIn(c[there].entries),
           NEW d, d = [h \in DOMAIN c |-> IF h = there THEN Moved(k[a]) ELSE IF h = here THEN group ELSE c[h]]
    PROVE  \E S, E : Struct(ops, p + 1, d, k, S, E)
PROOF
  <1>1. /\ ops \in Islands /\ Len(ops) \in Nat /\ DOMAIN ops = 1 .. Len(ops) /\ p \in Nat
        /\ c \in Seq(CellSet(ops)) /\ Len(c) \in Nat /\ DOMAIN c = 1 .. Len(c)
        /\ k \in [ModesOf(ops) -> 0 .. Len(c)]
        /\ \A h \in DOMAIN c : R[h] \in DOMAIN c /\ c[h] \in CellSet(ops)
    BY StructTypes
  <1>2. a \in DOMAIN k /\ b \in DOMAIN k
    BY <1>1, SourcesAreModes
  <1>3. k[a] \in DOMAIN c /\ a \in SourcesIn(c[here].entries) /\ here \in DOMAIN c
    BY <1>1, <1>2 DEF Struct, LedTo
  <1>4. k[b] \in DOMAIN c /\ b \in SourcesIn(c[there].entries) /\ there \in DOMAIN c
    BY <1>1, <1>2 DEF Struct, LedTo
  <1>5. RootedIn(c, R, D)
    BY DEF Struct
  <1>6. R[here] = here /\ c[here].kind # "Moved" /\ R[there] = there /\ c[there].kind # "Moved"
    BY <1>3, <1>4, <1>5 DEF RootedIn
  <1>7. /\ DOMAIN d = DOMAIN c /\ d[there] = Moved(k[a]) /\ d[here] = group
        /\ \A h \in DOMAIN c : h # here /\ h # there => d[h] = c[h]
    BY <1>3, <1>4
  <1>8. PICK q : q = Moved(k[a])
    OBVIOUS
  <1>9. /\ q.kind = "Moved" /\ q.to = k[a] /\ q.entries = <<>> /\ q.photons = <<>>
        /\ q \in CellSet(ops)
    <2>1. k[a] \in Nat
      BY <1>1, <1>3
    <2>2. [i \in DOMAIN <<>> |-> "None"] = <<>>
      OBVIOUS
    <2>3. q = [kind |-> "Moved", entries |-> <<>>, photons |-> <<>>, to |-> k[a]]
      BY <1>8, <2>2 DEF Moved, Cell
    <2>4. <<>> \in Seq(Elements(ops)) /\ <<>> \in Seq(Photon \cup {"None"})
      OBVIOUS
    <2> QED BY <2>1, <2>3, <2>4 DEF CellSet, CellKinds
  <1>10. Fit(ops, p + 1, q) /\ SourcesIn(q.entries) = {}
    <2>1. ToSet(q.entries) = {}
      BY <1>9 DEF ToSet
    <2>2. DOMAIN q.entries = {} /\ DOMAIN q.photons = {}
      BY <1>9
    <2> QED BY <1>9, <2>1, <2>2 DEF Fit, Comes, Distinct, SourcesIn, PlainKinds
  <1>11. \A h \in DOMAIN c : d[h] \in CellSet(ops)
    BY <1>1, <1>7, <1>8, <1>9
  <1>12. d \in Seq(CellSet(ops)) /\ Len(d) = Len(c)
    <2>1. PICK S, n : S = CellSet(ops) /\ n = Len(c)
      OBVIOUS
    <2>2. d \in [1 .. n -> S]
      BY <1>1, <1>7, <1>11, <2>1
    <2>3. n \in Nat
      BY <1>1, <2>1
    <2> QED BY <2>1, <2>2, <2>3
  <1>13. PICK x \in Nat : x = D[k[a]] + 1
    BY <1>3, <1>5 DEF RootedIn
  <1>14. PICK S, E : /\ S = [h \in DOMAIN c |-> IF R[h] = there THEN here ELSE R[h]]
                     /\ E = [h \in DOMAIN c |-> IF R[h] = there THEN D[h] + x ELSE D[h]]
    OBVIOUS
  <1>15. \A h \in DOMAIN c : /\ S[h] = IF R[h] = there THEN here ELSE R[h]
                             /\ E[h] = IF R[h] = there THEN D[h] + x ELSE D[h]
    BY <1>14
  <1>16. Typed(ops, p + 1, d, k)
    <2>1. p + 1 \in 1 .. Len(ops) + 1
      BY <1>1
    <2> QED BY <1>1, <1>12, <2>1 DEF Typed
  <1>17. RootedIn(d, S, E)
    <2>1. \A h \in DOMAIN c : D[h] \in Nat /\ R[h] \in DOMAIN c
      BY <1>5 DEF RootedIn
    <2>2. S \in [DOMAIN d -> DOMAIN d] /\ E \in [DOMAIN d -> Nat]
      <3>1. \A h \in DOMAIN c : D[h] + x \in Nat
        BY <2>1
      <3> QED BY <1>3, <1>7, <1>14, <2>1, <3>1
    <2>3. ASSUME NEW h \in DOMAIN c
          PROVE  /\ d[S[h]].kind # "Moved"
                 /\ IF d[h].kind = "Moved" THEN /\ d[h].to \in DOMAIN d
                                                /\ S[h] = S[d[h].to] /\ E[d[h].to] < E[h]
                    ELSE S[h] = h
      <3>1. d[S[h]].kind # "Moved"
        <4>1. CASE R[h] = there
          BY <1>7, <1>15, <4>1 DEF Grouping
        <4>2. CASE R[h] = here
          BY <1>7, <1>15, <4>2 DEF Grouping
        <4>3. CASE R[h] # there /\ R[h] # here
          BY <1>5, <1>7, <1>15, <2>1, <4>3 DEF RootedIn
        <4> QED BY <4>1, <4>2, <4>3
      <3>2. CASE h = there
        <4>1. d[h].kind = "Moved" /\ d[h].to = k[a]
          BY <1>7, <1>8, <1>9, <3>2
        <4>2. S[h] = here /\ S[k[a]] = here
          BY <1>3, <1>6, <1>15, <3>2
        <4>3. E[h] = D[h] + x /\ E[k[a]] = D[k[a]]
          BY <1>3, <1>6, <1>15, <3>2
        <4>4. D[k[a]] < D[h] + x
          <5>1. PICK u \in Nat, v \in Nat : u = D[k[a]] /\ v = D[h]
            BY <1>3, <2>1
          <5>2. x = u + 1
            BY <1>13, <5>1
          <5> QED BY <5>1, <5>2
        <4> QED BY <1>3, <1>7, <3>1, <4>1, <4>2, <4>3, <4>4
      <3>3. CASE h = here
        BY <1>6, <1>7, <1>15, <3>1, <3>3 DEF Grouping
      <3>4. CASE h # here /\ h # there
        <4>1. d[h] = c[h]
          BY <1>7, <3>4
        <4>2. CASE c[h].kind = "Moved"
          <5>1. PICK g : g = c[h].to
            OBVIOUS
          <5>2. g \in DOMAIN c /\ R[h] = R[g] /\ D[g] < D[h]
            BY <1>5, <4>2, <5>1 DEF RootedIn
          <5>3. S[h] = S[g]
            BY <1>15, <5>2
          <5>4. E[g] < E[h]
            <6>1. PICK u \in Nat, v \in Nat : u = D[g] /\ v = D[h]
              BY <2>1, <5>2
            <6>2. u < v /\ u + x < v + x
              BY <5>2, <6>1
            <6> QED BY <1>15, <5>2, <6>1, <6>2
          <5> QED BY <1>7, <3>1, <4>1, <4>2, <5>1, <5>2, <5>3, <5>4
        <4>3. CASE c[h].kind # "Moved"
          <5>1. R[h] = h
            BY <1>5, <4>3 DEF RootedIn
          <5> QED BY <1>15, <3>1, <3>4, <4>1, <4>3, <5>1
        <4> QED BY <4>2, <4>3
      <3> QED BY <3>2, <3>3, <3>4
    <2> QED BY <1>7, <2>2, <2>3 DEF RootedIn
  <1>18. \A h \in DOMAIN d : Fit(ops, p + 1, d[h])
    <2>1. \A h \in DOMAIN c : Fit(ops, p + 1, c[h])
      BY <1>1, FitLater DEF Struct
    <2> QED BY <1>7, <1>8, <1>10, <2>1
  <1>19. LedTo(d, k, S)
    <2> SUFFICES ASSUME NEW m \in DOMAIN k, k[m] # 0
                 PROVE  k[m] \in DOMAIN d /\ m \in SourcesIn(d[S[k[m]]].entries)
      BY DEF LedTo
    <2>1. k[m] \in DOMAIN c /\ m \in SourcesIn(c[R[k[m]]].entries)
      BY DEF Struct, LedTo
    <2>2. CASE R[k[m]] = there \/ R[k[m]] = here
      <3>1. S[k[m]] = here
        BY <1>15, <2>1, <2>2
      <3>2. m \in SourcesIn(group.entries)
        BY <2>1, <2>2
      <3> QED BY <1>7, <2>1, <3>1, <3>2
    <2>3. CASE R[k[m]] # there /\ R[k[m]] # here
      <3>1. S[k[m]] = R[k[m]] /\ R[k[m]] \in DOMAIN c
        BY <1>1, <1>15, <2>1, <2>3
      <3> QED BY <1>7, <2>1, <2>3, <3>1
    <2> QED BY <2>2, <2>3
  <1>20. LedFrom(d, k, S)
    <2>1. \A h \in DOMAIN c : \A m \in SourcesIn(c[h].entries) :
             m \in DOMAIN k /\ k[m] # 0 /\ k[m] \in DOMAIN c /\ R[k[m]] = h
      BY DEF Struct, LedFrom, LedTo
    <2> SUFFICES ASSUME NEW h \in DOMAIN d, NEW m \in SourcesIn(d[h].entries)
                 PROVE  m \in DOMAIN k /\ k[m] # 0 /\ S[k[m]] = h
      BY DEF LedFrom
    <2>2. CASE h = there
      BY <1>7, <1>8, <1>10, <2>2
    <2>3. CASE h = here
      <3>1. m \in SourcesIn(c[here].entries) \/ m \in SourcesIn(c[there].entries) \/ m = a \/ m = b
        BY <1>7, <2>3
      <3>2. m \in SourcesIn(c[here].entries) \/ m \in SourcesIn(c[there].entries)
        BY <1>3, <1>4, <3>1
      <3>3. m \in DOMAIN k /\ k[m] # 0 /\ k[m] \in DOMAIN c /\ (R[k[m]] = here \/ R[k[m]] = there)
        BY <1>3, <1>4, <2>1, <3>2
      <3> QED BY <1>15, <2>3, <3>3
    <2>4. CASE h # here /\ h # there
      <3>1. m \in DOMAIN k /\ k[m] # 0 /\ k[m] \in DOMAIN c /\ R[k[m]] = h
        BY <1>7, <2>1, <2>4
      <3> QED BY <1>15, <2>4, <3>1
    <2> QED BY <2>2, <2>3, <2>4
  <1>21. Known(ops, p + 1, k)
    <2> SUFFICES ASSUME NEW i \in 1 .. (p + 1) - 1, ops[i].kind # "EPPS", NEW m \in ToSet(ops[i].sources)
                 PROVE  k[m] # 0
      BY DEF Known
    <2>1. i = p \/ i \in 1 .. p - 1
      BY <1>1
    <2>2. CASE i = p
      BY <2>2
    <2>3. CASE i \in 1 .. p - 1
      BY <2>3 DEF Struct, Known
    <2> QED BY <2>1, <2>2, <2>3
  <1> QED BY <1>16, <1>17, <1>18, <1>19, <1>20, <1>21 DEF Struct
\* An operator that has no sources changes no cell.
LEMMA StructSkip ==
    ASSUME NEW ops, NEW p, NEW c, NEW k, NEW R, NEW D, Struct(ops, p, c, k, R, D),
           p \in DOMAIN ops, ops[p].kind = "EPPS"
    PROVE  Struct(ops, p + 1, c, k, R, D)
PROOF
  <1>1. /\ ops \in Islands /\ Len(ops) \in Nat /\ DOMAIN ops = 1 .. Len(ops) /\ p \in Nat
        /\ c \in Seq(CellSet(ops)) /\ k \in [ModesOf(ops) -> 0 .. Len(c)]
    BY StructTypes
  <1>2. Typed(ops, p + 1, c, k)
    <2>1. p + 1 \in 1 .. Len(ops) + 1
      BY <1>1
    <2> QED BY <1>1, <2>1 DEF Typed
  <1>3. \A h \in DOMAIN c : Fit(ops, p + 1, c[h])
    BY <1>1, FitLater DEF Struct
  <1>4. Known(ops, p + 1, k)
    <2>1. \A i \in 1 .. (p + 1) - 1 : i = p \/ i \in 1 .. p - 1
      BY <1>1
    <2> QED BY <2>1 DEF Struct, Known
  <1> QED BY <1>2, <1>3, <1>4 DEF Struct

\* Nor do the photons matter.
LEMMA PutCell ==
    ASSUME NEW S, NEW c \in Seq(S), NEW h \in DOMAIN c, NEW q \in S, NEW d, d = [c EXCEPT ![h] = q]
    PROVE  /\ d \in Seq(S) /\ Len(d) = Len(c) /\ DOMAIN d = DOMAIN c
           /\ d[h] = q /\ \A g \in DOMAIN c : g # h => d[g] = c[g]
PROOF
  <1>1. h \in 1 .. Len(c) /\ DOMAIN c = 1 .. Len(c)
    BY LenProperties
  <1>2. d \in Seq(S) /\ Len(d) = Len(c)
    BY <1>1, ExceptSeq
  <1> QED BY <1>1, <1>2

LEMMA StructPhotons ==
    ASSUME NEW ops, NEW p, NEW c, NEW k, NEW R, NEW D, Struct(ops, p, c, k, R, D),
           NEW h \in DOMAIN c, NEW photons \in Seq(Photon \cup {"None"}), DOMAIN photons = DOMAIN c[h].entries,
           NEW d, d = [c EXCEPT ![h].photons = photons]
    PROVE  /\ Struct(ops, p, d, k, R, D)
           /\ d \in Seq(CellSet(ops)) /\ Len(d) = Len(c) /\ DOMAIN d = DOMAIN c
           /\ \A g \in DOMAIN c : /\ d[g].kind = c[g].kind /\ d[g].entries = c[g].entries /\ d[g].to = c[g].to
                                 /\ d[g].photons = IF g = h THEN photons ELSE c[g].photons
PROOF
  <1>1. /\ ops \in Islands /\ Len(ops) \in Nat /\ DOMAIN ops = 1 .. Len(ops) /\ p \in 1 .. Len(ops) + 1
        /\ c \in Seq(CellSet(ops)) /\ Len(c) \in Nat /\ DOMAIN c = 1 .. Len(c)
        /\ k \in [ModesOf(ops) -> 0 .. Len(c)]
        /\ \A g \in DOMAIN c : R[g] \in DOMAIN c /\ c[g] \in CellSet(ops)
    BY StructTypes
  <1>2. PICK q : q = [c[h] EXCEPT !.photons = photons]
    OBVIOUS
  <1>3. /\ q \in CellSet(ops) /\ q.kind = c[h].kind /\ q.entries = c[h].entries
        /\ q.to = c[h].to /\ q.photons = photons
    <2>1. PICK x : x = c[h]
      OBVIOUS
    <2>2. x \in CellSet(ops) /\ q = [x EXCEPT !.photons = photons]
      BY <1>1, <1>2, <2>1
    <2>3. PICK B, C : B = Seq(Elements(ops)) /\ C = Seq(Photon \cup {"None"})
      OBVIOUS
    <2>4. x \in [kind : CellKinds, entries : B, photons : C, to : Nat]
      BY <2>2, <2>3 DEF CellSet
    <2>5. photons \in C
      BY <2>3
    <2>6. /\ q \in [kind : CellKinds, entries : B, photons : C, to : Nat]
          /\ q.kind = x.kind /\ q.entries = x.entries /\ q.to = x.to /\ q.photons = photons
      BY <2>2, <2>4, <2>5
    <2> QED BY <2>1, <2>3, <2>6 DEF CellSet
  <1>4. d = [c EXCEPT ![h] = q]
    BY <1>2
  <1>5. PICK b : b = d
    OBVIOUS
  <1>6. /\ b \in Seq(CellSet(ops)) /\ Len(b) = Len(c) /\ DOMAIN b = DOMAIN c
        /\ b[h] = q /\ \A g \in DOMAIN c : g # h => b[g] = c[g]
    <2>1. PICK S : S = CellSet(ops)
      OBVIOUS
    <2>2. c \in Seq(S) /\ q \in S /\ b = [c EXCEPT ![h] = q]
      BY <1>1, <1>3, <1>4, <1>5, <2>1
    <2> QED BY <2>1, <2>2, PutCell
  <1>7. \A g \in DOMAIN c : /\ b[g].kind = c[g].kind /\ b[g].entries = c[g].entries /\ b[g].to = c[g].to
                            /\ b[g].photons = IF g = h THEN photons ELSE c[g].photons
    BY <1>3, <1>6
  <1>8. Typed(ops, p, b, k)
    BY <1>1, <1>6 DEF Typed
  <1>9. RootedIn(b, R, D)
    <2>1. RootedIn(c, R, D)
      BY DEF Struct
    <2>2. PICK T : T = DOMAIN c
      OBVIOUS
    <2>3. DOMAIN b = T
      BY <1>6, <2>2
    <2>4. \A g \in T : b[g].kind = c[g].kind /\ b[g].to = c[g].to /\ R[g] \in T
      BY <1>1, <1>7, <2>2
    <2> QED BY <2>1, <2>2, <2>3, <2>4 DEF RootedIn
  <1>10. \A g \in DOMAIN b : Fit(ops, p, b[g])
    <2>1. ASSUME NEW g \in DOMAIN c
          PROVE  Fit(ops, p, b[g])
      <3>1. PICK x, y : x = c[g] /\ y = b[g]
        OBVIOUS
      <3>2. Fit(ops, p, x)
        BY <3>1 DEF Struct
      <3>3. /\ y.kind = x.kind /\ y.entries = x.entries /\ DOMAIN y.photons = DOMAIN x.entries
            /\ y.to = x.to
        BY <1>7, <3>1, <3>2 DEF Fit
      <3>4. Fit(ops, p, y)
        BY <3>2, <3>3 DEF Fit, Comes
      <3> QED BY <3>1, <3>4
    <2> QED BY <1>6, <2>1
  <1>11. LedTo(b, k, R) /\ LedFrom(b, k, R)
    BY <1>1, <1>6, <1>7 DEF Struct, LedTo, LedFrom
  <1>12. Struct(ops, p, b, k, R, D)
    BY <1>8, <1>9, <1>10, <1>11 DEF Struct
  <1> QED BY <1>5, <1>6, <1>7, <1>12

LEMMA CellIs ==
    ASSUME NEW ops, NEW kind \in CellKinds, NEW g \in Seq(Elements(ops))
    PROVE  /\ Cell(kind, g) \in CellSet(ops) /\ Cell(kind, g).kind = kind /\ Cell(kind, g).entries = g
           /\ Cell(kind, g).to = 0
           /\ DOMAIN Cell(kind, g).photons = DOMAIN g /\ \A i \in DOMAIN g : Cell(kind, g).photons[i] = "None"
PROOF
  <1>1. PICK n, f : n = Len(g) /\ f = [i \in DOMAIN g |-> "None"]
    OBVIOUS
  <1>2. n \in Nat /\ DOMAIN g = 1 .. n
    BY <1>1, LenProperties
  <1>3. f \in [1 .. n -> Photon \cup {"None"}]
    BY <1>1, <1>2
  <1>4. f \in Seq(Photon \cup {"None"})
    BY <1>2, <1>3
  <1>5. Cell(kind, g) = [kind |-> kind, entries |-> g, photons |-> f, to |-> 0]
    BY <1>1 DEF Cell
  <1> QED BY <1>1, <1>4, <1>5 DEF CellSet

LEMMA EntriesAreElements ==
    ASSUME NEW ops, NEW n \in DOMAIN ops
    PROVE  EntriesOf(ops[n]) \subseteq Elements(ops)
  BY DEF Elements

-----------------------------------------------------------------------------
(* The structure is an invariant                                           *)

StructInv == \E R, D : Struct(operators, position, cells, consumer, R, D)

LEMMA ResolveIs ==
    ASSUME NEW R, NEW D, Struct(operators, position, cells, consumer, R, D), NEW h \in DOMAIN cells
    PROVE  Resolve(h) = R[h] /\ R[h] \in DOMAIN cells
PROOF
  <1>1. PICK c : c = cells
    OBVIOUS
  <1>2. PICK n : n = Len(c)
    OBVIOUS
  <1>3. n \in Nat /\ DOMAIN c = 1 .. n
    BY <1>1, <1>2, StructTypes
  <1>4. RootedIn(c, R, D) /\ h \in DOMAIN c
    BY <1>1 DEF Struct
  <1>5. HopTo(c, h) = R[h]
    BY <1>2, <1>3, <1>4, HopsEnd
  <1> QED BY <1>1, <1>4, <1>5, ResolveIsHopTo DEF RootedIn

LEMMA InitStruct == Init => StructInv
PROOF
  <1> SUFFICES ASSUME Init PROVE StructInv
    OBVIOUS
  <1>1. PICK R, D : R = [h \in {} |-> 1] /\ D = [h \in {} |-> 0]
    OBVIOUS
  <1>2. Shaped(operators)
    BY IslandAssumption DEF Init
  <1>3. Len(operators) \in Nat
    <2>1. PICK S : operators \in Seq(S)
      BY <1>2 DEF Shaped
    <2> QED BY <2>1, LenProperties
  <1>4. cells = <<>> /\ DOMAIN cells = {} /\ Len(cells) = 0 /\ cells \in Seq(CellSet(operators))
    BY DEF Init
  <1>5. Typed(operators, position, cells, consumer)
    <2>1. position \in 1 .. Len(operators) + 1
      BY <1>3 DEF Init
    <2>2. consumer \in [ModesOf(operators) -> 0 .. Len(cells)]
      BY <1>4 DEF Init
    <2> QED BY <1>4, <2>1, <2>2 DEF Typed, Init
  <1>6. RootedIn(cells, R, D)
    BY <1>1, <1>4 DEF RootedIn
  <1>7. LedTo(cells, consumer, R) /\ LedFrom(cells, consumer, R)
    BY <1>4 DEF LedTo, LedFrom, Init
  <1>8. Known(operators, position, consumer)
    BY DEF Known, Init
  <1> QED BY <1>4, <1>5, <1>6, <1>7, <1>8 DEF StructInv, Struct
NewElement(ops, p, new) ==
    /\ ops[p].kind \in PlainKinds
    /\ new = Cell(ops[p].kind, <<Entry(ops[p].sources[1], ops[p].sinks)>>)

LEMMA ElementFresh ==
    ASSUME NEW ops, NEW p, NEW c, NEW k, NEW R, NEW D, Struct(ops, p, c, k, R, D), p \in DOMAIN ops,
           NEW new, NewElement(ops, p, new)
    PROVE  Fresh(ops, p, k, new) /\ new.kind = ops[p].kind /\ \A i \in DOMAIN new.entries : new.photons[i] = "None"
PROOF
  <1> USE DEF NewElement
  <1>1. /\ Shaped(ops) /\ OneWayOn(ops) /\ Len(ops) \in Nat /\ DOMAIN ops = 1 .. Len(ops) /\ p \in Nat
        /\ k \in [ModesOf(ops) -> 0 .. Len(c)]
    BY StructTypes
  <1>2. PICK op, e, g : op = ops[p] /\ e = Entry(op.sources[1], op.sinks) /\ g = <<e>>
    OBVIOUS
  <1>3. EntriesOf(op) = {e} /\ e \in Elements(ops)
    BY <1>2, PlainEntry, EntriesAreElements
  <1>4. g \in Seq(Elements(ops)) /\ Len(g) = 1 /\ DOMAIN g = 1 .. 1 /\ g[1] = e
    BY <1>2, <1>3
  <1>5. op.kind \in CellKinds /\ op.kind # "Moved" /\ op.kind \notin Grouping
    BY <1>2 DEF CellKinds, PlainKinds, Grouping
  <1>6. /\ new \in CellSet(ops) /\ new.kind = op.kind /\ new.entries = g /\ new.to = 0
        /\ DOMAIN new.photons = DOMAIN g /\ \A i \in DOMAIN g : new.photons[i] = "None"
    <2>1. new = Cell(op.kind, g)
      BY <1>2
    <2> QED BY <1>4, <1>5, <2>1, CellIs
  <1>7. ToSet(g) = {e}
    BY <1>4 DEF ToSet
  <1>8. Comes(ops, p + 1, new)
    <2>1. p \in 1 .. (p + 1) - 1
      BY <1>1
    <2>2. \A x \in ToSet(new.entries) : x \in EntriesOf(ops[p]) /\ ops[p].kind = KindOf(new.kind)
      BY <1>2, <1>3, <1>5, <1>6, <1>7 DEF KindOf
    <2> QED BY <2>1, <2>2 DEF Comes
  <1>9. Fit(ops, p + 1, new)
    <2>1. Distinct(g)
      BY <1>4 DEF Distinct
    <2>2. Distinct(new.entries) /\ Len(new.entries) = 1 /\ DOMAIN new.photons = DOMAIN new.entries
      BY <1>4, <1>6, <2>1
    <2> QED BY <1>6, <1>8, <2>2 DEF Fit
  <1>10. e.source = op.sources[1]
    BY <1>2 DEF Entry
  <1>11. SourcesIn(g) = {op.sources[1]}
    BY <1>4, <1>10 DEF SourcesIn
  <1>12. ToSet(op.sources) = {op.sources[1]}
    <2>1. PICK M : M = ModesOf(ops)
      OBVIOUS
    <2>2. op.sources \in Seq(M) /\ Len(op.sources) = 1
      BY <1>1, <1>2, <2>1, OperatorShape DEF PlainKinds
    <2>3. DOMAIN op.sources = 1 .. 1
      BY <2>2, LenProperties
    <2> QED BY <2>3 DEF ToSet
  <1>13. \A m \in ToSet(ops[p].sources) : k[m] = 0
    <2>1. ops[p].kind # "EPPS" /\ ops[p].kind # "DualBivariate"
      BY DEF PlainKinds
    <2> QED BY <2>1, MetBefore
  <1> QED BY <1>2, <1>5, <1>6, <1>9, <1>11, <1>12, <1>13 DEF Fresh

LEMMA PairIs ==
    ASSUME NEW ops, Shaped(ops), NEW p \in DOMAIN ops, ops[p].kind = "DualBivariate",
           NEW b, b = BivariateEntries(ops[p])
    PROVE  /\ b \in Seq(Elements(ops)) /\ ToSet(b) = EntriesOf(ops[p])
           /\ SourcesIn(b) = ToSet(ops[p].sources) /\ Distinct(b)
           /\ ToSet(ops[p].sources) = {ops[p].sources[1], ops[p].sources[2]}
PROOF
  <1>1. PICK op, M : op = ops[p] /\ M = ModesOf(ops)
    OBVIOUS
  <1>2. /\ op.kind = "DualBivariate" /\ op.sources \in Seq(M) /\ op.sinks \in Seq(M)
        /\ Len(op.sources) = 2 /\ Len(op.sinks) = 4 /\ op.sources[1] # op.sources[2]
    BY <1>1, OperatorShape
  <1>3. /\ Len(b) = 2 /\ DOMAIN b = 1 .. 2 /\ b \in Seq(EntriesOf(op))
        /\ \A i \in 1 .. 2 : b[i].source = op.sources[i]
        /\ EntriesOf(op) = {b[1], b[2]} /\ SourcesIn(b) = ToSet(op.sources)
        /\ ToSet(op.sources) = {op.sources[1], op.sources[2]}
    BY <1>1, <1>2, PairEntries
  <1>4. b \in Seq(Elements(ops))
    <2>1. PICK S, T : S = EntriesOf(op) /\ T = Elements(ops)
      OBVIOUS
    <2>2. S \subseteq T /\ b \in Seq(S)
      BY <1>1, <1>3, <2>1, EntriesAreElements
    <2> QED BY <2>1, <2>2, SeqMonotonic
  <1>5. \A i \in 1 .. 2 : i = 1 \/ i = 2
    OBVIOUS
  <1>6. Distinct(b)
    BY <1>2, <1>3, <1>5 DEF Distinct
  <1>7. ToSet(b) = {b[1], b[2]}
    BY <1>3 DEF ToSet
  <1> QED BY <1>1, <1>3, <1>4, <1>6, <1>7

\* Entries of beam splitter operators make a cell that fits.
Collides(ops, p, g) ==
    /\ g \in Seq(Elements(ops)) /\ Distinct(g)
    /\ \A e \in ToSet(g) : \E n \in 1 .. p : e \in EntriesOf(ops[n]) /\ ops[n].kind = "DualBivariate"
GroupCell(ops, p, kind, g, new) ==
    /\ new \in CellSet(ops) /\ new.kind = kind /\ new.kind # "Moved" /\ new.entries = g
    /\ Fit(ops, p + 1, new)
    /\ \A i \in DOMAIN g : new.photons[i] = "None"

LEMMA GroupFits ==
    ASSUME NEW ops, NEW p \in Nat, NEW g, Collides(ops, p, g), NEW kind \in Grouping
    PROVE  GroupCell(ops, p, kind, g, Cell(kind, g))
PROOF
  <1>1. kind \in CellKinds /\ kind # "Moved" /\ kind \notin PlainKinds /\ KindOf(kind) = "DualBivariate"
    BY DEF CellKinds, Grouping, PlainKinds, KindOf
  <1>2. PICK new : new = Cell(kind, g)
    OBVIOUS
  <1>3. g \in Seq(Elements(ops)) /\ Distinct(g)
    BY DEF Collides
  <1>4. /\ new \in CellSet(ops) /\ new.kind = kind /\ new.entries = g /\ new.to = 0
        /\ DOMAIN new.photons = DOMAIN g /\ \A i \in DOMAIN g : new.photons[i] = "None"
    BY <1>1, <1>2, <1>3, CellIs
  <1>5. (p + 1) - 1 = p
    OBVIOUS
  <1>6. Comes(ops, p + 1, new)
    BY <1>1, <1>4, <1>5 DEF Comes, Collides
  <1>7. Fit(ops, p + 1, new)
    BY <1>1, <1>3, <1>4, <1>6 DEF Fit
  <1> QED BY <1>1, <1>2, <1>4, <1>7 DEF GroupCell

NewPair(ops, p, k, new) ==
    /\ ops[p].kind = "DualBivariate" /\ \A i \in 1 .. 2 : k[ops[p].sources[i]] = 0
    /\ new = Cell("DoubleInterfering", BivariateEntries(ops[p]))

LEMMA PairFresh ==
    ASSUME NEW ops, NEW p, NEW c, NEW k, NEW R, NEW D, Struct(ops, p, c, k, R, D), p \in DOMAIN ops,
           NEW new, NewPair(ops, p, k, new)
    PROVE  Fresh(ops, p, k, new) /\ new.kind = "DoubleInterfering"
           /\ \A i \in DOMAIN new.entries : new.photons[i] = "None"
PROOF
  <1> USE DEF NewPair
  <1>1. Shaped(ops) /\ Len(ops) \in Nat /\ DOMAIN ops = 1 .. Len(ops) /\ p \in Nat
    BY StructTypes
  <1>2. PICK b, kind : b = BivariateEntries(ops[p]) /\ kind = "DoubleInterfering"
    OBVIOUS
  <1>3. /\ b \in Seq(Elements(ops)) /\ ToSet(b) = EntriesOf(ops[p])
        /\ SourcesIn(b) = ToSet(ops[p].sources) /\ Distinct(b)
        /\ ToSet(ops[p].sources) = {ops[p].sources[1], ops[p].sources[2]}
    BY <1>1, <1>2, PairIs
  <1>4. Collides(ops, p, b)
    <2>1. p \in 1 .. p
      BY <1>1
    <2> QED BY <1>3, <2>1 DEF Collides
  <1>5. kind \in Grouping /\ new = Cell(kind, b)
    BY <1>2 DEF Grouping
  <1>6. /\ new \in CellSet(ops) /\ new.kind = kind /\ new.kind # "Moved" /\ new.entries = b /\ Fit(ops, p + 1, new)
        /\ \A i \in DOMAIN b : new.photons[i] = "None"
    <2>1. GroupCell(ops, p, kind, b, Cell(kind, b))
      BY <1>1, <1>4, <1>5, GroupFits
    <2> QED BY <1>5, <2>1 DEF GroupCell
  <1> QED BY <1>2, <1>3, <1>6 DEF Fresh

LEMMA MetCollides ==
    ASSUME NEW ops, NEW p, NEW c, NEW k, NEW R, NEW D, Struct(ops, p, c, k, R, D), p \in DOMAIN ops,
           ops[p].kind = "DualBivariate", NEW m \in ToSet(ops[p].sources), k[m] # 0,
           NEW h, h = R[k[m]]
    PROVE  Collides(ops, p, c[h].entries) /\ h \in DOMAIN c /\ c[h].kind \in Grouping
PROOF
  <1>1. /\ DOMAIN ops = 1 .. Len(ops) /\ Len(ops) \in Nat /\ p \in Nat
        /\ \A g \in DOMAIN c : c[g] \in CellSet(ops)
    BY StructTypes
  <1>2. h \in DOMAIN c /\ c[h].kind \in Grouping
    BY MetBefore
  <1>3. Fit(ops, p, c[h])
    BY <1>2 DEF Struct
  <1>4. KindOf(c[h].kind) = "DualBivariate"
    BY <1>2 DEF KindOf
  <1>5. \A n \in 1 .. p - 1 : n \in 1 .. p
    BY <1>1
  <1>6. c[h].entries \in Seq(Elements(ops))
    BY <1>1, <1>2 DEF CellSet
  <1> QED BY <1>2, <1>3, <1>4, <1>5, <1>6 DEF Collides, Fit, Comes

LEMMA CollidesAbsorbed ==
    ASSUME NEW ops, NEW p, NEW g, NEW b, Collides(ops, p, g), Collides(ops, p, b)
    PROVE  Collides(ops, p, Absorbed(g, b)) /\ SourcesIn(Absorbed(g, b)) = SourcesIn(g) \cup SourcesIn(b)
PROOF
  <1>1. PICK E : E = Elements(ops)
    OBVIOUS
  <1>2. g \in Seq(E) /\ b \in Seq(E) /\ Distinct(g)
    BY <1>1 DEF Collides
  <1>3. PICK r : r = Absorbed(g, b)
    OBVIOUS
  <1>4. /\ r \in Seq(E) /\ SourcesIn(r) = SourcesIn(g) \cup SourcesIn(b)
        /\ ToSet(r) \subseteq ToSet(g) \cup ToSet(b) /\ Distinct(r)
    BY <1>2, <1>3, AbsorbedIs
  <1>5. Collides(ops, p, r)
    BY <1>1, <1>4 DEF Collides
  <1> QED BY <1>3, <1>4, <1>5

LEMMA PairCollides ==
    ASSUME NEW ops, Shaped(ops), NEW p \in DOMAIN ops, p \in Nat, p > 0, ops[p].kind = "DualBivariate"
    PROVE  Collides(ops, p, BivariateEntries(ops[p]))
PROOF
  <1>1. PICK b : b = BivariateEntries(ops[p])
    OBVIOUS
  <1>2. b \in Seq(Elements(ops)) /\ ToSet(b) = EntriesOf(ops[p]) /\ Distinct(b)
    BY <1>1, PairIs
  <1>3. p \in 1 .. p
    OBVIOUS
  <1> QED BY <1>1, <1>2, <1>3 DEF Collides
-----------------------------------------------------------------------------
(* Groups                                                                  *)

Grown(ops, n, groups) ==
    IF ops[n].kind = "DualBivariate" THEN Merge(groups, ToSet(ops[n].sources)) ELSE groups
Growing(ops, n, a) == a = [i \in 0 .. n |-> IF i = 0 THEN {} ELSE Grown(ops, i, a[i - 1])]

LEMMA GrowingUpTo ==
    ASSUME NEW ops, NEW n \in Nat, 1 .. n \subseteq DOMAIN ops
    PROVE  \E a : Growing(ops, n, a) /\ a[n] = GroupsUpTo(ops, n)
PROOF
  <1>1. PICK M, S : M = ModesOf(ops) /\ S = SUBSET (SUBSET M)
    OBVIOUS
  <1>2. ASSUME NEW i \in 1 .. n, NEW s \in S
        PROVE  Grown(ops, i, s) \in S
    <2>1. ToSet(ops[i].sources) \subseteq M
      BY <1>1, SourcesAreModes
    <2> QED BY <1>1, <2>1 DEF Grown, Merge
  <1>3. PICK st : st = [i \in 1 .. n |-> [s \in S |-> Grown(ops, i, s)]]
    OBVIOUS
  <1>4. st \in [1 .. n -> [S -> S]] /\ \A i \in 1 .. n : \A s \in S : st[i][s] = Grown(ops, i, s)
    BY <1>2, <1>3
  <1>5. PICK base : base = {}
    OBVIOUS
  <1>6. Steps(n, S, base, st)
    BY <1>1, <1>4, <1>5 DEF Steps
  <1>7. PICK f : Iteration(n, S, base, st, f)
    BY <1>6, Iterates
  <1>8. f = [i \in 0 .. n |-> IF i = 0 THEN {} ELSE Grown(ops, i, f[i - 1])]
    <2>1. f \in [0 .. n -> S] /\ f[0] = {} /\ \A i \in 1 .. n : f[i] = st[i][f[i - 1]]
      BY <1>5, <1>7 DEF Iteration
    <2>2. \A i \in 1 .. n : i - 1 \in 0 .. n
      OBVIOUS
    <2>3. \A i \in 1 .. n : f[i] = Grown(ops, i, f[i - 1])
      BY <1>4, <2>1, <2>2
    <2>4. \A i \in 0 .. n : i # 0 => i \in 1 .. n
      OBVIOUS
    <2> QED BY <2>1, <2>3, <2>4
  <1>9. PICK a : a = CHOOSE g : g = [i \in 0 .. n |-> IF i = 0 THEN {} ELSE Grown(ops, i, g[i - 1])]
    OBVIOUS
  <1>10. Growing(ops, n, a)
    BY <1>8, <1>9 DEF Growing
  <1>11. a[n] = GroupsUpTo(ops, n)
    BY <1>9 DEF GroupsUpTo, Grown
  <1> QED BY <1>10, <1>11

LEMMA GrowingSteps ==
    ASSUME NEW ops, NEW n \in Nat, NEW a, Growing(ops, n, a)
    PROVE  a[0] = {} /\ \A i \in 1 .. n : a[i] = Grown(ops, i, a[i - 1])
PROOF
  <1>1. 0 \in 0 .. n /\ \A i \in 1 .. n : i \in 0 .. n /\ i # 0
    OBVIOUS
  <1>2. \A i \in 0 .. n : a[i] = IF i = 0 THEN {} ELSE Grown(ops, i, a[i - 1])
    BY DEF Growing
  <1> QED BY <1>1, <1>2

LEMMA GroupsGrow ==
    ASSUME NEW ops, NEW n \in Nat, n > 0, 1 .. n \subseteq DOMAIN ops
    PROVE  GroupsUpTo(ops, n) = Grown(ops, n, GroupsUpTo(ops, n - 1))
PROOF
  <1>1. PICK m \in Nat : m = n - 1
    OBVIOUS
  <1>2. PICK a : Growing(ops, n, a) /\ a[n] = GroupsUpTo(ops, n)
    BY GrowingUpTo
  <1>3. 1 .. m \subseteq DOMAIN ops
    BY <1>1
  <1>4. PICK b : Growing(ops, m, b) /\ b[m] = GroupsUpTo(ops, m)
    BY <1>3, GrowingUpTo
  <1>5. a[0] = {} /\ \A i \in 1 .. n : a[i] = Grown(ops, i, a[i - 1])
    BY <1>2, GrowingSteps
  <1>6. b[0] = {} /\ \A i \in 1 .. m : b[i] = Grown(ops, i, b[i - 1])
    BY <1>4, GrowingSteps
  <1>7. PICK P : P = {i \in 0 .. m : a[i] = b[i]}
    OBVIOUS
  <1>8. 0 \in P
    BY <1>5, <1>6, <1>7
  <1>9. \A i \in 1 .. m : i - 1 \in P => i \in P
    <2>1. \A i \in 1 .. m : i \in 0 .. m /\ i \in 1 .. n
      BY <1>1
    <2> QED BY <1>5, <1>6, <1>7, <2>1
  <1>10. m \in 0 .. m /\ n \in 1 .. n
    BY <1>1
  <1>11. m \in P
    BY <1>8, <1>9, <1>10, UpTo
  <1>12. a[n] = Grown(ops, n, a[n - 1])
    BY <1>5, <1>10
  <1> QED BY <1>1, <1>2, <1>4, <1>7, <1>11, <1>12

LEMMA NoGroupsYet ==
    ASSUME NEW ops
    PROVE  GroupsUpTo(ops, 0) = {}
PROOF
  <1>1. PICK a : Growing(ops, 0, a) /\ a[0] = GroupsUpTo(ops, 0)
    BY GrowingUpTo
  <1> QED BY <1>1, GrowingSteps

\* Merging the sets of f that meet the new one, those with an index in T.
Meeting(G, f, T, src, components) ==
    /\ T \subseteq G /\ components = {f[h] : h \in G}
    /\ \A h \in G : h \in T <=> f[h] \cap src # {}

LEMMA MergeIs ==
    ASSUME NEW G, NEW f, NEW T, NEW src, NEW components, Meeting(G, f, T, src, components)
    PROVE  Merge(components, src) = {f[h] : h \in G \ T} \cup {src \cup UNION {f[h] : h \in T}}
PROOF
  <1>1. PICK touched : touched = {c \in components : c \cap src # {}}
    OBVIOUS
  <1>2. touched = {f[h] : h \in T}
    BY <1>1 DEF Meeting
  <1>3. components \ touched = {f[h] : h \in G \ T}
    BY <1>1 DEF Meeting
  <1> QED BY <1>1, <1>2, <1>3 DEF Merge

GroupsIn(c)        == {h \in DOMAIN c : c[h].kind \in Grouping}
SourceSets(c, T)   == {SourcesIn(c[h].entries) : h \in T}
Grouped(ops, p, c) == GroupsUpTo(ops, p - 1) = SourceSets(c, GroupsIn(c))

LEMMA SameSourceSets ==
    ASSUME NEW c, NEW d, NEW T, \A h \in T : d[h].entries = c[h].entries
    PROVE  SourceSets(d, T) = SourceSets(c, T)
  BY DEF SourceSets

LEMMA OneMoreSourceSet ==
    ASSUME NEW c, NEW T, NEW h
    PROVE  SourceSets(c, T \cup {h}) = SourceSets(c, T) \cup {SourcesIn(c[h].entries)}
  BY DEF SourceSets

\* The groups that have a source of the operator: where its sources lead.
MetGroups(ops, p, k, R) == {R[k[m]] : m \in {x \in ToSet(ops[p].sources) : k[x] # 0}}

LEMMA GroupsMet ==
    ASSUME NEW ops, NEW p, NEW c, NEW k, NEW R, NEW D, Struct(ops, p, c, k, R, D),
           p \in DOMAIN ops, ops[p].kind = "DualBivariate",
           NEW T, T = MetGroups(ops, p, k, R)
    PROVE  /\ T \subseteq GroupsIn(c)
           /\ \A h \in GroupsIn(c) : h \in T <=> SourcesIn(c[h].entries) \cap ToSet(ops[p].sources) # {}
PROOF
  <1>1. T \subseteq GroupsIn(c)
    <2> SUFFICES ASSUME NEW m \in ToSet(ops[p].sources), k[m] # 0
                 PROVE  R[k[m]] \in GroupsIn(c)
      BY DEF MetGroups
    <2> QED BY MetBefore DEF GroupsIn
  <1>2. ASSUME NEW h \in GroupsIn(c), h \in T
        PROVE  SourcesIn(c[h].entries) \cap ToSet(ops[p].sources) # {}
    <2>1. PICK m \in ToSet(ops[p].sources) : k[m] # 0 /\ h = R[k[m]]
      BY <1>2 DEF MetGroups
    <2>2. m \in SourcesIn(c[h].entries)
      BY <2>1, MetBefore
    <2> QED BY <2>2
  <1>3. ASSUME NEW h \in GroupsIn(c), SourcesIn(c[h].entries) \cap ToSet(ops[p].sources) # {}
        PROVE  h \in T
    <2>1. PICK m \in ToSet(ops[p].sources) : m \in SourcesIn(c[h].entries)
      BY <1>3
    <2>2. h \in DOMAIN c
      BY DEF GroupsIn
    <2>3. k[m] # 0 /\ R[k[m]] = h
      BY <2>1, <2>2 DEF Struct, LedFrom
    <2> QED BY <2>1, <2>3 DEF MetGroups
  <1> QED BY <1>1, <1>2, <1>3

\* The groups at the next position, if that is of no beam splitter.
LEMMA GroupsKept ==
    ASSUME NEW ops, NEW p, NEW c, NEW k, NEW R, NEW D, Struct(ops, p, c, k, R, D),
           p \in DOMAIN ops, Grouped(ops, p, c), ops[p].kind # "DualBivariate"
    PROVE  GroupsUpTo(ops, (p + 1) - 1) = SourceSets(c, GroupsIn(c))
PROOF
  <1>1. Len(ops) \in Nat /\ DOMAIN ops = 1 .. Len(ops) /\ p \in Nat
    BY StructTypes
  <1>2. p > 0 /\ 1 .. p \subseteq DOMAIN ops /\ (p + 1) - 1 = p
    BY <1>1
  <1>3. GroupsUpTo(ops, p) = Grown(ops, p, GroupsUpTo(ops, p - 1))
    BY <1>1, <1>2, GroupsGrow
  <1> QED BY <1>2, <1>3 DEF Grown, Grouped

\* The groups at the next position.
LEMMA GroupsNext ==
    ASSUME NEW ops, NEW p, NEW c, NEW k, NEW R, NEW D, Struct(ops, p, c, k, R, D),
           p \in DOMAIN ops, Grouped(ops, p, c), ops[p].kind = "DualBivariate",
           NEW T, T = MetGroups(ops, p, k, R)
    PROVE  GroupsUpTo(ops, (p + 1) - 1) =
               SourceSets(c, GroupsIn(c) \ T) \cup {ToSet(ops[p].sources) \cup UNION SourceSets(c, T)}
PROOF
  <1>1. Len(ops) \in Nat /\ DOMAIN ops = 1 .. Len(ops) /\ p \in Nat
    BY StructTypes
  <1>2. p > 0 /\ 1 .. p \subseteq DOMAIN ops /\ (p + 1) - 1 = p
    BY <1>1
  <1>3. GroupsUpTo(ops, p) = Grown(ops, p, GroupsUpTo(ops, p - 1))
    BY <1>1, <1>2, GroupsGrow
  <1>4. PICK G, f, src : G = GroupsIn(c) /\ f = [h \in G |-> SourcesIn(c[h].entries)] /\ src = ToSet(ops[p].sources)
    OBVIOUS
  <1>5. PICK components : components = GroupsUpTo(ops, p - 1)
    OBVIOUS
  <1>6. \A U \in SUBSET G : {f[h] : h \in U} = SourceSets(c, U)
    BY <1>4 DEF SourceSets
  <1>7. components = {f[h] : h \in G} /\ components = SourceSets(c, G)
    BY <1>4, <1>5, <1>6 DEF Grouped
  <1>8. /\ T \subseteq GroupsIn(c)
        /\ \A h \in GroupsIn(c) : h \in T <=> SourcesIn(c[h].entries) \cap ToSet(ops[p].sources) # {}
    BY GroupsMet
  <1>9. T \subseteq G /\ \A h \in G : h \in T <=> f[h] \cap src # {}
    BY <1>4, <1>8
  <1>10. Meeting(G, f, T, src, components)
    BY <1>7, <1>9 DEF Meeting
  <1>11. Merge(components, src) = {f[h] : h \in G \ T} \cup {src \cup UNION {f[h] : h \in T}}
    BY <1>10, MergeIs
  <1>12. {f[h] : h \in G \ T} = SourceSets(c, G \ T) /\ {f[h] : h \in T} = SourceSets(c, T)
    BY <1>6, <1>9
  <1>13. GroupsUpTo(ops, p) = Merge(components, src)
    BY <1>3, <1>4, <1>5 DEF Grown
  <1> QED BY <1>2, <1>4, <1>11, <1>12, <1>13

LEMMA GroupedAddPlain ==
    ASSUME NEW ops, NEW p, NEW c, NEW k, NEW R, NEW D, Struct(ops, p, c, k, R, D), Grouped(ops, p, c),
           p \in DOMAIN ops, ops[p].kind \in PlainKinds, NEW new \in CellSet(ops), new.kind \in PlainKinds,
           NEW d, d = Append(c, new)
    PROVE  Grouped(ops, p + 1, d)
PROOF
  <1>1. c \in Seq(CellSet(ops)) /\ Len(c) \in Nat /\ DOMAIN c = 1 .. Len(c)
    BY StructTypes
  <1>2. PICK S, n : S = CellSet(ops) /\ n = Len(c)
    OBVIOUS
  <1>a. n \in Nat
    BY <1>1, <1>2
  <1>3. /\ DOMAIN d = 1 .. n + 1 /\ d[n + 1] = new /\ \A h \in 1 .. n : d[h] = c[h]
    <2>1. c \in Seq(S) /\ new \in S
      BY <1>1, <1>2
    <2>2. d \in Seq(S) /\ Len(d) = n + 1 /\ d[n + 1] = new /\ \A h \in 1 .. n : d[h] = c[h]
      BY <1>2, <1>a, <2>1, AppendProperties
    <2> QED BY <2>2, LenProperties
  <1>4. new.kind \notin Grouping
    BY DEF PlainKinds, Grouping
  <1>5. GroupsIn(d) = GroupsIn(c) /\ \A h \in GroupsIn(c) : d[h] = c[h]
    <2>1. \A h \in 1 .. n + 1 : h \in 1 .. n \/ h = n + 1
      BY <1>a
    <2>2. \A h \in 1 .. n : h \in 1 .. n + 1
      BY <1>a
    <2> QED BY <1>1, <1>2, <1>3, <1>4, <2>1, <2>2 DEF GroupsIn
  <1>6. ops[p].kind # "DualBivariate"
    BY DEF PlainKinds
  <1>7. GroupsUpTo(ops, (p + 1) - 1) = SourceSets(c, GroupsIn(c))
    BY <1>6, GroupsKept
  <1>8. PICK G : G = GroupsIn(c)
    OBVIOUS
  <1>9. \A h \in G : d[h].entries = c[h].entries
    BY <1>5, <1>8
  <1>10. SourceSets(d, G) = SourceSets(c, G)
    BY <1>9, SameSourceSets
  <1> QED BY <1>5, <1>7, <1>8, <1>10 DEF Grouped

LEMMA GroupedAddPair ==
    ASSUME NEW ops, NEW p, NEW c, NEW k, NEW R, NEW D, Struct(ops, p, c, k, R, D), Grouped(ops, p, c),
           p \in DOMAIN ops, ops[p].kind = "DualBivariate", NEW new, Fresh(ops, p, k, new),
           new.kind \in Grouping, NEW d, d = Append(c, new)
    PROVE  Grouped(ops, p + 1, d)
PROOF
  <1>1. c \in Seq(CellSet(ops)) /\ Len(c) \in Nat /\ DOMAIN c = 1 .. Len(c)
    BY StructTypes
  <1>2. PICK S, n : S = CellSet(ops) /\ n = Len(c)
    OBVIOUS
  <1>a. n \in Nat
    BY <1>1, <1>2
  <1>3. new \in CellSet(ops) /\ SourcesIn(new.entries) = ToSet(ops[p].sources)
        /\ \A m \in ToSet(ops[p].sources) : k[m] = 0
    BY DEF Fresh
  <1>4. PICK N : N = n + 1
    OBVIOUS
  <1>5. /\ d[N] = new /\ N \in DOMAIN d /\ N \notin DOMAIN c
        /\ \A h \in DOMAIN c : d[h] = c[h] /\ h \in DOMAIN d
        /\ \A h \in DOMAIN d : h \in DOMAIN c \/ h = N
    <2>1. c \in Seq(S) /\ new \in S
      BY <1>1, <1>2, <1>3
    <2>2. d \in Seq(S) /\ Len(d) = n + 1 /\ d[n + 1] = new /\ \A h \in 1 .. n : d[h] = c[h]
      BY <1>2, <1>a, <2>1, AppendProperties
    <2>3. DOMAIN d = 1 .. n + 1
      BY <2>2, LenProperties
    <2> QED BY <1>1, <1>2, <1>a, <1>4, <2>2, <2>3
  <1>6. GroupsIn(d) = GroupsIn(c) \cup {N} /\ \A h \in GroupsIn(c) : d[h] = c[h]
    BY <1>5 DEF GroupsIn
  <1>7. PICK T : T = MetGroups(ops, p, k, R)
    OBVIOUS
  <1>8. T = {}
    BY <1>3, <1>7 DEF MetGroups
  <1>9. GroupsUpTo(ops, (p + 1) - 1) =
            SourceSets(c, GroupsIn(c) \ T) \cup {ToSet(ops[p].sources) \cup UNION SourceSets(c, T)}
    BY <1>7, GroupsNext
  <1>10. GroupsIn(c) \ T = GroupsIn(c) /\ UNION SourceSets(c, T) = {}
    BY <1>8 DEF SourceSets
  <1>11. PICK G : G = GroupsIn(c)
    OBVIOUS
  <1>12. SourceSets(d, G \cup {N}) = SourceSets(d, G) \cup {SourcesIn(d[N].entries)}
    BY OneMoreSourceSet
  <1>13. SourceSets(d, G) = SourceSets(c, G)
    <2>1. \A h \in G : d[h].entries = c[h].entries
      BY <1>6, <1>11
    <2> QED BY <2>1, SameSourceSets
  <1>14. GroupsIn(d) = G \cup {N} /\ ToSet(ops[p].sources) \cup {} = SourcesIn(d[N].entries)
    BY <1>3, <1>5, <1>6, <1>11
  <1> QED BY <1>9, <1>10, <1>11, <1>12, <1>13, <1>14 DEF Grouped

LEMMA GroupedStay ==
    ASSUME NEW ops, NEW p, NEW c, NEW k, NEW R, NEW D, Struct(ops, p, c, k, R, D), Grouped(ops, p, c),
           p \in DOMAIN ops, ops[p].kind = "DualBivariate",
           NEW a, NEW b, ToSet(ops[p].sources) = {a, b}, k[a] # 0,
           NEW here, here = R[k[a]], k[b] = 0 \/ R[k[b]] = here,
           NEW group, group.kind \in Grouping,
           SourcesIn(group.entries) = SourcesIn(c[here].entries) \cup {a, b},
           NEW d, d = [h \in DOMAIN c |-> IF h = here THEN group ELSE c[h]]
    PROVE  Grouped(ops, p + 1, d)
PROOF
  <1>1. here \in DOMAIN c /\ c[here].kind \in Grouping
    BY MetBefore
  <1>2. /\ GroupsIn(d) = GroupsIn(c) /\ here \in GroupsIn(c) /\ d[here] = group
        /\ \A h \in GroupsIn(c) : h # here => d[h] = c[h]
    BY <1>1 DEF GroupsIn
  <1>3. PICK T : T = MetGroups(ops, p, k, R)
    OBVIOUS
  <1>4. T = {here}
    BY <1>3 DEF MetGroups
  <1>5. GroupsUpTo(ops, (p + 1) - 1) =
            SourceSets(c, GroupsIn(c) \ T) \cup {ToSet(ops[p].sources) \cup UNION SourceSets(c, T)}
    BY <1>3, GroupsNext
  <1>6. UNION SourceSets(c, T) = SourcesIn(c[here].entries)
    BY <1>4 DEF SourceSets
  <1>a. PICK G : G = GroupsIn(c) \ T
    OBVIOUS
  <1>7. GroupsIn(d) = G \cup {here}
    BY <1>2, <1>4, <1>a
  <1>8. SourceSets(d, G \cup {here}) = SourceSets(d, G) \cup {SourcesIn(group.entries)}
    <2>1. PICK x, y : x = d /\ y = here
      OBVIOUS
    <2>2. SourceSets(x, G \cup {y}) = SourceSets(x, G) \cup {SourcesIn(x[y].entries)}
      BY OneMoreSourceSet
    <2> QED BY <1>2, <2>1, <2>2
  <1>9. SourceSets(d, G) = SourceSets(c, G)
    <2>1. \A h \in G : d[h].entries = c[h].entries
      BY <1>2, <1>4, <1>a
    <2> QED BY <2>1, SameSourceSets
  <1>10. ToSet(ops[p].sources) \cup UNION SourceSets(c, T) = SourcesIn(group.entries)
    BY <1>6
  <1> QED BY <1>5, <1>a, <1>7, <1>8, <1>9, <1>10 DEF Grouped

LEMMA GroupedMove ==
    ASSUME NEW ops, NEW p, NEW c, NEW k, NEW R, NEW D, Struct(ops, p, c, k, R, D), Grouped(ops, p, c),
           p \in DOMAIN ops, ops[p].kind = "DualBivariate",
           NEW a, NEW b, ToSet(ops[p].sources) = {a, b}, k[a] # 0, k[b] # 0,
           NEW here, here = R[k[a]], NEW there, there = R[k[b]], there # here,
           NEW group, group.kind \in Grouping,
           SourcesIn(group.entries) = SourcesIn(c[here].entries) \cup {a, b} \cup SourcesIn(c[there].entries),
           NEW d, d = [h \in DOMAIN c |-> IF h = there THEN Moved(k[a]) ELSE IF h = here THEN group ELSE c[h]]
    PROVE  Grouped(ops, p + 1, d)
PROOF
  <1>1. here \in DOMAIN c /\ c[here].kind \in Grouping /\ there \in DOMAIN c /\ c[there].kind \in Grouping
    BY MetBefore
  <1>2. Moved(k[a]).kind \notin Grouping
    BY DEF Moved, Cell, Grouping
  <1>3. DOMAIN d = DOMAIN c /\ d[there] = Moved(k[a]) /\ d[here] = group
        /\ \A h \in DOMAIN c : h # here /\ h # there => d[h] = c[h]
    BY <1>1
  <1>4. /\ GroupsIn(d) = GroupsIn(c) \ {there} /\ here \in GroupsIn(d)
        /\ here \in GroupsIn(c) /\ there \in GroupsIn(c)
    BY <1>1, <1>2, <1>3 DEF GroupsIn
  <1>5. PICK T : T = MetGroups(ops, p, k, R)
    OBVIOUS
  <1>6. T = {here, there}
    BY <1>5 DEF MetGroups
  <1>7. GroupsUpTo(ops, (p + 1) - 1) =
            SourceSets(c, GroupsIn(c) \ T) \cup {ToSet(ops[p].sources) \cup UNION SourceSets(c, T)}
    BY <1>5, GroupsNext
  <1>8. UNION SourceSets(c, T) = SourcesIn(c[here].entries) \cup SourcesIn(c[there].entries)
    BY <1>6 DEF SourceSets
  <1>a. PICK G : G = GroupsIn(c) \ T
    OBVIOUS
  <1>9. GroupsIn(d) = G \cup {here}
    BY <1>4, <1>6, <1>a
  <1>10. SourceSets(d, G \cup {here}) = SourceSets(d, G) \cup {SourcesIn(group.entries)}
    <2>1. PICK x, y : x = d /\ y = here
      OBVIOUS
    <2>2. SourceSets(x, G \cup {y}) = SourceSets(x, G) \cup {SourcesIn(x[y].entries)}
      BY OneMoreSourceSet
    <2> QED BY <1>3, <2>1, <2>2
  <1>11. SourceSets(d, G) = SourceSets(c, G)
    <2>1. \A h \in G : d[h].entries = c[h].entries
      BY <1>3, <1>6, <1>a DEF GroupsIn
    <2> QED BY <2>1, SameSourceSets
  <1>12. ToSet(ops[p].sources) \cup UNION SourceSets(c, T) = SourcesIn(group.entries)
    BY <1>8
  <1> QED BY <1>7, <1>a, <1>9, <1>10, <1>11, <1>12 DEF Grouped

LEMMA GroupedSkip ==
    ASSUME NEW ops, NEW p, NEW c, NEW k, NEW R, NEW D, Struct(ops, p, c, k, R, D), Grouped(ops, p, c),
           p \in DOMAIN ops, ops[p].kind = "EPPS"
    PROVE  Grouped(ops, p + 1, c)
PROOF
  <1>1. ops[p].kind # "DualBivariate"
    OBVIOUS
  <1>2. GroupsUpTo(ops, (p + 1) - 1) = SourceSets(c, GroupsIn(c))
    BY <1>1, GroupsKept
  <1> QED BY <1>2 DEF Grouped

LEMMA GroupedPhotons ==
    ASSUME NEW ops, NEW p, NEW c, NEW d, Grouped(ops, p, c), DOMAIN d = DOMAIN c,
           \A g \in DOMAIN c : d[g].kind = c[g].kind /\ d[g].entries = c[g].entries
    PROVE  Grouped(ops, p, d)
PROOF
  <1>1. GroupsIn(d) = GroupsIn(c) /\ \A h \in GroupsIn(c) : d[h].entries = c[h].entries
    BY DEF GroupsIn
  <1>2. PICK G : G = GroupsIn(c)
    OBVIOUS
  <1>3. \A h \in G : d[h].entries = c[h].entries
    BY <1>1, <1>2
  <1>4. SourceSets(d, G) = SourceSets(c, G)
    BY <1>3, SameSourceSets
  <1> QED BY <1>1, <1>2, <1>4 DEF Grouped
\* No photon is in a cell.
Quiet(c) == \A h \in DOMAIN c : \A i \in DOMAIN c[h].entries : c[h].photons[i] = "None"

LEMMA QuietAdd ==
    ASSUME NEW S, NEW c \in Seq(S), Quiet(c), NEW new \in S, \A i \in DOMAIN new.entries : new.photons[i] = "None",
           NEW d, d = Append(c, new)
    PROVE  Quiet(d)
PROOF
  <1>1. PICK n : n = Len(c)
    OBVIOUS
  <1>2. n \in Nat /\ DOMAIN c = 1 .. n
    BY <1>1, LenProperties
  <1>3. d \in Seq(S) /\ Len(d) = n + 1 /\ d[n + 1] = new /\ \A h \in 1 .. n : d[h] = c[h]
    BY <1>1, <1>2, AppendProperties
  <1>4. DOMAIN d = 1 .. n + 1
    BY <1>3, LenProperties
  <1>5. \A h \in 1 .. n + 1 : h \in 1 .. n \/ h = n + 1
    BY <1>2
  <1> QED BY <1>2, <1>3, <1>4, <1>5 DEF Quiet

Structured(ops, p, c, k) == \E R, D : Struct(ops, p, c, k, R, D) /\ Grouped(ops, p, c)

LEMMA AddStep ==
    ASSUME NEW ops, NEW p, NEW c, NEW k, NEW R, NEW D, Struct(ops, p, c, k, R, D), Grouped(ops, p, c),
           p \in DOMAIN ops, NEW new, NewElement(ops, p, new) \/ NewPair(ops, p, k, new),
           NEW d, NEW l, Adding(ops, p, c, k, new, d, l)
    PROVE  Structured(ops, p + 1, d, l) /\ (Quiet(c) => Quiet(d))
PROOF
  <1>1. /\ Fresh(ops, p, k, new) /\ \A i \in DOMAIN new.entries : new.photons[i] = "None"
        /\ \/ ops[p].kind \in PlainKinds /\ new.kind \in PlainKinds
           \/ ops[p].kind = "DualBivariate" /\ new.kind \in Grouping
    <2>1. CASE NewElement(ops, p, new)
      <3>1. /\ Fresh(ops, p, k, new) /\ new.kind = ops[p].kind
            /\ \A i \in DOMAIN new.entries : new.photons[i] = "None"
        BY <2>1, ElementFresh
      <3>2. ops[p].kind \in PlainKinds
        BY <2>1 DEF NewElement
      <3> QED BY <3>1, <3>2
    <2>2. CASE NewPair(ops, p, k, new)
      <3>1. /\ Fresh(ops, p, k, new) /\ new.kind = "DoubleInterfering"
            /\ \A i \in DOMAIN new.entries : new.photons[i] = "None"
        BY <2>2, PairFresh
      <3>2. ops[p].kind = "DualBivariate"
        BY <2>2 DEF NewPair
      <3> QED BY <3>1, <3>2 DEF Grouping
    <2> QED BY <2>1, <2>2
  <1>2. \E S, E : Struct(ops, p + 1, d, l, S, E)
    BY <1>1, StructAdd
  <1>3. d = Append(c, new)
    BY DEF Adding
  <1>4. new \in CellSet(ops) /\ c \in Seq(CellSet(ops))
    BY <1>1, StructTypes DEF Fresh
  <1>5. Grouped(ops, p + 1, d)
    BY <1>1, <1>3, <1>4, GroupedAddPlain, GroupedAddPair
  <1>6. Quiet(c) => Quiet(d)
    <2>1. PICK S : S = CellSet(ops)
      OBVIOUS
    <2>2. new \in S /\ c \in Seq(S)
      BY <1>4, <2>1
    <2> QED BY <1>1, <1>3, <2>2, QuietAdd
  <1> QED BY <1>2, <1>5, <1>6 DEF Structured

\* JoinGroup for mode a, whose cell is known, and b.
Joining(ops, p, c, k, R, a, b, d, l) ==
    LET here   == R[k[a]]
        there  == R[k[b]]
        moves  == k[b] # 0 /\ there # here
        joined == Absorbed(c[here].entries, BivariateEntries(ops[p]))
        group  == Cell("MultiModeMap", IF moves THEN Absorbed(joined, c[there].entries) ELSE joined)
    IN  /\ d = [h \in DOMAIN c |-> IF moves /\ h = there THEN Moved(k[a]) ELSE IF h = here THEN group ELSE c[h]]
        /\ l = [k EXCEPT ![b] = IF @ = 0 THEN k[a] ELSE @]

LEMMA JoinStep ==
    ASSUME NEW ops, NEW p, NEW c, NEW k, NEW R, NEW D, Struct(ops, p, c, k, R, D), Grouped(ops, p, c),
           p \in DOMAIN ops, ops[p].kind = "DualBivariate",
           NEW a, NEW b, ToSet(ops[p].sources) = {a, b}, k[a] # 0,
           NEW d, NEW l, Joining(ops, p, c, k, R, a, b, d, l)
    PROVE  Structured(ops, p + 1, d, l) /\ (Quiet(c) => Quiet(d))
PROOF
  <1>1. /\ Shaped(ops) /\ DOMAIN ops = 1 .. Len(ops) /\ Len(ops) \in Nat /\ p \in Nat /\ p > 0
        /\ k \in [ModesOf(ops) -> 0 .. Len(c)]
    BY StructTypes
  <1>2. PICK here, there, kind : here = R[k[a]] /\ there = R[k[b]] /\ kind = "MultiModeMap"
    OBVIOUS
  <1>3. kind \in Grouping
    BY <1>2 DEF Grouping
  <1>4. PICK pair, old : pair = BivariateEntries(ops[p]) /\ old = c[here].entries
    OBVIOUS
  <1>5. PICK joined : joined = Absorbed(old, pair)
    OBVIOUS
  <1>6. /\ Collides(ops, p, old) /\ Collides(ops, p, pair) /\ SourcesIn(pair) = {a, b}
        /\ here \in DOMAIN c
    BY <1>1, <1>2, <1>4, MetCollides, PairCollides, PairIs
  <1>7. Collides(ops, p, joined) /\ SourcesIn(joined) = SourcesIn(old) \cup {a, b}
    BY <1>5, <1>6, CollidesAbsorbed
  <1>8. CASE k[b] = 0 \/ there = here
    <2>1. PICK group : group = Cell(kind, joined)
      OBVIOUS
    <2>2. GroupCell(ops, p, kind, joined, group)
      BY <1>1, <1>3, <1>7, <2>1, GroupFits
    <2>3. /\ group \in CellSet(ops) /\ group.kind \in Grouping /\ Fit(ops, p + 1, group)
          /\ SourcesIn(group.entries) = SourcesIn(c[here].entries) \cup {a, b}
          /\ \A i \in DOMAIN group.entries : group.photons[i] = "None"
      BY <1>3, <1>4, <1>7, <2>2 DEF GroupCell
    <2>4. /\ d = [h \in DOMAIN c |-> IF h = here THEN group ELSE c[h]]
          /\ l = [k EXCEPT ![b] = IF @ = 0 THEN k[a] ELSE @]
      BY <1>2, <1>4, <1>5, <1>8, <2>1 DEF Joining
    <2>5. Struct(ops, p + 1, d, l, R, D)
      <3>1. Staying(ops, p, c, k, R, a, b, here, group, d, l)
        BY <1>2, <1>8, <2>3, <2>4 DEF Staying
      <3> QED BY <3>1, StructStay
    <2>6. Grouped(ops, p + 1, d)
      BY <1>2, <1>8, <2>3, <2>4, GroupedStay
    <2>7. Quiet(c) => Quiet(d)
      BY <2>3, <2>4 DEF Quiet
    <2> QED BY <2>5, <2>6, <2>7 DEF Structured
  <1>9. CASE k[b] # 0 /\ there # here
    <2>1. PICK more : more = c[there].entries
      OBVIOUS
    <2>2. Collides(ops, p, more)
      BY <1>2, <1>9, <2>1, MetCollides
    <2>3. PICK all : all = Absorbed(joined, more)
      OBVIOUS
    <2>4. Collides(ops, p, all) /\ SourcesIn(all) = SourcesIn(joined) \cup SourcesIn(more)
      BY <1>7, <2>2, <2>3, CollidesAbsorbed
    <2>5. PICK group : group = Cell(kind, all)
      OBVIOUS
    <2>6. GroupCell(ops, p, kind, all, group)
      BY <1>1, <1>3, <2>4, <2>5, GroupFits
    <2>7. /\ group \in CellSet(ops) /\ group.kind \in Grouping /\ Fit(ops, p + 1, group)
          /\ SourcesIn(group.entries) = SourcesIn(c[here].entries) \cup {a, b} \cup SourcesIn(c[there].entries)
          /\ \A i \in DOMAIN group.entries : group.photons[i] = "None"
      BY <1>3, <1>4, <1>7, <2>1, <2>4, <2>6 DEF GroupCell
    <2>8. d = [h \in DOMAIN c |-> IF h = there THEN Moved(k[a]) ELSE IF h = here THEN group ELSE c[h]]
      BY <1>2, <1>4, <1>5, <1>9, <2>1, <2>3, <2>5 DEF Joining
    <2>9. l = k
      <3>1. l = [k EXCEPT ![b] = k[b]]
        BY <1>9 DEF Joining
      <3>2. k = [k EXCEPT ![b] = k[b]]
        BY <1>1
      <3> QED BY <3>1, <3>2
    <2>10. \E S, E : Struct(ops, p + 1, d, k, S, E)
      BY <1>2, <1>9, <2>7, <2>8, StructMove
    <2>11. Grouped(ops, p + 1, d)
      BY <1>2, <1>9, <2>7, <2>8, GroupedMove
    <2>12. Quiet(c) => Quiet(d)
      <3>1. DOMAIN Moved(k[a]).entries = {}
        BY DEF Moved, Cell
      <3> QED BY <2>7, <2>8, <3>1 DEF Quiet
    <2> QED BY <2>9, <2>10, <2>11, <2>12 DEF Structured
  <1> QED BY <1>8, <1>9
-----------------------------------------------------------------------------
(* What leaves a group                                                     *)

\* A sequence of n pairs.
Pairs(n, S, f) == n \in Nat \ {0} /\ f \in [1 .. n -> Seq(S)] /\ \A i \in 1 .. n : Len(f[i]) = 2
Flattening(n, f, a) == a = [i \in 1 .. n |-> IF i = 1 THEN f[i] ELSE a[i - 1] \o f[i]]

LEMMA FlattenSteps ==
    ASSUME NEW n, NEW S, NEW f, Pairs(n, S, f)
    PROVE  \E a : Flattening(n, f, a) /\ a[n] = FlattenSeq(f)
PROOF
  <1>1. n \in Nat /\ n # 0 /\ \A i \in 1 .. n : f[i] \in Seq(S)
    BY DEF Pairs
  <1>2. PICK T, base : T = Seq(S) /\ base = <<>>
    OBVIOUS
  <1>3. PICK st : st = [i \in 1 .. n |-> [s \in T |-> s \o f[i]]]
    OBVIOUS
  <1>4. \A i \in 1 .. n : \A s \in T : s \o f[i] \in T
    BY <1>1, <1>2, ConcatProperties
  <1>5. st \in [1 .. n -> [T -> T]] /\ \A i \in 1 .. n : \A s \in T : st[i][s] = s \o f[i]
    BY <1>3, <1>4
  <1>6. Steps(n, T, base, st)
    BY <1>1, <1>2, <1>5 DEF Steps
  <1>7. PICK g : Iteration(n, T, base, st, g)
    BY <1>6, Iterates
  <1>8. g \in [0 .. n -> T] /\ g[0] = <<>> /\ \A i \in 1 .. n : g[i] = g[i - 1] \o f[i]
    <2>1. g \in [0 .. n -> T] /\ g[0] = <<>> /\ \A i \in 1 .. n : g[i] = st[i][g[i - 1]]
      BY <1>2, <1>7 DEF Iteration
    <2>2. \A i \in 1 .. n : i - 1 \in 0 .. n
      BY <1>1
    <2> QED BY <1>5, <2>1, <2>2
  <1>9. g[1] = f[1]
    <2>1. 1 \in 1 .. n /\ 1 - 1 = 0
      BY <1>1
    <2>2. g[1] = <<>> \o f[1]
      BY <1>8, <2>1
    <2> QED BY <1>1, <2>1, <2>2, ConcatEmptySeq
  <1>10. PICK h : h = [i \in 1 .. n |-> g[i]]
    OBVIOUS
  <1>11. h = [i \in 1 .. n |-> IF i = 1 THEN f[i] ELSE h[i - 1] \o f[i]]
    <2>1. \A i \in 1 .. n : h[i] = g[i]
      BY <1>10
    <2>2. \A i \in 1 .. n : i # 1 => i - 1 \in 1 .. n
      BY <1>1
    <2>3. \A i \in 1 .. n : h[i] = IF i = 1 THEN f[i] ELSE h[i - 1] \o f[i]
      BY <1>8, <1>9, <2>1, <2>2
    <2> QED BY <1>10, <2>1, <2>3
  <1>12. f \in Seq(Seq(S)) /\ Len(f) = n
    <2>1. f \in [1 .. n -> T]
      BY <1>2 DEF Pairs
    <2> QED BY <1>1, <1>2, <2>1
  <1>13. PICK a : a = CHOOSE x : x = [i \in 1 .. n |-> IF i = 1 THEN f[i] ELSE x[i - 1] \o f[i]]
    OBVIOUS
  <1>14. Flattening(n, f, a)
    BY <1>11, <1>13 DEF Flattening
  <1>15. a[n] = FlattenSeq(f)
    BY <1>1, <1>12, <1>13 DEF FlattenSeq
  <1> QED BY <1>14, <1>15

LEMMA FlatPairs ==
    ASSUME NEW n, NEW S, NEW f, Pairs(n, S, f)
    PROVE  /\ FlattenSeq(f) \in Seq(S) /\ Len(FlattenSeq(f)) = 2 * n
           /\ \A i \in 1 .. n : FlattenSeq(f)[2 * i - 1] = f[i][1] /\ FlattenSeq(f)[2 * i] = f[i][2]
PROOF
  <1>1. n \in Nat /\ n # 0 /\ \A i \in 1 .. n : f[i] \in Seq(S) /\ Len(f[i]) = 2
    BY DEF Pairs
  <1>2. PICK a : Flattening(n, f, a) /\ a[n] = FlattenSeq(f)
    BY FlattenSteps
  <1>3. \A i \in 1 .. n : a[i] = IF i = 1 THEN f[i] ELSE a[i - 1] \o f[i]
    BY <1>2 DEF Flattening
  <1> DEFINE P == {i \in 0 .. n : i # 0 =>
                      /\ a[i] \in Seq(S) /\ Len(a[i]) = 2 * i
                      /\ \A j \in 1 .. i : a[i][2 * j - 1] = f[j][1] /\ a[i][2 * j] = f[j][2]}
  <1>4. 0 \in P
    BY <1>1
  <1>5. ASSUME NEW i \in 1 .. n, i - 1 \in P
        PROVE  i \in P
    <2>1. CASE i = 1
      <3>1. a[i] = f[1] /\ 1 \in 1 .. n
        BY <1>3, <2>1
      <3>2. a[i] \in Seq(S) /\ Len(a[i]) = 2 * i
        BY <1>1, <2>1, <3>1
      <3>3. ASSUME NEW j \in 1 .. i
            PROVE  a[i][2 * j - 1] = f[j][1] /\ a[i][2 * j] = f[j][2]
        <4>1. j = 1 /\ 2 * j - 1 = 1 /\ 2 * j = 2
          BY <2>1
        <4> QED BY <3>1, <4>1
      <3>4. i \in 0 .. n
        BY <1>1
      <3> QED BY <3>2, <3>3, <3>4
    <2>2. CASE i # 1
      <3>1. PICK b, c, x : b = a[i - 1] /\ c = a[i] /\ x = f[i]
        OBVIOUS
      <3>2. i - 1 # 0 /\ i - 1 \in Nat /\ i \in 0 .. n
        BY <1>1, <2>2
      <3>3. /\ b \in Seq(S) /\ Len(b) = 2 * (i - 1)
            /\ \A j \in 1 .. i - 1 : b[2 * j - 1] = f[j][1] /\ b[2 * j] = f[j][2]
        BY <1>5, <3>1, <3>2
      <3>4. x \in Seq(S) /\ Len(x) = 2 /\ c = b \o x
        BY <1>1, <1>3, <2>2, <3>1
      <3>5. PICK m \in Nat : m = 2 * (i - 1)
        BY <3>2
      <3>6. /\ c \in Seq(S) /\ Len(c) = m + 2
            /\ \A j \in 1 .. m + 2 : c[j] = IF j <= m THEN b[j] ELSE x[j - m]
        <4>1. c = b \o x /\ b \in Seq(S) /\ x \in Seq(S)
          BY <3>3, <3>4
        <4>2. Len(b) = m /\ Len(x) = 2
          BY <3>3, <3>4, <3>5
        <4>3. c \in Seq(S)
          BY <4>1, ConcatProperties
        <4>4. Len(c) = m + 2
          <5>1. Len(c) = Len(b) + Len(x)
            BY <4>1, ConcatProperties
          <5> QED BY <4>2, <5>1
        <4>5. \A j \in 1 .. Len(b) + Len(x) : c[j] = IF j <= Len(b) THEN b[j] ELSE x[j - Len(b)]
          BY <4>1, ConcatProperties
        <4> QED BY <4>2, <4>3, <4>4, <4>5
      <3>7. ASSUME NEW j \in 1 .. i
            PROVE  c[2 * j - 1] = f[j][1] /\ c[2 * j] = f[j][2]
        <4>1. CASE j = i
          <5>1. /\ 2 * j - 1 = m + 1 /\ 2 * j = m + 2 /\ m + 1 \in 1 .. m + 2 /\ m + 2 \in 1 .. m + 2
                /\ ~ (m + 1 <= m) /\ ~ (m + 2 <= m) /\ (m + 1) - m = 1 /\ (m + 2) - m = 2
            BY <3>5, <4>1
          <5>2. c[m + 1] = x[1] /\ c[m + 2] = x[2]
            BY <3>6, <5>1
          <5> QED BY <3>1, <4>1, <5>1, <5>2
        <4>2. CASE j # i
          <5>1. j \in 1 .. i - 1
            BY <4>2
          <5>2. /\ 2 * j - 1 \in 1 .. m + 2 /\ 2 * j \in 1 .. m + 2
                /\ 2 * j - 1 <= m /\ 2 * j <= m
            BY <3>5, <5>1
          <5>3. c[2 * j - 1] = b[2 * j - 1] /\ c[2 * j] = b[2 * j]
            BY <3>6, <5>2
          <5> QED BY <3>3, <5>1, <5>3
        <4> QED BY <4>1, <4>2
      <3>8. Len(c) = 2 * i
        BY <3>5, <3>6
      <3> QED BY <3>1, <3>2, <3>6, <3>7, <3>8
    <2> QED BY <2>1, <2>2
  <1> HIDE DEF P
  <1>6. n \in P
    <2>1. n \in 0 .. n
      BY <1>1
    <2> QED BY <1>1, <1>4, <1>5, <2>1, UpTo
  <1>7. n \in 1 .. n
    BY <1>1
  <1> QED BY <1>1, <1>2, <1>6, <1>7 DEF P
-----------------------------------------------------------------------------
(* Sequences of modes and photons                                          *)

ModesIn(s)   == {s[i].mode : i \in DOMAIN s}
PacketsIn(s) == {s[i].packet : i \in DOMAIN s}
NoModeTwice(s)   == \A i, j \in DOMAIN s : i # j => s[i].mode # s[j].mode
NoPacketTwice(s) == \A i, j \in DOMAIN s : i # j => s[i].packet # s[j].packet

LEMMA ModesConcat ==
    ASSUME NEW S, NEW s \in Seq(S), NEW t \in Seq(S)
    PROVE  /\ ModesIn(s \o t) = ModesIn(s) \cup ModesIn(t)
           /\ NoModeTwice(s) /\ NoModeTwice(t) /\ ModesIn(s) \cap ModesIn(t) = {} => NoModeTwice(s \o t)
PROOF
  <1>1. PICK a, b, u : a = Len(s) /\ b = Len(t) /\ u = s \o t
    OBVIOUS
  <1>2. a \in Nat /\ b \in Nat /\ DOMAIN s = 1 .. a /\ DOMAIN t = 1 .. b
    BY <1>1, LenProperties
  <1>3. u \in Seq(S) /\ \A i \in 1 .. a + b : u[i] = IF i <= a THEN s[i] ELSE t[i - a]
    BY <1>1, ConcatProperties
  <1>4. Len(u) = a + b
    BY <1>1, ConcatProperties
  <1>5. DOMAIN u = 1 .. a + b
    BY <1>3, <1>4, LenProperties
  <1>6. \A i \in 1 .. a : i \in 1 .. a + b /\ u[i] = s[i]
    BY <1>2, <1>3
  <1>7. \A i \in 1 .. b : a + i \in 1 .. a + b /\ u[a + i] = t[i]
    <2>1. \A i \in 1 .. b : a + i \in 1 .. a + b /\ ~ (a + i <= a) /\ (a + i) - a = i
      BY <1>2
    <2> QED BY <1>3, <2>1
  <1>8. \A i \in 1 .. a + b : IF i <= a THEN i \in 1 .. a /\ u[i] = s[i] ELSE i - a \in 1 .. b /\ u[i] = t[i - a]
    BY <1>2, <1>3
  <1>9. ModesIn(u) = ModesIn(s) \cup ModesIn(t)
    <2>1. \A i \in 1 .. a + b : u[i].mode \in ModesIn(s) \cup ModesIn(t)
      BY <1>2, <1>8 DEF ModesIn
    <2>2. \A i \in 1 .. a : s[i].mode \in ModesIn(u)
      BY <1>5, <1>6 DEF ModesIn
    <2>3. \A i \in 1 .. b : t[i].mode \in ModesIn(u)
      <3> SUFFICES ASSUME NEW i \in 1 .. b PROVE t[i].mode \in ModesIn(u)
        OBVIOUS
      <3>1. a + i \in DOMAIN u /\ u[a + i].mode = t[i].mode
        BY <1>5, <1>7
      <3> QED BY <3>1 DEF ModesIn
    <2> QED BY <1>2, <1>5, <2>1, <2>2, <2>3 DEF ModesIn
  <1>10. ASSUME NoModeTwice(s), NoModeTwice(t), ModesIn(s) \cap ModesIn(t) = {}
         PROVE  NoModeTwice(u)
    <2> SUFFICES ASSUME NEW i \in 1 .. a + b, NEW j \in 1 .. a + b, i # j
                 PROVE  u[i].mode # u[j].mode
      BY <1>5 DEF NoModeTwice
    <2>1. CASE i <= a /\ j <= a
      BY <1>2, <1>8, <1>10, <2>1 DEF NoModeTwice
    <2>2. CASE ~ (i <= a) /\ ~ (j <= a)
      <3>1. i - a # j - a
        BY <1>2
      <3> QED BY <1>2, <1>8, <1>10, <2>2, <3>1 DEF NoModeTwice
    <2>3. CASE i <= a /\ ~ (j <= a)
      <3>1. u[i].mode \in ModesIn(s) /\ u[j].mode \in ModesIn(t)
        BY <1>2, <1>8, <2>3 DEF ModesIn
      <3> QED BY <1>10, <3>1
    <2>4. CASE ~ (i <= a) /\ j <= a
      <3>1. u[j].mode \in ModesIn(s) /\ u[i].mode \in ModesIn(t)
        BY <1>2, <1>8, <2>4 DEF ModesIn
      <3> QED BY <1>10, <3>1
    <2> QED BY <2>1, <2>2, <2>3, <2>4
  <1> QED BY <1>1, <1>9, <1>10

\* The top of a stack and what is below it.
LEMMA TopAndRest ==
    ASSUME NEW S, NEW s \in Seq(S), s # <<>>
    PROVE  /\ Front(s) \in Seq(S) /\ Last(s) \in S
           /\ NoModeTwice(s) => /\ NoModeTwice(Front(s)) /\ Last(s).mode \notin ModesIn(Front(s))
           /\ ModesIn(s) = ModesIn(Front(s)) \cup {Last(s).mode}
           /\ s = Append(Front(s), Last(s))
PROOF
  <1>1. PICK n, x, f : n = Len(s) /\ x = Last(s) /\ f = Front(s)
    OBVIOUS
  <1>2. n \in Nat /\ n # 0 /\ DOMAIN s = 1 .. n
    BY <1>1, LenProperties, EmptySeq
  <1>3. x = s[n] /\ x \in S
    <2>1. n \in 1 .. n
      BY <1>2
    <2> QED BY <1>1, <2>1, ElementOfSeq DEF Last
  <1>4. f = [i \in 1 .. n - 1 |-> s[i]]
    <2>1. \A i \in 1 .. n - 1 : (1 + i) - 1 = i
      OBVIOUS
    <2> QED BY <1>1, <1>2, <2>1 DEF Front, SubSeq
  <1>5. f \in Seq(S) /\ Len(f) = n - 1 /\ DOMAIN f = 1 .. n - 1 /\ \A i \in 1 .. n - 1 : f[i] = s[i]
    <2>1. \A i \in 1 .. n - 1 : s[i] \in S
      BY <1>1, <1>2, ElementOfSeq
    <2>2. n - 1 \in Nat
      BY <1>2
    <2>3. f \in [1 .. n - 1 -> S]
      BY <1>4, <2>1
    <2> QED BY <1>4, <2>2, <2>3
  <1>6. \A i \in 1 .. n : IF i = n THEN s[i] = x ELSE i \in 1 .. n - 1 /\ f[i] = s[i]
    BY <1>2, <1>3, <1>5
  <1>7. n \in DOMAIN s /\ \A i \in 1 .. n - 1 : i \in DOMAIN s /\ i # n
    BY <1>2
  <1>8. ModesIn(s) = ModesIn(f) \cup {x.mode}
    <2>1. \A i \in 1 .. n : s[i].mode \in ModesIn(f) \cup {x.mode}
      BY <1>5, <1>6 DEF ModesIn
    <2>2. x.mode \in ModesIn(s) /\ \A i \in 1 .. n - 1 : f[i].mode \in ModesIn(s)
      BY <1>3, <1>5, <1>7 DEF ModesIn
    <2> QED BY <1>2, <1>5, <2>1, <2>2 DEF ModesIn
  <1>9. NoModeTwice(s) => NoModeTwice(f) /\ x.mode \notin ModesIn(f)
    BY <1>3, <1>5, <1>7 DEF NoModeTwice, ModesIn
  <1>10. s = Append(f, x)
    <2>1. Append(f, x) \in Seq(S) /\ Len(Append(f, x)) = n
      BY <1>2, <1>3, <1>5, AppendProperties
    <2>2. \A i \in 1 .. n : Append(f, x)[i] = s[i]
      <3>1. \A i \in 1 .. n - 1 : Append(f, x)[i] = f[i]
        BY <1>3, <1>5, AppendProperties
      <3>2. Append(f, x)[(n - 1) + 1] = x /\ (n - 1) + 1 = n
        BY <1>2, <1>3, <1>5, AppendProperties
      <3> QED BY <1>6, <3>1, <3>2
    <2> QED BY <1>1, <2>1, <2>2, SeqEqual
  <1> QED BY <1>1, <1>3, <1>5, <1>8, <1>9, <1>10
-----------------------------------------------------------------------------
(* How the photons flow                                                    *)

\* Q are the modes a photon, or none, has been in and left, or where it waits in
\* a group or was detected.
Fired(c, Q, h) == \A i \in DOMAIN c[h].entries : c[h].entries[i].source \in Q
FromSource(ops, p, x) == \E n \in 1 .. p - 1 : ops[n].kind = "EPPS" /\ x \in ToSet(ops[n].sinks)
FromCell(c, h, x) == \E i \in DOMAIN c[h].entries : x \in ToSet(c[h].entries[i].sinks)
FromFired(c, Q, x) == \E h \in DOMAIN c : Fired(c, Q, h) /\ FromCell(c, h, x)
Measured(c, Q, x) == x \in Q /\ \E h \in DOMAIN c : c[h].kind = "SPD" /\ x \in SourcesIn(c[h].entries)

\* A photon is kept where a group has it; a mode has been reached exactly if what
\* it comes from has sent it.
Held(c, Q) == \A h \in DOMAIN c : \A i \in DOMAIN c[h].entries :
                 c[h].photons[i] # "None" <=> (c[h].kind \in Grouping /\ c[h].entries[i].source \in Q)
Come(ops, p, c, act, Q) == \A x : (x \in Q \/ x \in ModesIn(act)) <=> (FromSource(ops, p, x) \/ FromFired(c, Q, x))
Answers(c, res, Q) == NoPacketTwice(res) /\ \A x : x \in PacketsIn(res) <=> Measured(c, Q, x)

Flow(ops, p, c, act, res, Q) ==
    /\ \A x \in ModesIn(act) : x \notin Q
    /\ NoModeTwice(act)
    /\ Held(c, Q)
    /\ Come(ops, p, c, act, Q)
    /\ Answers(c, res, Q)
    /\ p \in DOMAIN ops => Q = {}

\* Each sink has one entry, which a cell has for one of its sources.
LEMMA OneOrigin ==
    ASSUME NEW ops, NEW p, NEW c, NEW k, NEW R, NEW D, Struct(ops, p, c, k, R, D),
           NEW h \in DOMAIN c, NEW g \in DOMAIN c, NEW x, FromCell(c, h, x), FromCell(c, g, x)
    PROVE  g = h
PROOF
  <1>1. /\ OneWayHere(ops) /\ \A a \in DOMAIN c : c[a] \in CellSet(ops)
    BY StructTypes
  <1>2. PICK i \in DOMAIN c[h].entries, j \in DOMAIN c[g].entries :
            x \in ToSet(c[h].entries[i].sinks) /\ x \in ToSet(c[g].entries[j].sinks)
    BY DEF FromCell
  <1>3. PICK e, f : e = c[h].entries[i] /\ f = c[g].entries[j]
    OBVIOUS
  <1>4. e \in Elements(ops) /\ f \in Elements(ops)
    <2>1. PICK E, s, t : E = Elements(ops) /\ s = c[h].entries /\ t = c[g].entries
      OBVIOUS
    <2>2. s \in Seq(E) /\ t \in Seq(E)
      BY <1>1, <2>1 DEF CellSet
    <2>3. i \in 1 .. Len(s) /\ j \in 1 .. Len(t)
      BY <1>2, <2>1, <2>2, LenProperties
    <2> QED BY <1>3, <2>1, <2>2, <2>3, ElementOfSeq
  <1>5. PICK l \in DOMAIN e.sinks, m \in DOMAIN f.sinks : e.sinks[l] = f.sinks[m]
    BY <1>2, <1>3 DEF ToSet
  <1>6. e = f
    BY <1>1, <1>4, <1>5 DEF OneWayHere
  <1>7. e.source \in SourcesIn(c[h].entries) /\ f.source \in SourcesIn(c[g].entries)
    BY <1>2, <1>3 DEF SourcesIn
  <1> QED BY <1>6, <1>7 DEF Struct, LedFrom

\* No photon leaves both a source and an element.
LEMMA NotBoth ==
    ASSUME NEW ops, NEW p, NEW c, NEW k, NEW R, NEW D, Struct(ops, p, c, k, R, D),
           NEW h \in DOMAIN c, NEW x, FromCell(c, h, x), NEW n \in DOMAIN ops, ops[n].kind = "EPPS"
    PROVE  x \notin ToSet(ops[n].sinks)
PROOF
  <1>1. /\ OneWayHere(ops) /\ \A a \in DOMAIN c : c[a] \in CellSet(ops)
    BY StructTypes
  <1>2. PICK i \in DOMAIN c[h].entries : x \in ToSet(c[h].entries[i].sinks)
    BY DEF FromCell
  <1>3. PICK e : e = c[h].entries[i]
    OBVIOUS
  <1>4. e \in Elements(ops)
    <2>1. PICK E, s : E = Elements(ops) /\ s = c[h].entries
      OBVIOUS
    <2>2. s \in Seq(E)
      BY <1>1, <2>1 DEF CellSet
    <2>3. i \in 1 .. Len(s)
      BY <1>2, <2>1, <2>2, LenProperties
    <2> QED BY <1>3, <2>1, <2>2, <2>3, ElementOfSeq
  <1>5. n \in Sources(ops)
    BY DEF Sources
  <1>6. ToSet(ops[n].sinks) \cap ToSet(e.sinks) = {}
    BY <1>1, <1>4, <1>5 DEF OneWayHere
  <1> QED BY <1>2, <1>3, <1>6

\* No cell with entries has fired before the photons move.
LEMMA NoneFired ==
    ASSUME NEW c, NEW x
    PROVE  ~ FromFired(c, {}, x)
  BY DEF FromFired, Fired, FromCell

LEMMA FlowAdd ==
    ASSUME NEW ops, NEW p \in Nat, NEW c, NEW act, NEW res, Flow(ops, p, c, act, res, {}),
           ops[p].kind # "EPPS", NEW d, Quiet(d)
    PROVE  Flow(ops, p + 1, d, act, res, {})
PROOF
  <1>1. \A x : FromSource(ops, p + 1, x) <=> FromSource(ops, p, x)
    <2>1. \A n \in 1 .. (p + 1) - 1 : n = p \/ n \in 1 .. p - 1
      OBVIOUS
    <2>2. \A n \in 1 .. p - 1 : n \in 1 .. (p + 1) - 1
      OBVIOUS
    <2> QED BY <2>1, <2>2 DEF FromSource
  <1>2. Held(d, {})
    BY DEF Held, Quiet
  <1>3. Come(ops, p + 1, d, act, {})
    BY <1>1, NoneFired DEF Flow, Come
  <1>4. Answers(d, res, {})
    BY DEF Flow, Answers, Measured
  <1> QED BY <1>2, <1>3, <1>4 DEF Flow

LEMMA FlowEmit ==
    ASSUME NEW ops, NEW p, NEW c, NEW k, NEW R, NEW D, Struct(ops, p, c, k, R, D),
           p \in DOMAIN ops, ops[p].kind = "EPPS",
           NEW S, NEW act \in Seq(S), NEW res, Flow(ops, p, c, act, res, {}),
           NEW new \in Seq(S), NoModeTwice(new), ModesIn(new) = ToSet(ops[p].sinks)
    PROVE  Flow(ops, p + 1, c, act \o new, res, {})
PROOF
  <1>1. OneWayHere(ops) /\ DOMAIN ops = 1 .. Len(ops) /\ Len(ops) \in Nat /\ p \in Nat
    BY StructTypes
  <1>2. \A x : FromSource(ops, p + 1, x) <=> (FromSource(ops, p, x) \/ x \in ModesIn(new))
    <2>1. \A n \in 1 .. (p + 1) - 1 : n = p \/ n \in 1 .. p - 1
      BY <1>1
    <2>2. p \in 1 .. (p + 1) - 1 /\ \A n \in 1 .. p - 1 : n \in 1 .. (p + 1) - 1
      BY <1>1
    <2> QED BY <2>1, <2>2 DEF FromSource
  <1>3. ModesIn(act) \cap ModesIn(new) = {}
    <2> SUFFICES ASSUME NEW x \in ModesIn(act), x \in ToSet(ops[p].sinks)
                 PROVE  FALSE
      OBVIOUS
    <2>1. FromSource(ops, p, x)
      BY NoneFired DEF Flow, Come
    <2>2. PICK n \in 1 .. p - 1 : ops[n].kind = "EPPS" /\ x \in ToSet(ops[n].sinks)
      BY <2>1 DEF FromSource
    <2>3. n \in Sources(ops) /\ p \in Sources(ops) /\ n # p
      BY <1>1, <2>2 DEF Sources
    <2>4. PICK i \in DOMAIN ops[n].sinks, j \in DOMAIN ops[p].sinks : ops[n].sinks[i] = ops[p].sinks[j]
      BY <2>2 DEF ToSet
    <2>5. DOMAIN ops[n].sinks = 1 .. 2 /\ DOMAIN ops[p].sinks = 1 .. 2
      <3>1. Shaped(ops) /\ n \in DOMAIN ops
        BY <2>3, StructTypes DEF Sources
      <3>2. /\ ops[n].sinks \in Seq(ModesOf(ops)) /\ Len(ops[n].sinks) = 2
            /\ ops[p].sinks \in Seq(ModesOf(ops)) /\ Len(ops[p].sinks) = 2
        BY <2>2, <3>1, OperatorShape
      <3> QED BY <3>2, LenProperties
    <2> QED BY <1>1, <2>3, <2>4, <2>5 DEF OneWayHere
  <1>4. NoModeTwice(act \o new) /\ ModesIn(act \o new) = ModesIn(act) \cup ModesIn(new)
    BY <1>3, ModesConcat DEF Flow
  <1>5. Come(ops, p + 1, c, act \o new, {})
    BY <1>2, <1>4 DEF Flow, Come
  <1> QED BY <1>4, <1>5 DEF Flow
\* Only the cell that was reached may have a photon more, and only where it waits.
Kept(c, d, h, m, photon) ==
    /\ DOMAIN d = DOMAIN c
    /\ \A g \in DOMAIN c : /\ d[g].kind = c[g].kind /\ d[g].entries = c[g].entries
                           /\ \A i \in DOMAIN c[g].entries : d[g].photons[i] =
                                 IF g = h /\ c[g].kind \in Grouping /\ c[g].entries[i].source = m
                                 THEN photon ELSE c[g].photons[i]
\* A mode leads to the cell h, and what comes out of it is new.
Reaches(c, h, Q, m, new) ==
    /\ h \in DOMAIN c /\ m \in SourcesIn(c[h].entries) /\ NoModeTwice(new)
    /\ \A x : x \in ModesIn(new) <=> (Fired(c, Q \cup {m}, h) /\ FromCell(c, h, x))
Answered(c, h, m, photon, res, after) ==
    after = IF c[h].kind = "SPD" THEN Append(res, [packet |-> m, photon |-> photon]) ELSE res

LEMMA NewAnswer ==
    ASSUME NEW T, NEW res \in Seq(T), NEW r \in T, NoPacketTwice(res), r.packet \notin PacketsIn(res)
    PROVE  /\ NoPacketTwice(Append(res, r))
           /\ \A x : x \in PacketsIn(Append(res, r)) <=> (x \in PacketsIn(res) \/ x = r.packet)
PROOF
  <1>1. PICK n, u : n = Len(res) /\ u = Append(res, r)
    OBVIOUS
  <1>2. n \in Nat /\ DOMAIN res = 1 .. n
    BY <1>1, LenProperties
  <1>3. u \in Seq(T) /\ Len(u) = n + 1 /\ u[n + 1] = r /\ \A i \in 1 .. n : u[i] = res[i]
    BY <1>1, <1>2, AppendProperties
  <1>4. DOMAIN u = 1 .. n + 1
    BY <1>3, LenProperties
  <1>5. \A i \in 1 .. n + 1 : IF i = n + 1 THEN u[i] = r ELSE i \in 1 .. n /\ u[i] = res[i]
    BY <1>2, <1>3
  <1>6. n + 1 \in 1 .. n + 1 /\ \A i \in 1 .. n : i \in 1 .. n + 1
    BY <1>2
  <1>7. NoPacketTwice(u)
    BY <1>2, <1>4, <1>5 DEF NoPacketTwice, PacketsIn
  <1>8. \A x : x \in PacketsIn(u) <=> (x \in PacketsIn(res) \/ x = r.packet)
    <2>1. ASSUME NEW x, x \in PacketsIn(u)
          PROVE  x \in PacketsIn(res) \/ x = r.packet
      <3>1. PICK i \in 1 .. n + 1 : x = u[i].packet
        BY <1>4, <2>1 DEF PacketsIn
      <3> QED BY <1>2, <1>5, <3>1 DEF PacketsIn
    <2>2. ASSUME NEW x, x \in PacketsIn(res)
          PROVE  x \in PacketsIn(u)
      <3>1. PICK i \in 1 .. n : x = res[i].packet
        BY <1>2, <2>2 DEF PacketsIn
      <3> QED BY <1>3, <1>4, <1>6, <3>1 DEF PacketsIn
    <2>3. r.packet \in PacketsIn(u)
      BY <1>3, <1>4, <1>6 DEF PacketsIn
    <2> QED BY <2>1, <2>2, <2>3
  <1> QED BY <1>1, <1>7, <1>8

LEMMA FlowMove ==
    ASSUME NEW ops, NEW p, NEW c, NEW k, NEW R, NEW D, Struct(ops, p, c, k, R, D), p \notin DOMAIN ops,
           NEW S, NEW act \in Seq(S), act # <<>>, NEW T, NEW res \in Seq(T), NEW Q,
           Flow(ops, p, c, act, res, Q),
           NEW m, m = Last(act).mode, NEW h, NEW new \in Seq(S), Reaches(c, h, Q, m, new),
           NEW photon \in Photon, NEW d, Kept(c, d, h, m, photon),
           [packet |-> m, photon |-> photon] \in T \/ c[h].kind # "SPD",
           NEW after, Answered(c, h, m, photon, res, after)
    PROVE  Flow(ops, p, d, Front(act) \o new, after, Q \cup {m})
PROOF
  <1>1. /\ h \in DOMAIN c /\ m \in SourcesIn(c[h].entries)
        /\ \A x : x \in ModesIn(new) <=> (Fired(c, Q \cup {m}, h) /\ FromCell(c, h, x))
    BY DEF Reaches
  <1>2. PICK rest, P : rest = Front(act) /\ P = Q \cup {m}
    OBVIOUS
  <1>3. /\ rest \in Seq(S) /\ NoModeTwice(rest) /\ m \notin ModesIn(rest)
        /\ ModesIn(act) = ModesIn(rest) \cup {m} /\ m \notin Q
    <2>1. NoModeTwice(act) /\ \A x \in ModesIn(act) : x \notin Q
      BY DEF Flow
    <2>2. PICK top : top = Last(act)
      OBVIOUS
    <2>3. /\ rest \in Seq(S) /\ NoModeTwice(rest) /\ top.mode \notin ModesIn(rest)
          /\ ModesIn(act) = ModesIn(rest) \cup {top.mode}
      BY <1>2, <2>1, <2>2, TopAndRest
    <2>4. m = top.mode
      BY <2>2
    <2> QED BY <2>1, <2>3, <2>4
  <1>4. ~ Fired(c, Q, h)
    BY <1>1, <1>3 DEF Fired, SourcesIn
  <1>5. ASSUME NEW x \in ModesIn(new)
        PROVE  x \notin Q /\ x \notin ModesIn(act)
    <2> SUFFICES ASSUME x \in Q \/ x \in ModesIn(act) PROVE FALSE
      OBVIOUS
    <2>1. FromSource(ops, p, x) \/ FromFired(c, Q, x)
      BY DEF Flow, Come
    <2>2. FromCell(c, h, x)
      BY <1>1
    <2>3. CASE FromSource(ops, p, x)
      <3>1. PICK n \in 1 .. p - 1 : ops[n].kind = "EPPS" /\ x \in ToSet(ops[n].sinks)
        BY <2>3 DEF FromSource
      <3>2. n \in DOMAIN ops
        BY StructTypes
      <3> QED BY <1>1, <2>2, <3>1, <3>2, NotBoth
    <2>4. CASE FromFired(c, Q, x)
      <3>1. PICK g \in DOMAIN c : Fired(c, Q, g) /\ FromCell(c, g, x)
        BY <2>4 DEF FromFired
      <3>2. g = h
        BY <1>1, <2>2, <3>1, OneOrigin
      <3> QED BY <1>4, <3>1, <3>2
    <2> QED BY <2>1, <2>3, <2>4
  <1>6. \A g \in DOMAIN c : m \in SourcesIn(c[g].entries) => g = h
    <2>1. \A g \in DOMAIN c : m \in SourcesIn(c[g].entries) => R[k[m]] = g
      BY DEF Struct, LedFrom
    <2> QED BY <1>1, <2>1
  <1>7. /\ DOMAIN d = DOMAIN c
        /\ \A g \in DOMAIN c : d[g].kind = c[g].kind /\ d[g].entries = c[g].entries
    BY DEF Kept
  <1>8. \A g \in DOMAIN c : Fired(d, P, g) <=> (Fired(c, Q, g) \/ (g = h /\ Fired(c, P, h)))
    <2>1. ASSUME NEW g \in DOMAIN c, g # h
          PROVE  Fired(d, P, g) <=> Fired(c, Q, g)
      <3>1. \A i \in DOMAIN c[g].entries : c[g].entries[i].source # m
        BY <1>6, <2>1 DEF SourcesIn
      <3>2. d[g].entries = c[g].entries
        BY <1>7
      <3> QED BY <1>2, <3>1, <3>2 DEF Fired
    <2>2. Fired(d, P, h) <=> Fired(c, P, h)
      <3>1. d[h].entries = c[h].entries
        BY <1>1, <1>7
      <3> QED BY <3>1 DEF Fired
    <2> QED BY <1>4, <2>1, <2>2
  <1>9. \A g \in DOMAIN c : \A x : FromCell(d, g, x) <=> FromCell(c, g, x)
    BY <1>7 DEF FromCell
  <1>10. NoModeTwice(rest \o new) /\ ModesIn(rest \o new) = ModesIn(rest) \cup ModesIn(new)
    <2>1. NoModeTwice(new) /\ ModesIn(rest) \cap ModesIn(new) = {}
      BY <1>3, <1>5 DEF Reaches
    <2> QED BY <1>3, <2>1, ModesConcat
  <1>11. \A x \in ModesIn(rest \o new) : x \notin P
    <2>1. \A x \in ModesIn(rest) : x \notin Q /\ x # m
      BY <1>3 DEF Flow
    <2>2. \A x \in ModesIn(new) : x \notin Q /\ x # m
      BY <1>3, <1>5
    <2> QED BY <1>2, <1>10, <2>1, <2>2
  <1>12. Held(d, P)
    <2> SUFFICES ASSUME NEW g \in DOMAIN c, NEW i \in DOMAIN c[g].entries
                 PROVE  d[g].photons[i] # "None" <=> (c[g].kind \in Grouping /\ c[g].entries[i].source \in P)
      BY <1>7 DEF Held
    <2>1. c[g].photons[i] # "None" <=> (c[g].kind \in Grouping /\ c[g].entries[i].source \in Q)
      BY DEF Flow, Held
    <2>2. d[g].photons[i] = IF g = h /\ c[g].kind \in Grouping /\ c[g].entries[i].source = m
                            THEN photon ELSE c[g].photons[i]
      BY DEF Kept
    <2>3. c[g].entries[i].source = m => g = h
      BY <1>6 DEF SourcesIn
    <2>4. photon # "None"
      BY DEF Photon
    <2> QED BY <1>2, <2>1, <2>2, <2>3, <2>4
  <1>13. Come(ops, p, d, rest \o new, P)
    <2> SUFFICES ASSUME NEW x
                 PROVE  (x \in P \/ x \in ModesIn(rest \o new)) <=> (FromSource(ops, p, x) \/ FromFired(d, P, x))
      BY DEF Come
    <2>1. (x \in Q \/ x \in ModesIn(act)) <=> (FromSource(ops, p, x) \/ FromFired(c, Q, x))
      BY DEF Flow, Come
    <2>2. FromFired(d, P, x) <=> (FromFired(c, Q, x) \/ (Fired(c, P, h) /\ FromCell(c, h, x)))
      BY <1>1, <1>7, <1>8, <1>9 DEF FromFired
    <2>3. x \in ModesIn(new) <=> (Fired(c, P, h) /\ FromCell(c, h, x))
      BY <1>1, <1>2
    <2> QED BY <1>2, <1>3, <1>10, <2>1, <2>2, <2>3
  <1>14. Answers(d, after, P)
    <2>1. \A x : Measured(d, P, x) <=> (Measured(c, Q, x) \/ (x = m /\ c[h].kind = "SPD"))
      <3>1. \A x : \A g \in DOMAIN c : (x \in SourcesIn(d[g].entries) <=> x \in SourcesIn(c[g].entries))
                                       /\ d[g].kind = c[g].kind
        BY <1>7
      <3> QED BY <1>1, <1>2, <1>6, <1>7, <3>1 DEF Measured
    <2>2. NoPacketTwice(res) /\ \A x : x \in PacketsIn(res) <=> Measured(c, Q, x)
      BY DEF Flow, Answers
    <2>3. CASE c[h].kind = "SPD"
      <3>1. PICK r : r = [packet |-> m, photon |-> photon]
        OBVIOUS
      <3>2. r.packet = m /\ r \in T /\ after = Append(res, r)
        BY <2>3, <3>1 DEF Answered
      <3>3. m \notin PacketsIn(res)
        BY <1>3, <2>2 DEF Measured
      <3>4. NoPacketTwice(after) /\ \A x : x \in PacketsIn(after) <=> (x \in PacketsIn(res) \/ x = m)
        BY <2>2, <3>2, <3>3, NewAnswer
      <3> QED BY <2>1, <2>2, <2>3, <3>4 DEF Answers
    <2>4. CASE c[h].kind # "SPD"
      <3>1. after = res
        BY <2>4 DEF Answered
      <3> QED BY <2>1, <2>2, <2>4, <3>1 DEF Answers
    <2> QED BY <2>3, <2>4
  <1> QED BY <1>2, <1>10, <1>11, <1>12, <1>13, <1>14 DEF Flow
-----------------------------------------------------------------------------
(* Counting photons                                                        *)

OneToOne(f, S, T) ==
    /\ f \in [S -> T]
    /\ \A x, y \in S : f[x] = f[y] => x = y
    /\ \A t \in T : \E x \in S : f[x] = t

LEMMA SameSize ==
    ASSUME NEW S, NEW T, NEW f, IsFiniteSet(S), OneToOne(f, S, T)
    PROVE  IsFiniteSet(T) /\ Cardinality(T) = Cardinality(S)
PROOF
  <1>1. f \in Injection(S, T)
    BY DEF OneToOne, Injection, IsInjective
  <1>2. f \in Surjection(S, T)
    BY DEF OneToOne, Surjection
  <1>3. ExistsBijection(S, T)
    BY <1>1, <1>2 DEF ExistsBijection, Bijection
  <1> QED BY <1>3, FS_Bijection

Singles(s) == {i \in DOMAIN s : s[i].photon = "Single"}

LEMMA PhotonsAre ==
    ASSUME NEW S, NEW s \in Seq(S)
    PROVE  /\ Photons(s) = Cardinality(Singles(s)) /\ Photons(s) \in Nat
           /\ IsFiniteSet(Singles(s)) /\ Singles(s) \subseteq 1 .. Len(s)
PROOF
  <1>1. PICK n : n = Len(s)
    OBVIOUS
  <1>2. n \in Nat /\ DOMAIN s = 1 .. n
    BY <1>1, LenProperties
  <1>3. IsFiniteSet(1 .. n)
    BY <1>2, FS_Interval
  <1>4. Singles(s) \subseteq 1 .. n
    BY <1>2 DEF Singles
  <1>5. IsFiniteSet(Singles(s))
    BY <1>3, <1>4, FS_Subset
  <1>6. Photons(s) = Cardinality(Singles(s))
    BY DEF Photons, Singles
  <1> QED BY <1>1, <1>4, <1>5, <1>6, FS_CardinalityType

LEMMA PhotonsConcat ==
    ASSUME NEW S, NEW s \in Seq(S), NEW t \in Seq(S)
    PROVE  Photons(s \o t) = Photons(s) + Photons(t)
PROOF
  <1>1. PICK a, b, u : a = Len(s) /\ b = Len(t) /\ u = s \o t
    OBVIOUS
  <1>2. a \in Nat /\ b \in Nat /\ DOMAIN s = 1 .. a /\ DOMAIN t = 1 .. b
    BY <1>1, LenProperties
  <1>3. u \in Seq(S) /\ \A i \in 1 .. a + b : u[i] = IF i <= a THEN s[i] ELSE t[i - a]
    BY <1>1, ConcatProperties
  <1>4. Len(u) = a + b
    BY <1>1, ConcatProperties
  <1>5. DOMAIN u = 1 .. a + b
    BY <1>3, <1>4, LenProperties
  <1>6. PICK x, y, z : x = Singles(s) /\ y = Singles(t) /\ z = {a + i : i \in Singles(t)}
    OBVIOUS
  <1>7. /\ Photons(s) = Cardinality(x) /\ Photons(t) = Cardinality(y) /\ Photons(u) = Cardinality(Singles(u))
        /\ IsFiniteSet(x) /\ IsFiniteSet(y) /\ x \subseteq 1 .. a /\ y \subseteq 1 .. b
        /\ Photons(s) \in Nat /\ Photons(t) \in Nat
    BY <1>1, <1>3, <1>6, PhotonsAre
  <1>8. IsFiniteSet(z) /\ Cardinality(z) = Cardinality(y)
    <2>1. PICK f : f = [i \in y |-> a + i]
      OBVIOUS
    <2>2. \A i, j \in y : a + i = a + j => i = j
      BY <1>2, <1>7
    <2>3. OneToOne(f, y, z)
      BY <1>6, <2>1, <2>2 DEF OneToOne
    <2> QED BY <1>7, <2>3, SameSize
  <1>9. Singles(u) = x \cup z
    <2>1. ASSUME NEW i \in Singles(u)
          PROVE  i \in x \cup z
      <3>1. i \in 1 .. a + b /\ u[i].photon = "Single"
        BY <1>5 DEF Singles
      <3>2. CASE i <= a
        <4>1. i \in 1 .. a /\ u[i] = s[i]
          BY <1>2, <1>3, <3>1, <3>2
        <4> QED BY <1>2, <1>6, <3>1, <4>1 DEF Singles
      <3>3. CASE ~ (i <= a)
        <4>1. i - a \in 1 .. b /\ u[i] = t[i - a] /\ a + (i - a) = i
          BY <1>2, <1>3, <3>1, <3>3
        <4>2. i - a \in Singles(t)
          BY <1>2, <3>1, <4>1 DEF Singles
        <4> QED BY <1>6, <4>1, <4>2
      <3> QED BY <3>2, <3>3
    <2>2. ASSUME NEW i \in x
          PROVE  i \in Singles(u)
      <3>1. i \in 1 .. a /\ s[i].photon = "Single"
        BY <1>2, <1>6 DEF Singles
      <3>2. i \in 1 .. a + b /\ u[i] = s[i]
        BY <1>2, <1>3, <3>1
      <3> QED BY <1>5, <3>1, <3>2 DEF Singles
    <2>3. ASSUME NEW i \in y
          PROVE  a + i \in Singles(u)
      <3>1. i \in 1 .. b /\ t[i].photon = "Single"
        BY <1>2, <1>6 DEF Singles
      <3>2. a + i \in 1 .. a + b /\ ~ (a + i <= a) /\ (a + i) - a = i
        BY <1>2, <3>1
      <3>3. u[a + i] = t[i]
        BY <1>3, <3>2
      <3> QED BY <1>5, <3>1, <3>2, <3>3 DEF Singles
    <2> QED BY <1>6, <2>1, <2>2, <2>3
  <1>10. x \cap z = {}
    <2>1. \A i \in y : a + i \notin x
      BY <1>2, <1>7
    <2> QED BY <1>6, <2>1
  <1>11. Cardinality(x \cup z) = Cardinality(x) + Cardinality(z)
    <2>1. Cardinality(x \cup z) = Cardinality(x) + Cardinality(z) - 0
      BY <1>7, <1>8, <1>10, FS_Union, FS_EmptySet
    <2> QED BY <1>7, <1>8, <2>1
  <1> QED BY <1>1, <1>7, <1>8, <1>9, <1>11

LEMMA PhotonsOfOne ==
    ASSUME NEW S, NEW x \in S
    PROVE  Photons(<<x>>) = IF x.photon = "Single" THEN 1 ELSE 0
PROOF
  <1>1. <<x>> \in Seq(S) /\ DOMAIN <<x>> = {1} /\ <<x>>[1] = x
    OBVIOUS
  <1>2. Singles(<<x>>) = IF x.photon = "Single" THEN {1} ELSE {}
    BY <1>1 DEF Singles
  <1>3. Photons(<<x>>) = Cardinality(Singles(<<x>>))
    BY <1>1, PhotonsAre
  <1>4. Cardinality({1}) = 1 /\ Cardinality({}) = 0
    BY FS_Singleton, FS_EmptySet
  <1> QED BY <1>2, <1>3, <1>4

LEMMA PhotonsAppend ==
    ASSUME NEW S, NEW s \in Seq(S), NEW x \in S
    PROVE  Photons(Append(s, x)) = Photons(s) + (IF x.photon = "Single" THEN 1 ELSE 0)
PROOF
  <1>1. Append(s, x) = s \o <<x>> /\ <<x>> \in Seq(S)
    OBVIOUS
  <1>2. Photons(s \o <<x>>) = Photons(s) + Photons(<<x>>)
    BY <1>1, PhotonsConcat
  <1> QED BY <1>1, <1>2, PhotonsOfOne

LEMMA PhotonsOfNone == Photons(<<>>) = 0
PROOF
  <1>1. Singles(<<>>) = {} /\ <<>> \in Seq({})
    BY DEF Singles
  <1> QED BY <1>1, PhotonsAre, FS_EmptySet

\* Of two modes that leave, one has the photon.
OneOf(s, x, y, photon) ==
    /\ s[1].mode = x /\ s[2].mode = y
    /\ {s[1].photon, s[2].photon} \subseteq Photon
    /\ \/ s[1].photon = photon /\ s[2].photon = "Vac"
       \/ s[2].photon = photon /\ s[1].photon = "Vac"

Leaving(M, sinks, photon, right, s) ==
    s = Exits(sinks, photon, right) /\ sinks \in Seq(M) /\ Len(sinks) = 2 /\ photon \in Photon

LEMMA ExitsAre ==
    ASSUME NEW M, NEW sinks, NEW photon, NEW right, NEW s, Leaving(M, sinks, photon, right, s)
    PROVE  /\ s \in Seq([mode : M, photon : Photon]) /\ Len(s) = 2
           /\ OneOf(s, sinks[1], sinks[2], photon)
PROOF
  <1>0. s = Exits(sinks, photon, right) /\ sinks \in Seq(M) /\ Len(sinks) = 2 /\ photon \in Photon
    BY DEF Leaving
  <1>1. sinks[1] \in M /\ sinks[2] \in M
    <2>1. 1 \in 1 .. Len(sinks) /\ 2 \in 1 .. Len(sinks)
      BY <1>0
    <2> QED BY <1>0, <2>1, ElementOfSeq
  <1>2. PICK a, b : a = (IF right THEN "Vac" ELSE photon) /\ b = (IF right THEN photon ELSE "Vac")
    OBVIOUS
  <1>3. a \in Photon /\ b \in Photon /\ ((a = photon /\ b = "Vac") \/ (b = photon /\ a = "Vac"))
    BY <1>0, <1>2 DEF Photon
  <1>4. s = <<[mode |-> sinks[1], photon |-> a], [mode |-> sinks[2], photon |-> b]>>
    BY <1>0, <1>2 DEF Exits
  <1>5. PICK x, y : x = [mode |-> sinks[1], photon |-> a] /\ y = [mode |-> sinks[2], photon |-> b]
    OBVIOUS
  <1>6. /\ x \in [mode : M, photon : Photon] /\ y \in [mode : M, photon : Photon]
        /\ x.mode = sinks[1] /\ y.mode = sinks[2] /\ x.photon = a /\ y.photon = b
    BY <1>1, <1>3, <1>5
  <1>7. s = <<x, y>>
    BY <1>4, <1>5
  <1>8. PICK S : S = [mode : M, photon : Photon]
    OBVIOUS
  <1>9. s \in Seq(S) /\ Len(s) = 2 /\ s[1] = x /\ s[2] = y
    BY <1>6, <1>7, <1>8
  <1> QED BY <1>3, <1>6, <1>8, <1>9 DEF OneOf
\* All that leaves a group at once.
Exiting(n, M, f, X, Y, photons, g) ==
    /\ Pairs(n, [mode : M, photon : Photon], f) /\ g = FlattenSeq(f)
    /\ \A i \in 1 .. n : OneOf(f[i], X[i], Y[i], photons[i])

LEMMA OddOrEven ==
    ASSUME NEW n \in Nat, NEW k \in 1 .. 2 * n
    PROVE  \E i \in 1 .. n : k = 2 * i - 1 \/ k = 2 * i
PROOF
  <1>1. PICK i : i = (k + 1) \div 2
    OBVIOUS
  <1>2. i \in Int /\ 2 * i <= k + 1 /\ k + 1 < 2 * i + 2
    BY <1>1
  <1>3. i \in 1 .. n /\ (k = 2 * i - 1 \/ k = 2 * i)
    BY <1>2
  <1> QED BY <1>3

\* They lie one after the other.
Laid(n, S, f, g) ==
    /\ g \in Seq(S) /\ n \in Nat /\ DOMAIN g = 1 .. 2 * n
    /\ \A i \in 1 .. n : /\ 2 * i - 1 \in 1 .. 2 * n /\ 2 * i \in 1 .. 2 * n
                         /\ g[2 * i - 1] = f[i][1] /\ g[2 * i] = f[i][2]

LEMMA ExitingIs ==
    ASSUME NEW n, NEW M, NEW f, NEW X, NEW Y, NEW photons, NEW g,
           Exiting(n, M, f, X, Y, photons, g)
    PROVE  Laid(n, [mode : M, photon : Photon], f, g)
PROOF
  <1>1. PICK S : S = [mode : M, photon : Photon]
    OBVIOUS
  <1>2. Pairs(n, S, f)
    BY <1>1 DEF Exiting
  <1>3. n \in Nat
    BY <1>2 DEF Pairs
  <1>4. /\ g \in Seq(S) /\ Len(g) = 2 * n
        /\ \A i \in 1 .. n : g[2 * i - 1] = f[i][1] /\ g[2 * i] = f[i][2]
    <2>1. g = FlattenSeq(f)
      BY DEF Exiting
    <2> QED BY <1>2, <2>1, FlatPairs
  <1>5. DOMAIN g = 1 .. 2 * n
    BY <1>4, LenProperties
  <1>6. \A i \in 1 .. n : 2 * i - 1 \in 1 .. 2 * n /\ 2 * i \in 1 .. 2 * n
    BY <1>3
  <1> QED BY <1>1, <1>3, <1>4, <1>5, <1>6 DEF Laid

LEMMA ModesExiting ==
    ASSUME NEW n, NEW M, NEW f, NEW X, NEW Y, NEW photons, NEW g,
           Exiting(n, M, f, X, Y, photons, g)
    PROVE  /\ \A x : x \in ModesIn(g) <=> \E i \in 1 .. n : x = X[i] \/ x = Y[i]
           /\ (\A i, j \in 1 .. n : (X[i] = X[j] => i = j) /\ (Y[i] = Y[j] => i = j) /\ X[i] # Y[j])
              => NoModeTwice(g)
PROOF
  <1>1. /\ n \in Nat /\ DOMAIN g = 1 .. 2 * n
        /\ \A i \in 1 .. n : /\ 2 * i - 1 \in 1 .. 2 * n /\ 2 * i \in 1 .. 2 * n
                             /\ g[2 * i - 1] = f[i][1] /\ g[2 * i] = f[i][2]
    <2>1. Laid(n, [mode : M, photon : Photon], f, g)
      BY ExitingIs
    <2> QED BY <2>1 DEF Laid
  <1>2. \A i \in 1 .. n : f[i][1].mode = X[i] /\ f[i][2].mode = Y[i]
    BY DEF Exiting, OneOf
  <1>3. \A i \in 1 .. n : g[2 * i - 1].mode = X[i] /\ g[2 * i].mode = Y[i]
    BY <1>1, <1>2
  <1>4. ASSUME NEW l \in 1 .. 2 * n
        PROVE  \E i \in 1 .. n : (l = 2 * i - 1 /\ g[l].mode = X[i]) \/ (l = 2 * i /\ g[l].mode = Y[i])
    <2>1. PICK i \in 1 .. n : l = 2 * i - 1 \/ l = 2 * i
      BY <1>1, OddOrEven
    <2>2. g[2 * i - 1].mode = X[i] /\ g[2 * i].mode = Y[i]
      BY <1>3
    <2>3. CASE l = 2 * i - 1
      BY <2>2, <2>3
    <2>4. CASE l = 2 * i
      BY <2>2, <2>4
    <2> QED BY <2>1, <2>3, <2>4
  <1>5. ASSUME NEW x, x \in ModesIn(g)
        PROVE  \E i \in 1 .. n : x = X[i] \/ x = Y[i]
    <2>1. PICK l \in 1 .. 2 * n : x = g[l].mode
      BY <1>1, <1>5 DEF ModesIn
    <2> QED BY <1>4, <2>1
  <1>6. ASSUME NEW i \in 1 .. n
        PROVE  X[i] \in ModesIn(g) /\ Y[i] \in ModesIn(g)
    <2>1. 2 * i - 1 \in DOMAIN g /\ 2 * i \in DOMAIN g /\ g[2 * i - 1].mode = X[i] /\ g[2 * i].mode = Y[i]
      BY <1>1, <1>3
    <2> QED BY <2>1 DEF ModesIn
  <1>7. ASSUME \A i, j \in 1 .. n : (X[i] = X[j] => i = j) /\ (Y[i] = Y[j] => i = j) /\ X[i] # Y[j]
        PROVE  NoModeTwice(g)
    <2> SUFFICES ASSUME NEW l \in 1 .. 2 * n, NEW m \in 1 .. 2 * n, g[l].mode = g[m].mode
                 PROVE  l = m
      BY <1>1 DEF NoModeTwice
    <2>1. PICK i \in 1 .. n : (l = 2 * i - 1 /\ g[l].mode = X[i]) \/ (l = 2 * i /\ g[l].mode = Y[i])
      BY <1>4
    <2>2. PICK j \in 1 .. n : (m = 2 * j - 1 /\ g[m].mode = X[j]) \/ (m = 2 * j /\ g[m].mode = Y[j])
      BY <1>4
    <2>3. i = j
      BY <1>7, <2>1, <2>2
    <2>4. X[i] # Y[i]
      BY <1>7
    <2> QED BY <2>1, <2>2, <2>3, <2>4
  <1> QED BY <1>5, <1>6, <1>7

Lit(n, photons) == {i \in 1 .. n : photons[i] = "Single"}

LEMMA PhotonsExiting ==
    ASSUME NEW n, NEW M, NEW f, NEW X, NEW Y, NEW photons, NEW g,
           Exiting(n, M, f, X, Y, photons, g), NEW lit, lit = Lit(n, photons)
    PROVE  IsFiniteSet(lit) /\ Photons(g) = Cardinality(lit)
PROOF
  <1>1. /\ n \in Nat /\ DOMAIN g = 1 .. 2 * n /\ g \in Seq([mode : M, photon : Photon])
        /\ \A i \in 1 .. n : /\ 2 * i - 1 \in 1 .. 2 * n /\ 2 * i \in 1 .. 2 * n
                             /\ g[2 * i - 1] = f[i][1] /\ g[2 * i] = f[i][2]
    <2>1. Laid(n, [mode : M, photon : Photon], f, g)
      BY ExitingIs
    <2> QED BY <2>1 DEF Laid
  <1>2. ASSUME NEW i \in 1 .. n
        PROVE  \/ f[i][1].photon = photons[i] /\ f[i][2].photon = "Vac"
               \/ f[i][2].photon = photons[i] /\ f[i][1].photon = "Vac"
    <2>1. OneOf(f[i], X[i], Y[i], photons[i])
      BY DEF Exiting
    <2> QED BY <2>1 DEF OneOf
  <1>3. PICK h : h = [i \in lit |-> IF f[i][1].photon = "Single" THEN 2 * i - 1 ELSE 2 * i]
    OBVIOUS
  <1>4. PICK T : T = Singles(g)
    OBVIOUS
  <1>5. IsFiniteSet(lit)
    <2>1. IsFiniteSet(1 .. n) /\ lit \subseteq 1 .. n
      BY <1>1, FS_Interval DEF Lit
    <2> QED BY <2>1, FS_Subset
  <1>6. \A i \in lit : i \in 1 .. n /\ photons[i] = "Single" /\ (h[i] = 2 * i - 1 \/ h[i] = 2 * i)
    BY <1>3 DEF Lit
  <1>7. h \in [lit -> T]
    <2>1. ASSUME NEW i \in lit
          PROVE  h[i] \in T
      <3>1. CASE f[i][1].photon = "Single"
        <4>1. h[i] = 2 * i - 1 /\ h[i] \in DOMAIN g /\ g[h[i]].photon = "Single"
          BY <1>1, <1>3, <1>6, <3>1
        <4> QED BY <1>4, <4>1 DEF Singles
      <3>2. CASE f[i][1].photon # "Single"
        <4>1. f[i][2].photon = "Single"
          BY <1>2, <1>6, <3>2
        <4>2. h[i] = 2 * i /\ h[i] \in DOMAIN g /\ g[h[i]].photon = "Single"
          BY <1>1, <1>3, <1>6, <3>2, <4>1
        <4> QED BY <1>4, <4>2 DEF Singles
      <3> QED BY <3>1, <3>2
    <2> QED BY <1>3, <2>1
  <1>8. ASSUME NEW i \in lit, NEW j \in lit, h[i] = h[j]
        PROVE  i = j
    <2>1. i \in Nat /\ j \in Nat
      BY <1>1, <1>6
    <2> QED BY <1>6, <1>8, <2>1
  <1>9. ASSUME NEW t \in T
        PROVE  \E i \in lit : h[i] = t
    <2>1. t \in 1 .. 2 * n /\ g[t].photon = "Single"
      BY <1>1, <1>4 DEF Singles
    <2>2. PICK i \in 1 .. n : t = 2 * i - 1 \/ t = 2 * i
      BY <1>1, <2>1, OddOrEven
    <2>3. CASE t = 2 * i - 1
      <3>1. f[i][1].photon = "Single"
        BY <1>1, <2>1, <2>3
      <3>2. photons[i] = "Single"
        BY <1>2, <3>1
      <3> QED BY <1>3, <2>3, <3>1, <3>2 DEF Lit
    <2>4. CASE t = 2 * i
      <3>1. f[i][2].photon = "Single"
        BY <1>1, <2>1, <2>4
      <3>2. photons[i] = "Single" /\ f[i][1].photon = "Vac"
        BY <1>2, <3>1
      <3> QED BY <1>3, <2>4, <3>2 DEF Lit
    <2> QED BY <2>2, <2>3, <2>4
  <1>10. Cardinality(T) = Cardinality(lit)
    <2>1. OneToOne(h, lit, T)
      BY <1>7, <1>8, <1>9 DEF OneToOne
    <2> QED BY <1>5, <2>1, SameSize
  <1> QED BY <1>1, <1>4, <1>5, <1>10, PhotonsAre
-----------------------------------------------------------------------------
(* The photon on top of the stack and the cell it reaches                  *)

ModeAndPhoton(ops)   == [mode : ModesOf(ops), photon : Photon]
DetectedIn(ops)      == {ops[i].sources[1] : i \in {j \in DOMAIN ops : ops[j].kind = "SPD"}}
PacketAndPhoton(ops) == [packet : DetectedIn(ops), photon : Photon]

\* m and photon are on top of the stack, and lead to the cell h.
AtTop(ops, p, k, R, act, m, photon, h) ==
    /\ p \notin DOMAIN ops /\ act # <<>> /\ act \in Seq(ModeAndPhoton(ops))
    /\ m = Last(act).mode /\ photon = Last(act).photon
    /\ k[m] # 0 /\ h = R[k[m]]

LEMMA TopTyped ==
    ASSUME NEW ops, NEW p, NEW k, NEW R, NEW act, NEW m, NEW photon, NEW h,
           AtTop(ops, p, k, R, act, m, photon, h)
    PROVE  m \in ModesOf(ops) /\ photon \in Photon
PROOF
  <1>1. PICK S, x : S = ModeAndPhoton(ops) /\ x = Last(act)
    OBVIOUS
  <1>2. act \in Seq(S) /\ act # <<>> /\ m = x.mode /\ photon = x.photon
    BY <1>1 DEF AtTop
  <1>3. x \in S
    BY <1>1, <1>2, TopAndRest
  <1> QED BY <1>1, <1>2, <1>3 DEF ModeAndPhoton

\* The entries of the cell a mode leads to.
Holds(ops, c, h, m, s, n) ==
    /\ h \in DOMAIN c /\ c[h].kind \in Grouping \cup PlainKinds
    /\ s = c[h].entries /\ s \in Seq(Elements(ops)) /\ n \in Nat /\ DOMAIN s = 1 .. n
    /\ c[h].photons \in Seq(Photon \cup {"None"}) /\ DOMAIN c[h].photons = 1 .. n
    /\ \E i \in 1 .. n : s[i].source = m
    /\ c[h].kind \in PlainKinds => n = 1 /\ s[1].source = m
    /\ \A i, j \in 1 .. n : s[i].source = s[j].source => i = j
    /\ \A i \in 1 .. n : /\ s[i].sinks \in Seq(ModesOf(ops))
                         /\ c[h].kind = "Single" => Len(s[i].sinks) = 1
                         /\ c[h].kind = "SPD" => Len(s[i].sinks) = 0
                         /\ c[h].kind \in Grouping \cup {"DualUnivariate"} => Len(s[i].sinks) = 2
    /\ \A i, j \in 1 .. n : \A a \in DOMAIN s[i].sinks, b \in DOMAIN s[j].sinks :
          s[i].sinks[a] = s[j].sinks[b] => i = j /\ a = b
    /\ c[h].kind = "SPD" => m \in DetectedIn(ops)

LEMMA CellReached ==
    ASSUME NEW ops, NEW p, NEW c, NEW k, NEW R, NEW D, Struct(ops, p, c, k, R, D),
           NEW act, NEW m, NEW photon, NEW h, AtTop(ops, p, k, R, act, m, photon, h),
           NEW s, s = c[h].entries, NEW n, n = Len(s)
    PROVE  Holds(ops, c, h, m, s, n)
PROOF
  <1>1. /\ Shaped(ops) /\ OneWayOn(ops) /\ OneWayHere(ops) /\ DOMAIN ops = 1 .. Len(ops) /\ Len(ops) \in Nat
        /\ p \in Nat /\ p \in 1 .. Len(ops) + 1
        /\ \A g \in DOMAIN c : c[g] \in CellSet(ops) /\ R[g] \in DOMAIN c
        /\ k \in [ModesOf(ops) -> 0 .. Len(c)]
    BY StructTypes
  <1>2. m \in DOMAIN k /\ k[m] # 0 /\ h = R[k[m]]
    BY <1>1, TopTyped DEF AtTop
  <1>3. k[m] \in DOMAIN c /\ h \in DOMAIN c /\ m \in SourcesIn(s)
    BY <1>1, <1>2 DEF Struct, LedTo
  <1>4. PICK cell : cell = c[h]
    OBVIOUS
  <1>5. cell \in CellSet(ops) /\ Fit(ops, p, cell) /\ s = cell.entries
    BY <1>1, <1>3, <1>4 DEF Struct
  <1>6. s \in Seq(Elements(ops)) /\ cell.photons \in Seq(Photon \cup {"None"}) /\ cell.kind \in CellKinds
    BY <1>5 DEF CellSet
  <1>7. n \in Nat /\ DOMAIN s = 1 .. n /\ \A i \in 1 .. n : s[i] \in Elements(ops)
    <2>1. PICK E : E = Elements(ops)
      OBVIOUS
    <2>2. s \in Seq(E)
      BY <1>6, <2>1
    <2> QED BY <2>1, <2>2, LenProperties, ElementOfSeq
  <1>8. DOMAIN cell.photons = 1 .. n /\ Distinct(s) /\ (cell.kind \in PlainKinds => n = 1) /\ Comes(ops, p, cell)
    BY <1>5, <1>7 DEF Fit
  <1>9. PICK l \in 1 .. n : s[l].source = m
    BY <1>3, <1>7 DEF SourcesIn
  <1>10. \A i, j \in 1 .. n : s[i].source = s[j].source => i = j
    BY <1>7, <1>8 DEF Distinct
  <1>11. cell.kind \in Grouping \cup PlainKinds
    <2>1. RootedIn(c, R, D) /\ R[k[m]] = h
      BY <1>2 DEF Struct
    <2>2. c[h].kind # "Moved"
      BY <1>3, <2>1 DEF RootedIn
    <2> QED BY <1>4, <1>6, <2>2 DEF CellKinds
  <1>12. ASSUME NEW i \in 1 .. n
         PROVE  \E o \in DOMAIN ops : s[i] \in EntriesOf(ops[o]) /\ ops[o].kind = KindOf(cell.kind)
    <2>1. s[i] \in ToSet(cell.entries)
      BY <1>5, <1>7 DEF ToSet
    <2>2. PICK o \in 1 .. p - 1 : s[i] \in EntriesOf(ops[o]) /\ ops[o].kind = KindOf(cell.kind)
      BY <1>8, <2>1 DEF Comes
    <2>3. o \in DOMAIN ops
      BY <1>1
    <2> QED BY <2>2, <2>3
  <1>13. ASSUME NEW i \in 1 .. n
         PROVE  /\ s[i].sinks \in Seq(ModesOf(ops))
                /\ cell.kind = "Single" => Len(s[i].sinks) = 1
                /\ cell.kind = "SPD" => Len(s[i].sinks) = 0
                /\ cell.kind \in Grouping \cup {"DualUnivariate"} => Len(s[i].sinks) = 2
    <2>1. PICK o \in DOMAIN ops : s[i] \in EntriesOf(ops[o]) /\ ops[o].kind = KindOf(cell.kind)
      BY <1>12
    <2>2. PICK e : e = s[i]
      OBVIOUS
    <2>3. /\ e.sinks \in Seq(ModesOf(ops))
          /\ ops[o].kind = "Single" => Len(e.sinks) = 1
          /\ ops[o].kind = "SPD" => Len(e.sinks) = 0
          /\ ops[o].kind \in {"DualUnivariate", "DualBivariate"} => Len(e.sinks) = 2
      BY <1>1, <2>1, <2>2, EntryShape
    <2> QED BY <2>1, <2>2, <2>3 DEF KindOf, Grouping
  <1>14. ASSUME NEW i \in 1 .. n, NEW j \in 1 .. n, NEW a \in DOMAIN s[i].sinks, NEW b \in DOMAIN s[j].sinks,
                s[i].sinks[a] = s[j].sinks[b]
         PROVE  i = j /\ a = b
    <2>1. s[i] = s[j] /\ a = b
      BY <1>1, <1>7, <1>14 DEF OneWayHere
    <2> QED BY <1>10, <2>1
  <1>15. cell.kind = "SPD" => m \in DetectedIn(ops)
    <2> SUFFICES ASSUME cell.kind = "SPD" PROVE m \in DetectedIn(ops)
      OBVIOUS
    <2>1. PICK o \in DOMAIN ops : s[l] \in EntriesOf(ops[o]) /\ ops[o].kind = "SPD"
      BY <1>12 DEF KindOf, Grouping
    <2>2. ops[o].kind \in PlainKinds
      BY <2>1 DEF PlainKinds
    <2>3. s[l] = Entry(ops[o].sources[1], ops[o].sinks)
      BY <2>1, <2>2, PlainEntry
    <2>4. ops[o].sources[1] = m
      BY <1>9, <2>3 DEF Entry
    <2> QED BY <2>1, <2>4 DEF DetectedIn
  <1>16. cell.kind \in PlainKinds => n = 1 /\ s[1].source = m
    BY <1>8, <1>9
  <1> QED BY <1>3, <1>4, <1>5, <1>6, <1>7, <1>8, <1>9, <1>10, <1>11, <1>13, <1>14, <1>15, <1>16 DEF Holds
\* What comes out of an element.
PlainExit(c, h, s, photon, new) ==
    \/ c[h].kind = "Single" /\ new = <<[mode |-> s[1].sinks[1], photon |-> photon]>>
    \/ c[h].kind = "DualUnivariate" /\ \E right \in BOOLEAN : new = Exits(s[1].sinks, photon, right)
    \/ c[h].kind = "SPD" /\ new = <<>>

LEMMA PlainLeaves ==
    ASSUME NEW ops, NEW c, NEW h, NEW m, NEW s, NEW n, Holds(ops, c, h, m, s, n), c[h].kind \in PlainKinds,
           NEW photon \in Photon, NEW new, PlainExit(c, h, s, photon, new), NEW Q
    PROVE  /\ new \in Seq(ModeAndPhoton(ops)) /\ Reaches(c, h, Q, m, new)
           /\ Photons(new) = IF photon = "Single" /\ c[h].kind # "SPD" THEN 1 ELSE 0
PROOF
  <1>1. h \in DOMAIN c /\ s = c[h].entries /\ DOMAIN s = 1 .. 1 /\ s[1].source = m
    BY DEF Holds
  <1>2. PICK sinks, M, e : sinks = s[1].sinks /\ M = ModesOf(ops) /\ e = s[1]
    OBVIOUS
  <1>3. /\ sinks \in Seq(M)
        /\ c[h].kind = "Single" => Len(sinks) = 1
        /\ c[h].kind = "SPD" => Len(sinks) = 0
        /\ c[h].kind = "DualUnivariate" => Len(sinks) = 2
        /\ \A a, b \in DOMAIN sinks : sinks[a] = sinks[b] => a = b
    BY <1>1, <1>2 DEF Holds
  <1>4. DOMAIN sinks = 1 .. Len(sinks)
    BY <1>3, LenProperties
  <1>5. Fired(c, Q \cup {m}, h)
    <2>1. \A i \in DOMAIN s : i = 1
      BY <1>1
    <2> QED BY <1>1, <2>1 DEF Fired
  <1>6. \A x : FromCell(c, h, x) <=> x \in ToSet(sinks)
    <2>1. 1 \in DOMAIN s /\ \A i \in DOMAIN s : i = 1
      BY <1>1
    <2> QED BY <1>1, <1>2, <2>1 DEF FromCell
  <1>7. m \in SourcesIn(c[h].entries)
    <2>1. 1 \in DOMAIN s
      BY <1>1
    <2> QED BY <1>1, <2>1 DEF SourcesIn
  <1>8. ASSUME NoModeTwice(new), ModesIn(new) = ToSet(sinks)
        PROVE  Reaches(c, h, Q, m, new)
    BY <1>1, <1>5, <1>6, <1>7, <1>8 DEF Reaches
  <1>9. CASE c[h].kind = "Single"
    <2>1. PICK x : x = [mode |-> sinks[1], photon |-> photon]
      OBVIOUS
    <2>2. new = <<x>>
      BY <1>2, <1>9, <2>1 DEF PlainExit
    <2>3. DOMAIN sinks = {1} /\ sinks[1] \in M
      <3>1. DOMAIN sinks = 1 .. 1 /\ 1 \in 1 .. Len(sinks)
        BY <1>3, <1>4, <1>9
      <3> QED BY <1>3, <3>1, ElementOfSeq
    <2>4. x \in ModeAndPhoton(ops) /\ x.photon = photon /\ x.mode = sinks[1]
      BY <1>2, <2>1, <2>3 DEF ModeAndPhoton
    <2>5. PICK S : S = ModeAndPhoton(ops)
      OBVIOUS
    <2>6. new \in Seq(S) /\ DOMAIN new = {1} /\ new[1] = x
      BY <2>2, <2>4, <2>5
    <2>7. NoModeTwice(new) /\ ModesIn(new) = ToSet(sinks)
      BY <2>3, <2>4, <2>6 DEF NoModeTwice, ModesIn, ToSet
    <2>8. Photons(new) = IF photon = "Single" THEN 1 ELSE 0
      BY <2>2, <2>4, PhotonsOfOne
    <2> QED BY <1>8, <1>9, <2>5, <2>6, <2>7, <2>8
  <1>10. CASE c[h].kind = "DualUnivariate"
    <2>1. PICK right : new = Exits(sinks, photon, right)
      BY <1>2, <1>10 DEF PlainExit
    <2>2. Len(sinks) = 2 /\ DOMAIN sinks = 1 .. 2
      BY <1>3, <1>4, <1>10
    <2>3. /\ new \in Seq([mode : M, photon : Photon]) /\ Len(new) = 2
          /\ OneOf(new, sinks[1], sinks[2], photon)
      <3>1. Leaving(M, sinks, photon, right, new)
        BY <1>3, <2>1, <2>2 DEF Leaving
      <3> QED BY <3>1, ExitsAre
    <2>4. PICK S, a, b : S = [mode : M, photon : Photon] /\ a = new[1] /\ b = new[2]
      OBVIOUS
    <2>5. new \in Seq(S) /\ DOMAIN new = 1 .. 2 /\ a \in S /\ b \in S
      <3>1. new \in Seq(S) /\ Len(new) = 2
        BY <2>3, <2>4
      <3>2. DOMAIN new = 1 .. 2
        BY <3>1, LenProperties
      <3>3. 1 \in 1 .. Len(new) /\ 2 \in 1 .. Len(new)
        BY <3>1
      <3> QED BY <2>4, <3>1, <3>2, <3>3, ElementOfSeq
    <2>6. /\ a.mode = sinks[1] /\ b.mode = sinks[2]
          /\ (a.photon = photon /\ b.photon = "Vac") \/ (b.photon = photon /\ a.photon = "Vac")
      BY <2>3, <2>4 DEF OneOf
    <2>7. sinks[1] # sinks[2] /\ \A i \in 1 .. 2 : i = 1 \/ i = 2
      BY <1>3, <2>2
    <2>8. NoModeTwice(new)
      BY <2>4, <2>5, <2>6, <2>7 DEF NoModeTwice
    <2>9. ModesIn(new) = {sinks[1], sinks[2]} /\ ToSet(sinks) = {sinks[1], sinks[2]}
      BY <2>2, <2>4, <2>5, <2>6, <2>7 DEF ModesIn, ToSet
    <2>10. <<a>> \in Seq(S) /\ Len(<<a>>) = 1 /\ <<a>>[1] = a
      BY <2>5
    <2>11. new = Append(<<a>>, b)
      <3>1. PICK t, u : t = <<a>> /\ u = Append(t, b)
        OBVIOUS
      <3>2. t \in Seq(S) /\ Len(t) = 1 /\ t[1] = a
        BY <2>10, <3>1
      <3>3. u \in Seq(S) /\ Len(u) = 1 + 1 /\ (\A i \in 1 .. 1 : u[i] = t[i]) /\ u[1 + 1] = b
        BY <2>5, <3>1, <3>2, AppendProperties
      <3>4. u[1] = a /\ u[2] = b /\ Len(u) = 2
        BY <3>2, <3>3
      <3>5. \A i \in 1 .. 2 : new[i] = u[i]
        BY <2>4, <2>7, <3>4
      <3>6. Len(new) = 2
        BY <2>3
      <3>7. new = u
        BY <2>5, <3>3, <3>4, <3>5, <3>6, SeqEqual
      <3> QED BY <3>1, <3>7
    <2>12. Photons(new) = IF photon = "Single" THEN 1 ELSE 0
      <3>1. Photons(new) = Photons(<<a>>) + (IF b.photon = "Single" THEN 1 ELSE 0)
        BY <2>5, <2>10, <2>11, PhotonsAppend
      <3>2. Photons(<<a>>) = (IF a.photon = "Single" THEN 1 ELSE 0)
        BY <2>5, PhotonsOfOne
      <3> QED BY <2>6, <3>1, <3>2
    <2> QED BY <1>2, <1>8, <1>10, <2>4, <2>5, <2>8, <2>9, <2>12 DEF ModeAndPhoton
  <1>11. CASE c[h].kind = "SPD"
    <2>1. new = <<>>
      BY <1>11 DEF PlainExit
    <2>2. NoModeTwice(new) /\ ModesIn(new) = {}
      BY <2>1 DEF NoModeTwice, ModesIn
    <2>3. ToSet(sinks) = {}
      <3>1. DOMAIN sinks = {}
        BY <1>3, <1>4, <1>11
      <3> QED BY <3>1 DEF ToSet
    <2>4. new \in Seq(ModeAndPhoton(ops))
      BY <2>1, EmptySeq
    <2> QED BY <1>8, <1>11, <2>1, <2>2, <2>3, <2>4, PhotonsOfNone
  <1> QED BY <1>9, <1>10, <1>11 DEF PlainKinds

\* The photons of a group with that of the mode, and all its entries have one.
Full(c, h, s, n, m, photon, photons) ==
    photons = [i \in 1 .. n |-> IF s[i].source = m THEN photon ELSE c[h].photons[i]]

LEMMA FullIsFired ==
    ASSUME NEW ops, NEW c, NEW h, NEW m, NEW s, NEW n, Holds(ops, c, h, m, s, n), c[h].kind \in Grouping,
           NEW photon \in Photon, NEW photons, Full(c, h, s, n, m, photon, photons), NEW Q, Held(c, Q)
    PROVE  IsReady(photons) <=> Fired(c, Q \cup {m}, h)
PROOF
  <1>1. h \in DOMAIN c /\ s = c[h].entries /\ DOMAIN s = 1 .. n
    BY DEF Holds
  <1>2. DOMAIN photons = 1 .. n
    BY DEF Full
  <1>3. ASSUME NEW i \in 1 .. n
        PROVE  photons[i] # "None" <=> s[i].source \in Q \cup {m}
    <2>1. photons[i] = IF s[i].source = m THEN photon ELSE c[h].photons[i]
      BY DEF Full
    <2>2. c[h].photons[i] # "None" <=> s[i].source \in Q
      BY <1>1 DEF Held
    <2>3. photon # "None"
      BY DEF Photon
    <2> QED BY <2>1, <2>2, <2>3
  <1> QED BY <1>1, <1>2, <1>3 DEF IsReady, Fired

LEMMA GroupWaits ==
    ASSUME NEW ops, NEW c, NEW h, NEW m, NEW s, NEW n, Holds(ops, c, h, m, s, n), NEW Q,
           ~ Fired(c, Q \cup {m}, h)
    PROVE  Reaches(c, h, Q, m, <<>>)
PROOF
  <1>1. h \in DOMAIN c /\ s = c[h].entries /\ DOMAIN s = 1 .. n /\ \E i \in 1 .. n : s[i].source = m
    BY DEF Holds
  <1>2. m \in SourcesIn(c[h].entries)
    BY <1>1 DEF SourcesIn
  <1>3. NoModeTwice(<<>>) /\ ModesIn(<<>>) = {}
    BY DEF NoModeTwice, ModesIn
  <1> QED BY <1>1, <1>2, <1>3 DEF Reaches

\* All of them leave.
GroupExit(s, n, photons, new) ==
    \E right \in [1 .. n -> BOOLEAN] :
        new = FlattenSeq([i \in 1 .. n |-> Exits(s[i].sinks, photons[i], right[i])])

LEMMA GroupLeaves ==
    ASSUME NEW ops, NEW c, NEW h, NEW m, NEW s, NEW n, Holds(ops, c, h, m, s, n), c[h].kind \in Grouping,
           NEW photon \in Photon, NEW photons, Full(c, h, s, n, m, photon, photons), IsReady(photons),
           NEW Q, Fired(c, Q \cup {m}, h), NEW new, GroupExit(s, n, photons, new),
           NEW lit, lit = Lit(n, photons)
    PROVE  /\ new \in Seq(ModeAndPhoton(ops)) /\ Reaches(c, h, Q, m, new)
           /\ IsFiniteSet(lit) /\ Photons(new) = Cardinality(lit)
PROOF
  <1>1. /\ h \in DOMAIN c /\ s = c[h].entries /\ DOMAIN s = 1 .. n /\ n \in Nat
        /\ \E i \in 1 .. n : s[i].source = m
        /\ c[h].photons \in Seq(Photon \cup {"None"}) /\ DOMAIN c[h].photons = 1 .. n
    BY DEF Holds
  <1>2. PICK right \in [1 .. n -> BOOLEAN] :
            new = FlattenSeq([i \in 1 .. n |-> Exits(s[i].sinks, photons[i], right[i])])
    BY DEF GroupExit
  <1>3. PICK f, X, Y, M : /\ f = [i \in 1 .. n |-> Exits(s[i].sinks, photons[i], right[i])]
                          /\ X = [i \in 1 .. n |-> s[i].sinks[1]] /\ Y = [i \in 1 .. n |-> s[i].sinks[2]]
                          /\ M = ModesOf(ops)
    OBVIOUS
  <1>4. \A i \in 1 .. n : s[i].sinks \in Seq(M) /\ Len(s[i].sinks) = 2
    BY <1>3 DEF Holds
  <1>5. \A i \in 1 .. n : photons[i] \in Photon
    <2> SUFFICES ASSUME NEW i \in 1 .. n PROVE photons[i] \in Photon
      OBVIOUS
    <2>1. photons[i] = IF s[i].source = m THEN photon ELSE c[h].photons[i]
      BY DEF Full
    <2>2. photons[i] # "None"
      BY DEF IsReady, Full
    <2>3. PICK q : q = c[h].photons
      OBVIOUS
    <2>4. q[i] \in Photon \cup {"None"}
      BY <1>1, <2>3, LenProperties
    <2> QED BY <2>1, <2>2, <2>3, <2>4
  <1>6. \A i \in 1 .. n : /\ f[i] \in Seq([mode : M, photon : Photon]) /\ Len(f[i]) = 2
                          /\ OneOf(f[i], X[i], Y[i], photons[i])
    <2> SUFFICES ASSUME NEW i \in 1 .. n
                 PROVE  /\ f[i] \in Seq([mode : M, photon : Photon]) /\ Len(f[i]) = 2
                        /\ OneOf(f[i], X[i], Y[i], photons[i])
      OBVIOUS
    <2>1. PICK sinks, g : sinks = s[i].sinks /\ g = f[i]
      OBVIOUS
    <2>2. g = Exits(sinks, photons[i], right[i]) /\ X[i] = sinks[1] /\ Y[i] = sinks[2]
      BY <1>3, <2>1
    <2>3. sinks \in Seq(M) /\ Len(sinks) = 2 /\ photons[i] \in Photon /\ right[i] \in BOOLEAN
      BY <1>2, <1>4, <1>5, <2>1
    <2>4. g \in Seq([mode : M, photon : Photon]) /\ Len(g) = 2 /\ OneOf(g, sinks[1], sinks[2], photons[i])
      <3>1. PICK ph, r : ph = photons[i] /\ r = right[i]
        OBVIOUS
      <3>2. Leaving(M, sinks, ph, r, g)
        BY <2>2, <2>3, <3>1 DEF Leaving
      <3>3. g \in Seq([mode : M, photon : Photon]) /\ Len(g) = 2 /\ OneOf(g, sinks[1], sinks[2], ph)
        BY <3>2, ExitsAre
      <3> QED BY <3>1, <3>3
    <2> QED BY <2>1, <2>2, <2>4
  <1>7. Exiting(n, M, f, X, Y, photons, new)
    <2>1. n # 0
      BY <1>1
    <2>2. PICK S : S = [mode : M, photon : Photon]
      OBVIOUS
    <2>3. f \in [1 .. n -> Seq(S)]
      BY <1>3, <1>6, <2>2
    <2>4. Pairs(n, S, f)
      BY <1>1, <1>6, <2>1, <2>3 DEF Pairs
    <2> QED BY <1>2, <1>3, <1>6, <2>2, <2>4 DEF Exiting
  <1>8. new \in Seq(ModeAndPhoton(ops))
    <2>1. Laid(n, [mode : M, photon : Photon], f, new)
      BY <1>7, ExitingIs
    <2>2. ModeAndPhoton(ops) = [mode : M, photon : Photon]
      BY <1>3 DEF ModeAndPhoton
    <2> QED BY <2>1, <2>2 DEF Laid
  <1>9. \A i \in 1 .. n : /\ DOMAIN s[i].sinks = 1 .. 2
                          /\ ToSet(s[i].sinks) = {X[i], Y[i]}
    <2> SUFFICES ASSUME NEW i \in 1 .. n
                 PROVE  DOMAIN s[i].sinks = 1 .. 2 /\ ToSet(s[i].sinks) = {X[i], Y[i]}
      OBVIOUS
    <2>1. PICK sinks : sinks = s[i].sinks
      OBVIOUS
    <2>2. sinks \in Seq(M) /\ Len(sinks) = 2 /\ X[i] = sinks[1] /\ Y[i] = sinks[2]
      BY <1>3, <1>4, <2>1
    <2>3. DOMAIN sinks = 1 .. 2 /\ \A a \in 1 .. 2 : a = 1 \/ a = 2
      BY <2>2, LenProperties
    <2>4. ToSet(sinks) = {sinks[1], sinks[2]}
      BY <2>3 DEF ToSet
    <2> QED BY <2>1, <2>2, <2>3, <2>4
  <1>10. NoModeTwice(new)
    <2>1. ASSUME NEW i \in 1 .. n, NEW j \in 1 .. n
          PROVE  (X[i] = X[j] => i = j) /\ (Y[i] = Y[j] => i = j) /\ X[i] # Y[j]
      <3>1. 1 \in DOMAIN s[i].sinks /\ 2 \in DOMAIN s[i].sinks /\ 1 \in DOMAIN s[j].sinks /\ 2 \in DOMAIN s[j].sinks
        BY <1>9
      <3>2. X[i] = s[i].sinks[1] /\ Y[i] = s[i].sinks[2] /\ X[j] = s[j].sinks[1] /\ Y[j] = s[j].sinks[2]
        BY <1>3
      <3>3. \A a \in DOMAIN s[i].sinks, b \in DOMAIN s[j].sinks : s[i].sinks[a] = s[j].sinks[b] => i = j /\ a = b
        BY DEF Holds
      <3> QED BY <3>1, <3>2, <3>3
    <2> QED BY <1>7, <2>1, ModesExiting
  <1>11. \A x : x \in ModesIn(new) <=> FromCell(c, h, x)
    <2>1. \A x : x \in ModesIn(new) <=> \E i \in 1 .. n : x = X[i] \/ x = Y[i]
      BY <1>7, ModesExiting
    <2>2. \A x : FromCell(c, h, x) <=> \E i \in 1 .. n : x \in ToSet(s[i].sinks)
      BY <1>1 DEF FromCell
    <2>3. \A i \in 1 .. n : \A x : x \in ToSet(s[i].sinks) <=> (x = X[i] \/ x = Y[i])
      BY <1>9
    <2>4. ASSUME NEW x
          PROVE  x \in ModesIn(new) <=> FromCell(c, h, x)
      <3>1. x \in ModesIn(new) <=> \E i \in 1 .. n : x = X[i] \/ x = Y[i]
        BY <2>1
      <3>2. FromCell(c, h, x) <=> \E i \in 1 .. n : x \in ToSet(s[i].sinks)
        BY <2>2
      <3>3. \A i \in 1 .. n : x \in ToSet(s[i].sinks) <=> (x = X[i] \/ x = Y[i])
        BY <2>3
      <3> QED BY <3>1, <3>2, <3>3
    <2> QED BY <2>4
  <1>12. Reaches(c, h, Q, m, new)
    <2>1. m \in SourcesIn(c[h].entries)
      BY <1>1 DEF SourcesIn
    <2> QED BY <1>1, <1>10, <1>11, <2>1 DEF Reaches
  <1> QED BY <1>7, <1>8, <1>12, PhotonsExiting
-----------------------------------------------------------------------------
(* The photons that wait                                                   *)

WaitingIn(c) ==
    {w \in UNION {{h} \X DOMAIN c[h].photons : h \in DOMAIN c} :
        c[w[1]].photons[w[2]] = "Single" /\ ~IsReady(c[w[1]].photons)}

LEMMA WaitingIs ==
    ASSUME NEW c, NEW w
    PROVE  w \in WaitingIn(c) <=>
               \E h \in DOMAIN c : \E i \in DOMAIN c[h].photons :
                   w = <<h, i>> /\ c[h].photons[i] = "Single" /\ ~IsReady(c[h].photons)
PROOF
  <1>1. ASSUME w \in WaitingIn(c)
        PROVE  \E h \in DOMAIN c : \E i \in DOMAIN c[h].photons :
                   w = <<h, i>> /\ c[h].photons[i] = "Single" /\ ~IsReady(c[h].photons)
    <2>1. PICK h \in DOMAIN c : w \in {h} \X DOMAIN c[h].photons
      BY <1>1 DEF WaitingIn
    <2>2. PICK i \in DOMAIN c[h].photons : w = <<h, i>>
      BY <2>1
    <2>3. w[1] = h /\ w[2] = i
      BY <2>2
    <2>4. c[h].photons[i] = "Single" /\ ~IsReady(c[h].photons)
      BY <1>1, <2>3 DEF WaitingIn
    <2> QED BY <2>2, <2>4
  <1>2. ASSUME NEW h \in DOMAIN c, NEW i \in DOMAIN c[h].photons,
               w = <<h, i>>, c[h].photons[i] = "Single", ~IsReady(c[h].photons)
        PROVE  w \in WaitingIn(c)
    <2>1. w \in {h} \X DOMAIN c[h].photons /\ w[1] = h /\ w[2] = i
      BY <1>2
    <2>2. w \in UNION {{g} \X DOMAIN c[g].photons : g \in DOMAIN c}
      BY <2>1
    <2> QED BY <1>2, <2>1, <2>2 DEF WaitingIn
  <1> QED BY <1>1, <1>2

\* The i-th photon of the cell h arrives.
Arrives(c, d, h, i, n, photon, photons) ==
    /\ h \in DOMAIN c /\ DOMAIN d = DOMAIN c
    /\ DOMAIN c[h].photons = 1 .. n /\ DOMAIN photons = 1 .. n /\ n \in Nat /\ i \in 1 .. n
    /\ \A g \in DOMAIN c : d[g].photons = IF g = h THEN photons ELSE c[g].photons
    /\ c[h].photons[i] = "None"
    /\ \A j \in 1 .. n : photons[j] = IF j = i THEN photon ELSE c[h].photons[j]

LEMMA WaitingElsewhere ==
    ASSUME NEW c, NEW d, NEW h, NEW i, NEW n, NEW photon, NEW photons,
           Arrives(c, d, h, i, n, photon, photons), NEW g, NEW j, g # h
    PROVE  <<g, j>> \in WaitingIn(d) <=> <<g, j>> \in WaitingIn(c)
PROOF
  <1>1. DOMAIN d = DOMAIN c /\ \A a \in DOMAIN c : a # h => d[a].photons = c[a].photons
    BY DEF Arrives
  <1>2. <<g, j>> \in WaitingIn(d) <=>
            g \in DOMAIN d /\ j \in DOMAIN d[g].photons /\ d[g].photons[j] = "Single" /\ ~IsReady(d[g].photons)
    BY WaitingIs
  <1>3. <<g, j>> \in WaitingIn(c) <=>
            g \in DOMAIN c /\ j \in DOMAIN c[g].photons /\ c[g].photons[j] = "Single" /\ ~IsReady(c[g].photons)
    BY WaitingIs
  <1> QED BY <1>1, <1>2, <1>3

\* What waits in the cell before and after.
LEMMA WaitingHere ==
    ASSUME NEW c, NEW d, NEW h, NEW i, NEW n, NEW photon, NEW photons,
           Arrives(c, d, h, i, n, photon, photons), NEW j
    PROVE  /\ <<h, j>> \in WaitingIn(c) <=> (j \in 1 .. n /\ j # i /\ photons[j] = "Single")
           /\ <<h, j>> \in WaitingIn(d) <=> (j \in 1 .. n /\ photons[j] = "Single" /\ ~IsReady(photons))
PROOF
  <1>1. /\ h \in DOMAIN c /\ DOMAIN d = DOMAIN c /\ d[h].photons = photons
        /\ DOMAIN c[h].photons = 1 .. n /\ DOMAIN photons = 1 .. n /\ i \in 1 .. n
        /\ c[h].photons[i] = "None"
        /\ \A l \in 1 .. n : photons[l] = IF l = i THEN photon ELSE c[h].photons[l]
    BY DEF Arrives
  <1>2. ~ IsReady(c[h].photons)
    BY <1>1 DEF IsReady
  <1>3. <<h, j>> \in WaitingIn(d) <=>
            h \in DOMAIN d /\ j \in DOMAIN d[h].photons /\ d[h].photons[j] = "Single" /\ ~IsReady(d[h].photons)
    BY WaitingIs
  <1>4. <<h, j>> \in WaitingIn(c) <=>
            h \in DOMAIN c /\ j \in DOMAIN c[h].photons /\ c[h].photons[j] = "Single" /\ ~IsReady(c[h].photons)
    BY WaitingIs
  <1> QED BY <1>1, <1>2, <1>3, <1>4

LEMMA WaitMore ==
    ASSUME NEW c, NEW d, NEW h, NEW i, NEW n, NEW photon, NEW photons,
           Arrives(c, d, h, i, n, photon, photons), ~ IsReady(photons), IsFiniteSet(WaitingIn(c))
    PROVE  /\ IsFiniteSet(WaitingIn(d))
           /\ Cardinality(WaitingIn(d)) = Cardinality(WaitingIn(c)) + (IF photon = "Single" THEN 1 ELSE 0)
PROOF
  <1>1. i \in 1 .. n /\ photons[i] = photon
    BY DEF Arrives
  <1>2. PICK V, W : V = WaitingIn(c) /\ W = WaitingIn(d)
    OBVIOUS
  <1>3. \A w \in V \cup W : \E g, j : w = <<g, j>>
    BY <1>2, WaitingIs
  <1>4. <<h, i>> \notin V
    BY <1>2, WaitingHere
  <1>5. \A j : j # i => (<<h, j>> \in W <=> <<h, j>> \in V)
    BY <1>2, WaitingHere
  <1>6. <<h, i>> \in W <=> photon = "Single"
    BY <1>1, <1>2, WaitingHere
  <1>7. \A g, j : g # h => (<<g, j>> \in W <=> <<g, j>> \in V)
    BY <1>2, WaitingElsewhere
  <1>8. CASE photon = "Single"
    <2>1. W = V \cup {<<h, i>>}
      BY <1>3, <1>5, <1>6, <1>7, <1>8
    <2> QED BY <1>2, <1>4, <1>8, <2>1, FS_AddElement
  <1>9. CASE photon # "Single"
    <2>1. W = V
      BY <1>3, <1>4, <1>5, <1>6, <1>7, <1>9
    <2> QED BY <1>2, <1>9, <2>1, FS_CardinalityType
  <1> QED BY <1>8, <1>9

LEMMA WaitLess ==
    ASSUME NEW c, NEW d, NEW h, NEW i, NEW n, NEW photon, NEW photons,
           Arrives(c, d, h, i, n, photon, photons), IsReady(photons), IsFiniteSet(WaitingIn(c)),
           NEW lit, lit = Lit(n, photons)
    PROVE  /\ IsFiniteSet(WaitingIn(d)) /\ Cardinality(lit) \in Nat
           /\ Cardinality(WaitingIn(d)) + Cardinality(lit) =
                 Cardinality(WaitingIn(c)) + (IF photon = "Single" THEN 1 ELSE 0)
PROOF
  <1>1. i \in 1 .. n /\ photons[i] = photon /\ n \in Nat
    BY DEF Arrives
  <1>2. PICK V, W, others, here : /\ V = WaitingIn(c) /\ W = WaitingIn(d)
                                 /\ others = lit \ {i} /\ here = {<<h, j>> : j \in others}
    OBVIOUS
  <1>3. \A w \in V \cup W : \E g, j : w = <<g, j>>
    BY <1>2, WaitingIs
  <1>4. \A j : <<h, j>> \in V <=> j \in others
    BY <1>2, WaitingHere DEF Lit
  <1>5. \A j : <<h, j>> \notin W
    BY <1>2, WaitingHere
  <1>6. \A g, j : g # h => (<<g, j>> \in W <=> <<g, j>> \in V)
    BY <1>2, WaitingElsewhere
  <1>7. IsFiniteSet(lit)
    <2>1. IsFiniteSet(1 .. n) /\ lit \subseteq 1 .. n
      BY <1>1, FS_Interval DEF Lit
    <2> QED BY <2>1, FS_Subset
  <1>8. IsFiniteSet(others) /\ Cardinality(others) = Cardinality(lit) - (IF photon = "Single" THEN 1 ELSE 0)
    <2>1. i \in lit <=> photon = "Single"
      BY <1>1 DEF Lit
    <2>2. Cardinality(lit) \in Nat
      BY <1>7, FS_CardinalityType
    <2> QED BY <1>2, <1>7, <2>1, <2>2, FS_RemoveElement
  <1>9. IsFiniteSet(here) /\ Cardinality(here) = Cardinality(others)
    <2>1. PICK f : f = [j \in others |-> <<h, j>>]
      OBVIOUS
    <2>2. OneToOne(f, others, here)
      BY <1>2, <2>1 DEF OneToOne
    <2> QED BY <1>8, <2>2, SameSize
  <1>10. here \subseteq V /\ W = V \ here
    <2>1. here \subseteq V
      BY <1>2, <1>4
    <2>2. ASSUME NEW w \in W
          PROVE  w \in V \ here
      <3>1. PICK g, j : w = <<g, j>>
        BY <1>3
      <3>2. g # h
        BY <1>5, <3>1
      <3>3. w \notin here
        BY <1>2, <3>1, <3>2
      <3> QED BY <1>6, <3>1, <3>2, <3>3
    <2>3. ASSUME NEW w \in V, w \notin here
          PROVE  w \in W
      <3>1. PICK g, j : w = <<g, j>>
        BY <1>3
      <3>2. g # h
        BY <1>2, <1>4, <2>3, <3>1
      <3> QED BY <1>6, <3>1, <3>2
    <2> QED BY <2>1, <2>2, <2>3
  <1>11. IsFiniteSet(W) /\ Cardinality(W) = Cardinality(V) - Cardinality(here)
    <2>1. V \cap here = here
      BY <1>10
    <2>2. IsFiniteSet(V)
      BY <1>2
    <2>3. IsFiniteSet(V \ here) /\ Cardinality(V \ here) = Cardinality(V) - Cardinality(V \cap here)
      BY <2>2, FS_Difference
    <2>4. Cardinality(V \cap here) = Cardinality(here)
      BY <2>1
    <2> QED BY <1>10, <2>3, <2>4
  <1>12. Cardinality(V) \in Nat /\ Cardinality(W) \in Nat /\ Cardinality(lit) \in Nat /\ Cardinality(others) \in Nat
    BY <1>2, <1>7, <1>8, <1>11, FS_CardinalityType
  <1> QED BY <1>2, <1>8, <1>9, <1>11, <1>12

\* Where no photon is kept, none waits.
LEMMA QuietWaits ==
    ASSUME NEW ops, NEW p, NEW c, (\A h \in DOMAIN c : Fit(ops, p, c[h])), Quiet(c)
    PROVE  WaitingIn(c) = {}
PROOF
  <1> SUFFICES ASSUME NEW w \in WaitingIn(c) PROVE FALSE
    OBVIOUS
  <1>1. PICK h \in DOMAIN c : \E i \in DOMAIN c[h].photons : c[h].photons[i] = "Single"
    BY WaitingIs
  <1>2. DOMAIN c[h].photons = DOMAIN c[h].entries
    BY DEF Fit
  <1> QED BY <1>1, <1>2 DEF Quiet
-----------------------------------------------------------------------------
(* The steps keep what holds                                               *)

EmittedIn(ops, p) == Cardinality({i \in 1 .. p - 1 : ops[i].kind = "EPPS"})
Counted(ops, p, c, act, res) ==
    /\ IsFiniteSet(WaitingIn(c))
    /\ Photons(act) + Cardinality(WaitingIn(c)) + Photons(res) = 2 * EmittedIn(ops, p)

Good(ops, p, c, k, act, res, R, D, Q) ==
    /\ Struct(ops, p, c, k, R, D) /\ Grouped(ops, p, c)
    /\ act \in Seq(ModeAndPhoton(ops)) /\ res \in Seq(PacketAndPhoton(ops))
    /\ Flow(ops, p, c, act, res, Q) /\ Counted(ops, p, c, act, res)

LEMMA EmittedNext ==
    ASSUME NEW ops, NEW p \in Nat, p > 0
    PROVE  /\ EmittedIn(ops, p) \in Nat
           /\ EmittedIn(ops, p + 1) = EmittedIn(ops, p) + (IF ops[p].kind = "EPPS" THEN 1 ELSE 0)
PROOF
  <1>1. PICK S, T : /\ S = {i \in 1 .. p - 1 : ops[i].kind = "EPPS"}
                    /\ T = {i \in 1 .. (p + 1) - 1 : ops[i].kind = "EPPS"}
    OBVIOUS
  <1>2. IsFiniteSet(S)
    <2>1. IsFiniteSet(1 .. p - 1) /\ S \subseteq 1 .. p - 1
      BY <1>1, FS_Interval
    <2> QED BY <2>1, FS_Subset
  <1>3. p \notin S /\ T = IF ops[p].kind = "EPPS" THEN S \cup {p} ELSE S
    <2>1. \A i \in 1 .. (p + 1) - 1 : i = p \/ i \in 1 .. p - 1
      OBVIOUS
    <2>2. p \in 1 .. (p + 1) - 1 /\ (\A i \in 1 .. p - 1 : i \in 1 .. (p + 1) - 1) /\ p \notin 1 .. p - 1
      OBVIOUS
    <2> QED BY <1>1, <2>1, <2>2
  <1>4. Cardinality(S) \in Nat /\ Cardinality(S \cup {p}) = Cardinality(S) + 1
    BY <1>2, <1>3, FS_CardinalityType, FS_AddElement
  <1>5. EmittedIn(ops, p) = Cardinality(S) /\ EmittedIn(ops, p + 1) = Cardinality(T)
    BY <1>1 DEF EmittedIn
  <1>6. Cardinality(T) = Cardinality(S) + (IF ops[p].kind = "EPPS" THEN 1 ELSE 0)
    BY <1>3, <1>4
  <1> QED BY <1>4, <1>5, <1>6

LEMMA SizeOfTwo ==
    ASSUME NEW x, NEW y, x # y
    PROVE  Cardinality({x, y}) = 2
PROOF
  <1>1. PICK S : S = {x}
    OBVIOUS
  <1>2. IsFiniteSet(S) /\ Cardinality(S) = 1
    BY <1>1, FS_Singleton
  <1>3. y \notin S
    BY <1>1
  <1>4. Cardinality(S \cup {y}) = Cardinality(S) + 1
    BY <1>2, <1>3, FS_AddElement
  <1>5. S \cup {y} = {x, y}
    BY <1>1
  <1> QED BY <1>2, <1>4, <1>5

LEMMA GoodEmit ==
    ASSUME NEW ops, NEW p, NEW c, NEW k, NEW act, NEW res, NEW R, NEW D, NEW Q,
           Good(ops, p, c, k, act, res, R, D, Q), p \in DOMAIN ops, ops[p].kind = "EPPS",
           NEW new, new = [i \in 1 .. 2 |-> [mode |-> ops[p].sinks[i], photon |-> "Single"]]
    PROVE  Good(ops, p + 1, c, k, act \o new, res, R, D, {})
PROOF
  <1> USE DEF Good
  <1>1. /\ Shaped(ops) /\ OneWayHere(ops) /\ p \in Nat /\ p > 0
    BY StructTypes
  <1>2. PICK sinks, M, S : sinks = ops[p].sinks /\ M = ModesOf(ops) /\ S = ModeAndPhoton(ops)
    OBVIOUS
  <1>3. sinks \in Seq(M) /\ Len(sinks) = 2 /\ DOMAIN sinks = 1 .. 2 /\ sinks[1] \in M /\ sinks[2] \in M
    <2>1. sinks \in Seq(M) /\ Len(sinks) = 2
      BY <1>1, <1>2, OperatorShape
    <2>2. 1 \in 1 .. Len(sinks) /\ 2 \in 1 .. Len(sinks)
      BY <2>1
    <2> QED BY <2>1, <2>2, LenProperties, ElementOfSeq
  <1>4. PICK a, b : a = [mode |-> sinks[1], photon |-> "Single"] /\ b = [mode |-> sinks[2], photon |-> "Single"]
    OBVIOUS
  <1>5. /\ a \in S /\ b \in S /\ a.mode = sinks[1] /\ b.mode = sinks[2]
        /\ a.photon = "Single" /\ b.photon = "Single"
    BY <1>2, <1>3, <1>4 DEF ModeAndPhoton, Photon
  <1>6. \A i \in 1 .. 2 : i = 1 \/ i = 2
    OBVIOUS
  <1>7. DOMAIN new = 1 .. 2 /\ new[1] = a /\ new[2] = b
    BY <1>2, <1>4
  <1>8. new \in Seq(S) /\ Len(new) = 2
    <2>1. new \in [1 .. 2 -> S]
      <3>1. new = [i \in 1 .. 2 |-> IF i = 1 THEN a ELSE b]
        BY <1>2, <1>4, <1>6
      <3> QED BY <1>5, <3>1
    <2> QED BY <1>7, <2>1
  <1>9. sinks[1] # sinks[2]
    <2>1. p \in Sources(ops)
      BY DEF Sources
    <2>2. \A i, j \in 1 .. 2 : ops[p].sinks[i] = ops[p].sinks[j] => i = j
      BY <1>1, <2>1 DEF OneWayHere
    <2> QED BY <1>2, <2>2
  <1>10. NoModeTwice(new) /\ ModesIn(new) = ToSet(ops[p].sinks)
    <2>1. NoModeTwice(new)
      BY <1>5, <1>6, <1>7, <1>9 DEF NoModeTwice
    <2>2. ModesIn(new) = {sinks[1], sinks[2]} /\ ToSet(sinks) = {sinks[1], sinks[2]}
      BY <1>3, <1>5, <1>6, <1>7 DEF ModesIn, ToSet
    <2> QED BY <1>2, <2>1, <2>2
  <1>11. Q = {}
    BY DEF Flow
  <1>12. act \in Seq(S)
    BY <1>2
  <1>13. Flow(ops, p + 1, c, act \o new, res, {})
    BY <1>8, <1>10, <1>11, <1>12, FlowEmit
  <1>14. Photons(new) = 2
    <2>1. Singles(new) = {1, 2}
      BY <1>5, <1>6, <1>7 DEF Singles
    <2>2. Cardinality({1, 2}) = 2
      <3>1. PICK x, y : x = 1 /\ y = 2
        OBVIOUS
      <3>2. x # y
        BY <3>1
      <3>3. Cardinality({x, y}) = 2
        BY <3>2, SizeOfTwo
      <3> QED BY <3>1, <3>3
    <2>3. Photons(new) = Cardinality(Singles(new))
      BY <1>8, PhotonsAre
    <2> QED BY <2>1, <2>2, <2>3
  <1>15. Counted(ops, p + 1, c, act \o new, res)
    <2>1. Photons(act \o new) = Photons(act) + 2
      BY <1>8, <1>12, <1>14, PhotonsConcat
    <2>2. EmittedIn(ops, p + 1) = EmittedIn(ops, p) + 1 /\ EmittedIn(ops, p) \in Nat
      BY <1>1, EmittedNext
    <2>3. Photons(act) \in Nat /\ Photons(res) \in Nat
      BY <1>12, PhotonsAre
    <2>4. Cardinality(WaitingIn(c)) \in Nat
      BY FS_CardinalityType DEF Counted
    <2>5. PICK x, w, y, e : /\ x = Photons(act) /\ w = Cardinality(WaitingIn(c))
                            /\ y = Photons(res) /\ e = EmittedIn(ops, p)
      OBVIOUS
    <2>6. x + w + y = 2 * e
      BY <2>5 DEF Counted
    <2>7. (x + 2) + w + y = 2 * (e + 1)
      <3>1. x \in Nat /\ w \in Nat /\ y \in Nat /\ e \in Nat
        BY <2>2, <2>3, <2>4, <2>5
      <3> QED BY <2>6, <3>1
    <2> QED BY <2>1, <2>2, <2>5, <2>7 DEF Counted
  <1>16. act \o new \in Seq(ModeAndPhoton(ops))
    BY <1>2, <1>8, <1>12, ConcatProperties
  <1> QED BY <1>13, <1>15, <1>16, StructSkip, GroupedSkip

\* A step of the registration, but of the pair of a source.
LEMMA GoodRegister ==
    ASSUME NEW ops, NEW p, NEW c, NEW k, NEW act, NEW res, NEW R, NEW D, NEW Q,
           Good(ops, p, c, k, act, res, R, D, Q), p \in DOMAIN ops, ops[p].kind # "EPPS",
           NEW d, NEW l, Structured(ops, p + 1, d, l), Quiet(c) => Quiet(d)
    PROVE  \E S, E : Good(ops, p + 1, d, l, act, res, S, E, {})
PROOF
  <1> USE DEF Good
  <1>1. p \in Nat /\ p > 0
    BY StructTypes
  <1>2. Q = {}
    BY DEF Flow
  <1>3. Quiet(c)
    BY <1>2 DEF Flow, Held, Quiet
  <1>4. PICK S, E : Struct(ops, p + 1, d, l, S, E) /\ Grouped(ops, p + 1, d)
    BY DEF Structured
  <1>5. Flow(ops, p + 1, d, act, res, {})
    BY <1>1, <1>2, <1>3, FlowAdd
  <1>6. WaitingIn(c) = {} /\ WaitingIn(d) = {}
    <2>1. (\A h \in DOMAIN c : Fit(ops, p, c[h])) /\ (\A h \in DOMAIN d : Fit(ops, p + 1, d[h]))
      BY <1>4 DEF Struct
    <2> QED BY <1>3, <2>1, QuietWaits
  <1>7. EmittedIn(ops, p + 1) = EmittedIn(ops, p)
    BY <1>1, EmittedNext
  <1>8. Counted(ops, p + 1, d, act, res)
    BY <1>6, <1>7 DEF Counted
  <1> QED BY <1>4, <1>5, <1>8

\* A photon moves on.
Balance(c, d, photon, new, res, after) ==
    /\ IsFiniteSet(WaitingIn(d))
    /\ Photons(new) + Cardinality(WaitingIn(d)) + Photons(after) =
          Cardinality(WaitingIn(c)) + Photons(res) + (IF photon = "Single" THEN 1 ELSE 0)

LEMMA GoodMove ==
    ASSUME NEW ops, NEW p, NEW c, NEW k, NEW act, NEW res, NEW R, NEW D, NEW Q,
           Good(ops, p, c, k, act, res, R, D, Q),
           NEW m, NEW photon, NEW h, AtTop(ops, p, k, R, act, m, photon, h),
           NEW new \in Seq(ModeAndPhoton(ops)), Reaches(c, h, Q, m, new),
           NEW d, Struct(ops, p, d, k, R, D), Grouped(ops, p, d), Kept(c, d, h, m, photon),
           NEW after \in Seq(PacketAndPhoton(ops)), Answered(c, h, m, photon, res, after),
           [packet |-> m, photon |-> photon] \in PacketAndPhoton(ops) \/ c[h].kind # "SPD",
           Balance(c, d, photon, new, res, after)
    PROVE  Good(ops, p, d, k, Front(act) \o new, after, R, D, Q \cup {m})
PROOF
  <1> USE DEF Good
  <1>1. PICK S, T : S = ModeAndPhoton(ops) /\ T = PacketAndPhoton(ops)
    OBVIOUS
  <1>2. /\ act \in Seq(S) /\ act # <<>> /\ res \in Seq(T) /\ after \in Seq(T) /\ new \in Seq(S)
        /\ p \notin DOMAIN ops /\ m = Last(act).mode /\ photon = Last(act).photon
    BY <1>1 DEF AtTop
  <1>3. photon \in Photon
    BY TopTyped
  <1>4. [packet |-> m, photon |-> photon] \in T \/ c[h].kind # "SPD"
    BY <1>1
  <1>5. Flow(ops, p, d, Front(act) \o new, after, Q \cup {m})
    BY <1>2, <1>3, <1>4, FlowMove
  <1>6. PICK rest, top : rest = Front(act) /\ top = Last(act)
    OBVIOUS
  <1>7. rest \in Seq(S) /\ top \in S /\ act = Append(rest, top) /\ top.photon = photon
    BY <1>2, <1>6, TopAndRest
  <1>8. Photons(act) = Photons(rest) + (IF photon = "Single" THEN 1 ELSE 0)
    <2>1. Photons(Append(rest, top)) = Photons(rest) + (IF top.photon = "Single" THEN 1 ELSE 0)
      BY <1>7, PhotonsAppend
    <2> QED BY <1>7, <2>1
  <1>9. Photons(rest \o new) = Photons(rest) + Photons(new)
    BY <1>2, <1>7, PhotonsConcat
  <1>10. Photons(rest) \in Nat /\ Photons(new) \in Nat /\ Photons(res) \in Nat /\ Photons(after) \in Nat
    BY <1>2, <1>7, PhotonsAre
  <1>11. Cardinality(WaitingIn(c)) \in Nat /\ Cardinality(WaitingIn(d)) \in Nat
    BY FS_CardinalityType DEF Counted, Balance
  <1>12. Counted(ops, p, d, rest \o new, after)
    <2>1. PICK v, w, x, y, z, one : /\ v = Cardinality(WaitingIn(c)) /\ w = Cardinality(WaitingIn(d))
                                   /\ x = Photons(rest) /\ y = Photons(new) /\ z = Photons(after)
                                   /\ one = (IF photon = "Single" THEN 1 ELSE 0)
      OBVIOUS
    <2>2. PICK u, e : u = Photons(res) /\ e = 2 * EmittedIn(ops, p)
      OBVIOUS
    <2>3. v \in Nat /\ w \in Nat /\ x \in Nat /\ y \in Nat /\ z \in Nat /\ u \in Nat /\ one \in Nat
      BY <1>10, <1>11, <2>1, <2>2
    <2>4. (x + one) + v + u = e
      BY <1>8, <2>1, <2>2 DEF Counted
    <2>5. y + w + z = v + u + one
      BY <2>1, <2>2 DEF Balance
    <2>6. (x + y) + w + z = e
      BY <2>3, <2>4, <2>5
    <2> QED BY <1>9, <2>1, <2>2, <2>6 DEF Counted, Balance
  <1>13. rest \o new \in Seq(S)
    BY <1>2, <1>7, ConcatProperties
  <1> QED BY <1>1, <1>5, <1>6, <1>12, <1>13
LEMMA PlainMove ==
    ASSUME NEW ops, NEW p, NEW c, NEW k, NEW act, NEW res, NEW R, NEW D, NEW Q,
           Good(ops, p, c, k, act, res, R, D, Q),
           NEW m, NEW photon, NEW h, AtTop(ops, p, k, R, act, m, photon, h), c[h].kind \in PlainKinds,
           NEW new, PlainExit(c, h, c[h].entries, photon, new),
           NEW after, Answered(c, h, m, photon, res, after)
    PROVE  Good(ops, p, c, k, Front(act) \o new, after, R, D, Q \cup {m})
PROOF
  <1>1. /\ Struct(ops, p, c, k, R, D) /\ Grouped(ops, p, c) /\ res \in Seq(PacketAndPhoton(ops))
        /\ IsFiniteSet(WaitingIn(c))
    BY DEF Good, Counted
  <1>2. PICK s, n : s = c[h].entries /\ n = Len(s)
    OBVIOUS
  <1>3. Holds(ops, c, h, m, s, n)
    BY <1>1, <1>2, CellReached
  <1>4. photon \in Photon /\ m \in ModesOf(ops)
    BY TopTyped
  <1>5. /\ new \in Seq(ModeAndPhoton(ops)) /\ Reaches(c, h, Q, m, new)
        /\ Photons(new) = IF photon = "Single" /\ c[h].kind # "SPD" THEN 1 ELSE 0
    BY <1>2, <1>3, <1>4, PlainLeaves
  <1>6. Kept(c, c, h, m, photon)
    <2>1. c[h].kind \notin Grouping
      BY DEF PlainKinds, Grouping
    <2> QED BY <2>1 DEF Kept
  <1>7. [packet |-> m, photon |-> photon] \in PacketAndPhoton(ops) \/ c[h].kind # "SPD"
    BY <1>3, <1>4 DEF Holds, PacketAndPhoton
  <1>8. PICK T : T = PacketAndPhoton(ops)
    OBVIOUS
  <1>9. PICK w : w = Cardinality(WaitingIn(c))
    OBVIOUS
  <1>10. w \in Nat /\ Photons(res) \in Nat
    BY <1>1, <1>9, PhotonsAre, FS_CardinalityType
  <1>11. after \in Seq(T) /\ Balance(c, c, photon, new, res, after)
    <2>1. CASE c[h].kind = "SPD"
      <3>1. PICK r : r = [packet |-> m, photon |-> photon]
        OBVIOUS
      <3>2. r \in T /\ r.photon = photon /\ after = Append(res, r) /\ res \in Seq(T)
        BY <1>1, <1>7, <1>8, <2>1, <3>1 DEF Answered
      <3>3. after \in Seq(T)
        BY <3>2, AppendProperties
      <3>4. Photons(Append(res, r)) = Photons(res) + (IF r.photon = "Single" THEN 1 ELSE 0)
        BY <3>2, PhotonsAppend
      <3>5. Photons(after) = Photons(res) + (IF photon = "Single" THEN 1 ELSE 0) /\ Photons(new) = 0
        BY <1>5, <2>1, <3>2, <3>4
      <3>6. Photons(new) + w + Photons(after) = w + Photons(res) + (IF photon = "Single" THEN 1 ELSE 0)
        BY <1>10, <3>5
      <3> QED BY <1>1, <1>9, <3>3, <3>6 DEF Balance
    <2>2. CASE c[h].kind # "SPD"
      <3>1. after = res /\ Photons(new) = (IF photon = "Single" THEN 1 ELSE 0)
        BY <1>5, <2>2 DEF Answered
      <3>2. Photons(new) + w + Photons(after) = w + Photons(res) + (IF photon = "Single" THEN 1 ELSE 0)
        BY <1>10, <3>1
      <3> QED BY <1>1, <1>8, <1>9, <3>1, <3>2 DEF Balance
    <2> QED BY <2>1, <2>2
  <1>12. after \in Seq(PacketAndPhoton(ops))
    BY <1>8, <1>11
  <1> QED BY <1>1, <1>5, <1>6, <1>7, <1>11, <1>12, GoodMove

LEMMA GroupMove ==
    ASSUME NEW ops, NEW p, NEW c, NEW k, NEW act, NEW res, NEW R, NEW D, NEW Q,
           Good(ops, p, c, k, act, res, R, D, Q),
           NEW m, NEW photon, NEW h, AtTop(ops, p, k, R, act, m, photon, h), c[h].kind \in Grouping,
           NEW s, NEW n, s = c[h].entries, n = Len(s),
           NEW photons, Full(c, h, s, n, m, photon, photons),
           NEW d, d = [c EXCEPT ![h].photons = photons],
           NEW new, IF IsReady(photons) THEN GroupExit(s, n, photons, new) ELSE new = <<>>
    PROVE  Good(ops, p, d, k, Front(act) \o new, res, R, D, Q \cup {m})
PROOF
  <1>1. /\ Struct(ops, p, c, k, R, D) /\ Grouped(ops, p, c) /\ res \in Seq(PacketAndPhoton(ops))
        /\ IsFiniteSet(WaitingIn(c)) /\ Held(c, Q) /\ m \notin Q
    <2>1. /\ Struct(ops, p, c, k, R, D) /\ Grouped(ops, p, c) /\ res \in Seq(PacketAndPhoton(ops))
          /\ IsFiniteSet(WaitingIn(c)) /\ Held(c, Q)
      BY DEF Good, Counted, Flow
    <2>2. PICK S, top : S = ModeAndPhoton(ops) /\ top = Last(act)
      OBVIOUS
    <2>3. act \in Seq(S) /\ act # <<>> /\ m = top.mode
      BY <2>2 DEF AtTop
    <2>4. ModesIn(act) = ModesIn(Front(act)) \cup {top.mode}
      BY <2>2, <2>3, TopAndRest
    <2>5. \A x \in ModesIn(act) : x \notin Q
      BY DEF Good, Flow
    <2> QED BY <2>1, <2>3, <2>4, <2>5
  <1>2. Holds(ops, c, h, m, s, n)
    BY <1>1, CellReached
  <1>3. photon \in Photon
    BY TopTyped
  <1>4. PICK i \in 1 .. n : s[i].source = m
    BY <1>2 DEF Holds
  <1>5. /\ h \in DOMAIN c /\ DOMAIN s = 1 .. n /\ n \in Nat /\ DOMAIN c[h].photons = 1 .. n
        /\ c[h].photons \in Seq(Photon \cup {"None"})
        /\ \A j \in 1 .. n : s[j].source = m => j = i
    BY <1>2, <1>4 DEF Holds
  <1>6. /\ DOMAIN photons = 1 .. n
        /\ \A j \in 1 .. n : photons[j] = IF j = i THEN photon ELSE c[h].photons[j]
    BY <1>4, <1>5 DEF Full
  <1>7. photons \in Seq(Photon \cup {"None"})
    <2>1. PICK q, P : q = c[h].photons /\ P = Photon \cup {"None"}
      OBVIOUS
    <2>2. \A j \in 1 .. n : q[j] \in P
      BY <1>5, <2>1, LenProperties
    <2>3. \A j \in 1 .. n : photons[j] \in P
      BY <1>3, <1>6, <2>1, <2>2
    <2>4. photons \in [1 .. n -> P]
      BY <2>1, <2>3 DEF Full
    <2> QED BY <1>5, <2>1, <2>4
  <1>8. /\ Struct(ops, p, d, k, R, D) /\ DOMAIN d = DOMAIN c
        /\ \A g \in DOMAIN c : /\ d[g].kind = c[g].kind /\ d[g].entries = c[g].entries
                               /\ d[g].photons = IF g = h THEN photons ELSE c[g].photons
    <2>1. DOMAIN photons = DOMAIN c[h].entries
      BY <1>5, <1>6
    <2>2. Struct(ops, p, d, k, R, D)
      BY <1>1, <1>5, <1>7, <2>1, StructPhotons
    <2>3. DOMAIN d = DOMAIN c
      BY <1>1, <1>5, <1>7, <2>1, StructPhotons
    <2>4. \A g \in DOMAIN c : /\ d[g].kind = c[g].kind /\ d[g].entries = c[g].entries
                              /\ d[g].photons = IF g = h THEN photons ELSE c[g].photons
      BY <1>1, <1>5, <1>7, <2>1, StructPhotons
    <2> QED BY <2>2, <2>3, <2>4
  <1>9. Grouped(ops, p, d)
    BY <1>1, <1>8, GroupedPhotons
  <1>10. Kept(c, d, h, m, photon)
    <2>1. ASSUME NEW g \in DOMAIN c, NEW j \in DOMAIN c[g].entries
          PROVE  d[g].photons[j] = IF g = h /\ c[g].kind \in Grouping /\ c[g].entries[j].source = m
                                   THEN photon ELSE c[g].photons[j]
      <3>1. CASE g = h
        <4>1. j \in 1 .. n /\ c[g].entries[j] = s[j]
          BY <1>5, <3>1
        <4>2. d[g].photons = photons
          BY <1>8, <3>1
        <4> QED BY <1>4, <1>5, <1>6, <3>1, <4>1, <4>2
      <3>2. CASE g # h
        BY <1>8, <3>2
      <3> QED BY <3>1, <3>2
    <2> QED BY <1>8, <2>1 DEF Kept
  <1>11. c[h].photons[i] = "None"
    <2>1. i \in DOMAIN c[h].entries /\ c[h].entries[i].source \notin Q
      BY <1>1, <1>4, <1>5
    <2> QED BY <1>1, <1>5, <2>1 DEF Held
  <1>12. Arrives(c, d, h, i, n, photon, photons)
    BY <1>4, <1>5, <1>6, <1>8, <1>11 DEF Arrives
  <1>13. IsReady(photons) <=> Fired(c, Q \cup {m}, h)
    BY <1>1, <1>2, <1>3, FullIsFired
  <1>14. Answered(c, h, m, photon, res, res) /\ c[h].kind # "SPD"
    BY DEF Answered, Grouping
  <1>15. Cardinality(WaitingIn(c)) \in Nat /\ Photons(res) \in Nat
    BY <1>1, FS_CardinalityType, PhotonsAre
  <1>16. new \in Seq(ModeAndPhoton(ops)) /\ Reaches(c, h, Q, m, new) /\ Balance(c, d, photon, new, res, res)
    <2>1. CASE IsReady(photons)
      <3>1. PICK lit : lit = Lit(n, photons)
        OBVIOUS
      <3>2. GroupExit(s, n, photons, new) /\ Fired(c, Q \cup {m}, h)
        BY <1>13, <2>1
      <3>3. /\ new \in Seq(ModeAndPhoton(ops)) /\ Reaches(c, h, Q, m, new)
            /\ Photons(new) = Cardinality(lit)
        BY <1>2, <1>3, <2>1, <3>1, <3>2, GroupLeaves
      <3>4. /\ IsFiniteSet(WaitingIn(d)) /\ Cardinality(lit) \in Nat
            /\ Cardinality(WaitingIn(d)) + Cardinality(lit) =
                  Cardinality(WaitingIn(c)) + (IF photon = "Single" THEN 1 ELSE 0)
        BY <1>1, <1>12, <2>1, <3>1, WaitLess
      <3>5. PICK v, w, x, y : /\ v = Cardinality(WaitingIn(c)) /\ w = Cardinality(WaitingIn(d))
                              /\ x = Cardinality(lit) /\ y = Photons(res)
        OBVIOUS
      <3>6. v \in Nat /\ w \in Nat /\ x \in Nat /\ y \in Nat
        BY <1>15, <3>4, <3>5, FS_CardinalityType
      <3>7. x + w + y = v + y + (IF photon = "Single" THEN 1 ELSE 0)
        BY <3>4, <3>5, <3>6
      <3> QED BY <3>3, <3>4, <3>5, <3>7 DEF Balance
    <2>2. CASE ~ IsReady(photons)
      <3>1. new = <<>> /\ ~ Fired(c, Q \cup {m}, h)
        BY <1>13, <2>2
      <3>2. Reaches(c, h, Q, m, new) /\ new \in Seq(ModeAndPhoton(ops)) /\ Photons(new) = 0
        BY <1>2, <3>1, GroupWaits, EmptySeq, PhotonsOfNone
      <3>3. /\ IsFiniteSet(WaitingIn(d))
            /\ Cardinality(WaitingIn(d)) = Cardinality(WaitingIn(c)) + (IF photon = "Single" THEN 1 ELSE 0)
        BY <1>1, <1>12, <2>2, WaitMore
      <3>4. PICK v, w, y : /\ v = Cardinality(WaitingIn(c)) /\ w = Cardinality(WaitingIn(d)) /\ y = Photons(res)
        OBVIOUS
      <3>5. v \in Nat /\ w \in Nat /\ y \in Nat
        BY <1>15, <3>3, <3>4, FS_CardinalityType
      <3>6. 0 + w + y = v + y + (IF photon = "Single" THEN 1 ELSE 0)
        BY <3>3, <3>4, <3>5
      <3> QED BY <3>2, <3>3, <3>4, <3>6 DEF Balance
    <2> QED BY <2>1, <2>2
  <1> QED BY <1>1, <1>8, <1>9, <1>10, <1>14, <1>16, GoodMove
-----------------------------------------------------------------------------
(* The inductive invariant                                                 *)

Inv == \E R, D, Q : Good(operators, position, cells, consumer, active, results, R, D, Q)

LEMMA InitInv == Init => Inv
PROOF
  <1> SUFFICES ASSUME Init PROVE Inv
    OBVIOUS
  <1>1. PICK R, D : Struct(operators, position, cells, consumer, R, D)
    BY InitStruct DEF StructInv
  <1>2. /\ position = 1 /\ cells = <<>> /\ active = <<>> /\ results = <<>>
        /\ DOMAIN cells = {}
    BY DEF Init
  <1>3. Grouped(operators, position, cells)
    <2>1. GroupsIn(cells) = {} /\ SourceSets(cells, {}) = {}
      BY <1>2 DEF GroupsIn, SourceSets
    <2>2. position - 1 = 0
      BY <1>2
    <2>3. GroupsUpTo(operators, 0) = {}
      BY NoGroupsYet
    <2> QED BY <2>1, <2>2, <2>3 DEF Grouped
  <1>4. active \in Seq(ModeAndPhoton(operators)) /\ results \in Seq(PacketAndPhoton(operators))
    BY <1>2, EmptySeq
  <1>5. Flow(operators, position, cells, active, results, {})
    <2>1. ModesIn(active) = {} /\ NoModeTwice(active) /\ PacketsIn(results) = {} /\ NoPacketTwice(results)
      BY <1>2 DEF ModesIn, NoModeTwice, PacketsIn, NoPacketTwice
    <2>2. Held(cells, {})
      BY <1>2 DEF Held
    <2>3. \A x : ~ FromSource(operators, position, x)
      BY <1>2 DEF FromSource
    <2>4. Come(operators, position, cells, active, {})
      BY <2>1, <2>3, NoneFired DEF Come
    <2>5. Answers(cells, results, {})
      BY <2>1 DEF Answers, Measured
    <2> QED BY <2>1, <2>2, <2>4, <2>5 DEF Flow
  <1>6. Counted(operators, position, cells, active, results)
    <2>1. WaitingIn(cells) = {}
      <3> SUFFICES ASSUME NEW w \in WaitingIn(cells) PROVE FALSE
        OBVIOUS
      <3>1. PICK h : h \in DOMAIN cells
        BY WaitingIs
      <3> QED BY <1>2, <3>1
    <2>2. EmittedIn(operators, position) = 0
      <3>1. {i \in 1 .. position - 1 : operators[i].kind = "EPPS"} = {}
        BY <1>2
      <3> QED BY <3>1, FS_EmptySet DEF EmittedIn
    <2>3. Photons(active) = 0 /\ Photons(results) = 0
      BY <1>2, PhotonsOfNone
    <2>4. IsFiniteSet(WaitingIn(cells)) /\ Cardinality(WaitingIn(cells)) = 0
      BY <2>1, FS_EmptySet
    <2> QED BY <2>2, <2>3, <2>4 DEF Counted
  <1> QED BY <1>1, <1>3, <1>4, <1>5, <1>6 DEF Inv, Good

\* What a state with the invariant is like, for the steps below.
GoodState(R, D, Q) == Good(operators, position, cells, consumer, active, results, R, D, Q)

LEMMA StateTypes ==
    ASSUME NEW R, NEW D, NEW Q, GoodState(R, D, Q)
    PROVE  /\ Struct(operators, position, cells, consumer, R, D) /\ Grouped(operators, position, cells)
           /\ Shaped(operators) /\ DOMAIN operators = 1 .. Len(operators) /\ Len(operators) \in Nat
           /\ position \in Nat /\ position > 0 /\ position <= Len(operators) + 1
           /\ (Registered <=> position \notin DOMAIN operators)
           /\ consumer \in [ModesOf(operators) -> 0 .. Len(cells)]
           /\ active \in Seq(ModeAndPhoton(operators)) /\ results \in Seq(PacketAndPhoton(operators))
PROOF
  <1>1. Struct(operators, position, cells, consumer, R, D) /\ Grouped(operators, position, cells)
        /\ active \in Seq(ModeAndPhoton(operators)) /\ results \in Seq(PacketAndPhoton(operators))
    BY DEF GoodState, Good
  <1>2. /\ Shaped(operators) /\ DOMAIN operators = 1 .. Len(operators) /\ Len(operators) \in Nat
        /\ position \in 1 .. Len(operators) + 1
        /\ consumer \in [ModesOf(operators) -> 0 .. Len(cells)]
    BY <1>1, StructTypes
  <1>3. /\ position \in Nat /\ position > 0 /\ position <= Len(operators) + 1
        /\ (Registered <=> position \notin DOMAIN operators)
    BY <1>2 DEF Registered
  <1> QED BY <1>1, <1>2, <1>3

LEMMA NextIsInside ==
    ASSUME NEW R, NEW D, NEW Q, GoodState(R, D, Q), NEW kind, NextIs(kind)
    PROVE  position \in DOMAIN operators /\ operators[position].kind = kind /\ position' = position + 1
  BY StateTypes DEF NextIs, Op

LEMMA EmitKeeps ==
    ASSUME NEW R, NEW D, NEW Q, GoodState(R, D, Q), RegisterEPPS
    PROVE  Inv'
PROOF
  <1>1. position \in DOMAIN operators /\ operators[position].kind = "EPPS" /\ position' = position + 1
    BY NextIsInside DEF RegisterEPPS
  <1>2. PICK new : new = [i \in 1 .. 2 |-> [mode |-> operators[position].sinks[i], photon |-> "Single"]]
    OBVIOUS
  <1>3. active' = active \o new /\ UNCHANGED <<operators, cells, consumer, results>>
    BY <1>2 DEF RegisterEPPS, Op
  <1>4. Good(operators, position + 1, cells, consumer, active \o new, results, R, D, {})
    BY <1>1, <1>2, GoodEmit DEF GoodState
  <1>5. Good(operators', position', cells', consumer', active', results', R, D, {})
    BY <1>1, <1>3, <1>4
  <1> QED BY <1>5 DEF Inv

\* The registration of any other operator.
LEMMA RegisterKeeps ==
    ASSUME NEW R, NEW D, NEW Q, GoodState(R, D, Q),
           position \in DOMAIN operators, operators[position].kind # "EPPS", position' = position + 1,
           UNCHANGED <<operators, active, results>>,
           Structured(operators, position + 1, cells', consumer'), Quiet(cells) => Quiet(cells')
    PROVE  Inv'
PROOF
  <1>1. \E S, E : Good(operators, position + 1, cells', consumer', active, results, S, E, {})
    BY GoodRegister DEF GoodState
  <1>2. \E S, E : Good(operators', position', cells', consumer', active', results', S, E, {})
    BY <1>1
  <1> QED BY <1>2 DEF Inv

LEMMA AddKeeps ==
    ASSUME NEW R, NEW D, NEW Q, GoodState(R, D, Q), RegisterElement \/ RegisterInterfering
    PROVE  Inv'
PROOF
  <1>1. PICK new : /\ Add(new) /\ position \in DOMAIN operators /\ position' = position + 1
                   /\ operators[position].kind # "EPPS"
                   /\ NewElement(operators, position, new) \/ NewPair(operators, position, consumer, new)
    <2>1. CASE RegisterElement
      <3>1. PICK kind \in {"Single", "DualUnivariate", "SPD"} : NextIs(kind)
        BY <2>1 DEF RegisterElement
      <3>2. position \in DOMAIN operators /\ operators[position].kind = kind /\ position' = position + 1
        BY <3>1, NextIsInside
      <3>3. PICK new : new = Cell(Op.kind, <<Entry(Op.sources[1], Op.sinks)>>)
        OBVIOUS
      <3>4. Add(new)
        BY <2>1, <3>3 DEF RegisterElement
      <3>5. NewElement(operators, position, new)
        BY <3>1, <3>2, <3>3 DEF NewElement, Op, PlainKinds
      <3> QED BY <3>1, <3>2, <3>4, <3>5
    <2>2. CASE RegisterInterfering
      <3>1. /\ position \in DOMAIN operators /\ operators[position].kind = "DualBivariate"
            /\ position' = position + 1
        BY <2>2, NextIsInside DEF RegisterInterfering
      <3>2. PICK new : new = Cell("DoubleInterfering", BivariateEntries(Op))
        OBVIOUS
      <3>3. Add(new) /\ \A i \in 1 .. 2 : consumer[Op.sources[i]] = 0
        BY <2>2, <3>2 DEF RegisterInterfering
      <3>4. NewPair(operators, position, consumer, new)
        BY <3>1, <3>2, <3>3 DEF NewPair, Op
      <3> QED BY <3>1, <3>3, <3>4
    <2> QED BY <2>1, <2>2
  <1>2. Adding(operators, position, cells, consumer, new, cells', consumer')
    BY <1>1 DEF Add, Adding, Op
  <1>3. Struct(operators, position, cells, consumer, R, D) /\ Grouped(operators, position, cells)
    BY StateTypes
  <1>4. Structured(operators, position + 1, cells', consumer') /\ (Quiet(cells) => Quiet(cells'))
    BY <1>1, <1>2, <1>3, AddStep
  <1>5. UNCHANGED <<operators, active, results>>
    BY <1>1 DEF Add
  <1> QED BY <1>1, <1>4, <1>5, RegisterKeeps
\* The group an operator joins.
LEMMA JoinIs ==
    ASSUME NEW R, NEW D, NEW Q, GoodState(R, D, Q), position \in DOMAIN operators,
           operators[position].kind = "DualBivariate", NEW i \in 1 .. 2, JoinGroup(i),
           NEW a, a = operators[position].sources[i], NEW b, b = operators[position].sources[3 - i]
    PROVE  /\ consumer[a] # 0 /\ ToSet(operators[position].sources) = {a, b}
           /\ Joining(operators, position, cells, consumer, R, a, b, cells', consumer')
PROOF
  <1>1. /\ Struct(operators, position, cells, consumer, R, D) /\ Shaped(operators)
        /\ consumer \in [ModesOf(operators) -> 0 .. Len(cells)]
    BY StateTypes
  <1>2. ToSet(operators[position].sources) = {a, b}
    <2>1. PICK pair : pair = BivariateEntries(operators[position])
      OBVIOUS
    <2>2. ToSet(operators[position].sources) = {operators[position].sources[1], operators[position].sources[2]}
      BY <1>1, <2>1, PairIs
    <2>3. (i = 1 /\ 3 - i = 2) \/ (i = 2 /\ 3 - i = 1)
      OBVIOUS
    <2> QED BY <2>2, <2>3
  <1>3. consumer[a] # 0
    BY DEF JoinGroup, Op
  <1>4. a \in DOMAIN consumer /\ b \in DOMAIN consumer
    <2>1. ToSet(operators[position].sources) \subseteq ModesOf(operators)
      BY SourcesAreModes
    <2> QED BY <1>1, <1>2, <2>1
  <1>5. consumer[a] \in DOMAIN cells /\ (consumer[b] # 0 => consumer[b] \in DOMAIN cells)
    BY <1>1, <1>3, <1>4 DEF Struct, LedTo
  <1>6. /\ Resolve(consumer[a]) = R[consumer[a]]
        /\ consumer[b] # 0 => Resolve(consumer[b]) = R[consumer[b]]
    BY <1>1, <1>5, ResolveIs
  <1>7. PICK here, there, moves, joined, group :
            /\ here = Resolve(consumer[a]) /\ there = Resolve(consumer[b])
            /\ moves = MustMove(consumer[b], consumer[a])
            /\ joined = Absorbed(cells[here].entries, BivariateEntries(operators[position]))
            /\ group = Cell("MultiModeMap", IF moves THEN Absorbed(joined, cells[there].entries) ELSE joined)
    OBVIOUS
  <1>8. /\ cells' = [h \in DOMAIN cells |-> IF moves /\ h = there THEN Moved(consumer[a])
                                            ELSE IF h = here THEN group ELSE cells[h]]
        /\ consumer' = [consumer EXCEPT ![b] = IF @ = 0 THEN consumer[a] ELSE @]
    BY <1>7 DEF JoinGroup, Op
  <1>9. here = R[consumer[a]] /\ (consumer[b] # 0 => there = R[consumer[b]])
    BY <1>6, <1>7
  <1>10. moves <=> consumer[b] # 0 /\ R[consumer[b]] # R[consumer[a]]
    BY <1>3, <1>7, <1>9 DEF MustMove
  <1>11. group = Cell("MultiModeMap",
                      LET first == Absorbed(cells[R[consumer[a]]].entries, BivariateEntries(operators[position]))
                      IN  IF consumer[b] # 0 /\ R[consumer[b]] # R[consumer[a]]
                          THEN Absorbed(first, cells[R[consumer[b]]].entries) ELSE first)
    <2>1. CASE moves
      BY <1>7, <1>9, <1>10, <2>1
    <2>2. CASE ~ moves
      BY <1>7, <1>9, <1>10, <2>2
    <2> QED BY <2>1, <2>2
  <1>12. cells' = [h \in DOMAIN cells |->
                     IF (consumer[b] # 0 /\ R[consumer[b]] # R[consumer[a]]) /\ h = R[consumer[b]]
                     THEN Moved(consumer[a]) ELSE IF h = R[consumer[a]] THEN group ELSE cells[h]]
    <2>1. CASE moves
      <3>1. consumer[b] # 0 /\ R[consumer[b]] # R[consumer[a]] /\ there = R[consumer[b]]
        BY <1>9, <1>10, <2>1
      <3> QED BY <1>8, <1>9, <2>1, <3>1
    <2>2. CASE ~ moves
      <3>1. ~ (consumer[b] # 0 /\ R[consumer[b]] # R[consumer[a]])
        BY <1>10, <2>2
      <3> QED BY <1>8, <1>9, <2>2, <3>1
    <2> QED BY <2>1, <2>2
  <1>13. Joining(operators, position, cells, consumer, R, a, b, cells', consumer')
    BY <1>8, <1>11, <1>12 DEF Joining
  <1> QED BY <1>2, <1>3, <1>13

LEMMA JoinKeeps ==
    ASSUME NEW R, NEW D, NEW Q, GoodState(R, D, Q), RegisterCollision
    PROVE  Inv'
PROOF
  <1>1. /\ position \in DOMAIN operators /\ operators[position].kind = "DualBivariate"
        /\ position' = position + 1
    BY NextIsInside DEF RegisterCollision
  <1>2. PICK i \in 1 .. 2 : JoinGroup(i)
    BY DEF RegisterCollision
  <1>3. PICK a, b : a = operators[position].sources[i] /\ b = operators[position].sources[3 - i]
    OBVIOUS
  <1>4. /\ consumer[a] # 0 /\ ToSet(operators[position].sources) = {a, b}
        /\ Joining(operators, position, cells, consumer, R, a, b, cells', consumer')
    BY <1>1, <1>2, <1>3, JoinIs
  <1>5. Struct(operators, position, cells, consumer, R, D) /\ Grouped(operators, position, cells)
    BY StateTypes
  <1>6. Structured(operators, position + 1, cells', consumer') /\ (Quiet(cells) => Quiet(cells'))
    BY <1>1, <1>4, <1>5, JoinStep
  <1>7. UNCHANGED <<operators, active, results>> /\ operators[position].kind # "EPPS"
    BY <1>1, <1>2 DEF JoinGroup
  <1> QED BY <1>1, <1>6, <1>7, RegisterKeeps

\* Where the photon on top of the stack goes.
LEMMA MovingIs ==
    ASSUME NEW R, NEW D, NEW Q, GoodState(R, D, Q), Moving, NEW h, h = At
    PROVE  AtTop(operators, position, consumer, R, active, Top.mode, Top.photon, h) /\ h \in DOMAIN cells
PROOF
  <1>1. /\ Struct(operators, position, cells, consumer, R, D) /\ active \in Seq(ModeAndPhoton(operators))
        /\ consumer \in [ModesOf(operators) -> 0 .. Len(cells)]
        /\ Registered <=> position \notin DOMAIN operators
    BY StateTypes
  <1>2. Registered /\ active # <<>> /\ consumer[Top.mode] # 0
    BY DEF Moving
  <1>3. PICK S, top : S = ModeAndPhoton(operators) /\ top = Last(active)
    OBVIOUS
  <1>4. top \in S
    BY <1>1, <1>2, <1>3, TopAndRest
  <1>5. top.mode \in DOMAIN consumer
    BY <1>1, <1>3, <1>4 DEF ModeAndPhoton
  <1>6. Top.mode = top.mode /\ Top.photon = top.photon
    BY <1>3 DEF Top
  <1>7. consumer[top.mode] \in DOMAIN cells
    BY <1>1, <1>2, <1>5, <1>6 DEF Struct, LedTo
  <1>8. h = R[consumer[top.mode]] /\ h \in DOMAIN cells
    BY <1>1, <1>6, <1>7, ResolveIs DEF At
  <1> QED BY <1>1, <1>2, <1>3, <1>6, <1>8 DEF AtTop

LEMMA PlainKeeps ==
    ASSUME NEW R, NEW D, NEW Q, GoodState(R, D, Q), PassSingle \/ SplitUnivariate \/ Detect
    PROVE  Inv'
PROOF
  <1>1. Moving /\ UNCHANGED <<operators, position, cells, consumer>>
    BY DEF PassSingle, SplitUnivariate, Detect
  <1>2. PICK h, m, photon : h = At /\ m = Top.mode /\ photon = Top.photon
    OBVIOUS
  <1>3. AtTop(operators, position, consumer, R, active, m, photon, h) /\ h \in DOMAIN cells
    BY <1>1, <1>2, MovingIs
  <1>4. \E new, after : /\ active' = Front(active) \o new /\ results' = after
                        /\ cells[h].kind \in PlainKinds
                        /\ PlainExit(cells, h, cells[h].entries, photon, new)
                        /\ Answered(cells, h, m, photon, results, after)
    <2>1. Popped = Front(active)
      BY DEF Popped
    <2>2. Front(active) \in Seq(ModeAndPhoton(operators))
      <3>1. PICK S : S = ModeAndPhoton(operators)
        OBVIOUS
      <3>2. active \in Seq(S) /\ active # <<>>
        BY <1>1, <3>1, StateTypes DEF Moving
      <3> QED BY <3>1, <3>2, TopAndRest
    <2>3. CASE PassSingle
      <3>1. PICK x, new : /\ x = [mode |-> cells[h].entries[1].sinks[1], photon |-> photon]
                          /\ new = <<x>>
        OBVIOUS
      <3>2. cells[h].kind = "Single" /\ active' = Append(Front(active), x) /\ results' = results
        BY <1>2, <2>1, <2>3, <3>1 DEF PassSingle
      <3>3. Append(Front(active), x) = Front(active) \o new
        BY <2>2, <3>1, AppendIsConcat
      <3>4. PlainExit(cells, h, cells[h].entries, photon, new)
        BY <3>1, <3>2 DEF PlainExit
      <3>5. Answered(cells, h, m, photon, results, results) /\ cells[h].kind \in PlainKinds
        BY <3>2 DEF Answered, PlainKinds
      <3> QED BY <3>2, <3>3, <3>4, <3>5
    <2>4. CASE SplitUnivariate
      <3>1. PICK right \in BOOLEAN : active' = Front(active) \o Exits(cells[h].entries[1].sinks, photon, right)
        BY <1>2, <2>1, <2>4 DEF SplitUnivariate
      <3>2. cells[h].kind = "DualUnivariate" /\ results' = results
        BY <1>2, <2>4 DEF SplitUnivariate
      <3>3. PlainExit(cells, h, cells[h].entries, photon, Exits(cells[h].entries[1].sinks, photon, right))
        BY <3>2 DEF PlainExit
      <3>4. Answered(cells, h, m, photon, results, results) /\ cells[h].kind \in PlainKinds
        BY <3>2 DEF Answered, PlainKinds
      <3> QED BY <3>1, <3>2, <3>3, <3>4
    <2>5. CASE Detect
      <3>1. /\ cells[h].kind = "SPD" /\ active' = Front(active)
            /\ results' = Append(results, [packet |-> m, photon |-> photon])
        BY <1>2, <2>1, <2>5 DEF Detect
      <3>2. Front(active) = Front(active) \o <<>>
        BY <2>2, ConcatEmptySeq
      <3>3. PlainExit(cells, h, cells[h].entries, photon, <<>>)
        BY <3>1 DEF PlainExit
      <3>4. Answered(cells, h, m, photon, results, results') /\ cells[h].kind \in PlainKinds
        BY <3>1 DEF Answered, PlainKinds
      <3> QED BY <3>1, <3>2, <3>3, <3>4
    <2> QED BY <2>3, <2>4, <2>5
  <1>5. PICK new, after : /\ active' = Front(active) \o new /\ results' = after
                          /\ cells[h].kind \in PlainKinds
                          /\ PlainExit(cells, h, cells[h].entries, photon, new)
                          /\ Answered(cells, h, m, photon, results, after)
    BY <1>4
  <1>6. Good(operators, position, cells, consumer, Front(active) \o new, after, R, D, Q \cup {m})
    BY <1>3, <1>5, PlainMove DEF GoodState
  <1>7. Good(operators', position', cells', consumer', active', results', R, D, Q \cup {m})
    BY <1>1, <1>5, <1>6
  <1> QED BY <1>7 DEF Inv

LEMMA GroupKeeps ==
    ASSUME NEW R, NEW D, NEW Q, GoodState(R, D, Q), ReachGroup
    PROVE  Inv'
PROOF
  <1>1. /\ Moving /\ UNCHANGED <<operators, position, consumer, results>>
    BY DEF ReachGroup
  <1>2. PICK h, m, photon : h = At /\ m = Top.mode /\ photon = Top.photon
    OBVIOUS
  <1>3. AtTop(operators, position, consumer, R, active, m, photon, h) /\ h \in DOMAIN cells
    BY <1>1, <1>2, MovingIs
  <1>4. PICK s, n : s = cells[h].entries /\ n = Len(s)
    OBVIOUS
  <1>5. DOMAIN s = 1 .. n
    <2>1. Struct(operators, position, cells, consumer, R, D)
      BY StateTypes
    <2> QED BY <1>3, <1>4, <2>1, CellReached DEF Holds
  <1>6. PICK photons : photons = Received(cells[h])
    OBVIOUS
  <1>7. Full(cells, h, s, n, m, photon, photons)
    BY <1>2, <1>4, <1>5, <1>6 DEF Received, Full
  <1>8. cells[h].kind \in Grouping /\ cells' = [cells EXCEPT ![h].photons = photons]
    BY <1>2, <1>6 DEF ReachGroup
  <1>9. \E new : /\ active' = Front(active) \o new
                 /\ IF IsReady(photons) THEN GroupExit(s, n, photons, new) ELSE new = <<>>
    <2>1. CASE IsReady(photons)
      <3>1. PICK right \in [DOMAIN s -> BOOLEAN] :
                active' = Popped \o FlattenSeq([i \in DOMAIN s |-> Exits(s[i].sinks, photons[i], right[i])])
        BY <1>2, <1>4, <1>6, <2>1 DEF ReachGroup
      <3>2. PICK new : new = FlattenSeq([i \in 1 .. n |-> Exits(s[i].sinks, photons[i], right[i])])
        OBVIOUS
      <3>3. active' = Front(active) \o new /\ right \in [1 .. n -> BOOLEAN]
        BY <1>5, <3>1, <3>2 DEF Popped
      <3>4. GroupExit(s, n, photons, new)
        BY <3>2, <3>3 DEF GroupExit
      <3> QED BY <2>1, <3>3, <3>4
    <2>2. CASE ~ IsReady(photons)
      <3>1. active' = Front(active)
        BY <1>2, <1>6, <2>2 DEF ReachGroup, Popped
      <3>2. PICK S : S = ModeAndPhoton(operators)
        OBVIOUS
      <3>3. active \in Seq(S) /\ active # <<>>
        BY <1>1, <3>2, StateTypes DEF Moving
      <3>4. Front(active) = Front(active) \o <<>>
        BY <3>3, TopAndRest, ConcatEmptySeq
      <3> QED BY <2>2, <3>1, <3>4
    <2> QED BY <2>1, <2>2
  <1>10. PICK new : /\ active' = Front(active) \o new
                    /\ IF IsReady(photons) THEN GroupExit(s, n, photons, new) ELSE new = <<>>
    BY <1>9
  <1>11. Good(operators, position, cells', consumer, Front(active) \o new, results, R, D, Q \cup {m})
    BY <1>3, <1>4, <1>7, <1>8, <1>10, GroupMove DEF GoodState
  <1>12. Good(operators', position', cells', consumer', active', results', R, D, Q \cup {m})
    BY <1>1, <1>10, <1>11
  <1> QED BY <1>12 DEF Inv

LEMMA NextInv == Inv /\ [Next]_vars => Inv'
PROOF
  <1> SUFFICES ASSUME Inv, [Next]_vars PROVE Inv'
    OBVIOUS
  <1>1. PICK R, D, Q : GoodState(R, D, Q)
    BY DEF Inv, GoodState
  <1>2. CASE RegisterEPPS
    BY <1>1, <1>2, EmitKeeps
  <1>3. CASE RegisterElement \/ RegisterInterfering
    BY <1>1, <1>3, AddKeeps
  <1>4. CASE RegisterCollision
    BY <1>1, <1>4, JoinKeeps
  <1>5. CASE PassSingle \/ SplitUnivariate \/ Detect
    BY <1>1, <1>5, PlainKeeps
  <1>6. CASE ReachGroup
    BY <1>1, <1>6, GroupKeeps
  <1>7. CASE Returned \/ UNCHANGED vars
    BY <1>7 DEF Returned, vars, Inv
  <1> QED BY <1>2, <1>3, <1>4, <1>5, <1>6, <1>7 DEF Next, Register, Move

LEMMA Invariant == Spec => []Inv
PROOF
  <1> QED BY InitInv, NextInv, PTL DEF Spec
-----------------------------------------------------------------------------
(* What the invariant says of the collapser                                *)

LEMMA InvTyped == Inv => TypeOK
PROOF
  <1> SUFFICES ASSUME Inv PROVE TypeOK
    OBVIOUS
  <1>1. PICK R, D, Q : GoodState(R, D, Q)
    BY DEF Inv, GoodState
  <1>2. Struct(operators, position, cells, consumer, R, D)
    BY <1>1, StateTypes
  <1>3. /\ operators \in Islands /\ position \in 1 .. Len(operators) + 1
        /\ consumer \in [ModesOf(operators) -> 0 .. Len(cells)]
        /\ Len(cells) \in Nat /\ DOMAIN cells = 1 .. Len(cells)
        /\ \A h \in DOMAIN cells : cells[h] \in CellSet(operators)
    BY <1>2, StructTypes
  <1>4. ASSUME NEW h \in DOMAIN cells
        PROVE  /\ cells[h].kind \in Grouping \cup {"Single", "DualUnivariate", "SPD", "Moved"}
               /\ cells[h].to \in 0 .. Len(cells)
               /\ DOMAIN cells[h].photons = DOMAIN cells[h].entries
    <2>1. cells[h].kind \in Grouping \cup {"Single", "DualUnivariate", "SPD", "Moved"}
      BY <1>3 DEF CellSet, CellKinds, PlainKinds
    <2>2. Fit(operators, position, cells[h])
      BY <1>2 DEF Struct
    <2>3. cells[h].kind = "Moved" => cells[h].to \in DOMAIN cells
      BY <1>2 DEF Struct, RootedIn
    <2>4. cells[h].to \in 0 .. Len(cells)
      BY <1>3, <2>2, <2>3 DEF Fit
    <2>5. DOMAIN cells[h].photons = DOMAIN cells[h].entries
      BY <2>2 DEF Fit
    <2> QED BY <2>1, <2>4, <2>5
  <1>5. active \in Seq([mode : ModesOf(operators), photon : {"Single", "Vac"}])
    BY <1>1, StateTypes DEF ModeAndPhoton, Photon
  <1>6. results \in Seq([packet : Detected, photon : {"Single", "Vac"}])
    BY <1>1, StateTypes DEF PacketAndPhoton, Photon, DetectedIn, Detected
  <1> QED BY <1>3, <1>4, <1>5, <1>6 DEF TypeOK

\* As many sources as entries, where none has two.
LEMMA SizeOfDistinct ==
    ASSUME NEW S, NEW s \in Seq(S), Distinct(s)
    PROVE  Cardinality(SourcesIn(s)) = Len(s)
PROOF
  <1>1. PICK n : n = Len(s)
    OBVIOUS
  <1>2. n \in Nat /\ DOMAIN s = 1 .. n
    BY <1>1, LenProperties
  <1>3. IsFiniteSet(1 .. n) /\ Cardinality(1 .. n) = n
    BY <1>2, FS_Interval
  <1>4. PICK f : f = [i \in 1 .. n |-> s[i].source]
    OBVIOUS
  <1>5. OneToOne(f, 1 .. n, SourcesIn(s))
    BY <1>2, <1>4 DEF OneToOne, SourcesIn, Distinct
  <1>6. Cardinality(SourcesIn(s)) = Cardinality(1 .. n)
    BY <1>3, <1>5, SameSize
  <1> QED BY <1>1, <1>3, <1>6

LEMMA InvGrouped == Inv => GroupsAreComponents
PROOF
  <1> SUFFICES ASSUME Inv PROVE GroupsAreComponents
    OBVIOUS
  <1>1. PICK R, D, Q : GoodState(R, D, Q)
    BY DEF Inv, GoodState
  <1>2. Struct(operators, position, cells, consumer, R, D) /\ Grouped(operators, position, cells)
    BY <1>1, StateTypes
  <1>3. \A h : Members(h) = SourcesIn(cells[h].entries)
    BY DEF Members, SourcesIn
  <1>4. {Members(h) : h \in GroupsIn(cells)} = Components
    BY <1>2, <1>3 DEF Grouped, SourceSets, Components
  <1>5. ASSUME NEW h \in DOMAIN cells
        PROVE  /\ Len(cells[h].entries) = Cardinality(Members(h))
               /\ \A m \in Members(h) : consumer[m] # 0 /\ Resolve(consumer[m]) = h
    <2>1. PICK S, s : S = Elements(operators) /\ s = cells[h].entries
      OBVIOUS
    <2>2. s \in Seq(S)
      BY <1>2, <2>1, StructTypes DEF CellSet
    <2>3. Distinct(s)
      BY <1>2, <2>1 DEF Struct, Fit
    <2>4. Cardinality(SourcesIn(s)) = Len(s)
      BY <2>2, <2>3, SizeOfDistinct
    <2>5. ASSUME NEW m \in Members(h)
          PROVE  consumer[m] # 0 /\ Resolve(consumer[m]) = h
      <3>1. m \in DOMAIN consumer /\ consumer[m] # 0 /\ R[consumer[m]] = h
        BY <1>2, <1>3 DEF Struct, LedFrom
      <3>2. consumer[m] \in DOMAIN cells
        BY <1>2, <3>1 DEF Struct, LedTo
      <3> QED BY <1>2, <3>1, <3>2, ResolveIs
    <2> QED BY <1>3, <2>1, <2>4, <2>5
  <1> QED BY <1>4, <1>5 DEF GroupsAreComponents, GroupsIn

LEMMA InvOnce == Inv => OneOutcomeEach
PROOF
  <1> SUFFICES ASSUME Inv PROVE OneOutcomeEach
    OBVIOUS
  <1>1. PICK R, D, Q : Flow(operators, position, cells, active, results, Q)
    BY DEF Inv, Good
  <1>2. \A i, j \in DOMAIN results : i # j => results[i].packet # results[j].packet
    BY <1>1 DEF Flow, Answers, NoPacketTwice
  <1>3. \A i, j \in DOMAIN active : i # j => active[i].mode # active[j].mode
    BY <1>1 DEF Flow, NoModeTwice
  <1>4. \A j \in DOMAIN results : results[j].packet \in Q
    BY <1>1 DEF Flow, Answers, PacketsIn, Measured
  <1>5. \A i \in DOMAIN active : active[i].mode \notin Q
    BY <1>1 DEF Flow, ModesIn
  <1> QED BY <1>2, <1>3, <1>4, <1>5 DEF OneOutcomeEach

LEMMA InvCounted == Inv => PhotonsConserved
PROOF
  <1> SUFFICES ASSUME Inv PROVE PhotonsConserved
    OBVIOUS
  <1>1. PICK R, D, Q : Counted(operators, position, cells, active, results)
    BY DEF Inv, Good
  <1>2. WaitingIn(cells) = Waiting /\ EmittedIn(operators, position) = Emitted
    BY DEF WaitingIn, Waiting, EmittedIn, Emitted
  <1> QED BY <1>1, <1>2 DEF Counted, PhotonsConserved

\* The states of collapse() have the shape of TypeOK for any island: every handle
\* of a moved cell is one of the map, a cell has a place for a photon of each of
\* its entries, and only detected packets get an outcome (monte_carlo.rs:17-136,
\* 163-410).
THEOREM TypeCorrect == Spec => []TypeOK
  BY Invariant, InvTyped, PTL

\* Whatever the order the operators come in, the groups are the components of
\* interference, none has a mode twice, and every mode leads to its group
\* (monte_carlo.rs:58-80, 205-268).
THEOREM GroupsCorrect == Spec => []GroupsAreComponents
  BY Invariant, InvGrouped, PTL

\* A packet is measured at most once, and is neither on its way nor waited for
\* when it was (monte_carlo.rs:317-410).
THEOREM OutcomesCorrect == Spec => []OneOutcomeEach
  BY Invariant, InvOnce, PTL

\* Two photons for each pair are on their way, in a group that waits, or
\* detected, in any state of collapse() (monte_carlo.rs:324-407).
THEOREM PhotonsCorrect == Spec => []PhotonsConserved
  BY Invariant, InvCounted, PTL
-----------------------------------------------------------------------------
(* Every packet is answered                                                *)

Reaching(ops, n, a) ==
    a = [i \in 0 .. n |-> IF i = 0 THEN Emissions(ops) ELSE Further(ops, a[i - 1])]

LEMMA ReachedIs ==
    ASSUME NEW ops, NEW n \in Nat
    PROVE  \E a : Reaching(ops, n, a) /\ a[n] = ReachedIn(ops, n)
PROOF
  <1>1. PICK E, M, S : /\ E = Emissions(ops) /\ S = SUBSET M
                       /\ M = E \cup UNION {ToSet(e.sinks) : e \in Elements(ops)}
    OBVIOUS
  <1>2. ASSUME NEW i \in 1 .. n, NEW s \in S
        PROVE  Further(ops, s) \in S
    BY <1>1 DEF Further
  <1>3. PICK st : st = [i \in 1 .. n |-> [s \in S |-> Further(ops, s)]]
    OBVIOUS
  <1>4. st \in [1 .. n -> [S -> S]] /\ \A i \in 1 .. n : \A s \in S : st[i][s] = Further(ops, s)
    BY <1>2, <1>3
  <1>5. E \in S
    BY <1>1
  <1>6. Steps(n, S, E, st)
    BY <1>4, <1>5 DEF Steps
  <1>7. PICK f : Iteration(n, S, E, st, f)
    BY <1>6, Iterates
  <1>8. f = [i \in 0 .. n |-> IF i = 0 THEN Emissions(ops) ELSE Further(ops, f[i - 1])]
    <2>1. f \in [0 .. n -> S] /\ f[0] = Emissions(ops) /\ \A i \in 1 .. n : f[i] = st[i][f[i - 1]]
      BY <1>1, <1>7 DEF Iteration
    <2>2. \A i \in 1 .. n : i - 1 \in 0 .. n
      OBVIOUS
    <2>3. \A i \in 1 .. n : f[i] = Further(ops, f[i - 1])
      BY <1>4, <2>1, <2>2
    <2>4. \A i \in 0 .. n : i # 0 => i \in 1 .. n
      OBVIOUS
    <2> QED BY <2>1, <2>3, <2>4
  <1>9. PICK a : a = CHOOSE g : g = [i \in 0 .. n |-> IF i = 0 THEN Emissions(ops)
                                                      ELSE Further(ops, g[i - 1])]
    OBVIOUS
  <1>10. Reaching(ops, n, a)
    BY <1>8, <1>9 DEF Reaching
  <1>11. a[n] = ReachedIn(ops, n)
    BY <1>9 DEF ReachedIn
  <1> QED BY <1>10, <1>11

\* A set with what the sources send, and all that leaves it, has all that is reached.
LEMMA ReachedWithin ==
    ASSUME NEW ops, NEW n \in Nat, NEW Q, Emissions(ops) \subseteq Q,
           \A modes : modes \subseteq Q => Further(ops, modes) \subseteq Q
    PROVE  ReachedIn(ops, n) \subseteq Q
PROOF
  <1>1. PICK a : Reaching(ops, n, a) /\ a[n] = ReachedIn(ops, n)
    BY ReachedIs
  <1>2. \A i \in 0 .. n : a[i] = IF i = 0 THEN Emissions(ops) ELSE Further(ops, a[i - 1])
    BY <1>1 DEF Reaching
  <1>3. PICK P : P = {i \in 0 .. n : a[i] \subseteq Q}
    OBVIOUS
  <1>4. 0 \in P
    <2>1. 0 \in 0 .. n
      OBVIOUS
    <2>2. a[0] = Emissions(ops)
      BY <1>2, <2>1
    <2> QED BY <1>3, <2>1, <2>2
  <1>5. ASSUME NEW i \in 1 .. n, i - 1 \in P
        PROVE  i \in P
    <2>1. i \in 0 .. n /\ i # 0
      OBVIOUS
    <2>2. a[i] = Further(ops, a[i - 1])
      BY <1>2, <2>1
    <2>3. a[i - 1] \subseteq Q
      BY <1>3, <1>5
    <2> QED BY <1>3, <2>1, <2>2, <2>3
  <1>6. n \in 0 .. n
    OBVIOUS
  <1>7. n \in P
    BY <1>4, <1>5, <1>6, UpTo
  <1> QED BY <1>1, <1>3, <1>7

\* Once all is registered, the entry of a source is in the cell it leads to.
LEMMA EntryIn ==
    ASSUME NEW ops, NEW p, NEW c, NEW k, NEW R, NEW D, Struct(ops, p, c, k, R, D), p \notin DOMAIN ops,
           NEW n \in DOMAIN ops, NEW e \in EntriesOf(ops[n])
    PROVE  \E h \in DOMAIN c : \E i \in DOMAIN c[h].entries :
              c[h].entries[i] = e /\ c[h].kind # "Moved" /\ (ops[n].kind = "SPD" => c[h].kind = "SPD")
PROOF
  <1>1. /\ Shaped(ops) /\ OneWayOn(ops) /\ DOMAIN ops = 1 .. Len(ops) /\ Len(ops) \in Nat
        /\ p \in 1 .. Len(ops) + 1 /\ k \in [ModesOf(ops) -> 0 .. Len(c)]
        /\ \A h \in DOMAIN c : R[h] \in DOMAIN c
    BY StructTypes
  <1>2. n \in 1 .. p - 1
    BY <1>1
  <1>3. ops[n].kind # "EPPS" /\ e.source \in ToSet(ops[n].sources)
    BY <1>1, EntryShape DEF PlainKinds
  <1>4. k[e.source] # 0 /\ e.source \in DOMAIN k
    <2>1. ToSet(ops[n].sources) \subseteq ModesOf(ops)
      BY SourcesAreModes
    <2> QED BY <1>1, <1>2, <1>3, <2>1 DEF Struct, Known
  <1>5. PICK h : h = R[k[e.source]]
    OBVIOUS
  <1>6. k[e.source] \in DOMAIN c /\ e.source \in SourcesIn(c[h].entries)
    BY <1>4, <1>5 DEF Struct, LedTo
  <1>7. h \in DOMAIN c /\ c[h].kind # "Moved"
    BY <1>5, <1>6 DEF Struct, RootedIn
  <1>8. PICK i \in DOMAIN c[h].entries : c[h].entries[i].source = e.source
    BY <1>6 DEF SourcesIn
  <1>9. PICK m \in 1 .. p - 1 : c[h].entries[i] \in EntriesOf(ops[m]) /\ ops[m].kind = KindOf(c[h].kind)
    <2>1. c[h].entries[i] \in ToSet(c[h].entries)
      BY <1>8 DEF ToSet
    <2> QED BY <1>7, <2>1 DEF Struct, Fit, Comes
  <1>10. m \in DOMAIN ops
    BY <1>1, <1>9
  <1>11. c[h].entries[i] = e /\ (m # n => {ops[m].kind, ops[n].kind} = {"DualBivariate"})
    <2>1. PICK d : d = c[h].entries[i]
      OBVIOUS
    <2>2. d \in EntriesOf(ops[m]) /\ d.source = e.source
      BY <1>8, <1>9, <2>1
    <2>3. d = e /\ (m # n => {ops[m].kind, ops[n].kind} = {"DualBivariate"})
      BY <1>1, <1>10, <2>2 DEF OneWayOn
    <2> QED BY <2>1, <2>3
  <1>12. ASSUME ops[n].kind = "SPD"
         PROVE  c[h].kind = "SPD"
    <2>1. m = n
      BY <1>11, <1>12
    <2> QED BY <1>9, <1>12, <2>1 DEF KindOf
  <1> QED BY <1>7, <1>8, <1>11, <1>12

\* A group fires once all that interferes with one of its modes has come.
LEMMA AwaitedFires ==
    ASSUME NEW ops, NEW p, NEW c, NEW k, NEW R, NEW D, Struct(ops, p, c, k, R, D), Grouped(ops, p, c),
           p = Len(ops) + 1, NEW h \in DOMAIN c, NEW i \in DOMAIN c[h].entries, c[h].kind # "Moved",
           NEW Q, Awaited(ops, c[h].entries[i].source) \subseteq Q
    PROVE  Fired(c, Q, h)
PROOF
  <1>1. Len(ops) \in Nat /\ \A g \in DOMAIN c : c[g] \in CellSet(ops)
    BY StructTypes
  <1>2. p - 1 = Len(ops)
    BY <1>1
  <1>3. GroupsUpTo(ops, Len(ops)) = SourceSets(c, GroupsIn(c))
    BY <1>2 DEF Grouped
  <1>4. CASE c[h].kind \in Grouping
    <2>1. SourcesIn(c[h].entries) \in SourceSets(c, GroupsIn(c))
      BY <1>4 DEF SourceSets, GroupsIn
    <2>2. c[h].entries[i].source \in SourcesIn(c[h].entries)
      BY DEF SourcesIn
    <2>3. SourcesIn(c[h].entries) \subseteq Q
      BY <1>3, <2>1, <2>2 DEF Awaited
    <2> QED BY <2>3 DEF Fired, SourcesIn
  <1>5. CASE c[h].kind \notin Grouping
    <2>1. c[h].kind \in PlainKinds
      BY <1>1, <1>5 DEF CellSet, CellKinds
    <2>2. Len(c[h].entries) = 1
      BY <2>1 DEF Struct, Fit
    <2>3. PICK S : c[h].entries \in Seq(S)
      BY <1>1 DEF CellSet
    <2>4. DOMAIN c[h].entries = 1 .. 1
      BY <2>2, <2>3, LenProperties
    <2>5. \A j \in DOMAIN c[h].entries : j = i
      BY <2>4
    <2>6. c[h].entries[i].source \in Q
      BY DEF Awaited
    <2> QED BY <2>5, <2>6 DEF Fired
  <1> QED BY <1>4, <1>5

LEMMA InvAnswered == Inv => EveryPacketAnswered
PROOF
  <1> SUFFICES ASSUME Inv, Registered, active = <<>>
               PROVE  {results[i].packet : i \in DOMAIN results} = Detected
    BY DEF EveryPacketAnswered
  <1>1. PICK R, D, Q : GoodState(R, D, Q)
    BY DEF Inv, GoodState
  <1>2. PICK ops, p, c : ops = operators /\ p = position /\ c = cells
    OBVIOUS
  <1>3. /\ Struct(ops, p, c, consumer, R, D) /\ Grouped(ops, p, c)
        /\ Shaped(ops) /\ Len(ops) \in Nat /\ DOMAIN ops = 1 .. Len(ops)
        /\ p \in Nat /\ p <= Len(ops) + 1 /\ p \notin DOMAIN ops /\ ops \in Islands
        /\ p > 0 /\ results \in Seq(PacketAndPhoton(ops))
    BY <1>1, <1>2, StateTypes, StructTypes
  <1>4. p = Len(ops) + 1
    BY <1>3
  <1>5. Come(ops, p, c, active, Q) /\ Answers(c, results, Q)
    BY <1>1, <1>2 DEF GoodState, Good, Flow
  <1>6. \A x : x \in Q <=> (FromSource(ops, p, x) \/ FromFired(c, Q, x))
    <2>1. \A x : x \notin ModesIn(active)
      BY DEF ModesIn
    <2> QED BY <1>5, <2>1 DEF Come
  <1>7. Emissions(ops) \subseteq Q
    <2>1. ASSUME NEW n \in DOMAIN ops, ops[n].kind = "EPPS", NEW x \in ToSet(ops[n].sinks)
          PROVE  x \in Q
      <3>1. n \in 1 .. p - 1
        BY <1>3, <1>4
      <3> QED BY <1>6, <2>1, <3>1 DEF FromSource
    <2> QED BY <2>1 DEF Emissions, Sources
  <1>8. ASSUME NEW modes, modes \subseteq Q
        PROVE  Further(ops, modes) \subseteq Q
    <2>1. ASSUME NEW n \in DOMAIN ops, NEW e \in EntriesOf(ops[n]), Awaited(ops, e.source) \subseteq modes,
                 NEW x \in ToSet(e.sinks)
          PROVE  x \in Q
      <3>1. PICK h \in DOMAIN c : \E i \in DOMAIN c[h].entries : c[h].entries[i] = e /\ c[h].kind # "Moved"
        BY <1>3, EntryIn
      <3>2. PICK i \in DOMAIN c[h].entries : c[h].entries[i] = e /\ c[h].kind # "Moved"
        BY <3>1
      <3>3. Awaited(ops, c[h].entries[i].source) \subseteq Q
        BY <1>8, <2>1, <3>2
      <3>4. Fired(c, Q, h)
        BY <1>3, <1>4, <3>2, <3>3, AwaitedFires
      <3>5. FromFired(c, Q, x)
        BY <3>2, <3>4 DEF FromFired, FromCell
      <3> QED BY <1>6, <3>5
    <2> QED BY <1>8, <2>1 DEF Further, Elements
  <1>9. ModesOf(ops) \subseteq Q
    <2>1. ReachedIn(ops, Len(ops)) \subseteq Q
      BY <1>3, <1>7, <1>8, ReachedWithin
    <2> QED BY <1>3, <2>1, ForwardAssumption DEF Forward
  <1>10. ASSUME NEW n \in DOMAIN ops, ops[n].kind = "SPD"
         PROVE  ops[n].sources[1] \in PacketsIn(results)
    <2>1. Entry(ops[n].sources[1], ops[n].sinks) \in EntriesOf(ops[n])
      BY <1>3, <1>10, PlainEntry DEF PlainKinds
    <2>2. PICK e, x : e = Entry(ops[n].sources[1], ops[n].sinks) /\ x = ops[n].sources[1]
      OBVIOUS
    <2>3. e \in EntriesOf(ops[n]) /\ e.source = x
      BY <2>1, <2>2 DEF Entry
    <2>4. PICK h \in DOMAIN c : \E i \in DOMAIN c[h].entries : c[h].entries[i] = e /\ c[h].kind = "SPD"
      BY <1>3, <1>10, <2>3, EntryIn
    <2>5. x \in SourcesIn(c[h].entries) /\ c[h].kind = "SPD"
      BY <2>3, <2>4 DEF SourcesIn
    <2>6. x \in ModesOf(ops)
      <3>1. ToSet(ops[n].sources) \subseteq ModesOf(ops)
        BY SourcesAreModes
      <3>2. e.source \in ToSet(ops[n].sources)
        BY <1>3, <2>3, EntryShape
      <3> QED BY <2>3, <3>1, <3>2
    <2>7. Measured(c, Q, x)
      BY <1>9, <2>5, <2>6 DEF Measured
    <2> QED BY <1>5, <2>2, <2>7 DEF Answers
  <1>11. ASSUME NEW i \in DOMAIN results
         PROVE  results[i].packet \in Detected
    <2>1. results[i] \in PacketAndPhoton(ops)
      BY <1>3
    <2> QED BY <1>2, <2>1 DEF PacketAndPhoton, DetectedIn, Detected
  <1> QED BY <1>2, <1>10, <1>11 DEF PacketsIn, Detected

\* collapse() returns with an outcome for every detected packet, and for no
\* other, if the elements of the island are connected without a loop: no group
\* is left waiting for a photon that does not come (monte_carlo.rs:317-410).
THEOREM AnswersComplete == Spec => []EveryPacketAnswered
  BY Invariant, InvAnswered, PTL
=============================================================================
