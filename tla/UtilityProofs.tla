---------------------------- MODULE UtilityProofs ----------------------------
(***************************************************************************)
(* Theorems about the two utilities under the simulator, whose models      *)
(* share nothing: the open-addressing set of util/set.rs (OpenAddressSet)  *)
(* and, as Snow!..., the identifiers of concurrency/snowflake.rs           *)
(* (Snowflakes).                                                           *)
(***************************************************************************)
EXTENDS OpenAddressSet, FiniteSetTheorems, WellFoundedInduction, TLAPS

CONSTANT Threads                                                \* of Snowflakes
VARIABLES allocated, next, born, id, drawn, counter, issued     \* of Snowflakes

Snow == INSTANCE Snowflakes

(***************************************************************************)
(* Recursive functions, proved about from a least number without a         *)
(* property.                                                               *)
(***************************************************************************)

LEMMA LeastOfNumbers ==
    ASSUME NEW T, T \subseteq Nat, T # {}
    PROVE  \E k \in T : \A j \in Nat : j < k => j \notin T
PROOF
  <1>1. PICK k \in T : \A j \in T : ~ (<<j, k>> \in OpToRel(<, Nat))
    BY NatLessThanWellFounded, WFMin
  <1>2. \A j \in T : ~ (j < k)
    BY <1>1 DEF OpToRel
  <1> QED BY <1>2

LEMMA UpTo ==
    ASSUME NEW n \in Nat, NEW P, 0 \in P, \A i \in 1 .. n : i - 1 \in P => i \in P
    PROVE  \A i \in 0 .. n : i \in P
PROOF
  <1> DEFINE B == {i \in 0 .. n : i \notin P}
  <1> SUFFICES ASSUME B # {} PROVE FALSE
    OBVIOUS
  <1>1. B \subseteq Nat
    OBVIOUS
  <1> HIDE DEF B
  <1>2. PICK k \in B : \A j \in Nat : j < k => j \notin B
    BY <1>1, LeastOfNumbers
  <1>3. k \in 0 .. n /\ k \notin P
    BY <1>2 DEF B
  <1>4. k \in 1 .. n /\ k - 1 \in 0 .. n /\ k - 1 < k /\ k - 1 \in Nat
    BY <1>3
  <1>5. k - 1 \in P
    BY <1>2, <1>4 DEF B
  <1> QED BY <1>3, <1>4, <1>5

Steps(n, S, base, step) == n \in Nat /\ base \in S /\ step \in [1 .. n -> [S -> S]]
Iteration(n, S, base, step, f) ==
    f \in [0 .. n -> S] /\ f[0] = base /\ \A i \in 1 .. n : f[i] = step[i][f[i - 1]]

LEMMA Iterates ==
    ASSUME NEW n, NEW S, NEW base, NEW step, Steps(n, S, base, step)
    PROVE  \E f : Iteration(n, S, base, step, f)
PROOF
  <1>0. n \in Nat /\ base \in S /\ step \in [1 .. n -> [S -> S]]
    BY DEF Steps
  <1> DEFINE P == {m \in 0 .. n : \E f \in [0 .. m -> S] :
                      f[0] = base /\ \A i \in 1 .. m : f[i] = step[i][f[i - 1]]}
  <1>1. 0 \in P
    <2>1. PICK f : f = [i \in 0 .. 0 |-> base]
      OBVIOUS
    <2>2. f \in [0 .. 0 -> S] /\ f[0] = base /\ 0 \in 0 .. n
      BY <1>0, <2>1
    <2>3. \A i \in 1 .. 0 : f[i] = step[i][f[i - 1]]
      OBVIOUS
    <2> QED BY <2>2, <2>3
  <1>2. ASSUME NEW m \in 1 .. n, m - 1 \in P
        PROVE  m \in P
    <2>0. m \in Nat /\ m \in 1 .. n /\ m \in 0 .. n
      BY <1>0
    <2>1. PICK f \in [0 .. m - 1 -> S] : f[0] = base /\ \A i \in 1 .. m - 1 : f[i] = step[i][f[i - 1]]
      BY <1>2
    <2>2. m - 1 \in 0 .. m - 1 /\ f[m - 1] \in S
      BY <2>0, <2>1
    <2>3. step[m][f[m - 1]] \in S
      BY <1>0, <2>0, <2>2
    <2> DEFINE g == [i \in 0 .. m |-> IF i = m THEN step[m][f[m - 1]] ELSE f[i]]
    <2>4. g \in [0 .. m -> S]
      <3>1. \A i \in 0 .. m : i # m => i \in 0 .. m - 1
        BY <2>0
      <3> QED BY <2>1, <2>3, <3>1
    <2>5. g[0] = base
      BY <2>0, <2>1
    <2>6. ASSUME NEW i \in 1 .. m
          PROVE  g[i] = step[i][g[i - 1]]
      <3>1. CASE i = m
        <4>1. m - 1 \in 0 .. m /\ m - 1 # m /\ m \in 0 .. m
          BY <2>0
        <4>2. g[m - 1] = f[m - 1] /\ g[m] = step[m][f[m - 1]]
          BY <4>1
        <4> QED BY <3>1, <4>2
      <3>2. CASE i # m
        <4>1. i \in 1 .. m - 1 /\ i \in 0 .. m /\ i - 1 \in 0 .. m /\ i - 1 # m
          BY <2>0, <3>2
        <4>2. g[i] = f[i] /\ g[i - 1] = f[i - 1]
          BY <3>2, <4>1
        <4> QED BY <2>1, <4>1, <4>2
      <3> QED BY <3>1, <3>2
    <2> HIDE DEF g
    <2> QED BY <2>0, <2>4, <2>5, <2>6
  <1> HIDE DEF P
  <1>3. n \in P
    <2>1. n \in Nat /\ n \in 0 .. n
      BY <1>0
    <2> QED BY <1>1, <1>2, <2>1, UpTo
  <1> QED BY <1>3 DEF P, Iteration

-----------------------------------------------------------------------------
(* Slots in a circle                                                       *)

\* How many slots b lies behind a, in a circle of n.
Off(n, a, b) == IF b >= a THEN b - a ELSE b - a + n

LEMMA Wraps ==
    ASSUME NEW n \in Nat, n > 0, NEW a \in Int
    PROVE  /\ a % n \in 0 .. n - 1
           /\ 0 <= a /\ a < n => a % n = a
           /\ n <= a /\ a < 2 * n => a % n = a - n
           /\ -n <= a /\ a < 0 => a % n = a + n
PROOF
  <1>1. a % n \in 0 .. n - 1
    BY SMT
  <1>2. 0 <= a /\ a < n => a % n = a
    BY SMT
  <1>3. n <= a /\ a < 2 * n => a % n = a - n
    BY SMT
  <1>4. -n <= a /\ a < 0 => a % n = a + n
    BY SMT
  <1> QED BY <1>1, <1>2, <1>3, <1>4

Table(n, t) == n \in Nat /\ n >= 2 /\ t \in [0 .. n - 1 -> Keys]

LEMMA KeysAre == Keys \subseteq Nat /\ EMPTY \in Keys
  BY TableAssumption DEF Keys, EMPTY

LEMMA CircleIs ==
    ASSUME NEW n, NEW t, Table(n, t)
    PROVE  /\ Cap(t) = n /\ DOMAIN t = 0 .. n - 1 /\ n \in Nat /\ n > 0
           /\ \A x \in Keys : Home(x, t) = x % n /\ x % n \in 0 .. n - 1
PROOF
  <1>1. n \in Nat /\ n > 0 /\ DOMAIN t = 0 .. n - 1
    BY DEF Table
  <1>2. Cardinality(0 .. n - 1) = n
    <2>1. PICK a, b \in Int : a = 0 /\ b = n - 1
      BY <1>1
    <2>2. Cardinality(a .. b) = IF a > b THEN 0 ELSE b - a + 1
      BY <2>1, FS_Interval
    <2>3. (IF a > b THEN 0 ELSE b - a + 1) = n
      BY <1>1, <2>1
    <2> QED BY <2>1, <2>2, <2>3
  <1>3. Cap(t) = n
    BY <1>1, <1>2 DEF Cap
  <1>4. \A x \in Keys : Home(x, t) = x % n /\ x % n \in 0 .. n - 1
    BY <1>1, <1>3, KeysAre, Wraps DEF Home
  <1> QED BY <1>1, <1>3, <1>4

\* d slots behind h.
LEMMA AfterIs ==
    ASSUME NEW n, NEW t, Table(n, t), NEW h \in 0 .. n - 1
    PROVE  /\ \A d \in 0 .. n - 1 : After(h, d, t) \in 0 .. n - 1 /\ Off(n, h, After(h, d, t)) = d
           /\ \A p \in 0 .. n - 1 : Off(n, h, p) \in 0 .. n - 1 /\ After(h, Off(n, h, p), t) = p
           /\ \A p \in 0 .. n - 1 : (p - h) % n = Off(n, h, p)
PROOF
  <1>1. Cap(t) = n /\ n \in Nat /\ n > 0
    BY CircleIs
  <1>2. ASSUME NEW d \in 0 .. n - 1
        PROVE  After(h, d, t) = IF h + d < n THEN h + d ELSE h + d - n
    <2>1. h + d \in Int /\ 0 <= h + d /\ h + d < 2 * n
      BY <1>1
    <2>2. (h + d) % n = IF h + d < n THEN h + d ELSE h + d - n
      BY <1>1, <2>1, Wraps
    <2> QED BY <1>1, <2>2 DEF After
  <1>3. ASSUME NEW d \in 0 .. n - 1
        PROVE  After(h, d, t) \in 0 .. n - 1 /\ Off(n, h, After(h, d, t)) = d
    BY <1>1, <1>2 DEF Off
  <1>4. ASSUME NEW p \in 0 .. n - 1
        PROVE  Off(n, h, p) \in 0 .. n - 1 /\ After(h, Off(n, h, p), t) = p
    <2>1. Off(n, h, p) \in 0 .. n - 1
      BY <1>1 DEF Off
    <2> QED BY <1>1, <1>2, <2>1 DEF Off
  <1>5. ASSUME NEW p \in 0 .. n - 1
        PROVE  (p - h) % n = Off(n, h, p)
    <2>1. p - h \in Int /\ -n <= p - h /\ p - h < n
      BY <1>1
    <2> QED BY <1>1, <2>1, Wraps DEF Off
  <1> QED BY <1>3, <1>4, <1>5

-----------------------------------------------------------------------------
(* Probing                                                                 *)

\* Probing for x ends at slot i.
Ends(n, t, x, i) ==
    /\ i \in 0 .. n - 1 /\ t[i] \in {x, EMPTY}
    /\ \A p \in 0 .. n - 1 : Off(n, x % n, p) < Off(n, x % n, i) => t[p] \notin {x, EMPTY}

LEMMA ProbeEnds ==
    ASSUME NEW n, NEW t, Table(n, t), NEW x \in Keys, NEW e \in 0 .. n - 1, t[e] \in {x, EMPTY}
    PROVE  Ends(n, t, x, Probe(x, t))
PROOF
  <1>1. Cap(t) = n /\ n \in Nat /\ n > 0 /\ Home(x, t) = x % n /\ x % n \in 0 .. n - 1
    BY CircleIs
  <1>2. PICK h : h = x % n
    OBVIOUS
  <1>3. /\ \A d \in 0 .. n - 1 : After(h, d, t) \in 0 .. n - 1 /\ Off(n, h, After(h, d, t)) = d
        /\ \A p \in 0 .. n - 1 : Off(n, h, p) \in 0 .. n - 1 /\ After(h, Off(n, h, p), t) = p
    <2>1. h \in 0 .. n - 1
      BY <1>1, <1>2
    <2>2. \A d \in 0 .. n - 1 : After(h, d, t) \in 0 .. n - 1 /\ Off(n, h, After(h, d, t)) = d
      BY <2>1, AfterIs
    <2>3. \A p \in 0 .. n - 1 : Off(n, h, p) \in 0 .. n - 1 /\ After(h, Off(n, h, p), t) = p
      BY <2>1, AfterIs
    <2> QED BY <2>2, <2>3
  <1>4. \A d : Stops(x, d, t) <=> t[After(h, d, t)] \in {x, EMPTY}
    BY <1>1, <1>2 DEF Stops
  <1>5. PICK D : D = {d \in 0 .. n - 1 : Stops(x, d, t)}
    OBVIOUS
  <1>6. D \subseteq Nat /\ Off(n, h, e) \in D
    BY <1>1, <1>3, <1>4, <1>5
  <1>7. PICK m \in D : \A j \in Nat : j < m => j \notin D
    BY <1>6, LeastOfNumbers
  <1>8. \E d \in 0 .. n - 1 : Stops(x, d, t) /\ \A g \in 0 .. d - 1 : ~ Stops(x, g, t)
    <2>1. m \in 0 .. n - 1 /\ Stops(x, m, t)
      BY <1>5, <1>7
    <2>2. \A g \in 0 .. m - 1 : g \in Nat /\ g < m /\ g \in 0 .. n - 1
      BY <1>1, <2>1
    <2>3. \A g \in 0 .. m - 1 : ~ Stops(x, g, t)
      BY <1>5, <1>7, <2>2
    <2> QED BY <2>1, <2>3
  <1>9. PICK d : d = CHOOSE c \in 0 .. Cap(t) - 1 : Stops(x, c, t) /\ \A g \in 0 .. c - 1 : ~ Stops(x, g, t)
    OBVIOUS
  <1>10. d \in 0 .. n - 1 /\ Stops(x, d, t) /\ \A g \in 0 .. d - 1 : ~ Stops(x, g, t)
    BY <1>1, <1>8, <1>9
  <1>11. Probe(x, t) = After(h, d, t)
    BY <1>1, <1>2, <1>9 DEF Probe
  <1>12. ASSUME NEW p \in 0 .. n - 1, Off(n, h, p) < d
         PROVE  t[p] \notin {x, EMPTY}
    <2>1. Off(n, h, p) \in 0 .. d - 1
      BY <1>3, <1>10, <1>12
    <2> QED BY <1>3, <1>4, <1>10, <2>1
  <1> QED BY <1>2, <1>3, <1>4, <1>10, <1>11, <1>12 DEF Ends

LEMMA OneEnd ==
    ASSUME NEW n, NEW t, Table(n, t), NEW x \in Keys, NEW i, NEW j, Ends(n, t, x, i), Ends(n, t, x, j)
    PROVE  i = j
PROOF
  <1>1. n \in Nat /\ n > 0 /\ x % n \in 0 .. n - 1
    BY CircleIs
  <1>2. i \in 0 .. n - 1 /\ j \in 0 .. n - 1 /\ t[i] \in {x, EMPTY} /\ t[j] \in {x, EMPTY}
    BY DEF Ends
  <1>3. ~ (Off(n, x % n, i) < Off(n, x % n, j)) /\ ~ (Off(n, x % n, j) < Off(n, x % n, i))
    BY <1>2 DEF Ends
  <1>4. PICK h : h = x % n
    OBVIOUS
  <1>5. ~ (Off(n, h, i) < Off(n, h, j)) /\ ~ (Off(n, h, j) < Off(n, h, i)) /\ h \in 0 .. n - 1
    BY <1>1, <1>3, <1>4
  <1> QED BY <1>1, <1>2, <1>5 DEF Off

-----------------------------------------------------------------------------
(* Tables in which every key is where probing for it ends                  *)

Good(n, t) == Table(n, t) /\ \A i \in 0 .. n - 1 : t[i] # EMPTY => Ends(n, t, t[i], i)
Held(n, t) == {t[i] : i \in 0 .. n - 1} \ {EMPTY}
Used(n, t) == {i \in 0 .. n - 1 : t[i] # EMPTY}

LEMMA OnceEach ==
    ASSUME NEW n, NEW t, Good(n, t), NEW i \in 0 .. n - 1, NEW j \in 0 .. n - 1, t[i] # EMPTY, t[i] = t[j]
    PROVE  i = j
PROOF
  <1>1. PICK x : x = t[i]
    OBVIOUS
  <1>2. Table(n, t) /\ x \in Keys /\ Ends(n, t, x, i) /\ Ends(n, t, x, j)
    BY <1>1 DEF Good, Table
  <1> QED BY <1>2, OneEnd

LEMMA HeldSize ==
    ASSUME NEW n, NEW t, Good(n, t)
    PROVE  /\ IsFiniteSet(Held(n, t)) /\ Cardinality(Held(n, t)) \in Nat
           /\ Cardinality(Used(n, t)) = Cardinality(Held(n, t))
           /\ Cardinality(Held(n, t)) < n => \E e \in 0 .. n - 1 : t[e] = EMPTY
PROOF
  <1>1. n \in Nat /\ n > 0 /\ Table(n, t)
    BY CircleIs DEF Good
  <1>2. IsFiniteSet(0 .. n - 1) /\ Cardinality(0 .. n - 1) = n
    <2>1. DOMAIN t = 0 .. n - 1 /\ Cap(t) = n
      BY <1>1, CircleIs
    <2>2. Cardinality(0 .. n - 1) = n
      BY <2>1 DEF Cap
    <2>3. PICK a, b \in Int : a = 0 /\ b = n - 1
      BY <1>1
    <2>4. IsFiniteSet(a .. b)
      BY FS_Interval
    <2> QED BY <2>2, <2>3, <2>4
  <1>3. PICK U, H : U = Used(n, t) /\ H = Held(n, t)
    OBVIOUS
  <1>4. IsFiniteSet(U)
    BY <1>2, <1>3, FS_Subset DEF Used
  <1>5. PICK f : f = [i \in U |-> t[i]]
    OBVIOUS
  <1>6. f \in Surjection(U, H)
    BY <1>3, <1>5 DEF Surjection, Used, Held
  <1>7. f \in Injection(U, H)
    <2>1. f \in [U -> H]
      BY <1>6 DEF Surjection
    <2>2. \A i, j \in U : f[i] = f[j] => i = j
      BY <1>3, <1>5, OnceEach DEF Used
    <2> QED BY <2>1, <2>2 DEF Injection, IsInjective
  <1>8. ExistsBijection(U, H)
    BY <1>6, <1>7 DEF ExistsBijection, Bijection
  <1>9. IsFiniteSet(H) /\ Cardinality(H) = Cardinality(U)
    BY <1>4, <1>8, FS_Bijection
  <1>10. Cardinality(H) \in Nat
    BY <1>9, FS_CardinalityType
  <1>11. ASSUME \A e \in 0 .. n - 1 : t[e] # EMPTY
         PROVE  ~ (Cardinality(H) < n)
    <2>1. U = 0 .. n - 1
      BY <1>3, <1>11 DEF Used
    <2> QED BY <1>1, <1>2, <1>9, <2>1
  <1> QED BY <1>3, <1>9, <1>10, <1>11

\* Table u is table t with key x put into slot i.
Put(n, t, x, i, u) == Good(n, u) /\ Held(n, u) = Held(n, t) \cup {x} /\ (x \in Held(n, t) <=> t[i] = x)

\* insert, once the slot is found.
LEMMA PutKey ==
    ASSUME NEW n, NEW t, Good(n, t), NEW x \in Keys, x # EMPTY, NEW i, Ends(n, t, x, i),
           NEW u, u = [t EXCEPT ![i] = x]
    PROVE  Put(n, t, x, i, u)
PROOF
  <1>1. Table(n, t) /\ n \in Nat /\ n > 0 /\ t \in [0 .. n - 1 -> Keys]
    BY CircleIs DEF Good, Table
  <1>2. i \in 0 .. n - 1 /\ t[i] \in {x, EMPTY}
    BY DEF Ends
  <1>3. u \in [0 .. n - 1 -> Keys] /\ \A p \in 0 .. n - 1 : u[p] = IF p = i THEN x ELSE t[p]
    BY <1>1
  <1>4. ASSUME NEW j \in 0 .. n - 1, t[j] = x
        PROVE  j = i
    <2>1. Ends(n, t, x, j)
      BY <1>4 DEF Good
    <2> QED BY <1>1, <2>1, OneEnd
  <1>5. ASSUME NEW j \in 0 .. n - 1, u[j] # EMPTY
        PROVE  Ends(n, u, u[j], j)
    <2>1. PICK y : y = u[j]
      OBVIOUS
    <2>2. Ends(n, t, y, j)
      BY <1>3, <1>5, <2>1 DEF Good
    <2>3. j # i => y # x
      BY <1>3, <1>4, <2>1
    <2>4. ASSUME NEW p \in 0 .. n - 1, Off(n, y % n, p) < Off(n, y % n, j)
          PROVE  u[p] \notin {y, EMPTY}
      <3>1. t[p] \notin {y, EMPTY}
        BY <2>2, <2>4 DEF Ends
      <3>2. CASE p # i
        BY <1>3, <3>1, <3>2
      <3>3. CASE p = i /\ j # i
        BY <1>3, <2>3, <3>3
      <3>4. CASE p = i /\ j = i
        <4>1. Off(n, y % n, j) \in Int
          <5>1. y % n \in 0 .. n - 1
            BY <1>1, <1>3, <2>1, CircleIs
          <5> QED BY <1>1, <5>1 DEF Off
        <4> QED BY <2>4, <3>4, <4>1
      <3> QED BY <3>2, <3>3, <3>4
    <2> QED BY <2>1, <2>4 DEF Ends
  <1>6. Good(n, u)
    BY <1>1, <1>3, <1>5 DEF Good, Table
  <1>7. Held(n, u) = Held(n, t) \cup {x}
    <2>1. ASSUME NEW y \in Held(n, u)
          PROVE  y \in Held(n, t) \cup {x}
      BY <1>3 DEF Held
    <2>2. x \in Held(n, u)
      BY <1>2, <1>3 DEF Held
    <2>3. ASSUME NEW y \in Held(n, t)
          PROVE  y \in Held(n, u)
      <3>1. PICK p \in 0 .. n - 1 : t[p] = y /\ y # EMPTY
        BY DEF Held
      <3>2. CASE p = i
        BY <1>2, <2>2, <3>1, <3>2
      <3>3. CASE p # i
        BY <1>3, <3>1, <3>3 DEF Held
      <3> QED BY <3>2, <3>3
    <2> QED BY <2>1, <2>2, <2>3
  <1>8. x \in Held(n, t) <=> t[i] = x
    BY <1>2, <1>4 DEF Held
  <1> QED BY <1>6, <1>7, <1>8 DEF Put

-----------------------------------------------------------------------------
(* Growth                                                                  *)

\* The keys of the first m slots are in a table of n slots.
Rehashing(n, t, m, u) == Good(n, u) /\ Held(n, u) = {t[i] : i \in 0 .. m - 1} \ {EMPTY}

LEMMA EmptyIs ==
    ASSUME NEW n \in Nat, n >= 2
    PROVE  Good(n, EmptyTable(n)) /\ Held(n, EmptyTable(n)) = {}
PROOF
  <1>1. EmptyTable(n) \in [0 .. n - 1 -> Keys] /\ \A i \in 0 .. n - 1 : EmptyTable(n)[i] = EMPTY
    BY KeysAre DEF EmptyTable
  <1> QED BY <1>1 DEF Good, Table, Held

Rehash(t, m, u) == IF t[m - 1] = EMPTY THEN u ELSE [u EXCEPT ![Probe(t[m - 1], u)] = t[m - 1]]

\* A key of the next slot is new, and there is a slot for it.
LEMMA RehashStep ==
    ASSUME NEW n, NEW t, Good(n, t), NEW k, k = 2 * n, NEW m \in 1 .. n, NEW u, Rehashing(k, t, m - 1, u)
    PROVE  Rehashing(k, t, m, Rehash(t, m, u))
PROOF
  <1>1. n \in Nat /\ n >= 2 /\ Table(n, t) /\ m - 1 \in 0 .. n - 1 /\ k \in Nat /\ k >= 2
    BY DEF Good, Table
  <1>2. Good(k, u) /\ Held(k, u) = {t[i] : i \in 0 .. (m - 1) - 1} \ {EMPTY} /\ Table(k, u)
    BY DEF Rehashing, Good
  <1>3. \A i \in 0 .. m - 1 : i = m - 1 \/ i \in 0 .. (m - 1) - 1
    BY <1>1
  <1>4. \A i \in 0 .. (m - 1) - 1 : i \in 0 .. m - 1
    BY <1>1
  <1>5. PICK x : x = t[m - 1]
    OBVIOUS
  <1>6. CASE x = EMPTY
    <2>1. Rehash(t, m, u) = u
      BY <1>5, <1>6 DEF Rehash
    <2>2. {t[i] : i \in 0 .. m - 1} \ {EMPTY} = {t[i] : i \in 0 .. (m - 1) - 1} \ {EMPTY}
      BY <1>3, <1>4, <1>5, <1>6
    <2> QED BY <1>2, <2>1, <2>2 DEF Rehashing
  <1>7. CASE x # EMPTY
    <2>1. x \in Keys
      BY <1>1, <1>5 DEF Table
    <2>2. Held(k, u) \subseteq Held(n, t)
      <3>1. \A i \in 0 .. (m - 1) - 1 : i \in 0 .. n - 1
        BY <1>1
      <3> QED BY <1>2, <3>1 DEF Held
    <2>3. Cardinality(Held(k, u)) < k
      <3>1. IsFiniteSet(Held(n, t)) /\ Cardinality(Used(n, t)) = Cardinality(Held(n, t))
        BY HeldSize
      <3>2. Cardinality(Held(k, u)) <= Cardinality(Held(n, t))
        BY <2>2, <3>1, FS_Subset
      <3>3. Cardinality(Held(n, t)) <= n
        <4>1. Cap(t) = n /\ DOMAIN t = 0 .. n - 1
          BY <1>1, CircleIs
        <4>2. Cardinality(0 .. n - 1) = n
          BY <4>1 DEF Cap
        <4>3. PICK a, b \in Int : a = 0 /\ b = n - 1
          BY <1>1
        <4>4. IsFiniteSet(a .. b)
          BY FS_Interval
        <4>5. Cardinality(Used(n, t)) <= Cardinality(0 .. n - 1)
          BY <4>3, <4>4, FS_Subset DEF Used
        <4> QED BY <3>1, <4>2, <4>5
      <3>4. Cardinality(Held(k, u)) \in Nat /\ Cardinality(Held(n, t)) \in Nat
        BY <1>2, HeldSize
      <3>5. PICK c, d \in Nat : c = Cardinality(Held(k, u)) /\ d = Cardinality(Held(n, t))
        BY <3>4
      <3>6. c <= d /\ d <= n
        BY <3>2, <3>3, <3>5
      <3>7. c < k
        BY <1>1, <3>6
      <3> QED BY <3>5, <3>7
    <2>4. PICK e \in 0 .. k - 1 : u[e] = EMPTY
      BY <1>2, <2>3, HeldSize
    <2>5. PICK i : i = Probe(x, u)
      OBVIOUS
    <2>6. Ends(k, u, x, i)
      BY <1>2, <2>1, <2>4, <2>5, ProbeEnds
    <2>7. PICK v : v = [u EXCEPT ![i] = x]
      OBVIOUS
    <2>8. Good(k, v) /\ Held(k, v) = Held(k, u) \cup {x}
      <3>1. Put(k, u, x, i, v)
        BY <1>2, <1>7, <2>1, <2>6, <2>7, PutKey
      <3> QED BY <3>1 DEF Put
    <2>9. Rehash(t, m, u) = v
      BY <1>5, <1>7, <2>5, <2>7 DEF Rehash
    <2>10. {t[j] : j \in 0 .. m - 1} \ {EMPTY} = ({t[j] : j \in 0 .. (m - 1) - 1} \ {EMPTY}) \cup {x}
      <3>1. m - 1 \in 0 .. m - 1
        BY <1>1
      <3> QED BY <1>3, <1>4, <1>5, <1>7, <3>1
    <2> QED BY <1>2, <2>8, <2>9, <2>10 DEF Rehashing
  <1> QED BY <1>6, <1>7

LEMMA RehashedIs ==
    ASSUME NEW n, Good(n, slots)
    PROVE  \E a : /\ a = [m \in 0 .. n |-> IF m = 0 THEN EmptyTable(2 * n) ELSE Rehash(slots, m, a[m - 1])]
                  /\ Grown = a[n]
PROOF
  <1>1. Cap(slots) = n /\ n \in Nat /\ n >= 2
    BY CircleIs DEF Good, Table
  <1>2. PICK t, k, S : t = slots /\ k = 2 * n /\ S = [0 .. k - 1 -> Keys]
    OBVIOUS
  <1>3. ASSUME NEW m \in 1 .. n, NEW u \in S
        PROVE  Rehash(t, m, u) \in S
    <2>1. t[m - 1] \in Keys
      <3>1. m - 1 \in 0 .. n - 1
        BY <1>1
      <3> QED BY <1>2, <3>1 DEF Good, Table
    <2> QED BY <1>2, <2>1 DEF Rehash
  <1>4. PICK st : st = [m \in 1 .. n |-> [u \in S |-> Rehash(t, m, u)]]
    OBVIOUS
  <1>5. st \in [1 .. n -> [S -> S]] /\ \A m \in 1 .. n : \A u \in S : st[m][u] = Rehash(t, m, u)
    BY <1>3, <1>4
  <1>6. PICK base : base = EmptyTable(2 * n)
    OBVIOUS
  <1>7. base \in S
    BY <1>1, <1>2, <1>6, EmptyIs DEF Good, Table
  <1>8. Steps(n, S, base, st)
    BY <1>1, <1>5, <1>7 DEF Steps
  <1>9. PICK f : Iteration(n, S, base, st, f)
    BY <1>8, Iterates
  <1>10. f = [m \in 0 .. n |-> IF m = 0 THEN EmptyTable(2 * n) ELSE Rehash(slots, m, f[m - 1])]
    <2>1. f \in [0 .. n -> S] /\ f[0] = EmptyTable(2 * n) /\ \A m \in 1 .. n : f[m] = st[m][f[m - 1]]
      BY <1>6, <1>9 DEF Iteration
    <2>2. \A m \in 1 .. n : m - 1 \in 0 .. n
      BY <1>1
    <2>3. \A m \in 1 .. n : f[m] = Rehash(slots, m, f[m - 1])
      BY <1>2, <1>5, <2>1, <2>2
    <2>4. \A m \in 0 .. n : m # 0 => m \in 1 .. n
      OBVIOUS
    <2> QED BY <2>1, <2>3, <2>4
  <1>11. PICK a : a = CHOOSE g : g = [m \in 0 .. n |-> IF m = 0 THEN EmptyTable(2 * n) ELSE Rehash(slots, m, g[m - 1])]
    OBVIOUS
  <1>12. a = [m \in 0 .. n |-> IF m = 0 THEN EmptyTable(2 * n) ELSE Rehash(slots, m, a[m - 1])]
    BY <1>10, <1>11
  <1>13. Grown = a[n]
    BY <1>1, <1>11 DEF Grown, Rehashed, Rehash
  <1> QED BY <1>12, <1>13

LEMMA GrownIs ==
    ASSUME NEW n, Good(n, slots)
    PROVE  Good(2 * n, Grown) /\ Held(2 * n, Grown) = Held(n, slots)
PROOF
  <1>1. n \in Nat /\ n >= 2
    BY DEF Good, Table
  <1>2. PICK t, k : t = slots /\ k = 2 * n
    OBVIOUS
  <1>3. PICK a : /\ a = [m \in 0 .. n |-> IF m = 0 THEN EmptyTable(2 * n) ELSE Rehash(slots, m, a[m - 1])]
                 /\ Grown = a[n]
    BY RehashedIs
  <1>4. PICK P : P = {m \in 0 .. n : Rehashing(k, t, m, a[m])}
    OBVIOUS
  <1>5. 0 \in P
    <2>1. 0 \in 0 .. n
      BY <1>1
    <2>2. a[0] = EmptyTable(k)
      BY <1>2, <1>3, <2>1
    <2>3. k \in Nat /\ k >= 2
      BY <1>1, <1>2
    <2>4. {t[i] : i \in 0 .. 0 - 1} = {}
      OBVIOUS
    <2>5. Rehashing(k, t, 0, a[0])
      BY <2>2, <2>3, <2>4, EmptyIs DEF Rehashing
    <2> QED BY <1>4, <2>1, <2>5
  <1>6. ASSUME NEW m \in 1 .. n, m - 1 \in P
        PROVE  m \in P
    <2>1. m \in 0 .. n /\ m # 0
      BY <1>1
    <2>2. a[m] = Rehash(t, m, a[m - 1])
      BY <1>2, <1>3, <2>1
    <2>3. Rehashing(k, t, m - 1, a[m - 1])
      BY <1>4, <1>6
    <2>4. Rehashing(k, t, m, a[m])
      BY <1>2, <2>2, <2>3, RehashStep
    <2> QED BY <1>4, <2>1, <2>4
  <1>7. n \in 0 .. n
    BY <1>1
  <1>8. n \in P
    BY <1>1, <1>5, <1>6, <1>7, UpTo
  <1>9. Rehashing(k, t, n, a[n])
    BY <1>4, <1>8
  <1> QED BY <1>2, <1>3, <1>9 DEF Rehashing, Held

-----------------------------------------------------------------------------
(* Backward shift                                                          *)

LEMMA OffType ==
    ASSUME NEW n \in Nat, NEW h \in 0 .. n - 1, NEW a \in 0 .. n - 1
    PROVE  Off(n, h, a) \in Nat /\ Off(n, h, a) < n
  BY DEF Off

LEMMA Circle ==
    ASSUME NEW n \in Nat, NEW h \in 0 .. n - 1, NEW a \in 0 .. n - 1, NEW b \in 0 .. n - 1
    PROVE  /\ Off(n, h, a) \in 0 .. n - 1
           /\ Off(n, h, a) = Off(n, h, b) => a = b
           /\ a # b => Off(n, a, b) > 0
           /\ Off(n, h, a) < Off(n, h, b) => Off(n, a, b) = Off(n, h, b) - Off(n, h, a)
           /\ Off(n, a, b) <= Off(n, h, b) => Off(n, h, a) = Off(n, h, b) - Off(n, a, b)
PROOF
  <1>1. Off(n, h, a) \in 0 .. n - 1
    BY DEF Off
  <1>2. Off(n, h, a) = Off(n, h, b) => a = b
    BY DEF Off
  <1>3. a # b => Off(n, a, b) > 0
    BY DEF Off
  <1>4. Off(n, h, a) < Off(n, h, b) => Off(n, a, b) = Off(n, h, b) - Off(n, h, a)
    BY DEF Off
  <1>5. Off(n, a, b) <= Off(n, h, b) => Off(n, h, a) = Off(n, h, b) - Off(n, a, b)
    BY DEF Off
  <1> QED BY <1>1, <1>2, <1>3, <1>4, <1>5

\* From i on, slot q lies between a and z, or z before a and q behind it.
Passed(n, i, a, q, z) ==
    \/ Off(n, i, z) < Off(n, i, a) /\ Off(n, i, a) < Off(n, i, q)
    \/ Off(n, i, a) < Off(n, i, q) /\ Off(n, i, q) < Off(n, i, z)

\* Who passes a on the way to z passes q as well.
LEMMA PassesFree ==
    ASSUME NEW n \in Nat, NEW h \in 0 .. n - 1, NEW i \in 0 .. n - 1, NEW a \in 0 .. n - 1,
           NEW q \in 0 .. n - 1, NEW z \in 0 .. n - 1, Passed(n, i, a, q, z),
           Off(n, h, a) < Off(n, h, z)
    PROVE  Off(n, h, q) < Off(n, h, z)
PROOF
  <1>1. Off(n, a, q) < Off(n, a, z)
    BY DEF Off, Passed
  <1> QED BY <1>1 DEF Off

\* The cluster behind slot i ends at the free slot q.
Cluster(n, t, i, q) ==
    /\ Good(n, t) /\ i \in 0 .. n - 1 /\ q \in 0 .. n - 1 /\ t[i] # EMPTY /\ t[q] = EMPTY
    /\ \A z \in 0 .. n - 1 : Off(n, i, z) < Off(n, i, q) => t[z] # EMPTY

\* Slot h of table u is the hole, k slots behind i were looked at: the key of
\* every other slot z is where probing ends, or passes the hole and lies further on.
Holed(n, t, i, k, u, h) ==
    /\ Table(n, u) /\ h \in 0 .. n - 1 /\ Off(n, i, h) <= k
    /\ \A z \in 0 .. n - 1 : Off(n, i, z) > k => u[z] = t[z]
    /\ \A z, p \in 0 .. n - 1 :
          z # h /\ u[z] # EMPTY /\ Off(n, u[z] % n, p) < Off(n, u[z] % n, z) =>
             IF p = h THEN Off(n, i, z) > k ELSE u[p] \notin {u[z], EMPTY}
    /\ {u[z] : z \in (0 .. n - 1) \ {h}} \ {EMPTY} = Held(n, t) \ {t[i]}

LEMMA HoledFirst ==
    ASSUME NEW n, NEW t, NEW i, NEW q, Cluster(n, t, i, q)
    PROVE  Holed(n, t, i, 0, t, i)
PROOF
  <1>1. Table(n, t) /\ n \in Nat /\ n > 0 /\ i \in 0 .. n - 1 /\ t[i] # EMPTY /\ Good(n, t)
    BY CircleIs DEF Good, Cluster
  <1>2. Off(n, i, i) <= 0 /\ \A z \in 0 .. n - 1 : z # i => Off(n, i, z) > 0
    BY <1>1 DEF Off
  <1>3. ASSUME NEW z \in 0 .. n - 1, NEW p \in 0 .. n - 1, z # i, t[z] # EMPTY,
               Off(n, t[z] % n, p) < Off(n, t[z] % n, z)
        PROVE  IF p = i THEN Off(n, i, z) > 0 ELSE t[p] \notin {t[z], EMPTY}
    <2>1. t[p] \notin {t[z], EMPTY}
      BY <1>1, <1>3 DEF Good, Ends
    <2> QED BY <1>2, <1>3, <2>1
  <1>4. {t[z] : z \in (0 .. n - 1) \ {i}} \ {EMPTY} = Held(n, t) \ {t[i]}
    <2>1. \A z \in 0 .. n - 1 : t[z] = t[i] => z = i
      BY <1>1, OnceEach
    <2> QED BY <2>1 DEF Held
  <1> QED BY <1>1, <1>2, <1>3, <1>4 DEF Holed

LEMMA HoledOnce ==
    ASSUME NEW n, NEW t, NEW i, NEW k, NEW u, NEW h, Holed(n, t, i, k, u, h),
           NEW a \in 0 .. n - 1, NEW b \in 0 .. n - 1, a # h, b # h, u[a] # EMPTY, u[a] = u[b]
    PROVE  a = b
PROOF
  <1>1. PICK y : y = u[a]
    OBVIOUS
  <1>2. PICK g : g = y % n
    OBVIOUS
  <1>3. Table(n, u) /\ n \in Nat /\ n > 0 /\ y \in Keys
    BY <1>1, CircleIs DEF Holed, Table
  <1>4. g \in 0 .. n - 1
    BY <1>2, <1>3, CircleIs
  <1>5. ~ (Off(n, g, a) < Off(n, g, b)) /\ ~ (Off(n, g, b) < Off(n, g, a))
    BY <1>1, <1>2 DEF Holed
  <1> QED BY <1>3, <1>4, <1>5 DEF Off

\* The next slot of the cluster, j: its key stays.
LEMMA HoledStays ==
    ASSUME NEW n, NEW t, NEW i, NEW q, Cluster(n, t, i, q), NEW k \in Nat, NEW u, NEW h,
           Holed(n, t, i, k, u, h), NEW j \in 0 .. n - 1, Off(n, i, j) = k + 1,
           NEW g, g = t[j] % n, Off(n, g, j) < Off(n, h, j)
    PROVE  Holed(n, t, i, k + 1, u, h)
PROOF
  <1>1. Table(n, u) /\ n \in Nat /\ n > 0 /\ h \in 0 .. n - 1 /\ Off(n, i, h) <= k /\ i \in 0 .. n - 1
    BY CircleIs DEF Holed, Cluster
  <1>2. \A z \in 0 .. n - 1 : Off(n, i, z) \in Nat
    BY <1>1, OffType
  <1>3. Off(n, i, h) <= k + 1 /\ \A z \in 0 .. n - 1 : Off(n, i, z) > k + 1 => u[z] = t[z]
    BY <1>1, <1>2 DEF Holed
  <1>4. u[j] = t[j] /\ t[j] \in Keys /\ g \in 0 .. n - 1
    <2>1. u[j] = t[j]
      BY <1>2 DEF Holed
    <2>2. t[j] \in Keys /\ Table(n, t)
      BY DEF Cluster, Good, Table
    <2> QED BY <2>1, <2>2, CircleIs
  <1>5. ~ (Off(n, g, h) < Off(n, g, j))
    <2>1. Off(n, g, h) < Off(n, g, j) => Off(n, h, j) = Off(n, g, j) - Off(n, g, h)
      BY <1>1, <1>4, Circle
    <2>2. Off(n, g, h) \in Nat /\ Off(n, g, j) \in Nat
      BY <1>1, <1>4, Circle
    <2> QED BY <2>1, <2>2
  <1>6. ASSUME NEW z \in 0 .. n - 1, NEW p \in 0 .. n - 1, z # h, u[z] # EMPTY,
               Off(n, u[z] % n, p) < Off(n, u[z] % n, z)
        PROVE  IF p = h THEN Off(n, i, z) > k + 1 ELSE u[p] \notin {u[z], EMPTY}
    <2>1. IF p = h THEN Off(n, i, z) > k ELSE u[p] \notin {u[z], EMPTY}
      BY <1>6 DEF Holed
    <2>2. p = h => z # j
      BY <1>4, <1>5, <1>6
    <2>3. p = h => Off(n, i, z) # k + 1
      BY <1>1, <2>2, Circle
    <2> QED BY <1>2, <2>1, <2>3
  <1> QED BY <1>1, <1>3, <1>6 DEF Holed

\* The next slot of the cluster, j: its key moves into the hole.
LEMMA HoledMoves ==
    ASSUME NEW n, NEW t, NEW i, NEW q, Cluster(n, t, i, q), NEW k \in Nat, NEW u, NEW h,
           Holed(n, t, i, k, u, h), NEW j \in 0 .. n - 1, Off(n, i, j) = k + 1, k + 1 < Off(n, i, q),
           NEW g, g = t[j] % n, Off(n, g, j) >= Off(n, h, j), NEW v, v = [u EXCEPT ![h] = t[j]]
    PROVE  Holed(n, t, i, k + 1, v, j)
PROOF
  <1>1. Table(n, u) /\ n \in Nat /\ n > 0 /\ h \in 0 .. n - 1 /\ Off(n, i, h) <= k
        /\ i \in 0 .. n - 1 /\ q \in 0 .. n - 1
    BY CircleIs DEF Holed, Cluster
  <1>2. \A z \in 0 .. n - 1 : Off(n, i, z) \in Nat
    BY <1>1, OffType
  <1>3. j # h /\ q # h
    BY <1>1, <1>2
  <1>4. u[j] = t[j] /\ t[j] \in Keys /\ g \in 0 .. n - 1 /\ t[j] # EMPTY
    <2>1. u[j] = t[j]
      BY <1>2 DEF Holed
    <2>2. t[j] \in Keys /\ Table(n, t)
      BY DEF Cluster, Good, Table
    <2>3. t[j] # EMPTY
      BY DEF Cluster
    <2> QED BY <2>1, <2>2, <2>3, CircleIs
  <1>5. v \in [0 .. n - 1 -> Keys] /\ Table(n, v) /\ v[h] = t[j] /\ \A z \in 0 .. n - 1 : z # h => v[z] = u[z]
    BY <1>1, <1>4 DEF Table
  <1>6. u[q] = EMPTY
    BY <1>1, <1>2 DEF Holed, Cluster
  <1>7. Off(n, g, h) < Off(n, g, j)
    <2>1. Off(n, g, h) = Off(n, g, j) - Off(n, h, j)
      BY <1>1, <1>4, Circle
    <2>2. Off(n, h, j) > 0 /\ Off(n, h, j) \in Nat /\ Off(n, g, j) \in Nat
      BY <1>1, <1>3, <1>4, Circle
    <2> QED BY <2>1, <2>2
  <1>8. ASSUME NEW z \in 0 .. n - 1, Off(n, i, z) > k + 1
        PROVE  v[z] = t[z]
    <2>1. u[z] = t[z] /\ z # h
      BY <1>1, <1>2, <1>8 DEF Holed
    <2> QED BY <1>5, <2>1
  <1>9. ASSUME NEW z \in 0 .. n - 1, NEW p \in 0 .. n - 1, z # j, v[z] # EMPTY,
               Off(n, v[z] % n, p) < Off(n, v[z] % n, z)
        PROVE  IF p = j THEN Off(n, i, z) > k + 1 ELSE v[p] \notin {v[z], EMPTY}
    <2>1. CASE z = h
      <3>1. v[z] % n = g /\ v[z] = u[j]
        BY <1>4, <1>5, <2>1
      <3>2. Off(n, g, p) < Off(n, g, h)
        BY <1>9, <2>1, <3>1
      <3>3. Off(n, g, p) < Off(n, g, j) /\ p # h /\ p # j
        <4>1. Off(n, g, p) \in Nat /\ Off(n, g, h) \in Nat /\ Off(n, g, j) \in Nat
          BY <1>1, <1>4, OffType
        <4> QED BY <1>7, <3>2, <4>1
      <3>4. u[p] \notin {u[j], EMPTY}
        BY <1>3, <1>4, <3>3 DEF Holed
      <3> QED BY <1>5, <3>1, <3>3, <3>4
    <2>2. CASE z # h
      <3>1. PICK w : w = u[z]
        OBVIOUS
      <3>2. v[z] = w /\ w # EMPTY /\ w \in Keys
        BY <1>1, <1>5, <1>9, <2>2, <3>1 DEF Table
      <3>3. PICK f : f = w % n
        OBVIOUS
      <3>4. f \in 0 .. n - 1 /\ Off(n, f, p) < Off(n, f, z)
        BY <1>1, <1>9, <3>2, <3>3, CircleIs
      <3>5. \A s \in 0 .. n - 1 : Off(n, f, s) < Off(n, f, z) =>
               IF s = h THEN Off(n, i, z) > k ELSE u[s] \notin {w, EMPTY}
        BY <2>2, <3>1, <3>2, <3>3 DEF Holed
      <3>6. CASE p = j
        <4>1. Off(n, i, z) # k + 1
          BY <1>1, <1>9, Circle
        <4>2. ASSUME Off(n, i, z) < k + 1
              PROVE  FALSE
          <5>1. Passed(n, i, j, q, z)
            BY <4>2 DEF Passed
          <5>2. Off(n, f, q) < Off(n, f, z)
            BY <1>1, <3>4, <3>6, <5>1, PassesFree
          <5> QED BY <1>1, <1>3, <1>6, <3>5, <5>2
        <4> QED BY <1>2, <3>6, <4>1, <4>2
      <3>7. CASE p = h
        <4>1. u[z] # u[j]
          <5>1. u[z] = u[j] => z = j
            BY <1>3, <2>2, <3>1, <3>2, HoledOnce
          <5> QED BY <1>9, <5>1
        <4>2. v[p] = u[j]
          BY <1>4, <1>5, <3>7
        <4> QED BY <1>3, <1>4, <3>1, <3>2, <3>7, <4>1, <4>2
      <3>8. CASE p # j /\ p # h
        BY <1>5, <3>2, <3>4, <3>5, <3>8
      <3> QED BY <3>6, <3>7, <3>8
    <2> QED BY <2>1, <2>2
  <1>10. {v[z] : z \in (0 .. n - 1) \ {j}} \ {EMPTY} = {u[z] : z \in (0 .. n - 1) \ {h}} \ {EMPTY}
    <2>1. ASSUME NEW y, y \in {v[z] : z \in (0 .. n - 1) \ {j}}
          PROVE  y \in {u[z] : z \in (0 .. n - 1) \ {h}}
      <3>1. PICK z \in 0 .. n - 1 : z # j /\ y = v[z]
        BY <2>1
      <3> QED BY <1>3, <1>4, <1>5, <3>1
    <2>2. ASSUME NEW y, y \in {u[z] : z \in (0 .. n - 1) \ {h}}
          PROVE  y \in {v[z] : z \in (0 .. n - 1) \ {j}}
      <3>1. PICK z \in 0 .. n - 1 : z # h /\ y = u[z]
        BY <2>2
      <3>2. CASE z = j
        BY <1>1, <1>3, <1>4, <1>5, <3>1, <3>2
      <3>3. CASE z # j
        BY <1>5, <3>1, <3>3
      <3> QED BY <3>2, <3>3
    <2> QED BY <2>1, <2>2
  <1>11. {v[z] : z \in (0 .. n - 1) \ {j}} \ {EMPTY} = Held(n, t) \ {t[i]}
    BY <1>10 DEF Holed
  <1>12. Off(n, i, j) <= k + 1
    OBVIOUS
  <1> QED BY <1>5, <1>8, <1>9, <1>11, <1>12 DEF Holed

\* A removed key is taken out, the other ones stay where probing ends.
Removed(n, x, t, u) == Good(n, u) /\ Held(n, u) = Held(n, t) \ {x}

\* The end of the cluster is reached: the hole becomes free.
LEMMA HoledLast ==
    ASSUME NEW n, NEW t, NEW i, NEW q, Cluster(n, t, i, q), NEW k \in Nat, NEW u, NEW h,
           Holed(n, t, i, k, u, h), k + 1 = Off(n, i, q), NEW v, v = [u EXCEPT ![h] = EMPTY]
    PROVE  Removed(n, t[i], t, v)
PROOF
  <1>1. Table(n, u) /\ n \in Nat /\ n > 0 /\ h \in 0 .. n - 1 /\ Off(n, i, h) <= k
        /\ i \in 0 .. n - 1 /\ q \in 0 .. n - 1
    BY CircleIs DEF Holed, Cluster
  <1>2. \A z \in 0 .. n - 1 : Off(n, i, z) \in Nat
    BY <1>1, OffType
  <1>3. q # h
    BY <1>1, <1>2
  <1>4. v \in [0 .. n - 1 -> Keys] /\ Table(n, v) /\ v[h] = EMPTY /\ \A z \in 0 .. n - 1 : z # h => v[z] = u[z]
    BY <1>1, KeysAre DEF Table
  <1>5. u[q] = EMPTY
    BY <1>1, <1>2 DEF Holed, Cluster
  <1>6. ASSUME NEW z \in 0 .. n - 1, v[z] # EMPTY
        PROVE  Ends(n, v, v[z], z)
    <2>1. PICK w : w = u[z]
      OBVIOUS
    <2>2. v[z] = w /\ w # EMPTY /\ w \in Keys /\ z # h
      BY <1>1, <1>4, <1>6, <2>1 DEF Table
    <2>3. PICK f : f = w % n
      OBVIOUS
    <2>4. f \in 0 .. n - 1
      BY <1>1, <2>2, <2>3, CircleIs
    <2>5. \A s \in 0 .. n - 1 : Off(n, f, s) < Off(n, f, z) =>
             IF s = h THEN Off(n, i, z) > k ELSE u[s] \notin {w, EMPTY}
      BY <2>1, <2>2, <2>3 DEF Holed
    <2>6. ~ (Off(n, f, h) < Off(n, f, z))
      <3>1. SUFFICES ASSUME Off(n, f, h) < Off(n, f, z)
                     PROVE  FALSE
        OBVIOUS
      <3>2. Off(n, i, z) > k
        BY <1>1, <2>5, <3>1
      <3>3. Off(n, i, z) # k + 1
        <4>1. z # q
          BY <1>5, <2>1, <2>2
        <4> QED BY <1>1, <4>1, Circle
      <3>4. Passed(n, i, h, q, z)
        BY <1>1, <1>2, <3>2, <3>3 DEF Passed
      <3>5. Off(n, f, q) < Off(n, f, z)
        BY <1>1, <2>4, <3>1, <3>4, PassesFree
      <3> QED BY <1>1, <1>3, <1>5, <2>5, <3>5
    <2>7. \A s \in 0 .. n - 1 : Off(n, f, s) < Off(n, f, z) => v[s] \notin {w, EMPTY}
      BY <1>4, <2>5, <2>6
    <2> QED BY <2>2, <2>3, <2>7 DEF Ends
  <1>7. Held(n, v) = {u[z] : z \in (0 .. n - 1) \ {h}} \ {EMPTY}
    <2>1. ASSUME NEW y \in Held(n, v)
          PROVE  y \in {u[z] : z \in (0 .. n - 1) \ {h}} \ {EMPTY}
      <3>1. PICK z \in 0 .. n - 1 : y = v[z] /\ y # EMPTY
        BY DEF Held
      <3>2. z # h /\ y = u[z]
        BY <1>4, <3>1
      <3> QED BY <3>1, <3>2
    <2>2. ASSUME NEW y, y \in {u[z] : z \in (0 .. n - 1) \ {h}} \ {EMPTY}
          PROVE  y \in Held(n, v)
      <3>1. PICK z \in 0 .. n - 1 : z # h /\ y = u[z] /\ y # EMPTY
        BY <2>2
      <3>2. y = v[z]
        BY <1>4, <3>1
      <3> QED BY <3>1, <3>2 DEF Held
    <2> QED BY <2>1, <2>2
  <1>8. Held(n, v) = Held(n, t) \ {t[i]}
    BY <1>7 DEF Holed
  <1> QED BY <1>4, <1>6, <1>8 DEF Good, Removed

\* How far behind slot i the cluster ends.
RunOf(i) ==
    CHOOSE k \in 1 .. Cap(slots) :
        /\ slots[After(i, k, slots)] = EMPTY
        /\ \A e \in 1 .. k - 1 : slots[After(i, e, slots)] # EMPTY

LEMMA RunIs ==
    ASSUME NEW n, Good(n, slots), NEW i \in 0 .. n - 1, slots[i] # EMPTY,
           NEW e \in 0 .. n - 1, slots[e] = EMPTY
    PROVE  \E r \in 1 .. n - 1, q \in 0 .. n - 1 : RunOf(i) = r /\ Off(n, i, q) = r /\ Cluster(n, slots, i, q)
PROOF
  <1>0. Table(n, slots)
    BY DEF Good
  <1>1. Table(n, slots) /\ Cap(slots) = n /\ n \in Nat /\ n > 0
    BY CircleIs DEF Good
  <1>2. PICK At : At = [d \in 0 .. n |-> After(i, d, slots)]
    OBVIOUS
  <1>3. \A d \in 0 .. n - 1 : At[d] \in 0 .. n - 1 /\ Off(n, i, At[d]) = d
    <2>1. \A d \in 0 .. n - 1 : After(i, d, slots) \in 0 .. n - 1 /\ Off(n, i, After(i, d, slots)) = d
      BY <1>0, AfterIs
    <2>2. \A d \in 0 .. n - 1 : d \in 0 .. n
      BY <1>1
    <2> QED BY <1>2, <2>1, <2>2
  <1>4. At[n] = i
    <2>1. i + n \in Int /\ n <= i + n /\ i + n < 2 * n
      BY <1>1
    <2>2. (i + n) % n = (i + n) - n
      BY <1>1, <2>1, Wraps
    <2>3. After(i, n, slots) = i
      BY <1>1, <2>2 DEF After
    <2> QED BY <1>1, <1>2, <2>3
  <1>5. \A p \in 0 .. n - 1 : Off(n, i, p) \in 0 .. n - 1 /\ At[Off(n, i, p)] = p
    <2>1. \A p \in 0 .. n - 1 : Off(n, i, p) \in 0 .. n - 1 /\ After(i, Off(n, i, p), slots) = p
      BY <1>0, AfterIs
    <2>2. \A d \in 0 .. n - 1 : d \in 0 .. n
      BY <1>1
    <2> QED BY <1>2, <2>1, <2>2
  <1>6. \A d \in 1 .. n : After(i, d, slots) = At[d] /\ d \in 0 .. n
    BY <1>1, <1>2
  <1>7. PICK D : D = {d \in 1 .. n : slots[At[d]] = EMPTY}
    OBVIOUS
  <1>8. D \subseteq Nat /\ D # {}
    <2>1. e # i
      OBVIOUS
    <2>2. Off(n, i, e) > 0
      BY <1>1, <2>1, Circle
    <2>3. Off(n, i, e) \in 1 .. n
      BY <1>1, <1>5, <2>2
    <2>4. slots[At[Off(n, i, e)]] = EMPTY
      BY <1>5
    <2> QED BY <1>7, <2>3, <2>4
  <1>9. PICK m \in D : \A j \in Nat : j < m => j \notin D
    BY <1>8, LeastOfNumbers
  <1>10. \E k \in 1 .. n : /\ slots[After(i, k, slots)] = EMPTY
                           /\ \A g \in 1 .. k - 1 : slots[After(i, g, slots)] # EMPTY
    <2>1. m \in 1 .. n /\ slots[After(i, m, slots)] = EMPTY
      BY <1>6, <1>7, <1>9
    <2>2. \A g \in 1 .. m - 1 : g \in Nat /\ g < m /\ g \in 1 .. n
      BY <1>1, <2>1
    <2>3. \A g \in 1 .. m - 1 : slots[After(i, g, slots)] # EMPTY
      BY <1>6, <1>7, <1>9, <2>2
    <2> QED BY <2>1, <2>3
  <1>11. PICK r : r = RunOf(i)
    OBVIOUS
  <1>12. /\ r \in 1 .. n /\ slots[After(i, r, slots)] = EMPTY
         /\ \A g \in 1 .. r - 1 : slots[After(i, g, slots)] # EMPTY
    BY <1>1, <1>10, <1>11 DEF RunOf
  <1>13. r \in 1 .. n - 1
    BY <1>1, <1>4, <1>6, <1>12
  <1>14. PICK q : q = At[r]
    OBVIOUS
  <1>15. q \in 0 .. n - 1 /\ Off(n, i, q) = r /\ slots[q] = EMPTY
    BY <1>1, <1>3, <1>6, <1>12, <1>13, <1>14
  <1>16. ASSUME NEW z \in 0 .. n - 1, Off(n, i, z) < r
         PROVE  slots[z] # EMPTY
    <2>1. PICK d \in 0 .. n - 1 : d = Off(n, i, z) /\ At[d] = z
      BY <1>5
    <2>2. CASE d = 0
      <3>1. z = i
        BY <1>1, <2>1, <2>2 DEF Off
      <3> QED BY <3>1
    <2>3. CASE d # 0
      <3>1. d \in 1 .. r - 1 /\ d \in 1 .. n
        BY <1>1, <1>12, <1>16, <2>1, <2>3
      <3> QED BY <1>6, <1>12, <2>1, <3>1
    <2> QED BY <2>2, <2>3
  <1>17. Cluster(n, slots, i, q)
    BY <1>15, <1>16 DEF Cluster
  <1> QED BY <1>11, <1>13, <1>15, <1>17

ShiftOne(i, k, s) ==
    IF PassesHole(After(i, k, slots), s.hole)
    THEN [table |-> [s.table EXCEPT ![s.hole] = slots[After(i, k, slots)]], hole |-> After(i, k, slots)]
    ELSE s

LEMMA ShiftedIs ==
    ASSUME NEW n, Good(n, slots), NEW i \in 0 .. n - 1, NEW r \in 1 .. n - 1, RunOf(i) = r
    PROVE  \E a : /\ a = [k \in 0 .. r - 1 |-> IF k = 0 THEN [table |-> slots, hole |-> i]
                                              ELSE ShiftOne(i, k, a[k - 1])]
                  /\ Shifted(i) = [a[r - 1].table EXCEPT ![a[r - 1].hole] = EMPTY]
PROOF
  <1>1. Table(n, slots) /\ Cap(slots) = n /\ n \in Nat /\ n > 0 /\ slots \in [0 .. n - 1 -> Keys]
    BY CircleIs DEF Good, Table
  <1>2. PICK S : S = [table : [0 .. n - 1 -> Keys], hole : 0 .. n - 1]
    OBVIOUS
  <1>3. PICK m : m = r - 1
    OBVIOUS
  <1>4. m \in Nat
    BY <1>1, <1>3
  <1>5. ASSUME NEW k \in 1 .. m, NEW s \in S
        PROVE  ShiftOne(i, k, s) \in S
    <2>1. k \in 0 .. n - 1
      BY <1>1, <1>3
    <2>2. After(i, k, slots) \in 0 .. n - 1
      BY <1>1, <2>1, AfterIs
    <2>3. slots[After(i, k, slots)] \in Keys
      BY <1>1, <2>2
    <2>4. PICK j, y : j = After(i, k, slots) /\ y = slots[j]
      OBVIOUS
    <2>5. s.table \in [0 .. n - 1 -> Keys] /\ s.hole \in 0 .. n - 1
      BY <1>2
    <2>6. [s.table EXCEPT ![s.hole] = y] \in [0 .. n - 1 -> Keys]
      BY <2>3, <2>4, <2>5
    <2>7. [table |-> [s.table EXCEPT ![s.hole] = y], hole |-> j] \in S
      BY <1>2, <2>2, <2>4, <2>6
    <2> QED BY <2>4, <2>7 DEF ShiftOne
  <1>6. PICK st : st = [k \in 1 .. m |-> [s \in S |-> ShiftOne(i, k, s)]]
    OBVIOUS
  <1>7. st \in [1 .. m -> [S -> S]] /\ \A k \in 1 .. m : \A s \in S : st[k][s] = ShiftOne(i, k, s)
    BY <1>5, <1>6
  <1>8. PICK base : base = [table |-> slots, hole |-> i]
    OBVIOUS
  <1>9. base \in S
    BY <1>1, <1>2, <1>8
  <1>10. Steps(m, S, base, st)
    BY <1>4, <1>7, <1>9 DEF Steps
  <1>11. PICK f : Iteration(m, S, base, st, f)
    BY <1>10, Iterates
  <1>12. f = [k \in 0 .. m |-> IF k = 0 THEN [table |-> slots, hole |-> i] ELSE ShiftOne(i, k, f[k - 1])]
    <2>1. f \in [0 .. m -> S] /\ f[0] = base /\ \A k \in 1 .. m : f[k] = st[k][f[k - 1]]
      BY <1>11 DEF Iteration
    <2>2. \A k \in 1 .. m : k - 1 \in 0 .. m
      BY <1>4
    <2>3. \A k \in 1 .. m : f[k] = ShiftOne(i, k, f[k - 1])
      BY <1>7, <2>1, <2>2
    <2>4. \A k \in 0 .. m : k # 0 => k \in 1 .. m
      BY <1>4
    <2> QED BY <1>8, <2>1, <2>3, <2>4
  <1>13. PICK a : a = CHOOSE g : g = [k \in 0 .. m |-> IF k = 0 THEN [table |-> slots, hole |-> i]
                                                      ELSE ShiftOne(i, k, g[k - 1])]
    OBVIOUS
  <1>14. a = [k \in 0 .. m |-> IF k = 0 THEN [table |-> slots, hole |-> i] ELSE ShiftOne(i, k, a[k - 1])]
    BY <1>12, <1>13
  <1>15. Shifted(i) = [a[m].table EXCEPT ![a[m].hole] = EMPTY]
    BY <1>3, <1>13 DEF Shifted, RunOf, ShiftOne
  <1> QED BY <1>3, <1>14, <1>15

\* The slots up to the k-th behind i were looked at.
ShiftedSoFar(n, i, k, s) ==
    s \in [table : [0 .. n - 1 -> Keys], hole : 0 .. n - 1] /\ Holed(n, slots, i, k, s.table, s.hole)

LEMMA ShiftStep ==
    ASSUME NEW n, NEW i, NEW q, Cluster(n, slots, i, q), NEW k \in Nat, k + 1 < Off(n, i, q),
           NEW s, ShiftedSoFar(n, i, k, s)
    PROVE  ShiftedSoFar(n, i, k + 1, ShiftOne(i, k + 1, s))
PROOF
  <1>0. Table(n, slots)
    BY DEF Cluster, Good
  <1>1. Cap(slots) = n /\ n \in Nat /\ n > 0 /\ i \in 0 .. n - 1 /\ q \in 0 .. n - 1
    BY <1>0, CircleIs DEF Cluster
  <1>2. Off(n, i, q) < n /\ Off(n, i, q) \in Nat
    BY <1>1, OffType
  <1>3. PICK j : j = After(i, k + 1, slots)
    OBVIOUS
  <1>4. j \in 0 .. n - 1 /\ Off(n, i, j) = k + 1
    <2>1. \A d \in 0 .. n - 1 : After(i, d, slots) \in 0 .. n - 1 /\ Off(n, i, After(i, d, slots)) = d
      <3>1. i \in 0 .. n - 1
        BY <1>1
      <3> QED BY <1>0, <3>1, AfterIs
    <2>2. k + 1 \in 0 .. n - 1
      BY <1>1, <1>2
    <2> QED BY <1>3, <2>1, <2>2
  <1>5. PICK u, h : u = s.table /\ h = s.hole
    OBVIOUS
  <1>6. Holed(n, slots, i, k, u, h) /\ u \in [0 .. n - 1 -> Keys] /\ h \in 0 .. n - 1
    BY <1>5 DEF ShiftedSoFar
  <1>7. slots[j] \in Keys
    BY <1>0, <1>4 DEF Table
  <1>8. PICK g : g = slots[j] % n
    OBVIOUS
  <1>9. g \in 0 .. n - 1 /\ Home(slots[j], slots) = g
    BY <1>0, <1>7, <1>8, CircleIs
  <1>10. PassesHole(j, h) <=> Off(n, g, j) >= Off(n, h, j)
    <2>1. (j - g) % n = Off(n, g, j)
      BY <1>0, <1>4, <1>9, AfterIs
    <2>2. (j - h) % n = Off(n, h, j)
      BY <1>0, <1>4, <1>6, AfterIs
    <2> QED BY <1>1, <1>9, <2>1, <2>2 DEF PassesHole
  <1>11. CASE PassesHole(j, h)
    <2>1. PICK v : v = [u EXCEPT ![h] = slots[j]]
      OBVIOUS
    <2>2. Holed(n, slots, i, k + 1, v, j)
      BY <1>4, <1>6, <1>8, <1>10, <1>11, <2>1, HoledMoves
    <2>3. v \in [0 .. n - 1 -> Keys]
      BY <1>6, <1>7, <2>1
    <2>4. ShiftOne(i, k + 1, s) = [table |-> v, hole |-> j]
      BY <1>3, <1>5, <1>11, <2>1 DEF ShiftOne
    <2> QED BY <1>4, <2>2, <2>3, <2>4 DEF ShiftedSoFar
  <1>12. CASE ~ PassesHole(j, h)
    <2>1. Off(n, g, j) < Off(n, h, j)
      <3>1. Off(n, g, j) \in Nat /\ Off(n, h, j) \in Nat
        BY <1>1, <1>4, <1>6, <1>9, OffType
      <3> QED BY <1>10, <1>12, <3>1
    <2>2. Holed(n, slots, i, k + 1, u, h)
      BY <1>4, <1>6, <1>8, <2>1, HoledStays
    <2>3. ShiftOne(i, k + 1, s) = s
      BY <1>3, <1>5, <1>12 DEF ShiftOne
    <2> QED BY <1>5, <2>2, <2>3 DEF ShiftedSoFar
  <1> QED BY <1>11, <1>12

LEMMA ShiftedGood ==
    ASSUME NEW n, Good(n, slots), NEW i \in 0 .. n - 1, slots[i] # EMPTY,
           NEW e \in 0 .. n - 1, slots[e] = EMPTY
    PROVE  Removed(n, slots[i], slots, Shifted(i))
PROOF
  <1>1. PICK r \in 1 .. n - 1, q \in 0 .. n - 1 : RunOf(i) = r /\ Off(n, i, q) = r /\ Cluster(n, slots, i, q)
    BY RunIs
  <1>2. n \in Nat
    BY DEF Good, Table
  <1>3. PICK a : /\ a = [k \in 0 .. r - 1 |-> IF k = 0 THEN [table |-> slots, hole |-> i]
                                              ELSE ShiftOne(i, k, a[k - 1])]
                 /\ Shifted(i) = [a[r - 1].table EXCEPT ![a[r - 1].hole] = EMPTY]
    BY <1>1, ShiftedIs
  <1>4. PICK m \in Nat : m = r - 1
    BY <1>2
  <1>5. PICK P : P = {k \in 0 .. m : ShiftedSoFar(n, i, k, a[k])}
    OBVIOUS
  <1>6. 0 \in P
    <2>1. 0 \in 0 .. m /\ 0 \in 0 .. r - 1
      BY <1>4
    <2>2. a[0] = [table |-> slots, hole |-> i]
      BY <1>3, <2>1
    <2>3. Holed(n, slots, i, 0, slots, i)
      BY <1>1, HoledFirst
    <2>4. slots \in [0 .. n - 1 -> Keys]
      BY DEF Good, Table
    <2>5. ShiftedSoFar(n, i, 0, a[0])
      BY <2>2, <2>3, <2>4 DEF ShiftedSoFar
    <2> QED BY <1>5, <2>1, <2>5
  <1>7. ASSUME NEW k \in 1 .. m, k - 1 \in P
        PROVE  k \in P
    <2>1. k \in 0 .. r - 1 /\ k # 0 /\ k \in 0 .. m
      BY <1>4
    <2>2. a[k] = ShiftOne(i, k, a[k - 1])
      BY <1>3, <2>1
    <2>3. PICK p \in Nat : p = k - 1 /\ p + 1 = k
      BY <1>4
    <2>4. ShiftedSoFar(n, i, p, a[p])
      BY <1>5, <1>7, <2>3
    <2>5. p + 1 < Off(n, i, q)
      BY <1>1, <1>2, <1>4, <2>3
    <2>6. ShiftedSoFar(n, i, p + 1, ShiftOne(i, p + 1, a[p]))
      BY <1>1, <2>4, <2>5, ShiftStep
    <2> QED BY <1>5, <2>1, <2>2, <2>3, <2>6
  <1>8. m \in 0 .. m
    BY <1>4
  <1>9. m \in P
    BY <1>4, <1>6, <1>7, <1>8, UpTo
  <1>10. ShiftedSoFar(n, i, m, a[m])
    BY <1>5, <1>9
  <1>11. PICK u, h : u = a[m].table /\ h = a[m].hole
    OBVIOUS
  <1>12. Holed(n, slots, i, m, u, h)
    BY <1>10, <1>11 DEF ShiftedSoFar
  <1>13. PICK v : v = [u EXCEPT ![h] = EMPTY]
    OBVIOUS
  <1>14. m + 1 = Off(n, i, q)
    <2>1. r \in Nat
      BY <1>2
    <2>2. m + 1 = r
      BY <1>4, <2>1
    <2> QED BY <1>1, <2>2
  <1>15. Removed(n, slots[i], slots, v)
    BY <1>1, <1>12, <1>13, <1>14, HoledLast
  <1>16. Shifted(i) = v
    BY <1>3, <1>4, <1>11, <1>13
  <1> QED BY <1>15, <1>16

-----------------------------------------------------------------------------
(* The set                                                                 *)

\* Probing finds every key in the table of n slots, len counts them, and a
\* quarter of the slots is free.
Fits(n) ==
    /\ Good(n, slots) /\ len = Cardinality(Held(n, slots)) /\ len * 4 <= n * 3
    /\ has_max \in BOOLEAN

SetInv == \E n : Fits(n)

LEMMA FreeSlot ==
    ASSUME NEW n, Fits(n)
    PROVE  \E e \in 0 .. n - 1 : slots[e] = EMPTY
PROOF
  <1>1. Good(n, slots) /\ n \in Nat /\ n >= 2 /\ len * 4 <= n * 3
    BY DEF Fits, Good, Table
  <1>2. PICK c \in Nat : c = len /\ c = Cardinality(Held(n, slots))
    BY <1>1, HeldSize DEF Fits
  <1>3. c < n
    BY <1>1, <1>2
  <1> QED BY <1>1, <1>2, <1>3, HeldSize

MembersOf(n, t, b) == Held(n, t) \cup (IF b THEN {EMPTY} ELSE {})

LEMMA MembersAre ==
    ASSUME NEW n, NEW t, Good(n, t), NEW b
    PROVE  {t[i] : i \in {j \in DOMAIN t : t[j] # EMPTY}} \cup (IF b THEN {EMPTY} ELSE {}) = MembersOf(n, t, b)
PROOF
  <1>1. DOMAIN t = 0 .. n - 1
    BY DEF Good, Table
  <1>2. {t[i] : i \in {j \in DOMAIN t : t[j] # EMPTY}} = Held(n, t)
    BY <1>1 DEF Held
  <1> QED BY <1>2 DEF MembersOf

LEMMA InitFits == Init => SetInv
PROOF
  <1> SUFFICES ASSUME Init PROVE SetInv
    OBVIOUS
  <1>1. PICK n \in Nat : n = MinSlots /\ n >= 2
    BY TableAssumption
  <1>2. Good(n, EmptyTable(n)) /\ Held(n, EmptyTable(n)) = {}
    BY <1>1, EmptyIs
  <1>3. slots = EmptyTable(n) /\ len = 0 /\ has_max = FALSE
    BY <1>1 DEF Init
  <1>4. len = Cardinality(Held(n, slots))
    BY <1>2, <1>3, FS_EmptySet
  <1>5. len * 4 <= n * 3
    BY <1>1, <1>3
  <1> QED BY <1>2, <1>3, <1>4, <1>5 DEF SetInv, Fits

LEMMA InsertFits ==
    ASSUME NEW n, Fits(n), NEW x \in Keys, Insert(x)
    PROVE  /\ SetInv' /\ x # EMPTY /\ has_max' = has_max
           /\ \E k : Good(k, slots') /\ Held(k, slots') = Held(n, slots) \cup {x}
PROOF
  <1>1. Good(n, slots) /\ Table(n, slots) /\ n \in Nat /\ n >= 2 /\ Cap(slots) = n /\ len * 4 <= n * 3
        /\ has_max \in BOOLEAN
    BY CircleIs DEF Fits, Good, Table
  <1>2. len \in Nat /\ len = Cardinality(Held(n, slots))
    BY <1>1, HeldSize DEF Fits
  <1>3. PICK table : table = IF HasRoom THEN slots ELSE Grown
    OBVIOUS
  <1>4. PICK k : k = IF HasRoom THEN n ELSE 2 * n
    OBVIOUS
  <1>5. PICK i : i = Probe(x, table)
    OBVIOUS
  <1>6. /\ x # EMPTY /\ slots' = [table EXCEPT ![i] = x] /\ has_max' = has_max
        /\ len' = IF table[i] = x THEN len ELSE len + 1
    BY <1>3, <1>5 DEF Insert
  <1>7. Good(k, table) /\ Held(k, table) = Held(n, slots)
    <2>1. CASE HasRoom
      BY <1>1, <1>3, <1>4, <2>1
    <2>2. CASE ~ HasRoom
      <3>1. Good(2 * n, Grown) /\ Held(2 * n, Grown) = Held(n, slots)
        BY <1>1, GrownIs
      <3> QED BY <1>3, <1>4, <2>2, <3>1
    <2> QED BY <2>1, <2>2
  <1>8. k \in Nat /\ (len + 1) * 4 <= k * 3 /\ len < k
    <2>1. CASE HasRoom
      BY <1>1, <1>2, <1>4, <2>1 DEF HasRoom
    <2>2. CASE ~ HasRoom
      <3>1. k = 2 * n
        BY <1>4, <2>2
      <3> QED BY <1>1, <1>2, <3>1
    <2> QED BY <2>1, <2>2
  <1>9. PICK e \in 0 .. k - 1 : table[e] = EMPTY
    <2>1. Cardinality(Held(k, table)) < k
      BY <1>2, <1>7, <1>8
    <2> QED BY <1>7, <2>1, HeldSize
  <1>10. Ends(k, table, x, i)
    <2>1. Table(k, table)
      BY <1>7 DEF Good
    <2> QED BY <1>5, <1>9, <2>1, ProbeEnds
  <1>11. Put(k, table, x, i, slots')
    BY <1>6, <1>7, <1>10, PutKey
  <1>12. Good(k, slots') /\ Held(k, slots') = Held(n, slots) \cup {x} /\ (x \in Held(n, slots) <=> table[i] = x)
    BY <1>7, <1>11 DEF Put
  <1>13. len' = Cardinality(Held(k, slots'))
    <2>1. PICK H : H = Held(n, slots) /\ IsFiniteSet(H)
      BY <1>1, HeldSize
    <2>2. Cardinality(H \cup {x}) = IF x \in H THEN Cardinality(H) ELSE Cardinality(H) + 1
      BY <2>1, FS_AddElement
    <2> QED BY <1>2, <1>6, <1>12, <2>1, <2>2
  <1>14. len' * 4 <= k * 3
    BY <1>2, <1>6, <1>8
  <1>15. Fits(k)'
    BY <1>1, <1>6, <1>12, <1>13, <1>14 DEF Fits
  <1> QED BY <1>6, <1>12, <1>15 DEF SetInv

LEMMA RemoveFits ==
    ASSUME NEW n, Fits(n), NEW x \in Keys, Remove(x)
    PROVE  /\ SetInv' /\ x # EMPTY /\ has_max' = has_max
           /\ Good(n, slots') /\ Held(n, slots') = Held(n, slots) \ {x}
PROOF
  <1>1. Good(n, slots) /\ Table(n, slots) /\ n \in Nat /\ n >= 2 /\ len * 4 <= n * 3 /\ has_max \in BOOLEAN
    BY DEF Fits, Good, Table
  <1>2. len \in Nat /\ len = Cardinality(Held(n, slots))
    BY <1>1, HeldSize DEF Fits
  <1>3. PICK i : i = Probe(x, slots)
    OBVIOUS
  <1>4. x # EMPTY /\ slots[i] = x /\ slots' = Shifted(i) /\ len' = len - 1 /\ has_max' = has_max
    BY <1>3 DEF Remove
  <1>5. PICK e \in 0 .. n - 1 : slots[e] = EMPTY
    BY FreeSlot
  <1>6. Ends(n, slots, x, i)
    BY <1>1, <1>3, <1>5, ProbeEnds
  <1>7. i \in 0 .. n - 1
    BY <1>6 DEF Ends
  <1>8. Removed(n, slots[i], slots, Shifted(i))
    BY <1>1, <1>4, <1>5, <1>7, ShiftedGood
  <1>9. Good(n, slots') /\ Held(n, slots') = Held(n, slots) \ {x}
    BY <1>4, <1>8 DEF Removed
  <1>10. len' = Cardinality(Held(n, slots'))
    <2>1. PICK H : H = Held(n, slots) /\ IsFiniteSet(H)
      BY <1>1, HeldSize
    <2>2. x \in H
      BY <1>4, <1>7, <2>1 DEF Held
    <2>3. Cardinality(H \ {x}) = Cardinality(H) - 1
      BY <2>1, <2>2, FS_RemoveElement
    <2> QED BY <1>2, <1>4, <1>9, <2>1, <2>3
  <1>11. len' * 4 <= n * 3
    BY <1>1, <1>2, <1>4
  <1>12. Fits(n)'
    BY <1>1, <1>4, <1>9, <1>10, <1>11 DEF Fits
  <1> QED BY <1>4, <1>9, <1>12 DEF SetInv

LEMMA ClearFits ==
    ASSUME NEW n, Fits(n), Clear
    PROVE  SetInv' /\ Good(n, slots') /\ Held(n, slots') = {} /\ has_max' = FALSE
PROOF
  <1>1. Table(n, slots) /\ n \in Nat /\ n >= 2 /\ Cap(slots) = n
    BY CircleIs DEF Fits, Good, Table
  <1>2. Good(n, EmptyTable(n)) /\ Held(n, EmptyTable(n)) = {}
    BY <1>1, EmptyIs
  <1>3. slots' = EmptyTable(n) /\ len' = 0 /\ has_max' = FALSE
    BY <1>1 DEF Clear
  <1>4. len' = Cardinality(Held(n, slots'))
    BY <1>2, <1>3, FS_EmptySet
  <1>5. len' * 4 <= n * 3
    BY <1>1, <1>3
  <1>6. Fits(n)'
    BY <1>2, <1>3, <1>4, <1>5 DEF Fits
  <1> QED BY <1>2, <1>3, <1>6 DEF SetInv

LEMMA NextFits == SetInv /\ [Next]_vars => SetInv'
PROOF
  <1> SUFFICES ASSUME SetInv, [Next]_vars PROVE SetInv'
    OBVIOUS
  <1>1. PICK n : Fits(n)
    BY DEF SetInv
  <1>2. ASSUME NEW x \in Keys, Insert(x)
        PROVE  SetInv'
    BY <1>1, <1>2, InsertFits
  <1>3. ASSUME NEW x \in Keys, Remove(x)
        PROVE  SetInv'
    BY <1>1, <1>3, RemoveFits
  <1>4. CASE InsertMax
    BY <1>1, <1>4 DEF InsertMax, SetInv, Fits
  <1>5. CASE RemoveMax
    BY <1>1, <1>5 DEF RemoveMax, SetInv, Fits
  <1>6. CASE Clear
    BY <1>1, <1>6, ClearFits
  <1>7. CASE UNCHANGED vars
    BY <1>1, <1>7 DEF vars, SetInv, Fits
  <1> QED BY <1>2, <1>3, <1>4, <1>5, <1>6, <1>7 DEF Next

LEMMA FitsExact == SetInv => LookupExact
PROOF
  <1> SUFFICES ASSUME SetInv PROVE LookupExact
    OBVIOUS
  <1>1. PICK n : Fits(n)
    BY DEF SetInv
  <1>2. Good(n, slots) /\ Table(n, slots) /\ DOMAIN slots = 0 .. n - 1 /\ slots \in [0 .. n - 1 -> Keys]
        /\ has_max \in BOOLEAN /\ len = Cardinality(Held(n, slots))
    BY <1>1 DEF Fits, Good, Table
  <1>3. PICK e \in 0 .. n - 1 : slots[e] = EMPTY
    BY <1>1, FreeSlot
  <1>4. Occupied = Used(n, slots)
    BY <1>2 DEF Occupied, Used
  <1>5. Occupied # DOMAIN slots
    BY <1>2, <1>3, <1>4 DEF Used
  <1>6. Members = MembersOf(n, slots, has_max)
    BY <1>2, MembersAre DEF Members
  <1>7. ASSUME NEW x \in Keys
        PROVE  Contains(x) <=> x \in Members
    <2>1. CASE x = EMPTY
      BY <1>6, <2>1 DEF Contains, MembersOf, Held
    <2>2. CASE x # EMPTY
      <3>1. PICK i : i = Probe(x, slots)
        OBVIOUS
      <3>2. Ends(n, slots, x, i)
        BY <1>2, <1>3, <3>1, ProbeEnds
      <3>3. i \in 0 .. n - 1
        BY <3>2 DEF Ends
      <3>4. Contains(x) <=> slots[i] = x
        BY <2>2, <3>1 DEF Contains
      <3>5. x \in Members <=> x \in Held(n, slots)
        BY <1>6, <2>2 DEF MembersOf
      <3>6. slots[i] = x => x \in Held(n, slots)
        BY <2>2, <3>3 DEF Held
      <3>7. ASSUME NEW j \in 0 .. n - 1, slots[j] = x
            PROVE  slots[i] = x
        <4>1. Ends(n, slots, x, j)
          BY <1>2, <2>2, <3>7 DEF Good
        <4>2. i = j
          BY <1>2, <3>2, <4>1, OneEnd
        <4> QED BY <3>7, <4>2
      <3>8. x \in Held(n, slots) => slots[i] = x
        BY <3>7 DEF Held
      <3> QED BY <3>4, <3>5, <3>6, <3>8
    <2> QED BY <2>1, <2>2
  <1>8. ASSUME NEW i \in Occupied, NEW j \in Occupied, slots[i] = slots[j]
        PROVE  i = j
    <2>1. i \in 0 .. n - 1 /\ j \in 0 .. n - 1 /\ slots[i] # EMPTY
      BY <1>2 DEF Occupied
    <2> QED BY <1>2, <1>8, <2>1, OnceEach
  <1>9. len = Cardinality(Occupied)
    BY <1>2, <1>4, HeldSize
  <1> QED BY <1>5, <1>7, <1>8, <1>9 DEF LookupExact

OneKey ==
    /\ \A x \in Keys : Insert(x) => Members' = Members \cup {x}
    /\ \A x \in Keys : Remove(x) => Members' = Members \ {x}
    /\ InsertMax => Members' = Members \cup {EMPTY}
    /\ RemoveMax => Members' = Members \ {EMPTY}
    /\ Clear     => Members' = {}

LEMMA NextOneKey == SetInv => OneKey
PROOF
  <1> SUFFICES ASSUME SetInv PROVE OneKey
    OBVIOUS
  <1>1. PICK n : Fits(n)
    BY DEF SetInv
  <1>2. Good(n, slots) /\ Members = MembersOf(n, slots, has_max)
    BY <1>1, MembersAre DEF Members, Fits
  <1>3. EMPTY \in Keys /\ EMPTY \notin Held(n, slots)
    BY KeysAre DEF Held
  <1>4. ASSUME NEW k, Good(k, slots')
        PROVE  Members' = MembersOf(k, slots', has_max')
    BY <1>4, MembersAre DEF Members
  <1>5. ASSUME NEW x \in Keys, Insert(x)
        PROVE  Members' = Members \cup {x}
    <2>1. PICK k : Good(k, slots') /\ Held(k, slots') = Held(n, slots) \cup {x}
      BY <1>1, <1>5, InsertFits
    <2>2. has_max' = has_max
      BY <1>1, <1>5, InsertFits
    <2>3. Members' = MembersOf(k, slots', has_max')
      BY <1>4, <2>1
    <2>4. Members' = Members \cup {x}
      BY <1>2, <2>1, <2>2, <2>3 DEF MembersOf
    <2> QED BY <2>4
  <1>6. ASSUME NEW x \in Keys, Remove(x)
        PROVE  Members' = Members \ {x}
    <2>1. Good(n, slots') /\ Held(n, slots') = Held(n, slots) \ {x} /\ has_max' = has_max /\ x # EMPTY
      BY <1>1, <1>6, RemoveFits
    <2>2. Members' = MembersOf(n, slots', has_max')
      BY <1>4, <2>1
    <2>3. Members' = Members \ {x}
      BY <1>2, <2>1, <2>2 DEF MembersOf
    <2> QED BY <2>3
  <1>7. ASSUME InsertMax
        PROVE  Members' = Members \cup {EMPTY}
    <2>1. slots' = slots /\ has_max' = TRUE
      BY <1>7 DEF InsertMax
    <2>2. Members' = MembersOf(n, slots, TRUE)
      BY <1>2, <1>4, <2>1
    <2>3. Members' = Members \cup {EMPTY}
      BY <1>2, <2>2 DEF MembersOf
    <2> QED BY <2>3
  <1>8. ASSUME RemoveMax
        PROVE  Members' = Members \ {EMPTY}
    <2>1. slots' = slots /\ has_max' = FALSE
      BY <1>8 DEF RemoveMax
    <2>2. Members' = MembersOf(n, slots, FALSE)
      BY <1>2, <1>4, <2>1
    <2>3. Members' = Members \ {EMPTY}
      BY <1>2, <1>3, <2>2 DEF MembersOf
    <2> QED BY <2>3
  <1>9. ASSUME Clear
        PROVE  Members' = {}
    <2>1. Good(n, slots') /\ Held(n, slots') = {} /\ has_max' = FALSE
      BY <1>1, <1>9, ClearFits
    <2>2. Members' = MembersOf(n, slots', has_max')
      BY <1>4, <2>1
    <2>3. Members' = {}
      BY <2>1, <2>2 DEF MembersOf
    <2> QED BY <2>3
  <1> QED BY <1>5, <1>6, <1>7, <1>8, <1>9 DEF OneKey

\* U32OpenAddressSet finds by probing exactly the keys its iterator yields,
\* whatever was inserted, grown, removed and shifted back before: for every
\* number of keys, of first slots and bound of growth.
THEOREM LookupsExact == Spec => []LookupExact
PROOF
  <1>1. Spec => []SetInv
    BY InitFits, NextFits, PTL DEF Spec
  <1> QED BY <1>1, FitsExact, PTL

\* Every operation of U32OpenAddressSet does to the members what it is called
\* for, insert(x) adds x and remove(x) takes away x alone: growth rehashes every
\* key, and a backward shift loses none.
THEOREM KeysChangeOneByOne == Spec => OneKeyAtATime
PROOF
  <1>1. Spec => []SetInv
    BY InitFits, NextFits, PTL DEF Spec
  <1> QED BY <1>1, NextOneKey, PTL DEF Spec, OneKeyAtATime, OneKey

-----------------------------------------------------------------------------
(***************************************************************************)
(* Snowflakes repeat only at a distance.                                   *)
(***************************************************************************)

\* The ids are the low bits of the number of allocations, the counters those of
\* the number of draws, and every issued snowflake was made from the two.
IdsCounted ==
    /\ next = allocated % Snow!GeneratorIds
    /\ \A t \in Threads : /\ born[t] <= allocated
                          /\ born[t] # 0 => id[t] = (born[t] - 1) % Snow!GeneratorIds
    /\ \A s, t \in Threads : s # t /\ born[s] # 0 => born[s] # born[t]
DrawsCounted == \A t \in Threads : counter[t] = drawn[t] % Snow!CounterRange
IssuedMade ==
    \A r \in issued :
        /\ born[r.thread] # 0 /\ r.number <= drawn[r.thread]
        /\ r.snowflake = Snow!Snowflake(r.number, id[r.thread])
FlakeInv == Snow!TypeOK /\ IdsCounted /\ DrawsCounted /\ IssuedMade

-----------------------------------------------------------------------------
LEMMA Ranges ==
    /\ Snow!GeneratorIds = 256 /\ Snow!SerialRange = 16777216 /\ Snow!CounterRange = 256 * 16777216
    /\ {Snow!GeneratorIds, Snow!SerialRange, Snow!CounterRange} \subseteq Nat \ {0}
BY SMT DEF Snow!GeneratorIds, Snow!SerialRange, Snow!CounterRange

LEMMA RestInRange ==
    ASSUME NEW n \in Nat, NEW m \in Nat \ {0} PROVE n % m \in 0 .. m - 1
BY SMT

LEMMA NextId == ASSUME NEW n \in Nat PROVE ((n % Snow!GeneratorIds) + 1) % Snow!GeneratorIds = (n + 1) % Snow!GeneratorIds
BY SMT, Ranges

LEMMA NextCount == ASSUME NEW n \in Nat PROVE ((n % Snow!CounterRange) + 1) % Snow!CounterRange = (n + 1) % Snow!CounterRange
BY SMT, Ranges

\* The upper eight bits of a counter do not enter its snowflake.
LEMMA LowBits == ASSUME NEW n \in Nat PROVE (n % Snow!CounterRange) % Snow!SerialRange = n % Snow!SerialRange
BY SMT, Ranges

\* A snowflake is in range and determines serial number and generator.
LEMMA SnowflakeParts ==
    ASSUME NEW m \in Nat, NEW n \in Nat, NEW g \in 0 .. Snow!GeneratorIds - 1,
           NEW h \in 0 .. Snow!GeneratorIds - 1
    PROVE  /\ Snow!Snowflake(m, g) \in 0 .. Snow!CounterRange - 1
           /\ Snow!Snowflake(m, g) = Snow!Snowflake(n, h) => m % Snow!SerialRange = n % Snow!SerialRange /\ g = h
<1>1. /\ m % Snow!SerialRange \in Nat /\ m % Snow!SerialRange < Snow!SerialRange
      /\ n % Snow!SerialRange \in Nat
  <2>1. Snow!SerialRange \in Nat \ {0}
    BY Ranges
  <2>2. m % Snow!SerialRange \in 0 .. Snow!SerialRange - 1 /\ n % Snow!SerialRange \in 0 .. Snow!SerialRange - 1
    BY <2>1, RestInRange
  <2> QED BY SMT, <2>1, <2>2
<1>2. g \in Nat /\ g < 256 /\ h \in Nat /\ h < 256
  BY SMT DEF Snow!GeneratorIds
<1>3. ASSUME NEW a \in Nat, NEW b \in Nat, a < Snow!SerialRange
      PROVE  /\ a * Snow!GeneratorIds + g \in Nat /\ a * Snow!GeneratorIds + g < Snow!CounterRange
             /\ a * Snow!GeneratorIds + g = b * Snow!GeneratorIds + h => a = b /\ g = h
  BY SMT, <1>2, <1>3, Ranges
<1>4. /\ Snow!Snowflake(m, g) \in Nat /\ Snow!Snowflake(m, g) < Snow!CounterRange
      /\ Snow!Snowflake(m, g) = Snow!Snowflake(n, h) => m % Snow!SerialRange = n % Snow!SerialRange /\ g = h
  BY <1>1, <1>3 DEF Snow!Snowflake
<1>5. Snow!CounterRange \in Nat
  BY Ranges
<1> QED BY SMT, <1>4, <1>5

\* Different numbers with the same rest are at least a divisor apart.
LEMMA SerialsApart ==
    ASSUME NEW a \in Nat, NEW b \in Nat, a # b, a % Snow!SerialRange = b % Snow!SerialRange
    PROVE  Snow!Distance(a, b) >= Snow!SerialRange
BY SMT, Ranges DEF Snow!Distance

LEMMA IdsApart ==
    ASSUME NEW a \in Nat, NEW b \in Nat, a # b, a % Snow!GeneratorIds = b % Snow!GeneratorIds
    PROVE  Snow!Distance(a, b) >= Snow!GeneratorIds
BY SMT, Ranges DEF Snow!Distance

LEMMA FlakeInit == Snow!Init => FlakeInv
<1>1. {Snow!GeneratorIds, Snow!CounterRange} \subseteq Nat \ {0} /\ 0 % Snow!GeneratorIds = 0 /\ 0 % Snow!CounterRange = 0
  BY SMT, Ranges
<1> QED BY <1>1 DEF Snow!Init, FlakeInv, Snow!TypeOK, IdsCounted, DrawsCounted, IssuedMade

LEMMA AllocateKeeps ==
    ASSUME FlakeInv, NEW t \in Threads, Snow!Allocate(t) PROVE FlakeInv'
<1> USE DEF FlakeInv, Snow!Allocate
<1>1. Snow!TypeOK'
  <2>1. Snow!GeneratorIds \in Nat \ {0}
    BY Ranges
  <2>2. next + 1 \in Nat
    BY <2>1 DEF Snow!TypeOK
  <2>3. next' \in 0 .. Snow!GeneratorIds - 1
    BY <2>1, <2>2, RestInRange
  <2> QED BY <2>3 DEF Snow!TypeOK
<1>2. IdsCounted'
  <2>1. next' = allocated' % Snow!GeneratorIds
    BY NextId DEF IdsCounted, Snow!TypeOK
  <2>2. \A s \in Threads : /\ born'[s] <= allocated'
                           /\ born'[s] # 0 => id'[s] = (born'[s] - 1) % Snow!GeneratorIds
    BY DEF IdsCounted, Snow!TypeOK
  <2>3. \A r, s \in Threads : r # s /\ born'[r] # 0 => born'[r] # born'[s]
    BY DEF IdsCounted, Snow!TypeOK
  <2> QED BY <2>1, <2>2, <2>3 DEF IdsCounted
<1>3. DrawsCounted'
  BY DEF DrawsCounted
<1>4. IssuedMade'
  BY DEF IssuedMade, Snow!TypeOK
<1> QED BY <1>1, <1>2, <1>3, <1>4

LEMMA DrawKeeps ==
    ASSUME FlakeInv, NEW t \in Threads, Snow!Draw(t) PROVE FlakeInv'
<1> DEFINE count == (counter[t] + 1) % Snow!CounterRange
           flake == [thread |-> t, number |-> drawn[t] + 1,
                     snowflake |-> Snow!Snowflake(count, id[t])]
<1>0. /\ born[t] # 0
      /\ counter' = [counter EXCEPT ![t] = count]
      /\ drawn' = [drawn EXCEPT ![t] = @ + 1]
      /\ issued' = issued \cup {flake}
      /\ UNCHANGED <<allocated, next, born, id>>
  BY DEF Snow!Draw
<1>1. /\ drawn[t] \in Nat /\ id[t] \in 0 .. Snow!GeneratorIds - 1
      /\ counter[t] = drawn[t] % Snow!CounterRange
  BY DEF FlakeInv, Snow!TypeOK, DrawsCounted
<1>2. count = (drawn[t] + 1) % Snow!CounterRange /\ count \in 0 .. Snow!CounterRange - 1
  <2>1. count = (drawn[t] + 1) % Snow!CounterRange
    BY <1>1, NextCount
  <2>2. drawn[t] + 1 \in Nat /\ Snow!CounterRange \in Nat \ {0}
    BY <1>1, Ranges
  <2> QED BY <2>1, <2>2, RestInRange
<1>3. flake.snowflake = Snow!Snowflake(drawn[t] + 1, id[t])
      /\ flake.snowflake \in 0 .. Snow!CounterRange - 1
  <2>1. count % Snow!SerialRange = (drawn[t] + 1) % Snow!SerialRange
    BY <1>1, <1>2, LowBits
  <2>2. drawn[t] + 1 \in Nat
    BY <1>1
  <2>3. Snow!Snowflake(drawn[t] + 1, id[t]) \in 0 .. Snow!CounterRange - 1
    BY <1>1, <2>2, SnowflakeParts
  <2> QED BY <2>1, <2>3 DEF Snow!Snowflake
<1> HIDE DEF count
<1>4. Snow!TypeOK'
  BY <1>0, <1>1, <1>2, <1>3 DEF FlakeInv, Snow!TypeOK
<1>5. IdsCounted'
  BY <1>0 DEF FlakeInv, IdsCounted
<1>6. DrawsCounted'
  BY <1>0, <1>2 DEF FlakeInv, Snow!TypeOK, DrawsCounted
<1>7. IssuedMade'
  <2> SUFFICES ASSUME NEW r \in issued'
               PROVE  /\ born[r.thread] # 0 /\ r.number <= drawn'[r.thread]
                      /\ r.snowflake = Snow!Snowflake(r.number, id[r.thread])
    BY <1>0 DEF IssuedMade
  <2>1. CASE r \in issued
    BY <1>0, <1>1, <2>1 DEF FlakeInv, Snow!TypeOK, IssuedMade
  <2>2. CASE r = flake
    <3>1. r.thread = t /\ r.number = drawn[t] + 1 /\ r.snowflake = flake.snowflake
      BY <2>2
    <3>2. drawn'[t] = drawn[t] + 1
      BY <1>0, <1>1 DEF FlakeInv, Snow!TypeOK
    <3> QED BY <1>0, <1>1, <1>3, <3>1, <3>2
  <2> QED BY <1>0, <2>1, <2>2
<1> QED BY <1>4, <1>5, <1>6, <1>7 DEF FlakeInv

LEMMA FlakeInvariant == Snow!Spec => []FlakeInv
<1>1. FlakeInv /\ UNCHANGED Snow!vars => FlakeInv'
  BY DEF FlakeInv, Snow!TypeOK, IdsCounted, DrawsCounted, IssuedMade, Snow!vars
<1>2. FlakeInv /\ [Snow!Next]_Snow!vars => FlakeInv'
  BY <1>1, AllocateKeeps, DrawKeeps DEF Snow!Next
<1> QED BY FlakeInit, <1>2, PTL DEF Snow!Spec

-----------------------------------------------------------------------------
LEMMA FarFromInvariant == FlakeInv => Snow!ReuseIsFar
<1> SUFFICES ASSUME FlakeInv, NEW a \in issued, NEW b \in issued,
                    a # b, a.snowflake = b.snowflake
             PROVE  \/ a.thread = b.thread /\ Snow!Distance(a.number, b.number) >= Snow!SerialRange
                    \/ a.thread # b.thread
                       /\ Snow!Distance(born[a.thread], born[b.thread]) >= Snow!GeneratorIds
  BY DEF Snow!ReuseIsFar
<1>1. /\ a \in [thread : Threads, number : Nat, snowflake : 0 .. Snow!CounterRange - 1]
      /\ b \in [thread : Threads, number : Nat, snowflake : 0 .. Snow!CounterRange - 1]
      /\ born[a.thread] \in Nat \ {0} /\ born[b.thread] \in Nat \ {0}
      /\ id[a.thread] \in 0 .. Snow!GeneratorIds - 1 /\ id[b.thread] \in 0 .. Snow!GeneratorIds - 1
  BY DEF FlakeInv, Snow!TypeOK, IssuedMade
<1>2. a.number % Snow!SerialRange = b.number % Snow!SerialRange /\ id[a.thread] = id[b.thread]
  <2>1. Snow!Snowflake(a.number, id[a.thread]) = Snow!Snowflake(b.number, id[b.thread])
    BY DEF FlakeInv, IssuedMade
  <2> QED BY <1>1, <2>1, SnowflakeParts
<1>3. CASE a.thread = b.thread
  <2>1. a.number # b.number
    BY <1>1, <1>3
  <2> QED BY <1>1, <1>2, <1>3, <2>1, SerialsApart
<1>4. CASE a.thread # b.thread
  <2> DEFINE m == born[a.thread] - 1
             n == born[b.thread] - 1
  <2>1. m \in Nat /\ n \in Nat /\ m # n
    BY <1>1, <1>4 DEF FlakeInv, IdsCounted
  <2>2. m % Snow!GeneratorIds = n % Snow!GeneratorIds
    BY <1>1, <1>2 DEF FlakeInv, IdsCounted
  <2>3. Snow!Distance(m, n) >= Snow!GeneratorIds
    <3> HIDE DEF m, n
    <3> QED BY <2>1, <2>2, IdsApart
  <2> QED BY <1>1, <1>4, <2>3 DEF Snow!Distance
<1> QED BY <1>3, <1>4

\* Snowflakes repeat only at a distance: after 2^24 draws of a thread or 256
\* generators (snowflake.rs).
THEOREM SnowflakesFresh == Snow!Spec => []Snow!ReuseIsFar
BY FlakeInvariant, FarFromInvariant, PTL
=============================================================================
