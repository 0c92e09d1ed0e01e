----------------------------- MODULE Snowflakes -----------------------------
(***************************************************************************)
(* The identifiers of wavepackets (concurrency/snowflake.rs): every thread *)
(* has a generator of its own, with an 8-bit id that a shared allocator    *)
(* hands out and a 32-bit counter of which 24 bits are used.  Both wrap.   *)
(* The models of the store and the nodes assume that no two live packets   *)
(* get the same snowflake; here is when two draws may coincide.            *)
(***************************************************************************)
EXTENDS Integers

CONSTANT Threads    \* those that call next_u32

GeneratorIds == 256                        \* u8
SerialRange  == 256 * 256 * 256            \* 0x00FF_FFFF + 1
CounterRange == 256 * SerialRange          \* u32

VARIABLES
    allocated,  \* history: ids handed out so far
    next,       \* IdAllocator.next
    born,       \* history: thread -> how many ids had been handed out with its own, or 0
    id,         \* thread -> Generator32.id
    drawn,      \* history: thread -> number of its draws
    counter,    \* thread -> Generator32.counter
    issued      \* history: [thread, number, snowflake] of every draw

vars == <<allocated, next, born, id, drawn, counter, issued>>

Init ==
    /\ allocated = 0 /\ next = 0
    /\ born = [t \in Threads |-> 0] /\ id = [t \in Threads |-> 0]
    /\ drawn = [t \in Threads |-> 0] /\ counter = [t \in Threads |-> 0]
    /\ issued = {}

\* ((counter & 0x00FF_FFFF) << 8) | id
Snowflake(count, generator) == (count % SerialRange) * GeneratorIds + generator

\* The first call of a thread makes its generator.
Allocate(t) ==
    /\ born[t] = 0
    /\ born' = [born EXCEPT ![t] = allocated + 1]
    /\ id' = [id EXCEPT ![t] = next]
    /\ allocated' = allocated + 1
    /\ next' = (next + 1) % GeneratorIds
    /\ UNCHANGED <<drawn, counter, issued>>

\* next_u32
Draw(t) ==
    LET count == (counter[t] + 1) % CounterRange
    IN  /\ born[t] # 0
        /\ counter' = [counter EXCEPT ![t] = count]
        /\ drawn' = [drawn EXCEPT ![t] = @ + 1]
        /\ issued' = issued \cup
              {[thread |-> t, number |-> drawn[t] + 1, snowflake |-> Snowflake(count, id[t])]}
        /\ UNCHANGED <<allocated, next, born, id>>

Next == \E t \in Threads : Allocate(t) \/ Draw(t)
Spec == Init /\ [][Next]_vars
-----------------------------------------------------------------------------
TypeOK ==
    /\ allocated \in Nat /\ next \in 0 .. GeneratorIds - 1
    /\ born \in [Threads -> Nat] /\ id \in [Threads -> 0 .. GeneratorIds - 1]
    /\ drawn \in [Threads -> Nat] /\ counter \in [Threads -> 0 .. CounterRange - 1]
    /\ issued \subseteq [thread : Threads, number : Nat, snowflake : 0 .. CounterRange - 1]

Distance(a, b) == IF a < b THEN b - a ELSE a - b

\* Two draws give the same snowflake only if one thread made the second of them
\* at least 2^24 draws after the first, or if at least 256 generators separate
\* their threads (snowflake.rs:24, 54-57).
ReuseIsFar ==
    \A a, b \in issued :
        a # b /\ a.snowflake = b.snowflake =>
            \/ a.thread = b.thread /\ Distance(a.number, b.number) >= SerialRange
            \/ a.thread # b.thread
               /\ Distance(born[a.thread], born[b.thread]) >= GeneratorIds
=============================================================================
