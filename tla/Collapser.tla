----------------------------- MODULE Collapser -----------------------------
(***************************************************************************)
(* collapse() of collapser/monte_carlo.rs: from the operators an island    *)
(* gathered on its way through the optical elements to one outcome for     *)
(* every detected packet.  First every operator is registered as consumer  *)
(* of its source modes, where beam splitter operators that share a mode    *)
(* are grouped into one MultiModeMap; MonotonicMap lets handles of grouped *)
(* cells lead to the one that holds the group.  Then the photons are       *)
(* pushed from mode to mode, with a stack of those that still move.        *)
(*                                                                         *)
(* A mode is the packet that occupies it.  A random choice is a            *)
(* nondeterministic one; that two indistinguishable photons leave on the   *)
(* same side only excludes some of them.                                   *)
(***************************************************************************)
EXTENDS Integers, Sequences, FiniteSets, SequencesExt

CONSTANT Islands    \* the sequences of operators an island may have when it is measured

\* [kind, sources, sinks]; the numbers of sources and sinks of each kind.
Arity == [EPPS |-> <<0, 2>>, Single |-> <<1, 1>>, DualUnivariate |-> <<1, 2>>,
          DualBivariate |-> <<2, 4>>, SPD |-> <<1, 0>>]
ModesOf(ops) == UNION {ToSet(ops[i].sources) \cup ToSet(ops[i].sinks) : i \in DOMAIN ops}

\* Where the photon of a mode may come out.
Entry(source, sinks) == [source |-> source, sinks |-> sinks]
BivariateEntries(op) ==
    <<Entry(op.sources[1], SubSeq(op.sinks, 1, 2)), Entry(op.sources[2], SubSeq(op.sinks, 3, 4))>>
EntriesOf(op) ==
    CASE op.kind = "EPPS"          -> {}
      [] op.kind = "DualBivariate" -> ToSet(BivariateEntries(op))
      [] OTHER                     -> {Entry(op.sources[1], op.sinks)}

Elements(ops) == UNION {EntriesOf(ops[i]) : i \in DOMAIN ops}
Sources(ops)  == {i \in DOMAIN ops : ops[i].kind = "EPPS"}

Shaped(ops) ==
    /\ ops \in Seq([kind : DOMAIN Arity, sources : Seq(ModesOf(ops)), sinks : Seq(ModesOf(ops))])
    /\ \A i \in DOMAIN ops :
          /\ <<Len(ops[i].sources), Len(ops[i].sinks)>> = Arity[ops[i].kind]
          /\ ops[i].kind = "DualBivariate" => ops[i].sources[1] # ops[i].sources[2]

\* A packet goes on to one element only, where it may meet several others at a
\* beam splitter (dual_port.rs:215-255).
OneWayOn(ops) ==
    \A i, j \in DOMAIN ops : \A e \in EntriesOf(ops[i]), f \in EntriesOf(ops[j]) :
        e.source = f.source => e = f /\ (i # j => {ops[i].kind, ops[j].kind} = {"DualBivariate"})

\* What leaves a source or an element has a mode of its own, a pair of them for
\* each packet at a beam splitter (interaction_store.rs:147-155, 599-611).
OneWayHere(ops) ==
    /\ \A e, f \in Elements(ops) : \A k \in DOMAIN e.sinks, l \in DOMAIN f.sinks :
          e.sinks[k] = f.sinks[l] => e = f /\ k = l
    /\ \A i, j \in Sources(ops) : \A k, l \in 1 .. 2 :
          ops[i].sinks[k] = ops[j].sinks[l] => i = j /\ k = l
    /\ \A i \in Sources(ops) : \A e \in Elements(ops) : ToSet(ops[i].sinks) \cap ToSet(e.sinks) = {}

ASSUME IslandAssumption == \A ops \in Islands : Shaped(ops) /\ OneWayOn(ops) /\ OneWayHere(ops)

\* The modes that interfere directly or through others, in the first n operators.
Merge(components, sources) ==
    LET touched == {c \in components : c \cap sources # {}}
    IN  (components \ touched) \cup {sources \cup UNION touched}
GroupsUpTo(ops, n) ==
    LET upto[i \in 0 .. n] ==
            IF i = 0 THEN {}
            ELSE IF ops[i].kind = "DualBivariate"
                 THEN Merge(upto[i - 1], ToSet(ops[i].sources)) ELSE upto[i - 1]
    IN  upto[n]

\* The modes that are reached in n rounds if an element lets a photon out when
\* all the modes that interfere with it have come.
Awaited(ops, mode)  == {mode} \cup UNION {g \in GroupsUpTo(ops, Len(ops)) : mode \in g}
Emissions(ops)      == UNION {ToSet(ops[i].sinks) : i \in Sources(ops)}
Further(ops, modes) ==
    modes \cup UNION {ToSet(e.sinks) : e \in {f \in Elements(ops) : Awaited(ops, f.source) \subseteq modes}}
ReachedIn(ops, n) ==
    LET upto[i \in 0 .. n] ==
            IF i = 0 THEN Emissions(ops) ELSE Further(ops, upto[i - 1])
    IN  upto[n]

\* The elements are connected without a loop, so that no packet meets, directly
\* or through others, one that comes out of it (main.rs:79-235).
Forward(ops) == ModesOf(ops) \subseteq ReachedIn(ops, Len(ops))

ASSUME ForwardAssumption == \A ops \in Islands : Forward(ops)

VARIABLES
    operators,  \* island.operators
    position,   \* the next of them to register
    cells,      \* the MonteCarloOperators in MonotonicMap.data
    consumer,   \* mode_operator_map, 0 for u16::MAX
    active,     \* active_modes, a stack
    results     \* result.packets

vars == <<operators, position, cells, consumer, active, results>>

\* A cell maps each source to its sinks and, where it must wait for all of
\* them, keeps the photons that have arrived.
Cell(kind, entries)  ==
    [kind |-> kind, entries |-> entries, photons |-> [i \in DOMAIN entries |-> "None"], to |-> 0]
Moved(handle)        == [Cell("Moved", <<>>) EXCEPT !.to = handle]
Grouping             == {"DoubleInterfering", "MultiModeMap"}

\* MonotonicMap::resolve.  A chain is shorter than the map, or it is a cycle in
\* which the code would spin.
Resolve(handle) ==
    LET hop[n \in 0 .. Len(cells)] ==
            IF n = 0 THEN handle
            ELSE LET h == hop[n - 1] IN IF cells[h].kind = "Moved" THEN cells[h].to ELSE h
    IN  hop[Len(cells)]

Init ==
    /\ operators \in Islands
    /\ position = 1
    /\ cells = <<>>
    /\ consumer = [mode \in ModesOf(operators) |-> 0]
    /\ active = <<>>
    /\ results = <<>>

-----------------------------------------------------------------------------
(* Registration, one operator of the island after the other                *)

Op         == operators[position]
Registered == position > Len(operators)
NextIs(kind) == ~Registered /\ Op.kind = kind /\ position' = position + 1

\* Both photons of a pair are on their way.
RegisterEPPS ==
    /\ NextIs("EPPS")
    /\ active' = active \o [i \in 1 .. 2 |-> [mode |-> Op.sinks[i], photon |-> "Single"]]
    /\ UNCHANGED <<operators, cells, consumer, results>>

\* operators.add(...) and the entry in mode_operator_map for every source.
Add(cell) ==
    /\ cells' = Append(cells, cell)
    /\ consumer' = [mode \in DOMAIN consumer |->
                      IF mode \in ToSet(Op.sources) THEN Len(cells) + 1 ELSE consumer[mode]]
    /\ UNCHANGED <<operators, active, results>>

RegisterElement ==
    /\ \E kind \in {"Single", "DualUnivariate", "SPD"} : NextIs(kind)
    /\ Add(Cell(Op.kind, <<Entry(Op.sources[1], Op.sinks)>>))

RegisterInterfering ==
    /\ NextIs("DualBivariate")
    /\ \A i \in 1 .. 2 : consumer[Op.sources[i]] = 0
    /\ Add(Cell("DoubleInterfering", BivariateEntries(Op)))

\* Mutant: a source that is there already gets a second entry.
AppendedAll(entries, more) == entries \o more
\* MultiModeMap::add for each of them: an entry a source already has is kept.
Added(entries, new) ==
    IF \E i \in DOMAIN entries : entries[i].source = new.source THEN entries ELSE Append(entries, new)
Absorbed(entries, more) ==
    LET upto[n \in 0 .. Len(more)] == IF n = 0 THEN entries ELSE Added(upto[n - 1], more[n])
    IN  upto[Len(more)]

\* Mutants: moves a cell although it is the one it would lead to; leaves a group
\* where it was.
AlwaysMoves(a, b)  == a # 0 /\ b # 0
NeverMoves(a, b)   == FALSE
\* mode_2 has a consumer, and another one.
MustMove(a, b)     == a # 0 /\ b # 0 /\ Resolve(a) # Resolve(b)

\* The i-th source is known: its cell becomes the MultiModeMap of both, which a
\* cell of the other source is moved into.
JoinGroup(i) ==
    LET other  == Op.sources[3 - i]
        handle == consumer[Op.sources[i]]
        here   == Resolve(handle)
        there  == Resolve(consumer[other])
        moves  == MustMove(consumer[other], handle)
        joined == Absorbed(cells[here].entries, BivariateEntries(Op))
        group  == Cell("MultiModeMap",
                       IF moves THEN Absorbed(joined, cells[there].entries) ELSE joined)
    IN  /\ handle # 0 /\ cells[here].kind \in Grouping
        /\ cells' = [h \in DOMAIN cells |->
                       IF moves /\ h = there THEN Moved(handle)
                       ELSE IF h = here THEN group ELSE cells[h]]
        /\ consumer' = [consumer EXCEPT ![other] = IF @ = 0 THEN handle ELSE @]
        /\ UNCHANGED <<operators, active, results>>

RegisterCollision ==
    /\ NextIs("DualBivariate")
    /\ \/ JoinGroup(1)
       \/ consumer[Op.sources[1]] = 0 /\ JoinGroup(2)

-----------------------------------------------------------------------------
(* Resolution: the photon on top of the stack moves on                     *)

Top    == Last(active)
At     == Resolve(consumer[Top.mode])
Popped == Front(active)
Moving == Registered /\ active # <<>> /\ consumer[Top.mode] # 0

\* Mutant: the photon is in both modes.
BothLit(sinks, photon, right) == [i \in 1 .. 2 |-> [mode |-> sinks[i], photon |-> photon]]
\* An empty mode comes out where the photon does not.
Exits(sinks, photon, right) ==
    <<[mode |-> sinks[1], photon |-> IF right THEN "Vac" ELSE photon],
      [mode |-> sinks[2], photon |-> IF right THEN photon ELSE "Vac"]>>

PassSingle ==
    /\ Moving /\ cells[At].kind = "Single"
    /\ active' = Append(Popped, [mode |-> cells[At].entries[1].sinks[1], photon |-> Top.photon])
    /\ UNCHANGED <<operators, position, cells, consumer, results>>

SplitUnivariate ==
    /\ Moving /\ cells[At].kind = "DualUnivariate"
    /\ \E right \in BOOLEAN :
          active' = Popped \o Exits(cells[At].entries[1].sinks, Top.photon, right)
    /\ UNCHANGED <<operators, position, cells, consumer, results>>

\* register_photon, or source_photons[..] of a DoubleInterfering.
Received(cell) ==
    [i \in DOMAIN cell.entries |->
        IF cell.entries[i].source = Top.mode THEN Top.photon ELSE cell.photons[i]]
\* Mutant: a group fires as soon as it has two photons.
TwoAreEnough(photons) == Cardinality({i \in DOMAIN photons : photons[i] # "None"}) >= 2
IsReady(photons)      == \A i \in DOMAIN photons : photons[i] # "None"

\* A group waits for the photons of all its sources, then each leaves left or right.
ReachGroup ==
    /\ Moving /\ cells[At].kind \in Grouping
    /\ LET entries == cells[At].entries
           photons == Received(cells[At])
       IN  /\ cells' = [cells EXCEPT ![At].photons = photons]
           /\ IF IsReady(photons)
              THEN \E right \in [DOMAIN entries -> BOOLEAN] :
                      active' = Popped \o FlattenSeq([i \in DOMAIN entries |->
                                    Exits(entries[i].sinks, photons[i], right[i])])
              ELSE active' = Popped
    /\ UNCHANGED <<operators, position, consumer, results>>

Detect ==
    /\ Moving /\ cells[At].kind = "SPD"
    /\ results' = Append(results, [packet |-> Top.mode, photon |-> Top.photon])
    /\ active' = Popped
    /\ UNCHANGED <<operators, position, cells, consumer>>

\* collapse() has returned.
Returned == Registered /\ active = <<>> /\ UNCHANGED vars

Register == RegisterEPPS \/ RegisterElement \/ RegisterInterfering \/ RegisterCollision
Move     == PassSingle \/ SplitUnivariate \/ ReachGroup \/ Detect
Next     == Register \/ Move \/ Returned

Spec == Init /\ [][Next]_vars
-----------------------------------------------------------------------------
(* Properties                                                              *)

Detected == {operators[i].sources[1] : i \in {j \in DOMAIN operators : operators[j].kind = "SPD"}}

TypeOK ==
    /\ operators \in Islands /\ position \in 1 .. Len(operators) + 1
    /\ \A h \in DOMAIN cells :
        /\ cells[h].kind \in Grouping \cup {"Single", "DualUnivariate", "SPD", "Moved"}
        /\ cells[h].to \in 0 .. Len(cells)
        /\ DOMAIN cells[h].photons = DOMAIN cells[h].entries
    /\ consumer \in [ModesOf(operators) -> 0 .. Len(cells)]
    /\ active \in Seq([mode : ModesOf(operators), photon : {"Single", "Vac"}])
    /\ results \in Seq([packet : Detected, photon : {"Single", "Vac"}])

\* The modes that interfere directly or through others, so far.
Components == GroupsUpTo(operators, position - 1)
Members(h) == {cells[h].entries[i].source : i \in DOMAIN cells[h].entries}

\* However the pairs come in, modes are grouped exactly if they are connected by
\* interference, a group holds each of its modes once, and every mode leads to
\* its group.  In particular no chain of moved cells is a cycle, which would
\* make every later lookup spin (monte_carlo.rs:58-80, 205-268).
GroupsAreComponents ==
    LET groups == {h \in DOMAIN cells : cells[h].kind \in Grouping}
    IN  /\ {Members(h) : h \in groups} = Components
        /\ \A h \in groups :
              /\ Len(cells[h].entries) = Cardinality(Members(h))
              /\ \A m \in Members(h) : consumer[m] # 0 /\ Resolve(consumer[m]) = h

\* Photons that have come to a group which still waits for others.
Waiting ==
    {w \in UNION {{h} \X DOMAIN cells[h].photons : h \in DOMAIN cells} :
        cells[w[1]].photons[w[2]] = "Single" /\ ~IsReady(cells[w[1]].photons)}
Photons(seq) == Cardinality({i \in DOMAIN seq : seq[i].photon = "Single"})
Emitted      == Cardinality({i \in 1 .. position - 1 : operators[i].kind = "EPPS"})

\* Beam splitters neither make nor lose photons: two for each pair, moving,
\* waiting for others or detected (monte_carlo.rs:324-407).
PhotonsConserved == Photons(active) + Cardinality(Waiting) + Photons(results) = 2 * Emitted

\* No mode is measured twice, and none moves on or is waited for once it was.
\* The claimer of a second outcome would find none left (monte_carlo.rs:395-401).
OneOutcomeEach ==
    /\ \A i, j \in DOMAIN results : i # j => results[i].packet # results[j].packet
    /\ \A i \in DOMAIN active, j \in DOMAIN results : active[i].mode # results[j].packet
    /\ \A i, j \in DOMAIN active : i # j => active[i].mode # active[j].mode

\* When collapse() returns, every packet that was detected has its outcome: no
\* group was left waiting for a photon that does not come (monte_carlo.rs:317-410).
EveryPacketAnswered ==
    Registered /\ active = <<>> => {results[i].packet : i \in DOMAIN results} = Detected
=============================================================================
