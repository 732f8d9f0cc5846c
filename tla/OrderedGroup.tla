----------------------------- MODULE OrderedGroup -----------------------------
(***************************************************************************)
(* The loop of ordered_group (src/seeder/seed.rs), one step per round: it  *)
(* puts the groups of a data set in an order in which a group comes after  *)
(* the groups its required foreign keys point to, or panics.               *)
(***************************************************************************)
EXTENDS GroupOrder

CONSTANTS
    Models,     \* the models of the schema
    MaxMany     \* bound: required relations of one model to one other

ASSUME ModelsAssumption == IsFiniteSet(Models)
ASSUME MaxManyAssumption == MaxMany \in Nat

VARIABLES
    groups,     \* the groups of the data set
    required,   \* required[g][h]: required relations of g to h
    deps,       \* deps[g][h]: occurrences of h that g still waits for
    round,      \* the round in which a group was pushed, 0 if it was not
    rounds,     \* rounds done
    pc

vars == <<groups, required, deps, round, rounds, pc>>

Counts == [Models -> [Models -> 0..MaxMany]]

TypeOK ==
    /\ groups \subseteq Models
    /\ required \in Counts
    /\ deps \in Counts
    /\ round \in [Models -> Nat]
    /\ rounds \in Nat
    /\ pc \in {"loop", "done", "panicked"}

Waiting == {g \in groups : round[g] = 0}
Result == {g \in groups : round[g] # 0}
Free(g) == \A h \in Models : deps[g][h] = 0

Pushed == {g \in Waiting : Free(g)}

\* Mutant: retain(|x| x != name) instead of position() and remove().
TakeEvery(d, result) ==
    [h \in Models |-> IF h \in result THEN 0 ELSE d[h]]

\* Mutant: remove() whether position() finds an occurrence or not.
TakeBlindly(d, result) ==
    [h \in Models |-> IF h \in result THEN d[h] - 1 ELSE d[h]]

\* position() finds one occurrence, remove() takes that one away.
TakeOne(d, result) ==
    [h \in Models |-> IF h \in result /\ d[h] > 0 THEN d[h] - 1 ELSE d[h]]

Init ==
    /\ groups \in SUBSET Models
    /\ required \in Counts
    /\ deps = required
    /\ round = [g \in Models |-> 0]
    /\ rounds = 0
    /\ pc = "loop"

\* Mutant: the test of what is free takes one occurrence for none.
HastyRound ==
    /\ pc = "loop"
    /\ \E g \in Waiting : \A h \in Models : deps[g][h] <= 1
    /\ round' = [g \in Models |->
                    IF g \in Waiting /\ \A h \in Models : deps[g][h] <= 1
                    THEN rounds + 1 ELSE round[g]]
    /\ rounds' = rounds + 1
    /\ UNCHANGED <<groups, required, deps, pc>>

\* One turn of the loop: push what waits for nothing, then take from every
\* other group one occurrence of each group pushed so far.
Round ==
    /\ pc = "loop"
    /\ Pushed # {}
    /\ round' = [g \in Models |-> IF g \in Pushed THEN rounds + 1 ELSE round[g]]
    /\ deps' = [g \in Models |->
                    IF g \in Waiting \ Pushed
                    THEN TakeOne(deps[g], Result \union Pushed)
                    ELSE deps[g]]
    /\ rounds' = rounds + 1
    /\ UNCHANGED <<groups, required, pc>>

Done ==
    /\ pc = "loop"
    /\ Waiting = {}
    /\ pc' = "done"
    /\ UNCHANGED <<groups, required, deps, round, rounds>>

\* Mutant: has_some is true once any round pushed something.
LateCircular ==
    /\ pc = "loop"
    /\ rounds = 0
    /\ Waiting # {}
    /\ Pushed = {}
    /\ pc' = "panicked"
    /\ UNCHANGED <<groups, required, deps, round, rounds>>

\* panic!("Circular required relationship between these models ...")
Circular ==
    /\ pc = "loop"
    /\ Waiting # {}
    /\ Pushed = {}
    /\ pc' = "panicked"
    /\ UNCHANGED <<groups, required, deps, round, rounds>>

Next == Round \/ Done \/ Circular

Spec == Init /\ [][Next]_vars /\ WF_vars(Next)

-------------------------------------------------------------------------------
\* Safety.

\* What the seeder needs from the order: the record a required foreign key
\* points to exists when the record that holds the key is inserted.  Every
\* group that was pushed comes strictly after each group it requires.
DependenciesFirst ==
    \A g \in Result : \A h \in Models :
        required[g][h] > 0 => h \in Result /\ round[h] < round[g]

\* No group waits for an occurrence that its required relations do not
\* account for: what was taken from it is one occurrence of h for every round
\* since h was pushed, and nothing else.
OneOccurrenceARound ==
    \A g \in Waiting : \A h \in Models :
        deps[g][h] =
            LET taken == IF h \in Result THEN rounds + 1 - round[h] ELSE 0
            IN  IF required[g][h] > taken THEN required[g][h] - taken ELSE 0

\* The loop ends with the closed form that the seeder's model walks: it
\* panics exactly when the closed form has no order, and pushes each group in
\* the round the closed form gives.
ClosedForm ==
    /\ pc = "panicked" => ~Orderable(required, groups)
    /\ pc = "done" =>
        /\ Orderable(required, groups)
        /\ \A g \in groups : round[g] = Level(required, groups, g)

\* The loop ends, in an order or a panic: no round is run for nothing.
Ends == <>(pc # "loop")

\* The panic's message says that the models it names require each other in a
\* circle (src/seeder/seed.rs:620): from each of them a required relation
\* leads to another one of them.
\* It is said of a data set that holds every model its groups require.
PanicMeansCircle ==
    pc = "panicked"
    /\ (\A g \in groups : \A h \in Models \ groups : required[g][h] = 0) =>
        \A g \in Waiting : \E h \in Waiting : required[g][h] > 0
===============================================================================
