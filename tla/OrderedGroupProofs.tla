-------------------------- MODULE OrderedGroupProofs --------------------------
(***************************************************************************)
(* For every schema and every data set: the loop of ordered_group keeps    *)
(* its books right, pushes a group strictly after each group its required  *)
(* foreign keys point to, and ends with the closed form of GroupOrder that *)
(* the model of the seeder walks.                                          *)
(***************************************************************************)
EXTENDS OrderedGroup, NumberInduction

RoundsBound == \A g \in Models : round[g] <= rounds

\* DependenciesFirst is not inductive: that a free group's dependencies have
\* been pushed is known from what was taken from deps.
Inv ==
    /\ TypeOK
    /\ RoundsBound
    /\ OneOccurrenceARound
    /\ DependenciesFirst

USE DEF Waiting, Result, Pushed, Free

\* The variables of the loop stay in their types and no group carries a round
\* that has not been run.
LEMMA TypeCorrect == TypeOK /\ RoundsBound /\ [Next]_vars => TypeOK' /\ RoundsBound'
<1> SUFFICES ASSUME TypeOK, RoundsBound, [Next]_vars PROVE TypeOK' /\ RoundsBound'
    OBVIOUS
<1> USE DEF TypeOK, RoundsBound, Counts
<1>1. CASE Round
    <2>1. \A g \in Models : TakeOne(deps[g], Result \union Pushed) \in [Models -> 0..MaxMany]
        BY MaxManyAssumption DEF TakeOne
    <2>2. deps' \in Counts
        BY <1>1, <2>1 DEF Round
    <2>3. round' \in [Models -> Nat] /\ rounds' \in Nat
        BY <1>1 DEF Round
    <2>4. \A g \in Models : round'[g] <= rounds'
        BY <1>1 DEF Round
    <2> QED BY <1>1, <2>2, <2>3, <2>4 DEF Round
<1>2. CASE Done
    BY <1>2 DEF Done
<1>3. CASE Circular
    BY <1>3 DEF Circular
<1>4. CASE UNCHANGED vars
    BY <1>4 DEF vars
<1> QED BY <1>1, <1>2, <1>3, <1>4 DEF Next

\* A round takes one occurrence, and one only, of each group pushed so far.
LEMMA RoundKeepsBooks ==
    TypeOK /\ RoundsBound /\ OneOccurrenceARound /\ Round => OneOccurrenceARound'
<1> SUFFICES ASSUME TypeOK, RoundsBound, OneOccurrenceARound, Round,
                    NEW g \in Waiting', NEW h \in Models
             PROVE  deps'[g][h] =
                        LET taken == IF h \in Result' THEN rounds' + 1 - round'[h] ELSE 0
                        IN  IF required[g][h] > taken THEN required[g][h] - taken ELSE 0
    BY DEF OneOccurrenceARound, Round
<1> USE DEF TypeOK, RoundsBound, Counts
<1>1. g \in Waiting \ Pushed /\ g \in Models
    BY DEF Round
<1>2. deps'[g][h] = IF h \in Result \union Pushed /\ deps[g][h] > 0
                    THEN deps[g][h] - 1 ELSE deps[g][h]
    BY <1>1 DEF Round, TakeOne
<1>3. /\ required[g][h] \in Nat
      /\ deps[g][h] \in Nat
      /\ round[h] \in Nat
      /\ rounds \in Nat
      /\ round[h] <= rounds
    BY <1>1
<1>4. deps[g][h] = LET taken == IF h \in Result THEN rounds + 1 - round[h] ELSE 0
                   IN  IF required[g][h] > taken THEN required[g][h] - taken ELSE 0
    BY <1>1 DEF OneOccurrenceARound
<1>5. CASE h \in Result
    <2>1. h \in Result' /\ round'[h] = round[h] /\ rounds' = rounds + 1
        BY <1>5, <1>3 DEF Round
    <2> QED BY <1>2, <1>3, <1>4, <1>5, <2>1
<1>6. CASE h \in Pushed
    <2>1. h \in Result' /\ round'[h] = rounds + 1 /\ rounds' = rounds + 1 /\ h \notin Result
        BY <1>6, <1>3 DEF Round
    <2> QED BY <1>2, <1>3, <1>4, <1>6, <2>1
<1>7. CASE h \notin Result \union Pushed
    <2>1. h \notin Result'
        BY <1>7 DEF Round
    <2> QED BY <1>2, <1>3, <1>4, <1>7, <2>1
<1> QED BY <1>5, <1>6, <1>7

\* What a group requires was pushed in an earlier round than the group.
LEMMA RoundKeepsOrder ==
    TypeOK /\ RoundsBound /\ OneOccurrenceARound /\ DependenciesFirst /\ Round
        => DependenciesFirst'
<1> SUFFICES ASSUME TypeOK, RoundsBound, OneOccurrenceARound, DependenciesFirst, Round,
                    NEW g \in Result', NEW h \in Models, required[g][h] > 0
             PROVE  h \in Result' /\ round'[h] < round'[g]
    BY DEF DependenciesFirst, Round
<1> USE DEF TypeOK, RoundsBound, Counts
<1>1. g \in groups /\ g \in Models
    BY DEF Round
<1>2. h \in Result /\ round[h] <= rounds => h \in Result' /\ round'[h] = round[h]
    BY DEF Round
<1>3. CASE g \in Result
    <2>1. h \in Result /\ round[h] < round[g]
        BY <1>3 DEF DependenciesFirst
    <2>2. round'[g] = round[g]
        BY <1>1, <1>3 DEF Round
    <2> QED BY <1>2, <2>1, <2>2
<1>4. CASE g \in Pushed
    <2>1. deps[g][h] = 0 /\ required[g][h] \in Nat
        BY <1>1, <1>4
    <2>2. h \in Result
        <3> SUFFICES ASSUME h \notin Result PROVE FALSE
            OBVIOUS
        <3>1. deps[g][h] = IF required[g][h] > 0 THEN required[g][h] - 0 ELSE 0
            BY <1>4 DEF OneOccurrenceARound
        <3> QED BY <2>1, <3>1
    <2>3. round'[g] = rounds + 1 /\ round[h] \in Nat /\ rounds \in Nat
        BY <1>1, <1>4 DEF Round
    <2> QED BY <1>2, <2>2, <2>3
<1> QED BY <1>1, <1>3, <1>4 DEF Round

LEMMA Inductive == Inv /\ [Next]_vars => Inv'
<1> SUFFICES ASSUME Inv, [Next]_vars PROVE Inv'
    OBVIOUS
<1>1. TypeOK' /\ RoundsBound'
    BY TypeCorrect DEF Inv
<1>2. OneOccurrenceARound' /\ DependenciesFirst'
    <2>1. CASE Round
        BY <2>1, RoundKeepsBooks, RoundKeepsOrder DEF Inv
    <2>2. CASE Done \/ Circular \/ UNCHANGED vars
        <3>1. UNCHANGED <<groups, required, deps, round, rounds>>
            BY <2>2 DEF Done, Circular, vars
        <3> QED BY <3>1 DEF Inv, OneOccurrenceARound, DependenciesFirst
    <2> QED BY <2>1, <2>2 DEF Next
<1> QED BY <1>1, <1>2 DEF Inv

LEMMA Start == Init => Inv
<1> SUFFICES ASSUME Init PROVE Inv
    OBVIOUS
<1>1. TypeOK /\ RoundsBound
    BY DEF Init, TypeOK, RoundsBound, Counts
<1>2. Result = {}
    BY DEF Init
<1>3. OneOccurrenceARound
    BY <1>2, MaxManyAssumption DEF Init, OneOccurrenceARound, Counts
<1> QED BY <1>1, <1>2, <1>3 DEF Inv, DependenciesFirst

LEMMA Invariant == Spec => []Inv
<1> QED BY Start, Inductive, PTL DEF Spec

\* The state of the loop keeps its types, for every schema.
THEOREM OrderedGroupTypeOK == Spec => []TypeOK
<1>1. Inv => TypeOK
    BY DEF Inv
<1> QED BY <1>1, Invariant, PTL

\* The order of ordered_group puts a group after everything its required
\* foreign keys point to, for every schema and every data set.
THEOREM OrderedGroupDependenciesFirst == Spec => []DependenciesFirst
<1>1. Inv => DependenciesFirst
    BY DEF Inv
<1> QED BY <1>1, Invariant, PTL

\* The books of deps are right in every round: what panics is the shortfall
\* of rounds, never a miscount.
THEOREM OrderedGroupBooks == Spec => []OneOccurrenceARound
<1>1. Inv => OneOccurrenceARound
    BY DEF Inv
<1> QED BY <1>1, Invariant, PTL

-------------------------------------------------------------------------------
\* The loop and its closed form.

\* The recursion of GroupOrder is well founded: Placed satisfies its equation.
LEMMA PlacedEquation ==
    ASSUME NEW needs, NEW all, IsFiniteSet(all)
    PROVE  LET placed == Placed(needs, all)
           IN  placed = [k \in 0..Cardinality(all) |->
                    IF k = 0 THEN {}
                    ELSE placed[k-1] \union
                         {g \in all : \A h \in DOMAIN needs[g] :
                            needs[g][h] <=
                                Cardinality({j \in 1..k-1 : h \in placed[j]})}]
<1> DEFINE N == Cardinality(all)
           Placeable(f, k) == {g \in all : \A h \in DOMAIN needs[g] :
                            needs[g][h] <= Cardinality({j \in 1..k-1 : h \in f[j]})}
           Body(f, k) == IF k = 0 THEN {} ELSE f[k-1] \union Placeable(f, k)
           Upto(f, n) == f = [k \in 0..n |-> Body(f, k)]
           S == {n \in Nat : \E f : Upto(f, n)}
<1>1. N \in Nat
    BY FS_CardinalityType
<1>2. 0 \in S
    <2> DEFINE f == [k \in 0..0 |-> {}]
    <2>1. f = [k \in 0..0 |-> Body(f, k)]
        OBVIOUS
    <2>2. Upto(f, 0)
        BY <2>1
    <2> QED BY <2>2
<1>3. ASSUME NEW n \in Nat, n \in S PROVE n + 1 \in S
    <2>1. PICK f : Upto(f, n)
        BY <1>3
    <2> DEFINE e == [k \in 0..n+1 |-> IF k = n + 1 THEN Body(f, k) ELSE f[k]]
    <2>2. ASSUME NEW k \in 0..n+1 PROVE Body(e, k) = Body(f, k)
        <3>1. \A j \in 1..k-1 : e[j] = f[j]
            OBVIOUS
        <3> HIDE DEF e
        <3>2. \A h : {j \in 1..k-1 : h \in e[j]} = {j \in 1..k-1 : h \in f[j]}
            BY <3>1
        <3>3. Placeable(e, k) = Placeable(f, k)
            BY <3>2
        <3>4. k # 0 => e[k-1] = f[k-1]
            BY DEF e
        <3> HIDE DEF Placeable
        <3> QED BY <3>3, <3>4
    <2>3. ASSUME NEW k \in 0..n+1 PROVE e[k] = Body(f, k)
        <3> HIDE DEF Body
        <3>1. CASE k = n + 1
            BY <3>1
        <3>2. CASE k \in 0..n
            BY <2>1, <3>2
        <3> QED BY <3>1, <3>2
    <2>4. e = [k \in 0..n+1 |-> Body(e, k)]
        <3>1. \A k \in 0..n+1 : e[k] = Body(e, k)
            BY <2>2, <2>3
        <3>2. DOMAIN e = 0..n+1 /\ e = [k \in DOMAIN e |-> e[k]]
            OBVIOUS
        <3> HIDE DEF e, Body
        <3> QED BY <3>1, <3>2
    <2> HIDE DEF e, Body
    <2>5. Upto(e, n + 1)
        BY <2>4
    <2> HIDE DEF Upto
    <2> QED BY <2>5
<1> HIDE DEF S
<1>4. N \in S
    BY <1>1, <1>2, <1>3, SetInduction
<1>5. \E f : f = [k \in 0..N |-> Body(f, k)]
    BY <1>4 DEF S
<1> QED BY <1>5, Zenon DEF Placed

LEMMA PlacedRounds ==
    ASSUME NEW needs, NEW all, IsFiniteSet(all)
    PROVE  /\ Placed(needs, all)[0] = {}
           /\ \A k \in 1..Cardinality(all) :
                  Placed(needs, all)[k] = Placed(needs, all)[k-1] \union
                      {g \in all : \A h \in DOMAIN needs[g] :
                         needs[g][h] <=
                             Cardinality({j \in 1..k-1 : h \in Placed(needs, all)[j]})}
<1> DEFINE placed == Placed(needs, all)
<1>1. Cardinality(all) \in Nat
    BY FS_CardinalityType
<1>2. placed = [k \in 0..Cardinality(all) |->
                    IF k = 0 THEN {}
                    ELSE placed[k-1] \union
                         {g \in all : \A h \in DOMAIN needs[g] :
                            needs[g][h] <=
                                Cardinality({j \in 1..k-1 : h \in placed[j]})}]
    BY PlacedEquation
<1> HIDE DEF placed
<1>3. 0 \in 0..Cardinality(all)
      /\ \A k \in 1..Cardinality(all) : k \in 0..Cardinality(all) /\ k # 0
    BY <1>1
<1>4. placed[0] = {}
    BY <1>2, <1>3
<1>5. ASSUME NEW k \in 1..Cardinality(all)
      PROVE  placed[k] = placed[k-1] \union
                 {g \in all : \A h \in DOMAIN needs[g] :
                    needs[g][h] <= Cardinality({j \in 1..k-1 : h \in placed[j]})}
    BY <1>2, <1>3, Zenon
<1> QED BY <1>4, <1>5 DEF placed

\* Groups stay placed.
LEMMA PlacedGrows ==
    ASSUME NEW needs, NEW all, IsFiniteSet(all)
    PROVE  \A k \in 0..Cardinality(all) :
               /\ Placed(needs, all)[k] \subseteq all
               /\ \A j \in 0..k : Placed(needs, all)[j] \subseteq Placed(needs, all)[k]
<1> DEFINE placed == Placed(needs, all)
           N == Cardinality(all)
           S == {k \in 0..N : placed[k] \subseteq all /\ \A j \in 0..k : placed[j] \subseteq placed[k]}
<1>1. N \in Nat
    BY FS_CardinalityType
<1>2. placed[0] = {} /\ \A k \in 1..N : placed[k-1] \subseteq placed[k]
                        /\ placed[k] \subseteq placed[k-1] \union all
    BY PlacedRounds
<1> HIDE DEF placed, N
<1>3. 0 \in S
    BY <1>1, <1>2
<1>4. ASSUME NEW n \in 0..N-1, n \in S PROVE n + 1 \in S
    <2>1. n + 1 \in 1..N /\ (n + 1) - 1 = n
        BY <1>1
    <2>2. placed[n] \subseteq placed[n + 1] /\ placed[n + 1] \subseteq placed[n] \union all
        BY <1>2, <2>1
    <2>3. \A j \in 0..n+1 : placed[j] \subseteq placed[n + 1]
        BY <1>4, <2>2
    <2> QED BY <1>1, <1>4, <2>1, <2>2, <2>3
<1> HIDE DEF S
<1>5. 0..N \subseteq S
    BY <1>1, <1>3, <1>4, SetInductionUpTo
<1> QED BY <1>5 DEF S, placed, N

\* Where there is an order, every group has its place in it.
LEMMA AllArePlaced ==
    ASSUME NEW needs, NEW all, IsFiniteSet(all), Orderable(needs, all)
    PROVE  Placed(needs, all)[Cardinality(all)] = all
<1> DEFINE placed == Placed(needs, all)
           N == Cardinality(all)
           S == {k \in 0..N : placed[k] = all \/ Cardinality(placed[k]) >= k}
<1>1. N \in Nat
    BY FS_CardinalityType
<1>2. \A k \in 0..N : /\ placed[k] \subseteq all
                      /\ \A j \in 0..k : placed[j] \subseteq placed[k]
    BY PlacedGrows
<1>3. \A k \in 1..N : placed[k] = all \/ placed[k] # placed[k-1]
    BY DEF Orderable
<1>4. placed[0] = {}
    BY PlacedRounds
<1> HIDE DEF placed
<1>5. 0 \in S
    BY <1>1, <1>4, FS_EmptySet
<1>6. ASSUME NEW n \in 0..N-1, n \in S PROVE n + 1 \in S
    <2>1. /\ n + 1 \in 1..N /\ n + 1 \in 0..N /\ n \in 0..n + 1 /\ n \in 0..N /\ (n + 1) - 1 = n
        BY <1>1
    <2>2. /\ placed[n] \subseteq placed[n + 1] /\ placed[n + 1] \subseteq all
          /\ placed[n + 1] = all \/ placed[n + 1] # placed[n]
        BY <1>2, <1>3, <2>1
    <2>3. ASSUME placed[n + 1] # all PROVE Cardinality(placed[n + 1]) >= n + 1
        <3>1. placed[n] # all
            BY <2>2, <2>3
        <3>2. Cardinality(placed[n]) >= n
            BY <1>6, <3>1
        <3>3. IsFiniteSet(placed[n + 1])
            BY <2>2, FS_Subset
        <3>4. /\ Cardinality(placed[n]) \in Nat /\ Cardinality(placed[n + 1]) \in Nat
              /\ Cardinality(placed[n]) < Cardinality(placed[n + 1])
            BY <2>2, <2>3, <3>3, FS_Subset, FS_CardinalityType
        <3> QED BY <3>2, <3>4
    <2> QED BY <2>1, <2>3
<1> HIDE DEF S, N
<1>7. 0..N \subseteq S
    BY <1>1, <1>5, <1>6, SetInductionUpTo
<1>8. placed[N] = all \/ Cardinality(placed[N]) >= N
    BY <1>1, <1>7 DEF S
<1>9. placed[N] \subseteq all
    BY <1>1, <1>2
<1>10. IsFiniteSet(placed[N]) /\ Cardinality(placed[N]) <= N
       /\ (Cardinality(placed[N]) = N => placed[N] = all)
    BY <1>9, FS_Subset DEF N
<1>11. Cardinality(placed[N]) \in Nat
    BY <1>10, FS_CardinalityType
<1> QED BY <1>1, <1>8, <1>10, <1>11 DEF N, placed

\* The level of a group is the round that places it.
LEMMA LevelPlaces ==
    ASSUME NEW needs, NEW all, IsFiniteSet(all), Orderable(needs, all), NEW g \in all
    PROVE  /\ Level(needs, all, g) \in 1..Cardinality(all)
           /\ g \in Placed(needs, all)[Level(needs, all, g)]
           /\ g \notin Placed(needs, all)[Level(needs, all, g) - 1]
<1> DEFINE placed == Placed(needs, all)
           N == Cardinality(all)
           T == {k \in 1..N : g \in placed[k]}
<1>1. N \in Nat
    BY FS_CardinalityType
<1>2. placed[0] = {} /\ placed[N] = all
    BY PlacedRounds, AllArePlaced
<1> HIDE DEF placed, N
<1>3. N \in T /\ T \in SUBSET Nat
    BY <1>1, <1>2
<1>4. PICK k \in T : \A j \in T : k <= j
    BY <1>3, LeastNumber
<1>5. g \notin placed[k-1]
    <2>1. CASE k = 1
        BY <1>2, <2>1
    <2>2. CASE k # 1
        BY <1>1, <1>4, <2>2
    <2> QED BY <2>1, <2>2
<1>6. \E i \in 1..N : g \in placed[i] /\ g \notin placed[i-1]
    BY <1>4, <1>5
<1>7. Level(needs, all, g) = CHOOSE i \in 1..N : g \in placed[i] /\ g \notin placed[i-1]
    BY DEF Level, placed, N
<1> HIDE DEF T
<1>8. /\ Level(needs, all, g) \in 1..N
      /\ g \in placed[Level(needs, all, g)]
      /\ g \notin placed[Level(needs, all, g) - 1]
    BY <1>6, <1>7
<1> QED BY <1>8 DEF placed, N

\* Where there is an order, what a group needs comes before it.
LEMMA NeededFirst ==
    ASSUME NEW needs, NEW all, IsFiniteSet(all), Orderable(needs, all), NEW g \in all, NEW h \in all,
           h \in DOMAIN needs[g], needs[g][h] \in Nat, needs[g][h] # 0
    PROVE  /\ Level(needs, all, g) \in Nat /\ Level(needs, all, h) \in Nat
           /\ Level(needs, all, h) < Level(needs, all, g)
<1> DEFINE placed == Placed(needs, all)
           N == Cardinality(all)
           k == Level(needs, all, g)
           i == Level(needs, all, h)
           Since(n) == {j \in 1..n : h \in placed[j]}
<1>1. N \in Nat /\ k \in 1..N /\ i \in 1..N
      /\ g \in placed[k] /\ g \notin placed[k-1] /\ h \notin placed[i-1]
    BY LevelPlaces, FS_CardinalityType
<1>2. placed[k] = placed[k-1] \union
          {x \in all : \A y \in DOMAIN needs[x] :
             needs[x][y] <= Cardinality({j \in 1..k-1 : y \in placed[j]})}
    BY <1>1, PlacedRounds, SMTT(20)
<1>3. \A n \in 0..N : \A j \in 0..n : placed[j] \subseteq placed[n]
    BY PlacedGrows
<1> HIDE DEF placed, N, k, i
<1>4. needs[g][h] <= Cardinality(Since(k-1))
    BY <1>1, <1>2
<1>5. Since(k-1) # {}
    <2>1. ASSUME Since(k-1) = {} PROVE FALSE
        <3>1. Cardinality(Since(k-1)) = 0
            BY <2>1, FS_EmptySet
        <3> QED BY <1>4, <3>1
    <2> QED BY <2>1
<1>6. PICK j \in 1..k-1 : h \in placed[j]
    BY <1>5
<1>7. i <= j
    <2>1. ASSUME j <= i - 1 PROVE FALSE
        <3>1. i - 1 \in 0..N /\ j \in 0..i-1
            BY <1>1, <1>6, <2>1
        <3> QED BY <1>1, <1>3, <1>6, <3>1
    <2> QED BY <1>1, <1>6, <2>1
<1> QED BY <1>1, <1>6, <1>7 DEF k, i

\* What round k takes as placed of a group h: one occurrence for every round
\* since h was pushed.
Met(h, k) == IF round[h] # 0 /\ round[h] < k THEN k - round[h] ELSE 0
FreeAt(g, k) == \A h \in Models : required[g][h] <= Met(h, k)

\* A group is pushed in the first round that finds it free.
InItsRound ==
    \A g \in groups : \A k \in 1..rounds :
        round[g] = 0 \/ k <= round[g] => (FreeAt(g, k) <=> round[g] = k)
EveryRoundPushes == \A k \in 1..rounds : \E g \in groups : round[g] = k
OnlyGroups == \A g \in Models : round[g] # 0 => g \in groups
Ended ==
    /\ pc = "done" => Waiting = {}
    /\ pc = "panicked" => Waiting # {} /\ Pushed = {}

\* ClosedForm speaks of the end of the loop only: these carry the rounds that
\* lead there.
Rounds == InItsRound /\ EveryRoundPushes /\ OnlyGroups /\ Ended

\* A group that waits is free in the loop's books exactly when it is in the
\* closed form's.
LEMMA FreeIsFreeAt ==
    ASSUME TypeOK, RoundsBound, OneOccurrenceARound, OnlyGroups, NEW g \in Waiting
    PROVE  Free(g) <=> FreeAt(g, rounds + 1)
<1> USE DEF TypeOK, RoundsBound, Counts
<1>1. ASSUME NEW h \in Models
      PROVE  deps[g][h] = 0 <=> required[g][h] <= Met(h, rounds + 1)
    <2>1. /\ required[g][h] \in Nat
          /\ round[h] \in Nat
          /\ rounds \in Nat
          /\ round[h] <= rounds
        OBVIOUS
    <2>2. h \in Result <=> round[h] # 0
        BY DEF OnlyGroups
    <2>3. deps[g][h] = LET taken == IF h \in Result THEN rounds + 1 - round[h] ELSE 0
                       IN  IF required[g][h] > taken THEN required[g][h] - taken ELSE 0
        BY DEF OneOccurrenceARound
    <2> QED BY <2>1, <2>2, <2>3 DEF Met
<1> QED BY <1>1 DEF FreeAt

\* What a round pushes does not change which groups earlier rounds found free.
LEMMA RoundKeepsPlaces ==
    ASSUME Inv, Rounds, Round
    PROVE  Rounds'
<1> USE DEF Inv, Rounds, TypeOK, RoundsBound, Counts
<1>1. UNCHANGED <<groups, required>> /\ rounds' = rounds + 1 /\ rounds \in Nat
    BY DEF Round
<1>2. \A g \in Models : /\ round[g] \in Nat
                        /\ round[g] <= rounds
                        /\ round'[g] = IF g \in Pushed THEN rounds + 1 ELSE round[g]
    BY DEF Round
<1>3. \A h \in Models : \A k \in 1..rounds + 1 : Met(h, k)' = Met(h, k)
    <2> SUFFICES ASSUME NEW h \in Models, NEW k \in 1..rounds + 1
                 PROVE  Met(h, k)' = Met(h, k)
        OBVIOUS
    <2>1. CASE h \in Pushed
        BY <1>1, <1>2, <2>1 DEF Met
    <2>2. CASE h \notin Pushed
        BY <1>2, <2>2 DEF Met
    <2> QED BY <2>1, <2>2
<1>4. \A g \in groups : \A k \in 1..rounds + 1 : FreeAt(g, k)' <=> FreeAt(g, k)
    BY <1>1, <1>3 DEF FreeAt
<1>5. InItsRound'
    <2> SUFFICES ASSUME NEW g \in groups, NEW k \in 1..rounds + 1,
                        round'[g] = 0 \/ k <= round'[g]
                 PROVE  FreeAt(g, k) <=> round'[g] = k
        BY <1>1, <1>4 DEF InItsRound
    <2>1. g \in Models
        OBVIOUS
    <2>2. CASE k = rounds + 1
        <3>1. round[g] = 0
            BY <1>2, <2>1, <2>2
        <3>2. g \in Pushed <=> FreeAt(g, k)
            BY <2>2, <3>1, FreeIsFreeAt
        <3> QED BY <1>1, <1>2, <2>1, <2>2, <3>1, <3>2
    <2>3. CASE k \in 1..rounds
        <3>1. round[g] = 0 \/ k <= round[g]
            BY <1>2, <2>1, <2>3
        <3>2. FreeAt(g, k) <=> round[g] = k
            BY <2>3, <3>1 DEF InItsRound
        <3>3. g \in Pushed => round[g] = 0
            OBVIOUS
        <3> QED BY <1>1, <1>2, <2>1, <2>3, <3>2, <3>3
    <2> QED BY <1>1, <2>2, <2>3
<1>6. EveryRoundPushes'
    <2> SUFFICES ASSUME NEW k \in 1..rounds + 1 PROVE \E g \in groups : round'[g] = k
        BY <1>1 DEF EveryRoundPushes
    <2>1. CASE k = rounds + 1
        BY <1>2, <2>1 DEF Round
    <2>2. CASE k \in 1..rounds
        <3>1. PICK g \in groups : round[g] = k
            BY <2>2 DEF EveryRoundPushes
        <3>2. g \notin Pushed
            BY <2>2, <3>1
        <3> QED BY <1>2, <3>1, <3>2
    <2> QED BY <1>1, <2>1, <2>2
<1>7. OnlyGroups'
    BY <1>1, <1>2 DEF OnlyGroups
<1>8. Ended'
    BY DEF Round, Ended
<1> QED BY <1>5, <1>6, <1>7, <1>8

LEMMA RoundsInductive == Inv /\ Rounds /\ [Next]_vars => Rounds'
<1> SUFFICES ASSUME Inv, Rounds, [Next]_vars PROVE Rounds'
    OBVIOUS
<1>1. CASE Round
    BY <1>1, RoundKeepsPlaces
<1>2. CASE Done \/ Circular \/ UNCHANGED vars
    <2>1. UNCHANGED <<groups, required, deps, round, rounds>>
        BY <1>2 DEF Done, Circular, vars
    <2>2. InItsRound' /\ EveryRoundPushes' /\ OnlyGroups'
        BY <2>1 DEF Rounds, InItsRound, EveryRoundPushes, OnlyGroups, FreeAt, Met
    <2>3. Ended'
        BY <1>2, <2>1 DEF Rounds, Ended, Done, Circular, vars
    <2> QED BY <2>2, <2>3 DEF Rounds
<1> QED BY <1>1, <1>2 DEF Next

LEMMA RoundsInvariant == Spec => [](Inv /\ Rounds)
<1>1. Init => Rounds
    BY DEF Init, Rounds, InItsRound, EveryRoundPushes, OnlyGroups, Ended
<1>2. Rounds /\ Inv /\ [Next]_vars => Rounds'
    BY RoundsInductive
<1> QED BY <1>1, <1>2, Invariant, PTL DEF Spec

LEMMA IntervalSize ==
    \A a, b \in Int : Cardinality(a..b) = IF a > b THEN 0 ELSE b - a + 1
<1> QED BY FS_Interval

\* No round is run for nothing: there are at least as many groups in `result`
\* as rounds done.
LEMMA RoundsAreFew ==
    ASSUME Inv, Rounds
    PROVE  /\ IsFiniteSet(groups)
           /\ Cardinality(groups) \in Nat
           /\ rounds <= Cardinality(groups)
           /\ Waiting # {} => rounds < Cardinality(groups)
<1> USE DEF Inv, Rounds, TypeOK
<1> DEFINE f == [k \in 1..rounds |-> CHOOSE g \in groups : round[g] = k]
<1>1. IsFiniteSet(groups) /\ Cardinality(groups) \in Nat
    BY ModelsAssumption, FS_Subset, FS_CardinalityType
<1>2. /\ IsFiniteSet(Result)
      /\ Cardinality(Result) \in Nat
      /\ Cardinality(Result) <= Cardinality(groups)
      /\ Waiting # {} => Cardinality(Result) # Cardinality(groups)
    <2>1. Result \in SUBSET groups /\ (Waiting # {} => Result # groups)
        OBVIOUS
    <2> HIDE DEF Result, Waiting
    <2> QED BY <1>1, <2>1, FS_Subset, FS_CardinalityType
<1>3. \A k \in 1..rounds : f[k] \in groups /\ round[f[k]] = k
    BY DEF EveryRoundPushes
<1> HIDE DEF f
<1>4. f \in Injection(1..rounds, Result)
    <2>1. f \in [1..rounds -> Result]
        <3>1. DOMAIN f = 1..rounds /\ f = [k \in DOMAIN f |-> f[k]]
            BY DEF f
        <3> QED BY <1>3, <3>1
    <2> QED BY <1>3, <2>1 DEF Injection, IsInjective
<1>5. rounds <= Cardinality(Result)
    <2>1. Cardinality(1..rounds) = rounds
        BY IntervalSize
    <2> HIDE DEF Result, Inv, Rounds
    <2>2. Cardinality(1..rounds) <= Cardinality(Result)
        BY <1>2, <1>4, FS_Injection
    <2> QED BY <2>1, <2>2
<1>6. rounds \in Nat
    OBVIOUS
<1> HIDE DEF Result, Waiting, Inv, Rounds
<1> QED BY <1>1, <1>2, <1>5, <1>6

\* The rounds in which the closed form found h placed are counted by Met.
LEMMA CountIsMet ==
    ASSUME Inv, Rounds, NEW k \in Nat, NEW placed,
           \A j \in 0..k : placed[j] = {g \in groups : round[g] \in 1..j},
           NEW h \in Models
    PROVE  Cardinality({j \in 1..k : h \in placed[j]}) = Met(h, k + 1)
<1>1. {j \in 1..k : h \in placed[j]} = {j \in 1..k : round[h] \in 1..j}
    BY DEF Rounds, OnlyGroups
<1>2. round[h] \in Nat
    BY DEF Inv, TypeOK
<1>3. CASE round[h] # 0
    <2>1. {j \in 1..k : round[h] \in 1..j} = round[h]..k
        BY <1>2, <1>3
    <2>2. Cardinality({j \in 1..k : h \in placed[j]}) = Cardinality(round[h]..k)
        BY <1>1, <2>1
    <2>3. Cardinality(round[h]..k) = IF round[h] > k THEN 0 ELSE k - round[h] + 1
        <3>1. round[h] \in Int /\ k \in Int
            BY <1>2
        <3> QED BY <3>1, IntervalSize, Zenon
    <2> QED BY <1>2, <1>3, <2>2, <2>3 DEF Met
<1>4. CASE round[h] = 0
    <2>1. {j \in 1..k : round[h] \in 1..j} = {}
        BY <1>4
    <2> QED BY <1>1, <1>4, <2>1, FS_EmptySet DEF Met
<1> QED BY <1>3, <1>4

\* Up to the last round, and past it when every group has been pushed, the
\* closed form places the groups that the loop has pushed.
LEMMA PlacedIsPushed ==
    ASSUME Inv, Rounds,
           NEW n \in 0..Cardinality(groups), n <= rounds \/ Waiting = {}
    PROVE  \A k \in 0..n :
               Placed(required, groups)[k] = {g \in groups : round[g] \in 1..k}
<1> USE DEF Inv, Rounds, TypeOK, RoundsBound, Counts
<1> DEFINE N == Cardinality(groups)
           placed == Placed(required, groups)
           Upto(k) == {g \in groups : round[g] \in 1..k}
           S == {k \in Nat : k <= n => \A j \in 0..k : placed[j] = Upto(j)}
<1>1. N \in Nat /\ IsFiniteSet(groups)
    BY RoundsAreFew
<1>2. /\ placed[0] = {}
      /\ \A k \in 1..N :
             placed[k] = placed[k-1] \union
                 {g \in groups : \A h \in DOMAIN required[g] :
                    required[g][h] <= Cardinality({j \in 1..k-1 : h \in placed[j]})}
    <2> HIDE DEF Inv, Rounds
    <2> QED BY <1>1, PlacedRounds
<1> HIDE DEF placed
<1>3. \A g \in groups : DOMAIN required[g] = Models
    OBVIOUS
<1>4. \A k \in 1..N :
          placed[k] = placed[k-1] \union
              {g \in groups : \A h \in Models :
                 required[g][h] <= Cardinality({j \in 1..k-1 : h \in placed[j]})}
    BY <1>2, <1>3
<1>5. 0 \in S
    BY <1>2
<1>6. ASSUME NEW k \in Nat, k \in S PROVE k + 1 \in S
    <2> SUFFICES ASSUME k + 1 <= n PROVE placed[k+1] = Upto(k+1)
        <3>1. \A j \in 0..k+1 : j \in 0..k \/ j = k + 1
            OBVIOUS
        <3> HIDE DEF Upto
        <3> QED BY <1>6, <3>1
    <2>1. \A j \in 0..k : placed[j] = Upto(j)
        BY <1>6
    <2>2. \A h \in Models : Cardinality({j \in 1..k : h \in placed[j]}) = Met(h, k + 1)
        BY <2>1, CountIsMet
    <2>3. placed[k+1] = Upto(k) \union {g \in groups : FreeAt(g, k + 1)}
        <3>1. k + 1 \in 1..N /\ k + 1 - 1 = k
            BY <1>1
        <3>2. placed[k+1] = placed[k] \union
                  {g \in groups : \A h \in Models :
                     required[g][h] <= Cardinality({j \in 1..k : h \in placed[j]})}
            BY <1>4, <3>1
        <3>3. placed[k] = Upto(k)
            BY <2>1
        <3> HIDE DEF Upto
        <3> QED BY <2>2, <3>2, <3>3, ZenonT(30) DEF FreeAt
    <2>4. CASE k + 1 <= rounds
        <3>1. ASSUME NEW g \in groups, g \notin Upto(k)
              PROVE  FreeAt(g, k + 1) <=> round[g] = k + 1
            BY <2>4, <3>1 DEF InItsRound
        <3>2. \A g \in groups : g \in Upto(k + 1) <=> g \in Upto(k) \/ round[g] = k + 1
            OBVIOUS
        <3> HIDE DEF Upto
        <3>3. Upto(k + 1) \subseteq groups /\ Upto(k) \subseteq groups
            BY DEF Upto
        <3> QED BY <2>3, <3>1, <3>2, <3>3
    <2>5. CASE rounds <= k
        <3>1. Waiting = {}
            BY <2>5
        <3>2. Upto(k) = groups /\ Upto(k + 1) = groups
            BY <2>5, <3>1
        <3> HIDE DEF Upto
        <3> QED BY <2>3, <3>2
    <2> QED BY <2>4, <2>5
<1> HIDE DEF S
<1>7. n \in S
    BY <1>1, <1>5, <1>6, SetInduction
<1> QED BY <1>7 DEF S, placed

\* A round that pushed something placed something new.
LEMMA PlacesSomething ==
    ASSUME Inv, Rounds, NEW k \in 1..rounds
    PROVE  Placed(required, groups)[k] # Placed(required, groups)[k-1]
<1> DEFINE placed == Placed(required, groups)
<1>1. k \in 0..Cardinality(groups) /\ k - 1 \in 0..Cardinality(groups) /\ k <= rounds
    BY RoundsAreFew DEF Inv, TypeOK
<1>2. placed[k] = {g \in groups : round[g] \in 1..k}
      /\ placed[k-1] = {g \in groups : round[g] \in 1..k-1}
    <2> HIDE DEF placed
    <2>1. \A j \in 0..k : placed[j] = {g \in groups : round[g] \in 1..j}
        BY <1>1, PlacedIsPushed DEF placed
    <2> QED BY <1>1, <2>1
<1>3. PICK g \in groups : round[g] = k
    BY DEF Rounds, EveryRoundPushes
<1> HIDE DEF placed
<1>4. g \in placed[k] /\ g \notin placed[k-1]
    BY <1>1, <1>2, <1>3
<1> QED BY <1>4 DEF placed

\* With every group pushed, the closed form has an order, and the round of a
\* group is its level.
LEMMA DoneIsOrdered ==
    ASSUME Inv, Rounds, Waiting = {}
    PROVE  /\ Orderable(required, groups)
           /\ \A g \in groups : round[g] = Level(required, groups, g)
<1> DEFINE N == Cardinality(groups)
           placed == Placed(required, groups)
<1>1. N \in Nat /\ rounds \in Nat /\ rounds <= N
    BY RoundsAreFew DEF Inv, TypeOK
<1>2. \A g \in groups : round[g] \in 1..rounds
    BY DEF Inv, TypeOK, RoundsBound
<1>3. \A k \in 0..N : placed[k] = {g \in groups : round[g] \in 1..k}
    <2>1. N \in 0..N
        BY <1>1
    <2> HIDE DEF Waiting, placed
    <2> QED BY <2>1, PlacedIsPushed DEF placed
<1> HIDE DEF placed
<1>4. Orderable(required, groups)
    <2> SUFFICES ASSUME NEW k \in 1..N PROVE placed[k] = groups \/ placed[k] # placed[k-1]
        BY DEF Orderable, placed
    <2>1. CASE k <= rounds
        BY <1>1, <2>1, PlacesSomething DEF placed
    <2>2. CASE rounds < k
        <3>1. k \in 0..N /\ \A g \in groups : round[g] \in 1..k
            BY <1>1, <1>2, <2>2
        <3> QED BY <1>3, <3>1
    <2> QED BY <1>1, <2>1, <2>2
<1>5. ASSUME NEW g \in groups PROVE round[g] = Level(required, groups, g)
    <2>1. ASSUME NEW k \in 1..N
          PROVE  g \in placed[k] /\ g \notin placed[k-1] <=> k = round[g]
        <3>1. k \in 0..N /\ k - 1 \in 0..N /\ round[g] \in 1..rounds
            BY <1>1, <1>2
        <3> QED BY <1>3, <3>1
    <2>2. round[g] \in 1..N
        BY <1>1, <1>2
    <2>3. Level(required, groups, g) = CHOOSE k \in 1..N : g \in placed[k] /\ g \notin placed[k-1]
        BY DEF Level, placed
    <2> QED BY <2>1, <2>2, <2>3
<1> QED BY <1>4, <1>5

\* With groups left and none of them free, the closed form stands still in
\* the next round.
LEMMA StuckIsCircular ==
    ASSUME Inv, Rounds, Waiting # {}, Pushed = {}
    PROVE  ~Orderable(required, groups)
<1> DEFINE N == Cardinality(groups)
           placed == Placed(required, groups)
           k == rounds + 1
<1>1. N \in Nat /\ rounds \in Nat /\ rounds < N /\ IsFiniteSet(groups)
    BY RoundsAreFew DEF Inv, TypeOK
<1>2. \A j \in 0..rounds : placed[j] = {g \in groups : round[g] \in 1..j}
    <2>1. rounds \in 0..N
        BY <1>1
    <2> HIDE DEF Waiting, placed
    <2> QED BY <1>1, <2>1, PlacedIsPushed DEF placed
<1>3. placed[k] = placed[rounds] \union
          {g \in groups : \A h \in DOMAIN required[g] :
             required[g][h] <= Cardinality({j \in 1..rounds : h \in placed[j]})}
    <2>1. k \in 1..N /\ k - 1 = rounds
        BY <1>1
    <2> HIDE DEF placed, k
    <2> QED BY <1>1, <2>1, PlacedRounds DEF placed
<1> HIDE DEF placed
<1>4. placed[rounds] # groups /\ \A g \in groups : g \in Waiting <=> g \notin placed[rounds]
    <2>1. \A g \in groups : round[g] \in Nat /\ round[g] <= rounds
        BY DEF Inv, TypeOK, RoundsBound
    <2>2. placed[rounds] = {g \in groups : round[g] \in 1..rounds}
        BY <1>1, <1>2
    <2> QED BY <1>1, <2>1, <2>2
<1>5. ASSUME NEW g \in Waiting
      PROVE  \E h \in DOMAIN required[g] :
                 ~(required[g][h] <= Cardinality({j \in 1..rounds : h \in placed[j]}))
    <2>1. ~FreeAt(g, k)
        BY FreeIsFreeAt DEF Inv, Rounds
    <2>2. PICK h \in Models : ~(required[g][h] <= Met(h, k))
        BY <2>1 DEF FreeAt
    <2>3. DOMAIN required[g] = Models
        BY DEF Inv, TypeOK, Counts
    <2>4. Met(h, k) = Cardinality({j \in 1..rounds : h \in placed[j]})
        BY <1>1, <1>2, CountIsMet
    <2> QED BY <2>2, <2>3, <2>4
<1>6. placed[k] = placed[rounds]
    <2> DEFINE Ready(g) ==
                   \A h \in DOMAIN required[g] :
                      required[g][h] <= Cardinality({j \in 1..rounds : h \in placed[j]})
    <2>1. \A g \in Waiting : ~Ready(g)
        BY <1>5, Zenon
    <2>2. placed[k] = placed[rounds] \union {g \in groups : Ready(g)}
        BY <1>3
    <2> HIDE DEF Ready, k, Waiting
    <2> QED BY <1>4, <2>1, <2>2
<1>7. k \in 1..N /\ k - 1 = rounds
    BY <1>1
<1> HIDE DEF k
<1> QED BY <1>4, <1>6, <1>7 DEF Orderable, placed

\* The loop ends as the closed form of GroupOrder says, for every schema and
\* every data set: in the panic exactly when the closed form has no order,
\* and else with every group in the round that Level gives it.
THEOREM OrderedGroupClosedForm == Spec => []ClosedForm
<1>1. Inv /\ Rounds => ClosedForm
    BY DoneIsOrdered, StuckIsCircular DEF ClosedForm, Rounds, Ended
<1> QED BY <1>1, RoundsInvariant, PTL
===============================================================================
