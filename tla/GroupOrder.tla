------------------------------ MODULE GroupOrder ------------------------------
(***************************************************************************)
(* The order in which the seeder walks the groups of a data set, as a      *)
(* closed form of the loop in ordered_group (src/seeder/seed.rs).          *)
(*                                                                         *)
(* required[g][h] is the number of relations of model g that are required, *)
(* carry the foreign key and point to model h.  A group is named after its *)
(* model, so groups and models share their names.                          *)
(***************************************************************************)
EXTENDS Integers, FiniteSets

\* Placed(required, groups)[k]: the groups in `result` after k rounds.  A
\* round pushes the groups that wait for nothing; a group then stops waiting
\* for ONE occurrence of every group in `result`, in this and in every later
\* round.
Placed(required, groups) ==
    LET placed[k \in 0..Cardinality(groups)] ==
            IF k = 0 THEN {}
            ELSE placed[k-1] \union
                 {g \in groups : \A h \in DOMAIN required[g] :
                    required[g][h] <=
                        Cardinality({j \in 1..k-1 : h \in placed[j]})}
    IN  placed

\* A round that places nothing while groups are left ends in the panic, so
\* the order exists iff as many rounds as there are groups place them all.
\* (A round without progress may still take occurrences away, but the code
\* never reaches the next round.)
Orderable(required, groups) ==
    LET placed == Placed(required, groups)
    IN  \A k \in 1..Cardinality(groups) :
            placed[k] = groups \/ placed[k] # placed[k-1]

\* The round in which a group is placed.  Within a round the groups follow an
\* index map of which entries are removed, an order nothing relies on.
Level(required, groups, g) ==
    LET placed == Placed(required, groups)
    IN  CHOOSE k \in 1..Cardinality(groups) :
            g \in placed[k] /\ g \notin placed[k-1]

First(required, groups, left) ==
    {g \in left : \A h \in left :
        Level(required, groups, g) <= Level(required, groups, h)}

Last(required, groups, left) ==
    {g \in left : \A h \in left :
        Level(required, groups, h) <= Level(required, groups, g)}
===============================================================================
