-------------------------- MODULE SeederRelationProofs --------------------------
(***************************************************************************)
(* When an unwrap of the seeder fails, what the DataSetRelation table      *)
(* names, and what links a run leaves: for a schema that the seeder can    *)
(* serve, a run fails only on damage that others did; where nothing is     *)
(* taken away behind it, it does no such damage itself, so that it never   *)
(* fails, each DataSetRelation is between two tracked records, and an      *)
(* Unseed of everything leaves nothing behind; and where the two ends of a *)
(* relation do not undo each other, a Reseed leaves the links of the files *)
(* and no others.                                                          *)
(*                                                                         *)
(* An unwrap takes a record for granted that a step of the same run, or of *)
(* another one, has tracked.  Steady says which: what the input requires   *)
(* is of groups begun before (NeedsBegun, from the order of the groups),   *)
(* what the walk of the relations names the files declare, and what is     *)
(* cut touches the record in hand.  Whole says what the tables hold while  *)
(* a record is inserted, and while one is removed.                         *)
(*                                                                         *)
(* The links follow from lists: what a Reseed has yet to save, to walk, to *)
(* set and to cut in the data sets it has begun.  A link of the files is   *)
(* in place or still to be set (LinksMade); a foreign key of a record that *)
(* is saved is one of the files (KeysDeclared); a DataSetRelation over a   *)
(* join table is named at both ends or still to be cut (Emptied), and each *)
(* link row has such a one (Remembered).  At the end the lists are empty.  *)
(***************************************************************************)
EXTENDS SeederCatalogProofs, FiniteSetTheorems

\* The lemmas about the order of groups.
Loop == INSTANCE OrderedGroupProofs WITH
    MaxMany <- 0, groups <- {}, required <- <<>>, deps <- <<>>, round <- <<>>, rounds <- 0,
    pc <- "loop"

Finite == IsFiniteSet(Models) /\ IsFiniteSet(Rels)

\* In an order, what a group needs comes before it.
LEMMA NeedsComeFirst ==
    ASSUME Finite, NEW d, Orderable(Required, Groups(d)),
           NEW g \in Groups(d), NEW left \in SUBSET Groups(d), g \in First(Required, Groups(d), left),
           NEW r \in RelsOf(g), Schema[r].kind = "required", Schema[r].target \in Groups(d)
    PROVE  Schema[r].target \notin left
<1> DEFINE h == Schema[r].target
           all == Groups(d)
           Needed == {s \in RelsOf(g) : Schema[s].kind = "required" /\ Schema[s].target = h}
<1>1. all \subseteq Models /\ IsFiniteSet(all) /\ g \in Models /\ h \in Models
    BY FS_Subset DEF Finite, Groups
<1>2. IsFiniteSet(Needed) /\ r \in Needed
    BY FS_Subset DEF Finite, RelsOf
<1>3. Required[g][h] = Cardinality(Needed) /\ h \in DOMAIN Required[g]
    BY <1>1 DEF Required
<1>4. Required[g][h] \in Nat /\ Required[g][h] # 0
    BY <1>2, <1>3, FS_CardinalityType, FS_EmptySet
<1>5. /\ Loop!IsFiniteSet(all) /\ Loop!Orderable(Required, all)
      /\ \A x : Loop!Level(Required, all, x) = Level(Required, all, x)
    <2> HIDE DEF all
    <2>1. Loop!IsFiniteSet(all)
        BY <1>1, Zenon DEF IsFiniteSet, Loop!IsFiniteSet
    <2>2. Orderable(Required, all) => Loop!Orderable(Required, all)
        BY Zenon DEF Orderable, Loop!Orderable, Placed, Loop!Placed, Cardinality, Loop!Cardinality
    <2>3. \A x : Loop!Level(Required, all, x) = Level(Required, all, x)
        BY Zenon DEF Level, Loop!Level, Placed, Loop!Placed, Cardinality, Loop!Cardinality
    <2> QED BY <2>1, <2>2, <2>3 DEF all
<1>6. Loop!ModelsAssumption /\ Loop!MaxManyAssumption
    BY Zenon DEF Finite, Loop!ModelsAssumption, Loop!MaxManyAssumption, IsFiniteSet, Loop!IsFiniteSet
<1> HIDE DEF h, all
<1>7. /\ Level(Required, all, g) \in Nat /\ Level(Required, all, h) \in Nat
      /\ Level(Required, all, h) < Level(Required, all, g)
    BY <1>1, <1>3, <1>4, <1>5, <1>6, Loop!NeededFirst DEF h, all
<1>8. ASSUME h \in left PROVE Level(Required, all, g) <= Level(Required, all, h)
    BY <1>8 DEF First, all
<1> QED BY <1>7, <1>8 DEF h

-------------------------------------------------------------------------------
\* What a run has in hand while it inserts, links and cuts.

\* A DataSetRelation names a relation of the record on its first side, and the
\* opposite of that relation on the other.
Fits(c) ==
    /\ Schema[c.ra].owner = c.ga /\ Schema[c.ra].target = c.gb
    /\ c.rb = Schema[c.ra].opposite
RelationsFit == \A c \in rels : Fits(c)

\* The records whose relations are still to be walked are those of the files,
\* and their groups have relations that the insert does not set up.
WorkDeclared ==
    InSeed(run) =>
        \A x \in run.work : <<run.ds, x[1], x[2]>> \in file.records /\ HasLaterRelations(x[1])

\* The record whose relations are walked is tracked until they all are.
Walking ==
    \/ run.pc \in {"refs", "relate"}
    \/ run.pc \in {"cut", "uncut"} /\ run.back = "relation"
    \/ run.pc = "relation" /\ run.keys # {}
RecordWalked ==
    Walking =>
        /\ run.rec \in recs /\ run.rec.ds = run.ds
        /\ HasLaterRelations(run.rec.group)
        /\ run.keys \subseteq RelsOf(run.rec.group)
RelationWalked ==
    /\ run.pc \in {"refs", "relate"} =>
        run.rel \in RelsOf(run.rec.group) /\ run.refs \subseteq Refs(run.ds, run.rec.name, run.rel)
    /\ run.pc = "relate" => run.that \in Refs(run.ds, run.rec.name, run.rel)

\* The input takes up the required relations that the record names.
InputDeclared ==
    run.pc = "input" => run.keys \subseteq RequiredRefs(<<run.rec.group, run.rec.name>>)

\* What is cut is there until it is, and touches the record in hand.
CutsThere ==
    run.pc \in {"cut", "uncut"} =>
        /\ run.cuts \subseteq rels
        /\ \A c \in run.cuts : c.ds = run.ds /\ run.rec.group \in {c.ga, c.gb}
        /\ run.pc = "uncut" => run.cut \notin run.cuts

\* What a group needs was begun before it.
NeedsBegun ==
    Phase(run) = "records" =>
        /\ Orderable(Required, Groups(run.ds))
        /\ \A x \in ToAdd(run) :
            /\ \A r \in RelsOf(x[1]) :
                Schema[r].kind = "required" /\ Schema[r].target \in Groups(run.ds) =>
                    Schema[r].target \notin run.groups /\ Schema[r].target # x[1]
            /\ \A y \in ToAdd(run) : y[1] = x[1]

Handling == WorkDeclared /\ RecordWalked /\ RelationWalked /\ InputDeclared /\ CutsThere
Steady == RelationsFit /\ Handling /\ NeedsBegun

\* A step adds to the DataSetRelation table only what it remembers of the
\* relation in hand.
LEMMA RelsSteps ==
    ASSUME [Next]_vars
    PROVE  \/ rels' \subseteq rels
           \/ \E r \in run.keys : \E m \in Refs(run.ds, run.rec.name, r) :
                run.pc = "input" /\ rels' = Remembering(run.rec, r, m)
           \/ run.pc = "relate" /\ rels' = Remembering(run.rec, run.rel, run.that)
<1>1. CASE Setup
    BY <1>1 DEF Setup, BeginDataset, BeginGroup, EndGroups, BeginForget, Finish, Exit, Decides
<1>2. CASE Upsert
    BY <1>2 DEF Upsert, Insert, Recreate, Update, InputRelation, SaveNewRow, SaveNewRowAs,
                SaveUpdatedRow, Track, Decides
<1>3. CASE Remove
    BY <1>3 DEF Remove, RemoveGone, BeginRemove, RemoveRow, Untrack, BeginGone, BeginStale,
                RemoveStale, ForgetRecord, ForgetRelation, Decides
<1>4. CASE Relations
    BY <1>4 DEF Relations, CutPanic, CutRecord, CutLink, Uncut, BeginRelations, BeginRelation,
                BeginCutRelation, LinkPanic, LinkRef, Relate, Decides
<1>5. CASE Environment
    BY <1>5 DEF Environment, Crash, Edit, Migrate, Purge, AppCreate, AppDelete, Decides
<1>6. ASSUME NEW start \in Starts, Begin(start) PROVE rels' \subseteq rels
    BY <1>6 DEF Begin, Decides
<1> QED BY <1>1, <1>2, <1>3, <1>4, <1>5, <1>6 DEF Next, Step, vars

\* A DataSetRelation is made of the relation in hand and its opposite.
LEMMA RelationsFitKept ==
    ASSUME TypeInv, Steady, [Next]_vars
    PROVE  RelationsFit'
<1>1. \A r, m : r \in RelsOf(run.rec.group) => Fits(RelationRecord(run.rec, r, m))
    BY DEF RelsOf, Fits, RelationRecord
<1>2. \A r, m : Remembering(run.rec, r, m) \subseteq rels \union {RelationRecord(run.rec, r, m)}
    BY DEF Remembering
<1>3. \A r, m : r \in RelsOf(run.rec.group) /\ rels' = Remembering(run.rec, r, m) => RelationsFit'
    BY <1>1, <1>2 DEF Steady, RelationsFit, Fits
<1>4. run.pc = "input" => run.keys \subseteq RelsOf(run.rec.group)
    BY DEF Steady, Handling, InputDeclared, RequiredRefs
<1>5. run.pc = "relate" => run.rel \in RelsOf(run.rec.group)
    BY DEF Steady, Handling, RelationWalked
<1>6. rels' \subseteq rels => RelationsFit'
    BY DEF Steady, RelationsFit, Fits
<1> QED BY <1>3, <1>4, <1>5, <1>6, RelsSteps

\* A data set is begun if its groups can be ordered.
LEMMA OrderChecked ==
    ASSUME TypeInv, Step, run.pc \in {"dataset", "stale"}, run'.pc = "record"
    PROVE  Orderable(Required, Groups(run'.ds))
<1>t. run \in Run
    BY DEF TypeInv, TypeOK
<1>1. CASE Setup
    <2>1. PICK d \in Datasets : BeginDataset(d)
        BY <1>t, <1>1 DEF Setup, BeginGroup, GroupDone, EndGroups, BeginForget, Finish, Exit, Run
    <2>2. Orderable(Required, Groups(d)) /\ run'.ds = d
        BY <1>t, <2>1 DEF BeginDataset, Run
    <2> QED BY <2>2
<1>2. ASSUME NEW c, RemoveStale(c) PROVE run'.pc = run.pc
    BY <1>t, <1>2 DEF RemoveStale, Run
<1> QED BY <1>1, <1>2 DEF Step, Upsert, Insert, Recreate, Update, InputRelation, SaveNewRow, Inserting,
        SaveUpdatedRow, Track, Remove, RemoveGone, BeginRemove, Removing, RemoveRow, Untrack,
        BeginGone, AtRelation, BeginStale, ForgetRecord, ForgetRelation, Relations, CutPanic,
        Cutting, CutRecord, CutLink, Uncut, BeginRelations, BeginRelation, BeginCutRelation,
        LinkPanic, LinkRef, Relate

\* A group is begun in its turn.
LEMMA GroupInTurn ==
    ASSUME TypeInv, Step, NEW g, GroupBegun(g)
    PROVE  BeginGroup(g)
<1>t. run \in Run /\ run.pc = "record" /\ run'.groups # run.groups /\ run'.pc = "record"
    BY DEF TypeInv, TypeOK, GroupBegun
<1>1. ASSUME Setup PROVE \E h \in run.groups : BeginGroup(h)
    BY <1>t, <1>1 DEF Setup, BeginDataset, BetweenDatasets, EndGroups, BeginForget, Finish, Exit, Run
<1>2. ASSUME NEW x \in run.todo, Insert(x) \/ Recreate(x) \/ Update(x) PROVE run'.pc = "input"
    BY <1>2, TakingRecord
<1>3. ASSUME NEW r, RemoveGone(r) PROVE run'.groups = run.groups
    BY <1>t, <1>3 DEF RemoveGone, Run
<1>4. ASSUME NEW r, BeginRemove(r) PROVE run'.groups = run.groups
    BY <1>t, <1>4 DEF BeginRemove, Run
<1>5. PICK h \in run.groups : BeginGroup(h)
    BY <1>t, <1>1, <1>2, <1>3, <1>4
    DEF Step, Upsert, InputRelation, SaveNewRow, Inserting, SaveUpdatedRow, Track, Remove, RemoveRow,
        Untrack, BeginGone, AtRelation, BeginStale, RemoveStale, ForgetRecord, ForgetRelation,
        Relations, CutPanic, Cutting, CutRecord, CutLink, Uncut, BeginRelations, BeginRelation,
        BeginCutRelation, LinkPanic, LinkRef, Relate
<1>6. run'.groups = run.groups \ {h}
    <2>1. PICK snap, todo, work, doomed :
            run' = [run EXCEPT !.groups = @ \ {h}, !.snap = snap, !.todo = todo, !.work = work,
                               !.doomed = doomed]
        BY <1>5 DEF BeginGroup
    <2> QED BY <1>t, <2>1 DEF Run
<1>7. g = h
    BY <1>5, <1>6 DEF GroupBegun
<1> QED BY <1>5, <1>7

\* A group is begun after what it needs, and its records come up before others.
LEMMA NeedsBegunKept ==
    ASSUME Finite, TypeInv, Upserting, Onward, NeedsBegun, Step
    PROVE  NeedsBegun'
<1>t. Sorted /\ run.cmd \in Commands
    BY StepsSorted, Typed, RunFields DEF Onward, Narrows
<1>1. ASSUME SameRun, Phase(run) = "records", run'.groups = run.groups, ToAdd(run') \subseteq ToAdd(run)
      PROVE  NeedsBegun'
    BY <1>1 DEF NeedsBegun, SameRun, Groups, RelsOf, Required
<1>2. CASE Phase(run') # "records"
    BY <1>2 DEF NeedsBegun
<1>3. CASE Carries
    BY <1>1, <1>2, <1>3 DEF Carries
<1>4. CASE Stops \/ RunBegun \/ GroupsEnded \/ GoneBegun \/ StaleBegun \/ ForgetBegun \/ Completed
    <2>1. Phase(run') # "records"
        BY <1>4 DEF Stops, RunBegun, GroupsEnded, GoneBegun, StaleBegun, ForgetBegun, Completed, Phase
    <2> QED BY <1>2, <2>1
<1>5. ASSUME NEW d \in Datasets, DatasetBegun(d) PROVE NeedsBegun'
    <2>1. ToAdd(run') = {} /\ file' = file
        BY <1>5 DEF DatasetBegun, ToAdd
    <2>2. Orderable(Required, Groups(run'.ds))
        BY <1>5, OrderChecked DEF DatasetBegun
    <2> QED BY <2>1, <2>2 DEF NeedsBegun, Groups, Required, RelsOf
<1>6. ASSUME NEW g \in Models, GroupBegun(g) PROVE NeedsBegun'
    <2>1. BeginGroup(g) /\ SameRun /\ g \in run.groups
        BY <1>6, GroupInTurn DEF GroupBegun
    <2>2. Phase(run) = "records" /\ InSeed(run) /\ run.groups \subseteq Groups(run.ds)
        BY <1>6 DEF GroupBegun, Phase, InSeed, Onward, Narrows
    <2>3. Orderable(Required, Groups(run.ds))
        BY <2>2 DEF NeedsBegun
    <2>4. ToAdd(run') = {g} \X Wanted(Declared(run.ds, g), run'.snap)
        BY <1>6 DEF GroupBegun, ToAdd
    <2>5. ASSUME NEW x \in ToAdd(run') PROVE x[1] = g /\ run.cmd # "Unseed"
        BY <1>t, <2>4, <2>5 DEF Wanted, Commands
    <2>6. ASSUME run.cmd # "Unseed", NEW r \in RelsOf(g), Schema[r].kind = "required",
                 Schema[r].target \in Groups(run.ds)
          PROVE  Schema[r].target \notin run.groups
        <3>1. g \in First(Required, Groups(run.ds), run.groups)
            BY <2>1, <2>6 DEF BeginGroup
        <3> QED BY <2>1, <2>2, <2>3, <2>6, <3>1, NeedsComeFirst
    <2>7. run'.groups = run.groups \ {g}
        BY <1>6 DEF GroupBegun
    <2> QED BY <2>1, <2>3, <2>5, <2>6, <2>7 DEF NeedsBegun, SameRun, Groups, RelsOf, Required
<1>7. ASSUME NEW x \in run.todo, RecordBegun(x) PROVE NeedsBegun'
    <2>1. x = <<x[1], x[2]>>
        BY Typed
    <2>2. /\ Phase(run) = "records" /\ SameRun /\ run'.groups = run.groups
          /\ ToAdd(run') \subseteq ToAdd(run)
        BY <1>7, <2>1 DEF RecordBegun, Phase, ToAdd
    <2> QED BY <1>1, <2>2
<1>8. CASE RecordEnded
    <2>1. /\ Phase(run) = "records" /\ SameRun /\ run'.groups = run.groups
          /\ ToAdd(run') \subseteq ToAdd(run)
        BY <1>8 DEF RecordEnded, Phase, ToAdd
    <2> QED BY <1>1, <2>1
<1>9. ASSUME NEW q, Removed(q) PROVE NeedsBegun'
    <2>1. SameRun /\ run'.groups = run.groups /\ Phase(run') = Phase(run) /\ ToAdd(run') = {}
        BY <1>9 DEF Removed, ToAdd
    <2> QED BY <1>1, <1>2, <2>1
<1>10. ASSUME NEW q, Forgotten(q) PROVE NeedsBegun'
    <2>1. Phase(run') # "records"
        BY <1>10 DEF Forgotten, Phase
    <2> QED BY <1>2, <2>1
<1> QED BY <1>t, <1>3, <1>4, <1>5, <1>6, <1>7, <1>8, <1>9, <1>10 DEF Sorted

\* Every step keeps what the run has in hand what it has to be.
LEMMA HandlingKept ==
    ASSUME TypeInv, Onward, Handling, [Next]_vars
    PROVE  Handling'
<1>t. /\ run \in Run /\ InHand /\ run' \in Run /\ recs \subseteq Recs /\ Narrows
    BY RunType DEF TypeInv, TypeOK, Onward
<1> USE <1>t, RunFields
<1>1. ASSUME run'.pc \in {"idle", "panicked", "dataset", "forget", "done"} PROVE Handling'
    BY <1>1 DEF Handling, WorkDeclared, RecordWalked, Walking, RelationWalked, InputDeclared,
                CutsThere, InSeed, Phase
<1>2. ASSUME InSeed(run), run'.ds = run.ds, file' = file, run'.work \subseteq run.work
      PROVE  WorkDeclared'
    BY <1>2 DEF Handling, WorkDeclared, HasLaterRelations, RelsOf
<1>3. ASSUME \/ run'.pc \in {"record", "track", "untrack", "gone", "stale"}
             \/ run'.pc = "relation" /\ run'.keys = {}
      PROVE  RecordWalked' /\ RelationWalked' /\ InputDeclared' /\ CutsThere'
    BY <1>3 DEF RecordWalked, Walking, RelationWalked, InputDeclared, CutsThere
<1>4. ASSUME Setup PROVE Handling'
    <2>1. ASSUME NEW d \in Datasets, BeginDataset(d) PROVE Handling'
        <3>1. run'.pc \in {"record", "panicked"} /\ run'.work = {}
            BY <2>1 DEF BeginDataset, Run
        <3>2. WorkDeclared'
            BY <3>1 DEF WorkDeclared
        <3> QED BY <3>1, <3>2, <1>1, <1>3 DEF Handling
    <2>2. ASSUME NEW g \in run.groups, BeginGroup(g) PROVE Handling'
        <3> DEFINE wanted == Wanted(Declared(run.ds, g), SeedRecords(run.ds, g))
        <3>1. PICK doomed, snap :
                run' = [run EXCEPT
                        !.groups = @ \ {g}, !.snap = snap, !.todo = {g} \X wanted,
                        !.work = IF HasLaterRelations(g) THEN @ \union ({g} \X wanted) ELSE @,
                        !.doomed = doomed]
            BY <2>2 DEF BeginGroup
        <3>2. wanted \subseteq Declared(run.ds, g)
            BY DEF Wanted, Commands
        <3> HIDE DEF wanted
        <3>3. /\ run'.pc = "record" /\ run.pc = "record" /\ run'.ds = run.ds /\ file' = file
              /\ run'.work = IF HasLaterRelations(g) THEN run.work \union ({g} \X wanted)
                                                      ELSE run.work
            BY <2>2, <3>1 DEF BeginGroup, GroupDone, Decides, Run
        <3>4. InSeed(run)
            BY <3>3 DEF InSeed, Phase
        <3>5. CASE HasLaterRelations(g)
            <4>1. \A x \in run'.work : <<run.ds, x[1], x[2]>> \in file.records /\ HasLaterRelations(x[1])
                BY <3>2, <3>3, <3>4, <3>5 DEF Handling, WorkDeclared, Declared
            <4> QED BY <3>3, <4>1, <1>3 DEF Handling, WorkDeclared, HasLaterRelations, RelsOf
        <3>6. CASE ~HasLaterRelations(g)
            BY <3>3, <3>4, <3>6, <1>2, <1>3 DEF Handling
        <3> QED BY <3>5, <3>6
    <2>3. CASE EndGroups
        <3>1. /\ run'.pc \in {"dataset", "relation"} /\ run'.keys = {} /\ run.pc = "record"
              /\ run'.ds = run.ds /\ run'.work = run.work /\ file' = file
            BY <2>3 DEF EndGroups, GroupDone, Decides, InHand, Run
        <3> QED BY <3>1, <1>1, <1>2, <1>3 DEF Handling, InSeed, Phase
    <2>4. CASE BeginForget \/ Finish
        <3>1. run'.pc \in {"forget", "done"}
            BY <2>4 DEF BeginForget, Finish, Run
        <3> QED BY <3>1, <1>1
    <2>5. CASE Exit
        <3>1. run'.pc = "idle"
            BY <2>5 DEF Exit, Idle
        <3> QED BY <3>1, <1>1
    <2> QED BY <1>4, <2>1, <2>2, <2>3, <2>4, <2>5 DEF Setup
<1>5. ASSUME Upsert PROVE Handling'
    <2>1. ASSUME NEW x \in run.todo, Insert(x) \/ Recreate(x) \/ Update(x) PROVE Handling'
        <3>1. PICK id : run' = Taking(x, id)
            BY <2>1 DEF Insert, Recreate, Update
        <3>2. /\ run'.pc = "input" /\ run'.ds = run.ds /\ run'.work = run.work
              /\ run'.keys = RequiredRefs(x) /\ run'.rec.group = x[1] /\ run'.rec.name = x[2]
            BY <3>1 DEF Taking, Run
        <3>3. run.pc = "record" /\ file' = file
            BY <2>1 DEF Insert, Recreate, Update, Decides
        <3>4. InputDeclared'
            BY <3>2, <3>3 DEF InputDeclared, RequiredRefs, RelsOf, Refs
        <3>5. RecordWalked' /\ RelationWalked' /\ CutsThere'
            BY <3>2 DEF RecordWalked, Walking, RelationWalked, CutsThere
        <3> QED BY <3>2, <3>3, <3>4, <3>5, <1>2 DEF Handling, InSeed, Phase
    <2>2. ASSUME NEW r \in run.keys, InputRelation(r) PROVE Handling'
        <3>1. CASE run'.pc = "panicked"
            BY <3>1, <1>1
        <3>2. CASE run'.pc # "panicked"
            <4>1. /\ run.pc = "input" /\ run'.pc = "input" /\ run'.ds = run.ds
                  /\ run'.work = run.work /\ run'.rec = run.rec /\ run'.keys \subseteq run.keys
                  /\ file' = file
                <5>1. \E fks : run' = [run EXCEPT !.keys = @ \ {r}, !.fks = fks]
                    BY <2>2, <3>2 DEF InputRelation, Run
                <5>2. run.pc = "input" /\ file' = file
                    BY <2>2 DEF InputRelation
                <5> QED BY <5>1, <5>2 DEF Run
            <4>2. InputDeclared'
                BY <4>1 DEF Handling, InputDeclared, RequiredRefs, RelsOf, Refs
            <4>3. RecordWalked' /\ RelationWalked' /\ CutsThere'
                BY <4>1 DEF RecordWalked, Walking, RelationWalked, CutsThere
            <4> QED BY <4>1, <4>2, <4>3, <1>2 DEF Handling, InSeed, Phase
        <3> QED BY <3>1, <3>2
    <2>3. ASSUME NEW i, SaveNewRowAs(i) PROVE Handling'
        <3>1. /\ run.pc = "input" /\ run'.pc = "track" /\ run'.ds = run.ds
              /\ run'.work = run.work /\ file' = file
            BY <2>3 DEF SaveNewRowAs, Inserting, Run
        <3> QED BY <3>1, <1>2, <1>3 DEF Handling, InSeed, Phase
    <2>4. CASE SaveUpdatedRow \/ Track
        <3>1. /\ run.pc \in {"input", "track"} /\ run'.pc = "record" /\ run'.ds = run.ds
              /\ run'.work = run.work /\ file' = file
            BY <2>4 DEF SaveUpdatedRow, Track, Run
        <3> QED BY <3>1, <1>2, <1>3 DEF Handling, InSeed, Phase
    <2> QED BY <1>5, <2>1, <2>2, <2>3, <2>4 DEF Upsert, SaveNewRow
<1>6. ASSUME Remove PROVE Handling'
    <2>1. ASSUME NEW r \in run.doomed, RemoveGone(r) PROVE Handling'
        <3>1. /\ run.pc \in {"gone", "record"} /\ run'.pc = run.pc /\ run'.ds = run.ds
              /\ run'.work = run.work /\ file' = file
            BY <2>1 DEF RemoveGone, Removing, Run
        <3> QED BY <3>1, <1>2, <1>3 DEF Handling, InSeed, Phase
    <2>2. ASSUME NEW r \in run.doomed, BeginRemove(r) PROVE Handling'
        <3>1. /\ run.pc \in {"gone", "record"} /\ run'.pc = "cut" /\ run'.ds = run.ds
              /\ run'.work = run.work /\ file' = file /\ run'.back = run.pc /\ run'.rec = r
              /\ run'.cuts = Touching(r) /\ rels' = rels
            BY <2>2 DEF BeginRemove, Removing, Decides, Run
        <3>2. InSeed(run) /\ r \in ToRemove(run)
            BY <3>1 DEF InSeed, Phase, ToRemove
        <3>3. r.ds = run.ds
            BY <3>2 DEF Onward, Justified
        <3>4. CutsThere'
            BY <3>1, <3>3 DEF CutsThere, Touching
        <3>5. RecordWalked' /\ RelationWalked' /\ InputDeclared'
            BY <3>1 DEF RecordWalked, Walking, RelationWalked, InputDeclared
        <3> QED BY <3>1, <3>2, <3>4, <3>5, <1>2 DEF Handling
    <2>3. CASE RemoveRow \/ Untrack
        <3>1. /\ run.pc \in {"cut", "untrack"} /\ run'.pc \in {"untrack", "record", "gone"}
              /\ run'.ds = run.ds /\ run'.work = run.work /\ file' = file
            <4>1. CASE RemoveRow
                BY <4>1 DEF RemoveRow, Run
            <4>2. CASE Untrack
                BY <4>2 DEF Untrack, Narrows, Run
            <4> QED BY <2>3, <4>1, <4>2
        <3> QED BY <3>1, <1>2, <1>3 DEF Handling, InSeed, Phase
    <2>4. CASE BeginGone \/ BeginStale \/ \E c \in run.cuts : RemoveStale(c)
        <3>1. /\ InSeed(run) /\ run'.pc \in {"gone", "stale"}
              /\ run'.ds = run.ds /\ run'.work = run.work /\ file' = file
            <4>1. CASE BeginGone
                BY <4>1 DEF BeginGone, AtRelation, Decides, InSeed, Phase, Run
            <4>2. CASE BeginStale
                BY <4>2 DEF BeginStale, Decides, InSeed, Phase, Run
            <4>3. ASSUME NEW c, RemoveStale(c)
                  PROVE  /\ run.pc = "stale" /\ run'.pc = "stale"
                         /\ run'.ds = run.ds /\ run'.work = run.work /\ file' = file
                BY <4>3 DEF RemoveStale, Run
            <4> QED BY <2>4, <4>1, <4>2, <4>3 DEF InSeed, Phase
        <3> QED BY <3>1, <1>2, <1>3 DEF Handling
    <2>5. ASSUME NEW x, ForgetRecord(x) \/ ForgetRelation(x) PROVE Handling'
        <3>1. run'.pc = "forget"
            BY <2>5 DEF ForgetRecord, ForgetRelation
        <3> QED BY <3>1, <1>1
    <2> QED BY <1>6, <2>1, <2>2, <2>3, <2>4, <2>5 DEF Remove
<1>7. ASSUME Relations PROVE Handling'
    <2>0. ASSUME run.pc \in {"cut", "uncut"}, run'.pc \in {"cut", "uncut"}, CutsThere',
                 run'.back = run.back, run'.rec = run.rec, run'.keys = run.keys, run'.ds = run.ds,
                 run'.work = run.work, file' = file, recs' = recs
          PROVE  Handling'
        <3>1. RecordWalked'
            BY <2>0 DEF Handling, RecordWalked, Walking, HasLaterRelations, RelsOf
        <3>2. RelationWalked' /\ InputDeclared'
            BY <2>0 DEF RelationWalked, InputDeclared
        <3>3. WorkDeclared'
            <4>1. InSeed(run)
                BY <2>0 DEF InSeed, Phase
            <4> QED BY <2>0, <4>1, <1>2
        <3> QED BY <2>0, <3>1, <3>2, <3>3 DEF Handling
    <2>1. ASSUME NEW c \in run.cuts, CutPanic(c) PROVE Handling'
        <3>1. run'.pc = "panicked"
            BY <2>1 DEF CutPanic, Run
        <3> QED BY <3>1, <1>1
    <2>2. ASSUME NEW c \in run.cuts, CutRecord(c) PROVE Handling'
        <3>1. /\ run.pc = "cut" /\ run'.pc = "cut" /\ run'.cuts = run.cuts \ {c}
              /\ run'.back = run.back /\ run'.rec = run.rec /\ run'.keys = run.keys
              /\ run'.ds = run.ds /\ run'.work = run.work /\ file' = file
              /\ recs' = recs /\ rels' = rels \ {c}
            BY <2>2 DEF CutRecord, Cutting, Run
        <3>2. CutsThere'
            BY <3>1 DEF Handling, CutsThere
        <3> QED BY <3>1, <3>2, <2>0
    <2>3. ASSUME NEW c \in run.cuts, CutLink(c) PROVE Handling'
        <3>1. /\ run.pc = "cut" /\ run'.pc = "uncut" /\ run'.cuts = run.cuts \ {c} /\ run'.cut = c
              /\ run'.back = run.back /\ run'.rec = run.rec /\ run'.keys = run.keys
              /\ run'.ds = run.ds /\ run'.work = run.work /\ file' = file
              /\ recs' = recs /\ rels' = rels
            BY <2>3 DEF CutLink, Cutting, Run
        <3>2. CutsThere'
            BY <3>1 DEF Handling, CutsThere
        <3> QED BY <3>1, <3>2, <2>0
    <2>4. CASE Uncut
        <3>1. /\ run.pc = "uncut" /\ run'.pc = "cut" /\ run'.cuts = run.cuts
              /\ run'.back = run.back /\ run'.rec = run.rec /\ run'.keys = run.keys
              /\ run'.ds = run.ds /\ run'.work = run.work /\ file' = file
              /\ recs' = recs /\ rels' = rels \ {run.cut}
            BY <2>4 DEF Uncut, Run
        <3>2. CutsThere'
            BY <3>1 DEF Handling, CutsThere
        <3> QED BY <3>1, <3>2, <2>0
    <2>5. ASSUME NEW x \in run.work, BeginRelations(x) PROVE Handling'
        <3>1. CASE run'.pc = "panicked"
            BY <3>1, <1>1
        <3>2. CASE run'.pc # "panicked"
            <4>1. InSeed(run) /\ recs' = recs /\ file' = file
                BY <2>5 DEF BeginRelations, AtRelation, Decides, InSeed, Phase
            <4>2. PICK r \in Found(run.ds, x[1], x[2]) :
                    run' = [run EXCEPT !.pc = "relation", !.work = @ \ {x}, !.rec = r,
                                !.keys = {k \in RelsOf(x[1]) :
                                    run.cmd = "Reseed" \/ Refs(run.ds, x[2], k) # {}}]
                BY <2>5, <3>2 DEF BeginRelations, Run
            <4>3. /\ run'.pc = "relation" /\ run'.ds = run.ds /\ run'.work = run.work \ {x}
                  /\ run'.rec = r /\ run'.keys \subseteq RelsOf(x[1])
                BY <4>2 DEF Run
            <4>4. r \in recs /\ r.ds = run.ds /\ r.group = x[1] /\ HasLaterRelations(x[1])
                BY <4>1, <4>2 DEF Found, Handling, WorkDeclared
            <4>5. RecordWalked'
                BY <4>1, <4>3, <4>4 DEF RecordWalked, HasLaterRelations, RelsOf
            <4>6. RelationWalked' /\ InputDeclared' /\ CutsThere'
                BY <4>3 DEF RelationWalked, InputDeclared, CutsThere
            <4> QED BY <4>1, <4>3, <4>5, <4>6, <1>2 DEF Handling
        <3> QED BY <3>1, <3>2
    <2>6. ASSUME NEW r \in run.keys, BeginRelation(r) \/ BeginCutRelation(r) PROVE Handling'
        <3>1. /\ run'.ds = run.ds /\ run'.work = run.work /\ run'.rec = run.rec
              /\ run'.keys = run.keys \ {r} /\ file' = file /\ recs' = recs /\ rels' = rels
            <4>1. CASE BeginRelation(r)
                BY <4>1 DEF BeginRelation, Decides, Run
            <4>2. CASE BeginCutRelation(r)
                BY <4>2 DEF BeginCutRelation, Decides, Run
            <4> QED BY <2>6, <4>1, <4>2
        <3>2. AtRelation /\ InSeed(run) /\ Walking
            BY <2>6 DEF BeginRelation, BeginCutRelation, AtRelation, InSeed, Phase, Walking
        <3>3. /\ run.rec \in recs /\ run.rec.ds = run.ds /\ HasLaterRelations(run.rec.group)
              /\ run.keys \subseteq RelsOf(run.rec.group)
            BY <3>2 DEF Handling, RecordWalked
        <3>4. RecordWalked'
            BY <3>1, <3>3 DEF RecordWalked, HasLaterRelations, RelsOf
        <3>5. RelationWalked' /\ InputDeclared' /\ CutsThere'
            <4>1. CASE BeginRelation(r)
                <5>1. run'.pc = "refs" /\ run'.rel = r /\ run'.refs = Refs(run.ds, run.rec.name, r)
                    BY <4>1 DEF BeginRelation, Run
                <5> QED BY <3>1, <3>3, <5>1 DEF RelationWalked, InputDeclared, CutsThere, RelsOf, Refs
            <4>2. CASE BeginCutRelation(r)
                <5>1. run'.pc = "cut" /\ run'.cuts = TouchingBy(run.rec, r)
                    BY <4>2 DEF BeginCutRelation, Run
                <5>2. CutsThere'
                    BY <3>1, <3>3, <5>1 DEF CutsThere, TouchingBy
                <5> QED BY <5>1, <5>2 DEF RelationWalked, InputDeclared
            <4> QED BY <2>6, <4>1, <4>2
        <3>6. WorkDeclared'
            BY <3>1, <3>2, <1>2
        <3> QED BY <3>4, <3>5, <3>6 DEF Handling
    <2>7. ASSUME NEW m \in run.refs, LinkPanic(m) PROVE Handling'
        <3>1. run'.pc = "panicked"
            BY <2>7 DEF LinkPanic, Run
        <3> QED BY <3>1, <1>1
    <2>8. ASSUME run.pc \in {"refs", "relate"}, run'.ds = run.ds, run'.work = run.work,
                 run'.rec = run.rec, run'.keys = run.keys, file' = file, recs' = recs,
                 run'.pc \in {"relation", "refs", "relate"}
          PROVE  WorkDeclared' /\ RecordWalked' /\ InputDeclared' /\ CutsThere'
        <3>1. InSeed(run) /\ Walking
            BY <2>8 DEF InSeed, Phase, Walking
        <3>2. RecordWalked'
            BY <2>8, <3>1 DEF Handling, RecordWalked, HasLaterRelations, RelsOf
        <3>3. InputDeclared' /\ CutsThere'
            BY <2>8 DEF InputDeclared, CutsThere
        <3> QED BY <2>8, <3>1, <3>2, <3>3, <1>2
    <2>9. ASSUME NEW m \in run.refs, LinkRef(m) PROVE Handling'
        <3>1. /\ run.pc = "refs" /\ run'.pc = "relate" /\ run'.ds = run.ds /\ run'.work = run.work
              /\ run'.rec = run.rec /\ run'.keys = run.keys /\ file' = file /\ recs' = recs
              /\ run'.rel = run.rel /\ run'.refs = run.refs \ {m} /\ run'.that = m
            BY <2>9 DEF LinkRef, Run
        <3>2. RelationWalked'
            BY <2>9, <3>1 DEF Handling, RelationWalked, RelsOf, Refs
        <3> QED BY <3>1, <3>2, <2>8 DEF Handling
    <2>10. CASE Relate
        <3>1. /\ run.pc = "relate" /\ run'.ds = run.ds /\ run'.work = run.work
              /\ run'.rec = run.rec /\ run'.keys = run.keys /\ file' = file /\ recs' = recs
              /\ run'.refs = run.refs
              /\ run'.pc = "relation" \/ (run'.pc = "refs" /\ run'.rel = run.rel)
            BY <2>10, ZenonT(30) DEF Relate, Run
        <3>2. RelationWalked'
            BY <3>1 DEF Handling, RelationWalked, RelsOf, Refs
        <3> QED BY <3>1, <3>2, <2>8 DEF Handling
    <2> QED BY <1>7, <2>1, <2>2, <2>3, <2>4, <2>5, <2>6, <2>7, <2>9, <2>10 DEF Relations
<1>8. ASSUME Environment PROVE Handling'
    <2>1. run' = Idle \/ (run' = run /\ run.pc = "idle")
        BY <1>8 DEF Environment, Crash, Edit, Migrate, Purge, AppCreate, AppDelete
    <2>2. run'.pc = "idle"
        BY <2>1 DEF Idle
    <2> QED BY <2>2, <1>1
<1>9. ASSUME NEW start \in Starts, Begin(start) PROVE Handling'
    <2>1. run'.pc = "dataset"
        BY <1>9 DEF Begin, Idle
    <2> QED BY <2>1, <1>1
<1>10. CASE UNCHANGED vars
    BY <1>10 DEF vars, Handling, WorkDeclared, RecordWalked, Walking, RelationWalked, InputDeclared,
                 CutsThere, HasLaterRelations, RequiredRefs, RelsOf, Refs, InSeed, Phase
<1> QED BY <1>4, <1>5, <1>6, <1>7, <1>8, <1>9, <1>10 DEF Next, Step

\* Together these are inductive, over what is known of the run's progress.
LEMMA SteadyKept == Finite /\ Inv /\ Onward /\ Steady /\ [Next]_vars => Steady'
<1> SUFFICES ASSUME Finite, Inv, Onward, Steady, [Next]_vars PROVE Steady'
    OBVIOUS
<1>t. TypeInv /\ Upserting
    BY DEF Inv, Books
<1>1. RelationsFit' /\ Handling'
    BY <1>t, RelationsFitKept, HandlingKept DEF Steady
<1>2. NeedsBegun'
    <2>1. CASE Step
        BY <1>t, <2>1, NeedsBegunKept DEF Steady
    <2>2. CASE Phase(run') # "records"
        BY <2>2 DEF NeedsBegun
    <2>3. RunBegun \/ Stops \/ run'.pc = "idle" => Phase(run') # "records"
        BY DEF RunBegun, Stops, Phase
    <2>4. CASE UNCHANGED <<run, recs, file>>
        BY <2>4 DEF Steady, NeedsBegun, Groups, RelsOf, Required
    <2> QED BY <1>t, <2>1, <2>2, <2>3, <2>4, OtherSteps
<1> QED BY <1>1, <1>2 DEF Steady

\* So it is throughout, whatever was cut short or edited before.
LEMMA SteadyAlways == Finite => (Spec => [](Inv /\ Onward /\ DoomedTracked /\ Restored /\ Steady))
<1> SUFFICES ASSUME Finite PROVE Spec => [](Inv /\ Onward /\ DoomedTracked /\ Restored /\ Steady)
    OBVIOUS
<1>1. Init => DoomedTracked /\ Restored /\ Steady
    BY DEF Init, Idle, DoomedTracked, Restored, GroupsRestored, SetsRestored, OnlySelected, Steady,
           RelationsFit, Handling, WorkDeclared, RecordWalked, Walking, RelationWalked,
           InputDeclared, CutsThere, NeedsBegun, InSeed, Phase
<1>2. Inv /\ Onward /\ Steady /\ [Next]_vars => Steady'
    BY SteadyKept
<1> QED BY <1>1, <1>2, OnwardAlways, RestoredKept, PTL DEF Spec

-------------------------------------------------------------------------------
\* Where an unwrap fails.

\* What the code asks of the user's schema and files.  The groups of every data
\* set can be ordered; each relation has an opposite on its target; and a model
\* with a required relation has no other: the walk of the relations sets a
\* required one once more, after it may have cut it from its other end.
RelsIn(f, g) == {r \in Rels : Schema[r].owner = g /\ Schema[r].target \in f.live}
NeedsOf(f) ==
    [g \in Models |-> [h \in Models |-> Cardinality(
        {r \in RelsIn(f, g) : Schema[r].kind = "required" /\ Schema[r].target = h})]]
InOrder ==
    \A f \in Versions, d \in Datasets : Orderable(NeedsOf(f), {g \in Models : <<d, g>> \in f.groups})
Opposed ==
    \A r \in Rels :
        LET o == Schema[r].opposite
        IN  o \in Rels /\ Schema[o].owner = Schema[r].target /\ Schema[o].target = Schema[r].owner
RequiredAlone ==
    \A r, s \in Rels :
        Schema[r].kind = "required" /\ Schema[s].owner = Schema[r].owner => Schema[s].kind = "required"
GoodSchema == Finite /\ InOrder /\ Opposed /\ RequiredAlone

\* What was done to the data set in hand behind the run's back.
Damaged ==
    \/ run.cmd = "Seed" /\ \E r \in recs : r.ds = run.ds /\ RowOf(r) \notin rows
    \/ \E c \in rels :
        /\ c.ds = run.ds
        /\ \/ Found(c.ds, c.ga, c.na) = {}
           \/ Found(c.ds, c.gb, c.nb) = {}
           \/ ~({c.ga, c.gb} \subseteq file.live)

\* A record of a begun group that is no longer to be added is tracked, and
\* unless the run is a Seed its row is there.
LEMMA DeclaredTracked ==
    ASSUME Inv, Onward, Restored, InSeed(run), run.cmd # "Unseed",
           NEW g, NEW n, Begun(g), <<run.ds, g, n>> \in file.records, <<g, n>> \notin ToAdd(run)
    PROVE  /\ Found(run.ds, g, n) # {}
           /\ FoundRows(run.ds, g, n) # {} \/ Damaged
<1>1. g \in Models /\ n \in Names /\ run.cmd \in Commands
    BY VersionsAssumption, Typed, RunFields DEF Begun, Groups, Inv, TypeInv, TypeOK, File
<1>2. PICK q \in recs : Triple(q) = <<run.ds, g, n>>
    BY <1>1 DEF Onward, Progress
<1>3. q \in Found(run.ds, g, n)
    BY <1>2 DEF Found, Triple
<1>4. ASSUME RowOf(q) \notin rows PROVE run.cmd = "Seed"
    <2>1. q.ds = run.ds /\ q.group = g /\ q.name = n
        BY <1>2 DEF Triple
    <2>2. q \notin ToRemove(run)
        BY <1>2 DEF Onward, Justified
    <2>3. <<g, n>> \notin run.todo
        BY DEF ToAdd
    <2>4. run.cmd # "Reseed"
        BY <1>2, <1>4, <2>1, <2>2, <2>3 DEF Restored, GroupsRestored
    <2> QED BY <1>1, <2>4 DEF Commands
<1> QED BY <1>2, <1>3, <1>4 DEF FoundRows, Damaged, Triple

\* Both ends of a reference are records of the file.
LEMMA RefsDeclared ==
    ASSUME Inv, NEW d, NEW n, NEW r, NEW m \in Refs(d, n, r)
    PROVE  /\ <<d, Schema[r].target, m>> \in file.records
           /\ Schema[r].target \in Groups(d)
<1>1. WellFormed(file) /\ <<d, n, r, m>> \in file.refs
    BY VersionsAssumption DEF Refs, Inv, TypeInv, TypeOK
<1>2. <<d, Schema[r].target, m>> \in file.records
    BY <1>1 DEF WellFormed
<1>3. <<d, Schema[r].target>> \in file.groups
    BY <1>1, <1>2 DEF WellFormed
<1> QED BY <1>2, <1>3, Typed DEF Groups, Inv

\* The input finds the records that the record in hand requires.
LEMMA InputFinds ==
    ASSUME Inv, Onward, Restored, Steady, run.pc = "input",
           NEW r \in run.keys, NEW m \in Refs(run.ds, run.rec.name, r)
    PROVE  /\ Found(run.ds, Schema[r].target, m) # {}
           /\ FoundRows(run.ds, Schema[r].target, m) # {} \/ Damaged
<1> DEFINE x == <<run.rec.group, run.rec.name>>
           h == Schema[r].target
<1>1. InSeed(run) /\ Phase(run) = "records" /\ x \in ToAdd(run)
    BY DEF InSeed, Phase, ToAdd
<1>2. r \in RelsOf(x[1]) /\ Schema[r].kind = "required"
    BY DEF Steady, Handling, InputDeclared, RequiredRefs
<1>3. <<run.ds, h, m>> \in file.records /\ h \in Groups(run.ds)
    BY RefsDeclared
<1>4. h \notin run.groups /\ h # x[1] /\ \A y \in ToAdd(run) : y[1] = x[1]
    BY <1>1, <1>2, <1>3 DEF Steady, NeedsBegun
<1>5. run.cmd # "Unseed"
    BY <1>1 DEF Onward, Justified
<1>6. Begun(h) /\ <<h, m>> \notin ToAdd(run)
    BY <1>3, <1>4 DEF Begun
<1> QED BY <1>1, <1>3, <1>5, <1>6, DeclaredTracked

\* So does the walk of the relations.
LEMMA WalkFinds ==
    ASSUME Inv, Onward, Restored, Phase(run) = "relations",
           NEW g, NEW n, <<run.ds, g, n>> \in file.records
    PROVE  /\ Found(run.ds, g, n) # {}
           /\ FoundRows(run.ds, g, n) # {} \/ Damaged
<1>1. InSeed(run) /\ run.groups = {} /\ run.todo = {} /\ run.cmd # "Unseed"
    BY DEF InSeed, Onward, Narrows
<1>2. ToAdd(run) = {}
    BY <1>1 DEF ToAdd, Phase
<1>3. g \in Groups(run.ds)
    <2>1. WellFormed(file)
        BY VersionsAssumption DEF Inv, TypeInv, TypeOK
    <2>2. <<run.ds, g>> \in file.groups
        BY <2>1 DEF WellFormed
    <2> QED BY <2>2, Typed DEF Groups, Inv
<1> QED BY <1>1, <1>2, <1>3, DeclaredTracked DEF Begun

\* A cut fails only where the schema or the other end is gone.
LEMMA CutFails ==
    ASSUME Opposed, Inv, Steady, NEW c \in run.cuts, CutPanic(c)
    PROVE  Damaged
<1>t. rels \subseteq RelRecs
    BY DEF Inv, TypeInv, TypeOK
<1>1. c \in rels /\ c.ds = run.ds /\ run.rec.group \in {c.ga, c.gb} /\ Fits(c)
    BY DEF CutPanic, Cutting, Steady, Handling, CutsThere, RelationsFit
<1>2. c.ra \in Rels
    BY <1>t, <1>1 DEF RelRecs
<1>3. /\ c.rb \in Rels /\ Schema[c.ra].owner = c.ga /\ Schema[c.ra].target = c.gb
      /\ Schema[c.rb].owner = c.gb /\ Schema[c.rb].target = c.ga
    BY <1>1, <1>2 DEF Fits, Opposed
<1>4. CASE CutBy(c) \notin RelsOf(run.rec.group)
    BY <1>1, <1>2, <1>3, <1>4 DEF CutBy, AsA, RelsOf, Damaged
<1>5. CASE ~OtherTracked(c)
    BY <1>1, <1>5 DEF OtherTracked, AsA, Damaged
<1> QED BY <1>4, <1>5 DEF CutPanic, CutPanics

\* A link fails only where the row of the other record is gone.
LEMMA LinkFails ==
    ASSUME RequiredAlone, Inv, Onward, Restored, Steady, NEW m \in run.refs, LinkPanic(m)
    PROVE  Damaged
<1>1. run.pc = "refs" /\ Phase(run) = "relations" /\ Walking
    BY DEF LinkPanic, Phase, Walking
<1>2. /\ run.rel \in RelsOf(run.rec.group) /\ m \in Refs(run.ds, run.rec.name, run.rel)
      /\ HasLaterRelations(run.rec.group)
    BY <1>1 DEF Steady, Handling, RecordWalked, RelationWalked
<1>3. Schema[run.rel].kind # "required"
    BY <1>2 DEF RequiredAlone, HasLaterRelations, RelsOf
<1>4. FoundRows(run.ds, Schema[run.rel].target, m) = {}
    BY <1>3 DEF LinkPanic, LinkPanics
<1> QED BY <1>1, <1>2, <1>4, WalkFinds, RefsDeclared

\* The steps to a panic.
LEMMA PanicSteps ==
    ASSUME TypeInv, [Next]_vars, run'.pc = "panicked"
    PROVE  /\ UNCHANGED <<rows, recs, rels, file>> /\ run'.cmd = run.cmd
           /\ \/ run' = run
              \/ \E d \in Datasets : BeginDataset(d) /\ ~Orderable(Required, Groups(d))
              \/ /\ run'.ds = run.ds
                 /\ \/ \E r \in run.keys : \E m \in Refs(run.ds, run.rec.name, r) :
                        run.pc = "input" /\ FoundRows(run.ds, Schema[r].target, m) = {}
                    \/ \E c \in run.cuts : CutPanic(c)
                    \/ \E x \in run.work : AtRelation /\ FoundRows(run.ds, x[1], x[2]) = {}
                    \/ \E m \in run.refs : LinkPanic(m)
<1> DEFINE Same == UNCHANGED <<rows, recs, rels, file>> /\ run'.cmd = run.cmd
           Panics == Same /\ run'.ds = run.ds
<1>t. run \in Run /\ InHand
    BY DEF TypeInv, TypeOK
<1>1. CASE run.pc = "panicked"
    <2>1. ~Step \/ Exit
        BY <1>t, <1>1
        DEF Step, Setup, BeginDataset, BetweenDatasets, BeginGroup, GroupDone, EndGroups, BeginForget,
            Finish, Upsert, Insert, Recreate, Update, InputRelation, SaveNewRow, Inserting,
            SaveUpdatedRow, Track, Remove, RemoveGone, BeginRemove, Removing, RemoveRow, Untrack,
            BeginGone, AtRelation, BeginStale, RemoveStale, ForgetRecord, ForgetRelation, Relations,
            CutPanic, Cutting, CutRecord, CutLink, Uncut, BeginRelations, BeginRelation,
            BeginCutRelation, LinkPanic, LinkRef, Relate
    <2>2. ~Exit
        BY DEF Exit, Idle
    <2>3. UNCHANGED vars
        BY <1>1, <2>1, <2>2 DEF Next, Begin, Environment, Crash, Edit, Migrate, Purge, AppCreate, AppDelete
    <2> QED BY <2>3 DEF vars, data
<1>2. CASE run.pc # "panicked" /\ Step
    <2>1. ASSUME NEW d \in Datasets, BeginDataset(d) PROVE Same /\ ~Orderable(Required, Groups(d))
        BY <1>t, <2>1 DEF BeginDataset, Decides, Run
    <2>2. ASSUME NEW r \in run.keys, InputRelation(r)
          PROVE  /\ Panics /\ run.pc = "input"
                 /\ \E m \in Refs(run.ds, run.rec.name, r) : FoundRows(run.ds, Schema[r].target, m) = {}
        <3>1. PICK m \in Refs(run.ds, run.rec.name, r) :
                IF FoundRows(run.ds, Schema[r].target, m) = {}
                THEN run' = [run EXCEPT !.pc = "panicked"] /\ UNCHANGED rels
                ELSE \E to, keys :
                        run' = [run EXCEPT !.keys = keys,
                            !.fks = {x \in @ : x[1] # Schema[r].via} \union {<<Schema[r].via, to>>}]
            BY <2>2 DEF InputRelation
        <3>2. run.pc = "input" /\ UNCHANGED <<rows, recs, file>>
            BY <2>2 DEF InputRelation, data
        <3>3. FoundRows(run.ds, Schema[r].target, m) = {}
            BY <1>t, <3>1, <3>2 DEF Run
        <3> QED BY <1>t, <3>1, <3>2, <3>3 DEF Run
    <2>3. ASSUME NEW c \in run.cuts, CutPanic(c) PROVE Panics
        BY <1>t, <2>3 DEF CutPanic, Decides, Run
    <2>4. ASSUME NEW x \in run.work, BeginRelations(x)
          PROVE  Panics /\ AtRelation /\ FoundRows(run.ds, x[1], x[2]) = {}
        <3>1. FoundRows(run.ds, x[1], x[2]) = {}
            <4>1. SUFFICES ASSUME FoundRows(run.ds, x[1], x[2]) # {} PROVE FALSE
                OBVIOUS
            <4>2. PICK r, keys :
                    run' = [run EXCEPT !.pc = "relation", !.work = @ \ {x}, !.rec = r, !.keys = keys]
                BY <2>4, <4>1 DEF BeginRelations
            <4> QED BY <1>t, <4>2 DEF Run
        <3> QED BY <1>t, <2>4, <3>1 DEF BeginRelations, Decides, Run
    <2>5. ASSUME NEW m \in run.refs, LinkPanic(m) PROVE Panics
        BY <1>t, <2>5 DEF LinkPanic, Decides, Run
    <2>6. ASSUME NEW x \in run.todo, Insert(x) \/ Recreate(x) \/ Update(x) PROVE FALSE
        BY <2>6, TakingRecord
    <2>7. ASSUME NEW i, SaveNewRowAs(i) PROVE FALSE
        BY <1>t, <2>7 DEF SaveNewRowAs, Run
    <2>8. ~Setup \/ \E d \in Datasets : BeginDataset(d)
        <3>1. ~Exit
            BY DEF Exit, Idle
        <3>2. ~BeginForget /\ ~Finish /\ ~EndGroups
            BY <1>t DEF EndGroups, BeginForget, Finish, Run
        <3>3. ASSUME NEW g, BeginGroup(g) PROVE FALSE
            <4>1. PICK snap, todo, work, doomed :
                    run' = [run EXCEPT !.groups = @ \ {g}, !.snap = snap, !.todo = todo,
                                       !.work = work, !.doomed = doomed]
                BY <3>3 DEF BeginGroup
            <4>2. run'.pc = run.pc
                BY <1>t, <4>1 DEF Run
            <4> QED BY <1>2, <4>2
        <3> QED BY <3>1, <3>2, <3>3 DEF Setup
    <2>9. ~SaveUpdatedRow /\ ~Track
        BY <1>t DEF SaveUpdatedRow, Track, Run
    <2>10. ~Remove
        BY <1>t, <1>2 DEF Remove, RemoveGone, BeginRemove, RemoveRow, Untrack, BeginGone, BeginStale,
                          RemoveStale, ForgetRecord, ForgetRelation, Run
    <2>11. ASSUME NEW c, CutRecord(c) \/ CutLink(c) \/ Uncut \/ BeginRelation(c) \/ BeginCutRelation(c)
                         \/ LinkRef(c) \/ Relate
           PROVE  FALSE
        BY <1>t, <1>2, <2>11, ZenonT(30) DEF CutRecord, CutLink, Uncut, BeginRelation, BeginCutRelation, LinkRef,
                                 Relate, Run
    <2> QED BY <1>2, <2>1, <2>2, <2>3, <2>4, <2>5, <2>6, <2>7, <2>8, <2>9, <2>10, <2>11
            DEF Step, Upsert, SaveNewRow, Relations
<1>3. CASE run.pc # "panicked" /\ ~Step
    <2>1. ASSUME NEW start \in Starts, Begin(start) PROVE run'.pc = "dataset"
        BY <2>1 DEF Begin, Idle
    <2>2. Environment => run'.pc = "idle"
        <3>1. Environment => run' = Idle \/ (run' = run /\ run.pc = "idle")
            BY DEF Environment, Crash, Edit, Migrate, Purge, AppCreate, AppDelete
        <3> QED BY <3>1 DEF Idle
    <2> QED BY <1>3, <2>1, <2>2 DEF Next, vars
<1> QED BY <1>1, <1>2, <1>3

\* For a schema that the seeder can serve, an unwrap fails only on damage that
\* a crash, the application or the user did to the data set in hand.
THEOREM SeederPanicsOnlyOnDamage == GoodSchema => (Spec => []PanicsOnlyOnDamage)
<1> SUFFICES ASSUME GoodSchema PROVE Spec => []PanicsOnlyOnDamage
    OBVIOUS
<1> DEFINE All == Inv /\ Onward /\ DoomedTracked /\ Restored /\ Steady
<1>1. Init => PanicsOnlyOnDamage
    BY DEF Init, Idle, PanicsOnlyOnDamage
<1>2. All /\ PanicsOnlyOnDamage /\ [Next]_vars => PanicsOnlyOnDamage'
    <2> SUFFICES ASSUME All, PanicsOnlyOnDamage, [Next]_vars, run'.pc = "panicked"
                 PROVE  PanicsOnlyOnDamage'
        BY DEF PanicsOnlyOnDamage
    <2>t. TypeInv /\ file \in Versions
        BY DEF Inv, TypeInv, TypeOK
    <2>1. UNCHANGED <<rows, recs, rels, file>> /\ run'.cmd = run.cmd
        BY <2>t, PanicSteps
    <2>2. CASE run' = run
        BY <2>1, <2>2 DEF PanicsOnlyOnDamage, Found, RowOf
    <2>3. ASSUME NEW d \in Datasets PROVE Orderable(Required, Groups(d))
        <3>1. NeedsOf(file) = Required /\ {g \in Models : <<d, g>> \in file.groups} = Groups(d)
            BY DEF NeedsOf, RelsIn, Required, RelsOf, Groups
        <3> QED BY <2>t, <3>1 DEF GoodSchema, InOrder
    <2>4. ASSUME run'.ds = run.ds, Damaged PROVE PanicsOnlyOnDamage'
        BY <2>1, <2>4 DEF Damaged, PanicsOnlyOnDamage, Found, RowOf
    <2>5. ASSUME run.pc = "input", NEW r \in run.keys, NEW m \in Refs(run.ds, run.rec.name, r),
                 FoundRows(run.ds, Schema[r].target, m) = {}
          PROVE  Damaged
        BY <2>5, InputFinds
    <2>6. ASSUME NEW x \in run.work, AtRelation, FoundRows(run.ds, x[1], x[2]) = {} PROVE Damaged
        <3>1. Phase(run) = "relations" /\ InSeed(run)
            BY <2>6 DEF AtRelation, Phase, InSeed
        <3>2. <<run.ds, x[1], x[2]>> \in file.records
            BY <3>1 DEF Steady, Handling, WorkDeclared
        <3> QED BY <2>6, <3>1, <3>2, WalkFinds
    <2> QED BY <2>t, <2>2, <2>3, <2>4, <2>5, <2>6, PanicSteps, CutFails, LinkFails DEF GoodSchema
<1> QED BY <1>1, <1>2, SteadyAlways, PTL DEF Spec, GoodSchema

-------------------------------------------------------------------------------
\* Where nothing is taken away, every tracked record keeps its row and every
\* DataSetRelation its two records.

\* Nor does the application delete rows.
NothingLost == NothingTakenAway /\ "delete" \notin AppActs

\* Every tracked record has its row, but for the one whose row was just deleted.
RowsThere == \A q \in recs : RowOf(q) \in rows \/ (run.pc = "untrack" /\ q = run.rec)

\* Each end of a DataSetRelation is tracked, or is the record being inserted.
InHandAs(d, g, n) ==
    run.pc \in {"input", "track"} /\ <<run.rec.ds, run.rec.group, run.rec.name>> = <<d, g, n>>
Resolved(d, g, n) == Found(d, g, n) # {} \/ InHandAs(d, g, n)
AllResolved == \A c \in rels : Resolved(c.ds, c.ga, c.na) /\ Resolved(c.ds, c.gb, c.nb)

\* A record that is removed is first taken out of the DataSetRelation table.
Untied ==
    run.pc \in {"cut", "uncut", "untrack"} /\ run.back # "relation" =>
        \A c \in Touching(run.rec) :
            \/ run.pc # "untrack" /\ c \in run.cuts
            \/ run.pc = "uncut" /\ c = run.cut

Whole == RowsThere /\ AllResolved /\ Untied

\* Nothing is damaged then.
LEMMA WholeUndamaged ==
    ASSUME NothingLost, Inv, Whole, run.pc \notin {"input", "track", "untrack"}
    PROVE  ~Damaged
<1>1. file.live = Models /\ rels \subseteq RelRecs
    BY DEF NothingLost, NothingTakenAway, Inv, TypeInv, TypeOK
<1>2. \A c \in RelRecs : c.ga \in Models /\ c.gb \in Models
    BY DEF RelRecs
<1> QED BY <1>1, <1>2 DEF Damaged, Whole, RowsThere, AllResolved, Resolved, InHandAs

\* What a run takes up, saves and tracks leaves the whole whole.
LEMMA UpsertKeepsWhole ==
    ASSUME Inv, Onward, DoomedTracked, Restored, Steady, Whole, Upsert
    PROVE  Whole'
<1>t. /\ run \in Run /\ InHand /\ TypeInv /\ Books
      /\ run.pc = "track" => RowOf(run.rec) \in rows
    BY DEF Inv, TypeInv, TypeOK, Restored
<1>1. ASSUME NEW x \in run.todo, Insert(x) \/ Recreate(x) \/ Update(x) PROVE Whole'
    <2>1. run.pc = "record" /\ run'.pc = "input" /\ InSeed(run)
        BY <1>t, <1>1, TakingRecord DEF Insert, Recreate, Update, InSeed, Phase
    <2>2. ~Recreate(x)
        <3> SUFFICES ASSUME NEW q \in Known(x), RowOf(q) \notin rows PROVE FALSE
            BY DEF Recreate
        <3>1. q \in run.snap /\ q.name = x[2] /\ q.group = x[1]
            BY <1>t DEF Known, Books
        <3>2. x = <<q.group, q.name>>
            BY <1>t, <3>1, Typed
        <3>3. q \in recs
            BY <2>1, <3>1, <3>2 DEF Onward, StillThere
        <3> QED BY <2>1, <3>3 DEF Whole, RowsThere
    <2>3. UNCHANGED <<rows, recs, rels>>
        BY <1>1, <2>2 DEF Insert, Update, Decides
    <2> QED BY <2>1, <2>3 DEF Whole, RowsThere, AllResolved, Resolved, InHandAs, Untied, Found, RowOf
<1>2. ASSUME NEW r \in run.keys, InputRelation(r) PROVE Whole'
    <2>1. run.pc = "input" /\ recs' = recs /\ rows' = rows
        BY <1>2 DEF InputRelation, data
    <2>2. PICK m \in Refs(run.ds, run.rec.name, r) :
            /\ \E fks : run' = [run EXCEPT !.keys = @ \ {r}, !.fks = fks]
            /\ rels' = Remembering(run.rec, r, m)
        <3>1. \A m \in Refs(run.ds, run.rec.name, r) : FoundRows(run.ds, Schema[r].target, m) # {}
            BY <2>1, InputFinds DEF FoundRows, Found, Whole, RowsThere
        <3> QED BY <1>2, <3>1 DEF InputRelation
    <2>3. run'.pc = "input" /\ run'.rec = run.rec
        BY <1>t, <2>1, <2>2 DEF Run
    <2>4. rels' \subseteq rels \union {RelationRecord(run.rec, r, m)}
        BY <2>2 DEF Remembering
    <2>5. Found(run.ds, Schema[r].target, m) # {} /\ run.rec.ds = run.ds
        BY <1>t, <2>1, InputFinds DEF Books
    <2>6. LET c == RelationRecord(run.rec, r, m)
          IN  Resolved(c.ds, c.ga, c.na) /\ Resolved(c.ds, c.gb, c.nb)
        BY <2>1, <2>5 DEF RelationRecord, Resolved, InHandAs
    <2>7. \A d, g, n : Resolved(d, g, n) <=> Resolved(d, g, n)'
        BY <2>1, <2>3 DEF Resolved, InHandAs, Found
    <2>8. AllResolved'
        BY <2>4, <2>6, <2>7 DEF Whole, AllResolved
    <2> QED BY <2>1, <2>3, <2>8 DEF Whole, RowsThere, Untied, RowOf
<1>3. ASSUME NEW i, SaveNewRowAs(i) PROVE Whole'
    <2>1. run.pc = "input" /\ run.rec \in Records
        BY <1>t, <1>3 DEF SaveNewRowAs, Inserting, InHand
    <2>2. /\ run'.pc = "track" /\ run'.rec.ds = run.rec.ds
          /\ run'.rec.group = run.rec.group /\ run'.rec.name = run.rec.name
        BY <1>t, <1>3, <2>1 DEF SaveNewRowAs, Run, Records
    <2>3. rows \subseteq rows' /\ recs' = recs /\ rels' = rels
        BY <1>3 DEF SaveNewRowAs
    <2>4. AllResolved'
        BY <2>1, <2>2, <2>3 DEF Whole, AllResolved, Resolved, InHandAs, Found
    <2> QED BY <2>1, <2>2, <2>3, <2>4 DEF Whole, RowsThere, Untied, RowOf
<1>4. CASE SaveUpdatedRow
    <2>1. /\ run.pc = "input" /\ run.rec.id # NoId /\ run'.pc = "record"
          /\ rows' = rows /\ recs' = recs /\ rels' = rels
        BY <1>t, <1>4 DEF SaveUpdatedRow, Run
    <2>2. Found(run.rec.ds, run.rec.group, run.rec.name) # {}
        <3>1. InSeed(run) /\ run.rec.ds = run.ds
            BY <1>t, <2>1 DEF InSeed, Phase, Books
        <3>2. PICK q \in recs : Triple(q) = <<run.ds, run.rec.group, run.rec.name>>
            BY <2>1, <3>1 DEF Onward, StillThere
        <3> QED BY <3>1, <3>2 DEF Triple, Found
    <2>3. AllResolved'
        BY <2>1, <2>2 DEF Whole, AllResolved, Resolved, InHandAs, Found
    <2> QED BY <2>1, <2>3 DEF Whole, RowsThere, Untied, RowOf
<1>5. CASE Track
    <2>1. /\ run.pc = "track" /\ run'.pc = "record"
          /\ rows' = rows /\ recs' = recs \union {run.rec} /\ rels' = rels
        BY <1>t, <1>5 DEF Track, Run, data
    <2>2. AllResolved'
        BY <2>1 DEF Whole, AllResolved, Resolved, InHandAs, Found
    <2> QED BY <1>t, <2>1, <2>2 DEF Whole, RowsThere, Untied, RowOf
<1> QED BY <1>1, <1>2, <1>3, <1>4, <1>5 DEF Upsert, SaveNewRow

\* What it removes it has taken out of the DataSetRelation table.
LEMMA RemoveKeepsWhole ==
    ASSUME NothingLost, Inv, Onward, DoomedTracked, NoneLost, Whole, Remove
    PROVE  Whole'
<1>t. /\ run \in Run /\ InHand /\ TypeInv /\ file.live = Models /\ recs \subseteq Recs
      /\ \A q \in Recs : q.ds \in Datasets /\ q.group \in Models
      /\ run.pc = "untrack" => run.back # "relation"
    BY Typed DEF NothingLost, NothingTakenAway, Inv, TypeInv, TypeOK, Onward, Narrows
<1>1. ASSUME UNCHANGED <<rows, recs>>, rels' \subseteq rels,
             run.pc \notin {"input", "track", "untrack"}, Untied'
      PROVE  Whole'
    BY <1>1 DEF Whole, RowsThere, AllResolved, Resolved, InHandAs, Found, RowOf
<1>2. ASSUME NEW r \in run.doomed, RemoveGone(r) PROVE FALSE
    <2>1. InSeed(run) /\ run.pc # "untrack"
        BY <1>2 DEF RemoveGone, Removing, InSeed, Phase
    <2>2. r \in recs
        BY <2>1 DEF DoomedTracked, ToRemove
    <2> QED BY <1>t, <1>2, <2>1, <2>2 DEF RemoveGone, Whole, RowsThere
<1>3. ASSUME NEW r \in run.doomed, BeginRemove(r) PROVE Whole'
    <2>1. /\ run.pc \in {"gone", "record"} /\ run'.pc = "cut" /\ run'.rec = r
          /\ run'.cuts = Touching(r) /\ UNCHANGED <<rows, recs, rels>>
        BY <1>t, <1>3 DEF BeginRemove, Removing, Decides, Run
    <2>2. Untied'
        BY <2>1 DEF Untied, Touching
    <2> QED BY <1>1, <2>1, <2>2
<1>4. CASE RemoveRow
    <2>1. /\ run.pc = "cut" /\ run.cuts = {} /\ run.back # "relation"
          /\ rows' = rows \ {RowOf(run.rec)} /\ recs' = recs /\ rels' = rels
          /\ run'.pc = "untrack" /\ run'.rec = run.rec
        BY <1>t, <1>4 DEF RemoveRow, Run
    <2>2. run.rec \in recs
        BY <2>1 DEF DoomedTracked, ToRemove, InSeed, Phase
    <2>3. RowsThere'
        <3>1. \A q \in recs : q = run.rec \/ (RowOf(q) \in rows /\ RowOf(q) # RowOf(run.rec))
            BY <2>1, <2>2 DEF Whole, RowsThere, Inv, OneRecordPerName
        <3> QED BY <2>1, <3>1 DEF RowsThere, RowOf
    <2>4. Untied'
        BY <2>1 DEF Whole, Untied, Touching
    <2>5. AllResolved'
        BY <2>1 DEF Whole, AllResolved, Resolved, InHandAs, Found
    <2> QED BY <2>3, <2>4, <2>5 DEF Whole
<1>5. CASE Untrack
    <2>1. /\ run.pc = "untrack" /\ run.back # "relation"
          /\ run'.pc \in {"record", "gone"}
          /\ rows' = rows /\ recs' = recs \ {run.rec} /\ rels' = rels
        BY <1>t, <1>5 DEF Untrack, Run, data
    <2>2. \A c \in rels : c \notin Touching(run.rec)
        BY <2>1 DEF Whole, Untied, Touching
    <2>3. ASSUME NEW c \in rels, NEW g, NEW n, <<g, n>> \in {<<c.ga, c.na>>, <<c.gb, c.nb>>}
          PROVE  Resolved(c.ds, g, n)'
        <3>1. Found(c.ds, g, n) # {}
            BY <2>1, <2>3 DEF Whole, AllResolved, Resolved, InHandAs
        <3>2. PICK q \in recs : q.ds = c.ds /\ q.group = g /\ q.name = n
            BY <3>1 DEF Found
        <3>3. q # run.rec
            BY <2>2, <2>3, <3>2 DEF Touching
        <3> QED BY <2>1, <3>2, <3>3 DEF Resolved, Found
    <2>4. AllResolved'
        BY <2>1, <2>3 DEF AllResolved
    <2> QED BY <2>1, <2>4 DEF Whole, RowsThere, Untied, RowOf
<1>6. CASE BeginGone \/ BeginStale
    <2>1. /\ run.pc \notin {"input", "track", "untrack"} /\ run'.pc \in {"gone", "stale"}
          /\ UNCHANGED <<rows, recs, rels>>
        BY <1>t, <1>6 DEF BeginGone, BeginStale, AtRelation, Decides, Run
    <2> QED BY <1>1, <2>1 DEF Untied
<1>7. ASSUME NEW c, RemoveStale(c) PROVE Whole'
    <2>1. run.pc = "stale" /\ run'.pc = "stale" /\ UNCHANGED <<rows, recs>> /\ rels' \subseteq rels
        BY <1>t, <1>7 DEF RemoveStale, data, Run
    <2> QED BY <1>1, <2>1 DEF Untied
<1>8. ASSUME NEW r \in recs, ForgetRecord(r) PROVE FALSE
    BY <1>t, <1>8 DEF ForgetRecord, NoneLost
<1>9. ASSUME NEW c, ForgetRelation(c) PROVE Whole'
    <2>1. run.pc = "forget" /\ run'.pc = "forget" /\ UNCHANGED <<rows, recs>> /\ rels' \subseteq rels
        BY <1>9 DEF ForgetRelation, data
    <2> QED BY <1>1, <2>1 DEF Untied
<1> QED BY <1>2, <1>3, <1>4, <1>5, <1>6, <1>7, <1>8, <1>9 DEF Remove

\* What it relates is tracked, and what it cuts it goes through to the end.
LEMMA RelationsKeepWhole ==
    ASSUME Inv, Onward, Restored, Steady, Whole, Relations
    PROVE  Whole'
<1>t. run \in Run /\ InHand
    BY DEF Inv, TypeInv, TypeOK
<1>1. ASSUME UNCHANGED <<rows, recs>>, rels' \subseteq rels,
             run.pc \notin {"input", "track", "untrack"}, Untied'
      PROVE  Whole'
    BY <1>1 DEF Whole, RowsThere, AllResolved, Resolved, InHandAs, Found, RowOf
<1>2. ASSUME NEW c \in run.cuts, CutRecord(c) PROVE Whole'
    <2>1. /\ run.pc = "cut" /\ run'.pc = "cut" /\ run'.back = run.back /\ run'.rec = run.rec
          /\ run'.cuts = run.cuts \ {c} /\ rels' = rels \ {c} /\ UNCHANGED <<rows, recs>>
        BY <1>t, <1>2 DEF CutRecord, Cutting, data, Run
    <2>2. Untied'
        BY <2>1 DEF Whole, Untied, Touching
    <2> QED BY <1>1, <2>1, <2>2
<1>3. ASSUME NEW c \in run.cuts, CutLink(c) PROVE Whole'
    <2>1. /\ run.pc = "cut" /\ run'.pc = "uncut" /\ run'.back = run.back /\ run'.rec = run.rec
          /\ run'.cuts = run.cuts \ {c} /\ run'.cut = c /\ UNCHANGED <<rows, recs, rels>>
        BY <1>t, <1>3 DEF CutLink, Cutting, Run
    <2>2. Untied'
        BY <2>1 DEF Whole, Untied, Touching
    <2> QED BY <1>1, <2>1, <2>2
<1>4. CASE Uncut
    <2>1. /\ run.pc = "uncut" /\ run'.pc = "cut" /\ run'.back = run.back /\ run'.rec = run.rec
          /\ run'.cuts = run.cuts /\ rels' = rels \ {run.cut} /\ UNCHANGED <<rows, recs>>
        BY <1>t, <1>4 DEF Uncut, data, Run
    <2>2. Untied'
        BY <2>1 DEF Whole, Untied, Touching
    <2> QED BY <1>1, <2>1, <2>2
<1>5. ASSUME NEW x,
             \/ CutPanic(x) \/ LinkPanic(x) \/ LinkRef(x)
             \/ BeginRelations(x) \/ BeginRelation(x) \/ BeginCutRelation(x)
      PROVE  Whole'
    <2>1. /\ run.pc \notin {"input", "track", "untrack"} /\ UNCHANGED <<rows, recs, rels>>
          /\ run'.pc \in {"panicked", "relation", "refs", "relate"} \/ run'.back = "relation"
        <3>1. CASE CutPanic(x)
            BY <1>t, <3>1 DEF CutPanic, Cutting, Decides, Run
        <3>2. CASE LinkPanic(x)
            BY <1>t, <3>2 DEF LinkPanic, Decides, Run
        <3>3. CASE LinkRef(x)
            BY <1>t, <3>3 DEF LinkRef, Run
        <3>4. CASE BeginRelations(x)
            <4>1. \/ run' = [run EXCEPT !.pc = "panicked"]
                  \/ \E r, keys : run' = [run EXCEPT !.pc = "relation", !.work = @ \ {x}, !.rec = r,
                                                     !.keys = keys]
                BY <3>4 DEF BeginRelations
            <4>2. run'.pc \in {"panicked", "relation"}
                BY <1>t, <4>1 DEF Run
            <4> QED BY <3>4, <4>2 DEF BeginRelations, AtRelation, Decides
        <3>5. CASE BeginRelation(x)
            BY <1>t, <3>5 DEF BeginRelation, AtRelation, Decides, Run
        <3>6. CASE BeginCutRelation(x)
            BY <1>t, <3>6 DEF BeginCutRelation, AtRelation, Decides, Run
        <3> QED BY <1>5, <3>1, <3>2, <3>3, <3>4, <3>5, <3>6
    <2> QED BY <1>1, <2>1 DEF Untied
<1>6. CASE Relate
    <2>1. /\ run.pc = "relate" /\ run'.pc \in {"relation", "refs"}
          /\ rels' = Remembering(run.rec, run.rel, run.that) /\ UNCHANGED <<rows, recs>>
        BY <1>t, <1>6 DEF Relate, data, Run
    <2>2. rels' \subseteq rels \union {RelationRecord(run.rec, run.rel, run.that)}
        BY <2>1 DEF Remembering
    <2>3. /\ run.rec \in recs /\ run.rec.ds = run.ds
          /\ run.that \in Refs(run.ds, run.rec.name, run.rel)
        BY <2>1 DEF Steady, Handling, RecordWalked, Walking, RelationWalked
    <2>4. Found(run.ds, Schema[run.rel].target, run.that) # {}
        BY <2>1, <2>3, WalkFinds, RefsDeclared DEF Phase
    <2>5. LET c == RelationRecord(run.rec, run.rel, run.that)
          IN  Found(c.ds, c.ga, c.na) # {} /\ Found(c.ds, c.gb, c.nb) # {}
        BY <2>3, <2>4 DEF RelationRecord, Found
    <2>6. AllResolved'
        BY <2>1, <2>2, <2>5 DEF Whole, AllResolved, Resolved, InHandAs, Found
    <2> QED BY <2>1, <2>6 DEF Whole, RowsThere, Untied, RowOf
<1> QED BY <1>2, <1>3, <1>4, <1>5, <1>6 DEF Relations

\* Nor does any other step take away from the whole.
LEMMA WholeKept ==
    ASSUME NothingLost, Inv, Onward, DoomedTracked, Restored, Steady, NoneLost, Whole, [Next]_vars
    PROVE  Whole'
<1>t. /\ run \in Run /\ run' \in Run /\ TypeInv /\ rows \subseteq Rows /\ file.live = Models
    BY RunType DEF Inv, TypeInv, TypeOK, NothingLost, NothingTakenAway
<1>1. ASSUME rows \subseteq rows', UNCHANGED <<recs, rels>>,
             run.pc \notin {"input", "track", "untrack"}, run'.pc \notin {"cut", "uncut", "untrack"}
      PROVE  Whole'
    BY <1>1 DEF Whole, RowsThere, AllResolved, Resolved, InHandAs, Found, RowOf, Untied
<1>2. CASE Setup
    <2>1. UNCHANGED <<rows, recs, rels>> /\ run.pc \notin {"input", "track", "untrack"}
        BY <1>2 DEF Setup, BeginDataset, BetweenDatasets, BeginGroup, EndGroups, GroupDone,
                    BeginForget, Finish, Exit, Decides
    <2>2. run'.pc \notin {"cut", "uncut", "untrack"}
        <3>1. ASSUME NEW d \in Datasets, BeginDataset(d) PROVE run'.pc \in {"record", "panicked"}
            BY <1>t, <3>1 DEF BeginDataset, Run
        <3>2. ASSUME NEW g, BeginGroup(g) PROVE run'.pc = "record"
            BY <1>t, <3>2 DEF BeginGroup, GroupDone, SeedRecords, Run
        <3>3. EndGroups => run'.pc \in {"dataset", "relation"}
            BY <1>t DEF EndGroups, Run
        <3>4. BeginForget \/ Finish => run'.pc \in {"forget", "done"}
            BY <1>t DEF BeginForget, Finish, Run
        <3>5. Exit => run'.pc = "idle"
            BY DEF Exit, Idle
        <3> QED BY <1>2, <3>1, <3>2, <3>3, <3>4, <3>5 DEF Setup
    <2> QED BY <1>1, <2>1, <2>2
<1>3. CASE Upsert
    BY <1>3, UpsertKeepsWhole
<1>4. CASE Remove
    BY <1>4, RemoveKeepsWhole
<1>5. CASE Relations
    BY <1>5, RelationsKeepWhole
<1>6. ASSUME NEW start \in Starts, Begin(start) PROVE Whole'
    <2>1. run.pc = "idle" /\ run'.pc = "dataset" /\ UNCHANGED <<rows, recs, rels>>
        BY <1>6 DEF Begin, Idle, Decides
    <2> QED BY <1>1, <2>1
<1>7. CASE Environment
    <2>1. ~Crash /\ ~Migrate /\ \A row \in rows : ~AppDelete(row)
        BY <1>t DEF Crash, Migrate, AppDelete, NothingLost, NothingTakenAway, Rows
    <2>2. CASE Purge
        BY <2>2 DEF Purge, Whole, RowsThere, AllResolved, Untied
    <2>3. ASSUME NEW f \in Versions, Edit(f) PROVE Whole'
        BY <1>1, <2>3 DEF Edit, data
    <2>4. ASSUME NEW g \in Models, AppCreate(g) PROVE Whole'
        BY <1>1, <2>4 DEF AppCreate
    <2> QED BY <1>7, <2>1, <2>2, <2>3, <2>4 DEF Environment
<1>8. CASE UNCHANGED vars
    BY <1>8 DEF vars, Whole, RowsThere, AllResolved, Resolved, InHandAs, Found, RowOf, Untied, Touching
<1> QED BY <1>2, <1>3, <1>4, <1>5, <1>6, <1>7, <1>8 DEF Next, Step

\* So it is throughout.
LEMMA WholeAlways ==
    Finite /\ NothingLost => (Spec => [](Inv /\ Onward /\ NoneLost /\ Whole))
<1> SUFFICES ASSUME Finite, NothingLost PROVE Spec => [](Inv /\ Onward /\ NoneLost /\ Whole)
    OBVIOUS
<1> DEFINE All == Inv /\ Onward /\ DoomedTracked /\ Restored /\ Steady
<1>1. Init => NoneLost /\ Whole
    BY DEF Init, Idle, NoneLost, Whole, RowsThere, AllResolved, Untied
<1>2. All /\ NoneLost /\ [Next]_vars => NoneLost'
    BY LosesNone DEF NothingLost
<1>3. All /\ NoneLost /\ Whole /\ [Next]_vars => Whole'
    BY WholeKept
<1>4. Spec => []All
    BY SteadyAlways
<1>5. All => Inv /\ Onward
    OBVIOUS
<1> HIDE DEF All
<1> QED BY <1>1, <1>2, <1>3, <1>4, <1>5, PTL DEF Spec

\* Between runs each DataSetRelation is between two records that are tracked,
\* if no run is killed, neither a model nor a data set is taken away, and the
\* application deletes no rows.
THEOREM SeederRelationsResolve == Finite /\ NothingLost => (Spec => []RelationsResolve)
<1>1. Whole => RelationsResolve
    BY DEF Whole, AllResolved, Resolved, InHandAs, RelationsResolve, AtRest
<1> QED BY <1>1, WholeAlways, PTL

\* No unwrap of the seeder fails then, for a schema that it can serve.
THEOREM SeederNoPanic == GoodSchema /\ NothingLost => (Spec => []NoPanic)
<1> SUFFICES ASSUME GoodSchema, NothingLost PROVE Spec => []NoPanic
    OBVIOUS
<1>1. Inv /\ Whole /\ PanicsOnlyOnDamage => NoPanic
    <2> SUFFICES ASSUME Inv, Whole, PanicsOnlyOnDamage, run.pc = "panicked" PROVE FALSE
        BY DEF NoPanic
    <2>1. ~Damaged
        BY WholeUndamaged
    <2> QED BY <2>1 DEF PanicsOnlyOnDamage, Damaged
<1> QED BY <1>1, WholeAlways, SeederPanicsOnlyOnDamage, PTL DEF GoodSchema

\* The user takes no group out of the files: an Unseed goes through those of the
\* files only.
GroupsStay == \A f, h \in Versions : f.groups = h.groups

\* So every tracked record is of a group that the files have.
GroupsKnown == \A q \in recs : <<q.ds, q.group>> \in file.groups

\* A record that is tracked anew is declared, and the groups stay.
LEMMA GroupsKnownKept ==
    ASSUME GroupsStay, Inv, Onward, GroupsKnown, [Next]_vars
    PROVE  GroupsKnown'
<1>t. TypeInv /\ Books /\ Upserting /\ WellFormed(file) /\ file \in Versions /\ file' \in Versions
    BY VersionsAssumption, TablesTypeKept DEF Inv, Books, TypeInv, TypeOK, TablesType
<1>1. ASSUME recs' \subseteq recs PROVE GroupsKnown'
    BY <1>t, <1>1 DEF GroupsKnown, GroupsStay
<1>2. CASE Step
    <2>1. Sorted
        BY <1>t, <1>2, StepsSorted DEF Onward, Narrows
    <2>2. recs' \subseteq recs \/ (run.pc = "track" /\ recs' = recs \union {run.rec})
        BY <2>1 DEF Sorted, Carries, Stops, RunBegun, DatasetBegun, GroupBegun, GroupsEnded, RecordBegun,
                    RecordEnded, Removed, GoneBegun, StaleBegun, ForgetBegun, Forgotten, Completed
    <2>3. CASE run.pc = "track" /\ recs' = recs \union {run.rec}
        <3>1. InSeed(run) /\ <<run.rec.group, run.rec.name>> \in ToAdd(run)
            BY <2>3 DEF InSeed, Phase, ToAdd
        <3>2. <<run.ds, run.rec.group, run.rec.name>> \in file.records
            BY <3>1 DEF Onward, Justified
        <3>3. <<run.rec.ds, run.rec.group>> \in file.groups
            BY <1>t, <2>3, <3>2 DEF WellFormed, Books
        <3> QED BY <1>t, <2>3, <3>3 DEF GroupsKnown, GroupsStay
    <2> QED BY <1>1, <2>2, <2>3
<1>3. Environment \/ UNCHANGED vars \/ (\E start \in Starts : Begin(start)) => recs' \subseteq recs
    BY DEF Environment, Crash, Edit, Migrate, Purge, AppCreate, AppDelete, Begin, Decides, data, vars
<1> QED BY <1>1, <1>2, <1>3 DEF Next

\* An Unseed of everything leaves the tables as the application has filled them:
\* no row, record or relation of the data sets stays, if none was lost before
\* and no group has left the files.
THEOREM SeederUnseedLeavesNothing ==
    Finite /\ NothingLost /\ GroupsStay => (Spec => []UnseedLeavesNothing)
<1> SUFFICES ASSUME Finite, NothingLost, GroupsStay PROVE Spec => []UnseedLeavesNothing
    OBVIOUS
<1>1. Init => GroupsKnown
    BY DEF Init, GroupsKnown
<1>2. Inv /\ Onward /\ GroupsKnown /\ [Next]_vars => GroupsKnown'
    BY GroupsKnownKept
<1>3. Inv /\ Onward /\ NoneLost /\ Whole /\ GroupsKnown => UnseedLeavesNothing
    <2> SUFFICES ASSUME Inv, Onward, NoneLost, Whole, GroupsKnown, Ended("Unseed")
                 PROVE  rows = own /\ recs = {} /\ rels = {}
        BY DEF UnseedLeavesNothing
    <2>1. run.pc = "done" /\ run.cmd = "Unseed" /\ run.sel = Datasets
        BY DEF Ended, NoneLost
    <2>2. recs = {}
        <3> SUFFICES ASSUME NEW q \in recs PROVE FALSE
            OBVIOUS
        <3>1. q.ds \in Datasets /\ q.group \in Groups(q.ds)
            BY Typed DEF GroupsKnown, Groups, Inv
        <3>2. <<q.group, q.name>> \in TrackedIn(q.ds)
            BY DEF TrackedIn
        <3>3. RecordsMatchFiles
            BY EndsInLine DEF Inv
        <3>4. \A x \in TrackedIn(q.ds) : x[1] \notin Groups(q.ds)
            BY <2>1, <3>1, <3>3 DEF RecordsMatchFiles, Ended
        <3> QED BY <3>1, <3>2, <3>4
    <2>3. rows \subseteq own
        BY <2>1, <2>2 DEF NoneLost, TrackedRows
    <2>4. rels = {}
        BY <2>1, <2>2 DEF Whole, AllResolved, Resolved, InHandAs, Found
    <2> QED BY <2>2, <2>3, <2>4 DEF Inv, OwnRowsStay
<1> QED BY <1>1, <1>2, <1>3, WholeAlways, PTL DEF Spec

-------------------------------------------------------------------------------
\* ReseedLinksExactly: what the schema and the files must be for it.  A Reseed
\* walks every relation from both ends, sets at one end what it has cut at the
\* other, and knows a link row by its DataSetRelation only: each of these keeps
\* the two walks, or two states of the files, from undoing each other.

\* A relation has no opposite and holds its key, or the two mirror each other.
Matched ==
    \A r \in Rels :
        LET o == Schema[r].opposite
        IN  \/ o = None /\ HasKey(r)
            \/ /\ o \in Rels /\ Schema[o].opposite = r /\ Schema[o].via = Schema[r].via
               /\ Schema[o].owner = Schema[r].target /\ Schema[o].target = Schema[r].owner
               /\ HasKey(r) <=> Schema[o].kind = "foreign"
               /\ Schema[r].kind = "join" <=> Schema[o].kind = "join"

\* A column of a model, or a join table, is of one relation and its opposite.
OwnColumns ==
    \A r, s \in Rels : Schema[r].via = Schema[s].via =>
        /\ HasKey(r) /\ HasKey(s) /\ Schema[r].owner = Schema[s].owner => r = s
        /\ Schema[r].kind = "join" /\ Schema[s].kind = "join" => s \in {r, Schema[r].opposite}

\* A model that a relation leads back to has no join table with itself, and no
\* record of the files that refers to itself.
SelfApart ==
    \A r \in Rels : Schema[r].owner = Schema[r].target =>
        /\ Schema[r].kind # "join"
        /\ \A f \in Versions : \A x \in f.refs : x[3] = r => x[2] # x[4]

NamesOf(f, d, n, r) == {m \in Names : <<d, n, r, m>> \in f.refs}

\* The record that a reference leads to names records through the opposite, or
\* a Reseed cuts there what it links here; what holds the key cuts nothing.
Answered ==
    \A f \in Versions : \A x \in f.refs :
        Schema[x[3]].kind # "foreign" /\ Schema[x[3]].opposite # None =>
            NamesOf(f, x[1], x[4], Schema[x[3]].opposite) # {}

\* What a record names through relations whose keys the other end holds agrees
\* with what this end and others name.
Agreed ==
    \A f \in Versions : \A x, y \in f.refs :
        Schema[x[3]].kind = "foreign" /\ y[1] = x[1] =>
            /\ y[3] = x[3] /\ y[4] = x[4] => y[2] = x[2]
            /\ y[3] = Schema[x[3]].opposite /\ y[2] = x[4] => y[4] = x[2]

\* A link row is deleted for the sake of the DataSetRelation that remembers it:
\* no crash may leave one that is not remembered, and what one state of the
\* files links another does too, or one end of it names nothing.
JoinsKept ==
    (\E r \in Rels : Schema[r].kind = "join") =>
        /\ ~MayCrash
        /\ \A f, h \in Versions : \A x \in f.refs :
            Schema[x[3]].kind = "join" =>
                LET o == Schema[x[3]].opposite
                IN  \/ x \in h.refs \/ <<x[1], x[4], o, x[2]>> \in h.refs
                    \/ NamesOf(h, x[1], x[2], x[3]) = {} \/ NamesOf(h, x[1], x[4], o) = {}

LinksAgree == Finite /\ Matched /\ OwnColumns /\ SelfApart /\ Answered /\ Agreed /\ JoinsKept

-------------------------------------------------------------------------------
\* What links tie together.

\* The two ends of a foreign key and of a link row are rows that are there, and
\* nothing is linked to a row that was just saved.
EndsThere ==
    /\ \A x \in fk : x[1] \in rows /\ x[3] \in rows
    /\ \A x \in joins : x[2] \subseteq rows
    /\ run.pc = "input" => \A x \in run.fks : x[2] \in rows
    /\ run.pc = "track" => \A x \in joins : RowOf(run.rec) \notin x[2]

\* A link is set between rows that were found, and deleted with either of them.
LEMMA EndsKept == Inv /\ RowInHand /\ EndsThere /\ [Next]_vars => EndsThere'
<1> SUFFICES ASSUME Inv, RowInHand, EndsThere, [Next]_vars PROVE EndsThere'
    OBVIOUS
<1>t. /\ TypeInv /\ run \in Run /\ InHand
      /\ recs \subseteq Recs /\ rows \subseteq Rows /\ fk \subseteq Rows \X Columns \X Rows
    BY DEF Inv, TypeInv, TypeOK
<1> USE <1>t, RunFields
<1>1. ASSUME rows \subseteq rows', fk' \subseteq fk, joins' \subseteq joins,
             run'.pc \notin {"input", "track"}
      PROVE  EndsThere'
    BY <1>1 DEF EndsThere
<1>2. ASSUME Setup PROVE EndsThere'
    <2>1. UNCHANGED data
        BY <1>2 DEF Setup, BeginDataset, BeginGroup, EndGroups, BeginForget, Finish, Exit, Decides, data
    <2>2. ASSUME NEW x, BeginDataset(x) \/ BeginGroup(x) \/ EndGroups \/ BeginForget \/ Finish
          PROVE  run'.pc \notin {"input", "track"}
        BY <2>2 DEF BeginDataset, BeginGroup, GroupDone, SeedRecords, EndGroups, BeginForget, Finish, Run
    <2>3. Exit => run'.pc = "idle"
        BY DEF Exit, Idle
    <2> QED BY <1>1, <1>2, <2>1, <2>2, <2>3 DEF Setup, data
<1>3. ASSUME Upsert PROVE EndsThere'
    <2>1. ASSUME NEW x \in run.todo, Insert(x) \/ Recreate(x) \/ Update(x) PROVE EndsThere'
        <3>1. run'.pc = "input" /\ run'.fks = {}
            BY <2>1 DEF Insert, Recreate, Update, Taking, Run
        <3>2. UNCHANGED data
            BY <2>1 DEF Insert, Recreate, Update, Decides, data
        <3> QED BY <3>1, <3>2 DEF EndsThere, data
    <2>2. ASSUME NEW r \in run.keys, InputRelation(r) PROVE EndsThere'
        <3>1. UNCHANGED data /\ run.pc = "input"
            BY <2>2 DEF InputRelation
        <3>2. \/ run'.pc = "panicked"
              \/ /\ run'.pc = "input"
                 /\ \E to \in rows :
                    run'.fks = {x \in run.fks : x[1] # Schema[r].via} \union {<<Schema[r].via, to>>}
            BY <2>2 DEF InputRelation, FoundRows, Run
        <3> QED BY <3>1, <3>2 DEF EndsThere, data
    <2>3. CASE SaveNewRow
        <3>1. PICK i \in FreshIds(run.rec.group) : SaveNewRowAs(i)
            BY <2>3 DEF SaveNewRow, Fresh
        <3> DEFINE row == <<run.rec.group, i>>
        <3>2. row \notin rows /\ run.pc = "input"
            BY <3>1 DEF FreshIds, SaveNewRowAs, Inserting
        <3>3. /\ rows' = rows \union {row} /\ joins' = joins
              /\ fk' = fk \union {<<row, x[1], x[2]>> : x \in run.fks}
            BY <3>1 DEF SaveNewRowAs
        <3>4. run'.pc = "track" /\ RowOf(run'.rec) = row
            BY <3>1, NewRowType DEF RowOf
        <3> HIDE DEF row
        <3>5. \A x \in fk' : x[1] \in rows' /\ x[3] \in rows'
            BY <3>2, <3>3 DEF EndsThere
        <3>6. RowOf(run.rec)' = row
            BY <3>4 DEF RowOf
        <3> QED BY <3>2, <3>3, <3>4, <3>5, <3>6 DEF EndsThere
    <2>4. CASE SaveUpdatedRow
        <3> DEFINE row == RowOf(run.rec)
        <3>1. row \in rows /\ run.pc = "input"
            BY <2>4 DEF SaveUpdatedRow, RowInHand, HasRow
        <3>2. /\ rows' = rows /\ run'.pc = "record" /\ joins' = joins
              /\ fk' = {x \in fk : x[1] # row} \union {<<row, x[1], x[2]>> : x \in run.fks}
            BY <2>4 DEF SaveUpdatedRow, Run
        <3> HIDE DEF row
        <3> QED BY <3>1, <3>2 DEF EndsThere
    <2>5. CASE Track
        BY <2>5, <1>1 DEF Track, data, Run
    <2> QED BY <1>3, <2>1, <2>2, <2>3, <2>4, <2>5 DEF Upsert
<1>4. ASSUME Remove PROVE EndsThere'
    <2>1. CASE RemoveRow
        <3>1. run'.pc = "untrack"
            BY <2>1 DEF RemoveRow, Run
        <3> QED BY <2>1, <3>1 DEF RemoveRow, EndsThere
    <2>2. ASSUME NEW r, RemoveGone(r) \/ BeginRemove(r) \/ Untrack \/ BeginGone \/ BeginStale
                        \/ RemoveStale(r) \/ ForgetRecord(r) \/ ForgetRelation(r)
          PROVE  EndsThere'
        <3>1. UNCHANGED data
            BY <2>2 DEF RemoveGone, BeginRemove, Untrack, BeginGone, BeginStale, RemoveStale,
                        ForgetRecord, ForgetRelation, Decides, data
        <3>2. run'.pc \notin {"input", "track"}
            BY <2>2 DEF RemoveGone, BeginRemove, Removing, Untrack, BeginGone, BeginStale, RemoveStale,
                        ForgetRecord, ForgetRelation, Run
        <3> QED BY <3>1, <3>2, <1>1 DEF data
    <2> QED BY <1>4, <2>1, <2>2 DEF Remove
<1>5. ASSUME Relations PROVE EndsThere'
    <2>1. ASSUME NEW x, \/ CutPanic(x) \/ CutRecord(x) \/ Uncut \/ BeginRelations(x)
                        \/ BeginRelation(x) \/ BeginCutRelation(x) \/ LinkPanic(x) \/ Relate
          PROVE  EndsThere'
        <3>1. UNCHANGED data
            BY <2>1 DEF CutPanic, CutRecord, Uncut, BeginRelations, BeginRelation,
                        BeginCutRelation, LinkPanic, Relate, Decides, data
        <3>2. run'.pc \notin {"input", "track"}
            <4>1. CASE CutPanic(x) \/ LinkPanic(x)
                BY <4>1 DEF CutPanic, LinkPanic, Run
            <4>2. CASE CutRecord(x) \/ Uncut
                BY <4>2 DEF CutRecord, Cutting, Uncut, Run
            <4>3. CASE BeginRelations(x)
                BY <4>3, ZenonT(30) DEF BeginRelations, Run
            <4>4. CASE BeginRelation(x) \/ BeginCutRelation(x)
                BY <4>4 DEF BeginRelation, BeginCutRelation, Run
            <4>5. CASE Relate
                BY <4>5, ZenonT(30) DEF Relate, Run
            <4> QED BY <2>1, <4>1, <4>2, <4>3, <4>4, <4>5
        <3> QED BY <3>1, <3>2, <1>1 DEF data
    <2>2. ASSUME NEW c \in run.cuts, CutLink(c) PROVE EndsThere'
        <3>1. run'.pc = "uncut" /\ rows' = rows
            BY <2>2 DEF CutLink, Run
        <3>2. fk' \subseteq fk /\ joins' \subseteq joins
            BY <2>2 DEF CutLink, Null
        <3> QED BY <3>1, <3>2, <1>1
    <2>3. ASSUME NEW m \in run.refs, LinkRef(m) PROVE EndsThere'
        <3>1. run'.pc = "relate" /\ rows' = rows /\ run.pc = "refs"
            BY <2>3 DEF LinkRef, Run
        <3>2. PICK that \in rows : SetLink(run.rel, RowOf(run.rec), that)
            BY <2>3 DEF LinkRef, FoundRows
        <3>3. RowOf(run.rec) \in rows /\ run.rel \in Rels
            BY <3>1 DEF RowInHand, HasRow, InHand
        <3>4. Schema[run.rel].kind \in {"required", "optional", "foreign", "join"}
            BY <3>3, SchemaAssumption DEF Relation
        <3>5. /\ fk' = fk \/ \E row, to \in rows : \E col : fk' = Pointing(row, col, to)
              /\ joins' = joins \/ \E col : joins' = joins \union {<<col, {RowOf(run.rec), that}>>}
            BY <3>2, <3>3, <3>4 DEF SetLink
        <3>6. \A x \in fk' : x[1] \in rows /\ x[3] \in rows
            BY <3>5 DEF EndsThere, Pointing, Null
        <3>7. \A x \in joins' : x[2] \subseteq rows
            BY <3>2, <3>3, <3>5 DEF EndsThere
        <3> QED BY <3>1, <3>6, <3>7 DEF EndsThere
    <2> QED BY <1>5, <2>1, <2>2, <2>3 DEF Relations
<1>6. ASSUME Environment PROVE EndsThere'
    <2>1. run' = Idle \/ (run' = run /\ run.pc = "idle")
        BY <1>6 DEF Environment, Crash, Edit, Migrate, Purge, AppCreate, AppDelete
    <2>2. run'.pc = "idle"
        BY <2>1 DEF Idle
    <2>3. ASSUME NEW gone, Without(gone) PROVE EndsThere'
        BY <2>2, <2>3 DEF Without, EndsThere
    <2>4. ASSUME NEW f, Crash \/ Edit(f) \/ Purge \/ AppCreate(f) PROVE EndsThere'
        BY <2>2, <2>4 DEF Crash, Edit, Purge, AppCreate, Decides, data, EndsThere
    <2> QED BY <1>6, <2>3, <2>4 DEF Environment, Migrate, AppDelete
<1>7. ASSUME NEW start \in Starts, Begin(start) PROVE EndsThere'
    BY <1>7, <1>1 DEF Begin, Idle, Decides
<1>8. CASE UNCHANGED vars
    BY <1>8 DEF vars, data, EndsThere, RowOf
<1> QED BY <1>2, <1>3, <1>4, <1>5, <1>6, <1>7, <1>8 DEF Next, Step

\* What a Reseed has yet to walk: while it goes through the groups, every record
\* whose relations the insert does not set up; after the walk nothing.
WorkAhead ==
    /\ run.pc = "dataset" /\ run.cmd = "Reseed" => run.left = run.sel
    /\ Phase(run) = "records" /\ run.cmd = "Reseed" =>
        \A x \in file.records :
            x[1] = run.ds /\ HasLaterRelations(x[2]) =>
                x[2] \in run.groups \/ <<x[2], x[3]>> \in run.work
    /\ Phase(run) \in {"gone", "stale"} => run.work = {}

\* A record that is updated is the tracked one.
InputTracked == run.pc = "input" /\ run.rec.id # NoId => run.rec \in recs

\* What is cut has the record in hand at one end; in the walk, for a relation
\* that the record does not name.
CutsOfHand ==
    run.pc \in {"cut", "uncut"} =>
        \A c \in run.cuts :
            \/ /\ c.ga = run.rec.group /\ c.na = run.rec.name
               /\ run.back = "relation" => Refs(run.ds, run.rec.name, c.ra) = {}
            \/ /\ c.gb = run.rec.group /\ c.nb = run.rec.name
               /\ run.back = "relation" => Refs(run.ds, run.rec.name, c.rb) = {}

\* What is cleared last has an end in a group that the files no longer have.
StaleCuts ==
    run.pc = "stale" =>
        \A c \in run.cuts : c.ds = run.ds /\ ~({c.ga, c.gb} \subseteq Groups(run.ds))

Itinerary == WorkAhead /\ InputTracked /\ CutsOfHand /\ StaleCuts

\* The steps that lead to an input, to a cut, to a link and to the clearing.
LEMMA WhereTo ==
    ASSUME TypeInv, Step
    PROVE  /\ run'.pc = "input" =>
                \/ \E x \in run.todo : Insert(x) \/ Recreate(x) \/ Update(x)
                \/ \E r \in run.keys : InputRelation(r)
           /\ run'.pc \in {"cut", "uncut"} =>
                \/ \E r \in run.doomed : BeginRemove(r)
                \/ \E c \in run.cuts : CutRecord(c) \/ CutLink(c)
                \/ Uncut
                \/ \E r \in run.keys : BeginCutRelation(r)
           /\ run'.pc = "stale" => BeginStale \/ \E c \in run.cuts : RemoveStale(c)
           /\ run'.pc = "relate" => \E m \in run.refs : LinkRef(m)
<1> DEFINE Here == {"input", "cut", "uncut", "stale", "relate"}
<1>t. run \in Run
    BY DEF TypeInv, TypeOK
<1>1. CASE Setup
    <2>1. ASSUME NEW x, BeginDataset(x) \/ BeginGroup(x) \/ EndGroups \/ BeginForget \/ Finish
          PROVE  run'.pc \notin Here
        <3>1. CASE BeginDataset(x)
            BY <1>t, <3>1 DEF BeginDataset, Run
        <3>2. CASE BeginGroup(x)
            BY <1>t, <3>2 DEF BeginGroup, GroupDone, Run
        <3>3. CASE EndGroups \/ BeginForget \/ Finish
            BY <1>t, <3>3 DEF EndGroups, BeginForget, Finish, Run
        <3> QED BY <2>1, <3>1, <3>2, <3>3
    <2>2. Exit => run'.pc \notin Here
        BY DEF Exit, Idle
    <2> QED BY <1>1, <2>1, <2>2 DEF Setup
<1>2. CASE Upsert
    <2>1. ASSUME NEW x \in run.todo, Insert(x) \/ Recreate(x) \/ Update(x) PROVE run'.pc = "input"
        BY <2>1, TakingRecord
    <2>2. ASSUME NEW r, InputRelation(r) PROVE run'.pc \in {"input", "panicked"}
        BY <1>t, <2>2 DEF InputRelation, Run
    <2>3. ASSUME NEW i, SaveNewRowAs(i) \/ SaveUpdatedRow \/ Track PROVE run'.pc \notin Here
        BY <1>t, <2>3 DEF SaveNewRowAs, SaveUpdatedRow, Track, Run
    <2> QED BY <1>2, <2>1, <2>2, <2>3 DEF Upsert, SaveNewRow
<1>3. CASE Remove
    <2>1. ASSUME NEW x, \/ RemoveGone(x) \/ RemoveRow \/ Untrack \/ BeginGone
                        \/ ForgetRecord(x) \/ ForgetRelation(x)
          PROVE  run'.pc \notin Here
        BY <1>t, <2>1 DEF RemoveGone, Removing, RemoveRow, Untrack, BeginGone, ForgetRecord,
                          ForgetRelation, Run
    <2>2. ASSUME NEW x, BeginRemove(x) PROVE run'.pc = "cut"
        BY <1>t, <2>2 DEF BeginRemove, Run
    <2>3. ASSUME NEW x, BeginStale \/ RemoveStale(x) PROVE run'.pc = "stale"
        BY <1>t, <2>3 DEF BeginStale, RemoveStale, Run
    <2> QED BY <1>3, <2>1, <2>2, <2>3 DEF Remove
<1>4. CASE Relations
    <2>1. ASSUME NEW x, CutPanic(x) \/ BeginRelations(x) \/ BeginRelation(x) \/ LinkPanic(x) \/ Relate
          PROVE  run'.pc \notin Here
        <3>1. CASE CutPanic(x) \/ LinkPanic(x)
            BY <1>t, <3>1 DEF CutPanic, LinkPanic, Run
        <3>2. CASE BeginRelations(x)
            BY <1>t, <3>2, ZenonT(30) DEF BeginRelations, Run
        <3>3. CASE BeginRelation(x)
            BY <1>t, <3>3 DEF BeginRelation, Run
        <3>4. CASE Relate
            BY <1>t, <3>4, ZenonT(30) DEF Relate, Run
        <3> QED BY <2>1, <3>1, <3>2, <3>3, <3>4
    <2>2. ASSUME NEW x, CutRecord(x) \/ CutLink(x) \/ Uncut \/ BeginCutRelation(x)
          PROVE  run'.pc \in {"cut", "uncut"}
        BY <1>t, <2>2 DEF CutRecord, Cutting, CutLink, Uncut, BeginCutRelation, Run
    <2>3. ASSUME NEW x, LinkRef(x) PROVE run'.pc = "relate"
        BY <1>t, <2>3 DEF LinkRef, Run
    <2> QED BY <1>4, <2>1, <2>2, <2>3 DEF Relations
<1> QED BY <1>1, <1>2, <1>3, <1>4 DEF Step

\* What is left to walk is written where a data set, a group and the walk of a
\* record begin and where the walk ends.
Walked == run'.work = run.work /\ run'.groups = run.groups /\ run'.ds = run.ds /\ run'.cmd = run.cmd
LEMMA WorkSteps ==
    ASSUME TypeInv, Narrows, Step, run'.pc \notin {"idle", "panicked", "forget", "done"}
    PROVE  /\ file' = file
           /\ \/ \E d \in Datasets : BeginDataset(d)
              \/ \E g \in run.groups : BeginGroup(g)
              \/ EndGroups
              \/ \E x \in run.work : BeginRelations(x)
              \/ BeginGone
              \/ Walked /\ Phase(run) = "gone" /\ Phase(run') = "stale"
              \/ Walked /\ Phase(run) = Phase(run') /\ run'.pc # "dataset"
<1>t. run \in Run
    BY DEF TypeInv, TypeOK
<1> USE <1>t, RunFields
<1> DEFINE Same == Walked /\ Phase(run) = Phase(run') /\ run'.pc # "dataset"
<1>1. CASE Setup
    <2>1. ~BeginForget /\ ~Finish
        BY DEF BeginForget, Finish, Run
    <2>3. ~Exit
        BY DEF Exit, Idle
    <2>2. file' = file
        BY <1>1 DEF Setup, BeginDataset, BeginGroup, EndGroups, BeginForget, Finish, Exit, Decides
    <2> QED BY <1>1, <2>1, <2>2, <2>3 DEF Setup
<1>2. CASE Upsert
    <2>0. file' = file
        BY <1>2 DEF Upsert, Insert, Recreate, Update, InputRelation, SaveNewRow, SaveNewRowAs,
                    SaveUpdatedRow, Track, Decides
    <2>1. ASSUME NEW x \in run.todo, Insert(x) \/ Recreate(x) \/ Update(x) PROVE Same
        <3>1. PICK id : run' = Taking(x, id)
            BY <2>1 DEF Insert, Recreate, Update
        <3> QED BY <2>1, <3>1 DEF Insert, Recreate, Update, Taking, Phase, Walked, Run
    <2>2. ASSUME NEW r \in run.keys, InputRelation(r) PROVE Same
        <3>1. \E fks : run' = [run EXCEPT !.keys = @ \ {r}, !.fks = fks]
            BY <2>2 DEF InputRelation, Run
        <3> QED BY <2>2, <3>1 DEF InputRelation, Phase, Walked, Run
    <2>3. ASSUME NEW i, SaveNewRowAs(i) PROVE Same
        BY <2>3 DEF SaveNewRowAs, Inserting, Phase, Walked, Run
    <2>4. ASSUME SaveUpdatedRow \/ Track PROVE Same
        BY <2>4 DEF SaveUpdatedRow, Track, Phase, Walked, Run
    <2> QED BY <1>2, <2>0, <2>1, <2>2, <2>3, <2>4 DEF Upsert, SaveNewRow
<1>3. CASE Remove
    <2>0. file' = file
        BY <1>3 DEF Remove, RemoveGone, BeginRemove, RemoveRow, Untrack, BeginGone, BeginStale,
                    RemoveStale, ForgetRecord, ForgetRelation, Decides
    <2>1. ASSUME NEW r, RemoveGone(r) \/ RemoveStale(r) PROVE Same
        BY <2>1 DEF RemoveGone, Removing, RemoveStale, Phase, Walked, Run
    <2>2. ASSUME NEW r, BeginRemove(r) PROVE Same
        BY <2>2 DEF BeginRemove, Removing, Phase, Walked, Run
    <2>3. ASSUME RemoveRow \/ Untrack PROVE Same
        <3>1. RemoveRow => Same
            BY DEF RemoveRow, Phase, Walked, Run
        <3>2. ASSUME Untrack PROVE Same
            <4>1. /\ run.pc = "untrack" /\ run'.pc = run.back /\ run.back \in {"record", "gone"} /\ Walked
                BY <3>2 DEF Untrack, Narrows, Walked, Run
            <4>2. Phase(run) = Phase(run') /\ run'.pc # "dataset"
                <5>1. CASE run.back = "record"
                    BY <4>1, <5>1 DEF Phase
                <5>2. CASE run.back = "gone"
                    BY <4>1, <5>2 DEF Phase
                <5> QED BY <4>1, <5>1, <5>2
            <4> QED BY <4>1, <4>2
        <3> QED BY <2>3, <3>1, <3>2
    <2>4. ASSUME BeginStale PROVE Walked /\ Phase(run) = "gone" /\ Phase(run') = "stale"
        BY <2>4 DEF BeginStale, Phase, Walked, Run
    <2>5. ASSUME NEW r, ForgetRecord(r) \/ ForgetRelation(r) PROVE FALSE
        BY <2>5 DEF ForgetRecord, ForgetRelation
    <2> QED BY <1>3, <2>0, <2>1, <2>2, <2>3, <2>4, <2>5 DEF Remove
<1>4. CASE Relations
    <2>0. file' = file
        BY <1>4 DEF Relations, CutPanic, CutRecord, CutLink, Uncut, BeginRelations, BeginRelation,
                    BeginCutRelation, LinkPanic, LinkRef, Relate, Decides
    <2>1. ASSUME NEW c, CutPanic(c) \/ LinkPanic(c) PROVE FALSE
        BY <2>1 DEF CutPanic, LinkPanic, Run
    <2>2. ASSUME NEW c, CutRecord(c) \/ CutLink(c) \/ Uncut PROVE Same
        <3>1. /\ run.pc \in {"cut", "uncut"} /\ run'.pc \in {"cut", "uncut"}
              /\ run'.back = run.back /\ Walked
            <4>1. CASE CutRecord(c)
                BY <4>1 DEF CutRecord, Cutting, Walked, Run
            <4>2. CASE CutLink(c)
                BY <4>2 DEF CutLink, Cutting, Walked, Run
            <4>3. CASE Uncut
                BY <4>3 DEF Uncut, Walked, Run
            <4> QED BY <2>2, <4>1, <4>2, <4>3
        <3> QED BY <3>1 DEF Phase
    <2>3. ASSUME NEW r, BeginRelation(r) \/ BeginCutRelation(r) PROVE Same
        <3>1. CASE BeginRelation(r)
            <4>1. /\ run.pc = "relation" \/ (run.pc = "cut" /\ run.back = "relation")
                  /\ run'.pc = "refs" /\ Walked
                BY <3>1 DEF BeginRelation, AtRelation, Walked, Run
            <4> QED BY <4>1 DEF Phase
        <3>2. CASE BeginCutRelation(r)
            <4>1. /\ run.pc = "relation" \/ (run.pc = "cut" /\ run.back = "relation")
                  /\ run'.pc = "cut" /\ run'.back = "relation" /\ Walked
                BY <3>2 DEF BeginCutRelation, AtRelation, Walked, Run
            <4> QED BY <4>1 DEF Phase
        <3> QED BY <2>3, <3>1, <3>2
    <2>4. ASSUME NEW m, LinkRef(m) PROVE Same
        BY <2>4 DEF LinkRef, Phase, Walked, Run
    <2>5. ASSUME Relate PROVE Same
        <3>1. /\ run.pc = "relate" /\ run'.pc \in {"relation", "refs"} /\ Walked
            BY <2>5, ZenonT(30) DEF Relate, Walked, Run
        <3> QED BY <3>1 DEF Phase
    <2> QED BY <1>4, <2>0, <2>1, <2>2, <2>3, <2>4, <2>5 DEF Relations
<1> QED BY <1>1, <1>2, <1>3, <1>4 DEF Step

\* Every step keeps to it.
LEMMA ItineraryKept ==
    ASSUME Inv, Onward, Steady, Itinerary, [Next]_vars
    PROVE  Itinerary'
<1>t. /\ run \in Run /\ InHand /\ TypeInv /\ Narrows /\ Books /\ recs \subseteq Recs
      /\ WellFormed(file) /\ file.records \subseteq Datasets \X Models \X Names
    BY VersionsAssumption DEF Inv, TypeInv, TypeOK, Onward, File
<1> USE <1>t, RunFields
<1>1. ASSUME run'.pc \in {"idle", "panicked", "forget", "done"} PROVE Itinerary'
    BY <1>1 DEF Itinerary, WorkAhead, InputTracked, CutsOfHand, StaleCuts, Phase
<1>2. CASE Step /\ run'.pc \notin {"idle", "panicked", "forget", "done"}
    <2>0. file' = file
        BY <1>2, WorkSteps
    <2>1. WorkAhead'
        <3>1. ASSUME NEW d \in Datasets, BeginDataset(d) PROVE WorkAhead'
            <4>1. run'.pc = "record" /\ run'.ds = d /\ run'.groups = Groups(d)
                BY <1>2, <3>1 DEF BeginDataset, Run
            <4>2. Phase(run)' = "records" /\ run'.pc # "dataset"
                BY <4>1 DEF Phase
            <4>3. ASSUME NEW x \in file.records, x[1] = d PROVE x[2] \in Groups(d)
                BY <4>3 DEF WellFormed, Groups
            <4>q. QED BY <2>0, <4>1, <4>2, <4>3 DEF WorkAhead
        <3>2. ASSUME NEW g \in run.groups, BeginGroup(g) PROVE WorkAhead'
            <4> DEFINE todo == {g} \X Wanted(Declared(run.ds, g), SeedRecords(run.ds, g))
            <4>1. PICK doomed, snap :
                    run' = [run EXCEPT
                            !.groups = @ \ {g}, !.snap = snap, !.todo = todo,
                            !.work = IF HasLaterRelations(g) THEN @ \union todo ELSE @,
                            !.doomed = doomed]
                BY <3>2 DEF BeginGroup
            <4>2. run.cmd = "Reseed" => todo = {g} \X Declared(run.ds, g)
                BY DEF Wanted
            <4> HIDE DEF todo
            <4>3. /\ run'.pc = "record" /\ run.pc = "record" /\ run'.ds = run.ds /\ run'.cmd = run.cmd
                  /\ run'.groups = run.groups \ {g}
                  /\ run'.work = IF HasLaterRelations(g) THEN run.work \union todo ELSE run.work
                BY <3>2, <4>1 DEF BeginGroup, GroupDone, Run
            <4>4. Phase(run) = "records" /\ Phase(run)' = "records"
                BY <4>3 DEF Phase
            <4>5. ASSUME run.cmd = "Reseed", NEW x \in file.records, x[1] = run.ds, HasLaterRelations(x[2])
                  PROVE  x[2] \in run'.groups \/ <<x[2], x[3]>> \in run'.work
                <5>1. CASE x[2] = g
                    <6>1. x[3] \in Declared(run.ds, g)
                        BY <4>5, <5>1 DEF Declared
                    <6> QED BY <4>2, <4>3, <4>5, <5>1, <6>1
                <5>2. CASE x[2] # g
                    BY <4>3, <4>4, <4>5, <5>2 DEF Itinerary, WorkAhead
                <5> QED BY <5>1, <5>2
            <4> QED BY <2>0, <4>3, <4>4, <4>5 DEF WorkAhead, HasLaterRelations, RelsOf
        <3>3. CASE EndGroups
            <4>1. run'.pc = IF run.cmd = "Unseed" THEN "dataset" ELSE "relation"
                BY <3>3 DEF EndGroups, Run
            <4>2. run'.cmd = run.cmd
                BY <3>3 DEF EndGroups, Run
            <4> QED BY <4>1, <4>2 DEF WorkAhead, Phase
        <3>4. ASSUME NEW x \in run.work, BeginRelations(x) PROVE WorkAhead'
            <4>1. run'.pc = "relation"
                BY <1>2, <3>4, ZenonT(30) DEF BeginRelations, Run
            <4> QED BY <4>1 DEF WorkAhead, Phase
        <3>5. CASE BeginGone
            <4>1. run'.pc = "gone" /\ run'.work = {}
                BY <3>5 DEF BeginGone, Run
            <4> QED BY <4>1 DEF WorkAhead, Phase
        <3>6. CASE Walked /\ Phase(run) = "gone" /\ Phase(run') = "stale"
            BY <3>6 DEF Itinerary, WorkAhead, Walked, Phase
        <3>7. CASE Walked /\ Phase(run) = Phase(run') /\ run'.pc # "dataset"
            <4>1. Phase(run)' = Phase(run)
                BY <3>7 DEF Phase
            <4> QED BY <2>0, <3>7, <4>1 DEF Itinerary, WorkAhead, Walked, HasLaterRelations, RelsOf
        <3> QED BY <1>2, <3>1, <3>2, <3>3, <3>4, <3>5, <3>6, <3>7, WorkSteps
    <2>2. InputTracked'
        <3>1. ASSUME NEW x \in run.todo, Insert(x) \/ Recreate(x) \/ Update(x) PROVE InputTracked'
            <4>1. CASE Insert(x) \/ Recreate(x)
                <5>1. run' = Taking(x, NoId)
                    BY <4>1 DEF Insert, Recreate
                <5>2. run'.rec.id = NoId
                    BY <5>1 DEF Taking, Run
                <5> QED BY <5>2 DEF InputTracked
            <4>2. CASE Update(x)
                <5>1. PICK q \in Known(x) : run' = Taking(x, q.id)
                    BY <4>2 DEF Update
                <5>2. run'.rec = [ds |-> run.ds, group |-> x[1], name |-> x[2], id |-> q.id]
                    BY <5>1 DEF Taking, Run
                <5>3. q \in run.snap /\ q.ds = run.ds /\ q.group = x[1] /\ q.name = x[2] /\ q \in Records
                    BY <5>1 DEF Known, Books, Recs
                <5>4. run'.rec = q
                    BY <5>2, <5>3 DEF Records
                <5>5. InSeed(run) /\ recs' = recs
                    BY <4>2 DEF Update, InSeed, Phase, Decides
                <5>6. <<q.group, q.name>> = x
                    BY <5>3
                <5> QED BY <5>3, <5>4, <5>5, <5>6 DEF InputTracked, Onward, StillThere
            <4> QED BY <3>1, <4>1, <4>2
        <3>2. ASSUME NEW r \in run.keys, InputRelation(r) PROVE InputTracked'
            <4>1. run.pc = "input" /\ run'.rec = run.rec /\ recs' = recs
                BY <3>2 DEF InputRelation, Run
            <4> QED BY <4>1 DEF Itinerary, InputTracked
        <3> QED BY <1>2, <3>1, <3>2, WhereTo DEF InputTracked
    <2>3. CutsOfHand'
        <3>0. ASSUME run.pc \in {"cut", "uncut"}, run'.cuts \subseteq run.cuts, run'.rec = run.rec,
                     run'.back = run.back, run'.ds = run.ds
              PROVE  CutsOfHand'
            BY <2>0, <3>0 DEF Itinerary, CutsOfHand, Refs
        <3>1. ASSUME NEW r \in run.doomed, BeginRemove(r) PROVE CutsOfHand'
            <4>1. run'.cuts = Touching(r) /\ run'.rec = r /\ run'.back # "relation"
                BY <3>1 DEF BeginRemove, Removing, Run
            <4> QED BY <4>1 DEF CutsOfHand, Touching
        <3>2. ASSUME NEW c \in run.cuts, CutRecord(c) \/ CutLink(c) PROVE CutsOfHand'
            <4>1. CutRecord(c) => CutsOfHand'
                BY <3>0 DEF CutRecord, Cutting, Run
            <4>2. CutLink(c) => CutsOfHand'
                BY <3>0 DEF CutLink, Cutting, Run
            <4> QED BY <3>2, <4>1, <4>2
        <3>3. ASSUME NEW r \in run.keys, BeginCutRelation(r) PROVE CutsOfHand'
            <4>1. /\ run'.cuts = TouchingBy(run.rec, r) /\ run'.rec = run.rec /\ run'.ds = run.ds
                  /\ Refs(run.ds, run.rec.name, r) = {}
                BY <3>3 DEF BeginCutRelation, Run
            <4> QED BY <2>0, <4>1 DEF CutsOfHand, TouchingBy, Refs
        <3>4. CASE Uncut
            BY <3>0, <3>4 DEF Uncut, Run
        <3> QED BY <1>2, <3>1, <3>2, <3>3, <3>4, WhereTo DEF CutsOfHand
    <2>4. StaleCuts'
        <3>1. CASE BeginStale
            <4>1. /\ run'.ds = run.ds
                  /\ \A c \in run'.cuts : c.ds = run.ds /\ ~({c.ga, c.gb} \subseteq Groups(run.ds))
                BY <3>1 DEF BeginStale, Run
            <4> QED BY <2>0, <4>1 DEF StaleCuts, Groups
        <3>2. ASSUME NEW c, RemoveStale(c) PROVE StaleCuts'
            <4>1. run.pc = "stale" /\ run'.ds = run.ds /\ run'.cuts \subseteq run.cuts
                BY <3>2 DEF RemoveStale, Run
            <4> QED BY <2>0, <4>1 DEF Itinerary, StaleCuts, Groups
        <3> QED BY <1>2, <3>1, <3>2, WhereTo DEF StaleCuts
    <2> QED BY <2>1, <2>2, <2>3, <2>4 DEF Itinerary
<1>3. CASE Environment
    <2>1. run' = Idle \/ (run' = run /\ run.pc = "idle")
        BY <1>3 DEF Environment, Crash, Edit, Migrate, Purge, AppCreate, AppDelete
    <2>2. run'.pc = "idle"
        BY <2>1 DEF Idle
    <2> QED BY <2>2, <1>1
<1>4. ASSUME NEW start \in Starts, Begin(start) PROVE Itinerary'
    <2>1. run'.pc = "dataset" /\ run'.left = run'.sel
        BY <1>4 DEF Begin, Idle
    <2> QED BY <2>1 DEF Itinerary, WorkAhead, InputTracked, CutsOfHand, StaleCuts, Phase
<1>5. CASE UNCHANGED vars
    BY <1>5 DEF vars, Itinerary, WorkAhead, InputTracked, CutsOfHand, StaleCuts, Refs, Groups,
                HasLaterRelations, RelsOf, Phase
<1> QED BY <1>1, <1>2, <1>3, <1>4, <1>5 DEF Next

-------------------------------------------------------------------------------
\* What the input has set up, of the relations it is done with and of no other.
Entry == <<run.rec.group, run.rec.name>>
Points(x, r) ==
    \E m \in Refs(run.ds, run.rec.name, r) : \E b \in Found(run.ds, Schema[r].target, m) :
        x = <<Schema[r].via, RowOf(b)>>
InputBuilt ==
    run.pc = "input" =>
        /\ \A x \in run.fks : \E r \in RequiredRefs(Entry) : Points(x, r)
        /\ \A r \in RequiredRefs(Entry) \ run.keys : \E x \in run.fks : Points(x, r)

\* Every step of the input keeps its keys so.
LEMMA InputBuiltKept ==
    ASSUME OwnColumns, Inv, Steady, InputBuilt, [Next]_vars
    PROVE  InputBuilt'
<1>t. run \in Run /\ TypeInv
    BY DEF Inv, TypeInv, TypeOK
<1> USE <1>t, RunFields
<1>1. ASSUME Step, run'.pc = "input" PROVE InputBuilt'
    <2>1. ASSUME NEW x \in run.todo, Insert(x) \/ Recreate(x) \/ Update(x) PROVE InputBuilt'
        <3>1. PICK id : run' = Taking(x, id)
            BY <2>1 DEF Insert, Recreate, Update
        <3>2. /\ run'.fks = {} /\ run'.keys = RequiredRefs(x) /\ run'.ds = run.ds
              /\ run'.rec = [ds |-> run.ds, group |-> x[1], name |-> x[2], id |-> id]
            BY <3>1 DEF Taking, Run
        <3>3. file' = file
            BY <2>1 DEF Insert, Recreate, Update, Decides
        <3>4. RequiredRefs(<<run.rec.group, run.rec.name>>)' = RequiredRefs(x)
            BY <3>2, <3>3 DEF RequiredRefs, RelsOf, Refs
        <3> QED BY <3>2, <3>4 DEF InputBuilt, Entry
    <2>2. ASSUME NEW r \in run.keys, InputRelation(r) PROVE InputBuilt'
        <3>0. /\ run.pc = "input" /\ recs' = recs /\ file' = file
              /\ r \in RequiredRefs(Entry) /\ run.keys \subseteq RequiredRefs(Entry)
            BY <2>2 DEF InputRelation, Steady, Handling, InputDeclared, Entry
        <3>p. PICK m \in Refs(run.ds, run.rec.name, r) : \E to \in FoundRows(run.ds, Schema[r].target, m) :
                run' = [run EXCEPT !.keys = @ \ {r},
                            !.fks = {x \in @ : x[1] # Schema[r].via} \union {<<Schema[r].via, to>>}]
            <4>1. PICK m \in Refs(run.ds, run.rec.name, r) :
                    IF FoundRows(run.ds, Schema[r].target, m) = {}
                    THEN run' = [run EXCEPT !.pc = "panicked"]
                    ELSE \E to \in FoundRows(run.ds, Schema[r].target, m) :
                        run' = [run EXCEPT !.keys = @ \ {r},
                            !.fks = {x \in @ : x[1] # Schema[r].via} \union {<<Schema[r].via, to>>}]
                BY <2>2 DEF InputRelation
            <4>2. run' # [run EXCEPT !.pc = "panicked"]
                BY <1>1 DEF Run
            <4> QED BY <4>1, <4>2
        <3>1. PICK to \in FoundRows(run.ds, Schema[r].target, m) :
                run' = [run EXCEPT !.keys = @ \ {r},
                            !.fks = {x \in @ : x[1] # Schema[r].via} \union {<<Schema[r].via, to>>}]
            BY <3>p
        <3>2. /\ run'.keys = run.keys \ {r} /\ run'.ds = run.ds /\ run'.rec = run.rec
              /\ run'.fks = {x \in run.fks : x[1] # Schema[r].via} \union {<<Schema[r].via, to>>}
            BY <3>1 DEF Run
        <3>3. RequiredRefs(Entry)' = RequiredRefs(Entry)
            BY <3>0, <3>2 DEF RequiredRefs, RelsOf, Refs, Entry
        <3>4. \A x, s : Points(x, s)' <=> Points(x, s)
            BY <3>0, <3>2 DEF Points, Refs, Found, RowOf
        <3>5. Points(<<Schema[r].via, to>>, r)
            BY DEF Points, FoundRows
        <3>6. ASSUME NEW s \in RequiredRefs(Entry) \ run'.keys
              PROVE  \E x \in run'.fks : Points(x, s)
            <4>1. CASE s = r
                BY <3>2, <3>5, <4>1
            <4>2. CASE s # r
                <5>1. PICK x \in run.fks : Points(x, s)
                    BY <3>0, <3>2, <4>2 DEF InputBuilt
                <5>2. x[1] = Schema[s].via
                    BY <5>1 DEF Points
                <5>3. Schema[s].via # Schema[r].via
                    BY <3>0, <4>2 DEF OwnColumns, RequiredRefs, RelsOf, HasKey
                <5> QED BY <3>2, <5>1, <5>2, <5>3
            <4> QED BY <4>1, <4>2
        <3>7. ASSUME NEW x \in run'.fks PROVE \E s \in RequiredRefs(Entry) : Points(x, s)
            BY <3>0, <3>2, <3>5, <3>7 DEF InputBuilt
        <3> QED BY <3>3, <3>4, <3>6, <3>7 DEF InputBuilt
    <2> QED BY <1>1, <2>1, <2>2, WhereTo
<1>2. CASE Environment
    <2>1. run' = Idle \/ (run' = run /\ run.pc = "idle")
        BY <1>2 DEF Environment, Crash, Edit, Migrate, Purge, AppCreate, AppDelete
    <2> QED BY <2>1 DEF Idle, InputBuilt
<1>3. ASSUME NEW start \in Starts, Begin(start) PROVE InputBuilt'
    BY <1>3 DEF Begin, Idle, InputBuilt
<1>4. CASE UNCHANGED vars
    <2>1. UNCHANGED <<run, recs, file>>
        BY <1>4 DEF vars
    <2>2. RequiredRefs(Entry)' = RequiredRefs(Entry)
        BY <2>1 DEF RequiredRefs, RelsOf, Refs, Entry
    <2>3. \A x, s : Points(x, s)' <=> Points(x, s)
        BY <2>1 DEF Points, Refs, Found, RowOf
    <2> QED BY <2>1, <2>2, <2>3 DEF InputBuilt
<1>5. run'.pc # "input" => InputBuilt'
    BY DEF InputBuilt
<1> QED BY <1>1, <1>2, <1>3, <1>4, <1>5 DEF Next

\* A DataSetRelation comes from a reference of the files.
Origin == \A c \in rels : \E f \in Versions : <<c.ds, c.na, c.ra, c.nb>> \in f.refs

\* It stays so, though the reference may leave the files.
LEMMA OriginKept ==
    ASSUME Inv, Steady, Origin, [Next]_vars
    PROVE  Origin'
<1>1. rels' \subseteq rels => Origin'
    BY DEF Origin
<1>2. ASSUME NEW r, NEW m \in Refs(run.ds, run.rec.name, r), run.rec.ds = run.ds,
             rels' = Remembering(run.rec, r, m)
      PROVE  Origin'
    <2> DEFINE c == RelationRecord(run.rec, r, m)
    <2>1. rels' \subseteq rels \union {c}
        BY <1>2 DEF Remembering
    <2>2. <<c.ds, c.na, c.ra, c.nb>> \in file.refs /\ file \in Versions
        BY <1>2 DEF RelationRecord, Refs, Inv, TypeInv, TypeOK
    <2> HIDE DEF c
    <2> QED BY <2>1, <2>2 DEF Origin
<1>3. run.pc = "input" => run.rec.ds = run.ds
    BY DEF Inv, Books
<1>4. run.pc = "relate" => run.rec.ds = run.ds /\ run.that \in Refs(run.ds, run.rec.name, run.rel)
    BY DEF Steady, Handling, RecordWalked, Walking, RelationWalked
<1> QED BY <1>1, <1>2, <1>3, <1>4, RelsSteps

\* What a step takes from the DataSetRelation table, and what it adds to the
\* join tables and the DataSetRecord table.
LEMMA TablesSteps ==
    ASSUME [Next]_vars
    PROVE  /\ \/ rels \subseteq rels'
              \/ \E c \in run.cuts : CutRecord(c) \/ RemoveStale(c)
              \/ Uncut
              \/ \E c \in rels : ForgetRelation(c)
              \/ Purge
           /\ joins' \subseteq joins \/ \E m \in run.refs : LinkRef(m)
           /\ recs' \subseteq recs \/ Track
<1>1. CASE Setup
    BY <1>1 DEF Setup, BeginDataset, BeginGroup, EndGroups, BeginForget, Finish, Exit, Decides, data
<1>2. CASE Upsert
    BY <1>2 DEF Upsert, Insert, Recreate, Update, InputRelation, SaveNewRow, SaveNewRowAs,
                SaveUpdatedRow, Track, Decides, data, Remembering
<1>3. CASE Remove
    BY <1>3 DEF Remove, RemoveGone, BeginRemove, RemoveRow, Untrack, BeginGone, BeginStale,
                RemoveStale, ForgetRecord, Decides, data, ForgetRelation
<1>4. CASE Relations
    BY <1>4 DEF Relations, CutPanic, CutRecord, CutLink, Uncut, BeginRelations, BeginRelation,
                BeginCutRelation, LinkPanic, LinkRef, Relate, Decides, data, Remembering
<1>5. CASE Environment
    BY <1>5 DEF Environment, Crash, Edit, Migrate, Purge, AppCreate, AppDelete, Decides, Without, data
<1>6. ASSUME NEW start \in Starts, Begin(start)
      PROVE  rels \subseteq rels' /\ joins' \subseteq joins /\ recs' \subseteq recs
    BY <1>6 DEF Begin, Decides, data
<1> QED BY <1>1, <1>2, <1>3, <1>4, <1>5, <1>6 DEF Next, Step, vars, data

\* A link is remembered at once.
LEMMA RelateNext ==
    ASSUME run.pc = "relate", Step
    PROVE  Relate
BY DEF Step, Setup, BeginDataset, BetweenDatasets, BeginGroup, GroupDone, EndGroups, BeginForget,
        Finish, Exit, Upsert, Insert, Recreate, Update, InputRelation, SaveNewRow, Inserting,
        SaveUpdatedRow, Track, Remove, RemoveGone, BeginRemove, Removing, RemoveRow, Untrack,
        BeginGone, AtRelation, BeginStale, RemoveStale, ForgetRecord, ForgetRelation, Relations,
        CutPanic, Cutting, CutRecord, CutLink, Uncut, BeginRelations, BeginRelation,
        BeginCutRelation, LinkPanic, LinkRef, Relate

\* What is cut touches the record in hand, which is tracked.
LEMMA HandTracked ==
    ASSUME Onward, DoomedTracked, Steady, run.pc \in {"cut", "uncut"}
    PROVE  run.rec \in recs /\ run.rec.ds = run.ds
<1>1. CASE run.back = "relation"
    BY <1>1 DEF Steady, Handling, RecordWalked, Walking
<1>2. CASE run.back # "relation"
    <2>1. run.rec \in ToRemove(run)
        BY <1>2 DEF ToRemove
    <2>2. InSeed(run)
        BY <1>2 DEF InSeed, Phase
    <2> QED BY <2>1, <2>2 DEF DoomedTracked, Onward, Justified
<1> QED BY <1>1, <1>2

-------------------------------------------------------------------------------
\* A link row between tracked rows is the one that a DataSetRelation stands for,
\* though this one is saved after the link is set and deleted after it is cut.
Remembers(c, x) ==
    /\ Schema[c.ra].kind = "join" /\ Schema[c.ra].via = x[1]
    /\ \E a \in Found(c.ds, c.ga, c.na), b \in Found(c.ds, c.gb, c.nb) : x[2] = {RowOf(a), RowOf(b)}
Held ==
    (rels \ (IF run.pc = "uncut" THEN {run.cut} ELSE {})) \union
    (IF run.pc = "relate" THEN {RelationRecord(run.rec, run.rel, run.that)} ELSE {})
Remembered == \A x \in joins : x[2] \subseteq TrackedRows => \E c \in Held : Remembers(c, x)

\* A link that a DataSetRelation stands for stays so while its rows are tracked.
LEMMA RemembersOn ==
    ASSUME Inv, recs' \subseteq recs, NEW c, NEW x, Remembers(c, x), x[2] \subseteq TrackedRows'
    PROVE  Remembers(c, x)'
<1>1. PICK a \in Found(c.ds, c.ga, c.na), b \in Found(c.ds, c.gb, c.nb) : x[2] = {RowOf(a), RowOf(b)}
    BY DEF Remembers
<1>2. ASSUME NEW q \in recs, RowOf(q) \in TrackedRows' PROVE q \in recs'
    <2>1. PICK s \in recs' : RowOf(s) = RowOf(q)
        BY <1>2 DEF TrackedRows, RowOf
    <2> QED BY <2>1 DEF Inv, OneRecordPerName
<1>3. a \in recs' /\ b \in recs'
    BY <1>1, <1>2 DEF Found
<1>4. a \in Found(c.ds, c.ga, c.na)' /\ b \in Found(c.ds, c.gb, c.nb)'
    BY <1>1, <1>3 DEF Found
<1>5. x[2] = {RowOf(a), RowOf(b)}'
    BY <1>1 DEF RowOf
<1>6. \E p \in Found(c.ds, c.ga, c.na)', q \in Found(c.ds, c.gb, c.nb)' : x[2] = {RowOf(p), RowOf(q)}'
    BY <1>4, <1>5
<1> QED BY <1>6 DEF Remembers, Found, RowOf

\* The link that c remembers is the one that cutting c deletes.
LEMMA CutsRemembered ==
    ASSUME Matched, SelfApart, Inv, Onward, DoomedTracked, Steady, Itinerary, EndsThere,
           NEW c \in run.cuts, run.pc = "cut", NEW x \in joins, Remembers(c, x)
    PROVE  /\ c \in rels /\ Schema[CutBy(c)].kind = "join"
           /\ \E other \in OtherRows(c) : Linked(c, other)
           /\ \A other \in OtherRows(c) : x = <<Schema[CutBy(c)].via, {RowOf(run.rec), other}>>
<1>1. PICK a \in Found(c.ds, c.ga, c.na), b \in Found(c.ds, c.gb, c.nb) : x[2] = {RowOf(a), RowOf(b)}
    BY DEF Remembers
<1>2. /\ c \in rels /\ c.ds = run.ds /\ Fits(c)
      /\ \/ c.ga = run.rec.group /\ c.na = run.rec.name
         \/ c.gb = run.rec.group /\ c.nb = run.rec.name
    BY DEF Steady, Handling, CutsThere, RelationsFit, Itinerary, CutsOfHand
<1>3. c.ra \in Rels /\ c \in RelRecs
    BY <1>2 DEF Inv, TypeInv, TypeOK, RelRecs
<1>4. c.ga # c.gb /\ Schema[c.ra].kind = "join" /\ Schema[c.ra].via = x[1]
    BY <1>2, <1>3 DEF Remembers, Fits, SelfApart
<1>5. /\ Schema[c.rb].kind = "join" /\ Schema[c.rb].via = x[1]
    <2>1. ~HasKey(c.ra)
        BY <1>4 DEF HasKey
    <2> QED BY <1>2, <1>3, <1>4, <2>1 DEF Fits, Matched
<1>6. run.rec \in recs /\ run.rec.ds = run.ds
    BY HandTracked
<1>7. RowOf(a) \in rows /\ RowOf(b) \in rows
    BY <1>1 DEF EndsThere
<1>8. x = <<x[1], x[2]>>
    BY DEF Inv, TypeInv, TypeOK
<1>9. \A q, s \in recs : <<q.ds, q.group, q.name>> = <<s.ds, s.group, s.name>> => q = s
    BY DEF Inv, OneRecordPerName
<1>10. CASE AsA(c)
    <2>1. run.rec = a /\ CutBy(c) = c.ra
        BY <1>1, <1>2, <1>4, <1>6, <1>9, <1>10 DEF AsA, Found, CutBy
    <2>2. OtherRows(c) = FoundRows(run.ds, c.gb, c.nb)
        BY <1>10 DEF OtherRows
    <2>3. Found(run.ds, c.gb, c.nb) = {b}
        BY <1>1, <1>2, <1>9 DEF Found
    <2>4. OtherRows(c) = {RowOf(b)}
        BY <1>7, <2>2, <2>3 DEF FoundRows
    <2> QED BY <1>1, <1>2, <1>4, <1>8, <2>1, <2>4 DEF Linked
<1>11. CASE ~AsA(c)
    <2>1. run.rec = b /\ CutBy(c) = c.rb
        BY <1>1, <1>2, <1>4, <1>6, <1>9, <1>11 DEF AsA, Found, CutBy
    <2>2. OtherRows(c) = FoundRows(run.ds, c.ga, c.na)
        BY <1>11 DEF OtherRows
    <2>3. Found(run.ds, c.ga, c.na) = {a}
        BY <1>1, <1>2, <1>9 DEF Found
    <2>4. OtherRows(c) = {RowOf(a)}
        BY <1>7, <2>2, <2>3 DEF FoundRows
    <2> QED BY <1>1, <1>2, <1>5, <1>8, <2>1, <2>4 DEF Linked
<1> QED BY <1>10, <1>11

\* No step leaves a link row unremembered between tracked rows: LinkRef is
\* followed by Relate at once, and CutLink deletes what Uncut will forget.
LEMMA RememberedKept ==
    ASSUME Matched, SelfApart, JoinsKept, Inv, Onward, DoomedTracked, Steady, Itinerary,
           RowInHand, EndsThere, Remembered, [Next]_vars
    PROVE  Remembered'
<1>t. /\ run \in Run /\ TypeInv /\ InHand /\ recs \subseteq Recs
      /\ joins \subseteq Columns \X SUBSET Rows /\ rels \subseteq RelRecs
      /\ \A q, s \in recs : <<q.ds, q.group, q.name>> = <<s.ds, s.group, s.name>> => q = s
    BY DEF Inv, TypeInv, TypeOK, OneRecordPerName
<1> USE <1>t, RunFields
<1>0. ASSUME recs' \subseteq recs,
             \A x \in joins' : x[2] \subseteq TrackedRows' =>
                \E c \in Held' : Remembers(c, x)
      PROVE  Remembered'
    BY <1>0, RemembersOn DEF Remembered
\* The steps of a run.
<1>1. ASSUME Step, recs' \subseteq recs, joins' \subseteq joins, rels \subseteq rels',
             run.pc # "relate", ~\E c \in run.cuts : CutLink(c)
      PROVE  Remembered'
    <2>1. run'.pc # "uncut"
        <3>1. ASSUME NEW r, BeginRemove(r) \/ CutRecord(r) \/ Uncut \/ BeginCutRelation(r)
              PROVE  run'.pc # "uncut"
            BY <3>1 DEF BeginRemove, CutRecord, Cutting, Uncut, BeginCutRelation, Run
        <3> QED BY <1>1, <3>1, WhereTo
    <2>2. Held \subseteq Held'
        BY <1>1, <2>1 DEF Held
    <2>3. \A x \in joins' : x[2] \subseteq TrackedRows' => x[2] \subseteq TrackedRows
        BY <1>1 DEF TrackedRows, RowOf
    <2> QED BY <1>0, <1>1, <2>2, <2>3 DEF Remembered
<1>2. CASE Track
    <2>1. /\ joins' = joins /\ rels' = rels /\ recs' = recs \union {run.rec}
          /\ run.pc = "track" /\ run'.pc = "record"
        BY <1>2 DEF Track, data, Run
    <2>2. Held' = Held
        BY <2>1 DEF Held
    <2>3. ASSUME NEW x \in joins, x[2] \subseteq TrackedRows' PROVE x[2] \subseteq TrackedRows
        <3>1. TrackedRows' = TrackedRows \union {RowOf(run.rec)}
            BY <2>1 DEF TrackedRows, RowOf
        <3> QED BY <2>1, <2>3, <3>1 DEF EndsThere
    <2>4. ASSUME NEW c, NEW x, Remembers(c, x) PROVE Remembers(c, x)'
        <3>1. \A d, g, n : Found(d, g, n) \subseteq Found(d, g, n)'
            BY <2>1 DEF Found
        <3> QED BY <2>4, <3>1 DEF Remembers, RowOf
    <2> QED BY <2>1, <2>2, <2>3, <2>4 DEF Remembered
<1>3. ASSUME NEW c \in run.cuts, CutRecord(c) PROVE Remembered'
    <2>1. /\ run.pc = "cut" /\ run'.pc = "cut" /\ rels' = rels \ {c}
          /\ joins' = joins /\ recs' = recs
        BY <1>3 DEF CutRecord, Cutting, data, Run
    <2>2. Held = rels /\ Held' = rels \ {c}
        BY <2>1 DEF Held
    <2>3. ASSUME NEW x \in joins, Remembers(c, x) PROVE FALSE
        <3>1. /\ Schema[CutBy(c)].kind = "join"
              /\ \E other \in OtherRows(c) : Linked(c, other)
            BY <2>1, <2>3, CutsRemembered
        <3> QED BY <1>3, <3>1 DEF CutRecord, HasKey
    <2>4. TrackedRows' = TrackedRows
        BY <2>1 DEF TrackedRows, RowOf
    <2> QED BY <1>0, <2>1, <2>2, <2>3, <2>4 DEF Remembered
<1>4. ASSUME NEW c \in run.cuts, CutLink(c) PROVE Remembered'
    <2>1. /\ run.pc = "cut" /\ run'.pc = "uncut" /\ run'.cut = c /\ rels' = rels /\ recs' = recs
        BY <1>4 DEF CutLink, Cutting, Run
    <2>2. Held = rels /\ Held' = rels \ {c}
        BY <2>1 DEF Held
    <2>3. joins' \subseteq joins
        BY <1>4 DEF CutLink
    <2>4. ASSUME NEW x \in joins', Remembers(c, x) PROVE FALSE
        <3>1. /\ Schema[CutBy(c)].kind = "join"
              /\ \A other \in OtherRows(c) : x = <<Schema[CutBy(c)].via, {RowOf(run.rec), other}>>
            BY <2>1, <2>3, <2>4, CutsRemembered
        <3> QED BY <1>4, <3>1 DEF CutLink
    <2>5. TrackedRows' = TrackedRows
        BY <2>1 DEF TrackedRows, RowOf
    <2> QED BY <1>0, <2>1, <2>2, <2>3, <2>4, <2>5 DEF Remembered
<1>5. CASE Uncut
    <2>1. /\ run.pc = "uncut" /\ run'.pc = "cut" /\ rels' = rels \ {run.cut}
          /\ joins' = joins /\ recs' = recs
        BY <1>5 DEF Uncut, data, Run
    <2>2. Held' = Held /\ TrackedRows' = TrackedRows
        BY <2>1 DEF Held, TrackedRows, RowOf
    <2> QED BY <1>0, <2>1, <2>2 DEF Remembered
<1>6. ASSUME NEW c \in run.cuts, RemoveStale(c) PROVE Remembered'
    <2>1. /\ run.pc = "stale" /\ run'.pc = "stale" /\ rels' = rels \ {c}
          /\ joins' = joins /\ recs' = recs
        BY <1>6 DEF RemoveStale, data, Run
    <2>2. Held = rels /\ Held' = rels \ {c}
        BY <2>1 DEF Held
    <2>3. c.ds = run.ds /\ ~({c.ga, c.gb} \subseteq Groups(run.ds))
        BY <2>1 DEF Itinerary, StaleCuts
    <2>4. ASSUME NEW q \in recs, q.ds = run.ds PROVE q.group \in Groups(run.ds)
        <3>1. Phase(run) = "stale" /\ InSeed(run)
            BY <2>1 DEF Phase, InSeed
        <3>2. ToRemove(run) = {}
            BY <2>1, <3>1 DEF ToRemove, Onward, Narrows
        <3>3. Triple(q) \in file.records \/ q.group \in Groups(run.ds)
            BY <2>4, <3>1, <3>2 DEF Onward, Progress
        <3> QED BY <2>4, <3>3, Typed DEF Triple, Groups
    <2>5. ASSUME NEW x, Remembers(c, x) PROVE FALSE
        BY <2>3, <2>4, <2>5 DEF Remembers, Found
    <2>6. TrackedRows' = TrackedRows
        BY <2>1 DEF TrackedRows, RowOf
    <2> QED BY <1>0, <2>1, <2>2, <2>5, <2>6 DEF Remembered
<1>7. ASSUME NEW c \in rels, ForgetRelation(c) PROVE Remembered'
    <2>1. /\ run.pc = "forget" /\ run'.pc = "forget" /\ rels' = rels \ {c}
          /\ joins' = joins /\ recs' = recs
          /\ c.ds \notin run.sel /\ \A q \in recs : q.ds \in run.sel
        BY <1>7 DEF ForgetRelation, data
    <2>2. Held = rels /\ Held' = rels \ {c}
        BY <2>1 DEF Held
    <2>3. ASSUME NEW x, Remembers(c, x) PROVE FALSE
        BY <2>1, <2>3 DEF Remembers, Found
    <2>4. TrackedRows' = TrackedRows
        BY <2>1 DEF TrackedRows, RowOf
    <2> QED BY <1>0, <2>1, <2>2, <2>3, <2>4 DEF Remembered
<1>8. ASSUME NEW m \in run.refs, LinkRef(m) PROVE Remembered'
    <2> DEFINE c == RelationRecord(run.rec, run.rel, m)
    <2>1. /\ run.pc = "refs" /\ run'.pc = "relate" /\ run'.rec = run.rec /\ run'.rel = run.rel
          /\ run'.that = m /\ rels' = rels /\ recs' = recs
        BY <1>8 DEF LinkRef, Run
    <2>2. Held = rels /\ Held' = rels \union {c}
        BY <2>1 DEF Held, RelationRecord
    <2>3. PICK that \in FoundRows(run.ds, Schema[run.rel].target, m) :
            SetLink(run.rel, RowOf(run.rec), that)
        BY <1>8 DEF LinkRef
    <2>4. run.rec \in recs /\ run.rec.ds = run.ds /\ run.rel \in Rels
        BY <2>1 DEF Steady, Handling, RecordWalked, Walking, RelationWalked, RelsOf
    <2>5. PICK b \in Found(run.ds, Schema[run.rel].target, m) : that = RowOf(b)
        BY <2>3 DEF FoundRows
    <2>6. Schema[run.rel].kind \in {"required", "optional", "foreign", "join"}
        BY <2>4, SchemaAssumption DEF Relation
    <2>7. ASSUME NEW x \in joins', x \notin joins PROVE Remembers(c, x)
        <3>1. /\ Schema[run.rel].kind = "join"
              /\ x = <<Schema[run.rel].via, {RowOf(run.rec), that}>>
            BY <2>3, <2>6, <2>7 DEF SetLink
        <3>2. run.rec \in Found(c.ds, c.ga, c.na) /\ b \in Found(c.ds, c.gb, c.nb)
            BY <2>4, <2>5 DEF RelationRecord, Found
        <3>3. c.ra = run.rel
            BY DEF RelationRecord
        <3> QED BY <2>5, <3>1, <3>2, <3>3 DEF Remembers
    <2>8. TrackedRows' = TrackedRows
        BY <2>1 DEF TrackedRows, RowOf
    <2> HIDE DEF c
    <2> QED BY <1>0, <2>1, <2>2, <2>7, <2>8 DEF Remembered
<1>9. CASE Relate
    <2> DEFINE c == RelationRecord(run.rec, run.rel, run.that)
    <2>1. /\ run.pc = "relate" /\ run'.pc \in {"relation", "refs"} /\ recs' = recs /\ joins' = joins
        BY <1>9, ZenonT(30) DEF Relate, data, Run
    <2>2. Held = rels \union {c} /\ Held' = rels'
        BY <2>1 DEF Held
    <2>3. rels' = IF Related(run.rec, run.rel, run.that) THEN rels ELSE rels \union {c}
        BY <1>9 DEF Relate, Remembering
    <2>4. run.rel \in RelsOf(run.rec.group)
        BY <2>1 DEF Steady, Handling, RelationWalked
    <2>5. ASSUME NEW x, Remembers(c, x), Related(run.rec, run.rel, run.that)
          PROVE  \E e \in rels : Remembers(e, x)
        <3>1. /\ Schema[run.rel].kind = "join" /\ Schema[run.rel].via = x[1]
              /\ \E a \in Found(run.rec.ds, run.rec.group, run.rec.name),
                    b \in Found(run.rec.ds, Schema[run.rel].target, run.that) : x[2] = {RowOf(a), RowOf(b)}
            BY <2>5 DEF Remembers, RelationRecord
        <3>2. ASSUME NEW e \in rels, e.ds = run.rec.ds, e.ga = run.rec.group, e.ra = run.rel,
                     e.na = run.rec.name, e.gb = Schema[run.rel].target, e.nb = run.that
              PROVE  Remembers(e, x)
            BY <3>1, <3>2 DEF Remembers
        <3>3. ASSUME NEW e \in rels, e.ds = run.rec.ds, e.gb = run.rec.group, e.rb = run.rel,
                     e.nb = run.rec.name, e.ga = Schema[run.rel].target, e.na = run.that
              PROVE  Remembers(e, x)
            <4>1. e.ra \in Rels /\ Schema[e.ra].opposite = run.rel
                BY <3>3 DEF RelRecs, Steady, RelationsFit, Fits
            <4>2. run.rel \in Rels /\ run.rel # None
                BY <2>4, NoneAssumption DEF RelsOf
            <4>3. Schema[e.ra].kind = "join" /\ Schema[e.ra].via = x[1]
                BY <3>1, <4>1, <4>2 DEF Matched
            <4>4. PICK a \in Found(e.ds, e.gb, e.nb), b \in Found(e.ds, e.ga, e.na) : x[2] = {RowOf(a), RowOf(b)}
                BY <3>1, <3>3
            <4>5. x[2] = {RowOf(b), RowOf(a)}
                BY <4>4
            <4> QED BY <4>3, <4>4, <4>5 DEF Remembers
        <3> QED BY <2>5, <3>2, <3>3 DEF Related
    <2>6. TrackedRows' = TrackedRows
        BY <2>1 DEF TrackedRows, RowOf
    <2> HIDE DEF c
    <2>7. ASSUME NEW x \in joins, x[2] \subseteq TrackedRows PROVE \E e \in rels' : Remembers(e, x)
        BY <2>2, <2>3, <2>5, <2>7 DEF Remembered
    <2> QED BY <1>0, <2>1, <2>2, <2>6, <2>7
\* What is done to the tables between two runs, and what ends one.
<1>10. ASSUME Environment \/ \E start \in Starts : Begin(start) PROVE Remembered'
    <2>1. joins' \subseteq joins /\ recs' \subseteq recs /\ (rels' = rels \/ joins' = {})
        BY <1>10 DEF Environment, Crash, Edit, Migrate, Purge, AppCreate, AppDelete, Decides, Without,
                     data, Begin
    <2>2. run'.pc \in {"idle", "dataset"}
        <3>1. Environment => run' = Idle \/ (run' = run /\ run.pc = "idle")
            BY DEF Environment, Crash, Edit, Migrate, Purge, AppCreate, AppDelete
        <3>2. Idle.pc = "idle"
            BY DEF Idle
        <3>3. (\E start \in Starts : Begin(start)) => run'.pc = "dataset"
            BY DEF Begin, Idle
        <3> QED BY <1>10, <3>1, <3>2, <3>3
    <2>3. Held' = rels'
        BY <2>2 DEF Held
    <2>4. ASSUME NEW x \in joins, x[2] \subseteq TrackedRows PROVE \E c \in rels : Remembers(c, x)
        <3>1. PICK c \in Held : Remembers(c, x)
            BY <2>4 DEF Remembered
        <3>2. CASE run.pc # "relate"
            BY <3>1, <3>2 DEF Held
        <3>3. CASE run.pc = "relate"
            <4>1. Crash
                BY <1>10, <3>3 DEF Begin, Environment, Edit, Migrate, Purge, AppCreate, AppDelete
            <4>2. \E r \in Rels : Schema[r].kind = "join"
                <5>1. run.rel \in Rels
                    BY <3>3 DEF InHand
                <5>2. c.ra \in Rels
                    BY <3>1, <3>3, <5>1 DEF Held, RelationRecord, RelRecs
                <5> QED BY <3>1, <5>2 DEF Remembers
            <4> QED BY <4>1, <4>2 DEF Crash, JoinsKept
        <3> QED BY <3>2, <3>3
    <2>5. \A x \in joins' : x[2] \subseteq TrackedRows' => x[2] \subseteq TrackedRows
        BY <2>1 DEF TrackedRows, RowOf
    <2> QED BY <1>0, <2>1, <2>3, <2>4, <2>5
<1>11. CASE UNCHANGED vars
    <2>1. UNCHANGED <<run, recs, rels, joins>>
        BY <1>11 DEF vars, data
    <2>2. Held' = Held /\ TrackedRows' = TrackedRows
        BY <2>1 DEF Held, RelationRecord, TrackedRows, RowOf
    <2> QED BY <1>0, <2>1, <2>2 DEF Remembered
<1>12. CASE Step
    <2>1. ~Purge
        <3>1. run.pc # "idle"
            BY <1>12, NoStepAtRest
        <3> QED BY <3>1 DEF Purge
    <2>2. run.pc = "relate" => Relate
        BY <1>12, RelateNext
    <2> QED BY <1>1, <1>2, <1>3, <1>4, <1>5, <1>6, <1>7, <1>8, <1>9, <1>12, <2>1, <2>2, TablesSteps
<1> QED BY <1>10, <1>11, <1>12 DEF Next

-------------------------------------------------------------------------------
\* What a Reseed has yet to do in the data sets that it has begun.
Reset(d) == run.cmd = "Reseed" /\ run.pc \notin {"idle", "panicked"} /\ d \in run.sel \ run.left

\* The records to save, the relations to walk, and of the one being walked the
\* references to set and the DataSetRelations to cut.
ToSave(d, g, n) ==
    /\ d = run.ds
    /\ \/ g \in run.groups \/ <<g, n>> \in run.todo
       \/ run.pc = "input" /\ Entry = <<g, n>>
ToWalk(d, g, n, r) ==
    /\ d = run.ds
    /\ \/ g \in run.groups \/ <<g, n>> \in run.work
       \/ Phase(run) = "relations" /\ Entry = <<g, n>> /\ r \in run.keys
ToSet(d, g, n, r, m) ==
    /\ d = run.ds
    /\ run.pc \in {"refs", "relate"} /\ Entry = <<g, n>> /\ run.rel = r /\ m \in run.refs
ToCut(c) ==
    /\ run.pc \in {"cut", "uncut"} /\ run.back = "relation"
    /\ c \in run.cuts \/ (run.pc = "uncut" /\ c = run.cut)
Ends(c) == {<<c.ga, c.na, c.ra>>, <<c.gb, c.nb, c.rb>>}

\* A step that writes no link and gets a record from one stage to the next: what
\* it takes off one list it puts on another, or it was on none.
Moves ==
    /\ UNCHANGED <<rows, fk, joins, file>>
    /\ rels' \subseteq rels /\ recs' \subseteq recs
    /\ run.pc \notin {"track", "refs", "relate", "uncut"} /\ run'.pc # "track"
    /\ run.pc = "cut" => run.cuts = {}
    /\ \A q \in recs \ recs' : RowOf(q) \notin rows \/ Triple(q) \notin file.records \/ ~Reset(q.ds)'
    /\ \A d \in Datasets, g \in Models, n \in Names : <<d, g, n>> \in file.records /\ Reset(d)' =>
        /\ ToSave(d, g, n)' \/ (Reset(d) /\ ~ToSave(d, g, n))
        /\ \A r \in RelsOf(g) : Schema[r].kind # "required" =>
            \/ ToWalk(d, g, n, r)' \/ (Reset(d) /\ ~ToWalk(d, g, n, r))
            \/ /\ \A m \in Refs(d, n, r) : ToSet(d, g, n, r, m)'
               /\ Refs(d, n, r) = {} =>
                    \A c \in rels : c.ds = d /\ <<g, n, r>> \in Ends(c) => ToCut(c)'

\* At the end of a data set nothing is left to do in it.
LEMMA NothingLeft ==
    ASSUME Inv, Onward, Itinerary, NEW d \in Datasets, NEW g, NEW n,
           \/ run.pc \in {"gone", "stale", "forget"}
           \/ run.pc = "dataset" /\ run.cmd = "Reseed"
    PROVE  ~ToSave(d, g, n) /\ \A r : ~ToWalk(d, g, n, r)
<1>1. CASE run.pc \in {"gone", "stale"}
    <2>1. Phase(run) = run.pc
        BY <1>1 DEF Phase
    <2>2. run.groups = {} /\ run.todo = {} /\ run.work = {}
        BY <1>1, <2>1 DEF Onward, Narrows, Itinerary, WorkAhead
    <2> QED BY <1>1, <2>1, <2>2 DEF ToSave, ToWalk
<1>2. CASE run.pc \in {"forget", "dataset"}
    <2>1. run.ds = None
        BY <1>2 DEF Onward, Narrows, Phase
    <2> QED BY <2>1, Typed DEF ToSave, ToWalk, Inv
<1> QED BY <1>1, <1>2

\* A step that leaves the lists, but perhaps gets a record through the input.
LEMMA MovesOn ==
    ASSUME Inv, UNCHANGED <<rows, fk, joins, file>>, rels' \subseteq rels, recs' \subseteq recs,
           run.pc \notin {"track", "refs", "relate", "uncut"}, run'.pc # "track",
           run.pc = "cut" => run.cuts = {},
           \A q \in recs \ recs' : RowOf(q) \notin rows \/ Triple(q) \notin file.records \/ ~Reset(q.ds)',
           \A d \in Datasets, g \in Models, n \in Names : <<d, g, n>> \in file.records /\ Reset(d)' =>
                /\ Reset(d)
                /\ ToSave(d, g, n) => ToSave(d, g, n)'
                /\ \A r \in RelsOf(g) : Schema[r].kind # "required" /\ ToWalk(d, g, n, r) => ToWalk(d, g, n, r)'
    PROVE  Moves
BY DEF Moves

\* The steps that begin and end a group, a data set and a run.
LEMMA SetupMoves ==
    ASSUME Inv, Onward, Itinerary, run.cmd = "Reseed", Setup,
           run'.pc \notin {"idle", "panicked"}
    PROVE  Moves
<1>t. run \in Run
    BY DEF Inv, TypeInv, TypeOK
<1> USE <1>t, RunFields
<1>0. UNCHANGED <<rows, fk, joins, recs, rels, file>>
    BY DEF Setup, BeginDataset, BeginGroup, EndGroups, BeginForget, Finish, Exit, Decides, data
<1>1. ASSUME NEW d \in Datasets, BeginDataset(d) PROVE Moves
    <2>1. /\ run.pc \in {"dataset", "stale"} /\ run'.pc = "record" /\ run'.ds = d
          /\ run'.groups = Groups(d) /\ run'.left = run.left \ {d} /\ run'.sel = run.sel
        BY <1>1 DEF BeginDataset, BetweenDatasets, Run
    <2>2. ASSUME NEW e \in Datasets, NEW g \in Models, NEW n \in Names, <<e, g, n>> \in file.records, Reset(e)'
          PROVE  /\ ToSave(e, g, n)' \/ (Reset(e) /\ ~ToSave(e, g, n))
                 /\ \A r : ToWalk(e, g, n, r)' \/ (Reset(e) /\ ~ToWalk(e, g, n, r))
        <3>1. CASE e = d
            <4>1. g \in Groups(d)
                BY <2>2, <3>1, Typed DEF Groups, Inv
            <4> QED BY <2>1, <3>1, <4>1 DEF ToSave, ToWalk
        <3>2. CASE e # d
            <4>1. Reset(e)
                BY <2>1, <2>2, <3>2 DEF Reset
            <4> QED BY <2>1, <4>1, NothingLeft
        <3> QED BY <3>1, <3>2
    <2> QED BY <1>0, <2>1, <2>2 DEF Moves
<1>2. ASSUME NEW g \in run.groups, BeginGroup(g) PROVE Moves
    <2> DEFINE todo == {g} \X Wanted(Declared(run.ds, g), SeedRecords(run.ds, g))
    <2>1. PICK doomed, snap :
            run' = [run EXCEPT
                    !.groups = @ \ {g}, !.snap = snap, !.todo = todo,
                    !.work = IF HasLaterRelations(g) THEN @ \union todo ELSE @,
                    !.doomed = doomed]
        BY <1>2 DEF BeginGroup
    <2>2. todo = {g} \X Declared(run.ds, g)
        BY DEF Wanted
    <2> HIDE DEF todo
    <2>3. /\ run'.pc = "record" /\ run.pc = "record" /\ run'.ds = run.ds /\ run'.cmd = run.cmd
          /\ run'.sel = run.sel /\ run'.left = run.left
          /\ run'.groups = run.groups \ {g} /\ run'.todo = todo /\ run.todo = {}
          /\ run'.work = IF HasLaterRelations(g) THEN run.work \union todo ELSE run.work
        BY <1>2, <2>1 DEF BeginGroup, GroupDone, Run
    <2>4. ASSUME NEW d \in Datasets, NEW h \in Models, NEW n \in Names, <<d, h, n>> \in file.records, Reset(d)'
          PROVE  /\ Reset(d)
                 /\ ToSave(d, h, n) => ToSave(d, h, n)'
                 /\ \A r \in RelsOf(h) : Schema[r].kind # "required" /\ ToWalk(d, h, n, r) => ToWalk(d, h, n, r)'
        <3>1. Reset(d)
            BY <2>3, <2>4 DEF Reset
        <3>2. d = run.ds /\ h = g => <<h, n>> \in todo
            BY <2>2, <2>4 DEF Declared
        <3>3. ToSave(d, h, n) => ToSave(d, h, n)'
            BY <2>3, <3>2 DEF ToSave
        <3>4. ASSUME NEW r \in RelsOf(h), Schema[r].kind # "required", ToWalk(d, h, n, r)
              PROVE  ToWalk(d, h, n, r)'
            <4>1. Phase(run) = "records"
                BY <2>3 DEF Phase
            <4>2. HasLaterRelations(h)
                BY <3>4 DEF HasLaterRelations
            <4> QED BY <2>3, <3>2, <3>4, <4>1, <4>2 DEF ToWalk
        <3> QED BY <3>1, <3>3, <3>4
    <2> QED BY <1>0, <2>3, <2>4, MovesOn
<1>3. CASE EndGroups
    <2>1. /\ run.pc = "record" /\ run'.pc = "relation" /\ run'.ds = run.ds /\ run'.cmd = run.cmd
          /\ run'.sel = run.sel /\ run'.left = run.left /\ run'.groups = {} /\ run.groups = {}
          /\ run.todo = {} /\ run'.work = run.work
        BY <1>3 DEF EndGroups, GroupDone, Run
    <2>2. Phase(run) = "records"
        BY <2>1 DEF Phase
    <2>3. \A d, g, n, r : ~ToSave(d, g, n) /\ (ToWalk(d, g, n, r) => ToWalk(d, g, n, r)')
        BY <2>1, <2>2 DEF ToSave, ToWalk
    <2>4. \A d : Reset(d)' => Reset(d)
        BY <2>1 DEF Reset
    <2> QED BY <1>0, <2>1, <2>3, <2>4, MovesOn
<1>4. CASE BeginForget \/ Finish
    <2>1. /\ run.pc \in {"dataset", "stale", "forget"} /\ run'.pc \in {"forget", "done"}
          /\ run'.cmd = run.cmd /\ run'.sel = run.sel /\ run'.left = run.left
        BY <1>4 DEF BeginForget, BetweenDatasets, Finish, Run
    <2>2. \A d : Reset(d)' => Reset(d)
        BY <2>1 DEF Reset
    <2> QED BY <1>0, <2>1, <2>2, NothingLeft, MovesOn
<1>5. ~Exit
    BY DEF Exit, Idle
<1> QED BY <1>1, <1>2, <1>3, <1>4, <1>5 DEF Setup

\* The steps that take up a record of the files.
LEMMA TakingMoves ==
    ASSUME Inv, run.cmd = "Reseed", NEW x \in run.todo, Insert(x) \/ Recreate(x) \/ Update(x)
    PROVE  Moves
<1>t. run \in Run /\ recs \subseteq Recs /\ x \in Models \X Names
    BY RunFields DEF Inv, TypeInv, TypeOK
<1>1. PICK id : run' = Taking(x, id)
    BY DEF Insert, Recreate, Update
<1>2. /\ run.pc = "record" /\ run'.pc = "input" /\ run'.ds = run.ds /\ run'.cmd = run.cmd
      /\ run'.sel = run.sel /\ run'.left = run.left /\ run'.groups = run.groups
      /\ run'.todo = run.todo \ {x} /\ run'.work = run.work
      /\ run'.rec = [ds |-> run.ds, group |-> x[1], name |-> x[2], id |-> id]
    BY <1>t, <1>1 DEF Taking, Run, Insert, Recreate, Update
<1>3. /\ UNCHANGED <<rows, fk, joins, rels, file>> /\ recs' \subseteq recs
      /\ \A q \in recs \ recs' : RowOf(q) \notin rows
    BY DEF Insert, Recreate, Update, Decides, data
<1>4. Phase(run) = "records"
    BY <1>2 DEF Phase
<1>5. Entry' = x
    BY <1>t, <1>2 DEF Entry
<1>6. \A d, g, n : ToSave(d, g, n) => ToSave(d, g, n)'
    BY <1>2, <1>5 DEF ToSave
<1>7. \A d, g, n, r : ToWalk(d, g, n, r) => ToWalk(d, g, n, r)'
    BY <1>2, <1>4 DEF ToWalk
<1>8. \A d : Reset(d)' => Reset(d)
    BY <1>2 DEF Reset
<1> QED BY <1>2, <1>3, <1>6, <1>7, <1>8, MovesOn

\* The steps that remove what the files no longer have, but for its row.
LEMMA RemoveMoves ==
    ASSUME Inv, Onward, Itinerary, run.cmd = "Reseed", Remove, ~RemoveRow
    PROVE  Moves
<1>t. run \in Run /\ recs \subseteq Recs
    BY DEF Inv, TypeInv, TypeOK
<1> USE <1>t, RunFields
<1>0. UNCHANGED <<rows, fk, joins, file>> /\ rels' \subseteq rels /\ recs' \subseteq recs
    BY DEF Remove, RemoveGone, BeginRemove, Untrack, BeginGone, BeginStale, RemoveStale, ForgetRecord,
           ForgetRelation, Decides, data
<1>1. ASSUME run'.cmd = run.cmd, run'.sel = run.sel, run'.left = run.left, run'.ds = run.ds,
             run'.groups = run.groups, run'.todo = run.todo, run'.work = run.work,
             run.pc \in {"record", "untrack", "gone"}, run'.pc \notin {"input", "track"},
             Phase(run) \in {"records", "gone"},
             \A q \in recs \ recs' : RowOf(q) \notin rows \/ Triple(q) \notin file.records
      PROVE  Moves
    <2>1. \A d, g, n : ToSave(d, g, n) => ToSave(d, g, n)'
        BY <1>1 DEF ToSave
    <2>2. \A d, g, n, r : ToWalk(d, g, n, r) => ToWalk(d, g, n, r)'
        BY <1>1 DEF ToWalk
    <2>3. \A d : Reset(d)' => Reset(d)
        BY <1>1 DEF Reset
    <2> QED BY <1>0, <1>1, <2>1, <2>2, <2>3, MovesOn
<1>2. ASSUME NEW r \in run.doomed, RemoveGone(r) PROVE Moves
    <2>1. /\ run'.cmd = run.cmd /\ run'.sel = run.sel /\ run'.left = run.left /\ run'.ds = run.ds
          /\ run'.groups = run.groups /\ run'.todo = run.todo /\ run'.work = run.work
          /\ run.pc \in {"record", "gone"} /\ run'.pc = run.pc /\ recs' = recs \ {r}
        BY <1>2 DEF RemoveGone, Removing, Run
    <2>2. Phase(run) \in {"records", "gone"} /\ InSeed(run)
        BY <2>1 DEF Phase, InSeed
    <2>3. Triple(r) \notin file.records
        BY <2>2 DEF Onward, Justified, ToRemove
    <2> QED BY <1>1, <2>1, <2>2, <2>3
<1>3. ASSUME NEW r \in run.doomed, BeginRemove(r) PROVE Moves
    <2>1. /\ run'.cmd = run.cmd /\ run'.sel = run.sel /\ run'.left = run.left /\ run'.ds = run.ds
          /\ run'.groups = run.groups /\ run'.todo = run.todo /\ run'.work = run.work
          /\ run.pc \in {"record", "gone"} /\ run'.pc = "cut" /\ recs' = recs
        BY <1>3 DEF BeginRemove, Removing, Decides, Run
    <2>2. Phase(run) \in {"records", "gone"}
        BY <2>1 DEF Phase
    <2> QED BY <1>1, <2>1, <2>2
<1>4. CASE Untrack
    <2>1. /\ run'.cmd = run.cmd /\ run'.sel = run.sel /\ run'.left = run.left /\ run'.ds = run.ds
          /\ run'.groups = run.groups /\ run'.todo = run.todo /\ run'.work = run.work
          /\ run.pc = "untrack" /\ run'.pc = run.back /\ recs' = recs \ {run.rec}
          /\ run.back \in {"record", "gone"}
        BY <1>4 DEF Untrack, Onward, Narrows, Run
    <2>2. Phase(run) \in {"records", "gone"} /\ InSeed(run)
        BY <2>1 DEF Phase, InSeed
    <2>3. Triple(run.rec) \notin file.records
        BY <2>1, <2>2 DEF Onward, Justified, ToRemove
    <2> QED BY <1>1, <2>1, <2>2, <2>3
<1>5. CASE BeginGone
    <2>1. /\ run'.cmd = run.cmd /\ run'.sel = run.sel /\ run'.left = run.left /\ run'.pc = "gone"
          /\ recs' = recs /\ run.work = {} /\ run.keys = {}
          /\ run.pc \in {"relation", "cut"} /\ (run.pc = "cut" => run.cuts = {})
        BY <1>5 DEF BeginGone, AtRelation, Decides, Run
    <2>2. Phase(run) = "relations"
        BY <1>5 DEF BeginGone, AtRelation, Phase
    <2>3. run.groups = {} /\ run.todo = {}
        BY <2>2 DEF Onward, Narrows
    <2>4. \A d, g, n : ~ToSave(d, g, n) /\ \A r : ~ToWalk(d, g, n, r)
        BY <2>1, <2>3 DEF ToSave, ToWalk
    <2>5. \A d : Reset(d)' => Reset(d)
        BY <2>1 DEF Reset
    <2> QED BY <1>0, <2>1, <2>4, <2>5, MovesOn
<1>6. ASSUME NEW x, BeginStale \/ RemoveStale(x) \/ ForgetRecord(x) \/ ForgetRelation(x) PROVE Moves
    <2>1. /\ run'.cmd = run.cmd /\ run'.sel = run.sel /\ run'.left = run.left
          /\ run.pc \in {"gone", "stale", "forget"} /\ run'.pc \in {"stale", "forget"}
        BY <1>6 DEF BeginStale, RemoveStale, ForgetRecord, ForgetRelation, Run
    <2>2. \A d : Reset(d)' => Reset(d)
        BY <2>1 DEF Reset
    <2>3. \A q \in recs \ recs' : ~Reset(q.ds)'
        BY <1>6 DEF BeginStale, RemoveStale, ForgetRecord, ForgetRelation, Decides, Reset
    <2> QED BY <1>0, <2>1, <2>2, <2>3, NothingLeft, MovesOn
<1> QED BY <1>2, <1>3, <1>4, <1>5, <1>6 DEF Remove

\* The steps that begin to walk a record and its relations.
LEMMA WalkMoves ==
    ASSUME Matched, Inv, Onward, Steady, run.cmd = "Reseed", run'.pc # "panicked",
           \/ \E x \in run.work : BeginRelations(x)
           \/ \E r \in run.keys : BeginRelation(r) \/ BeginCutRelation(r)
    PROVE  Moves
<1>t. run \in Run /\ recs \subseteq Recs /\ rels \subseteq RelRecs
    BY DEF Inv, TypeInv, TypeOK
<1> USE <1>t, RunFields
<1>0. UNCHANGED <<rows, fk, joins, recs, rels, file>> /\ AtRelation
    BY DEF BeginRelations, BeginRelation, BeginCutRelation, Decides, data
<1>1. /\ Phase(run) = "relations" /\ run.pc \in {"relation", "cut"}
      /\ run.pc = "cut" => run.cuts = {}
    BY <1>0 DEF AtRelation, Phase
<1>2. run.groups = {} /\ run.todo = {}
    BY <1>1 DEF Onward, Narrows
<1>3. \A d, g, n : ~ToSave(d, g, n)
    BY <1>1, <1>2 DEF ToSave
<1>4. ASSUME NEW x \in run.work, BeginRelations(x) PROVE Moves
    <2>1. PICK r \in Found(run.ds, x[1], x[2]) :
            run' = [run EXCEPT !.pc = "relation", !.work = @ \ {x}, !.rec = r, !.keys = RelsOf(x[1])]
        <3>1. run' # [run EXCEPT !.pc = "panicked"]
            BY DEF Run
        <3>2. RelsOf(x[1]) = {k \in RelsOf(x[1]) : run.cmd = "Reseed" \/ Refs(run.ds, x[2], k) # {}}
            OBVIOUS
        <3> QED BY <1>4, <3>1, <3>2 DEF BeginRelations
    <2>2. /\ run'.pc = "relation" /\ run'.ds = run.ds /\ run'.work = run.work \ {x} /\ run'.rec = r
          /\ run'.keys = RelsOf(x[1]) /\ run'.groups = {} /\ run.keys = {}
          /\ run'.cmd = run.cmd /\ run'.sel = run.sel /\ run'.left = run.left
        <3>1. run.keys = {}
            BY <1>4 DEF BeginRelations
        <3> QED BY <1>2, <2>1, <3>1 DEF Run
    <2>3. Phase(run)' = "relations"
        BY <2>2 DEF Phase
    <2>4. Entry' = <<x[1], x[2]>>
        BY <2>1, <2>2 DEF Entry, Found
    <2>5. ASSUME NEW d, NEW g, NEW n, NEW k \in RelsOf(g), ToWalk(d, g, n, k) PROVE ToWalk(d, g, n, k)'
        BY <1>2, <2>2, <2>3, <2>4, <2>5 DEF ToWalk
    <2>6. \A d : Reset(d)' => Reset(d)
        BY <1>1, <2>2 DEF Reset
    <2> QED BY <1>0, <1>1, <1>3, <2>2, <2>5, <2>6, MovesOn
<1>5. ASSUME NEW r \in run.keys, BeginRelation(r) \/ BeginCutRelation(r) PROVE Moves
    <2>1. /\ run'.pc \in {"refs", "cut"} /\ run'.ds = run.ds /\ run'.work = run.work /\ run'.rec = run.rec
          /\ run'.keys = run.keys \ {r} /\ run'.groups = run.groups
          /\ run'.cmd = run.cmd /\ run'.sel = run.sel /\ run'.left = run.left
          /\ run'.pc = "cut" => run'.back = "relation"
        <3>1. CASE BeginRelation(r)
            BY <3>1 DEF BeginRelation, Run
        <3>2. CASE BeginCutRelation(r)
            BY <3>2 DEF BeginCutRelation, Run
        <3> QED BY <1>5, <3>1, <3>2
    <2>2. Phase(run)' = "relations"
        BY <2>1 DEF Phase
    <2>3. Entry' = Entry
        BY <2>1 DEF Entry
    <2>4. \A d : Reset(d)' => Reset(d)
        BY <1>1, <2>1 DEF Reset
    <2>5. run.rec.ds = run.ds
        <3>1. run.keys # {} => Walking
            BY <1>0 DEF AtRelation, Walking
        <3> QED BY <3>1 DEF Steady, Handling, RecordWalked
    <2>6. ASSUME NEW d, NEW g, NEW n, NEW k, ToWalk(d, g, n, k), ~ToWalk(d, g, n, k)'
          PROVE  d = run.ds /\ Entry = <<g, n>> /\ k = r
        BY <1>1, <2>1, <2>2, <2>3, <2>6 DEF ToWalk
    <2>7. ASSUME NEW d, NEW g, NEW n, NEW k, ToWalk(d, g, n, k), ~ToWalk(d, g, n, k)'
          PROVE  /\ \A m \in Refs(d, n, k) : ToSet(d, g, n, k, m)'
                 /\ Refs(d, n, k) = {} =>
                        \A c \in rels : c.ds = d /\ <<g, n, k>> \in Ends(c) => ToCut(c)'
        <3>0. d = run.ds /\ k = r /\ Entry = <<g, n>> /\ g = run.rec.group /\ n = run.rec.name
            BY <2>6, <2>7 DEF Entry
        <3>1. CASE BeginRelation(r)
            <4>1. /\ run'.pc = "refs" /\ run'.rel = r /\ run'.refs = Refs(d, n, r)
                  /\ Refs(d, n, r) # {}
                BY <3>0, <3>1 DEF BeginRelation, Run
            <4> QED BY <2>1, <2>3, <3>0, <4>1 DEF ToSet
        <3>2. CASE BeginCutRelation(r)
            <4>1. /\ run'.pc = "cut" /\ run'.back = "relation" /\ run'.cuts = TouchingBy(run.rec, r)
                  /\ Refs(d, n, k) = {}
                BY <3>0, <3>2 DEF BeginCutRelation, Run
            <4>2. ASSUME NEW c \in rels, c.ds = d, <<g, n, k>> \in Ends(c) PROVE c \in TouchingBy(run.rec, r)
                <5>1. Fits(c) /\ c.ra \in Rels /\ r \in Rels
                    BY DEF Steady, RelationsFit, RelRecs
                <5>2. CASE <<g, n, k>> = <<c.ga, c.na, c.ra>>
                    BY <2>5, <3>0, <4>2, <5>1, <5>2 DEF TouchingBy, Fits
                <5>3. CASE <<g, n, k>> = <<c.gb, c.nb, c.rb>>
                    <6>1. Schema[c.ra].opposite = r /\ Schema[c.ra].owner = c.ga
                        BY <3>0, <5>1, <5>3 DEF Fits
                    <6>2. Schema[r].target = c.ga
                        BY <5>1, <6>1, NoneAssumption DEF Matched
                    <6> QED BY <2>5, <3>0, <4>2, <5>3, <6>2 DEF TouchingBy
                <5> QED BY <4>2, <5>2, <5>3 DEF Ends
            <4> QED BY <4>1, <4>2 DEF ToCut
        <3> QED BY <1>5, <3>1, <3>2
    <2> QED BY <1>0, <1>1, <1>3, <2>1, <2>4, <2>7 DEF Moves
<1> QED BY <1>4, <1>5

-------------------------------------------------------------------------------
\* The records that have a row of theirs: the tracked ones and the one that is
\* saved and about to be.
At == recs \union (IF run.pc = "track" THEN {run.rec} ELSE {})
As(d, g, n) == {a \in At : a.ds = d /\ a.group = g /\ a.name = n}

\* A foreign key of a record that the Reseed has saved is one that the files
\* declare, at one end or the other.
Declares(r, a, b) ==
    /\ a.ds = b.ds /\ Schema[r].owner = a.group /\ Schema[r].target = b.group
    /\ <<a.ds, a.name, r, b.name>> \in file.refs
Between(r, a, b, x) ==
    /\ Schema[r].via = x[2]
    /\ \/ HasKey(r) /\ x[1] = RowOf(a) /\ x[3] = RowOf(b)
       \/ Schema[r].kind = "foreign" /\ x[1] = RowOf(b) /\ x[3] = RowOf(a)
KeyDeclared(x) == \E r \in Rels : \E a, b \in At : Declares(r, a, b) /\ Between(r, a, b, x)
KeysDeclared ==
    \A a \in At : Reset(a.ds) /\ Triple(a) \in file.records /\ ~ToSave(a.ds, a.group, a.name) =>
        \A x \in fk : x[1] = RowOf(a) => KeyDeclared(x)

\* A reference of the files is in place, or still to be set.
ToLink(y) ==
    LET g == Schema[y[3]].owner
    IN  IF Schema[y[3]].kind = "required" THEN ToSave(y[1], g, y[2])
        ELSE ToWalk(y[1], g, y[2], y[3]) \/ ToSet(y[1], g, y[2], y[3], y[4])
Made(y) ==
    \A a \in As(y[1], Schema[y[3]].owner, y[2]) : \E b \in Found(y[1], Schema[y[3]].target, y[4]) :
        IsLinked(y[3], RowOf(a), RowOf(b))
LinksMade == \A y \in file.refs : Reset(y[1]) => ToLink(y) \/ Made(y)

\* A DataSetRelation over a join table names at both ends a relation that is not
\* empty in the files, or is still to be cut.
BothDeclared(c) == \A e \in Ends(c) : <<c.ds, e[1], e[2]>> \in file.records
Emptied ==
    \A c \in rels : Reset(c.ds) /\ Schema[c.ra].kind = "join" /\ BothDeclared(c) =>
        \A e \in Ends(c) : Refs(c.ds, e[2], e[3]) = {} => ToWalk(c.ds, e[1], e[2], e[3]) \/ ToCut(c)

\* The two ends of a reference.
LEMMA RefEnds ==
    ASSUME Inv, NEW y \in file.refs
    PROVE  /\ y = <<y[1], y[2], y[3], y[4]>>
           /\ y[1] \in Datasets /\ y[2] \in Names /\ y[3] \in Rels /\ y[4] \in Names
           /\ Schema[y[3]].owner \in Models /\ Schema[y[3]].target \in Models
           /\ <<y[1], Schema[y[3]].owner, y[2]>> \in file.records
           /\ <<y[1], Schema[y[3]].target, y[4]>> \in file.records
           /\ y[3] \in RelsOf(Schema[y[3]].owner)
           /\ y[4] \in Refs(y[1], y[2], y[3])
<1>1. file \in File /\ WellFormed(file)
    BY VersionsAssumption DEF Inv, TypeInv, TypeOK
<1>2. /\ y = <<y[1], y[2], y[3], y[4]>>
      /\ y[1] \in Datasets /\ y[2] \in Names /\ y[3] \in Rels /\ y[4] \in Names
    BY <1>1 DEF File
<1>3. Schema[y[3]].owner \in Models /\ Schema[y[3]].target \in Models
    BY <1>2, SchemaAssumption DEF Relation
<1>4. /\ <<y[1], Schema[y[3]].owner, y[2]>> \in file.records
      /\ <<y[1], Schema[y[3]].target, y[4]>> \in file.records
    BY <1>1 DEF WellFormed
<1>5. <<y[1], Schema[y[3]].target>> \in file.groups
    BY <1>1, <1>4 DEF WellFormed
<1>6. Schema[y[3]].target \in file.live
    BY <1>1, <1>5 DEF WellFormed
<1> QED BY <1>2, <1>3, <1>4, <1>6 DEF RelsOf, Refs

\* A link is between rows that are there.
LEMMA LinkEnds ==
    ASSUME EndsThere, NEW r, NEW p, NEW q, IsLinked(r, p, q)
    PROVE  p \in rows /\ q \in rows
BY DEF EndsThere, IsLinked

\* The records of a declared key are records of the files, and have rows.
LEMMA KeyEnds ==
    ASSUME Inv, EndsThere, NEW x \in fk, NEW r \in Rels, NEW a \in At, NEW b \in At,
           Declares(r, a, b), Between(r, a, b, x)
    PROVE  /\ Triple(a) \in file.records /\ Triple(b) \in file.records
           /\ a.ds = b.ds /\ RowOf(a) \in rows /\ RowOf(b) \in rows
<1>1. a.ds = b.ds /\ Triple(a) \in file.records /\ Triple(b) \in file.records
    BY RefEnds DEF Declares, Triple
<1> QED BY <1>1 DEF EndsThere, Between

\* So the steps that write no link keep all this.
LEMMA MovesKeep ==
    ASSUME Matched, Inv, Steady, EndsThere, KeysDeclared, LinksMade, Emptied, Moves
    PROVE  KeysDeclared' /\ LinksMade' /\ Emptied'
<1>t. /\ recs \subseteq Recs /\ rels \subseteq RelRecs /\ TypeInv
      /\ \A q, s \in recs : RowOf(q) = RowOf(s) => q = s
    BY DEF Inv, TypeInv, TypeOK, OneRecordPerName
<1>1. /\ UNCHANGED <<rows, fk, joins, file>> /\ rels' \subseteq rels
      /\ At = recs /\ At' = recs' /\ recs' \subseteq recs
    BY DEF Moves, At
<1>2. ASSUME NEW q \in recs, RowOf(q) \in rows, Triple(q) \in file.records, Reset(q.ds)'
      PROVE  q \in recs'
    BY <1>2 DEF Moves
<1>3. KeysDeclared'
    <2> SUFFICES ASSUME NEW a \in recs', Reset(a.ds)', Triple(a) \in file.records,
                        ~ToSave(a.ds, a.group, a.name)', NEW x \in fk, x[1] = RowOf(a)
                 PROVE  KeyDeclared(x)'
        BY <1>1 DEF KeysDeclared, Triple, RowOf
    <2>1. Reset(a.ds) /\ ~ToSave(a.ds, a.group, a.name)
        BY <1>t, <1>1, Typed DEF Moves, Triple
    <2>2. KeyDeclared(x)
        BY <1>1, <2>1 DEF KeysDeclared
    <2>3. PICK r \in Rels, p \in recs, q \in recs : Declares(r, p, q) /\ Between(r, p, q, x)
        BY <1>1, <2>2 DEF KeyDeclared
    <2>4. /\ Triple(p) \in file.records /\ Triple(q) \in file.records
          /\ p.ds = q.ds /\ RowOf(p) \in rows /\ RowOf(q) \in rows
        BY <1>1, <2>3, KeyEnds
    <2>5. a.ds = p.ds
        BY <1>t, <1>1, <2>3, <2>4 DEF Between
    <2>6. p \in recs' /\ q \in recs'
        BY <1>2, <2>4, <2>5
    <2>7. Declares(r, p, q)' /\ Between(r, p, q, x)'
        BY <1>1, <2>3 DEF Declares, Between, RowOf
    <2> QED BY <1>1, <2>6, <2>7 DEF KeyDeclared
<1>4. LinksMade'
    <2> SUFFICES ASSUME NEW y \in file.refs, Reset(y[1])', ~ToLink(y)' PROVE Made(y)'
        BY <1>1 DEF LinksMade
    <2> DEFINE d == y[1]
               g == Schema[y[3]].owner
               h == Schema[y[3]].target
    <2>0. /\ d \in Datasets /\ g \in Models /\ y[2] \in Names /\ y[3] \in Rels
          /\ <<d, g, y[2]>> \in file.records /\ <<d, h, y[4]>> \in file.records
          /\ y[3] \in RelsOf(g) /\ y[4] \in Refs(d, y[2], y[3])
        BY RefEnds
    <2>1. Reset(d) /\ ~ToLink(y)
        <3>1. CASE Schema[y[3]].kind = "required"
            BY <2>0, <3>1 DEF Moves, ToLink
        <3>2. CASE Schema[y[3]].kind # "required"
            <4>1. ~ToWalk(d, g, y[2], y[3])' /\ ~ToSet(d, g, y[2], y[3], y[4])'
                BY <3>2 DEF ToLink
            <4>2. Reset(d) /\ ~ToWalk(d, g, y[2], y[3])
                BY <2>0, <3>2, <4>1 DEF Moves
            <4>3. ~ToSet(d, g, y[2], y[3], y[4])
                BY DEF Moves, ToSet
            <4> QED BY <3>2, <4>2, <4>3 DEF ToLink
        <3> QED BY <3>1, <3>2
    <2>2. Made(y)
        BY <2>1 DEF LinksMade
    <2>3. ASSUME NEW a \in As(d, g, y[2])'
          PROVE  \E b \in Found(d, h, y[4])' : IsLinked(y[3], RowOf(a), RowOf(b))'
        <3>1. a \in As(d, g, y[2])
            BY <1>1 DEF As
        <3>2. PICK b \in Found(d, h, y[4]) : IsLinked(y[3], RowOf(a), RowOf(b))
            BY <2>2, <3>1 DEF Made
        <3>3. b \in recs /\ RowOf(b) \in rows /\ Triple(b) = <<d, h, y[4]>> /\ b.ds = d
            BY <3>2, LinkEnds DEF Found, Triple
        <3>4. b \in recs'
            BY <1>2, <2>0, <3>3
        <3>5. b \in Found(d, h, y[4])'
            BY <3>2, <3>4 DEF Found
        <3>6. IsLinked(y[3], RowOf(a), RowOf(b))'
            BY <1>1, <3>2 DEF IsLinked, RowOf
        <3> QED BY <3>5, <3>6
    <2> HIDE DEF d, g, h
    <2> QED BY <2>3 DEF Made, d, g, h
<1>5. Emptied'
    <2> SUFFICES ASSUME NEW c \in rels', Reset(c.ds)', Schema[c.ra].kind = "join", BothDeclared(c),
                        NEW e \in Ends(c), Refs(c.ds, e[2], e[3]) = {},
                        ~ToWalk(c.ds, e[1], e[2], e[3])', ~ToCut(c)'
                 PROVE  FALSE
        BY <1>1 DEF Emptied, Refs, Ends, BothDeclared
    <2>1. c \in rels /\ c \in RelRecs /\ c.ra \in Rels /\ Fits(c)
        BY <1>t, <1>1 DEF RelRecs, Steady, RelationsFit
    <2>2. ~HasKey(c.ra)
        BY DEF HasKey
    <2>3. /\ c.rb \in Rels /\ Schema[c.rb].kind = "join"
          /\ Schema[c.rb].owner = c.gb /\ Schema[c.rb].target = c.ga
        BY <2>1, <2>2 DEF Fits, Matched
    <2>4. <<c.ds, c.ga, c.na>> \in file.records /\ <<c.ds, c.gb, c.nb>> \in file.records
        BY DEF BothDeclared, Ends
    <2>5. c.ga \in file.live /\ c.gb \in file.live
        <3>1. WellFormed(file)
            BY VersionsAssumption DEF Inv, TypeInv, TypeOK
        <3>2. <<c.ds, c.ga>> \in file.groups /\ <<c.ds, c.gb>> \in file.groups
            BY <2>4, <3>1 DEF WellFormed
        <3> QED BY <3>1, <3>2 DEF WellFormed
    <2>6. /\ e[3] \in RelsOf(e[1]) /\ Schema[e[3]].kind = "join"
          /\ <<c.ds, e[1], e[2]>> \in file.records /\ e = <<e[1], e[2], e[3]>>
          /\ c.ds \in Datasets /\ e[1] \in Models /\ e[2] \in Names
        BY <2>1, <2>3, <2>4, <2>5 DEF Ends, RelsOf, Fits, RelRecs
    <2>7. Reset(c.ds) /\ ~ToWalk(c.ds, e[1], e[2], e[3])
        BY <2>1, <2>6 DEF Moves
    <2>8. ~ToCut(c)
        BY DEF Moves, ToCut
    <2> QED BY <2>1, <2>7, <2>8 DEF Emptied
<1> QED BY <1>3, <1>4, <1>5

-------------------------------------------------------------------------------
\* A step that leaves what a Reseed has yet to walk, and all that it has yet to do.
WalksStay ==
    /\ file' = file
    /\ \A d : Reset(d)' => Reset(d)
    /\ \A d, g, n, r : ToWalk(d, g, n, r) => ToWalk(d, g, n, r)'
ListsStay ==
    /\ WalksStay
    /\ \A d, g, n : ToSave(d, g, n) => ToSave(d, g, n)'
    /\ \A d, g, n, r, m : ToSet(d, g, n, r, m) => ToSet(d, g, n, r, m)'

\* It keeps the rest if it takes away no record and no link that the files name,
\* and adds no DataSetRelation that it would have to cut.
LEMMA KeysStay ==
    ASSUME ListsStay, At' = At, fk' \subseteq fk, KeysDeclared
    PROVE  KeysDeclared'
<1> SUFFICES ASSUME NEW a \in At, Reset(a.ds)', Triple(a) \in file.records,
                    ~ToSave(a.ds, a.group, a.name)', NEW x \in fk, x[1] = RowOf(a)
             PROVE  KeyDeclared(x)'
    BY DEF KeysDeclared, ListsStay, WalksStay, Triple, RowOf
<1>1. KeyDeclared(x)
    BY DEF ListsStay, WalksStay, KeysDeclared
<1>2. PICK r \in Rels, p \in At, q \in At : Declares(r, p, q) /\ Between(r, p, q, x)
    BY <1>1 DEF KeyDeclared
<1>3. Declares(r, p, q)' /\ Between(r, p, q, x)'
    BY <1>2 DEF Declares, Between, RowOf, ListsStay, WalksStay
<1> QED BY <1>3 DEF KeyDeclared

\* A step keeps the links made if it takes away none that the files name and
\* tracks no other record.
LEMMA LinksStay ==
    ASSUME ListsStay, At' = At, recs \subseteq recs', LinksMade,
           \A y \in file.refs : Reset(y[1]) =>
                \A a \in As(y[1], Schema[y[3]].owner, y[2]), b \in Found(y[1], Schema[y[3]].target, y[4]) :
                    IsLinked(y[3], RowOf(a), RowOf(b)) => IsLinked(y[3], RowOf(a), RowOf(b))'
    PROVE  LinksMade'
<1> SUFFICES ASSUME NEW y \in file.refs, Reset(y[1])', ~ToLink(y)' PROVE Made(y)'
    BY DEF LinksMade, ListsStay, WalksStay
<1>1. Reset(y[1]) /\ ~ToLink(y)
    BY DEF ListsStay, WalksStay, ToLink
<1>2. Made(y)
    BY <1>1 DEF LinksMade
<1> DEFINE h == Schema[y[3]].target
           there == As(y[1], Schema[y[3]].owner, y[2])
<1>3. ASSUME NEW a \in there PROVE \E b \in Found(y[1], h, y[4])' : IsLinked(y[3], RowOf(a), RowOf(b))'
    <2>1. PICK b \in Found(y[1], h, y[4]) : IsLinked(y[3], RowOf(a), RowOf(b))
        BY <1>2, <1>3 DEF Made
    <2>2. b \in Found(y[1], h, y[4])'
        BY DEF Found
    <2> QED BY <1>1, <1>3, <2>1, <2>2
<1>4. there' = there
    BY DEF As
<1> HIDE DEF h, there
<1> QED BY <1>3, <1>4 DEF Made, h, there

\* A step keeps what Emptied says of the DataSetRelations that it leaves, and
\* has to show it for those it adds.
LEMMA EmptiedStays ==
    ASSUME WalksStay, Emptied,
           \A c \in rels' : Schema[c.ra].kind = "join" =>
                \/ c \in rels /\ (ToCut(c) => ToCut(c)')
                \/ \A e \in Ends(c) : Refs(c.ds, e[2], e[3]) # {}
    PROVE  Emptied'
<1> SUFFICES ASSUME NEW c \in rels', Reset(c.ds)', Schema[c.ra].kind = "join", BothDeclared(c),
                    NEW e \in Ends(c), Refs(c.ds, e[2], e[3]) = {},
                    ~ToWalk(c.ds, e[1], e[2], e[3])', ~ToCut(c)'
             PROVE  FALSE
    BY DEF Emptied, Refs, Ends, BothDeclared, WalksStay
<1>1. Reset(c.ds) /\ ~ToWalk(c.ds, e[1], e[2], e[3]) /\ c \in rels /\ ~ToCut(c)
    BY DEF WalksStay
<1> QED BY <1>1 DEF Emptied

\* The step of the input that reads a required relation.
LEMMA InputRelationKeeps ==
    ASSUME Inv, Steady, KeysDeclared, LinksMade, Emptied,
           NEW r \in run.keys, InputRelation(r), run'.pc # "panicked"
    PROVE  KeysDeclared' /\ LinksMade' /\ Emptied'
<1>t. run \in Run
    BY DEF Inv, TypeInv, TypeOK
<1>1. PICK m \in Refs(run.ds, run.rec.name, r) :
        /\ \E to : run' = [run EXCEPT !.keys = @ \ {r},
                            !.fks = {x \in @ : x[1] # Schema[r].via} \union {<<Schema[r].via, to>>}]
        /\ rels' = Remembering(run.rec, r, m)
    <2>1. run' # [run EXCEPT !.pc = "panicked"]
        BY <1>t DEF Run
    <2> QED BY <2>1 DEF InputRelation
<1>2. /\ run.pc = "input" /\ run'.pc = "input" /\ run'.ds = run.ds /\ run'.rec = run.rec
      /\ run'.cmd = run.cmd /\ run'.sel = run.sel /\ run'.left = run.left
      /\ run'.groups = run.groups /\ run'.todo = run.todo /\ run'.work = run.work
    BY <1>t, <1>1 DEF Run, InputRelation
<1>3. UNCHANGED <<fk, joins, recs, file>>
    BY DEF InputRelation, data
<1>4. Phase(run) = "records" /\ Entry' = Entry
    BY <1>2 DEF Phase, Entry
<1>5. ListsStay
    BY <1>2, <1>3, <1>4 DEF ListsStay, WalksStay, Reset, ToSave, ToWalk, ToSet
<1>6. At' = At
    BY <1>2, <1>3 DEF At
<1>7. \A y, a, b : IsLinked(y, RowOf(a), RowOf(b))' <=> IsLinked(y, RowOf(a), RowOf(b))
    BY <1>3 DEF IsLinked, RowOf
<1>8. ASSUME NEW c \in rels', Schema[c.ra].kind = "join" PROVE c \in rels
    <2>1. Schema[r].kind = "required"
        BY <1>2 DEF Steady, Handling, InputDeclared, RequiredRefs
    <2>2. rels' \subseteq rels \union {RelationRecord(run.rec, r, m)}
        BY <1>1 DEF Remembering
    <2> QED BY <1>8, <2>1, <2>2 DEF RelationRecord
<1>9. \A c : ~ToCut(c)
    BY <1>2 DEF ToCut
<1> QED BY <1>3, <1>5, <1>6, <1>7, <1>8, <1>9, KeysStay, LinksStay, EmptiedStays DEF ListsStay

\* The record that is tracked had its row and its keys before.
LEMMA TrackKeeps ==
    ASSUME Inv, KeysDeclared, LinksMade, Emptied, Track
    PROVE  KeysDeclared' /\ LinksMade' /\ Emptied'
<1>t. run \in Run
    BY DEF Inv, TypeInv, TypeOK
<1>1. /\ run.pc = "track" /\ run'.pc = "record" /\ run'.ds = run.ds
      /\ run'.cmd = run.cmd /\ run'.sel = run.sel /\ run'.left = run.left
      /\ run'.groups = run.groups /\ run'.todo = run.todo /\ run'.work = run.work
      /\ UNCHANGED <<fk, joins, rels, file>> /\ recs' = recs \union {run.rec}
    BY <1>t DEF Track, data, Run
<1>2. Phase(run) = "records"
    BY <1>1 DEF Phase
<1>3. ListsStay
    BY <1>1, <1>2 DEF ListsStay, WalksStay, Reset, ToSave, ToWalk, ToSet
<1>4. At' = At
    BY <1>1 DEF At
<1>5. \A y, a, b : IsLinked(y, RowOf(a), RowOf(b))' <=> IsLinked(y, RowOf(a), RowOf(b))
    BY <1>1 DEF IsLinked, RowOf
<1>6. \A c : ~ToCut(c)
    BY <1>1 DEF ToCut
<1> QED BY <1>1, <1>3, <1>4, <1>5, <1>6, KeysStay, LinksStay, EmptiedStays DEF ListsStay

\* The steps that delete the DataSetRelation of a link that is gone.
LEMMA CutRecordKeeps ==
    ASSUME Inv, KeysDeclared, LinksMade, Emptied, NEW c, CutRecord(c)
    PROVE  KeysDeclared' /\ LinksMade' /\ Emptied'
<1>t. run \in Run
    BY DEF Inv, TypeInv, TypeOK
<1>1. /\ run.pc = "cut" /\ run'.pc = "cut" /\ run'.ds = run.ds /\ run'.rec = run.rec
      /\ run'.cmd = run.cmd /\ run'.sel = run.sel /\ run'.left = run.left /\ run'.back = run.back
      /\ run'.groups = run.groups /\ run'.todo = run.todo /\ run'.work = run.work
      /\ run'.keys = run.keys /\ run'.cuts = run.cuts \ {c}
      /\ UNCHANGED <<fk, joins, recs, file>> /\ rels' = rels \ {c}
    BY <1>t DEF CutRecord, Cutting, data, Run
<1>2. Phase(run') = Phase(run) /\ Entry' = Entry
    BY <1>1 DEF Phase, Entry
<1>3. ListsStay
    BY <1>1, <1>2 DEF ListsStay, WalksStay, Reset, ToSave, ToWalk, ToSet
<1>4. At' = At
    BY <1>1 DEF At
<1>5. \A y, a, b : IsLinked(y, RowOf(a), RowOf(b))' <=> IsLinked(y, RowOf(a), RowOf(b))
    BY <1>1 DEF IsLinked, RowOf
<1>6. \A k \in rels' : ToCut(k) => ToCut(k)'
    BY <1>1 DEF ToCut
<1> QED BY <1>1, <1>3, <1>4, <1>5, <1>6, KeysStay, LinksStay, EmptiedStays DEF ListsStay

\* What Uncut deletes is off the list of what is to be cut.
LEMMA UncutKeeps ==
    ASSUME Inv, KeysDeclared, LinksMade, Emptied, Uncut
    PROVE  KeysDeclared' /\ LinksMade' /\ Emptied'
<1>t. run \in Run
    BY DEF Inv, TypeInv, TypeOK
<1>1. /\ run.pc = "uncut" /\ run'.pc = "cut" /\ run'.ds = run.ds /\ run'.rec = run.rec
      /\ run'.cmd = run.cmd /\ run'.sel = run.sel /\ run'.left = run.left /\ run'.back = run.back
      /\ run'.groups = run.groups /\ run'.todo = run.todo /\ run'.work = run.work
      /\ run'.keys = run.keys /\ run'.cuts = run.cuts
      /\ UNCHANGED <<fk, joins, recs, file>> /\ rels' = rels \ {run.cut}
    BY <1>t DEF Uncut, data, Run
<1>2. Phase(run') = Phase(run) /\ Entry' = Entry
    BY <1>1 DEF Phase, Entry
<1>3. ListsStay
    BY <1>1, <1>2 DEF ListsStay, WalksStay, Reset, ToSave, ToWalk, ToSet
<1>4. At' = At
    BY <1>1 DEF At
<1>5. \A y, a, b : IsLinked(y, RowOf(a), RowOf(b))' <=> IsLinked(y, RowOf(a), RowOf(b))
    BY <1>1 DEF IsLinked, RowOf
<1>6. \A k \in rels' : ToCut(k) => ToCut(k)'
    BY <1>1 DEF ToCut
<1> QED BY <1>1, <1>3, <1>4, <1>5, <1>6, KeysStay, LinksStay, EmptiedStays DEF ListsStay

\* What is remembered of a link is named at both of its ends.
LEMMA RelateKeeps ==
    ASSUME Matched, Answered, Inv, Steady, KeysDeclared, LinksMade, Emptied, Relate
    PROVE  KeysDeclared' /\ LinksMade' /\ Emptied'
<1>t. run \in Run /\ file \in Versions /\ run.rel \in Rels
    BY DEF Inv, TypeInv, TypeOK, InHand, Relate
<1> DEFINE c == RelationRecord(run.rec, run.rel, run.that)
<1>1. /\ run.pc = "relate" /\ run'.pc \in {"relation", "refs"} /\ run'.ds = run.ds /\ run'.rec = run.rec
      /\ run'.cmd = run.cmd /\ run'.sel = run.sel /\ run'.left = run.left
      /\ run'.groups = run.groups /\ run'.todo = run.todo /\ run'.work = run.work
      /\ run'.keys = run.keys /\ run'.refs = run.refs
      /\ run.refs # {} => run'.pc = "refs" /\ run'.rel = run.rel
      /\ UNCHANGED <<fk, joins, recs, file>> /\ rels' \subseteq rels \union {c}
    BY <1>t DEF Relate, Remembering, data, Run
<1>2. Phase(run') = Phase(run) /\ Entry' = Entry
    BY <1>1 DEF Phase, Entry
<1>3. ListsStay
    <2>1. \A d, g, n, r, m : ToSet(d, g, n, r, m) => ToSet(d, g, n, r, m)'
        BY <1>1, <1>2 DEF ToSet
    <2> QED BY <1>1, <1>2, <2>1 DEF ListsStay, WalksStay, Reset, ToSave, ToWalk
<1>4. At' = At
    BY <1>1 DEF At
<1>5. \A y, a, b : IsLinked(y, RowOf(a), RowOf(b))' <=> IsLinked(y, RowOf(a), RowOf(b))
    BY <1>1 DEF IsLinked, RowOf
<1>6. \A k : ~ToCut(k)
    BY <1>1 DEF ToCut
<1>7. ASSUME Schema[c.ra].kind = "join" PROVE \A e \in Ends(c) : Refs(c.ds, e[2], e[3]) # {}
    <2>1. /\ c.ds = run.ds /\ c.na = run.rec.name /\ c.ra = run.rel /\ c.nb = run.that
          /\ c.rb = Schema[run.rel].opposite
          /\ run.that \in Refs(run.ds, run.rec.name, run.rel)
        BY <1>1 DEF RelationRecord, Steady, Handling, RecordWalked, Walking, RelationWalked
    <2>2. <<run.ds, run.rec.name, run.rel, run.that>> \in file.refs
        BY <2>1 DEF Refs
    <2>3. Schema[run.rel].opposite # None
        BY <1>t, <1>7, <2>1, NoneAssumption DEF Matched, HasKey
    <2>4. Refs(run.ds, run.that, Schema[run.rel].opposite) # {}
        BY <1>t, <1>7, <2>1, <2>2, <2>3 DEF Answered, NamesOf, Refs
    <2> HIDE DEF c
    <2> QED BY <2>1, <2>4 DEF Ends
<1> HIDE DEF c
<1> QED BY <1>1, <1>3, <1>4, <1>5, <1>6, <1>7, KeysStay, LinksStay, EmptiedStays DEF ListsStay

\* The input is saved as the row of record q: its keys become those of the row.
SavedAs(q) ==
    /\ run.pc = "input" /\ run.keys = {} /\ run.cmd = "Reseed"
    /\ UNCHANGED <<joins, recs, rels, file>>
    /\ fk' = {x \in fk : x[1] # RowOf(q)} \union {<<RowOf(q), x[1], x[2]>> : x \in run.fks}
    /\ At' = recs \union {q} /\ q.ds = run.ds /\ <<q.group, q.name>> = Entry
    /\ \A a \in recs : Triple(a) = Triple(q) \/ RowOf(a) = RowOf(q) => a = q
    /\ WalksStay
    /\ \A d, g, n : ToSave(d, g, n) => ToSave(d, g, n)' \/ <<d, g, n>> = Triple(q)

\* The keys of the row are those of its required relations; the other relations
\* of the data set are all to be walked after it.
LEMMA SavedKeeps ==
    ASSUME Inv, Steady, Itinerary, EndsThere, InputBuilt, KeysDeclared, LinksMade, Emptied,
           NEW q, SavedAs(q)
    PROVE  KeysDeclared' /\ LinksMade' /\ Emptied'
<1> DEFINE row == RowOf(q)
           new == {<<row, x[1], x[2]>> : x \in run.fks}
<1>1. /\ run.pc = "input" /\ run.keys = {} /\ At = recs /\ At' = recs \union {q} /\ file' = file
      /\ q.ds = run.ds /\ q.group = run.rec.group /\ q.name = run.rec.name
      /\ fk' = {x \in fk : x[1] # row} \union new /\ joins' = joins /\ recs' = recs /\ rels' = rels
      /\ ToSave(q.ds, q.group, q.name)
    BY DEF SavedAs, At, Entry, ToSave
<1>2. /\ \A d : Reset(d)' => Reset(d)
      /\ \A d, g, n, r : ToWalk(d, g, n, r) => ToWalk(d, g, n, r)'
    BY DEF SavedAs, WalksStay
<1>3. ASSUME NEW a \in recs, a # q PROVE RowOf(a) # row /\ Triple(a) # Triple(q)
    BY <1>3 DEF SavedAs
<1>4. ASSUME NEW x \in run.fks, NEW r, Points(x, r), r \in RequiredRefs(Entry)
      PROVE  \E m \in Refs(run.ds, q.name, r) : \E b \in Found(run.ds, Schema[r].target, m) :
                /\ x = <<Schema[r].via, RowOf(b)>> /\ HasKey(r) /\ r \in Rels
                /\ Declares(r, q, b)' /\ Between(r, q, b, <<row, x[1], x[2]>>)'
    <2>1. PICK m \in Refs(run.ds, q.name, r) : \E b \in Found(run.ds, Schema[r].target, m) :
            x = <<Schema[r].via, RowOf(b)>>
        BY <1>1, <1>4 DEF Points
    <2>2. PICK b \in Found(run.ds, Schema[r].target, m) : x = <<Schema[r].via, RowOf(b)>>
        BY <2>1
    <2>3. r \in Rels /\ Schema[r].owner = q.group /\ HasKey(r)
        BY <1>1, <1>4 DEF RequiredRefs, RelsOf, Entry, HasKey
    <2>4. Declares(r, q, b)'
        BY <1>1, <2>2, <2>3 DEF Declares, Found, Refs
    <2>5. Between(r, q, b, <<row, x[1], x[2]>>)'
        BY <2>2, <2>3 DEF Between, HasKey, RowOf
    <2> QED BY <2>2, <2>3, <2>4, <2>5
<1>5. KeysDeclared'
    <2> SUFFICES ASSUME NEW a \in recs \union {q}, Reset(a.ds)', Triple(a) \in file.records,
                        ~ToSave(a.ds, a.group, a.name)', NEW x \in fk', x[1] = RowOf(a)
                 PROVE  KeyDeclared(x)'
        BY <1>1 DEF KeysDeclared, Triple, RowOf
    <2>1. CASE a = q
        <3>1. x \in new
            BY <1>1, <2>1
        <3>2. PICK y \in run.fks : x = <<row, y[1], y[2]>>
            BY <3>1
        <3>3. PICK r \in RequiredRefs(Entry) : Points(y, r)
            BY <1>1 DEF InputBuilt
        <3>4. PICK m \in Refs(run.ds, q.name, r) : \E b \in Found(run.ds, Schema[r].target, m) :
                r \in Rels /\ Declares(r, q, b)' /\ Between(r, q, b, x)'
            BY <1>4, <3>2, <3>3
        <3>5. PICK b \in Found(run.ds, Schema[r].target, m) :
                r \in Rels /\ Declares(r, q, b)' /\ Between(r, q, b, x)'
            BY <3>4
        <3>6. b \in At' /\ q \in At'
            BY <1>1 DEF Found
        <3> QED BY <3>5, <3>6 DEF KeyDeclared
    <2>2. CASE a # q
        <3>1. a \in recs /\ RowOf(a) # row /\ Triple(a) # Triple(q)
            BY <1>3, <2>2
        <3>2. x \in fk
            BY <1>1, <3>1
        <3>3. ~ToSave(a.ds, a.group, a.name)
            BY <3>1 DEF SavedAs, Triple
        <3>4. KeyDeclared(x)
            BY <1>1, <1>2, <3>1, <3>2, <3>3 DEF KeysDeclared
        <3>5. PICK r \in Rels, p \in recs, s \in recs : Declares(r, p, s) /\ Between(r, p, s, x)
            BY <1>1, <3>4 DEF KeyDeclared
        <3>6. Declares(r, p, s)' /\ Between(r, p, s, x)' /\ p \in At' /\ s \in At'
            BY <1>1, <3>5 DEF Declares, Between, RowOf
        <3> QED BY <3>6 DEF KeyDeclared
    <2> QED BY <2>1, <2>2
<1>6. LinksMade'
    <2> SUFFICES ASSUME NEW y \in file.refs, Reset(y[1])', ~ToLink(y)' PROVE Made(y)'
        BY <1>1 DEF LinksMade
    <2> DEFINE d == y[1]
               g == Schema[y[3]].owner
               h == Schema[y[3]].target
               there == As(d, g, y[2])
    <2>0. /\ y[3] \in RelsOf(g) /\ y[4] \in Refs(d, y[2], y[3]) /\ <<d, g, y[2]>> \in file.records
          /\ y = <<y[1], y[2], y[3], y[4]>>
        BY RefEnds
    <2>1. Reset(d)
        BY <1>2
    <2>2. ASSUME NEW a \in there' PROVE \E b \in Found(d, h, y[4]) : IsLinked(y[3], RowOf(a), RowOf(b))'
        <3>0. a \in recs \union {q} /\ a.ds = d /\ a.group = g /\ a.name = y[2]
            BY <1>1 DEF As
        <3>1. CASE Schema[y[3]].kind = "required" /\ a = q
            <4>1. y[3] \in RequiredRefs(Entry)
                BY <1>1, <2>0, <3>0, <3>1 DEF RequiredRefs, Entry
            <4>2. PICK x \in run.fks : Points(x, y[3])
                BY <1>1, <4>1 DEF InputBuilt
            <4>3. PICK m \in Refs(run.ds, q.name, y[3]) : \E b \in Found(run.ds, h, m) :
                    x = <<Schema[y[3]].via, RowOf(b)>>
                BY <1>4, <4>1, <4>2
            <4>4. m = y[4]
                <5>1. WellFormed(file)
                    BY VersionsAssumption DEF Inv, TypeInv, TypeOK
                <5>2. <<d, y[2], y[3], m>> \in file.refs
                    BY <1>1, <3>0, <3>1, <4>3 DEF Refs
                <5>3. <<d, y[2], y[3], m>> = y
                    BY <3>1, <5>1, <5>2 DEF WellFormed
                <5> QED BY <2>0, <5>3
            <4>5. PICK b \in Found(d, h, y[4]) : x = <<Schema[y[3]].via, RowOf(b)>>
                BY <1>1, <3>0, <3>1, <4>3, <4>4
            <4>6. <<row, Schema[y[3]].via, RowOf(b)>> \in fk'
                BY <1>1, <4>5
            <4>7. IsLinked(y[3], RowOf(a), RowOf(b))'
                BY <3>1, <4>6 DEF IsLinked, RowOf
            <4> QED BY <4>7
        <3>2. CASE Schema[y[3]].kind = "required" /\ a # q
            <4>1. RowOf(a) # row /\ Triple(a) # Triple(q) /\ a \in there
                BY <1>1, <1>3, <3>0, <3>2 DEF As
            <4>2. ~ToSave(d, g, y[2])
                BY <3>0, <3>2, <4>1 DEF SavedAs, ToLink, Triple
            <4>3. Made(y)
                BY <2>1, <3>2, <4>2 DEF LinksMade, ToLink
            <4>4. PICK b \in Found(d, h, y[4]) : IsLinked(y[3], RowOf(a), RowOf(b))
                BY <4>1, <4>3 DEF Made
            <4>5. IsLinked(y[3], RowOf(a), RowOf(b))'
                BY <1>1, <3>2, <4>1, <4>4 DEF IsLinked, RowOf
            <4> QED BY <4>5
        <3>3. CASE Schema[y[3]].kind # "required"
            <4>1. ~ToWalk(d, g, y[2], y[3]) /\ ~ToSet(d, g, y[2], y[3], y[4])
                BY <1>1, <1>2, <3>3 DEF ToLink, ToSet
            <4>2. d # run.ds
                <5>1. Phase(run) = "records" /\ HasLaterRelations(g)
                    BY <1>1, <2>0, <3>3 DEF Phase, HasLaterRelations
                <5> QED BY <2>0, <4>1, <5>1 DEF Itinerary, WorkAhead, ToWalk, SavedAs
            <4>3. Made(y)
                BY <2>1, <3>3, <4>1 DEF LinksMade, ToLink
            <4>4. a \in there /\ a # q
                BY <1>1, <3>0, <4>2 DEF As
            <4>5. PICK b \in Found(d, h, y[4]) : IsLinked(y[3], RowOf(a), RowOf(b))
                BY <4>3, <4>4 DEF Made
            <4>6. RowOf(a) # row /\ RowOf(b) # row
                BY <1>1, <1>3, <3>0, <4>2, <4>4 DEF Found
            <4>7. IsLinked(y[3], RowOf(a), RowOf(b))'
                BY <1>1, <4>5, <4>6 DEF IsLinked, RowOf
            <4> QED BY <4>7
        <3> QED BY <3>1, <3>2, <3>3
    <2>3. Found(d, h, y[4])' = Found(d, h, y[4])
        BY <1>1 DEF Found
    <2>4. ASSUME NEW a \in there' PROVE \E b \in Found(d, h, y[4])' : IsLinked(y[3], RowOf(a), RowOf(b))'
        BY <2>2, <2>3
    <2> HIDE DEF d, g, h, there
    <2> QED BY <2>4 DEF Made, d, g, h, there
<1>7. \A c : ~ToCut(c)
    BY <1>1 DEF ToCut
<1>8. WalksStay
    BY DEF SavedAs
<1> QED BY <1>1, <1>5, <1>6, <1>7, <1>8, EmptiedStays

\* A new row has the keys of its input and no others.
LEMMA SaveNewRowKeeps ==
    ASSUME Inv, Steady, Itinerary, EndsThere, InputBuilt, KeysDeclared, LinksMade, Emptied,
           run.cmd = "Reseed", SaveNewRow
    PROVE  KeysDeclared' /\ LinksMade' /\ Emptied'
<1>t. run \in Run
    BY DEF Inv, TypeInv, TypeOK
<1>1. PICK i \in FreshIds(run.rec.group) : SaveNewRowAs(i)
    BY DEF SaveNewRow, Fresh
<1> DEFINE q == run'.rec
           row == <<run.rec.group, i>>
<1>2. /\ run.pc = "input" /\ run.keys = {} /\ run'.pc = "track" /\ run'.ds = run.ds
      /\ run'.cmd = run.cmd /\ run'.sel = run.sel /\ run'.left = run.left
      /\ run'.groups = run.groups /\ run'.todo = run.todo /\ run'.work = run.work
      /\ UNCHANGED <<joins, recs, rels, file>>
    BY <1>t, <1>1 DEF SaveNewRowAs, Inserting, Run
<1>3. /\ run.rec.id = NoId /\ q.ds = run.rec.ds /\ q.group = run.rec.group /\ q.name = run.rec.name
      /\ q.id = i
    BY <1>1, NewRowType DEF Inv
<1>4. /\ RowOf(q) = row /\ row \notin rows /\ \A a \in recs : RowOf(a) # row
      /\ fk' = fk \union {<<row, x[1], x[2]>> : x \in run.fks}
    BY <1>1, <1>3 DEF FreshIds, SaveNewRowAs, RowOf
<1>5. run.rec.ds = run.ds /\ Found(run.rec.ds, run.rec.group, run.rec.name) = {}
    BY <1>2, <1>3 DEF Inv, Books
<1>6. \A a \in recs : Triple(a) # Triple(q)
    BY <1>3, <1>5 DEF Found, Triple
<1>7. /\ Phase(run) = "records" /\ Phase(run') = "records"
      /\ <<q.group, q.name>> = Entry /\ Triple(q) = <<run.ds, Entry[1], Entry[2]>>
    BY <1>2, <1>3, <1>5 DEF Phase, Entry, Triple
<1>8. At' = recs \union {q}
    BY <1>2 DEF At
<1> HIDE DEF q, row
<1>9. fk' = {x \in fk : x[1] # RowOf(q)} \union {<<RowOf(q), x[1], x[2]>> : x \in run.fks}
    BY <1>4 DEF EndsThere
<1>10. WalksStay
    BY <1>2, <1>7 DEF WalksStay, Reset, ToWalk
<1>11. \A d, g, n : ToSave(d, g, n) => ToSave(d, g, n)' \/ <<d, g, n>> = Triple(q)
    BY <1>2, <1>7 DEF ToSave
<1>12. SavedAs(q)
    BY <1>2, <1>3, <1>4, <1>5, <1>6, <1>7, <1>8, <1>9, <1>10, <1>11 DEF SavedAs
<1> QED BY <1>12, SavedKeeps

\* An updated row has the keys of its input in place of those it had.
LEMMA SaveUpdatedRowKeeps ==
    ASSUME Inv, Steady, Itinerary, EndsThere, InputBuilt, KeysDeclared, LinksMade, Emptied,
           run.cmd = "Reseed", SaveUpdatedRow
    PROVE  KeysDeclared' /\ LinksMade' /\ Emptied'
<1>t. run \in Run
    BY DEF Inv, TypeInv, TypeOK
<1> DEFINE q == run.rec
<1>2. /\ run.pc = "input" /\ run.keys = {} /\ run'.pc = "record" /\ run'.ds = run.ds
      /\ run'.cmd = run.cmd /\ run'.sel = run.sel /\ run'.left = run.left
      /\ run'.groups = run.groups /\ run'.todo = run.todo /\ run'.work = run.work
      /\ UNCHANGED <<joins, recs, rels, file>>
      /\ fk' = {x \in fk : x[1] # RowOf(q)} \union {<<RowOf(q), x[1], x[2]>> : x \in run.fks}
    BY <1>t DEF SaveUpdatedRow, Run
<1>3. q \in recs /\ q.ds = run.ds
    BY <1>2 DEF SaveUpdatedRow, Itinerary, InputTracked, Inv, Books
<1>4. \A a \in recs : Triple(a) = Triple(q) \/ RowOf(a) = RowOf(q) => a = q
    BY <1>3 DEF Inv, OneRecordPerName, Triple
<1>5. /\ Phase(run) = "records" /\ Phase(run') = "records"
      /\ <<q.group, q.name>> = Entry /\ Triple(q) = <<run.ds, Entry[1], Entry[2]>>
    BY <1>2, <1>3 DEF Phase, Entry, Triple
<1>6. At' = recs \union {q}
    BY <1>2, <1>3 DEF At
<1> HIDE DEF q
<1>7. WalksStay
    BY <1>2, <1>5 DEF WalksStay, Reset, ToWalk
<1>8. \A d, g, n : ToSave(d, g, n) => ToSave(d, g, n)' \/ <<d, g, n>> = Triple(q)
    BY <1>2, <1>5 DEF ToSave
<1>9. SavedAs(q)
    BY <1>2, <1>3, <1>4, <1>5, <1>6, <1>7, <1>8 DEF SavedAs
<1> QED BY <1>9, SavedKeeps

\* The records that a reference of the files names are not removed.
LEMMA RemoveRowKeeps ==
    ASSUME Inv, Onward, DoomedTracked, Steady, KeysDeclared, LinksMade, Emptied,
           run.cmd = "Reseed", RemoveRow
    PROVE  KeysDeclared' /\ LinksMade' /\ Emptied'
<1>t. run \in Run
    BY DEF Inv, TypeInv, TypeOK
<1> DEFINE row == RowOf(run.rec)
<1>1. /\ run.pc = "cut" /\ run.back # "relation" /\ run'.pc = "untrack" /\ run'.back = run.back
      /\ run'.ds = run.ds /\ run'.rec = run.rec
      /\ run'.cmd = run.cmd /\ run'.sel = run.sel /\ run'.left = run.left
      /\ run'.groups = run.groups /\ run'.todo = run.todo /\ run'.work = run.work
      /\ run'.keys = run.keys /\ run.cuts = {}
      /\ UNCHANGED <<recs, rels, file>>
      /\ fk' = {x \in fk : row \notin {x[1], x[3]}} /\ joins' = {x \in joins : row \notin x[2]}
    BY <1>t DEF RemoveRow, Run
<1>2. Phase(run') = Phase(run) /\ Entry' = Entry
    BY <1>1 DEF Phase, Entry
<1>3. ListsStay
    BY <1>1, <1>2 DEF ListsStay, WalksStay, Reset, ToSave, ToWalk, ToSet
<1>4. At' = At /\ At = recs
    BY <1>1 DEF At
<1>5. run.rec \in recs /\ Triple(run.rec) \notin file.records
    <2>1. run.rec \in ToRemove(run)
        BY <1>1 DEF ToRemove
    <2>2. InSeed(run)
        <3>1. run.back \in {"record", "relation", "gone"}
            BY <1>t, RunFields
        <3> QED BY <1>1, <3>1 DEF InSeed, Phase
    <2> QED BY <2>1, <2>2, <1>1, HandTracked DEF Onward, Justified
<1>6. \A a \in recs : Triple(a) \in file.records => RowOf(a) # row
    BY <1>5 DEF Inv, OneRecordPerName
<1>7. ASSUME NEW y \in file.refs, NEW a \in As(y[1], Schema[y[3]].owner, y[2]),
             NEW b \in Found(y[1], Schema[y[3]].target, y[4]), IsLinked(y[3], RowOf(a), RowOf(b))
      PROVE  IsLinked(y[3], RowOf(a), RowOf(b))'
    <2>1. a \in recs /\ Triple(a) \in file.records /\ b \in recs /\ Triple(b) \in file.records
        BY <1>4, RefEnds DEF As, Found, Triple
    <2>2. RowOf(a) # row /\ RowOf(b) # row
        BY <1>6, <2>1
    <2>3. RowOf(a)' = RowOf(a) /\ RowOf(b)' = RowOf(b)
        BY DEF RowOf
    <2> HIDE DEF row
    <2> QED BY <1>1, <1>7, <2>2, <2>3 DEF IsLinked
<1>8. \A c : ~ToCut(c)
    BY <1>1 DEF ToCut
<1> HIDE DEF row
<1> QED BY <1>1, <1>3, <1>4, <1>7, <1>8, KeysStay, LinksStay, EmptiedStays DEF ListsStay

\* What a Reseed cuts goes by a relation that the record in hand does not name,
\* but for a record that the DataSetRelation relates to itself.
LEMMA CutEmpty ==
    ASSUME Matched, Inv, Onward, DoomedTracked, Steady, Itinerary,
           NEW c \in run.cuts, run.pc = "cut", run.back = "relation",
           ~CutPanics(c), ~HasKey(CutBy(c)), NEW other \in OtherRows(c)
    PROVE  /\ CutBy(c) \in RelsOf(run.rec.group)
           /\ other[1] = Schema[CutBy(c)].target
           /\ Refs(run.ds, run.rec.name, CutBy(c)) = {} \/ other = RowOf(run.rec)
<1>1. /\ c \in rels /\ c \in RelRecs /\ Fits(c)
      /\ \/ c.ga = run.rec.group /\ c.na = run.rec.name /\ Refs(run.ds, run.rec.name, c.ra) = {}
         \/ c.gb = run.rec.group /\ c.nb = run.rec.name /\ Refs(run.ds, run.rec.name, c.rb) = {}
    BY DEF Steady, Handling, CutsThere, RelationsFit, Itinerary, CutsOfHand, Inv, TypeInv, TypeOK
<1>2. CutBy(c) \in RelsOf(run.rec.group)
    BY DEF CutPanics
<1>3. run.rec \in recs /\ run.rec.ds = run.ds
    BY HandTracked
<1>4. \A q, s \in recs : <<q.ds, q.group, q.name>> = <<s.ds, s.group, s.name>> => q = s
    BY DEF Inv, OneRecordPerName
<1>5. CASE AsA(c)
    <2>1. CutBy(c) = c.ra /\ other \in FoundRows(run.ds, c.gb, c.nb)
        BY <1>5 DEF CutBy, OtherRows
    <2>2. PICK b \in Found(run.ds, c.gb, c.nb) : other = RowOf(b)
        BY <2>1 DEF FoundRows
    <2>3. other[1] = Schema[c.ra].target
        BY <1>1, <2>2 DEF Found, RowOf, Fits
    <2>4. c.gb = run.rec.group /\ c.nb = run.rec.name => b = run.rec
        BY <1>3, <1>4, <2>2 DEF Found
    <2> QED BY <1>1, <1>2, <2>1, <2>2, <2>3, <2>4
<1>6. CASE ~AsA(c)
    <2>1. CutBy(c) = c.rb /\ other \in FoundRows(run.ds, c.ga, c.na) /\ c.ga # run.rec.group
        BY <1>6 DEF CutBy, OtherRows, AsA
    <2>2. c.rb \in Rels /\ Schema[c.rb].target = c.ga
        <3>1. c.rb \in Rels /\ c.ra \in Rels
            BY <1>1, <1>2, <2>1 DEF RelsOf, RelRecs
        <3> QED BY <1>1, <3>1, NoneAssumption DEF Matched, Fits
    <2>3. other[1] = c.ga
        BY <2>1 DEF FoundRows, Found, RowOf
    <2> QED BY <1>1, <1>2, <2>1, <2>2, <2>3
<1> QED BY <1>5, <1>6

\* What a cut deletes is a link of the record in hand, over the relation it goes
\* by or the opposite of that.
LEMMA CutHits ==
    ASSUME Matched, OwnColumns, SelfApart, Inv, KeysInPlace, NEW c, CutLink(c),
           NEW y \in Rels, NEW a \in recs, NEW b \in recs,
           Schema[y].owner = a.group, Schema[y].target = b.group,
           IsLinked(y, RowOf(a), RowOf(b)), ~IsLinked(y, RowOf(a), RowOf(b))',
           CutBy(c) \in RelsOf(run.rec.group),
           \A other \in OtherRows(c) : other[1] = Schema[CutBy(c)].target,
           run.rec \in recs
    PROVE  \E other \in OtherRows(c) :
            \/ a = run.rec /\ RowOf(b) = other /\ y = CutBy(c)
            \/ /\ b = run.rec /\ RowOf(a) = other /\ y = Schema[CutBy(c)].opposite
               /\ CutBy(c) = Schema[y].opposite /\ Schema[y].kind # "foreign"
<1> DEFINE s == CutBy(c)
           row == RowOf(run.rec)
           A == RowOf(a)
           B == RowOf(b)
<1>1. PICK other \in OtherRows(c) :
        /\ Linked(c, other)
        /\ IF Schema[s].kind = "join"
           THEN joins' = joins \ {<<Schema[s].via, {row, other}>>} /\ fk' = fk
           ELSE fk' = Null(other, Schema[s].via) /\ joins' = joins
    BY DEF CutLink
<1>2. s \in Rels /\ Schema[s].owner = run.rec.group /\ other[1] = Schema[s].target /\ ~HasKey(s)
    BY DEF RelsOf, CutLink
<1>3. Schema[s].kind \in {"foreign", "join"} /\ Schema[y].kind \in {"required", "optional", "foreign", "join"}
    BY <1>2, SchemaAssumption DEF HasKey, Relation
<1>4. A' = A /\ B' = B /\ A[1] = a.group /\ B[1] = b.group /\ row[1] = run.rec.group
    BY DEF RowOf
<1>5. /\ A = row => a = run.rec
      /\ B = row => b = run.rec
    BY DEF Inv, OneRecordPerName
<1>o. /\ Schema[s].opposite \in Rels /\ Schema[Schema[s].opposite].opposite = s
      /\ Schema[Schema[s].opposite].via = Schema[s].via
      /\ Schema[Schema[s].opposite].owner = Schema[s].target
      /\ Schema[s].kind = "foreign" => HasKey(Schema[s].opposite)
      /\ Schema[s].kind = "join" => Schema[Schema[s].opposite].kind = "join"
    <2>1. \/ HasKey(s)
          \/ LET o == Schema[s].opposite
             IN  /\ o \in Rels /\ Schema[o].opposite = s /\ Schema[o].via = Schema[s].via
                 /\ Schema[o].owner = Schema[s].target /\ Schema[o].target = Schema[s].owner
                 /\ HasKey(s) <=> Schema[o].kind = "foreign"
                 /\ Schema[s].kind = "join" <=> Schema[o].kind = "join"
        BY <1>2 DEF Matched
    <2>2. LET o == Schema[s].opposite
          IN  /\ o \in Rels /\ Schema[o].opposite = s /\ Schema[o].via = Schema[s].via
              /\ Schema[o].owner = Schema[s].target /\ Schema[o].target = Schema[s].owner
              /\ HasKey(s) <=> Schema[o].kind = "foreign"
              /\ Schema[s].kind = "join" <=> Schema[o].kind = "join"
        BY <1>2, <2>1
    <2>3. Schema[Schema[s].opposite].kind \in {"required", "optional", "foreign", "join"}
        BY <2>2, SchemaAssumption DEF Relation
    <2> QED BY <1>2, <2>2, <2>3 DEF HasKey
<1>6. CASE Schema[s].kind = "join"
    <2>1. /\ Schema[y].kind = "join"
          /\ <<Schema[y].via, {A, B}>> = <<Schema[s].via, {row, other}>>
        BY <1>1, <1>3, <1>4, <1>6 DEF IsLinked
    <2>2. y \in {s, Schema[s].opposite}
        BY <1>2, <1>6, <2>1 DEF OwnColumns
    <2>3. \/ A = row /\ B = other
          \/ B = row /\ A = other
        BY <2>1
    <2>4. Schema[s].target # run.rec.group
        BY <1>2, <1>6 DEF SelfApart
    <2>5. CASE A = row /\ B = other
        <3>1. a = run.rec
            BY <1>5, <2>5
        <3>2. y = s
            BY <1>o, <2>2, <2>4, <3>1
        <3> HIDE DEF A, B, row, s
        <3> QED BY <1>1, <2>5, <3>1, <3>2 DEF B, s
    <2>6. CASE B = row /\ A = other
        <3>1. b = run.rec
            BY <1>5, <2>6
        <3>2. y = Schema[s].opposite
            BY <1>2, <2>2, <2>4, <3>1
        <3> HIDE DEF A, B, row, s
        <3> QED BY <1>1, <1>6, <1>o, <2>6, <3>1, <3>2 DEF A, s
    <2> QED BY <2>3, <2>5, <2>6
<1>7. CASE Schema[s].kind = "foreign"
    <2>1. PICK z \in fk : z \notin fk' /\
            \/ Schema[y].kind = "foreign" /\ z = <<B, Schema[y].via, A>>
            \/ HasKey(y) /\ z = <<A, Schema[y].via, B>>
        BY <1>1, <1>3, <1>4, <1>7 DEF IsLinked, HasKey
    <2>2. z[1] = other /\ z[2] = Schema[s].via
        BY <1>1, <1>7, <2>1 DEF Null
    <2>3. z = <<other, Schema[s].via, row>>
        BY <1>1, <1>7, <2>2 DEF Linked, KeysInPlace
    <2>4. CASE Schema[y].kind = "foreign" /\ z = <<B, Schema[y].via, A>>
        <3>1. A = row /\ B = other /\ Schema[y].via = Schema[s].via
            BY <2>3, <2>4
        <3>2. LET p == Schema[y].opposite
              IN  /\ p \in Rels /\ HasKey(p) /\ Schema[p].opposite = y
                  /\ Schema[p].via = Schema[y].via /\ Schema[p].owner = Schema[y].target
            <4>1. ~HasKey(y)
                BY <2>4 DEF HasKey
            <4>2. LET p == Schema[y].opposite
                  IN  /\ p \in Rels /\ Schema[p].opposite = y
                      /\ Schema[p].via = Schema[y].via /\ Schema[p].owner = Schema[y].target
                      /\ Schema[p].target = Schema[y].owner
                      /\ HasKey(y) <=> Schema[p].kind = "foreign"
                      /\ Schema[y].kind = "join" <=> Schema[p].kind = "join"
                BY <4>1 DEF Matched
            <4>3. Schema[Schema[y].opposite].kind \in {"required", "optional", "foreign", "join"}
                BY <4>2, SchemaAssumption DEF Relation
            <4> QED BY <2>4, <4>1, <4>2, <4>3 DEF HasKey
        <3>3. Schema[Schema[y].opposite].owner = Schema[Schema[s].opposite].owner
            BY <1>2, <1>4, <1>o, <3>1, <3>2
        <3>4. Schema[y].opposite = Schema[s].opposite
            BY <1>7, <1>o, <3>1, <3>2, <3>3 DEF OwnColumns
        <3>5. y = s
            BY <1>o, <3>2, <3>4
        <3> HIDE DEF A, B, row, s
        <3> QED BY <1>1, <1>5, <3>1, <3>5 DEF A, B, s
    <2>5. CASE HasKey(y) /\ z = <<A, Schema[y].via, B>>
        <3>1. B = row /\ A = other /\ Schema[y].via = Schema[s].via
            BY <2>3, <2>5
        <3>2. y = Schema[s].opposite
            BY <1>2, <1>4, <1>7, <1>o, <2>5, <3>1 DEF OwnColumns
        <3> HIDE DEF A, B, row, s
        <3> QED BY <1>1, <1>5, <1>o, <2>5, <3>1, <3>2 DEF HasKey, A, B, s
    <2> QED BY <2>1, <2>4, <2>5
<1> QED BY <1>3, <1>6, <1>7

\* A cut deletes no link that the files name and that was already set: by
\* Answered the record at its other end, if it names a link, would name it here.
LEMMA CutLinkKeeps ==
    ASSUME Matched, OwnColumns, SelfApart, Answered,
           Inv, Onward, DoomedTracked, Steady, Itinerary, KeysInPlace,
           KeysDeclared, LinksMade, Emptied, run.cmd = "Reseed", NEW c \in run.cuts, CutLink(c)
    PROVE  KeysDeclared' /\ LinksMade' /\ Emptied'
<1>t. run \in Run /\ file \in Versions
    BY DEF Inv, TypeInv, TypeOK
<1>1. /\ run.pc = "cut" /\ run'.pc = "uncut" /\ run'.back = run.back
      /\ run'.ds = run.ds /\ run'.rec = run.rec
      /\ run'.cmd = run.cmd /\ run'.sel = run.sel /\ run'.left = run.left
      /\ run'.groups = run.groups /\ run'.todo = run.todo /\ run'.work = run.work
      /\ run'.keys = run.keys /\ run'.cuts = run.cuts \ {c} /\ run'.cut = c
      /\ UNCHANGED <<recs, rels, file>> /\ ~CutPanics(c) /\ ~HasKey(CutBy(c))
    BY <1>t DEF CutLink, Cutting, Run
<1>0. fk' \subseteq fk
    BY DEF CutLink, Null
<1>2. Phase(run') = Phase(run) /\ Entry' = Entry
    BY <1>1 DEF Phase, Entry
<1>3. ListsStay
    BY <1>1, <1>2 DEF ListsStay, WalksStay, Reset, ToSave, ToWalk, ToSet
<1>4. At' = At /\ At = recs
    BY <1>1 DEF At
<1>5. run.rec \in recs /\ run.rec.ds = run.ds
    BY <1>1, HandTracked
<1>6. CutBy(c) \in RelsOf(run.rec.group) /\ CutBy(c) \in Rels /\ Schema[CutBy(c)].owner = run.rec.group
    BY <1>1 DEF CutPanics, RelsOf
<1>7. ASSUME NEW other \in OtherRows(c) PROVE other[1] = Schema[CutBy(c)].target
    <2>1. c \in rels /\ Fits(c) /\ c \in RelRecs
        BY <1>1 DEF Steady, Handling, CutsThere, RelationsFit, Inv, TypeInv, TypeOK
    <2>2. CASE AsA(c)
        BY <1>7, <2>1, <2>2 DEF OtherRows, CutBy, FoundRows, Found, RowOf, Fits
    <2>3. CASE ~AsA(c)
        <3>1. c.rb \in Rels /\ c.ra \in Rels
            BY <1>6, <2>1, <2>3 DEF CutBy, RelRecs
        <3>2. Schema[c.rb].target = c.ga
            BY <2>1, <3>1, NoneAssumption DEF Matched, Fits
        <3> QED BY <1>7, <2>3, <3>2 DEF OtherRows, CutBy, FoundRows, Found, RowOf
    <2> QED BY <2>2, <2>3
<1>8. ASSUME NEW y \in file.refs, NEW a \in As(y[1], Schema[y[3]].owner, y[2]),
             NEW b \in Found(y[1], Schema[y[3]].target, y[4]), IsLinked(y[3], RowOf(a), RowOf(b)),
             ~IsLinked(y[3], RowOf(a), RowOf(b))'
      PROVE  FALSE
    <2>1. /\ a \in recs /\ b \in recs /\ y[3] \in Rels
          /\ a.ds = y[1] /\ a.group = Schema[y[3]].owner /\ a.name = y[2]
          /\ b.ds = y[1] /\ b.group = Schema[y[3]].target /\ b.name = y[4]
          /\ Triple(a) \in file.records /\ Triple(b) \in file.records
          /\ y = <<y[1], y[2], y[3], y[4]>>
        BY <1>4, RefEnds DEF As, Found, Triple
    <2>2. PICK other \in OtherRows(c) :
            \/ a = run.rec /\ RowOf(b) = other /\ y[3] = CutBy(c)
            \/ /\ b = run.rec /\ RowOf(a) = other /\ y[3] = Schema[CutBy(c)].opposite
               /\ CutBy(c) = Schema[y[3]].opposite /\ Schema[y[3]].kind # "foreign"
        BY <1>5, <1>6, <1>7, <1>8, <2>1, CutHits
    <2>3. CASE run.back # "relation"
        <3>1. run.rec \in ToRemove(run)
            BY <1>1, <2>3 DEF ToRemove
        <3>2. InSeed(run)
            <4>1. run.back \in {"record", "relation", "gone"}
                BY <1>t, RunFields
            <4> QED BY <1>1, <2>3, <4>1 DEF InSeed, Phase
        <3>3. Triple(run.rec) \notin file.records
            BY <3>1, <3>2 DEF Onward, Justified
        <3> QED BY <2>1, <2>2, <3>3
    <2>4. CASE run.back = "relation"
        <3>1. Refs(run.ds, run.rec.name, CutBy(c)) = {} \/ other = RowOf(run.rec)
            BY <1>1, <2>4, CutEmpty
        <3>2. CASE other = RowOf(run.rec)
            <4>1. a = b
                BY <1>5, <2>1, <2>2, <3>2 DEF Inv, OneRecordPerName
            <4> QED BY <1>t, <2>1, <4>1 DEF SelfApart
        <3>3. CASE Refs(run.ds, run.rec.name, CutBy(c)) = {}
            <4>1. ASSUME a = run.rec, y[3] = CutBy(c) PROVE FALSE
                BY <1>5, <2>1, <3>3, <4>1, RefEnds DEF Refs
            <4>2. ASSUME b = run.rec, CutBy(c) = Schema[y[3]].opposite, Schema[y[3]].kind # "foreign"
                  PROVE  FALSE
                <5>1. NamesOf(file, y[1], y[4], CutBy(c)) # {}
                    BY <1>t, <1>6, <4>2, NoneAssumption DEF Answered
                <5> QED BY <1>5, <2>1, <3>3, <4>2, <5>1 DEF NamesOf, Refs
            <4> QED BY <2>2, <4>1, <4>2
        <3> QED BY <3>1, <3>2, <3>3
    <2> QED BY <2>3, <2>4
<1>9. \A y \in file.refs : Reset(y[1]) =>
            \A a \in As(y[1], Schema[y[3]].owner, y[2]), b \in Found(y[1], Schema[y[3]].target, y[4]) :
                IsLinked(y[3], RowOf(a), RowOf(b)) => IsLinked(y[3], RowOf(a), RowOf(b))'
    BY <1>8
<1>10. \A k \in rels' : k \in rels /\ (ToCut(k) => ToCut(k)')
    BY <1>1 DEF ToCut
<1> QED BY <1>0, <1>1, <1>3, <1>4, <1>9, <1>10, KeysStay, LinksStay, EmptiedStays DEF ListsStay

-------------------------------------------------------------------------------
\* The record whose row holds the key of a reference, and the one it points to.
Holder(y) ==
    IF Schema[y[3]].kind = "foreign" THEN <<Schema[y[3]].target, y[4]>>
                                     ELSE <<Schema[y[3]].owner, y[2]>>
Pointee(y) ==
    IF Schema[y[3]].kind = "foreign" THEN <<Schema[y[3]].owner, y[2]>>
                                     ELSE <<Schema[y[3]].target, y[4]>>

\* No two references of a data set want one key to point to different records.
LEMMA OneKey ==
    ASSUME Matched, OwnColumns, Agreed, Inv, NEW y \in file.refs, NEW z \in file.refs, y[1] = z[1],
           Schema[y[3]].kind # "join", Schema[z[3]].kind # "join",
           Schema[y[3]].via = Schema[z[3]].via, Holder(y) = Holder(z)
    PROVE  Pointee(y) = Pointee(z)
<1> DEFINE Key(r) == IF Schema[r].kind = "foreign" THEN Schema[r].opposite ELSE r
<1>1. /\ y[3] \in Rels /\ z[3] \in Rels /\ file \in Versions /\ WellFormed(file)
      /\ y = <<y[1], y[2], y[3], y[4]>> /\ z = <<z[1], z[2], z[3], z[4]>>
    BY RefEnds, VersionsAssumption DEF Inv, TypeInv, TypeOK
<1>2. \A r \in Rels : Schema[r].kind \in {"required", "optional", "foreign", "join"}
    BY SchemaAssumption DEF Relation
<1>3. ASSUME NEW r \in Rels, Schema[r].kind = "foreign"
      PROVE  LET o == Schema[r].opposite
             IN  /\ o \in Rels /\ HasKey(o) /\ Schema[o].opposite = r /\ Schema[o].via = Schema[r].via
                 /\ Schema[o].owner = Schema[r].target /\ Schema[o].target = Schema[r].owner
    <2>1. ~HasKey(r)
        BY <1>3 DEF HasKey
    <2>2. LET o == Schema[r].opposite
          IN  /\ o \in Rels /\ Schema[o].opposite = r /\ Schema[o].via = Schema[r].via
              /\ Schema[o].owner = Schema[r].target /\ Schema[o].target = Schema[r].owner
              /\ HasKey(r) <=> Schema[o].kind = "foreign"
              /\ Schema[r].kind = "join" <=> Schema[o].kind = "join"
        BY <2>1 DEF Matched
    <2> QED BY <1>2, <1>3, <2>1, <2>2 DEF HasKey
<1>4. ASSUME NEW r \in Rels, Schema[r].kind # "join"
      PROVE  /\ Key(r) \in Rels /\ HasKey(Key(r)) /\ Schema[Key(r)].via = Schema[r].via
             /\ Schema[Key(r)].owner = IF Schema[r].kind = "foreign" THEN Schema[r].target ELSE Schema[r].owner
    BY <1>2, <1>3, <1>4 DEF HasKey
<1> HIDE DEF Key
<1>5. Key(y[3]) = Key(z[3])
    <2>1. Schema[Key(y[3])].owner = Holder(y)[1] /\ Schema[Key(z[3])].owner = Holder(z)[1]
        BY <1>1, <1>4 DEF Holder
    <2> QED BY <1>1, <1>4, <2>1 DEF OwnColumns
<1>6. CASE Schema[y[3]].kind = "foreign" /\ Schema[z[3]].kind = "foreign"
    <2>1. y[3] = z[3]
        BY <1>1, <1>3, <1>5, <1>6 DEF Key
    <2> QED BY <1>1, <1>6, <2>1 DEF Agreed, Holder, Pointee
<1>7. CASE Schema[y[3]].kind = "foreign" /\ Schema[z[3]].kind # "foreign"
    <2>1. z[3] = Schema[y[3]].opposite /\ Schema[z[3]].target = Schema[y[3]].owner /\ z[2] = y[4]
        BY <1>1, <1>3, <1>5, <1>7 DEF Key, Holder
    <2> QED BY <1>1, <1>7, <2>1 DEF Agreed, Pointee
<1>8. CASE Schema[y[3]].kind # "foreign" /\ Schema[z[3]].kind = "foreign"
    <2>1. y[3] = Schema[z[3]].opposite /\ Schema[y[3]].target = Schema[z[3]].owner /\ y[2] = z[4]
        BY <1>1, <1>3, <1>5, <1>8 DEF Key, Holder
    <2> QED BY <1>1, <1>8, <2>1 DEF Agreed, Pointee
<1>9. CASE Schema[y[3]].kind # "foreign" /\ Schema[z[3]].kind # "foreign"
    <2>1. y[3] = z[3] /\ y[2] = z[2] /\ Schema[y[3]].kind \in {"required", "optional"}
        BY <1>1, <1>2, <1>5, <1>9 DEF Key, Holder
    <2>2. y = z
        BY <1>1, <2>1 DEF WellFormed
    <2> QED BY <2>2
<1> QED BY <1>6, <1>7, <1>8, <1>9

\* Setting a reference overwrites no other that is set already: by Agreed two that
\* want one key point it to one record.
LEMMA LinkRefKeeps ==
    ASSUME Matched, OwnColumns, Agreed, Inv, Steady, KeysInPlace,
           KeysDeclared, LinksMade, Emptied, NEW m \in run.refs, LinkRef(m)
    PROVE  KeysDeclared' /\ LinksMade' /\ Emptied'
<1>t. run \in Run
    BY DEF Inv, TypeInv, TypeOK
<1> DEFINE z == <<run.ds, run.rec.name, run.rel, m>>
           this == RowOf(run.rec)
           via == Schema[run.rel].via
<1>1. /\ run.pc = "refs" /\ run'.pc = "relate" /\ run'.ds = run.ds /\ run'.rec = run.rec
      /\ run'.cmd = run.cmd /\ run'.sel = run.sel /\ run'.left = run.left
      /\ run'.groups = run.groups /\ run'.todo = run.todo /\ run'.work = run.work
      /\ run'.keys = run.keys /\ run'.refs = run.refs \ {m} /\ run'.rel = run.rel
      /\ UNCHANGED <<recs, rels, file>>
    BY <1>t DEF LinkRef, Run
<1>2. /\ Phase(run') = Phase(run) /\ Phase(run) = "relations" /\ Entry' = Entry
      /\ At' = At /\ At = recs
    BY <1>1 DEF Phase, Entry, At
<1>3. WalksStay
    BY <1>1, <1>2 DEF WalksStay, Reset, ToWalk
<1>4. \A d, g, n : ToSave(d, g, n) => ToSave(d, g, n)'
    BY <1>1 DEF ToSave
<1>5. \A d, g, n, r, k : ToSet(d, g, n, r, k) =>
            ToSet(d, g, n, r, k)' \/ (<<g, n>> = Entry /\ <<d, n, r, k>> = z)
    BY <1>1, <1>2 DEF ToSet, Entry
<1>6. /\ run.rec \in recs /\ run.rec.ds = run.ds /\ run.rel \in Rels
      /\ Schema[run.rel].owner = run.rec.group /\ z \in file.refs
    BY <1>1 DEF Steady, Handling, RecordWalked, Walking, RelationWalked, RelsOf, Refs
<1>7. PICK that \in FoundRows(run.ds, Schema[run.rel].target, m) : SetLink(run.rel, this, that)
    BY DEF LinkRef
<1>8. PICK b0 \in Found(run.ds, Schema[run.rel].target, m) : RowOf(b0) = that
    BY <1>7 DEF FoundRows
<1>9. /\ b0 \in recs /\ b0.ds = run.ds /\ b0.group = Schema[run.rel].target /\ b0.name = m
      /\ Declares(run.rel, run.rec, b0)
    BY <1>6, <1>8 DEF Found, Declares
<1>10. Schema[run.rel].kind \in {"required", "optional", "foreign", "join"}
    BY <1>6, SchemaAssumption DEF Relation
<1>11. PICK p \in {run.rec, b0}, q \in {run.rec, b0} :
        /\ \/ fk' = fk
           \/ Schema[run.rel].kind # "join" /\ fk' = Pointing(RowOf(p), via, RowOf(q))
        /\ joins \subseteq joins'
        /\ IsLinked(run.rel, this, that)' \/ Schema[run.rel].kind = "required"
        /\ Between(run.rel, run.rec, b0, <<RowOf(p), via, RowOf(q)>>) \/ fk' = fk
        /\ Schema[run.rel].kind # "join" =>
            /\ Triple(p) = <<run.ds, Holder(z)[1], Holder(z)[2]>>
            /\ Triple(q) = <<run.ds, Pointee(z)[1], Pointee(z)[2]>>
    <2>1. CASE Schema[run.rel].kind = "foreign"
        <3>1. fk' = Pointing(that, via, this) /\ joins' = joins
            BY <1>7, <2>1 DEF SetLink
        <3>2. Between(run.rel, run.rec, b0, <<that, via, this>>)
            BY <1>8, <2>1 DEF Between
        <3>3. IsLinked(run.rel, this, that)'
            BY <1>1, <2>1, <3>1 DEF IsLinked, Pointing, RowOf
        <3>4. /\ Triple(b0) = <<run.ds, Holder(z)[1], Holder(z)[2]>>
              /\ Triple(run.rec) = <<run.ds, Pointee(z)[1], Pointee(z)[2]>>
            BY <1>6, <1>9, <2>1 DEF Triple, Holder, Pointee
        <3> QED BY <1>8, <2>1, <3>1, <3>2, <3>3, <3>4
    <2>2. CASE Schema[run.rel].kind = "optional"
        <3>1. fk' = Pointing(this, via, that) /\ joins' = joins
            BY <1>7, <2>2 DEF SetLink
        <3>2. Between(run.rel, run.rec, b0, <<this, via, that>>)
            BY <1>8, <2>2 DEF Between, HasKey
        <3>3. IsLinked(run.rel, this, that)'
            BY <1>1, <2>2, <3>1 DEF IsLinked, Pointing, RowOf
        <3>4. /\ Triple(run.rec) = <<run.ds, Holder(z)[1], Holder(z)[2]>>
              /\ Triple(b0) = <<run.ds, Pointee(z)[1], Pointee(z)[2]>>
            BY <1>6, <1>9, <2>2 DEF Triple, Holder, Pointee
        <3> QED BY <1>8, <2>2, <3>1, <3>2, <3>3, <3>4
    <2>3. CASE Schema[run.rel].kind = "required"
        <3>1. fk' = fk /\ joins' = joins
            BY <1>7, <2>3 DEF SetLink
        <3>4. /\ Triple(run.rec) = <<run.ds, Holder(z)[1], Holder(z)[2]>>
              /\ Triple(b0) = <<run.ds, Pointee(z)[1], Pointee(z)[2]>>
            BY <1>6, <1>9, <2>3 DEF Triple, Holder, Pointee
        <3> QED BY <2>3, <3>1, <3>4
    <2>4. CASE Schema[run.rel].kind = "join"
        <3>1. fk' = fk /\ joins' = joins \union {<<via, {this, that}>>}
            BY <1>7, <2>4 DEF SetLink
        <3>2. IsLinked(run.rel, this, that)'
            BY <1>1, <2>4, <3>1 DEF IsLinked, RowOf
        <3> QED BY <2>4, <3>1, <3>2
    <2> QED BY <1>10, <2>1, <2>2, <2>3, <2>4
<1> HIDE DEF z, via, this
<1>12. KeysDeclared'
    <2> SUFFICES ASSUME NEW a \in recs, Reset(a.ds)', Triple(a) \in file.records,
                        ~ToSave(a.ds, a.group, a.name)', NEW x \in fk', x[1] = RowOf(a)
                 PROVE  KeyDeclared(x)'
        BY <1>1, <1>2 DEF KeysDeclared, Triple, RowOf
    <2>1. CASE x \in fk
        <3>1. KeyDeclared(x)
            BY <1>2, <1>3, <1>4, <2>1 DEF KeysDeclared, WalksStay
        <3>2. PICK r \in Rels, u \in recs, v \in recs : Declares(r, u, v) /\ Between(r, u, v, x)
            BY <1>2, <3>1 DEF KeyDeclared
        <3>3. Declares(r, u, v)' /\ Between(r, u, v, x)'
            BY <1>1, <3>2 DEF Declares, Between, RowOf
        <3> QED BY <1>2, <3>3 DEF KeyDeclared
    <2>2. CASE x \notin fk
        <3>1. x = <<RowOf(p), via, RowOf(q)>> /\ fk' # fk
            BY <1>11, <2>2 DEF Pointing, Null
        <3>2. Between(run.rel, run.rec, b0, x)
            BY <1>11, <3>1
        <3>3. \E a1, b1 \in recs : Declares(run.rel, a1, b1)' /\ Between(run.rel, a1, b1, x)'
            <4>1. Declares(run.rel, run.rec, b0)' /\ Between(run.rel, run.rec, b0, x)'
                BY <1>1, <1>9, <3>2 DEF Declares, Between, RowOf
            <4> QED BY <1>1, <1>6, <1>9, <4>1
        <3> QED BY <1>1, <1>2, <1>6, <3>3 DEF KeyDeclared
    <2> QED BY <2>1, <2>2
<1>13. ASSUME NEW y \in file.refs, NEW a \in As(y[1], Schema[y[3]].owner, y[2]),
              NEW b \in Found(y[1], Schema[y[3]].target, y[4]), IsLinked(y[3], RowOf(a), RowOf(b))
       PROVE  IsLinked(y[3], RowOf(a), RowOf(b))'
    <2>0. RowOf(a)' = RowOf(a) /\ RowOf(b)' = RowOf(b)
        BY DEF RowOf
    <2>k. y[3] \in Rels /\ Schema[y[3]].kind \in {"required", "optional", "foreign", "join"}
        BY RefEnds, SchemaAssumption DEF Relation
    <2>1. CASE Schema[y[3]].kind = "join"
        BY <1>11, <1>13, <2>0, <2>1 DEF IsLinked
    <2>2. CASE fk' = fk
        BY <1>11, <1>13, <2>0, <2>2 DEF IsLinked
    <2>3. CASE Schema[y[3]].kind # "join" /\ fk' # fk
        <3>1. PICK u \in {a, b}, v \in {a, b} :
                /\ <<RowOf(u), Schema[y[3]].via, RowOf(v)>> \in fk
                /\ (<<RowOf(u), Schema[y[3]].via, RowOf(v)>> \in fk' => IsLinked(y[3], RowOf(a), RowOf(b))')
                /\ Triple(u) = <<y[1], Holder(y)[1], Holder(y)[2]>>
                /\ Triple(v) = <<y[1], Pointee(y)[1], Pointee(y)[2]>>
            <4>1. CASE Schema[y[3]].kind = "foreign"
                BY <1>2, <1>13, <2>0, <4>1 DEF IsLinked, As, Found, Triple, Holder, Pointee
            <4>2. CASE Schema[y[3]].kind \in {"required", "optional"}
                BY <1>2, <1>13, <2>0, <4>2 DEF IsLinked, As, Found, Triple, Holder, Pointee
            <4> QED BY <2>3, <2>k, <4>1, <4>2
        <3>2. /\ fk' = Pointing(RowOf(p), via, RowOf(q)) /\ Schema[run.rel].kind # "join"
              /\ u \in recs /\ v \in recs /\ p \in recs /\ q \in recs
            BY <1>2, <1>6, <1>9, <1>11, <2>3 DEF As, Found
        <3>3. CASE RowOf(u) # RowOf(p) \/ Schema[y[3]].via # via
            BY <3>1, <3>2, <3>3 DEF Pointing, Null
        <3>4. CASE RowOf(u) = RowOf(p) /\ Schema[y[3]].via = via
            <4>1. u = p
                BY <3>2, <3>4 DEF Inv, OneRecordPerName
            <4>2. y[1] = z[1] /\ Holder(y) = Holder(z) /\ z[3] = run.rel /\ z[1] = run.ds
                BY <1>11, <3>1, <3>2, <4>1 DEF Holder, z
            <4>3. Pointee(y) = Pointee(z)
                BY <1>6, <2>3, <3>2, <3>4, <4>2, OneKey DEF via
            <4>4. Triple(v) = Triple(q)
                BY <1>11, <3>1, <3>2, <4>2, <4>3
            <4>5. v = q
                BY <3>2, <4>4 DEF Inv, OneRecordPerName, Triple
            <4> QED BY <3>1, <3>2, <3>4, <4>5 DEF Pointing
        <3> QED BY <3>3, <3>4
    <2> QED BY <2>1, <2>2, <2>3
<1>14. LinksMade'
    <2> SUFFICES ASSUME NEW y \in file.refs, Reset(y[1])', ~ToLink(y)' PROVE Made(y)'
        BY <1>1 DEF LinksMade
    <2> DEFINE d == y[1]
               g == Schema[y[3]].owner
               h == Schema[y[3]].target
               there == As(d, g, y[2])
    <2>1. Made(y) \/ (y = z /\ <<g, y[2]>> = Entry /\ Schema[y[3]].kind # "required")
        <3>1. Reset(y[1]) => ToLink(y) \/ Made(y)
            BY DEF LinksMade
        <3>2. ToLink(y) => y = z /\ <<g, y[2]>> = Entry /\ Schema[y[3]].kind # "required"
            <4>1. y = <<y[1], y[2], y[3], y[4]>>
                BY RefEnds
            <4>2. CASE Schema[y[3]].kind = "required"
                BY <1>4, <4>2 DEF ToLink
            <4>3. CASE Schema[y[3]].kind # "required"
                BY <1>3, <1>5, <4>1, <4>3 DEF ToLink, WalksStay
            <4> QED BY <4>2, <4>3
        <3> QED BY <1>3, <3>1, <3>2 DEF WalksStay
    <2>2. ASSUME NEW a \in there PROVE \E b \in Found(d, h, y[4]) : IsLinked(y[3], RowOf(a), RowOf(b))'
        <3>1. CASE Made(y)
            <4>1. PICK b \in Found(d, h, y[4]) : IsLinked(y[3], RowOf(a), RowOf(b))
                BY <2>2, <3>1 DEF Made
            <4> QED BY <1>13, <2>2, <4>1
        <3>2. CASE y = z /\ <<g, y[2]>> = Entry /\ Schema[y[3]].kind # "required"
            <4>1. d = run.ds /\ y[3] = run.rel /\ y[4] = m
                BY <3>2 DEF z
            <4>2. a = run.rec
                BY <1>2, <1>6, <2>2, <3>2, <4>1 DEF As, Entry, Inv, OneRecordPerName
            <4>3. IsLinked(y[3], RowOf(a), RowOf(b0))'
                <5>1. RowOf(a)' = this /\ RowOf(b0)' = that
                    BY <1>8, <4>2 DEF RowOf, this
                <5>2. IsLinked(run.rel, this, that)'
                    BY <1>11, <3>2, <4>1
                <5>3. run.rel' = run.rel /\ this' = this
                    BY <1>1 DEF this, RowOf
                <5> QED BY <4>1, <5>1, <5>2, <5>3 DEF IsLinked
            <4> QED BY <1>8, <4>1, <4>3
        <3> QED BY <2>1, <3>1, <3>2
    <2>3. there' = there /\ Found(d, h, y[4])' = Found(d, h, y[4])
        BY <1>1, <1>2 DEF As, Found
    <2> HIDE DEF d, g, h, there
    <2> QED BY <2>2, <2>3 DEF Made, d, g, h, there
<1>15. \A c : ~ToCut(c)
    BY <1>1 DEF ToCut
<1> QED BY <1>1, <1>3, <1>12, <1>14, <1>15, EmptiedStays

\* Every step of a Reseed keeps the links that it has made.
LEMMA StepKeepsLinks ==
    ASSUME Matched, OwnColumns, SelfApart, Answered, Agreed,
           Inv, Onward, DoomedTracked, Steady, KeysInPlace, EndsThere, Itinerary, InputBuilt,
           KeysDeclared, LinksMade, Emptied,
           Step, run.cmd = "Reseed", run'.pc \notin {"idle", "panicked"}
    PROVE  KeysDeclared' /\ LinksMade' /\ Emptied'
<1>t. run \in Run
    BY DEF Inv, TypeInv, TypeOK
<1>1. CASE Setup
    BY <1>1, SetupMoves, MovesKeep
<1>2. CASE Upsert
    <2>1. ASSUME NEW x \in run.todo, Insert(x) \/ Recreate(x) \/ Update(x)
          PROVE  KeysDeclared' /\ LinksMade' /\ Emptied'
        BY <2>1, TakingMoves, MovesKeep
    <2>2. ASSUME NEW r \in run.keys, InputRelation(r) PROVE KeysDeclared' /\ LinksMade' /\ Emptied'
        BY <2>2, InputRelationKeeps
    <2> QED BY <1>2, <2>1, <2>2, SaveNewRowKeeps, SaveUpdatedRowKeeps, TrackKeeps DEF Upsert
<1>3. CASE Remove
    BY <1>3, RemoveMoves, MovesKeep, RemoveRowKeeps
<1>4. CASE Relations
    <2>1. ASSUME NEW x, CutPanic(x) \/ LinkPanic(x) PROVE FALSE
        BY <1>t, <2>1 DEF CutPanic, LinkPanic, Run
    <2>2. ASSUME NEW c \in run.cuts, CutRecord(c) PROVE KeysDeclared' /\ LinksMade' /\ Emptied'
        BY <2>2, CutRecordKeeps
    <2>3. ASSUME NEW c \in run.cuts, CutLink(c) PROVE KeysDeclared' /\ LinksMade' /\ Emptied'
        BY <2>3, CutLinkKeeps
    <2>4. ASSUME NEW m \in run.refs, LinkRef(m) PROVE KeysDeclared' /\ LinksMade' /\ Emptied'
        BY <2>4, LinkRefKeeps
    <2>5. ASSUME \/ \E x \in run.work : BeginRelations(x)
                 \/ \E r \in run.keys : BeginRelation(r) \/ BeginCutRelation(r)
          PROVE  KeysDeclared' /\ LinksMade' /\ Emptied'
        BY <2>5, WalkMoves, MovesKeep
    <2> QED BY <1>4, <2>1, <2>2, <2>3, <2>4, <2>5, UncutKeeps, RelateKeeps DEF Relations
<1> QED BY <1>1, <1>2, <1>3, <1>4 DEF Step

-------------------------------------------------------------------------------
\* Outside of a Reseed that has begun a data set there is nothing to keep.
LEMMA LinksKept ==
    ASSUME Matched, OwnColumns, SelfApart, Answered, Agreed,
           Inv, Onward, DoomedTracked, Steady, KeysInPlace, EndsThere, Itinerary, InputBuilt,
           KeysDeclared, LinksMade, Emptied, [Next]_vars
    PROVE  KeysDeclared' /\ LinksMade' /\ Emptied'
<1>t. TypeInv /\ Upserting
    BY DEF Inv, Books
<1>0. ASSUME \A d : ~Reset(d)' PROVE KeysDeclared' /\ LinksMade' /\ Emptied'
    BY <1>0 DEF KeysDeclared, LinksMade, Emptied
<1>1. CASE run'.pc \in {"idle", "panicked"}
    BY <1>0, <1>1 DEF Reset
<1>2. CASE Step /\ run'.pc \notin {"idle", "panicked"}
    <2>1. CASE run.cmd = "Reseed"
        BY <1>2, <2>1, StepKeepsLinks
    <2>2. CASE run.cmd # "Reseed"
        <3>1. Sorted
            BY <1>t, <1>2, StepsSorted DEF Onward, Narrows
        <3>2. ~RunBegun
            BY <1>t, <1>2, NoStepAtRest DEF RunBegun
        <3>3. run'.cmd # "Reseed"
            BY <1>2, <2>2, <3>1, <3>2, OneCommand
        <3> QED BY <1>0, <3>3 DEF Reset
    <2> QED BY <2>1, <2>2
<1>3. ASSUME NEW start \in Starts, Begin(start) PROVE KeysDeclared' /\ LinksMade' /\ Emptied'
    <2>1. run'.left = run'.sel
        BY <1>3 DEF Begin, Idle
    <2> QED BY <1>0, <2>1 DEF Reset
<1>4. CASE Environment
    <2>1. run' = Idle \/ (run' = run /\ run.pc = "idle")
        BY <1>4 DEF Environment, Crash, Edit, Migrate, Purge, AppCreate, AppDelete
    <2> QED BY <1>1, <2>1 DEF Idle
<1>5. CASE UNCHANGED vars
    <2>1. UNCHANGED <<fk, joins, recs, rels, run, file>>
        BY <1>5 DEF vars, data
    <2>2. ListsStay /\ At' = At
        BY <2>1 DEF ListsStay, WalksStay, Reset, ToSave, ToWalk, ToSet, Entry, Phase, At
    <2>3. \A y, a, b : IsLinked(y, RowOf(a), RowOf(b))' <=> IsLinked(y, RowOf(a), RowOf(b))
        BY <2>1 DEF IsLinked, RowOf
    <2>4. \A c : ToCut(c) => ToCut(c)'
        BY <2>1 DEF ToCut
    <2> QED BY <2>1, <2>2, <2>3, <2>4, KeysStay, LinksStay, EmptiedStays DEF ListsStay
<1> QED BY <1>1, <1>2, <1>3, <1>4, <1>5 DEF Next

\* At the end of a Reseed nothing is left to do in the selected data sets.
LEMMA LinksExact ==
    ASSUME Matched, JoinsKept, Inv, Onward, Restored, Steady, Origin, Remembered,
           KeysDeclared, LinksMade, Emptied
    PROVE  ReseedLinksExactly
<1> SUFFICES ASSUME run.pc = "done", run.cmd = "Reseed" PROVE ReseedLinksExactly
    BY DEF ReseedLinksExactly, ReseedCutsTheRest, Ended
<1>t. TypeInv /\ run \in Run /\ recs \subseteq Recs /\ rels \subseteq RelRecs /\ file \in Versions
    BY DEF Inv, TypeInv, TypeOK
<1>1. run.left = {} /\ run.ds = None
    BY DEF Onward, Narrows, Phase
<1>2. At = recs /\ Held = rels /\ \A d \in run.sel : Reset(d)
    BY <1>1 DEF At, Held, Reset
<1>3. /\ \A d \in Datasets : \A g, n : ~ToSave(d, g, n)
      /\ \A d \in Datasets : \A g, n, r : ~ToWalk(d, g, n, r)
      /\ \A d, g, n, r, m : ~ToSet(d, g, n, r, m)
      /\ \A c : ~ToCut(c)
    BY <1>1, <1>t, Typed DEF ToSave, ToWalk, ToSet, ToCut
<1>4. ASSUME NEW q \in recs PROVE q.ds \in run.sel /\ Triple(q) \in file.records
    <2>1. q.ds \in run.sel
        BY DEF Restored, OnlySelected
    <2>2. <<q.group, q.name>> \in DeclaredIn(q.ds)
        <3>1. TrackedIn(q.ds) = DeclaredIn(q.ds)
            BY <1>t, <2>1, EndsInLine DEF RecordsMatchFiles, Ended
        <3> QED BY <3>1 DEF TrackedIn
    <2>3. \A x \in file.records : x = <<x[1], x[2], x[3]>>
        BY <1>t, VersionsAssumption DEF File
    <2> QED BY <2>1, <2>2, <2>3 DEF DeclaredIn, Triple
<1>5. \A q, s \in recs : <<q.ds, q.group, q.name>> = <<s.ds, s.group, s.name>> \/ RowOf(q) = RowOf(s) => q = s
    BY DEF Inv, OneRecordPerName
<1>6. ASSUME NEW x \in SelectedLinks PROVE IsLinked(x[1], x[2], x[3])
    <2>1. PICK d \in run.sel : x \in DeclaredLinks(d)
        BY DEF SelectedLinks
    <2>2. PICK y \in file.refs : y[1] = d /\
            x \in {<<y[3], RowOf(a), RowOf(b)>> : a \in Found(d, Schema[y[3]].owner, y[2]),
                                                  b \in Found(d, Schema[y[3]].target, y[4])}
        BY <2>1 DEF DeclaredLinks
    <2>3. PICK a \in Found(d, Schema[y[3]].owner, y[2]), b \in Found(d, Schema[y[3]].target, y[4]) :
            x = <<y[3], RowOf(a), RowOf(b)>>
        BY <2>2
    <2>4. d \in Datasets /\ ~ToLink(y)
        BY <1>3, <2>2, RefEnds DEF ToLink
    <2>5. Made(y)
        BY <1>2, <2>2, <2>4 DEF LinksMade
    <2>6. a \in As(y[1], Schema[y[3]].owner, y[2])
        BY <1>2, <2>2, <2>3 DEF As, Found
    <2>7. PICK k \in Found(d, Schema[y[3]].target, y[4]) : IsLinked(y[3], RowOf(a), RowOf(k))
        BY <2>2, <2>5, <2>6 DEF Made
    <2>8. k = b
        BY <1>5, <2>3, <2>7 DEF Found
    <2> QED BY <2>3, <2>7, <2>8
<1> DEFINE ends == {{x[2], x[3]} : x \in SelectedLinks}
<1>7. ASSUME NEW d \in run.sel, NEW r, NEW a \in recs, NEW b \in recs, a.ds = d, b.ds = d,
             Schema[r].owner = a.group, Schema[r].target = b.group, <<d, a.name, r, b.name>> \in file.refs
      PROVE  {RowOf(a), RowOf(b)} \in ends
    <2> DEFINE y == <<d, a.name, r, b.name>>
               x == <<r, RowOf(a), RowOf(b)>>
    <2>1. a \in Found(d, Schema[y[3]].owner, y[2]) /\ b \in Found(d, Schema[y[3]].target, y[4])
        BY <1>7 DEF Found
    <2>2. x \in {<<y[3], RowOf(p), RowOf(q)>> : p \in Found(d, Schema[y[3]].owner, y[2]),
                                                q \in Found(d, Schema[y[3]].target, y[4])}
        BY <2>1
    <2>3. y \in {z \in file.refs : z[1] = d}
        BY <1>7
    <2>4. x \in DeclaredLinks(d)
        BY <2>2, <2>3 DEF DeclaredLinks
    <2>5. x \in SelectedLinks
        BY <2>4 DEF SelectedLinks
    <2> QED BY <2>5
<1> HIDE DEF ends
<1>8. ASSUME NEW x \in fk, {x[1], x[3]} \subseteq TrackedRows PROVE {x[1], x[3]} \in ends
    <2>1. PICK a \in recs : RowOf(a) = x[1]
        BY <1>8 DEF TrackedRows
    <2>2. a.ds \in Datasets /\ Reset(a.ds) /\ Triple(a) \in file.records /\ ~ToSave(a.ds, a.group, a.name)
        BY <1>2, <1>3, <1>4, <1>t, Typed
    <2>3. KeyDeclared(x)
        BY <1>2, <2>1, <2>2 DEF KeysDeclared
    <2>4. PICK r \in Rels, p \in recs, q \in recs : Declares(r, p, q) /\ Between(r, p, q, x)
        BY <1>2, <2>3 DEF KeyDeclared
    <2>5. {RowOf(p), RowOf(q)} \in ends
        BY <1>4, <1>7, <2>4 DEF Declares
    <2>6. {x[1], x[3]} = {RowOf(p), RowOf(q)}
        BY <2>4 DEF Between
    <2> QED BY <2>5, <2>6
<1>9. ASSUME NEW x \in joins, x[2] \subseteq TrackedRows PROVE x[2] \in ends
    <2>1. PICK c \in rels : Remembers(c, x)
        BY <1>2, <1>9 DEF Remembered
    <2>2. PICK a \in Found(c.ds, c.ga, c.na), b \in Found(c.ds, c.gb, c.nb) : x[2] = {RowOf(a), RowOf(b)}
        BY <2>1 DEF Remembers
    <2>3. /\ a \in recs /\ b \in recs /\ a.ds = c.ds /\ b.ds = c.ds /\ a.group = c.ga /\ b.group = c.gb
          /\ a.name = c.na /\ b.name = c.nb
        BY <2>2 DEF Found
    <2>4. /\ c.ds \in run.sel /\ c.ds \in Datasets /\ Reset(c.ds) /\ BothDeclared(c)
        BY <1>2, <1>4, <1>t, <2>3, Typed DEF BothDeclared, Ends, Triple
    <2>5. /\ c.ra \in Rels /\ Schema[c.ra].kind = "join" /\ Fits(c)
        BY <1>t, <2>1 DEF Remembers, RelRecs, Steady, RelationsFit
    <2>6. c.rb \in Rels /\ Schema[c.rb].owner = c.gb /\ Schema[c.rb].target = c.ga
        <3>1. ~HasKey(c.ra)
            BY <2>5 DEF HasKey
        <3> QED BY <2>5, <3>1 DEF Matched, Fits
    <2>7. Refs(c.ds, c.na, c.ra) # {} /\ Refs(c.ds, c.nb, c.rb) # {}
        <3>1. \A e \in Ends(c) : Refs(c.ds, e[2], e[3]) # {}
            BY <1>3, <2>4, <2>5 DEF Emptied
        <3> QED BY <3>1 DEF Ends
    <2>8. PICK f \in Versions : <<c.ds, c.na, c.ra, c.nb>> \in f.refs
        BY DEF Origin
    <2>9. <<c.ds, c.na, c.ra, c.nb>> \in file.refs \/ <<c.ds, c.nb, c.rb, c.na>> \in file.refs
        BY <1>t, <2>5, <2>7, <2>8 DEF JoinsKept, Fits, NamesOf, Refs
    <2>10. CASE <<c.ds, c.na, c.ra, c.nb>> \in file.refs
        BY <1>7, <2>2, <2>3, <2>4, <2>5, <2>10 DEF Fits
    <2>11. CASE <<c.ds, c.nb, c.rb, c.na>> \in file.refs
        <3>1. {RowOf(b), RowOf(a)} \in ends
            BY <1>7, <2>3, <2>4, <2>6, <2>11
        <3> QED BY <2>2, <3>1
    <2> QED BY <2>9, <2>10, <2>11
<1> QED BY <1>6, <1>8, <1>9 DEF ReseedLinksExactly, ReseedCutsTheRest, ends

\* ReseedLinksExactly: when relations are declared at both ends as LinksAgree
\* says, a Reseed leaves the links of the files and no others (sync_relations:
\* "find relations and cut", "nullify exist relations and reset").
THEOREM SeederReseedLinksExactly == LinksAgree => (Spec => []ReseedLinksExactly)
<1> SUFFICES ASSUME LinksAgree PROVE Spec => []ReseedLinksExactly
    OBVIOUS
<1> DEFINE K == Inv /\ Onward /\ DoomedTracked /\ Restored /\ Steady
           L == /\ RowInHand /\ KeysInPlace /\ EndsThere /\ Itinerary /\ InputBuilt
                /\ Origin /\ Remembered /\ KeysDeclared /\ LinksMade /\ Emptied
<1>a. Finite /\ Matched /\ OwnColumns /\ SelfApart /\ Answered /\ Agreed /\ JoinsKept
    BY DEF LinksAgree
<1>1. Spec => []K
    BY <1>a, SteadyAlways
<1>2. Init => L
    BY DEF Init, Idle, RowInHand, HasRow, KeysInPlace, EndsThere, Itinerary, WorkAhead, InputTracked,
           CutsOfHand, StaleCuts, Phase, InputBuilt, Origin, Remembered, KeysDeclared, LinksMade,
           Reset, Emptied
<1>3. K /\ L /\ [Next]_vars => L'
    <2> SUFFICES ASSUME K, L, [Next]_vars PROVE L'
        OBVIOUS
    <2>1. RowInHand' /\ KeysInPlace' /\ EndsThere'
        BY RowInHandKept, KeysKept, EndsKept
    <2>2. Itinerary' /\ InputBuilt' /\ Origin'
        BY <1>a, ItineraryKept, InputBuiltKept, OriginKept
    <2>3. Remembered'
        BY <1>a, RememberedKept
    <2>4. KeysDeclared' /\ LinksMade' /\ Emptied'
        BY <1>a, LinksKept
    <2> QED BY <2>1, <2>2, <2>3, <2>4
<1>4. K /\ L => ReseedLinksExactly
    BY <1>a, LinksExact
<1> HIDE DEF K, L
<1> QED BY <1>1, <1>2, <1>3, <1>4, PTL DEF Spec
===============================================================================
