-------------------------- MODULE SeederCatalogProofs --------------------------
(***************************************************************************)
(* What a run reaches, for every schema, every set of user files and every *)
(* interleaving of runs, crashes, edits and application writes: it ends    *)
(* with the tracked records of the selected data sets in line with the     *)
(* files, and on the way to that end every step is one that SeedCatalog    *)
(* allows; a Reseed leaves no tracked record without its row; and where    *)
(* nothing is taken away behind it, no row is left without its record.     *)
(*                                                                         *)
(* That the end is right is known only of the end; the invariant says how  *)
(* far a run has come.  Of the groups that are begun, each record of the   *)
(* files is tracked or still to be added and each tracked record is        *)
(* declared or still to be removed; and the data sets that are done are in *)
(* line, which no later step of the run disturbs.  Of this, what a Seed    *)
(* keeps while other runs write to the same tables is stated by itself,    *)
(* for two seeders (SeederPairProofs).                                     *)
(***************************************************************************)
EXTENDS SeederProofs

Triple(q) == <<q.ds, q.group, q.name>>

\* The part of seed_dataset that a run is in: cut_relation is called from three
\* of them.
Phase(r) ==
    IF r.pc \in {"record", "input", "track"} THEN "records"
    ELSE IF r.pc \in {"relation", "refs", "relate"} THEN "relations"
    ELSE IF r.pc \in {"cut", "uncut", "untrack"}
         THEN IF r.back = "record" THEN "records"
              ELSE IF r.back = "relation" THEN "relations" ELSE "gone"
    ELSE r.pc

\* The records that the run has yet to track, and those that it has yet to
\* untrack, of the groups it has begun.
ToAdd(r) ==
    r.todo \union (IF r.pc \in {"input", "track"} THEN {<<r.rec.group, r.rec.name>>} ELSE {})
ToRemove(r) ==
    r.doomed \union
        (IF r.pc \in {"cut", "uncut", "untrack"} /\ r.back # "relation" THEN {r.rec} ELSE {})

InSeed(r) == Phase(r) \in {"records", "relations", "gone", "stale"}

\* What is left to do narrows from part to part.
Narrows ==
    /\ Phase(run) \notin {"idle", "panicked"} =>
        run.left \subseteq run.sel /\ run.ds \in run.sel \union {None}
    /\ InSeed(run) => run.groups \subseteq Groups(run.ds)
    /\ Phase(run) \in {"dataset", "relations", "gone", "stale"} => run.groups = {} /\ run.todo = {}
    /\ Phase(run) \in {"dataset", "relations", "stale"} => run.doomed = {}
    /\ Phase(run) \in {"relations", "gone", "stale"} => run.cmd # "Unseed"
    /\ Phase(run) = "dataset" /\ run.ds # None => run.cmd = "Unseed"
    /\ Phase(run) \in {"forget", "done"} => run.left = {} /\ run.ds = None
    /\ run.pc = "untrack" => run.back # "relation"

\* A run adds what the files declare, and removes what they do not declare or,
\* in an Unseed, what their groups hold; Seed adds no record that it found.
Justified ==
    InSeed(run) =>
        /\ \A x \in ToAdd(run) : <<run.ds, x[1], x[2]>> \in file.records /\ run.cmd # "Unseed"
        /\ \A q \in ToRemove(run) :
            /\ q.ds = run.ds
            /\ IF run.cmd = "Unseed" THEN <<q.ds, q.group>> \in file.groups
                                     ELSE Triple(q) \notin file.records
        /\ run.cmd = "Seed" =>
            /\ \A x \in run.todo : Known(x) = {}
            /\ run.pc = "input" => run.rec.id = NoId

\* What the run has read is still there when it comes to it.
StillThere ==
    InSeed(run) =>
        /\ \A q \in run.snap : <<q.group, q.name>> \in run.todo => q \in recs
        /\ run.pc = "input" /\ run.rec.id # NoId =>
            \E q \in recs : Triple(q) = <<run.ds, run.rec.group, run.rec.name>>

\* The groups that are begun hold the records of the files, but for what is
\* still to be added and removed.
Begun(g) == g \in Groups(run.ds) /\ g \notin run.groups
Progress ==
    InSeed(run) \/ Phase(run) = "dataset" =>
        /\ run.cmd # "Unseed" =>
            \A g \in Models, n \in Names :
                Begun(g) /\ <<run.ds, g, n>> \in file.records =>
                    <<g, n>> \in ToAdd(run) \/ \E q \in recs : Triple(q) = <<run.ds, g, n>>
        /\ \A q \in recs :
            /\ q.ds = run.ds
            /\ \/ Begun(q.group)
               \/ Phase(run) \in {"gone", "stale"} /\ q.group \notin Groups(run.ds)
            => q \in ToRemove(run) \/ (run.cmd # "Unseed" /\ Triple(q) \in file.records)

\* A data set is in line with the files.
Finished(cmd, d) ==
    IF cmd = "Unseed" THEN \A q \in recs : q.ds = d => q.group \notin Groups(d)
    ELSE \A g \in Models, n \in Names :
            <<d, g, n>> \in file.records <=> \E q \in recs : Triple(q) = <<d, g, n>>

\* The data sets that the run is done with are.
OthersDone ==
    run.pc \notin {"idle", "panicked"} =>
        \A d \in run.sel : d \notin run.left /\ d # run.ds => Finished(run.cmd, d)

Onward == Narrows /\ Justified /\ StillThere /\ Progress /\ OthersDone

\* What a run has read is of the group and the data set that it is in.  This is
\* all that it takes to get on: not, that each record is tracked once.
OfTheGroup ==
    /\ Upserting
    /\ \A x \in run.todo : \A q \in run.snap : q.ds = run.ds /\ q.group = x[1]
    /\ run.pc \in {"input", "track"} => run.rec.ds = run.ds

-------------------------------------------------------------------------------
\* The steps of a run, by what they do to the catalog and to what is left.

\* The command, its selection and the data set in hand stay.
SameRun ==
    /\ run'.cmd = run.cmd /\ run'.sel = run.sel /\ run'.left = run.left /\ run'.ds = run.ds
    /\ file' = file

\* What is left to do in the data set stays; nothing is tracked or untracked.
Carries ==
    /\ SameRun /\ recs' = recs
    /\ Phase(run') = Phase(run) /\ run'.groups = run.groups
    /\ run'.snap = run.snap /\ run'.todo = run.todo /\ run'.doomed \subseteq run.doomed
    /\ ToAdd(run') = ToAdd(run) /\ ToRemove(run') = ToRemove(run)
    /\ run'.pc = "input" => run.pc = "input" /\ run'.rec = run.rec
    /\ run'.pc = "untrack" => run'.back # "relation"

\* A run ends before its end, or goes from it.
Stops == run'.pc \in {"idle", "panicked"} /\ recs' = recs /\ file' = file

RunBegun ==
    /\ run.pc = "idle" /\ run'.pc = "dataset" /\ run'.ds = None
    /\ run'.left = run'.sel /\ run'.sel \subseteq Datasets /\ run'.cmd \in Commands
    /\ run'.groups = {} /\ run'.todo = {} /\ run'.doomed = {}
    /\ recs' = recs /\ file' = file

DatasetBegun(d) ==
    /\ run.pc = "dataset" \/ run.pc = "stale"
    /\ d \in run.left
    /\ run'.pc = "record" /\ run'.ds = d /\ run'.left = run.left \ {d}
    /\ run'.cmd = run.cmd /\ run'.sel = run.sel
    /\ run'.groups = Groups(d) /\ run'.todo = {} /\ run'.doomed = {}
    /\ recs' = recs /\ file' = file

GroupBegun(g) ==
    /\ SameRun /\ recs' = recs
    /\ run.pc = "record" /\ run.todo = {} /\ run.doomed = {}
    /\ g \in run.groups /\ run'.groups = run.groups \ {g} /\ run'.pc = "record"
    /\ run'.snap = SeedRecords(run.ds, g)
    /\ run'.todo = {g} \X Wanted(Declared(run.ds, g), run'.snap)
    /\ run'.doomed = Unwanted(Declared(run.ds, g), run'.snap)

GroupsEnded ==
    /\ SameRun /\ recs' = recs
    /\ run.pc = "record" /\ run.groups = {} /\ run.todo = {} /\ run.doomed = {}
    /\ run'.pc = IF run.cmd = "Unseed" THEN "dataset" ELSE "relation"
    /\ run'.groups = {} /\ run'.todo = {} /\ run'.doomed = {} /\ run'.snap = {}

RecordBegun(x) ==
    /\ SameRun
    /\ run.pc = "record" /\ run'.pc = "input"
    /\ x \in run.todo /\ run'.todo = run.todo \ {x}
    /\ run'.rec.ds = run.ds /\ run'.rec.group = x[1] /\ run'.rec.name = x[2]
    /\ run'.groups = run.groups /\ run'.snap = run.snap /\ run'.doomed = run.doomed
    /\ \/ run'.rec.id = NoId /\ Known(x) = {} /\ recs' = recs
       \/ recs' = recs /\ \E q \in Known(x) : RowOf(q) \in rows
       \/ run'.rec.id = NoId /\ \E q \in Known(x) : recs' = recs \ {q}

RecordEnded ==
    /\ SameRun
    /\ run'.pc = "record"
    /\ run'.groups = run.groups /\ run'.snap = run.snap
    /\ run'.todo = run.todo /\ run'.doomed = run.doomed
    /\ \/ run.pc = "input" /\ run.rec.id # NoId /\ recs' = recs
       \/ run.pc = "track" /\ recs' = recs \union {run.rec}

Removed(q) ==
    /\ SameRun
    /\ q \in ToRemove(run) /\ q \notin ToRemove(run') /\ recs' = recs \ {q}
    /\ Phase(run) \in {"records", "relations", "gone"} /\ Phase(run') = Phase(run)
    /\ run.pc \notin {"input", "track"} /\ run'.pc \notin {"input", "track", "untrack"}
    /\ run.todo = {} /\ run'.todo = {}
    /\ run'.groups = run.groups /\ run'.snap = run.snap /\ run'.doomed \subseteq run.doomed
    /\ ToRemove(run') \subseteq ToRemove(run) /\ ToRemove(run) \subseteq ToRemove(run') \union {q}

GoneBegun ==
    /\ SameRun /\ recs' = recs
    /\ Phase(run) = "relations" /\ run'.pc = "gone"
    /\ run'.groups = run.groups /\ run'.snap = run.snap /\ run'.todo = run.todo
    /\ run'.doomed = {q \in recs : q.ds = run.ds /\ q.group \notin Groups(run.ds)}

StaleBegun ==
    /\ SameRun /\ recs' = recs
    /\ run.pc = "gone" /\ run'.pc = "stale" /\ run.doomed = {}
    /\ run'.groups = run.groups /\ run'.snap = run.snap /\ run'.todo = run.todo
    /\ run'.doomed = {}

ForgetBegun ==
    /\ run.pc = "dataset" \/ run.pc = "stale"
    /\ run.left = {} /\ run'.left = {}
    /\ run'.pc = "forget" /\ run'.ds = None
    /\ run'.cmd = run.cmd /\ run'.sel = run.sel
    /\ recs' = recs /\ file' = file

Forgotten(q) ==
    /\ run.pc = "forget" /\ run' = run /\ file' = file
    /\ q \in recs /\ q.ds \notin run.sel /\ recs' = recs \ {q}

Completed ==
    /\ SameRun /\ recs' = recs
    /\ run.pc = "forget" /\ run'.pc = "done"
    /\ \A q \in recs : q.ds \in run.sel

Sorted ==
    \/ Carries \/ Stops \/ RunBegun
    \/ \E d \in Datasets : DatasetBegun(d)
    \/ \E g \in Models : GroupBegun(g)
    \/ GroupsEnded
    \/ \E x \in run.todo : RecordBegun(x)
    \/ RecordEnded
    \/ \E q : Removed(q)
    \/ GoneBegun \/ StaleBegun \/ ForgetBegun
    \/ \E q : Forgotten(q)
    \/ Completed

\* The save of a new row leaves the catalog and what is left to do.
LEMMA SavingCarries ==
    ASSUME TypeInv, NEW i, SaveNewRowAs(i)
    PROVE  Carries
<1>1. run \in Run /\ InHand
    BY DEF TypeInv, TypeOK
<1>2. run.pc = "input" /\ run.rec \in Records
    BY <1>1 DEF SaveNewRowAs, Inserting, InHand
<1>3. /\ run'.pc = "track"
      /\ run'.rec.group = run.rec.group /\ run'.rec.name = run.rec.name
      /\ recs' = recs /\ file' = file
    BY <1>1, <1>2 DEF SaveNewRowAs, Run, Records
<1>4. /\ run'.cmd = run.cmd /\ run'.sel = run.sel /\ run'.left = run.left /\ run'.ds = run.ds
      /\ run'.groups = run.groups /\ run'.snap = run.snap /\ run'.todo = run.todo
      /\ run'.doomed = run.doomed
    BY <1>1 DEF SaveNewRowAs, Run
<1> QED BY <1>2, <1>3, <1>4 DEF SameRun, Carries, Phase, ToAdd, ToRemove

\* Every step of a run is one of these.
LEMMA StepsSorted ==
    ASSUME TypeInv, Upserting, run.pc = "untrack" => run.back # "relation", Step
    PROVE  Sorted
<1>t. /\ run \in Run /\ recs \subseteq Recs /\ InHand
      /\ run.todo # {} => run.pc \in {"record", "input", "track", "panicked"}
    BY DEF TypeInv, TypeOK, Upserting
<1> USE <1>t, RunFields
<1>1. ASSUME NEW d \in Datasets, BeginDataset(d) PROVE Sorted
    <2>1. CASE run'.pc = "panicked"
        BY <1>1, <2>1 DEF BeginDataset, Decides, Stops, Sorted
    <2>2. CASE run'.pc # "panicked"
        <3>1. DatasetBegun(d)
            BY <1>1, <2>2 DEF BeginDataset, BetweenDatasets, Decides, DatasetBegun, Run
        <3> QED BY <3>1 DEF Sorted
    <2> QED BY <2>1, <2>2
<1>2. ASSUME NEW g \in run.groups, BeginGroup(g) PROVE Sorted
    <2> DEFINE snap == SeedRecords(run.ds, g)
               wanted == Wanted(Declared(run.ds, g), snap)
               unwanted == Unwanted(Declared(run.ds, g), snap)
    <2>1. PICK work : run' = [run EXCEPT !.groups = @ \ {g}, !.snap = snap, !.todo = {g} \X wanted,
                                        !.work = work, !.doomed = unwanted]
        BY <1>2 DEF BeginGroup
    <2> HIDE DEF snap, wanted, unwanted
    <2>2. /\ run'.cmd = run.cmd /\ run'.sel = run.sel /\ run'.left = run.left /\ run'.ds = run.ds
          /\ run'.pc = run.pc /\ run'.groups = run.groups \ {g}
          /\ run'.snap = snap /\ run'.todo = {g} \X wanted /\ run'.doomed = unwanted
        BY <2>1 DEF Run
    <2>3. GroupBegun(g)
        BY <1>2, <2>2 DEF BeginGroup, GroupDone, Decides, SameRun, GroupBegun, snap, wanted, unwanted
    <2> QED BY <2>3 DEF Sorted
<1>3. ASSUME EndGroups PROVE Sorted
    <2>1. GroupsEnded
        BY <1>3 DEF EndGroups, GroupDone, Decides, SameRun, GroupsEnded, Run
    <2> QED BY <2>1 DEF Sorted
<1>4. ASSUME BeginForget PROVE Sorted
    <2>1. ForgetBegun
        BY <1>4 DEF BeginForget, BetweenDatasets, Decides, ForgetBegun, Run
    <2> QED BY <2>1 DEF Sorted
<1>5. ASSUME Finish PROVE Sorted
    <2>1. Completed
        BY <1>5 DEF Finish, Decides, SameRun, Completed, Run
    <2> QED BY <2>1 DEF Sorted
<1>6. ASSUME Exit PROVE Sorted
    BY <1>6 DEF Exit, Idle, Decides, Stops, Sorted
<1>7. ASSUME NEW x \in run.todo, Insert(x) \/ Recreate(x) \/ Update(x) PROVE Sorted
    <2>1. /\ run'.pc = "input" /\ run'.ds = run.ds /\ run'.todo = run.todo \ {x}
          /\ run'.rec.ds = run.ds /\ run'.rec.group = x[1] /\ run'.rec.name = x[2]
          /\ run'.rec.id # NoId => \E r \in Known(x) : run'.rec.id = r.id
        BY <1>7, TakingRecord
    <2>2. /\ run.pc = "record" /\ run'.snap = run.snap /\ run'.doomed = run.doomed
          /\ run'.groups = run.groups
          /\ run'.cmd = run.cmd /\ run'.sel = run.sel /\ run'.left = run.left
        <3>1. CASE Insert(x)
            BY <3>1 DEF Insert, Taking, Run
        <3>2. CASE Recreate(x)
            BY <3>2 DEF Recreate, Taking, Run
        <3>3. CASE Update(x)
            BY <3>3 DEF Update, Taking, Run
        <3> QED BY <1>7, <3>1, <3>2, <3>3
    <2>3. file' = file
        BY <1>7 DEF Insert, Recreate, Update, Decides
    <2>4. \/ run'.rec.id = NoId /\ Known(x) = {} /\ recs' = recs
          \/ recs' = recs /\ \E q \in Known(x) : RowOf(q) \in rows
          \/ run'.rec.id = NoId /\ \E q \in Known(x) : recs' = recs \ {q}
        <3>1. ASSUME Insert(x) \/ Recreate(x) PROVE run'.rec.id = NoId
            <4>1. run' = Taking(x, NoId)
                BY <3>1 DEF Insert, Recreate
            <4> QED BY <4>1 DEF Taking, Run
        <3> QED BY <1>7, <3>1 DEF Insert, Recreate, Update, Decides
    <2>5. RecordBegun(x)
        BY <2>1, <2>2, <2>3, <2>4 DEF SameRun, RecordBegun
    <2> QED BY <2>5 DEF Sorted
<1>8. ASSUME NEW r \in run.keys, InputRelation(r) PROVE Sorted
    <2>1. CASE run'.pc = "panicked"
        BY <1>8, <2>1 DEF InputRelation, Stops, Sorted
    <2>2. CASE run'.pc # "panicked"
        <3>1. /\ run.pc = "input" /\ run'.pc = "input" /\ run'.rec = run.rec
              /\ run'.back = run.back /\ recs' = recs /\ file' = file
            BY <1>8, <2>2 DEF InputRelation, Run
        <3>2. /\ run'.cmd = run.cmd /\ run'.sel = run.sel /\ run'.left = run.left /\ run'.ds = run.ds
              /\ run'.groups = run.groups /\ run'.snap = run.snap /\ run'.todo = run.todo
              /\ run'.doomed = run.doomed
            BY <1>8, ZenonT(30) DEF InputRelation, Run
        <3>3. Carries
            BY <3>1, <3>2 DEF SameRun, Carries, Phase, ToAdd, ToRemove
        <3> QED BY <3>3 DEF Sorted
    <2> QED BY <2>1, <2>2
<1>9. ASSUME SaveNewRow PROVE Sorted
    BY <1>9, SavingCarries DEF SaveNewRow, Sorted
<1>10. ASSUME SaveUpdatedRow PROVE Sorted
    <2>1. RecordEnded
        BY <1>10 DEF SaveUpdatedRow, SameRun, RecordEnded, Run
    <2> QED BY <2>1 DEF Sorted
<1>11. ASSUME Track PROVE Sorted
    <2>1. RecordEnded
        BY <1>11 DEF Track, SameRun, RecordEnded, Run
    <2> QED BY <2>1 DEF Sorted
<1>12. ASSUME NEW r \in run.doomed, RemoveGone(r) PROVE Sorted
    <2>1. /\ run'.pc = run.pc /\ run'.back = run.back /\ run'.rec = run.rec
          /\ run'.cmd = run.cmd /\ run'.sel = run.sel /\ run'.left = run.left /\ run'.ds = run.ds
          /\ run'.groups = run.groups /\ run'.snap = run.snap /\ run'.todo = run.todo
          /\ run'.doomed = run.doomed \ {r}
        BY <1>12 DEF RemoveGone, Run
    <2>2. run.pc \in {"record", "gone"} /\ run.todo = {}
        BY <1>12 DEF RemoveGone, Removing
    <2>3. Removed(r)
        BY <1>12, <2>1, <2>2 DEF RemoveGone, SameRun, Removed, Phase, ToRemove
    <2> QED BY <2>3 DEF Sorted
<1>13. ASSUME NEW r \in run.doomed, BeginRemove(r) PROVE Sorted
    <2>1. /\ run'.pc = "cut" /\ run'.back = run.pc /\ run'.rec = r
          /\ run'.cmd = run.cmd /\ run'.sel = run.sel /\ run'.left = run.left /\ run'.ds = run.ds
          /\ run'.groups = run.groups /\ run'.snap = run.snap /\ run'.todo = run.todo
          /\ run'.doomed = run.doomed \ {r}
        BY <1>13 DEF BeginRemove, Run
    <2>2. run.pc \in {"record", "gone"} /\ UNCHANGED <<recs, file>>
        BY <1>13 DEF BeginRemove, Removing, Decides
    <2>3. Carries
        BY <2>1, <2>2 DEF SameRun, Carries, Phase, ToAdd, ToRemove
    <2> QED BY <2>3 DEF Sorted
<1>14. ASSUME Untrack PROVE Sorted
    <2>1. /\ run.pc = "untrack" /\ run'.pc = run.back /\ run'.back = run.back
          /\ run'.cmd = run.cmd /\ run'.sel = run.sel /\ run'.left = run.left /\ run'.ds = run.ds
          /\ run'.groups = run.groups /\ run'.snap = run.snap /\ run'.todo = run.todo
          /\ run'.doomed = run.doomed
        BY <1>14 DEF Untrack, Run
    <2>2. recs' = recs \ {run.rec} /\ file' = file /\ run.back # "relation"
        BY <1>14, <2>1 DEF Untrack
    <2>3. Removed(run.rec)
        BY <2>1, <2>2 DEF SameRun, Removed, Phase, ToRemove, InHand
    <2> QED BY <2>3 DEF Sorted
<1>15. ASSUME BeginGone PROVE Sorted
    <2>1. /\ run'.pc = "gone"
          /\ run'.cmd = run.cmd /\ run'.sel = run.sel /\ run'.left = run.left /\ run'.ds = run.ds
          /\ run'.groups = run.groups /\ run'.snap = run.snap /\ run'.todo = run.todo
          /\ run'.doomed = {q \in recs : q.ds = run.ds /\ q.group \notin Groups(run.ds)}
        BY <1>15 DEF BeginGone, Run
    <2>2. GoneBegun
        BY <1>15, <2>1 DEF BeginGone, AtRelation, Decides, SameRun, GoneBegun, Phase
    <2> QED BY <2>2 DEF Sorted
<1>16. ASSUME BeginStale PROVE Sorted
    <2>1. StaleBegun
        BY <1>16 DEF BeginStale, Decides, SameRun, StaleBegun, Run
    <2> QED BY <2>1 DEF Sorted
<1>17. ASSUME NEW c, RemoveRow \/ CutRecord(c) \/ CutLink(c) \/ Uncut PROVE Sorted
    <2> DEFINE Kept == /\ run.pc \in {"cut", "uncut"} /\ run'.pc \in {"cut", "uncut", "untrack"}
                       /\ run'.back = run.back /\ run'.rec = run.rec
                       /\ run'.pc = "untrack" => run.back # "relation"
                       /\ run'.cmd = run.cmd /\ run'.sel = run.sel /\ run'.left = run.left
                       /\ run'.ds = run.ds
                       /\ run'.groups = run.groups /\ run'.snap = run.snap /\ run'.todo = run.todo
                       /\ run'.doomed = run.doomed
    <2>1. Kept
        <3>1. RemoveRow => Kept
            BY DEF RemoveRow, Run
        <3>2. CutRecord(c) => Kept
            BY DEF CutRecord, Cutting, Run
        <3>3. CutLink(c) => Kept
            BY DEF CutLink, Cutting, Run
        <3>4. Uncut => Kept
            BY DEF Uncut, Run
        <3> QED BY <1>17, <3>1, <3>2, <3>3, <3>4
    <2>2. recs' = recs /\ file' = file
        BY <1>17 DEF RemoveRow, CutRecord, CutLink, Uncut
    <2>3. Carries
        BY <2>1, <2>2 DEF SameRun, Carries, Phase, ToAdd, ToRemove
    <2> QED BY <2>3 DEF Sorted
<1>18. ASSUME NEW c, CutPanic(c) PROVE Sorted
    BY <1>18 DEF CutPanic, Decides, Stops, Sorted
<1>19. ASSUME NEW c, RemoveStale(c) PROVE Sorted
    <2>1. /\ run.pc = "stale" /\ run'.pc = "stale"
          /\ run'.cmd = run.cmd /\ run'.sel = run.sel /\ run'.left = run.left /\ run'.ds = run.ds
          /\ run'.groups = run.groups /\ run'.snap = run.snap /\ run'.todo = run.todo
          /\ run'.doomed = run.doomed
        BY <1>19 DEF RemoveStale, Run
    <2>2. Carries
        BY <1>19, <2>1 DEF RemoveStale, SameRun, Carries, Phase, ToAdd, ToRemove
    <2> QED BY <2>2 DEF Sorted
<1>20. ASSUME NEW x \in run.work, BeginRelations(x) PROVE Sorted
    <2>1. CASE run'.pc = "panicked"
        BY <1>20, <2>1 DEF BeginRelations, Decides, Stops, Sorted
    <2>2. CASE run'.pc # "panicked"
        <3>0. FoundRows(run.ds, x[1], x[2]) # {}
            BY <1>20, <2>2 DEF BeginRelations, Run
        <3>1. PICK r, keys :
                run' = [run EXCEPT !.pc = "relation", !.work = @ \ {x}, !.rec = r, !.keys = keys]
            BY <1>20, <3>0 DEF BeginRelations
        <3>2. /\ run'.pc = "relation"
              /\ run'.cmd = run.cmd /\ run'.sel = run.sel /\ run'.left = run.left /\ run'.ds = run.ds
              /\ run'.groups = run.groups /\ run'.snap = run.snap /\ run'.todo = run.todo
              /\ run'.doomed = run.doomed
            BY <3>1 DEF Run
        <3>3. Carries
            BY <1>20, <3>2 DEF BeginRelations, AtRelation, Decides, SameRun, Carries, Phase, ToAdd,
                               ToRemove
        <3> QED BY <3>3 DEF Sorted
    <2> QED BY <2>1, <2>2
<1>21. ASSUME NEW r, BeginRelation(r) \/ BeginCutRelation(r) \/ LinkRef(r) \/ Relate PROVE Sorted
    <2> DEFINE Kept == /\ run'.cmd = run.cmd /\ run'.sel = run.sel /\ run'.left = run.left
                       /\ run'.ds = run.ds
                       /\ run'.groups = run.groups /\ run'.snap = run.snap /\ run'.todo = run.todo
                       /\ run'.doomed = run.doomed
               There(s) == \/ s.pc \in {"relation", "refs", "relate"}
                           \/ s.pc = "cut" /\ s.back = "relation"
    <2>1. Kept /\ There(run) /\ There(run')
        <3>1. BeginRelation(r) => Kept /\ There(run) /\ There(run')
            BY DEF BeginRelation, AtRelation, Run
        <3>2. BeginCutRelation(r) => Kept /\ There(run) /\ There(run')
            BY DEF BeginCutRelation, AtRelation, Run
        <3>3. LinkRef(r) => Kept /\ There(run) /\ There(run')
            BY DEF LinkRef, Run
        <3>4. ASSUME Relate PROVE Kept
            BY <3>4 DEF Relate, Run
        <3>5. ASSUME Relate PROVE There(run) /\ There(run')
            BY <3>5 DEF Relate, Run
        <3> QED BY <1>21, <3>1, <3>2, <3>3, <3>4, <3>5
    <2>2. recs' = recs /\ file' = file
        BY <1>21 DEF BeginRelation, BeginCutRelation, LinkRef, Relate, Decides
    <2>3. Carries
        BY <2>1, <2>2 DEF SameRun, Carries, Phase, ToAdd, ToRemove
    <2> QED BY <2>3 DEF Sorted
<1>22. ASSUME NEW m, LinkPanic(m) PROVE Sorted
    BY <1>22 DEF LinkPanic, Decides, Stops, Sorted
<1>23. ASSUME NEW r \in recs, ForgetRecord(r) PROVE Sorted
    <2>1. Forgotten(r)
        BY <1>23 DEF ForgetRecord, Forgotten
    <2> QED BY <2>1 DEF Sorted
<1>24. ASSUME NEW c \in rels, ForgetRelation(c) PROVE Sorted
    <2>1. Carries
        BY <1>24 DEF ForgetRelation, SameRun, Carries, Phase, ToAdd, ToRemove
    <2> QED BY <2>1 DEF Sorted
<1> QED
    BY <1>1, <1>2, <1>3, <1>4, <1>5, <1>6, <1>7, <1>8, <1>9, <1>10, <1>11, <1>12, <1>13, <1>14,
       <1>15, <1>16, <1>17, <1>18, <1>19, <1>20, <1>21, <1>22, <1>23, <1>24
    DEF Step, Setup, Upsert, Remove, Relations

-------------------------------------------------------------------------------
\* A data set that the run is through with is in line with the files.
LEMMA DatasetFinished ==
    ASSUME TypeInv, Onward, run.pc \in {"dataset", "stale"}, run.ds # None
    PROVE  Finished(run.cmd, run.ds)
<1>1. /\ Phase(run) = run.pc /\ ToAdd(run) = run.todo /\ ToRemove(run) = run.doomed
      /\ run.pc = "stale" => InSeed(run)
    BY DEF Phase, ToAdd, ToRemove, InSeed
<1>2. /\ run.groups = {} /\ ToAdd(run) = {} /\ ToRemove(run) = {}
      /\ run.pc = "dataset" => run.cmd = "Unseed"
    BY <1>1 DEF Onward, Narrows
<1>3. /\ \A x \in file.records : <<x[1], x[2]>> \in file.groups
      /\ file.groups \subseteq Datasets \X Models /\ recs \subseteq Recs
    BY VersionsAssumption DEF TypeInv, TypeOK, WellFormed, File
<1>4. \A g \in Models : <<run.ds, g>> \in file.groups <=> Begun(g)
    BY <1>2 DEF Begun, Groups
<1>5. ASSUME NEW q \in recs, q.ds = run.ds, Begun(q.group) \/ run.pc = "stale"
      PROVE  run.cmd # "Unseed" /\ Triple(q) \in file.records
    <2>1. q.group \in Models
        BY <1>3 DEF Recs, Records
    <2> QED BY <1>1, <1>2, <1>4, <1>5, <2>1 DEF Onward, Progress, Groups
<1>6. CASE run.cmd = "Unseed"
    BY <1>5, <1>6, <1>2 DEF Finished, Begun
<1>7. CASE run.cmd # "Unseed"
    <2>1. run.pc = "stale"
        BY <1>2, <1>7
    <2>2. ASSUME NEW g \in Models, NEW n \in Names, <<run.ds, g, n>> \in file.records
          PROVE  \E q \in recs : Triple(q) = <<run.ds, g, n>>
        <3>1. Begun(g)
            BY <1>3, <1>4, <2>2
        <3> QED BY <1>1, <1>2, <1>7, <2>1, <2>2, <3>1 DEF Onward, Progress
    <2>3. ASSUME NEW q \in recs, NEW g, NEW n, Triple(q) = <<run.ds, g, n>>
          PROVE  <<run.ds, g, n>> \in file.records
        BY <1>5, <2>1, <2>3 DEF Triple
    <2> QED BY <1>7, <2>2, <2>3 DEF Finished
<1> QED BY <1>6, <1>7

\* What is done in other data sets does not disturb it.
LEMMA FinishedElsewhere ==
    ASSUME NEW c, NEW d, Finished(c, d), file' = file,
           \A q \in recs \ recs' : q.ds # d, \A q \in recs' \ recs : q.ds # d
    PROVE  Finished(c, d)'
<1>1. CASE c = "Unseed"
    BY <1>1 DEF Finished, Groups
<1>2. CASE c # "Unseed"
    <2>1. ASSUME NEW g, NEW n
          PROVE  (\E q \in recs : Triple(q) = <<d, g, n>>) <=> \E q \in recs' : Triple(q) = <<d, g, n>>
        BY DEF Triple
    <2> QED BY <1>2, <2>1 DEF Finished, Triple
<1> QED BY <1>1, <1>2

\* Nothing is to be kept when no run is on.
LEMMA OnwardAtRest ==
    ASSUME run'.pc \in {"idle", "panicked"}
    PROVE  Onward'
<1>1. Phase(run') = run'.pc
    BY DEF Phase
<1> QED BY <1>1 DEF Onward, Narrows, Justified, StillThere, Progress, OthersDone, InSeed

-------------------------------------------------------------------------------
\* What the cases below share.
LEMMA Typed ==
    ASSUME TypeInv
    PROVE  /\ recs \subseteq Recs /\ run \in Run /\ run.todo \subseteq Models \X Names
           /\ None \notin Datasets
           /\ \A q \in Recs : q.ds \in Datasets /\ q.group \in Models /\ q.name \in Names
           /\ \A x \in file.records : <<x[1], x[2]>> \in file.groups
           /\ file.groups \subseteq Datasets \X Models
BY RunFields, VersionsAssumption, NoneAssumption
DEF TypeInv, TypeOK, Recs, Records, WellFormed, File

\* What a run has set out to do it keeps to, whatever others do to the tables:
\* it depends on what the run has read, not on what is there.
LEMMA PlanKept ==
    ASSUME TypeInv, OfTheGroup, Narrows, Justified, Sorted
    PROVE  Narrows' /\ Justified'
<1>t. /\ recs \subseteq Recs /\ \A q \in Recs : q.group \in Models /\ q.name \in Names
      /\ \A x \in file.records : <<x[1], x[2]>> \in file.groups
      /\ file.groups \subseteq Datasets \X Models
      /\ run.todo \subseteq Models \X Names
    BY Typed
<1>c. run.cmd \in Commands
    BY Typed, RunFields
<1>1. CASE Carries
    <2>1. InSeed(run') <=> InSeed(run)
        BY <1>1 DEF Carries, InSeed
    <2>2. Narrows'
        BY <1>1, <2>1 DEF Narrows, Carries, SameRun, Groups
    <2>3. Justified'
        BY <1>1, <2>1 DEF Justified, Carries, SameRun, Known
    <2> QED BY <2>2, <2>3
<1>2. CASE Stops
    BY <1>2 DEF Stops, Narrows, Justified, InSeed, Phase
<1>3. CASE RunBegun
    <2>1. Phase(run') = "dataset" /\ ~InSeed(run')
        BY <1>3 DEF RunBegun, Phase, InSeed
    <2> QED BY <1>3, <2>1 DEF RunBegun, Narrows, Justified
<1>4. ASSUME NEW d \in Datasets, DatasetBegun(d) PROVE Narrows' /\ Justified'
    <2>1. /\ Phase(run') = "records" /\ InSeed(run') /\ ToAdd(run') = {} /\ ToRemove(run') = {}
          /\ run.left \subseteq run.sel
        BY <1>4 DEF DatasetBegun, Phase, InSeed, ToAdd, ToRemove, Narrows
    <2> QED BY <1>4, <2>1 DEF DatasetBegun, Narrows, Justified, Groups
<1>5. ASSUME NEW g \in Models, GroupBegun(g) PROVE Narrows' /\ Justified'
    <2>1. /\ Phase(run) = "records" /\ InSeed(run)
          /\ Phase(run') = "records" /\ InSeed(run') /\ run'.pc = "record"
          /\ ToAdd(run') = run'.todo /\ ToRemove(run') = run'.doomed
        BY <1>5 DEF GroupBegun, Phase, InSeed, ToAdd, ToRemove
    <2>2. Narrows'
        BY <1>5, <2>1 DEF Narrows, GroupBegun, SameRun, Groups
    <2>3. ASSUME NEW x \in run'.todo
          PROVE  <<run.ds, x[1], x[2]>> \in file.records /\ run.cmd # "Unseed"
        BY <1>c, <1>5 DEF GroupBegun, Wanted, Declared, Commands
    <2>4. ASSUME NEW q \in run'.doomed
          PROVE  /\ q.ds = run.ds
                 /\ IF run.cmd = "Unseed" THEN <<q.ds, q.group>> \in file.groups
                                          ELSE Triple(q) \notin file.records
        <3>1. q \in recs /\ q.ds = run.ds /\ q.group = g
            BY <1>5 DEF GroupBegun, Unwanted, SeedRecords
        <3>2. <<run.ds, g>> \in file.groups
            BY <1>5, <2>1 DEF GroupBegun, Narrows, Groups
        <3>3. run.cmd = "Unseed" \/ q.name \notin Declared(run.ds, g)
            BY <1>5 DEF GroupBegun, Unwanted
        <3> QED BY <1>t, <3>1, <3>2, <3>3 DEF Declared, Triple
    <2>5. ASSUME run.cmd = "Seed", NEW x \in run'.todo PROVE Known(x)' = {}
        <3>1. x[2] \in Wanted(Declared(run.ds, g), run'.snap)
            BY <1>5 DEF GroupBegun
        <3> QED BY <2>5, <3>1 DEF Wanted, Known
    <2>6. Justified'
        BY <1>5, <2>1, <2>3, <2>4, <2>5 DEF Justified, GroupBegun, SameRun
    <2> QED BY <2>2, <2>6
<1>6. CASE GroupsEnded
    <2>1. /\ Phase(run) = "records" /\ InSeed(run) /\ run'.pc \in {"dataset", "relation"}
          /\ Phase(run') \in {"dataset", "relations"} /\ ToAdd(run') = {} /\ ToRemove(run') = {}
          /\ Phase(run') = "dataset" <=> run.cmd = "Unseed"
        BY <1>6 DEF GroupsEnded, Phase, InSeed, ToAdd, ToRemove
    <2>2. Narrows'
        BY <1>6, <2>1 DEF Narrows, GroupsEnded, SameRun, InSeed, Groups
    <2> QED BY <1>6, <2>1, <2>2 DEF GroupsEnded, Justified
<1>7. ASSUME NEW x \in run.todo, RecordBegun(x) PROVE Narrows' /\ Justified'
    <2>1. /\ Phase(run) = "records" /\ InSeed(run) /\ Phase(run') = "records" /\ InSeed(run')
          /\ ToRemove(run) = run.doomed /\ ToRemove(run') = run.doomed
          /\ ToAdd(run) = run.todo
        BY <1>7 DEF RecordBegun, Phase, InSeed, ToAdd, ToRemove
    <2>2. x = <<x[1], x[2]>>
        BY <1>t
    <2>3. ToAdd(run') = run.todo
        BY <1>7, <2>2 DEF RecordBegun, ToAdd
    <2>4. run.cmd = "Seed" => run'.rec.id = NoId
        BY <1>7, <2>1 DEF Justified, RecordBegun
    <2>5. Narrows'
        BY <1>7, <2>1 DEF Narrows, RecordBegun, SameRun, Groups
    <2>6. Justified'
        BY <1>7, <2>1, <2>3, <2>4 DEF Justified, RecordBegun, SameRun, Known
    <2> QED BY <2>5, <2>6
<1>8. CASE RecordEnded
    <2>1. /\ Phase(run) = "records" /\ InSeed(run) /\ Phase(run') = "records" /\ InSeed(run')
          /\ ToRemove(run) = run.doomed /\ ToRemove(run') = run.doomed
          /\ ToAdd(run') \subseteq ToAdd(run)
        BY <1>8 DEF RecordEnded, Phase, InSeed, ToAdd, ToRemove
    <2>2. Narrows'
        BY <1>8, <2>1 DEF Narrows, RecordEnded, SameRun, Groups
    <2>3. Justified'
        BY <1>8, <2>1 DEF Justified, RecordEnded, SameRun, Known
    <2> QED BY <2>2, <2>3
<1>9. ASSUME NEW q, Removed(q) PROVE Narrows' /\ Justified'
    <2>1. /\ InSeed(run) /\ InSeed(run') /\ Phase(run') = Phase(run)
          /\ ToAdd(run) = {} /\ ToAdd(run') = {}
        BY <1>9 DEF Removed, InSeed, ToAdd
    <2>2. Narrows'
        BY <1>9, <2>1 DEF Narrows, Removed, SameRun, Groups
    <2>3. Justified'
        BY <1>9, <2>1 DEF Justified, Removed, SameRun
    <2> QED BY <2>2, <2>3
<1>10. CASE GoneBegun
    <2>1. /\ InSeed(run) /\ Phase(run') = "gone" /\ InSeed(run') /\ run.todo = {}
          /\ run.cmd # "Unseed" /\ run.groups = {}
        BY <1>10 DEF GoneBegun, InSeed, Phase, Narrows
    <2>2. ToAdd(run') = {} /\ ToRemove(run') = run'.doomed
        BY <1>10, <2>1 DEF GoneBegun, ToAdd, ToRemove, Phase
    <2>3. Narrows'
        BY <1>10, <2>1 DEF Narrows, GoneBegun, SameRun
    <2>4. ASSUME NEW q \in run'.doomed PROVE q.ds = run.ds /\ Triple(q) \notin file.records
        BY <1>t, <1>10 DEF GoneBegun, Triple, Groups
    <2>5. Justified'
        BY <1>10, <2>1, <2>2, <2>4 DEF Justified, GoneBegun, SameRun
    <2> QED BY <2>3, <2>5
<1>11. CASE StaleBegun
    <2>1. /\ Phase(run) = "gone" /\ InSeed(run) /\ Phase(run') = "stale" /\ InSeed(run')
          /\ ToAdd(run') = ToAdd(run) /\ ToRemove(run') = {}
        BY <1>11 DEF StaleBegun, Phase, InSeed, ToAdd, ToRemove
    <2>2. Narrows'
        BY <1>11, <2>1 DEF Narrows, StaleBegun, SameRun, Groups
    <2>3. Justified'
        BY <1>11, <2>1 DEF Justified, StaleBegun, SameRun, Known
    <2> QED BY <2>2, <2>3
<1>12. CASE ForgetBegun
    <2>1. Phase(run') = "forget" /\ ~InSeed(run')
        BY <1>12 DEF ForgetBegun, Phase, InSeed
    <2> QED BY <1>12, <2>1 DEF ForgetBegun, Narrows, Justified
<1>13. ASSUME NEW q, Forgotten(q) PROVE Narrows' /\ Justified'
    <2>1. Phase(run') = "forget" /\ ~InSeed(run')
        BY <1>13 DEF Forgotten, Phase, InSeed
    <2> QED BY <1>13, <2>1 DEF Forgotten, Narrows, Justified
<1>14. CASE Completed
    <2>1. Phase(run) = "forget" /\ Phase(run') = "done" /\ ~InSeed(run')
        BY <1>14 DEF Completed, Phase, InSeed
    <2> QED BY <1>14, <2>1 DEF Completed, SameRun, Narrows, Justified
<1> QED BY <1>1, <1>2, <1>3, <1>4, <1>5, <1>6, <1>7, <1>8, <1>9, <1>10, <1>11, <1>12, <1>13,
           <1>14 DEF Sorted

\* Data sets other than the one in hand are as they were.
LEMMA OthersStayDone ==
    ASSUME Onward, SameRun, run.pc \notin {"idle", "panicked"},
           \A q \in recs \ recs' : q.ds = run.ds, \A q \in recs' \ recs : q.ds = run.ds
    PROVE  OthersDone'
<1>1. ASSUME NEW d \in run.sel, d \notin run.left, d # run.ds PROVE Finished(run.cmd, d)'
    BY <1>1, FinishedElsewhere DEF Onward, OthersDone, SameRun
<1> QED BY <1>1 DEF OthersDone, SameRun, Finished

LEMMA CarriesOn ==
    ASSUME Onward, Carries
    PROVE  StillThere' /\ Progress' /\ OthersDone'
<1>1. InSeed(run') <=> InSeed(run)
    BY DEF Carries, InSeed
<1>2. StillThere'
    BY <1>1 DEF Onward, StillThere, Carries, SameRun
<1>3. Progress'
    BY <1>1 DEF Onward, Progress, Carries, SameRun, Begun, Groups
<1>4. OthersDone'
    <2>1. run'.pc \notin {"idle", "panicked"} => run.pc \notin {"idle", "panicked"}
        BY DEF Carries, Phase
    <2>2. CASE run.pc \notin {"idle", "panicked"}
        BY <2>2, OthersStayDone DEF Carries
    <2> QED BY <2>1, <2>2 DEF OthersDone
<1> QED BY <1>2, <1>3, <1>4

LEMMA RunBegins ==
    ASSUME TypeInv, RunBegun
    PROVE  StillThere' /\ Progress' /\ OthersDone'
<1>t. recs \subseteq Recs /\ file.groups \subseteq Datasets \X Models /\ None \notin Datasets
      /\ \A q \in Recs : q.ds \in Datasets
    BY Typed
<1>1. Phase(run') = "dataset" /\ ~InSeed(run')
    BY DEF RunBegun, Phase, InSeed
<1>2. StillThere'
    BY <1>1 DEF StillThere
<1>3. Progress'
    <2>1. \A g : ~Begun(g)'
        BY <1>t DEF RunBegun, Begun, Groups
    <2>2. \A q \in recs' : q.ds # run'.ds
        BY <1>t DEF RunBegun
    <2> QED BY <2>1, <2>2 DEF Progress
<1>4. OthersDone'
    BY DEF RunBegun, OthersDone
<1> QED BY <1>2, <1>3, <1>4

LEMMA DatasetBegins ==
    ASSUME TypeInv, Onward, NEW d \in Datasets, DatasetBegun(d)
    PROVE  StillThere' /\ Progress' /\ OthersDone'
<1>1. Phase(run') = "records" /\ InSeed(run') /\ ToAdd(run') = {} /\ ToRemove(run') = {}
    BY DEF DatasetBegun, Phase, InSeed, ToAdd, ToRemove
<1>2. StillThere'
    BY <1>1 DEF DatasetBegun, StillThere
<1>3. Progress'
    <2>1. \A g : ~Begun(g)'
        BY DEF DatasetBegun, Begun, Groups
    <2> QED BY <1>1, <2>1 DEF Progress
<1>4. OthersDone'
    <2>1. ASSUME NEW e \in run.sel, e \notin run.left PROVE Finished(run.cmd, e)'
        <3>1. CASE e = run.ds
            <4>1. run.ds # None
                BY <2>1, <3>1, Typed DEF DatasetBegun, Onward, Narrows, TypeInv, TypeOK, Run
            <4>2. Finished(run.cmd, e)
                BY <3>1, <4>1, DatasetFinished DEF DatasetBegun
            <4> QED BY <4>2, FinishedElsewhere DEF DatasetBegun
        <3>2. CASE e # run.ds
            <4>1. Finished(run.cmd, e)
                BY <2>1, <3>2 DEF DatasetBegun, Onward, OthersDone
            <4> QED BY <4>1, FinishedElsewhere DEF DatasetBegun
        <3> QED BY <3>1, <3>2
    <2> QED BY <2>1 DEF DatasetBegun, OthersDone, Finished
<1> QED BY <1>2, <1>3, <1>4

\* The group's records are all accounted for: wanted or found, unwanted or
\* declared.
LEMMA GroupBegins ==
    ASSUME TypeInv, Onward, NEW g \in Models, GroupBegun(g)
    PROVE  StillThere' /\ Progress' /\ OthersDone'
<1>t. recs \subseteq Recs /\ \A q \in Recs : q.group \in Models /\ q.name \in Names
    BY Typed
<1>c. run.cmd \in Commands
    BY Typed, RunFields
<1>1. /\ Phase(run) = "records" /\ InSeed(run) /\ ToAdd(run) = {} /\ ToRemove(run) = {}
      /\ Phase(run') = "records" /\ InSeed(run')
      /\ ToAdd(run') = run'.todo /\ ToRemove(run') = run'.doomed
    BY DEF GroupBegun, Phase, InSeed, ToAdd, ToRemove
<1>2. StillThere'
    BY DEF StillThere, GroupBegun, SeedRecords
<1>3. ASSUME NEW h \in Models, Begun(h)' PROVE h = g \/ Begun(h)
    BY <1>3 DEF Begun, GroupBegun, SameRun, Groups
<1>4. ASSUME run.cmd # "Unseed", NEW h \in Models, NEW n \in Names, Begun(h)',
             <<run.ds, h, n>> \in file.records
      PROVE  <<h, n>> \in run'.todo \/ \E q \in recs : Triple(q) = <<run.ds, h, n>>
    <2>1. CASE h = g
        <3>1. n \in Declared(run.ds, g)
            BY <1>4, <2>1 DEF Declared
        <3>2. CASE n \in Wanted(Declared(run.ds, g), run'.snap)
            BY <2>1, <3>2 DEF GroupBegun
        <3>3. CASE n \notin Wanted(Declared(run.ds, g), run'.snap)
            <4>1. PICK q \in run'.snap : q.name = n
                BY <1>c, <1>4, <3>1, <3>3 DEF Wanted, Commands
            <4> QED BY <2>1, <4>1 DEF GroupBegun, SeedRecords, Triple
        <3> QED BY <3>2, <3>3
    <2>2. CASE h # g
        BY <1>1, <1>3, <1>4, <2>2 DEF Onward, Progress
    <2> QED BY <2>1, <2>2
<1>5. ASSUME NEW q \in recs, q.ds = run.ds, Begun(q.group)'
      PROVE  q \in run'.doomed \/ (run.cmd # "Unseed" /\ Triple(q) \in file.records)
    <2>1. CASE q.group = g
        <3>1. q \in run'.snap
            BY <1>5, <2>1 DEF GroupBegun, SeedRecords
        <3> QED BY <1>5, <2>1, <3>1 DEF GroupBegun, Unwanted, Declared, Triple
    <2>2. CASE q.group # g
        <3>1. Begun(q.group)
            BY <1>t, <1>3, <1>5, <2>2
        <3> QED BY <1>1, <1>5, <3>1 DEF Onward, Progress
    <2> QED BY <2>1, <2>2
<1>6. Progress'
    BY <1>1, <1>4, <1>5 DEF Progress, GroupBegun, SameRun
<1>7. OthersDone'
    BY OthersStayDone DEF GroupBegun
<1> QED BY <1>2, <1>6, <1>7

LEMMA GroupsEnd ==
    ASSUME TypeInv, Onward, GroupsEnded
    PROVE  StillThere' /\ Progress' /\ OthersDone'
<1>1. /\ Phase(run) = "records" /\ InSeed(run) /\ ToAdd(run) = {} /\ ToRemove(run) = {}
      /\ Phase(run') \in {"dataset", "relations"} /\ ToAdd(run') = {} /\ ToRemove(run') = {}
      /\ run'.pc \in {"dataset", "relation"}
      /\ Phase(run') = "dataset" <=> run.cmd = "Unseed"
    BY DEF GroupsEnded, Phase, InSeed, ToAdd, ToRemove
<1>2. StillThere'
    BY <1>1 DEF GroupsEnded, StillThere
<1>3. Progress'
    <2>1. \A g : Begun(g)' <=> Begun(g)
        BY DEF Begun, GroupsEnded, SameRun, Groups
    <2> QED BY <1>1, <2>1 DEF Onward, Progress, GroupsEnded, SameRun
<1>4. OthersDone'
    BY OthersStayDone DEF GroupsEnded
<1> QED BY <1>2, <1>3, <1>4

\* The record goes from the records to take up into the hand; the one that it
\* replaces, whose row is gone, is forgotten.
LEMMA RecordBegins ==
    ASSUME TypeInv, OfTheGroup, Onward, NEW x \in run.todo, RecordBegun(x)
    PROVE  StillThere' /\ Progress' /\ OthersDone'
<1>t. recs \subseteq Recs /\ run.todo \subseteq Models \X Names
    BY Typed
<1>1. /\ Phase(run) = "records" /\ InSeed(run) /\ Phase(run') = "records" /\ InSeed(run')
      /\ ToRemove(run) = run.doomed /\ ToRemove(run') = run.doomed
      /\ ToAdd(run) = run.todo
    BY DEF RecordBegun, Phase, InSeed, ToAdd, ToRemove
<1>2. x = <<x[1], x[2]>>
    BY <1>t
<1>3. ToAdd(run') = run.todo
    BY <1>2 DEF RecordBegun, ToAdd
<1>4. \A q \in Known(x) : q.ds = run.ds /\ <<q.group, q.name>> = x /\ q \in recs
    BY <1>1, <1>2 DEF Known, OfTheGroup, Onward, StillThere
<1>5. recs' \subseteq recs /\ \A q \in recs \ recs' : q \in Known(x)
    BY DEF RecordBegun
<1>6. StillThere'
    <2>1. ASSUME NEW q \in run.snap, <<q.group, q.name>> \in run'.todo PROVE q \in recs'
        BY <1>1, <1>4, <1>5, <2>1 DEF Onward, StillThere, RecordBegun
    <2>2. ASSUME run'.rec.id # NoId
          PROVE  \E q \in recs' : Triple(q) = <<run'.ds, run'.rec.group, run'.rec.name>>
        <3>1. PICK q \in Known(x) : recs' = recs
            BY <2>2 DEF RecordBegun
        <3>2. Triple(q) = <<run.ds, x[1], x[2]>> /\ q \in recs'
            BY <1>2, <1>4, <3>1 DEF Triple
        <3> QED BY <3>2 DEF RecordBegun, SameRun
    <2> QED BY <2>1, <2>2 DEF StillThere, RecordBegun
<1>7. Progress'
    <2>1. ASSUME NEW g, NEW n, <<g, n>> \in run.todo \/ \E q \in recs : Triple(q) = <<run.ds, g, n>>
          PROVE  <<g, n>> \in run.todo \/ \E q \in recs' : Triple(q) = <<run.ds, g, n>>
        <3>1. CASE \E q \in recs : Triple(q) = <<run.ds, g, n>> /\ q \notin recs'
            <4>1. PICK q \in recs : Triple(q) = <<run.ds, g, n>> /\ q \notin recs'
                BY <3>1
            <4>2. <<q.group, q.name>> = x
                BY <1>4, <1>5, <4>1
            <4> QED BY <4>1, <4>2 DEF Triple
        <3> QED BY <2>1, <3>1
    <2>2. \A g : Begun(g)' <=> Begun(g)
        BY DEF Begun, RecordBegun, SameRun, Groups
    <2> QED BY <1>1, <1>3, <1>5, <2>1, <2>2 DEF Onward, Progress, RecordBegun, SameRun
<1>8. OthersDone'
    BY <1>4, <1>5, OthersStayDone DEF RecordBegun
<1> QED BY <1>6, <1>7, <1>8

\* The record in hand is tracked, or was all the time.
LEMMA RecordEnds ==
    ASSUME OfTheGroup, Onward, RecordEnded
    PROVE  StillThere' /\ Progress' /\ OthersDone'
<1>b. run.rec.ds = run.ds
    BY DEF OfTheGroup, RecordEnded
<1>1. /\ Phase(run) = "records" /\ InSeed(run) /\ Phase(run') = "records" /\ InSeed(run')
      /\ ToRemove(run) = run.doomed /\ ToRemove(run') = run.doomed
      /\ ToAdd(run) = run.todo \union {<<run.rec.group, run.rec.name>>} /\ ToAdd(run') = run.todo
    BY DEF RecordEnded, Phase, InSeed, ToAdd, ToRemove
<1>2. /\ recs \subseteq recs' /\ recs' \subseteq recs \union {run.rec}
      /\ \E q \in recs' : Triple(q) = <<run.ds, run.rec.group, run.rec.name>>
    BY <1>b, <1>1 DEF RecordEnded, Onward, StillThere, Triple
<1>3. <<run.ds, run.rec.group, run.rec.name>> \in file.records /\ run.cmd # "Unseed"
    <2> DEFINE x == <<run.rec.group, run.rec.name>>
    <2>1. x \in ToAdd(run) /\ x[1] = run.rec.group /\ x[2] = run.rec.name
        BY <1>1
    <2> HIDE DEF x
    <2>2. <<run.ds, x[1], x[2]>> \in file.records /\ run.cmd # "Unseed"
        BY <1>1, <2>1 DEF Onward, Justified
    <2> QED BY <2>1, <2>2
<1>4. StillThere'
    BY <1>1, <1>2 DEF Onward, StillThere, RecordEnded, SameRun
<1>5. Progress'
    <2>1. \A g : Begun(g)' <=> Begun(g)
        BY DEF Begun, RecordEnded, SameRun, Groups
    <2>2. ASSUME NEW g \in Models, NEW n \in Names, Begun(g), <<run.ds, g, n>> \in file.records
          PROVE  <<g, n>> \in run.todo \/ \E q \in recs' : Triple(q) = <<run.ds, g, n>>
        BY <1>1, <1>2, <1>3, <2>2 DEF Onward, Progress
    <2>3. ASSUME NEW q \in recs', q.ds = run.ds, Begun(q.group)
          PROVE  q \in run.doomed \/ (run.cmd # "Unseed" /\ Triple(q) \in file.records)
        <3>1. CASE q = run.rec
            BY <1>b, <1>3, <3>1 DEF Triple
        <3>2. CASE q \in recs
            BY <1>1, <2>3, <3>2 DEF Onward, Progress
        <3> QED BY <1>2, <3>1, <3>2
    <2> QED BY <1>1, <2>1, <2>2, <2>3 DEF Progress, RecordEnded, SameRun
<1>6. OthersDone'
    BY <1>b, <1>2, OthersStayDone DEF RecordEnded
<1> QED BY <1>4, <1>5, <1>6

\* What is removed is none that the files declare, unless all are removed.
LEMMA Removes ==
    ASSUME Onward, NEW r, Removed(r)
    PROVE  StillThere' /\ Progress' /\ OthersDone'
<1>1. /\ InSeed(run) /\ InSeed(run') /\ Phase(run') = Phase(run)
      /\ Phase(run) \in {"records", "relations", "gone"}
      /\ ToAdd(run) = {} /\ ToAdd(run') = {}
    BY DEF Removed, InSeed, ToAdd
<1>2. r.ds = run.ds /\ (run.cmd # "Unseed" => Triple(r) \notin file.records)
    BY <1>1 DEF Removed, Onward, Justified
<1>3. StillThere'
    BY DEF StillThere, Removed
<1>4. Progress'
    <2>1. \A g : Begun(g)' <=> Begun(g)
        BY DEF Begun, Removed, SameRun, Groups
    <2>2. ASSUME run.cmd # "Unseed", NEW g \in Models, NEW n \in Names, Begun(g),
                 <<run.ds, g, n>> \in file.records
          PROVE  \E q \in recs' : Triple(q) = <<run.ds, g, n>>
        <3>1. PICK q \in recs : Triple(q) = <<run.ds, g, n>>
            BY <1>1, <2>2 DEF Onward, Progress
        <3>2. q # r
            BY <1>2, <2>2, <3>1
        <3> QED BY <3>1, <3>2 DEF Removed
    <2>3. ASSUME NEW q \in recs', q.ds = run.ds,
                 Begun(q.group) \/ (Phase(run) = "gone" /\ q.group \notin Groups(run.ds))
          PROVE  q \in ToRemove(run') \/ (run.cmd # "Unseed" /\ Triple(q) \in file.records)
        BY <1>1, <2>3 DEF Onward, Progress, Removed
    <2> QED BY <1>1, <2>1, <2>2, <2>3 DEF Progress, Removed, SameRun, Groups
<1>5. OthersDone'
    <2>1. run.pc \notin {"idle", "panicked"}
        BY <1>1 DEF Phase
    <2> QED BY <1>2, <2>1, OthersStayDone DEF Removed
<1> QED BY <1>3, <1>4, <1>5

LEMMA GoneBegins ==
    ASSUME TypeInv, Onward, GoneBegun
    PROVE  StillThere' /\ Progress' /\ OthersDone'
<1>t. /\ \A x \in file.records : <<x[1], x[2]>> \in file.groups
      /\ file.groups \subseteq Datasets \X Models
      /\ recs \subseteq Recs /\ \A q \in Recs : q.group \in Models
    BY Typed
<1>1. /\ InSeed(run) /\ Phase(run') = "gone" /\ InSeed(run') /\ run.todo = {} /\ run.cmd # "Unseed"
      /\ run.doomed = {} /\ run.groups = {}
    BY DEF GoneBegun, InSeed, Phase, Onward, Narrows
<1>2. ToAdd(run) = {} /\ ToAdd(run') = {} /\ ToRemove(run) = {} /\ ToRemove(run') = run'.doomed
    BY <1>1 DEF GoneBegun, ToAdd, ToRemove, Phase
<1>3. StillThere'
    BY <1>1 DEF GoneBegun, StillThere
<1>4. Progress'
    <2>1. \A g : Begun(g)' <=> Begun(g)
        BY DEF Begun, GoneBegun, SameRun, Groups
    <2> QED BY <1>1, <1>2, <2>1 DEF Onward, Progress, GoneBegun, SameRun, Groups
<1>5. OthersDone'
    <2>1. run.pc \notin {"idle", "panicked"}
        BY <1>1 DEF InSeed, Phase
    <2> QED BY <2>1, OthersStayDone DEF GoneBegun
<1> QED BY <1>3, <1>4, <1>5

LEMMA StaleBegins ==
    ASSUME Onward, StaleBegun
    PROVE  StillThere' /\ Progress' /\ OthersDone'
<1>1. /\ Phase(run) = "gone" /\ InSeed(run) /\ Phase(run') = "stale" /\ InSeed(run')
      /\ ToAdd(run') = ToAdd(run) /\ ToRemove(run) = {} /\ ToRemove(run') = {}
    BY DEF StaleBegun, Phase, InSeed, ToAdd, ToRemove
<1>2. StillThere'
    BY <1>1 DEF Onward, StillThere, StaleBegun
<1>3. Progress'
    BY <1>1 DEF Onward, Progress, StaleBegun, SameRun, Begun, Groups
<1>4. OthersDone'
    BY OthersStayDone DEF StaleBegun
<1> QED BY <1>2, <1>3, <1>4

LEMMA ForgetBegins ==
    ASSUME TypeInv, Onward, ForgetBegun
    PROVE  StillThere' /\ Progress' /\ OthersDone'
<1>1. Phase(run') = "forget" /\ ~InSeed(run')
    BY DEF ForgetBegun, Phase, InSeed
<1>2. StillThere' /\ Progress'
    BY <1>1 DEF StillThere, Progress
<1>3. OthersDone'
    <2>1. ASSUME NEW d \in run.sel PROVE Finished(run.cmd, d)'
        <3>1. CASE d = run.ds
            <4>1. run.ds # None
                BY <2>1, <3>1, Typed, RunFields
            <4>2. Finished(run.cmd, d)
                BY <3>1, <4>1, DatasetFinished DEF ForgetBegun
            <4> QED BY <4>2, FinishedElsewhere DEF ForgetBegun
        <3>2. CASE d # run.ds
            <4>1. Finished(run.cmd, d)
                BY <3>2 DEF ForgetBegun, Onward, OthersDone
            <4> QED BY <4>1, FinishedElsewhere DEF ForgetBegun
        <3> QED BY <3>1, <3>2
    <2> QED BY <2>1 DEF ForgetBegun, OthersDone, Finished
<1> QED BY <1>2, <1>3

\* Forgetting the data sets that are not selected leaves those that are.
LEMMA Forgets ==
    ASSUME Onward, NEW r, Forgotten(r)
    PROVE  StillThere' /\ Progress' /\ OthersDone'
<1>1. Phase(run') = "forget" /\ ~InSeed(run')
    BY DEF Forgotten, Phase, InSeed
<1>2. StillThere' /\ Progress'
    BY <1>1 DEF StillThere, Progress
<1>3. OthersDone'
    <2>1. ASSUME NEW d \in run.sel, d \notin run.left, d # run.ds PROVE Finished(run.cmd, d)'
        <3>1. Finished(run.cmd, d)
            BY <2>1 DEF Forgotten, Onward, OthersDone
        <3> QED BY <3>1, FinishedElsewhere DEF Forgotten
    <2> QED BY <2>1 DEF Forgotten, OthersDone, Finished
<1> QED BY <1>2, <1>3

LEMMA Completes ==
    ASSUME Onward, Completed
    PROVE  StillThere' /\ Progress' /\ OthersDone'
<1>1. Phase(run) = "forget" /\ Phase(run') = "done" /\ ~InSeed(run')
    BY DEF Completed, Phase, InSeed
<1>2. StillThere' /\ Progress'
    BY <1>1 DEF StillThere, Progress
<1>3. OthersDone'
    BY OthersStayDone DEF Completed
<1> QED BY <1>2, <1>3

-------------------------------------------------------------------------------
\* The steps that are not a run's own.
LEMMA OtherSteps ==
    ASSUME TypeInv, [Next]_vars
    PROVE  \/ Step \/ RunBegun
           \/ Crash /\ Stops
           \/ run.pc = "idle" /\ run' = run
           \/ UNCHANGED <<run, recs, file>>
<1>1. ASSUME NEW start \in Starts, Begin(start) PROVE RunBegun
    <2>1. PICK sel \in Selections(start[2]) :
            run' = [Idle EXCEPT !.pc = "dataset", !.cmd = start[1], !.sel = sel, !.left = sel]
        BY <1>1 DEF Begin
    <2>2. /\ run'.pc = "dataset" /\ run'.ds = None /\ run'.left = run'.sel /\ run'.groups = {}
          /\ run'.todo = {} /\ run'.doomed = {} /\ run'.cmd = start[1] /\ run'.sel = sel
        BY <2>1 DEF Idle
    <2>3. file.auto \subseteq Datasets /\ file.sets \subseteq Datasets
        BY VersionsAssumption DEF TypeInv, TypeOK, File
    <2>4. sel \subseteq Datasets
        BY <2>3, StartsAssumption DEF Selections, Scopes
    <2>5. start[1] \in Commands
        BY StartsAssumption
    <2> QED BY <1>1, <2>2, <2>4, <2>5 DEF Begin, Decides, RunBegun
<1>2. Crash => Stops
    BY DEF Crash, Decides, Idle, Stops
<1>3. ASSUME NEW f \in Versions, Edit(f) PROVE run.pc = "idle" /\ run' = run
    BY <1>3 DEF Edit
<1>4. Migrate \/ Purge => run.pc = "idle" /\ run' = run
    BY DEF Migrate, Purge
<1>5. ASSUME NEW g \in Models, AppCreate(g) PROVE run.pc = "idle" /\ run' = run
    BY <1>5 DEF AppCreate
<1>6. ASSUME NEW row \in rows, AppDelete(row) PROVE run.pc = "idle" /\ run' = run
    BY <1>6 DEF AppDelete
<1> QED BY <1>1, <1>2, <1>3, <1>4, <1>5, <1>6 DEF Next, Environment, vars

\* Between two runs there is nothing to go on with.
LEMMA NoStepAtRest ==
    ASSUME TypeInv, run.pc = "idle"
    PROVE  ~Step
<1>1. InHand /\ run = Idle
    BY DEF TypeInv, InHand
<1> QED BY <1>1 DEF Idle, Step, Setup, BeginDataset, BetweenDatasets, BeginGroup, EndGroups, GroupDone,
        BeginForget, Finish, Exit, Upsert, Insert, Recreate, Update, InputRelation, SaveNewRow,
        Inserting, SaveUpdatedRow, Track, Remove, RemoveGone, BeginRemove, RemoveRow, Untrack,
        BeginGone, AtRelation, BeginStale, RemoveStale, ForgetRecord, ForgetRelation,
        Relations, CutPanic, Cutting, CutRecord, CutLink, Uncut, BeginRelations,
        BeginRelation, BeginCutRelation, LinkPanic, LinkRef, Relate

\* Whatever step of its own the run takes, it keeps what it has reached.
LEMMA OnwardBySteps ==
    ASSUME TypeInv, OfTheGroup, Onward, Sorted
    PROVE  Onward'
<1>1. Stops => Onward'
    BY OnwardAtRest DEF Stops
<1>2. Narrows' /\ Justified'
    BY PlanKept DEF Onward
<1> QED BY <1>1, <1>2, CarriesOn, RunBegins, DatasetBegins, GroupBegins, GroupsEnd, RecordBegins,
           RecordEnds, Removes, GoneBegins, StaleBegins, ForgetBegins, Forgets, Completes
        DEF Onward, Sorted

LEMMA OnwardStays ==
    ASSUME Onward, UNCHANGED <<run, recs, file>>
    PROVE  Onward'
BY DEF Onward, Narrows, Justified, StillThere, Progress, OthersDone, Finished, Begun, Groups, Known

LEMMA OnwardKept ==
    ASSUME TypeInv, OfTheGroup, Onward, [Next]_vars
    PROVE  Onward'
<1>1. CASE Step
    BY <1>1, StepsSorted, OnwardBySteps DEF Onward, Narrows, OfTheGroup
<1>2. CASE run.pc = "idle" /\ run' = run
    BY <1>2, OnwardAtRest
<1>3. CASE RunBegun \/ Stops
    BY <1>3, OnwardBySteps DEF Sorted
<1> QED BY <1>1, <1>2, <1>3, OtherSteps, OnwardStays

\* A run is always that far and no further.
LEMMA OnwardAlways == Spec => [](Inv /\ Onward)
<1>1. Init => Onward
    BY DEF Init, Idle, Onward, Narrows, Justified, StillThere, Progress, OthersDone, InSeed, Phase
<1>2. Inv /\ Onward /\ [Next]_vars => Onward'
    BY OnwardKept DEF Inv, Books, OfTheGroup
<1> QED BY <1>1, <1>2, Invariant, PTL DEF Spec

\* A run that has come to its end has brought its data sets in line.
LEMMA EndsInLine ==
    ASSUME TypeInv, Onward
    PROVE  RecordsMatchFiles
<1> SUFFICES ASSUME run.pc = "done" PROVE RecordsMatchFiles
    BY DEF RecordsMatchFiles, Ended
<1>1. ASSUME NEW d \in run.sel PROVE Finished(run.cmd, d)
    <2>1. run.left = {} /\ run.ds = None
        BY DEF Onward, Narrows, Phase
    <2>2. d # None
        BY Typed, RunFields
    <2> QED BY <2>1, <2>2 DEF Onward, OthersDone
<1>2. ASSUME NEW d \in run.sel, run.cmd # "Unseed" PROVE TrackedIn(d) = DeclaredIn(d)
    <2>1. /\ recs \subseteq Recs /\ \A q \in Recs : q.group \in Models /\ q.name \in Names
          /\ file.records \subseteq Datasets \X Models \X Names
        BY Typed, VersionsAssumption DEF TypeInv, TypeOK, File
    <2>2. \A g \in Models, n \in Names :
            <<d, g, n>> \in file.records <=> \E q \in recs : Triple(q) = <<d, g, n>>
        BY <1>1, <1>2 DEF Finished
    <2>3. ASSUME NEW t \in TrackedIn(d) PROVE t \in DeclaredIn(d)
        <3>1. PICK q \in recs : q.ds = d /\ t = <<q.group, q.name>>
            BY <2>3 DEF TrackedIn
        <3>2. <<d, q.group, q.name>> \in file.records
            BY <2>1, <2>2, <3>1 DEF Triple
        <3> QED BY <3>1, <3>2 DEF DeclaredIn
    <2>4. ASSUME NEW t \in DeclaredIn(d) PROVE t \in TrackedIn(d)
        <3>1. PICK y \in file.records : y[1] = d /\ t = <<y[2], y[3]>>
            BY <2>4 DEF DeclaredIn
        <3>2. y = <<d, y[2], y[3]>> /\ y[2] \in Models /\ y[3] \in Names
            BY <2>1, <3>1
        <3>3. PICK q \in recs : Triple(q) = <<d, y[2], y[3]>>
            BY <2>2, <3>2
        <3> QED BY <3>1, <3>3 DEF TrackedIn, Triple
    <2> QED BY <2>3, <2>4
<1>3. ASSUME NEW d \in run.sel, run.cmd = "Unseed", NEW t \in TrackedIn(d)
      PROVE  t[1] \notin Groups(d)
    BY <1>1, <1>3 DEF Finished, TrackedIn
<1> QED BY <1>2, <1>3 DEF RecordsMatchFiles, Ended

\* However many runs were killed before it, and whatever the application and
\* the user did in between: a run that ends has made the tracked records of the
\* selected data sets the records of the files.
THEOREM SeederRecordsMatchFiles == Spec => []RecordsMatchFiles
<1>1. Inv /\ Onward => RecordsMatchFiles
    BY EndsInLine DEF Inv
<1> QED BY <1>1, OnwardAlways, PTL

-------------------------------------------------------------------------------
\* A Seed among others.  What a Seed needs of the tables is only that what it
\* leaves to others, because it found it or because it is done, stays tracked.
Tracked(d, g, n) == \E q \in recs : Triple(q) = <<d, g, n>>

LeavesNothingOut ==
    run.cmd = "Seed" =>
        /\ InSeed(run) =>
            \A g \in Models, n \in Names :
                Begun(g) /\ <<run.ds, g, n>> \in file.records =>
                    <<g, n>> \in ToAdd(run) \/ Tracked(run.ds, g, n)
        /\ run.pc \notin {"idle", "panicked"} =>
            \A d \in run.sel : d \notin run.left /\ d # run.ds =>
                \A g \in Models, n \in Names : <<d, g, n>> \in file.records => Tracked(d, g, n)

\* A run does one command, on the data sets that were selected, and writes
\* nothing before it begins or after a panic.
LEMMA OneCommand ==
    ASSUME Sorted
    PROVE  /\ run.pc \in {"idle", "panicked"} => recs' = recs
           /\ \/ RunBegun
              \/ run'.pc \in {"idle", "panicked"}
              \/ /\ run.pc \notin {"idle", "panicked"}
                 /\ run'.cmd = run.cmd /\ run'.sel = run.sel /\ file' = file
BY DEF Sorted, Carries, Stops, DatasetBegun, GroupBegun, GroupsEnded, RecordBegun, RecordEnded,
       Removed, GoneBegun, StaleBegun, ForgetBegun, Forgotten, Completed, RunBegun, SameRun, Phase

LEMMA PlanStays ==
    ASSUME Narrows, Justified, UNCHANGED <<run, file>>
    PROVE  Narrows' /\ Justified'
BY DEF Narrows, Justified, Known, Groups, InSeed

\* A Seed untracks only what the files do not declare, or what is of a data set
\* that it was not asked for.
LEMMA SeedUntracks ==
    ASSUME TypeInv, OfTheGroup, Narrows, Justified, Sorted, run.cmd = "Seed",
           NEW q \in recs, q \notin recs'
    PROVE  /\ Triple(q) \notin file.records \/ q.ds \notin run.sel
           /\ run.pc \notin {"idle", "panicked"}
<1>1. ASSUME NEW x \in run.todo, RecordBegun(x) PROVE recs' = recs
    BY <1>1 DEF RecordBegun, Justified, InSeed, Phase
<1>2. ASSUME NEW r, Removed(r)
      PROVE  (r \in recs => Triple(r) \notin file.records) /\ run.pc \notin {"idle", "panicked"}
    BY <1>2 DEF Removed, Justified, InSeed, Phase
<1> QED BY <1>1, <1>2 DEF Sorted, Carries, Stops, RunBegun, DatasetBegun, GroupBegun, GroupsEnded,
           RecordEnded, Removed, GoneBegun, StaleBegun, ForgetBegun, Forgotten, Completed

\* Where nothing is tracked less, but what nobody needs, nothing is left out.
LEMMA NothingLeftOutStays ==
    ASSUME TypeInv, Narrows, LeavesNothingOut, UNCHANGED <<run, file>>,
           run.cmd = "Seed" =>
               \A q \in recs : \/ q \in recs'
                               \/ Triple(q) \notin file.records
                               \/ q.ds \notin run.sel
    PROVE  LeavesNothingOut'
<1> SUFFICES ASSUME run.cmd = "Seed" PROVE LeavesNothingOut'
    BY DEF LeavesNothingOut
<1>1. ASSUME NEW d \in run.sel, NEW g, NEW n, <<d, g, n>> \in file.records, Tracked(d, g, n)
      PROVE  Tracked(d, g, n)'
    BY <1>1 DEF Tracked, Triple
<1>2. InSeed(run) => run.ds \in run.sel
    BY Typed DEF TypeInv, InHand, Narrows, InSeed, Phase
<1>3. \A g : Begun(g)' <=> Begun(g)
    BY DEF Begun, Groups
<1> QED BY <1>1, <1>2, <1>3 DEF LeavesNothingOut

\* Nor does a step of the Seed itself leave anything out.
LEMMA NothingLeftOut ==
    ASSUME TypeInv, OfTheGroup, Narrows, Justified, LeavesNothingOut, Sorted
    PROVE  LeavesNothingOut'
<1> DEFINE Tracks(d, g, n) == \E q \in recs' : Triple(q) = <<d, g, n>>
<1> SUFFICES ASSUME run'.cmd = "Seed", run'.pc \notin {"idle", "panicked"} PROVE LeavesNothingOut'
    BY DEF LeavesNothingOut, InSeed, Phase
<1>t. /\ run.todo \subseteq Models \X Names /\ None \notin Datasets /\ run.cmd \in Commands
      /\ run.sel \subseteq Datasets
    BY Typed, RunFields
<1>b. CASE RunBegun
    BY <1>b DEF RunBegun, InSeed, Phase, LeavesNothingOut
<1>s. ASSUME ~RunBegun PROVE /\ run.cmd = "Seed" /\ run'.sel = run.sel /\ file' = file
                             /\ run.pc \notin {"idle", "panicked"}
    BY <1>s, OneCommand
<1> SUFFICES ASSUME ~RunBegun PROVE LeavesNothingOut'
    BY <1>b
\* A record that is tracked, in a data set that the run is to bring in line.
<1>k. ASSUME NEW d \in run.sel, NEW g, NEW n, <<d, g, n>> \in file.records, Tracked(d, g, n)
      PROVE  Tracks(d, g, n)
    <2>1. PICK q \in recs : Triple(q) = <<d, g, n>>
        BY <1>k DEF Tracked
    <2>2. q.ds = d
        BY <2>1 DEF Triple
    <2> QED BY <1>s, <1>k, <2>1, <2>2, SeedUntracks DEF Tracked, Triple
<1>d. InSeed(run) => run.ds \in run.sel
    BY <1>t DEF TypeInv, InHand, Narrows, InSeed, Phase
\* The data sets that it is done with.
<1>o. ASSUME NEW d \in run.sel, d \notin run.left, d # run.ds,
             NEW g \in Models, NEW n \in Names, <<d, g, n>> \in file.records
      PROVE  Tracks(d, g, n)
    BY <1>s, <1>o, <1>k DEF LeavesNothingOut
<1>p. ASSUME run'.ds = run.ds, run'.left = run.left,
             InSeed(run') =>
                /\ InSeed(run)
                /\ \A g \in Models, n \in Names :
                    Begun(g)' /\ <<run.ds, g, n>> \in file.records =>
                        <<g, n>> \in ToAdd(run') \/ Tracks(run.ds, g, n)
      PROVE  LeavesNothingOut'
    BY <1>s, <1>o, <1>p DEF LeavesNothingOut, Tracked
\* Where a run goes on with the groups that are begun.
<1>q. ASSUME run'.ds = run.ds, run'.left = run.left, run'.groups = run.groups,
             InSeed(run') => InSeed(run), ToAdd(run) \subseteq ToAdd(run')
      PROVE  LeavesNothingOut'
    <2>1. \A g : Begun(g)' <=> Begun(g)
        BY <1>s, <1>q DEF Begun, Groups
    <2> QED BY <1>s, <1>d, <1>k, <1>p, <1>q, <2>1 DEF LeavesNothingOut
\* The data set in hand is done: of its groups all are begun.
<1>e. ASSUME run.pc = "stale", NEW g \in Models, NEW n \in Names, <<run.ds, g, n>> \in file.records
      PROVE  Tracks(run.ds, g, n)
    <2>1. InSeed(run) /\ ToAdd(run) = {} /\ run.groups = {}
        BY <1>e DEF InSeed, Phase, ToAdd, Narrows
    <2>2. <<run.ds, g>> \in file.groups
        <3>1. \A x \in file.records : <<x[1], x[2]>> \in file.groups
            BY Typed
        <3> QED BY <1>e, <3>1
    <2>3. Begun(g)
        BY <2>1, <2>2 DEF Begun, Groups
    <2>4. Tracked(run.ds, g, n)
        BY <1>s, <1>e, <2>1, <2>3 DEF LeavesNothingOut
    <2> QED BY <1>d, <1>e, <1>k, <2>1, <2>4
<1>f. ASSUME run.pc \in {"dataset", "stale"}, run.ds \in run.sel, run.ds \notin run.left,
             NEW g \in Models, NEW n \in Names, <<run.ds, g, n>> \in file.records
      PROVE  Tracks(run.ds, g, n)
    <2>1. run.pc = "stale"
        BY <1>s, <1>f, <1>t DEF Narrows, Phase
    <2> QED BY <1>e, <1>f, <2>1
<1>1. CASE Carries
    <2>1. InSeed(run') => InSeed(run)
        BY <1>1 DEF Carries, InSeed
    <2> QED BY <1>1, <1>q, <2>1 DEF Carries, SameRun
<1>2. CASE Stops
    BY <1>2 DEF Stops
<1>3. ASSUME NEW d \in Datasets, DatasetBegun(d) PROVE LeavesNothingOut'
    <2>1. \A g : ~Begun(g)'
        BY <1>3 DEF DatasetBegun, Begun, Groups
    <2>2. ASSUME NEW e \in run.sel, e \notin run.left \ {d}, e # d,
                 NEW g \in Models, NEW n \in Names, <<e, g, n>> \in file.records
          PROVE  Tracks(e, g, n)
        BY <1>3, <1>o, <1>f, <2>2 DEF DatasetBegun
    <2> QED BY <1>3, <1>s, <2>1, <2>2 DEF DatasetBegun, LeavesNothingOut, Tracked
<1>4. ASSUME NEW h \in Models, GroupBegun(h) PROVE LeavesNothingOut'
    <2>1. /\ InSeed(run) /\ ToAdd(run) = {} /\ ToAdd(run') = run'.todo
        BY <1>4 DEF GroupBegun, Phase, InSeed, ToAdd
    <2>2. ASSUME NEW g \in Models, NEW n \in Names, Begun(g)', <<run.ds, g, n>> \in file.records
          PROVE  <<g, n>> \in run'.todo \/ Tracks(run.ds, g, n)
        <3>1. CASE g = h
            <4>1. n \in Declared(run.ds, h)
                BY <2>2, <3>1 DEF Declared
            <4>2. CASE n \in Wanted(Declared(run.ds, h), run'.snap)
                BY <1>4, <3>1, <4>2 DEF GroupBegun
            <4>3. CASE n \notin Wanted(Declared(run.ds, h), run'.snap)
                <5>1. PICK q \in run'.snap : q.name = n
                    BY <1>s, <4>1, <4>3 DEF Wanted
                <5>2. Tracked(run.ds, g, n)
                    BY <1>4, <3>1, <5>1 DEF GroupBegun, SeedRecords, Triple, Tracked
                <5> QED BY <1>d, <1>k, <2>1, <2>2, <5>2
            <4> QED BY <4>2, <4>3
        <3>2. CASE g # h
            <4>1. Begun(g)
                BY <1>4, <2>2, <3>2 DEF Begun, GroupBegun, SameRun, Groups
            <4> QED BY <1>s, <1>d, <1>k, <2>1, <2>2, <4>1 DEF LeavesNothingOut
        <3> QED BY <3>1, <3>2
    <2> QED BY <1>4, <1>p, <2>1, <2>2 DEF GroupBegun, SameRun
<1>5. CASE GroupsEnded
    <2>1. /\ InSeed(run) /\ ToAdd(run) = {} /\ run'.groups = run.groups
        BY <1>5 DEF GroupsEnded, InSeed, Phase, ToAdd
    <2> QED BY <1>5, <1>q, <2>1 DEF GroupsEnded, SameRun
<1>6. ASSUME NEW x \in run.todo, RecordBegun(x) PROVE LeavesNothingOut'
    <2>1. x = <<x[1], x[2]>>
        BY <1>t
    <2>2. InSeed(run) /\ ToAdd(run) = run.todo /\ ToAdd(run') = run.todo
        BY <1>6, <2>1 DEF RecordBegun, InSeed, Phase, ToAdd
    <2> QED BY <1>6, <1>q, <2>2 DEF RecordBegun, SameRun
<1>7. CASE RecordEnded
    <2>1. /\ InSeed(run) /\ ToAdd(run') = run.todo
          /\ ToAdd(run) = run.todo \union {<<run.rec.group, run.rec.name>>}
        BY <1>7 DEF RecordEnded, InSeed, Phase, ToAdd
    <2>2. recs' = recs \union {run.rec} /\ run.rec.ds = run.ds
        BY <1>7, <1>s, <2>1 DEF RecordEnded, Justified, OfTheGroup
    <2>3. Tracks(run.ds, run.rec.group, run.rec.name)
        BY <2>2 DEF Tracked, Triple
    <2>4. \A g : Begun(g)' <=> Begun(g)
        BY <1>7 DEF Begun, RecordEnded, SameRun, Groups
    <2>5. ASSUME NEW g \in Models, NEW n \in Names, Begun(g), <<run.ds, g, n>> \in file.records
          PROVE  <<g, n>> \in run.todo \/ Tracks(run.ds, g, n)
        <3>1. <<g, n>> \in run.todo \/ <<g, n>> = <<run.rec.group, run.rec.name>>
              \/ Tracked(run.ds, g, n)
            BY <1>s, <2>1, <2>5 DEF LeavesNothingOut
        <3> QED BY <1>d, <1>k, <2>1, <2>3, <2>5, <3>1
    <2> QED BY <1>7, <1>p, <2>1, <2>4, <2>5 DEF RecordEnded, SameRun
<1>8. ASSUME NEW r, Removed(r) PROVE LeavesNothingOut'
    <2>1. InSeed(run) /\ ToAdd(run) = {}
        BY <1>8 DEF Removed, InSeed, ToAdd
    <2> QED BY <1>8, <1>q, <2>1 DEF Removed, SameRun
<1>9. CASE GoneBegun
    <2>1. /\ InSeed(run) /\ ToAdd(run) = {}
        BY <1>9 DEF GoneBegun, InSeed, Phase, ToAdd, Narrows
    <2> QED BY <1>9, <1>q, <2>1 DEF GoneBegun, SameRun
<1>10. CASE StaleBegun
    <2>1. InSeed(run) /\ ToAdd(run) = {}
        BY <1>10 DEF StaleBegun, InSeed, Phase, ToAdd, Narrows
    <2> QED BY <1>10, <1>q, <2>1 DEF StaleBegun, SameRun
<1>11. CASE ForgetBegun
    <2>1. ~InSeed(run')
        BY <1>11 DEF ForgetBegun, InSeed, Phase
    <2>2. ASSUME NEW e \in run.sel, NEW g \in Models, NEW n \in Names, <<e, g, n>> \in file.records
          PROVE  Tracks(e, g, n)
        BY <1>11, <1>o, <1>f, <2>2 DEF ForgetBegun
    <2> QED BY <1>s, <2>1, <2>2 DEF LeavesNothingOut, Tracked
<1>12. ASSUME NEW r, Forgotten(r) PROVE LeavesNothingOut'
    <2>1. ~InSeed(run')
        BY <1>12 DEF Forgotten, InSeed, Phase
    <2> QED BY <1>12, <1>p, <2>1 DEF Forgotten
<1>13. CASE Completed
    <2>1. ~InSeed(run')
        BY <1>13 DEF Completed, InSeed, Phase
    <2> QED BY <1>13, <1>p, <2>1 DEF Completed, SameRun
<1> QED BY <1>1, <1>2, <1>3, <1>4, <1>5, <1>6, <1>7, <1>8, <1>9, <1>10, <1>11, <1>12, <1>13 DEF Sorted

-------------------------------------------------------------------------------
\* What a run is to untrack is tracked.
DoomedTracked == InSeed(run) => ToRemove(run) \subseteq recs

\* The rows of the groups that a Reseed has begun are there, but for those of
\* the records that it has yet to take up or to remove; those of the data sets
\* that it is done with are; and at its end there are no others.
GroupsRestored ==
    InSeed(run) =>
        \A q \in recs :
            q.ds = run.ds /\ Begun(q.group) =>
                \/ RowOf(q) \in rows
                \/ q \in ToRemove(run)
                \/ <<q.group, q.name>> \in run.todo
SetsRestored ==
    run.pc \notin {"idle", "panicked"} =>
        \A q \in recs :
            q.ds \in run.sel /\ q.ds \notin run.left /\ q.ds # run.ds => RowOf(q) \in rows
OnlySelected == run.pc = "done" => \A q \in recs : q.ds \in run.sel
Restored ==
    /\ run.pc = "track" => RowOf(run.rec) \in rows
    /\ run.cmd = "Reseed" => GroupsRestored /\ SetsRestored /\ OnlySelected

\* A step of a run deletes no row but that of the record it is removing.
LEMMA RowSteps ==
    ASSUME TypeInv, Step
    PROVE  /\ rows \subseteq rows' \/ RemoveRow
           /\ run'.pc = "track" => SaveNewRow
<1>t. run \in Run
    BY DEF TypeInv, TypeOK
<1>1. rows \subseteq rows' \/ RemoveRow
    <2>1. CASE Setup
        BY <2>1 DEF Setup, BeginDataset, BeginGroup, EndGroups, BeginForget, Finish, Exit, Decides
    <2>2. CASE Upsert
        BY <2>2 DEF Upsert, Insert, Recreate, Update, InputRelation, SaveNewRow, SaveNewRowAs,
                    SaveUpdatedRow, Track, Decides, data
    <2>3. CASE Remove
        BY <2>3 DEF Remove, RemoveGone, BeginRemove, Untrack, BeginGone, BeginStale, RemoveStale,
                    ForgetRecord, ForgetRelation, Decides, data
    <2>4. CASE Relations
        BY <2>4 DEF Relations, CutPanic, CutRecord, CutLink, Uncut, BeginRelations, BeginRelation,
                    BeginCutRelation, LinkPanic, LinkRef, Relate, Decides, data
    <2> QED BY <2>1, <2>2, <2>3, <2>4 DEF Step
<1>2. ASSUME run'.pc = "track" PROVE SaveNewRow
    <2>1. ASSUME NEW x, BeginDataset(x) \/ BeginGroup(x) \/ EndGroups \/ BeginForget \/ Finish
          PROVE  FALSE
        BY <1>t, <1>2, <2>1 DEF BeginDataset, BeginGroup, SeedRecords, GroupDone, EndGroups,
                                BeginForget, Finish, Run
    <2>2. ASSUME NEW x \in run.todo, Insert(x) \/ Recreate(x) \/ Update(x) PROVE FALSE
        BY <1>2, <2>2, TakingRecord
    <2>3. ASSUME NEW x, InputRelation(x) \/ SaveUpdatedRow \/ Track PROVE FALSE
        BY <1>t, <1>2, <2>3 DEF InputRelation, SaveUpdatedRow, Track, Run
    <2>4. ASSUME NEW x, \/ RemoveGone(x) \/ BeginRemove(x) \/ RemoveRow \/ Untrack \/ BeginGone
                        \/ BeginStale \/ RemoveStale(x) \/ ForgetRecord(x) \/ ForgetRelation(x)
          PROVE  FALSE
        BY <1>t, <1>2, <2>4 DEF RemoveGone, BeginRemove, Removing, RemoveRow, Untrack, BeginGone,
                                BeginStale, RemoveStale, ForgetRecord, ForgetRelation, Run
    <2>5. ASSUME NEW x, \/ CutPanic(x) \/ CutRecord(x) \/ CutLink(x) \/ Uncut \/ BeginRelations(x)
                        \/ BeginRelation(x) \/ BeginCutRelation(x) \/ LinkPanic(x) \/ LinkRef(x)
                        \/ Relate
          PROVE  FALSE
        BY <1>t, <1>2, <2>5, ZenonT(30) DEF CutPanic, CutRecord, Cutting, CutLink, Uncut, BeginRelations,
                                BeginRelation, BeginCutRelation, LinkPanic, LinkRef, Relate, Run
    <2>6. ASSUME Exit PROVE FALSE
        BY <1>2, <2>6 DEF Exit, Idle
    <2> QED BY <2>1, <2>2, <2>3, <2>4, <2>5, <2>6 DEF Step, Setup, Upsert, Remove, Relations
<1> QED BY <1>1, <1>2

\* The record that is taken up is declared: it is none of those to remove.
LEMMA DoomedStayTracked ==
    ASSUME Inv, Onward, DoomedTracked, Sorted
    PROVE  DoomedTracked'
<1>1. CASE Carries
    BY <1>1 DEF Carries, DoomedTracked, InSeed
<1>2. ASSUME NEW g \in Models, GroupBegun(g) PROVE DoomedTracked'
    BY <1>2 DEF GroupBegun, DoomedTracked, ToRemove, Unwanted, SeedRecords
<1>3. ASSUME NEW d \in Datasets, DatasetBegun(d) PROVE DoomedTracked'
    BY <1>3 DEF DatasetBegun, DoomedTracked, ToRemove
<1>4. ASSUME NEW x \in run.todo, RecordBegun(x) PROVE DoomedTracked'
    <2>1. /\ InSeed(run) /\ ToRemove(run) = run.doomed /\ ToRemove(run') = run.doomed
          /\ x \in ToAdd(run)
        BY <1>4 DEF RecordBegun, Phase, InSeed, ToAdd, ToRemove
    <2>2. <<run.ds, x[1], x[2]>> \in file.records /\ run.cmd # "Unseed"
        BY <2>1 DEF Onward, Justified
    <2>3. \A q \in Known(x) : Triple(q) = <<run.ds, x[1], x[2]>>
        BY DEF Known, Inv, Books, Triple
    <2>4. \A q \in Known(x) : q \notin run.doomed
        BY <2>1, <2>2, <2>3 DEF Onward, Justified
    <2>5. run.doomed \subseteq recs
        BY <2>1 DEF DoomedTracked
    <2> QED BY <1>4, <2>1, <2>4, <2>5 DEF RecordBegun, DoomedTracked
<1>5. CASE RecordEnded
    BY <1>5 DEF RecordEnded, DoomedTracked, InSeed, Phase, ToRemove
<1>6. ASSUME NEW q, Removed(q) PROVE DoomedTracked'
    BY <1>6 DEF Removed, DoomedTracked, InSeed
<1>7. CASE GroupsEnded \/ GoneBegun \/ StaleBegun
    BY <1>7 DEF GroupsEnded, GoneBegun, StaleBegun, DoomedTracked, ToRemove
<1>8. CASE RunBegun \/ ForgetBegun \/ Completed \/ Stops \/ \E q : Forgotten(q)
    BY <1>8 DEF RunBegun, ForgetBegun, Completed, Stops, Forgotten, DoomedTracked, InSeed, Phase
<1> QED BY <1>1, <1>2, <1>3, <1>4, <1>5, <1>6, <1>7, <1>8 DEF Sorted

\* The row of a record is removed with the record, and is no other's.
LEMMA RowsOfOthersStay ==
    ASSUME Inv, Onward, DoomedTracked, RemoveRow, NEW q \in recs, RowOf(q) \in rows
    PROVE  RowOf(q) \in rows' \/ (q = run.rec /\ q \in ToRemove(run) /\ q.ds = run.ds)
<1>1. run.pc = "cut" /\ run.back # "relation" /\ rows' = rows \ {RowOf(run.rec)}
    BY DEF RemoveRow
<1>2. InSeed(run) /\ run.rec \in ToRemove(run)
    BY <1>1, RunFields DEF InSeed, Phase, ToRemove, Inv, TypeInv, TypeOK
<1>3. run.rec \in recs /\ run.rec.ds = run.ds
    BY <1>2 DEF DoomedTracked, Onward, Justified
<1>4. RowOf(q) = RowOf(run.rec) => q = run.rec
    BY <1>3 DEF Inv, OneRecordPerName
<1> QED BY <1>1, <1>2, <1>3, <1>4

LEMMA RemoveRowRestored ==
    ASSUME Inv, Onward, DoomedTracked, Restored, RemoveRow
    PROVE  Restored'
<1>t. run \in Run
    BY DEF Inv, TypeInv, TypeOK
<1>1. /\ run.pc = "cut" /\ run'.pc = "untrack" /\ run'.back = run.back /\ run.back # "relation"
      /\ run'.cmd = run.cmd /\ run'.sel = run.sel /\ run'.left = run.left /\ run'.ds = run.ds
      /\ run'.groups = run.groups /\ run'.todo = run.todo /\ run'.doomed = run.doomed
      /\ run'.rec = run.rec /\ recs' = recs /\ file' = file
    BY <1>t DEF RemoveRow, Run
<1>2. /\ ToRemove(run') = ToRemove(run) /\ InSeed(run) /\ InSeed(run')
      /\ \A g : Begun(g)' <=> Begun(g)
    BY <1>1, <1>t, RunFields DEF ToRemove, InSeed, Phase, Begun, Groups
<1>3. GroupsRestored => GroupsRestored'
    BY <1>1, <1>2, RowsOfOthersStay DEF GroupsRestored
<1>4. SetsRestored => SetsRestored'
    BY <1>1, <1>2, RowsOfOthersStay DEF SetsRestored
<1> QED BY <1>1, <1>3, <1>4 DEF Restored, OnlySelected

\* What the steps on the list of Sorted do, which delete no row.
LEMMA SortedRestored ==
    ASSUME Inv, Onward, Restored, Sorted, rows \subseteq rows',
           run'.pc = "track" => RowOf(run'.rec) \in rows'
    PROVE  Restored'
<1> SUFFICES ASSUME run'.cmd = "Reseed"
             PROVE  GroupsRestored' /\ SetsRestored' /\ OnlySelected'
    BY DEF Restored, RowOf
<1>t. /\ TypeInv /\ recs \subseteq Recs /\ run \in Run /\ None \notin Datasets
      /\ \A q \in Recs : q.ds \in Datasets /\ q.group \in Models
    BY Typed DEF Inv
\* The data set in hand, when the run leaves it.
<1>d. ASSUME run.cmd = "Reseed", run.pc = "dataset" \/ run.pc = "stale",
             NEW q \in recs, q.ds = run.ds
      PROVE  RowOf(q) \in rows
    <2>1. run.ds # None
        BY <1>d, <1>t
    <2>2. /\ run.pc = "stale" /\ Phase(run) = "stale" /\ InSeed(run)
          /\ ToRemove(run) = {} /\ run.todo = {} /\ run.groups = {}
        BY <1>d, <2>1 DEF Onward, Narrows, Phase, InSeed, ToRemove
    <2>3. q.group \in Groups(run.ds)
        <3>1. /\ \A x \in file.records : <<x[1], x[2]>> \in file.groups
            BY <1>t, Typed
        <3>2. CASE q.group \notin Groups(run.ds)
            <4>1. Triple(q) \in file.records
                BY <1>d, <2>2, <3>2 DEF Onward, Progress
            <4>2. <<q.ds, q.group>> \in file.groups
                BY <3>1, <4>1 DEF Triple
            <4> QED BY <1>d, <1>t, <3>2, <4>2 DEF Groups
        <3> QED BY <3>2
    <2> QED BY <1>d, <2>2, <2>3 DEF Restored, GroupsRestored, Begun
<1>g. ASSUME SameRun, \A g : Begun(g)' <=> Begun(g), InSeed(run), recs' \subseteq recs,
             run'.todo = run.todo,
             \A q \in recs' : q \in ToRemove(run) => q \in ToRemove(run')
      PROVE  GroupsRestored'
    BY <1>g DEF SameRun, Restored, GroupsRestored
<1>b. SameRun /\ run'.groups = run.groups => \A g : Begun(g)' <=> Begun(g)
    BY DEF SameRun, Begun, Groups
<1>s. ASSUME SameRun, run.pc \notin {"idle", "panicked"},
             \A q \in recs' \ recs : q.ds = run.ds
      PROVE  SetsRestored'
    BY <1>s DEF SameRun, Restored, SetsRestored
<1>1. CASE Carries
    <2>1. /\ SameRun /\ recs' = recs /\ run'.todo = run.todo /\ run'.groups = run.groups
          /\ ToRemove(run') = ToRemove(run) /\ Phase(run') = Phase(run)
        BY <1>1 DEF Carries
    <2>2. /\ run'.pc = "done" => run.pc = "done"
          /\ run'.pc \notin {"idle", "panicked"} => run.pc \notin {"idle", "panicked"}
        BY <2>1 DEF Phase
    <2>3. GroupsRestored'
        BY <2>1, <1>g, <1>b DEF GroupsRestored, InSeed
    <2>4. SetsRestored'
        BY <2>1, <2>2, <1>s DEF SetsRestored
    <2>5. OnlySelected'
        BY <2>1, <2>2 DEF SameRun, Restored, OnlySelected
    <2> QED BY <2>3, <2>4, <2>5
<1>2. CASE Stops
    BY <1>2 DEF Stops, InSeed, Phase, GroupsRestored, SetsRestored, OnlySelected
<1>3. CASE RunBegun
    BY <1>3 DEF RunBegun, InSeed, Phase, GroupsRestored, SetsRestored, OnlySelected
<1>4. ASSUME NEW d \in Datasets, DatasetBegun(d)
      PROVE  GroupsRestored' /\ SetsRestored' /\ OnlySelected'
    <2>1. \A g : ~Begun(g)'
        BY <1>4 DEF DatasetBegun, Begun, Groups
    <2>2. \A q \in recs : q.ds \in run.sel /\ q.ds \notin run.left => RowOf(q) \in rows
        BY <1>4, <1>d DEF DatasetBegun, Restored, SetsRestored
    <2> QED BY <1>4, <2>1, <2>2 DEF DatasetBegun, GroupsRestored, SetsRestored, OnlySelected
<1>5. ASSUME NEW g \in Models, GroupBegun(g)
      PROVE  GroupsRestored' /\ SetsRestored' /\ OnlySelected'
    <2>1. /\ SameRun /\ recs' = recs /\ InSeed(run) /\ ToRemove(run) = {} /\ run.todo = {}
          /\ run.pc = "record" /\ run'.pc = "record" /\ ToRemove(run') = run'.doomed
        BY <1>5 DEF GroupBegun, InSeed, Phase, ToRemove
    <2>2. ASSUME NEW q \in recs, q.ds = run.ds, Begun(q.group)'
          PROVE  \/ RowOf(q) \in rows'
                 \/ q \in run'.doomed
                 \/ <<q.group, q.name>> \in run'.todo
        <3>1. CASE q.group = g
            <4>1. q \in run'.snap
                BY <1>5, <2>2, <3>1 DEF GroupBegun, SeedRecords
            <4>2. q \in run'.doomed \/ q.name \in Declared(run.ds, g)
                BY <1>5, <4>1 DEF GroupBegun, Unwanted
            <4>3. run'.todo = {g} \X Declared(run.ds, g)
                BY <1>5, <2>1 DEF GroupBegun, Wanted, SameRun
            <4> QED BY <3>1, <4>2, <4>3
        <3>2. CASE q.group # g
            <4>1. Begun(q.group)
                BY <1>5, <2>2, <3>2 DEF GroupBegun, SameRun, Begun, Groups
            <4> QED BY <2>1, <2>2, <4>1 DEF Restored, GroupsRestored, SameRun
        <3> QED BY <3>1, <3>2
    <2>3. GroupsRestored'
        BY <2>1, <2>2 DEF GroupsRestored, SameRun
    <2> QED BY <2>1, <2>3, <1>s DEF OnlySelected
<1>6. CASE GroupsEnded
    <2>1. /\ SameRun /\ recs' = recs /\ InSeed(run) /\ ToRemove(run) = {} /\ run'.todo = run.todo
          /\ run'.groups = run.groups /\ run.pc = "record" /\ run'.pc \in {"dataset", "relation"}
        BY <1>6 DEF GroupsEnded, InSeed, Phase, ToRemove
    <2> QED BY <2>1, <1>g, <1>b, <1>s DEF OnlySelected
<1>7. ASSUME NEW x \in run.todo, RecordBegun(x)
      PROVE  GroupsRestored' /\ SetsRestored' /\ OnlySelected'
    <2>1. /\ SameRun /\ recs' \subseteq recs /\ InSeed(run) /\ run.pc = "record"
          /\ run'.pc = "input" /\ ToRemove(run') = ToRemove(run) /\ run'.todo = run.todo \ {x}
          /\ run'.groups = run.groups
        BY <1>7 DEF RecordBegun, InSeed, Phase, ToRemove
    <2>2. x = <<x[1], x[2]>>
        BY <1>t, Typed
    <2>3. ASSUME NEW q \in recs', q.ds = run.ds, <<q.group, q.name>> = x
          PROVE  RowOf(q) \in rows
        <3>1. q \in Found(run.ds, x[1], x[2]) /\ q.name = x[2] /\ q.group = x[1]
            BY <2>1, <2>3 DEF Found
        <3>2. q \in Known(x)
            BY <3>1 DEF Known, Inv, Books
        <3>3. ASSUME NEW p \in Known(x) PROVE p = q
            BY <2>1, <3>1, <3>2, <3>3 DEF Inv, Books, Known
        <3>4. recs' = recs /\ \E p \in Known(x) : RowOf(p) \in rows
            BY <1>7, <3>2, <3>3 DEF RecordBegun
        <3> QED BY <3>3, <3>4
    <2>4. GroupsRestored'
        BY <2>1, <2>3, <1>b DEF SameRun, Restored, GroupsRestored
    <2> QED BY <2>1, <2>4, <1>s DEF OnlySelected
<1>8. CASE RecordEnded
    <2>1. /\ SameRun /\ InSeed(run) /\ run.pc \in {"input", "track"} /\ run'.pc = "record"
          /\ ToRemove(run') = ToRemove(run) /\ run'.todo = run.todo
          /\ run'.groups = run.groups /\ recs' \subseteq recs \union {run.rec}
          /\ recs' \subseteq recs \/ run.pc = "track"
        BY <1>8 DEF RecordEnded, InSeed, Phase, ToRemove
    <2>2. run.rec.ds = run.ds
        BY <2>1 DEF Inv, Books
    <2>3. \A q \in recs' \ recs : q = run.rec /\ RowOf(q) \in rows
        BY <2>1 DEF Restored
    <2>4. GroupsRestored'
        BY <2>1, <2>3, <1>b DEF SameRun, Restored, GroupsRestored
    <2> QED BY <2>1, <2>2, <2>3, <2>4, <1>s DEF OnlySelected
<1>9. ASSUME NEW r, Removed(r) PROVE GroupsRestored' /\ SetsRestored' /\ OnlySelected'
    <2>1. /\ SameRun /\ recs' = recs \ {r} /\ run'.todo = run.todo /\ run'.groups = run.groups
          /\ ToRemove(run) \subseteq ToRemove(run') \union {r}
          /\ InSeed(run) /\ InSeed(run')
        BY <1>9 DEF Removed, InSeed
    <2>2. run.pc \notin {"idle", "panicked"} /\ run'.pc # "done"
        BY <2>1 DEF InSeed, Phase
    <2> QED BY <2>1, <2>2, <1>g, <1>b, <1>s DEF OnlySelected
<1>10. CASE GoneBegun \/ StaleBegun
    <2>1. /\ SameRun /\ recs' = recs /\ run'.todo = run.todo /\ run'.groups = run.groups
          /\ Phase(run) \in {"relations", "gone"} /\ run'.pc \in {"gone", "stale"}
          /\ Phase(run) = "gone" => run.pc = "gone" /\ run.doomed = {}
        BY <1>10 DEF GoneBegun, StaleBegun, Phase
    <2>2. ToRemove(run) = {}
        BY <2>1 DEF Onward, Narrows, ToRemove, Phase
    <2>3. InSeed(run) /\ run.pc \notin {"idle", "panicked"}
        BY <2>1 DEF InSeed, Phase
    <2> QED BY <2>1, <2>2, <2>3, <1>g, <1>b, <1>s DEF OnlySelected
<1>11. CASE ForgetBegun
    <2>1. \A q \in recs : q.ds \in run.sel => RowOf(q) \in rows
        BY <1>11, <1>d DEF ForgetBegun, Restored, SetsRestored
    <2> QED BY <1>11, <2>1
            DEF ForgetBegun, GroupsRestored, SetsRestored, OnlySelected, InSeed, Phase
<1>12. ASSUME NEW r, Forgotten(r) PROVE GroupsRestored' /\ SetsRestored' /\ OnlySelected'
    BY <1>12 DEF Forgotten, Restored, GroupsRestored, SetsRestored, OnlySelected, InSeed, Phase
<1>13. CASE Completed
    BY <1>13, <1>s DEF Completed, SameRun, GroupsRestored, OnlySelected, InSeed, Phase
<1> QED BY <1>1, <1>2, <1>3, <1>4, <1>5, <1>6, <1>7, <1>8, <1>9, <1>10, <1>11, <1>12, <1>13
        DEF Sorted

LEMMA RestoredKept ==
    Inv /\ Onward /\ DoomedTracked /\ Restored /\ [Next]_vars => DoomedTracked' /\ Restored'
<1> SUFFICES ASSUME Inv, Onward, DoomedTracked, Restored, [Next]_vars
             PROVE  DoomedTracked' /\ Restored'
    OBVIOUS
<1>t. TypeInv /\ Upserting /\ run \in Run
    BY DEF Inv, Books, TypeInv, TypeOK
<1>1. CASE Step
    <2>1. Sorted
        BY <1>t, <1>1, StepsSorted DEF Onward, Narrows
    <2>2. ASSUME run'.pc = "track" PROVE RowOf(run'.rec) \in rows'
        <3>1. PICK i \in FreshIds(run.rec.group) : SaveNewRowAs(i)
            BY <1>t, <1>1, <2>2, RowSteps DEF SaveNewRow, Fresh
        <3>2. <<run.rec.group, i>> \in rows'
            BY <3>1 DEF SaveNewRowAs
        <3> QED BY <1>t, <3>1, <3>2, NewRowType DEF RowOf
    <2>3. CASE RemoveRow
        BY <2>1, <2>3, DoomedStayTracked, RemoveRowRestored
    <2>4. CASE rows \subseteq rows'
        BY <2>1, <2>2, <2>4, DoomedStayTracked, SortedRestored
    <2> QED BY <1>t, <1>1, <2>3, <2>4, RowSteps
<1>2. ASSUME run'.pc = "idle" \/ RunBegun PROVE DoomedTracked' /\ Restored'
    BY <1>2 DEF RunBegun, DoomedTracked, Restored, GroupsRestored, SetsRestored, OnlySelected,
                InSeed, Phase
<1>3. CASE UNCHANGED <<run, recs, file, rows>>
    BY <1>3 DEF DoomedTracked, Restored, GroupsRestored, SetsRestored, OnlySelected, Begun, Groups,
                RowOf
<1>4. Environment => run'.pc = "idle"
    <2>1. Environment => run' = Idle \/ (run' = run /\ run.pc = "idle")
        BY DEF Environment, Crash, Edit, Migrate, Purge, AppCreate, AppDelete
    <2> QED BY <2>1 DEF Idle
<1>5. ASSUME NEW start \in Starts, Begin(start) PROVE DoomedTracked' /\ Restored'
    <2>1. run'.pc = "dataset" /\ run'.left = run'.sel /\ run'.ds = None
        BY <1>5 DEF Begin, Idle
    <2> QED BY <2>1 DEF DoomedTracked, Restored, GroupsRestored, SetsRestored, OnlySelected,
                        InSeed, Phase
<1> QED BY <1>1, <1>2, <1>3, <1>4, <1>5 DEF Next, vars

\* However its records' rows were deleted behind the seeder's back, before it
\* or by the removals of its own run: a Reseed that ends leaves none tracked
\* whose row is not there.
THEOREM SeederReseedRestores == Spec => []ReseedRestores
<1>1. Init => DoomedTracked /\ Restored
    BY DEF Init, Idle, DoomedTracked, Restored, GroupsRestored, SetsRestored, OnlySelected,
           InSeed, Phase
<1>2. Inv /\ Onward /\ Restored => ReseedRestores
    <2> SUFFICES ASSUME Inv, Onward, Restored, Ended("Reseed"), NEW q \in recs
                 PROVE  RowOf(q) \in rows
        BY DEF ReseedRestores, TrackedRows
    <2>1. run.left = {} /\ run.ds = None
        BY DEF Ended, Onward, Narrows, Phase
    <2>2. q.ds # None
        BY Typed DEF Inv
    <2> QED BY <2>1, <2>2 DEF Ended, Restored, SetsRestored, OnlySelected
<1> QED BY <1>1, <1>2, OnwardAlways, RestoredKept, PTL DEF Spec

-------------------------------------------------------------------------------
\* Rows that no later run would find.

\* No run is killed, no model leaves the schema, and a run is always over all
\* data sets, none of which leaves the files: a crash loses the row in flight,
\* and a record whose model or data set is gone is untracked without a look at
\* its row.
NothingTakenAway ==
    /\ ~MayCrash
    /\ \A f \in Versions : f.live = Models /\ f.sets = Datasets
    /\ \A start \in Starts : start[2] = "all"

\* The rows that the seeder inserted are tracked, but for the one in flight.
NoneLost ==
    /\ run.pc \notin {"idle", "panicked"} => run.sel = Datasets
    /\ \A row \in rows \ own :
        row \in TrackedRows \/ (run.pc = "track" /\ row = RowOf(run.rec))

\* A saved row is tracked at once.
LEMMA TrackNext ==
    ASSUME run.pc = "track", Step
    PROVE  Track
BY DEF Step, Setup, BeginDataset, BetweenDatasets, BeginGroup, EndGroups, GroupDone, BeginForget,
       Finish, Exit, Upsert, Insert, Recreate, Update, InputRelation, SaveNewRow, Inserting,
       SaveUpdatedRow, Remove, RemoveGone, BeginRemove, Removing, RemoveRow, Untrack, BeginGone,
       AtRelation, BeginStale, RemoveStale, ForgetRecord, ForgetRelation, Relations, CutPanic,
       Cutting, CutRecord, CutLink, Uncut, BeginRelations, BeginRelation, BeginCutRelation,
       LinkPanic, LinkRef, Relate

LEMMA StepsLeaveOwn ==
    ASSUME Step
    PROVE  own' = own
<1>1. CASE Setup
    BY <1>1 DEF Setup, BeginDataset, BeginGroup, EndGroups, BeginForget, Finish, Exit, Decides
<1>2. CASE Upsert
    BY <1>2 DEF Upsert, Insert, Recreate, Update, InputRelation, SaveNewRow, SaveNewRowAs,
                SaveUpdatedRow, Track, Decides
<1>3. CASE Remove
    BY <1>3 DEF Remove, RemoveGone, BeginRemove, RemoveRow, Untrack, BeginGone, BeginStale,
                RemoveStale, ForgetRecord, ForgetRelation, Decides
<1>4. CASE Relations
    BY <1>4 DEF Relations, CutPanic, CutRecord, CutLink, Uncut, BeginRelations, BeginRelation,
                BeginCutRelation, LinkPanic, LinkRef, Relate, Decides
<1> QED BY <1>1, <1>2, <1>3, <1>4 DEF Step

LEMMA StepLosesNone ==
    ASSUME NothingTakenAway, Inv, Onward, NoneLost, Step
    PROVE  NoneLost'
<1>t. /\ TypeInv /\ Upserting /\ Deleted /\ own' = own
      /\ file.live = Models /\ recs \subseteq Recs /\ run \in Run
      /\ \A q \in Recs : q.ds \in Datasets /\ q.group \in Models
    BY Typed, StepsLeaveOwn DEF Inv, Books, NothingTakenAway, TypeInv, TypeOK
<1>1. run'.pc \notin {"idle", "panicked"} => run'.sel = Datasets
    <2>1. ~RunBegun
        BY <1>t, NoStepAtRest DEF RunBegun
    <2> QED BY <1>t, <2>1, StepsSorted, OneCommand DEF NoneLost, Onward, Narrows
<1>2. ASSUME NEW row \in rows' \ own'
      PROVE  row \in TrackedRows' \/ (run'.pc = "track" /\ row = RowOf(run'.rec))
    <2>1. CASE run.pc = "track"
        <3>1. recs' = recs \union {run.rec} /\ rows' = rows
            BY <2>1, TrackNext DEF Track, data
        <3> QED BY <1>t, <1>2, <2>1, <3>1 DEF NoneLost, TrackedRows, RowOf
    <2>2. CASE run.pc # "track" /\ row \in rows
        <3>1. PICK q \in recs : row = RowOf(q)
            BY <1>t, <1>2, <2>2 DEF NoneLost, TrackedRows
        <3>2. q \in recs'
            <4>1. CASE Quiet
                BY <1>t, <1>2, <3>1, <4>1 DEF Quiet, NoneLost
            <4>2. CASE Noisy
                BY <1>t, <2>2, <3>1, <4>2, NoisySteps
                DEF GroupTaken, RecordTaken, InputTaken, RowSaved, RecordDone, vars
            <4> QED BY <1>t, <4>1, <4>2, QuietOrNoisy DEF Acts
        <3> QED BY <3>1, <3>2 DEF TrackedRows, RowOf
    <2>3. CASE row \notin rows
        <3>1. ~Quiet
            BY <1>2, <2>3 DEF Quiet
        <3>2. Noisy
            BY <1>t, <3>1, QuietOrNoisy DEF Acts
        <3>3. PICK i \in Fresh(run.rec.group) : RowSaved(i)
            BY <1>t, <1>2, <2>3, <3>2, NoisySteps
            DEF GroupTaken, RecordTaken, InputTaken, RecordDone, vars
        <3> QED BY <1>2, <2>3, <3>3 DEF RowSaved, RowOf
    <2> QED BY <2>1, <2>2, <2>3
<1> QED BY <1>1, <1>2 DEF NoneLost

LEMMA LosesNone ==
    ASSUME NothingTakenAway, Inv, Onward, NoneLost, [Next]_vars
    PROVE  NoneLost'
<1>1. CASE Step
    BY <1>1, StepLosesNone
<1>2. ASSUME NEW start \in Starts, Begin(start) PROVE NoneLost'
    <2>1. PICK sel \in Selections(start[2]) :
            run' = [Idle EXCEPT !.pc = "dataset", !.cmd = start[1], !.sel = sel, !.left = sel]
        BY <1>2 DEF Begin
    <2>2. run'.sel = Datasets /\ run.pc = "idle"
        BY <1>2, <2>1 DEF Begin, Idle, Selections, NothingTakenAway, Inv, TypeInv, TypeOK
    <2>3. rows' = rows /\ own' = own /\ recs' = recs
        BY <1>2 DEF Begin, Decides
    <2> QED BY <2>2, <2>3 DEF NoneLost, TrackedRows, RowOf
<1>3. CASE Crash
    BY <1>3 DEF Crash, NothingTakenAway
<1>4. CASE run.pc = "idle" /\ run' = run /\ rows' \ own' \subseteq rows \ own /\ recs' = recs
    BY <1>4 DEF NoneLost, TrackedRows, RowOf
<1>5. ASSUME NEW f \in Versions, Edit(f) PROVE NoneLost'
    BY <1>4, <1>5 DEF Edit, data
<1>6. CASE Migrate
    BY <1>4, <1>6 DEF Migrate, Without
<1>7. CASE Purge
    BY <1>7 DEF Purge, NoneLost
<1>8. ASSUME NEW g \in Models, AppCreate(g) PROVE NoneLost'
    BY <1>4, <1>8 DEF AppCreate
<1>9. ASSUME NEW row \in rows, AppDelete(row) PROVE NoneLost'
    BY <1>4, <1>9 DEF AppDelete, Without
<1>10. CASE UNCHANGED vars
    BY <1>10 DEF vars, data, NoneLost, TrackedRows, RowOf
<1> QED BY <1>1, <1>2, <1>3, <1>5, <1>6, <1>7, <1>8, <1>9, <1>10 DEF Next, Environment

\* Every row the seeder inserted is tracked, from the end of one run to the
\* next, if no run is killed and neither a model nor a data set is taken away;
\* rows that the application deletes and drops, and runs that panic, leave none.
THEOREM SeederNoOrphan == NothingTakenAway => (Spec => []NoOrphan)
<1> SUFFICES ASSUME NothingTakenAway PROVE Spec => []NoOrphan
    OBVIOUS
<1>1. Init => NoneLost
    BY DEF Init, Idle, NoneLost
<1>2. Inv /\ Onward /\ NoneLost /\ [Next]_vars => NoneLost'
    BY LosesNone
<1>3. NoneLost => NoOrphan
    BY DEF NoneLost, NoOrphan, AtRest
<1> QED BY <1>1, <1>2, <1>3, OnwardAlways, PTL DEF Spec

-------------------------------------------------------------------------------
\* The seeder implements SeedCatalog.  The catalog's words, in the seeder's.
LEMMA CatalogMeans ==
    /\ Working => Catalog!Busy /\ \A x : Catalog!Selected(x) <=> x[1] \in run.sel
    /\ Working => \A x : Catalog!MayDrop(x) =
            CASE run.cmd = "Seed"   -> x \notin file.records
              [] run.cmd = "Reseed" -> TRUE
              [] run.cmd = "Unseed" -> <<x[1], x[2]>> \in file.groups
    /\ Catalog!Records = Datasets \X Models \X Names
BY DEF Catalog!Busy, Catalog!Selected, Catalog!MayDrop, Catalog!Covered, Catalog!Records, Working

\* The job stays what it is while a run goes on.
SameJob == Working /\ Working' /\ run'.cmd = run.cmd /\ run'.sel = run.sel

LEMMA CatalogStays ==
    ASSUME SameJob \/ run' = run \/ {run.pc, run'.pc} \subseteq {"idle", "panicked"},
           recs' = recs, file' = file
    PROVE  UNCHANGED Catalog!vars
<1>1. CASE SameJob
    BY <1>1 DEF Catalog!vars, SameJob, Working
<1>2. CASE run' = run
    BY <1>2 DEF Catalog!vars, Working
<1>3. CASE {run.pc, run'.pc} \subseteq {"idle", "panicked"}
    BY <1>3 DEF Catalog!vars, Working
<1> QED BY <1>1, <1>2, <1>3

\* A record that is untracked is taken out of the catalog, as no other
\* DataSetRecord is of the same record.
LEMMA TakenOut ==
    ASSUME Inv, NEW q \in recs, recs' = recs \ {q}
    PROVE  {Triple(r) : r \in recs'} = {Triple(r) : r \in recs} \ {Triple(q)}
BY DEF Inv, OneRecordPerName, Triple

LEMMA CatalogDrops ==
    ASSUME Inv, NEW q \in recs, recs' = recs \ {q}, file' = file, SameJob, q.ds \in run.sel,
           run.cmd = "Seed" => Triple(q) \notin file.records,
           run.cmd = "Unseed" => <<q.ds, q.group>> \in file.groups
    PROVE  Catalog!Next
<1>t. run.cmd \in Commands /\ Triple(q) \in Catalog!Records
    BY Typed, RunFields, CatalogMeans DEF Inv, Triple
<1>1. Triple(q)[1] = q.ds /\ Triple(q)[2] = q.group
    BY DEF Triple
<1>2. Catalog!Busy /\ Catalog!Selected(Triple(q)) /\ Catalog!MayDrop(Triple(q))
    BY <1>t, <1>1, CatalogMeans DEF SameJob, Commands
<1>3. /\ {<<r.ds, r.group, r.name>> : r \in recs'}
            = {<<r.ds, r.group, r.name>> : r \in recs} \ {Triple(q)}
      /\ Triple(q) \in {<<r.ds, r.group, r.name>> : r \in recs}
    BY TakenOut DEF Triple
<1>4. Catalog!Drop(Triple(q))
    BY <1>2, <1>3 DEF Catalog!Drop, SameJob, Working
<1> QED BY <1>t, <1>4 DEF Catalog!Next

LEMMA CatalogAdds ==
    ASSUME Inv, NEW q \in Recs, recs' = recs \union {q}, file' = file, SameJob, q.ds \in run.sel,
           run.cmd # "Unseed", Triple(q) \in file.records, \A r \in recs : Triple(r) # Triple(q)
    PROVE  Catalog!Next
<1>t. Triple(q) \in Catalog!Records
    BY Typed, CatalogMeans DEF Inv, Triple
<1>1. Triple(q)[1] = q.ds
    BY DEF Triple
<1>2. Catalog!Busy /\ Catalog!Selected(Triple(q))
    BY <1>1, CatalogMeans DEF SameJob
<1>3. /\ {<<r.ds, r.group, r.name>> : r \in recs'}
            = {<<r.ds, r.group, r.name>> : r \in recs} \union {Triple(q)}
      /\ Triple(q) \notin {<<r.ds, r.group, r.name>> : r \in recs}
    BY DEF Triple
<1>4. Catalog!Add(Triple(q))
    BY <1>2, <1>3 DEF Catalog!Add, SameJob, Working
<1> QED BY <1>t, <1>4 DEF Catalog!Next

\* When a run comes to forget the other data sets, its own are in line.
LEMMA CatalogInLine ==
    ASSUME Inv, Onward, run.pc = "forget"
    PROVE  Catalog!InLine
<1>t. /\ recs \subseteq Recs /\ run.sel \subseteq Datasets /\ None \notin Datasets
      /\ \A q \in Recs : q.ds \in Datasets /\ q.group \in Models /\ q.name \in Names
      /\ file.records \subseteq Datasets \X Models \X Names
    BY Typed, RunFields, VersionsAssumption DEF Inv, TypeInv, TypeOK, File
<1> DEFINE catalog == {<<r.ds, r.group, r.name>> : r \in recs}
<1>1. \A d \in run.sel : Finished(run.cmd, d)
    BY <1>t DEF Onward, Narrows, OthersDone, Phase
<1>2. Working
    BY DEF Working
<1>3. CASE run.cmd = "Unseed"
    <2>1. ASSUME NEW x \in catalog, x[1] \in run.sel PROVE <<x[1], x[2]>> \notin file.groups
        <3>1. PICK q \in recs : x = Triple(q)
            BY <2>1 DEF Triple
        <3>2. q.ds \in run.sel /\ x[1] = q.ds /\ x[2] = q.group
            BY <2>1, <3>1 DEF Triple
        <3> QED BY <1>t, <1>1, <1>3, <3>2 DEF Finished, Groups
    <2> QED BY <1>2, <1>3, <2>1 DEF Catalog!InLine, Catalog!Selected, Catalog!Covered
<1>4. CASE run.cmd # "Unseed"
    <2>1. ASSUME NEW x \in catalog, x[1] \in run.sel PROVE x \in file.records
        <3>1. PICK q \in recs : x = Triple(q)
            BY <2>1 DEF Triple
        <3>2. q.ds \in run.sel
            BY <2>1, <3>1 DEF Triple
        <3> QED BY <1>t, <1>1, <1>4, <3>1, <3>2 DEF Finished, Triple
    <2>2. ASSUME NEW x \in file.records, x[1] \in run.sel PROVE x \in catalog
        <3>1. x = <<x[1], x[2], x[3]>> /\ x[2] \in Models /\ x[3] \in Names
            BY <1>t
        <3>2. PICK q \in recs : Triple(q) = <<x[1], x[2], x[3]>>
            BY <1>1, <1>4, <2>2, <3>1 DEF Finished
        <3> QED BY <3>1, <3>2 DEF Triple
    <2>3. {x \in catalog : x[1] \in run.sel} = {x \in file.records : x[1] \in run.sel}
        BY <2>1, <2>2
    <2> HIDE DEF catalog
    <2>4. Catalog!InLine <=> {x \in catalog : x[1] \in run.sel} = {x \in file.records : x[1] \in run.sel}
        BY <1>2, <1>4 DEF Catalog!InLine, Catalog!Selected, catalog
    <2> QED BY <2>3, <2>4
<1> QED BY <1>3, <1>4

\* Every step of a run is a step of the catalog, or none.
LEMMA SortedImplements ==
    ASSUME Inv, Onward, Sorted
    PROVE  [Catalog!Next]_(Catalog!vars)
<1>t. /\ run \in Run /\ recs \subseteq Recs /\ run.todo \subseteq Models \X Names
      /\ None \notin Datasets /\ InHand
    BY Typed DEF Inv, TypeInv
<1>1. CASE Carries
    <2>1. /\ Working' <=> Working
          /\ {run.pc, run'.pc} \subseteq {"idle", "panicked"} \/ Working \/ (run.pc = "done" /\ run'.pc = "done")
        BY <1>1 DEF Carries, Phase, Working
    <2>2. CASE run.pc = "done" /\ run'.pc = "done"
        BY <1>1, <2>2 DEF Carries, SameRun, Catalog!vars, Working
    <2> QED BY <1>1, <2>1, <2>2, CatalogStays DEF Carries, SameRun, SameJob
<1>2. CASE Stops
    <2>1. CASE run.pc \in {"idle", "panicked"}
        BY <1>2, <2>1, CatalogStays DEF Stops
    <2>2. CASE run.pc \notin {"idle", "panicked"}
        <3>1. Catalog!Leave
            BY <1>2, <2>2 DEF Stops, Catalog!Leave, Catalog!Resting, Working
        <3> QED BY <3>1 DEF Catalog!Next
    <2> QED BY <2>1, <2>2
<1>3. CASE RunBegun
    <2>1. Catalog!Start
        BY <1>3 DEF RunBegun, Catalog!Start, Working, Commands
    <2> QED BY <2>1 DEF Catalog!Next
<1>4. ASSUME NEW d \in Datasets, DatasetBegun(d) PROVE [Catalog!Next]_(Catalog!vars)
    BY <1>4, CatalogStays DEF DatasetBegun, SameJob, Working
<1>5. ASSUME NEW g \in Models, GroupBegun(g) PROVE [Catalog!Next]_(Catalog!vars)
    BY <1>5, CatalogStays DEF GroupBegun, SameRun, SameJob, Working
<1>6. CASE GroupsEnded
    BY <1>6, CatalogStays DEF GroupsEnded, SameRun, SameJob, Working
<1>7. ASSUME NEW x \in run.todo, RecordBegun(x) PROVE [Catalog!Next]_(Catalog!vars)
    <2>1. SameJob /\ file' = file
        BY <1>7 DEF RecordBegun, SameRun, SameJob, Working
    <2>2. InSeed(run) /\ x \in ToAdd(run) /\ run.ds \in Datasets
        BY <1>t, <1>7 DEF RecordBegun, InSeed, Phase, ToAdd, InHand
    <2>3. CASE recs' = recs
        BY <2>1, <2>3, CatalogStays
    <2>4. ASSUME NEW q \in Known(x), recs' = recs \ {q} PROVE [Catalog!Next]_(Catalog!vars)
        <3>1. run.cmd # "Seed" /\ run.cmd # "Unseed"
            BY <2>2, <2>4 DEF Onward, Justified
        <3>2. x = <<x[1], x[2]>>
            BY <1>t
        <3>3. q.ds = run.ds /\ q \in recs
            BY <2>2, <3>2 DEF Known, Inv, Books, Onward, StillThere
        <3>4. run.ds \in run.sel
            BY <1>t, <1>7, <2>2 DEF Onward, Narrows, RecordBegun, Phase
        <3> QED BY <2>1, <2>4, <3>1, <3>3, <3>4, CatalogDrops
    <2> QED BY <1>7, <2>3, <2>4 DEF RecordBegun
<1>8. CASE RecordEnded
    <2>1. SameJob /\ file' = file
        BY <1>8 DEF RecordEnded, SameRun, SameJob, Working
    <2>2. CASE recs' = recs
        BY <2>1, <2>2, CatalogStays
    <2>3. CASE run.pc = "track" /\ recs' = recs \union {run.rec}
        <3>1. run.rec \in Recs /\ run.rec.ds = run.ds /\ run.ds \in Datasets
            BY <1>t, <2>3 DEF InHand, Inv, Books
        <3>2. \A r \in recs : Triple(r) # Triple(run.rec)
            BY <2>3 DEF Inv, Books, Found, Triple
        <3>3. Triple(run.rec) \in file.records /\ run.cmd # "Unseed"
            <4> DEFINE x == <<run.rec.group, run.rec.name>>
            <4>1. /\ x \in ToAdd(run) /\ InSeed(run)
                  /\ x[1] = run.rec.group /\ x[2] = run.rec.name
                BY <2>3 DEF ToAdd, InSeed, Phase
            <4> HIDE DEF x
            <4>2. <<run.ds, x[1], x[2]>> \in file.records /\ run.cmd # "Unseed"
                BY <4>1 DEF Onward, Justified
            <4> QED BY <3>1, <4>1, <4>2 DEF Triple
        <3>4. run.ds \in run.sel
            BY <1>t, <2>3, <3>1 DEF Onward, Narrows, Phase
        <3> QED BY <2>1, <2>3, <3>1, <3>2, <3>3, <3>4, CatalogAdds
    <2> QED BY <1>8, <2>2, <2>3 DEF RecordEnded
<1>9. ASSUME NEW q, Removed(q) PROVE [Catalog!Next]_(Catalog!vars)
    <2>1. SameJob /\ file' = file /\ InSeed(run)
        BY <1>9 DEF Removed, SameRun, SameJob, Working, InSeed, Phase
    <2>2. CASE q \notin recs
        BY <1>9, <2>1, <2>2, CatalogStays DEF Removed
    <2>3. CASE q \in recs
        <3>1. /\ q.ds = run.ds
              /\ IF run.cmd = "Unseed" THEN <<q.ds, q.group>> \in file.groups
                                       ELSE Triple(q) \notin file.records
            BY <1>9, <2>1 DEF Removed, Onward, Justified
        <3>2. q.ds \in Datasets
            BY <2>3, Typed DEF Inv
        <3>3. q.ds \in run.sel
            BY <1>t, <1>9, <3>1, <3>2 DEF Onward, Narrows, Removed
        <3> QED BY <1>9, <2>1, <2>3, <3>1, <3>3, CatalogDrops DEF Removed
    <2> QED BY <2>2, <2>3
<1>10. CASE GoneBegun \/ StaleBegun
    <2>1. Working /\ Working'
        BY <1>10 DEF GoneBegun, StaleBegun, Working, Phase
    <2> QED BY <1>10, <2>1, CatalogStays DEF GoneBegun, StaleBegun, SameRun, SameJob
<1>11. CASE ForgetBegun
    BY <1>11, CatalogStays DEF ForgetBegun, SameJob, Working
<1>12. ASSUME NEW q, Forgotten(q) PROVE [Catalog!Next]_(Catalog!vars)
    <2>1. /\ Working /\ Working' /\ Catalog!InLine /\ q \in recs /\ q.ds \notin run.sel
          /\ recs' = recs \ {q} /\ file' = file /\ run' = run
        BY <1>12, CatalogInLine DEF Forgotten, Working
    <2>2. Triple(q) \in Catalog!Records /\ Triple(q)[1] = q.ds
        BY <2>1, Typed, CatalogMeans DEF Inv, Triple
    <2>3. /\ {<<r.ds, r.group, r.name>> : r \in recs'}
                = {<<r.ds, r.group, r.name>> : r \in recs} \ {Triple(q)}
          /\ Triple(q) \in {<<r.ds, r.group, r.name>> : r \in recs}
        BY <2>1, TakenOut DEF Triple
    <2>4. Catalog!Busy /\ ~Catalog!Selected(Triple(q))
        BY <2>1, <2>2, CatalogMeans
    <2>5. Catalog!Forget(Triple(q))
        BY <2>1, <2>3, <2>4 DEF Catalog!Forget, Working
    <2> QED BY <2>2, <2>5 DEF Catalog!Next
<1>13. CASE Completed
    <2>1. /\ run.pc = "forget" /\ run'.pc = "done" /\ Working /\ ~Working'
          /\ Catalog!InLine /\ recs' = recs /\ file' = file
          /\ run'.cmd = run.cmd /\ run'.sel = run.sel
        BY <1>13, CatalogInLine DEF Completed, SameRun, Working
    <2>2. ASSUME NEW x \in {<<r.ds, r.group, r.name>> : r \in recs} PROVE Catalog!Selected(x)
        <3>1. PICK r \in recs : x = <<r.ds, r.group, r.name>>
            OBVIOUS
        <3>2. x[1] \in run.sel
            BY <1>13, <3>1 DEF Completed
        <3> QED BY <2>1, <3>2, CatalogMeans
    <2>3. Catalog!Busy
        BY <2>1, CatalogMeans
    <2>4. Catalog!Complete
        BY <2>1, <2>2, <2>3 DEF Catalog!Complete, Working
    <2> QED BY <2>4 DEF Catalog!Next
<1> QED BY <1>1, <1>2, <1>3, <1>4, <1>5, <1>6, <1>7, <1>8, <1>9, <1>10, <1>11, <1>12, <1>13
        DEF Sorted

\* So is what the user and the application do between two runs.
LEMMA BetweenImplements ==
    ASSUME Inv, Next, run.pc = "idle", run' = run
    PROVE  [Catalog!Next]_(Catalog!vars)
<1>1. CASE recs' = recs /\ file' = file
    BY <1>1, CatalogStays
<1>2. CASE recs' = recs /\ file' \in Versions
    <2>1. file' \in File
        BY <1>2, VersionsAssumption
    <2>2. [records |-> file'.records, groups |-> file'.groups]
            \in [records : SUBSET (Datasets \X Models \X Names), groups : SUBSET (Datasets \X Models)]
        BY <2>1 DEF File
    <2>3. Catalog!Edit
        BY <1>2, <2>2 DEF Catalog!Edit, Catalog!Records, Working
    <2> QED BY <2>3 DEF Catalog!Next
<1>3. CASE recs' = {} /\ file' = file
    <2>1. Catalog!Purge
        BY <1>3 DEF Catalog!Purge, Working
    <2> QED BY <2>1 DEF Catalog!Next
<1>4. ASSUME NEW start \in Starts, Begin(start) PROVE FALSE
    BY <1>4 DEF Begin, Idle
<1>5. ~Crash
    BY DEF Crash
<1>6. ~Step
    BY NoStepAtRest DEF Inv
<1>7. Migrate \/ (\E g \in Models : AppCreate(g)) \/ (\E row \in rows : AppDelete(row))
        => recs' = recs /\ file' = file
    BY DEF Migrate, AppCreate, AppDelete
<1>8. Purge => recs' = {} /\ file' = file
    BY DEF Purge
<1>9. ASSUME NEW f \in Versions, Edit(f) PROVE recs' = recs /\ file' \in Versions
    BY <1>9 DEF Edit
<1> QED BY <1>1, <1>2, <1>3, <1>4, <1>5, <1>6, <1>7, <1>8, <1>9 DEF Next, Environment

\* The DataSetRecord table is a catalog: a run adds only declared records and
\* takes out only what it may, forgets other data sets only when its own are
\* in line with the files, and ends only when they are.
THEOREM SeederRefinesCatalog == Spec => RefinesCatalog
<1>1. Init => Catalog!Init
    <2> SUFFICES ASSUME Init PROVE Catalog!Init
        OBVIOUS
    <2>1. recs = {} /\ run.pc = "idle" /\ file \in File
        BY VersionsAssumption DEF Init, Idle
    <2>2. [records |-> file.records, groups |-> file.groups]
            \in [records : SUBSET (Datasets \X Models \X Names), groups : SUBSET (Datasets \X Models)]
        BY <2>1 DEF File
    <2> QED BY <2>1, <2>2 DEF Catalog!Init, Catalog!Resting, Catalog!Records
<1>2. Inv /\ Onward /\ [Next]_vars => [Catalog!Next]_(Catalog!vars)
    <2> SUFFICES ASSUME Inv, Onward, [Next]_vars PROVE [Catalog!Next]_(Catalog!vars)
        OBVIOUS
    <2>t. TypeInv /\ Upserting
        BY DEF Inv, Books
    <2>1. CASE Step
        BY <2>t, <2>1, StepsSorted, SortedImplements DEF Onward, Narrows
    <2>2. CASE RunBegun \/ Stops
        BY <2>2, SortedImplements DEF Sorted
    <2>3. CASE Next /\ run.pc = "idle" /\ run' = run
        BY <2>3, BetweenImplements
    <2>4. CASE UNCHANGED <<run, recs, file>>
        BY <2>4, CatalogStays
    <2>5. CASE UNCHANGED vars
        BY <2>4, <2>5 DEF vars
    <2> QED BY <2>t, <2>1, <2>2, <2>3, <2>4, <2>5, OtherSteps
<1> QED BY <1>1, <1>2, OnwardAlways, PTL DEF Spec, RefinesCatalog, Catalog!Spec
===============================================================================
