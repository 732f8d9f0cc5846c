--------------------------- MODULE SeederProperties ---------------------------
(***************************************************************************)
(* What the seeder must keep and reach, over the states of Seeder.         *)
(***************************************************************************)
EXTENDS Seeder

AtRest == run.pc \in {"idle", "done"}
Ended(cmd) == run.pc = "done" /\ run.cmd = cmd
TrackedIn(d) == {<<r.group, r.name>> : r \in {q \in recs : q.ds = d}}
DeclaredIn(d) == {<<x[2], x[3]>> : x \in {y \in file.records : y[1] = d}}
TrackedRows == {RowOf(r) : r \in recs}
IsLinked(r, this, that) ==
    CASE Schema[r].kind = "foreign" -> <<that, Schema[r].via, this>> \in fk
      [] Schema[r].kind = "join"    -> <<Schema[r].via, {this, that}>> \in joins
      [] OTHER                      -> <<this, Schema[r].via, that>> \in fk

\* A record of a data set is tracked by one DataSetRecord, and no two of them
\* track the same row: a run that resumes after a crash, or that finds some of
\* its records in the table already, inserts none of them a second time.
OneRecordPerName ==
    \A r, s \in recs :
        <<r.ds, r.group, r.name>> = <<s.ds, s.group, s.name>> \/ RowOf(r) = RowOf(s) => r = s

\* No run deletes a row that the application created, whatever was deleted,
\* dropped or inserted between the runs.
OwnRowsStay == own \subseteq rows

\* While it cuts the relations of a record, and when it deletes the record's
\* row, a run makes no foreign key null but those of this row and those that
\* point to it: a key that the files or a later run pointed elsewhere stays.
CutsItsOwn ==
    [][run.pc = "cut" =>
        \A x \in fk \ fk' : RowOf(run.rec) \in {x[1], x[3]}]_vars

\* Every row the seeder inserted is tracked, from the end of one run to the
\* next: none is left in the tables that no later run would find.
NoOrphan == AtRest => rows \ own \subseteq TrackedRows

\* A row of the seeder's stops being tracked only when it is deleted, its model
\* is dropped or its data set is forgotten.  So the one row that a crash can
\* lose is the one saved and not yet tracked.
LosesOnlyInFlight ==
    [][\A row \in rows \intersect TrackedRows :
        row \in rows' /\ row[1] \in file.live =>
            row \in TrackedRows' \/ run.pc = "forget"]_vars

\* A run that ends has made the tracked records of the selected data sets the
\* records of the files, even if runs before it were killed half way.
RecordsMatchFiles ==
    /\ Ended("Seed") \/ Ended("Reseed") => \A d \in run.sel : TrackedIn(d) = DeclaredIn(d)
    /\ Ended("Unseed") => \A d \in run.sel : \A x \in TrackedIn(d) : x[1] \notin Groups(d)

\* Reseed brings back every row that was deleted behind the seeder's back.
ReseedRestores == Ended("Reseed") => TrackedRows \subseteq rows

\* A DataSetRelation is between two records that are tracked: cut_relation
\* unwraps the DataSetRecord of the other side.
RelationsResolve ==
    AtRest => \A c \in rels : Found(c.ds, c.ga, c.na) # {} /\ Found(c.ds, c.gb, c.nb) # {}

DeclaredLinks(d) ==
    UNION {{<<x[3], RowOf(a), RowOf(b)>> : a \in Found(d, Schema[x[3]].owner, x[2]),
                                           b \in Found(d, Schema[x[3]].target, x[4])} :
            x \in {y \in file.refs : y[1] = d}}

SelectedLinks == UNION {DeclaredLinks(d) : d \in run.sel}

\* Every reference that a record makes through a relation it must have is in
\* place after a reseed ("nullify exist relations and reset").
ReseedKeepsRequired ==
    Ended("Reseed") =>
        \A x \in SelectedLinks : Schema[x[1]].kind = "required" => IsLinked(x[1], x[2], x[3])

\* No two records are linked after a reseed that the files do not link ("find
\* relations and cut").
ReseedCutsTheRest ==
    LET ends == {{x[2], x[3]} : x \in SelectedLinks}
    IN  Ended("Reseed") =>
        /\ \A x \in fk : {x[1], x[3]} \subseteq TrackedRows => {x[1], x[3]} \in ends
        /\ \A x \in joins : x[2] \subseteq TrackedRows => x[2] \in ends

\* A reseed leaves the links of the files, all of them and no others, though
\* it walks every relation from both of its ends, setting and cutting.
ReseedLinksExactly ==
    /\ Ended("Reseed") => \A x \in SelectedLinks : IsLinked(x[1], x[2], x[3])
    /\ ReseedCutsTheRest

\* Only the records of data sets that the user took out of the files are
\* forgotten ("if user removed some seed data set").
ForgetsRemovedSets ==
    [][run.pc = "forget" => \A r \in recs \ recs' : r.ds \notin file.sets]_vars

\* The first Seed of an empty database sets up every link of the files.
FirstSeedLinks ==
    run.pc = "dataset" /\ run.cmd = "Seed" /\ run.left = file.sets /\ rows = {} /\ recs = {}
        ~> /\ Ended("Seed")
           /\ \A d \in file.sets : TrackedIn(d) = DeclaredIn(d)
           /\ \A d \in file.sets : \A x \in DeclaredLinks(d) : IsLinked(x[1], x[2], x[3])

\* Unseed of everything takes every trace of the data sets out of the database.
UnseedLeavesNothing ==
    Ended("Unseed") /\ run.sel = file.sets => rows = own /\ recs = {} /\ rels = {}

\* No unwrap of the seeder fails.
NoPanic == run.pc # "panicked"

\* An unwrap fails only on what a crash, the application or the user did to the
\* data set in hand: the row of a tracked record is gone, and the run is a Seed,
\* which does not restore it; or a DataSetRelation names a record that nothing
\* tracks any more, or a model that the schema has lost.
PanicsOnlyOnDamage ==
    run.pc = "panicked" =>
        \/ run.cmd = "Seed" /\ \E r \in recs : r.ds = run.ds /\ RowOf(r) \notin rows
        \/ \E c \in rels :
            /\ c.ds = run.ds
            /\ \/ Found(c.ds, c.ga, c.na) = {}
               \/ Found(c.ds, c.gb, c.nb) = {}
               \/ ~({c.ga, c.gb} \subseteq file.live)

\* A run comes to an end.
RunsEnd == run.pc # "idle" ~> run.pc = "idle"

-------------------------------------------------------------------------------
\* What the seeder promises, without rows and relations: see SeedCatalog.
Working == run.pc \notin {"idle", "panicked", "done"}

Catalog == INSTANCE SeedCatalog WITH
    catalog <- {<<r.ds, r.group, r.name>> : r \in recs},
    files <- [records |-> file.records, groups |-> file.groups],
    job <- IF run.pc \in {"idle", "panicked"}
           THEN [state |-> "idle", cmd |-> "Seed", sel |-> {}]
           ELSE [state |-> IF Working THEN "busy" ELSE "done",
                 cmd |-> run.cmd, sel |-> run.sel]

\* The DataSetRecord table is a catalog: a run adds only declared records and
\* takes out only what it may, forgets other data sets only when its own are
\* in line with the files, and ends only when they are.
RefinesCatalog == Catalog!Spec
===============================================================================
