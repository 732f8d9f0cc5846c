-------------------------------- MODULE Seeder --------------------------------
(***************************************************************************)
(* The seeder of src/seeder/seed.rs: it brings the rows of a database in   *)
(* line with the data sets of the user's schema files, and remembers what  *)
(* it did in two tables of its own, DataSetRecord and DataSetRelation.     *)
(*                                                                         *)
(* One action is one write to the database together with the reads and     *)
(* decisions that lead to it (or one decision, where nothing is written):  *)
(* the code runs no transaction around a seed, so every write is visible   *)
(* on its own and a crash may fall between any two.                        *)
(*                                                                         *)
(* A group is named after its model.  Field values other than foreign keys *)
(* are left out.  The order of the groups in a dependency level, and of    *)
(* data sets, records, relations and references, is the order of the       *)
(* user's files: any order.                                                *)
(***************************************************************************)
EXTENDS GroupOrder

CONSTANTS
    Datasets, Models, Names,    \* of data sets, models, records of a group
    Rels,                       \* the relation fields of all models
    Schema,                     \* what each relation field is, see Relation
    Ids,                        \* primary keys the database may give
    Versions,                   \* the states of the user's files, see File
    Starts,                     \* <<command, scope>> the user may run
    AppActs,                    \* what the application does between runs
    MayCrash,                   \* whether the process may be killed in a run
    MaxOrphans, MaxOwn,         \* bounds: rows nobody tracks that runs may
                                \* leave behind; rows of the application
    None

NoId == 0                       \* of an object that is not saved yet
Columns == {Schema[r].via : r \in Rels}

\* kind "required" and "optional": the relation holds the foreign key, in the
\* column `via`; "foreign": the target holds it; "join": the join table `via`
\* holds it.  opposite is the relation of the target that mirrors this one.
Relation == [owner : Models, target : Models,
             kind : {"required", "optional", "foreign", "join"},
             via : Columns, opposite : Rels \union {None}]

\* live: the models of the schema; auto: data sets marked autoseed; refs:
\* <<data set, record, relation, referenced record>>.
File == [live : SUBSET Models, sets : SUBSET Datasets, auto : SUBSET Datasets,
         groups : SUBSET (Datasets \X Models),
         records : SUBSET (Datasets \X Models \X Names),
         refs : SUBSET (Datasets \X Names \X Rels \X Names)]

Commands == {"Seed", "Reseed", "Unseed"}
Scopes == {"autoseed", "all", "named"}

\* The parser accepts a file only if it names live models and its references
\* resolve within the data set; a relation with a foreign key takes one.
WellFormed(f) ==
    /\ f.auto \subseteq f.sets
    /\ f.groups \subseteq f.sets \X f.live
    /\ \A x \in f.records : <<x[1], x[2]>> \in f.groups
    /\ \A x \in f.refs :
        /\ <<x[1], Schema[x[3]].owner, x[2]>> \in f.records
        /\ <<x[1], Schema[x[3]].target, x[4]>> \in f.records
        /\ \A y \in f.refs :
            /\ <<y[1], y[2], y[3]>> = <<x[1], x[2], x[3]>>
            /\ Schema[x[3]].kind \in {"required", "optional"}
            => y = x

ASSUME SchemaAssumption == Schema \in [Rels -> Relation]
ASSUME VersionsAssumption == Versions \subseteq File /\ \A f \in Versions : WellFormed(f)
ASSUME StartsAssumption == Starts \subseteq Commands \X Scopes
ASSUME IdsAssumption == Ids \subseteq Nat \ {NoId}
ASSUME AppActsAssumption == AppActs \subseteq {"create", "delete", "purge"}
ASSUME MayCrashAssumption == MayCrash \in BOOLEAN /\ {MaxOrphans, MaxOwn} \subseteq Nat

VARIABLES
    rows,   \* the rows of the models' tables
    fk,     \* <<row, column, row>>: foreign keys that are not null
    joins,  \* <<join table, {row, row}>>: link rows
    recs,   \* the DataSetRecord table
    rels,   \* the DataSetRelation table
    run,    \* the local state of the seeder process
    file,   \* the user's files
    own     \* rows the application created (for the properties only)

data == <<rows, fk, joins>>
vars == <<rows, fk, joins, recs, rels, run, file, own>>

\* A step of the run that writes nothing to the database.
Decides == UNCHANGED <<rows, fk, joins, recs, rels, file, own>>

Rows == Models \X Ids
Records == [ds : Datasets, group : Models, name : Names, id : Ids \union {NoId}]
Recs == {r \in Records : r.id # NoId}               \* of records that are saved
RelRecs == [ds : Datasets, ga : Models, ra : Rels, na : Names,
            gb : Models, rb : Rels \union {None}, nb : Names]

ASSUME NoneAssumption ==
    None \notin Datasets \union Names \union Rels \union Records \union RelRecs

Steps == {"idle", "dataset", "record", "input", "track", "cut", "uncut", "untrack",
          "relation", "refs", "relate", "gone", "stale", "forget",
          "done", "panicked"}

Run == [pc : Steps,
        back : {"record", "relation", "gone"},      \* where "cut" returns to
        cmd : Commands,
        sel : SUBSET Datasets,                      \* the selected data sets
        left : SUBSET Datasets,                     \* those not begun yet
        ds : Datasets \union {None},
        groups : SUBSET Models,                     \* groups not begun yet
        snap : SUBSET Recs,                         \* seed_records of the group
        todo : SUBSET (Models \X Names),            \* records of the group left
        work : SUBSET (Models \X Names),            \* records left to relate
        doomed : SUBSET Recs,                       \* records left to remove
        rec : Records \union {None},                \* the record in hand
        keys : SUBSET Rels,                         \* its relations left
        fks : SUBSET (Columns \X Rows),             \* foreign keys of its input
        cuts : SUBSET RelRecs, cut : RelRecs \union {None},
        rel : Rels \union {None}, refs : SUBSET Names, that : Names \union {None}]

Idle == [pc |-> "idle", back |-> "record", cmd |-> "Seed", sel |-> {}, left |-> {},
         ds |-> None, groups |-> {}, snap |-> {}, todo |-> {}, work |-> {},
         doomed |-> {}, rec |-> None, keys |-> {}, fks |-> {}, cuts |-> {},
         cut |-> None, rel |-> None, refs |-> {}, that |-> None]

TypeOK ==
    /\ rows \subseteq Rows
    /\ fk \subseteq Rows \X Columns \X Rows
    /\ joins \subseteq Columns \X SUBSET Rows
    /\ recs \subseteq Recs
    /\ rels \subseteq RelRecs
    /\ run \in Run
    /\ file \in Versions
    /\ own \subseteq Rows

Init ==
    /\ rows = {} /\ fk = {} /\ joins = {} /\ recs = {} /\ rels = {}
    /\ run = Idle
    /\ file \in Versions
    /\ own = {}

-------------------------------------------------------------------------------
\* What the code reads.

RelsOf(g) == {r \in Rels : Schema[r].owner = g /\ Schema[r].target \in file.live}
HasKey(r) == Schema[r].kind \in {"required", "optional"}
Groups(d) == {g \in Models : <<d, g>> \in file.groups}
Declared(d, g) == {n \in Names : <<d, g, n>> \in file.records}
Refs(d, n, r) == {m \in Names : <<d, n, r, m>> \in file.refs}

\* Required relations with a foreign key, counted per target (ordered_group).
Required ==
    [g \in Models |-> [h \in Models |-> Cardinality(
        {r \in RelsOf(g) : Schema[r].kind = "required" /\ Schema[r].target = h})]]

\* Mutant: the negation of should_process is lost.
HasRequiredRelations(g) == \E r \in RelsOf(g) : Schema[r].kind = "required"

\* should_process: a group with a relation that its insert does not set up.
HasLaterRelations(g) == \E r \in RelsOf(g) : Schema[r].kind # "required"

RowOf(r) == <<r.group, r.id>>
\* Mutant: the records of the other groups.
SeedRecordsOfOthers(d, g) == {r \in recs : r.ds = d /\ r.group # g}

SeedRecords(d, g) == {r \in recs : r.ds = d /\ r.group = g}
Found(d, g, n) == {r \in recs : r.ds = d /\ r.group = g /\ r.name = n}

\* find_first(..).unwrap().unwrap() then find_unique(..).unwrap().unwrap():
\* the rows this can return; none is a panic.
FoundRows(d, g, n) == {RowOf(r) : r \in Found(d, g, n)} \intersect rows

Touching(r) ==
    {c \in rels : /\ c.ds = r.ds
                  /\ \/ c.ga = r.group /\ c.na = r.name
                     \/ c.gb = r.group /\ c.nb = r.name}

\* relation_records of sync_relations.
TouchingBy(rec, r) ==
    {c \in rels : /\ c.ds = rec.ds
                  /\ \/ /\ c.ga = rec.group /\ c.ra = r /\ c.na = rec.name
                        /\ c.gb = Schema[r].target
                     \/ /\ c.gb = rec.group /\ c.rb = r /\ c.nb = rec.name
                        /\ c.ga = Schema[r].target}

\* A primary key the database has not given to a row that is still known:
\* keys are not given twice, so any key nothing mentions stands for a new one.
\* Of those the least is taken.
FreshIds(g) == {i \in Ids : <<g, i>> \notin rows /\ \A r \in recs : RowOf(r) # <<g, i>>}
Fresh(g) == {i \in FreshIds(g) : \A j \in FreshIds(g) : i <= j}

\* Bound: runs begin and are killed only while primary keys last.
Room == Cardinality(rows \ (own \union {RowOf(r) : r \in recs})) <= MaxOrphans

\* The DataSetRelation for reference m of relation r of the record in hand is
\* looked up in both orientations, and created if there is none.
RelationRecord(rec, r, m) ==
    [ds |-> rec.ds, ga |-> rec.group, ra |-> r, na |-> rec.name,
     gb |-> Schema[r].target, rb |-> Schema[r].opposite, nb |-> m]
Related(rec, r, m) ==
    \/ \E c \in rels : /\ c.ds = rec.ds /\ c.ga = rec.group /\ c.ra = r
                       /\ c.na = rec.name /\ c.gb = Schema[r].target /\ c.nb = m
    \/ \E c \in rels : /\ c.ds = rec.ds /\ c.gb = rec.group /\ c.rb = r
                       /\ c.nb = rec.name /\ c.ga = Schema[r].target /\ c.na = m
Remembering(rec, r, m) ==
    IF Related(rec, r, m) THEN rels ELSE rels \union {RelationRecord(rec, r, m)}

\* A foreign key column holds one value, or null.
Null(row, col) == {x \in fk : x[1] # row \/ x[2] # col}
Pointing(row, col, to) == Null(row, col) \union {<<row, col, to>>}

-------------------------------------------------------------------------------
\* The run: which data sets, group by group, record by record.

\* `cargo teo seed` with names, with --all or with neither, and the automatic
\* seed of `serve`, which is Seed of the autoseed data sets.
Selections(scope) ==
    CASE scope = "autoseed" -> {file.auto}
      [] scope = "all"      -> {file.sets}
      [] scope = "named"    -> (SUBSET file.sets) \ {{}}

Begin(start) ==
    /\ run.pc = "idle"
    /\ Room
    /\ \E sel \in Selections(start[2]) :
        run' = [Idle EXCEPT !.pc = "dataset", !.cmd = start[1], !.sel = sel, !.left = sel]
    /\ Decides

\* The next data set: ordered_group orders its groups, or panics.
BetweenDatasets == run.pc = "dataset" \/ (run.pc = "stale" /\ run.cuts = {})

BeginDataset(d) ==
    /\ BetweenDatasets
    /\ d \in run.left
    /\ run' = [run EXCEPT
                !.pc = IF Orderable(Required, Groups(d)) THEN "record" ELSE "panicked",
                !.left = @ \ {d}, !.ds = d, !.groups = Groups(d), !.todo = {}, !.work = {},
                !.doomed = {}]
    /\ Decides

GroupDone == run.pc = "record" /\ run.todo = {} /\ run.doomed = {}

\* Seed passes over the records it finds, Reseed takes up every record.
Wanted(declared, snap) ==
    CASE run.cmd = "Seed"   -> declared \ {r.name : r \in snap}
      [] run.cmd = "Reseed" -> declared
      [] run.cmd = "Unseed" -> {}

\* Mutant: the records the file no longer has stay.
UnwantedByUnseed(declared, snap) == {r \in snap : run.cmd = "Unseed"}

\* Mutant: a repair of records tracked twice removes both.
UnwantedDoubles(declared, snap) ==
    {r \in snap : \/ run.cmd = "Unseed"
                  \/ r.name \notin declared
                  \/ \E q \in snap \ {r} : q.name = r.name}

\* Unseed removes all it finds, Seed and Reseed what the file no longer has.
Unwanted(declared, snap) == {r \in snap : run.cmd = "Unseed" \/ r.name \notin declared}

\* The next group in order, for Unseed in reverse; its seed_records are read
\* once.
BeginGroup(g) ==
    /\ GroupDone
    /\ g \in IF run.cmd = "Unseed" THEN Last(Required, Groups(run.ds), run.groups)
                                   ELSE First(Required, Groups(run.ds), run.groups)
    /\ LET snap == SeedRecords(run.ds, g)
           todo == {g} \X Wanted(Declared(run.ds, g), snap)
       IN  run' = [run EXCEPT
                !.groups = @ \ {g}, !.snap = snap, !.todo = todo,
                !.work = IF HasLaterRelations(g) THEN @ \union todo ELSE @,
                !.doomed = Unwanted(Declared(run.ds, g), snap)]
    /\ Decides

EndGroups ==
    /\ GroupDone
    /\ run.groups = {}
    /\ run' = [run EXCEPT !.pc = IF run.cmd = "Unseed" THEN "dataset" ELSE "relation",
                          !.snap = {}]
    /\ Decides

-------------------------------------------------------------------------------
\* Insert or update of one record of the file.

\* Mutant: the records of the snapshot are looked up by the group.
KnownByGroup(x) == {r \in run.snap : r.name = x[1]}

Known(x) == {r \in run.snap : r.name = x[2]}
RequiredRefs(x) ==
    {r \in RelsOf(x[1]) : Schema[r].kind = "required" /\ Refs(run.ds, x[2], r) # {}}

Taking(x, id) ==
    [run EXCEPT !.pc = "input", !.todo = @ \ {x}, !.keys = RequiredRefs(x), !.fks = {},
                !.rec = [ds |-> run.ds, group |-> x[1], name |-> x[2], id |-> id]]

\* perform_insert_into_database: the record has no DataSetRecord.
Insert(x) ==
    /\ run.pc = "record"
    /\ x \in run.todo
    /\ Known(x) = {}
    /\ run' = Taking(x, NoId)
    /\ Decides

\* perform_recreate_or_update_an_record: the row is gone, so the record is
\* forgotten and inserted again.
Recreate(x) ==
    /\ run.pc = "record"
    /\ x \in run.todo
    /\ \E r \in Known(x) :
        /\ RowOf(r) \notin rows
        /\ recs' = recs \ {r}
    /\ run' = Taking(x, NoId)
    /\ UNCHANGED <<data, rels, file, own>>

\* Mutant: the row is taken to be there.
UpdateBlindly(x) ==
    /\ run.pc = "record"
    /\ x \in run.todo
    /\ \E r \in Known(x) : run' = Taking(x, r.id)
    /\ Decides

Update(x) ==
    /\ run.pc = "record"
    /\ x \in run.todo
    /\ \E r \in Known(x) :
        /\ RowOf(r) \in rows
        /\ run' = Taking(x, r.id)
    /\ Decides

\* insert_or_update_input, for one required relation with a foreign key: the
\* other record must have been seeded, and the relation is remembered.  Of two
\* relations over one column the input keeps the later.
InputRelation(r) ==
    /\ run.pc = "input"
    /\ r \in run.keys
    /\ \E m \in Refs(run.ds, run.rec.name, r) :
        IF FoundRows(run.ds, Schema[r].target, m) = {}
        THEN /\ run' = [run EXCEPT !.pc = "panicked"]
             /\ UNCHANGED rels
        ELSE /\ \E to \in FoundRows(run.ds, Schema[r].target, m) :
                run' = [run EXCEPT !.keys = @ \ {r},
                            !.fks = {x \in @ : x[1] # Schema[r].via} \union {<<Schema[r].via, to>>}]
             /\ rels' = Remembering(run.rec, r, m)
    /\ UNCHANGED <<data, recs, file, own>>

\* Mutant: the identifier is taken before the save gives it.
SaveNewRowUnidentified ==
    /\ run.pc = "input"
    /\ run.keys = {}
    /\ run.rec.id = NoId
    /\ \E i \in Fresh(run.rec.group) : rows' = rows \union {<<run.rec.group, i>>}
    /\ run' = [run EXCEPT !.pc = "track", !.fks = {}]
    /\ UNCHANGED <<fk, joins, recs, rels, file, own>>

Inserting == run.pc = "input" /\ run.keys = {} /\ run.rec.id = NoId

\* The new row is saved; the DataSetRecord that tracks it is not, yet.
SaveNewRowAs(i) ==
    /\ Inserting
    /\ LET row == <<run.rec.group, i>>
       IN  /\ rows' = rows \union {row}
           /\ fk' = fk \union {<<row, x[1], x[2]>> : x \in run.fks}
           /\ run' = [run EXCEPT !.rec.id = i, !.pc = "track", !.fks = {}]
    /\ UNCHANGED <<joins, recs, rels, file, own>>

SaveNewRow == Inserting /\ \E i \in Fresh(run.rec.group) : SaveNewRowAs(i)

\* The foreign keys of the row that its input does not set become null.  The
\* DataSetRecord is saved again with the key it already holds.
SaveUpdatedRow ==
    /\ run.pc = "input"
    /\ run.keys = {}
    /\ run.rec.id # NoId
    /\ fk' = {x \in fk : x[1] # RowOf(run.rec)}
                \union {<<RowOf(run.rec), x[1], x[2]>> : x \in run.fks}
    /\ run' = [run EXCEPT !.pc = "record", !.rec = None, !.fks = {}]
    /\ UNCHANGED <<rows, joins, recs, rels, file, own>>

Track ==
    /\ run.pc = "track"
    /\ recs' = recs \union {run.rec}
    /\ run' = [run EXCEPT !.pc = "record", !.rec = None]
    /\ UNCHANGED <<data, rels, file, own>>

-------------------------------------------------------------------------------
\* perform_remove_from_database, of a record the file no longer has (or, for
\* Unseed, of any) and of the records of removed groups.

Removing == run.pc = "gone" \/ (run.pc = "record" /\ run.todo = {})

\* The row is gone, or its table with the model: only the DataSetRecord is
\* deleted, the relations it has stay.
RemoveGone(r) ==
    /\ Removing
    /\ r \in run.doomed
    /\ RowOf(r) \notin rows \/ r.group \notin file.live
    /\ recs' = recs \ {r}
    /\ run' = [run EXCEPT !.doomed = @ \ {r}]
    /\ UNCHANGED <<data, rels, file, own>>

BeginRemove(r) ==
    /\ Removing
    /\ r \in run.doomed
    /\ RowOf(r) \in rows /\ r.group \in file.live
    /\ run' = [run EXCEPT !.pc = "cut", !.back = run.pc, !.doomed = @ \ {r}, !.rec = r,
                          !.cuts = Touching(r)]
    /\ Decides

\* Mutant: exist.delete() is left out.
LeaveRow ==
    /\ run.pc = "cut"
    /\ run.cuts = {}
    /\ run.back # "relation"
    /\ run' = [run EXCEPT !.pc = "untrack"]
    /\ Decides

\* Mutant: the rows are deleted without the record's identifier.
RemoveRowsOfModel ==
    /\ run.pc = "cut"
    /\ run.cuts = {}
    /\ run.back # "relation"
    /\ rows' = {row \in rows : row[1] # run.rec.group}
    /\ run' = [run EXCEPT !.pc = "untrack"]
    /\ UNCHANGED <<fk, joins, recs, rels, file, own>>

\* Mutant: a delete that finds no row is tried again.
RemoveRowThere ==
    /\ run.pc = "cut"
    /\ run.cuts = {}
    /\ run.back # "relation"
    /\ RowOf(run.rec) \in rows
    /\ rows' = rows \ {RowOf(run.rec)}
    /\ run' = [run EXCEPT !.pc = "untrack"]
    /\ UNCHANGED <<fk, joins, recs, rels, file, own>>

RemoveRow ==
    /\ run.pc = "cut"
    /\ run.cuts = {}
    /\ run.back # "relation"
    /\ LET row == RowOf(run.rec)
       IN  /\ rows' = rows \ {row}
           /\ fk' = {x \in fk : row \notin {x[1], x[3]}}
           /\ joins' = {x \in joins : row \notin x[2]}
    /\ run' = [run EXCEPT !.pc = "untrack"]
    /\ UNCHANGED <<recs, rels, file, own>>

\* Mutant: record.delete() is left out.
LeaveTracked ==
    /\ run.pc = "untrack"
    /\ run' = [run EXCEPT !.pc = run.back, !.rec = None]
    /\ Decides

Untrack ==
    /\ run.pc = "untrack"
    /\ recs' = recs \ {run.rec}
    /\ run' = [run EXCEPT !.pc = run.back, !.rec = None]
    /\ UNCHANGED <<data, rels, file, own>>

-------------------------------------------------------------------------------
\* cut_relation, for one DataSetRelation c of the record in hand.

\* The side of c that is this record is told by the group's name alone.
AsA(c) == run.rec.group = c.ga
CutBy(c) == IF AsA(c) THEN c.ra ELSE c.rb
OtherRows(c) ==
    IF AsA(c) THEN FoundRows(run.ds, c.gb, c.nb) ELSE FoundRows(run.ds, c.ga, c.na)
OtherTracked(c) ==
    IF AsA(c) THEN Found(run.ds, c.gb, c.nb) # {} ELSE Found(run.ds, c.ga, c.na) # {}

\* Mutant: link_to_self is taken for granted.
LinkedAnyway(c, other) == TRUE

\* The row's link to other over the relation that c goes by.
Linked(c, other) ==
    LET r == Schema[CutBy(c)]
    IN  IF r.kind = "join" THEN <<r.via, {RowOf(run.rec), other}>> \in joins
                           ELSE <<other, r.via, RowOf(run.rec)>> \in fk

\* relation_b() of null, a relation or model the schema no longer has, or an
\* other side that no DataSetRecord tracks: an unwrap fails.
CutPanics(c) ==
    \/ CutBy(c) \notin RelsOf(run.rec.group)
    \/ ~HasKey(CutBy(c)) /\ ~OtherTracked(c)

Cutting(c) == run.pc = "cut" /\ c \in run.cuts

CutPanic(c) ==
    /\ Cutting(c)
    /\ CutPanics(c)
    /\ run' = [run EXCEPT !.pc = "panicked"]
    /\ Decides

\* Mutant: the loop reads the relation again.
CutRecordAgain(c) ==
    /\ Cutting(c)
    /\ ~CutPanics(c)
    /\ HasKey(CutBy(c)) \/ \A other \in OtherRows(c) : ~Linked(c, other)
    /\ rels' = rels \ {c}
    /\ UNCHANGED <<data, recs, run, file, own>>

\* Nothing links the rows any more, or this row holds the foreign key ("this
\* relation is already cut"): only the DataSetRelation is deleted.
CutRecord(c) ==
    /\ Cutting(c)
    /\ ~CutPanics(c)
    /\ HasKey(CutBy(c)) \/ \A other \in OtherRows(c) : ~Linked(c, other)
    /\ rels' = rels \ {c}
    /\ run' = [run EXCEPT !.cuts = @ \ {c}]
    /\ UNCHANGED <<data, recs, file, own>>

\* The link row is deleted, or the other row's foreign key made null.
CutLink(c) ==
    /\ Cutting(c)
    /\ ~CutPanics(c)
    /\ ~HasKey(CutBy(c))
    /\ \E other \in OtherRows(c) :
        /\ Linked(c, other)
        /\ LET r == Schema[CutBy(c)]
           IN  IF r.kind = "join"
               THEN joins' = joins \ {<<r.via, {RowOf(run.rec), other}>>} /\ fk' = fk
               ELSE fk' = Null(other, r.via) /\ joins' = joins
    /\ run' = [run EXCEPT !.pc = "uncut", !.cuts = @ \ {c}, !.cut = c]
    /\ UNCHANGED <<rows, recs, rels, file, own>>

\* Mutant: relation.delete() is left out after the link is cut.
LeaveRelation ==
    /\ run.pc = "uncut"
    /\ run' = [run EXCEPT !.pc = "cut", !.cut = None]
    /\ Decides

Uncut ==
    /\ run.pc = "uncut"
    /\ rels' = rels \ {run.cut}
    /\ run' = [run EXCEPT !.pc = "cut", !.cut = None]
    /\ UNCHANGED <<data, recs, file, own>>

-------------------------------------------------------------------------------
\* setup_new_relations (Seed: the records it added) and sync_relations
\* (Reseed: every record of the file).

\* Between two relations of a record; with no relation left, between records.
\* What sync_relations cut leaves the record in place.
AtRelation ==
    \/ run.pc = "relation"
    \/ run.pc = "cut" /\ run.cuts = {} /\ run.back = "relation"

BeginRelations(x) ==
    /\ AtRelation
    /\ run.keys = {}
    /\ x \in run.work
    /\ x[1] \in First(Required, Groups(run.ds), {y[1] : y \in run.work})
    /\ IF FoundRows(run.ds, x[1], x[2]) = {}
       THEN run' = [run EXCEPT !.pc = "panicked"]
       ELSE \E r \in Found(run.ds, x[1], x[2]) :
            /\ RowOf(r) \in rows
            /\ run' = [run EXCEPT !.pc = "relation", !.work = @ \ {x}, !.rec = r,
                        !.keys = {k \in RelsOf(x[1]) :
                                    run.cmd = "Reseed" \/ Refs(run.ds, x[2], k) # {}}]
    /\ Decides

\* The references of the record are set up one by one.  What sync_relations
\* keeps in relation_record_refs, the relations the file no longer lists, is
\* dropped here as it is there.
BeginRelation(r) ==
    /\ AtRelation
    /\ r \in run.keys
    /\ Refs(run.ds, run.rec.name, r) # {}
    /\ run' = [run EXCEPT !.pc = "refs", !.keys = @ \ {r}, !.rel = r,
                          !.refs = Refs(run.ds, run.rec.name, r)]
    /\ Decides

\* sync_relations: a relation the record does not name is cut.
BeginCutRelation(r) ==
    /\ AtRelation
    /\ r \in run.keys
    /\ Refs(run.ds, run.rec.name, r) = {}
    /\ run' = [run EXCEPT !.pc = "cut", !.back = "relation", !.keys = @ \ {r},
                          !.cuts = TouchingBy(run.rec, r)]
    /\ Decides

\* setup_relations_internal, the link: this row's foreign key, that row's
\* foreign key or a link row.
SetLink(r, this, that) ==
    LET via == Schema[r].via
    IN  CASE Schema[r].kind = "optional" -> fk' = Pointing(this, via, that) /\ joins' = joins
          [] Schema[r].kind = "foreign"  -> fk' = Pointing(that, via, this) /\ joins' = joins
          [] Schema[r].kind = "join"     -> fk' = fk /\ joins' = joins \union {<<via, {this, that}>>}
          [] Schema[r].kind = "required" -> fk' = fk /\ joins' = joins

\* A required relation goes the way of "foreign": it writes this row's foreign
\* key over that row's primary key.  That changes nothing, unless the foreign
\* key was made null in between: a null primary key cannot be saved.
LinkPanics(m) ==
    LET found == FoundRows(run.ds, Schema[run.rel].target, m)
    IN  \/ found = {}
        \/ /\ Schema[run.rel].kind = "required"
           /\ \A that \in found : <<RowOf(run.rec), Schema[run.rel].via, that>> \notin fk

LinkPanic(m) ==
    /\ run.pc = "refs"
    /\ m \in run.refs
    /\ LinkPanics(m)
    /\ run' = [run EXCEPT !.pc = "panicked"]
    /\ Decides

LinkRef(m) ==
    /\ run.pc = "refs"
    /\ m \in run.refs
    /\ ~LinkPanics(m)
    /\ \E that \in FoundRows(run.ds, Schema[run.rel].target, m) :
        SetLink(run.rel, RowOf(run.rec), that)
    /\ run' = [run EXCEPT !.pc = "relate", !.refs = @ \ {m}, !.that = m]
    /\ UNCHANGED <<rows, recs, rels, file, own>>

\* setup_relations_internal, the relation record.
Relate ==
    /\ run.pc = "relate"
    /\ rels' = Remembering(run.rec, run.rel, run.that)
    /\ run' = [run EXCEPT !.pc = IF run.refs = {} THEN "relation" ELSE "refs",
                          !.rel = IF run.refs = {} THEN None ELSE @, !.that = None]
    /\ UNCHANGED <<data, recs, file, own>>

-------------------------------------------------------------------------------
\* remove_records_for_user_removed_groups.

\* Mutant: "in" for "notIn" in the query for records of removed groups.
BeginKept ==
    /\ AtRelation
    /\ run.keys = {}
    /\ run.work = {}
    /\ run' = [run EXCEPT !.pc = "gone", !.rec = None,
                !.doomed = {r \in recs : r.ds = run.ds /\ r.group \in Groups(run.ds)}]
    /\ Decides

BeginGone ==
    /\ AtRelation
    /\ run.keys = {}
    /\ run.work = {}
    /\ run' = [run EXCEPT !.pc = "gone", !.rec = None,
                !.doomed = {r \in recs : r.ds = run.ds /\ r.group \notin Groups(run.ds)}]
    /\ Decides

BeginStale ==
    /\ run.pc = "gone"
    /\ run.doomed = {}
    /\ run' = [run EXCEPT !.pc = "stale",
                !.cuts = {c \in rels : /\ c.ds = run.ds
                                       /\ ~({c.ga, c.gb} \subseteq Groups(run.ds))
                                       /\ ~({c.ga, c.gb} \subseteq file.live)}]
    /\ Decides

RemoveStale(c) ==
    /\ run.pc = "stale"
    /\ c \in run.cuts
    /\ rels' = rels \ {c}
    /\ run' = [run EXCEPT !.cuts = @ \ {c}]
    /\ UNCHANGED <<data, recs, file, own>>

-------------------------------------------------------------------------------
\* remove_user_deleted_dataset_records_and_relations, and the end of a run.

BeginForget ==
    /\ BetweenDatasets
    /\ run.left = {}
    /\ run' = [run EXCEPT !.pc = "forget", !.ds = None]
    /\ Decides

\* Mutant: "in" for "notIn".
ForgetSelected(r) ==
    /\ run.pc = "forget"
    /\ r \in recs
    /\ r.ds \in run.sel
    /\ recs' = recs \ {r}
    /\ UNCHANGED <<data, rels, run, file, own>>

ForgetRecord(r) ==
    /\ run.pc = "forget"
    /\ r \in recs
    /\ r.ds \notin run.sel
    /\ recs' = recs \ {r}
    /\ UNCHANGED <<data, rels, run, file, own>>

ForgetRelation(c) ==
    /\ run.pc = "forget"
    /\ \A r \in recs : r.ds \in run.sel
    /\ c \in rels
    /\ c.ds \notin run.sel
    /\ rels' = rels \ {c}
    /\ UNCHANGED <<data, recs, run, file, own>>

Finish ==
    /\ run.pc = "forget"
    /\ \A r \in recs : r.ds \in run.sel
    /\ \A c \in rels : c.ds \in run.sel
    /\ run' = [run EXCEPT !.pc = "done"]
    /\ Decides

\* The command returns, or the process ends with the panic.
Exit ==
    /\ run.pc \in {"done", "panicked"}
    /\ run' = Idle
    /\ Decides

\* The process is killed in the middle of a run.
Crash ==
    /\ MayCrash
    /\ run.pc \notin {"idle", "done", "panicked"}
    /\ Room
    /\ run' = Idle
    /\ Decides

-------------------------------------------------------------------------------
\* What the user and the application do between runs.

Edit(f) ==
    /\ run.pc = "idle"
    /\ f # file
    /\ file' = f
    /\ UNCHANGED <<data, recs, rels, run, own>>

Without(gone) ==
    /\ rows' = rows \ gone
    /\ fk' = {x \in fk : {x[1], x[3]} \intersect gone = {}}
    /\ joins' = {x \in joins : x[2] \intersect gone = {}}

\* `migrate`: the tables of models the schema no longer has are dropped.
Migrate ==
    /\ run.pc = "idle"
    /\ \E row \in rows : row[1] \notin file.live
    /\ Without({row \in rows : row[1] \notin file.live})
    /\ own' = {row \in own : row[1] \in file.live}
    /\ UNCHANGED <<recs, rels, run, file>>

\* `purge`: every table is emptied.
Purge ==
    /\ run.pc = "idle"
    /\ "purge" \in AppActs
    /\ rows' = {} /\ fk' = {} /\ joins' = {} /\ recs' = {} /\ rels' = {} /\ own' = {}
    /\ UNCHANGED <<run, file>>

AppCreate(g) ==
    /\ run.pc = "idle"
    /\ "create" \in AppActs
    /\ g \in file.live
    /\ Cardinality(own) < MaxOwn
    /\ \E i \in Fresh(g) :
        /\ rows' = rows \union {<<g, i>>}
        /\ own' = own \union {<<g, i>>}
    /\ UNCHANGED <<fk, joins, recs, rels, run, file>>

AppDelete(row) ==
    /\ run.pc = "idle"
    /\ "delete" \in AppActs
    /\ row \in rows
    /\ Without({row})
    /\ own' = own \ {row}
    /\ UNCHANGED <<recs, rels, run, file>>

-------------------------------------------------------------------------------

Setup ==
    \/ \E d \in Datasets : BeginDataset(d)
    \/ \E g \in run.groups : BeginGroup(g)
    \/ EndGroups
    \/ BeginForget
    \/ Finish
    \/ Exit

Upsert ==
    \/ \E x \in run.todo : Insert(x) \/ Recreate(x) \/ Update(x)
    \/ \E r \in run.keys : InputRelation(r)
    \/ SaveNewRow
    \/ SaveUpdatedRow
    \/ Track

Remove ==
    \/ \E r \in run.doomed : RemoveGone(r) \/ BeginRemove(r)
    \/ RemoveRow
    \/ Untrack
    \/ BeginGone
    \/ BeginStale
    \/ \E c \in run.cuts : RemoveStale(c)
    \/ \E r \in recs : ForgetRecord(r)
    \/ \E c \in rels : ForgetRelation(c)

Relations ==
    \/ \E c \in run.cuts : CutPanic(c) \/ CutRecord(c) \/ CutLink(c)
    \/ Uncut
    \/ \E x \in run.work : BeginRelations(x)
    \/ \E r \in run.keys : BeginRelation(r) \/ BeginCutRelation(r)
    \/ \E m \in run.refs : LinkPanic(m) \/ LinkRef(m)
    \/ Relate

\* A step of a run that has begun.
Step == Setup \/ Upsert \/ Remove \/ Relations

Environment ==
    \/ Crash
    \/ \E f \in Versions : Edit(f)
    \/ Migrate
    \/ Purge
    \/ \E g \in Models : AppCreate(g)
    \/ \E row \in rows : AppDelete(row)

Next ==
    \/ \E start \in Starts : Begin(start)
    \/ Step
    \/ Environment

\* A run goes on until it ends; nobody has to start one.
Spec == Init /\ [][Next]_vars /\ WF_vars(Step)
===============================================================================
