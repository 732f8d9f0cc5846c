----------------------------- MODULE SeederProofs -----------------------------
(***************************************************************************)
(* What the seeder never does, for every schema, every set of user files   *)
(* and every interleaving of runs, crashes, edits and application writes:  *)
(* leave its types, track a record twice, delete a row of the application, *)
(* lose a row that it tracks, or cut a foreign key that is not its own.    *)
(*                                                                         *)
(* None of these is inductive by itself.  What a step writes depends on    *)
(* the fields of `run` that the step takes to be set, and InHand says at   *)
(* which steps they are.  An insert is decided from the snapshot that was  *)
(* read when the group began and made three steps later, and a removal     *)
(* from a list read once; Books says that these local copies are still     *)
(* right when they are used, and Apart that they never name a row of the   *)
(* application.                                                            *)
(***************************************************************************)
EXTENDS SeederProperties, TLAPS

\* The fields of `run` that hold a value, by the step the run is at: the
\* record in hand is there, and saved wherever the code takes its identifier;
\* relations are left over only while a record's relations are walked; and a
\* record that is being removed is off the list of those to remove.
InHand ==
    /\ run.pc = "idle" => run = Idle
    /\ run.pc \notin {"idle", "dataset", "forget", "done", "panicked"} => run.ds \in Datasets
    /\ run.pc = "input" => run.rec \in Records
    /\ run.pc \in {"track", "cut", "uncut", "untrack", "refs", "relate"} => run.rec \in Recs
    /\ run.pc \in {"refs", "relate"} => run.rel \in Rels
    /\ run.pc = "relate" => run.that \in Names
    /\ run.keys # {} =>
        \/ run.pc \in {"input", "panicked"}
        \/ /\ run.pc \in {"relation", "refs", "relate", "cut", "uncut"}
           /\ run.rec \in Recs
           /\ run.pc \in {"cut", "uncut"} => run.back = "relation"
    /\ run.pc \in {"cut", "uncut", "untrack"} /\ run.back # "relation" =>
        run.rec \notin run.doomed
TypeInv == TypeOK /\ InHand

\* TypeOK without the state of the run.
TablesType ==
    /\ rows \subseteq Rows /\ fk \subseteq Rows \X Columns \X Rows
    /\ joins \subseteq Columns \X SUBSET Rows
    /\ recs \subseteq Recs /\ rels \subseteq RelRecs
    /\ file \in Versions /\ own \subseteq Rows

\* The state of a process that runs nothing is a state of a run.
LEMMA IdleType == Idle \in Run
BY DEF Idle, Run, Steps, Commands

\* An assignment of the right type to one field of a run gives a run.
LEMMA RunUpdate ==
    ASSUME NEW r \in Run
    PROVE
    /\ \A v \in Steps : [r EXCEPT !.pc = v] \in Run
    /\ \A v \in {"record", "relation", "gone"} : [r EXCEPT !.back = v] \in Run
    /\ \A v \in Commands : [r EXCEPT !.cmd = v] \in Run
    /\ \A v \in SUBSET Datasets : [r EXCEPT !.sel = v] \in Run
    /\ \A v \in SUBSET Datasets : [r EXCEPT !.left = v] \in Run
    /\ \A v \in Datasets \union {None} : [r EXCEPT !.ds = v] \in Run
    /\ \A v \in SUBSET Models : [r EXCEPT !.groups = v] \in Run
    /\ \A v \in SUBSET Recs : [r EXCEPT !.snap = v] \in Run
    /\ \A v \in SUBSET (Models \X Names) : [r EXCEPT !.todo = v] \in Run
    /\ \A v \in SUBSET (Models \X Names) : [r EXCEPT !.work = v] \in Run
    /\ \A v \in SUBSET Recs : [r EXCEPT !.doomed = v] \in Run
    /\ \A v \in Records \union {None} : [r EXCEPT !.rec = v] \in Run
    /\ \A v \in SUBSET Rels : [r EXCEPT !.keys = v] \in Run
    /\ \A v \in SUBSET (Columns \X Rows) : [r EXCEPT !.fks = v] \in Run
    /\ \A v \in SUBSET RelRecs : [r EXCEPT !.cuts = v] \in Run
    /\ \A v \in RelRecs \union {None} : [r EXCEPT !.cut = v] \in Run
    /\ \A v \in Rels \union {None} : [r EXCEPT !.rel = v] \in Run
    /\ \A v \in SUBSET Names : [r EXCEPT !.refs = v] \in Run
    /\ \A v \in Names \union {None} : [r EXCEPT !.that = v] \in Run
<1>0. ASSUME NEW v \in Steps PROVE [r EXCEPT !.pc = v] \in Run BY DEF Run
<1>1. ASSUME NEW v \in {"record", "relation", "gone"} PROVE [r EXCEPT !.back = v] \in Run BY DEF Run
<1>2. ASSUME NEW v \in Commands PROVE [r EXCEPT !.cmd = v] \in Run BY DEF Run
<1>3. ASSUME NEW v \in SUBSET Datasets PROVE [r EXCEPT !.sel = v] \in Run BY DEF Run
<1>4. ASSUME NEW v \in SUBSET Datasets PROVE [r EXCEPT !.left = v] \in Run BY DEF Run
<1>5. ASSUME NEW v \in Datasets \union {None} PROVE [r EXCEPT !.ds = v] \in Run BY DEF Run
<1>6. ASSUME NEW v \in SUBSET Models PROVE [r EXCEPT !.groups = v] \in Run BY DEF Run
<1>7. ASSUME NEW v \in SUBSET Recs PROVE [r EXCEPT !.snap = v] \in Run BY DEF Run
<1>8. ASSUME NEW v \in SUBSET (Models \X Names) PROVE [r EXCEPT !.todo = v] \in Run BY DEF Run
<1>9. ASSUME NEW v \in SUBSET (Models \X Names) PROVE [r EXCEPT !.work = v] \in Run BY DEF Run
<1>10. ASSUME NEW v \in SUBSET Recs PROVE [r EXCEPT !.doomed = v] \in Run BY DEF Run
<1>11. ASSUME NEW v \in Records \union {None} PROVE [r EXCEPT !.rec = v] \in Run BY DEF Run
<1>12. ASSUME NEW v \in SUBSET Rels PROVE [r EXCEPT !.keys = v] \in Run BY DEF Run
<1>13. ASSUME NEW v \in SUBSET (Columns \X Rows) PROVE [r EXCEPT !.fks = v] \in Run BY DEF Run
<1>14. ASSUME NEW v \in SUBSET RelRecs PROVE [r EXCEPT !.cuts = v] \in Run BY DEF Run
<1>15. ASSUME NEW v \in RelRecs \union {None} PROVE [r EXCEPT !.cut = v] \in Run BY DEF Run
<1>16. ASSUME NEW v \in Rels \union {None} PROVE [r EXCEPT !.rel = v] \in Run BY DEF Run
<1>17. ASSUME NEW v \in SUBSET Names PROVE [r EXCEPT !.refs = v] \in Run BY DEF Run
<1>18. ASSUME NEW v \in Names \union {None} PROVE [r EXCEPT !.that = v] \in Run BY DEF Run
<1> QED
    BY <1>0, <1>1, <1>2, <1>3, <1>4, <1>5, <1>6, <1>7, <1>8, <1>9, <1>10, <1>11, <1>12, <1>13,
       <1>14, <1>15, <1>16, <1>17, <1>18

\* The types of the fields of `run`, as the proofs below use them.
LEMMA RunFields ==
    ASSUME run \in Run
    PROVE  /\ run.cmd \in Commands
           /\ run.back \in {"record", "relation", "gone"}
           /\ run.sel \subseteq Datasets /\ run.left \subseteq Datasets
           /\ run.groups \subseteq Models
           /\ run.snap \subseteq Recs /\ run.doomed \subseteq Recs
           /\ run.todo \subseteq Models \X Names /\ run.work \subseteq Models \X Names
           /\ run.keys \subseteq Rels /\ run.refs \subseteq Names
           /\ run.fks \subseteq Columns \X Rows
           /\ run.cuts \subseteq RelRecs
           /\ run.rec \in Records \union {None} /\ run.rel \in Rels \union {None}
BY DEF Run

\* A record that is taken up is the one of the file, new or with the
\* identifier of the snapshot's DataSetRecord of that name.
LEMMA TakingRecord ==
    ASSUME TypeInv, NEW x \in run.todo, Insert(x) \/ Recreate(x) \/ Update(x)
    PROVE  /\ run'.pc = "input" /\ run'.ds = run.ds /\ run'.todo = run.todo \ {x}
           /\ run'.rec \in Records
           /\ run'.rec.ds = run.ds /\ run'.rec.group = x[1] /\ run'.rec.name = x[2]
           /\ run'.rec.id # NoId => \E r \in Known(x) : run'.rec.id = r.id
<1>1. run \in Run /\ recs \subseteq Recs
    BY DEF TypeInv, TypeOK
<1>2. PICK id \in Ids \union {NoId} :
        /\ run' = Taking(x, id)
        /\ id # NoId => \E r \in Known(x) : id = r.id
    BY <1>1, RunFields DEF Insert, Recreate, Update, Known, Recs, Records
<1>3. /\ run'.pc = "input" /\ run'.ds = run.ds /\ run'.todo = run.todo \ {x}
      /\ run'.rec = [ds |-> run.ds, group |-> x[1], name |-> x[2], id |-> id]
    BY <1>1, <1>2 DEF Taking, Run
<1>4. run.ds \in Datasets /\ x[1] \in Models /\ x[2] \in Names
    BY <1>1, RunFields DEF TypeInv, InHand, Insert, Recreate, Update
<1> QED BY <1>2, <1>3, <1>4 DEF Records

\* The row of a new record is saved under any key that is free: the record in
\* hand has that key then, and nothing else of the run is changed.
LEMMA NewRowType ==
    ASSUME TypeInv, NEW i \in FreshIds(run.rec.group), SaveNewRowAs(i)
    PROVE  /\ run.pc = "input" /\ run.keys = {} /\ run.rec \in Records /\ run.rec.id = NoId
           /\ run' \in Run /\ InHand' /\ TablesType'
           /\ run'.pc = "track" /\ run'.ds = run.ds /\ run'.keys = {} /\ run'.cmd = run.cmd
           /\ run'.snap = run.snap /\ run'.todo = run.todo /\ run'.doomed = run.doomed
           /\ run'.rec \in Recs
           /\ run'.rec.ds = run.rec.ds /\ run'.rec.group = run.rec.group
           /\ run'.rec.name = run.rec.name /\ run'.rec.id = i
<1>t. /\ run \in Run /\ InHand /\ rows \subseteq Rows /\ fk \subseteq Rows \X Columns \X Rows
      /\ joins \subseteq Columns \X SUBSET Rows /\ recs \subseteq Recs /\ rels \subseteq RelRecs
      /\ file \in Versions /\ own \subseteq Rows
    BY DEF TypeInv, TypeOK
<1>1. run.pc = "input" /\ run.keys = {} /\ run.rec.id = NoId /\ run.rec \in Records
    BY <1>t DEF SaveNewRowAs, Inserting, InHand
<1>2. /\ run' = [run EXCEPT !.rec = [@ EXCEPT !.id = i], !.pc = "track", !.fks = {}]
      /\ i \in Ids
    BY DEF SaveNewRowAs, FreshIds
<1>3. [run.rec EXCEPT !.id = i] \in Recs
    BY <1>1, <1>2, IdsAssumption DEF Recs, Records, NoId
<1>4. run' \in Run
    BY <1>t, <1>2, <1>3, RunUpdate DEF Recs, Steps
<1>5. /\ run'.pc = "track" /\ run'.ds = run.ds /\ run'.keys = run.keys /\ run'.cmd = run.cmd
      /\ run'.snap = run.snap /\ run'.todo = run.todo /\ run'.doomed = run.doomed
      /\ run'.rec = [run.rec EXCEPT !.id = i]
    BY <1>t, <1>2 DEF Run
<1>6. InHand'
    BY <1>t, <1>1, <1>3, <1>5 DEF InHand
<1>7. TablesType'
    <2>1. <<run.rec.group, i>> \in Rows /\ run.fks \subseteq Columns \X Rows
        BY <1>t, <1>1, <1>2, RunFields DEF Records, Rows
    <2>2. /\ rows' = rows \union {<<run.rec.group, i>>}
          /\ fk' = fk \union {<<<<run.rec.group, i>>, x[1], x[2]>> : x \in run.fks}
          /\ UNCHANGED <<joins, recs, rels, file, own>>
        BY DEF SaveNewRowAs
    <2> QED BY <1>t, <2>1, <2>2 DEF TablesType
<1>8. /\ run'.rec.ds = run.rec.ds /\ run'.rec.group = run.rec.group
      /\ run'.rec.name = run.rec.name /\ run'.rec.id = i
    BY <1>1, <1>5 DEF Records
<1> QED BY <1>1, <1>3, <1>4, <1>5, <1>6, <1>7, <1>8

\* Every step leaves `run` a run.
LEMMA RunType == TypeInv /\ [Next]_vars => run' \in Run
<1> SUFFICES ASSUME TypeInv, [Next]_vars PROVE run' \in Run
    OBVIOUS
<1>t. run \in Run /\ recs \subseteq Recs /\ rels \subseteq RelRecs /\ rows \subseteq Rows
    BY DEF TypeInv, TypeOK
<1>s. /\ {"dataset", "record", "input", "track", "cut", "uncut", "untrack"} \subseteq Steps
      /\ {"relation", "refs", "relate", "gone", "stale", "forget"} \subseteq Steps
      /\ {"done", "panicked"} \subseteq Steps
    BY DEF Steps
<1> USE <1>t, <1>s, RunUpdate, RunFields
<1>1. ASSUME NEW start \in Starts, Begin(start) PROVE run' \in Run
    <2>1. start[1] \in Commands /\ start[2] \in Scopes
        BY StartsAssumption
    <2>2. \A sel \in Selections(start[2]) : sel \subseteq Datasets
        BY <2>1, VersionsAssumption DEF Selections, Scopes, TypeInv, TypeOK, WellFormed, File
    <2>3. PICK sel \in Selections(start[2]) :
            run' = [Idle EXCEPT !.pc = "dataset", !.cmd = start[1], !.sel = sel, !.left = sel]
        BY <1>1 DEF Begin
    <2> QED BY <2>1, <2>2, <2>3, IdleType
<1>2. ASSUME NEW d \in Datasets, BeginDataset(d) PROVE run' \in Run
    <2>1. Groups(d) \subseteq Models
        BY DEF Groups
    <2> QED BY <1>2, <2>1 DEF BeginDataset
<1>3. ASSUME NEW g \in run.groups, BeginGroup(g) PROVE run' \in Run
    <2> DEFINE snap == {r \in recs : r.ds = run.ds /\ r.group = g}
               todo == {g} \X Wanted(Declared(run.ds, g), snap)
    <2>1. snap \subseteq Recs /\ Unwanted(Declared(run.ds, g), snap) \subseteq Recs
        BY DEF Unwanted
    <2>2. Wanted(Declared(run.ds, g), snap) \subseteq Names
        BY DEF Wanted, Declared, Commands
    <2>3. todo \subseteq Models \X Names /\ run.work \union todo \subseteq Models \X Names
        BY <2>2
    <2>4. run' = [run EXCEPT
                !.groups = @ \ {g}, !.snap = snap, !.todo = todo,
                !.work = IF HasLaterRelations(g) THEN @ \union todo ELSE @,
                !.doomed = Unwanted(Declared(run.ds, g), snap)]
        BY <1>3 DEF BeginGroup, SeedRecords
    <2> HIDE DEF snap, todo
    <2> QED BY <2>1, <2>3, <2>4
<1>4. ASSUME EndGroups PROVE run' \in Run
    BY <1>4 DEF EndGroups
<1>5. ASSUME BeginForget PROVE run' \in Run
    BY <1>5 DEF BeginForget
<1>6. ASSUME Finish PROVE run' \in Run
    BY <1>6 DEF Finish
<1>7. ASSUME Exit PROVE run' \in Run
    BY <1>7, IdleType DEF Exit
<1>8. ASSUME NEW x \in run.todo, Insert(x) \/ Recreate(x) \/ Update(x) PROVE run' \in Run
    <2>1. run.ds \in Datasets /\ x[1] \in Models /\ x[2] \in Names
        BY <1>8 DEF TypeInv, InHand, Insert, Recreate, Update
    <2>2. \A r \in Known(x) : r.id \in Ids \union {NoId}
        BY DEF Known, Recs, Records
    <2>3. RequiredRefs(x) \subseteq Rels
        BY DEF RequiredRefs, RelsOf
    <2>4. \A id \in Ids \union {NoId} :
            [ds |-> run.ds, group |-> x[1], name |-> x[2], id |-> id] \in Records
        BY <2>1 DEF Records
    <2>5. \A id \in Ids \union {NoId} : Taking(x, id) \in Run
        BY <2>3, <2>4 DEF Taking
    <2> QED BY <1>8, <2>2, <2>5 DEF Insert, Recreate, Update
<1>9. ASSUME NEW r \in run.keys, InputRelation(r) PROVE run' \in Run
    <2>1. \A m \in Names : FoundRows(run.ds, Schema[r].target, m) \subseteq Rows
        BY DEF FoundRows
    <2>2. \A to \in Rows : {x \in run.fks : x[1] # Schema[r].via} \union {<<Schema[r].via, to>>}
                            \subseteq Columns \X Rows
        BY DEF Columns
    <2>3. CASE run' = [run EXCEPT !.pc = "panicked"]
        BY <2>3
    <2>4. CASE \E to \in Rows :
            run' = [run EXCEPT !.keys = @ \ {r},
                        !.fks = {x \in @ : x[1] # Schema[r].via} \union {<<Schema[r].via, to>>}]
        <3>1. PICK to \in Rows :
                run' = [run EXCEPT !.keys = @ \ {r},
                            !.fks = {x \in @ : x[1] # Schema[r].via} \union {<<Schema[r].via, to>>}]
            BY <2>4
        <3>2. run.keys \ {r} \subseteq Rels
            OBVIOUS
        <3> QED BY <2>2, <3>1, <3>2
    <2> QED BY <1>9, <2>1, <2>3, <2>4 DEF InputRelation, Refs
<1>10. ASSUME SaveNewRow PROVE run' \in Run
    BY <1>10, NewRowType DEF SaveNewRow, Fresh
<1>11. ASSUME SaveUpdatedRow PROVE run' \in Run
    BY <1>11 DEF SaveUpdatedRow
<1>12. ASSUME Track PROVE run' \in Run
    BY <1>12 DEF Track
<1>13. ASSUME NEW r \in run.doomed, RemoveGone(r) PROVE run' \in Run
    BY <1>13 DEF RemoveGone
<1>14. ASSUME NEW r \in run.doomed, BeginRemove(r) PROVE run' \in Run
    <2>1. Touching(r) \subseteq RelRecs /\ r \in Records /\ run.doomed \ {r} \subseteq Recs
        BY DEF Touching, Recs
    <2>2. run.pc \in {"gone", "record"}
        BY <1>14 DEF BeginRemove, Removing
    <2> QED BY <1>14, <2>1, <2>2 DEF BeginRemove
<1>15. ASSUME RemoveRow PROVE run' \in Run
    BY <1>15 DEF RemoveRow
<1>16. ASSUME Untrack PROVE run' \in Run
    BY <1>16 DEF Untrack
<1>17. ASSUME BeginGone PROVE run' \in Run
    <2>1. {r \in recs : r.ds = run.ds /\ r.group \notin Groups(run.ds)} \subseteq Recs
        OBVIOUS
    <2> QED BY <1>17, <2>1 DEF BeginGone
<1>18. ASSUME BeginStale PROVE run' \in Run
    BY <1>18 DEF BeginStale
<1>19. ASSUME NEW c \in run.cuts, RemoveStale(c) PROVE run' \in Run
    BY <1>19 DEF RemoveStale
<1>20. ASSUME NEW c \in run.cuts, CutPanic(c) \/ CutRecord(c) \/ CutLink(c) PROVE run' \in Run
    <2>1. CASE CutPanic(c)
        BY <2>1 DEF CutPanic
    <2>2. CASE CutRecord(c)
        BY <2>2 DEF CutRecord
    <2>3. CASE CutLink(c)
        <3>1. run' = [run EXCEPT !.pc = "uncut", !.cuts = @ \ {c}, !.cut = c]
            BY <2>3 DEF CutLink
        <3>2. run.cuts \ {c} \subseteq RelRecs /\ c \in RelRecs
            OBVIOUS
        <3> QED BY <3>1, <3>2
    <2> QED BY <1>20, <2>1, <2>2, <2>3
<1>21. ASSUME Uncut PROVE run' \in Run
    BY <1>21 DEF Uncut
<1>22. ASSUME NEW x \in run.work, BeginRelations(x) PROVE run' \in Run
    <2>1. Found(run.ds, x[1], x[2]) \subseteq Records
        BY DEF Found, Recs
    <2>2. {k \in RelsOf(x[1]) : run.cmd = "Reseed" \/ Refs(run.ds, x[2], k) # {}} \subseteq Rels
        BY DEF RelsOf
    <2> DEFINE keys ==
            {k \in RelsOf(x[1]) : run.cmd = "Reseed" \/ Refs(run.ds, x[2], k) # {}}
    <2>3. CASE run' = [run EXCEPT !.pc = "panicked"]
        BY <2>3
    <2>4. CASE \E r \in Records :
            run' = [run EXCEPT !.pc = "relation", !.work = @ \ {x}, !.rec = r, !.keys = keys]
        <3>1. PICK r \in Records :
                run' = [run EXCEPT !.pc = "relation", !.work = @ \ {x}, !.rec = r, !.keys = keys]
            BY <2>4
        <3>2. run.work \ {x} \subseteq Models \X Names /\ keys \subseteq Rels
            BY <2>2
        <3> HIDE DEF keys
        <3> QED BY <3>1, <3>2
    <2> QED BY <1>22, <2>1, <2>3, <2>4 DEF BeginRelations
<1>23. ASSUME NEW r \in run.keys, BeginRelation(r) \/ BeginCutRelation(r) PROVE run' \in Run
    <2>1. Refs(run.ds, run.rec.name, r) \subseteq Names /\ TouchingBy(run.rec, r) \subseteq RelRecs
        BY DEF Refs, TouchingBy
    <2>2. run.keys \ {r} \subseteq Rels /\ r \in Rels
        OBVIOUS
    <2>3. CASE BeginRelation(r)
        BY <2>1, <2>2, <2>3 DEF BeginRelation
    <2>4. CASE BeginCutRelation(r)
        BY <2>1, <2>2, <2>4 DEF BeginCutRelation
    <2> QED BY <1>23, <2>3, <2>4
<1>24. ASSUME NEW m \in run.refs, LinkPanic(m) \/ LinkRef(m) PROVE run' \in Run
    <2>1. CASE LinkPanic(m)
        BY <2>1 DEF LinkPanic
    <2>2. CASE LinkRef(m)
        <3>1. run' = [run EXCEPT !.pc = "relate", !.refs = @ \ {m}, !.that = m]
            BY <2>2 DEF LinkRef
        <3>2. run.refs \ {m} \subseteq Names /\ m \in Names
            OBVIOUS
        <3> QED BY <3>1, <3>2
    <2> QED BY <1>24, <2>1, <2>2
<1>25. ASSUME Relate PROVE run' \in Run
    <2>1. PICK pc \in {"relation", "refs"}, rel \in {None, run.rel} :
            run' = [run EXCEPT !.pc = pc, !.rel = rel, !.that = None]
        BY <1>25 DEF Relate
    <2>2. rel \in Rels \union {None}
        BY <2>1
    <2> QED BY <2>1, <2>2
<1>26. ASSUME Environment PROVE run' \in Run
    BY <1>26, IdleType DEF Environment, Crash, Edit, Migrate, Purge, AppCreate, AppDelete
<1>27. ASSUME UNCHANGED run PROVE run' \in Run
    BY <1>27
<1> QED BY <1>1, <1>2, <1>3, <1>4, <1>5, <1>6, <1>7, <1>8, <1>9, <1>10, <1>11, <1>12, <1>13,
           <1>14, <1>15, <1>16, <1>17, <1>18, <1>19, <1>20, <1>21, <1>22, <1>23, <1>24, <1>25,
           <1>26, <1>27
        DEF Next, Step, Setup, Upsert, Remove, Relations, vars, ForgetRecord, ForgetRelation

LEMMA InHandKept == TypeInv /\ [Next]_vars => InHand'
<1> SUFFICES ASSUME TypeInv, [Next]_vars PROVE InHand'
    OBVIOUS
<1>r. run' \in Run
    BY RunType
<1>t. run \in Run /\ recs \subseteq Recs /\ InHand
    BY DEF TypeInv, TypeOK
<1> USE <1>r, <1>t, RunFields
<1>1. ASSUME NEW start \in Starts, Begin(start) PROVE InHand'
    <2>1. run'.pc = "dataset" /\ run'.keys = {}
        BY <1>1 DEF Begin, Idle
    <2> QED BY <2>1 DEF InHand
<1>2. ASSUME NEW d \in Datasets, BeginDataset(d) PROVE InHand'
    <2>1. run'.pc \in {"record", "panicked"} /\ run'.ds = d /\ run'.keys = run.keys
        BY <1>2 DEF BeginDataset, Run
    <2> QED BY <1>2, <2>1 DEF InHand, BeginDataset, BetweenDatasets
<1>3. ASSUME NEW g \in run.groups, BeginGroup(g) PROVE InHand'
    <2>1. run'.pc = run.pc /\ run'.ds = run.ds /\ run'.keys = run.keys /\ run.pc = "record"
        BY <1>3 DEF BeginGroup, SeedRecords, GroupDone, Run
    <2> QED BY <2>1 DEF InHand
<1>4. ASSUME EndGroups PROVE InHand'
    <2>1. run'.pc \in {"dataset", "relation"} /\ run'.ds = run.ds /\ run'.keys = run.keys
        BY <1>4 DEF EndGroups, Run
    <2> QED BY <1>4, <2>1 DEF InHand, EndGroups, GroupDone
<1>5. ASSUME BeginForget \/ Finish PROVE InHand'
    <2>1. run'.pc \in {"forget", "done"} /\ run'.keys = run.keys
        BY <1>5 DEF BeginForget, Finish, Run
    <2> QED BY <1>5, <2>1 DEF InHand, BeginForget, Finish, BetweenDatasets
<1>7. ASSUME run' = Idle PROVE InHand'
    BY <1>7 DEF InHand, Idle
<1>8. ASSUME NEW x \in run.todo, Insert(x) \/ Recreate(x) \/ Update(x) PROVE InHand'
    <2>1. run'.pc = "input" /\ run'.ds = run.ds /\ run'.rec \in Records
        BY <1>8, TakingRecord
    <2> QED BY <1>8, <2>1 DEF InHand, Insert, Recreate, Update
<1>9. ASSUME NEW r \in run.keys, InputRelation(r) PROVE InHand'
    <2>1. /\ run.pc = "input" /\ run'.pc \in {"input", "panicked"}
          /\ run'.ds = run.ds /\ run'.rec = run.rec
        BY <1>9 DEF InputRelation, Run
    <2> QED BY <2>1 DEF InHand
<1>10. ASSUME SaveNewRow PROVE InHand'
    BY <1>10, NewRowType DEF SaveNewRow, Fresh
<1>11. ASSUME SaveUpdatedRow \/ Track PROVE InHand'
    <2>1. /\ run.pc \in {"input", "track"} /\ run'.pc = "record"
          /\ run'.ds = run.ds /\ run'.keys = run.keys /\ run.keys = {}
        <3>1. CASE SaveUpdatedRow
            BY <3>1 DEF SaveUpdatedRow, Run
        <3>2. CASE Track
            BY <3>2 DEF Track, Run, InHand
        <3> QED BY <1>11, <3>1, <3>2
    <2> QED BY <2>1 DEF InHand
<1>13. ASSUME NEW r \in run.doomed, RemoveGone(r) PROVE InHand'
    <2>1. /\ run'.pc = run.pc /\ run'.ds = run.ds /\ run'.keys = run.keys
          /\ run.pc \in {"gone", "record"}
        BY <1>13 DEF RemoveGone, Removing, Run
    <2> QED BY <2>1 DEF InHand
<1>14. ASSUME NEW r \in run.doomed, BeginRemove(r) PROVE InHand'
    <2>1. /\ run'.pc = "cut" /\ run'.ds = run.ds /\ run'.keys = run.keys
          /\ run'.rec = r /\ run.pc \in {"gone", "record"} /\ run'.doomed = run.doomed \ {r}
        BY <1>14 DEF BeginRemove, Removing, Run
    <2> QED BY <2>1 DEF InHand
<1>15. ASSUME RemoveRow PROVE InHand'
    <2>1. /\ run'.pc = "untrack" /\ run'.ds = run.ds /\ run'.keys = run.keys
          /\ run'.rec = run.rec /\ run.pc = "cut" /\ run.back # "relation"
          /\ run'.doomed = run.doomed
        BY <1>15 DEF RemoveRow, Run
    <2> QED BY <2>1 DEF InHand
<1>16. ASSUME Untrack PROVE InHand'
    <2>1. /\ run'.pc \in {"record", "relation", "gone"} /\ run'.ds = run.ds
          /\ run'.keys = run.keys /\ run.pc = "untrack"
        BY <1>16 DEF Untrack, Run
    <2> QED BY <2>1 DEF InHand
<1>17. ASSUME BeginGone \/ BeginStale PROVE InHand'
    <2>1. /\ run'.pc \in {"gone", "stale"} /\ run'.ds = run.ds /\ run'.keys = run.keys
          /\ run.pc \in {"relation", "cut", "gone"} /\ run.keys = {}
        <3>1. CASE BeginGone
            BY <3>1 DEF BeginGone, AtRelation, Run
        <3>2. CASE BeginStale
            BY <3>2 DEF BeginStale, Run, InHand
        <3> QED BY <1>17, <3>1, <3>2
    <2> QED BY <2>1 DEF InHand
<1>19. ASSUME NEW c \in run.cuts, RemoveStale(c) PROVE InHand'
    <2>1. run'.pc = run.pc /\ run'.ds = run.ds /\ run'.keys = run.keys /\ run.pc = "stale"
        BY <1>19 DEF RemoveStale, Run
    <2> QED BY <2>1 DEF InHand
<1>20. ASSUME NEW c \in run.cuts, CutPanic(c) \/ CutRecord(c) \/ CutLink(c) PROVE InHand'
    <2>1. /\ run.pc = "cut" /\ run'.pc \in {"panicked", "cut", "uncut"} /\ run'.ds = run.ds
          /\ run'.keys = run.keys /\ run'.rec = run.rec /\ run'.back = run.back
          /\ run'.doomed = run.doomed
        <3>1. CASE CutPanic(c)
            BY <3>1 DEF CutPanic, Cutting, Run
        <3>2. CASE CutRecord(c)
            BY <3>2 DEF CutRecord, Cutting, Run
        <3>3. CASE CutLink(c)
            BY <3>3 DEF CutLink, Cutting, Run
        <3> QED BY <1>20, <3>1, <3>2, <3>3
    <2> QED BY <2>1 DEF InHand
<1>21. ASSUME Uncut PROVE InHand'
    <2>1. /\ run.pc = "uncut" /\ run'.pc = "cut" /\ run'.ds = run.ds
          /\ run'.keys = run.keys /\ run'.rec = run.rec /\ run'.back = run.back
          /\ run'.doomed = run.doomed
        BY <1>21 DEF Uncut, Run
    <2> QED BY <2>1 DEF InHand
<1>22. ASSUME NEW x \in run.work, BeginRelations(x) PROVE InHand'
    <2>1. run.keys = {} /\ run.pc \in {"relation", "cut"}
        BY <1>22 DEF BeginRelations, AtRelation
    <2>2. CASE run' = [run EXCEPT !.pc = "panicked"]
        <3>1. run'.pc = "panicked"
            BY <2>2 DEF Run
        <3> QED BY <3>1 DEF InHand
    <2>3. CASE \E r \in Found(run.ds, x[1], x[2]), keys \in SUBSET Rels :
                run' = [run EXCEPT !.pc = "relation", !.work = @ \ {x}, !.rec = r, !.keys = keys]
        <3>1. run'.pc = "relation" /\ run'.ds = run.ds /\ run'.rec \in Recs
            BY <2>3 DEF Run, Found
        <3> QED BY <2>1, <3>1 DEF InHand
    <2>4. {k \in RelsOf(x[1]) : run.cmd = "Reseed" \/ Refs(run.ds, x[2], k) # {}} \in SUBSET Rels
        BY DEF RelsOf
    <2> QED BY <1>22, <2>2, <2>3, <2>4 DEF BeginRelations
<1>23. ASSUME NEW r \in run.keys, BeginRelation(r) \/ BeginCutRelation(r) PROVE InHand'
    <2>1. run.rec \in Recs /\ run.pc \in {"relation", "cut"} /\ run.ds \in Datasets
        BY <1>23 DEF InHand, BeginRelation, BeginCutRelation, AtRelation
    <2>2. CASE BeginRelation(r)
        <3>1. run'.pc = "refs" /\ run'.ds = run.ds /\ run'.rec = run.rec /\ run'.rel = r
            BY <2>2 DEF BeginRelation, Run
        <3> QED BY <2>1, <3>1 DEF InHand
    <2>3. CASE BeginCutRelation(r)
        <3>1. /\ run'.pc = "cut" /\ run'.ds = run.ds /\ run'.rec = run.rec
              /\ run'.back = "relation"
            BY <2>3 DEF BeginCutRelation, Run
        <3> QED BY <2>1, <3>1 DEF InHand
    <2> QED BY <1>23, <2>2, <2>3
<1>24. ASSUME NEW m \in run.refs, LinkPanic(m) \/ LinkRef(m) PROVE InHand'
    <2>1. /\ run.pc = "refs" /\ run'.ds = run.ds /\ run'.rec = run.rec /\ run'.rel = run.rel
          /\ run'.keys = run.keys
          /\ \/ run'.pc = "panicked"
             \/ run'.pc = "relate" /\ run'.that = m
        <3>1. CASE LinkPanic(m)
            BY <3>1 DEF LinkPanic, Run
        <3>2. CASE LinkRef(m)
            BY <3>2 DEF LinkRef, Run
        <3> QED BY <1>24, <3>1, <3>2
    <2> QED BY <2>1 DEF InHand
<1>25. ASSUME Relate PROVE InHand'
    <2>1. /\ run.pc = "relate" /\ run'.ds = run.ds /\ run'.rec = run.rec /\ run'.keys = run.keys
          /\ \/ run'.pc = "relation"
             \/ run'.pc = "refs" /\ run'.rel = run.rel
        BY <1>25 DEF Relate, Run
    <2> QED BY <2>1 DEF InHand
<1>26. ASSUME UNCHANGED run PROVE InHand'
    BY <1>26 DEF InHand
<1> QED BY <1>1, <1>2, <1>3, <1>4, <1>5, <1>7, <1>8, <1>9, <1>10, <1>11, <1>13, <1>14, <1>15,
           <1>16, <1>17, <1>19, <1>20, <1>21, <1>22, <1>23, <1>24, <1>25, <1>26
        DEF Next, Step, Setup, Upsert, Remove, Relations, Environment, vars, ForgetRecord,
            ForgetRelation, Exit, Crash, Edit, Migrate, Purge, AppCreate, AppDelete

\* The DataSetRelation that is created has the type of the table.
LEMMA RememberingType ==
    ASSUME rels \subseteq RelRecs, NEW rec \in Records, NEW r \in Rels, NEW m \in Names
    PROVE  Remembering(rec, r, m) \subseteq RelRecs
<1>1. Schema[r] \in Relation
    BY SchemaAssumption
<1>2. RelationRecord(rec, r, m) \in RelRecs
    BY <1>1 DEF RelationRecord, RelRecs, Records, Relation
<1> QED BY <1>2 DEF Remembering

\* Every step of the run and of its environment keeps the types of the tables.
LEMMA TablesTypeKept == TypeInv /\ [Next]_vars => TablesType'
<1> SUFFICES ASSUME TypeInv, [Next]_vars PROVE TablesType'
    OBVIOUS
<1> USE DEF TablesType
<1>t. /\ rows \subseteq Rows /\ fk \subseteq Rows \X Columns \X Rows
      /\ joins \subseteq Columns \X SUBSET Rows
      /\ recs \subseteq Recs /\ rels \subseteq RelRecs
      /\ file \in Versions /\ own \subseteq Rows
      /\ run \in Run /\ InHand
    BY DEF TypeInv, TypeOK
<1>v. \A r \in Rels : Schema[r].via \in Columns /\ Schema[r].target \in Models
    BY SchemaAssumption DEF Columns, Relation
<1>w. \A r \in Recs : RowOf(r) \in Rows
    BY DEF Recs, Records, RowOf, Rows
<1> USE <1>t, RunFields
<1>1. ASSUME UNCHANGED <<data, recs, rels, file, own>> PROVE TablesType'
    BY <1>1 DEF data
<1>2. ASSUME NEW d \in Recs, recs' \subseteq recs \union {d}, UNCHANGED <<data, rels, file, own>>
      PROVE  TablesType'
    BY <1>2 DEF data
<1>3. ASSUME rels' \subseteq RelRecs, UNCHANGED <<data, recs, file, own>> PROVE TablesType'
    BY <1>3 DEF data
<1>4. ASSUME NEW x \in run.todo, Recreate(x) PROVE TablesType'
    BY <1>4 DEF Recreate, data
<1>5. ASSUME NEW r \in run.keys, InputRelation(r) PROVE TablesType'
    <2>1. \A m \in Names : Remembering(run.rec, r, m) \subseteq RelRecs
        BY <1>5, RememberingType DEF InputRelation, InHand
    <2> QED BY <1>3, <1>5, <2>1 DEF InputRelation, Refs
<1>6. ASSUME SaveNewRow PROVE TablesType'
    <2> HIDE DEF TablesType
    <2> QED BY <1>6, NewRowType DEF SaveNewRow, Fresh
<1>7. ASSUME SaveUpdatedRow PROVE TablesType'
    <2>1. RowOf(run.rec) \in Rows
        BY <1>7 DEF SaveUpdatedRow, InHand, Records, Rows, RowOf
    <2>2. /\ fk' = {x \in fk : x[1] # RowOf(run.rec)}
                    \union {<<RowOf(run.rec), x[1], x[2]>> : x \in run.fks}
          /\ UNCHANGED <<rows, joins, recs, rels, file, own>>
        BY <1>7 DEF SaveUpdatedRow
    <2> QED BY <2>1, <2>2
<1>8. ASSUME Track PROVE TablesType'
    BY <1>2, <1>8 DEF Track, InHand
<1>9. ASSUME NEW r \in run.doomed, RemoveGone(r) PROVE TablesType'
    BY <1>9 DEF RemoveGone, data
<1>10. ASSUME RemoveRow PROVE TablesType'
    BY <1>10 DEF RemoveRow
<1>11. ASSUME Untrack PROVE TablesType'
    BY <1>11 DEF Untrack, data
<1>12. ASSUME NEW c \in rels, rels' = rels \ {c}, UNCHANGED <<data, recs, file, own>> PROVE TablesType'
    BY <1>12 DEF data
<1>13. ASSUME NEW c \in run.cuts, CutLink(c) PROVE TablesType'
    <2>1. fk' \subseteq fk /\ joins' \subseteq joins
        BY <1>13 DEF CutLink, Null
    <2> QED BY <1>13, <2>1 DEF CutLink
<1>14. ASSUME NEW m \in run.refs, LinkRef(m) PROVE TablesType'
    <2>1. PICK that \in Rows : SetLink(run.rel, RowOf(run.rec), that)
        BY <1>14 DEF LinkRef, FoundRows
    <2>2. RowOf(run.rec) \in Rows /\ run.rel \in Rels /\ Schema[run.rel].via \in Columns
        BY <1>14, <1>v, <1>w DEF LinkRef, InHand
    <2>3. Schema[run.rel].kind \in {"required", "optional", "foreign", "join"}
        BY <2>2, SchemaAssumption DEF Relation
    <2>4. fk' \subseteq Rows \X Columns \X Rows /\ joins' \subseteq Columns \X SUBSET Rows
        <3>1. \A row, to \in Rows, col \in Columns :
                Pointing(row, col, to) \subseteq Rows \X Columns \X Rows
            BY DEF Pointing, Null
        <3>2. <<Schema[run.rel].via, {RowOf(run.rec), that}>> \in Columns \X SUBSET Rows
            BY <2>1, <2>2
        <3>3. LET this == RowOf(run.rec)
                  via == Schema[run.rel].via
              IN  /\ fk' \in {fk, Pointing(this, via, that), Pointing(that, via, this)}
                  /\ joins' \in {joins, joins \union {<<via, {this, that}>>}}
            BY <2>1, <2>3 DEF SetLink
        <3> QED BY <2>1, <2>2, <3>1, <3>2, <3>3
    <2> QED BY <1>14, <2>4 DEF LinkRef
<1>15. ASSUME Relate PROVE TablesType'
    BY <1>3, <1>15, RememberingType DEF Relate, InHand, Recs
<1>16. ASSUME NEW r \in recs, ForgetRecord(r) PROVE TablesType'
    BY <1>16 DEF ForgetRecord, data
<1>17. ASSUME Environment PROVE TablesType'
    <2>1. CASE Crash
        BY <1>1, <2>1 DEF Crash, Decides, data
    <2>2. ASSUME NEW f \in Versions, Edit(f) PROVE TablesType'
        BY <2>2 DEF Edit, data
    <2>3. CASE Migrate \/ \E row \in rows : AppDelete(row)
        BY <2>3 DEF Migrate, AppDelete, Without
    <2>4. CASE Purge
        BY <2>4 DEF Purge
    <2>5. ASSUME NEW g \in Models, AppCreate(g) PROVE TablesType'
        <3>1. PICK i \in Ids : rows' = rows \union {<<g, i>>} /\ own' = own \union {<<g, i>>}
            BY <2>5 DEF AppCreate, Fresh, FreshIds
        <3> QED BY <2>5, <3>1 DEF AppCreate, Rows
    <2> QED BY <1>17, <2>1, <2>2, <2>3, <2>4, <2>5 DEF Environment
<1>18. CASE Setup
    BY <1>1, <1>18 DEF Setup, BeginDataset, BeginGroup, EndGroups, BeginForget, Finish, Exit, Decides, data
<1>19. CASE Upsert
    <2>1. ASSUME NEW x \in run.todo, Insert(x) \/ Update(x) PROVE TablesType'
        BY <1>1, <2>1 DEF Insert, Update, Decides, data
    <2> QED BY <1>4, <1>5, <1>6, <1>7, <1>8, <1>19, <2>1 DEF Upsert
<1>20. CASE Remove
    <2>1. ASSUME BeginGone \/ BeginStale \/ \E r \in run.doomed : BeginRemove(r) PROVE TablesType'
        BY <1>1, <2>1 DEF BeginGone, BeginStale, BeginRemove, Decides, data
    <2>2. ASSUME NEW c, RemoveStale(c) \/ ForgetRelation(c) PROVE TablesType'
        BY <1>3, <2>2 DEF RemoveStale, ForgetRelation
    <2> QED BY <1>9, <1>10, <1>11, <1>16, <1>20, <2>1, <2>2 DEF Remove
<1>21. CASE Relations
    <2>1. ASSUME NEW c, CutPanic(c) PROVE TablesType'
        BY <1>1, <2>1 DEF CutPanic, Decides, data
    <2>2. ASSUME NEW c, CutRecord(c) PROVE TablesType'
        BY <1>3, <2>2 DEF CutRecord
    <2>3. CASE Uncut
        BY <1>3, <2>3 DEF Uncut
    <2>4. ASSUME NEW x, BeginRelations(x) \/ BeginRelation(x) \/ BeginCutRelation(x) \/ LinkPanic(x)
          PROVE  TablesType'
        BY <1>1, <2>4 DEF BeginRelations, BeginRelation, BeginCutRelation, LinkPanic, Decides, data
    <2> QED BY <1>13, <1>14, <1>15, <1>21, <2>1, <2>2, <2>3, <2>4 DEF Relations
<1>22. CASE UNCHANGED vars \/ \E start \in Starts : Begin(start)
    BY <1>1, <1>22 DEF vars, Begin, Decides, data
<1> QED BY <1>17, <1>18, <1>19, <1>20, <1>21, <1>22 DEF Next, Step

\* The first state, an empty database and no run, satisfies the invariant.
LEMMA InitType == Init => TypeInv
BY IdleType DEF Init, TypeInv, TypeOK, InHand, Idle

\* The inductive type invariant holds in every state.
LEMMA TypeInvariant == Spec => []TypeInv
<1>1. Init => TypeInv
    BY InitType
<1>2. TypeInv /\ [Next]_vars => TypeInv'
    <2> SUFFICES ASSUME TypeInv, [Next]_vars PROVE TypeInv'
        OBVIOUS
    <2> QED BY RunType, InHandKept, TablesTypeKept DEF TypeInv, TypeOK, TablesType
<1> QED BY <1>1, <1>2, PTL DEF Spec

\* Tables and run state keep their types, whatever the schema and the files.
THEOREM SeederTypeOK == Spec => []TypeOK
<1>1. TypeInv => TypeOK
    BY DEF TypeInv
<1> QED BY <1>1, TypeInvariant, PTL

-------------------------------------------------------------------------------
\* Records of the file are left to take up only while a run takes them up.
Upserting == run.todo # {} => run.pc \in {"record", "input", "track", "panicked"}

\* What a run knows of the DataSetRecord table while it inserts and updates:
\* the snapshot of the group holds each of its records that is still to come,
\* and the record in hand, if it is new, is not in the table.
Books ==
    /\ Upserting
    /\ \A r, s \in run.snap : <<r.ds, r.group, r.name>> = <<s.ds, s.group, s.name>> => r = s
    /\ \A x \in run.todo :
        /\ \A r \in run.snap : r.ds = run.ds /\ r.group = x[1]
        /\ Found(run.ds, x[1], x[2]) \subseteq run.snap
    /\ run.pc \in {"input", "track"} =>
        /\ run.rec.ds = run.ds
        /\ <<run.rec.group, run.rec.name>> \notin run.todo
    /\ run.pc = "input" /\ run.rec.id = NoId =>
        Found(run.rec.ds, run.rec.group, run.rec.name) = {}
    /\ run.pc = "track" =>
        /\ Found(run.rec.ds, run.rec.group, run.rec.name) = {}
        /\ RowOf(run.rec) \notin TrackedRows

\* No row of the application is tracked, or known to the run in any way.
Apart ==
    /\ \A r \in recs \union run.snap \union run.doomed : RowOf(r) \notin own
    /\ run.rec \in Records => RowOf(run.rec) \notin own

\* What is about to be untracked is deleted.
Deleted == run.pc = "untrack" => RowOf(run.rec) \notin rows

\* The inductive invariant.
Inv == TypeInv /\ OneRecordPerName /\ Books /\ OwnRowsStay /\ Apart /\ Deleted

\* What holds of every step but those that take up, save and track a record
\* of the files: nothing is added to the DataSetRecord table, and what leaves
\* it had lost its row, its model or its data set.
Quiet ==
    /\ recs' \subseteq recs
    /\ \A r \in recs \ recs' :
        \/ RowOf(r) \notin rows'
        \/ r.group \notin file.live
        \/ run.pc = "forget" /\ r.ds \notin run.sel
    /\ run'.snap \in {run.snap, {}}
    /\ run'.doomed \subseteq run.doomed \union recs
    /\ run'.rec \in Records => run'.rec \in {run.rec} \union recs \union run.doomed
    /\ run'.todo = {} /\ run'.pc \notin {"input", "track"}
    /\ own' \subseteq own /\ rows' \subseteq rows
    /\ \A row \in own' \intersect rows : row \in rows' \/ (run.rec \in Records /\ row = RowOf(run.rec))
    /\ run'.pc = "untrack" => run'.rec = run.rec /\ RowOf(run.rec) \notin rows'

\* The other steps of a run.
Noisy ==
    \/ \E g \in run.groups : BeginGroup(g)
    \/ \E x \in run.todo : Insert(x) \/ Recreate(x) \/ Update(x)
    \/ \E r \in run.keys : InputRelation(r)
    \/ SaveNewRow
    \/ SaveUpdatedRow
    \/ Track
    \/ UNCHANGED vars

\* What a seeder does and what is done to it: all but what is done to the tables.
Acts ==
    \/ \E start \in Starts : Begin(start)
    \/ Step
    \/ Crash
    \/ \E f \in Versions : Edit(f)

\* A step that writes no row and no DataSetRecord is quiet.
LEMMA QuietDecision ==
    ASSUME run'.snap \in {run.snap, {}}, run'.doomed \subseteq run.doomed \union recs,
           run'.rec \in Records => run'.rec \in {run.rec} \union recs \union run.doomed,
           run'.todo = {}, run'.pc \notin {"input", "track", "untrack"},
           UNCHANGED <<recs, rows, own>>
    PROVE  Quiet
<1>1. recs' \subseteq recs /\ recs \ recs' = {}
    OBVIOUS
<1>2. \A row \in own' \intersect rows : row \in rows'
    OBVIOUS
<1> QED BY <1>1, <1>2 DEF Quiet

\* A step between two runs that creates no row is quiet.
LEMMA QuietBetweenRuns ==
    ASSUME run = Idle, UNCHANGED run, own' \subseteq own, rows' \subseteq rows,
           own' \intersect rows \subseteq rows',
           recs' = recs \/ (recs' = {} /\ rows' = {})
    PROVE  Quiet
<1>1. run'.pc = "idle" /\ run'.todo = {}
    BY DEF Idle
<1>2. /\ recs' \subseteq recs
      /\ \A r \in recs \ recs' : RowOf(r) \notin rows'
      /\ \A row \in own' \intersect rows : row \in rows'
    OBVIOUS
<1>3. run'.snap = run.snap /\ run'.doomed = run.doomed /\ run'.rec = run.rec
    OBVIOUS
<1> QED BY <1>1, <1>2, <1>3 DEF Quiet

\* Every step of a seeder is quiet or one of the few that are looked at one by
\* one.
LEMMA QuietOrNoisy == TypeInv /\ Upserting /\ Deleted /\ [Acts]_vars => Quiet \/ Noisy
<1> SUFFICES ASSUME TypeInv, Upserting, Deleted, [Acts]_vars, ~Noisy PROVE Quiet
    OBVIOUS
<1>t. /\ run \in Run /\ recs \subseteq Recs /\ InHand /\ run' \in Run
      /\ run.todo # {} => run.pc \in {"record", "input", "track", "panicked"}
    BY RunType DEF TypeInv, TypeOK, Upserting, Acts, Next, Environment
<1> USE <1>t, RunFields
<1>1. ASSUME run' = Idle, UNCHANGED <<recs, rows, own>> PROVE Quiet
    <2>1. run'.snap = {} /\ run'.doomed = {} /\ run'.rec = None /\ run'.todo = {} /\ run'.pc = "idle"
        BY <1>1 DEF Idle
    <2> QED BY <1>1, <2>1, QuietDecision, NoneAssumption
<1>4. ASSUME NEW start \in Starts, Begin(start) PROVE Quiet
    <2>1. run'.snap = {} /\ run'.doomed = {} /\ run'.rec = None /\ run'.todo = {} /\ run'.pc = "dataset"
        BY <1>4 DEF Begin, Idle
    <2> QED BY QuietDecision, <1>4, <2>1, NoneAssumption DEF Begin, Decides
<1>5. ASSUME NEW d \in Datasets, BeginDataset(d) PROVE Quiet
    <2>1. /\ run'.snap = run.snap /\ run'.doomed = {} /\ run'.rec = run.rec /\ run'.todo = {}
          /\ run'.pc \in {"record", "panicked"}
        BY <1>5 DEF BeginDataset, Run
    <2> QED BY QuietDecision, <1>5, <2>1 DEF BeginDataset, Decides
<1>6. ASSUME EndGroups \/ BeginForget \/ Finish PROVE Quiet
    <2>1. /\ run'.snap \in {run.snap, {}} /\ run'.doomed = run.doomed /\ run'.rec = run.rec
          /\ run'.todo = run.todo /\ run'.pc \in {"dataset", "relation", "forget", "done"}
        <3>1. CASE EndGroups
            BY <3>1 DEF EndGroups, Run
        <3>2. CASE BeginForget
            BY <3>2 DEF BeginForget, Run
        <3>3. CASE Finish
            BY <3>3 DEF Finish, Run
        <3> QED BY <1>6, <3>1, <3>2, <3>3
    <2>2. run.todo = {}
        BY <1>6 DEF EndGroups, GroupDone, BeginForget, BetweenDatasets, Finish
    <2> QED BY QuietDecision, <1>6, <2>1, <2>2 DEF EndGroups, BeginForget, Finish, Decides
<1>7. ASSUME NEW r \in run.doomed, RemoveGone(r) PROVE Quiet
    <2>1. /\ run'.snap = run.snap /\ run'.doomed \subseteq run.doomed /\ run'.rec = run.rec
          /\ run'.todo = run.todo /\ run'.pc = run.pc /\ run.pc \in {"gone", "record"}
        BY <1>7 DEF RemoveGone, Removing, Run
    <2>2. run.todo = {}
        BY <1>7 DEF RemoveGone, Removing
    <2> QED BY <1>7, <2>1, <2>2 DEF RemoveGone, Quiet, data
<1>8. ASSUME NEW r \in run.doomed, BeginRemove(r) PROVE Quiet
    <2>1. /\ run'.snap = run.snap /\ run'.doomed \subseteq run.doomed /\ run'.rec = r
          /\ run'.todo = run.todo /\ run'.pc = "cut"
        BY <1>8 DEF BeginRemove, Run
    <2>2. run.todo = {}
        BY <1>8 DEF BeginRemove, Removing
    <2> QED BY QuietDecision, <1>8, <2>1, <2>2 DEF BeginRemove, Decides
<1>9. ASSUME RemoveRow PROVE Quiet
    <2>1. /\ run'.snap = run.snap /\ run'.doomed = run.doomed /\ run'.rec = run.rec
          /\ run'.todo = run.todo /\ run'.pc = "untrack" /\ run.pc = "cut"
        BY <1>9 DEF RemoveRow, Run
    <2>2. run.todo = {} /\ run.rec \in Records
        BY <2>1 DEF InHand, Recs
    <2> QED BY <1>9, <2>1, <2>2 DEF RemoveRow, Quiet
<1>10. ASSUME Untrack PROVE Quiet
    <2>1. /\ run'.snap = run.snap /\ run'.doomed = run.doomed /\ run'.rec = None
          /\ run'.todo = run.todo /\ run'.pc \in {"record", "relation", "gone"}
          /\ run.pc = "untrack"
        BY <1>10 DEF Untrack, Run
    <2>2. RowOf(run.rec) \notin rows
        BY <2>1 DEF Deleted
    <2> QED BY <1>10, <2>1, <2>2, NoneAssumption DEF Untrack, Quiet, data
<1>11. ASSUME BeginGone PROVE Quiet
    <2>1. /\ run'.snap = run.snap /\ run'.rec = None /\ run'.todo = run.todo /\ run'.pc = "gone"
          /\ run'.doomed = {r \in recs : r.ds = run.ds /\ r.group \notin Groups(run.ds)}
        BY <1>11 DEF BeginGone, Run
    <2>2. run.todo = {}
        BY <1>11 DEF BeginGone, AtRelation
    <2> QED BY QuietDecision, <1>11, <2>1, <2>2, NoneAssumption DEF BeginGone, Decides
<1>12. ASSUME NEW c, BeginStale \/ RemoveStale(c) \/ CutPanic(c) \/ CutRecord(c) \/ CutLink(c) \/ Uncut
       PROVE  Quiet
    <2> DEFINE Kept == /\ run'.snap = run.snap /\ run'.doomed = run.doomed
                       /\ run'.rec = run.rec /\ run'.todo = run.todo
                       /\ run.pc \in {"gone", "stale", "cut", "uncut"}
                       /\ run'.pc \in {"stale", "panicked", "cut", "uncut"}
    <2>1. Kept
        <3>1. BeginStale => Kept
            BY DEF BeginStale, Run
        <3>2. RemoveStale(c) => Kept
            BY DEF RemoveStale, Run
        <3>3. CutPanic(c) => Kept
            BY DEF CutPanic, Cutting, Run
        <3>4. CutRecord(c) => Kept
            BY DEF CutRecord, Cutting, Run
        <3>5. CutLink(c) => Kept
            BY DEF CutLink, Cutting, Run
        <3>6. Uncut => Kept
            BY DEF Uncut, Run
        <3> QED BY <1>12, <3>1, <3>2, <3>3, <3>4, <3>5, <3>6
    <2>2. UNCHANGED <<recs, rows, own>>
        BY <1>12 DEF BeginStale, RemoveStale, CutPanic, CutRecord, CutLink, Uncut, Decides, data
    <2> QED BY QuietDecision, <2>1, <2>2
<1>13. ASSUME NEW x \in run.work, BeginRelations(x) PROVE Quiet
    <2>1. /\ run'.snap = run.snap /\ run'.doomed = run.doomed /\ run'.rec \in {run.rec} \union recs
          /\ run'.todo = run.todo /\ run'.pc \in {"panicked", "relation"}
        <3>1. CASE run' = [run EXCEPT !.pc = "panicked"]
            BY <3>1 DEF Run
        <3>2. CASE \E r \in recs, keys \in SUBSET Rels :
                    run' = [run EXCEPT !.pc = "relation", !.work = @ \ {x}, !.rec = r, !.keys = keys]
            BY <3>2 DEF Run
        <3>3. {k \in RelsOf(x[1]) : run.cmd = "Reseed" \/ Refs(run.ds, x[2], k) # {}} \in SUBSET Rels
            BY DEF RelsOf
        <3> QED BY <1>13, <3>1, <3>2, <3>3 DEF BeginRelations, Found
    <2>2. run.todo = {}
        BY <1>13 DEF BeginRelations, AtRelation
    <2> QED BY QuietDecision, <1>13, <2>1, <2>2 DEF BeginRelations, Decides
<1>14. ASSUME NEW r, BeginRelation(r) \/ BeginCutRelation(r) \/ LinkPanic(r) \/ LinkRef(r) \/ Relate
       PROVE  Quiet
    <2> DEFINE Kept == /\ run'.snap = run.snap /\ run'.doomed = run.doomed
                       /\ run'.rec = run.rec /\ run'.todo = run.todo
                       /\ run.pc \in {"relation", "cut", "refs", "relate"}
                       /\ run'.pc \in {"refs", "cut", "panicked", "relate", "relation"}
    <2>1. Kept
        <3>1. BeginRelation(r) => Kept
            BY DEF BeginRelation, AtRelation, Run
        <3>2. BeginCutRelation(r) => Kept
            BY DEF BeginCutRelation, AtRelation, Run
        <3>3. LinkPanic(r) => Kept
            BY DEF LinkPanic, Run
        <3>4. LinkRef(r) => Kept
            BY DEF LinkRef, Run
        <3>5. Relate => Kept
            <4>1. ASSUME Relate PROVE run'.snap = run.snap /\ run'.doomed = run.doomed
                BY <4>1 DEF Relate, Run
            <4>2. ASSUME Relate PROVE run'.rec = run.rec /\ run'.todo = run.todo
                BY <4>2 DEF Relate, Run
            <4>3. ASSUME Relate PROVE run.pc = "relate" /\ run'.pc \in {"refs", "relation"}
                BY <4>3 DEF Relate, Run
            <4> QED BY <4>1, <4>2, <4>3
        <3> QED BY <1>14, <3>1, <3>2, <3>3, <3>4, <3>5
    <2>2. UNCHANGED <<recs, rows, own>>
        BY <1>14 DEF BeginRelation, BeginCutRelation, LinkPanic, LinkRef, Relate, Decides, data
    <2> QED BY QuietDecision, <2>1, <2>2
<1>15. ASSUME NEW r, ForgetRecord(r) \/ ForgetRelation(r) PROVE Quiet
    <2>1. run.pc = "forget" /\ run.todo = {}
        BY <1>15 DEF ForgetRecord, ForgetRelation
    <2> QED BY <1>15, <2>1 DEF ForgetRecord, ForgetRelation, Quiet, data
<1>16. ASSUME Exit \/ Crash PROVE Quiet
    BY <1>1, <1>16 DEF Exit, Crash, Decides
<1>17. ASSUME NEW f \in Versions, Edit(f) PROVE Quiet
    BY <1>17, QuietBetweenRuns DEF InHand, Edit, data
<1> QED
    BY <1>4, <1>5, <1>6, <1>7, <1>8, <1>9, <1>10, <1>11, <1>12, <1>13, <1>14, <1>15, <1>16, <1>17
    DEF Noisy, Acts, Step, Setup, Upsert, Remove, Relations

\* So is all that is done to the tables between two runs, but for the rows that
\* the application creates.
LEMMA QuietOrCreate ==
    TypeInv /\ Next => Quiet \/ Acts \/ \E g \in Models : AppCreate(g)
<1> SUFFICES ASSUME InHand, Next PROVE Quiet \/ Acts \/ \E g \in Models : AppCreate(g)
    BY DEF TypeInv
<1>1. CASE Migrate
    BY <1>1, QuietBetweenRuns DEF InHand, Migrate, Without
<1>2. CASE Purge
    BY <1>2, QuietBetweenRuns DEF InHand, Purge
<1>3. ASSUME NEW row \in rows, AppDelete(row) PROVE Quiet
    BY <1>3, QuietBetweenRuns DEF InHand, AppDelete, Without
<1> QED BY <1>1, <1>2, <1>3 DEF Acts, Next, Environment

\* A run does one command from its beginning to its end.
LEMMA CommandKept ==
    ASSUME TypeInv, [Acts]_vars
    PROVE  run'.cmd \in {run.cmd, "Seed"} \union {start[1] : start \in Starts}
<1>t. run \in Run /\ Idle.cmd = "Seed"
    BY DEF TypeInv, TypeOK, Idle
<1> USE <1>t
<1>1. CASE \E start \in Starts : Begin(start)
    <2>1. PICK start \in Starts : \E sel :
            run' = [Idle EXCEPT !.pc = "dataset", !.cmd = start[1], !.sel = sel, !.left = sel]
        BY <1>1 DEF Begin
    <2> QED BY <2>1 DEF Idle
<1>2. CASE Setup
    BY <1>2, ZenonT(30) DEF Setup, BeginDataset, BeginGroup, EndGroups, BeginForget, Finish, Exit, Run
<1>3. CASE Upsert
    <2>1. SaveNewRow => run'.cmd = run.cmd
        BY NewRowType DEF SaveNewRow, Fresh
    <2>2. ASSUME NEW x \in run.todo, Insert(x) \/ Recreate(x) \/ Update(x) PROVE run'.cmd = run.cmd
        BY <2>2, ZenonT(30) DEF Insert, Recreate, Update, Taking, Run
    <2>3. ASSUME NEW r \in run.keys, InputRelation(r) PROVE run'.cmd = run.cmd
        BY <2>3 DEF InputRelation, Run
    <2>4. ASSUME SaveUpdatedRow \/ Track PROVE run'.cmd = run.cmd
        BY <2>4 DEF SaveUpdatedRow, Track, Run
    <2> QED BY <1>3, <2>1, <2>2, <2>3, <2>4 DEF Upsert
<1>4. CASE Remove
    <2>1. ASSUME NEW r, RemoveGone(r) \/ BeginRemove(r) PROVE run'.cmd = run.cmd
        BY <2>1 DEF RemoveGone, BeginRemove, Run
    <2>2. ASSUME RemoveRow \/ Untrack PROVE run'.cmd = run.cmd
        BY <2>2 DEF RemoveRow, Untrack, Run
    <2>3. ASSUME BeginGone \/ BeginStale PROVE run'.cmd = run.cmd
        BY <2>3 DEF BeginGone, BeginStale, Run
    <2>4. ASSUME NEW c, RemoveStale(c) \/ ForgetRecord(c) \/ ForgetRelation(c) PROVE run'.cmd = run.cmd
        BY <2>4 DEF RemoveStale, ForgetRecord, ForgetRelation, Run
    <2> QED BY <1>4, <2>1, <2>2, <2>3, <2>4 DEF Remove
<1>5. CASE Relations
    <2>1. ASSUME NEW c, CutPanic(c) \/ CutRecord(c) \/ CutLink(c) \/ Uncut PROVE run'.cmd = run.cmd
        BY <2>1 DEF CutPanic, CutRecord, CutLink, Uncut, Run
    <2>2. ASSUME NEW x, BeginRelations(x) PROVE run'.cmd = run.cmd
        BY <2>2 DEF BeginRelations, Run
    <2>3. ASSUME NEW r, BeginRelation(r) \/ BeginCutRelation(r) \/ LinkPanic(r) \/ LinkRef(r)
          PROVE  run'.cmd = run.cmd
        BY <2>3 DEF BeginRelation, BeginCutRelation, LinkPanic, LinkRef, Run
    <2>4. Relate => run'.cmd = run.cmd
        BY DEF Relate, Run
    <2> QED BY <1>5, <2>1, <2>2, <2>3, <2>4 DEF Relations
<1>6. CASE Crash \/ (\E f \in Versions : Edit(f)) \/ UNCHANGED vars
    BY <1>6 DEF Crash, Edit, vars
<1> QED BY <1>1, <1>2, <1>3, <1>4, <1>5, <1>6 DEF Acts, Step

\* A quiet step keeps the invariant.
LEMMA QuietKeeps ==
    ASSUME Inv, TypeInv', Quiet
    PROVE  Inv'
<1>t. /\ OneRecordPerName /\ Books /\ OwnRowsStay /\ Apart
      /\ run.doomed \subseteq Recs /\ recs \subseteq Recs
    BY RunFields DEF Inv, TypeInv, TypeOK
<1>1. OneRecordPerName'
    BY <1>t DEF OneRecordPerName, Quiet, RowOf
<1>2. Books'
    <2>1. run'.todo = {} /\ run'.pc \notin {"input", "track"}
        BY DEF Quiet
    <2>2. \A r, s \in run'.snap : <<r.ds, r.group, r.name>> = <<s.ds, s.group, s.name>> => r = s
        BY <1>t DEF Quiet, Books
    <2> QED BY <2>1, <2>2 DEF Books, Upserting
<1>3. Apart'
    <2>1. \A r \in recs' \union run'.snap \union run'.doomed : RowOf(r) \notin own'
        BY <1>t DEF Quiet, Apart
    <2>2. run'.rec \in Records => RowOf(run'.rec) \notin own'
        BY <1>t DEF Quiet, Apart, Recs
    <2> QED BY <2>1, <2>2 DEF Apart, RowOf
<1>4. OwnRowsStay'
    BY <1>t DEF Quiet, OwnRowsStay, Apart
<1>5. Deleted'
    BY DEF Quiet, Deleted, RowOf
<1> QED BY <1>1, <1>2, <1>3, <1>4, <1>5 DEF Inv

\* What the other steps do to the books of the run.
GroupTaken(g) ==
    /\ run.pc = "record" /\ run'.pc = "record" /\ run.todo = {}
    /\ run'.ds = run.ds /\ run'.rec = run.rec
    /\ run'.snap = SeedRecords(run.ds, g)
    /\ run'.todo = {g} \X Wanted(Declared(run.ds, g), run'.snap)
    /\ run'.doomed \subseteq run'.snap
    /\ UNCHANGED <<rows, recs, own>>

RecordTaken(x) ==
    /\ x \in run.todo /\ run'.todo = run.todo \ {x}
    /\ run.pc = "record" /\ run'.pc = "input" /\ run'.ds = run.ds
    /\ run'.snap = run.snap /\ run'.doomed = run.doomed
    /\ run'.rec \in Records
    /\ run'.rec.ds = run.ds /\ run'.rec.group = x[1] /\ run'.rec.name = x[2]
    /\ IF run'.rec.id = NoId THEN Known(x) \intersect recs' = {} \/ Recreate(x)
                             ELSE \E r \in Known(x) : run'.rec.id = r.id
    /\ recs' \subseteq recs
    /\ \A r \in recs \ recs' : RowOf(r) \notin rows
    /\ UNCHANGED <<rows, own>>

InputTaken ==
    /\ run.pc = "input" /\ run'.pc \in {"input", "panicked"}
    /\ run'.ds = run.ds /\ run'.rec = run.rec /\ run'.snap = run.snap
    /\ run'.todo = run.todo /\ run'.doomed = run.doomed
    /\ UNCHANGED <<rows, recs, own>>

RowSaved(i) ==
    /\ Inserting /\ run'.pc = "track" /\ run.rec \in Records
    /\ run'.ds = run.ds /\ run'.snap = run.snap
    /\ run'.todo = run.todo /\ run'.doomed = run.doomed
    /\ run'.rec \in Recs
    /\ run'.rec.ds = run.rec.ds /\ run'.rec.group = run.rec.group
    /\ run'.rec.name = run.rec.name /\ run'.rec.id = i
    /\ rows' = rows \union {<<run.rec.group, i>>}
    /\ UNCHANGED <<recs, own>>

RecordDone ==
    /\ run'.pc = "record" /\ run'.rec = None
    /\ run'.ds = run.ds /\ run'.snap = run.snap
    /\ run'.todo = run.todo /\ run'.doomed = run.doomed
    /\ UNCHANGED <<rows, own>>
    /\ \/ run.pc = "input" /\ recs' = recs
       \/ run.pc = "track" /\ run.rec \in Recs /\ recs' = recs \union {run.rec}

\* A record that is saved under a free key.
LEMMA RowSavedAs ==
    ASSUME TypeInv, NEW i \in FreshIds(run.rec.group), SaveNewRowAs(i)
    PROVE  RowSaved(i)
BY NewRowType DEF RowSaved, SaveNewRowAs, Inserting

\* The other steps, one by one.
LEMMA NoisySteps ==
    ASSUME TypeInv, Noisy
    PROVE  \/ \E g \in run.groups : GroupTaken(g)
           \/ \E x \in run.todo : RecordTaken(x)
           \/ InputTaken
           \/ \E i \in Fresh(run.rec.group) : RowSaved(i)
           \/ RecordDone
           \/ UNCHANGED vars
<1>t. run \in Run /\ recs \subseteq Recs /\ InHand
    BY DEF TypeInv, TypeOK
<1> USE <1>t, RunFields
<1>1. ASSUME NEW g \in run.groups, BeginGroup(g) PROVE GroupTaken(g)
    <2> DEFINE snap == SeedRecords(run.ds, g)
    <2>1. /\ run'.snap = snap /\ run'.todo = {g} \X Wanted(Declared(run.ds, g), snap)
          /\ run'.doomed = Unwanted(Declared(run.ds, g), snap)
          /\ run'.ds = run.ds /\ run'.pc = run.pc /\ run'.rec = run.rec
        <3>1. PICK work :
                run' = [run EXCEPT
                    !.groups = @ \ {g}, !.snap = snap,
                    !.todo = {g} \X Wanted(Declared(run.ds, g), snap), !.work = work,
                    !.doomed = Unwanted(Declared(run.ds, g), snap)]
            BY <1>1 DEF BeginGroup
        <3> HIDE DEF snap
        <3> QED BY <3>1 DEF Run
    <2>2. run.pc = "record" /\ run.todo = {} /\ UNCHANGED <<rows, recs, own>>
        BY <1>1 DEF BeginGroup, GroupDone, Decides
    <2>3. Unwanted(Declared(run.ds, g), snap) \subseteq snap
        BY DEF Unwanted
    <2> QED BY <2>1, <2>2, <2>3 DEF GroupTaken
<1>2. ASSUME NEW x \in run.todo, Insert(x) \/ Recreate(x) \/ Update(x) PROVE RecordTaken(x)
    <2>1. /\ run'.pc = "input" /\ run'.ds = run.ds /\ run'.todo = run.todo \ {x}
          /\ run'.rec \in Records
          /\ run'.rec.ds = run.ds /\ run'.rec.group = x[1] /\ run'.rec.name = x[2]
          /\ run'.rec.id # NoId => \E r \in Known(x) : run'.rec.id = r.id
        BY <1>2, TakingRecord
    <2>2. /\ run.pc = "record" /\ run'.snap = run.snap /\ run'.doomed = run.doomed
          /\ recs' \subseteq recs /\ UNCHANGED <<rows, own>>
        BY <1>2 DEF Insert, Recreate, Update, Taking, Decides, data, Run
    <2>3. \A r \in recs \ recs' : RowOf(r) \notin rows
        BY <1>2 DEF Insert, Recreate, Update, Decides
    <2>4. run'.rec.id = NoId => Known(x) = {} \/ Recreate(x)
        <3>1. CASE Update(x)
            BY <2>1, <3>1 DEF Update, Known, Recs, Taking, Run
        <3> QED BY <1>2, <3>1 DEF Insert
    <2> QED BY <2>1, <2>2, <2>3, <2>4 DEF RecordTaken
<1>3. ASSUME NEW r \in run.keys, InputRelation(r) PROVE InputTaken
    <2>1. run.pc = "input" /\ run'.pc \in {"input", "panicked"}
        BY <1>3 DEF InputRelation, Run
    <2>2. /\ run'.ds = run.ds /\ run'.rec = run.rec /\ run'.snap = run.snap
          /\ run'.todo = run.todo /\ run'.doomed = run.doomed
        BY <1>3, ZenonT(30) DEF InputRelation, Run
    <2> QED BY <1>3, <2>1, <2>2 DEF InputTaken, InputRelation, data
<1>4. ASSUME SaveNewRow PROVE \E i \in Fresh(run.rec.group) : RowSaved(i)
    BY <1>4, RowSavedAs DEF SaveNewRow, Fresh
<1>5. ASSUME SaveUpdatedRow PROVE RecordDone
    BY <1>5 DEF SaveUpdatedRow, RecordDone, Run
<1>6. ASSUME Track PROVE RecordDone
    <2>1. /\ run'.pc = "record" /\ run'.ds = run.ds /\ run'.rec = None
          /\ run'.snap = run.snap /\ run'.todo = run.todo /\ run'.doomed = run.doomed
        BY <1>6 DEF Track, Run
    <2> QED BY <1>6, <2>1 DEF Track, RecordDone, data, InHand
<1> QED BY <1>1, <1>2, <1>3, <1>4, <1>5, <1>6 DEF Noisy

\* The steps that take up, save and track a record of the files keep the
\* invariant.
LEMMA NoisyKeeps ==
    ASSUME Inv, TypeInv', Noisy
    PROVE  Inv'
<1>t. /\ TypeInv /\ OneRecordPerName /\ Books /\ OwnRowsStay /\ Apart /\ Deleted
      /\ InHand /\ run \in Run /\ run' \in Run
      /\ recs \subseteq Recs /\ own \subseteq Rows
    BY DEF Inv, TypeInv, TypeOK
<1> USE <1>t, RunFields
<1>1. ASSUME NEW g \in run.groups, GroupTaken(g) PROVE Inv'
    <2>1. \A x \in run'.todo : x[1] = g
        BY <1>1 DEF GroupTaken
    <2>2. run'.snap = {r \in recs : r.ds = run.ds /\ r.group = g} /\ run'.doomed \subseteq recs
        BY <1>1 DEF GroupTaken, SeedRecords
    <2>3. Books'
        BY <1>1, <2>1, <2>2 DEF GroupTaken, Books, Upserting, OneRecordPerName, Found
    <2>4. Apart'
        BY <1>1, <2>2 DEF GroupTaken, Apart
    <2> QED BY <1>1, <2>3, <2>4 DEF GroupTaken, Inv, OneRecordPerName, OwnRowsStay, Deleted
<1>2. ASSUME NEW x \in run.todo, RecordTaken(x) PROVE Inv'
    <2>1. x = <<x[1], x[2]>>
        OBVIOUS
    <2>2. /\ \A r \in run.snap : r.ds = run.ds /\ r.group = x[1]
          /\ Found(run.ds, x[1], x[2]) \subseteq run.snap
        BY DEF Books
    <2>3. run'.rec.id = NoId => {r \in recs' : r.ds = run.ds /\ r.group = x[1] /\ r.name = x[2]} = {}
        <3>1. CASE Known(x) \intersect recs' = {}
            BY <1>2, <2>2, <3>1 DEF RecordTaken, Known, Found
        <3>2. CASE Recreate(x)
            BY <2>2, <3>2 DEF Recreate, Known, Found, Books
        <3> QED BY <1>2, <3>1, <3>2 DEF RecordTaken
    <2>4. Books'
        <3>1. \A r, s \in run'.snap : <<r.ds, r.group, r.name>> = <<s.ds, s.group, s.name>> => r = s
            BY <1>2 DEF RecordTaken, Books
        <3>2. \A y \in run'.todo :
                /\ \A r \in run'.snap : r.ds = run'.ds /\ r.group = y[1]
                /\ {r \in recs' : r.ds = run'.ds /\ r.group = y[1] /\ r.name = y[2]} \subseteq run'.snap
            BY <1>2 DEF RecordTaken, Books, Found
        <3>3. run'.pc = "input" /\ <<run'.rec.group, run'.rec.name>> \notin run'.todo
            BY <1>2, <2>1 DEF RecordTaken
        <3> QED BY <1>2, <2>3, <3>1, <3>2, <3>3 DEF RecordTaken, Books, Upserting, Found
    <2>5. Apart'
        <3>1. \A r \in recs' \union run'.snap \union run'.doomed : RowOf(r) \notin own'
            BY <1>2 DEF RecordTaken, Apart
        <3>2. RowOf(run'.rec) \notin own'
            <4>1. CASE run'.rec.id = NoId
                BY <1>2, <4>1, IdsAssumption DEF RecordTaken, RowOf, Rows
            <4>2. CASE run'.rec.id # NoId
                BY <1>2, <2>2, <4>2 DEF RecordTaken, RowOf, Apart, Known
            <4> QED BY <4>1, <4>2
        <3> QED BY <3>1, <3>2 DEF Apart, RowOf
    <2> QED BY <1>2, <2>4, <2>5 DEF RecordTaken, Inv, OneRecordPerName, OwnRowsStay, Deleted
<1>3. ASSUME InputTaken PROVE Inv'
    <2>1. Books'
        BY <1>3 DEF InputTaken, Books, Upserting, Found
    <2> QED BY <1>3, <2>1 DEF InputTaken, Inv, OneRecordPerName, OwnRowsStay, Deleted, Apart
<1>4. ASSUME NEW i \in Fresh(run.rec.group), RowSaved(i) PROVE Inv'
    <2>1. <<run.rec.group, i>> \notin rows /\ \A r \in recs : RowOf(r) # <<run.rec.group, i>>
        BY DEF Fresh, FreshIds
    <2>2. Books'
        BY <1>4, <2>1 DEF RowSaved, Inserting, Books, Upserting, Found, TrackedRows, RowOf
    <2>3. <<run.rec.group, i>> \notin own
        BY <2>1 DEF OwnRowsStay
    <2>4. Apart'
        BY <1>4, <2>3 DEF RowSaved, Apart, RowOf
    <2> QED BY <1>4, <2>2, <2>4 DEF RowSaved, Inv, OneRecordPerName, OwnRowsStay, Deleted
<1>5. ASSUME RecordDone PROVE Inv'
    <2>1. ASSUME run.pc = "track" PROVE run.rec \in Recs
        BY <2>1 DEF InHand
    <2>2. ASSUME run.pc = "track", NEW r \in recs
          PROVE  /\ <<r.ds, r.group, r.name>> # <<run.rec.ds, run.rec.group, run.rec.name>>
                 /\ RowOf(r) # RowOf(run.rec)
        BY <2>2 DEF Books, Found, TrackedRows
    <2>3. OneRecordPerName'
        BY <1>5, <2>2 DEF RecordDone, OneRecordPerName, RowOf
    <2>4. \A x \in run.todo : x # <<run.rec.group, run.rec.name>> /\ x = <<x[1], x[2]>>
        BY <1>5 DEF RecordDone, Books
    <2>5. \A x \in run'.todo :
            {r \in recs' : r.ds = run'.ds /\ r.group = x[1] /\ r.name = x[2]} \subseteq run'.snap
        BY <1>5, <2>4 DEF RecordDone, Books, Found
    <2>6. Books'
        BY <1>5, <2>5 DEF RecordDone, Books, Upserting, Found
    <2>7. Apart'
        BY <1>5, <2>1, NoneAssumption DEF RecordDone, Apart, Recs
    <2> QED BY <1>5, <2>3, <2>6, <2>7 DEF RecordDone, Inv, OwnRowsStay, Deleted
<1>6. ASSUME UNCHANGED vars PROVE Inv'
    BY <1>6 DEF vars, Inv, OneRecordPerName, Books, Upserting, OwnRowsStay, Apart, Deleted, TrackedRows, Found
<1> QED BY NoisySteps, <1>1, <1>2, <1>3, <1>4, <1>5, <1>6

\* A row that the application creates has a key that no run knows.
LEMMA CreateKeeps ==
    ASSUME Inv, TypeInv', NEW g \in Models, AppCreate(g)
    PROVE  Inv'
<1>t. OneRecordPerName /\ Books /\ OwnRowsStay /\ Apart /\ Deleted /\ InHand
    BY DEF Inv, TypeInv
<1>1. PICK i \in Fresh(g) : rows' = rows \union {<<g, i>>} /\ own' = own \union {<<g, i>>}
    BY DEF AppCreate
<1>2. \A r \in recs : RowOf(r) # <<g, i>>
    BY <1>1 DEF Fresh, FreshIds
<1>3. run = Idle /\ UNCHANGED <<run, recs>>
    BY <1>t DEF AppCreate, InHand
<1>4. run.pc = "idle" /\ run.snap = {} /\ run.doomed = {} /\ run.rec = None
    BY <1>3 DEF Idle
<1>5. Apart'
    BY <1>t, <1>1, <1>2, <1>3, <1>4, NoneAssumption DEF Apart
<1>6. Books' /\ OneRecordPerName'
    BY <1>t, <1>3 DEF Books, Upserting, OneRecordPerName, TrackedRows, Found
<1> QED BY <1>t, <1>1, <1>3, <1>4, <1>5, <1>6 DEF Inv, OwnRowsStay, Deleted

\* The invariant is inductive.
LEMMA InvKept == Inv /\ [Next]_vars => Inv'
<1> SUFFICES ASSUME Inv, [Next]_vars PROVE Inv'
    OBVIOUS
<1>1. TypeInv'
    BY RunType, InHandKept, TablesTypeKept DEF Inv, TypeInv, TypeOK, TablesType
<1> QED BY <1>1, QuietOrNoisy, QuietOrCreate, QuietKeeps, NoisyKeeps, CreateKeeps DEF Inv, Books

\* The invariant holds in every state.
LEMMA Invariant == Spec => []Inv
<1>1. Init => Inv
    <2> SUFFICES ASSUME Init PROVE Inv
        OBVIOUS
    <2>1. TypeInv
        BY InitType
    <2>2. /\ recs = {} /\ own = {} /\ run.todo = {} /\ run.snap = {} /\ run.doomed = {}
          /\ run.rec = None /\ run.pc = "idle"
        BY DEF Init, Idle
    <2> QED BY <2>1, <2>2, NoneAssumption
            DEF Inv, OneRecordPerName, Books, Upserting, OwnRowsStay, Apart, Deleted
<1> QED BY <1>1, InvKept, PTL DEF Spec

\* However runs are killed and repeated, whatever the application deletes and
\* the user edits in between, and for every schema: no record of a data set is
\* tracked twice, and no row by two records.
THEOREM SeederOneRecordPerName == Spec => []OneRecordPerName
<1>1. Inv => OneRecordPerName
    BY DEF Inv
<1> QED BY <1>1, Invariant, PTL

\* No run, of any length and over any files, deletes a row that the application
\* created.
THEOREM SeederOwnRowsStay == Spec => []OwnRowsStay
<1>1. Inv => OwnRowsStay
    BY DEF Inv
<1> QED BY <1>1, Invariant, PTL

\* A row in the tables stops being tracked only when its model is gone or its
\* data set is forgotten: a crash loses at most the row in flight.
THEOREM SeederLosesOnlyInFlight == Spec => LosesOnlyInFlight
<1> DEFINE Kept == \A row \in rows \intersect TrackedRows :
                    row \in rows' /\ row[1] \in file.live =>
                        row \in TrackedRows' \/ run.pc = "forget"
<1>1. Inv /\ [Next]_vars => Kept
    <2> SUFFICES ASSUME Inv, [Next]_vars, NEW r \in recs, r \notin recs',
                        RowOf(r) \in rows, RowOf(r) \in rows', r.group \in file.live
                 PROVE  run.pc = "forget"
        BY DEF TrackedRows, RowOf
    <2>1. CASE Quiet
        BY <2>1 DEF Quiet
    <2>2. CASE Noisy
        <3>1. ASSUME NEW x, Recreate(x) PROVE FALSE
            BY <3>1 DEF Recreate
        <3>2. CASE recs \subseteq recs'
            BY <3>2
        <3> QED BY <2>2, <3>1, <3>2
                DEF Noisy, BeginGroup, Insert, Update, InputRelation, SaveNewRow, SaveNewRowAs,
                    SaveUpdatedRow, Track, Decides, data, vars
    <2>3. ASSUME NEW g \in Models, AppCreate(g) PROVE FALSE
        BY <2>3 DEF AppCreate
    <2> QED BY <2>1, <2>2, <2>3, QuietOrNoisy, QuietOrCreate DEF Inv, Books
<1> QED BY <1>1, Invariant, PTL DEF Spec, LosesOnlyInFlight
-------------------------------------------------------------------------------
\* A foreign key column of a row holds one value, and so does the input of the
\* record in hand; only rows that are there have foreign keys.
KeysInPlace ==
    /\ \A x, y \in fk : x[1] = y[1] /\ x[2] = y[2] => x = y
    /\ \A x \in fk : x[1] \in rows
    /\ \A x, y \in run.fks : x[1] = y[1] => x = y

\* The row of the record in hand is there from the read that finds it to the
\* writes that follow: only the run itself deletes rows while it runs.
HasRow ==
    \/ run.pc \in {"refs", "relate"}
    \/ run.pc = "input" /\ run.rec.id # NoId
    \/ run.keys # {} /\ run.pc \notin {"input", "panicked"}
RowInHand == HasRow => RowOf(run.rec) \in rows

\* Whatever the run does next, it still has the row it relies on.
LEMMA RowInHandKept == Inv /\ RowInHand /\ [Next]_vars => RowInHand'
<1> SUFFICES ASSUME Inv, RowInHand, [Next]_vars PROVE RowInHand'
    OBVIOUS
<1>h. /\ TypeInv /\ run \in Run /\ InHand /\ run' \in Run /\ InHand'
      /\ recs \subseteq Recs /\ Books
    BY RunType, InHandKept DEF Inv, TypeInv, TypeOK
<1> USE <1>h, RunFields
<1>1. ASSUME run'.pc \notin {"input", "relation", "refs", "relate", "cut", "uncut"}
      PROVE  RowInHand'
    BY <1>1 DEF RowInHand, HasRow, InHand
<1>2. ASSUME run'.keys = {}, run'.pc \in {"relation", "cut", "uncut"} PROVE RowInHand'
    BY <1>2 DEF RowInHand, HasRow
<1>3. ASSUME HasRow, run'.rec = run.rec, rows' = rows PROVE RowInHand'
    BY <1>3 DEF RowInHand, RowOf
<1>4. ASSUME ~HasRow, run.pc \in {"cut", "uncut"}, run'.pc \in {"cut", "uncut"},
             run'.keys = run.keys
      PROVE  RowInHand'
    BY <1>2, <1>4 DEF HasRow
<1>5. ASSUME Setup PROVE RowInHand'
    <2>1. CASE EndGroups
        <3>1. run'.pc \in {"dataset", "relation"} /\ run'.keys = run.keys /\ run.pc = "record"
            BY <2>1 DEF EndGroups, GroupDone, Run
        <3> QED BY <3>1, <1>1, <1>2 DEF InHand
    <2>2. CASE Exit
        <3>1. run'.pc = "idle"
            BY <2>2 DEF Exit, Idle
        <3> QED BY <3>1, <1>1
    <2>3. ASSUME NEW d \in Datasets, BeginDataset(d) PROVE RowInHand'
        <3>1. run'.pc \in {"record", "panicked"}
            BY <2>3 DEF BeginDataset, Run
        <3> QED BY <3>1, <1>1
    <2>4. ASSUME NEW g \in run.groups, BeginGroup(g) PROVE RowInHand'
        <3>1. run'.pc = "record"
            BY <2>4 DEF BeginGroup, SeedRecords, GroupDone, Run
        <3> QED BY <3>1, <1>1
    <2>5. CASE BeginForget \/ Finish
        <3>1. run'.pc \in {"forget", "done"}
            BY <2>5 DEF BeginForget, Finish, Run
        <3> QED BY <3>1, <1>1
    <2> QED BY <1>5, <2>1, <2>2, <2>3, <2>4, <2>5 DEF Setup
<1>6. ASSUME Upsert PROVE RowInHand'
    <2>1. ASSUME NEW x \in run.todo, Insert(x) \/ Recreate(x) PROVE RowInHand'
        <3>1. run' = Taking(x, NoId)
            BY <2>1 DEF Insert, Recreate
        <3>2. run'.pc = "input" /\ run'.rec.id = NoId
            BY <3>1 DEF Taking, Run
        <3> QED BY <3>2 DEF RowInHand, HasRow
    <2>2. ASSUME NEW x \in run.todo, Update(x) PROVE RowInHand'
        <3>1. PICK r \in Known(x) : RowOf(r) \in rows /\ run' = Taking(x, r.id)
            BY <2>2 DEF Update
        <3>2. r.group = x[1]
            BY <3>1 DEF Known, Books
        <3>3. run'.rec = [ds |-> run.ds, group |-> x[1], name |-> x[2], id |-> r.id]
            BY <3>1 DEF Taking, Run
        <3>4. rows' = rows
            BY <2>2 DEF Update, Decides
        <3> QED BY <3>1, <3>2, <3>3, <3>4 DEF RowInHand, RowOf
    <2>3. ASSUME NEW r \in run.keys, InputRelation(r) PROVE RowInHand'
        <3>1. /\ run.pc = "input" /\ run'.pc \in {"input", "panicked"}
              /\ run'.rec = run.rec /\ rows' = rows
            BY <2>3 DEF InputRelation, Run, data
        <3>2. CASE run'.pc = "input" /\ run.rec.id # NoId
            BY <3>1, <3>2, <1>3 DEF HasRow
        <3> QED BY <3>1, <3>2, <1>1 DEF RowInHand, HasRow
    <2>4. CASE SaveNewRow
        <3>1. run'.pc = "track"
            BY <2>4, NewRowType DEF SaveNewRow, Fresh
        <3> QED BY <3>1, <1>1
    <2>5. CASE SaveUpdatedRow \/ Track
        <3>1. run'.pc = "record"
            BY <2>5 DEF SaveUpdatedRow, Track, Run
        <3> QED BY <3>1, <1>1
    <2> QED BY <1>6, <2>1, <2>2, <2>3, <2>4, <2>5 DEF Upsert
<1>7. ASSUME Remove PROVE RowInHand'
    <2>1. ASSUME NEW r \in run.doomed, RemoveGone(r) PROVE RowInHand'
        <3>1. run'.pc \in {"record", "gone"}
            BY <2>1 DEF RemoveGone, Removing, Run
        <3> QED BY <3>1, <1>1
    <2>2. ASSUME NEW r \in run.doomed, BeginRemove(r) PROVE RowInHand'
        <3>1. run'.pc = "cut" /\ run'.keys = run.keys /\ run.pc \in {"record", "gone"}
            BY <2>2 DEF BeginRemove, Removing, Run
        <3> QED BY <3>1, <1>2 DEF InHand
    <2>3. CASE RemoveRow
        <3>1. run'.pc = "untrack"
            BY <2>3 DEF RemoveRow, Run
        <3> QED BY <3>1, <1>1
    <2>4. CASE Untrack
        <3>1. run'.pc \in {"record", "relation", "gone"} /\ run'.keys = run.keys /\ run.pc = "untrack"
            BY <2>4 DEF Untrack, Run
        <3> QED BY <3>1, <1>1, <1>2 DEF InHand
    <2>5. CASE BeginGone \/ BeginStale \/ \E c \in run.cuts : RemoveStale(c)
        <3>1. run'.pc \in {"gone", "stale"}
            BY <2>5 DEF BeginGone, BeginStale, RemoveStale, Run
        <3> QED BY <3>1, <1>1
    <2>6. ASSUME NEW x, ForgetRecord(x) \/ ForgetRelation(x) PROVE RowInHand'
        <3>1. run'.pc = "forget"
            BY <2>6 DEF ForgetRecord, ForgetRelation
        <3> QED BY <3>1, <1>1
    <2> QED BY <1>7, <2>1, <2>2, <2>3, <2>4, <2>5, <2>6 DEF Remove
<1>8. ASSUME Relations PROVE RowInHand'
    <2>1. ASSUME NEW c \in run.cuts, CutPanic(c) \/ CutRecord(c) \/ CutLink(c) PROVE RowInHand'
        <3>1. /\ run.pc = "cut" /\ run'.pc \in {"cut", "uncut", "panicked"} /\ rows' = rows
              /\ run'.rec = run.rec /\ run'.keys = run.keys
            <4>1. CASE CutPanic(c)
                BY <4>1 DEF CutPanic, Cutting, Decides, Run
            <4>2. CASE CutRecord(c)
                BY <4>2 DEF CutRecord, Cutting, data, Run
            <4>3. CASE CutLink(c)
                BY <4>3 DEF CutLink, Cutting, Run
            <4> QED BY <2>1, <4>1, <4>2, <4>3
        <3> QED BY <3>1, <1>1, <1>3, <1>4
    <2>2. CASE Uncut
        <3>1. /\ run.pc = "uncut" /\ run'.pc = "cut" /\ rows' = rows
              /\ run'.rec = run.rec /\ run'.keys = run.keys
            BY <2>2 DEF Uncut, data, Run
        <3> QED BY <3>1, <1>3, <1>4
    <2>3. ASSUME NEW x \in run.work, BeginRelations(x) PROVE RowInHand'
        <3>1. CASE run'.pc = "panicked"
            BY <3>1, <1>1
        <3>2. ASSUME run'.pc # "panicked"
              PROVE  \E r \in Found(run.ds, x[1], x[2]) : RowOf(r) \in rows /\ run'.rec = r
            BY <2>3, <3>2, ZenonT(30) DEF BeginRelations, Run, Found
        <3>3. rows' = rows
            BY <2>3 DEF BeginRelations, Decides
        <3> QED BY <3>1, <3>2, <3>3 DEF RowInHand
    <2>4. ASSUME NEW r \in run.keys, BeginRelation(r) \/ BeginCutRelation(r) PROVE RowInHand'
        <3>1. run'.rec = run.rec /\ rows' = rows /\ run.pc \in {"relation", "cut"}
            BY <2>4 DEF BeginRelation, BeginCutRelation, AtRelation, Decides, Run
        <3> QED BY <3>1, <1>3 DEF HasRow
    <2>5. ASSUME NEW m \in run.refs, LinkPanic(m) \/ LinkRef(m) PROVE RowInHand'
        <3>1. run'.rec = run.rec /\ rows' = rows /\ run.pc = "refs"
            BY <2>5 DEF LinkPanic, LinkRef, Decides, Run
        <3> QED BY <3>1, <1>3 DEF HasRow
    <2>6. CASE Relate
        <3>1. run'.rec = run.rec /\ rows' = rows /\ run.pc = "relate"
            BY <2>6 DEF Relate, data, Run
        <3> QED BY <3>1, <1>3 DEF HasRow
    <2> QED BY <1>8, <2>1, <2>2, <2>3, <2>4, <2>5, <2>6 DEF Relations
<1>9. ASSUME Environment PROVE RowInHand'
    <2>1. run' = Idle \/ (run' = run /\ run.pc = "idle")
        BY <1>9 DEF Environment, Crash, Edit, Migrate, Purge, AppCreate, AppDelete
    <2>2. run'.pc = "idle"
        BY <2>1 DEF Idle
    <2> QED BY <2>2, <1>1
<1>10. ASSUME NEW start \in Starts, Begin(start) PROVE RowInHand'
    <2>1. run'.pc = "dataset"
        BY <1>10 DEF Begin, Idle
    <2> QED BY <2>1, <1>1
<1>11. CASE UNCHANGED vars
    BY <1>11 DEF RowInHand, HasRow, RowOf, vars
<1> QED BY <1>5, <1>6, <1>7, <1>8, <1>9, <1>10, <1>11 DEF Next, Step

\* Foreign keys are written by the save of an input, by a link and by what cuts
\* it or deletes rows: each leaves one value to a column and none to a row that
\* is not there.
LEMMA KeysKept == Inv /\ RowInHand /\ KeysInPlace /\ [Next]_vars => KeysInPlace'
<1> SUFFICES ASSUME Inv, RowInHand, KeysInPlace, [Next]_vars PROVE KeysInPlace'
    OBVIOUS
<1>h. /\ TypeInv /\ run \in Run /\ InHand /\ run' \in Run
      /\ recs \subseteq Recs /\ rows \subseteq Rows /\ fk \subseteq Rows \X Columns \X Rows
    BY RunType DEF Inv, TypeInv, TypeOK
<1> USE <1>h, RunFields
<1>1. ASSUME rows' = rows, fk' = fk, run'.fks \subseteq run.fks PROVE KeysInPlace'
    BY <1>1 DEF KeysInPlace
<1>2. ASSUME fk' \subseteq fk, \A x \in fk' : x[1] \in rows', run'.fks \subseteq run.fks
      PROVE  KeysInPlace'
    BY <1>2 DEF KeysInPlace
<1>5. ASSUME Setup PROVE KeysInPlace'
    <2>1. rows' = rows /\ fk' = fk
        BY <1>5 DEF Setup, BeginDataset, BeginGroup, EndGroups, BeginForget, Finish, Exit, Decides
    <2>2. ASSUME NEW x, BeginDataset(x) \/ BeginGroup(x) \/ EndGroups \/ BeginForget \/ Finish
          PROVE  run'.fks = run.fks
        BY <2>2 DEF BeginDataset, BeginGroup, SeedRecords, EndGroups, BeginForget, Finish, Run
    <2>3. CASE Exit
        BY <2>1, <2>3, <1>1 DEF Exit, Idle
    <2> QED BY <2>1, <2>2, <2>3, <1>1, <1>5 DEF Setup
<1>6. ASSUME Upsert PROVE KeysInPlace'
    <2>1. ASSUME NEW x \in run.todo, Insert(x) \/ Recreate(x) \/ Update(x) PROVE KeysInPlace'
        <3>1. run'.fks = {}
            BY <2>1 DEF Insert, Recreate, Update, Taking, Run
        <3>2. rows' = rows /\ fk' = fk
            BY <2>1 DEF Insert, Recreate, Update, Decides, data
        <3> QED BY <3>1, <3>2, <1>1
    <2>2. ASSUME NEW r \in run.keys, InputRelation(r) PROVE KeysInPlace'
        <3>1. rows' = rows /\ fk' = fk
            BY <2>2 DEF InputRelation, data
        <3>2. \/ run'.fks = run.fks
              \/ \E to : run'.fks = {x \in run.fks : x[1] # Schema[r].via}
                                        \union {<<Schema[r].via, to>>}
            BY <2>2 DEF InputRelation, Run
        <3> QED BY <3>1, <3>2 DEF KeysInPlace
    <2>3. CASE SaveNewRow
        <3>1. PICK i \in FreshIds(run.rec.group) : SaveNewRowAs(i)
            BY <2>3 DEF SaveNewRow, Fresh
        <3> DEFINE row == <<run.rec.group, i>>
        <3>2. row \notin rows
            BY DEF FreshIds
        <3>3. /\ rows' = rows \union {row}
              /\ fk' = fk \union {<<row, x[1], x[2]>> : x \in run.fks}
              /\ run'.fks = {}
            BY <3>1 DEF SaveNewRowAs, Run
        <3> HIDE DEF row
        <3> QED BY <3>2, <3>3 DEF KeysInPlace
    <2>4. CASE SaveUpdatedRow
        <3> DEFINE row == RowOf(run.rec)
        <3>1. row \in rows
            BY <2>4 DEF SaveUpdatedRow, RowInHand, HasRow
        <3>2. /\ rows' = rows /\ run'.fks = {}
              /\ fk' = {x \in fk : x[1] # row} \union {<<row, x[1], x[2]>> : x \in run.fks}
            BY <2>4 DEF SaveUpdatedRow, Run
        <3> HIDE DEF row
        <3> QED BY <3>1, <3>2 DEF KeysInPlace
    <2>5. CASE Track
        BY <2>5, <1>1 DEF Track, data, Run
    <2> QED BY <1>6, <2>1, <2>2, <2>3, <2>4, <2>5 DEF Upsert
<1>7. ASSUME Remove PROVE KeysInPlace'
    <2>1. CASE RemoveRow
        <3>1. run'.fks = run.fks
            BY <2>1 DEF RemoveRow, Run
        <3>2. fk' \subseteq fk /\ \A x \in fk' : x[1] \in rows'
            BY <2>1 DEF RemoveRow, KeysInPlace
        <3> QED BY <3>1, <3>2, <1>2
    <2>2. ASSUME NEW r, RemoveGone(r) \/ BeginRemove(r) \/ Untrack \/ BeginGone \/ BeginStale
                        \/ RemoveStale(r) \/ ForgetRecord(r) \/ ForgetRelation(r)
          PROVE  KeysInPlace'
        <3>1. rows' = rows /\ fk' = fk
            BY <2>2 DEF RemoveGone, BeginRemove, Untrack, BeginGone, BeginStale, RemoveStale,
                        ForgetRecord, ForgetRelation, Decides, data
        <3>2. run'.fks = run.fks
            BY <2>2 DEF RemoveGone, BeginRemove, Untrack, BeginGone, BeginStale, RemoveStale,
                        ForgetRecord, ForgetRelation, Run
        <3> QED BY <3>1, <3>2, <1>1
    <2> QED BY <1>7, <2>1, <2>2 DEF Remove
<1>8. ASSUME Relations PROVE KeysInPlace'
    <2>1. ASSUME NEW c \in run.cuts, CutLink(c) PROVE KeysInPlace'
        <3>1. run'.fks = run.fks /\ rows' = rows
            BY <2>1 DEF CutLink, Run
        <3>2. fk' \subseteq fk
            BY <2>1 DEF CutLink, Null
        <3> QED BY <3>1, <3>2, <1>2 DEF KeysInPlace
    <2>2. ASSUME NEW m \in run.refs, LinkRef(m) PROVE KeysInPlace'
        <3>1. run'.fks = run.fks /\ rows' = rows
            BY <2>2 DEF LinkRef, Run
        <3>2. PICK that \in rows : SetLink(run.rel, RowOf(run.rec), that)
            BY <2>2 DEF LinkRef, FoundRows
        <3>3. RowOf(run.rec) \in rows /\ run.rel \in Rels
            BY <2>2 DEF LinkRef, RowInHand, HasRow, InHand
        <3>4. Schema[run.rel].kind \in {"required", "optional", "foreign", "join"}
            BY <3>3, SchemaAssumption DEF Relation
        <3>5. \E row \in rows : \E to, col : fk' \in {fk, Pointing(row, col, to)}
            BY <3>2, <3>3, <3>4 DEF SetLink
        <3>6. ASSUME NEW row \in rows, NEW to, NEW col, fk' = Pointing(row, col, to)
              PROVE  KeysInPlace'
            BY <3>1, <3>6 DEF KeysInPlace, Pointing, Null
        <3> QED BY <3>1, <3>5, <3>6, <1>1
    <2>3. ASSUME NEW x, \/ CutPanic(x) \/ CutRecord(x) \/ Uncut \/ BeginRelations(x)
                        \/ BeginRelation(x) \/ BeginCutRelation(x) \/ LinkPanic(x) \/ Relate
          PROVE  KeysInPlace'
        <3>1. rows' = rows /\ fk' = fk
            BY <2>3 DEF CutPanic, CutRecord, Uncut, BeginRelations, BeginRelation,
                        BeginCutRelation, LinkPanic, Relate, Decides, data
        <3>2. run'.fks = run.fks
            BY <2>3, ZenonT(30) DEF CutPanic, CutRecord, Uncut, BeginRelations, BeginRelation,
                        BeginCutRelation, LinkPanic, Relate, Run
        <3> QED BY <3>1, <3>2, <1>1
    <2> QED BY <1>8, <2>1, <2>2, <2>3 DEF Relations
<1>9. ASSUME Environment PROVE KeysInPlace'
    <2>1. run' = Idle \/ run' = run
        BY <1>9 DEF Environment, Crash, Edit, Migrate, Purge, AppCreate, AppDelete
    <2>2. fk' \subseteq fk /\ \A x \in fk' : x[1] \in rows'
        BY <1>9 DEF Environment, Crash, Edit, Migrate, Purge, AppCreate, AppDelete, Without,
                    Decides, KeysInPlace, data
    <2>3. run'.fks \subseteq run.fks
        BY <2>1 DEF Idle
    <2> QED BY <2>2, <2>3, <1>2
<1>10. ASSUME NEW start \in Starts, Begin(start) PROVE KeysInPlace'
    BY <1>10, <1>1 DEF Begin, Idle, Decides
<1>11. CASE UNCHANGED vars
    BY <1>11, <1>1 DEF vars
<1> QED BY <1>5, <1>6, <1>7, <1>8, <1>9, <1>10, <1>11 DEF Next, Step

\* A foreign key that a run makes null, while it cuts the relations of a record
\* and deletes its row, is of this row or points to it, whatever links later
\* runs, edited files and the application have set: the link that was looked up
\* is the only value of the column that is made null.
THEOREM SeederCutsItsOwn == Spec => CutsItsOwn
<1> DEFINE OwnKeys == run.pc = "cut" => \A x \in fk \ fk' : RowOf(run.rec) \in {x[1], x[3]}
           KInv == Inv /\ RowInHand /\ KeysInPlace
<1>1. Init => RowInHand /\ KeysInPlace
    BY DEF Init, RowInHand, HasRow, KeysInPlace, Idle
<1>2. KInv /\ [Next]_vars => KInv'
    BY InvKept, RowInHandKept, KeysKept
<1>3. KInv /\ [Next]_vars => OwnKeys
    <2> SUFFICES ASSUME KInv, [Next]_vars, run.pc = "cut", NEW x \in fk, x \notin fk'
                 PROVE  RowOf(run.rec) \in {x[1], x[3]}
        OBVIOUS
    <2>1. ASSUME NEW c \in run.cuts, CutLink(c) PROVE x[3] = RowOf(run.rec)
        <3>1. PICK other \in OtherRows(c) :
                <<other, Schema[CutBy(c)].via, RowOf(run.rec)>> \in fk
                /\ fk' = Null(other, Schema[CutBy(c)].via)
            BY <2>1 DEF CutLink, Linked
        <3>2. x[1] = other /\ x[2] = Schema[CutBy(c)].via
            BY <3>1 DEF Null
        <3> QED BY <3>1, <3>2 DEF KeysInPlace
    <2>2. CASE RemoveRow
        BY <2>2 DEF RemoveRow
    <2>3. CASE Setup \/ UNCHANGED vars \/ \E start \in Starts : Begin(start)
        BY <2>3 DEF Setup, BeginDataset, BeginGroup, EndGroups, BeginForget, Finish, Exit, Begin,
                    Decides, vars
    <2>4. CASE Upsert
        BY <2>4 DEF Upsert, Insert, Recreate, Update, InputRelation, SaveNewRow, SaveNewRowAs,
                    Inserting, SaveUpdatedRow, Track
    <2>5. CASE Remove
        BY <2>2, <2>5 DEF Remove, RemoveGone, BeginRemove, Untrack, BeginGone, BeginStale,
                    RemoveStale, ForgetRecord, ForgetRelation, Decides, data
    <2>6. CASE Relations
        BY <2>1, <2>6 DEF Relations, CutPanic, CutRecord, Uncut, BeginRelations, BeginRelation,
                    BeginCutRelation, LinkPanic, LinkRef, Relate, Decides, data
    <2>7. CASE Environment
        BY <2>7 DEF Environment, Crash, Edit, Migrate, Purge, AppCreate, AppDelete, Decides
    <2> QED BY <2>3, <2>4, <2>5, <2>6, <2>7 DEF Next, Step
<1> QED BY <1>1, <1>2, <1>3, Invariant, PTL DEF Spec, CutsItsOwn
===============================================================================
