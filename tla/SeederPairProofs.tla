---------------------------- MODULE SeederPairProofs ----------------------------
(***************************************************************************)
(* Two seeders on one database, for every schema without relations, every  *)
(* set of user files and every interleaving of their steps, crashes, edits *)
(* and application writes: neither deletes a row of the application or     *)
(* lets go of a row that is there; without a Reseed no record has a third  *)
(* copy; a run that met no other brings the tables in line with the files, *)
(* and servers that autoseed at once leave nothing out.                    *)
(***************************************************************************)
EXTENDS SeederPair, FiniteSetTheorems, TLAPS

\* The lemmas about a seeder hold of each of the two.
PA == INSTANCE SeederCatalogProofs WITH run <- runA, file <- fileA
PB == INSTANCE SeederCatalogProofs WITH run <- runB, file <- fileB

\* What Seeder assumes of the constants holds of seeder A.
LEMMA AssumedA ==
    /\ PA!SchemaAssumption /\ PA!VersionsAssumption /\ PA!StartsAssumption
    /\ PA!IdsAssumption /\ PA!AppActsAssumption /\ PA!MayCrashAssumption /\ PA!NoneAssumption
<1>1. PA!Records = A!Records /\ PA!RelRecs = A!RelRecs
    BY DEF A!Records, PA!Records, A!RelRecs, PA!RelRecs, A!NoId, PA!NoId
<1>2. PA!SchemaAssumption
    BY SeederAssumptions DEF A!Relation, PA!Relation, A!Columns, PA!Columns
<1>3. PA!VersionsAssumption
    BY SeederAssumptions DEF A!File, PA!File, A!WellFormed, PA!WellFormed
<1>4. PA!StartsAssumption
    BY SeederAssumptions DEF A!Commands, PA!Commands, A!Scopes, PA!Scopes
<1>5. PA!IdsAssumption
    BY SeederAssumptions DEF A!NoId, PA!NoId
<1>6. PA!AppActsAssumption /\ PA!MayCrashAssumption
    BY SeederAssumptions
<1>7. PA!NoneAssumption
    BY <1>1, SeederAssumptions
<1> QED BY <1>2, <1>3, <1>4, <1>5, <1>6, <1>7

\* The steps of seeder A are those that the theorems of Seeder are about.
LEMMA SameA ==
    /\ \A start \in Starts : A!Begin(start) => PA!Begin(start)
    /\ A!Step => PA!Step
    /\ A!Crash => PA!Crash
    /\ \A f \in Versions : A!Edit(f) => PA!Edit(f)
    /\ \A g : A!FreshIds(g) = PA!FreshIds(g)
    /\ \A i : A!SaveNewRowAs(i) => PA!SaveNewRowAs(i)
    /\ PA!Inserting => A!Inserting
    /\ A!Init => PA!Init
<1>1. ASSUME NEW start PROVE A!Begin(start) => PA!Begin(start)
    BY DEF A!Begin, PA!Begin, A!Room, PA!Room, A!Cardinality, PA!Cardinality, A!RowOf, PA!RowOf,
           A!Selections, PA!Selections, A!Idle, PA!Idle, A!Decides, PA!Decides
<1>2. A!Setup => PA!Setup
    BY DEF A!Setup, PA!Setup, A!BeginDataset, PA!BeginDataset, A!BetweenDatasets,
           PA!BetweenDatasets, A!Orderable, PA!Orderable, A!Placed, PA!Placed, A!Cardinality,
           PA!Cardinality, A!Required, PA!Required, A!RelsOf, PA!RelsOf, A!Groups, PA!Groups,
           A!Decides, PA!Decides, A!BeginGroup, PA!BeginGroup, A!GroupDone, PA!GroupDone,
           A!Last, PA!Last, A!Level, PA!Level, A!First, PA!First, A!SeedRecords, PA!SeedRecords,
           A!Wanted, PA!Wanted, A!Declared, PA!Declared, A!HasLaterRelations,
           PA!HasLaterRelations, A!Unwanted, PA!Unwanted, A!EndGroups, PA!EndGroups,
           A!BeginForget, PA!BeginForget, A!Finish, PA!Finish, A!Exit, PA!Exit, A!Idle, PA!Idle
<1>3. A!Upsert => PA!Upsert
    BY DEF A!Upsert, PA!Upsert, A!Insert, PA!Insert, A!Known, PA!Known, A!Taking, PA!Taking,
           A!RequiredRefs, PA!RequiredRefs, A!RelsOf, PA!RelsOf, A!Refs, PA!Refs, A!NoId,
           PA!NoId, A!Decides, PA!Decides, A!Recreate, PA!Recreate, A!RowOf, PA!RowOf, A!data,
           PA!data, A!Update, PA!Update, A!InputRelation, PA!InputRelation, A!FoundRows,
           PA!FoundRows, A!Found, PA!Found, A!Remembering, PA!Remembering, A!Related,
           PA!Related, A!RelationRecord, PA!RelationRecord, A!SaveNewRow, PA!SaveNewRow,
           A!Inserting, PA!Inserting, A!Fresh, PA!Fresh, A!FreshIds, PA!FreshIds,
           A!SaveNewRowAs, PA!SaveNewRowAs, A!SaveUpdatedRow, PA!SaveUpdatedRow, A!Track,
           PA!Track
<1>4. A!Remove => PA!Remove
    BY DEF A!Remove, PA!Remove, A!RemoveGone, PA!RemoveGone, A!Removing, PA!Removing, A!RowOf,
           PA!RowOf, A!data, PA!data, A!BeginRemove, PA!BeginRemove, A!Touching, PA!Touching,
           A!Decides, PA!Decides, A!RemoveRow, PA!RemoveRow, A!Untrack, PA!Untrack, A!BeginGone,
           PA!BeginGone, A!AtRelation, PA!AtRelation, A!Groups, PA!Groups, A!BeginStale,
           PA!BeginStale, A!RemoveStale, PA!RemoveStale, A!ForgetRecord, PA!ForgetRecord,
           A!ForgetRelation, PA!ForgetRelation
<1>5. A!Relations => PA!Relations
    BY DEF A!Relations, PA!Relations, A!CutPanic, PA!CutPanic, A!Cutting, PA!Cutting,
           A!CutPanics, PA!CutPanics, A!CutBy, PA!CutBy, A!AsA, PA!AsA, A!RelsOf, PA!RelsOf,
           A!HasKey, PA!HasKey, A!OtherTracked, PA!OtherTracked, A!Found, PA!Found, A!Decides,
           PA!Decides, A!CutRecord, PA!CutRecord, A!OtherRows, PA!OtherRows, A!FoundRows,
           PA!FoundRows, A!RowOf, PA!RowOf, A!Linked, PA!Linked, A!data, PA!data, A!CutLink,
           PA!CutLink, A!Null, PA!Null, A!Uncut, PA!Uncut, A!BeginRelations, PA!BeginRelations,
           A!AtRelation, PA!AtRelation, A!First, PA!First, A!Level, PA!Level, A!Placed,
           PA!Placed, A!Cardinality, PA!Cardinality, A!Required, PA!Required, A!Groups,
           PA!Groups, A!Refs, PA!Refs, A!BeginRelation, PA!BeginRelation, A!BeginCutRelation,
           PA!BeginCutRelation, A!TouchingBy, PA!TouchingBy, A!LinkPanic, PA!LinkPanic,
           A!LinkPanics, PA!LinkPanics, A!LinkRef, PA!LinkRef, A!SetLink, PA!SetLink,
           A!Pointing, PA!Pointing, A!Relate, PA!Relate, A!Remembering, PA!Remembering,
           A!Related, PA!Related, A!RelationRecord, PA!RelationRecord
<1>6. A!Crash => PA!Crash
    BY DEF A!Crash, PA!Crash, A!Room, PA!Room, A!Cardinality, PA!Cardinality, A!RowOf, PA!RowOf,
           A!Idle, PA!Idle, A!Decides, PA!Decides
<1>7. ASSUME NEW f PROVE A!Edit(f) => PA!Edit(f)
    BY DEF A!Edit, PA!Edit, A!data, PA!data
<1>8. ASSUME NEW g PROVE A!FreshIds(g) = PA!FreshIds(g)
    BY DEF A!FreshIds, PA!FreshIds, A!RowOf, PA!RowOf
<1>9. ASSUME NEW i PROVE A!SaveNewRowAs(i) => PA!SaveNewRowAs(i)
    BY DEF A!SaveNewRowAs, PA!SaveNewRowAs, A!Inserting, PA!Inserting, A!NoId, PA!NoId
<1>10. PA!Inserting => A!Inserting
    BY DEF A!Inserting, PA!Inserting, A!NoId, PA!NoId
<1>11. A!Init => PA!Init
    BY DEF A!Init, PA!Init, A!Idle, PA!Idle
<1> QED BY <1>1, <1>2, <1>3, <1>4, <1>5, <1>6, <1>7, <1>8, <1>9, <1>10, <1>11 DEF A!Step, PA!Step

\* What Seeder assumes of the constants holds of seeder B.
LEMMA AssumedB ==
    /\ PB!SchemaAssumption /\ PB!VersionsAssumption /\ PB!StartsAssumption
    /\ PB!IdsAssumption /\ PB!AppActsAssumption /\ PB!MayCrashAssumption /\ PB!NoneAssumption
<1>1. PB!Records = A!Records /\ PB!RelRecs = A!RelRecs
    BY DEF A!Records, PB!Records, A!RelRecs, PB!RelRecs, A!NoId, PB!NoId
<1>2. PB!SchemaAssumption
    BY SeederAssumptions DEF A!Relation, PB!Relation, A!Columns, PB!Columns
<1>3. PB!VersionsAssumption
    BY SeederAssumptions DEF A!File, PB!File, A!WellFormed, PB!WellFormed
<1>4. PB!StartsAssumption
    BY SeederAssumptions DEF A!Commands, PB!Commands, A!Scopes, PB!Scopes
<1>5. PB!IdsAssumption
    BY SeederAssumptions DEF A!NoId, PB!NoId
<1>6. PB!AppActsAssumption /\ PB!MayCrashAssumption
    BY SeederAssumptions
<1>7. PB!NoneAssumption
    BY <1>1, SeederAssumptions
<1> QED BY <1>2, <1>3, <1>4, <1>5, <1>6, <1>7

\* The steps of seeder B are those that the theorems of Seeder are about.
LEMMA SameB ==
    /\ \A start \in Starts : B!Begin(start) => PB!Begin(start)
    /\ B!Step => PB!Step
    /\ B!Crash => PB!Crash
    /\ \A f \in Versions : B!Edit(f) => PB!Edit(f)
    /\ \A g : B!FreshIds(g) = PB!FreshIds(g)
    /\ \A i : B!SaveNewRowAs(i) => PB!SaveNewRowAs(i)
    /\ PB!Inserting => B!Inserting
    /\ B!Init => PB!Init
<1>1. ASSUME NEW start PROVE B!Begin(start) => PB!Begin(start)
    BY DEF B!Begin, PB!Begin, B!Room, PB!Room, B!Cardinality, PB!Cardinality, B!RowOf, PB!RowOf,
           B!Selections, PB!Selections, B!Idle, PB!Idle, B!Decides, PB!Decides
<1>2. B!Setup => PB!Setup
    BY DEF B!Setup, PB!Setup, B!BeginDataset, PB!BeginDataset, B!BetweenDatasets,
           PB!BetweenDatasets, B!Orderable, PB!Orderable, B!Placed, PB!Placed, B!Cardinality,
           PB!Cardinality, B!Required, PB!Required, B!RelsOf, PB!RelsOf, B!Groups, PB!Groups,
           B!Decides, PB!Decides, B!BeginGroup, PB!BeginGroup, B!GroupDone, PB!GroupDone,
           B!Last, PB!Last, B!Level, PB!Level, B!First, PB!First, B!SeedRecords, PB!SeedRecords,
           B!Wanted, PB!Wanted, B!Declared, PB!Declared, B!HasLaterRelations,
           PB!HasLaterRelations, B!Unwanted, PB!Unwanted, B!EndGroups, PB!EndGroups,
           B!BeginForget, PB!BeginForget, B!Finish, PB!Finish, B!Exit, PB!Exit, B!Idle, PB!Idle
<1>3. B!Upsert => PB!Upsert
    BY DEF B!Upsert, PB!Upsert, B!Insert, PB!Insert, B!Known, PB!Known, B!Taking, PB!Taking,
           B!RequiredRefs, PB!RequiredRefs, B!RelsOf, PB!RelsOf, B!Refs, PB!Refs, B!NoId,
           PB!NoId, B!Decides, PB!Decides, B!Recreate, PB!Recreate, B!RowOf, PB!RowOf, B!data,
           PB!data, B!Update, PB!Update, B!InputRelation, PB!InputRelation, B!FoundRows,
           PB!FoundRows, B!Found, PB!Found, B!Remembering, PB!Remembering, B!Related,
           PB!Related, B!RelationRecord, PB!RelationRecord, B!SaveNewRow, PB!SaveNewRow,
           B!Inserting, PB!Inserting, B!Fresh, PB!Fresh, B!FreshIds, PB!FreshIds,
           B!SaveNewRowAs, PB!SaveNewRowAs, B!SaveUpdatedRow, PB!SaveUpdatedRow, B!Track,
           PB!Track
<1>4. B!Remove => PB!Remove
    BY DEF B!Remove, PB!Remove, B!RemoveGone, PB!RemoveGone, B!Removing, PB!Removing, B!RowOf,
           PB!RowOf, B!data, PB!data, B!BeginRemove, PB!BeginRemove, B!Touching, PB!Touching,
           B!Decides, PB!Decides, B!RemoveRow, PB!RemoveRow, B!Untrack, PB!Untrack, B!BeginGone,
           PB!BeginGone, B!AtRelation, PB!AtRelation, B!Groups, PB!Groups, B!BeginStale,
           PB!BeginStale, B!RemoveStale, PB!RemoveStale, B!ForgetRecord, PB!ForgetRecord,
           B!ForgetRelation, PB!ForgetRelation
<1>5. B!Relations => PB!Relations
    BY DEF B!Relations, PB!Relations, B!CutPanic, PB!CutPanic, B!Cutting, PB!Cutting,
           B!CutPanics, PB!CutPanics, B!CutBy, PB!CutBy, B!AsA, PB!AsA, B!RelsOf, PB!RelsOf,
           B!HasKey, PB!HasKey, B!OtherTracked, PB!OtherTracked, B!Found, PB!Found, B!Decides,
           PB!Decides, B!CutRecord, PB!CutRecord, B!OtherRows, PB!OtherRows, B!FoundRows,
           PB!FoundRows, B!RowOf, PB!RowOf, B!Linked, PB!Linked, B!data, PB!data, B!CutLink,
           PB!CutLink, B!Null, PB!Null, B!Uncut, PB!Uncut, B!BeginRelations, PB!BeginRelations,
           B!AtRelation, PB!AtRelation, B!First, PB!First, B!Level, PB!Level, B!Placed,
           PB!Placed, B!Cardinality, PB!Cardinality, B!Required, PB!Required, B!Groups,
           PB!Groups, B!Refs, PB!Refs, B!BeginRelation, PB!BeginRelation, B!BeginCutRelation,
           PB!BeginCutRelation, B!TouchingBy, PB!TouchingBy, B!LinkPanic, PB!LinkPanic,
           B!LinkPanics, PB!LinkPanics, B!LinkRef, PB!LinkRef, B!SetLink, PB!SetLink,
           B!Pointing, PB!Pointing, B!Relate, PB!Relate, B!Remembering, PB!Remembering,
           B!Related, PB!Related, B!RelationRecord, PB!RelationRecord
<1>6. B!Crash => PB!Crash
    BY DEF B!Crash, PB!Crash, B!Room, PB!Room, B!Cardinality, PB!Cardinality, B!RowOf, PB!RowOf,
           B!Idle, PB!Idle, B!Decides, PB!Decides
<1>7. ASSUME NEW f PROVE B!Edit(f) => PB!Edit(f)
    BY DEF B!Edit, PB!Edit, B!data, PB!data
<1>8. ASSUME NEW g PROVE B!FreshIds(g) = PB!FreshIds(g)
    BY DEF B!FreshIds, PB!FreshIds, B!RowOf, PB!RowOf
<1>9. ASSUME NEW i PROVE B!SaveNewRowAs(i) => PB!SaveNewRowAs(i)
    BY DEF B!SaveNewRowAs, PB!SaveNewRowAs, B!Inserting, PB!Inserting, B!NoId, PB!NoId
<1>10. PB!Inserting => B!Inserting
    BY DEF B!Inserting, PB!Inserting, B!NoId, PB!NoId
<1>11. B!Init => PB!Init
    BY DEF B!Init, PB!Init, B!Idle, PB!Idle
<1> QED BY <1>1, <1>2, <1>3, <1>4, <1>5, <1>6, <1>7, <1>8, <1>9, <1>10, <1>11 DEF B!Step, PB!Step

-------------------------------------------------------------------------------
\* A step of one seeder, as the other sees it: r and s are the run of the one
\* before and after it, f are its files, o is the run of the other.
Row(q) == <<q.group, q.id>>

\* A step that takes up no record of the files: it adds nothing to the tables.
Rests(r, s, f) ==
    /\ rows' \subseteq rows /\ recs' \subseteq recs /\ own' \subseteq own
    /\ \A q \in recs \ recs' :
        \/ Row(q) \notin rows'
        \/ q.group \notin f.live
        \/ r.pc = "forget" /\ q.ds \notin r.sel
    /\ \A row \in own' \intersect rows : row \in rows' \/ (r.rec # None /\ row = Row(r.rec))
    /\ s.snap \subseteq r.snap /\ s.doomed \subseteq r.doomed \union recs
    /\ s.rec # None => s.rec \in {r.rec} \union recs \union r.doomed
    /\ s.todo = {} /\ s.pc \notin {"input", "track"}
    /\ s.pc = "untrack" => s.rec # None /\ Row(s.rec) \notin rows'

TakesGroup(r, s) ==
    /\ UNCHANGED <<rows, recs, own>>
    /\ r.pc = "record" /\ s.pc = "record" /\ r.todo = {} /\ s.ds = r.ds /\ s.rec = r.rec
    /\ \E g : /\ s.snap = {q \in recs : q.ds = r.ds /\ q.group = g}
              /\ \A x \in s.todo : x[1] = g
    /\ r.cmd # "Reseed" => \A x \in s.todo, q \in s.snap : q.name # x[2]
    /\ s.doomed \subseteq s.snap

TakesRecord(r, s) ==
    /\ UNCHANGED <<rows, own>> /\ recs' \subseteq recs
    /\ \A q \in recs \ recs' : Row(q) \notin rows
    /\ r.pc = "record" /\ s.pc = "input" /\ s.ds = r.ds
    /\ s.snap = r.snap /\ s.doomed = r.doomed
    /\ s.rec # None /\ s.rec.ds = r.ds
    /\ <<s.rec.group, s.rec.name>> \in r.todo
    /\ s.todo = r.todo \ {<<s.rec.group, s.rec.name>>}
    /\ s.rec.id = A!NoId \/ \E q \in r.snap : q.id = s.rec.id

GoesOn(r, s) ==
    /\ UNCHANGED <<rows, recs, own>>
    /\ s.snap = r.snap /\ s.doomed = r.doomed /\ s.ds = r.ds /\ s.rec = r.rec /\ s.todo = r.todo
    /\ s.pc = r.pc \/ (r.pc = "input" /\ s.pc = "panicked")

SavesRow(r, s, o) ==
    /\ rows' = rows \union {Row(s.rec)} /\ UNCHANGED <<recs, own>>
    /\ Row(s.rec) \notin rows \union InUse(o)
    /\ \A q \in recs : Row(q) # Row(s.rec)
    /\ r.pc = "input" /\ s.pc = "track" /\ s.ds = r.ds
    /\ s.snap = r.snap /\ s.doomed = r.doomed /\ s.todo = r.todo
    /\ s.rec # None /\ s.rec.ds = r.rec.ds /\ s.rec.group = r.rec.group /\ s.rec.name = r.rec.name

FinishesRecord(r, s) ==
    /\ UNCHANGED <<rows, own>>
    /\ s.pc = "record" /\ s.rec = None /\ s.ds = r.ds
    /\ s.snap = r.snap /\ s.doomed = r.doomed /\ s.todo = r.todo
    /\ \/ r.pc = "input" /\ recs' = recs
       \/ r.pc = "track" /\ recs' = recs \union {r.rec}

Moves(r, s, o, f) ==
    \/ Rests(r, s, f) \/ TakesGroup(r, s) \/ TakesRecord(r, s)
    \/ GoesOn(r, s) \/ SavesRow(r, s, o) \/ FinishesRecord(r, s)

-------------------------------------------------------------------------------
\* What a run knows of rows R, DataSetRecords T and application rows O, while
\* another run may be at work: nothing of the application's; what it is about
\* to track is not tracked, and what it is about to untrack is deleted.
Clear(r, R, T, O) ==
    /\ r.todo # {} => r.pc \in {"record", "input", "track", "panicked"}
    /\ \A q \in r.snap \union r.doomed : Row(q) \notin O
    /\ r.rec # None => Row(r.rec) \notin O
    /\ \A x \in r.todo : \A q \in r.snap : q.ds = r.ds /\ q.group = x[1]
    /\ r.pc \in {"input", "track"} =>
        /\ r.rec # None /\ r.rec.ds = r.ds
        /\ <<r.rec.group, r.rec.name>> \notin r.todo
    /\ r.pc = "track" => \A q \in T : Row(q) # Row(r.rec)
    /\ r.pc = "untrack" => r.rec # None /\ Row(r.rec) \notin R

\* Of both runs: and the rows they are about to track are two.
Good(r, o, R, T, O) ==
    /\ Clear(r, R, T, O) /\ Clear(o, R, T, O)
    /\ O \subseteq R
    /\ \A q \in T : Row(q) \notin O
    /\ \A p, q \in T : Row(p) = Row(q) => p = q
    /\ r.pc = "track" /\ o.pc = "track" => Row(r.rec) # Row(o.rec)

\* A step of one seeder keeps what both know.
LEMMA MovesKeepGood ==
    ASSUME NEW r, NEW s, NEW o, NEW f, Good(r, o, rows, recs, own), Moves(r, s, o, f),
           \A row \in own : row[2] # A!NoId
    PROVE  Good(s, o, rows', recs', own')
<1>g. /\ Clear(r, rows, recs, own) /\ Clear(o, rows, recs, own)
      /\ own \subseteq rows
      /\ \A q \in recs : Row(q) \notin own
      /\ \A p, q \in recs : Row(p) = Row(q) => p = q
      /\ r.pc = "track" /\ o.pc = "track" => Row(r.rec) # Row(o.rec)
    BY DEF Good
<1>1. CASE Rests(r, s, f)
    <2>1. Clear(s, rows', recs', own')
        BY <1>g, <1>1 DEF Rests, Clear
    <2>2. Clear(o, rows', recs', own')
        BY <1>g, <1>1 DEF Rests, Clear
    <2>3. own' \subseteq rows' /\ s.pc # "track"
        BY <1>g, <1>1 DEF Rests, Clear
    <2>4. recs' \subseteq recs /\ own' \subseteq own
        BY <1>1 DEF Rests
    <2> QED BY <1>g, <2>1, <2>2, <2>3, <2>4 DEF Good
<1>2. CASE TakesGroup(r, s)
    <2>1. Clear(s, rows', recs', own')
        BY <1>g, <1>2 DEF TakesGroup, Clear
    <2> QED BY <1>g, <1>2, <2>1 DEF TakesGroup, Good
<1>3. CASE TakesRecord(r, s)
    <2>1. Row(s.rec) \notin own
        <3>1. CASE s.rec.id = A!NoId
            BY <3>1 DEF Row
        <3>2. CASE \E q \in r.snap : q.id = s.rec.id
            <4>1. PICK q \in r.snap : q.id = s.rec.id
                BY <3>2
            <4>2. q.group = s.rec.group /\ Row(q) \notin own
                BY <1>g, <1>3 DEF TakesRecord, Clear
            <4> QED BY <4>1, <4>2 DEF Row
        <3> QED BY <1>3, <3>1, <3>2 DEF TakesRecord
    <2>2. Clear(s, rows', recs', own')
        BY <1>g, <1>3, <2>1 DEF TakesRecord, Clear
    <2>3. Clear(o, rows', recs', own')
        BY <1>g, <1>3 DEF TakesRecord, Clear
    <2> QED BY <1>g, <1>3, <2>2, <2>3 DEF TakesRecord, Good
<1>4. CASE GoesOn(r, s)
    <2>1. Clear(s, rows', recs', own')
        BY <1>g, <1>4 DEF GoesOn, Clear
    <2> QED BY <1>g, <1>4, <2>1 DEF GoesOn, Good
<1>5. CASE SavesRow(r, s, o)
    <2>1. Row(s.rec) \notin own
        BY <1>g, <1>5 DEF SavesRow
    <2>2. Clear(s, rows', recs', own')
        BY <1>g, <1>5, <2>1 DEF SavesRow, Clear
    <2>3. o.rec # None => Row(o.rec) # Row(s.rec)
        BY <1>5 DEF SavesRow, InUse, Row
    <2>4. Clear(o, rows', recs', own')
        BY <1>g, <1>5, <2>3 DEF SavesRow, Clear
    <2>5. s.pc = "track" /\ o.pc = "track" => Row(s.rec) # Row(o.rec)
        BY <1>g, <2>3 DEF Clear
    <2> QED BY <1>g, <1>5, <2>2, <2>4, <2>5 DEF SavesRow, Good
<1>6. CASE FinishesRecord(r, s)
    <2>1. recs' = recs \/ (r.pc = "track" /\ recs' = recs \union {r.rec})
        BY <1>6 DEF FinishesRecord
    <2>2. Clear(s, rows', recs', own')
        BY <1>g, <1>6 DEF FinishesRecord, Clear
    <2>3. Clear(o, rows', recs', own')
        BY <1>g, <1>6, <2>1 DEF FinishesRecord, Clear
    <2>4. r.pc = "track" => Row(r.rec) \notin own /\ \A q \in recs : Row(q) # Row(r.rec)
        BY <1>g DEF Clear
    <2> QED BY <1>g, <1>6, <2>1, <2>2, <2>3, <2>4 DEF FinishesRecord, Good
<1> QED BY <1>1, <1>2, <1>3, <1>4, <1>5, <1>6 DEF Moves

-------------------------------------------------------------------------------
\* How many DataSetRecords a record of the files has, and may soon have.
CopiesIn(T, d, g, n) == {q \in T : q.ds = d /\ q.group = g /\ q.name = n}

\* The run has not tracked the record yet that it found to be missing.
Coming(r, d, g, n) ==
    /\ r.ds = d
    /\ \/ <<g, n>> \in r.todo
       \/ r.pc \in {"input", "track"} /\ r.rec.group = g /\ r.rec.name = n
Due(r, d, g, n) == IF Coming(r, d, g, n) THEN 1 ELSE 0

\* A run finds a record missing only when there is no copy, so what both have
\* still to add is within two.
Counted(r, o, T) ==
    /\ IsFiniteSet(T)
    /\ \A d \in Datasets, g \in Models, n \in Names :
        Cardinality(CopiesIn(T, d, g, n)) + Due(r, d, g, n) + Due(o, d, g, n) <= 2

\* Fewer DataSetRecords hold fewer copies, and one more holds at most one more.
LEMMA FewerCopies ==
    ASSUME NEW T, IsFiniteSet(T), NEW U, U \subseteq T, NEW d, NEW g, NEW n
    PROVE  /\ Cardinality(CopiesIn(T, d, g, n)) \in Nat
           /\ Cardinality(CopiesIn(U, d, g, n)) \in Nat
           /\ Cardinality(CopiesIn(U, d, g, n)) <= Cardinality(CopiesIn(T, d, g, n))
<1>1. CopiesIn(T, d, g, n) \subseteq T /\ CopiesIn(U, d, g, n) \subseteq CopiesIn(T, d, g, n)
    BY DEF CopiesIn
<1>2. IsFiniteSet(CopiesIn(T, d, g, n))
    BY <1>1, FS_Subset
<1> QED BY <1>1, <1>2, FS_Subset, FS_CardinalityType

LEMMA OneMoreCopy ==
    ASSUME NEW T, IsFiniteSet(T), NEW t, NEW d, NEW g, NEW n
    PROVE  LET c == Cardinality(CopiesIn(T, d, g, n))
               e == Cardinality(CopiesIn(T \union {t}, d, g, n))
           IN  /\ c \in Nat /\ e \in Nat /\ e <= c + 1
               /\ <<d, g, n>> # <<t.ds, t.group, t.name>> => e = c
<1> DEFINE C == CopiesIn(T, d, g, n)
           E == CopiesIn(T \union {t}, d, g, n)
<1>1. IsFiniteSet(C) /\ Cardinality(C) \in Nat
    BY FS_Subset, FS_CardinalityType DEF CopiesIn
<1>2. E = C \/ (E = C \union {t} /\ <<d, g, n>> = <<t.ds, t.group, t.name>>)
    BY DEF CopiesIn
<1> HIDE DEF C, E
<1>3. /\ Cardinality(C \union {t}) \in Nat
      /\ Cardinality(C \union {t}) = Cardinality(C) \/ Cardinality(C \union {t}) = Cardinality(C) + 1
    <2>1. Cardinality(C \union {t}) = IF t \in C THEN Cardinality(C) ELSE Cardinality(C) + 1
        BY <1>1, FS_AddElement
    <2> QED BY <1>1, <2>1
<1>4. /\ Cardinality(E) \in Nat /\ Cardinality(E) <= Cardinality(C) + 1
      /\ <<d, g, n>> # <<t.ds, t.group, t.name>> => Cardinality(E) = Cardinality(C)
    <2>1. CASE E = C
        BY <1>1, <2>1
    <2>2. CASE E = C \union {t} /\ <<d, g, n>> = <<t.ds, t.group, t.name>>
        BY <1>1, <1>3, <2>2
    <2> QED BY <1>2, <2>1, <2>2
<1> QED BY <1>1, <1>4 DEF C, E

\* A step of one seeder leaves the copies, with those to come, within two.
LEMMA MovesKeepCounted ==
    ASSUME NEW r, NEW s, NEW o, NEW f, Good(r, o, rows, recs, own), Counted(r, o, recs),
           Moves(r, s, o, f), r.cmd # "Reseed"
    PROVE  Counted(s, o, recs')
<1>f. IsFiniteSet(recs)
    BY DEF Counted
<1>c. Clear(r, rows, recs, own)
    BY DEF Good
<1>1. recs' \subseteq recs \/ (FinishesRecord(r, s) /\ r.pc = "track" /\ recs' = recs \union {r.rec})
    BY DEF Moves, Rests, TakesGroup, TakesRecord, GoesOn, SavesRow, FinishesRecord
<1>2. IsFiniteSet(recs')
    BY <1>f, <1>1, FS_Subset, FS_AddElement
<1>3. ASSUME NEW d \in Datasets, NEW g \in Models, NEW n \in Names
      PROVE  Cardinality(CopiesIn(recs', d, g, n)) + Due(s, d, g, n) + Due(o, d, g, n) <= 2
    <2> DEFINE c == Cardinality(CopiesIn(recs, d, g, n))
               e == Cardinality(CopiesIn(recs', d, g, n))
    <2>1. c + Due(r, d, g, n) + Due(o, d, g, n) <= 2
        BY DEF Counted
    <2>2. c \in Nat
        BY <1>f, FewerCopies
    <2>3. recs' \subseteq recs => e \in Nat /\ e <= c
        BY <1>f, FewerCopies
    <2>4. recs' = recs \union {r.rec} =>
            /\ e \in Nat /\ e <= c + 1
            /\ <<d, g, n>> # <<r.rec.ds, r.rec.group, r.rec.name>> => e = c
        BY <1>f, OneMoreCopy
    <2> HIDE DEF c, e
    <2>5. \A q : Due(q, d, g, n) \in {0, 1} /\ (Due(q, d, g, n) = 1 <=> Coming(q, d, g, n))
        BY DEF Due
    <2>6. CASE recs' \subseteq recs /\ (Coming(s, d, g, n) => Coming(r, d, g, n))
        <3>1. Due(s, d, g, n) <= Due(r, d, g, n)
            BY <2>5, <2>6
        <3> QED BY <2>1, <2>2, <2>3, <2>5, <2>6, <3>1 DEF c, e
    <2>7. CASE TakesGroup(r, s) /\ Coming(s, d, g, n)
        <3>1. <<g, n>> \in s.todo /\ r.ds = d
            BY <2>7 DEF TakesGroup, Coming
        <3>2. PICK h : /\ s.snap = {q \in recs : q.ds = r.ds /\ q.group = h}
                       /\ \A x \in s.todo : x[1] = h
            BY <2>7 DEF TakesGroup
        <3>3. \A q \in s.snap : q.name # n
            BY <2>7, <3>1 DEF TakesGroup
        <3>4. CopiesIn(recs, d, g, n) = {}
            BY <3>1, <3>2, <3>3 DEF CopiesIn
        <3>5. c = 0
            BY <3>4, FS_EmptySet DEF c
        <3>6. recs' \subseteq recs
            BY <2>7 DEF TakesGroup
        <3> QED BY <2>3, <2>5, <3>5, <3>6 DEF c, e
    <2>8. CASE FinishesRecord(r, s) /\ r.pc = "track" /\ recs' = recs \union {r.rec}
        <3>1. /\ s.ds = r.ds /\ s.todo = r.todo /\ s.pc = "record"
              /\ r.rec.ds = r.ds /\ <<r.rec.group, r.rec.name>> \notin r.todo
            BY <1>c, <2>8 DEF FinishesRecord, Clear
        <3>2. CASE <<d, g, n>> = <<r.rec.ds, r.rec.group, r.rec.name>>
            <4>1. Coming(r, d, g, n) /\ ~Coming(s, d, g, n)
                BY <2>8, <3>1, <3>2 DEF Coming
            <4>2. Due(r, d, g, n) = 1 /\ Due(s, d, g, n) = 0
                BY <2>5, <4>1
            <4> QED BY <2>1, <2>2, <2>4, <2>5, <2>8, <4>2 DEF c, e
        <3>3. CASE <<d, g, n>> # <<r.rec.ds, r.rec.group, r.rec.name>>
            <4>1. Coming(s, d, g, n) => Coming(r, d, g, n)
                BY <3>1 DEF Coming
            <4>2. Due(s, d, g, n) <= Due(r, d, g, n)
                BY <2>5, <4>1
            <4> QED BY <2>1, <2>2, <2>4, <2>5, <2>8, <3>3, <4>2 DEF c, e
        <3> QED BY <3>2, <3>3
    <2>9. CASE Rests(r, s, f)
        BY <2>6, <2>9 DEF Rests, Coming
    <2>10. CASE TakesGroup(r, s)
        BY <2>6, <2>7, <2>10 DEF TakesGroup
    <2>11. CASE TakesRecord(r, s)
        BY <2>6, <2>11 DEF TakesRecord, Coming
    <2>12. CASE GoesOn(r, s)
        BY <2>6, <2>12 DEF GoesOn, Coming
    <2>13. CASE SavesRow(r, s, o)
        BY <2>6, <2>13 DEF SavesRow, Coming
    <2>14. CASE FinishesRecord(r, s)
        BY <2>6, <2>8, <2>14 DEF FinishesRecord, Coming
    <2> QED BY <2>9, <2>10, <2>11, <2>12, <2>13, <2>14 DEF Moves
<1> QED BY <1>2, <1>3 DEF Counted

\* It does not matter which of the two runs is named first.
LEMMA CountedBothWays ==
    ASSUME NEW r, NEW o, NEW T, Counted(r, o, T)
    PROVE  Counted(o, r, T)
<1>1. IsFiniteSet(T)
    BY DEF Counted
<1>2. ASSUME NEW d \in Datasets, NEW g \in Models, NEW n \in Names
      PROVE  Cardinality(CopiesIn(T, d, g, n)) + Due(o, d, g, n) + Due(r, d, g, n) <= 2
    <2>1. Cardinality(CopiesIn(T, d, g, n)) + Due(r, d, g, n) + Due(o, d, g, n) <= 2
        BY DEF Counted
    <2>2. Cardinality(CopiesIn(T, d, g, n)) \in Nat
        BY <1>1, FewerCopies
    <2>3. Due(r, d, g, n) \in Nat /\ Due(o, d, g, n) \in Nat
        BY DEF Due
    <2> HIDE DEF Due
    <2> QED BY <2>1, <2>2, <2>3
<1> QED BY <1>1, <1>2 DEF Counted

-------------------------------------------------------------------------------
\* The steps of seeder A, its begin, its end and its files.
ActsA ==
    \/ \E start \in Starts : A!Begin(start)
    \/ InsertA
    \/ ~A!Inserting /\ A!Step
    \/ A!Crash
    \/ \E f \in Versions : A!Edit(f)

\* What Seeder says of a step of a run is true of a step of seeder A, whatever
\* key the database gives.
LEMMA ActsAMoves ==
    ASSUME PA!TypeInv, Clear(runA, rows, recs, own), own \subseteq rows, ActsA
    PROVE  /\ PA!TypeInv' /\ PA!TablesType' /\ Moves(runA, runA', runB, fileA)
           /\ runA'.cmd \in {runA.cmd, "Seed"} \union {start[1] : start \in Starts}
<1>t. /\ runA \in PA!Run /\ PA!InHand /\ recs \subseteq PA!Recs /\ None \notin PA!Records
      /\ PA!Recs \subseteq PA!Records
    BY AssumedA DEF PA!TypeInv, PA!TypeOK, PA!Recs
<1>f. /\ runA.snap \subseteq PA!Recs /\ runA.doomed \subseteq PA!Recs /\ runA.cmd \in PA!Commands
      /\ runA.todo \subseteq Models \X Names
    BY <1>t, AssumedA, PA!RunFields
<1>k. PA!Upserting /\ PA!Deleted
    BY DEF Clear, PA!Upserting, PA!Deleted, PA!RowOf, Row
<1>1. CASE InsertA
    <2>1. PICK i \in Unused(runA.rec.group) : A!SaveNewRowAs(i)
        BY <1>1 DEF InsertA, Least
    <2>2. i \in PA!FreshIds(runA.rec.group) /\ PA!SaveNewRowAs(i)
        BY <2>1, SameA DEF Unused, A!FreshIds, PA!FreshIds, A!RowOf, PA!RowOf
    <2>3. <<runA.rec.group, i>> \notin InUse(runB)
        BY <2>1 DEF Unused
    <2>4. /\ runA' \in PA!Run /\ PA!InHand' /\ PA!TablesType'
          /\ runA'.cmd = runA.cmd
        BY <2>2, AssumedA, PA!NewRowType
    <2>5. PA!RowSaved(i)
        BY <2>2, AssumedA, PA!RowSavedAs
    <2>6. <<runA.rec.group, i>> \notin rows /\ \A q \in recs : Row(q) # <<runA.rec.group, i>>
        BY <2>2 DEF PA!FreshIds, PA!RowOf, Row
    <2>7. Row(runA'.rec) = <<runA.rec.group, i>> /\ runA'.rec # None
        BY <1>t, <2>5 DEF PA!RowSaved, Row
    <2>8. SavesRow(runA, runA', runB)
        BY <2>3, <2>5, <2>6, <2>7 DEF PA!RowSaved, PA!Inserting, SavesRow
    <2>9. PA!TypeInv'
        BY <2>4 DEF PA!TypeInv, PA!TypeOK, PA!TablesType
    <2> QED BY <2>4, <2>8, <2>9 DEF Moves
<1>2. CASE PA!Acts /\ (PA!Inserting => PA!Crash)
    <2>1. [PA!Next]_(PA!vars) /\ [PA!Acts]_(PA!vars)
        BY <1>2 DEF PA!Acts, PA!Next, PA!Environment
    <2>2. runA' \in PA!Run /\ PA!InHand' /\ PA!TablesType'
        BY <2>1, AssumedA, PA!RunType, PA!InHandKept, PA!TablesTypeKept
    <2>3. PA!TypeInv'
        BY <2>2 DEF PA!TypeInv, PA!TypeOK, PA!TablesType
    <2>4. runA'.cmd \in {runA.cmd, "Seed"} \union {start[1] : start \in Starts}
        BY <2>1, AssumedA, PA!CommandKept
    <2>s. SUFFICES Moves(runA, runA', runB, fileA)
        BY <2>2, <2>3, <2>4
    <2>5. PA!Quiet \/ PA!Noisy
        BY <1>k, <2>1, AssumedA, PA!QuietOrNoisy
    <2>r. runA'.rec \in PA!Records \union {None}
        BY <2>2 DEF PA!Run
    <2>6. CASE PA!Quiet
        <3>1. runA'.pc = "untrack" => runA'.rec # None
            BY <1>t, <2>2 DEF PA!InHand
        <3>2. \A row \in own' \intersect rows : row \in rows' \/ (runA.rec # None /\ row = Row(runA.rec))
            BY <1>t, <2>6 DEF PA!Quiet, PA!RowOf, Row
        <3>3. runA'.rec # None => runA'.rec \in {runA.rec} \union recs \union runA.doomed
            BY <2>6, <2>r DEF PA!Quiet
        <3>4. \A q \in recs \ recs' :
                \/ Row(q) \notin rows'
                \/ q.group \notin fileA.live
                \/ runA.pc = "forget" /\ q.ds \notin runA.sel
            BY <2>6 DEF PA!Quiet, PA!RowOf, Row
        <3>5. Rests(runA, runA', fileA)
            BY <2>6, <3>1, <3>2, <3>3, <3>4 DEF PA!Quiet, PA!RowOf, Row, Rests
        <3> QED BY <3>5 DEF Moves
    <2>7. ASSUME NEW g, PA!GroupTaken(g) PROVE Moves(runA, runA', runB, fileA)
        <3>1. /\ runA'.snap = {q \in recs : q.ds = runA.ds /\ q.group = g}
              /\ \A x \in runA'.todo : x[1] = g
            BY <2>7 DEF PA!GroupTaken, PA!SeedRecords
        <3>2. ASSUME runA.cmd # "Reseed", NEW x \in runA'.todo, NEW q \in runA'.snap
              PROVE  q.name # x[2]
            <4>1. x[2] \in PA!Wanted(PA!Declared(runA.ds, g), runA'.snap)
                BY <2>7, <3>2 DEF PA!GroupTaken
            <4> QED BY <1>f, <3>2, <4>1 DEF PA!Wanted, PA!Commands
        <3>3. TakesGroup(runA, runA')
            BY <2>7, <3>1, <3>2 DEF PA!GroupTaken, TakesGroup
        <3> QED BY <3>3 DEF Moves
    <2>8. ASSUME NEW x \in runA.todo, PA!RecordTaken(x) PROVE Moves(runA, runA', runB, fileA)
        <3>1. x = <<x[1], x[2]>>
            BY <1>f
        <3>2. runA'.rec # None
            BY <1>t, <2>8 DEF PA!RecordTaken
        <3>3. runA'.rec.id = A!NoId \/ \E q \in runA.snap : q.id = runA'.rec.id
            BY <2>8 DEF PA!RecordTaken, PA!Known, PA!NoId, A!NoId
        <3>4. \A q \in recs \ recs' : Row(q) \notin rows
            BY <2>8 DEF PA!RecordTaken, PA!RowOf, Row
        <3>5. TakesRecord(runA, runA')
            BY <2>8, <3>1, <3>2, <3>3, <3>4 DEF PA!RecordTaken, TakesRecord
        <3> QED BY <3>5 DEF Moves
    <2>9. CASE PA!InputTaken
        <3>1. GoesOn(runA, runA')
            BY <2>9 DEF PA!InputTaken, GoesOn
        <3> QED BY <3>1 DEF Moves
    <2>10. ASSUME NEW i, PA!RowSaved(i) PROVE FALSE
        BY <1>2, <2>10 DEF PA!RowSaved, PA!Crash, PA!Idle
    <2>11. CASE PA!RecordDone
        <3>1. FinishesRecord(runA, runA')
            BY <2>11 DEF PA!RecordDone, FinishesRecord
        <3> QED BY <3>1 DEF Moves
    <2>12. CASE UNCHANGED PA!vars
        <3>1. GoesOn(runA, runA')
            BY <2>12 DEF PA!vars, GoesOn
        <3> QED BY <3>1 DEF Moves
    <2>13. CASE PA!Noisy
        BY <2>7, <2>8, <2>9, <2>10, <2>11, <2>12, <2>13, AssumedA, PA!NoisySteps
    <2> QED BY <2>5, <2>6, <2>13
<1>3. CASE ~InsertA
    <2>1. PA!Acts
        BY <1>3, SameA DEF ActsA, PA!Acts
    <2>2. PA!Inserting => PA!Crash
        <3>1. CASE \E start \in Starts : A!Begin(start)
            BY <3>1 DEF A!Begin, PA!Inserting
        <3>2. CASE \E f \in Versions : A!Edit(f)
            BY <3>2 DEF A!Edit, PA!Inserting
        <3>3. CASE ~A!Inserting /\ A!Step
            BY <3>3, SameA
        <3>4. CASE A!Crash
            BY <3>4, SameA
        <3> QED BY <1>3, <3>1, <3>2, <3>3, <3>4 DEF ActsA
    <2> QED BY <1>2, <2>1, <2>2
<1> QED BY <1>1, <1>3

-------------------------------------------------------------------------------
\* The steps of seeder B, its begin, its end and its files.
ActsB ==
    \/ \E start \in Starts : B!Begin(start)
    \/ InsertB
    \/ ~B!Inserting /\ B!Step
    \/ B!Crash
    \/ \E f \in Versions : B!Edit(f)

\* What Seeder says of a step of a run is true of a step of seeder B, whatever
\* key the database gives.
LEMMA ActsBMoves ==
    ASSUME PB!TypeInv, Clear(runB, rows, recs, own), own \subseteq rows, ActsB
    PROVE  /\ PB!TypeInv' /\ PB!TablesType' /\ Moves(runB, runB', runA, fileB)
           /\ runB'.cmd \in {runB.cmd, "Seed"} \union {start[1] : start \in Starts}
<1>t. /\ runB \in PB!Run /\ PB!InHand /\ recs \subseteq PB!Recs /\ None \notin PB!Records
      /\ PB!Recs \subseteq PB!Records
    BY AssumedB DEF PB!TypeInv, PB!TypeOK, PB!Recs
<1>f. /\ runB.snap \subseteq PB!Recs /\ runB.doomed \subseteq PB!Recs /\ runB.cmd \in PB!Commands
      /\ runB.todo \subseteq Models \X Names
    BY <1>t, AssumedB, PB!RunFields
<1>k. PB!Upserting /\ PB!Deleted
    BY DEF Clear, PB!Upserting, PB!Deleted, PB!RowOf, Row
<1>1. CASE InsertB
    <2>1. PICK i \in Unused(runB.rec.group) : B!SaveNewRowAs(i)
        BY <1>1 DEF InsertB, Least
    <2>2. i \in PB!FreshIds(runB.rec.group) /\ PB!SaveNewRowAs(i)
        BY <2>1, SameB DEF Unused, A!FreshIds, PB!FreshIds, A!RowOf, PB!RowOf
    <2>3. <<runB.rec.group, i>> \notin InUse(runA)
        BY <2>1 DEF Unused
    <2>4. /\ runB' \in PB!Run /\ PB!InHand' /\ PB!TablesType'
          /\ runB'.cmd = runB.cmd
        BY <2>2, AssumedB, PB!NewRowType
    <2>5. PB!RowSaved(i)
        BY <2>2, AssumedB, PB!RowSavedAs
    <2>6. <<runB.rec.group, i>> \notin rows /\ \A q \in recs : Row(q) # <<runB.rec.group, i>>
        BY <2>2 DEF PB!FreshIds, PB!RowOf, Row
    <2>7. Row(runB'.rec) = <<runB.rec.group, i>> /\ runB'.rec # None
        BY <1>t, <2>5 DEF PB!RowSaved, Row
    <2>8. SavesRow(runB, runB', runA)
        BY <2>3, <2>5, <2>6, <2>7 DEF PB!RowSaved, PB!Inserting, SavesRow
    <2>9. PB!TypeInv'
        BY <2>4 DEF PB!TypeInv, PB!TypeOK, PB!TablesType
    <2> QED BY <2>4, <2>8, <2>9 DEF Moves
<1>2. CASE PB!Acts /\ (PB!Inserting => PB!Crash)
    <2>1. [PB!Next]_(PB!vars) /\ [PB!Acts]_(PB!vars)
        BY <1>2 DEF PB!Acts, PB!Next, PB!Environment
    <2>2. runB' \in PB!Run /\ PB!InHand' /\ PB!TablesType'
        BY <2>1, AssumedB, PB!RunType, PB!InHandKept, PB!TablesTypeKept
    <2>3. PB!TypeInv'
        BY <2>2 DEF PB!TypeInv, PB!TypeOK, PB!TablesType
    <2>4. runB'.cmd \in {runB.cmd, "Seed"} \union {start[1] : start \in Starts}
        BY <2>1, AssumedB, PB!CommandKept
    <2>s. SUFFICES Moves(runB, runB', runA, fileB)
        BY <2>2, <2>3, <2>4
    <2>5. PB!Quiet \/ PB!Noisy
        BY <1>k, <2>1, AssumedB, PB!QuietOrNoisy
    <2>r. runB'.rec \in PB!Records \union {None}
        BY <2>2 DEF PB!Run
    <2>6. CASE PB!Quiet
        <3>1. runB'.pc = "untrack" => runB'.rec # None
            BY <1>t, <2>2 DEF PB!InHand
        <3>2. \A row \in own' \intersect rows : row \in rows' \/ (runB.rec # None /\ row = Row(runB.rec))
            BY <1>t, <2>6 DEF PB!Quiet, PB!RowOf, Row
        <3>3. runB'.rec # None => runB'.rec \in {runB.rec} \union recs \union runB.doomed
            BY <2>6, <2>r DEF PB!Quiet
        <3>4. \A q \in recs \ recs' :
                \/ Row(q) \notin rows'
                \/ q.group \notin fileB.live
                \/ runB.pc = "forget" /\ q.ds \notin runB.sel
            BY <2>6 DEF PB!Quiet, PB!RowOf, Row
        <3>5. Rests(runB, runB', fileB)
            BY <2>6, <3>1, <3>2, <3>3, <3>4 DEF PB!Quiet, PB!RowOf, Row, Rests
        <3> QED BY <3>5 DEF Moves
    <2>7. ASSUME NEW g, PB!GroupTaken(g) PROVE Moves(runB, runB', runA, fileB)
        <3>1. /\ runB'.snap = {q \in recs : q.ds = runB.ds /\ q.group = g}
              /\ \A x \in runB'.todo : x[1] = g
            BY <2>7 DEF PB!GroupTaken, PB!SeedRecords
        <3>2. ASSUME runB.cmd # "Reseed", NEW x \in runB'.todo, NEW q \in runB'.snap
              PROVE  q.name # x[2]
            <4>1. x[2] \in PB!Wanted(PB!Declared(runB.ds, g), runB'.snap)
                BY <2>7, <3>2 DEF PB!GroupTaken
            <4> QED BY <1>f, <3>2, <4>1 DEF PB!Wanted, PB!Commands
        <3>3. TakesGroup(runB, runB')
            BY <2>7, <3>1, <3>2 DEF PB!GroupTaken, TakesGroup
        <3> QED BY <3>3 DEF Moves
    <2>8. ASSUME NEW x \in runB.todo, PB!RecordTaken(x) PROVE Moves(runB, runB', runA, fileB)
        <3>1. x = <<x[1], x[2]>>
            BY <1>f
        <3>2. runB'.rec # None
            BY <1>t, <2>8 DEF PB!RecordTaken
        <3>3. runB'.rec.id = A!NoId \/ \E q \in runB.snap : q.id = runB'.rec.id
            BY <2>8 DEF PB!RecordTaken, PB!Known, PB!NoId, A!NoId
        <3>4. \A q \in recs \ recs' : Row(q) \notin rows
            BY <2>8 DEF PB!RecordTaken, PB!RowOf, Row
        <3>5. TakesRecord(runB, runB')
            BY <2>8, <3>1, <3>2, <3>3, <3>4 DEF PB!RecordTaken, TakesRecord
        <3> QED BY <3>5 DEF Moves
    <2>9. CASE PB!InputTaken
        <3>1. GoesOn(runB, runB')
            BY <2>9 DEF PB!InputTaken, GoesOn
        <3> QED BY <3>1 DEF Moves
    <2>10. ASSUME NEW i, PB!RowSaved(i) PROVE FALSE
        BY <1>2, <2>10 DEF PB!RowSaved, PB!Crash, PB!Idle
    <2>11. CASE PB!RecordDone
        <3>1. FinishesRecord(runB, runB')
            BY <2>11 DEF PB!RecordDone, FinishesRecord
        <3> QED BY <3>1 DEF Moves
    <2>12. CASE UNCHANGED PB!vars
        <3>1. GoesOn(runB, runB')
            BY <2>12 DEF PB!vars, GoesOn
        <3> QED BY <3>1 DEF Moves
    <2>13. CASE PB!Noisy
        BY <2>7, <2>8, <2>9, <2>10, <2>11, <2>12, <2>13, AssumedB, PB!NoisySteps
    <2> QED BY <2>5, <2>6, <2>13
<1>3. CASE ~InsertB
    <2>1. PB!Acts
        BY <1>3, SameB DEF ActsB, PB!Acts
    <2>2. PB!Inserting => PB!Crash
        <3>1. CASE \E start \in Starts : B!Begin(start)
            BY <3>1 DEF B!Begin, PB!Inserting
        <3>2. CASE \E f \in Versions : B!Edit(f)
            BY <3>2 DEF B!Edit, PB!Inserting
        <3>3. CASE ~B!Inserting /\ B!Step
            BY <3>3, SameB
        <3>4. CASE B!Crash
            BY <3>4, SameB
        <3> QED BY <1>3, <3>1, <3>2, <3>3, <3>4 DEF ActsB
    <2> QED BY <1>2, <2>1, <2>2
<1> QED BY <1>1, <1>3

-------------------------------------------------------------------------------
\* In every state of the pair: each run is of its type and both know what they
\* need to know of the tables that they share.
Shared ==
    /\ PA!TypeInv /\ PB!TypeInv
    /\ Good(runA, runB, rows, recs, own)

\* A seeder is typed still when the other has changed the tables within theirs.
LEMMA OthersTyped ==
    /\ PB!TypeInv /\ PA!TablesType' /\ UNCHANGED seederB => PB!TypeInv'
    /\ PA!TypeInv /\ PB!TablesType' /\ UNCHANGED seederA => PA!TypeInv'
<1>1. /\ PA!Rows = PB!Rows /\ PA!Columns = PB!Columns /\ PA!Recs = PB!Recs
      /\ PA!RelRecs = PB!RelRecs
    BY DEF PA!Rows, PB!Rows, PA!Columns, PB!Columns, PA!Recs, PB!Recs, PA!Records, PB!Records,
           PA!NoId, PB!NoId, PA!RelRecs, PB!RelRecs
<1>2. PB!TypeInv /\ PA!TablesType' /\ UNCHANGED seederB => PB!TypeInv'
    <2> SUFFICES ASSUME PB!TypeInv, PA!TablesType', UNCHANGED seederB PROVE PB!TypeInv'
        OBVIOUS
    <2>1. runB' = runB /\ fileB' = fileB
        BY DEF seederB
    <2>2. PB!TypeOK'
        BY <1>1, <2>1 DEF PA!TablesType, PB!TypeInv, PB!TypeOK, PB!Run
    <2>3. PB!InHand'
        BY <2>1 DEF PB!TypeInv, PB!InHand, PB!Idle, PB!Records, PB!Recs
    <2> QED BY <2>2, <2>3 DEF PB!TypeInv
<1>3. PA!TypeInv /\ PB!TablesType' /\ UNCHANGED seederA => PA!TypeInv'
    <2> SUFFICES ASSUME PA!TypeInv, PB!TablesType', UNCHANGED seederA PROVE PA!TypeInv'
        OBVIOUS
    <2>1. runA' = runA /\ fileA' = fileA
        BY DEF seederA
    <2>2. PA!TypeOK'
        BY <1>1, <2>1 DEF PB!TablesType, PA!TypeInv, PA!TypeOK, PA!Run
    <2>3. PA!InHand'
        BY <2>1 DEF PA!TypeInv, PA!InHand, PA!Idle, PA!Records, PA!Recs
    <2> QED BY <2>2, <2>3 DEF PA!TypeInv
<1> QED BY <1>2, <1>3

\* A step of the pair is one of a seeder, or one of the application, or none.
LEMMA Steps ==
    ASSUME [Next]_vars
    PROVE  \/ ActsA /\ UNCHANGED seederB
           \/ ActsB /\ UNCHANGED seederA
           \/ \E g \in Models : AppCreate(g)
           \/ UNCHANGED <<tables, seederA, seederB>>
BY DEF Next, vars, BeginA, BeginB, StepA, StepB, CrashA, CrashB, DeployA, DeployB, ActsA, ActsB

\* The application's new row has a key that no run has in use.
LEMMA CreateKeepsShared ==
    ASSUME Shared, NEW g \in Models, AppCreate(g)
    PROVE  Shared'
<1>1. PICK i \in Unused(g) : rows' = rows \union {<<g, i>>} /\ own' = own \union {<<g, i>>}
    BY DEF AppCreate, Least
<1>2. /\ UNCHANGED <<fk, joins, recs, rels, runA, fileA, runB, fileB>>
      /\ UNCHANGED seederA /\ UNCHANGED seederB
    BY DEF AppCreate, seederA, seederB
<1>3. /\ i \in Ids /\ <<g, i>> \notin rows /\ \A q \in recs : Row(q) # <<g, i>>
      /\ <<g, i>> \notin InUse(runA) /\ <<g, i>> \notin InUse(runB)
    BY <1>1 DEF Unused, A!FreshIds, A!RowOf, Row
<1>4. PA!TypeInv' /\ PB!TypeInv'
    <2>1. PA!TablesType /\ PB!TablesType
        BY DEF Shared, PA!TypeInv, PA!TypeOK, PA!TablesType, PB!TypeInv, PB!TypeOK, PB!TablesType
    <2>2. PA!TablesType'
        BY <1>1, <1>2, <1>3, <2>1 DEF PA!TablesType, PA!Rows, PA!Recs, PA!Records, PA!RelRecs,
                                      PA!Columns
    <2>3. PB!TablesType'
        BY <1>1, <1>2, <1>3, <2>1 DEF PB!TablesType, PB!Rows, PB!Recs, PB!Records, PB!RelRecs,
                                      PB!Columns
    <2> QED BY <1>2, <2>2, <2>3, OthersTyped DEF Shared
<1>5. ASSUME NEW r, <<g, i>> \notin InUse(r), Clear(r, rows, recs, own)
      PROVE  Clear(r, rows', recs', own')
    <2>1. \A q \in r.snap \union r.doomed : Row(q) # <<g, i>>
        BY <1>5 DEF InUse, Row
    <2>2. r.rec # None => Row(r.rec) # <<g, i>>
        BY <1>5 DEF InUse, Row
    <2> QED BY <1>1, <1>2, <1>5, <2>1, <2>2 DEF Clear
<1>6. Clear(runA, rows', recs', own') /\ Clear(runB, rows', recs', own')
    BY <1>3, <1>5 DEF Shared, Good
<1>7. Good(runA, runB, rows', recs', own')
    BY <1>1, <1>2, <1>3, <1>6 DEF Shared, Good
<1> QED BY <1>2, <1>4, <1>7 DEF Shared

\* Every step keeps what the two share, and a step of one is one of the
\* steps that Moves names.
LEMMA SharedKept ==
    ASSUME Shared, [Next]_vars
    PROVE  /\ Shared'
           /\ \/ Moves(runA, runA', runB, fileA) /\ ActsA /\ UNCHANGED seederB
              \/ Moves(runB, runB', runA, fileB) /\ ActsB /\ UNCHANGED seederA
              \/ recs' = recs /\ UNCHANGED <<seederA, seederB>>
<1>o. \A row \in own : row[2] # A!NoId
    BY SeederAssumptions DEF Shared, PA!TypeInv, PA!TypeOK, PA!Rows
<1>1. CASE ActsA /\ UNCHANGED seederB
    <2>1. /\ PA!TypeInv' /\ PA!TablesType' /\ Moves(runA, runA', runB, fileA)
        BY <1>1, ActsAMoves DEF Shared, Good
    <2>2. Good(runA', runB, rows', recs', own')
        BY <1>o, <2>1, MovesKeepGood DEF Shared
    <2>3. PB!TypeInv'
        BY <1>1, <2>1, OthersTyped DEF Shared
    <2> QED BY <1>1, <2>1, <2>2, <2>3 DEF Shared, seederB
<1>2. CASE ActsB /\ UNCHANGED seederA
    <2>1. /\ PB!TypeInv' /\ PB!TablesType' /\ Moves(runB, runB', runA, fileB)
        BY <1>2, ActsBMoves DEF Shared, Good
    <2>2. Good(runB, runA, rows, recs, own)
        BY DEF Shared, Good
    <2>3. Good(runB', runA, rows', recs', own')
        BY <1>o, <2>1, <2>2, MovesKeepGood
    <2>4. PA!TypeInv'
        BY <1>2, <2>1, OthersTyped DEF Shared
    <2>5. Good(runA, runB', rows', recs', own')
        BY <2>3 DEF Good
    <2> QED BY <1>2, <2>1, <2>4, <2>5 DEF Shared, seederA
<1>3. CASE \E g \in Models : AppCreate(g)
    BY <1>3, CreateKeepsShared DEF AppCreate
<1>4. CASE UNCHANGED <<tables, seederA, seederB>>
    <2>1. PA!TablesType /\ PB!TablesType
        BY DEF Shared, PA!TypeInv, PA!TypeOK, PA!TablesType, PB!TypeInv, PB!TypeOK, PB!TablesType
    <2>2. PA!TablesType' /\ PB!TablesType'
        BY <1>4, <2>1 DEF tables, seederA, seederB, PA!TablesType, PB!TablesType, PA!Rows, PB!Rows,
                   PA!Recs, PB!Recs, PA!Records, PB!Records, PA!RelRecs, PB!RelRecs, PA!Columns,
                   PB!Columns
    <2>3. PA!TypeInv' /\ PB!TypeInv'
        BY <1>4, <2>2, OthersTyped DEF Shared
    <2> QED BY <1>4, <2>3 DEF Shared, tables, seederA, seederB
<1> QED BY <1>1, <1>2, <1>3, <1>4, Steps

LEMMA SharedAtFirst == Init => Shared
<1> SUFFICES ASSUME Init PROVE Shared
    OBVIOUS
<1>1. PA!Init /\ PB!Init
    BY SameA, SameB DEF Init
<1>2. PA!TypeInv /\ PB!TypeInv
    BY <1>1, AssumedA, AssumedB, PA!InitType, PB!InitType
<1>3. Good(runA, runB, rows, recs, own)
    BY <1>1 DEF PA!Init, PB!Init, PA!Idle, PB!Idle, Good, Clear
<1> QED BY <1>2, <1>3 DEF Shared

\* The inductive invariant of the pair holds in every state.
LEMMA SharedInvariant == Spec => []Shared
<1> QED BY SharedAtFirst, SharedKept, PTL DEF Spec

\* Neither seeder deletes a row that the application creates, even one that it
\* creates while they delete theirs.
THEOREM SeederPairOwnRowsStay == Spec => []OwnRowsStay
<1>1. Shared => OwnRowsStay
    BY DEF Shared, Good, OwnRowsStay
<1> QED BY <1>1, SharedInvariant, PTL

\* A row that is tracked stays tracked as long as it is there, unless its model
\* is dropped from the schema or its data set from the files.
THEOREM SeederPairNeverLetsGo == Spec => NeverLetsGo
<1> DEFINE Kept == \A r \in recs \ recs' :
                    \/ <<r.group, r.id>> \notin rows'
                    \/ r.group \notin fileA.live \intersect fileB.live
                    \/ \E run \in {runA, runB} : run.pc = "forget" /\ r.ds \notin run.sel
<1>1. Shared /\ [Next]_vars => Kept
    <2> SUFFICES ASSUME Shared, [Next]_vars, NEW q \in recs, q \notin recs'
                 PROVE  \/ Row(q) \notin rows'
                        \/ q.group \notin fileA.live \intersect fileB.live
                        \/ \E run \in {runA, runB} : run.pc = "forget" /\ q.ds \notin run.sel
        BY DEF Row
    <2>1. ASSUME NEW r, NEW s, NEW o, NEW f, Moves(r, s, o, f)
          PROVE  \/ Row(q) \notin rows'
                 \/ q.group \notin f.live
                 \/ r.pc = "forget" /\ q.ds \notin r.sel
        BY <2>1 DEF Moves, Rests, TakesGroup, TakesRecord, GoesOn, SavesRow, FinishesRecord
    <2>2. CASE Moves(runA, runA', runB, fileA)
        BY <2>1, <2>2
    <2>3. CASE Moves(runB, runB', runA, fileB)
        BY <2>1, <2>3
    <2> QED BY <2>2, <2>3, SharedKept
<1> QED BY <1>1, SharedInvariant, PTL DEF Spec, NeverLetsGo

\* No command of the application is a Reseed: the two servers autoseed and the
\* user seeds or unseeds.  Two Reseeds each insert a record again whose row is
\* gone, also one that is tracked twice already.
NoReseed == \A start \in Starts : start[1] # "Reseed"

\* With what each run has still to track, no record has more than two copies.
Twice ==
    /\ Counted(runA, runB, recs)
    /\ runA.cmd # "Reseed" /\ runB.cmd # "Reseed"

LEMMA TwiceAtFirst == Init => Twice
<1> SUFFICES ASSUME Init PROVE Twice
    OBVIOUS
<1>1. /\ recs = {} /\ runA.cmd = "Seed" /\ runB.cmd = "Seed" /\ runA.todo = {} /\ runB.todo = {}
      /\ runA.pc = "idle" /\ runB.pc = "idle"
    BY DEF Init, A!Init, B!Init, A!Idle, B!Idle
<1>2. ASSUME NEW d, NEW g, NEW n
      PROVE  /\ Cardinality(CopiesIn(recs, d, g, n)) = 0
             /\ Due(runA, d, g, n) = 0 /\ Due(runB, d, g, n) = 0
    <2>1. CopiesIn(recs, d, g, n) = {}
        BY <1>1 DEF CopiesIn
    <2>2. ~Coming(runA, d, g, n) /\ ~Coming(runB, d, g, n)
        BY <1>1 DEF Coming
    <2> QED BY <2>1, <2>2, FS_EmptySet DEF Due
<1>3. IsFiniteSet(recs)
    BY <1>1, FS_EmptySet
<1> QED BY <1>1, <1>2, <1>3 DEF Twice, Counted

LEMMA TwiceKept ==
    ASSUME NoReseed, Shared, Twice, [Next]_vars
    PROVE  Twice'
<1>1. CASE Moves(runA, runA', runB, fileA) /\ ActsA /\ UNCHANGED seederB
    <2>1. runB' = runB
        BY <1>1 DEF seederB
    <2>2. runA'.cmd \in {runA.cmd, "Seed"} \union {start[1] : start \in Starts}
        BY <1>1, ActsAMoves DEF Shared, Good
    <2>3. Counted(runA', runB, recs')
        BY <1>1, MovesKeepCounted DEF Shared, Twice
    <2> QED BY <2>1, <2>2, <2>3 DEF Twice, NoReseed
<1>2. CASE Moves(runB, runB', runA, fileB) /\ ActsB /\ UNCHANGED seederA
    <2>1. runA' = runA
        BY <1>2 DEF seederA
    <2>2. runB'.cmd \in {runB.cmd, "Seed"} \union {start[1] : start \in Starts}
        BY <1>2, ActsBMoves DEF Shared, Good
    <2>3. Good(runB, runA, rows, recs, own)
        BY DEF Shared, Good
    <2>4. Counted(runB, runA, recs)
        BY CountedBothWays DEF Twice
    <2>5. Counted(runB', runA, recs')
        BY <1>2, <2>3, <2>4, MovesKeepCounted DEF Twice
    <2>6. Counted(runA, runB', recs')
        BY <2>5, CountedBothWays
    <2> QED BY <2>1, <2>2, <2>6 DEF Twice, NoReseed
<1>3. CASE recs' = recs /\ UNCHANGED <<seederA, seederB>>
    BY <1>3 DEF Twice, seederA, seederB
<1> QED BY <1>1, <1>2, <1>3, SharedKept

\* Two seeders insert a record twice when both read their snapshots before
\* either inserts; that is all they do: no order of steps, no crash and no
\* later Seed or Unseed makes a third copy, and no two DataSetRecords name one
\* row.
THEOREM SeederPairAtMostTwice == NoReseed => (Spec => []AtMostTwice)
<1> SUFFICES ASSUME NoReseed PROVE Spec => []AtMostTwice
    OBVIOUS
<1>1. Shared /\ Twice /\ [Next]_vars => Twice'
    BY TwiceKept
<1>2. Shared /\ Twice => AtMostTwice
    <2> SUFFICES ASSUME Shared, Twice PROVE AtMostTwice
        OBVIOUS
    <2>1. ASSUME NEW d \in Datasets, NEW g \in Models, NEW n \in Names
          PROVE  Cardinality(Copies(d, g, n)) <= 2
        <3>1. Copies(d, g, n) = CopiesIn(recs, d, g, n)
            BY DEF Copies, CopiesIn
        <3>2. Cardinality(CopiesIn(recs, d, g, n)) \in Nat
            BY FewerCopies DEF Twice, Counted
        <3>3. Due(runA, d, g, n) \in Nat /\ Due(runB, d, g, n) \in Nat
            BY DEF Due
        <3>4. Cardinality(CopiesIn(recs, d, g, n)) + Due(runA, d, g, n) + Due(runB, d, g, n) <= 2
            BY DEF Twice, Counted
        <3> QED BY <3>1, <3>2, <3>3, <3>4
    <2>2. \A r, s \in recs : <<r.group, r.id>> = <<s.group, s.id>> => r = s
        BY DEF Shared, Good, Row
    <2> QED BY <2>1, <2>2 DEF AtMostTwice
<1> QED BY <1>1, <1>2, TwiceAtFirst, SharedInvariant, PTL DEF Spec

-------------------------------------------------------------------------------
\* Runs that met no other.

\* What seeder A has read is of the group and the data set that it is in.
LEMMA AOfTheGroup == Shared => PA!TypeInv /\ PA!OfTheGroup
BY DEF Shared, Good, Clear, PA!OfTheGroup, PA!Upserting

\* A step of seeder A is one of those that bring its run on, or leaves both its
\* run and the DataSetRecords.
LEMMA ASorted ==
    ASSUME Shared, PA!Narrows, ActsA
    PROVE  \/ PA!Sorted
           \/ runA.pc = "idle" /\ runA' = runA /\ recs' = recs
<1>1. CASE InsertA
    <2>1. PICK i : A!SaveNewRowAs(i)
        BY <1>1 DEF InsertA
    <2> QED BY <2>1, AssumedA, SameA, AOfTheGroup, PA!SavingCarries DEF PA!Sorted
<1>2. CASE A!Step
    BY <1>2, AssumedA, SameA, AOfTheGroup, PA!StepsSorted DEF PA!OfTheGroup, PA!Narrows
<1>3. ASSUME NEW start \in Starts, A!Begin(start) PROVE PA!Sorted
    <2>1. PA!Next /\ runA.pc = "idle" /\ runA' # runA
        BY <1>3, SameA DEF PA!Next, A!Begin, A!Idle
    <2>2. ~PA!Step /\ ~PA!Crash
        BY <2>1, AssumedA, PA!NoStepAtRest DEF Shared, PA!Crash
    <2> QED BY <2>1, <2>2, AssumedA, AOfTheGroup, PA!OtherSteps DEF PA!Sorted
<1>4. CASE A!Crash
    BY <1>4 DEF A!Crash, A!Decides, A!Idle, PA!Stops, PA!Sorted
<1>5. CASE \E f \in Versions : A!Edit(f)
    BY <1>5 DEF A!Edit
<1> QED BY <1>1, <1>2, <1>3, <1>4, <1>5 DEF ActsA

\* It keeps what the run has reached.
LEMMA AOnward ==
    ASSUME Shared, PA!Onward, ActsA
    PROVE  PA!Onward'
<1>1. PA!Narrows
    BY DEF PA!Onward
<1>2. CASE PA!Sorted
    BY <1>2, AssumedA, AOfTheGroup, PA!OnwardBySteps
<1>3. CASE runA.pc = "idle" /\ runA' = runA
    BY <1>3, AssumedA, PA!OnwardAtRest
<1> QED BY <1>1, <1>2, <1>3, ASorted

\* It takes a run to write, but for the files.
LEMMA AAtRest ==
    ASSUME Shared, runA.pc = "idle"
    PROVE  ~StepA /\ ~CrashA
<1>1. ~PA!Step
    BY AssumedA, PA!NoStepAtRest DEF Shared
<1> QED BY <1>1, SameA DEF StepA, InsertA, A!Inserting, CrashA, A!Crash

\* What seeder B has read is of the group and the data set that it is in.
LEMMA BOfTheGroup == Shared => PB!TypeInv /\ PB!OfTheGroup
BY DEF Shared, Good, Clear, PB!OfTheGroup, PB!Upserting

\* A step of seeder B is one of those that bring its run on, or leaves both its
\* run and the DataSetRecords.
LEMMA BSorted ==
    ASSUME Shared, PB!Narrows, ActsB
    PROVE  \/ PB!Sorted
           \/ runB.pc = "idle" /\ runB' = runB /\ recs' = recs
<1>1. CASE InsertB
    <2>1. PICK i : B!SaveNewRowAs(i)
        BY <1>1 DEF InsertB
    <2> QED BY <2>1, AssumedB, SameB, BOfTheGroup, PB!SavingCarries DEF PB!Sorted
<1>2. CASE B!Step
    BY <1>2, AssumedB, SameB, BOfTheGroup, PB!StepsSorted DEF PB!OfTheGroup, PB!Narrows
<1>3. ASSUME NEW start \in Starts, B!Begin(start) PROVE PB!Sorted
    <2>1. PB!Next /\ runB.pc = "idle" /\ runB' # runB
        BY <1>3, SameB DEF PB!Next, B!Begin, B!Idle
    <2>2. ~PB!Step /\ ~PB!Crash
        BY <2>1, AssumedB, PB!NoStepAtRest DEF Shared, PB!Crash
    <2> QED BY <2>1, <2>2, AssumedB, BOfTheGroup, PB!OtherSteps DEF PB!Sorted
<1>4. CASE B!Crash
    BY <1>4 DEF B!Crash, B!Decides, B!Idle, PB!Stops, PB!Sorted
<1>5. CASE \E f \in Versions : B!Edit(f)
    BY <1>5 DEF B!Edit
<1> QED BY <1>1, <1>2, <1>3, <1>4, <1>5 DEF ActsB

\* It keeps what the run has reached.
LEMMA BOnward ==
    ASSUME Shared, PB!Onward, ActsB
    PROVE  PB!Onward'
<1>1. PB!Narrows
    BY DEF PB!Onward
<1>2. CASE PB!Sorted
    BY <1>2, AssumedB, BOfTheGroup, PB!OnwardBySteps
<1>3. CASE runB.pc = "idle" /\ runB' = runB
    BY <1>3, AssumedB, PB!OnwardAtRest
<1> QED BY <1>1, <1>2, <1>3, BSorted

\* It takes a run to write, but for the files.
LEMMA BAtRest ==
    ASSUME Shared, runB.pc = "idle"
    PROVE  ~StepB /\ ~CrashB
<1>1. ~PB!Step
    BY AssumedB, PB!NoStepAtRest DEF Shared
<1> QED BY <1>1, SameB DEF StepB, InsertB, B!Inserting, CrashB, B!Crash

\* While a run has met no other it is as far as a run of a single seeder would
\* be, on whatever tables it has found.
AAlone == metA = "none" => PA!Onward /\ (runA.pc # "idle" => runB.pc = "idle")
BAlone == metB = "none" => PB!Onward /\ (runB.pc # "idle" => runA.pc = "idle")

LEMMA AAloneKept ==
    ASSUME Shared, AAlone, [Next]_vars
    PROVE  AAlone'
<1>a. ASSUME runA'.pc = "idle" PROVE AAlone'
    BY <1>a, AssumedA, PA!OnwardAtRest DEF AAlone
<1>b. ASSUME UNCHANGED <<recs, runA, fileA>> PROVE PA!Onward => PA!Onward'
    BY <1>b, AssumedA, PA!OnwardStays
<1>1. ASSUME NEW start \in Starts, BeginA(start) PROVE AAlone'
    <2>1. ActsA /\ runB' = runB
        BY <1>1 DEF BeginA, ActsA, seederB
    <2>2. metA' = "none" => runB.pc = "idle" /\ metA = "none"
        BY <1>1 DEF BeginA, Meeting
    <2> QED BY <2>1, <2>2, AOnward DEF AAlone
<1>2. CASE StepA
    <2>1. ActsA /\ runB' = runB
        BY <1>2 DEF StepA, ActsA, seederB
    <2>2. runA.pc # "idle"
        BY <1>2, AAtRest
    <2>3. runA'.pc = "idle" \/ metA' = metA
        BY <1>2 DEF StepA
    <2> QED BY <1>a, <2>1, <2>2, <2>3, AOnward DEF AAlone
<1>3. CASE CrashA
    BY <1>3, <1>a DEF CrashA, A!Crash, A!Idle
<1>4. CASE DeployA
    BY <1>4, <1>a DEF DeployA, A!Edit
<1>5. ASSUME NEW start \in Starts, BeginB(start) PROVE AAlone'
    <2>1. runA' = runA
        BY <1>5 DEF BeginB, seederA
    <2>2. runA.pc # "idle" => metA' # "none"
        BY <1>5 DEF BeginB, Meeting
    <2> QED BY <1>a, <2>1, <2>2 DEF AAlone
<1>6. CASE StepB \/ CrashB
    <2>1. runA' = runA /\ metA' = metA
        BY <1>6 DEF StepB, CrashB, seederA
    <2>2. runB.pc # "idle"
        BY <1>6, BAtRest
    <2> QED BY <1>a, <2>1, <2>2 DEF AAlone
<1>7. CASE DeployB
    <2>1. UNCHANGED <<recs, runA, fileA>> /\ runB' = runB /\ metA' = metA
        BY <1>7 DEF DeployB, B!Edit, seederA
    <2> QED BY <1>b, <2>1 DEF AAlone
<1>8. CASE \E g \in Models : AppCreate(g)
    <2>1. UNCHANGED <<recs, runA, fileA>> /\ runB' = runB /\ metA' = metA
        BY <1>8 DEF AppCreate, seederA, seederB
    <2> QED BY <1>b, <2>1 DEF AAlone
<1>9. CASE UNCHANGED vars
    <2>1. UNCHANGED <<recs, runA, fileA>> /\ runB' = runB /\ metA' = metA
        BY <1>9 DEF vars, tables, seederA, seederB
    <2> QED BY <1>b, <2>1 DEF AAlone
<1> QED BY <1>1, <1>2, <1>3, <1>4, <1>5, <1>6, <1>7, <1>8, <1>9 DEF Next

LEMMA BAloneKept ==
    ASSUME Shared, BAlone, [Next]_vars
    PROVE  BAlone'
<1>a. ASSUME runB'.pc = "idle" PROVE BAlone'
    BY <1>a, AssumedB, PB!OnwardAtRest DEF BAlone
<1>b. ASSUME UNCHANGED <<recs, runB, fileB>> PROVE PB!Onward => PB!Onward'
    BY <1>b, AssumedB, PB!OnwardStays
<1>1. ASSUME NEW start \in Starts, BeginB(start) PROVE BAlone'
    <2>1. ActsB /\ runA' = runA
        BY <1>1 DEF BeginB, ActsB, seederA
    <2>2. metB' = "none" => runA.pc = "idle" /\ metB = "none"
        BY <1>1 DEF BeginB, Meeting
    <2> QED BY <2>1, <2>2, BOnward DEF BAlone
<1>2. CASE StepB
    <2>1. ActsB /\ runA' = runA
        BY <1>2 DEF StepB, ActsB, seederA
    <2>2. runB.pc # "idle"
        BY <1>2, BAtRest
    <2>3. runB'.pc = "idle" \/ metB' = metB
        BY <1>2 DEF StepB
    <2> QED BY <1>a, <2>1, <2>2, <2>3, BOnward DEF BAlone
<1>3. CASE CrashB
    BY <1>3, <1>a DEF CrashB, B!Crash, B!Idle
<1>4. CASE DeployB
    BY <1>4, <1>a DEF DeployB, B!Edit
<1>5. ASSUME NEW start \in Starts, BeginA(start) PROVE BAlone'
    <2>1. runB' = runB
        BY <1>5 DEF BeginA, seederB
    <2>2. runB.pc # "idle" => metB' # "none"
        BY <1>5 DEF BeginA, Meeting
    <2> QED BY <1>a, <2>1, <2>2 DEF BAlone
<1>6. CASE StepA \/ CrashA
    <2>1. runB' = runB /\ metB' = metB
        BY <1>6 DEF StepA, CrashA, seederB
    <2>2. runA.pc # "idle"
        BY <1>6, AAtRest
    <2> QED BY <1>a, <2>1, <2>2 DEF BAlone
<1>7. CASE DeployA
    <2>1. UNCHANGED <<recs, runB, fileB>> /\ runA' = runA /\ metB' = metB
        BY <1>7 DEF DeployA, A!Edit, seederB
    <2> QED BY <1>b, <2>1 DEF BAlone
<1>8. CASE \E g \in Models : AppCreate(g)
    <2>1. UNCHANGED <<recs, runB, fileB>> /\ runA' = runA /\ metB' = metB
        BY <1>8 DEF AppCreate, seederB, seederA
    <2> QED BY <1>b, <2>1 DEF BAlone
<1>9. CASE UNCHANGED vars
    <2>1. UNCHANGED <<recs, runB, fileB>> /\ runA' = runA /\ metB' = metB
        BY <1>9 DEF vars, tables, seederB, seederA
    <2> QED BY <1>b, <2>1 DEF BAlone
<1> QED BY <1>1, <1>2, <1>3, <1>4, <1>5, <1>6, <1>7, <1>8, <1>9 DEF Next

\* A run that met no other brings the tables in line with its files, in
\* whatever state runs that overlapped, crashed or were of another version
\* have left them.
THEOREM SeederPairAloneBringsInLine == Spec => []AloneBringsInLine
<1>1. Init => AAlone /\ BAlone
    <2> SUFFICES ASSUME Init PROVE AAlone /\ BAlone
        OBVIOUS
    <2>1. runA.pc = "idle" /\ runB.pc = "idle"
        BY DEF Init, A!Init, A!Idle, B!Init, B!Idle
    <2>2. PA!Phase(runA) = "idle" /\ PB!Phase(runB) = "idle"
        BY <2>1 DEF PA!Phase, PB!Phase
    <2>3. PA!Onward
        BY <2>1, <2>2 DEF PA!Onward, PA!Narrows, PA!Justified, PA!StillThere, PA!Progress,
                          PA!OthersDone, PA!InSeed
    <2>4. PB!Onward
        BY <2>1, <2>2 DEF PB!Onward, PB!Narrows, PB!Justified, PB!StillThere, PB!Progress,
                          PB!OthersDone, PB!InSeed
    <2> QED BY <2>1, <2>3, <2>4 DEF AAlone, BAlone
<1>2. Shared /\ AAlone /\ BAlone /\ [Next]_vars => (AAlone /\ BAlone)'
    BY AAloneKept, BAloneKept
<1>3. Shared /\ AAlone /\ BAlone => AloneBringsInLine
    <2> SUFFICES ASSUME Shared, AAlone, BAlone PROVE AloneBringsInLine
        OBVIOUS
    <2>1. ASSUME runA.pc = "done", metA = "none" PROVE InLine(runA, fileA)
        <3>1. PA!RecordsMatchFiles /\ runA.cmd \in PA!Commands
            BY <2>1, AssumedA, PA!EndsInLine, PA!RunFields DEF Shared, AAlone, PA!TypeInv, PA!TypeOK
        <3>2. \A d : PA!TrackedIn(d) = TrackedIn(d) /\ PA!DeclaredIn(d) = DeclaredIn(fileA, d)
            BY DEF PA!TrackedIn, PA!DeclaredIn, TrackedIn, DeclaredIn
        <3>3. \A d : \A x \in TrackedIn(d) : x[1] \in Models
            BY DEF Shared, PA!TypeInv, PA!TypeOK, PA!Recs, PA!Records, TrackedIn
        <3> QED BY <2>1, <3>1, <3>2, <3>3 DEF PA!RecordsMatchFiles, PA!Ended, PA!Groups,
                   PA!Commands, InLine
    <2>2. ASSUME runB.pc = "done", metB = "none" PROVE InLine(runB, fileB)
        <3>1. PB!RecordsMatchFiles /\ runB.cmd \in PB!Commands
            BY <2>2, AssumedB, PB!EndsInLine, PB!RunFields DEF Shared, BAlone, PB!TypeInv, PB!TypeOK
        <3>2. \A d : PB!TrackedIn(d) = TrackedIn(d) /\ PB!DeclaredIn(d) = DeclaredIn(fileB, d)
            BY DEF PB!TrackedIn, PB!DeclaredIn, TrackedIn, DeclaredIn
        <3>3. \A d : \A x \in TrackedIn(d) : x[1] \in Models
            BY DEF Shared, PB!TypeInv, PB!TypeOK, PB!Recs, PB!Records, TrackedIn
        <3> QED BY <2>2, <3>1, <3>2, <3>3 DEF PB!RecordsMatchFiles, PB!Ended, PB!Groups,
                   PB!Commands, InLine
    <2> QED BY <2>1, <2>2 DEF AloneBringsInLine
<1> QED BY <1>1, <1>2, <1>3, SharedInvariant, PTL DEF Spec

-------------------------------------------------------------------------------
\* Servers of one version that autoseed at once.
OnlyAutoseed == \A start \in Starts : start[1] = "Seed" => start[2] = "autoseed"

On(r) == r.pc \notin {"idle", "panicked"}
Autoseeded(r, f) == On(r) /\ r.cmd = "Seed" => r.sel = f.auto
BothSeed == runA.cmd = "Seed" /\ runB.cmd = "Seed" /\ fileA = fileB

\* What seeder A has set out to do.
APlan == PA!Narrows /\ PA!Justified /\ Autoseeded(runA, fileA)

\* A step of its own keeps to it.
LEMMA APlanKept ==
    ASSUME OnlyAutoseed, Shared, APlan, ActsA
    PROVE  APlan'
<1>1. PA!Narrows' /\ PA!Justified'
    <2>1. CASE PA!Sorted
        BY <2>1, AssumedA, AOfTheGroup, PA!PlanKept DEF APlan
    <2>2. CASE runA.pc = "idle" /\ runA' = runA
        BY <2>2 DEF PA!Narrows, PA!Justified, PA!InSeed, PA!Phase
    <2> QED BY <2>1, <2>2, ASorted DEF APlan
<1>2. Autoseeded(runA, fileA)'
    <2>1. ASSUME NEW start \in Starts, A!Begin(start) PROVE Autoseeded(runA, fileA)'
        <3>1. PICK sel \in A!Selections(start[2]) :
                runA' = [A!Idle EXCEPT !.pc = "dataset", !.cmd = start[1], !.sel = sel, !.left = sel]
            BY <2>1 DEF A!Begin
        <3>2. runA'.cmd = start[1] /\ runA'.sel = sel
            BY <3>1 DEF A!Idle
        <3>3. start[1] = "Seed" => sel = fileA.auto
            BY <3>1 DEF OnlyAutoseed, A!Selections
        <3> QED BY <2>1, <3>2, <3>3 DEF A!Begin, A!Decides, Autoseeded
    <2>2. ASSUME ~(\E start \in Starts : A!Begin(start)) PROVE ~PA!RunBegun
        <3>1. InsertA => runA.pc # "idle"
            BY DEF InsertA, A!Inserting
        <3>2. A!Step => runA.pc # "idle"
            BY AssumedA, SameA, PA!NoStepAtRest DEF Shared
        <3> QED BY <2>2, <3>1, <3>2 DEF ActsA, A!Crash, A!Edit, PA!RunBegun
    <2>3. CASE PA!Sorted /\ ~PA!RunBegun
        BY <2>3, AssumedA, PA!OneCommand DEF APlan, Autoseeded, On
    <2>4. CASE runA.pc = "idle" /\ runA' = runA
        BY <2>4 DEF Autoseeded, On
    <2> QED BY <2>1, <2>2, <2>3, <2>4, ASorted DEF APlan
<1> QED BY <1>1, <1>2 DEF APlan

\* It leaves out nothing, and lets go of nothing that a Seed like it counts on.
LEMMA ALeavesNothing ==
    ASSUME Shared, APlan, ActsA
    PROVE  /\ PA!LeavesNothingOut => PA!LeavesNothingOut'
           /\ \A q \in recs \ recs' :
                /\ On(runA)
                /\ runA.cmd = "Seed" => \/ <<q.ds, q.group, q.name>> \notin fileA.records
                                        \/ q.ds \notin fileA.auto
<1>1. CASE PA!Sorted
    <2>1. PA!LeavesNothingOut => PA!LeavesNothingOut'
        BY <1>1, AssumedA, AOfTheGroup, PA!NothingLeftOut DEF APlan
    <2>2. ASSUME NEW q \in recs \ recs' PROVE On(runA)
        BY <1>1, <2>2, AssumedA, PA!OneCommand DEF On
    <2>3. ASSUME NEW q \in recs \ recs', runA.cmd = "Seed"
          PROVE  <<q.ds, q.group, q.name>> \notin fileA.records \/ q.ds \notin fileA.auto
        <3>1. PA!Triple(q) \notin fileA.records \/ q.ds \notin runA.sel
            BY <1>1, <2>3, AssumedA, AOfTheGroup, PA!SeedUntracks DEF APlan
        <3> QED BY <2>2, <2>3, <3>1 DEF PA!Triple, APlan, Autoseeded
    <2> QED BY <2>1, <2>2, <2>3
<1>2. CASE runA.pc = "idle" /\ runA' = runA /\ recs' = recs
    BY <1>2 DEF PA!LeavesNothingOut, PA!InSeed, PA!Phase
<1> QED BY <1>1, <1>2, ASorted DEF APlan

\* What a run has met: another that is on is a Seed of the same files.
ATogether ==
    metA # "others" => PA!LeavesNothingOut /\ (On(runA) /\ On(runB) => BothSeed)

\* What seeder B has set out to do.
BPlan == PB!Narrows /\ PB!Justified /\ Autoseeded(runB, fileB)

\* A step of its own keeps to it.
LEMMA BPlanKept ==
    ASSUME OnlyAutoseed, Shared, BPlan, ActsB
    PROVE  BPlan'
<1>1. PB!Narrows' /\ PB!Justified'
    <2>1. CASE PB!Sorted
        BY <2>1, AssumedB, BOfTheGroup, PB!PlanKept DEF BPlan
    <2>2. CASE runB.pc = "idle" /\ runB' = runB
        BY <2>2 DEF PB!Narrows, PB!Justified, PB!InSeed, PB!Phase
    <2> QED BY <2>1, <2>2, BSorted DEF BPlan
<1>2. Autoseeded(runB, fileB)'
    <2>1. ASSUME NEW start \in Starts, B!Begin(start) PROVE Autoseeded(runB, fileB)'
        <3>1. PICK sel \in B!Selections(start[2]) :
                runB' = [B!Idle EXCEPT !.pc = "dataset", !.cmd = start[1], !.sel = sel, !.left = sel]
            BY <2>1 DEF B!Begin
        <3>2. runB'.cmd = start[1] /\ runB'.sel = sel
            BY <3>1 DEF B!Idle
        <3>3. start[1] = "Seed" => sel = fileB.auto
            BY <3>1 DEF OnlyAutoseed, B!Selections
        <3> QED BY <2>1, <3>2, <3>3 DEF B!Begin, B!Decides, Autoseeded
    <2>2. ASSUME ~(\E start \in Starts : B!Begin(start)) PROVE ~PB!RunBegun
        <3>1. InsertB => runB.pc # "idle"
            BY DEF InsertB, B!Inserting
        <3>2. B!Step => runB.pc # "idle"
            BY AssumedB, SameB, PB!NoStepAtRest DEF Shared
        <3> QED BY <2>2, <3>1, <3>2 DEF ActsB, B!Crash, B!Edit, PB!RunBegun
    <2>3. CASE PB!Sorted /\ ~PB!RunBegun
        BY <2>3, AssumedB, PB!OneCommand DEF BPlan, Autoseeded, On
    <2>4. CASE runB.pc = "idle" /\ runB' = runB
        BY <2>4 DEF Autoseeded, On
    <2> QED BY <2>1, <2>2, <2>3, <2>4, BSorted DEF BPlan
<1> QED BY <1>1, <1>2 DEF BPlan

\* It leaves out nothing, and lets go of nothing that a Seed like it counts on.
LEMMA BLeavesNothing ==
    ASSUME Shared, BPlan, ActsB
    PROVE  /\ PB!LeavesNothingOut => PB!LeavesNothingOut'
           /\ \A q \in recs \ recs' :
                /\ On(runB)
                /\ runB.cmd = "Seed" => \/ <<q.ds, q.group, q.name>> \notin fileB.records
                                        \/ q.ds \notin fileB.auto
<1>1. CASE PB!Sorted
    <2>1. PB!LeavesNothingOut => PB!LeavesNothingOut'
        BY <1>1, AssumedB, BOfTheGroup, PB!NothingLeftOut DEF BPlan
    <2>2. ASSUME NEW q \in recs \ recs' PROVE On(runB)
        BY <1>1, <2>2, AssumedB, PB!OneCommand DEF On
    <2>3. ASSUME NEW q \in recs \ recs', runB.cmd = "Seed"
          PROVE  <<q.ds, q.group, q.name>> \notin fileB.records \/ q.ds \notin fileB.auto
        <3>1. PB!Triple(q) \notin fileB.records \/ q.ds \notin runB.sel
            BY <1>1, <2>3, AssumedB, BOfTheGroup, PB!SeedUntracks DEF BPlan
        <3> QED BY <2>2, <2>3, <3>1 DEF PB!Triple, BPlan, Autoseeded
    <2> QED BY <2>1, <2>2, <2>3
<1>2. CASE runB.pc = "idle" /\ runB' = runB /\ recs' = recs
    BY <1>2 DEF PB!LeavesNothingOut, PB!InSeed, PB!Phase
<1> QED BY <1>1, <1>2, BSorted DEF BPlan

\* What a run has met: another that is on is a Seed of the same files.
BTogether ==
    metB # "others" => PB!LeavesNothingOut /\ (On(runA) /\ On(runB) => BothSeed)

\* A run that begins has left nothing out yet; only a begin makes a run be on.
LEMMA AOnStays ==
    ASSUME Shared, APlan, StepA \/ CrashA \/ DeployA, On(runA')
    PROVE  On(runA) /\ runA'.cmd = runA.cmd /\ fileA' = fileA /\ StepA
<1>1. ~CrashA
    BY DEF CrashA, A!Crash, A!Idle, On
<1>2. ~DeployA
    BY DEF DeployA, A!Edit, On
<1>3. CASE StepA
    <2>1. ActsA /\ runA.pc # "idle"
        BY <1>3, AAtRest DEF StepA, ActsA
    <2>2. PA!Sorted /\ ~PA!RunBegun
        BY <2>1, ASorted DEF APlan, PA!RunBegun
    <2> QED BY <1>3, <2>2, AssumedA, PA!OneCommand DEF On
<1> QED BY <1>1, <1>2, <1>3

\* A run that begins has left nothing out yet; only a begin makes a run be on.
LEMMA BOnStays ==
    ASSUME Shared, BPlan, StepB \/ CrashB \/ DeployB, On(runB')
    PROVE  On(runB) /\ runB'.cmd = runB.cmd /\ fileB' = fileB /\ StepB
<1>1. ~CrashB
    BY DEF CrashB, B!Crash, B!Idle, On
<1>2. ~DeployB
    BY DEF DeployB, B!Edit, On
<1>3. CASE StepB
    <2>1. ActsB /\ runB.pc # "idle"
        BY <1>3, BAtRest DEF StepB, ActsB
    <2>2. PB!Sorted /\ ~PB!RunBegun
        BY <2>1, BSorted DEF BPlan, PB!RunBegun
    <2> QED BY <1>3, <2>2, AssumedB, PB!OneCommand DEF On
<1> QED BY <1>1, <1>2, <1>3

LEMMA ATogetherKept ==
    ASSUME Shared, APlan, BPlan, ATogether, [Next]_vars
    PROVE  ATogether'
<1>r. ASSUME ~On(runA') PROVE ATogether'
    <2>1. PA!LeavesNothingOut'
        BY <1>r DEF On, PA!LeavesNothingOut, PA!InSeed, PA!Phase
    <2> QED BY <1>r, <2>1 DEF ATogether
<1> SUFFICES ASSUME On(runA'), metA' # "others"
             PROVE  PA!LeavesNothingOut' /\ (On(runB') /\ On(runA') => BothSeed')
    BY <1>r DEF ATogether
<1>1. ASSUME NEW start \in Starts, BeginA(start)
      PROVE  PA!LeavesNothingOut' /\ (On(runB') /\ On(runA') => BothSeed')
    <2>1. /\ ActsA /\ runB' = runB /\ fileB' = fileB /\ fileA' = fileA
          /\ runA.pc = "idle" /\ runA'.cmd = start[1]
        BY <1>1 DEF BeginA, ActsA, seederB, A!Begin, A!Idle, A!Decides
    <2>2. PA!LeavesNothingOut
        BY <2>1 DEF PA!LeavesNothingOut, PA!InSeed, PA!Phase
    <2>3. On(runB) => {start[1], runB.cmd} = {"Seed"} /\ fileA = fileB
        BY <1>1 DEF BeginA, Meeting, On
    <2> QED BY <2>1, <2>2, <2>3, ALeavesNothing DEF BothSeed
<1>2. CASE StepA \/ CrashA \/ DeployA
    <2>1. /\ ActsA /\ runB' = runB /\ fileB' = fileB /\ metA' = metA
          /\ On(runA) /\ runA'.cmd = runA.cmd /\ fileA' = fileA
        BY <1>2, AOnStays DEF StepA, ActsA, seederB, On
    <2> QED BY <2>1, ALeavesNothing DEF ATogether, BothSeed
\* The other takes from the tables nothing that this run counts on.
<1>o. ASSUME ActsB, UNCHANGED seederA, metA # "others" PROVE PA!LeavesNothingOut'
    <2>1. runA' = runA /\ fileA' = fileA
        BY <1>o DEF seederA
    <2>2. ASSUME NEW q \in recs, q \notin recs', runA.cmd = "Seed"
          PROVE  PA!Triple(q) \notin fileA.records \/ q.ds \notin runA.sel
        <3>1. On(runB) /\ BothSeed
            BY <1>o, <2>1, <2>2, BLeavesNothing DEF ATogether
        <3>2. <<q.ds, q.group, q.name>> \notin fileB.records \/ q.ds \notin fileB.auto
            BY <1>o, <2>2, <3>1, BLeavesNothing DEF BothSeed
        <3>3. runA.sel = fileA.auto
            BY <2>1, <2>2 DEF APlan, Autoseeded
        <3> QED BY <3>1, <3>2, <3>3 DEF BothSeed, PA!Triple
    <2> QED BY <1>o, <2>1, <2>2, AssumedA, AOfTheGroup, PA!NothingLeftOutStays
            DEF ATogether, APlan
<1>3. ASSUME NEW start \in Starts, BeginB(start)
      PROVE  PA!LeavesNothingOut' /\ (On(runB') /\ On(runA') => BothSeed')
    <2>1. /\ ActsB /\ UNCHANGED seederA /\ runA' = runA /\ fileA' = fileA
          /\ fileB' = fileB /\ runB'.cmd = start[1]
        BY <1>3 DEF BeginB, ActsB, seederA, B!Begin, B!Idle, B!Decides
    <2>2. metA # "others" /\ {start[1], runA.cmd} = {"Seed"} /\ fileA = fileB
        BY <1>3, <2>1 DEF BeginB, Meeting, On
    <2> QED BY <1>o, <2>1, <2>2 DEF BothSeed
<1>4. CASE StepB \/ CrashB \/ DeployB
    <2>1. /\ ActsB /\ UNCHANGED seederA /\ runA' = runA /\ fileA' = fileA
          /\ metA' = metA
        BY <1>4 DEF StepB, CrashB, DeployB, ActsB, seederA
    <2>2. On(runB') => On(runB) /\ runB'.cmd = runB.cmd /\ fileB' = fileB
        BY <1>4, BOnStays
    <2> QED BY <1>o, <2>1, <2>2 DEF ATogether, BothSeed
<1>5. CASE (\E g \in Models : AppCreate(g)) \/ UNCHANGED vars
    <2>1. UNCHANGED <<recs, runA, fileA, runB, fileB>> /\ metA' = metA
        BY <1>5 DEF AppCreate, vars, tables, seederA, seederB
    <2>2. PA!LeavesNothingOut'
        BY <2>1, AssumedA, AOfTheGroup, PA!NothingLeftOutStays DEF ATogether, APlan
    <2> QED BY <2>1, <2>2 DEF ATogether, BothSeed
<1> QED BY <1>1, <1>2, <1>3, <1>4, <1>5 DEF Next

LEMMA BTogetherKept ==
    ASSUME Shared, APlan, BPlan, BTogether, [Next]_vars
    PROVE  BTogether'
<1>r. ASSUME ~On(runB') PROVE BTogether'
    <2>1. PB!LeavesNothingOut'
        BY <1>r DEF On, PB!LeavesNothingOut, PB!InSeed, PB!Phase
    <2> QED BY <1>r, <2>1 DEF BTogether
<1> SUFFICES ASSUME On(runB'), metB' # "others"
             PROVE  PB!LeavesNothingOut' /\ (On(runB') /\ On(runA') => BothSeed')
    BY <1>r DEF BTogether
<1>1. ASSUME NEW start \in Starts, BeginB(start)
      PROVE  PB!LeavesNothingOut' /\ (On(runB') /\ On(runA') => BothSeed')
    <2>1. /\ ActsB /\ runA' = runA /\ fileA' = fileA /\ fileB' = fileB
          /\ runB.pc = "idle" /\ runB'.cmd = start[1]
        BY <1>1 DEF BeginB, ActsB, seederA, B!Begin, B!Idle, B!Decides
    <2>2. PB!LeavesNothingOut
        BY <2>1 DEF PB!LeavesNothingOut, PB!InSeed, PB!Phase
    <2>3. On(runA) => {start[1], runA.cmd} = {"Seed"} /\ fileA = fileB
        BY <1>1 DEF BeginB, Meeting, On
    <2> QED BY <2>1, <2>2, <2>3, BLeavesNothing DEF BothSeed
<1>2. CASE StepB \/ CrashB \/ DeployB
    <2>1. /\ ActsB /\ runA' = runA /\ fileA' = fileA /\ metB' = metB
          /\ On(runB) /\ runB'.cmd = runB.cmd /\ fileB' = fileB
        BY <1>2, BOnStays DEF StepB, ActsB, seederA, On
    <2> QED BY <2>1, BLeavesNothing DEF BTogether, BothSeed
\* The other takes from the tables nothing that this run counts on.
<1>o. ASSUME ActsA, UNCHANGED seederB, metB # "others" PROVE PB!LeavesNothingOut'
    <2>1. runB' = runB /\ fileB' = fileB
        BY <1>o DEF seederB
    <2>2. ASSUME NEW q \in recs, q \notin recs', runB.cmd = "Seed"
          PROVE  PB!Triple(q) \notin fileB.records \/ q.ds \notin runB.sel
        <3>1. On(runA) /\ BothSeed
            BY <1>o, <2>1, <2>2, ALeavesNothing DEF BTogether
        <3>2. <<q.ds, q.group, q.name>> \notin fileA.records \/ q.ds \notin fileA.auto
            BY <1>o, <2>2, <3>1, ALeavesNothing DEF BothSeed
        <3>3. runB.sel = fileB.auto
            BY <2>1, <2>2 DEF BPlan, Autoseeded
        <3> QED BY <3>1, <3>2, <3>3 DEF BothSeed, PB!Triple
    <2> QED BY <1>o, <2>1, <2>2, AssumedB, BOfTheGroup, PB!NothingLeftOutStays
            DEF BTogether, BPlan
<1>3. ASSUME NEW start \in Starts, BeginA(start)
      PROVE  PB!LeavesNothingOut' /\ (On(runB') /\ On(runA') => BothSeed')
    <2>1. /\ ActsA /\ UNCHANGED seederB /\ runB' = runB /\ fileB' = fileB
          /\ fileA' = fileA /\ runA'.cmd = start[1]
        BY <1>3 DEF BeginA, ActsA, seederB, A!Begin, A!Idle, A!Decides
    <2>2. metB # "others" /\ {start[1], runB.cmd} = {"Seed"} /\ fileA = fileB
        BY <1>3, <2>1 DEF BeginA, Meeting, On
    <2> QED BY <1>o, <2>1, <2>2 DEF BothSeed
<1>4. CASE StepA \/ CrashA \/ DeployA
    <2>1. /\ ActsA /\ UNCHANGED seederB /\ runB' = runB /\ fileB' = fileB
          /\ metB' = metB
        BY <1>4 DEF StepA, CrashA, DeployA, ActsA, seederB
    <2>2. On(runA') => On(runA) /\ runA'.cmd = runA.cmd /\ fileA' = fileA
        BY <1>4, AOnStays
    <2> QED BY <1>o, <2>1, <2>2 DEF BTogether, BothSeed
<1>5. CASE (\E g \in Models : AppCreate(g)) \/ UNCHANGED vars
    <2>1. UNCHANGED <<recs, runA, fileA, runB, fileB>> /\ metB' = metB
        BY <1>5 DEF AppCreate, vars, tables, seederA, seederB
    <2>2. PB!LeavesNothingOut'
        BY <2>1, AssumedB, BOfTheGroup, PB!NothingLeftOutStays DEF BTogether, BPlan
    <2> QED BY <2>1, <2>2 DEF BTogether, BothSeed
<1> QED BY <1>1, <1>2, <1>3, <1>4, <1>5 DEF Next

\* Neither seeder changes what the other has set out to do.
LEMMA PlansKept ==
    ASSUME OnlyAutoseed, Shared, APlan, BPlan, [Next]_vars
    PROVE  APlan' /\ BPlan'
<1>1. ASSUME UNCHANGED seederA PROVE APlan'
    <2>1. runA' = runA /\ fileA' = fileA
        BY <1>1 DEF seederA
    <2> QED BY <2>1, AssumedA, PA!PlanStays DEF APlan, Autoseeded
<1>2. ASSUME UNCHANGED seederB PROVE BPlan'
    <2>1. runB' = runB /\ fileB' = fileB
        BY <1>2 DEF seederB
    <2> QED BY <2>1, AssumedB, PB!PlanStays DEF BPlan, Autoseeded
<1> QED BY <1>1, <1>2, APlanKept, BPlanKept, SharedKept

\* Servers of one version that autoseed at once leave nothing out, if Seed is
\* always that of the data sets marked autoseed: the first to be ready finds all
\* its records tracked, though some may be tracked by the other one, which is
\* still at work or was killed.
THEOREM SeederPairTogetherLeaveNothingOut == OnlyAutoseed => (Spec => []TogetherLeaveNothingOut)
<1> SUFFICES ASSUME OnlyAutoseed PROVE Spec => []TogetherLeaveNothingOut
    OBVIOUS
<1> DEFINE TogetherInv == APlan /\ BPlan /\ ATogether /\ BTogether
<1>1. Init => TogetherInv
    <2> SUFFICES ASSUME Init PROVE TogetherInv
        OBVIOUS
    <2>1. runA.pc = "idle" /\ runB.pc = "idle"
        BY DEF Init, A!Init, A!Idle, B!Init, B!Idle
    <2>2. APlan /\ PA!LeavesNothingOut
        BY <2>1 DEF APlan, PA!Narrows, PA!Justified, PA!LeavesNothingOut, PA!InSeed, PA!Phase,
                    Autoseeded, On
    <2>3. BPlan /\ PB!LeavesNothingOut
        BY <2>1 DEF BPlan, PB!Narrows, PB!Justified, PB!LeavesNothingOut, PB!InSeed, PB!Phase,
                    Autoseeded, On
    <2> QED BY <2>1, <2>2, <2>3 DEF ATogether, BTogether, On
<1>2. Shared /\ TogetherInv /\ [Next]_vars => TogetherInv'
    BY PlansKept, ATogetherKept, BTogetherKept
<1>3. Shared /\ TogetherInv => TogetherLeaveNothingOut
    <2> SUFFICES ASSUME Shared, TogetherInv PROVE TogetherLeaveNothingOut
        OBVIOUS
    <2>1. ASSUME runA.pc = "done", runA.cmd = "Seed", metA # "others", NEW d \in runA.sel
          PROVE  DeclaredIn(fileA, d) \subseteq TrackedIn(d)
        <3>1. runA.left = {} /\ d # runA.ds
            BY <2>1, AssumedA, AOfTheGroup, PA!Typed, PA!RunFields DEF APlan, PA!Narrows, PA!Phase
        <3>2. \A g \in Models, n \in Names : <<d, g, n>> \in fileA.records => PA!Tracked(d, g, n)
            BY <2>1, <3>1 DEF ATogether, PA!LeavesNothingOut
        <3>3. fileA.records \subseteq Datasets \X Models \X Names
            BY AssumedA, AOfTheGroup DEF PA!TypeInv, PA!TypeOK, PA!File
        <3> QED BY <3>2, <3>3 DEF DeclaredIn, TrackedIn, PA!Tracked, PA!Triple
    <2>2. ASSUME runB.pc = "done", runB.cmd = "Seed", metB # "others", NEW d \in runB.sel
          PROVE  DeclaredIn(fileB, d) \subseteq TrackedIn(d)
        <3>1. runB.left = {} /\ d # runB.ds
            BY <2>2, AssumedB, BOfTheGroup, PB!Typed, PB!RunFields DEF BPlan, PB!Narrows, PB!Phase
        <3>2. \A g \in Models, n \in Names : <<d, g, n>> \in fileB.records => PB!Tracked(d, g, n)
            BY <2>2, <3>1 DEF BTogether, PB!LeavesNothingOut
        <3>3. fileB.records \subseteq Datasets \X Models \X Names
            BY AssumedB, BOfTheGroup DEF PB!TypeInv, PB!TypeOK, PB!File
        <3> QED BY <3>2, <3>3 DEF DeclaredIn, TrackedIn, PB!Tracked, PB!Triple
    <2> QED BY <2>1, <2>2 DEF TogetherLeaveNothingOut
<1> QED BY <1>1, <1>2, <1>3, SharedInvariant, PTL DEF Spec
===============================================================================
