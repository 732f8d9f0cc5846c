------------------------------ MODULE SeederPair ------------------------------
(***************************************************************************)
(* Two seeders on one database: servers that autoseed as they start        *)
(* (src/cli/run.rs), or one of them and `teo seed` or `teo seed --unseed`. *)
(* Each is the whole of Seeder, with a run and with files of its own; the  *)
(* tables are shared, nothing locks them and no transaction spans a run.   *)
(*                                                                         *)
(* Rows and DataSetRecords only: the schema has no relations.  Updating or *)
(* deleting what the other seeder has deleted changes nothing and fails    *)
(* nothing, as an UPDATE or a DELETE that finds no row.                    *)
(***************************************************************************)
EXTENDS Integers, FiniteSets

CONSTANTS
    Datasets, Models, Names, Rels, Schema, Ids, Versions, Starts, AppActs,
    MayCrash, MaxOrphans, MaxOwn, None

ASSUME NoRelationsAssumption == Rels = {}

VARIABLES
    rows, fk, joins, recs, rels, own,   \* the database, see Seeder
    runA, fileA, runB, fileB,           \* the two seeders
    metA, metB      \* which runs of the other overlap the run at hand: none,
                    \* only Seeds of the same version, or others (for the
                    \* properties only)

tables == <<rows, fk, joins, recs, rels, own>>
seederA == <<runA, fileA>>
seederB == <<runB, fileB>>
vars == <<tables, seederA, seederB, metA, metB>>

A == INSTANCE Seeder WITH run <- runA, file <- fileA
B == INSTANCE Seeder WITH run <- runB, file <- fileB

\* What Seeder assumes of the constants.
ASSUME SeederAssumptions ==
    /\ Schema \in [Rels -> A!Relation]
    /\ Versions \subseteq A!File
    /\ \A f \in Versions : A!WellFormed(f)
    /\ Starts \subseteq A!Commands \X A!Scopes
    /\ Ids \subseteq Nat \ {A!NoId}
    /\ AppActs \subseteq {"create", "delete", "purge"}
    /\ MayCrash \in BOOLEAN /\ {MaxOrphans, MaxOwn} \subseteq Nat
    /\ None \notin Datasets \union Names \union Rels \union A!Records \union A!RelRecs

Init == A!Init /\ B!Init /\ metA = "none" /\ metB = "none"

-------------------------------------------------------------------------------
\* Primary keys.  A row may be deleted that a run still has in its snapshot,
\* among the records to remove or in hand: its key is not given again, either.
InUse(run) ==
    {<<r.group, r.id>> : r \in run.snap \union run.doomed
                                \union (IF run.rec = None THEN {} ELSE {run.rec})}
Unused(g) == {i \in A!FreshIds(g) : <<g, i>> \notin InUse(runA) \union InUse(runB)}
Least(S) == {i \in S : \A j \in S : i <= j}

\* Bound: few rows are neither tracked nor in hand, of the application or left by
\* a crash; to the seeders they are all the same.
Stray == rows \ ({<<r.group, r.id>> : r \in recs} \union InUse(runA) \union InUse(runB))
Few == Cardinality(Stray) <= MaxOrphans

InsertA == A!Inserting /\ \E i \in Least(Unused(runA.rec.group)) : A!SaveNewRowAs(i)
InsertB == B!Inserting /\ \E i \in Least(Unused(runB.rec.group)) : B!SaveNewRowAs(i)

-------------------------------------------------------------------------------
\* A run begins, and overlaps the run that is on.
Meeting(met, cmdA, cmdB) ==
    IF met # "others" /\ fileA = fileB /\ {cmdA, cmdB} = {"Seed"} THEN "seeds" ELSE "others"

BeginA(start) ==
    /\ A!Begin(start)
    /\ IF runB.pc = "idle" THEN UNCHANGED <<metA, metB>>
       ELSE /\ metA' = Meeting(metA, start[1], runB.cmd)
            /\ metB' = Meeting(metB, start[1], runB.cmd)
    /\ UNCHANGED seederB

BeginB(start) ==
    /\ B!Begin(start)
    /\ IF runA.pc = "idle" THEN UNCHANGED <<metA, metB>>
       ELSE /\ metA' = Meeting(metA, runA.cmd, start[1])
            /\ metB' = Meeting(metB, runA.cmd, start[1])
    /\ UNCHANGED seederA

\* A step of one of them, seen by the other only in the tables.
StepA ==
    /\ InsertA \/ (~A!Inserting /\ A!Step)
    /\ metA' = IF runA'.pc = "idle" THEN "none" ELSE metA
    /\ UNCHANGED <<seederB, metB>>

StepB ==
    /\ InsertB \/ (~B!Inserting /\ B!Step)
    /\ metB' = IF runB'.pc = "idle" THEN "none" ELSE metB
    /\ UNCHANGED <<seederA, metA>>

CrashA == A!Crash /\ metA' = "none" /\ UNCHANGED <<seederB, metB>> /\ Few'
CrashB == B!Crash /\ metB' = "none" /\ UNCHANGED <<seederA, metA>> /\ Few'

\* A new version is deployed, on one server after the other.
DeployA == \E f \in Versions : A!Edit(f) /\ UNCHANGED <<seederB, metA, metB>>
DeployB == \E f \in Versions : B!Edit(f) /\ UNCHANGED <<seederA, metA, metB>>

\* The application writes while the other server starts: it is served by the
\* one that is up.
AppCreate(g) ==
    /\ Cardinality(own) < MaxOwn
    /\ "create" \in AppActs
    /\ runA.pc = "idle" \/ runB.pc = "idle"
    /\ g \in fileA.live \union fileB.live
    /\ \E i \in Least(Unused(g)) :
        /\ rows' = rows \union {<<g, i>>}
        /\ own' = own \union {<<g, i>>}
    /\ UNCHANGED <<fk, joins, recs, rels, seederA, seederB, metA, metB>>
    /\ Few'

Next ==
    \/ \E start \in Starts : BeginA(start) \/ BeginB(start)
    \/ StepA
    \/ StepB
    \/ CrashA
    \/ CrashB
    \/ DeployA
    \/ DeployB
    \/ \E g \in Models : AppCreate(g)

\* Each seeder that has begun goes on, whatever the other does.
Spec == Init /\ [][Next]_vars /\ WF_vars(StepA) /\ WF_vars(StepB)

-------------------------------------------------------------------------------

Copies(d, g, n) == {r \in recs : r.ds = d /\ r.group = g /\ r.name = n}
TrackedIn(d) == {<<r.group, r.name>> : r \in {q \in recs : q.ds = d}}
DeclaredIn(f, d) == {<<x[2], x[3]>> : x \in {y \in f.records : y[1] = d}}

\* Two seeders insert a record twice when both read their snapshots before
\* either inserts; that is all they do.  No order of steps, no crash and no
\* later Seed or Unseed makes a third copy, and no two DataSetRecords name one
\* row.  (Two Reseeds do: each inserts a record again whose row is gone, also
\* one that is tracked twice already.)
AtMostTwice ==
    /\ \A d \in Datasets, g \in Models, n \in Names : Cardinality(Copies(d, g, n)) <= 2
    /\ \A r, s \in recs : <<r.group, r.id>> = <<s.group, s.id>> => r = s

\* The run ends as RecordsMatchFiles of Seeder has it.
InLine(run, f) ==
    \A d \in run.sel :
        IF run.cmd = "Unseed"
        THEN \A x \in TrackedIn(d) : <<d, x[1]>> \notin f.groups
        ELSE TrackedIn(d) = DeclaredIn(f, d)

\* A run that met no other brings the tables in line, in whatever state runs
\* that overlapped, crashed or were of another version have left them: of a
\* record that the files no longer have, or that an Unseed takes out, every
\* copy is removed.  (Both copies of a record that the files have stay.)
AloneBringsInLine ==
    /\ runA.pc = "done" /\ metA = "none" => InLine(runA, fileA)
    /\ runB.pc = "done" /\ metB = "none" => InLine(runB, fileB)

\* Servers of one version that autoseed at once leave nothing out: the first
\* to be ready finds all its records tracked, though some may be tracked by
\* the other one, which is still at work or was killed.
TogetherLeaveNothingOut ==
    LET Complete(run, f, met) ==
            run.pc = "done" /\ run.cmd = "Seed" /\ met # "others" =>
                \A d \in run.sel : DeclaredIn(f, d) \subseteq TrackedIn(d)
    IN  Complete(runA, fileA, metA) /\ Complete(runB, fileB, metB)

\* Neither seeder deletes a row that the application creates, even one that
\* it creates while they delete theirs.
OwnRowsStay == own \subseteq rows

\* A row that is tracked stays tracked as long as it is there, unless its model
\* is dropped from the schema or its data set from the files: neither seeder
\* takes a record for gone that the other has just saved again.
NeverLetsGo ==
    [][\A r \in recs \ recs' :
        \/ <<r.group, r.id>> \notin rows'
        \/ r.group \notin fileA.live \intersect fileB.live
        \/ \E run \in {runA, runB} : run.pc = "forget" /\ r.ds \notin run.sel]_vars

\* Neither keeps the other from its end.
RunsEnd == (runA.pc # "idle" ~> runA.pc = "idle") /\ (runB.pc # "idle" ~> runB.pc = "idle")
===============================================================================
