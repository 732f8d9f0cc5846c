------------------------------ MODULE SeedCatalog ------------------------------
(***************************************************************************)
(* What the seeder promises of the records it tracks: a catalog of         *)
(* <<data set, group, name>> that a job brings in line with the user's     *)
(* files, one record at a time, and that every interruption leaves as the  *)
(* next job can take it up.                                                *)
(***************************************************************************)
EXTENDS Integers

CONSTANTS Datasets, Models, Names    \* a group is named after its model

VARIABLES
    catalog,    \* the tracked records
    files,      \* the records and groups the user declares
    job         \* the job at hand

vars == <<catalog, files, job>>

Records == Datasets \X Models \X Names
Resting == [state |-> "idle", cmd |-> "Seed", sel |-> {}]

Init ==
    /\ catalog = {}
    /\ files \in [records : SUBSET Records, groups : SUBSET (Datasets \X Models)]
    /\ job = Resting

Busy == job.state = "busy"
Selected(x) == x[1] \in job.sel
Covered(x) == <<x[1], x[2]>> \in files.groups

\* The selected part of the catalog is what the command asks for.  Unseed
\* looks at the groups of the files only.
InLine ==
    IF job.cmd = "Unseed" THEN \A x \in catalog : Selected(x) => ~Covered(x)
    ELSE {x \in catalog : Selected(x)} = {x \in files.records : Selected(x)}

\* Reseed may take a declared record out, to put it in again.
MayDrop(x) ==
    CASE job.cmd = "Seed"   -> x \notin files.records
      [] job.cmd = "Reseed" -> TRUE
      [] job.cmd = "Unseed" -> Covered(x)

Start ==
    /\ job.state = "idle"
    /\ \E cmd \in {"Seed", "Reseed", "Unseed"}, sel \in SUBSET Datasets :
        job' = [state |-> "busy", cmd |-> cmd, sel |-> sel]
    /\ UNCHANGED <<catalog, files>>

Add(x) ==
    /\ Busy
    /\ job.cmd # "Unseed"
    /\ Selected(x) /\ x \in files.records \ catalog
    /\ catalog' = catalog \union {x}
    /\ UNCHANGED <<files, job>>

Drop(x) ==
    /\ Busy
    /\ Selected(x) /\ x \in catalog /\ MayDrop(x)
    /\ catalog' = catalog \ {x}
    /\ UNCHANGED <<files, job>>

\* The data sets that were not selected are forgotten, last.
Forget(x) ==
    /\ Busy
    /\ InLine
    /\ ~Selected(x) /\ x \in catalog
    /\ catalog' = catalog \ {x}
    /\ UNCHANGED <<files, job>>

Complete ==
    /\ Busy
    /\ InLine
    /\ \A x \in catalog : Selected(x)
    /\ job' = [job EXCEPT !.state = "done"]
    /\ UNCHANGED <<catalog, files>>

\* After its end, or in the middle by a crash or a panic.
Leave ==
    /\ job.state # "idle"
    /\ job' = Resting
    /\ UNCHANGED <<catalog, files>>

Edit ==
    /\ job.state = "idle"
    /\ files' \in [records : SUBSET Records, groups : SUBSET (Datasets \X Models)]
    /\ UNCHANGED <<catalog, job>>

Purge ==
    /\ job.state = "idle"
    /\ catalog' = {}
    /\ UNCHANGED <<files, job>>

Next ==
    \/ Start
    \/ \E x \in Records : Add(x) \/ Drop(x) \/ Forget(x)
    \/ Complete
    \/ Leave
    \/ Edit
    \/ Purge

Spec == Init /\ [][Next]_vars
===============================================================================
