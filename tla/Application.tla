------------------------------ MODULE Application ------------------------------
(***************************************************************************)
(* One process that uses the library: threads that create an App           *)
(* (src/app/app.rs) and its context, of which there is one for the process *)
(* (src/app/ctx.rs); the command that the App runs (src/cli/run.rs) over   *)
(* the databases it connects (src/app/database/mod.rs); and, while it      *)
(* serves, the requests of the feature dangerous_operation                 *)
(* (src/server/make.rs), which purge, seed and reconnect under the server. *)
(*                                                                         *)
(* A database is in the state that the commands tell apart: whether it has *)
(* the tables of its models, whether the main database, where the seeder   *)
(* keeps its DataSetRecords, has the one of its seeded row, and which      *)
(* kinds of rows it has.  One record stands for those of a database: it is *)
(* written together with its row, unless its writer fails between the two. *)
(* What a seed does to several, and what lies between, is in Seeder.       *)
(***************************************************************************)
EXTENDS CommandLine, FiniteSets

CONSTANTS
    Threads,
    Requests,       \* dangerous requests that are handled at once
    Launches,       \* by thread, the ways in which it may call App::new
    Schemas,        \* what the schema files may say
    Paths,          \* of the namespaces that may have a connector
    Stored,         \* what the databases may hold at the start
    Programs,       \* names of programs that the application may define
    MaxContexts,    \* bound: connection contexts that a process makes
    None

Main == <<>>

\* words: what the user typed after the name of the program; argv: what the
\* process was started with; then what the application may add to its App.
Launch == [runtime : Runtimes, words : Seq(Words), argv : Seq(Words),
           setup : BOOLEAN, programs : SUBSET Programs]
Schema == [connectors : SUBSET Paths, server : BOOLEAN, admin : BOOLEAN,
           client : Seq(Words), entity : Seq(Words)]
Operations == {"seed", "unseed", "reseed", "purge", "purge_seed", "other"}

\* Rows that a DataSetRecord names, and those that none does: the application's,
\* and seeded ones whose record is gone.
Kinds == {"seed", "other"}
Store == [tables : SUBSET Paths, tracked : SUBSET Paths, rows : [Paths -> SUBSET Kinds]]

\* What a launcher puts in front of the user's words.  A Rust program is the
\* first word of its own command line, and `cargo teo` makes the second one of
\* its name.  NodeJS and Python are followed by what they run, which a loader of
\* TypeScript takes as a script behind it.  A user has none of these as a word
\* where a launcher has them.
Wraps(launch) ==
    LET argv == launch.argv
        front == Len(argv) - Len(launch.words)
    IN  /\ front > 0
        /\ launch.words = SubSeq(argv, front + 1, Len(argv))
        /\ IF launch.runtime = "Rust"
           THEN IF front = 1 THEN Len(argv) > 1 => argv[2] # "teo"
                             ELSE front = 2 /\ argv[2] = "teo"
           ELSE /\ front > 1
                /\ \A i \in 1..Len(argv) \ {2} : argv[i] \in Scripts <=> i \in 3..front

ASSUME LaunchesAssumption ==
    \A t \in Threads : \A launch \in Launches[t] : launch \in Launch /\ Wraps(launch)
ASSUME SchemasAssumption == Schemas \subseteq Schema
ASSUME StoredAssumption ==
    /\ Stored \subseteq Store
    /\ \A store \in Stored :
        /\ store.tracked # {} => Main \in store.tables
        /\ \A n \in Paths : "seed" \in store.rows[n] => n \in store.tracked
        /\ \A n \in Paths : store.rows[n] # {} => n \in store.tables
ASSUME ActorsAssumption ==
    Threads \cap Requests = {} /\ None \notin Threads /\ IsFiniteSet(Requests)
ASSUME MaxContextsAssumption == MaxContexts \in Nat \ {0}
\* The dashboard and the setup callback count as words where an actor did them.
ASSUME WordsAssumption == {"admin", "setup"} \subseteq Words

Actors == Threads \union Requests
Phases == {"connect", "migrate", "seed", "purge", "setup", "listen", "program", "generate"}
Looping == {"connect", "migrate", "seed", "purge"}

VARIABLES
    up,         \* the process runs
    current,    \* CURRENT: the thread that set it, or None
    ctx,        \* the application's context
    conn,       \* its connections, and the connection context made of them
    tables,     \* the databases that have tables
    tracked,    \* the databases of which the main one has the record of a row
    rows,       \* the kinds of rows in them
    act         \* the threads and the requests

vars == <<up, current, ctx, conn, tables, tracked, rows, act>>

Context == [launch : Launch \union {None}, cli : Command \union {None},
            schema : Schema \union {None}, setup : BOOLEAN, programs : SUBSET Programs]
EmptyContext == [launch |-> None, cli |-> None, schema |-> None, setup |-> FALSE,
                 programs |-> {}]

\* conn_ctx is the version-th context of the process (0: there is none yet), over
\* those namespaces; renewed: namespaces with a connection that is not in it.
Connection == [version : 0..MaxContexts, over : SUBSET Paths,
               renewed : SUBSET Paths]

Actor == [pc : {"idle", "set", "configure", "load", "app", "running", "listening", "done",
                "failed", "panicked"},
          call : Launch \union {None},          \* what a thread launched
          op : Operations \union {None},        \* what a request wants
          plan : Seq(Phases),       \* what is left to do, and in the first of it:
          on : BOOLEAN,             \* it has begun,
          todo : SUBSET Paths,      \* the namespaces it has still to go to
          held : 0..MaxContexts,    \* the connection context it works over
          did : Seq(Words),         \* callbacks called, things generated
          \* for the properties: another request overlapped; unless one did, the
          \* records that had no row when its seed began
          met : BOOLEAN, lost : SUBSET Paths]
Fresh == [pc |-> "idle", call |-> None, op |-> None, plan |-> <<>>, on |-> FALSE, todo |-> {},
          held |-> 0, did |-> <<>>, met |-> FALSE, lost |-> {}]

Init ==
    /\ up = TRUE
    /\ current = None
    /\ ctx = EmptyContext
    /\ conn = [version |-> 0, over |-> {}, renewed |-> {}]
    /\ \E store \in Stored :
        /\ tables = store.tables
        /\ tracked = store.tracked
        /\ rows = store.rows
    /\ act = [a \in Actors |-> Fresh]

At(a, pc) == act[a].pc = pc
Changes(a, changed) == act' = [act EXCEPT ![a] = changed]
Goes(a, pc) == Changes(a, [act[a] EXCEPT !.pc = pc])
Leaves(a, pc) == Changes(a, [Fresh EXCEPT !.pc = pc, !.call = act[a].call, !.did = act[a].did])
EndsProcess == up' = FALSE /\ UNCHANGED act
Databases == <<conn, tables, tracked, rows>>

-------------------------------------------------------------------------------
\* App::new_with_entrance_and_runtime_version

\* Ctx::create looks for a context, and then sets one: two steps.  Who finds one
\* gets an error that changes nothing, and may try again.
Test(t) ==
    /\ At(t, "idle")
    /\ current = None
    /\ \E launch \in Launches[t] : Changes(t, [Fresh EXCEPT !.call = launch, !.pc = "set"])
    /\ UNCHANGED <<up, current, ctx, Databases>>

\* Mutant: who comes second takes the context that is there.
SetOrTake(t) ==
    /\ At(t, "set")
    /\ current' = IF current = None THEN t ELSE current
    /\ Goes(t, "configure")
    /\ UNCHANGED <<up, ctx, Databases>>

Set(t) ==
    /\ At(t, "set")
    /\ IF current = None
       THEN current' = t /\ Goes(t, "configure")
       ELSE Goes(t, "panicked") /\ UNCHANGED current
    /\ UNCHANGED <<up, ctx, Databases>>

Cli(t) == Parse(act[t].call.runtime, act[t].call.argv)

Configure(t) ==
    /\ At(t, "configure")
    /\ ctx' = [ctx EXCEPT !.launch = act[t].call]
    /\ IF Cli(t) = NoCommand THEN EndsProcess ELSE Goes(t, "load") /\ UNCHANGED up
    /\ UNCHANGED <<current, Databases>>

\* Without a main schema file there is no App, and the context stays; errors in
\* the schema end the process.
Load(t) ==
    /\ At(t, "load")
    /\ \/ Goes(t, "failed") /\ UNCHANGED <<up, ctx>>
       \/ EndsProcess /\ UNCHANGED ctx
       \/ \E schema \in Schemas :
            /\ ctx' = [ctx EXCEPT !.schema = schema, !.cli = Cli(t)]
            /\ Goes(t, "app")
            /\ UNCHANGED up
    /\ UNCHANGED <<current, Databases>>

SetSetup(t) ==
    /\ At(t, "app")
    /\ act[t].call.setup
    /\ ctx' = [ctx EXCEPT !.setup = TRUE]
    /\ UNCHANGED <<up, current, Databases, act>>

AddProgram(t) ==
    /\ At(t, "app")
    /\ \E name \in act[t].call.programs : ctx' = [ctx EXCEPT !.programs = @ \union {name}]
    /\ UNCHANGED <<up, current, Databases, act>>

-------------------------------------------------------------------------------
\* App::run

Given(flag) == flag \in ctx.cli.flags
If(condition, phase) == IF condition THEN <<phase>> ELSE <<>>

Autoseeds == ~Given("--no-autoseed") /\ Main \in ctx.schema.connectors

\* Mutant: a command relies on connections that are there.
Unconnected(phases) == phases

OverDatabases(phases) == <<"connect">> \o phases

\* What is done for the command, in order.
Plan ==
    LET sub == ctx.cli.sub
    IN  CASE sub = <<"serve">> ->
                OverDatabases(If(~Given("--no-migration"), "migrate") \o If(Autoseeds, "seed")
                              \o If(ctx.setup, "setup") \o <<"listen">>)
          [] sub = <<"run">> -> IF Given("--list") THEN <<>> ELSE OverDatabases(<<"program">>)
          [] sub = <<"lint">> -> <<>>
          [] Head(sub) = "generate" -> <<"generate">>
          [] OTHER -> OverDatabases(<<Head(sub)>>)    \* migrate, seed and purge

Prepare(t) ==
    /\ At(t, "app")
    /\ \/ Goes(t, "failed")
       \/ Changes(t, [act[t] EXCEPT !.pc = "running", !.plan = Plan])
    /\ UNCHANGED <<up, current, ctx, Databases>>

\* The phase in hand of an actor.
Phase(a) == Head(act[a].plan)
Faces(a, phase) == At(a, "running") /\ act[a].plan # <<>> /\ ~act[a].on /\ Phase(a) = phase
Does(a, phase) == At(a, "running") /\ act[a].on /\ Phase(a) = phase
Over(a) == [act[a] EXCEPT !.plan = Tail(@), !.on = FALSE, !.held = 0]

\* connect_databases goes to the main namespace and those directly in it, and to
\* none that is deeper.
Connectable == {n \in ctx.schema.connectors : Len(n) <= 1}

Lost == {n \in tracked : "seed" \notin rows[n]}

Begin(a) ==
    /\ \E phase \in Looping :
        /\ Faces(a, phase)
        /\ Changes(a, [act[a] EXCEPT
             !.on = TRUE,
             !.todo = IF phase = "connect" THEN Connectable ELSE conn.over,
             !.held = IF phase = "connect" THEN 0 ELSE conn.version,
             !.lost = IF phase = "seed" /\ ~act[a].met THEN Lost ELSE @])
    /\ UNCHANGED <<up, current, ctx, Databases>>

\* The main namespace comes first.
NextOf(a) == {n \in act[a].todo : Main \in act[a].todo => n = Main}

\* Mutant: the loop returns from its first turn.
RestOnce(a, n) == {}

Rest(a, n) == act[a].todo \ {n}
Passes(a, n) == Changes(a, [act[a] EXCEPT !.todo = Rest(a, n)])

ConnectNext(a) ==
    /\ Does(a, "connect")
    /\ \E n \in NextOf(a) :
        /\ conn' = [conn EXCEPT !.renewed = @ \union {n}]
        /\ Passes(a, n)
    /\ UNCHANGED <<up, current, ctx, tables, tracked, rows>>

EndConnect(a) ==
    /\ Does(a, "connect")
    /\ act[a].todo = {}
    /\ conn' = [version |-> conn.version + 1, over |-> Connectable, renewed |-> {}]
    /\ Changes(a, Over(a))
    /\ UNCHANGED <<up, current, ctx, tables, tracked, rows>>

MigrateNext(a) ==
    /\ Does(a, "migrate")
    /\ \E n \in NextOf(a) :
        /\ tables' = IF Given("--dry") THEN tables ELSE tables \union {n}
        /\ Passes(a, n)
    /\ UNCHANGED <<up, current, ctx, conn, tracked, rows>>

\* The operation of a request, or the action of the command; serve seeds.
Seeding(a) ==
    IF a \notin Requests THEN SeedAction(ctx.cli)
    ELSE IF act[a].op = "purge_seed" THEN "seed" ELSE act[a].op

\* A seed works over a copy of the connection context, and looks for the records
\* of every group in the main database before it goes to the group's own.  It
\* goes by them: a tracked record is not inserted, although its row may be gone,
\* unless a reseed finds that out; and nothing is removed that has no record.
Seeds(a) == Does(a, "seed") /\ Main \in conn.over \cap tables

\* Mutant: a reseed takes a record for its row.
InsertsUntracked(a, n) == Seeding(a) # "unseed" /\ n \notin tracked

Inserts(a, n) ==
    /\ Seeding(a) # "unseed"
    /\ n \in tracked => Seeding(a) = "reseed" /\ "seed" \notin rows[n]
Removes(a, n) == Seeding(a) = "unseed" /\ n \in tracked

InsertRecord(a) ==
    /\ Seeds(a)
    /\ \E n \in act[a].todo \cap tables :
        /\ Inserts(a, n)
        /\ tracked' = tracked \union {n}
        /\ rows' = [rows EXCEPT ![n] = @ \union {"seed"}]
        /\ Passes(a, n)
    /\ UNCHANGED <<up, current, ctx, conn, tables>>

RemoveRecord(a) ==
    /\ Seeds(a)
    /\ \E n \in act[a].todo \cap tables :
        /\ Removes(a, n)
        /\ tracked' = tracked \ {n}
        /\ rows' = [rows EXCEPT ![n] = @ \ {"seed"}]
        /\ Passes(a, n)
    /\ UNCHANGED <<up, current, ctx, conn, tables>>

KeepRecord(a) ==
    /\ Seeds(a)
    /\ \E n \in act[a].todo :
        /\ ~Inserts(a, n) /\ ~Removes(a, n)
        /\ Passes(a, n)
    /\ UNCHANGED <<up, current, ctx, Databases>>

\* The seeder unwraps what fails, be it between a row and its record: a row that
\* is inserted before its record or deleted before it, a record deleted for one
\* that a reseed has yet to insert.
FailToSeed(a) ==
    /\ Does(a, "seed")
    /\ Leaves(a, "panicked")
    /\ \/ UNCHANGED <<tracked, rows>>
       \/ /\ Seeds(a)
          /\ \E n \in act[a].todo \cap tables :
              \/ /\ Inserts(a, n)
                 /\ tracked' = tracked \ {n}
                 /\ \/ UNCHANGED rows
                    \/ rows' = [rows EXCEPT ![n] = @ \union {"other"}]
              \/ /\ Removes(a, n)
                 /\ rows' = [rows EXCEPT ![n] = @ \ {"seed"}]
                 /\ UNCHANGED tracked
    /\ UNCHANGED <<up, current, ctx, conn, tables>>

\* The rows of n but those kept are gone; and with the records of the main
\* database what names the rows of any other.
Unnamed(kinds) == IF "seed" \in kinds THEN (kinds \ {"seed"}) \union {"other"} ELSE kinds
Empties(n, kept, records) ==
    /\ tracked' = IF records THEN {} ELSE tracked
    /\ rows' = [m \in Paths |-> LET kinds == IF m = n THEN kept ELSE rows[m]
                                IN  IF records THEN Unnamed(kinds) ELSE kinds]

\* purge works over a reference to the connection context.
PurgeNext(a) ==
    /\ Does(a, "purge")
    /\ \E n \in NextOf(a) \cap tables : Empties(n, {}, n = Main) /\ Passes(a, n)
    /\ UNCHANGED <<up, current, ctx, conn, tables>>

\* It empties the tables of a database one after the other.
FailToPurge(a) ==
    /\ Does(a, "purge")
    /\ Leaves(a, "failed")
    /\ \/ UNCHANGED <<tracked, rows>>
       \/ \E n \in NextOf(a) \cap tables : \E kept \in SUBSET rows[n], records \in BOOLEAN :
            (records => n = Main) /\ Empties(n, kept, records)
    /\ UNCHANGED <<up, current, ctx, conn, tables>>

\* The context of a purge has been replaced and no seed has a copy of it: what
\* the purge reads is freed memory.  It may go on as before, or end the process.
Freed(a) ==
    /\ Does(a, "purge")
    /\ act[a].held # conn.version
    /\ ~\E b \in Actors : Does(b, "seed") /\ act[b].held = act[a].held

ReadFreed(a) ==
    /\ Freed(a)
    /\ EndsProcess
    /\ UNCHANGED <<current, ctx, Databases>>

\* The data sets do not load, or a migration fails: the error is returned.  What
\* makes a connection panics when there is no database, and what it has connected
\* before stays.
Fail(a) ==
    /\ \/ (Faces(a, "seed") \/ Does(a, "migrate")) /\ Leaves(a, "failed")
       \/ Does(a, "connect") /\ Leaves(a, "panicked")
    /\ UNCHANGED <<up, current, ctx, Databases>>

\* `teo seed` ends the process from inside the seeder.
EndLoop(a) ==
    /\ Seeds(a) \/ Does(a, "migrate") \/ Does(a, "purge")
    /\ act[a].todo = {}
    /\ IF a \in Threads /\ ctx.cli.sub = <<"seed">>
       THEN EndsProcess
       ELSE Changes(a, Over(a)) /\ UNCHANGED up
    /\ UNCHANGED <<current, ctx, Databases>>

CallSetup(t) ==
    /\ Faces(t, "setup")
    /\ \/ Goes(t, "failed")
       \/ Changes(t, [Over(t) EXCEPT !.did = Append(@, "setup")])
    /\ UNCHANGED <<up, current, ctx, Databases>>

\* No server in the schema, or no such address: both are found out only now.
Listen(t) ==
    /\ Faces(t, "listen")
    /\ \/ Goes(t, "panicked")
       \/ ctx.schema.server /\ Changes(t, [Over(t) EXCEPT !.pc = "listening", !.lost = {}])
    /\ UNCHANGED <<up, current, ctx, Databases>>

RunProgram(t) ==
    /\ Faces(t, "program")
    /\ \/ Goes(t, "failed") /\ UNCHANGED up
       \/ Head(ctx.cli.names) \in ctx.programs /\ EndsProcess
    /\ UNCHANGED <<current, ctx, Databases>>

\* The clients or entities to generate: those named, all, or the only one.
Declared == IF ctx.cli.sub[2] = "client" THEN ctx.schema.client ELSE ctx.schema.entity
Asked ==
    IF ctx.cli.sub[2] = "admin" THEN If(ctx.schema.admin, "admin")
    ELSE IF ctx.cli.names # <<>> THEN ctx.cli.names ELSE Declared
Unclear ==
    /\ ctx.cli.sub[2] # "admin"
    /\ ctx.cli.names = <<>> /\ ~Given("--all")
    /\ Len(Declared) # 1
CanGenerate(name) == name \in {Declared[i] : i \in 1..Len(Declared)}

\* One after the other, up to the first that is not there or fails.
Generate(t) ==
    /\ Faces(t, "generate")
    /\ ctx.cli.sub[2] # "admin"
    /\ \E k \in 0..Len(Asked) :
        /\ Unclear => k = 0
        /\ \A i \in 1..k : CanGenerate(Asked[i])
        /\ Changes(t, [Over(t) EXCEPT !.did = SubSeq(Asked, 1, k),
                                      !.pc = IF Unclear \/ k < Len(Asked) THEN "failed" ELSE @])
    /\ UNCHANGED <<up, current, ctx, Databases>>

\* The admin dashboard is generated for a server.
GenerateAdmin(t) ==
    /\ Faces(t, "generate")
    /\ ctx.cli.sub[2] = "admin"
    /\ \/ Asked # <<>> /\ ~ctx.schema.server /\ Goes(t, "panicked")
       \/ Asked # <<>> /\ ctx.schema.server /\ Goes(t, "failed")
       \/ (Asked # <<>> => ctx.schema.server) /\ Changes(t, [Over(t) EXCEPT !.did = Asked])
    /\ UNCHANGED <<up, current, ctx, Databases>>

Finish(a) ==
    /\ At(a, "running")
    /\ act[a].plan = <<>>
    /\ Leaves(a, "done")
    /\ UNCHANGED <<up, current, ctx, Databases>>

-------------------------------------------------------------------------------
\* Dangerous requests, while the server listens.

Ended == {"idle", "done", "failed", "panicked"}
Busy(r) == act[r].pc \notin Ended

PlanOf(operation) ==
    CASE operation \in {"seed", "unseed", "reseed"} -> <<"seed">>
      [] operation = "purge" -> <<"purge">>
      [] operation = "purge_seed" -> <<"purge", "connect", "seed">>

Reconnecting == {r \in Requests : Busy(r) /\ act[r].op = "purge_seed"}

Ask(r) ==
    /\ \E t \in Threads : At(t, "listening")
    /\ ~Busy(r)
    /\ \E operation \in Operations :
        /\ operation = "purge_seed" => conn.version + Cardinality(Reconnecting) < MaxContexts
        /\ act' = [b \in Actors |->
             IF b = r
             THEN IF operation = "other"
                  THEN [Fresh EXCEPT !.pc = "failed"]
                  ELSE [Fresh EXCEPT !.pc = "running", !.op = operation,
                                     !.plan = PlanOf(operation),
                                     !.met = \E q \in Requests : Busy(q)]
             ELSE IF b \in Requests /\ Busy(b) /\ operation # "other"
                  THEN [act[b] EXCEPT !.met = TRUE, !.lost = {}]
                  ELSE act[b]]
    /\ UNCHANGED <<up, current, ctx, Databases>>

\* The server stops: requests end where they wait.  What that leaves half done is
\* for another process to find.
Stop(t) ==
    /\ At(t, "listening")
    /\ act' = [b \in Actors |-> IF b \in Requests THEN Fresh
                                ELSE [act[b] EXCEPT !.pc = IF b = t THEN "done" ELSE @]]
    /\ UNCHANGED <<up, current, ctx, Databases>>

-------------------------------------------------------------------------------

Create(t) == Test(t) \/ Set(t) \/ Configure(t) \/ Load(t) \/ SetSetup(t) \/ AddProgram(t)
Work(a) ==
    \/ Begin(a) \/ ConnectNext(a) \/ EndConnect(a) \/ MigrateNext(a)
    \/ InsertRecord(a) \/ RemoveRecord(a) \/ KeepRecord(a) \/ FailToSeed(a)
    \/ PurgeNext(a) \/ FailToPurge(a) \/ ReadFreed(a) \/ Fail(a) \/ EndLoop(a) \/ Finish(a)
RunCommand(t) ==
    \/ Prepare(t) \/ CallSetup(t) \/ Listen(t) \/ RunProgram(t) \/ Generate(t)
    \/ GenerateAdmin(t) \/ Stop(t)

Next ==
    \/ \E t \in Threads : up /\ (Create(t) \/ RunCommand(t))
    \/ \E a \in Actors : up /\ Work(a)
    \/ \E r \in Requests : up /\ Ask(r)

Spec == Init /\ [][Next]_vars

-------------------------------------------------------------------------------
\* The variables have their types; in particular nothing is migrated, seeded or
\* purged before there is a connection context to do it over.
TypeOK ==
    /\ up \in BOOLEAN
    /\ current \in Threads \union {None}
    /\ ctx \in Context
    /\ conn \in Connection
    /\ tables \subseteq Paths
    /\ tracked \subseteq Paths
    /\ rows \in [Paths -> SUBSET Kinds]
    /\ act \in [Actors -> Actor]
    /\ \A a \in Actors : act[a].on => (Phase(a) = "connect" \/ act[a].held > 0)

HasApp(t) == act[t].pc \in {"app", "running", "listening", "done"}

\* At most one of the threads that call App::new gets an App, whatever the order
\* of their tests and sets (ctx.rs:62-69).  What the context then says is that
\* thread's: its words, and the command that the user's words make whatever
\* launched the program (parse.rs:139-147).
OneApp ==
    \A t \in Threads : HasApp(t) =>
        /\ \A u \in Threads : HasApp(u) => u = t
        /\ current = t
        /\ ctx.launch = act[t].call
        /\ ctx.cli = CommandOf(act[t].call.words)

\* Every database has its record, and the row that it names unless that was gone
\* already when the seed of actor a began.
Seeded(a) == \A n \in conn.over : n \in tracked /\ ("seed" \in rows[n] \/ n \in act[a].lost)

\* What is true when the server begins to listen (run.rs:15-38): every database
\* that the application connects is in the context, with its own connection;
\* unless told otherwise they are migrated, and autoseed ran over them; and setup
\* was called.
Ready(t) ==
    /\ conn.over = Connectable /\ conn.renewed = {}
    /\ ~Given("--no-migration") => conn.over \subseteq tables
    /\ Autoseeds => Seeded(t)
    /\ ctx.setup => act[t].did = <<"setup">>

\* No row is left, and no record of one.
Purged ==
    /\ \A n \in conn.over : rows[n] = {}
    /\ Main \in conn.over => tracked = {}

\* What is true when another command returns without an error (run.rs:39-138).
\* `teo seed` never returns.
Returned(t) ==
    LET sub == ctx.cli.sub
    IN  /\ sub = <<"migrate">> => (Given("--dry") \/ conn.over \subseteq tables)
        /\ sub = <<"purge">> => Purged
        /\ Head(sub) = "generate" => act[t].did = Asked

\* A server that listens is ready, and a command that returns has done all it was
\* asked for, in every database and under every name.
CarriedOut ==
    [][\A t \in Threads : At(t, "running") =>
        /\ At(t, "listening")' => Ready(t)
        /\ At(t, "done")' => Returned(t)']_vars

\* What a dangerous operation has done when it answers (make.rs:304-330), whatever
\* earlier ones that overlapped, or failed half way, have left of rows and records.
\* A seed does not bring back the row of a tracked record, and an unseed does not
\* find a row without one; a reseed and a purge mend both.
Effect(r) ==
    LET operation == act[r].op
    IN  /\ operation = "purge" => Purged
        /\ operation = "purge_seed" =>
            /\ \A n \in conn.over : n \in tracked /\ rows[n] = {"seed"}
            /\ conn.renewed = {}
        /\ operation = "seed" => Seeded(r)
        /\ operation = "reseed" => \A n \in conn.over : n \in tracked /\ "seed" \in rows[n]
        /\ operation = "unseed" => \A n \in conn.over : n \notin tracked /\ "seed" \notin rows[n]
        /\ conn.over = Connectable

\* A dangerous request that no other one overlaps never works over a connection
\* context that is gone, and has had its effect on every database when it answers.
DangerAlone ==
    [][\A r \in Requests :
        Busy(r) /\ ~act[r].met =>
            /\ ~Freed(r)
            /\ At(r, "done")' => Effect(r)]_vars
===============================================================================
