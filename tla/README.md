# A TLA+ model of Teo

Teo reads a schema of models and data sets, connects the databases it names, migrates them, seeds
them and serves them over HTTP. This directory holds a model of it: of the seeder
(`src/seeder/seed.rs`), the part with the most state and the most ways to go wrong, alone and with a
second one on the same database; of the process, from its command line to the server that listens;
and of the requests the server handles. TLC checks the models on small instances, and TLAPS proves
theorems about each of these parts for all instances. All paths below are relative to the repository's root.

## The system

| component | state it keeps | operations | talks to |
|---|---|---|---|
| Seeder, `src/seeder/seed.rs` | none in memory between runs; the tables `DataSetRecord` (which row is which record of which data set) and `DataSetRelation` (which references it has set up) | Seed, Reseed, Unseed of a list of data sets | the databases, through the runtime's objects; the schema |
| Seeder tables, `src/seeder/models/` | the two tables above | find, create, save, delete | the runtime |
| Group order, `ordered_group` in `seed.rs` | a loop over dependency lists | puts the groups of a data set in dependency order, or panics | the schema |
| Command dispatch, `src/cli/run.rs` | none | serve (connect, migrate, autoseed, setup, listen), migrate, seed, purge, generate, run | everything |
| Migrate, purge, `src/migrate/`, `src/purge/` | none | bring tables in line with the models; empty all tables | every connection |
| HTTP server, `src/server/make.rs` | none of its own | resolve a handler, parse the body, call the middleware stack; with a feature flag, seed and purge | runtime, seeder, purge |
| Request bodies, `src/server/parse.rs` | files in the temporary directory | JSON bodies up to a limit, form bodies | the server |
| Application context, `src/app/ctx.rs`, `app.rs` | one context for the process | create, set, reset, hand out references | everything |
| Database connections, `src/app/database/mod.rs` | a connection per namespace, one connection context | connect and replace | context, connectors |
| Command line parser, callbacks, responses, errors, static files, messages, `cargo-teo` | none | conversions and output | - |

What is hard here:

* **Nothing spans a run.** The seeder makes dozens of separate writes and no transaction holds them
  together; the process may be killed, or a failed `unwrap` may end it, between any two. The next
  run starts from whatever the two tables say.
* **Tables that must agree.** A row, the `DataSetRecord` that tracks it, foreign keys, link rows and
  the `DataSetRelation`s that remember them are five places, written one after the other.
* **Others write too.** Between runs the user edits the files, models and tables come and go, and the
  application creates and deletes rows in the very tables that are seeded.
* **Reads used late.** The records of a group are read once and used many awaits later; relations are
  walked from both ends, one end setting what the other end cuts.
* **Several servers** may start on one database at once, and each autoseeds; nothing is locked.
* **One context for the process.** It is created in two steps, and handed out as references that
  outlive the lock; a dangerous request replaces the connections that others work over.
* **One temporary directory for all requests**, where uploads are written under their own names.
* **Late discoveries.** That there is no server to serve, or no program of that name, is found out after
  the databases were connected, migrated and seeded.

What makes each component correct: the group order puts dependencies first and ends; the seeder
tracks each record once, inserts nothing twice, deletes nothing that is not its own, loses nothing
it tracks, ends with tables that match the files and with exactly the links the files make, and
undoes all of it on Unseed; startup seeds only a migrated database and listens only after both; the
server resolves each path to one handler; a body within the limit is read whole, and no other.

## The modules

| module | what it is |
|---|---|
| `GroupOrder` | the order of groups as a closed form of the loop in `ordered_group` |
| `OrderedGroup` | that loop, a step per round; states that it ends, is right, and equals the closed form |
| `MCOrderedGroup` | its instance for TLC |
| `OrderedGroupProofs` | four theorems about the loop, the closed form among them; that what a group needs is at a lower level |
| `Seeder` | the seeder process and its environment |
| `SeederProperties` | what the seeder must keep and reach, and the refinement mapping |
| `SeedCatalog` | the abstract specification: a catalog of tracked records that jobs bring in line with the files |
| `MCSeeder` | schemas, files and bounds for TLC |
| `SeederProofs` | the types of the seeder's state, and four theorems about its rows, records and foreign keys |
| `SeederCatalogProofs` | that a finished run agrees with the files, that `Seeder` implements `SeedCatalog`, that a Reseed restores rows, and that none is orphaned |
| `SeederRelationProofs` | five theorems about failed `unwrap`s, the `DataSetRelation` table, what an Unseed leaves, and the links that a Reseed leaves |
| `SeederPair`, `MCSeederPair` | two seeders, each the whole of `Seeder`, on one database |
| `SeederPairProofs` | five theorems about the two, from the lemmas about one |
| `CommandLine` | from the words a process is started with to its command |
| `Application`, `MCApplication` | the process: threads that create an App, the context, the command phase by phase, dangerous requests; composes `CommandLine` |
| `ApplicationProofs` | four theorems about the process: its types and its one App; what commands and dangerous requests have done |
| `Dispatch` | the handler that a path and a name lead to |
| `FormBody` | the value assembled from the fields of a form |
| `Requests`, `MCRequests` | all requests a server handles at once; composes `Dispatch` and `FormBody` |
| `RequestsProofs` | six theorems about the requests |
| `NumberInduction` | induction over the natural numbers, for properties given as sets |

### Seeder: state

`rows`, `fk` and `joins` are the tables of the user's models: rows as <<model, key>>, foreign keys
that are not null, and link rows of join tables. `recs` and `rels` are the seeder's two tables, field
for field (`ds`, `group`, `name`, `id`; `ds`, `ga`, `ra`, `na`, `gb`, `rb`, `nb`). `file` is what the user's files say at the
moment: live models, data sets, groups, records, references. `run` is the local state of the running
command: the data sets left, the groups left, the snapshot of the group, the records left, the record
in hand and what is left to do with it. `own` marks the rows the application created; no action but
the application's reads or writes it except to drop deleted rows: it exists for the properties.

Of a record's values only references are kept: no property tells other field values apart. A group is
named after its model, as in the code. Foreign keys have one column; a composite key is written and
compared as a unit by the code, so one column stands for it.

### Seeder: actions

One action is one write to the database with the reads and decisions that lead to it, or one decision
that writes nothing. The names follow the functions: `BeginDataset`, `BeginGroup` and `EndGroups`
are the loops of `seed_dataset`, `reseed_dataset` and `unseed_dataset`; `Insert`, `Recreate`,
`Update`, `InputRelation`, `SaveNewRow`, `SaveUpdatedRow` and `Track` are
`perform_insert_into_database`, `perform_recreate_or_update_an_record` and `insert_or_update_input`;
`RemoveGone`, `BeginRemove`, `RemoveRow` and `Untrack` are `perform_remove_from_database`;
`CutPanic`, `CutRecord`, `CutLink` and `Uncut` are `cut_relation`; `BeginRelations`,
`BeginRelation`, `BeginCutRelation`, `LinkPanic`, `LinkRef` and `Relate` are `setup_new_relations`,
`sync_relations` and `setup_relations_internal`; `BeginGone`, `BeginStale` and `RemoveStale` are
`remove_records_for_user_removed_groups`; `ForgetRecord` and `ForgetRelation` are
`remove_user_deleted_dataset_records_and_relations`. A failed `unwrap` or a `panic!` is the step
"panicked", from which only `Exit` leads on, as the process ends.

The environment: `Crash` kills a run at any step. `Edit`, `Migrate`, `Purge`, `AppCreate` and
`AppDelete` happen between runs (one seeder process at a time, no requests while it runs; more than
one is `SeederPair`).

Choices made where the code leaves to others: primary keys are never given twice, so a new row takes
the least key nothing mentions (`Fresh`); deleting a row clears the foreign keys and link rows that
point to it (`RemoveRow`, `Without`); migrating drops the tables of models that left the schema,
which the comment at `seed.rs:87` says too. An update saves its `DataSetRecord` again with the key it
already holds (`seed.rs:474-475`), a write that changes nothing and belongs to the step of the row. The
references of a list are a set: a file that names one twice in the same list, for which the `unwrap` at
`seed.rs:269` would fail in a reseed, is not among the files. Data sets, records and relations are walked in any order;
the code uses the order of the user's files, one of those. Groups are walked by level, within a level
in any order and not necessarily the same one in both passes of a run: the model has more behaviours
there than the code, never fewer.

### SeedCatalog

What a user may rely on, without rows, keys or relations: a job is busy with a command and a
selection; it adds declared records, one at a time; it takes out only what the command lets it; it
forgets other data sets only once its own are in line with the files; it is done only when they are;
it may be interrupted anywhere, and then the catalog is what the next job starts from. Seeder
implements it under the mapping in `SeederProperties` (`RefinesCatalog`): the catalog is the set of
<<data set, group, name>> of `recs`.

### SeederPair

Two instances of `Seeder` share `rows`, `recs` and `own` and have each a `run` and a `file`. A step of one
is a step of `Seeder`, seen by the other in the tables only. Two things are its own: primary keys, which
must be new for both (`InsertA`, `InsertB`), and the application, which writes while one of the servers is
up. `metA` and `metB` say which runs of the other a run has overlapped; no step reads them.

There are no relations: with them the seeders' `unwrap`s fail in many orders, and what is of interest is
what survives where they do not. Nor is there a Reseed, which updates a row that the other may have
deleted; see `AtMostTwice`.

### CommandLine and Application

`CommandLine` is `src/cli/parse.rs`: `Filtered` drops the launcher's words by runtime, `Subcommands` and
`Accepts` are the grammar handed to clap, `CommandOf` makes the command. What is not accepted ends the
process.

`Application` is one process. `act` holds what its threads, and the dangerous requests of its server,
are doing; `current` and `ctx` are `CURRENT` and the context in it; `conn` the connections, of which only
two things matter: which namespaces the connection context covers, and which have a connection that is not
in it (`renewed`). Of a database it says whether there are tables (`tables`), whether the main database has the `DataSetRecord`
of its seeded row (`tracked`), and which kinds of rows there are (`rows`): ones that a record names, and ones that none does, the
application's or a seed's whose record is gone. The two are kept apart because the seeder goes by the first and a purge or a
failure may leave them apart. `Stored` are the states a process may find: new, in use, or left so by an earlier process.

* `Test` and `Set` are the two steps of `Ctx::create`; `Configure` and `Load` the rest of `App::new`;
  `SetSetup` and `AddProgram` what an application may do before `run`.
* `Plan` is the `match` of `run.rs`: the phases of a command, in order. Of these, `connect`, `migrate`,
  `seed` and `purge` go from namespace to namespace (`Begin`, `ConnectNext` and so on, `EndConnect`,
  `EndLoop`), and the others are a step each: `CallSetup`, `Listen`, `RunProgram`, `Generate`,
  `GenerateAdmin`.
* `Ask` is the branch of `make_server_app` for the feature `dangerous_operation`, and `PlanOf` its operations: made of
  the same phases, so the same actions. A seed clones the connection context, a purge only refers to it. When
  it is replaced under a purge, and no seed still holds it, the purge reads freed memory (`Freed`): it may go
  on all the same, or the process ends (`ReadFreed`).

* A seed decides by the records (`Inserts`, `Removes`): it inserts what is not tracked, and keeps a tracked record whose row is gone,
  which only a reseed looks for; an unseed removes what is tracked, and does not find a row without a record. `InsertRecord` and
  `RemoveRecord` write a record and its row in one step, since what lies between is in `Seeder`; but `FailToSeed`, the
  `unwrap`s of the seeder, may come between the two. So a database has one record here, which stands for all of its.
* A purge empties a database in one step (`PurgeNext`), or fails at any one with some of its tables emptied (`FailToPurge`). The
  records go with the main database, and rows elsewhere that they named are named by none then (`Empties`).
* `Fail` is what else may go wrong in a phase: data sets that do not load, a migration, and a namespace without a database behind
  it, where `connection_for_connector` panics and what was connected before stays outside the connection context.

No handler of the application runs here: what it writes while the server listens is in `Seeder` (`AppCreate`, `AppDelete`).

### Dispatch, FormBody and Requests

`Resolve` is the nest of lookups in `make_server_app`, as a set of one handler or none. `Put` and `Fails` are the
loop body of `parse_form_body`; an uploaded file is represented by the position of its field, and `PathKey` is the key under which
an upload keeps its own path, which a later `a[filepath]` takes. `Requests`
takes each connection through a request: `Refuse`, `Options` and `TakeBody` up to the body; `ReadChunk` and
`EndJson`; `ReadText`, `CreateFile`, `WriteChunk`, `EndUpload` and `EndForm`; `Call` and `Handle`; `Leave`. `Break` is
a connection that breaks while its body is read: the error is unwrapped. So are the errors of the file system:
`FailToCreate` is a file whose name cannot be one (`Unwritable`: empty, or in a directory that is not there), `FailToWrite` any other
`File::create` or `write_all` that fails, after a part of the piece or none; what was written stays. `Malformed` is a
stream that is no form or ceases to be one, for which the external `Multipart` may answer at once or while it is read
(`TakeBody` lets it do either). `temp` is the temporary
directory, the only thing requests share; the content of a file is the pieces written to it, each by the
connection, field and position it came from.

## The runs

| run | instance | shows |
|---|---|---|
| OrderedGroup | three models, up to two required relations between any two, any subset as groups: all 157,464 schemas with data sets | the loop ends; dependencies first; books; the closed form of `GroupOrder` |
| SeederCrash | author and posts (required key), two names, four files, all commands, a crash at every step, up to two rows lost to crashes | `OneRecordPerName`, `RecordsMatchFiles`, `ReseedLinksExactly`, `PanicsOnlyOnDamage`, `LosesOnlyInFlight`, `RefinesCatalog` |
| SeederLinks | an optional key and a join table between the same models, two names, seven files, all commands, no crash | `NoPanic`, `NoOrphan`, `RelationsResolve`, `UnseedLeavesNothing`, `CutsItsOwn`, `FirstSeedLinks`, `RunsEnd` |
| SeederSets | two data sets, autoseed / named / all, removed data set, group and model, migrate, purge, application writes | `RecordsMatchFiles`, `OwnRowsStay`, `ReseedRestores`, `PanicsOnlyOnDamage` |
| SeederPair | two seeders, Seed (autoseed) and Unseed, two versions of the files, crashes, an application that writes | `AtMostTwice`, `AloneBringsInLine`, `TogetherLeaveNothingOut`, `OwnRowsStay`, `NeverLetsGo`, `RunsEnd` |
| Requests | every path and name against a schema whose paths collide; JSON in every split around the limit; forms of up to three fields; two connections | `LimitExact`, `UploadsKeepContent`, `FormsHandedOver`, `DropsMisfits`, `DeclaredIsReached`, `RequestsEnd` |
| Application | two threads, six ways of launching, over a hundred command lines, three schemas, two databases, two dangerous requests at once | `OneApp`, `CarriedOut`, `DangerAlone` |
| OrderedGroupCircle, ReseedOneEnd, ReseedShortened, SeedAutoseed, RemoveOneWay | the smallest that show it | where the code does not do what its comments or messages say, see below |

The runs take between one second and two minutes with two workers. `tlc -config X.cfg M` repeats one; M
is `MCOrderedGroup`, `MCSeederPair`, `MCRequests` and `MCApplication` for those, `MCSeeder` for the others.

What the newer runs show, in words:

* **Two seeders.** Servers that start together insert a record twice when both read their snapshots first.
  That is the worst of it: no third copy, no row that two records share, nothing left out, nothing tracked
  that is let go while its row stays, no row of the application deleted; and the next run that is alone brings
  the tables in line with the files: of a record that the files no longer have it removes every copy. Both
  copies of a record that the files have stay, as `seed.rs` looks for a record and never for a second one.
  With two overlapping Reseeds, after a crash, a third copy does appear: each recreates a tracked record whose
  row is gone, also one that is tracked twice.
* **Panics.** With crashes, deleted rows and dropped models some `unwrap`s of the seeder fail, run after run.
  `PanicsOnlyOnDamage` says exactly when: a Seed whose records have lost a row, which only Reseed restores, or a
  `DataSetRelation` that names a record nobody tracks or a model that is gone.
* **Requests.** A JSON body is refused exactly if it is larger than the limit, however it is split. A handler
  is given the uploads it was sent, whole, unless another upload takes the name of the file before the handler
  is done: within one request or from another, `File::create` empties it. A request whose client is there is
  dropped, by an `unwrap`, only if it is a form that is malformed, that has a field that does not fit those
  before it (`a[b]` without a file `a`, `a[]` after a plain `a`) or a file that cannot be created, or that met
  a file system that refused; and no form of the first three kinds reaches its handler. Only a namespace, or a
  model in place of a handler group, can hide what the schema declares.
* **The process.** At most one thread gets an App, and its command is what the user typed, whatever launched
  it. A server listens only when every connected database is migrated, autoseed ran over it and setup was
  called. That does not make every seeded row be there: a record whose row is gone is taken for seeded. So it
  is with dangerous requests. Of two that overlap, one may read freed memory, neither's answer says anything
  of the tables, and what they leave, as does one that fails half way, are records without rows or rows
  without records. A request that no other one overlaps works from that (`Effect`): after a seed every record
  is there, with its row unless that was gone when the seed began (`lost`); after an unseed no record is, and
  no row that one names, but rows without a record stay; after a reseed every record has its row; after a
  purge there are none of either. That `connect_databases` goes no deeper than the namespaces in the main one
  (`Connectable`), so that a connector further down is never connected, is in the model as it is in the code.

### Bounds

* Two models with a relation in both directions are every pair the code ever looks at: all its
  decisions are about one record and one reference. The group order, the one place that looks at more
  models together, is checked by itself with three and enters `Seeder` as its closed form.
* Two names per group are what it takes for a link to move from one record to another, for a list to
  be shortened and for one record to go while another stays.
* `Versions` are the files the user may switch between, at any time and any number of times; they are
  chosen so that each switch adds, drops, moves or empties something. Runs are unbounded in number.
* `Ids` bounds the rows that exist at once, not those ever created: a key nothing mentions any more is
  taken again and stands for a new one. `MaxOrphans` stops runs from beginning, and crashes from
  happening, once that many rows are tracked by nobody (each crash may leave one), so keys last;
  `MaxOwn` bounds the application's rows.
* `SeederPair` has one record, in one group, of one data set: the seeder's decisions are made record by record. Seven
  keys are enough that a run never waits for one. At most one row at a time is neither tracked nor in the
  hands of a seeder (`Few`), left by a crash or made by the application: to the seeders these are alike.
* `Limit` is 3 bytes for 262144, in chunks of 0 to 2 and one of 4: bodies of 0 to 6 bytes in up to three chunks. The
  forms have one base name and one key, since fields of different names do not touch; up to three fields of the
  kinds that follow on one another, two of all kinds. Files are of two pieces at most, what it takes to write
  between the pieces of another; the first connection sends everything, the second the upload that gets in its way. The empty name is the
  one that cannot be created; any create or write may fail besides.
* `MaxContexts = 2`: the context of the start, and one that replaces it under a purge, a seed or both in every
  way. A second purge_seed is asked for once a first one has failed before it connected. Two paths can be
  connected and a third cannot. `Stored` has four states: new databases, ones with rows of the application, a
  tracked row that is gone, and a row whose record is. Words are subcommands, flags, two names that are
  declared and one that is not. The user's words do not begin with `teo` and no name ends in `.ts`: such words
  are taken away (`parse.rs:141`, `145`), and the command is another one.
* Every passing run is deadlock free but `OrderedGroup`, whose loop ends, and `Application`, whose process does.
* Two properties are no longer checked in `SeederSets`, `OneRecordPerName` and `LosesOnlyInFlight`: they are proved
  for all constants, and `SeederCrash` checks them still.

### Fairness

`WF_vars(Step)`: a run that has begun goes on. The seeder is one task that awaits its own queries, and nothing
it waits for depends on another action of the model. Nobody has to start a run, edit a file or crash: `Begin`
and `Environment` have no fairness. `WF_vars(Next)` of `OrderedGroup` says the same of a loop. `SeederPair`
asks the same of each seeder, whatever the other does. In `Requests` it is `WF_vars(Serve(c))` for each
connection: the server goes on with a request, and its client sends on or goes (`Break`); `FailToWrite` has no
fairness, as no file system has to refuse; nothing makes a client send at all, and there is no timeout in the
code to model. `Application` has no liveness properties: callbacks of the application may take as long as they
like. With crashes `FirstSeedLinks` does not hold, and it is not claimed: it is checked without them.

### Where the code and its comments differ

* **PanicMeansCircle.** Two required relations to the same model (say `author` and `editor`) make
  `ordered_group` panic with "Circular required relationship" (`seed.rs:620`): the model is listed twice as a
  dependency, one listing is removed per round, and a round that pushes nothing panics.
* **ReseedKeepsRequired.** A reseed sets a required foreign key ("setup required relationship", `seed.rs:489`), then, when only
  the child's record names the relation, cuts it from the parent's side (`seed.rs:220-225`); the child's group is not walked again.
  The posts of `david` in `tests/connectors/mysql/relations/data.teo` are written that way.
* **ReseedCutsTheRest.** "find relations and cut" (`seed.rs:221`) is done for relations that are not named at all; what is taken out
  of a list that still names something stays linked.
* **ForgetsRemovedSets.** "remove seed data set records if user removed some seed data set" (`seed.rs:639`)
  forgets every data set outside this run's selection, so `serve` forgets whatever is not autoseed.
* **NoPanic** with a relation that has no opposite: `relationB` is saved as null and read as a String when the
  other end is removed (`seed.rs:59`, `349`, `394`).

The passing runs use schemas and files that avoid these: both ends are written, lists are not shortened, relations
have opposites. In `SeederSets` the forgetting happens, and the properties there are those that hold anyway.

## What is proved

For every value of the constants, and from nothing but the assumptions that the modules name:

* `Seeder`: `Schema` gives every relation an owner, a target, a kind, a column and perhaps an opposite; `Versions`
  are well-formed files; `Ids` are positive; `None` is none of the values it stands beside. Sets may be infinite.
* `SeederPair` (`SeederAssumptions`): the same, and no relations.
* `OrderedGroup`: finitely many models.
* `Dispatch`, `Requests`: namespaces, models and handlers have paths, and lie in one another as the schema's
  declarations do (`NestingAssumption`); a namespace holds one handler by a name; `None` is no value it stands beside.
* `Application`: a launcher puts in front of the user's words what `parse.rs:139-147` takes away, and the user
  has no such word where the launcher has it: no leading `teo` for a Rust program, no name in `.ts` for the others, which
  the parser takes away too (`LaunchesAssumption`, `Wraps`); threads are no requests, and of these there are finitely
  many at once; a process may make at least one connection context (`MaxContextsAssumption`).

TLC evaluates each of these assumptions in the runs. Every invariant below was an invariant of a run before it was proved.

### The group order

* `OrderedGroupTypeOK`, `OrderedGroupBooks`, `OrderedGroupDependenciesFirst`: `DependenciesFirst` is not inductive, as
  a group is pushed because its list is empty. `OneOccurrenceARound` says what the list holds after so
  many rounds; a list that is empty then has had each dependency taken as often as it counts, which happens
  only after the dependency was pushed.
* `OrderedGroupClosedForm`: the groups pushed in the first k rounds are `Placed[k]`, by induction over k
  (`NumberInduction`); every round pushed something, so there are no more rounds than groups, and where the loop
  panics the closed form stands still as well.

### One seeder

* `SeederTypeOK`: `TypeInv` adds `InHand` to `TypeOK`, the fields of `run` that hold a value at each step
  (a record is saved before it is tracked or cut, a relation is in hand while references are linked,
  relations are left over only while a record is walked, and a record being removed is off the list of those to remove).
* `SeederOneRecordPerName`, `SeederOwnRowsStay`, `SeederLosesOnlyInFlight` follow from
  `Inv == TypeInv /\ OneRecordPerName /\ Books /\ OwnRowsStay /\ Apart /\ Deleted`. An insert is decided from
  a snapshot and made steps later, so uniqueness needs `Books`: the snapshot holds every record of the table
  whose turn is still to come, and the record being inserted is not in the table. A removal deletes the row
  of a record read earlier, so that rows of the application stay needs `Apart`: no record in the table, the
  snapshot, the list of removals or in hand names one. `Deleted`: what is untracked is already deleted.
  Most steps touch none of this; `Quiet` says what such a step has in common, `QuietOrNoisy` that every step is
  quiet or one of seven, and the seven are proved one by one.
* `SeederCutsItsOwn`: a foreign key is made null for one row and column, so that nothing else goes with it needs
  that a column of a row holds one value (`KeysInPlace`). For the writes of `SaveNewRow` and `SaveUpdatedRow` that needs the same
  of the input, where the later of two relations over one column overwrites the earlier (`InputRelation`); and for a new row, that no
  foreign key is left over from one that had its key. A row whose relations are walked or cut is there (`RowInHand`): the code
  has just read it, and nothing else deletes rows during a run.
* `SeederRecordsMatchFiles` and `SeederRefinesCatalog` need to know how far a run has come. `Onward` says it:
  what is left to do narrows from part to part (`Narrows`); what the run is about to add the files declare, and what it
  is about to remove they do not, or an Unseed may (`Justified`); what was read is still there when its turn comes (`StillThere`);
  in the groups begun every declared record is tracked or to be added, and every tracked record
  declared or to be removed (`Progress`); and the data sets done stay in line (`OthersDone`). With a crash all of this is
  void, and the next run starts from nothing but the table. Every step falls in one of a few kinds by what it does to the
  catalog and to what is left (`Sorted`); the kinds are proved one by one, and each of them is a step of `SeedCatalog` or
  leaves the catalog alone. So the refinement is complete: initial states map to initial states, every step to a step or a
  stutter.
* `SeederReseedRestores`: of the groups a Reseed has begun, each tracked record has its row or is still to be taken up or
  removed (`GroupsRestored`); so the data sets done have all their rows (`SetsRestored`), and what is outside the
  selection is forgotten before the end (`OnlySelected`). A record that is to be removed is tracked until then (`DoomedTracked`).
* `SeederNoOrphan` has the hypothesis `NothingTakenAway`: no run is killed, and every run is over all data sets, none of which
  leaves the files, nor does a model leave the schema. A crash loses the row in flight, and what the schema or the
  selection has lost is untracked with its row in place, as the code means it to be. Edits of groups and records,
  commands in any order, failed `unwrap`s and all that the application does are within the hypothesis. The invariant is `NoneLost`: a
  row is not tracked only between `SaveNewRow` and `Track`, and no panic falls between the two.
* `SeederPanicsOnlyOnDamage` has the hypothesis `GoodSchema`: finitely many models and relations; the groups of every data set
  can be ordered; each relation has an opposite on its target, as `RemoveOneWay` shows it must; and a model
  with a required relation has no others. The last is not idle. The walk of the relations (`setup_new_relations`) goes only through models
  with a relation that is not required, but sets their required ones again; if the other end, which does not name it, has cut it
  meanwhile (ReseedKeepsRequired), saving null fails. TLC finds that Reseed when the posts have songs besides an author and only
  the posts name the author. The invariant is `Steady`: what the input requires is of groups begun before, hence tracked (`NeedsBegun`, from
  `NeededFirst` of `OrderedGroupProofs` and the `Progress` above); what the walk names the files declare; what is cut is in
  the table and touches the record in hand.
* `SeederRelationsResolve` has the hypothesis `NothingLost`, which is `NothingTakenAway` and an application that deletes no rows. `Whole`
  says what the tables hold in the middle of a run: every tracked record has its row but the one just deleted (`RowsThere`);
  each end of a `DataSetRelation` is tracked or is being inserted, as the relations of the input are saved before the record is
  (`AllResolved`); and a record that is being removed has all its relations among those to cut (`Untied`), which were read when the removal
  began.
* `SeederNoPanic`: under both hypotheses there is no damage to fail on.
* `SeederUnseedLeavesNothing` adds to `NothingLost` that no group leaves the files (`GroupsStay`): an Unseed goes through the groups of the
  files only, and a group that has left them is cleaned up by Seed and Reseed. No record stays by `Progress`, no row by
  `NoneLost`, and no relation by `Whole`.
* `SeederReseedLinksExactly` has the hypothesis `LinksAgree`, of the schema and the files:
  * `Matched`, `OwnColumns`: two opposite relations mirror each other, over one column or join table that is
    theirs alone. That is what the migration makes of a relation declared at both ends; a relation that only
    one end declares must hold its key.
  * `SelfApart`: no model has a join table with itself, and no record refers to itself. The code sees one record at both ends of such a
    link and cannot tell which of them it has cut.
  * `Answered`: the record that a reference leads to names records through the opposite relation.
    `sync_relations` clears a relation that a record does not name, though the other end names it: that is
    ReseedOneEnd. A record that holds the key itself need not name the other one, since clearing a relation
    does not write a key of the record in hand.
  * `Agreed`: no two references want one key to point to different records. If they do, the later walk wins.
  * `JoinsKept`, if there are join tables: no run is killed, and what one state of the files links another links too, or one
    end of it names nothing. A link row is found again only by its `DataSetRelation`, which is written after it, so that a crash
    in between leaves a row that nothing clears; and what a list still names is not compared with what it named before:
    that is ReseedShortened. Keys need no such hypothesis, since each has one value, which a Reseed overwrites.

  A relation is walked from both ends, in any order, with other records in between, and each walk undoes
  something. The argument keeps lists: what is to be saved (`ToSave`), walked (`ToWalk`), set (`ToSet`) and
  cut (`ToCut`) in the data sets the Reseed has begun; every step that writes no link only moves an entry from
  list to list (`Moves`). With `Itinerary`, how a run comes to be where it is, and `InputBuilt`, which keys an
  insert has gathered, four facts are inductive: a reference of the files is in place or on a list
  (`LinksMade`); a foreign key of a saved record is one of the files (`KeysDeclared`); a `DataSetRelation`
  over a join table is named at both ends or on a list (`Emptied`); and each link row between tracked rows has
  a `DataSetRelation` (`Remembered`). The steps that save, remove, cut and link are proved one by one
  (`SavedKeeps`, `RemoveRowKeeps`, `CutLinkKeeps`, `LinkRefKeeps`); at the end the lists are empty
  (`LinksExact`).

The constants of `SeederLinks` satisfy the hypotheses of all five, and those of `SeederCrash` and `SeederSets`
satisfy `GoodSchema` and `LinksAgree`; edits of records and references, commands in any order and failed
`unwrap`s are within them. Two hypotheses of the last are seen to be needed: the files of ReseedOneEnd break
`Answered` only, those of ReseedShortened `JoinsKept` only, and in both TLC finds a Reseed that does not leave
the links of the files.

### Two seeders

`SeederPairProofs` takes the lemmas about the steps of one seeder twice, with `INSTANCE SeederCatalogProofs WITH run <- runA, file <- fileA`
and the same for B (`AssumedA`, `SameA`: the assumptions hold, and the steps are the same). `Moves` is what a step can do
to the run that makes it and to the tables.

* `SeederPairOwnRowsStay`, `SeederPairNeverLetsGo` follow from `Shared`: the types of both, and `Good`, which is what is left of
  `Apart`, `Books` and `Deleted` when another run writes in between. A snapshot may be out of date now; but no run knows of
  a row of the application, what a run is about to track is tracked by nobody, not even by the other, and what it is about to untrack is
  deleted.
* `SeederPairAtMostTwice` has the hypothesis `NoReseed`, that no run is a Reseed: with two of these it is false, as said above. A run
  finds a record missing only when there is no copy, so the copies there are and those that the two runs have still to
  make are at most two (`Counted`). Neither number is bounded by itself.
* `SeederPairAloneBringsInLine`: a run that has met no other is as far as a run of a single seeder would be, that is, `Onward` holds of
  it (`AAlone`, `BAlone`), whatever state of the tables it began in; and as long as it meets none, the other
  seeder takes no step but to begin, which ends the claim.
* `SeederPairTogetherLeaveNothingOut` has the hypothesis `OnlyAutoseed`, that a Seed is what `serve` starts, of the autoseed data
  sets. (A Seed of other data sets forgets these, see ForgetsRemovedSets.) `Onward` is false of runs that overlap: what one read is out of
  date when it writes. What is left of it is the half that says nothing is left out (`LeavesNothingOut`): in the groups
  begun each declared record is tracked or to be added. It survives because a Seed of the same files untracks no record that
  they declare (`SeedUntracks`, `NothingLeftOutStays`).

### Requests

* `RequestsTypeOK`, `RequestsLimitExact`, `RequestsFormsHandedOver`, `RequestsDropsMisfits`,
  `RequestsDeclaredIsReached` are about one request at a time, and follow from `Stages`, what is so of a
  request at each step. The bytes in memory are the sum of the chunks read (`Sums`); the value is `Assembled`
  from the fields read: each upload is in it exactly once, at its place, unless a later field took the place,
  and what is under a plain name is what the last plain field left. That holds for bodies of any number of
  chunks and forms of any number of fields.
* `RequestsUploadsKeepContent` is about all of them. A file that no other upload took holds the pieces written so far
  (`Contents`); to keep that, two uploads in hand that have one file must have met (`Takings`), whichever of them came first.

### The process

* `ApplicationTypeOK`, `ApplicationOneApp` follow from `Kept`. A thread tests for a context and sets one later, so that there is one App
  needs what is so of every thread past `Set` (`Owner`): the context is its own. What the context says of the
  command needs that of the launcher's words the filter leaves none and of the user's takes none (`Wraps`). `Hands`, `Served`
  and `Commanded` say who is in a loop, that requests run only while a thread listens, and which phases are left;
  `Versions`, that a request which has yet to connect has a context version kept for it.
* `ApplicationCarriedOut` needs `Commands`: the phases left behind have done their work in every database,
  come before those to come, and undo nothing; the one in hand has done it in the namespaces that are not
  left. That no phase undoes an earlier one comes from the order of the plan (`Rank`). A seed has done its
  work on a record when the record is there, with its row or with a row that was gone before (`RecordPassed`,
  `Knows`), and it makes no row disappear (`LosesNone`).
* `ApplicationDangerAlone` says the same of a request (`Operates`), as long as no other one overlaps it, from
  whatever rows and records earlier ones have left; the context covers the namespaces that connect under any
  server that listens (`Serves`), but connections outside it stay when a purge_seed fails before the end, and
  the next that is alone replaces them. That an unseed leaves no row that a record named needs `Named`:
  whatever overlaps or fails, a row counts as seeded only while its record is there; and the seed of a
  purge_seed brings every row back as its purge left no record without one (`Cleared`).

### Only model-checked

Every safety property that a passing run checks is a theorem, those of one seeder that depend on the user's
schema and files under the hypotheses named.

Out of the prover's reach: the liveness properties (`Ends`, `RunsEnd`, `RequestsEnd`, and the leads-to of `FirstSeedLinks`). Induction
over data is within reach where the property can be given as a set of numbers, which is what
`NumberInduction` is for; the theorems of the library that take it as an operator are not used.

Two properties are stated otherwise than they were before their proofs. `DangerAlone` spoke of the operation of a request after
it had answered, when it has none; it is the operation before the step now. `NeverLetsGo` held of the run's instance, and not of
every one: a model dropped from the schema, and a data set that is forgotten, are exceptions the code makes, and are
named in it now.

## What is not modelled, and the plan

Not modelled, and not planned: generators, messages, conversions of responses and errors, static files
(pure conversions and output); the options of the command line that choose a schema file or silence
output; `Ctx::drop`, `reset` and `reload`, which nothing calls; and the runtime, parser and connectors, which are
other crates. Steps on the context are atomic: two threads that write it through `get_mut` at once (`ctx.rs:87`)
are a data race, of which nothing can be said but that the language gives it no meaning. Ordinary requests
make their connection context anew from the namespaces (`make.rs:155`, `187`, `246`) and are not part of `Application`.
With the feature `dangerous_operation` a request whose path is empty panics (`make.rs:94`); `Requests` is the server
without the feature.

What could be added: static files and the conversions of responses, the largest part of `src/` that no module names; and overlapping seeders
with links, since `SeederPair` is about rows and records.
