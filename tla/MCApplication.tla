----------------------------- MODULE MCApplication -----------------------------
\* Launches, schemas and bounds for checking Application with TLC.
EXTENDS Application, TLC

CONSTANTS main, other, r1, r2       \* the threads and the requests

Alike == Permutations({r1, r2})

MCPaths == {<<>>, <<"a">>, <<"a", "b">>}
\* Nothing yet; rows of the application; a seed of before whose row in <<"a">> is
\* gone; one whose row there has no record.
Holds(databases, records, main_rows, a_rows) ==
    [tables |-> databases, tracked |-> records,
     rows |-> (<<>> :> main_rows @@ <<"a">> :> a_rows @@ <<"a", "b">> :> {})]
MCStored ==
    LET both == {<<>>, <<"a">>}
    IN  {Holds({}, {}, {}, {}),
         Holds(both, {}, {"other"}, {"other"}),
         Holds(both, both, {"seed"}, {}),
         Holds(both, {<<>>}, {"seed"}, {"other"})}
Says(connectors, server, admin, client, entity) ==
    [connectors |-> connectors, server |-> server, admin |-> admin,
     client |-> client, entity |-> entity]
MCSchemas ==
    {Says(MCPaths, TRUE, TRUE, <<"x", "y">>, <<"x">>),
     Says({<<"a">>}, TRUE, FALSE, <<"x">>, <<>>),
     Says({<<>>}, FALSE, TRUE, <<>>, <<"x", "y">>)}

MCWords == Flags \union
    {"serve", "generate", "client", "entity", "admin", "migrate", "seed", "purge", "lint",
     "run", "x", "y", "z", "setup", "teo", "app", "app.ts", "ts"}
MCScripts == {"app.ts"}

\* The application sets a callback up unless it is told to do nothing before it
\* serves, and defines a program to run it.
Launched(runtime, before, words) ==
    [runtime |-> runtime, words |-> words, argv |-> before \o words,
     setup |-> words = <<"serve">>,
     programs |-> IF words # <<>> /\ Head(words) = "run" THEN {"x"} ELSE {}]
\* By `cargo run`, `cargo teo`, node, node with a loader of TypeScript, python.
Ways == {<<"Rust", <<"app">>>>, <<"Rust", <<"app", "teo">>>>, <<"NodeJS", <<"app", "app">>>>,
         <<"NodeJS", <<"app", "ts", "app.ts">>>>, <<"NodeJS", <<"app", "app.ts">>>>,
         <<"Python", <<"app", "app">>>>}

\* The lines that a user may type: every subcommand with every set of flags,
\* without and with names; and what is no command.
Ordered(S) == CHOOSE s \in [1..Cardinality(S) -> S] : {s[i] : i \in DOMAIN s} = S
Serving == {<<"serve">> \o Ordered(flags) :
              flags \in SUBSET {"--no-migration", "--no-autoseed"} \ {{"--no-autoseed"}}}
Others ==
    {sub \o Ordered(flags) \o names :
        sub \in {s.words : s \in Subcommands} \ {<<"serve">>},
        flags \in SUBSET {"--all", "--dry", "--list"},
        names \in {<<>>, <<"x">>, <<"z">>, <<"x", "z">>}} \union
    {<<"seed">> \o Ordered(flags) : flags \in SUBSET {"--unseed", "--reseed"}} \union
    {<<>>, <<"generate">>, <<"x">>, <<"serve", "x">>, <<"seed", "--all", "--all">>}

LaunchedBy(ways, lines) == {Launched(way[1], way[2], line) : way \in ways, line \in lines}
MCLaunches ==
    (main  :> LaunchedBy({<<"Rust", <<"app">>>>}, Others \union Serving) \union
              LaunchedBy(Ways, {<<>>, <<"lint">>, <<"seed", "--all">>, <<"run", "x">>})) @@
    (other :> LaunchedBy({<<"Rust", <<"app">>>>}, {<<"lint">>}))
===============================================================================
