----------------------------- MODULE MCSeederPair -----------------------------
\* Files and bounds for checking SeederPair with TLC.
EXTENDS SeederPair, TLC

CONSTANTS
    main,       \* the data set
    author,     \* the model
    x           \* the name of a record

NoSchema == <<>>

FileOf(names) ==
    [live |-> {author}, sets |-> {main}, auto |-> {main}, groups |-> {<<main, author>>},
     records |-> {<<main, author, n>> : n \in names}, refs |-> {}]

\* The version before and the version that adds a record.
TwoVersions == {FileOf({}), FileOf({x})}

\* Two servers that autoseed as they start, each with an operator at its
\* command line.
ServeAndUnseed == {<<"Seed", "autoseed">>, <<"Unseed", "all">>}
===============================================================================
