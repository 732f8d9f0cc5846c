------------------------------ MODULE CommandLine ------------------------------
(***************************************************************************)
(* src/cli/parse.rs: from the words a process is started with to the       *)
(* command it runs.  Words that do not make a command end the process:     *)
(* clap prints the usage or an error and exits.                            *)
(*                                                                         *)
(* The options -s, -e, -v and -S, and the short forms of the others, are   *)
(* left out: they choose a schema file and what is printed.                *)
(***************************************************************************)
EXTENDS Naturals, Sequences, SequencesExt

CONSTANTS
    Words,      \* that appear in a command line
    Scripts,    \* those that end in ".ts"
    NoCommand

ASSUME ScriptsAssumption == Scripts \subseteq Words

Subcommand(words, flags, named) == [words |-> words, flags |-> flags, named |-> named]
Subcommands ==
    {Subcommand(<<"serve">>, {"--no-migration", "--no-autoseed"}, FALSE),
     Subcommand(<<"generate", "client">>, {"--all"}, TRUE),
     Subcommand(<<"generate", "entity">>, {"--all"}, TRUE),
     Subcommand(<<"generate", "admin">>, {}, FALSE),
     Subcommand(<<"migrate">>, {"--dry"}, FALSE),
     Subcommand(<<"seed">>, {"--unseed", "--reseed", "--all"}, TRUE),
     Subcommand(<<"purge">>, {}, FALSE),
     Subcommand(<<"lint">>, {}, FALSE),
     Subcommand(<<"run">>, {"--list"}, TRUE)}

Flags == UNION {sub.flags : sub \in Subcommands}
Command == [sub : {sub.words : sub \in Subcommands}, flags : SUBSET Flags, names : Seq(Words)]

\* The members of s that stand at the indices of I, in their order.
Chosen(s, I) ==
    LET upto[n \in 0..Len(s)] ==
            IF n = 0 THEN <<>>
            ELSE IF n \in I THEN Append(upto[n-1], s[n]) ELSE upto[n-1]
    IN  upto[Len(s)]

GivenFlags(args) == {args[i] : i \in 1..Len(args)} \cap Flags
GivenNames(args) == Chosen(args, {i \in 1..Len(args) : args[i] \notin Flags})

\* A flag is given once and belongs to the subcommand.  Names are given in place
\* of --all and --list, and `run` wants one or the other.
Accepts(sub, args) ==
    /\ GivenFlags(args) \subseteq sub.flags
    /\ \A i, j \in 1..Len(args) : args[i] = args[j] /\ args[i] \in Flags => i = j
    /\ GivenNames(args) # <<>> => sub.named /\ GivenFlags(args) \cap {"--all", "--list"} = {}
    /\ sub.words = <<"run">> => GivenNames(args) # <<>> \/ "--list" \in GivenFlags(args)

\* The command that the words after the program's name make.
CommandOf(words) ==
    LET Args(sub) == SubSeq(words, Len(sub.words) + 1, Len(words))
        fits == {sub \in Subcommands : IsPrefix(sub.words, words) /\ Accepts(sub, Args(sub))}
    IN  IF fits = {}
        THEN NoCommand
        ELSE LET sub == CHOOSE sub \in fits : TRUE
             IN  [sub |-> sub.words, flags |-> GivenFlags(Args(sub)),
                  names |-> GivenNames(Args(sub))]

\* --reseed wins over --unseed.
SeedAction(command) ==
    IF "--reseed" \in command.flags THEN "reseed"
    ELSE IF "--unseed" \in command.flags THEN "unseed" ELSE "seed"

\* What launched the program leaves its own words in front: `cargo teo` the word
\* teo, an interpreter the script.
Runtimes == {"Rust", "NodeJS", "Python"}
Filtered(runtime, argv) ==
    Chosen(argv, {i \in 1..Len(argv) : IF runtime = "Rust" THEN ~(i = 2 /\ argv[i] = "teo")
                                       ELSE i # 2 /\ argv[i] \notin Scripts})

Parse(runtime, argv) ==
    LET words == Filtered(runtime, argv)
    IN  CommandOf(IF words = <<>> THEN <<>> ELSE Tail(words))
===============================================================================
