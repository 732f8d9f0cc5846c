-------------------------------- MODULE Dispatch --------------------------------
(***************************************************************************)
(* Which handler of the schema a request is for (make_server_app of        *)
(* src/server/make.rs).                                                    *)
(*                                                                         *)
(* A path is a sequence of names: of a namespace, or of a model or a       *)
(* handler group, whose path is that of its namespace and its own name.    *)
(***************************************************************************)
EXTENDS Integers, Sequences

CONSTANTS
    Paths,          \* the paths at hand
    HandlerNames,   \* of handlers and actions
    Namespaces,     \* paths of namespaces; <<>> is the main one
    ModelPaths,     \* paths of models
    Handlers,       \* the handlers the schema declares, see Handler
    Actions,        \* names of builtin actions
    Served          \* those that the server calls a function for

\* of: what it is declared in, at the path `at`; builtin: an action of a model.
Formats == {"Json", "Form"}
Handler == [at : Paths, name : HandlerNames, of : {"namespace", "model", "group"},
            format : Formats]
Builtin == [at : Paths, name : HandlerNames, of : {"builtin"}, format : {"Json"}]

WithoutLast(path) == SubSeq(path, 1, Len(path) - 1)

ASSUME PathsAssumption == Paths \subseteq Seq(STRING)
ASSUME SchemaAssumption ==
    /\ Namespaces \subseteq Paths /\ <<>> \in Namespaces
    /\ ModelPaths \subseteq Paths
    /\ Handlers \subseteq Handler
    /\ Served \subseteq Actions /\ Actions \subseteq HandlerNames
\* A model or a handler group is declared in a namespace, a handler in one of
\* the three.
ASSUME NestingAssumption ==
    /\ \A path \in ModelPaths : WithoutLast(path) \in Namespaces
    /\ \A h \in Handlers :
        /\ h.of = "namespace" => h.at \in Namespaces
        /\ h.of = "model" => h.at \in ModelPaths
        /\ h.of = "group" => WithoutLast(h.at) \in Namespaces
\* The maps of a namespace hold one handler by a name.
ASSUME HandlersAssumption ==
    \A h, k \in Handlers : <<h.at, h.name, h.of>> = <<k.at, k.name, k.of>> => h = k

\* What the handler map makes of a url: a path and the name of a handler.
Match == [path : Paths, name : HandlerNames]

In(of, m) == {h \in Handlers : h.of = of /\ h.at = m.path /\ h.name = m.name}
ActionOf(m) ==
    {[at |-> m.path, name |-> m.name, of |-> "builtin", format |-> "Json"] :
        name \in {m.name} \intersect Actions}

\* Mutant: no builtin action where a model has a handler group.
ResolveGroupOnly(m) ==
    CASE m.path \in Namespaces                 -> In("namespace", m)
      [] WithoutLast(m.path) \notin Namespaces -> {}
      [] m.path \notin ModelPaths              -> In("group", m)
      [] OTHER -> IF \E h \in Handlers : h.of = "model" /\ h.at = m.path
                  THEN In("model", m) ELSE ActionOf(m)

\* The handler of a match, or none.  A namespace goes before what has its path
\* in the namespace above, a model before a handler group, and a handler of a
\* model before its action.
Resolve(m) ==
    CASE m.path \in Namespaces                 -> In("namespace", m)
      [] WithoutLast(m.path) \notin Namespaces -> {}
      [] m.path \notin ModelPaths              -> In("group", m)
      [] OTHER -> IF In("model", m) # {} THEN In("model", m) ELSE ActionOf(m)
===============================================================================
