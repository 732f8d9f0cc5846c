------------------------------- MODULE MCRequests -------------------------------
\* A schema, requests and bounds for checking Requests with TLC.
EXTENDS Requests, TLC

CONSTANTS first, second     \* the connections

\* A namespace `admin` with a model `User`, and with a namespace that has the
\* path of the model `Log`.
admin == <<"admin">>
user == <<"admin", "User">>
log == <<"admin", "Log">>
files == <<"files">>
MCPaths == {<<>>, admin, user, log, files, <<"User">>, <<"none", "User">>}
MCNames == {"create", "signUp", "upload", "other"}
MCNamespaces == {<<>>, admin, log}
MCModels == {user, log}
Declared(at, name, of, format) == [at |-> at, name |-> name, of |-> of, format |-> format]
MCHandlers ==
    {Declared(<<>>, "other", "namespace", "Json"),
     Declared(log, "upload", "namespace", "Form"),
     Declared(user, "signUp", "model", "Json"),
     Declared(user, "upload", "group", "Form"),
     Declared(log, "signUp", "model", "Json"),
     Declared(files, "upload", "group", "Form")}
MCActions == {"create", "other"}
MCServed == {"create"}

Route(path, name) == [path |-> path, name |-> name]
Sent(method, route, body, chunks, fields, valid) ==
    [method |-> method, route |-> route, body |-> body, chunks |-> chunks,
     fields |-> fields, valid |-> valid]
UpTo(n, S) == UNION {[1..k -> S] : k \in 0..n}

\* Every route, and every kind of method.
Routed ==
    {Sent("POST", route, "object", <<1>>, <<>>, TRUE) :
        route \in {None} \union [path : MCPaths, name : MCNames]} \union
    {Sent(method, Route(path, "upload"), "object", <<1>>, <<>>, TRUE) :
        method \in {None, "GET", "OPTIONS"}, path \in MCPaths}

\* JSON bodies up to and over the limit, in chunks of every size; one that is
\* no object, and one that is not what the handler takes.
Json(body, chunks, valid) == Sent("POST", Route(user, "create"), body, chunks, <<>>, valid)
Jsons ==
    {Json("object", chunks, TRUE) : chunks \in UpTo(2, 0..2) \union [1..3 -> 1..2]} \union
    {Json("other", <<1>>, TRUE), Json("object", <<1>>, FALSE), Json("object", <<4>>, TRUE)}

\* Forms with up to two fields of any kind, or with three of those that follow
\* on one another, the files empty; a field is left out where the one before it
\* does not fit on its own.  Bodies that are no forms, from the start or after a
\* field.  Forms with files in one or two pieces, that the other connection
\* uploads, too.
Keyed(form, key, content, chunks) ==
    [base |-> "a", form |-> form, key |-> key, content |-> content, chunks |-> chunks]
Part(form, content, chunks) == Keyed(form, "k", content, chunks)
Firsts == {Part("plain", Text, 0), Part("plain", "g", 0), Part("list", "g", 0)}
Path == Keyed("dict", "filepath", "g", 0)
Parts ==
    Firsts \union {Part("dict", "g", 0), Path, Part("list", Text, 0), Part("plain", Garbled, 0),
                   Part("odd", "g", 0), Part("plain", "", 0)}
One == {<<part>> : part \in Parts}
Two == Firsts \X Parts
Three ==
    (Firsts \X {Part("plain", "g", 0), Part("list", "g", 0)}
            \X {Part("list", "g", 0), Part("dict", "g", 0)})
    \union
    ({Part("plain", "g", 0)} \X {Path, Part("dict", "g", 0)}
            \X {Path, Part("dict", "g", 0), Part("plain", "g", 0)})
Bodies(body, parts) ==
    {Sent("POST", Route(files, "upload"), body, <<2, 2>>, fields, TRUE) : fields \in parts}
Forms(parts) == Bodies("fields", parts)
Torn == Bodies("other", {<<>>, <<Part("plain", Text, 0)>>, <<Part("plain", "f", 1)>>})
Short == Forms({<<Part("plain", "f", 1)>>})
Long == Forms({<<Part("plain", "f", 2)>>})
Twice == Forms({<<Part("list", "f", 1), Part("list", "f", 1)>>})

\* TLC keeps unions unevaluated; a listed set it sorts once.
Listed(S) == {e : e \in S}

MCSends ==
    (first  :> Listed(Routed \union Jsons \union Forms({<<>>} \union One \union Two \union Three)
                        \union Torn \union Short \union Twice)) @@
    (second :> Long)
===============================================================================
