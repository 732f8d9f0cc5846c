-------------------------------- MODULE Requests --------------------------------
(***************************************************************************)
(* The requests that the server of src/server/make.rs handles at once, one *)
(* per connection, from the first byte to the answer: handler resolution,  *)
(* the body chunk by chunk (src/server/parse.rs), the handler.             *)
(*                                                                         *)
(* Requests share one thing, the system's temporary directory: a file that *)
(* is uploaded is written there under its own name.                        *)
(***************************************************************************)
EXTENDS Dispatch, FormBody

CONSTANTS
    Connections,
    Sends,      \* the requests that may come over each connection, see Message
    Limit,      \* bytes of a JSON body: 262144 in the code
    Unwritable, \* names that no file can be created under: an empty one, a
                \* directory's, one in a directory that is not there
    None

\* route: what the handler map makes of method and path, or None.  For a body
\* that is read as JSON only the sizes of its chunks count, and whether it is
\* an object; for a form its fields.  valid: it passes the handler's input type.
Methods == {"GET", "POST", "PATCH", "PUT", "DELETE", "OPTIONS"}
Message == [method : Methods \union {None}, route : Match \union {None},
            body : {"object", "fields", "other"}, chunks : Seq(Nat), fields : Seq(Field),
            valid : BOOLEAN]

ASSUME SendsAssumption == \A c \in Connections : Sends[c] \subseteq Message
ASSUME LimitAssumption == Limit \in Nat
ASSUME UnwritableAssumption == Unwritable \subseteq FileNames
VARIABLES
    req,        \* by connection, the request in hand
    temp,       \* the temporary directory: the content of a file
    met         \* by connection, the files that another upload wrote or held
                \* open during the request (for the properties only)

vars == <<req, temp, met>>

\* A piece of a file: connection, field, number; or what is none, the gap that
\* a write past the end leaves or a piece written in part.
Gap == <<None, 0, 0>>
Pieces == (Connections \X Nat \X Nat) \union {Gap}

Steps == {"idle", "resolve", "json", "form", "upload", "call", "handler",
          "answered", "panicked"}
Answers == {"empty", "not found", "unknown method", "overflow", "invalid", "handled"}

ASSUME NoneAssumption == None \notin Methods \union FileNames \union {Text, Garbled} \union Answers

Request == [pc : Steps, msg : Message \union {None},
            handler : SUBSET (Handler \union Builtin),  \* what was resolved
            held : 0..Limit,            \* bytes of the JSON body in memory
            at : Nat,                   \* chunks or fields read
            wrote : Nat,                \* pieces written of the upload in hand
            result : UNION {[S -> Value] : S \in SUBSET {Name(f) : f \in Field}},
            broke : BOOLEAN,            \* the connection did
            refused : BOOLEAN,          \* a file was, by the file system
            answer : Answers \union {None}]

NoValues == [n \in {} |-> TextValue]
Fresh == [pc |-> "idle", msg |-> None, handler |-> {}, held |-> 0, at |-> 0, wrote |-> 0,
          result |-> NoValues, broke |-> FALSE, refused |-> FALSE,
          answer |-> None]

Init ==
    /\ req = [c \in Connections |-> Fresh]
    /\ temp = [f \in FileNames |-> <<>>]
    /\ met = [c \in Connections |-> {}]

-------------------------------------------------------------------------------

Msg(c) == req[c].msg
At(c, pc) == req[c].pc = pc
Goes(c, changed) == req' = [req EXCEPT ![c] = changed]
Answered(c, answer) == Goes(c, [req[c] EXCEPT !.pc = "answered", !.answer = answer])
Panicked(c) == Goes(c, [req[c] EXCEPT !.pc = "panicked"])

\* The field in hand, and the file that it uploads.
This(c) == Msg(c).fields[req[c].at]
Writes(c, name) == At(c, "upload") /\ This(c).content = name

Arrive(c) ==
    /\ At(c, "idle")
    /\ \E msg \in Sends[c] : Goes(c, [Fresh EXCEPT !.pc = "resolve", !.msg = msg])
    /\ UNCHANGED <<temp, met>>

-------------------------------------------------------------------------------
\* Up to the body.

Resolved(c) == IF Msg(c).route = None THEN {} ELSE Resolve(Msg(c).route)

Refuse(c) ==
    /\ At(c, "resolve")
    /\ \/ Msg(c).method = None /\ Answered(c, "unknown method")
       \/ Msg(c).method # None /\ Resolved(c) = {} /\ Answered(c, "not found")
    /\ UNCHANGED <<temp, met>>

\* OPTIONS: the middlewares are called around nothing.
Options(c) ==
    /\ At(c, "resolve")
    /\ Msg(c).method = "OPTIONS"
    /\ Resolved(c) # {}
    /\ Answered(c, "empty")
    /\ UNCHANGED <<temp, met>>

\* The format of the handler, not the content type, says how the body is read.
\* What is no multipart form is refused at once, or found out about later.
TakeBody(c) ==
    /\ At(c, "resolve")
    /\ Msg(c).method \notin {None, "OPTIONS"}
    /\ \E h \in Resolved(c) :
        LET To(pc) == Goes(c, [req[c] EXCEPT !.pc = pc, !.handler = {h}])
        IN  IF h.format = "Json"
            THEN To(IF Msg(c).method \in {"GET", "DELETE"} THEN "call" ELSE "json")
            ELSE To("form") \/ (Msg(c).body # "fields" /\ Answered(c, "invalid"))
    /\ UNCHANGED <<temp, met>>

-------------------------------------------------------------------------------
\* parse_json_body

MoreChunks(c) == req[c].at < Len(Msg(c).chunks)
NextChunk(c) == Msg(c).chunks[req[c].at + 1]

\* Mutant: the chunk in hand is not counted.
ReadChunkLate(c) ==
    /\ At(c, "json")
    /\ MoreChunks(c)
    /\ IF req[c].held > Limit
       THEN Answered(c, "overflow")
       ELSE Goes(c, [req[c] EXCEPT !.held = @ + NextChunk(c), !.at = @ + 1])
    /\ UNCHANGED <<temp, met>>

\* Mutant: a body of the limit's size is one too many.
ReadChunkShort(c) ==
    /\ At(c, "json")
    /\ MoreChunks(c)
    /\ IF req[c].held + NextChunk(c) >= Limit
       THEN Answered(c, "overflow")
       ELSE Goes(c, [req[c] EXCEPT !.held = @ + NextChunk(c), !.at = @ + 1])
    /\ UNCHANGED <<temp, met>>

ReadChunk(c) ==
    /\ At(c, "json")
    /\ MoreChunks(c)
    /\ IF req[c].held + NextChunk(c) > Limit
       THEN Answered(c, "overflow")
       ELSE Goes(c, [req[c] EXCEPT !.held = @ + NextChunk(c), !.at = @ + 1])
    /\ UNCHANGED <<temp, met>>

EndJson(c) ==
    /\ At(c, "json")
    /\ ~MoreChunks(c)
    /\ IF Msg(c).body = "object" THEN Goes(c, [req[c] EXCEPT !.pc = "call"])
                                 ELSE Answered(c, "invalid")
    /\ UNCHANGED <<temp, met>>

-------------------------------------------------------------------------------
\* parse_form_body

MoreFields(c) == At(c, "form") /\ req[c].at < Len(Msg(c).fields)
Upcoming(c) == Msg(c).fields[req[c].at + 1]

\* Put the field in hand into the result, or panic.
Assemble(c, i, f) ==
    IF Fails(req[c].result, f) THEN Panicked(c)
    ELSE Goes(c, [req[c] EXCEPT !.pc = "form", !.at = i, !.wrote = 0,
                                !.result = Put(@, i, f)])

ReadText(c) ==
    /\ MoreFields(c)
    /\ ~IsUpload(Upcoming(c))
    /\ Assemble(c, req[c].at + 1, Upcoming(c))
    /\ UNCHANGED <<temp, met>>

Uploaded(c, name) == \E i \in 1..req[c].at : Msg(c).fields[i].content = name
Meets(c, name) ==
    [d \in Connections |->
        IF d # c THEN IF At(d, "idle") THEN met[d] ELSE met[d] \union {name}
        ELSE IF Uploaded(c, name) \/ \E e \in Connections \ {c} : Writes(e, name)
             THEN met[c] \union {name} ELSE met[c]]

\* Mutant: what is there already stays.
OpenFile(c) ==
    /\ MoreFields(c)
    /\ IsUpload(Upcoming(c))
    /\ Upcoming(c).content \notin Unwritable
    /\ Goes(c, [req[c] EXCEPT !.pc = "upload", !.at = req[c].at + 1, !.wrote = 0])
    /\ met' = Meets(c, Upcoming(c).content)
    /\ UNCHANGED temp

\* Mutant: a file that is there is waited for.
CreateNewFile(c) ==
    /\ MoreFields(c)
    /\ IsUpload(Upcoming(c))
    /\ Upcoming(c).content \notin Unwritable
    /\ temp[Upcoming(c).content] = <<>>
    /\ Goes(c, [req[c] EXCEPT !.pc = "upload", !.at = req[c].at + 1, !.wrote = 0])
    /\ met' = Meets(c, Upcoming(c).content)
    /\ UNCHANGED temp

\* File::create empties a file that is there, another request's too.
CreateFile(c) ==
    /\ MoreFields(c)
    /\ IsUpload(Upcoming(c))
    /\ Upcoming(c).content \notin Unwritable
    /\ temp' = [temp EXCEPT ![Upcoming(c).content] = <<>>]
    /\ met' = Meets(c, Upcoming(c).content)
    /\ Goes(c, [req[c] EXCEPT !.pc = "upload", !.at = req[c].at + 1, !.wrote = 0])

\* Its result is unwrapped.
FailToCreate(c) ==
    /\ MoreFields(c)
    /\ Upcoming(c).content \in Unwritable
    /\ Panicked(c)
    /\ UNCHANGED <<temp, met>>

Larger(i, j) == IF i > j THEN i ELSE j
WriteAt(content, k, piece) ==
    [j \in 1..Larger(Len(content), k) |->
        IF j = k THEN piece ELSE IF j <= Len(content) THEN content[j] ELSE Gap]

\* Each request writes where it has come to in its own handle.
WriteChunk(c) ==
    /\ At(c, "upload")
    /\ req[c].wrote < This(c).chunks
    /\ temp' = [temp EXCEPT ![This(c).content] =
                    WriteAt(@, req[c].wrote + 1, <<c, req[c].at, req[c].wrote + 1>>)]
    /\ Goes(c, [req[c] EXCEPT !.wrote = @ + 1])
    /\ UNCHANGED met

EndUpload(c) ==
    /\ At(c, "upload")
    /\ req[c].wrote = This(c).chunks
    /\ Assemble(c, req[c].at, This(c))
    /\ UNCHANGED <<temp, met>>

EndForm(c) ==
    /\ At(c, "form")
    /\ ~MoreFields(c)
    /\ Msg(c).body = "fields"
    /\ Goes(c, [req[c] EXCEPT !.pc = "call"])
    /\ UNCHANGED <<temp, met>>

\* The body is no form, or none from here on, after a field or within it: the
\* error of the stream is unwrapped.
Malformed(c) ==
    /\ \/ At(c, "form")
       \/ At(c, "upload") /\ req[c].wrote = This(c).chunks
    /\ Msg(c).body # "fields"
    /\ req[c].at = Len(Msg(c).fields)
    /\ Panicked(c)
    /\ UNCHANGED <<temp, met>>

\* A file is not created or a piece not written, or in part: no room, no
\* permission.  These results are unwrapped, too.
FailToWrite(c) ==
    /\ \/ MoreFields(c) /\ IsUpload(Upcoming(c)) /\ UNCHANGED temp
       \/ /\ At(c, "upload")
          /\ req[c].wrote < This(c).chunks
          /\ \/ UNCHANGED temp
             \/ temp' = [temp EXCEPT ![This(c).content] = WriteAt(@, req[c].wrote + 1, Gap)]
    /\ Goes(c, [req[c] EXCEPT !.pc = "panicked", !.refused = TRUE])
    /\ UNCHANGED met

\* The connection breaks while the body is read: the payload ends in an error,
\* which is unwrapped.  What was written so far stays.
Break(c) ==
    /\ req[c].pc \in {"json", "form", "upload"}
    /\ Goes(c, [req[c] EXCEPT !.pc = "panicked", !.broke = TRUE])
    /\ UNCHANGED <<temp, met>>

-------------------------------------------------------------------------------
\* The handler and the answer.

\* The input is validated; an action without a function is not found.
Call(c) ==
    /\ At(c, "call")
    /\ IF ~Msg(c).valid THEN Answered(c, "invalid")
       ELSE IF \E h \in req[c].handler : h.of = "builtin" /\ h.name \notin Served
       THEN Answered(c, "not found")
       ELSE Goes(c, [req[c] EXCEPT !.pc = "handler"])
    /\ UNCHANGED <<temp, met>>

\* The handler returns, with a value or an error.
Handle(c) ==
    /\ At(c, "handler")
    /\ Answered(c, "handled")
    /\ UNCHANGED <<temp, met>>

\* The answer is sent and logged, or the connection dropped.
Leave(c) ==
    /\ req[c].pc \in {"answered", "panicked"}
    /\ Goes(c, Fresh)
    /\ met' = [met EXCEPT ![c] = {}]
    /\ UNCHANGED temp

-------------------------------------------------------------------------------

ReadBody(c) ==
    \/ ReadChunk(c)
    \/ EndJson(c)
    \/ ReadText(c)
    \/ CreateFile(c)
    \/ FailToCreate(c)
    \/ WriteChunk(c)
    \/ EndUpload(c)
    \/ EndForm(c)
    \/ Malformed(c)

Serve(c) ==
    \/ Refuse(c)
    \/ Options(c)
    \/ TakeBody(c)
    \/ ReadBody(c)
    \/ Call(c)
    \/ Handle(c)
    \/ Leave(c)

Next ==
    \E c \in Connections :
        \/ Arrive(c)
        \/ Serve(c)
        \/ Break(c)
        \/ FailToWrite(c)

\* A request goes on as long as its client sends; nobody has to send one.
Spec == Init /\ [][Next]_vars /\ \A c \in Connections : WF_vars(Serve(c))

-------------------------------------------------------------------------------

\* The types; the body of a JSON request in memory never outgrows the limit.
TypeOK ==
    /\ \A c \in Connections :
        LET r == req[c]
        IN  /\ r.pc \in Steps /\ r.answer \in Answers \union {None}
            /\ r.msg \in Message \union {None}
            /\ r.handler \subseteq Handler \union Builtin
            /\ r.held \in 0..Limit /\ r.at \in Nat /\ r.wrote \in Nat
            /\ \A n \in DOMAIN r.result : r.result[n] \in Value
            /\ r.broke \in BOOLEAN /\ r.refused \in BOOLEAN
            /\ met[c] \subseteq FileNames
    /\ \A f \in FileNames : temp[f] \in Seq(Pieces)

Total(chunks) ==
    LET sum[k \in 0..Len(chunks)] == IF k = 0 THEN 0 ELSE sum[k - 1] + chunks[k]
    IN  sum[Len(chunks)]

ReadsJson(c) ==
    /\ \E h \in req[c].handler : h.format = "Json"
    /\ Msg(c).method \notin {"GET", "DELETE"}

\* However a JSON body is split into chunks, it is refused exactly if it is
\* larger than the limit as a whole.
LimitExact ==
    \A c \in Connections :
        /\ req[c].answer = "overflow" => Total(Msg(c).chunks) > Limit
        /\ req[c].pc \in {"call", "handler"} /\ ReadsJson(c) => Total(Msg(c).chunks) <= Limit

\* Until the handler returns, a file that it is given holds what was uploaded,
\* all of it and nothing of another upload, earlier or at the same time; but
\* for one whose name another upload took meanwhile, in this or in another
\* request.
UploadsKeepContent ==
    \A c \in Connections : req[c].pc \in {"call", "handler"} =>
        \A i \in UploadsOf(req[c].result) :
            LET f == Msg(c).fields[i]
            IN  f.content \notin met[c] =>
                    temp[f.content] = [k \in 1..f.chunks |-> <<c, i, k>>]

\* A later field that takes the place of the upload in field i.
Replaces(fields, j, i) ==
    /\ j > i
    /\ fields[j].base = fields[i].base
    /\ \/ fields[j].form = "plain"
       \/ /\ IsUpload(fields[j]) /\ fields[j].form = "dict"
          /\ \/ fields[i].form = "dict" /\ fields[j].key = fields[i].key
             \/ fields[i].form = "plain" /\ fields[j].key = PathKey

\* The handler is given every upload of a form, those of a list in the order
\* sent, but for the ones whose place a later field has taken.
FormsHandedOver ==
    \A c \in Connections : req[c].pc \in {"call", "handler"} /\ ~ReadsJson(c) =>
        LET fields == IF req[c].at = 0 THEN <<>> ELSE Msg(c).fields
            result == req[c].result
        IN  /\ UploadsOf(result) =
                    {i \in DOMAIN fields : /\ IsUpload(fields[i])
                                           /\ ~\E j \in DOMAIN fields : Replaces(fields, j, i)}
            /\ \A n \in DOMAIN result : \A k, l \in DOMAIN result[n].items :
                    k < l => result[n].items[k] < result[n].items[l]

\* Field i does not fit what precedes it: `base[key]` needs a file under the
\* plain name, the last there; `base[]` nothing there at all.
Misfit(fields, i) ==
    LET plain == {j \in 1..(i - 1) : fields[j].form = "plain" /\ fields[j].base = fields[i].base}
    IN  \/ fields[i].content = Garbled
        \/ IsUpload(fields[i]) /\ fields[i].form = "odd"
        \/ IsUpload(fields[i]) /\ fields[i].form = "list" /\ plain # {}
        \/ /\ IsUpload(fields[i]) /\ fields[i].form = "dict"
           /\ \A j \in plain : (\A k \in plain : k <= j) => ~IsUpload(fields[j])

ReadsForm(c) == \E h \in req[c].handler : h.format = "Form"
Unfit(fields, i) == Misfit(fields, i) \/ fields[i].content \in Unwritable

\* A request is dropped only if its client is gone, or if it is a form that is
\* malformed, has a field that does not fit or a file that cannot be created,
\* or met a file system that refused; and no form of the first three kinds
\* ever reaches its handler.
DropsMisfits ==
    \A c \in Connections :
        LET fields == Msg(c).fields
        IN  /\ req[c].pc = "panicked" /\ ~req[c].broke =>
                /\ ReadsForm(c)
                /\ \/ req[c].refused
                   \/ Msg(c).body # "fields"
                   \/ \E i \in DOMAIN fields : Unfit(fields, i)
            /\ req[c].pc \in {"call", "handler"} /\ ReadsForm(c) =>
                Msg(c).body = "fields" /\ \A i \in DOMAIN fields : ~Unfit(fields, i)

\* Nothing that the schema declares at a path is out of reach, unless a
\* namespace has the same path, or a model the path of a handler group.
DeclaredIsReached ==
    \A c \in Connections :
        (req[c].answer = "not found" /\ req[c].handler = {} /\ Msg(c).route # None) =>
            LET m == Msg(c).route
            IN  \/ m.path \in Namespaces
                \/ /\ m.path \in ModelPaths => m.name \notin Actions
                   /\ \A h \in Handlers : <<h.at, h.name>> = <<m.path, m.name>> =>
                        h.of = "group" /\ m.path \in ModelPaths

\* Every request is answered or dropped, if its client sends on or goes.
RequestsEnd == \A c \in Connections : req[c].pc # "idle" ~> req[c].pc = "idle"
===============================================================================
