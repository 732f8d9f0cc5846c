-------------------------------- MODULE FormBody --------------------------------
(***************************************************************************)
(* The value that parse_form_body of src/server/parse.rs assembles from    *)
(* the fields of a multipart form, one after the other.                    *)
(*                                                                         *)
(* An uploaded file is put under the name before `[]` or `[key]`; a text   *)
(* under its whole name as it is.  The file itself is represented by the   *)
(* position of its field in the form.                                      *)
(***************************************************************************)
EXTENDS Integers, Sequences

CONSTANTS
    Bases,          \* names before any brackets
    Keys,           \* names between them
    PathKey,        \* the one that a file's own object keeps its path under
    FileNames,
    Text, Garbled   \* the content of a field that is no file: UTF-8 or not

\* `base`, `base[]`, `base[key]`, or `base]`.
Field == [base : Bases, form : {"plain", "list", "dict", "odd"}, key : Keys,
          content : FileNames \union {Text, Garbled}, chunks : Nat]

IsUpload(f) == f.content \in FileNames
Name(f) == <<f.base, f.form, IF f.form = "dict" THEN {f.key} ELSE {}>>
Plain(base) == <<base, "plain", {}>>

\* Values by name.  A text; a file and what was inserted into its object; a
\* list of files.
Value == [kind : {"text", "file", "list"}, items : Seq(Nat), sub : SUBSET (Keys \X Nat)]
TextValue == [kind |-> "text", items |-> <<>>, sub |-> {}]
FileValue(i) == [kind |-> "file", items |-> <<i>>, sub |-> {}]
ListValue(items) == [kind |-> "list", items |-> items, sub |-> {}]

Set(result, name, value) ==
    [n \in DOMAIN result \union {name} |-> IF n = name THEN value ELSE result[n]]

\* Mutant: a value of any kind is taken for one of this.
HasAny(result, base, kind) == Plain(base) \in DOMAIN result

Has(result, base, kind) == Plain(base) \in DOMAIN result /\ result[Plain(base)].kind = kind

\* An unwrap fails: `base[key]` is no object, not even when there is none yet
\* (it is made an array then), or `base[]` no array, the regex does not match,
\* or the text is not UTF-8.
Fails(result, f) ==
    \/ f.content = Garbled
    \/ /\ IsUpload(f)
       /\ \/ f.form = "odd"
          \/ f.form = "dict" /\ ~Has(result, f.base, "file")
          \/ /\ f.form = "list"
             /\ Plain(f.base) \in DOMAIN result
             /\ ~Has(result, f.base, "list")

\* Mutant: the array is made anew.
NoItems(result, name) == <<>>

\* What `base[]` adds to.
ItemsBefore(result, name) == IF name \in DOMAIN result THEN result[name].items ELSE <<>>

\* Field i, which does not fail.  `base[filepath]` takes the place of the path
\* of the file that it is inserted into.
Put(result, i, f) ==
    LET here == Plain(f.base)
    IN  IF ~IsUpload(f) THEN Set(result, Name(f), TextValue)
        ELSE CASE f.form = "plain" -> Set(result, here, FileValue(i))
               [] f.form = "list"  ->
                    Set(result, here, ListValue(Append(ItemsBefore(result, here), i)))
               [] f.form = "dict"  ->
                    [result EXCEPT
                        ![here].sub = {x \in @ : x[1] # f.key} \union {<<f.key, i>>},
                        ![here].items = IF f.key = PathKey THEN <<>> ELSE @]

\* The uploads that a result names.
ItemsOf(value) == {value.items[k] : k \in DOMAIN value.items} \union {x[2] : x \in value.sub}
UploadsOf(result) == UNION {ItemsOf(result[n]) : n \in DOMAIN result}
===============================================================================
