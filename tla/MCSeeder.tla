------------------------------- MODULE MCSeeder -------------------------------
\* Schemas, user files and bounds for checking Seeder with TLC.
EXTENDS SeederProperties, TLC

CONSTANTS
    main, extra,            \* data sets
    parent, child,          \* models
    x, y                    \* names of records

\* The schemas of src/tests/connectors/*/relations: author and posts (a
\* required foreign key), category and products (an optional one), artists
\* and songs (a join table).
AuthorPosts ==
    ("author" :> [owner |-> child, target |-> parent, kind |-> "required",
                  via |-> "authorId", opposite |-> "posts"]) @@
    ("posts" :> [owner |-> parent, target |-> child, kind |-> "foreign",
                 via |-> "authorId", opposite |-> "author"])
CategoryProducts ==
    ("category" :> [owner |-> child, target |-> parent, kind |-> "optional",
                    via |-> "categoryId", opposite |-> "products"]) @@
    ("products" :> [owner |-> parent, target |-> child, kind |-> "foreign",
                    via |-> "categoryId", opposite |-> "category"])
ArtistsSongs ==
    ("artists" :> [owner |-> child, target |-> parent, kind |-> "join",
                   via |-> "perform", opposite |-> "songs"]) @@
    ("songs" :> [owner |-> parent, target |-> child, kind |-> "join",
                 via |-> "perform", opposite |-> "artists"])
CategoryProductsArtistsSongs == CategoryProducts @@ ArtistsSongs

\* An author the model does not let one go back from.
AuthorOnly ==
    "author" :> [owner |-> child, target |-> parent, kind |-> "required",
                 via |-> "authorId", opposite |-> None]

\* TLC keeps unions and products unevaluated; a listed set it sorts once.
Listed(S) == {e : e \in S}
FileOf(live, sets, groups, records, refs) ==
    [live |-> live, sets |-> sets, auto |-> {main}, groups |-> Listed(groups),
     records |-> Listed(records), refs |-> Listed(refs)]

\* A file: parents and children by name, and who belongs to whom as pairs
\* <<child, parent>>, written at the children, at the parents or at both.
Both == {parent, child}
AtChild(up, pairs) == {<<main, p[1], r, p[2]>> : p \in pairs, r \in up}
AtParent(down, pairs) == {<<main, p[2], r, p[1]>> : p \in pairs, r \in down}
OneSet(parents, children, refs) ==
    FileOf(Both, {main}, {main} \X Both,
           ({main} \X {parent} \X parents) \union ({main} \X {child} \X children), refs)

AllStarts == Listed(Commands \X {"all"})

\* Files that write every link at both ends: nothing; a child with the second
\* of two parents; the child with the first parent; the first parent alone.
BothEnds(up, down, parents, children, pairs) ==
    OneSet(parents, children, AtChild(up, pairs) \union AtParent(down, pairs))
SmallFiles(up, down) ==
    {BothEnds(up, down, {}, {}, {}),
     BothEnds(up, down, {x, y}, {x}, {<<x, y>>}),
     BothEnds(up, down, {x}, {x}, {<<x, x>>}),
     BothEnds(up, down, {x}, {}, {})}

\* The same, and another child alone, after the child, and the child with the
\* first of two parents.
LargerFiles(up, down) ==
    SmallFiles(up, down) \union
    {BothEnds(up, down, {x}, {y}, {<<y, x>>}),
     BothEnds(up, down, {x}, {x, y}, {<<x, x>>, <<y, x>>}),
     BothEnds(up, down, {x, y}, {x}, {<<x, x>>})}
RequiredFiles == SmallFiles({"author"}, {"posts"})
OptionalAndJoinFiles == Listed(LargerFiles({"category", "artists"}, {"products", "songs"}))

\* The author is named by the post only, as for rails1 and rails2 in
\* src/tests/connectors/*/relations/data.teo.
AtChildOnly(up) == {OneSet({}, {}, {}), OneSet({x}, {x}, AtChild({up}, {<<x, x>>}))}
AuthorAtChild == AtChildOnly("author")
ReseedStart == {<<"Reseed", "all">>}

\* Two artists sing two songs; then one of them does not sing one of them.
Shortened ==
    LET Written(pairs) == BothEnds({"artists"}, {"songs"}, {x, y}, {x, y}, pairs)
    IN  {Written({x, y} \X {x, y}), Written(({x, y} \X {x, y}) \ {<<x, x>>})}

\* An autoseed data set and one that is seeded by name; then only the first;
\* then without its children; then without the children's model.
TwoSets ==
    LET Children == <<main, child, x>>
        Category == {<<main, x, "category", x>>, <<main, x, "products", x>>}
        Written(live, sets, groups, records, refs) ==
            FileOf(live, sets, groups, records \union {<<main, parent, x>>}, refs)
    IN  {Written(Both, {main, extra}, {main, extra} \X Both, {Children, <<extra, parent, x>>}, Category),
         Written(Both, {main}, {main} \X Both, {Children}, Category),
         Written(Both, {main}, {<<main, parent>>}, {}, {}),
         Written({parent}, {main}, {<<main, parent>>}, {}, {})}
TwoSetsStarts == {<<"Seed", "autoseed">>, <<"Reseed", "all">>, <<"Unseed", "named">>}
AutoOrNamed == {<<"Seed", "autoseed">>, <<"Seed", "named">>}
===============================================================================
