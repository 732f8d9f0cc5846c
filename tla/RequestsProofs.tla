----------------------------- MODULE RequestsProofs -----------------------------
(***************************************************************************)
(* For every schema, every set of requests, every limit, every form and    *)
(* any number of connections: what the server's requests keep to.          *)
(***************************************************************************)
EXTENDS Requests, NumberInduction, SequenceTheorems

-------------------------------------------------------------------------------
\* The sizes of the chunks of a body, summed up.

Sums(chunks) ==
    CHOOSE sum : sum = [k \in 0..Len(chunks) |-> IF k = 0 THEN 0 ELSE sum[k-1] + chunks[k]]

\* The sums over the first chunks exist, for a body in any number of chunks.
LEMMA SumsExist ==
    ASSUME NEW chunks \in Seq(Nat)
    PROVE  Sums(chunks) = [k \in 0..Len(chunks) |->
                                IF k = 0 THEN 0 ELSE Sums(chunks)[k-1] + chunks[k]]
<1> DEFINE Summed(n, s) == s = [k \in 0..n |-> IF k = 0 THEN 0 ELSE s[k-1] + chunks[k]]
           N == Len(chunks)
           S == {n \in 0..N : \E s : Summed(n, s)}
<1>1. N \in Nat
    OBVIOUS
<1>2. 0 \in S
    <2> DEFINE s == [k \in 0..0 |-> 0]
    <2>1. Summed(0, s)
        OBVIOUS
    <2> HIDE DEF Summed, s
    <2> QED BY <2>1, <1>1
<1>3. ASSUME NEW n \in 0..(N - 1), n \in S PROVE n + 1 \in S
    <2>1. PICK s : Summed(n, s)
        BY <1>3
    <2> DEFINE t == [k \in 0..(n + 1) |-> IF k = n + 1 THEN s[n] + chunks[n + 1] ELSE s[k]]
    <2>2. ASSUME NEW k \in 0..(n + 1)
          PROVE  t[k] = IF k = 0 THEN 0 ELSE t[k-1] + chunks[k]
        <3>1. CASE k = n + 1
            BY <3>1
        <3>2. CASE k # n + 1
            <4>1. k \in 0..n /\ t[k] = s[k]
                BY <3>2
            <4>2. k # 0 => k - 1 \in 0..(n + 1) /\ k - 1 # n + 1 /\ t[k-1] = s[k-1]
                BY <3>2
            <4>3. s[k] = IF k = 0 THEN 0 ELSE s[k-1] + chunks[k]
                BY <2>1, <4>1
            <4> QED BY <4>1, <4>2, <4>3
        <3> QED BY <3>1, <3>2
    <2>3. Summed(n + 1, t)
        BY <2>2
    <2> HIDE DEF Summed, t
    <2> QED BY <2>3, <1>1
<1> HIDE DEF S
<1>4. 0..N \subseteq S
    BY <1>1, <1>2, <1>3, SetInductionUpTo
<1>5. N \in S
    BY <1>1, <1>4
<1>6. \E s : Summed(N, s)
    BY <1>5 DEF S
<1> QED BY <1>6 DEF Sums

\* They are numbers, and no sum is smaller than one before it.
LEMMA SumsGrow ==
    ASSUME NEW chunks \in Seq(Nat)
    PROVE  /\ Sums(chunks)[0] = 0
           /\ \A k \in 0..Len(chunks) : Sums(chunks)[k] \in Nat
           /\ \A k \in 1..Len(chunks) : Sums(chunks)[k] = Sums(chunks)[k-1] + chunks[k]
           /\ \A k \in 0..Len(chunks) : Sums(chunks)[k] <= Total(chunks)
<1> DEFINE N == Len(chunks)
           s == Sums(chunks)
           Numbers == {n \in 0..N : s[n] \in Nat}
           Below(m) == {n \in 0..N : m <= n => s[m] <= s[n]}
<1>1. N \in Nat /\ \A k \in 1..N : chunks[k] \in Nat
    OBVIOUS
<1>2. s[0] = 0 /\ \A k \in 1..N : s[k] = s[k-1] + chunks[k]
    <2> HIDE DEF s
    <2>1. s = [k \in 0..N |-> IF k = 0 THEN 0 ELSE s[k-1] + chunks[k]]
        BY SumsExist DEF s
    <2>2. \A k \in 0..N : s[k] = IF k = 0 THEN 0 ELSE s[k-1] + chunks[k]
        BY <2>1
    <2> QED BY <1>1, <2>2
<1> HIDE DEF s, N
<1>3. \A k \in 0..N : s[k] \in Nat
    <2>1. 0 \in Numbers
        BY <1>1, <1>2
    <2>2. ASSUME NEW n \in 0..(N - 1), n \in Numbers PROVE n + 1 \in Numbers
        <3>1. n + 1 \in 1..N /\ s[n + 1] = s[n] + chunks[n + 1]
            BY <1>1, <1>2
        <3> QED BY <1>1, <2>2, <3>1
    <2> HIDE DEF Numbers
    <2>3. 0..N \subseteq Numbers
        BY <1>1, <2>1, <2>2, SetInductionUpTo
    <2> QED BY <2>3 DEF Numbers
<1>4. \A m \in 0..N : s[m] <= s[N]
    <2> SUFFICES ASSUME NEW m \in 0..N PROVE s[m] <= s[N]
        OBVIOUS
    <2>1. 0 \in Below(m)
        BY <1>1, <1>3
    <2>2. ASSUME NEW n \in 0..(N - 1), n \in Below(m) PROVE n + 1 \in Below(m)
        <3>1. s[n + 1] = s[n] + chunks[n + 1] /\ chunks[n + 1] \in Nat
            BY <1>1, <1>2
        <3>2. s[n] \in Nat /\ s[n + 1] \in Nat /\ s[m] \in Nat /\ n + 1 \in 0..N
            BY <1>1, <1>3
        <3>3. m <= n + 1 => m <= n \/ m = n + 1
            BY <1>1
        <3> QED BY <2>2, <3>1, <3>2, <3>3
    <2> HIDE DEF Below
    <2>3. 0..N \subseteq Below(m)
        BY <1>1, <2>1, <2>2, SetInductionUpTo
    <2>4. N \in Below(m)
        BY <1>1, <2>3
    <2> QED BY <1>1, <2>4 DEF Below
<1>5. Total(chunks) = s[N]
    BY DEF Total, Sums, s, N
<1> QED BY <1>2, <1>3, <1>4, <1>5 DEF s, N

-------------------------------------------------------------------------------
\* The value of a form, field by field.

Names == {Name(f) : f \in Field}
Results == UNION {[S -> Value] : S \in SUBSET Names}

LEMMA ResultFields ==
    ASSUME NEW r
    PROVE  r \in Results <=> /\ r = [n \in DOMAIN r |-> r[n]]
                             /\ DOMAIN r \subseteq Names
                             /\ \A n \in DOMAIN r : r[n] \in Value
<1>1. ASSUME r \in Results
      PROVE  r = [n \in DOMAIN r |-> r[n]] /\ DOMAIN r \subseteq Names
                /\ \A n \in DOMAIN r : r[n] \in Value
    <2>1. PICK S \in SUBSET Names : r \in [S -> Value]
        BY <1>1 DEF Results
    <2> QED BY <2>1
<1>2. ASSUME r = [n \in DOMAIN r |-> r[n]], DOMAIN r \subseteq Names,
             \A n \in DOMAIN r : r[n] \in Value
      PROVE  r \in Results
    <2>1. DOMAIN r \in SUBSET Names /\ r \in [DOMAIN r -> Value]
        BY <1>2
    <2> QED BY <2>1 DEF Results
<1> QED BY <1>1, <1>2

\* What a field that does not fail changes in the value: one name of it.
Target(f) == IF IsUpload(f) THEN Plain(f.base) ELSE Name(f)
NewValue(r, i, f) ==
    IF ~IsUpload(f) THEN TextValue
    ELSE CASE f.form = "plain" -> FileValue(i)
           [] f.form = "list"  -> ListValue(Append(ItemsBefore(r, Plain(f.base)), i))
           [] f.form = "dict"  ->
                [r[Plain(f.base)] EXCEPT
                    !.sub = {x \in @ : x[1] # f.key} \union {<<f.key, i>>},
                    !.items = IF f.key = PathKey THEN <<>> ELSE @]

LEMMA TargetIsName ==
    ASSUME NEW f \in Field
    PROVE  /\ Target(f) \in Names
           /\ Target(f) = Plain(f.base) <=> IsUpload(f) \/ f.form = "plain"
           /\ \A b : b # f.base => Target(f) # Plain(b)
<1>1. f.base \in Bases /\ f.form \in {"plain", "list", "dict", "odd"} /\ f.key \in Keys
        /\ f.content \in FileNames \union {Text, Garbled} /\ f.chunks \in Nat
    BY DEF Field
<1>2. Plain(f.base) \in Names
    <2> DEFINE g == [base |-> f.base, form |-> "plain", key |-> f.key,
                     content |-> f.content, chunks |-> f.chunks]
    <2>1. g \in Field
        BY <1>1 DEF Field
    <2>2. Name(g) = Plain(f.base)
        BY DEF Name, Plain
    <2> HIDE DEF g
    <2> QED BY <2>1, <2>2 DEF Names
<1>3. Name(f) \in Names
    BY DEF Names
<1>4. Name(f) = Plain(f.base) <=> f.form = "plain"
    BY DEF Name, Plain
<1>5. \A b : b # f.base => Name(f) # Plain(b) /\ Plain(f.base) # Plain(b)
    BY DEF Name, Plain
<1> QED BY <1>2, <1>3, <1>4, <1>5 DEF Target

LEMMA PutChanges ==
    ASSUME NEW r \in Results, NEW f \in Field, NEW i \in Nat, ~Fails(r, f)
    PROVE  /\ Put(r, i, f) = [n \in DOMAIN r \union {Target(f)} |->
                                IF n = Target(f) THEN NewValue(r, i, f) ELSE r[n]]
           /\ NewValue(r, i, f) \in Value
           /\ Put(r, i, f) \in Results
<1> DEFINE here == Plain(f.base)
<1>1. f.form \in {"plain", "list", "dict", "odd"} /\ f.key \in Keys
    BY DEF Field
<1>2. /\ r = [n \in DOMAIN r |-> r[n]] /\ DOMAIN r \subseteq Names
      /\ \A n \in DOMAIN r : r[n] \in Value
    BY ResultFields
<1>3. /\ Put(r, i, f) = [n \in DOMAIN r \union {Target(f)} |->
                            IF n = Target(f) THEN NewValue(r, i, f) ELSE r[n]]
      /\ NewValue(r, i, f) \in Value
    <2>1. CASE ~IsUpload(f)
        BY <2>1 DEF Put, Set, Target, NewValue, TextValue, Value
    <2>2. CASE IsUpload(f) /\ f.form = "plain"
        <3>1. NewValue(r, i, f) = FileValue(i) /\ Target(f) = here
            BY <2>2 DEF NewValue, Target
        <3>2. Put(r, i, f) = Set(r, here, FileValue(i))
            BY <2>2 DEF Put
        <3>3. FileValue(i) \in Value
            BY DEF FileValue, Value
        <3> QED BY <3>1, <3>2, <3>3 DEF Set
    <2>3. CASE IsUpload(f) /\ f.form = "list"
        <3> DEFINE v == ListValue(Append(ItemsBefore(r, here), i))
        <3>1. NewValue(r, i, f) = v /\ Target(f) = here
            BY <2>3 DEF NewValue, Target
        <3>2. Put(r, i, f) = Set(r, here, v)
            BY <2>3 DEF Put
        <3>3. ItemsBefore(r, here) \in Seq(Nat)
            BY <1>2 DEF ItemsBefore, Value
        <3>4. v \in Value
            BY <3>3 DEF ListValue, Value
        <3> QED BY <3>1, <3>2, <3>4 DEF Set
    <2>4. CASE IsUpload(f) /\ f.form = "dict"
        <3>1. here \in DOMAIN r
            BY <2>4 DEF Fails, Has
        <3>2. Target(f) = here
            BY <2>4 DEF Target
        <3> DEFINE sub == {x \in r[here].sub : x[1] # f.key} \union {<<f.key, i>>}
                   items == IF f.key = PathKey THEN <<>> ELSE r[here].items
                   v == [r[here] EXCEPT !.sub = sub, !.items = items]
        <3>5. /\ r[here].sub \in SUBSET (Keys \X Nat) /\ r[here] \in Value
              /\ r[here].items \in Seq(Nat)
            BY <1>2, <3>1 DEF Value
        <3>3. NewValue(r, i, f) = v
            BY <2>4 DEF NewValue
        <3>4. Put(r, i, f) = [r EXCEPT ![here] = v]
            <4>1. Put(r, i, f) = [r EXCEPT ![here].sub = {x \in @ : x[1] # f.key} \union {<<f.key, i>>},
                                           ![here].items = IF f.key = PathKey THEN <<>> ELSE @]
                BY <2>4 DEF Put
            <4> QED BY <1>2, <3>1, <3>5, <4>1
        <3>6. sub \in SUBSET (Keys \X Nat) /\ items \in Seq(Nat)
            <4>1. sub \in SUBSET (Keys \X Nat)
                BY <1>1, <3>5
            <4>2. <<>> \in Seq(Nat)
                OBVIOUS
            <4> QED BY <3>5, <4>1, <4>2
        <3>7. v \in Value
            <4> HIDE DEF sub, items
            <4> QED BY <3>5, <3>6 DEF Value
        <3> HIDE DEF v
        <3> QED BY <1>2, <3>1, <3>2, <3>3, <3>4, <3>7, ZenonT(30)
    <2>5. CASE IsUpload(f) /\ f.form = "odd"
        BY <2>5 DEF Fails
    <2> QED BY <1>1, <2>1, <2>2, <2>3, <2>4, <2>5
<1>4. Put(r, i, f) \in Results
    <2> DEFINE p == Put(r, i, f)
    <2>1. DOMAIN p = DOMAIN r \union {Target(f)} /\ p = [n \in DOMAIN p |-> p[n]]
        BY <1>3
    <2>2. \A n \in DOMAIN p : p[n] \in Value
        BY <1>2, <1>3
    <2>3. DOMAIN p \subseteq Names
        BY <1>2, <2>1, TargetIsName
    <2> HIDE DEF p
    <2>4. p \in Results
        BY <2>1, <2>2, <2>3, ResultFields
    <2> QED BY <2>4 DEF p
<1> QED BY <1>3, <1>4

-------------------------------------------------------------------------------
\* What the value holds after the first n fields of a form.

Holds(v, i) == (\E k \in DOMAIN v.items : v.items[k] = i) \/ (\E x \in v.sub : x[2] = i)

\* Every upload that the value names is one of these fields, under the name
\* and in the place that its form says; a list is in the order sent.
Placed(fields, n, m, v) ==
    /\ \A k \in DOMAIN v.items :
        LET i == v.items[k]
        IN  /\ i \in 1..n /\ IsUpload(fields[i]) /\ m = Plain(fields[i].base)
            /\ fields[i].form \in {"plain", "list"}
    /\ \A k, l \in DOMAIN v.items : k < l => v.items[k] < v.items[l]
    /\ \A x \in v.sub :
        /\ x[2] \in 1..n /\ IsUpload(fields[x[2]]) /\ m = Plain(fields[x[2]].base)
        /\ fields[x[2]].form = "dict" /\ fields[x[2]].key = x[1]
    /\ v.kind # "file" => v.sub = {} /\ \A k \in DOMAIN v.items : fields[v.items[k]].form = "list"
    /\ v.kind = "file" => \A k \in DOMAIN v.items : fields[v.items[k]].form = "plain"

Located(fields, r, n) == \A m \in DOMAIN r : Placed(fields, n, m, r[m])

\* No upload is lost but the ones whose place a later field took.
Kept(fields, r, n) ==
    \A i \in 1..n : IsUpload(fields[i]) =>
        (i \in UploadsOf(r) <=> ~\E j \in 1..n : Replaces(fields, j, i))

\* What stands under a plain name: the last field of this name, else a list
\* or nothing.
PlainOnes(fields, b, n) == {j \in 1..n : fields[j].form = "plain" /\ fields[j].base = b}
Kinds(fields, r, n) ==
    \A b \in Bases :
        /\ PlainOnes(fields, b, n) = {} =>
            (Plain(b) \in DOMAIN r => r[Plain(b)].kind = "list")
        /\ PlainOnes(fields, b, n) # {} =>
            /\ Plain(b) \in DOMAIN r /\ r[Plain(b)].kind # "list"
            /\ \E j \in PlainOnes(fields, b, n) :
                /\ \A k \in PlainOnes(fields, b, n) : k <= j
                /\ r[Plain(b)].kind = "file" <=> IsUpload(fields[j])

Assembled(fields, r, n) ==
    /\ Located(fields, r, n)
    /\ Kept(fields, r, n)
    /\ Kinds(fields, r, n)
    /\ \A i \in 1..n : ~Misfit(fields, i)

LEMMA NothingAssembled ==
    ASSUME NEW fields
    PROVE  NoValues \in Results /\ UploadsOf(NoValues) = {} /\ Assembled(fields, NoValues, 0)
<1>1. DOMAIN NoValues = {} /\ NoValues = [n \in DOMAIN NoValues |-> NoValues[n]]
    BY DEF NoValues
<1>2. NoValues \in Results
    BY <1>1, ResultFields
<1>3. UploadsOf(NoValues) = {}
    BY <1>1 DEF UploadsOf
<1>4. \A b : PlainOnes(fields, b, 0) = {}
    BY DEF PlainOnes
<1> QED BY <1>1, <1>2, <1>3, <1>4 DEF Assembled, Located, Kept, Kinds

LEMMA UploadsHeld ==
    ASSUME NEW r, NEW i
    PROVE  i \in UploadsOf(r) <=> \E m \in DOMAIN r : Holds(r[m], i)
<1>1. \A m : i \in ItemsOf(r[m]) <=> Holds(r[m], i)
    BY DEF ItemsOf, Holds
<1>2. i \in UploadsOf(r) <=> \E m \in DOMAIN r : i \in ItemsOf(r[m])
    BY DEF UploadsOf
<1> QED BY <1>1, <1>2

\* What the value names are uploads of the fields it was made from.
LEMMA PlacedAreUploads ==
    ASSUME NEW fields, NEW r, NEW n, Located(fields, r, n), NEW i \in UploadsOf(r)
    PROVE  i \in 1..n /\ IsUpload(fields[i])
<1>1. PICK m \in DOMAIN r : Holds(r[m], i)
    BY UploadsHeld
<1>2. Placed(fields, n, m, r[m])
    BY DEF Located
<1> QED BY <1>1, <1>2 DEF Holds, Placed

\* A field fails exactly if it does not fit what precedes it.
LEMMA FailsIsMisfit ==
    ASSUME NEW fields \in Seq(Field), NEW n \in 0..(Len(fields) - 1), NEW r,
           Kinds(fields, r, n)
    PROVE  Fails(r, fields[n + 1]) <=> Misfit(fields, n + 1)
<1> DEFINE f == fields[n + 1]
           plain == PlainOnes(fields, f.base, n)
<1>1. f \in Field /\ f.base \in Bases
    <2>1. Len(fields) \in Nat /\ n + 1 \in 1..Len(fields)
        OBVIOUS
    <2>2. f \in Field
        BY <2>1
    <2> QED BY <2>2 DEF Field
<1>2. n + 1 - 1 = n
    OBVIOUS
<1>3. Misfit(fields, n + 1) <=>
        \/ f.content = Garbled
        \/ IsUpload(f) /\ f.form = "odd"
        \/ IsUpload(f) /\ f.form = "list" /\ plain # {}
        \/ /\ IsUpload(f) /\ f.form = "dict"
           /\ \A j \in plain : (\A k \in plain : k <= j) => ~IsUpload(fields[j])
    BY <1>2 DEF Misfit, PlainOnes
<1>4. CASE plain = {}
    BY <1>1, <1>3, <1>4 DEF Kinds, Fails, Has
<1>5. CASE plain # {}
    <2>1. PICK j \in plain : /\ \A k \in plain : k <= j
                             /\ r[Plain(f.base)].kind = "file" <=> IsUpload(fields[j])
        BY <1>1, <1>5 DEF Kinds
    <2>2. Plain(f.base) \in DOMAIN r /\ r[Plain(f.base)].kind # "list"
        BY <1>1, <1>5 DEF Kinds
    <2>3. \A i \in plain : (\A k \in plain : k <= i) => i = j
        <3>1. plain \subseteq Int
            BY DEF PlainOnes
        <3> HIDE DEF plain
        <3> QED BY <2>1, <3>1
    <2>4. (\A i \in plain : (\A k \in plain : k <= i) => ~IsUpload(fields[i]))
            <=> ~IsUpload(fields[j])
        BY <2>1, <2>3
    <2>5. Fails(r, f) <=>
            \/ f.content = Garbled
            \/ IsUpload(f) /\ f.form = "odd"
            \/ IsUpload(f) /\ f.form = "list"
            \/ IsUpload(f) /\ f.form = "dict" /\ ~IsUpload(fields[j])
        BY <2>1, <2>2 DEF Fails, Has
    <2> QED BY <1>3, <1>5, <2>4, <2>5
<1> QED BY <1>4, <1>5

\* What the value that a field is put into holds afterwards.
LEMMA NewHolds ==
    ASSUME NEW r \in Results, NEW f \in Field, NEW j \in Nat, ~Fails(r, f)
    PROVE  LET v == NewValue(r, j, f)
               t == Target(f)
           IN  /\ ~IsUpload(f) => v = TextValue
               /\ IsUpload(f) =>
                    /\ t = Plain(f.base)
                    /\ f.form \in {"plain", "list", "dict"}
                    /\ f.form = "plain" => v = FileValue(j)
                    /\ f.form = "list" =>
                        /\ v.kind = "list" /\ v.sub = {}
                        /\ v.items = Append(ItemsBefore(r, t), j)
                        /\ ItemsBefore(r, t) \in Seq(Nat)
                        /\ t \in DOMAIN r => r[t].kind = "list"
                    /\ f.form = "dict" =>
                        /\ t \in DOMAIN r /\ r[t].kind = "file" /\ v.kind = "file"
                        /\ v.items = IF f.key = PathKey THEN <<>> ELSE r[t].items
                        /\ v.sub = {x \in r[t].sub : x[1] # f.key} \union {<<f.key, j>>}
<1>1. f.form \in {"plain", "list", "dict", "odd"}
    BY DEF Field
<1>2. \A n \in DOMAIN r : r[n] \in Value
    BY ResultFields
<1>3. ItemsBefore(r, Plain(f.base)) \in Seq(Nat)
    BY <1>2 DEF ItemsBefore, Value
<1>4. CASE ~IsUpload(f)
    BY <1>4 DEF NewValue
<1>5. CASE IsUpload(f) /\ f.form = "plain"
    BY <1>5 DEF NewValue, Target
<1>6. CASE IsUpload(f) /\ f.form = "list"
    BY <1>3, <1>6 DEF NewValue, Target, ListValue, Fails, Has
<1>7. CASE IsUpload(f) /\ f.form = "dict"
    <2> DEFINE here == Plain(f.base)
               sub == {x \in r[here].sub : x[1] # f.key} \union {<<f.key, j>>}
               items == IF f.key = PathKey THEN <<>> ELSE r[here].items
    <2>1. here \in DOMAIN r /\ r[here].kind = "file" /\ r[here] \in Value
        BY <1>2, <1>7 DEF Fails, Has
    <2>2. /\ NewValue(r, j, f) = [r[here] EXCEPT !.sub = sub, !.items = items]
          /\ Target(f) = here
        BY <1>7 DEF NewValue, Target
    <2>3. LET v == [r[here] EXCEPT !.sub = sub, !.items = items]
          IN  v.sub = sub /\ v.kind = "file" /\ v.items = items
        <3> HIDE DEF sub, items
        <3> QED BY <2>1 DEF Value
    <2> QED BY <1>7, <2>1, <2>2, <2>3
<1> QED BY <1>1, <1>4, <1>5, <1>6, <1>7 DEF Fails

\* The next field that fits is put in its place.
LEMMA PutLocated ==
    ASSUME NEW fields \in Seq(Field), NEW n \in 0..(Len(fields) - 1), NEW r \in Results,
           Located(fields, r, n), ~Fails(r, fields[n + 1])
    PROVE  Located(fields, Put(r, n + 1, fields[n + 1]), n + 1)
<1> DEFINE j == n + 1
           f == fields[j]
           t == Target(f)
           v == NewValue(r, j, f)
           p == Put(r, j, f)
<1>1. f \in Field /\ j \in Nat /\ n \in Nat
    <2>1. Len(fields) \in Nat /\ j \in 1..Len(fields)
        OBVIOUS
    <2> QED BY <2>1
<1>2. p = [m \in DOMAIN r \union {t} |-> IF m = t THEN v ELSE r[m]]
    BY <1>1, PutChanges
<1>3. \A m \in DOMAIN r : Placed(fields, j, m, r[m])
    BY <1>1 DEF Located, Placed
<1>4. Placed(fields, j, t, v)
    <2> HIDE DEF f, t, v
    <2>1. CASE ~IsUpload(f)
        <3>1. v = TextValue
            BY <1>1, <2>1, NewHolds DEF f, t, v
        <3> QED BY <3>1 DEF TextValue, Placed
    <2>2. CASE IsUpload(f) /\ f.form = "plain"
        <3>1. v = FileValue(j) /\ t = Plain(f.base)
            BY <1>1, <2>2, NewHolds DEF f, t, v
        <3>2. v.items = <<j>> /\ v.sub = {} /\ v.kind = "file"
            BY <3>1 DEF FileValue
        <3> QED BY <1>1, <2>2, <3>1, <3>2 DEF Placed, f
    <2>3. CASE IsUpload(f) /\ f.form = "list"
        <3> DEFINE old == ItemsBefore(r, t)
        <3>1. /\ v.kind = "list" /\ v.sub = {} /\ v.items = Append(old, j) /\ old \in Seq(Nat)
              /\ t \in DOMAIN r => r[t].kind = "list"
              /\ t = Plain(f.base)
            BY <1>1, <2>3, NewHolds DEF f, t, v
        <3>2. \A k \in DOMAIN old :
                /\ old[k] \in 1..n /\ IsUpload(fields[old[k]])
                /\ t = Plain(fields[old[k]].base) /\ fields[old[k]].form = "list"
            BY <3>1, SMTT(20) DEF ItemsBefore, Located, Placed
        <3>3. \A k, l \in DOMAIN old : k < l => old[k] < old[l]
            BY DEF ItemsBefore, Located, Placed
        <3> HIDE DEF old
        <3>4. /\ DOMAIN v.items = 1..(Len(old) + 1) /\ DOMAIN old = 1..Len(old) /\ Len(old) \in Nat
              /\ \A k \in 1..Len(old) : v.items[k] = old[k]
              /\ v.items[Len(old) + 1] = j
            BY <1>1, <3>1
        <3>5. \A k \in DOMAIN v.items :
                /\ v.items[k] \in 1..j /\ IsUpload(fields[v.items[k]])
                /\ t = Plain(fields[v.items[k]].base) /\ fields[v.items[k]].form = "list"
            BY <1>1, <2>3, <3>1, <3>2, <3>4 DEF f
        <3>6. ASSUME NEW k \in DOMAIN v.items, NEW l \in DOMAIN v.items, k < l
              PROVE  v.items[k] < v.items[l]
            <4>1. k \in 1..Len(old) /\ k \in DOMAIN old /\ v.items[k] = old[k]
                BY <3>4, <3>6
            <4>2. old[k] \in 1..n
                BY <3>2, <4>1
            <4>3. CASE l = Len(old) + 1
                BY <1>1, <3>4, <4>1, <4>2, <4>3
            <4>4. CASE l # Len(old) + 1
                <5>1. l \in DOMAIN old /\ v.items[l] = old[l]
                    BY <3>4, <4>4
                <5> QED BY <3>3, <3>6, <4>1, <5>1
            <4> QED BY <4>3, <4>4
        <3> QED BY <3>1, <3>5, <3>6 DEF Placed
    <2>4. CASE IsUpload(f) /\ f.form = "dict"
        <3>1. /\ t \in DOMAIN r /\ r[t].kind = "file" /\ v.kind = "file"
              /\ v.items = IF f.key = PathKey THEN <<>> ELSE r[t].items
              /\ v.sub = {x \in r[t].sub : x[1] # f.key} \union {<<f.key, j>>}
              /\ t = Plain(f.base)
            BY <1>1, <2>4, NewHolds DEF f, t, v
        <3>2. Placed(fields, j, t, r[t])
            BY <1>3, <3>1
        <3>3. \A x \in v.sub : x \in r[t].sub \/ (x[1] = f.key /\ x[2] = j)
            BY <3>1
        <3>4. ASSUME NEW k \in DOMAIN v.items
              PROVE  LET i == v.items[k]
                     IN  /\ i \in 1..j /\ IsUpload(fields[i]) /\ t = Plain(fields[i].base)
                         /\ fields[i].form \in {"plain", "list"}
            BY <3>1, <3>2 DEF Placed
        <3>7. \A k \in DOMAIN v.items : fields[v.items[k]].form = "plain"
            BY <3>1, <3>2 DEF Placed
        <3>5. \A k, l \in DOMAIN v.items : k < l => v.items[k] < v.items[l]
            BY <3>1, <3>2 DEF Placed
        <3>6. ASSUME NEW x \in v.sub
              PROVE  /\ x[2] \in 1..j /\ IsUpload(fields[x[2]]) /\ t = Plain(fields[x[2]].base)
                     /\ fields[x[2]].form = "dict" /\ fields[x[2]].key = x[1]
            <4>1. CASE x \in r[t].sub
                BY <3>2, <4>1 DEF Placed
            <4>2. CASE x[1] = f.key /\ x[2] = j
                BY <1>1, <2>4, <3>1, <4>2 DEF f
            <4> QED BY <3>3, <4>1, <4>2
        <3> QED BY <3>1, <3>4, <3>5, <3>6, <3>7 DEF Placed
    <2>5. f.form \in {"plain", "list", "dict"} \/ ~IsUpload(f)
        BY <1>1, NewHolds DEF f
    <2> QED BY <2>1, <2>2, <2>3, <2>4, <2>5
<1> HIDE DEF f, t, v, p
<1>5. Located(fields, p, j)
    BY <1>2, <1>3, <1>4 DEF Located
<1> QED BY <1>5 DEF p, f

\* No upload is lost by it but the ones whose place it takes.
LEMMA PutKept ==
    ASSUME NEW fields \in Seq(Field), NEW n \in 0..(Len(fields) - 1), NEW r \in Results,
           Located(fields, r, n), Kept(fields, r, n), ~Fails(r, fields[n + 1])
    PROVE  Kept(fields, Put(r, n + 1, fields[n + 1]), n + 1)
<1> DEFINE j == n + 1
           f == fields[j]
           t == Target(f)
           v == NewValue(r, j, f)
           p == Put(r, j, f)
<1>1. f \in Field /\ j \in Nat /\ n \in Nat
    <2>1. Len(fields) \in Nat /\ j \in 1..Len(fields)
        OBVIOUS
    <2> QED BY <2>1
<1>2. p = [m \in DOMAIN r \union {t} |-> IF m = t THEN v ELSE r[m]]
    BY <1>1, PutChanges
<1>3. \A i : i \in UploadsOf(p) <=>
                Holds(v, i) \/ \E m \in DOMAIN r : m # t /\ Holds(r[m], i)
    BY <1>2, UploadsHeld
<1>4. \A i : i \in UploadsOf(r) <=> \E m \in DOMAIN r : Holds(r[m], i)
    BY UploadsHeld
<1>5. \A m \in DOMAIN r : \A i : Holds(r[m], i) =>
            i \in 1..n /\ IsUpload(fields[i]) /\ m = Plain(fields[i].base)
    BY DEF Located, Placed, Holds
<1>6. ASSUME IsUpload(f) PROVE Holds(v, j)
    <2>1. CASE f.form = "plain"
        <3>1. v.items = <<j>>
            BY <1>1, <1>6, <2>1, NewHolds DEF FileValue
        <3> HIDE DEF v
        <3> QED BY <3>1 DEF Holds
    <2>2. CASE f.form = "list"
        <3> DEFINE old == ItemsBefore(r, t)
        <3>1. v.items = Append(old, j) /\ old \in Seq(Nat)
            BY <1>1, <1>6, <2>2, NewHolds
        <3> HIDE DEF v, old
        <3>2. Len(old) + 1 \in DOMAIN v.items /\ v.items[Len(old) + 1] = j
            BY <1>1, <3>1
        <3> QED BY <3>2 DEF Holds
    <2>3. CASE f.form = "dict"
        <3>1. <<f.key, j>> \in v.sub
            BY <1>1, <1>6, <2>3, NewHolds
        <3>2. <<f.key, j>>[2] = j
            OBVIOUS
        <3> HIDE DEF v
        <3> QED BY <3>1, <3>2 DEF Holds
    <2> QED BY <1>1, <1>6, <2>1, <2>2, <2>3, NewHolds
<1>7. ASSUME NEW i \in 1..n, IsUpload(fields[i])
      PROVE  i \in UploadsOf(p) <=> i \in UploadsOf(r) /\ ~Replaces(fields, j, i)
    <2> DEFINE here == Plain(fields[i].base)
    <2>1. i # j /\ j > i
        BY <1>1
    <2>2. i \in UploadsOf(r) <=> here \in DOMAIN r /\ Holds(r[here], i)
        BY <1>4, <1>5
    <2>3. i \in UploadsOf(p) <=> Holds(v, i) \/ (here \in DOMAIN r /\ here # t /\ Holds(r[here], i))
        BY <1>3, <1>5
    <2>4. t # here \/ fields[j].base = fields[i].base
        BY <1>1, TargetIsName
    <2>5. CASE ~IsUpload(f)
        <3>1. ~Holds(v, i)
            BY <1>1, <2>5, NewHolds DEF Holds, TextValue
        <3>2. t = here <=> f.form = "plain" /\ f.base = fields[i].base
            BY <1>1, <2>4, <2>5, TargetIsName
        <3>3. Replaces(fields, j, i) <=> f.form = "plain" /\ f.base = fields[i].base
            BY <2>1, <2>5 DEF Replaces
        <3> QED BY <2>2, <2>3, <3>1, <3>2, <3>3
    <2>6. CASE IsUpload(f) /\ f.form = "plain"
        <3>1. ~Holds(v, i) /\ t = Plain(f.base)
            BY <1>1, <2>1, <2>6, NewHolds DEF Holds, FileValue
        <3>2. Replaces(fields, j, i) <=> f.base = fields[i].base
            BY <2>1, <2>6 DEF Replaces
        <3> QED BY <2>2, <2>3, <2>4, <3>1, <3>2
    <2>7. CASE IsUpload(f) /\ f.form = "list"
        <3> DEFINE old == ItemsBefore(r, t)
        <3>1. /\ v.sub = {} /\ v.items = Append(old, j) /\ old \in Seq(Nat)
              /\ t \in DOMAIN r => r[t].kind = "list"
              /\ t = Plain(f.base)
            BY <1>1, <2>7, NewHolds
        <3>2. ~Replaces(fields, j, i)
            BY <2>7 DEF Replaces
        <3>3. Holds(v, i) <=> \E k \in DOMAIN old : old[k] = i
            <4> HIDE DEF old, v
            <4>1. /\ DOMAIN v.items = 1..(Len(old) + 1) /\ DOMAIN old = 1..Len(old)
                  /\ Len(old) \in Nat
                  /\ \A k \in 1..Len(old) : v.items[k] = old[k]
                  /\ v.items[Len(old) + 1] = j
                BY <1>1, <3>1
            <4> QED BY <2>1, <3>1, <4>1 DEF Holds
        <3>4. t \in DOMAIN r => (Holds(r[t], i) <=> \E k \in DOMAIN old : old[k] = i)
            BY <3>1 DEF Holds, ItemsBefore, Located, Placed
        <3>5. t \notin DOMAIN r => ~\E k \in DOMAIN old : old[k] = i
            BY DEF ItemsBefore
        <3>6. CASE t = here
            BY <2>2, <2>3, <3>2, <3>3, <3>4, <3>5, <3>6
        <3>7. CASE t # here
            BY <1>5, <2>2, <2>3, <3>2, <3>3, <3>4, <3>5, <3>7
        <3> QED BY <3>6, <3>7
    <2>8. CASE IsUpload(f) /\ f.form = "dict"
        <3>1. /\ t \in DOMAIN r /\ r[t].kind = "file"
              /\ v.items = IF f.key = PathKey THEN <<>> ELSE r[t].items
              /\ v.sub = {x \in r[t].sub : x[1] # f.key} \union {<<f.key, j>>}
              /\ t = Plain(f.base)
            BY <1>1, <2>8, NewHolds
        <3>2. Placed(fields, n, t, r[t])
            BY <3>1 DEF Located
        <3>3. Replaces(fields, j, i) <=>
                /\ f.base = fields[i].base
                /\ \/ fields[i].form = "dict" /\ f.key = fields[i].key
                   \/ fields[i].form = "plain" /\ f.key = PathKey
            BY <2>1, <2>8 DEF Replaces
        <3>4. Holds(v, i) <=>
                \/ f.key # PathKey /\ \E k \in DOMAIN r[t].items : r[t].items[k] = i
                \/ \E x \in r[t].sub : x[1] # f.key /\ x[2] = i
            <4> HIDE DEF v, t, f
            <4>1. CASE f.key = PathKey
                <5>1. DOMAIN v.items = {}
                    BY <3>1, <4>1
                <5> QED BY <2>1, <3>1, <4>1, <5>1 DEF Holds
            <4>2. CASE f.key # PathKey
                BY <2>1, <3>1, <4>2 DEF Holds
            <4> QED BY <4>1, <4>2
        <3>5. Holds(v, i) <=> Holds(r[t], i) /\ ~Replaces(fields, j, i)
            <4>1. \A k \in DOMAIN r[t].items : r[t].items[k] = i =>
                    fields[i].form = "plain" /\ t = Plain(fields[i].base)
                BY <3>1, <3>2 DEF Placed
            <4>2. \A x \in r[t].sub : x[2] = i =>
                    fields[i].form = "dict" /\ fields[i].key = x[1] /\ t = Plain(fields[i].base)
                BY <3>2 DEF Placed
            <4>3. t = Plain(fields[i].base) => f.base = fields[i].base
                BY <3>1 DEF Plain
            <4> HIDE DEF v, t, f, here
            <4> QED BY <3>3, <3>4, <4>1, <4>2, <4>3 DEF Holds
        <3>6. Holds(r[t], i) => t = here
            BY <1>5, <3>1
        <3> QED BY <2>2, <2>3, <2>4, <3>1, <3>3, <3>5, <3>6
    <2>9. f.form \in {"plain", "list", "dict"} \/ ~IsUpload(f)
        BY <1>1, NewHolds
    <2> QED BY <2>5, <2>6, <2>7, <2>8, <2>9
<1>8. ASSUME NEW i \in 1..j, IsUpload(fields[i])
      PROVE  i \in UploadsOf(p) <=> ~\E k \in 1..j : Replaces(fields, k, i)
    <2> HIDE DEF p, v, t
    <2>1. CASE i = j
        <3>1. \A k \in 1..j : ~Replaces(fields, k, i)
            BY <1>1, <2>1 DEF Replaces
        <3> QED BY <1>3, <1>6, <1>8, <2>1, <3>1
    <2>2. CASE i # j
        <3>1. i \in 1..n
            BY <1>1, <2>2
        <3>2. i \in UploadsOf(r) <=> ~\E k \in 1..n : Replaces(fields, k, i)
            BY <1>8, <3>1 DEF Kept
        <3>3. \A k \in 1..j : k = j \/ k \in 1..n
            BY <1>1
        <3>4. \A k \in 1..n : k \in 1..j
            BY <1>1
        <3>5. j \in 1..j
            BY <1>1
        <3> QED BY <1>7, <1>8, <3>1, <3>2, <3>3, <3>4, <3>5
    <2> QED BY <2>1, <2>2
<1> QED BY <1>8 DEF Kept

\* What stands under a plain name stays known.
LEMMA PutKinds ==
    ASSUME NEW fields \in Seq(Field), NEW n \in 0..(Len(fields) - 1), NEW r \in Results,
           Kinds(fields, r, n), ~Fails(r, fields[n + 1])
    PROVE  Kinds(fields, Put(r, n + 1, fields[n + 1]), n + 1)
<1> DEFINE j == n + 1
           f == fields[j]
           t == Target(f)
           v == NewValue(r, j, f)
           p == Put(r, j, f)
<1>1. f \in Field /\ j \in Nat /\ n \in Nat
    <2>1. Len(fields) \in Nat /\ j \in 1..Len(fields)
        OBVIOUS
    <2> QED BY <2>1
<1>2. p = [m \in DOMAIN r \union {t} |-> IF m = t THEN v ELSE r[m]]
    BY <1>1, PutChanges
<1>3. \A b : PlainOnes(fields, b, j) =
                IF f.form = "plain" /\ f.base = b THEN PlainOnes(fields, b, n) \union {j}
                                                  ELSE PlainOnes(fields, b, n)
    <2> TAKE b
    <2>1. \A i : i \in 1..j <=> i \in 1..n \/ i = j
        BY <1>1
    <2> QED BY <2>1 DEF PlainOnes
<1> SUFFICES ASSUME NEW b \in Bases
             PROVE  /\ PlainOnes(fields, b, j) = {} =>
                        (Plain(b) \in DOMAIN p => p[Plain(b)].kind = "list")
                    /\ PlainOnes(fields, b, j) # {} =>
                        /\ Plain(b) \in DOMAIN p /\ p[Plain(b)].kind # "list"
                        /\ \E i \in PlainOnes(fields, b, j) :
                            /\ \A k \in PlainOnes(fields, b, j) : k <= i
                            /\ p[Plain(b)].kind = "file" <=> IsUpload(fields[i])
    BY DEF Kinds
<1>4. CASE t # Plain(b)
    <2>1. PlainOnes(fields, b, j) = PlainOnes(fields, b, n)
        BY <1>1, <1>3, <1>4, TargetIsName
    <2>2. /\ Plain(b) \in DOMAIN p <=> Plain(b) \in DOMAIN r
          /\ Plain(b) \in DOMAIN p => p[Plain(b)] = r[Plain(b)]
        BY <1>2, <1>4
    <2> HIDE DEF p
    <2> QED BY <2>1, <2>2 DEF Kinds
<1>5. CASE t = Plain(b)
    <2>1. f.base = b /\ (IsUpload(f) \/ f.form = "plain")
        BY <1>1, <1>5, TargetIsName
    <2>2. Plain(b) \in DOMAIN p /\ p[Plain(b)] = v
        BY <1>2, <1>5
    <2>3. CASE f.form = "plain"
        <3>1. PlainOnes(fields, b, j) = PlainOnes(fields, b, n) \union {j}
            BY <1>3, <2>1, <2>3
        <3>2. \A k \in PlainOnes(fields, b, j) : k <= j
            BY <1>1 DEF PlainOnes
        <3>3. v.kind # "list" /\ (v.kind = "file" <=> IsUpload(f))
            BY <1>1, <2>3, NewHolds DEF TextValue, FileValue
        <3> HIDE DEF p, v
        <3> QED BY <2>2, <3>1, <3>2, <3>3
    <2>4. CASE f.form # "plain"
        <3>1. IsUpload(f) /\ PlainOnes(fields, b, j) = PlainOnes(fields, b, n)
            BY <1>3, <2>1, <2>4
        <3>2. CASE f.form = "list"
            <4>1. v.kind = "list" /\ (t \in DOMAIN r => r[t].kind = "list")
                BY <1>1, <3>1, <3>2, NewHolds
            <4>2. PlainOnes(fields, b, n) = {}
                BY <1>5, <4>1 DEF Kinds
            <4> HIDE DEF p, v
            <4> QED BY <2>2, <3>1, <4>1, <4>2
        <3>3. CASE f.form = "dict"
            <4>1. t \in DOMAIN r /\ r[t].kind = "file" /\ v.kind = "file"
                BY <1>1, <3>1, <3>3, NewHolds
            <4> HIDE DEF p, v, t
            <4> QED BY <1>5, <2>2, <3>1, <4>1 DEF Kinds
        <3> QED BY <1>1, <2>4, <3>1, <3>2, <3>3, NewHolds
    <2> QED BY <2>3, <2>4
<1> QED BY <1>4, <1>5

\* A field that fits makes the next value from the last.
LEMMA PutAssembles ==
    ASSUME NEW fields \in Seq(Field), NEW n \in 0..(Len(fields) - 1), NEW r \in Results,
           Assembled(fields, r, n), ~Fails(r, fields[n + 1])
    PROVE  /\ Put(r, n + 1, fields[n + 1]) \in Results
           /\ Assembled(fields, Put(r, n + 1, fields[n + 1]), n + 1)
<1>1. Len(fields) \in Nat /\ n + 1 \in 1..Len(fields) /\ n + 1 \in Nat
    OBVIOUS
<1>2. fields[n + 1] \in Field
    BY <1>1
<1>3. Put(r, n + 1, fields[n + 1]) \in Results
    BY <1>1, <1>2, PutChanges
<1>4. ~Misfit(fields, n + 1)
    BY FailsIsMisfit DEF Assembled
<1>5. \A i \in 1..(n + 1) : i = n + 1 \/ i \in 1..n
    OBVIOUS
<1> QED BY <1>3, <1>4, <1>5, PutLocated, PutKept, PutKinds DEF Assembled

-------------------------------------------------------------------------------
\* A request from step to step.

Reading == {"form", "upload", "call", "handler"}
ReadsJsonOf(r) ==
    (\E h \in r.handler : h.format = "Json") /\ r.msg.method \notin {"GET", "DELETE"}
\* Fields that the value was made from; the one in hand not yet.
DoneOf(r) == IF ReadsJsonOf(r) THEN 0 ELSE IF r.pc = "upload" THEN r.at - 1 ELSE r.at

FormOf(r) == \E h \in r.handler : h.format = "Form"
Created(r) == \A i \in 1..r.at : r.msg.fields[i].content \notin Unwritable

JsonSound(r) ==
    /\ r.pc = "json" =>
        /\ ReadsJsonOf(r) /\ ~FormOf(r) /\ r.result = NoValues
        /\ r.at <= Len(r.msg.chunks) /\ r.held = Sums(r.msg.chunks)[r.at]
    /\ r.pc \in {"call", "handler"} /\ ReadsJsonOf(r) => Total(r.msg.chunks) <= Limit
    /\ r.answer = "overflow" => Total(r.msg.chunks) > Limit

FormSound(r) ==
    /\ r.pc \in {"form", "upload"} =>
        ~ReadsJsonOf(r) /\ FormOf(r) /\ r.at <= Len(r.msg.fields)
    /\ r.pc = "upload" =>
        r.at >= 1 /\ IsUpload(r.msg.fields[r.at]) /\ r.wrote <= r.msg.fields[r.at].chunks
    /\ r.pc \in {"call", "handler"} /\ ~ReadsJsonOf(r) => r.at = 0 \/ r.at = Len(r.msg.fields)
    /\ r.pc \in Reading => Assembled(r.msg.fields, r.result, DoneOf(r))
    /\ r.pc \in Reading /\ FormOf(r) => Created(r) /\ ~ReadsJsonOf(r)
    /\ r.pc \in {"call", "handler"} /\ FormOf(r) =>
        r.at = Len(r.msg.fields) /\ r.msg.body = "fields"
    /\ r.pc = "panicked" /\ ~r.broke =>
        /\ FormOf(r)
        /\ \/ r.refused
           \/ r.msg.body # "fields"
           \/ \E i \in DOMAIN r.msg.fields : Unfit(r.msg.fields, i)

Sound(r) ==
    /\ r.pc = "idle" => r = Fresh
    /\ r.pc # "idle" => r.msg \in Message
    /\ r.pc # "answered" => r.answer = None
    /\ r.pc = "resolve" => r.handler = {} /\ r.at = 0 /\ r.held = 0 /\ r.result = NoValues
    /\ r.pc \in Reading \union {"json"} => r.handler # {}
    /\ r.answer = "not found" /\ r.handler = {} /\ r.msg.route # None =>
        r.msg.route \in Match /\ Resolve(r.msg.route) = {}
    /\ JsonSound(r)
    /\ FormSound(r)

TypeInv ==
    /\ req \in [Connections -> Request]
    /\ temp \in [FileNames -> Seq(Pieces)]
    /\ met \in [Connections -> SUBSET FileNames]

Stages == \A c \in Connections : Sound(req[c])

\* The step of a request that leaves it as it must be.
Moves(c) == \E r \in Request : Sound(r) /\ Goes(c, r)

LEMMA RequestType ==
    Request = [pc : Steps, msg : Message \union {None},
               handler : SUBSET (Handler \union Builtin), held : 0..Limit, at : Nat,
               wrote : Nat, result : Results, broke : BOOLEAN, refused : BOOLEAN,
               answer : Answers \union {None}]
BY DEF Request, Results, Names

LEMMA FreshSound == Fresh \in Request /\ Sound(Fresh)
<1>1. NoValues \in Results
    BY NothingAssembled
<1>2. Fresh \in Request
    BY <1>1, RequestType, LimitAssumption DEF Fresh, Steps
<1>3. Fresh.pc = "idle" /\ Fresh.answer = None
    BY DEF Fresh
<1>4. Sound(Fresh)
    BY <1>3, NoneAssumption DEF Sound, JsonSound, FormSound, Reading, Answers
<1> QED BY <1>2, <1>4

LEMMA ArriveSound ==
    ASSUME TypeInv, NEW c \in Connections, Arrive(c)
    PROVE  Moves(c)
<1>1. PICK msg \in Sends[c] : Goes(c, [Fresh EXCEPT !.pc = "resolve", !.msg = msg])
    BY DEF Arrive
<1> DEFINE r == [Fresh EXCEPT !.pc = "resolve", !.msg = msg]
<1>2. msg \in Message
    BY SendsAssumption
<1>3. r \in Request /\ r.pc = "resolve" /\ r.msg = msg /\ r.answer = None /\ r.handler = {}
        /\ r.at = 0 /\ r.held = 0 /\ r.result = NoValues
    BY <1>2, FreshSound, RequestType DEF Fresh, Steps
<1>4. Sound(r)
    <2> HIDE DEF r
    <2> QED BY <1>2, <1>3, NoneAssumption DEF Sound, JsonSound, FormSound, Reading, Answers
<1> QED BY <1>1, <1>3, <1>4 DEF Moves

\* The handler that a request is resolved to is one of the schema's.
LEMMA ResolveType ==
    ASSUME NEW m \in Match
    PROVE  Resolve(m) \subseteq Handler \union Builtin
<1>1. \A of : In(of, m) \subseteq Handler
    BY SchemaAssumption DEF In
<1>2. ActionOf(m) \subseteq Builtin
    BY SchemaAssumption DEF ActionOf, Builtin, Match
<1> QED BY <1>1, <1>2 DEF Resolve

\* What a request is answered with follows from what is known of it.
LEMMA AnswerSound ==
    ASSUME NEW c \in Connections, req[c] \in Request, NEW a \in Answers, Msg(c) \in Message,
           a = "overflow" => Total(Msg(c).chunks) > Limit,
           a = "not found" /\ req[c].handler = {} /\ Msg(c).route # None =>
                Msg(c).route \in Match /\ Resolve(Msg(c).route) = {},
           Answered(c, a)
    PROVE  Moves(c)
<1> DEFINE r == [req[c] EXCEPT !.pc = "answered", !.answer = a]
<1>1. /\ r \in Request /\ r.pc = "answered" /\ r.answer = a
      /\ r.msg = Msg(c) /\ r.handler = req[c].handler
    BY RequestType DEF Steps, Msg
<1>2. Sound(r)
    <2> HIDE DEF r
    <2> QED BY <1>1 DEF Sound, JsonSound, FormSound, Reading
<1> QED BY <1>1, <1>2 DEF Moves, Answered

LEMMA BeforeBodySound ==
    ASSUME TypeInv, Stages, NEW c \in Connections, Refuse(c) \/ Options(c) \/ TakeBody(c)
    PROVE  Moves(c)
<1>1. req[c] \in Request /\ Sound(req[c]) /\ req[c].pc = "resolve"
    BY DEF TypeInv, Stages, Refuse, Options, TakeBody, At
<1>2. Msg(c) \in Message
    BY <1>1 DEF Sound, Msg
<1>3. Msg(c).route # None => Msg(c).route \in Match
    BY <1>2 DEF Message
<1>4. CASE Refuse(c)
    <2>1. CASE Answered(c, "unknown method")
        BY <1>1, <1>2, <2>1, AnswerSound DEF Answers
    <2>2. CASE Resolved(c) = {} /\ Answered(c, "not found")
        BY <1>1, <1>2, <1>3, <2>2, AnswerSound DEF Answers, Resolved
    <2> QED BY <1>4, <2>1, <2>2 DEF Refuse
<1>5. CASE Options(c)
    BY <1>1, <1>2, <1>5, AnswerSound DEF Answers, Options
<1>6. CASE TakeBody(c)
    <2> DEFINE To(h, pc) == [req[c] EXCEPT !.pc = pc, !.handler = {h}]
    <2>1. PICK h \in Resolved(c) :
            IF h.format = "Json"
            THEN Goes(c, To(h, IF Msg(c).method \in {"GET", "DELETE"} THEN "call" ELSE "json"))
            ELSE Goes(c, To(h, "form")) \/ (Msg(c).body # "fields" /\ Answered(c, "invalid"))
        BY <1>6 DEF TakeBody
    <2>2. h \in Handler \union Builtin /\ h.format \in {"Json", "Form"}
        <3>1. h \in Handler \union Builtin
            BY <1>3, <2>1, ResolveType DEF Resolved
        <3> QED BY <3>1 DEF Handler, Builtin, Formats
    <2>3. ASSUME NEW pc \in {"call", "json", "form"}
          PROVE  LET r == To(h, pc)
                 IN  /\ r \in Request /\ r.pc = pc /\ r.msg = Msg(c) /\ r.handler = {h}
                     /\ r.at = 0 /\ r.held = 0 /\ r.result = NoValues /\ r.answer = None
        BY <1>1, <2>2, RequestType DEF Sound, Steps, Msg
    <2>4. NoValues \in Results /\ Assembled(Msg(c).fields, NoValues, 0)
        BY NothingAssembled
    <2>5. Msg(c).chunks \in Seq(Nat) /\ Len(Msg(c).chunks) \in Nat
            /\ Msg(c).fields \in Seq(Field) /\ Len(Msg(c).fields) \in Nat
        BY <1>2 DEF Message
    <2>6. Sums(Msg(c).chunks)[0] = 0
        BY <2>5, SumsGrow
    <2> HIDE DEF To
    <2>7. CASE h.format = "Json" /\ Msg(c).method \in {"GET", "DELETE"}
        <3> DEFINE r == To(h, "call")
        <3>1. r \in Request /\ r.pc = "call" /\ r.msg = Msg(c) /\ r.handler = {h}
                /\ r.at = 0 /\ r.result = NoValues /\ r.answer = None
            BY <2>3
        <3> HIDE DEF r
        <3>2. ~ReadsJsonOf(r) /\ ~FormOf(r) /\ DoneOf(r) = 0
            BY <2>7, <3>1 DEF ReadsJsonOf, FormOf, DoneOf
        <3>3. Sound(r)
            BY <1>2, <2>4, <3>1, <3>2, NoneAssumption
               DEF Sound, JsonSound, FormSound, Reading, Answers
        <3> QED BY <2>1, <2>7, <3>1, <3>3 DEF r, Moves
    <2>8. CASE h.format = "Json" /\ Msg(c).method \notin {"GET", "DELETE"}
        <3> DEFINE r == To(h, "json")
        <3>1. r \in Request /\ r.pc = "json" /\ r.msg = Msg(c) /\ r.handler = {h}
                /\ r.at = 0 /\ r.held = 0 /\ r.result = NoValues /\ r.answer = None
            BY <2>3
        <3> HIDE DEF r
        <3>2. ReadsJsonOf(r) /\ ~FormOf(r)
            BY <2>8, <3>1 DEF ReadsJsonOf, FormOf
        <3>3. JsonSound(r)
            <4>1. r.at <= Len(r.msg.chunks)
                BY <2>5, <3>1
            <4>2. r.held = Sums(r.msg.chunks)[r.at]
                BY <2>6, <3>1
            <4>3. r.answer # "overflow"
                BY <3>1, NoneAssumption DEF Answers
            <4> QED BY <3>1, <3>2, <4>1, <4>2, <4>3 DEF JsonSound
        <3>4. FormSound(r)
            BY <3>1 DEF FormSound, Reading
        <3>5. Sound(r)
            BY <1>2, <3>1, <3>3, <3>4, NoneAssumption DEF Sound, Reading, Answers
        <3> QED BY <2>1, <2>8, <3>1, <3>5 DEF r, Moves
    <2>9. CASE h.format # "Json" /\ Goes(c, To(h, "form"))
        <3> DEFINE r == To(h, "form")
        <3>1. r \in Request /\ r.pc = "form" /\ r.msg = Msg(c) /\ r.handler = {h}
                /\ r.at = 0 /\ r.result = NoValues /\ r.answer = None
            BY <2>3
        <3> HIDE DEF r
        <3>2. ~ReadsJsonOf(r) /\ FormOf(r) /\ Created(r) /\ DoneOf(r) = 0
            BY <2>2, <2>9, <3>1 DEF ReadsJsonOf, FormOf, Created, DoneOf
        <3>3. JsonSound(r)
            BY <3>1, NoneAssumption DEF JsonSound, Answers
        <3>4. FormSound(r)
            BY <2>4, <2>5, <3>1, <3>2 DEF FormSound, Reading
        <3>5. Sound(r)
            BY <1>2, <3>1, <3>3, <3>4, NoneAssumption DEF Sound, Reading, Answers
        <3> QED BY <2>9, <3>1, <3>5 DEF r, Moves
    <2>10. CASE h.format # "Json" /\ Answered(c, "invalid")
        BY <1>1, <1>2, <2>1, <2>10, AnswerSound DEF Answers
    <2> QED BY <2>1, <2>7, <2>8, <2>9, <2>10
<1> QED BY <1>4, <1>5, <1>6

\* A JSON body: the bytes held are the sum of the chunks read.
LEMMA JsonBodySound ==
    ASSUME TypeInv, Stages, NEW c \in Connections, ReadChunk(c) \/ EndJson(c)
    PROVE  Moves(c)
<1> DEFINE chunks == Msg(c).chunks
           at == req[c].at
<1>1. /\ req[c] \in Request /\ Sound(req[c]) /\ req[c].pc = "json" /\ req[c].msg = Msg(c)
      /\ Msg(c) \in Message /\ req[c].answer = None /\ req[c].handler # {}
    BY DEF TypeInv, Stages, Sound, ReadChunk, EndJson, At, Msg, Reading
<1>2. chunks \in Seq(Nat) /\ Len(chunks) \in Nat
    BY <1>1 DEF Message
<1>3. /\ ReadsJsonOf(req[c]) /\ ~FormOf(req[c]) /\ req[c].result = NoValues
      /\ at <= Len(chunks) /\ req[c].held = Sums(chunks)[at]
      /\ at \in Nat /\ req[c].held \in Nat
    <2>1. JsonSound(req[c])
        BY <1>1 DEF Sound
    <2>2. at \in Nat /\ req[c].held \in Nat
        BY <1>1, RequestType, LimitAssumption
    <2> QED BY <1>1, <2>1, <2>2 DEF JsonSound
<1> HIDE DEF chunks, at
<1>4. CASE ReadChunk(c)
    <2> DEFINE sum == req[c].held + chunks[at + 1]
    <2>1. at < Len(chunks) /\ at + 1 \in 1..Len(chunks)
        BY <1>2, <1>3, <1>4 DEF ReadChunk, MoreChunks, chunks, at
    <2>2. sum = Sums(chunks)[at + 1] /\ sum <= Total(chunks) /\ sum \in Nat
        <3> DEFINE k == at + 1
        <3>1. k \in 1..Len(chunks) /\ k \in 0..Len(chunks)
            BY <1>2, <2>1
        <3>2. k - 1 = at
            BY <1>3
        <3> HIDE DEF k
        <3>3. /\ Sums(chunks)[k] = Sums(chunks)[k - 1] + chunks[k]
              /\ Sums(chunks)[k] <= Total(chunks) /\ Sums(chunks)[k] \in Nat
            BY <1>2, <3>1, SumsGrow
        <3> QED BY <1>3, <3>2, <3>3 DEF k
    <2>3. IF sum > Limit THEN Answered(c, "overflow")
          ELSE Goes(c, [req[c] EXCEPT !.held = sum, !.at = at + 1])
        BY <1>1, <1>4, RequestType DEF ReadChunk, NextChunk, chunks, at
    <2> HIDE DEF sum
    <2>4. CASE sum > Limit
        <3>1. Total(chunks) \in Nat
            <4>1. Total(chunks) = Sums(chunks)[Len(chunks)]
                BY DEF Total, Sums
            <4> QED BY <1>2, <4>1, SumsGrow
        <3>2. Total(chunks) > Limit
            BY <2>2, <2>4, <3>1, LimitAssumption
        <3> QED BY <1>1, <2>3, <2>4, <3>2, AnswerSound DEF Answers, chunks
    <2>5. CASE ~(sum > Limit)
        <3> DEFINE r == [req[c] EXCEPT !.held = sum, !.at = at + 1]
        <3>1. sum \in 0..Limit
            BY <2>2, <2>5, LimitAssumption
        <3>2. /\ r \in Request /\ r.pc = "json" /\ r.msg = Msg(c) /\ r.handler = req[c].handler
              /\ r.at = at + 1 /\ r.held = sum /\ r.result = NoValues /\ r.answer = None
            <4>1. at + 1 \in Nat
                BY <1>3
            <4> HIDE DEF Results
            <4> QED BY <1>1, <1>3, <3>1, <4>1, RequestType
        <3> HIDE DEF r
        <3>3. ReadsJsonOf(r) /\ ~FormOf(r)
            BY <1>1, <1>3, <3>2 DEF ReadsJsonOf, FormOf
        <3>4. JsonSound(r)
            <4>1. r.at <= Len(r.msg.chunks)
                BY <1>2, <1>3, <2>1, <3>2 DEF chunks
            <4>2. r.held = Sums(r.msg.chunks)[r.at]
                BY <2>2, <3>2 DEF chunks
            <4>3. r.answer # "overflow"
                BY <3>2, NoneAssumption DEF Answers
            <4> QED BY <3>2, <3>3, <4>1, <4>2, <4>3 DEF JsonSound
        <3>5. FormSound(r)
            BY <3>2 DEF FormSound, Reading
        <3>6. Sound(r)
            BY <1>1, <3>2, <3>4, <3>5, NoneAssumption DEF Sound, Reading, Answers
        <3> QED BY <2>3, <2>5, <3>2, <3>6 DEF r, Moves
    <2> QED BY <2>4, <2>5
<1>5. CASE EndJson(c)
    <2>1. CASE Msg(c).body = "object"
        <3> DEFINE r == [req[c] EXCEPT !.pc = "call"]
        <3>1. /\ r \in Request /\ r.pc = "call" /\ r.msg = Msg(c) /\ r.handler = req[c].handler
              /\ r.at = at /\ r.held = req[c].held /\ r.result = NoValues /\ r.answer = None
            BY <1>1, <1>3, RequestType DEF Msg, Steps, at
        <3>2. Goes(c, r)
            BY <1>5, <2>1 DEF EndJson
        <3> HIDE DEF r
        <3>3. ReadsJsonOf(r) /\ ~FormOf(r) /\ DoneOf(r) = 0
            BY <1>1, <1>3, <3>1 DEF ReadsJsonOf, FormOf, DoneOf
        <3>4. at = Len(chunks)
            BY <1>2, <1>3, <1>5 DEF EndJson, MoreChunks, chunks, at
        <3>5. Total(chunks) = req[c].held /\ req[c].held <= Limit
            <4>1. Total(chunks) = Sums(chunks)[Len(chunks)]
                BY DEF Total, Sums
            <4>2. req[c].held <= Limit
                BY <1>1, RequestType, LimitAssumption
            <4> QED BY <1>3, <3>4, <4>1, <4>2
        <3>6. Assembled(Msg(c).fields, NoValues, 0)
            BY NothingAssembled
        <3>7. Sound(r)
            BY <1>1, <3>1, <3>3, <3>5, <3>6, NoneAssumption
               DEF Sound, JsonSound, FormSound, Reading, Answers, chunks
        <3> QED BY <3>1, <3>2, <3>7 DEF Moves
    <2>2. CASE Msg(c).body # "object"
        BY <1>1, <1>5, <2>2, AnswerSound DEF EndJson, Answers
    <2> QED BY <2>1, <2>2
<1> QED BY <1>4, <1>5

\* A form: the value is the one of the fields read.
LEMMA FormFacts ==
    ASSUME NEW c \in Connections, req[c] \in Request, Sound(req[c]),
           req[c].pc \in {"form", "upload"}
    PROVE  /\ req[c].msg = Msg(c) /\ Msg(c) \in Message
           /\ Msg(c).fields \in Seq(Field) /\ Len(Msg(c).fields) \in Nat
           /\ ~ReadsJsonOf(req[c]) /\ req[c].handler # {} /\ req[c].answer = None
           /\ FormOf(req[c]) /\ Created(req[c])
           /\ req[c].at \in Nat /\ req[c].at <= Len(Msg(c).fields)
           /\ req[c].result \in Results
           /\ req[c].pc = "form" => Assembled(Msg(c).fields, req[c].result, req[c].at)
           /\ req[c].pc = "upload" =>
                /\ req[c].at >= 1 /\ This(c) \in Field /\ IsUpload(This(c))
                /\ req[c].wrote <= This(c).chunks /\ req[c].wrote \in Nat /\ This(c).chunks \in Nat
                /\ Assembled(Msg(c).fields, req[c].result, req[c].at - 1)
<1>1. req[c].msg = Msg(c) /\ Msg(c) \in Message /\ req[c].handler # {} /\ req[c].answer = None
    BY DEF Sound, Msg, Reading
<1>2. Msg(c).fields \in Seq(Field) /\ Len(Msg(c).fields) \in Nat
    BY <1>1 DEF Message
<1>3. req[c].at \in Nat /\ req[c].wrote \in Nat /\ req[c].result \in Results
    BY RequestType
<1>4. FormSound(req[c])
    BY DEF Sound
<1>5. /\ ~ReadsJsonOf(req[c]) /\ req[c].at <= Len(Msg(c).fields)
      /\ FormOf(req[c]) /\ Created(req[c])
    BY <1>1, <1>4 DEF FormSound, Reading
<1>6. Assembled(Msg(c).fields, req[c].result, DoneOf(req[c]))
    BY <1>1, <1>4 DEF FormSound, Reading
<1>7. ASSUME req[c].pc = "upload"
      PROVE  /\ req[c].at >= 1 /\ This(c) \in Field /\ IsUpload(This(c))
             /\ req[c].wrote <= This(c).chunks /\ This(c).chunks \in Nat
    <2>1. req[c].at >= 1 /\ IsUpload(This(c)) /\ req[c].wrote <= This(c).chunks
        BY <1>1, <1>4, <1>7 DEF FormSound, This
    <2>2. This(c) \in Field
        BY <1>2, <1>3, <1>5, <2>1 DEF This
    <2> QED BY <2>1, <2>2 DEF Field
<1> QED BY <1>1, <1>2, <1>3, <1>5, <1>6, <1>7 DEF DoneOf

LEMMA AssembleSound ==
    ASSUME NEW c \in Connections, req[c] \in Request, Sound(req[c]),
           req[c].pc \in {"form", "upload"}, NEW n \in 0..(Len(Msg(c).fields) - 1),
           Assembled(Msg(c).fields, req[c].result, n),
           \A i \in 1..(n + 1) : Msg(c).fields[i].content \notin Unwritable,
           Assemble(c, n + 1, Msg(c).fields[n + 1])
    PROVE  Moves(c)
<1> DEFINE fields == Msg(c).fields
           f == fields[n + 1]
<1>1. /\ req[c].msg = Msg(c) /\ Msg(c) \in Message
      /\ fields \in Seq(Field) /\ Len(fields) \in Nat
      /\ ~ReadsJsonOf(req[c]) /\ FormOf(req[c]) /\ req[c].handler # {} /\ req[c].answer = None
      /\ req[c].result \in Results
    BY FormFacts
<1>2. CASE Fails(req[c].result, f)
    <2> DEFINE r == [req[c] EXCEPT !.pc = "panicked"]
    <2>1. /\ r \in Request /\ r.pc = "panicked" /\ r.msg = Msg(c) /\ r.answer = None
          /\ FormOf(r)
        BY <1>1, RequestType DEF Steps, FormOf
    <2>2. Goes(c, r)
        BY <1>2 DEF Assemble, Panicked
    <2> HIDE DEF r
    <2>3. Unfit(fields, n + 1) /\ n + 1 \in DOMAIN fields
        BY <1>1, <1>2, FailsIsMisfit DEF Assembled, Unfit
    <2>4. FormSound(r)
        BY <2>1, <2>3 DEF FormSound, Reading
    <2>5. Sound(r)
        BY <1>1, <2>1, <2>4, NoneAssumption DEF Sound, JsonSound, Reading, Answers
    <2> QED BY <2>1, <2>2, <2>5 DEF Moves
<1>3. CASE ~Fails(req[c].result, f)
    <2> DEFINE p == Put(req[c].result, n + 1, f)
               r == [req[c] EXCEPT !.pc = "form", !.at = n + 1, !.wrote = 0, !.result = p]
    <2>1. p \in Results /\ Assembled(fields, p, n + 1)
        BY <1>1, <1>3, PutAssembles
    <2>2. Goes(c, r)
        BY <1>1, <1>3, RequestType DEF Assemble
    <2> HIDE DEF p
    <2>3. /\ r \in Request /\ r.pc = "form" /\ r.msg = Msg(c) /\ r.handler = req[c].handler
          /\ r.at = n + 1 /\ r.result = p /\ r.answer = None
        <3>1. n + 1 \in Nat
            BY <1>1
        <3> QED BY <1>1, <2>1, <3>1, RequestType DEF Steps
    <2> HIDE DEF r
    <2>4. ~ReadsJsonOf(r) /\ FormOf(r) /\ Created(r) /\ DoneOf(r) = n + 1
        BY <1>1, <2>3 DEF ReadsJsonOf, FormOf, Created, DoneOf
    <2>5. FormSound(r)
        BY <1>1, <2>1, <2>3, <2>4 DEF FormSound, Reading
    <2>6. Sound(r)
        BY <1>1, <2>3, <2>5, NoneAssumption DEF Sound, JsonSound, Reading, Answers
    <2> QED BY <2>2, <2>3, <2>6 DEF Moves
<1> QED BY <1>2, <1>3

LEMMA FormBodySound ==
    ASSUME TypeInv, Stages, NEW c \in Connections,
           \/ ReadText(c) \/ CreateFile(c) \/ FailToCreate(c) \/ WriteChunk(c)
           \/ EndUpload(c) \/ EndForm(c) \/ Malformed(c)
    PROVE  Moves(c)
<1> DEFINE fields == Msg(c).fields
           at == req[c].at
<1>1. req[c] \in Request /\ Sound(req[c]) /\ req[c].pc \in {"form", "upload"}
    BY DEF TypeInv, Stages, ReadText, CreateFile, FailToCreate, WriteChunk, EndUpload, EndForm,
           Malformed, MoreFields, At
<1>2. /\ req[c].msg = Msg(c) /\ Msg(c) \in Message
      /\ fields \in Seq(Field) /\ Len(fields) \in Nat
      /\ ~ReadsJsonOf(req[c]) /\ FormOf(req[c]) /\ Created(req[c])
      /\ req[c].handler # {} /\ req[c].answer = None
      /\ at \in Nat /\ at <= Len(fields)
      /\ req[c].result \in Results
    BY <1>1, FormFacts
<1>3. req[c].pc = "form" => Assembled(fields, req[c].result, at)
    BY <1>1, FormFacts
<1>4. req[c].pc = "upload" =>
        /\ at >= 1 /\ This(c) \in Field /\ IsUpload(This(c))
        /\ req[c].wrote <= This(c).chunks /\ req[c].wrote \in Nat /\ This(c).chunks \in Nat
        /\ Assembled(fields, req[c].result, at - 1)
    BY <1>1, FormFacts
<1>5. CASE ReadText(c)
    <2>1. at \in 0..(Len(fields) - 1) /\ Assemble(c, at + 1, fields[at + 1])
        BY <1>2, <1>5 DEF ReadText, MoreFields, Upcoming
    <2>2. Assembled(fields, req[c].result, at)
        BY <1>3, <1>5 DEF ReadText, MoreFields, At
    <2>3. ASSUME NEW i \in 1..(at + 1) PROVE fields[i].content \notin Unwritable
        <3>1. i = at + 1 => fields[i].content \notin Unwritable
            BY <1>5, UnwritableAssumption DEF ReadText, Upcoming, IsUpload
        <3>2. i # at + 1 => i \in 1..at
            BY <1>2
        <3> QED BY <1>2, <3>1, <3>2 DEF Created
    <2> QED BY <1>1, <2>1, <2>2, <2>3, AssembleSound
<1>6. CASE CreateFile(c)
    <2> DEFINE r == [req[c] EXCEPT !.pc = "upload", !.at = at + 1, !.wrote = 0]
    <2>1. /\ at + 1 \in 1..Len(fields) /\ IsUpload(fields[at + 1]) /\ req[c].pc = "form"
          /\ fields[at + 1].content \notin Unwritable
        BY <1>2, <1>6 DEF CreateFile, MoreFields, Upcoming, At
    <2>2. Goes(c, r)
        BY <1>6 DEF CreateFile
    <2>3. /\ r \in Request /\ r.pc = "upload" /\ r.msg = Msg(c) /\ r.handler = req[c].handler
          /\ r.at = at + 1 /\ r.wrote = 0 /\ r.result = req[c].result /\ r.answer = None
        <3>1. at + 1 \in Nat
            BY <1>2
        <3> QED BY <1>1, <1>2, <3>1, RequestType DEF Steps
    <2> HIDE DEF r
    <2>8. Created(r)
        <3>1. \A i \in 1..(at + 1) : i \in 1..at \/ i = at + 1
            BY <1>2
        <3> QED BY <1>2, <2>1, <2>3, <3>1 DEF Created
    <2>4. ~ReadsJsonOf(r) /\ FormOf(r) /\ DoneOf(r) = at
        BY <1>2, <2>3 DEF ReadsJsonOf, FormOf, DoneOf
    <2>5. fields[at + 1].chunks \in Nat
        <3>1. fields[at + 1] \in Field
            BY <1>2, <2>1
        <3> QED BY <3>1 DEF Field
    <2>6. FormSound(r)
        BY <1>2, <1>3, <2>1, <2>3, <2>4, <2>5, <2>8 DEF FormSound, Reading
    <2>7. Sound(r)
        BY <1>2, <2>3, <2>6, NoneAssumption DEF Sound, JsonSound, Reading, Answers
    <2> QED BY <2>2, <2>3, <2>7 DEF Moves
<1>7. CASE WriteChunk(c)
    <2> DEFINE r == [req[c] EXCEPT !.wrote = req[c].wrote + 1]
    <2>1. req[c].pc = "upload" /\ req[c].wrote < This(c).chunks
        BY <1>7 DEF WriteChunk, At
    <2>2. Goes(c, r)
        BY <1>1, <1>7, RequestType DEF WriteChunk
    <2>3. /\ r \in Request /\ r.pc = "upload" /\ r.msg = Msg(c) /\ r.handler = req[c].handler
          /\ r.at = at /\ r.wrote = req[c].wrote + 1 /\ r.result = req[c].result /\ r.answer = None
        BY <1>1, <1>2, <1>4, <2>1, RequestType, SMTT(20)
    <2> HIDE DEF r
    <2>4. ~ReadsJsonOf(r) /\ FormOf(r) /\ Created(r) /\ DoneOf(r) = at - 1
        BY <1>2, <2>3 DEF ReadsJsonOf, FormOf, Created, DoneOf
    <2>5. FormSound(r)
        BY <1>2, <1>4, <2>1, <2>3, <2>4 DEF FormSound, Reading, This
    <2>6. Sound(r)
        BY <1>2, <2>3, <2>5, NoneAssumption DEF Sound, JsonSound, Reading, Answers
    <2> QED BY <2>2, <2>3, <2>6 DEF Moves
<1>8. CASE EndUpload(c)
    <2> DEFINE n == at - 1
    <2>1. req[c].pc = "upload"
        BY <1>8 DEF EndUpload, At
    <2>2. n \in 0..(Len(fields) - 1) /\ n + 1 = at
        BY <1>2, <1>4, <2>1
    <2>3. Assembled(fields, req[c].result, n)
        BY <1>4, <2>1
    <2>4. Assemble(c, at, fields[at])
        BY <1>8 DEF EndUpload, This
    <2> HIDE DEF n
    <2>5. Assemble(c, n + 1, fields[n + 1])
        BY <2>2, <2>4
    <2>6. \A i \in 1..(n + 1) : fields[i].content \notin Unwritable
        BY <1>2, <2>2 DEF Created
    <2> QED BY <1>1, <2>2, <2>3, <2>5, <2>6, AssembleSound
<1>9. CASE EndForm(c)
    <2> DEFINE r == [req[c] EXCEPT !.pc = "call"]
    <2>1. req[c].pc = "form" /\ at = Len(fields) /\ Msg(c).body = "fields"
        BY <1>2, <1>9 DEF EndForm, At, MoreFields
    <2>2. Goes(c, r)
        BY <1>9 DEF EndForm
    <2>3. /\ r \in Request /\ r.pc = "call" /\ r.msg = Msg(c) /\ r.handler = req[c].handler
          /\ r.at = at /\ r.result = req[c].result /\ r.answer = None
        BY <1>1, <1>2, RequestType DEF Steps
    <2> HIDE DEF r
    <2>4. ~ReadsJsonOf(r) /\ FormOf(r) /\ Created(r) /\ DoneOf(r) = at
        BY <1>2, <2>3 DEF ReadsJsonOf, FormOf, Created, DoneOf
    <2>5. FormSound(r)
        BY <1>2, <1>3, <2>1, <2>3, <2>4 DEF FormSound, Reading
    <2>6. Sound(r)
        BY <1>2, <2>3, <2>4, <2>5, NoneAssumption DEF Sound, JsonSound, Reading, Answers
    <2> QED BY <2>2, <2>3, <2>6 DEF Moves
<1>10. CASE FailToCreate(c) \/ Malformed(c)
    <2> DEFINE r == [req[c] EXCEPT !.pc = "panicked"]
    <2>1. Goes(c, r)
        BY <1>10 DEF FailToCreate, Malformed, Panicked
    <2>2. \/ Msg(c).body # "fields"
          \/ \E i \in DOMAIN fields : Unfit(fields, i)
        <3>1. CASE Malformed(c)
            BY <3>1 DEF Malformed
        <3>2. CASE FailToCreate(c)
            <4>1. at + 1 \in DOMAIN fields /\ fields[at + 1].content \in Unwritable
                BY <1>2, <3>2 DEF FailToCreate, MoreFields, Upcoming
            <4> QED BY <4>1 DEF Unfit
        <3> QED BY <1>10, <3>1, <3>2
    <2>3. /\ r \in Request /\ r.pc = "panicked" /\ r.msg = Msg(c) /\ r.answer = None
          /\ FormOf(r)
        BY <1>1, <1>2, RequestType DEF Steps, FormOf
    <2> HIDE DEF r
    <2>4. FormSound(r)
        BY <2>2, <2>3 DEF FormSound, Reading
    <2>5. Sound(r)
        BY <1>2, <2>3, <2>4, NoneAssumption DEF Sound, JsonSound, Reading, Answers
    <2> QED BY <2>1, <2>3, <2>5 DEF Moves
<1> QED BY <1>5, <1>6, <1>7, <1>8, <1>9, <1>10

\* The connection breaks or the file system refuses, the handler is called and returns, the answer goes.
LEMMA EndSound ==
    ASSUME TypeInv, Stages, NEW c \in Connections,
           Break(c) \/ FailToWrite(c) \/ Call(c) \/ Handle(c) \/ Leave(c)
    PROVE  Moves(c)
<1>1. req[c] \in Request /\ Sound(req[c])
    BY DEF TypeInv, Stages
<1>2. CASE Break(c)
    <2> DEFINE r == [req[c] EXCEPT !.pc = "panicked", !.broke = TRUE]
    <2>1. Goes(c, r) /\ req[c].pc \in {"json", "form", "upload"}
        BY <1>2 DEF Break
    <2>2. r \in Request /\ r.pc = "panicked" /\ r.broke /\ r.msg \in Message /\ r.answer = None
        BY <1>1, <2>1, RequestType DEF Steps, Sound
    <2> HIDE DEF r
    <2>3. Sound(r)
        BY <2>2, NoneAssumption DEF Sound, JsonSound, FormSound, Reading, Answers
    <2> QED BY <2>1, <2>2, <2>3 DEF Moves
<1>3. CASE Call(c)
    <2>1. req[c].pc = "call" /\ Msg(c) \in Message /\ req[c].handler # {} /\ req[c].msg = Msg(c)
            /\ req[c].answer = None
        BY <1>1, <1>3 DEF Call, At, Sound, Msg, Reading
    <2>2. CASE Answered(c, "invalid") \/ Answered(c, "not found")
        BY <1>1, <2>1, <2>2, AnswerSound DEF Answers
    <2>3. CASE Goes(c, [req[c] EXCEPT !.pc = "handler"])
        <3> DEFINE r == [req[c] EXCEPT !.pc = "handler"]
        <3>1. /\ r \in Request /\ r.pc = "handler" /\ r.msg = Msg(c) /\ r.handler = req[c].handler
              /\ r.at = req[c].at /\ r.result = req[c].result /\ r.answer = None
            BY <1>1, <2>1, RequestType DEF Steps
        <3> HIDE DEF r
        <3>2. /\ ReadsJsonOf(r) <=> ReadsJsonOf(req[c])
              /\ FormOf(r) <=> FormOf(req[c])
              /\ Created(r) <=> Created(req[c])
              /\ DoneOf(r) = DoneOf(req[c])
            BY <2>1, <3>1 DEF ReadsJsonOf, FormOf, Created, DoneOf
        <3>3. JsonSound(req[c]) /\ FormSound(req[c])
            BY <1>1 DEF Sound
        <3>4. JsonSound(r)
            BY <2>1, <3>1, <3>2, <3>3, NoneAssumption DEF JsonSound, Answers
        <3>5. FormSound(r)
            BY <2>1, <3>1, <3>2, <3>3 DEF FormSound, Reading
        <3>6. Sound(r)
            BY <2>1, <3>1, <3>4, <3>5, NoneAssumption DEF Sound, Reading, Answers
        <3> QED BY <2>3, <3>1, <3>6 DEF r, Moves
    <2> QED BY <1>3, <2>2, <2>3 DEF Call
<1>4. CASE Handle(c)
    <2>1. Msg(c) \in Message
        BY <1>1, <1>4 DEF Handle, At, Sound, Msg
    <2> QED BY <1>1, <1>4, <2>1, AnswerSound DEF Handle, Answers
<1>5. CASE Leave(c)
    BY <1>5, FreshSound DEF Leave, Moves
<1>6. CASE FailToWrite(c)
    <2> DEFINE r == [req[c] EXCEPT !.pc = "panicked", !.refused = TRUE]
    <2>1. Goes(c, r) /\ req[c].pc \in {"form", "upload"}
        BY <1>6 DEF FailToWrite, MoreFields, At
    <2>2. req[c].msg \in Message /\ req[c].answer = None /\ FormOf(req[c])
        BY <1>1, <2>1, FormFacts
    <2>3. /\ r \in Request /\ r.pc = "panicked" /\ r.refused /\ r.msg \in Message
          /\ r.answer = None /\ FormOf(r)
        BY <1>1, <2>2, RequestType DEF Steps, FormOf
    <2> HIDE DEF r
    <2>4. Sound(r)
        BY <2>3, NoneAssumption DEF Sound, JsonSound, FormSound, Reading, Answers
    <2> QED BY <2>1, <2>3, <2>4 DEF Moves
<1> QED BY <1>2, <1>3, <1>4, <1>5, <1>6

LEMMA MovesStages ==
    ASSUME TypeInv, Stages, NEW c \in Connections, Moves(c)
    PROVE  req' \in [Connections -> Request] /\ Stages'
<1>1. PICK r \in Request : Sound(r) /\ req' = [req EXCEPT ![c] = r]
    BY DEF Moves, Goes
<1>2. \A d \in Connections : req'[d] = IF d = c THEN r ELSE req[d]
    BY <1>1 DEF TypeInv
<1>3. \A d \in Connections : Sound(req'[d])
    BY <1>1, <1>2 DEF Stages
<1> QED BY <1>1, <1>3 DEF Stages, TypeInv

\* Every action of a request is a step that keeps it sound.
LEMMA EveryStepMoves ==
    ASSUME TypeInv, Stages, NEW c \in Connections, Arrive(c) \/ Serve(c) \/ Break(c) \/ FailToWrite(c)
    PROVE  Moves(c)
BY ArriveSound, BeforeBodySound, JsonBodySound, FormBodySound, EndSound DEF Serve, ReadBody

\* What an upload writes is a piece of its own, over what the file holds.
LEMMA WriteAtType ==
    ASSUME NEW content \in Seq(Pieces), NEW k \in Nat \ {0}, NEW piece \in Pieces
    PROVE  /\ WriteAt(content, k, piece) \in Seq(Pieces)
           /\ Len(content) = k - 1 =>
                WriteAt(content, k, piece) =
                    [j \in 1..k |-> IF j = k THEN piece ELSE content[j]]
<1> DEFINE n == Larger(Len(content), k)
           w == [j \in 1..n |->
                    IF j = k THEN piece ELSE IF j <= Len(content) THEN content[j] ELSE Gap]
<1>1. Len(content) \in Nat /\ n \in Nat
    BY DEF Larger
<1>2. Gap \in Pieces
    BY DEF Pieces
<1>3. \A j \in 1..n : w[j] \in Pieces
    BY <1>1, <1>2
<1>4. WriteAt(content, k, piece) = w
    BY DEF WriteAt
<1>5. w \in Seq(Pieces)
    <2> HIDE DEF n
    <2>1. w \in [1..n -> Pieces]
        BY <1>3
    <2> HIDE DEF w
    <2> QED BY <1>1, <2>1
<1>6. ASSUME Len(content) = k - 1
      PROVE  w = [j \in 1..k |-> IF j = k THEN piece ELSE content[j]]
    <2>1. n = k
        BY <1>6 DEF Larger
    <2>2. \A j \in 1..k : j # k => j <= Len(content)
        BY <1>6
    <2> HIDE DEF n
    <2> QED BY <2>1, <2>2
<1> QED BY <1>4, <1>5, <1>6

LEMMA FilesStep ==
    ASSUME NEW c \in Connections, Arrive(c) \/ Serve(c) \/ Break(c) \/ FailToWrite(c)
    PROVE  \/ CreateFile(c) \/ WriteChunk(c) \/ FailToWrite(c) \/ Leave(c)
           \/ temp' = temp /\ met' = met
BY DEF Serve, ReadBody, Arrive, Refuse, Options, TakeBody, ReadChunk, EndJson, ReadText,
       FailToCreate, EndUpload, EndForm, Malformed, Break, Call, Handle

LEMMA FilesType ==
    ASSUME TypeInv, Stages, NEW c \in Connections, Arrive(c) \/ Serve(c) \/ Break(c) \/ FailToWrite(c)
    PROVE  temp' \in [FileNames -> Seq(Pieces)] /\ met' \in [Connections -> SUBSET FileNames]
<1>1. CASE CreateFile(c)
    <2>1. Upcoming(c).content \in FileNames
        BY <1>1 DEF CreateFile, IsUpload
    <2>2. <<>> \in Seq(Pieces)
        OBVIOUS
    <2> QED BY <1>1, <2>1, <2>2 DEF CreateFile, TypeInv, Meets
<1>2. CASE WriteChunk(c)
    <2>1. req[c] \in Request /\ Sound(req[c]) /\ req[c].pc = "upload"
        BY <1>2 DEF TypeInv, Stages, WriteChunk, At
    <2>2. IsUpload(This(c)) /\ req[c].wrote \in Nat /\ req[c].at \in Nat
        BY <2>1, FormFacts
    <2>3. <<c, req[c].at, req[c].wrote + 1>> \in Pieces /\ req[c].wrote + 1 \in Nat \ {0}
        BY <2>2 DEF Pieces
    <2>4. \A content \in Seq(Pieces) :
            WriteAt(content, req[c].wrote + 1, <<c, req[c].at, req[c].wrote + 1>>) \in Seq(Pieces)
        BY <2>3, WriteAtType
    <2> QED BY <1>2, <2>2, <2>4 DEF WriteChunk, TypeInv, IsUpload
<1>3. CASE Leave(c)
    BY <1>3 DEF Leave, TypeInv
<1>4. CASE FailToWrite(c)
    <2>1. CASE temp' = temp
        BY <1>4, <2>1 DEF FailToWrite, TypeInv
    <2>2. CASE temp' # temp
        <3>1. /\ req[c].pc = "upload" /\ met' = met
              /\ temp' = [temp EXCEPT ![This(c).content] = WriteAt(@, req[c].wrote + 1, Gap)]
            BY <1>4, <2>2 DEF FailToWrite, At
        <3>2. req[c] \in Request /\ Sound(req[c])
            BY DEF TypeInv, Stages
        <3>3. IsUpload(This(c)) /\ req[c].wrote \in Nat
            BY <3>1, <3>2, FormFacts
        <3>4. Gap \in Pieces /\ req[c].wrote + 1 \in Nat \ {0}
            BY <3>3 DEF Pieces
        <3>5. \A content \in Seq(Pieces) : WriteAt(content, req[c].wrote + 1, Gap) \in Seq(Pieces)
            BY <3>4, WriteAtType
        <3> QED BY <3>1, <3>3, <3>5 DEF TypeInv, IsUpload
    <2> QED BY <2>1, <2>2
<1> QED BY <1>1, <1>2, <1>3, <1>4, FilesStep DEF TypeInv

LEMMA StagesKept == TypeInv /\ Stages /\ [Next]_vars => TypeInv' /\ Stages'
<1> SUFFICES ASSUME TypeInv, Stages, [Next]_vars PROVE TypeInv' /\ Stages'
    OBVIOUS
<1>1. CASE Next
    <2>1. PICK c \in Connections : Arrive(c) \/ Serve(c) \/ Break(c) \/ FailToWrite(c)
        BY <1>1 DEF Next
    <2> QED BY <2>1, EveryStepMoves, MovesStages, FilesType DEF TypeInv
<1>2. CASE UNCHANGED vars
    BY <1>2 DEF vars, TypeInv, Stages
<1> QED BY <1>1, <1>2

LEMMA StagesStart == Init => TypeInv /\ Stages
<1> SUFFICES ASSUME Init PROVE TypeInv /\ Stages
    OBVIOUS
<1>1. <<>> \in Seq(Pieces)
    OBVIOUS
<1> QED BY <1>1, FreshSound DEF Init, TypeInv, Stages

LEMMA StagesHold == Spec => [](TypeInv /\ Stages)
BY StagesStart, StagesKept, PTL DEF Spec

-------------------------------------------------------------------------------
\* What TLC checks on a small instance, for every value of the constants.

\* The state of the server's requests keeps its types; a JSON body in memory
\* never outgrows the limit.
THEOREM RequestsTypeOK == Spec => []TypeOK
<1>1. TypeInv => TypeOK
    <2> SUFFICES ASSUME TypeInv PROVE TypeOK
        OBVIOUS
    <2>1. ASSUME NEW c \in Connections
          PROVE  LET r == req[c]
                 IN  /\ r.pc \in Steps /\ r.answer \in Answers \union {None}
                     /\ r.msg \in Message \union {None}
                     /\ r.handler \subseteq Handler \union Builtin
                     /\ r.held \in 0..Limit /\ r.at \in Nat /\ r.wrote \in Nat
                     /\ \A n \in DOMAIN r.result : r.result[n] \in Value
                     /\ r.broke \in BOOLEAN /\ r.refused \in BOOLEAN
                     /\ met[c] \subseteq FileNames
        <3>1. req[c] \in Request /\ met[c] \subseteq FileNames
            BY DEF TypeInv
        <3>2. req[c].result \in Results
            BY <3>1, RequestType
        <3>3. \A n \in DOMAIN req[c].result : req[c].result[n] \in Value
            BY <3>2, ResultFields
        <3> QED BY <3>1, <3>3, RequestType
    <2> QED BY <2>1 DEF TypeOK, TypeInv
<1> QED BY <1>1, StagesHold, PTL

LEMMA ReadsJsonSame == ASSUME NEW c PROVE ReadsJson(c) <=> ReadsJsonOf(req[c])
BY DEF ReadsJson, ReadsJsonOf, Msg

\* A JSON body is refused exactly if it is larger than the limit as a whole,
\* for every limit and every way to split it into chunks (parse_json_body).
THEOREM RequestsLimitExact == Spec => []LimitExact
<1>1. Stages => LimitExact
    <2> SUFFICES ASSUME Stages, NEW c \in Connections
                 PROVE  /\ req[c].answer = "overflow" => Total(Msg(c).chunks) > Limit
                        /\ req[c].pc \in {"call", "handler"} /\ ReadsJson(c) =>
                            Total(Msg(c).chunks) <= Limit
        BY DEF LimitExact
    <2>1. JsonSound(req[c])
        BY DEF Stages, Sound
    <2> QED BY <2>1, ReadsJsonSame DEF JsonSound, Msg
<1> QED BY <1>1, StagesHold, PTL

\* The handler is given every upload of a form, in the order sent, but for
\* the ones whose place a later field took: for every form, however long
\* (parse_form_body).
THEOREM RequestsFormsHandedOver == Spec => []FormsHandedOver
<1>1. TypeInv /\ Stages => FormsHandedOver
    <2> SUFFICES ASSUME TypeInv, Stages, NEW c \in Connections,
                        req[c].pc \in {"call", "handler"}, ~ReadsJson(c)
                 PROVE  LET fields == IF req[c].at = 0 THEN <<>> ELSE Msg(c).fields
                            result == req[c].result
                        IN  /\ UploadsOf(result) =
                                {i \in DOMAIN fields :
                                    /\ IsUpload(fields[i])
                                    /\ ~\E j \in DOMAIN fields : Replaces(fields, j, i)}
                            /\ \A n \in DOMAIN result : \A k, l \in DOMAIN result[n].items :
                                    k < l => result[n].items[k] < result[n].items[l]
        BY DEF FormsHandedOver
    <2> DEFINE fields == IF req[c].at = 0 THEN <<>> ELSE Msg(c).fields
               result == req[c].result
               n == req[c].at
    <2>1. req[c] \in Request /\ Sound(req[c]) /\ Msg(c) \in Message /\ req[c].msg = Msg(c)
        BY DEF TypeInv, Stages, Sound, Msg
    <2>2. Msg(c).fields \in Seq(Field)
        BY <2>1 DEF Message
    <2>3. ~ReadsJsonOf(req[c]) /\ DoneOf(req[c]) = n /\ (n = 0 \/ n = Len(Msg(c).fields))
        BY <2>1, ReadsJsonSame DEF DoneOf, Sound, FormSound
    <2>4. Assembled(Msg(c).fields, result, n)
        BY <2>1, <2>3 DEF Sound, FormSound, Reading
    <2>5. 1..n = DOMAIN fields /\ \A i \in 1..n : fields = Msg(c).fields
        BY <2>2, <2>3
    <2>6. \A i \in UploadsOf(result) : i \in 1..n /\ IsUpload(Msg(c).fields[i])
        BY <2>4, PlacedAreUploads DEF Assembled
    <2>7. \A i \in 1..n : IsUpload(fields[i]) =>
            (i \in UploadsOf(result) <=> ~\E j \in 1..n : Replaces(fields, j, i))
        BY <2>4, <2>5 DEF Assembled, Kept
    <2>8. \A m \in DOMAIN result : \A k, l \in DOMAIN result[m].items :
            k < l => result[m].items[k] < result[m].items[l]
        BY <2>4 DEF Assembled, Located, Placed
    <2> HIDE DEF fields, result, n
    <2>9. UploadsOf(result) = {i \in DOMAIN fields :
                                /\ IsUpload(fields[i])
                                /\ ~\E j \in DOMAIN fields : Replaces(fields, j, i)}
        BY <2>5, <2>6, <2>7
    <2> QED BY <2>8, <2>9 DEF fields, result
<1> QED BY <1>1, StagesHold, PTL

\* The server drops a request only if its client is gone, or if it is a form
\* that is malformed, has a field that does not fit or a file that cannot be
\* created, or met a file system that refused; and no form of the first three
\* kinds ever reaches its handler: for every form (parse_form_body).
THEOREM RequestsDropsMisfits == Spec => []DropsMisfits
<1>1. TypeInv /\ Stages => DropsMisfits
    <2> SUFFICES ASSUME TypeInv, Stages, NEW c \in Connections
                 PROVE  LET fields == Msg(c).fields
                        IN  /\ req[c].pc = "panicked" /\ ~req[c].broke =>
                                /\ ReadsForm(c)
                                /\ \/ req[c].refused
                                   \/ Msg(c).body # "fields"
                                   \/ \E i \in DOMAIN fields : Unfit(fields, i)
                            /\ req[c].pc \in {"call", "handler"} /\ ReadsForm(c) =>
                                /\ Msg(c).body = "fields"
                                /\ \A i \in DOMAIN fields : ~Unfit(fields, i)
        BY DEF DropsMisfits
    <2>1. FormSound(req[c]) /\ req[c].msg = Msg(c) /\ (FormOf(req[c]) <=> ReadsForm(c))
        BY DEF Stages, Sound, Msg, FormOf, ReadsForm
    <2>2. ASSUME req[c].pc \in {"call", "handler"}, ReadsForm(c)
          PROVE  Msg(c).body = "fields" /\ \A i \in DOMAIN Msg(c).fields : ~Unfit(Msg(c).fields, i)
        <3>1. Msg(c).body = "fields" /\ req[c].at = Len(Msg(c).fields) /\ Created(req[c])
            BY <2>1, <2>2 DEF FormSound, Reading
        <3>2. ~ReadsJsonOf(req[c])
            BY <2>1, <2>2 DEF FormSound, Reading
        <3>3. DoneOf(req[c]) = req[c].at
            BY <2>2, <3>2 DEF DoneOf
        <3>4. Assembled(Msg(c).fields, req[c].result, req[c].at)
            BY <2>1, <2>2, <3>3 DEF FormSound, Reading
        <3>5. DOMAIN Msg(c).fields = 1..req[c].at
            <4>1. Msg(c) \in Message
                BY <2>1, <2>2 DEF Stages, Sound
            <4> QED BY <3>1, <4>1 DEF Message
        <3> QED BY <2>1, <3>1, <3>4, <3>5 DEF Assembled, Created, Unfit
    <2> QED BY <2>1, <2>2 DEF FormSound
<1> QED BY <1>1, StagesHold, PTL

\* What no handler is found for is declared nowhere, but for what a namespace
\* or a model of the same path hides: for every schema (make_server_app).
LEMMA DeclaredIsResolved ==
    ASSUME NEW m \in Match, Resolve(m) = {}
    PROVE  \/ m.path \in Namespaces
           \/ /\ m.path \in ModelPaths => m.name \notin Actions
              /\ \A h \in Handlers : <<h.at, h.name>> = <<m.path, m.name>> =>
                    h.of = "group" /\ m.path \in ModelPaths
<1> SUFFICES ASSUME m.path \notin Namespaces
             PROVE  /\ m.path \in ModelPaths => m.name \notin Actions
                    /\ \A h \in Handlers : <<h.at, h.name>> = <<m.path, m.name>> =>
                            h.of = "group" /\ m.path \in ModelPaths
    OBVIOUS
<1>1. \A h \in Handlers : h.of \in {"namespace", "model", "group"}
    BY SchemaAssumption DEF Handler
<1>2. CASE WithoutLast(m.path) \notin Namespaces
    BY <1>1, <1>2, NestingAssumption
<1>3. CASE WithoutLast(m.path) \in Namespaces /\ m.path \notin ModelPaths
    <2>1. In("group", m) = {}
        BY <1>3 DEF Resolve
    <2> QED BY <1>1, <1>3, <2>1, NestingAssumption DEF In
<1>4. CASE WithoutLast(m.path) \in Namespaces /\ m.path \in ModelPaths
    <2>1. In("model", m) = {} /\ ActionOf(m) = {}
        BY <1>4 DEF Resolve
    <2>2. m.name \notin Actions
        BY <2>1 DEF ActionOf
    <2> QED BY <1>1, <1>4, <2>1, <2>2, NestingAssumption DEF In
<1> QED BY <1>2, <1>3, <1>4

\* Nothing that a schema declares is out of a request's reach, but for those.
THEOREM RequestsDeclaredIsReached == Spec => []DeclaredIsReached
<1>1. Stages => DeclaredIsReached
    <2> SUFFICES ASSUME Stages, NEW c \in Connections,
                        req[c].answer = "not found", req[c].handler = {}, Msg(c).route # None
                 PROVE  LET m == Msg(c).route
                        IN  \/ m.path \in Namespaces
                            \/ /\ m.path \in ModelPaths => m.name \notin Actions
                               /\ \A h \in Handlers : <<h.at, h.name>> = <<m.path, m.name>> =>
                                    h.of = "group" /\ m.path \in ModelPaths
        BY DEF DeclaredIsReached
    <2>1. Msg(c).route \in Match /\ Resolve(Msg(c).route) = {}
        BY DEF Stages, Sound, Msg
    <2> QED BY <2>1, DeclaredIsResolved
<1> QED BY <1>1, StagesHold, PTL

-------------------------------------------------------------------------------
\* The content of uploads.

\* An upload that request r has in hand, and the pieces written of it.
Owns(r, i) == r.pc \in Reading /\ (i \in UploadsOf(r.result) \/ (r.pc = "upload" /\ i = r.at))
Written(r, i) == IF r.pc = "upload" /\ i = r.at THEN r.wrote ELSE r.msg.fields[i].chunks
FileOf(r, i) == r.msg.fields[i].content

\* A file that nobody else took holds the pieces written.
Contents ==
    \A c \in Connections : \A i \in Nat :
        Owns(req[c], i) /\ FileOf(req[c], i) \notin met[c] =>
            temp[FileOf(req[c], i)] = [k \in 1..Written(req[c], i) |-> <<c, i, k>>]

\* An upload that is being written to the file of another has taken it from
\* that one, whichever of the two came first.
Takings ==
    \A c, d \in Connections : \A i \in Nat :
        /\ Owns(req[c], i) /\ req[d].pc = "upload" /\ <<c, i>> # <<d, req[d].at>>
        /\ FileOf(req[c], i) = FileOf(req[d], req[d].at)
        => FileOf(req[c], i) \in met[c]

\* What a request owns are uploads of its form that it has come to.
LEMMA OwnsUploads ==
    ASSUME NEW r \in Request, Sound(r), NEW i, Owns(r, i)
    PROVE  /\ r.msg \in Message /\ i \in 1..r.at /\ i \in DOMAIN r.msg.fields
           /\ IsUpload(r.msg.fields[i]) /\ r.msg.fields[i].chunks \in Nat
           /\ r.pc = "upload" => (i = r.at <=> i \notin UploadsOf(r.result))
<1>1. r.pc \in Reading /\ r.msg \in Message /\ FormSound(r) /\ r.at \in Nat
    BY RequestType DEF Owns, Sound, Reading
<1>2. r.msg.fields \in Seq(Field) /\ Len(r.msg.fields) \in Nat
    BY <1>1 DEF Message
<1>3. Assembled(r.msg.fields, r.result, DoneOf(r))
    BY <1>1 DEF FormSound
<1>4. \A j \in UploadsOf(r.result) : j \in 1..DoneOf(r) /\ IsUpload(r.msg.fields[j])
    BY <1>3, PlacedAreUploads, Zenon DEF Assembled
<1>5. /\ DoneOf(r) \in 0..Len(r.msg.fields) /\ DoneOf(r) <= r.at
      /\ r.pc = "upload" => /\ DoneOf(r) = r.at - 1 /\ r.at \in 1..Len(r.msg.fields)
                            /\ IsUpload(r.msg.fields[r.at])
    <2>1. CASE ReadsJsonOf(r)
        BY <1>1, <1>2, <2>1 DEF FormSound, DoneOf
    <2>2. CASE ~ReadsJsonOf(r) /\ r.pc \in {"form", "upload"}
        BY <1>1, <1>2, <2>2 DEF FormSound, DoneOf
    <2>3. CASE ~ReadsJsonOf(r) /\ r.pc \in {"call", "handler"}
        BY <1>1, <1>2, <2>3 DEF FormSound, DoneOf
    <2> QED BY <1>1, <2>1, <2>2, <2>3 DEF Reading
<1>6. i \in 1..Len(r.msg.fields) /\ IsUpload(r.msg.fields[i]) /\ i \in 1..r.at
    BY <1>1, <1>2, <1>4, <1>5 DEF Owns
<1>7. r.msg.fields[i] \in Field
    BY <1>2, <1>6
<1>8. r.msg.fields[i].chunks \in Nat
    BY <1>7 DEF Field
<1>9. r.pc = "upload" => (i = r.at <=> i \notin UploadsOf(r.result))
    BY <1>1, <1>4, <1>5 DEF Owns
<1> QED BY <1>1, <1>2, <1>6, <1>8, <1>9

\* A step that touches no file brings no upload under a request's hand.
NoNewUpload(c) ==
    /\ \A d \in Connections : d # c => req'[d] = req[d]
    /\ req'[c].pc # "upload"
    /\ \A i : Owns(req'[c], i) =>
        /\ Owns(req[c], i) /\ req'[c].msg = req[c].msg
        /\ Written(req'[c], i) = Written(req[c], i)

LEMMA PutUploads ==
    ASSUME NEW fields \in Seq(Field), NEW n \in 0..(Len(fields) - 1), NEW r \in Results,
           Assembled(fields, r, n), ~Fails(r, fields[n + 1]),
           NEW i \in UploadsOf(Put(r, n + 1, fields[n + 1]))
    PROVE  i \in UploadsOf(r) \/ (i = n + 1 /\ IsUpload(fields[n + 1]))
<1> DEFINE p == Put(r, n + 1, fields[n + 1])
<1>1. Assembled(fields, p, n + 1)
    BY PutAssembles
<1> HIDE DEF p
<1>2. i \in UploadsOf(p)
    BY DEF p
<1>3. i \in 1..(n + 1) /\ IsUpload(fields[i])
    BY <1>1, <1>2, UploadsHeld DEF Assembled, Located, Placed, Holds
<1>4. CASE i # n + 1
    <2>1. i \in 1..n
        BY <1>3, <1>4
    <2>2. \A j \in 1..n : j \in 1..(n + 1)
        OBVIOUS
    <2>3. ~\E j \in 1..(n + 1) : Replaces(fields, j, i)
        BY <1>1, <1>2, <1>3 DEF Assembled, Kept
    <2>4. i \in UploadsOf(r)
        BY <1>3, <2>1, <2>2, <2>3 DEF Assembled, Kept
    <2> QED BY <2>4
<1> QED BY <1>3, <1>4

LEMMA OtherStepsOwn ==
    ASSUME TypeInv, Stages, NEW c \in Connections, Arrive(c) \/ Serve(c) \/ Break(c) \/ FailToWrite(c)
    PROVE  \/ CreateFile(c)
           \/ WriteChunk(c)
           \/ FailToWrite(c)
           \/ NoNewUpload(c) /\ temp' = temp /\ met' = met
           \/ Leave(c)
<1>1. req[c] \in Request /\ Sound(req[c]) /\ req \in [Connections -> Request]
    BY DEF TypeInv, Stages
<1>2. \A r : Goes(c, r) => req'[c] = r /\ \A d \in Connections : d # c => req'[d] = req[d]
    BY <1>1 DEF Goes
<1>3. CASE Arrive(c)
    <2>1. PICK msg \in Sends[c] : Goes(c, [Fresh EXCEPT !.pc = "resolve", !.msg = msg])
        BY <1>3 DEF Arrive
    <2>2. [Fresh EXCEPT !.pc = "resolve", !.msg = msg].pc = "resolve"
        BY DEF Fresh
    <2> HIDE DEF Fresh
    <2>3. req'[c].pc = "resolve" /\ \A d \in Connections : d # c => req'[d] = req[d]
        BY <1>2, <2>1, <2>2
    <2>4. NoNewUpload(c)
        BY <2>3 DEF NoNewUpload, Owns, Reading
    <2> QED BY <1>3, <2>4 DEF Arrive
<1>4. ASSUME NEW a, Answered(c, a), temp' = temp, met' = met
      PROVE  NoNewUpload(c)
    <2> DEFINE r == [req[c] EXCEPT !.pc = "answered", !.answer = a]
    <2>1. r.pc = "answered" /\ Goes(c, r)
        BY <1>1, <1>4, RequestType DEF Answered
    <2> HIDE DEF r
    <2> QED BY <1>2, <2>1 DEF NoNewUpload, Owns, Reading
<1>5. ASSUME NEW r, Goes(c, r), temp' = temp, met' = met, r.pc \in {"json", "panicked"}
      PROVE  NoNewUpload(c)
    BY <1>2, <1>5 DEF NoNewUpload, Owns, Reading
<1>6. ASSUME NEW r, Goes(c, r), temp' = temp, met' = met, r.result = NoValues, r.pc # "upload"
      PROVE  NoNewUpload(c)
    BY <1>2, <1>6, NothingAssembled DEF NoNewUpload, Owns
<1>7. CASE Refuse(c) \/ Options(c) \/ Handle(c)
    BY <1>4, <1>7 DEF Refuse, Options, Handle
<1>8. CASE TakeBody(c)
    <2>1. req[c].result = NoValues
        BY <1>1, <1>8 DEF TakeBody, At, Sound
    <2>2. \A h, pc : LET r == [req[c] EXCEPT !.pc = pc, !.handler = {h}]
                     IN  r.pc = pc /\ r.result = NoValues
        BY <1>1, <2>1, RequestType
    <2>3. PICK h \in Resolved(c) :
            \/ \E pc \in {"call", "json", "form"} :
                    Goes(c, [req[c] EXCEPT !.pc = pc, !.handler = {h}])
            \/ Answered(c, "invalid")
        BY <1>8 DEF TakeBody
    <2>4. temp' = temp /\ met' = met
        BY <1>8 DEF TakeBody
    <2>5. CASE Answered(c, "invalid")
        BY <1>4, <2>4, <2>5
    <2>6. ASSUME NEW pc \in {"call", "json", "form"},
                 Goes(c, [req[c] EXCEPT !.pc = pc, !.handler = {h}])
          PROVE  NoNewUpload(c)
        <3> DEFINE r == [req[c] EXCEPT !.pc = pc, !.handler = {h}]
        <3>1. r.pc # "upload" /\ r.result = NoValues /\ Goes(c, r)
            BY <2>2, <2>6
        <3> HIDE DEF r
        <3> QED BY <1>6, <2>4, <3>1
    <2> QED BY <2>3, <2>4, <2>5, <2>6
<1>9. CASE ReadChunk(c) \/ EndJson(c)
    <2>1. req[c].pc = "json" /\ req[c].result = NoValues
        BY <1>1, <1>9 DEF ReadChunk, EndJson, At, Sound, JsonSound
    <2>2. \A h, a : LET r == [req[c] EXCEPT !.held = h, !.at = a]
                    IN  r.pc = "json"
        BY <1>1, <2>1, RequestType
    <2>3. [req[c] EXCEPT !.pc = "call"].pc = "call"
            /\ [req[c] EXCEPT !.pc = "call"].result = NoValues
        BY <1>1, <2>1, RequestType
    <2> QED BY <1>4, <1>5, <1>6, <1>9, <2>2, <2>3 DEF ReadChunk, EndJson
<1>10. CASE Break(c) \/ FailToCreate(c) \/ Malformed(c)
    <2>1. /\ [req[c] EXCEPT !.pc = "panicked", !.broke = TRUE].pc = "panicked"
          /\ [req[c] EXCEPT !.pc = "panicked"].pc = "panicked"
        BY <1>1, RequestType
    <2> QED BY <1>5, <1>10, <2>1 DEF Break, FailToCreate, Malformed, Panicked
<1>11. ASSUME NEW pc \in {"call", "handler"}, req[c].pc \in {"form", "call"}, temp' = temp, met' = met,
              Goes(c, [req[c] EXCEPT !.pc = pc])
       PROVE  NoNewUpload(c)
    <2>1. req'[c].pc = pc /\ req'[c].result = req[c].result /\ req'[c].msg = req[c].msg
        BY <1>1, <1>2, <1>11, RequestType
    <2> QED BY <1>2, <1>11, <2>1 DEF NoNewUpload, Owns, Written, Reading
<1>12. CASE EndForm(c) \/ Call(c)
    BY <1>4, <1>11, <1>12 DEF EndForm, Call, At
<1>13. CASE ReadText(c) \/ EndUpload(c)
    <2> DEFINE fields == Msg(c).fields
               n == IF req[c].pc = "upload" THEN req[c].at - 1 ELSE req[c].at
    <2>1. req[c].pc \in {"form", "upload"}
        BY <1>13 DEF ReadText, EndUpload, MoreFields, At
    <2>2. /\ fields \in Seq(Field) /\ Len(fields) \in Nat /\ req[c].msg = Msg(c)
          /\ req[c].at \in Nat /\ req[c].at <= Len(fields) /\ req[c].result \in Results
          /\ req[c].pc = "upload" => req[c].at >= 1
          /\ Assembled(fields, req[c].result, n)
        BY <1>1, <2>1, FormFacts
    <2>3. /\ n \in 0..(Len(fields) - 1)
          /\ Assemble(c, n + 1, fields[n + 1])
          /\ IsUpload(fields[n + 1]) =>
                req[c].pc = "upload" /\ req[c].at = n + 1 /\ req[c].wrote = fields[n + 1].chunks
        <3>1. CASE ReadText(c)
            BY <2>2, <3>1 DEF ReadText, MoreFields, At, Upcoming
        <3>2. CASE EndUpload(c)
            <4>1. n + 1 = req[c].at /\ n \in 0..(Len(fields) - 1) /\ req[c].pc = "upload"
                BY <2>2, <3>2 DEF EndUpload, At
            <4> QED BY <3>2, <4>1 DEF EndUpload, This
        <3> QED BY <1>13, <3>1, <3>2
    <2> HIDE DEF n
    <2>4. temp' = temp /\ met' = met
        BY <1>13 DEF ReadText, EndUpload
    <2>5. CASE Fails(req[c].result, fields[n + 1])
        <3>1. [req[c] EXCEPT !.pc = "panicked"].pc = "panicked"
            BY <1>1, RequestType
        <3> QED BY <1>5, <2>3, <2>4, <2>5, <3>1 DEF Assemble, Panicked
    <2>6. CASE ~Fails(req[c].result, fields[n + 1])
        <3> DEFINE p == Put(req[c].result, n + 1, fields[n + 1])
                   r == [req[c] EXCEPT !.pc = "form", !.at = n + 1, !.wrote = 0, !.result = p]
        <3>1. r.pc = "form" /\ r.result = p /\ r.msg = req[c].msg
            BY <1>1, RequestType
        <3>2. Goes(c, r)
            BY <1>1, <2>3, <2>6, RequestType DEF Assemble
        <3>3. \A i \in UploadsOf(p) : i \in UploadsOf(req[c].result)
                                        \/ (i = n + 1 /\ IsUpload(fields[n + 1]))
            BY <2>2, <2>3, <2>6, PutUploads
        <3> HIDE DEF r, p
        <3>4. req'[c] = r /\ \A d \in Connections : d # c => req'[d] = req[d]
            BY <1>2, <3>2
        <3>5. ASSUME NEW i, Owns(r, i)
              PROVE  Owns(req[c], i) /\ Written(r, i) = Written(req[c], i)
            <4>1. i \in UploadsOf(p)
                BY <3>1, <3>5 DEF Owns
            <4>2. Owns(req[c], i)
                BY <2>1, <2>3, <3>3, <4>1 DEF Owns, Reading
            <4>3. Written(r, i) = fields[i].chunks
                BY <2>2, <3>1 DEF Written
            <4>4. req[c].pc = "upload" /\ i = req[c].at => req[c].wrote = fields[i].chunks
                <5> SUFFICES ASSUME req[c].pc = "upload", i = req[c].at
                             PROVE  req[c].wrote = fields[i].chunks
                    OBVIOUS
                <5>1. i \notin UploadsOf(req[c].result)
                    BY <1>1, <4>2, OwnsUploads
                <5> QED BY <2>3, <3>3, <4>1, <5>1
            <4> QED BY <2>2, <4>2, <4>3, <4>4 DEF Written
        <3> QED BY <2>4, <3>1, <3>4, <3>5 DEF NoNewUpload
    <2> QED BY <2>4, <2>5, <2>6
<1>14. \/ Arrive(c) \/ CreateFile(c) \/ WriteChunk(c) \/ FailToWrite(c) \/ Leave(c)
       \/ temp' = temp /\ met' = met
    BY FilesStep
<1> QED BY <1>3, <1>7, <1>8, <1>9, <1>10, <1>12, <1>13, <1>14 DEF Serve, ReadBody, Arrive

LEMMA ContentsOtherSteps ==
    ASSUME TypeInv, Stages, Contents, Takings, NEW c \in Connections,
           NoNewUpload(c), temp' = temp, met' = met
    PROVE  Contents' /\ Takings'
<1>1. \A d \in Connections, i \in Nat : Owns(req'[d], i) =>
        /\ Owns(req[d], i) /\ FileOf(req'[d], i) = FileOf(req[d], i)
        /\ Written(req'[d], i) = Written(req[d], i)
    BY DEF NoNewUpload, FileOf
<1>2. \A d \in Connections : req'[d].pc = "upload" => req'[d] = req[d]
    BY DEF NoNewUpload
<1>3. Contents'
    BY <1>1 DEF Contents
<1>4. Takings'
    BY <1>1, <1>2 DEF Takings
<1> QED BY <1>3, <1>4

LEMMA ContentsLeave ==
    ASSUME TypeInv, Stages, Contents, Takings, NEW c \in Connections, Leave(c)
    PROVE  Contents' /\ Takings'
<1>1. req' = [req EXCEPT ![c] = Fresh] /\ met' = [met EXCEPT ![c] = {}] /\ temp' = temp
    BY DEF Leave, Goes
<1>2. req'[c] = Fresh /\ Fresh.pc = "idle"
    BY <1>1 DEF TypeInv, Fresh
<1>3. \A d \in Connections : d # c => req'[d] = req[d] /\ met'[d] = met[d]
    BY <1>1 DEF TypeInv
<1>4. \A d \in Connections, i \in Nat : Owns(req'[d], i) \/ req'[d].pc = "upload" => d # c
    BY <1>2 DEF Owns, Reading
<1>5. Contents'
    BY <1>1, <1>3, <1>4 DEF Contents
<1>6. Takings'
    <2> SUFFICES ASSUME NEW a \in Connections, NEW d \in Connections, NEW i \in Nat,
                        Owns(req'[a], i), req'[d].pc = "upload", <<a, i>> # <<d, req'[d].at>>,
                        FileOf(req'[a], i) = FileOf(req'[d], req'[d].at)
                 PROVE  FileOf(req'[a], i) \in met'[a]
        BY DEF Takings
    <2>1. a # c /\ d # c
        BY <1>4
    <2>2. req'[a] = req[a] /\ req'[d] = req[d] /\ met'[a] = met[a]
        BY <1>3, <2>1
    <2> QED BY <2>2 DEF Takings
<1> QED BY <1>5, <1>6

\* File::create empties a file; whoever had it knows.
LEMMA ContentsCreate ==
    ASSUME TypeInv, Stages, Contents, Takings, NEW c \in Connections, CreateFile(c)
    PROVE  Contents' /\ Takings'
<1> DEFINE at == req[c].at
           name == Upcoming(c).content
<1>1. req[c] \in Request /\ Sound(req[c]) /\ req \in [Connections -> Request]
        /\ req[c].pc = "form" /\ req[c].msg = Msg(c)
    BY DEF TypeInv, Stages, CreateFile, MoreFields, At, Msg
<1>2. at \in Nat
    BY <1>1, RequestType
<1>3. name \in FileNames
    BY DEF CreateFile, IsUpload
<1>4. /\ \A d \in Connections : d # c => req'[d] = req[d]
      /\ req'[c].pc = "upload" /\ req'[c].at = at + 1 /\ req'[c].wrote = 0
      /\ req'[c].msg = req[c].msg /\ req'[c].result = req[c].result
    BY <1>1, RequestType DEF CreateFile, Goes
<1>5. temp'[name] = <<>> /\ \A g \in FileNames : g # name => temp'[g] = temp[g]
    BY <1>3 DEF CreateFile, TypeInv
<1>6. met' = Meets(c, name)
    BY DEF CreateFile
<1>7. /\ \A d \in Connections : met[d] \subseteq met'[d]
      /\ \A d \in Connections : d # c /\ req[d].pc # "idle" => name \in met'[d]
      /\ Uploaded(c, name) => name \in met'[c]
      /\ \A d \in Connections : d # c /\ Writes(d, name) => name \in met'[c]
    BY <1>6 DEF Meets, At
<1>8. FileOf(req'[c], at + 1) = name
    BY <1>1, <1>4 DEF FileOf, Upcoming
<1>9. \A d \in Connections : \A i : Owns(req[d], i) =>
        i \in 1..req[d].at /\ FileOf(req[d], i) \in FileNames /\ req[d].pc # "idle"
    BY OwnsUploads DEF TypeInv, Stages, FileOf, IsUpload, Owns, Reading
<1>10. \A d \in Connections, i \in Nat : Owns(req'[d], i) =>
        \/ d = c /\ i = at + 1
        \/ /\ Owns(req[d], i) /\ FileOf(req'[d], i) = FileOf(req[d], i)
           /\ Written(req'[d], i) = Written(req[d], i)
    <2> SUFFICES ASSUME NEW i \in Nat, Owns(req'[c], i), i # at + 1
                 PROVE  /\ Owns(req[c], i) /\ FileOf(req'[c], i) = FileOf(req[c], i)
                        /\ Written(req'[c], i) = Written(req[c], i)
        BY <1>4
    <2>1. Owns(req[c], i)
        BY <1>1, <1>4 DEF Owns, Reading
    <2> QED BY <1>1, <1>4, <2>1 DEF FileOf, Written
<1>11. \A i : Owns(req[c], i) /\ FileOf(req[c], i) = name => Uploaded(c, name)
    BY <1>1, <1>9 DEF Uploaded, FileOf
<1> HIDE DEF name, at
<1>12. Contents'
    <2> SUFFICES ASSUME NEW d \in Connections, NEW i \in Nat, Owns(req'[d], i),
                        FileOf(req'[d], i) \notin met'[d]
                 PROVE  temp'[FileOf(req'[d], i)]
                            = [k \in 1..Written(req'[d], i) |-> <<d, i, k>>]
        BY DEF Contents
    <2>1. CASE d = c /\ i = at + 1
        <3>1. Written(req'[d], i) = 0
            BY <1>4, <2>1 DEF Written
        <3>2. [k \in 1..0 |-> <<d, i, k>>] = <<>>
            OBVIOUS
        <3> QED BY <1>5, <1>8, <2>1, <3>1, <3>2
    <2>2. CASE ~(d = c /\ i = at + 1)
        <3>1. /\ Owns(req[d], i) /\ FileOf(req'[d], i) = FileOf(req[d], i)
              /\ Written(req'[d], i) = Written(req[d], i)
            BY <1>10, <2>2
        <3>2. FileOf(req[d], i) # name
            BY <1>7, <1>9, <1>11, <3>1
        <3>3. temp'[FileOf(req[d], i)] = temp[FileOf(req[d], i)]
            BY <1>5, <1>9, <3>1, <3>2
        <3>4. FileOf(req[d], i) \notin met[d]
            BY <1>7, <3>1
        <3> QED BY <3>1, <3>3, <3>4 DEF Contents
    <2> QED BY <2>1, <2>2
<1>13. Takings'
    <2> SUFFICES ASSUME NEW a \in Connections, NEW d \in Connections, NEW i \in Nat,
                        Owns(req'[a], i), req'[d].pc = "upload", <<a, i>> # <<d, req'[d].at>>,
                        FileOf(req'[a], i) = FileOf(req'[d], req'[d].at)
                 PROVE  FileOf(req'[a], i) \in met'[a]
        BY DEF Takings
    <2>1. CASE d = c
        <3>1. ~(a = c /\ i = at + 1) /\ FileOf(req'[a], i) = name
            BY <1>4, <1>8, <2>1
        <3>2. Owns(req[a], i) /\ FileOf(req[a], i) = name
            BY <1>10, <3>1
        <3> QED BY <1>7, <1>9, <1>11, <3>1, <3>2
    <2>2. CASE d # c /\ a = c /\ i = at + 1
        <3>1. req'[d] = req[d] /\ FileOf(req'[a], i) = name
            BY <1>4, <1>8, <2>2
        <3>2. Writes(d, name)
            BY <3>1 DEF Writes, At, This, Msg, FileOf
        <3> QED BY <1>7, <2>2, <3>1, <3>2
    <2>3. CASE d # c /\ ~(a = c /\ i = at + 1)
        <3>1. req'[d] = req[d] /\ Owns(req[a], i) /\ FileOf(req'[a], i) = FileOf(req[a], i)
            BY <1>4, <1>10, <2>3
        <3>2. FileOf(req[a], i) \in met[a]
            BY <3>1 DEF Takings
        <3> QED BY <1>7, <3>1, <3>2
    <2> QED BY <2>1, <2>2, <2>3
<1> QED BY <1>12, <1>13

\* Each upload writes at its own position.
LEMMA ContentsWrite ==
    ASSUME TypeInv, Stages, Contents, Takings, NEW c \in Connections, WriteChunk(c)
    PROVE  Contents' /\ Takings'
<1> DEFINE at == req[c].at
           wrote == req[c].wrote
           name == FileOf(req[c], at)
           piece == <<c, at, wrote + 1>>
<1>1. req[c] \in Request /\ Sound(req[c]) /\ req \in [Connections -> Request]
        /\ req[c].pc = "upload" /\ req[c].msg = Msg(c)
    BY DEF TypeInv, Stages, WriteChunk, At, Msg
<1>2. at \in Nat /\ wrote \in Nat /\ Owns(req[c], at)
    BY <1>1, RequestType DEF Owns, Reading
<1>3. name = This(c).content /\ name \in FileNames
    BY <1>1, FormFacts DEF FileOf, This, IsUpload
<1>4. /\ \A d \in Connections : d # c => req'[d] = req[d]
      /\ req'[c].pc = "upload" /\ req'[c].at = at /\ req'[c].wrote = wrote + 1
      /\ req'[c].msg = req[c].msg /\ req'[c].result = req[c].result
    BY <1>1, RequestType DEF WriteChunk, Goes
<1>5. /\ temp'[name] = WriteAt(temp[name], wrote + 1, piece)
      /\ \A g \in FileNames : g # name => temp'[g] = temp[g]
      /\ met' = met
    BY <1>3 DEF WriteChunk, TypeInv
<1>6. \A d \in Connections, i \in Nat :
        /\ Owns(req'[d], i) <=> Owns(req[d], i)
        /\ FileOf(req'[d], i) = FileOf(req[d], i)
        /\ ~(d = c /\ i = at) => Written(req'[d], i) = Written(req[d], i)
    BY <1>1, <1>4 DEF Owns, FileOf, Written, Reading
<1>7. \A d \in Connections : (req'[d].pc = "upload" <=> req[d].pc = "upload")
                                /\ req'[d].at = req[d].at /\ req[d].at \in Nat
    BY <1>1, <1>4, RequestType
<1>8. piece \in Pieces /\ wrote + 1 \in Nat \ {0} /\ temp[name] \in Seq(Pieces)
    BY <1>2, <1>3 DEF Pieces, TypeInv
<1>9. \A d \in Connections, i \in Nat : Owns(req[d], i) => FileOf(req[d], i) \in FileNames
    BY OwnsUploads DEF TypeInv, Stages, FileOf, IsUpload
<1>10. Contents'
    <2> SUFFICES ASSUME NEW d \in Connections, NEW i \in Nat, Owns(req'[d], i),
                        FileOf(req'[d], i) \notin met'[d]
                 PROVE  temp'[FileOf(req'[d], i)]
                            = [k \in 1..Written(req'[d], i) |-> <<d, i, k>>]
        BY DEF Contents
    <2>1. Owns(req[d], i) /\ FileOf(req'[d], i) = FileOf(req[d], i) /\ FileOf(req[d], i) \notin met[d]
        BY <1>5, <1>6
    <2>2. temp[FileOf(req[d], i)] = [k \in 1..Written(req[d], i) |-> <<d, i, k>>]
        BY <2>1 DEF Contents
    <2>3. CASE d = c /\ i = at
        <3>1. Written(req[d], i) = wrote /\ Written(req'[d], i) = wrote + 1
            BY <1>1, <1>4, <2>3 DEF Written
        <3>2. FileOf(req[d], i) = name /\ temp[name] = [k \in 1..wrote |-> <<c, at, k>>]
            BY <2>2, <2>3, <3>1
        <3> HIDE DEF piece, wrote, name, at
        <3>3. Len(temp[name]) = wrote
            BY <1>2, <3>2
        <3>4. temp'[name] = [j \in 1..(wrote + 1) |-> IF j = wrote + 1 THEN piece ELSE temp[name][j]]
            <4> DEFINE n == wrote + 1
            <4>1. n \in Nat \ {0} /\ n - 1 = wrote
                BY <1>2
            <4>2. Len(temp[name]) = n - 1
                BY <3>3, <4>1
            <4> HIDE DEF n
            <4>3. WriteAt(temp[name], n, piece) =
                    [j \in 1..n |-> IF j = n THEN piece ELSE temp[name][j]]
                BY <1>8, <4>1, <4>2, WriteAtType, ZenonT(30)
            <4> QED BY <1>5, <4>3 DEF n
        <3>5. \A j \in 1..(wrote + 1) : j # wrote + 1 => temp[name][j] = <<c, at, j>>
            BY <1>2, <3>2
        <3>6. temp'[name] = [j \in 1..(wrote + 1) |-> <<c, at, j>>]
            BY <3>4, <3>5 DEF piece
        <3> QED BY <2>1, <2>3, <3>1, <3>2, <3>6
    <2>4. CASE ~(d = c /\ i = at)
        <3>1. <<d, i>> # <<c, req[c].at>>
            BY <2>4
        <3>2. FileOf(req[d], i) # name
            BY <1>1, <2>1, <3>1 DEF Takings
        <3>3. temp'[FileOf(req[d], i)] = temp[FileOf(req[d], i)]
            BY <1>5, <1>9, <2>1, <3>2
        <3> HIDE DEF name, at
        <3> QED BY <1>6, <2>1, <2>2, <2>4, <3>3
    <2> QED BY <2>3, <2>4
<1>11. Takings'
    <2> SUFFICES ASSUME NEW a \in Connections, NEW d \in Connections, NEW i \in Nat,
                        Owns(req'[a], i), req'[d].pc = "upload", <<a, i>> # <<d, req'[d].at>>,
                        FileOf(req'[a], i) = FileOf(req'[d], req'[d].at)
                 PROVE  FileOf(req'[a], i) \in met'[a]
        BY DEF Takings
    <2>1. /\ Owns(req[a], i) /\ req[d].pc = "upload" /\ <<a, i>> # <<d, req[d].at>>
          /\ FileOf(req[a], i) = FileOf(req[d], req[d].at) /\ FileOf(req'[a], i) = FileOf(req[a], i)
        BY <1>6, <1>7
    <2> QED BY <1>5, <2>1 DEF Takings
<1> QED BY <1>10, <1>11

\* So does the piece of an upload that fails, and then it is over.
LEMMA ContentsFail ==
    ASSUME TypeInv, Stages, Contents, Takings, NEW c \in Connections, FailToWrite(c)
    PROVE  Contents' /\ Takings'
<1> DEFINE name == FileOf(req[c], req[c].at)
<1>1. req[c] \in Request /\ Sound(req[c]) /\ req \in [Connections -> Request]
    BY DEF TypeInv, Stages
<1>2. /\ \A d \in Connections : d # c => req'[d] = req[d]
      /\ req'[c].pc = "panicked" /\ met' = met
    BY <1>1, RequestType DEF FailToWrite, Goes
<1>3. \/ temp' = temp
      \/ req[c].pc = "upload" /\ \A g \in FileNames : g # name => temp'[g] = temp[g]
    BY DEF FailToWrite, At, This, Msg, FileOf, TypeInv
<1>4. \A d \in Connections, i \in Nat : Owns(req'[d], i) \/ req'[d].pc = "upload" =>
        d # c /\ req'[d] = req[d]
    BY <1>2 DEF Owns, Reading
<1>5. \A d \in Connections, i \in Nat : Owns(req[d], i) => FileOf(req[d], i) \in FileNames
    BY OwnsUploads DEF TypeInv, Stages, FileOf, IsUpload
<1> HIDE DEF name
<1>6. Contents'
    <2> SUFFICES ASSUME NEW d \in Connections, NEW i \in Nat, Owns(req'[d], i),
                        FileOf(req'[d], i) \notin met'[d]
                 PROVE  temp'[FileOf(req'[d], i)]
                            = [k \in 1..Written(req'[d], i) |-> <<d, i, k>>]
        BY DEF Contents
    <2>1. d # c /\ req'[d] = req[d] /\ FileOf(req[d], i) \notin met[d] /\ Owns(req[d], i)
        BY <1>2, <1>4
    <2>2. req[c].pc = "upload" => FileOf(req[d], i) # name
        <3>1. <<d, i>> # <<c, req[c].at>>
            BY <2>1
        <3> QED BY <2>1, <3>1 DEF Takings, name
    <2>3. temp'[FileOf(req[d], i)] = temp[FileOf(req[d], i)]
        BY <1>3, <1>5, <2>1, <2>2
    <2> QED BY <2>1, <2>3 DEF Contents
<1>7. Takings'
    BY <1>2, <1>4 DEF Takings
<1> QED BY <1>6, <1>7

LEMMA ContentsKept ==
    TypeInv /\ Stages /\ Contents /\ Takings /\ [Next]_vars => Contents' /\ Takings'
<1> SUFFICES ASSUME TypeInv, Stages, Contents, Takings, [Next]_vars PROVE Contents' /\ Takings'
    OBVIOUS
<1>1. CASE Next
    <2>1. PICK c \in Connections : Arrive(c) \/ Serve(c) \/ Break(c) \/ FailToWrite(c)
        BY <1>1 DEF Next
    <2> QED BY <2>1, OtherStepsOwn, ContentsOtherSteps, ContentsLeave, ContentsCreate, ContentsWrite,
              ContentsFail
<1>2. CASE UNCHANGED vars
    BY <1>2 DEF vars, Contents, Takings
<1> QED BY <1>1, <1>2

\* Until the handler returns, a file that it is given holds what was uploaded,
\* all of it and nothing of another upload, unless another upload took its
\* name meanwhile: for any number of requests, files and pieces (File::create
\* and write_all of parse_form_body).
THEOREM RequestsUploadsKeepContent == Spec => []UploadsKeepContent
<1>1. Init => Contents /\ Takings
    BY DEF Init, Contents, Takings, Owns, Reading, Fresh
<1>2. TypeInv /\ Stages /\ Contents => UploadsKeepContent
    <2> SUFFICES ASSUME TypeInv, Stages, Contents, NEW c \in Connections,
                        req[c].pc \in {"call", "handler"}, NEW i \in UploadsOf(req[c].result),
                        Msg(c).fields[i].content \notin met[c]
                 PROVE  temp[Msg(c).fields[i].content]
                            = [k \in 1..Msg(c).fields[i].chunks |-> <<c, i, k>>]
        BY DEF UploadsKeepContent
    <2>1. Owns(req[c], i) /\ req[c] \in Request /\ Sound(req[c]) /\ req[c].msg = Msg(c)
        BY DEF Owns, Reading, TypeInv, Stages, Msg
    <2>2. i \in Nat
        <3>1. i \in 1..req[c].at /\ req[c].at \in Nat
            BY <2>1, OwnsUploads, RequestType
        <3> QED BY <3>1
    <2>3. FileOf(req[c], i) = Msg(c).fields[i].content
            /\ Written(req[c], i) = Msg(c).fields[i].chunks
        BY <2>1 DEF FileOf, Written
    <2> QED BY <2>1, <2>2, <2>3 DEF Contents
<1> QED BY <1>1, <1>2, ContentsKept, StagesHold, PTL DEF Spec
===============================================================================
