--------------------------- MODULE ApplicationProofs ---------------------------
(***************************************************************************)
(* For every command line, every schema, any threads and any requests:     *)
(* what the process that runs an App keeps to; and that a command that     *)
(* returns, a server that listens and a dangerous operation that answers   *)
(* have done what they were asked for.                                     *)
(***************************************************************************)
EXTENDS Application, NumberInduction, SequenceTheorems

-------------------------------------------------------------------------------
\* Command lines.

\* upto[n] is what is chosen from the first n members of s.
Chooses(upto, s, I) ==
    /\ upto[0] = <<>>
    /\ \A n \in 1..Len(s) :
           upto[n] = IF n \in I THEN Append(upto[n-1], s[n]) ELSE upto[n-1]
    /\ Chosen(s, I) = upto[Len(s)]

\* Chosen goes through a sequence one member at a time.
LEMMA ChosenSteps ==
    ASSUME NEW s, Len(s) \in Nat, NEW I
    PROVE  \E upto : Chooses(upto, s, I)
<1> DEFINE N == Len(s)
           Body(f, n) == IF n = 0 THEN <<>>
                         ELSE IF n \in I THEN Append(f[n-1], s[n]) ELSE f[n-1]
           Upto(f, n) == f = [k \in 0..n |-> Body(f, k)]
           S == {n \in Nat : \E f : Upto(f, n)}
           upto == CHOOSE f : f = [n \in 0..N |-> IF n = 0 THEN <<>>
                         ELSE IF n \in I THEN Append(f[n-1], s[n]) ELSE f[n-1]]
<1>1. 0 \in S
    <2> DEFINE f == [k \in 0..0 |-> <<>>]
    <2>1. f = [k \in 0..0 |-> Body(f, k)]
        OBVIOUS
    <2> HIDE DEF f, Body
    <2>2. Upto(f, 0)
        BY <2>1
    <2> QED BY <2>2
<1>2. ASSUME NEW n \in Nat, n \in S PROVE n + 1 \in S
    <2>1. PICK f : Upto(f, n)
        BY <1>2
    <2> DEFINE e == [k \in 0..n+1 |-> IF k = n + 1 THEN Body(f, k) ELSE f[k]]
    <2>2. ASSUME NEW k \in 0..n+1 PROVE Body(e, k) = Body(f, k)
        <3>1. k # 0 => e[k-1] = f[k-1]
            OBVIOUS
        <3> HIDE DEF e
        <3> QED BY <3>1
    <2>3. ASSUME NEW k \in 0..n+1 PROVE e[k] = Body(f, k)
        <3> HIDE DEF Body
        <3>1. CASE k = n + 1
            BY <3>1
        <3>2. CASE k \in 0..n
            BY <2>1, <3>2
        <3> QED BY <3>1, <3>2
    <2>4. e = [k \in 0..n+1 |-> Body(e, k)]
        <3>1. \A k \in 0..n+1 : e[k] = Body(e, k)
            BY <2>2, <2>3
        <3>2. DOMAIN e = 0..n+1 /\ e = [k \in DOMAIN e |-> e[k]]
            OBVIOUS
        <3> HIDE DEF e, Body
        <3> QED BY <3>1, <3>2
    <2> HIDE DEF e, Body
    <2>5. Upto(e, n + 1)
        BY <2>4
    <2> HIDE DEF Upto
    <2> QED BY <2>5
<1> HIDE DEF S
<1>3. N \in S
    BY <1>1, <1>2, SetInduction
<1>4. \E f : f = [n \in 0..N |-> IF n = 0 THEN <<>>
                         ELSE IF n \in I THEN Append(f[n-1], s[n]) ELSE f[n-1]]
    BY <1>3 DEF S
<1>5. upto = [n \in 0..N |-> IF n = 0 THEN <<>>
                         ELSE IF n \in I THEN Append(upto[n-1], s[n]) ELSE upto[n-1]]
    BY <1>4, Zenon
<1>6. Chosen(s, I) = upto[N]
    BY DEF Chosen
<1> HIDE DEF upto
<1>7. 0 \in 0..N /\ \A n \in 1..N : n \in 0..N /\ n # 0
    OBVIOUS
<1>8. upto[0] = <<>>
    BY <1>5, <1>7
<1>9. ASSUME NEW n \in 1..N
      PROVE  upto[n] = IF n \in I THEN Append(upto[n-1], s[n]) ELSE upto[n-1]
    BY <1>5, <1>7, Zenon
<1>10. Chooses(upto, s, I)
    BY <1>6, <1>8, <1>9 DEF Chooses
<1> QED BY <1>10

\* What is chosen from a sequence is a sequence of its members.
LEMMA ChosenType ==
    ASSUME NEW T, NEW s \in Seq(T), NEW I
    PROVE  Chosen(s, I) \in Seq(T)
<1>1. Len(s) \in Nat
    OBVIOUS
<1>0. PICK upto : Chooses(upto, s, I)
    BY <1>1, ChosenSteps, Zenon
<1>2. /\ upto[0] = <<>>
      /\ \A n \in 1..Len(s) :
             upto[n] = IF n \in I THEN Append(upto[n-1], s[n]) ELSE upto[n-1]
      /\ Chosen(s, I) = upto[Len(s)]
    BY <1>0 DEF Chooses
<1> DEFINE S == {n \in 0..Len(s) : upto[n] \in Seq(T)}
<1>3. 0 \in S
    <2>1. <<>> \in Seq(T) /\ 0 \in 0..Len(s)
        BY <1>1
    <2>2. upto[0] \in Seq(T)
        BY <1>2, <2>1
    <2> QED BY <2>1, <2>2
<1>4. ASSUME NEW n \in 0..(Len(s) - 1), n \in S PROVE n + 1 \in S
    <2>1. n + 1 \in 1..Len(s) /\ n + 1 - 1 = n /\ n + 1 \in 0..Len(s)
        BY <1>1
    <2>2. upto[n+1] = IF n + 1 \in I THEN Append(upto[n], s[n+1]) ELSE upto[n]
        BY <1>2, <2>1
    <2>3. s[n+1] \in T /\ upto[n] \in Seq(T)
        BY <1>4, <2>1
    <2>4. Append(upto[n], s[n+1]) \in Seq(T)
        BY <2>3, AppendProperties
    <2> QED BY <2>1, <2>2, <2>3, <2>4
<1> HIDE DEF S
<1>5. 0..Len(s) \subseteq S
    BY <1>1, <1>3, <1>4, SetInductionUpTo
<1> QED BY <1>1, <1>2, <1>5 DEF S

\* Choosing the first member and all that follow the n-th leaves those.
LEMMA ChosenFront ==
    ASSUME NEW T, NEW s \in Seq(T), NEW front \in 1..Len(s), NEW I,
           \A i \in 1..Len(s) : i \in I <=> i = 1 \/ i > front
    PROVE  /\ Chosen(s, I) # <<>>
           /\ Tail(Chosen(s, I)) = SubSeq(s, front + 1, Len(s))
<1>1. Len(s) \in Nat
    OBVIOUS
<1>0. PICK upto : Chooses(upto, s, I)
    BY <1>1, ChosenSteps, Zenon
<1>2. /\ upto[0] = <<>>
      /\ \A n \in 1..Len(s) :
             upto[n] = IF n \in I THEN Append(upto[n-1], s[n]) ELSE upto[n-1]
      /\ Chosen(s, I) = upto[Len(s)]
    BY <1>0 DEF Chooses
<1> DEFINE Kept(n) == IF n <= front THEN 1 ELSE n - front + 1
           S == {n \in 0..Len(s) : n # 0 =>
                   /\ upto[n] \in Seq(T)
                   /\ Len(upto[n]) = Kept(n)
                   /\ \A k \in 2..Kept(n) : upto[n][k] = s[front + k - 1]}
<1>3. 0 \in S
    BY <1>1
<1>4. ASSUME NEW n \in 0..(Len(s) - 1), n \in S PROVE n + 1 \in S
    <2>1. n + 1 \in 1..Len(s) /\ n + 1 - 1 = n /\ n + 1 \in 0..Len(s)
        BY <1>1
    <2>2. upto[n+1] = IF n + 1 = 1 \/ n + 1 > front THEN Append(upto[n], s[n+1]) ELSE upto[n]
        BY <1>2, <2>1
    <2>3. s[n+1] \in T
        BY <2>1
    <2>4. CASE n = 0
        <3>1. upto[n+1] = Append(<<>>, s[n+1])
            BY <1>2, <2>2, <2>4
        <3>2. <<>> \in Seq(T) /\ Len(<<>>) = 0
            OBVIOUS
        <3>3. upto[n+1] \in Seq(T) /\ Len(upto[n+1]) = 1
            BY <2>3, <3>1, <3>2, AppendProperties
        <3> QED BY <2>1, <2>4, <3>3
    <2>5. CASE n # 0
        <3>1. /\ upto[n] \in Seq(T)
              /\ Len(upto[n]) = Kept(n)
              /\ \A k \in 2..Kept(n) : upto[n][k] = s[front + k - 1]
            BY <1>4, <2>5
        <3>2. CASE n + 1 > front
            <4>1. upto[n+1] = Append(upto[n], s[n+1])
                BY <2>2, <3>2
            <4>2. /\ upto[n+1] \in Seq(T)
                  /\ Len(upto[n+1]) = Len(upto[n]) + 1
                  /\ \A k \in 1..Len(upto[n]) : upto[n+1][k] = upto[n][k]
                  /\ upto[n+1][Len(upto[n]) + 1] = s[n+1]
                BY <2>3, <3>1, <4>1, AppendProperties
            <4>3. Kept(n + 1) = Kept(n) + 1 /\ Kept(n) = n - front + 1
                BY <2>1, <2>5, <3>2
            <4>4. ASSUME NEW k \in 2..Kept(n + 1) PROVE upto[n+1][k] = s[front + k - 1]
                <5> HIDE DEF Kept
                <5>1. CASE k \in 2..Kept(n)
                    <6>1. k \in 1..Len(upto[n])
                        BY <3>1, <5>1
                    <6> QED BY <3>1, <4>2, <5>1, <6>1
                <5>2. CASE k = Kept(n) + 1
                    <6>1. k = Len(upto[n]) + 1 /\ front + k - 1 = n + 1
                        BY <3>1, <4>3, <5>2
                    <6> QED BY <4>2, <6>1
                <5>3. k \in Int /\ k >= 2 /\ k <= Kept(n) + 1 /\ Kept(n) \in Int
                    BY <4>3
                <5> QED BY <5>1, <5>2, <5>3
            <4> QED BY <2>1, <3>1, <4>2, <4>3, <4>4
        <3>3. CASE n + 1 <= front
            <4>1. upto[n+1] = upto[n] /\ Kept(n + 1) = 1 /\ Kept(n) = 1
                BY <2>2, <2>5, <3>3
            <4> QED BY <2>1, <3>1, <4>1
        <3> QED BY <2>1, <3>2, <3>3
    <2> QED BY <2>4, <2>5
<1> HIDE DEF S
<1>5. 0..Len(s) \subseteq S
    BY <1>1, <1>3, <1>4, SetInductionUpTo
<1> DEFINE chosen == Chosen(s, I)
<1>6. /\ chosen \in Seq(T)
      /\ Len(chosen) = Len(s) - front + 1
      /\ \A k \in 2..Len(chosen) : chosen[k] = s[front + k - 1]
    <2>1. Len(s) \in 0..Len(s) /\ Len(s) # 0 /\ Kept(Len(s)) = Len(s) - front + 1
        BY <1>1
    <2>2. Len(s) \in S
        BY <1>5, <2>1
    <2>3. /\ upto[Len(s)] \in Seq(T)
          /\ Len(upto[Len(s)]) = Kept(Len(s))
          /\ \A k \in 2..Kept(Len(s)) : upto[Len(s)][k] = s[front + k - 1]
        BY <2>1, <2>2 DEF S
    <2>4. chosen = upto[Len(s)]
        BY <1>2
    <2> HIDE DEF chosen, Kept
    <2> QED BY <2>1, <2>3, <2>4
<1> HIDE DEF chosen
<1>7. chosen # <<>>
    BY <1>1, <1>6
<1>8. /\ Tail(chosen) \in Seq(T)
      /\ Len(Tail(chosen)) = Len(s) - front
      /\ \A k \in 1..Len(s) - front : Tail(chosen)[k] = s[front + k]
    <2>1. /\ Tail(chosen) \in Seq(T)
          /\ Len(Tail(chosen)) = Len(chosen) - 1
          /\ \A k \in 1..Len(Tail(chosen)) : Tail(chosen)[k] = chosen[k + 1]
        BY <1>6, <1>7, HeadTailProperties
    <2> QED BY <1>1, <1>6, <2>1
<1>9. /\ SubSeq(s, front + 1, Len(s)) \in Seq(T)
      /\ Len(SubSeq(s, front + 1, Len(s))) = Len(s) - front
      /\ \A k \in 1..Len(s) - front : SubSeq(s, front + 1, Len(s))[k] = s[front + k]
    BY <1>1, SubSeqProperties
<1>10. Tail(chosen) = SubSeq(s, front + 1, Len(s))
    BY <1>1, <1>8, <1>9, SeqEqual
<1> QED BY <1>7, <1>10 DEF chosen

\* The words that a launcher leaves in front do not reach the command: what is
\* parsed is the command of the user's words.
LEMMA ParseIsCommandOf ==
    ASSUME NEW launch \in Launch, Wraps(launch)
    PROVE  Parse(launch.runtime, launch.argv) = CommandOf(launch.words)
<1> DEFINE argv == launch.argv
           words == launch.words
           front == Len(argv) - Len(words)
           I == {i \in 1..Len(argv) : IF launch.runtime = "Rust" THEN ~(i = 2 /\ argv[i] = "teo")
                                       ELSE i # 2 /\ argv[i] \notin Scripts}
<1>1. argv \in Seq(Words) /\ words \in Seq(Words)
    BY DEF Launch
<1>2. Len(argv) \in Nat /\ Len(words) \in Nat
    BY <1>1
<1>3. front \in 1..Len(argv)
    <2>1. front > 0
        BY DEF Wraps
    <2> HIDE DEF argv, words
    <2> QED BY <1>2, <2>1
<1>4. words = SubSeq(argv, front + 1, Len(argv))
    BY DEF Wraps
<1>5. \A i \in 1..Len(argv) : i \in I <=> i = 1 \/ i > front
    <2> HIDE DEF argv, words
    <2>1. CASE launch.runtime = "Rust" /\ front = 1
        <3>1. Len(argv) > 1 => argv[2] # "teo"
            BY <2>1 DEF Wraps, argv, words
        <3> QED BY <1>2, <2>1, <3>1
    <2>2. CASE launch.runtime = "Rust" /\ front # 1
        <3>1. front = 2 /\ argv[2] = "teo"
            BY <2>2 DEF Wraps, argv, words
        <3> QED BY <1>2, <2>2, <3>1
    <2>3. CASE launch.runtime # "Rust"
        <3>1. front > 1 /\ \A i \in 1..Len(argv) \ {2} : argv[i] \in Scripts <=> i \in 3..front
            BY <2>3 DEF Wraps, argv, words
        <3> QED BY <1>2, <1>3, <2>3, <3>1
    <2> QED BY <2>1, <2>2, <2>3
<1>6. Filtered(launch.runtime, argv) = Chosen(argv, I)
    BY DEF Filtered
<1> HIDE DEF I, front, argv, words
<1>7. Chosen(argv, I) # <<>> /\ Tail(Chosen(argv, I)) = words
    BY <1>1, <1>3, <1>4, <1>5, ChosenFront
<1> QED BY <1>6, <1>7 DEF Parse, argv, words

\* A command has a subcommand, flags of that subcommand and names.
LEMMA CommandOfType ==
    ASSUME NEW words \in Seq(Words), CommandOf(words) # NoCommand
    PROVE  /\ CommandOf(words) \in Command
           /\ \E sub \in Subcommands : /\ CommandOf(words).sub = sub.words
                                       /\ CommandOf(words).flags \subseteq sub.flags
<1> DEFINE Args(sub) == SubSeq(words, Len(sub.words) + 1, Len(words))
           fits == {sub \in Subcommands : IsPrefix(sub.words, words) /\ Accepts(sub, Args(sub))}
           sub == CHOOSE sub \in fits : TRUE
<1>1. fits # {} /\ CommandOf(words) = [sub |-> sub.words, flags |-> GivenFlags(Args(sub)),
                                       names |-> GivenNames(Args(sub))]
    BY DEF CommandOf
<1>2. sub \in fits
    BY <1>1
<1> HIDE DEF sub
<1>3. sub \in Subcommands /\ Accepts(sub, Args(sub))
    BY <1>2
<1>4. Len(sub.words) \in Nat
    BY <1>3 DEF Subcommands, Subcommand
<1>5. Args(sub) \in Seq(Words)
    <2>1. Len(words) \in Nat /\ \A i \in Len(sub.words) + 1..Len(words) : words[i] \in Words
        BY <1>4
    <2> QED BY <1>4, <2>1, SubSeqProperties
<1> HIDE DEF Args
<1>6. GivenNames(Args(sub)) \in Seq(Words)
    BY <1>5, ChosenType DEF GivenNames
<1>7. GivenFlags(Args(sub)) \subseteq Flags /\ GivenFlags(Args(sub)) \subseteq sub.flags
    BY <1>3 DEF GivenFlags, Accepts
<1> HIDE DEF fits
<1> QED BY <1>1, <1>3, <1>6, <1>7 DEF Command

-------------------------------------------------------------------------------
\* Plans.

\* The order in which the phases of a command follow each other, whichever of
\* them it has.
Rank == [phase \in Phases |->
            CASE phase = "connect"  -> 1
              [] phase = "migrate"  -> 2
              [] phase = "seed"     -> 3
              [] phase = "purge"    -> 4
              [] phase = "setup"    -> 5
              [] phase = "listen"   -> 6
              [] phase = "program"  -> 7
              [] phase = "generate" -> 8]

Left(plan) == {plan[i] : i \in 1..Len(plan)}
Sorted(plan) == \A i, j \in 1..Len(plan) : i < j => Rank[plan[i]] < Rank[plan[j]]

LEMMA RankType == Rank \in [Phases -> 1..8]
<1> QED BY DEF Rank, Phases

\* Phases of different ranks are different.
LEMMA RankOrders ==
    \A p, q \in Phases : Rank[p] < Rank[q] => p # q
<1> QED BY RankType

\* What is left of a sorted plan after its first phase is the plan without it.
LEMMA TailOfPlan ==
    ASSUME NEW plan \in Seq(Phases), plan # <<>>, Sorted(plan)
    PROVE  /\ Head(plan) \in Left(plan)
           /\ Head(plan) \in Phases
           /\ Tail(plan) \in Seq(Phases)
           /\ Sorted(Tail(plan))
           /\ Left(Tail(plan)) = Left(plan) \ {Head(plan)}
           /\ \A phase \in Left(plan) : phase # Head(plan) => Rank[Head(plan)] < Rank[phase]
<1>1. /\ Head(plan) = plan[1] /\ Head(plan) \in Phases
      /\ Tail(plan) \in Seq(Phases)
      /\ Len(Tail(plan)) = Len(plan) - 1
      /\ \A i \in 1..Len(Tail(plan)) : Tail(plan)[i] = plan[i+1]
    BY HeadTailProperties
<1>2. Len(plan) \in Nat /\ Len(plan) >= 1
    OBVIOUS
<1>3. \A i \in 1..Len(plan) : plan[i] \in Phases /\ Rank[plan[i]] \in 1..8
    BY RankType
<1>4. \A i \in 2..Len(plan) : Rank[plan[1]] < Rank[plan[i]]
    BY <1>2 DEF Sorted
<1>5. \A i \in 2..Len(plan) : plan[i] # plan[1]
    BY <1>2, <1>3, <1>4
<1>6. Sorted(Tail(plan))
    <2> SUFFICES ASSUME NEW i \in 1..Len(plan) - 1, NEW j \in 1..Len(plan) - 1, i < j
                 PROVE  Rank[Tail(plan)[i]] < Rank[Tail(plan)[j]]
        BY <1>1 DEF Sorted
    <2>1. i + 1 \in 1..Len(plan) /\ j + 1 \in 1..Len(plan) /\ i + 1 < j + 1
        BY <1>2
    <2>2. Rank[plan[i+1]] < Rank[plan[j+1]]
        BY <2>1 DEF Sorted
    <2> QED BY <1>1, <2>2
<1>7. Left(Tail(plan)) = {plan[i] : i \in 2..Len(plan)}
    <2>1. ASSUME NEW i \in 2..Len(plan) PROVE plan[i] \in Left(Tail(plan))
        <3>1. i - 1 \in 1..Len(Tail(plan)) /\ Tail(plan)[i-1] = plan[i]
            BY <1>1, <1>2
        <3> QED BY <3>1 DEF Left
    <2>2. ASSUME NEW i \in 1..Len(Tail(plan)) PROVE Tail(plan)[i] \in {plan[j] : j \in 2..Len(plan)}
        <3>1. i + 1 \in 2..Len(plan) /\ Tail(plan)[i] = plan[i+1]
            BY <1>1, <1>2
        <3> QED BY <3>1
    <2> QED BY <2>1, <2>2 DEF Left
<1>8. Left(plan) = {plan[1]} \union {plan[i] : i \in 2..Len(plan)}
    BY <1>2 DEF Left
<1> QED BY <1>1, <1>2, <1>4, <1>5, <1>6, <1>7, <1>8

\* Plans that follow each other make a plan.
LEMMA ConcatOfPlans ==
    ASSUME NEW one \in Seq(Phases), NEW two \in Seq(Phases), Sorted(one), Sorted(two),
           \A p \in Left(one), q \in Left(two) : Rank[p] < Rank[q]
    PROVE  /\ one \o two \in Seq(Phases)
           /\ Sorted(one \o two)
           /\ Left(one \o two) = Left(one) \union Left(two)
<1>1. /\ one \o two \in Seq(Phases)
      /\ Len(one \o two) = Len(one) + Len(two)
      /\ \A i \in 1..Len(one) + Len(two) :
            (one \o two)[i] = IF i <= Len(one) THEN one[i] ELSE two[i - Len(one)]
    BY ConcatProperties
<1>2. Len(one) \in Nat /\ Len(two) \in Nat
    OBVIOUS
<1> DEFINE both == one \o two
<1> HIDE DEF both
<1>3. \A i \in 1..Len(one) : i \in 1..Len(one) + Len(two) /\ both[i] = one[i]
    BY <1>1, <1>2 DEF both
<1>4. \A i \in Len(one) + 1..Len(one) + Len(two) :
            i - Len(one) \in 1..Len(two) /\ both[i] = two[i - Len(one)]
    BY <1>1, <1>2 DEF both
<1>5. Sorted(both)
    <2> SUFFICES ASSUME NEW i \in 1..Len(one) + Len(two), NEW j \in 1..Len(one) + Len(two), i < j
                 PROVE  Rank[both[i]] < Rank[both[j]]
        BY <1>1 DEF Sorted, both
    <2>1. CASE j \in 1..Len(one)
        <3>1. i \in 1..Len(one)
            BY <1>2, <2>1
        <3>2. Rank[one[i]] < Rank[one[j]]
            BY <2>1, <3>1 DEF Sorted
        <3> QED BY <1>3, <2>1, <3>1, <3>2
    <2>2. CASE i \in Len(one) + 1..Len(one) + Len(two)
        <3>1. j \in Len(one) + 1..Len(one) + Len(two) /\ i - Len(one) < j - Len(one)
            BY <1>2, <2>2
        <3>2. Rank[two[i - Len(one)]] < Rank[two[j - Len(one)]]
            BY <1>4, <2>2, <3>1 DEF Sorted
        <3> QED BY <1>4, <2>2, <3>1, <3>2
    <2>3. CASE i \in 1..Len(one) /\ j \in Len(one) + 1..Len(one) + Len(two)
        <3>1. both[i] \in Left(one) /\ both[j] \in Left(two)
            BY <1>3, <1>4, <2>3 DEF Left
        <3> QED BY <3>1
    <2> QED BY <1>2, <2>1, <2>2, <2>3
<1>6. Left(both) = Left(one) \union Left(two)
    <2>1. Left(both) \subseteq Left(one) \union Left(two)
        <3> SUFFICES ASSUME NEW i \in 1..Len(one) + Len(two)
                     PROVE  both[i] \in Left(one) \union Left(two)
            BY <1>1 DEF Left, both
        <3>1. i \in 1..Len(one) \/ i \in Len(one) + 1..Len(one) + Len(two)
            BY <1>2
        <3> QED BY <1>3, <1>4, <3>1 DEF Left
    <2>2. Left(one) \subseteq Left(both)
        BY <1>1, <1>3 DEF Left, both
    <2>3. Left(two) \subseteq Left(both)
        <3> SUFFICES ASSUME NEW i \in 1..Len(two) PROVE two[i] \in Left(both)
            BY DEF Left
        <3>1. /\ i + Len(one) \in Len(one) + 1..Len(one) + Len(two)
              /\ i + Len(one) - Len(one) = i
              /\ i + Len(one) \in 1..Len(one) + Len(two)
            BY <1>2
        <3>2. both[i + Len(one)] = two[i]
            BY <1>4, <3>1
        <3>3. Len(both) = Len(one) + Len(two)
            BY <1>1 DEF both
        <3> QED BY <3>1, <3>2, <3>3 DEF Left
    <2> QED BY <2>1, <2>2, <2>3
<1> QED BY <1>1, <1>5, <1>6 DEF both

LEMMA PlanOfOne ==
    ASSUME NEW phase \in Phases
    PROVE  <<phase>> \in Seq(Phases) /\ Sorted(<<phase>>) /\ Left(<<phase>>) = {phase}
<1>1. Len(<<phase>>) = 1 /\ <<phase>>[1] = phase
    OBVIOUS
<1> QED BY <1>1 DEF Sorted, Left

LEMMA PlanOfNone == <<>> \in Seq(Phases) /\ Sorted(<<>>) /\ Left(<<>>) = {}
<1>1. Len(<<>>) = 0
    OBVIOUS
<1> QED BY <1>1 DEF Sorted, Left

LEMMA PlanOfIf ==
    ASSUME NEW phase \in Phases, NEW condition
    PROVE  /\ If(condition, phase) \in Seq(Phases)
           /\ Sorted(If(condition, phase))
           /\ Left(If(condition, phase)) \subseteq {phase}
           /\ phase \in Left(If(condition, phase)) <=> condition
<1> QED BY PlanOfOne, PlanOfNone DEF If

LEMMA SubcommandWords ==
    {sub.words : sub \in Subcommands} =
        {<<"serve">>, <<"generate", "client">>, <<"generate", "entity">>,
         <<"generate", "admin">>, <<"migrate">>, <<"seed">>, <<"purge">>, <<"lint">>, <<"run">>}
<1> QED BY DEF Subcommands, Subcommand

\* The phases of every command, in their order: the databases are connected
\* before anything is done with them.
PlanFits ==
    /\ Plan \in Seq(Phases)
    /\ Sorted(Plan)
    /\ Left(Plan) \subseteq {"generate"} \/ "connect" \in Left(Plan)
    /\ "generate" \in Left(Plan) => Head(ctx.cli.sub) = "generate"
    /\ "seed" \in Left(Plan) => ctx.cli.sub \in {<<"serve">>, <<"seed">>}
    /\ "listen" \in Left(Plan) => ctx.cli.sub = <<"serve">>
    /\ "purge" \in Left(Plan) => ctx.cli.sub = <<"purge">>
    /\ "setup" \in Left(Plan) => ctx.cli.sub = <<"serve">>
    /\ ctx.cli.sub = <<"serve">> =>
         /\ "migrate" \in Left(Plan) <=> ~Given("--no-migration")
         /\ "seed" \in Left(Plan) <=> Autoseeds
         /\ "setup" \in Left(Plan) <=> ctx.setup
    /\ ctx.cli.sub = <<"migrate">> => "migrate" \in Left(Plan)
    /\ ctx.cli.sub = <<"purge">> => "purge" \in Left(Plan)
    /\ Head(ctx.cli.sub) = "generate" => Left(Plan) = {"generate"}

LEMMA PlanShape == ctx.cli \in Command => PlanFits
<1> SUFFICES ASSUME ctx.cli \in Command PROVE PlanFits
    OBVIOUS
<1> DEFINE sub == ctx.cli.sub
<1>1. sub \in {<<"serve">>, <<"generate", "client">>, <<"generate", "entity">>,
               <<"generate", "admin">>, <<"migrate">>, <<"seed">>, <<"purge">>, <<"lint">>, <<"run">>}
    BY SubcommandWords DEF Command
<1>2. Plan = CASE sub = <<"serve">> ->
                    <<"connect">> \o
                       (If(~Given("--no-migration"), "migrate") \o If(Autoseeds, "seed")
                              \o If(ctx.setup, "setup") \o <<"listen">>)
               [] sub = <<"run">> -> IF Given("--list") THEN <<>> ELSE <<"connect">> \o <<"program">>
               [] sub = <<"lint">> -> <<>>
               [] Head(sub) = "generate" -> <<"generate">>
               [] OTHER -> <<"connect">> \o <<Head(sub)>>
    BY DEF Plan, OverDatabases
<1> HIDE DEF sub, PlanFits
<1>3. /\ Rank["connect"] = 1 /\ Rank["migrate"] = 2 /\ Rank["seed"] = 3 /\ Rank["purge"] = 4
      /\ Rank["setup"] = 5 /\ Rank["listen"] = 6 /\ Rank["program"] = 7
    BY DEF Rank, Phases
<1>4. {"connect", "migrate", "seed", "purge", "setup", "listen", "program", "generate"} \subseteq Phases
    BY DEF Phases
<1>5. ASSUME NEW phase \in {"migrate", "seed", "purge", "program"}
      PROVE  /\ <<"connect">> \o <<phase>> \in Seq(Phases)
             /\ Sorted(<<"connect">> \o <<phase>>)
             /\ Left(<<"connect">> \o <<phase>>) = {"connect", phase}
    <2>1. Rank["connect"] < Rank[phase] /\ phase \in Phases /\ "connect" \in Phases
        BY <1>3, <1>4
    <2>2. \A p \in Left(<<"connect">>), q \in Left(<<phase>>) : Rank[p] < Rank[q]
        BY <2>1, PlanOfOne
    <2>3. Left(<<"connect">>) \union Left(<<phase>>) = {"connect", phase}
        BY <2>1, PlanOfOne
    <2> QED BY <2>1, <2>2, <2>3, PlanOfOne, ConcatOfPlans
<1>6. CASE sub = <<"serve">>
    <2> DEFINE m == If(~Given("--no-migration"), "migrate")
               s == If(Autoseeds, "seed")
               u == If(ctx.setup, "setup")
               ms == m \o s
               msu == ms \o u
               msul == msu \o <<"listen">>
               all == <<"connect">> \o msul
    <2>1. /\ m \in Seq(Phases) /\ Sorted(m) /\ Left(m) \subseteq {"migrate"}
          /\ "migrate" \in Left(m) <=> ~Given("--no-migration")
        BY <1>4, PlanOfIf
    <2>2. /\ s \in Seq(Phases) /\ Sorted(s) /\ Left(s) \subseteq {"seed"}
          /\ "seed" \in Left(s) <=> Autoseeds
        BY <1>4, PlanOfIf
    <2>3. /\ u \in Seq(Phases) /\ Sorted(u) /\ Left(u) \subseteq {"setup"}
          /\ "setup" \in Left(u) <=> ctx.setup
        BY <1>4, PlanOfIf
    <2> HIDE DEF m, s, u
    <2>4. ms \in Seq(Phases) /\ Sorted(ms) /\ Left(ms) = Left(m) \union Left(s)
        <3>1. \A p \in Left(m), q \in Left(s) : Rank[p] < Rank[q]
            BY <1>3, <2>1, <2>2
        <3> QED BY <2>1, <2>2, <3>1, ConcatOfPlans
    <2> HIDE DEF ms
    <2>5. msu \in Seq(Phases) /\ Sorted(msu) /\ Left(msu) = Left(m) \union Left(s) \union Left(u)
        <3>1. \A p \in Left(ms), q \in Left(u) : Rank[p] < Rank[q]
            BY <1>3, <2>1, <2>2, <2>3, <2>4
        <3> QED BY <2>3, <2>4, <3>1, ConcatOfPlans
    <2> HIDE DEF msu
    <2>6. /\ <<"listen">> \in Seq(Phases) /\ Sorted(<<"listen">>) /\ Left(<<"listen">>) = {"listen"}
          /\ <<"connect">> \in Seq(Phases) /\ Sorted(<<"connect">>) /\ Left(<<"connect">>) = {"connect"}
        BY <1>4, PlanOfOne
    <2>7. /\ msul \in Seq(Phases) /\ Sorted(msul)
          /\ Left(msul) = Left(m) \union Left(s) \union Left(u) \union {"listen"}
        <3>1. \A p \in Left(msu), q \in Left(<<"listen">>) : Rank[p] < Rank[q]
            BY <1>3, <2>1, <2>2, <2>3, <2>5, <2>6
        <3> QED BY <2>5, <2>6, <3>1, ConcatOfPlans, ZenonT(30)
    <2> HIDE DEF msul
    <2>8. /\ all \in Seq(Phases) /\ Sorted(all)
          /\ Left(all) = {"connect"} \union Left(m) \union Left(s) \union Left(u) \union {"listen"}
        <3>1. \A p \in Left(<<"connect">>), q \in Left(msul) : Rank[p] < Rank[q]
            BY <1>3, <2>1, <2>2, <2>3, <2>6, <2>7
        <3>2. /\ all \in Seq(Phases) /\ Sorted(all)
              /\ Left(all) = {"connect"} \union Left(msul)
            BY <2>6, <2>7, <3>1, ConcatOfPlans
        <3> HIDE DEF all
        <3> QED BY <2>7, <3>2
    <2>9. Plan = all
        BY <1>2, <1>6 DEF m, s, u, ms, msu, msul
    <2> HIDE DEF all
    <2>10. Head(sub) = "serve" /\ sub # <<"migrate">> /\ sub # <<"purge">>
        BY <1>6
    <2>11. /\ "migrate" \in Left(all) <=> ~Given("--no-migration")
           /\ "seed" \in Left(all) <=> Autoseeds
           /\ "setup" \in Left(all) <=> ctx.setup
           /\ "generate" \notin Left(all) /\ "connect" \in Left(all) /\ "purge" \notin Left(all)
        BY <2>1, <2>2, <2>3, <2>8
    <2> HIDE DEF Left, Sorted
    <2> QED BY <1>6, <2>8, <2>9, <2>10, <2>11 DEF sub, PlanFits
<1>7. CASE sub = <<"run">> /\ ~Given("--list")
    <2>1. Plan = <<"connect">> \o <<"program">> /\ Head(sub) = "run"
        BY <1>2, <1>7
    <2> QED BY <1>5, <1>7, <2>1 DEF sub, PlanFits
<1>8. CASE sub = <<"lint">> \/ (sub = <<"run">> /\ Given("--list"))
    <2>1. Plan = <<>> /\ Head(sub) \in {"run", "lint"}
        BY <1>2, <1>8
    <2>2. sub \notin {<<"serve">>, <<"migrate">>, <<"seed">>, <<"purge">>}
        BY <1>8
    <2> QED BY <2>1, <2>2, PlanOfNone DEF sub, PlanFits
<1>9. CASE sub \in {<<"generate", "client">>, <<"generate", "entity">>, <<"generate", "admin">>}
    <2>1. Head(sub) = "generate"
        BY <1>9
    <2>2. sub \notin {<<"serve">>, <<"run">>, <<"lint">>, <<"migrate">>, <<"seed">>, <<"purge">>}
        BY <1>9
    <2>3. Plan = <<"generate">>
        BY <1>2, <2>1, <2>2
    <2> QED BY <1>4, <2>1, <2>2, <2>3, PlanOfOne DEF sub, PlanFits
<1>10. CASE sub \in {<<"migrate">>, <<"seed">>, <<"purge">>}
    <2>1. /\ Head(sub) \in {"migrate", "seed", "purge"}
          /\ sub \notin {<<"serve">>, <<"run">>, <<"lint">>}
          /\ Head(sub) = "migrate" <=> sub = <<"migrate">>
          /\ Head(sub) = "seed" <=> sub = <<"seed">>
          /\ Head(sub) = "purge" <=> sub = <<"purge">>
        BY <1>10
    <2>2. Plan = <<"connect">> \o <<Head(sub)>>
        BY <1>2, <2>1
    <2>3. /\ Plan \in Seq(Phases)
          /\ Sorted(Plan)
          /\ Left(Plan) = {"connect", Head(sub)}
        BY <1>5, <2>1, <2>2
    <2> QED BY <2>1, <2>3 DEF sub, PlanFits
<1>11. \/ sub = <<"serve">>
       \/ sub = <<"run">> /\ ~Given("--list")
       \/ sub = <<"lint">> \/ (sub = <<"run">> /\ Given("--list"))
       \/ sub \in {<<"generate", "client">>, <<"generate", "entity">>, <<"generate", "admin">>}
       \/ sub \in {<<"migrate">>, <<"seed">>, <<"purge">>}
    BY <1>1, Zenon
<1> QED BY <1>6, <1>7, <1>8, <1>9, <1>10, <1>11, Zenon

-------------------------------------------------------------------------------
\* The thread that has the App, and who works for it.

\* Past Ctx::create, and with a command.
Entered(t) == act[t].pc \in {"configure", "load", "app", "running", "listening", "done"}
Parsed(t) == act[t].pc \in {"load", "app", "running", "listening", "done"}

Typed ==
    /\ up \in BOOLEAN
    /\ current \in Threads \union {None}
    /\ ctx \in Context
    /\ conn \in Connection
    /\ tables \subseteq Paths
    /\ tracked \subseteq Paths
    /\ rows \in [Paths -> SUBSET Kinds]
    /\ act \in [Actors -> Actor]

\* The context is the one thread's that entered.
Owner ==
    \A t \in Threads :
        /\ act[t].pc # "idle" => act[t].call \in Launches[t]
        /\ Entered(t) => current = t
        /\ Parsed(t) => ctx.launch = act[t].call /\ Cli(t) # NoCommand
        /\ HasApp(t) => ctx.cli = Cli(t) /\ ctx.schema \in Schemas

\* Who is in a loop runs, and works over a connection context unless it connects.
Hands ==
    \A a \in Actors : act[a].on =>
        /\ At(a, "running")
        /\ act[a].plan # <<>>
        /\ Phase(a) \in Looping
        /\ Phase(a) = "connect" \/ act[a].held > 0

Remaining(operation) ==
    CASE operation \in {"seed", "unseed", "reseed"} -> {<<"seed">>, <<>>}
      [] operation = "purge" -> {<<"purge">>, <<>>}
      [] operation = "purge_seed" ->
            {<<"purge", "connect", "seed">>, <<"connect", "seed">>, <<"seed">>, <<>>}

\* Requests run while a thread listens.
Served ==
    \A r \in Requests :
        /\ act[r].pc \in {"idle", "running", "done", "failed", "panicked"}
        /\ At(r, "running") =>
            /\ \E t \in Threads : At(t, "listening")
            /\ act[r].op \in Operations \ {"other"}
            /\ act[r].plan \in Remaining(act[r].op)

\* A thread has done the first phases of its plan; it makes the first connection
\* context, and the only one until it listens.
Commanded ==
    \A t \in Threads :
        /\ act[t].pc \in {"configure", "load", "app"} => conn.version = 0
        /\ At(t, "running") =>
            /\ Sorted(act[t].plan)
            /\ Left(act[t].plan) \subseteq Left(Plan)
            /\ "connect" \in Left(act[t].plan) => conn.version = 0
            /\ "connect" \in Left(Plan) \ Left(act[t].plan) => conn.version > 0
        /\ At(t, "listening") => conn.version > 0

\* The requests that have still to connect.
Pending == {r \in Requests : At(r, "running") /\ "connect" \in Left(act[r].plan)}

Versions ==
    /\ current = None => conn.version = 0
    /\ conn.version + Cardinality(Pending) <= MaxContexts

\* OneApp needs to know of the threads between their test and their App, and
\* TypeOK that nothing is asked for before the first connection context.
Kept == Typed /\ Owner /\ Hands /\ Served /\ Commanded /\ Versions

LEMMA OneEntered ==
    ASSUME Owner, NEW t \in Threads, NEW u \in Threads, Entered(t), Entered(u)
    PROVE  t = u
<1> QED BY DEF Owner

\* Without a thread that listens, no request runs.
LEMMA NobodyAsks ==
    ASSUME Kept, NEW t \in Threads, Entered(t), ~At(t, "listening")
    PROVE  \A r \in Requests : ~At(r, "running")
<1> SUFFICES ASSUME NEW r \in Requests, At(r, "running") PROVE FALSE
    OBVIOUS
<1>1. PICK u \in Threads : At(u, "listening")
    BY DEF Kept, Served
<1>2. Entered(u)
    BY <1>1 DEF Entered, At
<1> QED BY <1>1, <1>2, OneEntered DEF Kept

\* The command and the schema of an App, once there is one.
LEMMA AppFacts ==
    ASSUME Typed, Owner, NEW t \in Threads, HasApp(t)
    PROVE  /\ ctx.cli \in Command
           /\ ctx.cli = CommandOf(act[t].call.words)
           /\ ctx.schema \in Schemas
           /\ ctx.schema \in Schema
           /\ \E sub \in Subcommands : /\ ctx.cli.sub = sub.words
                                       /\ ctx.cli.flags \subseteq sub.flags
           /\ PlanFits
<1>1. /\ act[t].call \in Launches[t]
      /\ Cli(t) # NoCommand
      /\ ctx.cli = Cli(t)
      /\ ctx.schema \in Schemas
    BY DEF Owner, HasApp, Parsed
<1>2. act[t].call \in Launch /\ Wraps(act[t].call)
    BY <1>1, LaunchesAssumption
<1>3. Cli(t) = CommandOf(act[t].call.words)
    BY <1>2, ParseIsCommandOf DEF Cli
<1>4. act[t].call.words \in Seq(Words)
    BY <1>2 DEF Launch
<1>5. /\ ctx.cli \in Command
      /\ \E sub \in Subcommands : /\ ctx.cli.sub = sub.words
                                  /\ ctx.cli.flags \subseteq sub.flags
    BY <1>1, <1>3, <1>4, CommandOfType
<1> QED BY <1>1, <1>3, <1>5, SchemasAssumption, PlanShape

LEMMA RunnerFacts ==
    ASSUME Kept, NEW a \in Actors, At(a, "running")
    PROVE  /\ ctx.cli \in Command
           /\ ctx.schema \in Schema
           /\ PlanFits
<1>1. PICK t \in Threads : HasApp(t)
    <2>1. CASE a \in Threads
        BY <2>1 DEF HasApp, At
    <2>2. CASE a \in Requests
        BY <2>2 DEF Kept, Served, HasApp, At
    <2> QED BY <2>1, <2>2 DEF Actors
<1> QED BY <1>1, AppFacts DEF Kept

\* One thread steps before it has entered: the others do not notice.
LEMMA OutsiderMoves ==
    ASSUME Kept, NEW t \in Threads, NEW rec \in Actor,
           ~Entered(t),
           act' = [act EXCEPT ![t] = rec],
           rec.call \in Launches[t], ~rec.on, rec.pc \in {"set", "panicked"},
           UNCHANGED <<up, current, ctx, conn, tables, tracked, rows>>
    PROVE  Kept'
<1> USE DEF Kept, Typed, At
<1>1. /\ act' \in [Actors -> Actor]
      /\ t \in Actors
      /\ act'[t] = rec
      /\ \A a \in Actors : a # t => act'[a] = act[a]
      /\ \A r \in Requests : r \in Actors /\ r # t
      /\ \A u \in Threads : u \in Actors
    BY ActorsAssumption DEF Actors
<1>2. Typed'
    BY <1>1
<1>3. Plan' = Plan
    BY DEF Plan, Given, Autoseeds
<1>4. Owner'
    <2> SUFFICES ASSUME NEW u \in Threads
                 PROVE  /\ act'[u].pc # "idle" => act'[u].call \in Launches[u]
                        /\ Entered(u)' => current = u
                        /\ Parsed(u)' => ctx.launch = act'[u].call /\ Cli(u)' # NoCommand
                        /\ HasApp(u)' => ctx.cli = Cli(u)' /\ ctx.schema \in Schemas
        BY DEF Owner
    <2>1. CASE u = t
        BY <1>1, <2>1 DEF Entered, Parsed, HasApp
    <2>2. CASE u # t
        BY <1>1, <2>2 DEF Owner, Entered, Parsed, HasApp, Cli
    <2> QED BY <2>1, <2>2
<1>5. Hands'
    BY <1>1 DEF Hands, Phase
<1>6. Served'
    <2>1. \A u \in Threads : At(u, "listening") => u # t
        BY DEF Entered
    <2> QED BY <1>1, <2>1 DEF Served
<1>7. Commanded'
    BY <1>1, <1>3 DEF Commanded
<1>8. Versions'
    BY <1>1 DEF Versions, Pending
<1> QED BY <1>2, <1>4, <1>5, <1>6, <1>7, <1>8

\* What an entered thread has to be for the invariant.
Fits(t) ==
    /\ Parsed(t) => ctx.launch = act[t].call /\ Cli(t) # NoCommand
    /\ HasApp(t) => ctx.cli = Cli(t) /\ ctx.schema \in Schemas
    /\ act[t].on =>
        /\ At(t, "running")
        /\ act[t].plan # <<>>
        /\ Phase(t) \in Looping
        /\ Phase(t) = "connect" \/ act[t].held > 0
    /\ act[t].pc \in {"configure", "load", "app"} => conn.version = 0
    /\ At(t, "running") =>
        /\ Sorted(act[t].plan)
        /\ Left(act[t].plan) \subseteq Left(Plan)
        /\ "connect" \in Left(act[t].plan) => conn.version = 0
        /\ "connect" \in Left(Plan) \ Left(act[t].plan) => conn.version > 0
    /\ At(t, "listening") => conn.version > 0

LEMMA KeptFits ==
    ASSUME Kept, NEW t \in Threads
    PROVE  Fits(t)
<1> QED BY DEF Kept, Owner, Hands, Commanded, Fits, Actors

\* With nobody else entered, a fitting record of the thread is all it takes.
LEMMA OwnerMoves ==
    ASSUME Kept, NEW t \in Threads, NEW rec \in Actor,
           \A u \in Threads : u # t => ~Entered(u),
           \A r \in Requests : ~At(r, "running"),
           act' = [act EXCEPT ![t] = rec],
           rec.pc # "idle", rec.call \in Launches[t],
           Fits(t)', current' = t,
           up' \in BOOLEAN, ctx' \in Context, conn' \in Connection,
           tables' \subseteq Paths, tracked' \subseteq Paths, rows' \in [Paths -> SUBSET Kinds]
    PROVE  Kept'
<1> USE DEF Kept, Typed, At
<1>1. /\ act' \in [Actors -> Actor]
      /\ t \in Actors
      /\ act'[t] = rec
      /\ \A a \in Actors : a # t => act'[a] = act[a]
      /\ \A r \in Requests : r \in Actors /\ r # t
      /\ \A u \in Threads : u \in Actors
    BY ActorsAssumption DEF Actors
<1>2. Typed'
    BY <1>1
<1>3. \A u \in Threads : u # t => ~Entered(u)'
    BY <1>1 DEF Entered
<1>4. \A r \in Requests : ~At(r, "running")'
    BY <1>1
<1>5. Owner'
    <2> SUFFICES ASSUME NEW u \in Threads
                 PROVE  /\ act'[u].pc # "idle" => act'[u].call \in Launches[u]
                        /\ Entered(u)' => current' = u
                        /\ Parsed(u)' => ctx'.launch = act'[u].call /\ Cli(u)' # NoCommand
                        /\ HasApp(u)' => ctx'.cli = Cli(u)' /\ ctx'.schema \in Schemas
        BY DEF Owner
    <2>1. CASE u = t
        BY <1>1, <2>1 DEF Fits
    <2>2. CASE u # t
        BY <1>1, <1>3, <2>2 DEF Owner, Entered, Parsed, HasApp
    <2> QED BY <2>1, <2>2
<1>6. Hands'
    <2> SUFFICES ASSUME NEW a \in Actors, act'[a].on
                 PROVE  /\ At(a, "running")'
                        /\ act'[a].plan # <<>>
                        /\ Phase(a)' \in Looping
                        /\ Phase(a)' = "connect" \/ act'[a].held > 0
        BY DEF Hands
    <2>1. CASE a = t
        BY <2>1 DEF Fits
    <2>2. CASE a # t
        BY <1>1, <2>2 DEF Hands, Phase
    <2> QED BY <2>1, <2>2
<1>7. Served'
    BY <1>1, <1>4 DEF Served
<1>8. Commanded'
    <2> SUFFICES ASSUME NEW u \in Threads, u # t
                 PROVE  act'[u].pc \notin {"configure", "load", "app", "running", "listening"}
        BY DEF Commanded, Fits
    <2> QED BY <1>3 DEF Entered
<1>9. Versions'
    <2>1. Pending' = {}
        BY <1>4 DEF Pending
    <2>2. conn'.version \in 0..MaxContexts
        BY DEF Connection
    <2>3. Cardinality(Pending') = 0
        BY <2>1, FS_EmptySet
    <2>4. current' # None
        BY ActorsAssumption
    <2> QED BY <2>2, <2>3, <2>4, MaxContextsAssumption DEF Versions
<1> QED BY <1>2, <1>5, <1>6, <1>7, <1>8, <1>9

\* A thread that has entered and does not listen has the process to itself.
LEMMA EnteredAlone ==
    ASSUME Kept, NEW t \in Threads, Entered(t), ~At(t, "listening")
    PROVE  /\ current = t
           /\ \A u \in Threads : u # t => ~Entered(u)
           /\ \A r \in Requests : ~At(r, "running")
           /\ act[t].pc # "idle" /\ act[t].call \in Launches[t]
<1>1. current = t /\ \A u \in Threads : u # t => ~Entered(u)
    BY OneEntered DEF Kept, Owner
<1>2. act[t].pc # "idle" /\ act[t].call \in Launches[t]
    BY DEF Kept, Owner, Entered
<1> QED BY <1>1, <1>2, NobodyAsks

\* A step leaves an actor as it is, but for what only the properties look at.
Stays(a) ==
    /\ act'[a].pc = act[a].pc
    /\ act'[a].call = act[a].call
    /\ act'[a].op = act[a].op
    /\ act'[a].plan = act[a].plan
    /\ act'[a].on = act[a].on
    /\ act'[a].held = act[a].held

\* What a request has to be for the invariant, while a thread listens.
Proper(r) ==
    /\ act[r].pc \in {"idle", "running", "done", "failed", "panicked"}
    /\ At(r, "running") =>
        /\ act[r].op \in Operations \ {"other"}
        /\ act[r].plan \in Remaining(act[r].op)
    /\ act[r].on =>
        /\ At(r, "running")
        /\ act[r].plan # <<>>
        /\ Phase(r) \in Looping
        /\ Phase(r) = "connect" \/ act[r].held > 0

\* A request steps while a thread listens.
LEMMA RequestMoves ==
    ASSUME Kept, NEW r \in Requests, NEW t \in Threads, At(t, "listening"),
           act' \in [Actors -> Actor],
           \A a \in Actors : a # r => Stays(a),
           Proper(r)',
           conn'.version + Cardinality(Pending') <= MaxContexts,
           conn' \in Connection, conn'.version >= conn.version,
           UNCHANGED <<current, ctx>>,
           up' \in BOOLEAN, tables' \subseteq Paths, tracked' \subseteq Paths, rows' \in [Paths -> SUBSET Kinds]
    PROVE  Kept'
<1> USE DEF Kept, Typed, At
<1>1. /\ \A q \in Requests : q \in Actors
      /\ \A u \in Threads : u \in Actors /\ u # r
    BY ActorsAssumption DEF Actors
<1>2. \A u \in Threads : Stays(u)
    BY <1>1
<1>3. Entered(t) /\ current = t
    BY DEF Entered, Owner
<1>4. \A u \in Threads : u # t => ~Entered(u)
    BY <1>3, OneEntered
<1>5. Typed'
    OBVIOUS
<1>6. Plan' = Plan
    BY DEF Plan, Given, Autoseeds
<1>7. Owner'
    <2> SUFFICES ASSUME NEW u \in Threads
                 PROVE  /\ act'[u].pc # "idle" => act'[u].call \in Launches[u]
                        /\ Entered(u)' => current = u
                        /\ Parsed(u)' => ctx.launch = act'[u].call /\ Cli(u)' # NoCommand
                        /\ HasApp(u)' => ctx.cli = Cli(u)' /\ ctx.schema \in Schemas
        BY DEF Owner
    <2>1. Stays(u)
        BY <1>2
    <2>2. Cli(u)' = Cli(u)
        BY <2>1 DEF Cli, Stays
    <2> QED BY <2>1, <2>2 DEF Owner, Entered, Parsed, HasApp, Stays
<1>8. Hands'
    <2> SUFFICES ASSUME NEW a \in Actors, act'[a].on
                 PROVE  /\ At(a, "running")'
                        /\ act'[a].plan # <<>>
                        /\ Phase(a)' \in Looping
                        /\ Phase(a)' = "connect" \/ act'[a].held > 0
        BY DEF Hands
    <2>1. CASE a = r
        BY <2>1 DEF Proper
    <2>2. CASE a # r
        BY <2>2 DEF Hands, Phase, Stays
    <2> QED BY <2>1, <2>2
<1>9. Served'
    <2> SUFFICES ASSUME NEW q \in Requests
                 PROVE  /\ act'[q].pc \in {"idle", "running", "done", "failed", "panicked"}
                        /\ At(q, "running")' =>
                            /\ \E u \in Threads : At(u, "listening")'
                            /\ act'[q].op \in Operations \ {"other"}
                            /\ act'[q].plan \in Remaining(act'[q].op)
        BY DEF Served
    <2>1. At(t, "listening")'
        BY <1>2 DEF Stays
    <2>2. CASE q = r
        BY <2>1, <2>2 DEF Proper
    <2>3. CASE q # r
        BY <1>1, <2>1, <2>3 DEF Served, Stays
    <2> QED BY <2>2, <2>3
<1>10. Commanded'
    <2> SUFFICES ASSUME NEW u \in Threads
                 PROVE  /\ act'[u].pc \notin {"configure", "load", "app", "running"}
                        /\ act'[u].pc = "listening" => conn'.version > 0
        BY DEF Commanded
    <2>1. act'[u].pc = act[u].pc
        BY <1>2 DEF Stays
    <2>2. CASE u = t
        <3>1. conn.version > 0 /\ conn.version \in Nat /\ conn'.version \in Nat
            BY <1>3 DEF Commanded, Connection
        <3> QED BY <2>1, <2>2, <3>1
    <2>3. CASE u # t
        BY <1>4, <2>1, <2>3 DEF Entered
    <2> QED BY <2>2, <2>3
<1>11. Versions'
    BY <1>3, ActorsAssumption DEF Versions
<1> QED BY <1>5, <1>7, <1>8, <1>9, <1>10, <1>11

\* The same, from what a step of the thread says.
LEMMA OwnerActs ==
    ASSUME Kept, NEW t \in Threads, Entered(t), ~At(t, "listening"),
           NEW rec \in Actor, rec.pc # "idle", rec.call = act[t].call,
           act' = [act EXCEPT ![t] = rec], Fits(t)',
           current' = current,
           up' \in BOOLEAN, ctx' \in Context, conn' \in Connection,
           tables' \subseteq Paths, tracked' \subseteq Paths, rows' \in [Paths -> SUBSET Kinds]
    PROVE  Kept'
<1>1. /\ current = t
      /\ \A u \in Threads : u # t => ~Entered(u)
      /\ \A r \in Requests : ~At(r, "running")
      /\ rec.call \in Launches[t]
    BY EnteredAlone
<1> QED BY <1>1, OwnerMoves

\* Nor does the end of the process change what is kept.
LEMMA ProcessEnds ==
    ASSUME Kept, EndsProcess, ctx' \in Context, UNCHANGED <<current, conn, tables, tracked, rows>>,
           \A t \in Threads : Fits(t)'
    PROVE  Kept'
<1> USE DEF Kept, Typed, At, EndsProcess
<1>1. Typed'
    OBVIOUS
<1>2. Owner'
    BY DEF Owner, Entered, Parsed, HasApp, Fits, Cli
<1>3. Hands'
    BY DEF Hands, Phase
<1>4. Served'
    BY DEF Served
<1>5. Commanded'
    BY DEF Commanded, Fits
<1>6. Versions'
    BY DEF Versions, Pending
<1> QED BY <1>1, <1>2, <1>3, <1>4, <1>5, <1>6

LEMMA FreshType ==
    /\ Fresh \in Actor
    /\ Fresh.pc = "idle" /\ ~Fresh.on /\ Fresh.call = None /\ Fresh.plan = <<>> /\ ~Fresh.met
<1>1. <<>> \in Seq(Phases) /\ <<>> \in Seq(Words) /\ 0 \in 0..MaxContexts
    BY MaxContextsAssumption
<1> QED BY <1>1 DEF Fresh, Actor

LEMMA CreateKeeps ==
    ASSUME Kept, NEW t \in Threads, Create(t)
    PROVE  Kept'
<1> USE DEF At, Changes, Goes, Databases
<1>1. /\ t \in Actors
      /\ act[t] \in Actor
      /\ Typed
      /\ act[t].pc # "idle" => act[t].call \in Launches[t]
      /\ Launches[t] \subseteq Launch
    BY LaunchesAssumption DEF Kept, Typed, Actors, Owner
<1>2. CASE Test(t)
    <2>1. PICK launch \in Launches[t] :
              act' = [act EXCEPT ![t] = [Fresh EXCEPT !.call = launch, !.pc = "set"]]
        BY <1>2 DEF Test
    <2> DEFINE rec == [Fresh EXCEPT !.call = launch, !.pc = "set"]
    <2>2. rec \in Actor /\ rec.call = launch /\ ~rec.on /\ rec.pc = "set"
        BY <1>1, FreshType DEF Actor
    <2>3. ~Entered(t) /\ UNCHANGED <<up, current, ctx, conn, tables, tracked, rows>>
        BY <1>2 DEF Test, Entered
    <2> HIDE DEF rec
    <2>4. act' = [act EXCEPT ![t] = rec]
        BY <2>1 DEF rec
    <2> QED BY <2>2, <2>3, <2>4, OutsiderMoves
<1>3. CASE Set(t) /\ current # None
    <2> DEFINE rec == [act[t] EXCEPT !.pc = "panicked"]
    <2>1. ~act[t].on
        BY <1>1, <1>3 DEF Set, Kept, Hands
    <2>2. rec \in Actor /\ rec.call = act[t].call /\ rec.on = act[t].on /\ rec.pc = "panicked"
        BY <1>1 DEF Actor
    <2>3. /\ ~Entered(t) /\ UNCHANGED <<up, current, ctx, conn, tables, tracked, rows>>
          /\ act' = [act EXCEPT ![t] = rec]
          /\ act[t].pc # "idle"
        BY <1>3 DEF Set, Entered
    <2> HIDE DEF rec
    <2> QED BY <1>1, <2>1, <2>2, <2>3, OutsiderMoves
<1>4. CASE Set(t) /\ current = None
    <2> DEFINE rec == [act[t] EXCEPT !.pc = "configure"]
    <2>1. ~act[t].on /\ conn.version = 0
        BY <1>1, <1>4 DEF Set, Kept, Hands, Versions
    <2>2. rec \in Actor /\ rec.call = act[t].call /\ rec.on = act[t].on /\ rec.pc = "configure"
        BY <1>1 DEF Actor
    <2>3. /\ current' = t /\ UNCHANGED <<up, ctx, conn, tables, tracked, rows>>
          /\ act' = [act EXCEPT ![t] = rec]
          /\ act[t].pc # "idle"
        BY <1>4 DEF Set
    <2>4. \A u \in Threads : ~Entered(u)
        BY <1>4, ActorsAssumption DEF Kept, Owner
    <2>5. \A r \in Requests : ~At(r, "running")
        BY <2>4 DEF Kept, Served, Entered
    <2> HIDE DEF rec
    <2>6. act'[t] = rec
        BY <1>1, <2>3 DEF Typed
    <2>7. Fits(t)'
        BY <2>1, <2>2, <2>3, <2>6 DEF Fits, Parsed, HasApp
    <2> QED BY <1>1, <2>2, <2>3, <2>4, <2>5, <2>7, OwnerMoves DEF Typed
<1>5. CASE Configure(t)
    <2>1. Entered(t) /\ ~At(t, "listening") /\ ~Parsed(t) /\ act[t].pc = "configure"
        BY <1>5 DEF Configure, Entered, Parsed
    <2>2. Fits(t) /\ conn.version = 0 /\ ~act[t].on
        BY <1>5, KeptFits DEF Configure, Fits
    <2>3. UNCHANGED <<current, conn, tables, tracked, rows>> /\ act[t].call \in Launch
          /\ ctx' = [ctx EXCEPT !.launch = act[t].call]
        BY <1>1, <1>5, <2>1 DEF Configure
    <2>4. ctx' \in Context /\ ctx'.launch = act[t].call
        BY <1>1, <2>3 DEF Typed, Context
    <2>5. CASE EndsProcess
        <3>1. Fits(t)'
            BY <2>1, <2>2, <2>3, <2>5 DEF Fits, EndsProcess, Parsed, HasApp
        <3>2. \A u \in Threads : u # t => Fits(u)'
            BY <1>1, <2>1, <2>3, <2>5, EnteredAlone, KeptFits
               DEF Fits, EndsProcess, Parsed, HasApp, Entered, Phase
        <3> QED BY <2>3, <2>4, <2>5, <3>1, <3>2, ProcessEnds
    <2>6. CASE Cli(t) # NoCommand /\ Goes(t, "load") /\ UNCHANGED up
        <3> DEFINE rec == [act[t] EXCEPT !.pc = "load"]
        <3>1. rec \in Actor /\ rec.call = act[t].call /\ rec.on = act[t].on /\ rec.pc = "load"
            BY <1>1 DEF Actor
        <3>2. act' = [act EXCEPT ![t] = rec]
            BY <2>6
        <3> HIDE DEF rec
        <3>3. act'[t] = rec
            BY <1>1, <3>2 DEF Typed
        <3>4. Cli(t)' = Cli(t)
            BY <3>1, <3>3 DEF Cli
        <3>5. Fits(t)'
            BY <2>2, <2>3, <2>4, <2>6, <3>1, <3>3, <3>4 DEF Fits, Parsed, HasApp
        <3> QED BY <1>1, <2>1, <2>3, <2>4, <2>6, <3>1, <3>2, <3>5, OwnerActs DEF Typed
    <2> QED BY <1>5, <2>5, <2>6 DEF Configure
<1>6. CASE Load(t)
    <2>1. Entered(t) /\ ~At(t, "listening") /\ Parsed(t) /\ ~HasApp(t) /\ act[t].pc = "load"
        BY <1>6 DEF Load, Entered, Parsed, HasApp
    <2>2. Fits(t) /\ conn.version = 0 /\ ~act[t].on /\ Cli(t) # NoCommand
        BY <2>1, KeptFits DEF Fits
    <2>3. ctx.launch = act[t].call /\ UNCHANGED <<current, conn, tables, tracked, rows>>
        BY <1>6, <2>1, <2>2 DEF Load, Fits
    <2>4. CASE Goes(t, "failed") /\ UNCHANGED <<up, ctx>>
        <3> DEFINE rec == [act[t] EXCEPT !.pc = "failed"]
        <3>1. rec \in Actor /\ rec.call = act[t].call /\ rec.on = act[t].on /\ rec.pc = "failed"
            BY <1>1 DEF Actor
        <3>2. act' = [act EXCEPT ![t] = rec]
            BY <2>4
        <3> HIDE DEF rec
        <3>3. act'[t] = rec
            BY <1>1, <3>2 DEF Typed
        <3>4. Fits(t)'
            BY <2>2, <3>1, <3>3 DEF Fits, Parsed, HasApp
        <3> QED BY <1>1, <2>1, <2>3, <2>4, <3>1, <3>2, <3>4, OwnerActs DEF Typed
    <2>5. CASE EndsProcess /\ UNCHANGED ctx
        <3>1. ASSUME NEW u \in Threads PROVE Fits(u)'
            <4>1. Fits(u)
                BY KeptFits
            <4>2. Plan' = Plan
                BY <2>5 DEF Plan, Given, Autoseeds
            <4> QED BY <2>3, <2>5, <4>1, <4>2 DEF Fits, EndsProcess, Parsed, HasApp, Phase, Cli
        <3> QED BY <1>1, <2>3, <2>5, <3>1, ProcessEnds DEF Typed
    <2>6. CASE \E schema \in Schemas :
                   /\ ctx' = [ctx EXCEPT !.schema = schema, !.cli = Cli(t)]
                   /\ Goes(t, "app")
                   /\ UNCHANGED up
        <3>1. PICK schema \in Schemas : ctx' = [ctx EXCEPT !.schema = schema, !.cli = Cli(t)]
            BY <2>6
        <3>2. Cli(t) \in Command
            <4>1. act[t].call \in Launch /\ Wraps(act[t].call) /\ act[t].call.words \in Seq(Words)
                BY <1>1, <2>1, LaunchesAssumption DEF Launch
            <4>2. Cli(t) = CommandOf(act[t].call.words)
                BY <4>1, ParseIsCommandOf DEF Cli
            <4> QED BY <2>2, <4>1, <4>2, CommandOfType
        <3>3. /\ ctx' \in Context /\ ctx'.launch = ctx.launch
              /\ ctx'.cli = Cli(t) /\ ctx'.schema = schema
            BY <1>1, <3>1, <3>2, SchemasAssumption DEF Typed, Context
        <3> DEFINE rec == [act[t] EXCEPT !.pc = "app"]
        <3>4. rec \in Actor /\ rec.call = act[t].call /\ rec.on = act[t].on /\ rec.pc = "app"
            BY <1>1 DEF Actor
        <3>5. act' = [act EXCEPT ![t] = rec]
            BY <2>6
        <3> HIDE DEF rec
        <3>6. act'[t] = rec
            BY <1>1, <3>5 DEF Typed
        <3>7. Cli(t)' = Cli(t)
            BY <3>4, <3>6 DEF Cli
        <3>8. Fits(t)'
            BY <2>2, <2>3, <3>3, <3>4, <3>6, <3>7 DEF Fits, Parsed, HasApp
        <3> QED BY <1>1, <2>1, <2>3, <2>6, <3>3, <3>4, <3>5, <3>8, OwnerActs DEF Typed
    <2> QED BY <1>6, <2>4, <2>5, <2>6 DEF Load
<1>7. CASE SetSetup(t) \/ AddProgram(t)
    <2>1. Entered(t) /\ ~At(t, "listening") /\ act[t].pc = "app"
        BY <1>7 DEF SetSetup, AddProgram, Entered
    <2>2. Fits(t)
        BY KeptFits
    <2>3. UNCHANGED <<up, current, conn, tables, tracked, rows, act>>
        BY <1>7 DEF SetSetup, AddProgram
    <2>4. /\ ctx' \in Context /\ ctx'.launch = ctx.launch
          /\ ctx'.cli = ctx.cli /\ ctx'.schema = ctx.schema
        <3>1. CASE SetSetup(t)
            BY <1>1, <3>1 DEF Typed, Context, SetSetup
        <3>2. CASE AddProgram(t)
            <4>0. act[t].call \in Launch
                BY <1>1, <2>1
            <4>1. PICK name \in Programs : ctx' = [ctx EXCEPT !.programs = @ \union {name}]
                BY <3>2, <4>0 DEF AddProgram, Launch
            <4>2. ctx.programs \union {name} \subseteq Programs
                BY <1>1 DEF Typed, Context
            <4> QED BY <1>1, <4>1, <4>2 DEF Typed, Context
        <3> QED BY <1>7, <3>1, <3>2
    <2>5. Fits(t)'
        BY <2>1, <2>2, <2>3, <2>4 DEF Fits, Parsed, HasApp, Cli, Phase
    <2>6. act' = [act EXCEPT ![t] = act[t]]
        BY <1>1, <2>3 DEF Typed
    <2> QED BY <1>1, <2>1, <2>3, <2>4, <2>5, <2>6, OwnerActs DEF Typed
<1> QED BY <1>2, <1>3, <1>4, <1>5, <1>6, <1>7 DEF Create

LEMMA RunnerEntered ==
    ASSUME Kept, NEW t \in Threads, At(t, "running")
    PROVE  /\ Entered(t) /\ ~At(t, "listening") /\ HasApp(t) /\ Parsed(t)
           /\ t \in Actors /\ act[t] \in Actor /\ act[t].pc = "running"
           /\ Fits(t)
           /\ current = t
<1>1. Entered(t) /\ ~At(t, "listening") /\ HasApp(t) /\ Parsed(t) /\ act[t].pc = "running"
    BY DEF At, Entered, HasApp, Parsed
<1> QED BY <1>1, KeptFits, EnteredAlone DEF Kept, Typed, Actors

\* A thread that runs its command steps.
LEMMA RunnerSteps ==
    ASSUME Kept, NEW t \in Threads, At(t, "running"),
           NEW rec \in Actor, rec.call = act[t].call,
           act' = [act EXCEPT ![t] = rec],
           rec.pc \in {"running", "listening", "done", "failed", "panicked"},
           rec.pc = "running" =>
                /\ Sorted(rec.plan)
                /\ Left(rec.plan) \subseteq Left(Plan)
                /\ "connect" \in Left(rec.plan) => conn'.version = 0
                /\ "connect" \in Left(Plan) \ Left(rec.plan) => conn'.version > 0,
           rec.on =>
                /\ rec.pc = "running"
                /\ rec.plan # <<>>
                /\ Head(rec.plan) \in Looping
                /\ Head(rec.plan) = "connect" \/ rec.held > 0,
           rec.pc = "listening" => conn'.version > 0,
           UNCHANGED <<current, ctx>>,
           up' \in BOOLEAN, conn' \in Connection,
           tables' \subseteq Paths, tracked' \subseteq Paths, rows' \in [Paths -> SUBSET Kinds]
    PROVE  Kept'
<1>1. /\ Entered(t) /\ ~At(t, "listening") /\ HasApp(t) /\ Parsed(t)
      /\ t \in Actors /\ Fits(t) /\ Typed
    BY RunnerEntered DEF Kept
<1>2. act'[t] = rec
    BY <1>1 DEF Typed
<1>3. Plan' = Plan /\ Cli(t)' = Cli(t)
    BY <1>2 DEF Plan, Given, Autoseeds, Cli
<1>4. Fits(t)'
    BY <1>1, <1>2, <1>3 DEF Fits, Phase, At, Parsed, HasApp
<1> QED BY <1>1, <1>4, OwnerActs DEF Typed

\* What is left to a thread after the phase in its hand.
LEMMA PhaseDone ==
    ASSUME Kept, NEW t \in Threads, At(t, "running"), act[t].plan # <<>>
    PROVE  /\ act[t].plan \in Seq(Phases)
           /\ Tail(act[t].plan) \in Seq(Phases)
           /\ Sorted(Tail(act[t].plan))
           /\ Left(Tail(act[t].plan)) = Left(act[t].plan) \ {Phase(t)}
           /\ Left(Tail(act[t].plan)) \subseteq Left(Plan)
           /\ Phase(t) \in Left(act[t].plan)
           /\ Phase(t) \in Left(Plan)
           /\ "connect" \notin Left(Tail(act[t].plan))
           /\ Phase(t) = "connect" => conn.version = 0
           /\ Phase(t) # "connect" /\ "connect" \in Left(Plan) => conn.version > 0
           /\ Phase(t) \notin {"connect", "generate"} => conn.version > 0
<1> DEFINE plan == act[t].plan
<1>1. Fits(t) /\ At(t, "running") /\ plan \in Seq(Phases)
    BY RunnerEntered DEF Actor
<1>2. /\ Sorted(plan) /\ Left(plan) \subseteq Left(Plan)
      /\ "connect" \in Left(plan) => conn.version = 0
      /\ "connect" \in Left(Plan) \ Left(plan) => conn.version > 0
    BY <1>1 DEF Fits
<1> HIDE DEF plan
<1>3. plan # <<>>
    BY DEF plan
<1>4. /\ Head(plan) \in Left(plan)
      /\ Head(plan) \in Phases
      /\ Tail(plan) \in Seq(Phases)
      /\ Sorted(Tail(plan))
      /\ Left(Tail(plan)) = Left(plan) \ {Head(plan)}
      /\ \A phase \in Left(plan) : phase # Head(plan) => Rank[Head(plan)] < Rank[phase]
    BY <1>1, <1>2, <1>3, TailOfPlan
<1>5. Rank["connect"] = 1 /\ Rank[Head(plan)] \in 1..8
    BY <1>4, RankType DEF Rank, Phases
<1>6. "connect" \in Left(plan) => Head(plan) = "connect"
    BY <1>4, <1>5
<1>7. Left(Plan) \subseteq {"generate"} \/ "connect" \in Left(Plan)
    BY RunnerFacts DEF PlanFits, Actors
<1> QED BY <1>1, <1>2, <1>4, <1>6, <1>7 DEF Phase, plan

\* It leaves its record as it was, but for how far it is.
LEMMA OverRecord ==
    ASSUME Kept, NEW a \in Actors, act[a].plan # <<>>
    PROVE  /\ Over(a) \in Actor
           /\ Over(a).plan = Tail(act[a].plan) /\ ~Over(a).on /\ Over(a).held = 0
           /\ Over(a).pc = act[a].pc /\ Over(a).call = act[a].call /\ Over(a).op = act[a].op
           /\ Over(a).did = act[a].did /\ Over(a).met = act[a].met
           /\ Over(a).lost = act[a].lost
<1>1. act[a] \in Actor /\ act[a].plan \in Seq(Phases)
    BY DEF Kept, Typed, Actor
<1>2. Tail(act[a].plan) \in Seq(Phases) /\ 0 \in 0..MaxContexts
    BY <1>1, HeadTailProperties, MaxContextsAssumption
<1> QED BY <1>1, <1>2 DEF Over, Actor

LEMMA LeavesRecord ==
    ASSUME Kept, NEW a \in Actors, NEW pc \in {"done", "failed", "panicked"}
    PROVE  LET rec == [Fresh EXCEPT !.pc = pc, !.call = act[a].call, !.did = act[a].did]
           IN  rec \in Actor /\ rec.pc = pc /\ rec.call = act[a].call /\ ~rec.on
<1>1. act[a] \in Actor
    BY DEF Kept, Typed
<1> QED BY <1>1, FreshType DEF Actor

LEMMA AskedType ==
    ASSUME ctx.cli \in Command, ctx.schema \in Schema
    PROVE  Asked \in Seq(Words)
<1>1. ctx.cli.names \in Seq(Words) /\ Declared \in Seq(Words)
    BY DEF Command, Schema, Declared
<1>2. If(ctx.schema.admin, "admin") \in Seq(Words)
    BY WordsAssumption DEF If
<1> QED BY <1>1, <1>2 DEF Asked

LEMMA RunCommandKeeps ==
    ASSUME Kept, NEW t \in Threads, RunCommand(t), ~Stop(t)
    PROVE  Kept'
<1> USE DEF At, Changes, Goes, Databases, Faces
<1>1. Typed /\ t \in Actors /\ act[t] \in Actor
    BY DEF Kept, Typed, Actors
<1>2. CASE Prepare(t)
    <2>1. /\ Entered(t) /\ ~At(t, "listening") /\ HasApp(t) /\ Parsed(t)
          /\ Fits(t) /\ conn.version = 0 /\ ~act[t].on
        BY <1>2, KeptFits DEF Prepare, Entered, HasApp, Parsed, Fits
    <2>2. PlanFits /\ Cli(t) # NoCommand /\ ctx.launch = act[t].call /\ ctx.cli = Cli(t)
          /\ ctx.schema \in Schemas
        BY <2>1, AppFacts DEF Kept, Fits
    <2>3. Plan' = Plan /\ UNCHANGED <<up, current, ctx, conn, tables, tracked, rows>>
        BY <1>2 DEF Prepare, Plan, Given, Autoseeds
    <2>4. PICK rec \in {[act[t] EXCEPT !.pc = "failed"],
                        [act[t] EXCEPT !.pc = "running", !.plan = Plan]} :
              act' = [act EXCEPT ![t] = rec]
        BY <1>2 DEF Prepare
    <2>5. /\ rec \in Actor /\ rec.call = act[t].call /\ ~rec.on
          /\ rec.pc = "failed" \/ (rec.pc = "running" /\ rec.plan = Plan)
        <3>1. Plan \in Seq(Phases)
            BY <2>2 DEF PlanFits
        <3>2. CASE rec = [act[t] EXCEPT !.pc = "failed"]
            BY <1>1, <2>1, <3>2 DEF Actor
        <3>3. CASE rec = [act[t] EXCEPT !.pc = "running", !.plan = Plan]
            BY <1>1, <2>1, <3>1, <3>3 DEF Actor
        <3> QED BY <3>2, <3>3
    <2>6. act'[t] = rec
        BY <1>1, <2>4 DEF Typed
    <2>7. Cli(t)' = Cli(t)
        BY <2>5, <2>6 DEF Cli
    <2>8. Fits(t)'
        BY <2>1, <2>2, <2>3, <2>5, <2>6, <2>7 DEF Fits, PlanFits, Parsed, HasApp
    <2> QED BY <1>1, <2>1, <2>3, <2>4, <2>5, <2>8, OwnerActs DEF Typed
<1>3. ASSUME ~Prepare(t)
      PROVE  At(t, "running") /\ act[t].plan # <<>> /\ ~act[t].on /\ UNCHANGED <<current, ctx, Databases>>
    BY <1>3 DEF RunCommand, CallSetup, Listen, RunProgram, Generate, GenerateAdmin
<1>4. ASSUME ~Prepare(t), NEW pc \in {"failed", "panicked"},
             act' = [act EXCEPT ![t] = [act[t] EXCEPT !.pc = pc]], up' \in BOOLEAN
      PROVE  Kept'
    <2> DEFINE rec == [act[t] EXCEPT !.pc = pc]
    <2>1. rec \in Actor /\ rec.pc = pc /\ rec.call = act[t].call /\ ~rec.on
        BY <1>1, <1>3, <1>4 DEF Actor
    <2> HIDE DEF rec
    <2>2. act' = [act EXCEPT ![t] = rec]
        BY <1>4 DEF rec
    <2>3. /\ At(t, "running") /\ UNCHANGED <<current, ctx, conn, tables, tracked, rows>> /\ up' \in BOOLEAN
          /\ rec.pc \in {"running", "listening", "done", "failed", "panicked"}
          /\ rec.pc # "running" /\ rec.pc # "listening"
        BY <1>3, <1>4, <2>1
    <2> QED BY <1>1, <2>1, <2>2, <2>3, RunnerSteps DEF Typed
<1>5. ASSUME ~Prepare(t), EndsProcess PROVE Kept'
    <2>1. act' = [act EXCEPT ![t] = act[t]]
        BY <1>1, <1>5 DEF EndsProcess, Typed
    <2>2. Fits(t) /\ UNCHANGED <<conn, tables, tracked, rows>>
        BY <1>3, <1>5, RunnerEntered
    <2> QED BY <1>1, <1>3, <1>5, <2>1, <2>2, RunnerSteps DEF Typed, Fits, EndsProcess
<1>6. ASSUME ~Prepare(t), NEW rec \in Actor, act' = [act EXCEPT ![t] = rec],
             rec.plan = Over(t).plan, rec.call = act[t].call, ~rec.on, up' = up,
             rec.pc \in {"running", "failed"} \/ (rec.pc = "listening" /\ Phase(t) = "listen")
      PROVE  Kept'
    <2>1. Over(t).plan = Tail(act[t].plan)
        BY <1>1, <1>3, <1>6, OverRecord
    <2>2. /\ Sorted(rec.plan) /\ Left(rec.plan) \subseteq Left(Plan)
          /\ "connect" \notin Left(rec.plan)
          /\ Phase(t) # "connect" /\ "connect" \in Left(Plan) => conn.version > 0
          /\ Phase(t) \notin {"connect", "generate"} => conn.version > 0
        BY <1>3, <1>6, <2>1, PhaseDone
    <2>3. Phase(t) # "connect"
        BY <1>3, <1>6 DEF RunCommand, CallSetup, Listen, RunProgram, Generate, GenerateAdmin
    <2> QED BY <1>1, <1>3, <1>6, <2>2, <2>3, RunnerSteps DEF Typed
<1>7. (ctx.cli \in Command /\ ctx.schema \in Schema) \/ Prepare(t)
    BY <1>1, <1>3, RunnerFacts
<1>8. CASE CallSetup(t)
    <2>1. ~Prepare(t)
        BY <1>8 DEF CallSetup, Prepare
    <2>2. CASE Goes(t, "failed")
        BY <1>4, <1>8, <2>1, <2>2, <1>1 DEF CallSetup, Typed
    <2>3. CASE Changes(t, [Over(t) EXCEPT !.did = Append(@, "setup")])
        <3> DEFINE rec == [Over(t) EXCEPT !.did = Append(@, "setup")]
        <3>1. Over(t) \in Actor /\ Over(t).call = act[t].call /\ ~Over(t).on /\ Over(t).pc = "running"
            BY <1>1, <1>3, <2>1, OverRecord
        <3>2. Append(Over(t).did, "setup") \in Seq(Words)
            BY <3>1, WordsAssumption, AppendProperties DEF Actor
        <3>3. rec \in Actor /\ rec.plan = Over(t).plan /\ rec.call = act[t].call /\ ~rec.on /\ rec.pc = "running"
            BY <3>1, <3>2 DEF Actor
        <3> HIDE DEF rec
        <3>4. act' = [act EXCEPT ![t] = rec] /\ up' = up
            BY <1>8, <2>3 DEF rec, CallSetup
        <3> QED BY <1>6, <2>1, <3>3, <3>4
    <2> QED BY <1>8, <2>2, <2>3 DEF CallSetup
<1>9. CASE Listen(t)
    <2>1. ~Prepare(t) /\ Phase(t) = "listen"
        BY <1>9 DEF Listen, Prepare
    <2>2. CASE Goes(t, "panicked")
        BY <1>1, <1>4, <1>9, <2>1, <2>2 DEF Listen, Typed
    <2>3. CASE Changes(t, [Over(t) EXCEPT !.pc = "listening", !.lost = {}])
        <3> DEFINE rec == [Over(t) EXCEPT !.pc = "listening", !.lost = {}]
        <3>1. Over(t) \in Actor /\ Over(t).call = act[t].call /\ ~Over(t).on
            BY <1>1, <1>3, <2>1, OverRecord
        <3>2. rec \in Actor /\ rec.plan = Over(t).plan /\ rec.call = act[t].call /\ ~rec.on /\ rec.pc = "listening"
            BY <3>1 DEF Actor
        <3> HIDE DEF rec
        <3>3. act' = [act EXCEPT ![t] = rec] /\ up' = up
            BY <1>9, <2>3 DEF rec, Listen
        <3> QED BY <1>6, <2>1, <3>2, <3>3
    <2> QED BY <1>9, <2>2, <2>3 DEF Listen
<1>10. CASE RunProgram(t)
    <2>1. ~Prepare(t)
        BY <1>10 DEF RunProgram, Prepare
    <2>2. CASE Goes(t, "failed") /\ UNCHANGED up
        BY <1>1, <1>4, <2>1, <2>2 DEF Typed
    <2>3. CASE EndsProcess
        BY <1>5, <2>1, <2>3
    <2> QED BY <1>10, <2>2, <2>3 DEF RunProgram
<1>11. CASE Generate(t)
    <2>1. ~Prepare(t) /\ up' = up
        BY <1>11 DEF Generate, Prepare
    <2>2. PICK k \in 0..Len(Asked) :
            act' = [act EXCEPT ![t] = [Over(t) EXCEPT !.did = SubSeq(Asked, 1, k),
                                      !.pc = IF Unclear \/ k < Len(Asked) THEN "failed" ELSE @]]
        BY <1>11 DEF Generate
    <2> DEFINE rec == [Over(t) EXCEPT !.did = SubSeq(Asked, 1, k),
                                      !.pc = IF Unclear \/ k < Len(Asked) THEN "failed" ELSE @]
    <2>3. Over(t) \in Actor /\ Over(t).call = act[t].call /\ ~Over(t).on /\ Over(t).pc = "running"
        BY <1>1, <1>3, <2>1, OverRecord
    <2>4. SubSeq(Asked, 1, k) \in Seq(Words)
        <3>1. Asked \in Seq(Words)
            BY <1>7, <2>1, AskedType
        <3>2. Len(Asked) \in Nat /\ \A i \in 1..k : Asked[i] \in Words
            BY <3>1
        <3> QED BY <3>2, SubSeqProperties
    <2>5. rec \in Actor /\ rec.plan = Over(t).plan /\ rec.call = act[t].call /\ ~rec.on
          /\ rec.pc \in {"running", "failed"}
        BY <2>3, <2>4 DEF Actor
    <2> HIDE DEF rec
    <2>6. act' = [act EXCEPT ![t] = rec]
        BY <2>2 DEF rec
    <2> QED BY <1>6, <2>1, <2>5, <2>6
<1>12. CASE GenerateAdmin(t)
    <2>1. ~Prepare(t) /\ up' = up
        BY <1>12 DEF GenerateAdmin, Prepare
    <2>2. CASE Goes(t, "panicked") \/ Goes(t, "failed")
        BY <1>1, <1>4, <2>1, <2>2 DEF Typed
    <2>3. CASE Changes(t, [Over(t) EXCEPT !.did = Asked])
        <3> DEFINE rec == [Over(t) EXCEPT !.did = Asked]
        <3>1. Over(t) \in Actor /\ Over(t).call = act[t].call /\ ~Over(t).on /\ Over(t).pc = "running"
            BY <1>1, <1>3, <2>1, OverRecord
        <3>2. Asked \in Seq(Words)
            BY <1>7, <2>1, AskedType
        <3>3. rec \in Actor /\ rec.plan = Over(t).plan /\ rec.call = act[t].call /\ ~rec.on /\ rec.pc = "running"
            BY <3>1, <3>2 DEF Actor
        <3> HIDE DEF rec
        <3>4. act' = [act EXCEPT ![t] = rec]
            BY <2>3 DEF rec
        <3> QED BY <1>6, <2>1, <3>3, <3>4
    <2> QED BY <1>12, <2>2, <2>3 DEF GenerateAdmin
<1> QED BY <1>2, <1>8, <1>9, <1>10, <1>11, <1>12 DEF RunCommand

LEMMA PendingFinite ==
    ASSUME Kept
    PROVE  /\ IsFiniteSet(Pending) /\ Cardinality(Pending) \in Nat
           /\ \A S \in SUBSET Pending : IsFiniteSet(S) /\ Cardinality(S) \in Nat
                                        /\ Cardinality(S) <= Cardinality(Pending)
           /\ \A r \in Pending : Cardinality(Pending \ {r}) = Cardinality(Pending) - 1
<1>1. IsFiniteSet(Pending)
    <2>1. Pending \in SUBSET Requests
        BY DEF Pending
    <2> QED BY <2>1, ActorsAssumption, FS_Subset
<1> HIDE DEF Pending
<1> QED BY <1>1, FS_Subset, FS_CardinalityType, FS_RemoveElement

\* A context can be made by whoever is about to.
LEMMA RoomForContext ==
    ASSUME Kept, NEW a \in Actors, At(a, "running"), act[a].plan # <<>>, Phase(a) = "connect"
    PROVE  conn.version + 1 \in 1..MaxContexts
<1>1. conn.version \in Nat /\ MaxContexts \in Nat \ {0}
    BY MaxContextsAssumption DEF Kept, Typed, Connection
<1>2. CASE a \in Threads
    <2>1. conn.version = 0
        BY <1>2, PhaseDone
    <2> QED BY <1>1, <2>1
<1>3. CASE a \in Requests
    <2>1. act[a].plan \in Seq(Phases)
        BY DEF Kept, Typed, Actor
    <2>2. Len(act[a].plan) >= 1 /\ Len(act[a].plan) \in Nat /\ Phase(a) = act[a].plan[1]
        BY <2>1 DEF Phase
    <2>3. a \in Pending
        BY <1>3, <2>2 DEF Pending, Left
    <2>4. Cardinality(Pending) >= 1
        <3>1. Cardinality(Pending \ {a}) \in Nat /\ Cardinality(Pending \ {a}) = Cardinality(Pending) - 1
              /\ Cardinality(Pending) \in Nat
            <4> HIDE DEF Pending
            <4> QED BY <2>3, PendingFinite
        <3> QED BY <3>1
    <2>5. conn.version + Cardinality(Pending) <= MaxContexts
        BY DEF Kept, Versions
    <2> QED BY <1>1, <2>4, <2>5, PendingFinite
<1> QED BY <1>2, <1>3 DEF Actors

\* What somebody who works leaves in its record.
InLoop(a, rec) ==
    /\ rec.pc = "running" /\ rec.op = act[a].op /\ rec.plan = act[a].plan /\ rec.plan # <<>>
    /\ rec.on => Phase(a) \in Looping /\ (Phase(a) = "connect" \/ rec.held > 0)
    /\ conn'.version = conn.version
PhaseOver(a, rec) ==
    /\ act[a].plan # <<>>
    /\ rec.pc = "running" /\ rec.op = act[a].op /\ rec.plan = Tail(act[a].plan)
    /\ ~rec.on
    /\ conn'.version = conn.version + (IF Phase(a) = "connect" THEN 1 ELSE 0)
WorkOver(a, rec) ==
    /\ rec.pc \in {"done", "failed", "panicked"}
    /\ ~rec.on
    /\ conn'.version = conn.version

LEMMA RecordsType ==
    ASSUME Typed, NEW a, InsertRecord(a) \/ RemoveRecord(a) \/ KeepRecord(a) \/ FailToSeed(a)
    PROVE  tracked' \subseteq Paths /\ rows' \in [Paths -> SUBSET Kinds]
<1> USE DEF Typed
<1>1. CASE InsertRecord(a)
    <2>1. PICK n \in tables : /\ tracked' = tracked \union {n}
                              /\ rows' = [rows EXCEPT ![n] = @ \union {"seed"}]
        BY <1>1 DEF InsertRecord
    <2> QED BY <2>1 DEF Kinds
<1>2. CASE RemoveRecord(a)
    <2>1. PICK n \in tables : /\ tracked' = tracked \ {n}
                              /\ rows' = [rows EXCEPT ![n] = @ \ {"seed"}]
        BY <1>2 DEF RemoveRecord
    <2> QED BY <2>1
<1>3. CASE KeepRecord(a)
    BY <1>3 DEF KeepRecord, Databases
<1>4. CASE FailToSeed(a)
    <2>1. \/ UNCHANGED <<tracked, rows>>
          \/ \E n \in tables :
                /\ tracked' \in {tracked, tracked \ {n}}
                /\ rows' \in {rows, [rows EXCEPT ![n] = @ \union {"other"}],
                              [rows EXCEPT ![n] = @ \ {"seed"}]}
        BY <1>4 DEF FailToSeed
    <2>2. CASE \E n \in tables :
                /\ tracked' \in {tracked, tracked \ {n}}
                /\ rows' \in {rows, [rows EXCEPT ![n] = @ \union {"other"}],
                              [rows EXCEPT ![n] = @ \ {"seed"}]}
        <3>1. PICK n \in tables :
                /\ tracked' \in {tracked, tracked \ {n}}
                /\ rows' \in {rows, [rows EXCEPT ![n] = @ \union {"other"}],
                              [rows EXCEPT ![n] = @ \ {"seed"}]}
            BY <2>2
        <3> QED BY <3>1 DEF Kinds
    <2> QED BY <2>1, <2>2
<1> QED BY <1>1, <1>2, <1>3, <1>4

LEMMA EmptiesType ==
    ASSUME Typed, NEW n, NEW kept \in SUBSET Kinds, NEW records \in BOOLEAN,
           Empties(n, kept, records)
    PROVE  tracked' \subseteq Paths /\ rows' \in [Paths -> SUBSET Kinds]
<1> DEFINE of(m) == IF m = n THEN kept ELSE rows[m]
<1>1. ASSUME NEW m \in Paths PROVE of(m) \subseteq Kinds /\ Unnamed(of(m)) \subseteq Kinds
    BY DEF Typed, Unnamed, Kinds
<1>2. rows' = [m \in Paths |-> IF records THEN Unnamed(of(m)) ELSE of(m)]
    BY DEF Empties
<1> HIDE DEF of
<1> QED BY <1>1, <1>2 DEF Empties, Typed

LEMMA WorkIs ==
    ASSUME Kept, NEW a \in Actors, Work(a)
    PROVE  /\ At(a, "running")
           /\ UNCHANGED <<current, ctx>>
           /\ up' \in BOOLEAN /\ conn' \in Connection
           /\ tables' \subseteq Paths /\ tracked' \subseteq Paths /\ rows' \in [Paths -> SUBSET Kinds]
           /\ \E rec \in Actor :
                /\ act' = [act EXCEPT ![a] = rec]
                /\ rec.call = act[a].call
                /\ InLoop(a, rec) \/ PhaseOver(a, rec) \/ WorkOver(a, rec)
<1> DEFINE Goal == /\ At(a, "running")
                   /\ UNCHANGED <<current, ctx>>
                   /\ up' \in BOOLEAN /\ conn' \in Connection
                   /\ tables' \subseteq Paths /\ tracked' \subseteq Paths /\ rows' \in [Paths -> SUBSET Kinds]
                   /\ \E rec \in Actor :
                        /\ act' = [act EXCEPT ![a] = rec]
                        /\ rec.call = act[a].call
                        /\ InLoop(a, rec) \/ PhaseOver(a, rec) \/ WorkOver(a, rec)
<1>1. Typed /\ act[a] \in Actor
    BY DEF Kept, Typed
<1>2. act[a].on => /\ At(a, "running") /\ act[a].plan # <<>> /\ Phase(a) \in Looping
                   /\ Phase(a) = "connect" \/ act[a].held > 0
    BY DEF Kept, Hands
<1>3. At(a, "running") => Connectable \subseteq Paths
    BY RunnerFacts DEF Connectable, Schema
<1>4. ASSUME act[a].on, NEW n, act' = [act EXCEPT ![a] = [act[a] EXCEPT !.todo = act[a].todo \ {n}]],
             UNCHANGED <<up, current, ctx>>, conn' \in Connection, conn'.version = conn.version,
             tables' \subseteq Paths, tracked' \subseteq Paths, rows' \in [Paths -> SUBSET Kinds]
      PROVE  Goal
    <2> DEFINE rec == [act[a] EXCEPT !.todo = act[a].todo \ {n}]
    <2>1. /\ rec \in Actor /\ rec.call = act[a].call /\ rec.pc = act[a].pc /\ rec.op = act[a].op
          /\ rec.plan = act[a].plan /\ rec.on = act[a].on /\ rec.held = act[a].held
        BY <1>1 DEF Actor
    <2>2. act' = [act EXCEPT ![a] = rec] /\ up' \in BOOLEAN
        BY <1>1, <1>4 DEF Typed
    <2> HIDE DEF rec
    <2>3. InLoop(a, rec)
        BY <1>2, <1>4, <2>1 DEF InLoop, At
    <2> QED BY <1>2, <1>4, <2>1, <2>2, <2>3
<1>5. ASSUME act[a].on, act' = [act EXCEPT ![a] = Over(a)],
             UNCHANGED <<up, current, ctx, tables, tracked, rows>>, conn' \in Connection,
             conn'.version = conn.version + (IF Phase(a) = "connect" THEN 1 ELSE 0)
      PROVE  Goal
    <2>1. PhaseOver(a, Over(a)) /\ Over(a) \in Actor /\ Over(a).call = act[a].call
        BY <1>2, <1>5, OverRecord DEF PhaseOver, At
    <2>2. up' \in BOOLEAN /\ tables' \subseteq Paths /\ tracked' \subseteq Paths /\ rows' \in [Paths -> SUBSET Kinds]
        BY <1>1, <1>5 DEF Typed
    <2> QED BY <1>2, <1>5, <2>1, <2>2
<1>6. ASSUME At(a, "running"), NEW pc \in {"done", "failed", "panicked"}, Leaves(a, pc),
             UNCHANGED <<up, current, ctx, conn, tables>>,
             tracked' \subseteq Paths, rows' \in [Paths -> SUBSET Kinds]
      PROVE  Goal
    <2> DEFINE rec == [Fresh EXCEPT !.pc = pc, !.call = act[a].call, !.did = act[a].did]
    <2>1. rec \in Actor /\ rec.pc = pc /\ rec.call = act[a].call /\ ~rec.on
        BY LeavesRecord
    <2>2. act' = [act EXCEPT ![a] = rec]
        BY <1>6 DEF Leaves, Changes
    <2> HIDE DEF rec
    <2>3. WorkOver(a, rec)
        BY <1>6, <2>1 DEF WorkOver
    <2> QED BY <1>1, <1>6, <2>1, <2>2, <2>3 DEF Typed
<1>7. ASSUME act[a].on, EndsProcess, UNCHANGED <<current, ctx, conn, tables, tracked, rows>>
      PROVE  Goal
    <2>1. act' = [act EXCEPT ![a] = act[a]]
        BY <1>1, <1>7 DEF EndsProcess, Typed
    <2>2. InLoop(a, act[a])
        BY <1>2, <1>7 DEF InLoop, At
    <2> QED BY <1>1, <1>2, <1>7, <2>1, <2>2 DEF Typed, EndsProcess
<1> USE DEF Databases, Changes
<1>8. CASE Begin(a)
    <2>1. PICK phase \in Looping :
              /\ Faces(a, phase)
              /\ act' = [act EXCEPT ![a] = [act[a] EXCEPT
                   !.on = TRUE,
                   !.todo = IF phase = "connect" THEN Connectable ELSE conn.over,
                   !.held = IF phase = "connect" THEN 0 ELSE conn.version,
                   !.lost = IF phase = "seed" /\ ~act[a].met THEN Lost ELSE act[a].lost]]
        BY <1>8 DEF Begin
    <2>2. At(a, "running") /\ act[a].plan # <<>> /\ Phase(a) = phase
        BY <2>1 DEF Faces
    <2>3. phase # "connect" => conn.version > 0
        <3>1. CASE a \in Threads
            BY <2>2, <3>1, PhaseDone DEF Looping
        <3>2. CASE a \in Requests
            BY <2>2, <3>2 DEF Kept, Served, Commanded
        <3> QED BY <3>1, <3>2 DEF Actors
    <2>4. conn.version \in 0..MaxContexts /\ conn.over \subseteq Paths /\ Connectable \subseteq Paths
        BY <1>1, <1>3, <2>2 DEF Typed, Connection
    <2> DEFINE todo == IF phase = "connect" THEN Connectable ELSE conn.over
               held == IF phase = "connect" THEN 0 ELSE conn.version
               lost == IF phase = "seed" /\ ~act[a].met THEN Lost ELSE act[a].lost
               rec == [act[a] EXCEPT !.on = TRUE, !.todo = todo, !.held = held, !.lost = lost]
    <2>5. /\ rec \in Actor /\ rec.call = act[a].call /\ rec.pc = act[a].pc /\ rec.op = act[a].op
          /\ rec.plan = act[a].plan /\ rec.held = IF phase = "connect" THEN 0 ELSE conn.version
        <3>1. todo \subseteq Paths /\ held \in 0..MaxContexts /\ lost \subseteq Paths
            BY <1>1, <2>4, MaxContextsAssumption DEF Lost, Typed, Actor
        <3> HIDE DEF todo, lost
        <3>2. held = IF phase = "connect" THEN 0 ELSE conn.version
            OBVIOUS
        <3> HIDE DEF held
        <3> QED BY <1>1, <3>1, <3>2 DEF Actor
    <2> HIDE DEF rec
    <2>6. act' = [act EXCEPT ![a] = rec]
        BY <2>1 DEF rec
    <2>7. UNCHANGED <<up, current, ctx, conn, tables, tracked, rows>>
        BY <1>8 DEF Begin
    <2>8. InLoop(a, rec)
        BY <2>1, <2>2, <2>3, <2>5, <2>7 DEF InLoop, At
    <2> QED BY <1>1, <2>2, <2>5, <2>6, <2>7, <2>8 DEF Typed
<1>9. CASE ConnectNext(a)
    <2>1. PICK n \in NextOf(a) :
              /\ conn' = [conn EXCEPT !.renewed = @ \union {n}]
              /\ act' = [act EXCEPT ![a] = [act[a] EXCEPT !.todo = act[a].todo \ {n}]]
        BY <1>9 DEF ConnectNext, Passes, Rest
    <2>2. n \in Paths
        BY <1>1 DEF NextOf, Actor
    <2>3. conn' \in Connection /\ conn'.version = conn.version
        <3>1. conn \in Connection /\ conn.renewed \union {n} \subseteq Paths
            BY <1>1, <2>2 DEF Typed, Connection
        <3> QED BY <2>1, <3>1 DEF Connection
    <2> QED BY <1>1, <1>4, <1>9, <2>1, <2>3 DEF ConnectNext, Does, Typed
<1>10. CASE EndConnect(a)
    <2>1. act[a].on /\ Phase(a) = "connect" /\ At(a, "running") /\ act[a].plan # <<>>
        BY <1>2, <1>10 DEF EndConnect, Does
    <2>2. conn.version + 1 \in 1..MaxContexts
        BY <2>1, RoomForContext
    <2>3. conn' \in Connection /\ conn'.version = conn.version + 1
        <3>1. conn' = [version |-> conn.version + 1, over |-> Connectable, renewed |-> {}]
            BY <1>10 DEF EndConnect
        <3>2. conn.version + 1 \in 0..MaxContexts
            BY <2>2
        <3> QED BY <1>3, <2>1, <3>1, <3>2 DEF Connection
    <2> QED BY <1>5, <1>10, <2>1, <2>3 DEF EndConnect
<1>11. CASE MigrateNext(a)
    <2>1. PICK n \in NextOf(a) :
              /\ tables' = IF Given("--dry") THEN tables ELSE tables \union {n}
              /\ act' = [act EXCEPT ![a] = [act[a] EXCEPT !.todo = act[a].todo \ {n}]]
        BY <1>11 DEF MigrateNext, Passes, Rest
    <2>2. n \in Paths
        BY <1>1 DEF NextOf, Actor
    <2> QED BY <1>1, <1>4, <1>11, <2>1, <2>2 DEF MigrateNext, Does, Typed
<1>12. CASE InsertRecord(a) \/ RemoveRecord(a) \/ KeepRecord(a)
    <2>1. act[a].on /\ UNCHANGED <<up, current, ctx, conn, tables>>
        BY <1>12 DEF InsertRecord, RemoveRecord, KeepRecord, Seeds, Does
    <2>2. PICK n \in act[a].todo :
              act' = [act EXCEPT ![a] = [act[a] EXCEPT !.todo = act[a].todo \ {n}]]
        BY <1>12 DEF InsertRecord, RemoveRecord, KeepRecord, Passes, Rest
    <2>3. tracked' \subseteq Paths /\ rows' \in [Paths -> SUBSET Kinds]
        BY <1>1, <1>12, RecordsType
    <2> QED BY <1>1, <1>4, <2>1, <2>2, <2>3 DEF Typed
<1>13. CASE PurgeNext(a)
    <2>1. PICK n \in NextOf(a) \cap tables :
              /\ Empties(n, {}, n = Main)
              /\ act' = [act EXCEPT ![a] = [act[a] EXCEPT !.todo = act[a].todo \ {n}]]
        BY <1>13 DEF PurgeNext, Passes, Rest
    <2>2. tracked' \subseteq Paths /\ rows' \in [Paths -> SUBSET Kinds]
        BY <1>1, <2>1, EmptiesType
    <2> QED BY <1>1, <1>4, <1>13, <2>1, <2>2 DEF PurgeNext, Does, Typed
<1>14. CASE ReadFreed(a)
    BY <1>7, <1>14 DEF ReadFreed, Freed, Does
<1>15. CASE Fail(a)
    <2>1. At(a, "running") /\ UNCHANGED <<up, current, ctx, conn, tables, tracked, rows>>
        BY <1>15 DEF Fail, Faces, Does
    <2>2. Leaves(a, "failed") \/ Leaves(a, "panicked")
        BY <1>15 DEF Fail
    <2> QED BY <1>1, <1>6, <2>1, <2>2 DEF Typed
<1>18. CASE FailToSeed(a)
    <2>1. /\ At(a, "running") /\ Leaves(a, "panicked")
          /\ UNCHANGED <<up, current, ctx, conn, tables>>
        BY <1>18 DEF FailToSeed, Does
    <2>2. tracked' \subseteq Paths /\ rows' \in [Paths -> SUBSET Kinds]
        BY <1>1, <1>18, RecordsType
    <2> QED BY <1>6, <2>1, <2>2
<1>19. CASE FailToPurge(a)
    <2>1. /\ At(a, "running") /\ Leaves(a, "failed")
          /\ UNCHANGED <<up, current, ctx, conn, tables>>
        BY <1>19 DEF FailToPurge, Does
    <2>2. tracked' \subseteq Paths /\ rows' \in [Paths -> SUBSET Kinds]
        <3>1. CASE UNCHANGED <<tracked, rows>>
            BY <1>1, <3>1 DEF Typed
        <3>2. CASE \E n \in NextOf(a) \cap tables : \E kept \in SUBSET rows[n], records \in BOOLEAN :
                      (records => n = Main) /\ Empties(n, kept, records)
            <4>1. PICK n \in tables : \E kept \in SUBSET rows[n], records \in BOOLEAN :
                      Empties(n, kept, records)
                BY <3>2
            <4>2. PICK kept \in SUBSET rows[n], records \in BOOLEAN : Empties(n, kept, records)
                BY <4>1
            <4>3. kept \in SUBSET Kinds
                BY <1>1, <4>1, <4>2 DEF Typed
            <4> QED BY <1>1, <4>2, <4>3, EmptiesType
        <3> QED BY <1>19, <3>1, <3>2 DEF FailToPurge
    <2> QED BY <1>6, <2>1, <2>2
<1>16. CASE EndLoop(a)
    <2>1. act[a].on /\ Phase(a) \in Looping \ {"connect"}
        BY <1>16 DEF EndLoop, Seeds, Does, Looping
    <2>2. UNCHANGED <<current, ctx, conn, tables, tracked, rows>>
        BY <1>16 DEF EndLoop
    <2>3. CASE EndsProcess
        BY <1>7, <2>1, <2>2, <2>3
    <2>4. CASE Changes(a, Over(a)) /\ UNCHANGED up
        <3>1. conn' \in Connection /\ conn'.version = conn.version + 0
            BY <1>1, <2>2 DEF Typed, Connection
        <3> QED BY <1>5, <2>1, <2>2, <2>4, <3>1
    <2> QED BY <1>16, <2>3, <2>4 DEF EndLoop
<1>17. CASE Finish(a)
    <2>1. At(a, "running") /\ UNCHANGED <<up, current, ctx, conn, tables, tracked, rows>>
        BY <1>17 DEF Finish
    <2> QED BY <1>1, <1>6, <1>17, <2>1 DEF Finish, Typed
<1> QED BY <1>8, <1>9, <1>10, <1>11, <1>12, <1>13, <1>14, <1>15, <1>16, <1>17, <1>18, <1>19 DEF Work

LEMMA ThreadWorks ==
    ASSUME Kept, NEW t \in Threads, Work(t)
    PROVE  Kept'
<1>1. /\ At(t, "running") /\ UNCHANGED <<current, ctx>>
      /\ up' \in BOOLEAN /\ conn' \in Connection
      /\ tables' \subseteq Paths /\ tracked' \subseteq Paths /\ rows' \in [Paths -> SUBSET Kinds]
    BY WorkIs DEF Actors
<1>2. PICK rec \in Actor : /\ act' = [act EXCEPT ![t] = rec]
                           /\ rec.call = act[t].call
                           /\ InLoop(t, rec) \/ PhaseOver(t, rec) \/ WorkOver(t, rec)
    BY WorkIs DEF Actors
<1>3. Fits(t) /\ act[t].pc = "running" /\ At(t, "running")
    BY <1>1, RunnerEntered
<1>4. CASE InLoop(t, rec)
    <2>1. /\ rec.pc = "running"
          /\ Sorted(rec.plan) /\ Left(rec.plan) \subseteq Left(Plan)
          /\ "connect" \in Left(rec.plan) => conn'.version = 0
          /\ "connect" \in Left(Plan) \ Left(rec.plan) => conn'.version > 0
          /\ rec.on => /\ rec.pc = "running" /\ rec.plan # <<>> /\ Head(rec.plan) \in Looping
                       /\ Head(rec.plan) = "connect" \/ rec.held > 0
        BY <1>3, <1>4 DEF Fits, InLoop, Phase
    <2> QED BY <1>1, <1>2, <2>1, RunnerSteps
<1>5. CASE PhaseOver(t, rec)
    <2>1. act[t].plan # <<>> /\ rec.plan = Tail(act[t].plan)
        BY <1>5 DEF PhaseOver
    <2>2. /\ Sorted(rec.plan) /\ Left(rec.plan) \subseteq Left(Plan)
          /\ "connect" \notin Left(rec.plan)
          /\ Phase(t) # "connect" /\ "connect" \in Left(Plan) => conn.version > 0
        BY <1>1, <2>1, PhaseDone
    <2>3. conn.version \in Nat
        BY DEF Kept, Typed, Connection
    <2>4. "connect" \in Left(Plan) => conn'.version > 0
        BY <1>5, <2>2, <2>3 DEF PhaseOver
    <2>5. rec.pc = "running" /\ ~rec.on
        BY <1>5 DEF PhaseOver
    <2> QED BY <1>1, <1>2, <2>2, <2>4, <2>5, RunnerSteps
<1>6. CASE WorkOver(t, rec)
    <2>1. rec.pc \in {"done", "failed", "panicked"} /\ ~rec.on
        BY <1>6 DEF WorkOver
    <2> QED BY <1>1, <1>2, <2>1, RunnerSteps
<1> QED BY <1>2, <1>4, <1>5, <1>6

\* What is left to a request is a rest of its operation.
LEMMA RestOfOperation ==
    ASSUME NEW operation \in Operations \ {"other"}, NEW plan \in Remaining(operation)
    PROVE  /\ plan # <<>> => Tail(plan) \in Remaining(operation)
           /\ plan # <<>> => Head(plan) \in Looping
           /\ plan # <<>> /\ Head(plan) # "connect" =>
                  ("connect" \in Left(Tail(plan)) => "connect" \in Left(plan))
           /\ plan # <<>> /\ Head(plan) = "connect" =>
                  "connect" \in Left(plan) /\ "connect" \notin Left(Tail(plan))
<1>1. plan \in {<<"seed">>, <<>>, <<"purge">>, <<"purge", "connect", "seed">>, <<"connect", "seed">>}
    BY DEF Remaining, Operations
<1>2. CASE plan = <<>>
    BY <1>2
<1>3. CASE plan = <<"seed">> \/ plan = <<"purge">>
    <2>1. Tail(plan) = <<>> /\ Head(plan) \in {"seed", "purge"} /\ <<>> \in Remaining(operation)
        <3>1. <<>> \in Remaining(operation)
            BY DEF Remaining, Operations
        <3>2. CASE plan = <<"seed">>
            <4>1. Tail(plan) = <<>> /\ Head(plan) = "seed"
                BY <3>2
            <4> QED BY <3>1, <4>1
        <3>3. CASE plan = <<"purge">>
            <4>1. Tail(plan) = <<>> /\ Head(plan) = "purge"
                BY <3>3
            <4> QED BY <3>1, <4>1
        <3> QED BY <1>3, <3>2, <3>3
    <2> QED BY <2>1, PlanOfNone DEF Looping
<1>4. CASE plan = <<"purge", "connect", "seed">>
    <2>1. operation = "purge_seed"
        BY <1>4 DEF Remaining, Operations
    <2>2. Tail(plan) = <<"connect", "seed">> /\ Head(plan) = "purge" /\ plan[2] = "connect" /\ Len(plan) = 3
        BY <1>4
    <2>3. "connect" \in Left(plan)
        BY <2>2 DEF Left
    <2> QED BY <2>1, <2>2, <2>3 DEF Remaining, Looping
<1>5. CASE plan = <<"connect", "seed">>
    <2>1. operation = "purge_seed"
        BY <1>5 DEF Remaining, Operations
    <2>2. Tail(plan) = <<"seed">> /\ Head(plan) = "connect" /\ plan[1] = "connect" /\ Len(plan) = 2
        BY <1>5
    <2>3. "connect" \in Left(plan) /\ "connect" \notin Left(<<"seed">>)
        BY <2>2 DEF Left
    <2> QED BY <2>1, <2>2, <2>3 DEF Remaining, Looping
<1> QED BY <1>1, <1>2, <1>3, <1>4, <1>5

LEMMA RequestWorks ==
    ASSUME Kept, NEW r \in Requests, Work(r)
    PROVE  Kept'
<1>1. /\ At(r, "running") /\ UNCHANGED <<current, ctx>>
      /\ up' \in BOOLEAN /\ conn' \in Connection
      /\ tables' \subseteq Paths /\ tracked' \subseteq Paths /\ rows' \in [Paths -> SUBSET Kinds]
    BY WorkIs DEF Actors
<1>2. PICK rec \in Actor : /\ act' = [act EXCEPT ![r] = rec]
                           /\ rec.call = act[r].call
                           /\ InLoop(r, rec) \/ PhaseOver(r, rec) \/ WorkOver(r, rec)
    BY WorkIs DEF Actors
<1>3. PICK t \in Threads : At(t, "listening")
    BY <1>1 DEF Kept, Served
<1>4. /\ act[r].op \in Operations \ {"other"}
      /\ act[r].plan \in Remaining(act[r].op)
    BY <1>1 DEF Kept, Served
<1>5. /\ r \in Actors
      /\ act' \in [Actors -> Actor]
      /\ act'[r] = rec
      /\ \A a \in Actors : a # r => act'[a] = act[a] /\ Stays(a)
    BY <1>2 DEF Kept, Typed, Actors, Stays
<1>6. Proper(r)'
    <2>1. CASE InLoop(r, rec)
        BY <1>4, <1>5, <2>1 DEF Proper, InLoop, At, Phase
    <2>2. CASE PhaseOver(r, rec)
        BY <1>4, <1>5, <2>2, RestOfOperation DEF Proper, PhaseOver, At
    <2>3. CASE WorkOver(r, rec)
        BY <1>5, <2>3 DEF Proper, WorkOver, At
    <2> QED BY <1>2, <2>1, <2>2, <2>3
<1>7. /\ conn.version \in Nat /\ conn'.version \in Nat /\ MaxContexts \in Nat
      /\ conn.version + Cardinality(Pending) <= MaxContexts
    BY <1>1, MaxContextsAssumption DEF Kept, Typed, Connection, Versions
<1>8. /\ Cardinality(Pending) \in Nat
      /\ \A S \in SUBSET Pending : Cardinality(S) \in Nat /\ Cardinality(S) <= Cardinality(Pending)
      /\ \A q \in Pending : Cardinality(Pending \ {q}) = Cardinality(Pending) - 1
    <2> HIDE DEF Pending
    <2> QED BY PendingFinite
<1>9. \A q \in Requests : q # r => (q \in Pending' <=> q \in Pending)
    BY <1>5 DEF Pending, At, Actors
<1>10. /\ conn'.version >= conn.version
       /\ conn'.version + Cardinality(Pending') <= MaxContexts
    <2>1. CASE PhaseOver(r, rec) /\ Phase(r) = "connect"
        <3>1. "connect" \in Left(act[r].plan) /\ "connect" \notin Left(rec.plan)
            BY <1>4, <2>1, RestOfOperation DEF PhaseOver, Phase
        <3>2. r \in Pending /\ r \notin Pending'
            BY <1>1, <1>5, <3>1 DEF Pending
        <3>3. Pending' = Pending \ {r}
            BY <1>9, <3>2 DEF Pending
        <3>4. Cardinality(Pending') = Cardinality(Pending) - 1
            BY <1>8, <3>2, <3>3
        <3>5. conn'.version = conn.version + 1
            BY <2>1 DEF PhaseOver
        <3> QED BY <1>7, <1>8, <3>4, <3>5
    <2>2. CASE ~(PhaseOver(r, rec) /\ Phase(r) = "connect")
        <3>1. r \in Pending' => r \in Pending
            <4>1. CASE InLoop(r, rec)
                BY <1>1, <1>5, <4>1 DEF Pending, InLoop
            <4>2. CASE PhaseOver(r, rec)
                BY <1>1, <1>4, <1>5, <2>2, <4>2, RestOfOperation DEF Pending, PhaseOver, Phase
            <4>3. CASE WorkOver(r, rec)
                BY <1>5, <4>3 DEF Pending, WorkOver, At
            <4> QED BY <1>2, <4>1, <4>2, <4>3
        <3>2. Pending' \in SUBSET Pending
            BY <1>9, <3>1 DEF Pending
        <3>3. Cardinality(Pending') \in Nat /\ Cardinality(Pending') <= Cardinality(Pending)
            BY <1>8, <3>2
        <3>4. conn'.version = conn.version
            BY <1>2, <1>7, <2>2 DEF InLoop, PhaseOver, WorkOver
        <3> QED BY <1>7, <1>8, <3>3, <3>4
    <2> QED BY <2>1, <2>2
<1> QED BY <1>1, <1>3, <1>5, <1>6, <1>10, RequestMoves

\* The server stops: the requests are gone, and the thread is done.
LEMMA StopKeeps ==
    ASSUME Kept, NEW t \in Threads, Stop(t)
    PROVE  Kept'
<1> USE DEF At
<1>1. /\ act[t].pc = "listening" /\ Entered(t) /\ current = t /\ Typed /\ Owner
      /\ UNCHANGED <<up, current, ctx, conn, tables, tracked, rows>>
    BY DEF Stop, Kept, Owner, Entered, Databases
<1>2. \A u \in Threads : u # t => ~Entered(u)
    BY <1>1, OneEntered
<1>3. act' = [b \in Actors |-> IF b \in Requests THEN Fresh
                               ELSE [act[b] EXCEPT !.pc = IF b = t THEN "done" ELSE @]]
    BY DEF Stop
<1>4. \A r \in Requests : r \in Actors /\ act'[r] = Fresh
    BY <1>3 DEF Actors
<1>5. \A u \in Threads : u \in Actors /\ u \notin Requests /\ act[u] \in Actor
    BY <1>1, ActorsAssumption DEF Actors, Typed
<1>6. /\ act'[t].pc = "done" /\ act'[t].call = act[t].call /\ act'[t].on = act[t].on
      /\ act'[t] \in Actor
    <2>1. act'[t] = [act[t] EXCEPT !.pc = "done"]
        BY <1>3, <1>5
    <2> QED BY <1>5, <2>1 DEF Actor
<1>7. \A u \in Threads : u # t => act'[u] = act[u]
    <2> SUFFICES ASSUME NEW u \in Threads, u # t PROVE act'[u] = act[u]
        OBVIOUS
    <2>1. act'[u] = [act[u] EXCEPT !.pc = @]
        BY <1>3, <1>5
    <2> QED BY <1>5, <2>1 DEF Actor
<1>8. \A a \in Actors : act[a].on => act[a].pc = "running"
    BY DEF Kept, Hands
<1>9. Typed'
    <2>1. \A a \in Actors : act'[a] \in Actor
        BY <1>1, <1>4, <1>5, <1>6, <1>7, FreshType DEF Actors
    <2>2. DOMAIN act' = Actors /\ act' = [a \in Actors |-> act'[a]]
        BY <1>3
    <2>3. act' \in [Actors -> Actor]
        BY <2>1, <2>2
    <2> QED BY <1>1, <2>3 DEF Typed
<1>10. Owner'
    <2> SUFFICES ASSUME NEW u \in Threads
                 PROVE  /\ act'[u].pc # "idle" => act'[u].call \in Launches[u]
                        /\ Entered(u)' => current' = u
                        /\ Parsed(u)' => ctx'.launch = act'[u].call /\ Cli(u)' # NoCommand
                        /\ HasApp(u)' => ctx'.cli = Cli(u)' /\ ctx'.schema \in Schemas
        BY DEF Owner
    <2>1. CASE u = t
        <3>1. Parsed(t) /\ HasApp(t) /\ act[t].pc # "idle" /\ Cli(t)' = Cli(t)
            BY <1>1, <1>6 DEF Parsed, HasApp, Cli
        <3> QED BY <1>1, <1>6, <2>1, <3>1 DEF Owner
    <2>2. CASE u # t
        BY <1>1, <1>2, <1>7, <2>2 DEF Owner, Entered, Parsed, HasApp
    <2> QED BY <2>1, <2>2
<1>11. Hands'
    <2> SUFFICES ASSUME NEW a \in Actors PROVE ~act'[a].on \/ (a \in Threads /\ a # t)
        BY <1>1, <1>2, <1>7, <1>8 DEF Hands, Entered
    <2> QED BY <1>1, <1>4, <1>6, <1>8, FreshType DEF Actors
<1>12. Served'
    BY <1>4, FreshType DEF Served
<1>13. Commanded'
    <2> SUFFICES ASSUME NEW u \in Threads
                 PROVE  act'[u].pc \notin {"configure", "load", "app", "running", "listening"}
        BY DEF Commanded
    <2> QED BY <1>2, <1>6, <1>7 DEF Entered
<1>14. Versions'
    <2>1. Pending' = {}
        BY <1>4, FreshType DEF Pending
    <2>2. Cardinality(Pending') = 0 /\ conn.version \in 0..MaxContexts
        BY <1>1, <2>1, FS_EmptySet DEF Typed, Connection
    <2> QED BY <1>1, <2>2, ActorsAssumption, MaxContextsAssumption DEF Versions
<1> QED BY <1>9, <1>10, <1>11, <1>12, <1>13, <1>14 DEF Kept

\* What asking for an operation does: the others only learn that they met it.
Asks(r, operation) ==
    /\ act' \in [Actors -> Actor]
    /\ \A a \in Actors : a # r =>
           /\ Stays(a)
           /\ act'[a].did = act[a].did
           /\ act'[a].todo = act[a].todo
           /\ act'[a].met <=> act[a].met \/ (a \in Requests /\ Busy(a) /\ operation # "other")
           /\ ~act'[a].met => act'[a].lost = act[a].lost
    /\ operation = "other" => act'[r].pc = "failed"
    /\ operation # "other" =>
           /\ act'[r].pc = "running" /\ act'[r].op = operation
           /\ act'[r].plan = PlanOf(operation)
           /\ act'[r].met <=> \E q \in Requests : Busy(q)
    /\ ~act'[r].on
    /\ operation = "purge_seed" =>
           conn.version + Cardinality(Reconnecting) < MaxContexts
    /\ \E t \in Threads : At(t, "listening")
    /\ ~Busy(r)
    /\ UNCHANGED <<up, current, ctx, conn, tables, tracked, rows>>

LEMMA AskRecords ==
    ASSUME Kept, NEW r \in Requests, Ask(r)
    PROVE  \E operation \in Operations : Asks(r, operation)
<1>1. PICK operation \in Operations :
        /\ operation = "purge_seed" => conn.version + Cardinality(Reconnecting) < MaxContexts
        /\ act' = [b \in Actors |->
             IF b = r
             THEN IF operation = "other"
                  THEN [Fresh EXCEPT !.pc = "failed"]
                  ELSE [Fresh EXCEPT !.pc = "running", !.op = operation,
                                     !.plan = PlanOf(operation),
                                     !.met = \E q \in Requests : Busy(q)]
             ELSE IF b \in Requests /\ Busy(b) /\ operation # "other"
                  THEN [act[b] EXCEPT !.met = TRUE, !.lost = {}]
                  ELSE act[b]]
    BY DEF Ask
<1>2. /\ r \in Actors /\ \A a \in Actors : act[a] \in Actor
    BY DEF Kept, Typed, Actors
<1>3. operation # "other" => PlanOf(operation) \in Seq(Phases)
    <2>1. /\ <<"seed">> \in Seq(Phases) /\ <<"purge">> \in Seq(Phases)
          /\ <<"purge", "connect", "seed">> \in Seq(Phases)
        BY DEF Phases
    <2> QED BY <2>1 DEF PlanOf, Operations
<1> DEFINE asked == [Fresh EXCEPT !.pc = "running", !.op = operation,
                                  !.plan = PlanOf(operation),
                                  !.met = \E q \in Requests : Busy(q)]
           refused == [Fresh EXCEPT !.pc = "failed"]
           seen(b) == IF b \in Requests /\ Busy(b) /\ operation # "other"
                      THEN [act[b] EXCEPT !.met = TRUE, !.lost = {}]
                      ELSE act[b]
<1>4. refused \in Actor /\ refused.pc = "failed" /\ ~refused.on
    BY FreshType DEF Actor
<1>5. operation # "other" =>
        /\ asked \in Actor /\ asked.pc = "running" /\ asked.op = operation
        /\ asked.plan = PlanOf(operation)
        /\ asked.met <=> \E q \in Requests : Busy(q)
        /\ ~asked.on
    <2> DEFINE met == \E q \in Requests : Busy(q)
    <2>1. met \in BOOLEAN
        OBVIOUS
    <2> HIDE DEF met
    <2> QED BY <1>3, <2>1, FreshType DEF Actor
<1>6. ASSUME NEW b \in Actors
      PROVE  /\ seen(b) \in Actor
             /\ seen(b).pc = act[b].pc /\ seen(b).call = act[b].call /\ seen(b).op = act[b].op
             /\ seen(b).plan = act[b].plan /\ seen(b).on = act[b].on /\ seen(b).held = act[b].held
             /\ seen(b).did = act[b].did /\ seen(b).todo = act[b].todo
             /\ seen(b).met <=> act[b].met \/ (b \in Requests /\ Busy(b) /\ operation # "other")
             /\ ~seen(b).met => seen(b).lost = act[b].lost
    <2> DEFINE overlapped == [act[b] EXCEPT !.met = TRUE, !.lost = {}]
    <2>1. /\ overlapped \in Actor
          /\ overlapped.pc = act[b].pc /\ overlapped.call = act[b].call /\ overlapped.op = act[b].op
          /\ overlapped.plan = act[b].plan /\ overlapped.on = act[b].on /\ overlapped.held = act[b].held
          /\ overlapped.did = act[b].did /\ overlapped.todo = act[b].todo /\ overlapped.met = TRUE
        BY <1>2 DEF Actor
    <2> HIDE DEF overlapped
    <2>2. seen(b) = IF b \in Requests /\ Busy(b) /\ operation # "other" THEN overlapped ELSE act[b]
        BY DEF overlapped
    <2> HIDE DEF seen
    <2> QED BY <1>2, <2>1, <2>2
<1> HIDE DEF asked, refused, seen
<1>7. act' = [b \in Actors |-> IF b = r THEN IF operation = "other" THEN refused ELSE asked
                               ELSE seen(b)]
    BY <1>1 DEF asked, refused, seen
<1>8. /\ act' \in [Actors -> Actor]
      /\ \A a \in Actors : a # r => act'[a] = seen(a)
      /\ operation = "other" => act'[r] = refused
      /\ operation # "other" => act'[r] = asked
    BY <1>2, <1>4, <1>5, <1>6, <1>7
<1>9. \A a \in Actors : a # r =>
                    /\ Stays(a)
                    /\ act'[a].did = act[a].did
                    /\ act'[a].todo = act[a].todo
                    /\ act'[a].met <=> act[a].met \/ (a \in Requests /\ Busy(a) /\ operation # "other")
                    /\ ~act'[a].met => act'[a].lost = act[a].lost
    BY <1>6, <1>8 DEF Stays
<1>10. /\ \E t \in Threads : At(t, "listening")
       /\ ~Busy(r)
       /\ UNCHANGED <<up, current, ctx, conn, tables, tracked, rows>>
    BY DEF Ask, Databases
<1>11. Asks(r, operation)
    BY <1>1, <1>4, <1>5, <1>8, <1>9, <1>10 DEF Asks
<1> QED BY <1>11

LEMMA AskKeeps ==
    ASSUME Kept, NEW r \in Requests, Ask(r)
    PROVE  Kept'
<1>1. PICK operation \in Operations : Asks(r, operation)
    BY AskRecords
<1>2. PICK t \in Threads : At(t, "listening")
    BY <1>1 DEF Asks
<1>3. /\ act' \in [Actors -> Actor] /\ ~act'[r].on
      /\ \A a \in Actors : a # r => Stays(a)
      /\ UNCHANGED <<up, current, ctx, conn, tables, tracked, rows>>
    BY <1>1 DEF Asks
<1>4. Proper(r)'
    <2>1. CASE operation = "other"
        BY <1>1, <1>3, <2>1 DEF Asks, Proper, At
    <2>2. CASE operation # "other"
        <3>1. PlanOf(operation) \in Remaining(operation)
            BY <2>2 DEF PlanOf, Remaining, Operations
        <3>2. act'[r].pc = "running" /\ act'[r].op = operation /\ act'[r].plan = PlanOf(operation)
            BY <1>1, <2>2 DEF Asks
        <3> QED BY <1>3, <2>2, <3>1, <3>2 DEF Proper, At
    <2> QED BY <2>1, <2>2
<1>5. \A q \in Requests : q # r => (q \in Pending' <=> q \in Pending)
    BY <1>3 DEF Pending, Stays, At, Actors
<1>6. Pending \subseteq Reconnecting
    <2> SUFFICES ASSUME NEW q \in Requests, At(q, "running"), "connect" \in Left(act[q].plan)
                 PROVE  Busy(q) /\ act[q].op = "purge_seed"
        BY DEF Pending, Reconnecting
    <2>1. act[q].op \in Operations \ {"other"} /\ act[q].plan \in Remaining(act[q].op)
        BY DEF Kept, Served
    <2>2. Left(<<"seed">>) = {"seed"} /\ Left(<<"purge">>) = {"purge"} /\ Left(<<>>) = {}
        BY PlanOfOne, PlanOfNone DEF Phases
    <2>3. act[q].op = "purge_seed"
        BY <2>1, <2>2 DEF Remaining, Operations
    <2> QED BY <2>3 DEF Busy, Ended, At
<1>7. /\ conn.version \in Nat /\ MaxContexts \in Nat
      /\ conn.version + Cardinality(Pending) <= MaxContexts
    BY MaxContextsAssumption DEF Kept, Typed, Connection, Versions
<1>8. IsFiniteSet(Reconnecting) /\ IsFiniteSet(Pending) /\ IsFiniteSet(Pending \union {r})
    <2>1. Reconnecting \in SUBSET Requests
        BY DEF Reconnecting
    <2>2. IsFiniteSet(Reconnecting)
        BY <2>1, ActorsAssumption, FS_Subset
    <2>3. IsFiniteSet(Pending)
        BY <1>6, <2>2, FS_Subset
    <2> HIDE DEF Pending, Reconnecting
    <2> QED BY <2>2, <2>3, FS_AddElement
<1>9. /\ Cardinality(Reconnecting) \in Nat /\ Cardinality(Pending) \in Nat
      /\ Cardinality(Pending) <= Cardinality(Reconnecting)
      /\ Cardinality(Pending \union {r}) \in Nat
      /\ Cardinality(Pending \union {r}) <= Cardinality(Pending) + 1
    <2> HIDE DEF Pending, Reconnecting
    <2> QED BY <1>6, <1>8, FS_Subset, FS_CardinalityType, FS_AddElement
<1>10. conn.version + Cardinality(Pending') <= MaxContexts
    <2>1. CASE operation = "purge_seed"
        <3>1. Pending' \in SUBSET (Pending \union {r})
            BY <1>5 DEF Pending
        <3>2. Cardinality(Pending') \in Nat
              /\ Cardinality(Pending') <= Cardinality(Pending \union {r})
            <4> HIDE DEF Pending
            <4> QED BY <1>8, <3>1, FS_Subset, FS_CardinalityType
        <3>3. conn.version + Cardinality(Reconnecting) < MaxContexts
            BY <1>1, <2>1 DEF Asks
        <3> QED BY <1>7, <1>9, <3>2, <3>3
    <2>2. CASE operation # "purge_seed"
        <3>1. r \notin Pending'
            <4>1. CASE operation = "other"
                BY <1>1, <4>1 DEF Asks, Pending, At
            <4>2. CASE operation # "other"
                <5>1. PlanOf(operation) = <<"seed">> \/ PlanOf(operation) = <<"purge">>
                    BY <2>2, <4>2 DEF PlanOf, Operations
                <5>2. "connect" \notin Left(PlanOf(operation))
                    BY <5>1, PlanOfOne DEF Phases
                <5> QED BY <1>1, <4>2, <5>2 DEF Asks, Pending
            <4> QED BY <4>1, <4>2
        <3>2. Pending' \in SUBSET Pending
            BY <1>5, <3>1 DEF Pending
        <3>3. Cardinality(Pending') \in Nat /\ Cardinality(Pending') <= Cardinality(Pending)
            <4> HIDE DEF Pending
            <4> QED BY PendingFinite, <3>2
        <3> QED BY <1>7, <1>9, <3>3
    <2> QED BY <2>1, <2>2
<1>11. /\ conn' = conn /\ conn' \in Connection /\ up' \in BOOLEAN /\ tables' \subseteq Paths
       /\ tracked' \subseteq Paths /\ rows' \in [Paths -> SUBSET Kinds] /\ UNCHANGED <<current, ctx>>
       /\ conn'.version >= conn.version
    BY <1>3, <1>7 DEF Kept, Typed
<1> QED BY <1>2, <1>3, <1>4, <1>10, <1>11, RequestMoves

LEMMA KeptInitially == Init => Kept
<1> SUFFICES ASSUME Init PROVE Kept
    OBVIOUS
<1>1. \A a \in Actors : act[a] = Fresh
    BY DEF Init
<1>2. \A a \in Actors : act[a].pc = "idle" /\ ~act[a].on
    BY <1>1, FreshType
<1>3. conn.version = 0 /\ conn \in Connection
    BY MaxContextsAssumption DEF Init, Connection
<1>4. Typed
    <2>1. ctx \in Context
        BY DEF Init, EmptyContext, Context
    <2>2. tables \subseteq Paths /\ tracked \subseteq Paths
        BY StoredAssumption DEF Init, Store
    <2>3. rows \in [Paths -> SUBSET Kinds]
        BY StoredAssumption DEF Init, Store
    <2>4. act \in [Actors -> Actor]
        BY FreshType DEF Init
    <2> QED BY <1>3, <2>1, <2>2, <2>3, <2>4 DEF Typed, Init
<1>5. Owner
    BY <1>2 DEF Owner, Entered, Parsed, HasApp, Actors
<1>6. Hands
    BY <1>2 DEF Hands
<1>7. Served
    BY <1>2 DEF Served, At, Actors
<1>8. Commanded
    BY <1>2 DEF Commanded, At, Actors
<1>9. Versions
    <2>1. Pending = {}
        BY <1>2 DEF Pending, At, Actors
    <2>2. Cardinality(Pending) = 0
        BY <2>1, FS_EmptySet
    <2> QED BY <1>3, <2>2, MaxContextsAssumption DEF Versions
<1> QED BY <1>4, <1>5, <1>6, <1>7, <1>8, <1>9 DEF Kept

LEMMA NothingKeeps ==
    ASSUME Kept, UNCHANGED vars
    PROVE  Kept'
<1> USE DEF vars
<1>1. Typed'
    BY DEF Kept, Typed
<1>2. Plan' = Plan
    BY DEF Plan, Given, Autoseeds
<1>3. Owner'
    BY DEF Kept, Owner, Entered, Parsed, HasApp, Cli
<1>4. Hands'
    BY DEF Kept, Hands, Phase, At
<1>5. Served'
    BY DEF Kept, Served, At
<1>6. Commanded'
    BY <1>2 DEF Kept, Commanded, At
<1>7. Versions'
    BY DEF Kept, Versions, Pending, At
<1> QED BY <1>1, <1>3, <1>4, <1>5, <1>6, <1>7 DEF Kept

LEMMA KeptInductive == Kept /\ [Next]_vars => Kept'
<1> SUFFICES ASSUME Kept, [Next]_vars PROVE Kept'
    OBVIOUS
<1>1. ASSUME NEW t \in Threads, Create(t) PROVE Kept'
    BY <1>1, CreateKeeps
<1>2. ASSUME NEW t \in Threads, RunCommand(t) PROVE Kept'
    BY <1>2, RunCommandKeeps, StopKeeps
<1>3. ASSUME NEW a \in Actors, Work(a) PROVE Kept'
    BY <1>3, ThreadWorks, RequestWorks DEF Actors
<1>4. ASSUME NEW r \in Requests, Ask(r) PROVE Kept'
    BY <1>4, AskKeeps
<1>5. CASE UNCHANGED vars
    BY <1>5, NothingKeeps
<1> QED BY <1>1, <1>2, <1>3, <1>4, <1>5 DEF Next

LEMMA KeptInvariant == Spec => []Kept
<1> QED BY KeptInitially, KeptInductive, PTL DEF Spec

\* The variables have their types, whatever the threads launch and the requests
\* ask for, and nothing is migrated, seeded or purged (run.rs:15-138,
\* make.rs:304-330) before there is a connection context to do it over.
THEOREM ApplicationTypeOK == Spec => []TypeOK
<1>1. Kept => TypeOK
    BY DEF Kept, Typed, Hands, TypeOK
<1> QED BY <1>1, KeptInvariant, PTL

\* Of any number of threads that call App::new at once, at most one gets an App
\* (ctx.rs:62-69), and the context has what that one was launched with and the
\* command of the user's words, behind whatever launcher (parse.rs:139-147).
THEOREM ApplicationOneApp == Spec => []OneApp
<1>1. ASSUME Kept PROVE OneApp
    <2> SUFFICES ASSUME NEW t \in Threads, HasApp(t)
                 PROVE  /\ \A u \in Threads : HasApp(u) => u = t
                        /\ current = t
                        /\ ctx.launch = act[t].call
                        /\ ctx.cli = CommandOf(act[t].call.words)
        BY DEF OneApp
    <2>1. \A u \in Threads : HasApp(u) => Entered(u) /\ Parsed(u)
        BY DEF HasApp, Entered, Parsed
    <2>2. current = t /\ ctx.launch = act[t].call
        BY <1>1, <2>1 DEF Kept, Owner
    <2>3. \A u \in Threads : HasApp(u) => u = t
        BY <1>1, <2>1, OneEntered DEF Kept
    <2> QED BY <1>1, <2>2, <2>3, AppFacts DEF Kept
<1> QED BY <1>1, KeptInvariant, PTL

-------------------------------------------------------------------------------
\* What one step of somebody who works does, field by field.

Same(a) ==
    /\ act'[a].pc = act[a].pc
    /\ act'[a].op = act[a].op
    /\ act'[a].did = act[a].did
    /\ act'[a].met = act[a].met

Begun(a) ==
    /\ Same(a)
    /\ ~act[a].on /\ act'[a].on
    /\ act'[a].plan = act[a].plan
    /\ Phase(a) # "connect" => act'[a].todo = conn.over /\ act'[a].held = conn.version
    /\ act'[a].lost = IF Phase(a) = "seed" /\ ~act[a].met THEN Lost ELSE act[a].lost
    /\ UNCHANGED <<conn, tables, tracked, rows>>

\* What a seed does to the record of n and the row that it names: unless it finds
\* a record, and is not to look for the row, both are there.
RecordPassed(a, n) ==
    /\ IF Seeding(a) = "unseed"
       THEN n \notin tracked'
       ELSE /\ n \in tracked'
            /\ \/ "seed" \in rows'[n]
               \/ Seeding(a) = "seed" /\ n \in tracked /\ rows'[n] = rows[n]
    /\ rows'[n] \subseteq rows[n] \union {"seed"}
    /\ tracked' \subseteq tracked \union {n}
    /\ \A m \in Paths \ {n} : rows'[m] = rows[m] /\ (m \in tracked' <=> m \in tracked)

\* One namespace is done with, and what has been done to it.
Passed(a, n) ==
    /\ Same(a)
    /\ act[a].on /\ act'[a].on
    /\ act'[a].plan = act[a].plan
    /\ act'[a].held = act[a].held
    /\ act'[a].lost = act[a].lost
    /\ act'[a].todo = act[a].todo \ {n}
    /\ \/ /\ Phase(a) = "connect"
          /\ conn'.over = conn.over /\ conn'.version = conn.version
          /\ UNCHANGED <<tables, tracked, rows>>
       \/ /\ Phase(a) = "migrate"
          /\ tables \subseteq tables' /\ (Given("--dry") \/ n \in tables')
          /\ UNCHANGED <<conn, tracked, rows>>
       \/ /\ Phase(a) = "seed"
          /\ RecordPassed(a, n)
          /\ UNCHANGED <<conn, tables>>
       \/ /\ Phase(a) = "purge"
          /\ rows'[n] = {}
          /\ n = Main => tracked' = {}
          /\ tracked' \subseteq tracked
          /\ \A m \in Paths : rows[m] = {} => rows'[m] = {}
          /\ UNCHANGED <<conn, tables>>

Reconnected(a) ==
    /\ Same(a)
    /\ act[a].on /\ ~act'[a].on
    /\ Phase(a) = "connect"
    /\ act'[a].plan = Tail(act[a].plan)
    /\ act'[a].lost = act[a].lost
    /\ conn'.over = Connectable /\ conn'.renewed = {}
    /\ UNCHANGED <<tables, tracked, rows>>

PhaseEnded(a) ==
    /\ Same(a)
    /\ act[a].on /\ ~act'[a].on
    /\ act'[a].lost = act[a].lost
    /\ Phase(a) # "connect"
    /\ Phase(a) = "seed" => Main \in conn.over
    /\ act[a].todo = {}
    /\ act'[a].plan = Tail(act[a].plan)
    /\ UNCHANGED <<conn, tables, tracked, rows>>

Returns(a) ==
    /\ act'[a].pc \in {"done", "failed", "panicked"}
    /\ act'[a].did = act[a].did
    /\ UNCHANGED <<conn, tables>>
    /\ act'[a].pc = "done" => act[a].plan = <<>> /\ UNCHANGED <<tracked, rows>>

Halts == UNCHANGED <<conn, tables, tracked, rows, act>>

LEMMA PassRecord ==
    ASSUME Kept, NEW a \in Actors, NEW n, act[a].on, Passes(a, n)
    PROVE  /\ Same(a)
           /\ act[a].on /\ act'[a].on
           /\ act'[a].plan = act[a].plan
           /\ act'[a].held = act[a].held
           /\ act'[a].lost = act[a].lost
           /\ act'[a].todo = act[a].todo \ {n}
           /\ Phase(a)' = Phase(a)
<1>1. act[a] \in Actor /\ act \in [Actors -> Actor]
    BY DEF Kept, Typed
<1>2. act'[a] = [act[a] EXCEPT !.todo = act[a].todo \ {n}]
    BY <1>1 DEF Passes, Rest, Changes
<1> QED BY <1>1, <1>2 DEF Same, Actor, Phase

\* A seed is one of three.
LEMMA SeedingIs ==
    ASSUME Kept, NEW a \in Actors, Does(a, "seed")
    PROVE  Seeding(a) \in {"seed", "unseed", "reseed"}
<1>1. CASE a \notin Requests
    BY <1>1 DEF Seeding, SeedAction
<1>2. CASE a \in Requests
    <2>1. act[a].op \in Operations \ {"other"} /\ act[a].plan \in Remaining(act[a].op)
        BY <1>2 DEF Kept, Served, Does, At
    <2>2. act[a].op # "purge"
        <3> SUFFICES ASSUME act[a].op = "purge" PROVE FALSE
            OBVIOUS
        <3>1. act[a].plan \in {<<"purge">>, <<>>} /\ act[a].plan # <<>> /\ Head(act[a].plan) = "seed"
            BY <2>1 DEF Remaining, Does, Kept, Hands, Phase
        <3> QED BY <3>1
    <2> QED BY <1>2, <2>1, <2>2 DEF Seeding, Operations
<1> QED BY <1>1, <1>2

\* What a step of a seed does, whichever it is.
LEMMA RecordSteps ==
    ASSUME Kept, NEW a \in Actors, InsertRecord(a) \/ RemoveRecord(a) \/ KeepRecord(a)
    PROVE  /\ act[a].on /\ Phase(a) = "seed" /\ UNCHANGED <<conn, tables>>
           /\ \E n \in act[a].todo : Passes(a, n) /\ RecordPassed(a, n)
<1>1. /\ rows \in [Paths -> SUBSET Kinds] /\ tracked \subseteq Paths
      /\ act[a].todo \subseteq Paths
    BY DEF Kept, Typed, Actor
<1>2. act[a].on /\ Phase(a) = "seed" /\ UNCHANGED <<conn, tables>>
    BY DEF InsertRecord, RemoveRecord, KeepRecord, Seeds, Does, Databases
<1>3. CASE InsertRecord(a)
    <2>1. PICK n \in act[a].todo \cap tables :
            /\ Inserts(a, n)
            /\ tracked' = tracked \union {n}
            /\ rows' = [rows EXCEPT ![n] = @ \union {"seed"}]
            /\ Passes(a, n)
        BY <1>3 DEF InsertRecord
    <2>2. RecordPassed(a, n)
        BY <1>1, <2>1 DEF RecordPassed, Inserts
    <2> QED BY <1>2, <2>1, <2>2
<1>4. CASE RemoveRecord(a)
    <2>1. PICK n \in act[a].todo \cap tables :
            /\ Removes(a, n)
            /\ tracked' = tracked \ {n}
            /\ rows' = [rows EXCEPT ![n] = @ \ {"seed"}]
            /\ Passes(a, n)
        BY <1>4 DEF RemoveRecord
    <2>2. RecordPassed(a, n)
        BY <1>1, <2>1 DEF RecordPassed, Removes
    <2> QED BY <1>2, <2>1, <2>2
<1>5. CASE KeepRecord(a)
    <2>1. PICK n \in act[a].todo : ~Inserts(a, n) /\ ~Removes(a, n) /\ Passes(a, n)
        BY <1>5 DEF KeepRecord
    <2>2. UNCHANGED <<tracked, rows>>
        BY <1>5 DEF KeepRecord, Databases
    <2>3. Seeding(a) # "unseed" => n \in tracked /\ ("seed" \in rows[n] \/ Seeding(a) = "seed")
        <3>1. Seeding(a) # "reseed" /\ Seeding(a) # "unseed" => Seeding(a) = "seed"
            BY <1>2, <1>5, SeedingIs DEF KeepRecord, Seeds, Does
        <3> QED BY <2>1, <3>1 DEF Inserts
    <2>4. RecordPassed(a, n)
        BY <2>1, <2>2, <2>3 DEF RecordPassed, Removes
    <2> QED BY <1>2, <2>1, <2>4
<1> QED BY <1>3, <1>4, <1>5

LEMMA WorkSteps ==
    ASSUME Kept, NEW a \in Actors, Work(a)
    PROVE  /\ At(a, "running")
           /\ UNCHANGED <<current, ctx>>
           /\ \A b \in Actors : b # a => act'[b] = act[b]
           /\ \/ Begun(a)
              \/ \E n \in act[a].todo : Passed(a, n)
              \/ Reconnected(a)
              \/ PhaseEnded(a)
              \/ Returns(a)
              \/ Halts
<1>1. /\ Typed /\ act[a] \in Actor /\ act \in [Actors -> Actor] /\ conn \in Connection
      /\ rows \in [Paths -> SUBSET Kinds] /\ act[a].todo \subseteq Paths /\ tables \subseteq Paths
    BY DEF Kept, Typed, Actor
<1>2. /\ At(a, "running") /\ UNCHANGED <<current, ctx>>
      /\ \A b \in Actors : b # a => act'[b] = act[b]
    BY <1>1, WorkIs
<1>3. act[a].on => act[a].plan # <<>>
    BY DEF Kept, Hands
<1>4. act[a].plan # <<>> =>
        /\ Over(a) \in Actor
        /\ Over(a).plan = Tail(act[a].plan) /\ ~Over(a).on
        /\ Over(a).pc = act[a].pc /\ Over(a).op = act[a].op
        /\ Over(a).did = act[a].did /\ Over(a).met = act[a].met /\ Over(a).lost = act[a].lost
    BY OverRecord
<1>5. ASSUME NEW pc \in {"done", "failed", "panicked"}, Leaves(a, pc)
      PROVE  act'[a].pc = pc /\ act'[a].did = act[a].did
    <2> DEFINE rec == [Fresh EXCEPT !.pc = pc, !.call = act[a].call, !.did = act[a].did]
    <2>1. rec.pc = pc /\ rec.did = act[a].did
        BY <1>1, FreshType DEF Actor
    <2>2. act'[a] = rec
        BY <1>1, <1>5 DEF Leaves, Changes
    <2> QED BY <2>1, <2>2
<1>6. ASSUME Changes(a, Over(a)), act[a].on
      PROVE  Same(a) /\ ~act'[a].on /\ act'[a].plan = Tail(act[a].plan) /\ act'[a].lost = act[a].lost
    <2>1. act'[a] = Over(a)
        BY <1>1, <1>6 DEF Changes
    <2> QED BY <1>3, <1>4, <1>6, <2>1 DEF Same
<1>7. CASE Begin(a)
    <2>1. PICK phase \in Looping :
            /\ Faces(a, phase)
            /\ Changes(a, [act[a] EXCEPT
                 !.on = TRUE,
                 !.todo = IF phase = "connect" THEN Connectable ELSE conn.over,
                 !.held = IF phase = "connect" THEN 0 ELSE conn.version,
                 !.lost = IF phase = "seed" /\ ~act[a].met THEN Lost ELSE act[a].lost])
        BY <1>7 DEF Begin
    <2>2. ~act[a].on /\ Phase(a) = phase /\ UNCHANGED <<conn, tables, tracked, rows>>
        BY <1>7, <2>1 DEF Begin, Faces, Databases
    <2> DEFINE over == IF phase = "connect" THEN Connectable ELSE conn.over
               held == IF phase = "connect" THEN 0 ELSE conn.version
               lost == IF phase = "seed" /\ ~act[a].met THEN Lost ELSE act[a].lost
    <2>3. /\ phase # "connect" => over = conn.over /\ held = conn.version
          /\ lost = IF Phase(a) = "seed" /\ ~act[a].met THEN Lost ELSE act[a].lost
        BY <2>2
    <2> HIDE DEF over, held, lost
    <2>4. act'[a] = [act[a] EXCEPT !.on = TRUE, !.todo = over, !.held = held, !.lost = lost]
        BY <1>1, <2>1 DEF over, held, lost, Changes
    <2>5. Begun(a)
        BY <1>1, <2>2, <2>3, <2>4 DEF Begun, Same, Actor
    <2> QED BY <1>2, <2>5
<1>8. CASE ConnectNext(a)
    <2>1. PICK n \in NextOf(a) : conn' = [conn EXCEPT !.renewed = @ \union {n}] /\ Passes(a, n)
        BY <1>8 DEF ConnectNext
    <2>2. n \in act[a].todo /\ act[a].on /\ Phase(a) = "connect" /\ UNCHANGED <<tables, tracked, rows>>
        BY <1>8 DEF ConnectNext, NextOf, Does
    <2>3. conn'.over = conn.over /\ conn'.version = conn.version
        BY <1>1, <2>1 DEF Connection
    <2>4. Passed(a, n)
        BY <2>1, <2>2, <2>3, PassRecord DEF Passed
    <2> QED BY <1>2, <2>2, <2>4
<1>9. CASE EndConnect(a)
    <2>1. act[a].on /\ Phase(a) = "connect" /\ UNCHANGED <<tables, tracked, rows>> /\ Changes(a, Over(a))
          /\ conn'.over = Connectable /\ conn'.renewed = {}
        BY <1>9 DEF EndConnect, Does
    <2>2. Reconnected(a)
        BY <1>6, <2>1 DEF Reconnected
    <2> QED BY <1>2, <2>2
<1>10. CASE MigrateNext(a)
    <2>1. PICK n \in NextOf(a) :
            tables' = (IF Given("--dry") THEN tables ELSE tables \union {n}) /\ Passes(a, n)
        BY <1>10 DEF MigrateNext
    <2>2. n \in act[a].todo /\ act[a].on /\ Phase(a) = "migrate" /\ UNCHANGED <<conn, tracked, rows>>
        BY <1>10 DEF MigrateNext, NextOf, Does
    <2>3. tables \subseteq tables' /\ (Given("--dry") \/ n \in tables')
        BY <2>1
    <2>4. Passed(a, n)
        BY <2>1, <2>2, <2>3, PassRecord DEF Passed
    <2> QED BY <1>2, <2>2, <2>4
<1>11. CASE InsertRecord(a) \/ RemoveRecord(a) \/ KeepRecord(a)
    <2>1. PICK n \in act[a].todo : Passes(a, n) /\ RecordPassed(a, n)
        BY <1>11, RecordSteps
    <2>2. act[a].on /\ Phase(a) = "seed" /\ UNCHANGED <<conn, tables>>
        BY <1>11, RecordSteps
    <2>3. Passed(a, n)
        BY <2>1, <2>2, PassRecord DEF Passed
    <2> QED BY <1>2, <2>3
<1>12. CASE PurgeNext(a)
    <2>1. PICK n \in NextOf(a) \cap tables : Empties(n, {}, n = Main) /\ Passes(a, n)
        BY <1>12 DEF PurgeNext
    <2>2. n \in act[a].todo /\ act[a].on /\ Phase(a) = "purge" /\ UNCHANGED <<conn, tables>> /\ n \in Paths
        BY <1>1, <1>12, <2>1 DEF PurgeNext, NextOf, Does
    <2>3. /\ rows'[n] = {} /\ (n = Main => tracked' = {}) /\ tracked' \subseteq tracked
          /\ \A m \in Paths : rows[m] = {} => rows'[m] = {}
        BY <1>1, <2>1, <2>2 DEF Empties, Unnamed
    <2>4. Passed(a, n)
        BY <2>1, <2>2, <2>3, PassRecord DEF Passed
    <2> QED BY <1>2, <2>2, <2>4
<1>13. CASE ReadFreed(a)
    BY <1>2, <1>13 DEF ReadFreed, EndsProcess, Databases, Halts
<1>14. CASE Fail(a)
    <2>1. \E pc \in {"failed", "panicked"} : Leaves(a, pc)
        BY <1>14 DEF Fail
    <2>2. Returns(a)
        BY <1>5, <1>14, <2>1 DEF Returns, Fail, Databases
    <2> QED BY <1>2, <2>2
<1>17. CASE FailToSeed(a) \/ FailToPurge(a)
    <2>1. /\ \E pc \in {"failed", "panicked"} : Leaves(a, pc)
          /\ UNCHANGED <<conn, tables>>
        BY <1>17 DEF FailToSeed, FailToPurge
    <2>2. Returns(a)
        BY <1>5, <2>1 DEF Returns
    <2> QED BY <1>2, <2>2
<1>15. CASE EndLoop(a)
    <2>1. /\ act[a].on /\ Phase(a) # "connect" /\ act[a].todo = {}
          /\ Phase(a) = "seed" => Main \in conn.over
          /\ UNCHANGED <<conn, tables, tracked, rows>>
        BY <1>15 DEF EndLoop, Seeds, Does, Databases
    <2>2. CASE EndsProcess
        BY <1>2, <2>1, <2>2 DEF EndsProcess, Halts
    <2>3. CASE Changes(a, Over(a))
        <3>1. PhaseEnded(a)
            BY <1>6, <2>1, <2>3 DEF PhaseEnded
        <3> QED BY <1>2, <3>1
    <2> QED BY <1>15, <2>2, <2>3 DEF EndLoop
<1>16. CASE Finish(a)
    <2>1. Returns(a)
        BY <1>3, <1>5, <1>16 DEF Returns, Finish, Databases
    <2> QED BY <1>2, <2>1
<1> QED BY <1>7, <1>8, <1>9, <1>10, <1>11, <1>12, <1>13, <1>14, <1>15, <1>16, <1>17 DEF Work

-------------------------------------------------------------------------------
\* What a command has done so far.

\* What a seed does for the row and the record of n.
Followed(a, n) ==
    IF Seeding(a) = "unseed"
    THEN n \notin tracked
    ELSE n \in tracked /\ ("seed" \in rows[n] \/ (Seeding(a) = "seed" /\ n \in act[a].lost))

\* What a phase does to the databases of S.
Wrought(a, phase, S) ==
    /\ phase = "migrate" => Given("--dry") \/ S \subseteq tables
    /\ phase = "seed" => \A n \in S : Followed(a, n)
    /\ phase = "purge" => \A n \in S : rows[n] = {} /\ (n = Main => tracked = {})

\* No row goes while a plain seed has its way.
Knows(a) == Seeding(a) = "seed" => Lost \subseteq act[a].lost

Joined == conn.over = Connectable /\ conn.renewed = {}

\* Of a thread that runs its command: the phases that it has left behind have
\* done their work and come before those to come, and the phase in its hand has
\* done what it had to do in the namespaces that are not left.
Progress(t) ==
    /\ \A phase \in Left(Plan) \ Left(act[t].plan) :
        /\ \A later \in Left(act[t].plan) : Rank[phase] < Rank[later]
        /\ Wrought(t, phase, conn.over)
        /\ phase = "connect" => Joined
        /\ phase = "setup" => act[t].did = <<"setup">>
        /\ phase = "generate" => act[t].did = Asked
    /\ act[t].on => Wrought(t, Phase(t), conn.over \ act[t].todo)
    /\ act[t].on /\ Phase(t) = "seed" => Knows(t)
    /\ "setup" \in Left(act[t].plan) => act[t].did = <<>>
    /\ ~act[t].met

Preparing(t) == act[t].pc \in {"set", "configure", "load", "app"}

Commands ==
    \A t \in Threads :
        /\ Preparing(t) => act[t].did = <<>> /\ ~act[t].met
        /\ At(t, "running") => Progress(t)

\* The first phase that is left is the first of the order.
LEMMA FirstIsLeft ==
    ASSUME Kept, NEW t \in Threads, At(t, "running"), act[t].plan # <<>>
    PROVE  /\ Phase(t) \in Left(act[t].plan) /\ Phase(t) \in Left(Plan) /\ Phase(t) \in Phases
           /\ Left(Tail(act[t].plan)) = Left(act[t].plan) \ {Phase(t)}
           /\ \A later \in Left(Tail(act[t].plan)) : Rank[Phase(t)] < Rank[later]
           /\ Left(Plan) \subseteq Phases
<1>1. Fits(t) /\ act[t].plan \in Seq(Phases)
    BY RunnerEntered DEF Actor
<1>2. Sorted(act[t].plan)
    BY <1>1 DEF Fits
<1>3. /\ Phase(t) \in Left(act[t].plan)
      /\ Left(Tail(act[t].plan)) = Left(act[t].plan) \ {Phase(t)}
      /\ Phase(t) \in Left(Plan)
    BY PhaseDone
<1>4. \A phase \in Left(act[t].plan) : phase # Phase(t) => Rank[Phase(t)] < Rank[phase]
    BY <1>1, <1>2, TailOfPlan DEF Phase
<1>5. Plan \in Seq(Phases)
    BY RunnerFacts DEF PlanFits, Actors
<1>6. Left(Plan) \subseteq Phases
    BY <1>5 DEF Left
<1> QED BY <1>3, <1>4, <1>6

\* Nothing is undone where no rows change.
LEMMA WroughtStays ==
    ASSUME NEW a, NEW phase, NEW S,
           Wrought(a, phase, S), UNCHANGED <<ctx, tracked, rows>>, tables \subseteq tables',
           act'[a].op = act[a].op, phase = "seed" => act'[a].lost = act[a].lost
    PROVE  Wrought(a, phase, S)'
<1>1. Seeding(a)' = Seeding(a) /\ Given("--dry")' = Given("--dry")
    BY DEF Given, Seeding
<1> QED BY <1>1 DEF Wrought, Followed

\* A plain seed adds to the rows, and to the records only with their rows.
LEMMA LosesNone ==
    ASSUME Kept, NEW a \in Actors, NEW n \in act[a].todo, RecordPassed(a, n),
           Seeding(a) = "seed"
    PROVE  Lost' \subseteq Lost
<1>1. tracked \subseteq Paths /\ n \in Paths
    BY DEF Kept, Typed, Actor
<1> SUFFICES ASSUME NEW m \in tracked', "seed" \notin rows'[m] PROVE m \in tracked /\ "seed" \notin rows[m]
    BY DEF Lost
<1>2. CASE m = n
    BY <1>2 DEF RecordPassed
<1>3. CASE m # n
    BY <1>1, <1>3 DEF RecordPassed
<1> QED BY <1>2, <1>3

\* The phase in hand has done its work in one more namespace.
LEMMA WroughtGrows ==
    ASSUME Kept, NEW a \in Actors, NEW n \in act[a].todo, Passed(a, n), UNCHANGED ctx,
           Wrought(a, Phase(a), conn.over \ act[a].todo),
           Phase(a) = "seed" => Knows(a)
    PROVE  /\ Wrought(a, Phase(a), conn.over \ act[a].todo)'
           /\ Phase(a) = "seed" => Knows(a)'
<1>1. /\ Phase(a)' = Phase(a) /\ Seeding(a)' = Seeding(a) /\ Given("--dry")' = Given("--dry")
      /\ act'[a].todo = act[a].todo \ {n} /\ act'[a].lost = act[a].lost
    BY DEF Passed, Phase, Same, Seeding, Given
<1>2. conn.over \subseteq Paths /\ n \in Paths
    BY DEF Kept, Typed, Connection, Actor
<1> DEFINE S == conn.over \ act[a].todo
           T == conn'.over \ act'[a].todo
<1>3. CASE Phase(a) = "connect"
    BY <1>1, <1>3 DEF Wrought
<1>4. CASE Phase(a) # "connect"
    <2>1. T \subseteq S \union {n} /\ T \subseteq Paths
        BY <1>1, <1>2, <1>4 DEF Passed
    <2> HIDE DEF S, T
    <2>2. Wrought(a, Phase(a), S)
        BY DEF S
    <2>3. Phase(a) = "migrate" => Given("--dry") \/ T \subseteq tables'
        BY <1>4, <2>1, <2>2 DEF Wrought, Passed
    <2>4. Phase(a) = "purge" => \A m \in T : rows'[m] = {} /\ (m = Main => tracked' = {})
        BY <1>4, <2>1, <2>2 DEF Wrought, Passed
    <2>5. Phase(a) = "seed" => \A m \in T : Followed(a, m)'
        <3> SUFFICES ASSUME Phase(a) = "seed", NEW m \in T PROVE Followed(a, m)'
            OBVIOUS
        <3>1. RecordPassed(a, n) /\ Knows(a)
            BY DEF Passed
        <3>2. CASE m = n
            <4>1. Seeding(a) = "seed" /\ n \in tracked /\ "seed" \notin rows[n] => n \in act[a].lost
                BY <3>1 DEF Knows, Lost
            <4> QED BY <1>1, <3>1, <3>2, <4>1 DEF RecordPassed, Followed
        <3>3. CASE m # n
            <4>1. Followed(a, m) /\ rows'[m] = rows[m] /\ (m \in tracked' <=> m \in tracked)
                BY <2>1, <2>2, <3>1, <3>3 DEF Wrought, RecordPassed
            <4> QED BY <1>1, <4>1 DEF Followed
        <3> QED BY <3>2, <3>3
    <2>6. Phase(a) = "seed" => Knows(a)'
        <3>1. Phase(a) = "seed" /\ Seeding(a) = "seed" => Lost' \subseteq Lost
            BY <1>4, LosesNone DEF Passed
        <3> QED BY <1>1, <3>1 DEF Knows
    <2> QED BY <1>1, <2>3, <2>4, <2>5, <2>6 DEF Wrought, T
<1> QED BY <1>3, <1>4

\* What the subcommand says of the phases of its plan.
LEMMA PhasesOfCommand ==
    ASSUME Kept, NEW t \in Threads, At(t, "running")
    PROVE  /\ "purge" \in Left(Plan) => "seed" \notin Left(Plan)
           /\ "setup" \in Left(Plan) => "generate" \notin Left(Plan)
<1>1. PlanFits /\ ctx.cli \in Command
    BY RunnerFacts DEF Actors
<1>2. ctx.cli.sub = <<"purge">> => ctx.cli.sub \notin {<<"serve">>, <<"seed">>}
    OBVIOUS
<1>3. ctx.cli.sub = <<"serve">> => Head(ctx.cli.sub) = "serve"
    OBVIOUS
<1> QED BY <1>1, <1>2, <1>3 DEF PlanFits

\* A phase that is over has its place among those that are left behind.
LEMMA PhaseBehind ==
    ASSUME Kept, NEW t \in Threads, At(t, "running"), Progress(t), act[t].plan # <<>>,
           act'[t].plan = Tail(act[t].plan), UNCHANGED ctx
    PROVE  /\ Left(Plan)' \ Left(act'[t].plan) = (Left(Plan) \ Left(act[t].plan)) \union {Phase(t)}
           /\ \A phase \in Left(Plan)' \ Left(act'[t].plan) :
                \A later \in Left(act'[t].plan) : Rank[phase] < Rank[later]
           /\ Left(act'[t].plan) \subseteq Left(act[t].plan)
<1>1. Plan' = Plan
    BY DEF Plan, Given, Autoseeds
<1>2. /\ Phase(t) \in Left(act[t].plan) /\ Phase(t) \in Left(Plan)
      /\ Left(act'[t].plan) = Left(act[t].plan) \ {Phase(t)}
      /\ \A later \in Left(act'[t].plan) : Rank[Phase(t)] < Rank[later]
    BY FirstIsLeft
<1>3. Left(Plan)' = Left(Plan)
    BY <1>1 DEF Left
<1>4. \A phase \in Left(Plan) \ Left(act[t].plan) :
        \A later \in Left(act[t].plan) : Rank[phase] < Rank[later]
    BY DEF Progress
<1> QED BY <1>2, <1>3, <1>4

LEMMA BegunWithPlan ==
    ASSUME Kept, NEW a \in Actors, Work(a), Begun(a)
    PROVE  act[a].plan # <<>>
<1>1. act \in [Actors -> Actor]
    BY DEF Kept, Typed
<1>2. PICK rec \in Actor : /\ act' = [act EXCEPT ![a] = rec]
                           /\ InLoop(a, rec) \/ PhaseOver(a, rec) \/ WorkOver(a, rec)
    BY WorkIs
<1>3. act'[a] = rec
    BY <1>1, <1>2
<1> QED BY <1>2, <1>3 DEF InLoop, PhaseOver, WorkOver, Begun

LEMMA WorkProgresses ==
    ASSUME Kept, NEW t \in Threads, Work(t), Progress(t), At(t, "running")'
    PROVE  Progress(t)'
<1>1. /\ At(t, "running") /\ UNCHANGED ctx /\ t \in Actors
      /\ \/ Begun(t)
         \/ \E n \in act[t].todo : Passed(t, n)
         \/ Reconnected(t)
         \/ PhaseEnded(t)
         \/ Halts
    BY WorkSteps DEF Actors, Returns, At
<1>2. Plan' = Plan /\ Asked' = Asked /\ Connectable' = Connectable
    BY <1>1 DEF Plan, Given, Autoseeds, Asked, Declared, If, Connectable
<1>3. act[t].on => act[t].plan # <<>>
    BY <1>1 DEF Kept, Hands
<1> DEFINE plan == act[t].plan
           behind == Left(Plan) \ Left(plan)
<1>4. /\ \A phase \in behind :
            /\ \A later \in Left(plan) : Rank[phase] < Rank[later]
            /\ Wrought(t, phase, conn.over)
            /\ phase = "connect" => Joined
            /\ phase = "setup" => act[t].did = <<"setup">>
            /\ phase = "generate" => act[t].did = Asked
      /\ act[t].on => Wrought(t, Phase(t), conn.over \ act[t].todo)
      /\ act[t].on /\ Phase(t) = "seed" => Knows(t)
      /\ "setup" \in Left(plan) => act[t].did = <<>>
      /\ ~act[t].met
    BY DEF Progress
<1>5. plan # <<>> =>
        /\ Phase(t) \in Left(plan) /\ Phase(t) \in Left(Plan)
        /\ \A phase \in behind : Rank[phase] < Rank[Phase(t)] /\ phase # Phase(t)
    BY <1>1, <1>4, FirstIsLeft
<1>6. plan # <<>> /\ Phase(t) = "connect" => behind = {}
    <2>1. behind \subseteq Phases
        BY <1>1, RunnerFacts DEF PlanFits, Left
    <2>2. Rank["connect"] = 1 /\ \A phase \in Phases : Rank[phase] \in 1..8
        BY RankType DEF Rank, Phases
    <2> QED BY <1>5, <2>1, <2>2
<1>7. ("purge" \in Left(Plan) => "seed" \notin Left(Plan))
      /\ ("setup" \in Left(Plan) => "generate" \notin Left(Plan))
    BY <1>1, PhasesOfCommand
<1>8. ASSUME act'[t].plan = plan, Same(t),
             \A phase \in behind : Wrought(t, phase, conn.over)' /\ (phase = "connect" => Joined'),
             act'[t].on => /\ Wrought(t, Phase(t), conn.over \ act[t].todo)'
                           /\ Phase(t) = "seed" => Knows(t)'
      PROVE  Progress(t)'
    <2>1. /\ Left(Plan)' \ Left(act'[t].plan) = behind /\ Left(act'[t].plan) = Left(plan)
          /\ Phase(t)' = Phase(t)
        BY <1>2, <1>8 DEF Left, Phase
    <2>2. act'[t].did = act[t].did /\ act'[t].met = act[t].met
        BY <1>8 DEF Same
    <2> HIDE DEF behind, plan
    <2> QED BY <1>2, <1>4, <1>8, <2>1, <2>2 DEF Progress
<1>9. ASSUME act'[t].plan = Tail(plan), plan # <<>>, Same(t), ~act'[t].on,
             Phase(t) \notin {"setup", "generate"},
             \A phase \in behind \union {Phase(t)} :
                Wrought(t, phase, conn.over)' /\ (phase = "connect" => Joined')
      PROVE  Progress(t)'
    <2>1. /\ Left(Plan)' \ Left(act'[t].plan) = behind \union {Phase(t)}
          /\ \A phase \in Left(Plan)' \ Left(act'[t].plan) :
                \A later \in Left(act'[t].plan) : Rank[phase] < Rank[later]
          /\ Left(act'[t].plan) \subseteq Left(plan)
        BY <1>1, <1>9, PhaseBehind
    <2>2. act'[t].did = act[t].did /\ act'[t].met = act[t].met
        BY <1>9 DEF Same
    <2>3. Rank' = Rank
        BY DEF Rank
    <2> HIDE DEF behind, plan
    <2> QED BY <1>2, <1>4, <1>9, <2>1, <2>2, <2>3 DEF Progress
<1>10. CASE Begun(t)
    <2>1. /\ act'[t].plan = plan /\ Same(t) /\ UNCHANGED <<conn, tables, tracked, rows>>
          /\ act'[t].op = act[t].op /\ Phase(t)' = Phase(t)
          /\ act'[t].lost = IF Phase(t) = "seed" THEN Lost ELSE act[t].lost
          /\ plan # <<>>
        BY <1>1, <1>4, <1>10, BegunWithPlan DEF Begun, Same, Phase
    <2>2. \A phase \in behind : Wrought(t, phase, conn.over)' /\ (phase = "connect" => Joined')
        <3>1. ASSUME NEW phase \in behind PROVE phase = "seed" => act'[t].lost = act[t].lost
            BY <1>5, <2>1
        <3> QED BY <1>1, <1>2, <1>4, <2>1, <3>1, WroughtStays DEF Joined
    <2>3. Wrought(t, Phase(t), conn.over \ act[t].todo)'
        <3>1. CASE Phase(t) = "connect"
            BY <2>1, <3>1 DEF Wrought
        <3>2. CASE Phase(t) # "connect"
            <4>1. conn'.over \ act'[t].todo = {}
                BY <1>10, <2>1, <3>2 DEF Begun
            <4> QED BY <4>1 DEF Wrought
        <3> QED BY <3>1, <3>2
    <2>4. Phase(t) = "seed" => Knows(t)'
        BY <2>1 DEF Knows, Lost
    <2> QED BY <1>8, <2>1, <2>2, <2>3, <2>4
<1>11. ASSUME NEW n \in act[t].todo, Passed(t, n) PROVE Progress(t)'
    <2>1. /\ act'[t].plan = plan /\ Same(t) /\ act[t].on /\ plan # <<>> /\ act'[t].op = act[t].op
          /\ act'[t].lost = act[t].lost
        BY <1>3, <1>11 DEF Passed, Same
    <2>2. Wrought(t, Phase(t), conn.over \ act[t].todo)' /\ (Phase(t) = "seed" => Knows(t)')
        BY <1>1, <1>4, <1>11, <2>1, WroughtGrows
    <2>3. \A phase \in behind : Wrought(t, phase, conn.over)' /\ (phase = "connect" => Joined')
        <3>1. CASE Phase(t) = "connect"
            BY <1>6, <2>1, <3>1
        <3>2. CASE Phase(t) = "migrate"
            <4>1. UNCHANGED <<conn, tracked, rows>> /\ tables \subseteq tables'
                BY <1>11, <3>2 DEF Passed
            <4> QED BY <1>1, <1>2, <1>4, <2>1, <4>1, WroughtStays DEF Joined
        <3>3. CASE Phase(t) \in {"seed", "purge"}
            <4>1. UNCHANGED <<conn, tables>>
                BY <1>11, <3>3 DEF Passed
            <4>2. \A phase \in behind : phase \notin {"seed", "purge"}
                BY <1>5, <1>7, <2>1, <3>3
            <4>3. Given("--dry")' = Given("--dry")
                BY <1>1 DEF Given
            <4> QED BY <1>2, <1>4, <4>1, <4>2, <4>3 DEF Wrought, Joined
        <3> QED BY <1>11, <3>1, <3>2, <3>3 DEF Passed
    <2> QED BY <1>8, <2>1, <2>2, <2>3
<1>12. CASE Reconnected(t)
    <2>1. /\ act'[t].plan = Tail(plan) /\ Same(t) /\ plan # <<>> /\ ~act'[t].on
          /\ Phase(t) = "connect" /\ behind = {} /\ Joined'
        BY <1>2, <1>3, <1>6, <1>12 DEF Reconnected, Joined
    <2>2. Wrought(t, "connect", conn.over)'
        BY DEF Wrought
    <2> QED BY <1>9, <2>1, <2>2
<1>13. CASE PhaseEnded(t)
    <2>1. /\ act'[t].plan = Tail(plan) /\ Same(t) /\ plan # <<>> /\ ~act'[t].on
          /\ Phase(t) # "connect" /\ act[t].todo = {} /\ UNCHANGED <<conn, tables, tracked, rows>>
          /\ act'[t].op = act[t].op /\ act[t].on /\ act'[t].lost = act[t].lost
        BY <1>3, <1>13 DEF PhaseEnded, Same
    <2>2. Phase(t) \in Looping
        BY <1>1, <2>1 DEF Kept, Hands
    <2>3. conn.over \ act[t].todo = conn.over
        BY <2>1
    <2>4. Wrought(t, Phase(t), conn.over)
        BY <1>4, <2>1, <2>3
    <2>5. \A phase \in behind \union {Phase(t)} :
                Wrought(t, phase, conn.over)' /\ (phase = "connect" => Joined')
        BY <1>1, <1>2, <1>4, <2>1, <2>4, WroughtStays DEF Joined
    <2> QED BY <1>9, <2>1, <2>2, <2>5 DEF Looping
<1>14. CASE Halts
    <2>1. act'[t].plan = plan /\ Same(t) /\ UNCHANGED <<conn, tables, tracked, rows>> /\ act'[t] = act[t]
          /\ Phase(t)' = Phase(t)
        BY <1>14 DEF Halts, Same, Phase
    <2>2. \A phase \in behind : Wrought(t, phase, conn.over)' /\ (phase = "connect" => Joined')
        BY <1>1, <1>2, <1>4, <2>1, WroughtStays DEF Joined
    <2>3. act[t].on => Wrought(t, Phase(t), conn.over \ act[t].todo)'
        BY <1>1, <1>4, <2>1 DEF Wrought, Followed, Given, Seeding
    <2>4. act[t].on /\ Phase(t) = "seed" => Knows(t)'
        BY <1>1, <1>4, <2>1 DEF Knows, Lost, Seeding
    <2> QED BY <1>8, <2>1, <2>2, <2>3, <2>4
<1> QED BY <1>1, <1>10, <1>11, <1>12, <1>13, <1>14

\* A thread that steps leaves the others alone, but when the server stops.
LEMMA OthersStay ==
    ASSUME Kept, NEW u \in Threads, Create(u) \/ RunCommand(u), ~Stop(u)
    PROVE  \A a \in Actors : a # u => act'[a] = act[a]
<1>1. act \in [Actors -> Actor]
    BY DEF Kept, Typed
<1>2. CASE Create(u)
    <2>1. (\E rec : act' = [act EXCEPT ![u] = rec]) \/ act' = act
        BY <1>2 DEF Create, Test, Set, Configure, Load, SetSetup, AddProgram, Goes, Changes, EndsProcess
    <2> QED BY <1>1, <2>1
<1>3. CASE RunCommand(u)
    <2>1. (\E rec : act' = [act EXCEPT ![u] = rec]) \/ act' = act
        BY <1>3 DEF RunCommand, Prepare, CallSetup, Listen, RunProgram, Generate, GenerateAdmin,
                    Goes, Changes, EndsProcess
    <2> QED BY <1>1, <2>1
<1> QED BY <1>2, <1>3

\* A thread that has no part in a step is as it was; while it runs its command,
\* so is all that it works on.
LEMMA BystanderStays ==
    ASSUME Kept, NEW t \in Threads, [Next]_vars, ~Create(t), ~RunCommand(t), ~Work(t)
    PROVE  /\ act'[t].pc = act[t].pc /\ act'[t].plan = act[t].plan /\ act'[t].on = act[t].on
           /\ act'[t].did = act[t].did /\ act'[t].todo = act[t].todo /\ act'[t].op = act[t].op
           /\ act'[t].met = act[t].met /\ (~act[t].met => act'[t].lost = act[t].lost)
           /\ At(t, "running") => UNCHANGED <<ctx, conn, tables, tracked, rows>>
<1> DEFINE Goal == /\ act'[t].pc = act[t].pc /\ act'[t].plan = act[t].plan /\ act'[t].on = act[t].on
                   /\ act'[t].did = act[t].did /\ act'[t].todo = act[t].todo /\ act'[t].op = act[t].op
                   /\ act'[t].met = act[t].met /\ (~act[t].met => act'[t].lost = act[t].lost)
                   /\ At(t, "running") => UNCHANGED <<ctx, conn, tables, tracked, rows>>
<1>1. /\ act \in [Actors -> Actor] /\ t \in Actors /\ t \notin Requests
      /\ \A u \in Threads : u \in Actors /\ u \notin Requests
    BY ActorsAssumption DEF Kept, Typed, Actors
<1>2. At(t, "running") =>
        /\ \A u \in Threads : u # t => ~Entered(u)
        /\ \A r \in Requests : ~At(r, "running")
        /\ \A u \in Threads : ~At(u, "listening")
    <2> SUFFICES ASSUME At(t, "running")
                 PROVE  /\ \A u \in Threads : u # t => ~Entered(u)
                        /\ \A r \in Requests : ~At(r, "running")
                        /\ \A u \in Threads : ~At(u, "listening")
        OBVIOUS
    <2>1. Entered(t) /\ ~At(t, "listening")
        BY DEF Entered, At
    <2>2. /\ \A u \in Threads : u # t => ~Entered(u)
          /\ \A r \in Requests : ~At(r, "running")
        BY <2>1, EnteredAlone
    <2> QED BY <2>1, <2>2 DEF Entered, At
<1>3. CASE UNCHANGED vars
    BY <1>3 DEF vars
<1>4. ASSUME NEW u \in Threads, Create(u) PROVE Goal
    <2>1. u # t
        BY <1>4
    <2>2. act'[t] = act[t]
        <3>1. ~Stop(u) \/ At(u, "listening")
            BY DEF Stop
        <3>2. Create(u) => ~At(u, "listening")
            BY DEF Create, Test, Set, Configure, Load, SetSetup, AddProgram, At
        <3> QED BY <1>1, <1>4, <2>1, <3>1, <3>2, OthersStay
    <2>3. UNCHANGED <<ctx, conn, tables, tracked, rows>> \/ Entered(u)
        BY <1>4 DEF Create, Test, Set, Configure, Load, SetSetup, AddProgram, Databases, Entered, At
    <2> QED BY <1>2, <2>1, <2>2, <2>3
<1>5. ASSUME NEW u \in Threads, RunCommand(u) PROVE Goal
    <2>1. u # t
        BY <1>5
    <2>2. Entered(u)
        BY <1>5 DEF RunCommand, Prepare, CallSetup, Listen, RunProgram, Generate, GenerateAdmin, Stop,
                    Faces, Entered, At
    <2>3. CASE Stop(u)
        <3>1. act'[t] = [act[t] EXCEPT !.pc = act[t].pc]
            BY <1>1, <2>1, <2>3 DEF Stop
        <3>2. act'[t] = act[t]
            BY <1>1, <3>1 DEF Actor
        <3> QED BY <1>2, <2>1, <2>2, <3>2
    <2>4. CASE ~Stop(u)
        <3>1. act'[t] = act[t]
            BY <1>1, <1>5, <2>1, <2>4, OthersStay
        <3> QED BY <1>2, <2>1, <2>2, <3>1
    <2> QED BY <2>3, <2>4
<1>6. ASSUME NEW a \in Actors, Work(a) PROVE Goal
    <2>1. a # t /\ At(a, "running") /\ act'[t] = act[t]
        BY <1>1, <1>6, WorkSteps
    <2>2. ~At(t, "running")
        <3>1. CASE a \in Threads
            BY <1>2, <2>1, <3>1 DEF Entered, At
        <3>2. CASE a \in Requests
            BY <1>2, <2>1, <3>2
        <3> QED BY <3>1, <3>2 DEF Actors
    <2> QED BY <2>1, <2>2
<1>7. ASSUME NEW r \in Requests, Ask(r) PROVE Goal
    <2>1. PICK operation \in Operations : Asks(r, operation)
        BY <1>7, AskRecords
    <2>2. /\ Stays(t) /\ act'[t].did = act[t].did /\ act'[t].todo = act[t].todo
          /\ act'[t].met <=> act[t].met
          /\ ~act'[t].met => act'[t].lost = act[t].lost
          /\ act'[t].met \in BOOLEAN /\ act[t].met \in BOOLEAN
          /\ \E u \in Threads : At(u, "listening")
        BY <1>1, <2>1 DEF Asks, Actor
    <2> QED BY <1>2, <2>2 DEF Stays
<1> QED BY <1>3, <1>4, <1>5, <1>6, <1>7 DEF Next

\* The steps of a thread that runs its command, outside the loops.
Calls(t) ==
    /\ Phase(t) = "setup"
    /\ act[t].plan # <<>>
    /\ act'[t].pc = act[t].pc /\ act'[t].plan = Tail(act[t].plan) /\ ~act'[t].on
    /\ act'[t].did = Append(act[t].did, "setup")
    /\ act'[t].met = act[t].met /\ act'[t].lost = act[t].lost
Generates(t) ==
    /\ Phase(t) = "generate"
    /\ act[t].plan # <<>>
    /\ act'[t].pc = act[t].pc /\ act'[t].plan = Tail(act[t].plan) /\ ~act'[t].on
    /\ act'[t].did = Asked
    /\ act'[t].met = act[t].met /\ act'[t].lost = act[t].lost
Listens(t) ==
    /\ Phase(t) = "listen"
    /\ act[t].plan # <<>>
    /\ act'[t].pc = "listening" /\ act'[t].did = act[t].did
Quits(t) == act'[t].pc \in {"failed", "panicked"}

LEMMA CommandSteps ==
    ASSUME Kept, NEW t \in Threads, At(t, "running"), RunCommand(t)
    PROVE  /\ UNCHANGED <<ctx, conn, tables, tracked, rows>>
           /\ \/ Calls(t)
              \/ Generates(t)
              \/ Listens(t)
              \/ Quits(t)
              \/ Halts
<1>1. /\ act \in [Actors -> Actor] /\ act[t] \in Actor /\ act[t].pc = "running"
      /\ t \in Actors /\ ctx.cli \in Command /\ ctx.schema \in Schema
    BY RunnerFacts DEF Kept, Typed, Actors, At
<1>2. /\ act[t].plan # <<>>
      /\ ~Prepare(t) /\ ~Stop(t)
      /\ UNCHANGED <<ctx, conn, tables, tracked, rows>>
    BY <1>1 DEF RunCommand, Prepare, CallSetup, Listen, RunProgram, Generate, GenerateAdmin, Stop,
                Faces, At, Databases
<1>3. /\ Over(t) \in Actor
      /\ Over(t).plan = Tail(act[t].plan) /\ ~Over(t).on
      /\ Over(t).pc = "running" /\ Over(t).did = act[t].did
      /\ Over(t).met = act[t].met /\ Over(t).lost = act[t].lost
    BY <1>1, <1>2, OverRecord
<1>4. ASSUME NEW pc \in {"failed", "panicked"}, Goes(t, pc) PROVE Quits(t)
    <2>1. act'[t] = [act[t] EXCEPT !.pc = pc]
        BY <1>1, <1>4 DEF Goes, Changes
    <2> QED BY <1>1, <2>1 DEF Quits, Actor
<1>5. ASSUME EndsProcess PROVE Halts
    BY <1>2, <1>5 DEF EndsProcess, Halts
<1>6. CASE CallSetup(t)
    <2>1. ASSUME Changes(t, [Over(t) EXCEPT !.did = Append(@, "setup")]) PROVE Calls(t)
        <3>1. act'[t] = [Over(t) EXCEPT !.did = Append(Over(t).did, "setup")]
            BY <1>1, <2>1 DEF Changes
        <3>2. act'[t].pc = "running" /\ act'[t].plan = Tail(act[t].plan) /\ ~act'[t].on
              /\ act'[t].did = Append(act[t].did, "setup")
              /\ act'[t].met = act[t].met /\ act'[t].lost = act[t].lost
            BY <1>3, <3>1 DEF Actor
        <3> QED BY <1>1, <1>2, <1>6, <3>2 DEF Calls, CallSetup, Faces
    <2> QED BY <1>2, <1>4, <1>6, <2>1 DEF CallSetup
<1>7. CASE Listen(t)
    <2>1. ASSUME Changes(t, [Over(t) EXCEPT !.pc = "listening", !.lost = {}]) PROVE Listens(t)
        <3>1. act'[t] = [Over(t) EXCEPT !.pc = "listening", !.lost = {}]
            BY <1>1, <2>1 DEF Changes
        <3>2. act'[t].pc = "listening" /\ act'[t].did = act[t].did
            BY <1>3, <3>1 DEF Actor
        <3> QED BY <1>2, <1>7, <3>2 DEF Listens, Listen, Faces
    <2> QED BY <1>2, <1>4, <1>7, <2>1 DEF Listen
<1>8. CASE RunProgram(t)
    BY <1>2, <1>4, <1>5, <1>8 DEF RunProgram
<1>9. CASE Generate(t)
    <2>1. PICK k \in 0..Len(Asked) :
            act' = [act EXCEPT ![t] = [Over(t) EXCEPT !.did = SubSeq(Asked, 1, k),
                                      !.pc = IF Unclear \/ k < Len(Asked) THEN "failed" ELSE @]]
        BY <1>9 DEF Generate, Changes
    <2> DEFINE pc == IF Unclear \/ k < Len(Asked) THEN "failed" ELSE Over(t).pc
    <2>2. pc = "failed" \/ (pc = "running" /\ ~(k < Len(Asked)))
        BY <1>3
    <2> HIDE DEF pc
    <2>3. act'[t] = [Over(t) EXCEPT !.did = SubSeq(Asked, 1, k), !.pc = pc]
        BY <1>1, <2>1 DEF pc
    <2>4. /\ act'[t].pc = pc /\ act'[t].plan = Tail(act[t].plan) /\ ~act'[t].on
          /\ act'[t].did = SubSeq(Asked, 1, k)
          /\ act'[t].met = act[t].met /\ act'[t].lost = act[t].lost
        BY <1>3, <2>3 DEF Actor
    <2>5. CASE pc = "failed"
        BY <1>2, <2>4, <2>5 DEF Quits
    <2>6. CASE pc = "running" /\ ~(k < Len(Asked))
        <3>1. Asked \in Seq(Words)
            BY <1>1, AskedType
        <3>2. k = Len(Asked)
            BY <2>6, <3>1
        <3>3. SubSeq(Asked, 1, k) = Asked
            BY <3>1, <3>2
        <3> QED BY <1>1, <1>2, <1>9, <2>4, <2>6, <3>3 DEF Generates, Generate, Faces
    <2> QED BY <2>2, <2>5, <2>6
<1>10. CASE GenerateAdmin(t)
    <2>1. ASSUME Changes(t, [Over(t) EXCEPT !.did = Asked]) PROVE Generates(t)
        <3>1. act'[t] = [Over(t) EXCEPT !.did = Asked]
            BY <1>1, <2>1 DEF Changes
        <3>2. act'[t].pc = "running" /\ act'[t].plan = Tail(act[t].plan) /\ ~act'[t].on
              /\ act'[t].did = Asked
              /\ act'[t].met = act[t].met /\ act'[t].lost = act[t].lost
            BY <1>3, <3>1 DEF Actor
        <3> QED BY <1>1, <1>2, <1>10, <3>2 DEF Generates, GenerateAdmin, Faces
    <2> QED BY <1>2, <1>4, <1>10, <2>1 DEF GenerateAdmin
<1> QED BY <1>2, <1>6, <1>7, <1>8, <1>9, <1>10 DEF RunCommand

LEMMA CreateSteps ==
    ASSUME Kept, NEW t \in Threads, Create(t), Commands
    PROVE  act'[t].pc # "running" /\ (Preparing(t)' => act'[t].did = <<>> /\ ~act'[t].met)
<1>1. /\ act \in [Actors -> Actor] /\ act[t] \in Actor /\ t \in Actors
      /\ Preparing(t) => act[t].did = <<>> /\ ~act[t].met
    BY DEF Kept, Typed, Actors, Commands
<1>2. ASSUME NEW pc \in {"configure", "load", "app", "failed", "panicked"}, Goes(t, pc)
      PROVE  act'[t].pc = pc /\ act'[t].did = act[t].did /\ act'[t].met = act[t].met
    <2>1. act'[t] = [act[t] EXCEPT !.pc = pc]
        BY <1>1, <1>2 DEF Goes, Changes
    <2> QED BY <1>1, <2>1 DEF Actor
<1>3. CASE Test(t)
    <2>1. PICK launch \in Launches[t] : Changes(t, [Fresh EXCEPT !.call = launch, !.pc = "set"])
        BY <1>3 DEF Test
    <2>2. act'[t] = [Fresh EXCEPT !.call = launch, !.pc = "set"]
        BY <1>1, <2>1 DEF Changes
    <2>3. act'[t].pc = "set" /\ act'[t].did = <<>> /\ ~act'[t].met
        BY <2>2 DEF Fresh
    <2> QED BY <2>3 DEF Preparing
<1>4. CASE Set(t)
    BY <1>1, <1>2, <1>4 DEF Set, Preparing, At
<1>5. CASE Configure(t)
    BY <1>1, <1>2, <1>5 DEF Configure, Preparing, At, EndsProcess
<1>6. CASE Load(t)
    <2>1. Goes(t, "failed") \/ Goes(t, "app") \/ UNCHANGED act
        BY <1>6 DEF Load, EndsProcess
    <2>2. act[t].pc = "load"
        BY <1>6 DEF Load, At
    <2> QED BY <1>1, <1>2, <2>1, <2>2 DEF Preparing
<1>7. CASE SetSetup(t) \/ AddProgram(t)
    BY <1>1, <1>7 DEF SetSetup, AddProgram, Preparing, At
<1> QED BY <1>3, <1>4, <1>5, <1>6, <1>7 DEF Create

LEMMA CommandProgresses ==
    ASSUME Kept, NEW t \in Threads, At(t, "running"), RunCommand(t), Progress(t), At(t, "running")'
    PROVE  Progress(t)'
<1>1. /\ UNCHANGED <<ctx, conn, tables, tracked, rows>>
      /\ Calls(t) \/ Generates(t) \/ Halts
    BY CommandSteps DEF Listens, Quits, At
<1>2. Plan' = Plan /\ Asked' = Asked /\ Connectable' = Connectable /\ t \notin Requests
    BY <1>1, ActorsAssumption DEF Plan, Given, Autoseeds, Asked, Declared, If, Connectable
<1> DEFINE plan == act[t].plan
           behind == Left(Plan) \ Left(plan)
<1>3. /\ \A phase \in behind :
            /\ \A later \in Left(plan) : Rank[phase] < Rank[later]
            /\ Wrought(t, phase, conn.over)
            /\ phase = "connect" => Joined
            /\ phase = "setup" => act[t].did = <<"setup">>
            /\ phase = "generate" => act[t].did = Asked
      /\ act[t].on => Wrought(t, Phase(t), conn.over \ act[t].todo)
      /\ act[t].on /\ Phase(t) = "seed" => Knows(t)
      /\ "setup" \in Left(plan) => act[t].did = <<>>
      /\ ~act[t].met
    BY DEF Progress
<1>4. /\ \A phase \in behind : Wrought(t, phase, conn.over)' /\ (phase = "connect" => Joined')
      /\ Rank' = Rank
    <2>1. act'[t].lost = act[t].lost
        BY <1>1 DEF Calls, Generates, Halts
    <2>2. Seeding(t)' = Seeding(t) /\ Given("--dry")' = Given("--dry")
        BY <1>1, <1>2 DEF Seeding, Given
    <2> QED BY <1>1, <1>2, <1>3, <2>1, <2>2 DEF Wrought, Followed, Joined, Rank
<1>5. ("setup" \in Left(Plan) => "generate" \notin Left(Plan)) /\ Left(plan) \subseteq Left(Plan)
    BY PhasesOfCommand, RunnerEntered DEF Fits
<1>6. CASE Calls(t) \/ Generates(t)
    <2>1. /\ plan # <<>> /\ act'[t].plan = Tail(plan) /\ ~act'[t].on /\ Phase(t) \in {"setup", "generate"}
          /\ act'[t].met = act[t].met
        BY <1>6 DEF Calls, Generates
    <2>2. /\ Left(Plan)' \ Left(act'[t].plan) = behind \union {Phase(t)}
          /\ \A phase \in Left(Plan)' \ Left(act'[t].plan) :
                \A later \in Left(act'[t].plan) : Rank[phase] < Rank[later]
          /\ Left(act'[t].plan) \subseteq Left(plan)
        BY <1>1, <2>1, PhaseBehind
    <2>3. Phase(t) \in Left(plan) /\ Left(act'[t].plan) = Left(plan) \ {Phase(t)}
        BY <2>1, FirstIsLeft
    <2>4. \A phase \in {"setup", "generate"} : Wrought(t, phase, conn.over)'
        BY DEF Wrought
    <2>5. CASE Calls(t)
        <3>1. Phase(t) = "setup" /\ act'[t].did = Append(act[t].did, "setup")
            BY <2>5 DEF Calls
        <3>2. act[t].did = <<>>
            BY <1>3, <2>3, <3>1
        <3>3. act'[t].did = <<"setup">>
            BY <3>1, <3>2
        <3>4. "generate" \notin behind /\ "setup" \notin Left(act'[t].plan)
            BY <1>5, <2>3, <3>1
        <3> HIDE DEF behind, plan
        <3> QED BY <1>2, <1>3, <1>4, <2>1, <2>2, <2>4, <3>1, <3>3, <3>4 DEF Progress
    <2>6. CASE Generates(t)
        <3>1. Phase(t) = "generate" /\ act'[t].did = Asked
            BY <2>6 DEF Generates
        <3>2. "setup" \notin behind /\ "setup" \notin Left(act'[t].plan)
            BY <1>5, <2>3, <3>1
        <3> HIDE DEF behind, plan
        <3> QED BY <1>2, <1>3, <1>4, <2>1, <2>2, <2>4, <3>1, <3>2 DEF Progress
    <2> QED BY <1>6, <2>5, <2>6
<1>7. CASE Halts
    <2>1. act' = act
        BY <1>7 DEF Halts
    <2> QED BY <1>1, <1>2, <1>3, <1>4, <2>1 DEF Progress, Wrought, Followed, Knows, Lost, Given, Seeding, Phase
<1> QED BY <1>1, <1>6, <1>7

LEMMA CommandsInitially == Init => Commands
<1> SUFFICES ASSUME Init, NEW t \in Threads PROVE act[t].pc = "idle"
    BY DEF Commands, Preparing, At
<1> QED BY FreshType DEF Init, Actors

LEMMA CommandsInductive == Kept /\ Commands /\ [Next]_vars => Commands'
<1> SUFFICES ASSUME Kept, Commands, [Next]_vars, NEW t \in Threads
             PROVE  /\ Preparing(t)' => act'[t].did = <<>> /\ ~act'[t].met
                    /\ At(t, "running")' => Progress(t)'
    BY DEF Commands
<1>1. /\ act \in [Actors -> Actor] /\ act[t] \in Actor /\ t \in Actors
      /\ Preparing(t) => act[t].did = <<>> /\ ~act[t].met
      /\ At(t, "running") => Progress(t)
    BY DEF Kept, Typed, Actors, Commands
<1>2. CASE Create(t)
    BY <1>2, CreateSteps DEF At
<1>3. CASE Work(t)
    <2>1. At(t, "running") /\ (Halts \/ act'[t].pc \in {"running", "done", "failed", "panicked"})
        BY <1>1, <1>3, WorkSteps DEF At, Begun, Passed, Reconnected, PhaseEnded, Returns, Same
    <2>2. ~Preparing(t)'
        BY <2>1 DEF Halts, Preparing, At
    <2> QED BY <1>1, <1>3, <2>1, <2>2, WorkProgresses
<1>4. CASE RunCommand(t) /\ At(t, "running")
    <2>1. ~Preparing(t)'
        BY <1>4, CommandSteps DEF Calls, Generates, Listens, Quits, Halts, Preparing, At
    <2> QED BY <1>1, <1>4, <2>1, CommandProgresses
<1>5. CASE RunCommand(t) /\ ~At(t, "running")
    <2>1. CASE Stop(t)
        <3>1. act'[t].pc = "done"
            <4>1. act'[t] = [act[t] EXCEPT !.pc = "done"]
                BY <1>1, <2>1, ActorsAssumption DEF Stop
            <4> QED BY <1>1, <4>1 DEF Actor
        <3> QED BY <3>1 DEF Preparing, At
    <2>2. CASE Prepare(t)
        <3>1. act[t].pc = "app" /\ act[t].did = <<>> /\ ~act[t].met /\ UNCHANGED <<ctx, conn, tables, tracked, rows>>
            BY <1>1, <2>2 DEF Prepare, Preparing, At, Databases
        <3>2. ~act[t].on
            BY <1>1, <3>1 DEF Kept, Hands, At
        <3>3. CASE Goes(t, "failed")
            <4>1. act'[t] = [act[t] EXCEPT !.pc = "failed"]
                BY <1>1, <3>3 DEF Goes, Changes
            <4>2. act'[t].pc = "failed"
                BY <1>1, <4>1 DEF Actor
            <4> QED BY <4>2 DEF Preparing, At
        <3>4. CASE Changes(t, [act[t] EXCEPT !.pc = "running", !.plan = Plan])
            <4>1. act'[t] = [act[t] EXCEPT !.pc = "running", !.plan = Plan]
                BY <1>1, <3>4 DEF Changes
            <4>2. act'[t].pc = "running" /\ act'[t].plan = Plan /\ ~act'[t].on /\ act'[t].did = <<>>
                  /\ ~act'[t].met
                BY <1>1, <3>1, <3>2, <4>1 DEF Actor
            <4>3. Plan' = Plan
                BY <3>1 DEF Plan, Given, Autoseeds
            <4>4. Left(Plan)' \ Left(act'[t].plan) = {}
                BY <4>2, <4>3 DEF Left
            <4>5. Progress(t)'
                BY <4>2, <4>4 DEF Progress
            <4> QED BY <4>2, <4>5 DEF Preparing
        <3> QED BY <2>2, <3>3, <3>4 DEF Prepare
    <2> QED BY <1>5, <2>1, <2>2 DEF RunCommand, CallSetup, Listen, RunProgram, Generate, GenerateAdmin, Faces
<1>6. CASE ~Create(t) /\ ~RunCommand(t) /\ ~Work(t)
    <2>1. /\ act'[t].pc = act[t].pc /\ act'[t].plan = act[t].plan /\ act'[t].on = act[t].on
          /\ act'[t].did = act[t].did /\ act'[t].todo = act[t].todo /\ act'[t].op = act[t].op
          /\ act'[t].met = act[t].met /\ (~act[t].met => act'[t].lost = act[t].lost)
          /\ At(t, "running") => UNCHANGED <<ctx, conn, tables, tracked, rows>>
        BY <1>6, BystanderStays
    <2>2. Preparing(t)' => act'[t].did = <<>> /\ ~act'[t].met
        BY <1>1, <2>1 DEF Preparing
    <2>3. ASSUME At(t, "running") PROVE Progress(t)'
        <3>1. Plan' = Plan /\ Asked' = Asked /\ Connectable' = Connectable
            BY <2>1, <2>3 DEF Plan, Given, Autoseeds, Asked, Declared, If, Connectable
        <3>2. Progress(t) /\ act'[t].lost = act[t].lost
            BY <1>1, <2>1, <2>3 DEF Progress
        <3>3. /\ Seeding(t)' = Seeding(t) /\ Phase(t)' = Phase(t) /\ Lost' = Lost
              /\ Given("--dry")' = Given("--dry")
            BY <2>1, <2>3 DEF Seeding, Given, Phase, Lost
        <3>4. \A n : Followed(t, n)' <=> Followed(t, n)
            BY <2>1, <2>3, <3>2, <3>3 DEF Followed
        <3>5. /\ \A phase : Wrought(t, phase, conn.over) => Wrought(t, phase, conn.over)'
              /\ act[t].on => Wrought(t, Phase(t), conn.over \ act[t].todo)'
            BY <2>1, <2>3, <3>2, <3>3, <3>4 DEF Wrought, Progress
        <3>6. (Knows(t)' <=> Knows(t)) /\ (Joined' <=> Joined)
            BY <2>1, <2>3, <3>1, <3>2, <3>3 DEF Knows, Joined
        <3>7. Left(Plan)' = Left(Plan) /\ Left(act'[t].plan) = Left(act[t].plan)
            BY <2>1, <3>1 DEF Left
        <3> QED BY <2>1, <2>3, <3>1, <3>2, <3>3, <3>5, <3>6, <3>7 DEF Progress
    <2> QED BY <2>1, <2>2, <2>3 DEF At
<1> QED BY <1>2, <1>3, <1>4, <1>5, <1>6

LEMMA CommandsInvariant == Spec => []Commands
<1> QED BY CommandsInitially, CommandsInductive, KeptInvariant, PTL DEF Spec

\* No flag of serve makes a migration dry or a seed an unseed.
LEMMA FlagsOfServe ==
    ASSUME Kept, NEW t \in Threads, At(t, "running"), ctx.cli.sub = <<"serve">>
    PROVE  ~Given("--dry") /\ Seeding(t) # "unseed"
<1>1. PICK sub \in Subcommands : ctx.cli.sub = sub.words /\ ctx.cli.flags \subseteq sub.flags
    BY RunnerEntered, AppFacts DEF Kept
<1>2. sub = Subcommand(<<"serve">>, {"--no-migration", "--no-autoseed"}, FALSE)
    BY <1>1 DEF Subcommands, Subcommand
<1>3. ctx.cli.flags \subseteq {"--no-migration", "--no-autoseed"}
    BY <1>1, <1>2 DEF Subcommand
<1> QED BY <1>3, ActorsAssumption DEF Given, Seeding, SeedAction

LEMMA ListensReady ==
    ASSUME Kept, NEW t \in Threads, At(t, "running"), Progress(t), Listens(t)
    PROVE  Ready(t)
<1>1. /\ PlanFits /\ Left(Plan) \subseteq Phases /\ Phase(t) = "listen"
      /\ "listen" \in Left(Plan)
      /\ \A later \in Left(act[t].plan) : later = "listen" \/ Rank["listen"] < Rank[later]
    BY FirstIsLeft, RunnerFacts DEF Listens, Actors
<1>2. ctx.cli.sub = <<"serve">> /\ "connect" \in Left(Plan)
    BY <1>1 DEF PlanFits
<1>3. Rank["listen"] = 6 /\ Rank["connect"] = 1 /\ Rank["migrate"] = 2 /\ Rank["seed"] = 3
      /\ Rank["setup"] = 5
    BY DEF Rank, Phases
<1>4. \A phase \in {"connect", "migrate", "seed", "setup"} : phase \notin Left(act[t].plan)
    BY <1>1, <1>3
<1>5. ~Given("--dry") /\ Seeding(t) # "unseed"
    BY <1>2, FlagsOfServe
<1>6. Joined
    BY <1>2, <1>4 DEF Progress
<1>7. ~Given("--no-migration") => conn.over \subseteq tables
    BY <1>1, <1>2, <1>4, <1>5 DEF PlanFits, Progress, Wrought
<1>8. Autoseeds => Seeded(t)
    BY <1>1, <1>2, <1>4, <1>5 DEF PlanFits, Progress, Wrought, Followed, Seeded
<1>9. ctx.setup => act[t].did = <<"setup">>
    BY <1>1, <1>2, <1>4 DEF PlanFits, Progress
<1> QED BY <1>6, <1>7, <1>8, <1>9 DEF Ready, Joined

LEMMA ReturnsDone ==
    ASSUME Kept, NEW t \in Threads, At(t, "running"), Progress(t), Returns(t), act'[t].pc = "done",
           UNCHANGED ctx
    PROVE  Returned(t)'
<1>1. /\ act[t].plan = <<>> /\ act'[t].did = act[t].did /\ UNCHANGED <<conn, tables, tracked, rows>>
      /\ PlanFits
    BY RunnerFacts DEF Returns, Actors
<1>2. Left(act[t].plan) = {}
    BY <1>1, PlanOfNone
<1>3. ctx.cli.sub = <<"migrate">> => (Given("--dry") \/ conn.over \subseteq tables)
    BY <1>1, <1>2 DEF PlanFits, Progress, Wrought
<1>4. ctx.cli.sub = <<"purge">> => Purged
    BY <1>1, <1>2 DEF PlanFits, Progress, Wrought, Purged
<1>5. Head(ctx.cli.sub) = "generate" => act[t].did = Asked
    BY <1>1, <1>2 DEF PlanFits, Progress
<1> QED BY <1>1, <1>3, <1>4, <1>5 DEF Returned, Purged, Given, Asked, Declared, If

LEMMA CommandsCarriedOut ==
    ASSUME Kept, Commands, [Next]_vars, NEW t \in Threads, At(t, "running")
    PROVE  /\ At(t, "listening")' => Ready(t)
           /\ At(t, "done")' => Returned(t)'
<1>1. Progress(t) /\ t \in Actors /\ act[t].pc = "running"
    BY DEF Commands, Actors, At
<1>2. CASE Create(t)
    <2>1. Halts \/ act'[t].pc \notin {"listening", "done"}
        BY <1>1, <1>2 DEF Create, Test, Set, Configure, Load, SetSetup, AddProgram, At
    <2> QED BY <1>1, <2>1 DEF Halts, At
<1>3. CASE Work(t)
    <2>1. UNCHANGED ctx /\ (Returns(t) \/ act'[t].pc = "running")
        BY <1>1, <1>3, WorkSteps DEF Begun, Passed, Reconnected, PhaseEnded, Same, Halts
    <2> QED BY <1>1, <2>1, ReturnsDone DEF At, Returns
<1>4. CASE RunCommand(t)
    <2>1. /\ UNCHANGED <<ctx, conn, tables, tracked, rows>>
          /\ Listens(t) \/ act'[t].pc \in {"running", "failed", "panicked"}
        BY <1>1, <1>4, CommandSteps DEF Calls, Generates, Quits, Halts
    <2> QED BY <1>1, <2>1, ListensReady DEF At, Listens
<1>5. CASE ~Create(t) /\ ~RunCommand(t) /\ ~Work(t)
    BY <1>1, <1>5, BystanderStays DEF At
<1> QED BY <1>2, <1>3, <1>4, <1>5

\* When the server begins to listen (run.rs:15-38) every database that the
\* application connects is in the context over a connection of its own; unless told
\* otherwise it is migrated and autoseed ran over it; and setup was called.  A
\* command that returns (run.rs:39-138) has done what it was asked for in every
\* database and under every name: whatever schema, flags, databases and threads.
THEOREM ApplicationCarriedOut == Spec => CarriedOut
<1>1. Kept /\ Commands /\ [Next]_vars =>
        [\A t \in Threads : At(t, "running") =>
            /\ At(t, "listening")' => Ready(t)
            /\ At(t, "done")' => Returned(t)']_vars
    BY CommandsCarriedOut
<1> QED BY <1>1, KeptInvariant, CommandsInvariant, PTL DEF Spec, CarriedOut

-------------------------------------------------------------------------------
\* A row counts as seeded only while its record is there.

Named == \A n \in Paths : "seed" \in rows[n] => n \in tracked

LEMMA EmptiesNamed ==
    ASSUME Typed, Named, NEW n, NEW kept, NEW records \in BOOLEAN,
           n \in Paths => kept \subseteq rows[n], Empties(n, kept, records)
    PROVE  Named'
<1> SUFFICES ASSUME NEW m \in Paths, "seed" \in rows'[m] PROVE m \in tracked'
    BY DEF Named
<1>1. "seed" \notin Unnamed(IF m = n THEN kept ELSE rows[m])
    BY DEF Unnamed
<1>2. ~records /\ tracked' = tracked /\ rows'[m] = IF m = n THEN kept ELSE rows[m]
    BY <1>1 DEF Empties
<1> QED BY <1>2 DEF Named

LEMMA NamedInductive == Kept /\ Named /\ [Next]_vars => Named'
<1> SUFFICES ASSUME Kept, Named, [Next]_vars PROVE Named'
    OBVIOUS
<1>1. /\ Typed /\ rows \in [Paths -> SUBSET Kinds]
      /\ \A a \in Actors : act[a].todo \subseteq Paths
    BY DEF Kept, Typed, Actor
<1>2. CASE UNCHANGED <<tracked, rows>>
    BY <1>2 DEF Named
<1>3. ASSUME NEW a \in Actors, InsertRecord(a) PROVE Named'
    <2>1. PICK n \in act[a].todo \cap tables :
            /\ tracked' = tracked \union {n}
            /\ rows' = [rows EXCEPT ![n] = @ \union {"seed"}]
        BY <1>3 DEF InsertRecord
    <2> QED BY <1>1, <2>1 DEF Named
<1>4. ASSUME NEW a \in Actors, RemoveRecord(a) PROVE Named'
    <2>1. PICK n \in act[a].todo \cap tables :
            /\ tracked' = tracked \ {n}
            /\ rows' = [rows EXCEPT ![n] = @ \ {"seed"}]
        BY <1>4 DEF RemoveRecord
    <2> QED BY <1>1, <2>1 DEF Named
<1>5. ASSUME NEW a \in Actors, FailToSeed(a), ~UNCHANGED <<tracked, rows>> PROVE Named'
    <2>1. PICK n \in act[a].todo \cap tables :
              \/ /\ Inserts(a, n)
                 /\ tracked' = tracked \ {n}
                 /\ \/ UNCHANGED rows
                    \/ rows' = [rows EXCEPT ![n] = @ \union {"other"}]
              \/ /\ Removes(a, n)
                 /\ rows' = [rows EXCEPT ![n] = @ \ {"seed"}]
                 /\ UNCHANGED tracked
        BY <1>5 DEF FailToSeed
    <2>2. CASE Inserts(a, n) /\ tracked' = tracked \ {n}
               /\ (UNCHANGED rows \/ rows' = [rows EXCEPT ![n] = @ \union {"other"}])
        <3>1. "seed" \notin rows[n] /\ n \in Paths
            BY <1>1, <2>1, <2>2 DEF Inserts, Named
        <3> QED BY <1>1, <2>2, <3>1 DEF Named
    <2>3. CASE rows' = [rows EXCEPT ![n] = @ \ {"seed"}] /\ UNCHANGED tracked
        BY <1>1, <2>3 DEF Named
    <2> QED BY <2>1, <2>2, <2>3
<1>6. ASSUME NEW a \in Actors, PurgeNext(a) PROVE Named'
    <2>1. PICK n \in NextOf(a) \cap tables : Empties(n, {}, n = Main)
        BY <1>6 DEF PurgeNext
    <2> QED BY <1>1, <2>1, EmptiesNamed
<1>7. ASSUME NEW a \in Actors, FailToPurge(a), ~UNCHANGED <<tracked, rows>> PROVE Named'
    <2>1. PICK n \in NextOf(a) \cap tables : \E kept \in SUBSET rows[n], records \in BOOLEAN :
            Empties(n, kept, records)
        BY <1>7 DEF FailToPurge
    <2>2. PICK kept \in SUBSET rows[n], records \in BOOLEAN : Empties(n, kept, records)
        BY <2>1
    <2> QED BY <1>1, <2>2, EmptiesNamed
<1>8. ASSUME NEW t \in Threads, Create(t) \/ RunCommand(t) PROVE Named'
    <2>1. UNCHANGED Databases
        <3>1. CASE Create(t)
            BY <3>1 DEF Create, Test, Set, Configure, Load, SetSetup, AddProgram
        <3>2. CASE RunCommand(t)
            BY <3>2 DEF RunCommand, Prepare, CallSetup, Listen, RunProgram, Generate,
                        GenerateAdmin, Stop
        <3> QED BY <1>8, <3>1, <3>2
    <2> QED BY <1>2, <2>1 DEF Databases
<1>9. ASSUME NEW a \in Actors, Work(a) PROVE Named'
    <2>1. \/ InsertRecord(a) \/ RemoveRecord(a) \/ FailToSeed(a) \/ PurgeNext(a) \/ FailToPurge(a)
          \/ UNCHANGED <<tracked, rows>>
        BY <1>9 DEF Work, Begin, ConnectNext, EndConnect, MigrateNext, KeepRecord, ReadFreed, Fail,
                    EndLoop, Finish, Databases
    <2> QED BY <1>2, <1>3, <1>4, <1>5, <1>6, <1>7, <2>1
<1>10. ASSUME NEW r \in Requests, Ask(r) PROVE Named'
    BY <1>2, <1>10 DEF Ask, Databases
<1>11. CASE UNCHANGED vars
    BY <1>2, <1>11 DEF vars
<1> QED BY <1>8, <1>9, <1>10, <1>11 DEF Next

LEMMA NamedInvariant == Spec => []Named
<1>1. Init => Named
    BY StoredAssumption DEF Init, Named
<1> QED BY <1>1, NamedInductive, KeptInvariant, PTL DEF Spec

-------------------------------------------------------------------------------
\* What a dangerous request has done so far, while no other one overlaps it.

Alone(r) == At(r, "running") /\ ~act[r].met

\* What a purge leaves to the seed after it, and that to its end.
Cleared ==
    /\ \A n \in conn.over : rows[n] \subseteq {"seed"}
    /\ Main \in conn.over => Lost = {}

Performs(r) ==
    /\ \A q \in Requests : At(q, "running") => q = r
    /\ act[r].on /\ Phase(r) # "connect" => act[r].held = conn.version
    /\ act[r].on => Wrought(r, Phase(r), conn.over \ act[r].todo)
    /\ act[r].on /\ Phase(r) = "seed" => Knows(r)
    /\ \A phase \in Left(PlanOf(act[r].op)) \ Left(act[r].plan) :
        /\ phase = "seed" => Wrought(r, "seed", conn.over) /\ Main \in conn.over
        /\ phase = "connect" => conn.renewed = {}
        /\ phase = "purge" /\ act[r].op = "purge" => Wrought(r, "purge", conn.over)
        /\ phase = "purge" => Cleared

Operates == \A r \in Requests : Alone(r) => Performs(r)

\* While a thread listens its namespaces are the context's.
Serves == \A t \in Threads : At(t, "listening") => conn.over = Connectable

\* Who acts while a thread listens.
LEMMA ServerSteps ==
    ASSUME Kept, NEW t \in Threads, At(t, "listening"), [Next]_vars
    PROVE  \/ \E r \in Requests : Work(r)
           \/ \E r \in Requests : Ask(r)
           \/ Stop(t)
           \/ UNCHANGED <<ctx, conn, tables, tracked, rows>> /\ \A r \in Requests : act'[r] = act[r]
<1>1. \A u \in Threads : Entered(u) => u = t
    BY OneEntered DEF Kept, Entered, At
<1>2. \A u \in Threads : \A r \in Requests : r \in Actors /\ r # u
    BY ActorsAssumption DEF Actors
<1>3. CASE UNCHANGED vars
    BY <1>3 DEF vars
<1>4. ASSUME NEW u \in Threads, Create(u)
      PROVE  UNCHANGED <<ctx, conn, tables, tracked, rows>> /\ \A r \in Requests : act'[r] = act[r]
    <2>1. ~At(u, "listening") /\ (UNCHANGED <<ctx, conn, tables, tracked, rows>> \/ Entered(u))
        BY <1>4 DEF Create, Test, Set, Configure, Load, SetSetup, AddProgram, Databases, Entered, At
    <2>2. ~Stop(u) /\ u # t
        BY <2>1 DEF Stop
    <2> QED BY <1>1, <1>2, <1>4, <2>1, <2>2, OthersStay
<1>5. ASSUME NEW u \in Threads, RunCommand(u) PROVE Stop(t)
    <2>1. Entered(u)
        BY <1>5 DEF RunCommand, Prepare, CallSetup, Listen, RunProgram, Generate, GenerateAdmin, Stop,
                    Faces, Entered, At
    <2>2. u = t
        BY <1>1, <2>1
    <2> QED BY <1>5, <2>2 DEF RunCommand, Prepare, CallSetup, Listen, RunProgram, Generate, GenerateAdmin,
                              Faces, At
<1>6. ASSUME NEW a \in Actors, Work(a) PROVE a \in Requests
    <2>1. At(a, "running")
        BY <1>6, WorkSteps
    <2> QED BY <1>1, <2>1 DEF Entered, At, Actors
<1> QED BY <1>3, <1>4, <1>5, <1>6 DEF Next

\* A request that runs after a step ran before it, or came in with it.
LEMMA RequestsRun ==
    ASSUME Kept, [Next]_vars, NEW r \in Requests, At(r, "running")'
    PROVE  /\ \E t \in Threads : At(t, "listening")
           /\ At(r, "running") \/ Ask(r)
<1>1. r \in Actors /\ \A u \in Threads : r # u
    BY ActorsAssumption DEF Actors
<1>2. CASE At(r, "running")
    BY <1>2 DEF Kept, Served
<1>3. CASE ~At(r, "running")
    <2>1. ASSUME NEW u \in Threads, Create(u) \/ RunCommand(u) PROVE FALSE
        <3>1. CASE Stop(u)
            <4>1. act'[r] = Fresh
                BY <1>1, <3>1 DEF Stop
            <4> QED BY <4>1, FreshType DEF At
        <3>2. CASE ~Stop(u)
            BY <1>1, <1>3, <2>1, <3>2, OthersStay DEF At
        <3> QED BY <3>1, <3>2
    <2>2. ASSUME NEW a \in Actors, Work(a) PROVE FALSE
        BY <1>1, <1>3, <2>2, WorkSteps DEF At
    <2>3. ASSUME NEW q \in Requests, Ask(q)
          PROVE  q = r /\ \E t \in Threads : At(t, "listening")
        <3>1. PICK operation \in Operations : Asks(q, operation)
            BY <2>3, AskRecords
        <3> QED BY <1>1, <1>3, <3>1 DEF Asks, Stays, At
    <2>4. ~UNCHANGED vars
        BY <1>3 DEF vars, At
    <2> QED BY <2>1, <2>2, <2>3, <2>4 DEF Next
<1> QED BY <1>2, <1>3

LEMMA ServesInductive == Kept /\ Commands /\ Serves /\ [Next]_vars => Serves'
<1> SUFFICES ASSUME Kept, Commands, Serves, [Next]_vars, NEW t \in Threads, At(t, "listening")'
             PROVE  conn'.over = Connectable'
    BY DEF Serves
<1>1. t \in Actors /\ \A r \in Requests : r \in Actors /\ r # t
    BY ActorsAssumption DEF Actors
<1>2. CASE ~At(t, "listening")
    <2>1. ~Work(t)
        BY <1>1, <1>2, WorkSteps DEF Begun, Passed, Reconnected, PhaseEnded, Same, Returns, Halts, At
    <2>2. ~Create(t)
        <3>1. act \in [Actors -> Actor]
            BY DEF Kept, Typed
        <3>2. ASSUME NEW pc \in {"configure", "load", "app", "failed", "panicked"}, Goes(t, pc)
              PROVE  FALSE
            <4>1. act'[t] = [act[t] EXCEPT !.pc = pc]
                BY <1>1, <3>1, <3>2 DEF Goes, Changes
            <4> QED BY <1>1, <3>1, <4>1 DEF At, Actor
        <3>3. ~Test(t)
            <4> SUFFICES ASSUME NEW launch, Changes(t, [Fresh EXCEPT !.call = launch, !.pc = "set"])
                         PROVE  FALSE
                BY DEF Test
            <4>1. act'[t] = [Fresh EXCEPT !.call = launch, !.pc = "set"]
                BY <1>1, <3>1 DEF Changes
            <4>2. act'[t].pc = "set"
                BY <4>1 DEF Fresh
            <4> QED BY <4>2 DEF At
        <3>4. act' # act
            BY <1>2 DEF At
        <3> QED BY <3>2, <3>3, <3>4 DEF Create, Set, Configure, Load, SetSetup, AddProgram, EndsProcess
    <2>3. RunCommand(t)
        BY <1>2, <2>1, <2>2, BystanderStays DEF At
    <2>4. At(t, "running")
        <3>1. ~Stop(t)
            BY <1>2 DEF Stop
        <3>2. ~Prepare(t)
            <4>1. act \in [Actors -> Actor]
                BY DEF Kept, Typed
            <4>2. ASSUME NEW rec \in {[act[t] EXCEPT !.pc = "failed"],
                                      [act[t] EXCEPT !.pc = "running", !.plan = Plan]},
                         Changes(t, rec)
                  PROVE  FALSE
                <5>1. act'[t] = rec
                    BY <1>1, <4>1, <4>2 DEF Changes
                <5>2. rec.pc \in {"failed", "running"}
                    BY <1>1, <4>1, <4>2 DEF Actor
                <5> QED BY <5>1, <5>2 DEF At
            <4> QED BY <4>2 DEF Prepare, Goes
        <3> QED BY <2>3, <3>1, <3>2 DEF RunCommand, CallSetup, Listen, RunProgram, Generate,
                                        GenerateAdmin, Faces
    <2>5. Ready(t) /\ UNCHANGED <<ctx, conn>>
        BY <2>3, <2>4, CommandsCarriedOut, CommandSteps
    <2> QED BY <2>5 DEF Ready, Connectable
<1>3. CASE At(t, "listening")
    <2>1. conn.over = Connectable
        BY <1>3 DEF Serves
    <2>2. ASSUME NEW r \in Requests, Work(r) PROVE conn'.over = Connectable'
        <3>1. /\ UNCHANGED ctx
              /\ conn'.over \in {conn.over, Connectable}
            BY <1>1, <2>2, WorkSteps DEF Begun, Passed, Reconnected, PhaseEnded, Returns, Halts
        <3> QED BY <2>1, <3>1 DEF Connectable
    <2>3. ASSUME NEW r \in Requests, Ask(r) PROVE conn'.over = Connectable'
        BY <2>1, <2>3 DEF Ask, Databases, Connectable
    <2>4. ~Stop(t)
        <3> SUFFICES ASSUME Stop(t) PROVE FALSE
            OBVIOUS
        <3>1. act'[t] = [act[t] EXCEPT !.pc = "done"] /\ act[t] \in Actor
            BY <1>1 DEF Stop, Kept, Typed
        <3>2. act'[t].pc = "done"
            BY <3>1 DEF Actor
        <3> QED BY <3>2 DEF At
    <2>5. UNCHANGED <<ctx, conn>> => conn'.over = Connectable'
        BY <2>1 DEF Connectable
    <2> QED BY <1>3, <2>2, <2>3, <2>4, <2>5, ServerSteps
<1> QED BY <1>2, <1>3

\* What is behind a request whose phase is in hand, or over.
LEMMA BehindRequest ==
    ASSUME NEW operation \in Operations \ {"other"}, NEW plan \in Remaining(operation), plan # <<>>
    PROVE  LET behind == Left(PlanOf(operation)) \ Left(plan)
           IN  /\ Head(plan) \in {"purge", "connect", "seed"}
               /\ "seed" \notin behind
               /\ "purge" \in behind => operation = "purge_seed" /\ Head(plan) \in {"connect", "seed"}
               /\ Head(plan) = "connect" => operation = "purge_seed" /\ "connect" \notin behind
               /\ Left(PlanOf(operation)) \ Left(Tail(plan)) = behind \union {Head(plan)}
<1> DEFINE long == <<"purge", "connect", "seed">>
<1>1. /\ Left(<<"seed">>) = {"seed"} /\ Left(<<"purge">>) = {"purge"} /\ Left(<<>>) = {}
      /\ Left(<<"connect", "seed">>) = {"connect", "seed"}
      /\ Left(<<"purge", "connect", "seed">>) = {"purge", "connect", "seed"}
    <2>1. /\ \A x : x \in Left(<<"connect", "seed">>) <=> \E i \in 1..2 : x = <<"connect", "seed">>[i]
          /\ \A x : x \in Left(long) <=> \E i \in 1..3 : x = long[i]
        BY DEF Left
    <2>2. 1..2 = {1, 2} /\ 1..3 = {1, 2, 3}
        OBVIOUS
    <2>3. Left(<<"connect", "seed">>) = {"connect", "seed"}
        BY <2>1, <2>2
    <2>4. Left(long) = {"purge", "connect", "seed"}
        BY <2>1, <2>2
    <2> QED BY <2>3, <2>4, PlanOfOne, PlanOfNone DEF Phases
<1>2. CASE plan = <<"seed">> /\ operation \in {"seed", "unseed", "reseed"}
    <2>1. PlanOf(operation) = <<"seed">> /\ Tail(plan) = <<>> /\ Head(plan) = "seed"
        BY <1>2 DEF PlanOf
    <2> QED BY <1>1, <1>2, <2>1
<1>3. CASE plan = <<"purge">> /\ operation = "purge"
    <2>1. PlanOf(operation) = <<"purge">> /\ Tail(plan) = <<>> /\ Head(plan) = "purge"
        BY <1>3 DEF PlanOf
    <2> QED BY <1>1, <1>3, <2>1
<1>4. CASE operation = "purge_seed"
    <2>1. PlanOf(operation) = long
        BY <1>4 DEF PlanOf
    <2>2. plan \in {long, <<"connect", "seed">>, <<"seed">>}
        BY <1>4 DEF Remaining
    <2>3. CASE plan = long
        <3>1. Tail(plan) = <<"connect", "seed">> /\ Head(plan) = "purge"
            BY <2>3
        <3> QED BY <1>1, <1>4, <2>1, <2>3, <3>1
    <2>4. CASE plan = <<"connect", "seed">>
        <3>1. Tail(plan) = <<"seed">> /\ Head(plan) = "connect"
            BY <2>4
        <3> QED BY <1>1, <1>4, <2>1, <2>4, <3>1
    <2>5. CASE plan = <<"seed">>
        <3>1. Tail(plan) = <<>> /\ Head(plan) = "seed"
            BY <2>5
        <3> QED BY <1>1, <1>4, <2>1, <2>5, <3>1
    <2> QED BY <2>2, <2>3, <2>4, <2>5
<1>5. \/ plan = <<"seed">> /\ operation \in {"seed", "unseed", "reseed"}
      \/ plan = <<"purge">> /\ operation = "purge"
      \/ operation = "purge_seed"
    BY DEF Remaining, Operations
<1> QED BY <1>2, <1>3, <1>4, <1>5

\* Nothing is lost while others than the requests step, or ask in vain.
LEMMA PerformsStays ==
    ASSUME NEW r \in Requests, Performs(r), Stays(r), act'[r].todo = act[r].todo,
           act'[r].lost = act[r].lost,
           UNCHANGED <<ctx, conn, tables, tracked, rows>>,
           \A q \in Requests : At(q, "running")' => At(q, "running")
    PROVE  Performs(r)'
<1>1. /\ act'[r].plan = act[r].plan /\ act'[r].op = act[r].op /\ act'[r].on = act[r].on
      /\ act'[r].held = act[r].held /\ Phase(r)' = Phase(r) /\ Seeding(r)' = Seeding(r)
    BY DEF Stays, Phase, Seeding
<1>2. Left(PlanOf(act[r].op))' \ Left(act'[r].plan) = Left(PlanOf(act[r].op)) \ Left(act[r].plan)
    BY <1>1 DEF PlanOf, Left
<1>3. /\ Wrought(r, "seed", conn.over) => Wrought(r, "seed", conn.over)'
      /\ Wrought(r, "purge", conn.over) => Wrought(r, "purge", conn.over)'
      /\ act[r].on => Wrought(r, Phase(r), conn.over \ act[r].todo)'
    BY <1>1 DEF Wrought, Followed, Given, Performs
<1>4. (Knows(r)' <=> Knows(r)) /\ (Cleared' <=> Cleared)
    BY <1>1 DEF Knows, Cleared, Lost
<1> QED BY <1>1, <1>2, <1>3, <1>4 DEF Performs

LEMMA WorkPerforms ==
    ASSUME Kept, Serves, NEW r \in Requests, Work(r), Alone(r), Performs(r), At(r, "running")'
    PROVE  Performs(r)'
<1>1. /\ At(r, "running") /\ UNCHANGED ctx /\ r \in Actors
      /\ \A b \in Actors : b # r => act'[b] = act[b]
      /\ \/ Begun(r)
         \/ \E n \in act[r].todo : Passed(r, n)
         \/ Reconnected(r)
         \/ PhaseEnded(r)
         \/ Halts
    BY WorkSteps DEF Actors, Returns, At
<1>2. /\ act[r].op \in Operations \ {"other"} /\ act[r].plan \in Remaining(act[r].op)
      /\ act[r].on => act[r].plan # <<>>
      /\ \E t \in Threads : At(t, "listening")
    BY <1>1 DEF Kept, Served, Hands
<1>3. conn.over = Connectable /\ Connectable' = Connectable
    BY <1>1, <1>2 DEF Serves, Connectable
<1> DEFINE plan == act[r].plan
           operation == act[r].op
           behind == Left(PlanOf(operation)) \ Left(plan)
<1>4. plan # <<>> =>
        /\ Phase(r) \in {"purge", "connect", "seed"}
        /\ "seed" \notin behind
        /\ "purge" \in behind => operation = "purge_seed" /\ Phase(r) \in {"connect", "seed"}
        /\ Phase(r) = "connect" => operation = "purge_seed" /\ "connect" \notin behind
        /\ Left(PlanOf(operation)) \ Left(Tail(plan)) = behind \union {Phase(r)}
    BY <1>2, BehindRequest DEF Phase
<1>5. /\ \A q \in Requests : At(q, "running") => q = r
      /\ act[r].on /\ Phase(r) # "connect" => act[r].held = conn.version
      /\ act[r].on => Wrought(r, Phase(r), conn.over \ act[r].todo)
      /\ act[r].on /\ Phase(r) = "seed" => Knows(r)
      /\ \A phase \in behind :
            /\ phase = "seed" => Wrought(r, "seed", conn.over) /\ Main \in conn.over
            /\ phase = "connect" => conn.renewed = {}
            /\ phase = "purge" /\ operation = "purge" => Wrought(r, "purge", conn.over)
            /\ phase = "purge" => Cleared
    BY DEF Performs
<1>6. \A q \in Requests : At(q, "running")' => q = r
    BY <1>1, <1>5 DEF At, Actors
<1>7. conn.over \subseteq Paths
    BY DEF Kept, Typed, Connection
<1>8. CASE Begun(r)
    <2>1. /\ act'[r].plan = plan /\ act'[r].op = operation /\ UNCHANGED <<conn, tables, tracked, rows>>
          /\ Phase(r)' = Phase(r) /\ plan # <<>>
          /\ Phase(r) # "connect" => act'[r].held = conn.version /\ act'[r].todo = conn.over
          /\ Phase(r) = "seed" => act'[r].lost = Lost
        BY <1>1, <1>8, BegunWithPlan DEF Begun, Same, Phase, Alone
    <2>2. Wrought(r, Phase(r), conn.over \ act[r].todo)'
        <3>1. CASE Phase(r) = "connect"
            BY <2>1, <3>1 DEF Wrought
        <3>2. CASE Phase(r) # "connect"
            <4>1. conn'.over \ act'[r].todo = {}
                BY <2>1, <3>2
            <4> QED BY <4>1 DEF Wrought
        <3> QED BY <3>1, <3>2
    <2>3. "seed" \notin behind /\ ~("purge" \in behind /\ operation = "purge")
        BY <1>4, <2>1
    <2>4. Left(PlanOf(act[r].op))' \ Left(act'[r].plan) = behind
        BY <2>1 DEF PlanOf, Left
    <2>5. Phase(r) = "seed" => Knows(r)'
        BY <2>1 DEF Knows, Lost
    <2>6. Cleared' <=> Cleared
        BY <2>1 DEF Cleared, Lost
    <2> HIDE DEF behind, plan, operation
    <2> QED BY <1>5, <1>6, <2>1, <2>2, <2>3, <2>4, <2>5, <2>6 DEF Performs
<1>9. ASSUME NEW n \in act[r].todo, Passed(r, n) PROVE Performs(r)'
    <2>1. /\ act'[r].plan = plan /\ act'[r].op = operation /\ act[r].on /\ plan # <<>>
          /\ Phase(r)' = Phase(r) /\ act'[r].held = act[r].held
          /\ conn'.over = conn.over /\ conn'.version = conn.version
          /\ Phase(r) # "connect" => conn' = conn
        BY <1>2, <1>9 DEF Passed, Same, Phase
    <2>2. Wrought(r, Phase(r), conn.over \ act[r].todo)' /\ (Phase(r) = "seed" => Knows(r)')
        BY <1>1, <1>5, <1>9, <2>1, WroughtGrows
    <2>3. "purge" \in behind => Cleared'
        <3> SUFFICES ASSUME "purge" \in behind PROVE Cleared'
            OBVIOUS
        <3>1. Phase(r) \in {"connect", "seed"} /\ operation = "purge_seed" /\ Cleared
            BY <1>4, <1>5, <2>1
        <3>2. CASE Phase(r) = "connect"
            BY <1>9, <2>1, <3>1, <3>2 DEF Passed, Cleared, Lost
        <3>3. CASE Phase(r) = "seed"
            <4>1. RecordPassed(r, n)
                BY <1>9, <3>3 DEF Passed
            <4>2. Seeding(r) = "seed"
                BY <3>1 DEF Seeding
            <4>3. Lost' \subseteq Lost
                BY <1>1, <4>1, <4>2, LosesNone
            <4>4. \A m \in conn.over : rows'[m] \subseteq rows[m] \union {"seed"}
                BY <1>7, <4>1 DEF RecordPassed
            <4> QED BY <2>1, <3>1, <4>3, <4>4 DEF Cleared
        <3> QED BY <3>1, <3>2, <3>3
    <2>4. "seed" \notin behind /\ ~("purge" \in behind /\ operation = "purge")
        BY <1>4, <2>1
    <2>5. Left(PlanOf(act[r].op))' \ Left(act'[r].plan) = behind
        BY <2>1 DEF PlanOf, Left
    <2>6. "connect" \in behind => conn'.renewed = {}
        BY <1>4, <1>5, <2>1
    <2> HIDE DEF behind, plan, operation
    <2> QED BY <1>5, <1>6, <2>1, <2>2, <2>3, <2>4, <2>5, <2>6 DEF Performs
<1>10. CASE Reconnected(r) \/ PhaseEnded(r)
    <2>1. /\ act'[r].plan = Tail(plan) /\ act'[r].op = operation /\ act[r].on /\ ~act'[r].on
          /\ plan # <<>> /\ UNCHANGED <<tables, tracked, rows>>
          /\ conn'.over = conn.over /\ act'[r].lost = act[r].lost
          /\ Phase(r) # "connect" => act[r].todo = {} /\ UNCHANGED conn
          /\ Phase(r) = "connect" => conn'.renewed = {}
          /\ Phase(r) = "seed" => Main \in conn.over
        BY <1>2, <1>3, <1>10 DEF Reconnected, PhaseEnded, Same
    <2>2. Left(PlanOf(act[r].op))' \ Left(act'[r].plan) = behind \union {Phase(r)}
        BY <1>4, <2>1, ZenonT(30) DEF PlanOf, Left
    <2>3. Phase(r) # "connect" => Wrought(r, Phase(r), conn.over)
        <3>1. Phase(r) # "connect" => conn.over \ act[r].todo = conn.over
            BY <2>1
        <3> QED BY <1>5, <2>1, <3>1
    <2>4. "seed" \notin behind /\ ~("purge" \in behind /\ operation = "purge")
        BY <1>4, <2>1
    <2>5. Phase(r) = "seed" => Wrought(r, "seed", conn.over)'
        BY <1>1, <2>1, <2>3 DEF Wrought, Followed, Seeding
    <2>6. Phase(r) = "purge" => Wrought(r, "purge", conn.over)' /\ Cleared'
        BY <2>1, <2>3 DEF Wrought, Cleared, Lost
    <2>7. "purge" \in behind => Cleared'
        BY <1>5, <2>1 DEF Cleared, Lost
    <2>8. "connect" \in behind \union {Phase(r)} => conn'.renewed = {}
        BY <1>5, <2>1
    <2> HIDE DEF behind, plan, operation
    <2> QED BY <1>6, <2>1, <2>2, <2>4, <2>5, <2>6, <2>7, <2>8 DEF Performs
<1>11. CASE Halts
    <2>1. act' = act /\ UNCHANGED <<conn, tables, tracked, rows>>
        BY <1>11 DEF Halts
    <2> QED BY <1>1, <2>1, PerformsStays DEF Stays, At
<1> QED BY <1>1, <1>8, <1>9, <1>10, <1>11

\* Of a request that comes in alone nothing is done yet.
LEMMA AskPerforms ==
    ASSUME Kept, NEW r \in Requests, Ask(r), Alone(r)'
    PROVE  Performs(r)'
<1>1. PICK operation \in Operations : Asks(r, operation)
    BY AskRecords
<1>2. operation # "other"
    BY <1>1 DEF Asks, Alone, At
<1>3. /\ act'[r].op = operation /\ act'[r].plan = PlanOf(operation) /\ ~act'[r].on
      /\ ~\E q \in Requests : Busy(q)
      /\ \A a \in Actors : a # r => Stays(a)
    BY <1>1, <1>2 DEF Asks, Alone
<1>4. \A q \in Requests : At(q, "running")' => q = r
    BY <1>3 DEF Busy, Ended, At, Stays, Actors
<1>5. Left(PlanOf(act[r].op))' \ Left(act'[r].plan) = {}
    BY <1>3 DEF PlanOf, Left
<1> QED BY <1>3, <1>4, <1>5 DEF Performs

LEMMA OperatesInductive == Kept /\ Serves /\ Operates /\ [Next]_vars => Operates'
<1> SUFFICES ASSUME Kept, Serves, Operates, [Next]_vars, NEW r \in Requests, Alone(r)'
             PROVE  Performs(r)'
    BY DEF Operates
<1>1. r \in Actors /\ (Alone(r) => Performs(r)) /\ \A q \in Requests : q \in Actors
    BY DEF Actors, Operates
<1>2. At(r, "running") \/ Ask(r)
    BY RequestsRun DEF Alone
<1>3. CASE Ask(r)
    BY <1>3, AskPerforms
<1>4. CASE ~Ask(r)
    <2>1. PICK t \in Threads : At(t, "listening")
        BY RequestsRun DEF Alone
    <2>2. At(r, "running")
        BY <1>2, <1>4
    <2>3. ASSUME NEW q \in Requests, Work(q) PROVE Performs(r)'
        <3>1. At(q, "running") /\ \A b \in Actors : b # q => act'[b] = act[b]
            BY <1>1, <2>3, WorkSteps
        <3>2. CASE q = r
            <4>1. Alone(r)
                BY <1>1, <2>2, <2>3, <3>2, WorkSteps
                   DEF Alone, At, Begun, Passed, Reconnected, PhaseEnded, Same, Returns, Halts
            <4> QED BY <1>1, <2>3, <3>2, <4>1, WorkPerforms DEF Alone
        <3>3. CASE q # r
            <4>1. Alone(r)
                BY <1>1, <2>2, <3>1, <3>3 DEF Alone
            <4> QED BY <1>1, <3>1, <3>3, <4>1 DEF Performs
        <3> QED BY <3>2, <3>3
    <2>4. ASSUME NEW q \in Requests, Ask(q) PROVE Performs(r)'
        <3>1. q # r
            BY <1>4, <2>4
        <3>2. PICK operation \in Operations : Asks(q, operation)
            BY <2>4, AskRecords
        <3>3. /\ \A a \in Actors : a # q => Stays(a)
              /\ act'[r].todo = act[r].todo
              /\ act'[r].met <=> act[r].met \/ (Busy(r) /\ operation # "other")
              /\ ~act'[r].met => act'[r].lost = act[r].lost
              /\ UNCHANGED <<ctx, conn, tables, tracked, rows>>
            BY <1>1, <3>1, <3>2 DEF Asks
        <3>4. Busy(r) /\ operation = "other" /\ Alone(r) /\ act'[r].lost = act[r].lost
            BY <2>2, <3>3 DEF Busy, Ended, At, Alone
        <3>5. \A p \in Requests : At(p, "running")' => At(p, "running")
            BY <1>1, <3>2, <3>3, <3>4 DEF Asks, At, Stays
        <3> QED BY <1>1, <3>1, <3>3, <3>4, <3>5, PerformsStays
    <2>5. ~Stop(t)
        <3> SUFFICES ASSUME Stop(t) PROVE FALSE
            OBVIOUS
        <3>1. act'[r] = Fresh
            BY <1>1 DEF Stop
        <3> QED BY <3>1, FreshType DEF Alone, At
    <2>6. ASSUME UNCHANGED <<ctx, conn, tables, tracked, rows>> /\ \A q \in Requests : act'[q] = act[q]
          PROVE  Performs(r)'
        <3>1. Alone(r) /\ Stays(r) /\ act'[r].todo = act[r].todo /\ act'[r].lost = act[r].lost
            BY <2>6 DEF Alone, At, Stays
        <3>2. \A q \in Requests : At(q, "running")' => At(q, "running")
            BY <2>6 DEF At
        <3> QED BY <1>1, <2>6, <3>1, <3>2, PerformsStays
    <2> QED BY <2>1, <2>3, <2>4, <2>5, <2>6, ServerSteps
<1> QED BY <1>3, <1>4

LEMMA ServerInvariant == Spec => [](Serves /\ Operates)
<1>1. Init => Serves /\ Operates
    <2> SUFFICES ASSUME Init, NEW a \in Actors PROVE act[a].pc = "idle"
        BY DEF Serves, Operates, Alone, At, Actors
    <2> QED BY FreshType DEF Init
<1>2. Kept /\ Commands /\ (Serves /\ Operates) /\ [Next]_vars => (Serves /\ Operates)'
    BY ServesInductive, OperatesInductive
<1> QED BY <1>1, <1>2, KeptInvariant, CommandsInvariant, PTL DEF Spec

LEMMA AnswersDone ==
    ASSUME Kept, Named, Serves, Operates, [Next]_vars,
           NEW r \in Requests, Busy(r), ~act[r].met
    PROVE  /\ ~Freed(r)
           /\ At(r, "done")' => Effect(r)
<1> DEFINE operation == act[r].op
<1>1. At(r, "running")
    BY DEF Kept, Served, Busy, Ended, At
<1>2. Performs(r) /\ r \in Actors
    BY <1>1 DEF Operates, Alone, Actors
<1>3. ~Freed(r)
    BY <1>2 DEF Freed, Does, Performs
<1>4. ASSUME At(r, "done")' PROVE Effect(r)
    <2>1. PICK t \in Threads : At(t, "listening")
        BY <1>1 DEF Kept, Served
    <2>2. act[r].pc = "running" /\ act'[r].pc = "done"
        BY <1>1, <1>4 DEF At
    <2>3. ~Stop(t)
        <3>1. Stop(t) => act'[r] = Fresh
            BY <1>2 DEF Stop
        <3> QED BY <2>2, <3>1, FreshType
    <2>4. ASSUME NEW q \in Requests, q # r PROVE ~Work(q) /\ ~Ask(q)
        <3>1. ~Work(q)
            BY <1>2, <2>2, <2>4, WorkSteps DEF Actors
        <3>2. Ask(q) => act'[r].pc = act[r].pc
            BY <1>2, <2>4, AskRecords DEF Asks, Stays
        <3> QED BY <2>2, <3>1, <3>2
    <2>5. ~Ask(r)
        BY AskRecords DEF Asks
    <2>6. Work(r)
        BY <2>1, <2>2, <2>3, <2>4, <2>5, ServerSteps
    <2>7. Returns(r) /\ UNCHANGED ctx /\ \A b \in Actors : b # r => act'[b] = act[b]
        BY <1>2, <2>2, <2>6, WorkSteps
           DEF Begun, Passed, Reconnected, PhaseEnded, Same, Halts
    <2>8. act[r].plan = <<>>
        BY <2>2, <2>7 DEF Returns
    <2>9. operation \in Operations \ {"other"}
        BY <1>1 DEF Kept, Served
    <2>10. Left(act[r].plan) = {}
        BY <2>8, PlanOfNone
    <2>11. /\ Left(<<"seed">>) = {"seed"} /\ Left(<<"purge">>) = {"purge"}
           /\ {"purge", "connect", "seed"} \subseteq Left(<<"purge", "connect", "seed">>)
        <3> DEFINE long == <<"purge", "connect", "seed">>
        <3>1. /\ long[1] = "purge" /\ long[2] = "connect" /\ long[3] = "seed"
              /\ 1 \in 1..Len(long) /\ 2 \in 1..Len(long) /\ 3 \in 1..Len(long)
            OBVIOUS
        <3>2. {"purge", "connect", "seed"} \subseteq Left(long)
            BY <3>1 DEF Left
        <3> QED BY <3>2, PlanOfOne DEF Phases
    <2>12. Seeding(r) = IF operation = "purge_seed" THEN "seed" ELSE operation
        BY DEF Seeding
    <2>13. \A phase \in Left(PlanOf(operation)) :
            /\ phase = "seed" => Wrought(r, "seed", conn.over) /\ Main \in conn.over
            /\ phase = "connect" => conn.renewed = {}
            /\ phase = "purge" /\ operation = "purge" => Wrought(r, "purge", conn.over)
            /\ phase = "purge" => Cleared
        BY <1>2, <2>10 DEF Performs
    <2> HIDE DEF operation
    <2>14. operation = "purge" => Purged
        BY <2>11, <2>13 DEF PlanOf, Wrought, Purged
    <2>15. operation = "purge_seed" =>
            /\ \A n \in conn.over : n \in tracked /\ rows[n] = {"seed"}
            /\ conn.renewed = {}
        <3> SUFFICES ASSUME operation = "purge_seed"
                     PROVE  /\ \A n \in conn.over : n \in tracked /\ rows[n] = {"seed"}
                            /\ conn.renewed = {}
            OBVIOUS
        <3>1. {"purge", "connect", "seed"} \subseteq Left(PlanOf(operation))
            BY <2>11 DEF PlanOf
        <3>2. /\ conn.renewed = {} /\ Lost = {} /\ Wrought(r, "seed", conn.over)
              /\ \A n \in conn.over : rows[n] \subseteq {"seed"}
            BY <2>13, <3>1 DEF Cleared
        <3>3. \A n \in conn.over : n \in tracked
            BY <2>12, <3>2 DEF Wrought, Followed
        <3> QED BY <3>2, <3>3 DEF Lost
    <2>16. operation \in {"seed", "reseed", "unseed"} => \A n \in conn.over : Followed(r, n)
        BY <2>11, <2>13 DEF PlanOf, Wrought
    <2>17. operation = "seed" => Seeded(r)
        BY <2>12, <2>16 DEF Followed, Seeded
    <2>18. operation = "reseed" => \A n \in conn.over : n \in tracked /\ "seed" \in rows[n]
        BY <2>12, <2>16 DEF Followed
    <2>19. operation = "unseed" => \A n \in conn.over : n \notin tracked /\ "seed" \notin rows[n]
        <3>1. conn.over \subseteq Paths
            BY DEF Kept, Typed, Connection
        <3> QED BY <2>12, <2>16, <3>1 DEF Followed, Named
    <2>20. conn.over = Connectable
        BY <2>1 DEF Serves
    <2> QED BY <2>14, <2>15, <2>17, <2>18, <2>19, <2>20 DEF Effect, operation
<1> QED BY <1>3, <1>4

\* A dangerous request (make.rs:304-330) that no other one overlaps never works
\* over a connection context that is gone, and has had its effect on every
\* database when it answers, whatever the requests before it, which may have
\* overlapped or failed, have left of rows and records, and whatever the schema:
\* a purge leaves neither, a purge and seed all of the seed's and over the
\* connections of the context, a reseed every record with its row, an unseed no
\* record and no row that one named, and a seed every record, with its row unless
\* that was gone when it began.
THEOREM ApplicationDangerAlone == Spec => DangerAlone
<1>1. Kept /\ Named /\ (Serves /\ Operates) /\ [Next]_vars =>
        [\A r \in Requests :
            Busy(r) /\ ~act[r].met =>
                /\ ~Freed(r)
                /\ At(r, "done")' => Effect(r)]_vars
    BY AnswersDone
<1> QED BY <1>1, KeptInvariant, NamedInvariant, ServerInvariant, PTL DEF Spec, DangerAlone
===============================================================================
