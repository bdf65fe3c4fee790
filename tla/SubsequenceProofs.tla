--------------------------- MODULE SubsequenceProofs ---------------------------
(***************************************************************************)
(* Induction over the natural numbers and over sequences, stated with a    *)
(* set in the place of a predicate, so that the provers can instantiate    *)
(* it; and what Only, Count and Without make of the empty sequence, of one *)
(* more element at either end, of a concatenation and of one another.      *)
(***************************************************************************)
EXTENDS Subsequences, Integers, SequenceTheorems, WellFoundedInduction, TLAPS

-----------------------------------------------------------------------------
(* Induction.                                                               *)

LEMMA LeastNumber ==
    ASSUME NEW P \in SUBSET Nat, P # {}
    PROVE  \E n \in P : \A m \in P : n <= m
  <1> DEFINE less == OpToRel(<, Nat)
  <1>1. IsWellFoundedOn(less, Nat)
    BY NatLessThanWellFounded
  <1>2. \E n \in P : \A m \in P : ~ (<<m, n>> \in less)
    <2> HIDE DEF less
    <2> QED BY <1>1, WFMin
  <1>3. PICK n \in P : \A m \in P : ~ (<<m, n>> \in less)
    BY <1>2
  <1>4. ASSUME NEW m \in P, m < n PROVE FALSE
    <2>1. <<m, n>> \in less BY <1>4 DEF OpToRel
    <2>2. QED BY <1>3, <2>1
  <1>5. QED BY <1>4

\* A set that has 0 and the successor of each of its numbers has them all: a
\* smallest one outside of it would have a predecessor in it.
LEMMA NatSetInduction ==
    ASSUME NEW P, 0 \in P, \A n \in Nat : n \in P => n + 1 \in P
    PROVE  Nat \subseteq P
  <1> DEFINE outside == {n \in Nat : n \notin P}
  <1>1. ASSUME outside # {} PROVE FALSE
    <2>1. outside \in SUBSET Nat OBVIOUS
    <2>2. \E n \in outside : \A m \in outside : n <= m
      <3> HIDE DEF outside
      <3> QED BY <1>1, <2>1, LeastNumber
    <2>3. PICK n \in outside : \A m \in outside : n <= m
      BY <2>2
    <2>4. n # 0 OBVIOUS
    <2>5. n - 1 \in outside BY <2>4
    <2>6. QED BY <2>3, <2>5
  <1>2. QED BY <1>1

\* A set of sequences that has the empty one and each of its own with one more
\* element at the end has them all.
LEMMA SeqSetInduction ==
    ASSUME NEW S, NEW P, <<>> \in P,
           \A s \in Seq(S) : \A x \in S : s \in P => Append(s, x) \in P
    PROVE  Seq(S) \subseteq P
  <1> DEFINE lengths == {n \in Nat : \A s \in Seq(S) : Len(s) = n => s \in P}
  <1>1. 0 \in lengths
    <2>1. \A s \in Seq(S) : Len(s) = 0 => s = <<>> OBVIOUS
    <2>2. QED BY <2>1
  <1>2. ASSUME NEW n \in Nat, n \in lengths PROVE n + 1 \in lengths
    <2>1. ASSUME NEW s \in Seq(S), Len(s) = n + 1 PROVE s \in P
      <3>1. s # <<>> BY <2>1
      <3>2. PICK t \in Seq(S), x \in S : s = Append(t, x)
        BY <3>1, SequenceEmptyOrAppend
      <3>3. Len(t) = n BY <2>1, <3>2
      <3>4. QED BY <1>2, <3>2, <3>3
    <2>2. QED BY <2>1
  <1>3. Nat \subseteq lengths
    <2> HIDE DEF lengths
    <2> QED BY <1>1, <1>2, NatSetInduction
  <1>4. QED
    <2> SUFFICES ASSUME NEW s \in Seq(S) PROVE s \in P OBVIOUS
    <2>1. Len(s) \in lengths BY <1>3
    <2>2. QED BY <2>1

-----------------------------------------------------------------------------
(* Only, element by element.                                                *)

OneMore(s, T, taken, n) ==
    IF n = 0 THEN <<>>
    ELSE IF s[n] \in T THEN Append(taken[n - 1], s[n]) ELSE taken[n - 1]

Recursion(s, T, m, taken) == taken = [n \in 0 .. m |-> OneMore(s, T, taken, n)]

\* There is a function that satisfies the recursion up to any length.
LEMMA TakesExists ==
    ASSUME NEW s, NEW T, NEW m \in Nat
    PROVE  \E taken : Recursion(s, T, m, taken)
  <1> DEFINE P == {n \in Nat : \E taken : Recursion(s, T, n, taken)}
  <1>1. 0 \in P
    <2>1. Recursion(s, T, 0, [n \in 0 .. 0 |-> <<>>]) BY DEF Recursion, OneMore
    <2>2. QED BY <2>1
  <1>2. ASSUME NEW n \in Nat, n \in P PROVE n + 1 \in P
    <2>1. PICK f : Recursion(s, T, n, f) BY <1>2
    <2> DEFINE g == [i \in 0 .. n + 1 |-> IF i = n + 1 THEN OneMore(s, T, f, i) ELSE f[i]]
    <2>2. ASSUME NEW i \in 0 .. n + 1 PROVE g[i] = OneMore(s, T, g, i)
      <3>1. CASE i = 0
        BY <2>1, <3>1 DEF Recursion, OneMore
      <3>2. CASE i # 0
        <4>1. i - 1 \in 0 .. n /\ g[i - 1] = f[i - 1] BY <3>2
        <4>2. OneMore(s, T, f, i) = OneMore(s, T, g, i) BY <4>1, <3>2 DEF OneMore
        <4>3. CASE i = n + 1 BY <4>2, <4>3
        <4>4. CASE i # n + 1
          <5>1. i \in 0 .. n BY <4>4
          <5>2. f[i] = OneMore(s, T, f, i) BY <2>1, <5>1 DEF Recursion
          <5>3. g[i] = f[i] BY <4>4
          <5>4. QED BY <4>2, <5>2, <5>3
        <4>5. QED BY <4>3, <4>4
      <3>3. QED BY <3>1, <3>2
    <2>3. Recursion(s, T, n + 1, g)
      <3> HIDE DEF g
      <3>1. \E dom : g = [i \in dom |-> g[i]] /\ dom = 0 .. n + 1
        BY DEF g
      <3>2. QED BY <2>2, <3>1 DEF Recursion
    <2>4. QED BY <2>3
  <1>3. Nat \subseteq P
    <2> HIDE DEF P
    <2> QED BY <1>1, <1>2, NatSetInduction
  <1>4. QED BY <1>3

\* On what two sequences have in common, the functions agree.
LEMMA TakesAgree ==
    ASSUME NEW s, NEW t, NEW T, NEW m \in Nat, NEW n \in Nat, m <= n,
           \A i \in 1 .. m : s[i] = t[i],
           NEW f, Recursion(s, T, m, f), NEW g, Recursion(t, T, n, g)
    PROVE  f[m] = g[m]
  <1> DEFINE P == {i \in Nat : i <= m => f[i] = g[i]}
  <1>1. 0 \in P
    <2>1. f[0] = OneMore(s, T, f, 0) /\ g[0] = OneMore(t, T, g, 0) BY DEF Recursion
    <2>2. QED BY <2>1 DEF OneMore
  <1>2. ASSUME NEW i \in Nat, i \in P PROVE i + 1 \in P
    <2> SUFFICES ASSUME i + 1 <= m PROVE f[i + 1] = g[i + 1] OBVIOUS
    <2>1. f[i] = g[i] /\ s[i + 1] = t[i + 1] BY <1>2
    <2>2. i + 1 \in 0 .. m /\ i + 1 \in 0 .. n OBVIOUS
    <2>3. f[i + 1] = OneMore(s, T, f, i + 1) BY <2>2 DEF Recursion
    <2>4. g[i + 1] = OneMore(t, T, g, i + 1) BY <2>2 DEF Recursion
    <2>5. QED BY <2>1, <2>3, <2>4 DEF OneMore
  <1>3. Nat \subseteq P
    <2> HIDE DEF P
    <2> QED BY <1>1, <1>2, NatSetInduction
  <1>4. QED BY <1>3

LEMMA OnlyTakes ==
    ASSUME NEW S, NEW s \in Seq(S), NEW T
    PROVE  \E taken : Recursion(s, T, Len(s), taken) /\ Only(s, T) = taken[Len(s)]
  <1> DEFINE f == CHOOSE taken : Recursion(s, T, Len(s), taken)
  <1>1. Recursion(s, T, Len(s), f)
    BY TakesExists
  <1>2. Only(s, T) = f[Len(s)]
    BY DEF Only, Recursion, OneMore
  <1>3. QED
    <2> HIDE DEF f
    <2> QED BY <1>1, <1>2

\* Nothing is taken from the empty sequence.
LEMMA OnlyEmpty ==
    ASSUME NEW T PROVE Only(<<>>, T) = <<>>
  <1>1. <<>> \in Seq({}) /\ Len(<<>>) = 0 OBVIOUS
  <1>2. PICK f : Recursion(<<>>, T, 0, f) /\ Only(<<>>, T) = f[0] BY <1>1, OnlyTakes
  <1>3. QED BY <1>2 DEF Recursion, OneMore

\* One more element is taken or not.
LEMMA OnlyAppend ==
    ASSUME NEW S, NEW s \in Seq(S), NEW x \in S, NEW T
    PROVE  Only(Append(s, x), T) = IF x \in T THEN Append(Only(s, T), x) ELSE Only(s, T)
  <1> DEFINE t == Append(s, x)
  <1>1. t \in Seq(S) /\ Len(t) = Len(s) + 1 /\ t[Len(t)] = x /\ Len(s) \in Nat
        /\ \A i \in 1 .. Len(s) : s[i] = t[i]
    BY AppendProperties
  <1>2. PICK f : Recursion(s, T, Len(s), f) /\ Only(s, T) = f[Len(s)] BY OnlyTakes
  <1> HIDE DEF t
  <1>3. PICK g : Recursion(t, T, Len(t), g) /\ Only(t, T) = g[Len(t)] BY <1>1, OnlyTakes
  <1>4. f[Len(s)] = g[Len(s)] BY <1>1, <1>2, <1>3, TakesAgree
  <1>5. g[Len(t)] = OneMore(t, T, g, Len(t)) BY <1>1, <1>3 DEF Recursion
  <1>6. Only(t, T) = IF x \in T THEN Append(Only(s, T), x) ELSE Only(s, T)
    BY <1>1, <1>2, <1>3, <1>4, <1>5 DEF OneMore
  <1>7. QED BY <1>6 DEF t

-----------------------------------------------------------------------------
(* Only and whole sequences.                                                *)

\* What is taken is a sequence of elements of both.
LEMMA OnlyType ==
    ASSUME NEW S, NEW T
    PROVE  \A s \in Seq(S) : Only(s, T) \in Seq(S \intersect T)
  <1> DEFINE P == {s \in Seq(S) : Only(s, T) \in Seq(S \intersect T)}
  <1>1. <<>> \in P
    <2>1. <<>> \in Seq(S) /\ <<>> \in Seq(S \intersect T) OBVIOUS
    <2>2. QED BY <2>1, OnlyEmpty
  <1>2. ASSUME NEW s \in Seq(S), NEW x \in S, s \in P PROVE Append(s, x) \in P
    <2>1. Append(s, x) \in Seq(S) OBVIOUS
    <2>2. CASE x \in T
      <3>1. Only(Append(s, x), T) = Append(Only(s, T), x) BY <2>2, OnlyAppend
      <3>2. Append(Only(s, T), x) \in Seq(S \intersect T) BY <1>2, <2>2, AppendProperties
      <3>3. QED BY <2>1, <3>1, <3>2
    <2>3. CASE x \notin T
      <3>1. Only(Append(s, x), T) = Only(s, T) BY <2>3, OnlyAppend
      <3>2. QED BY <1>2, <2>1, <3>1
    <2>4. QED BY <2>2, <2>3
  <1>3. Seq(S) \subseteq P
    <2> HIDE DEF P
    <2> QED BY <1>1, <1>2, SeqSetInduction
  <1>4. QED BY <1>3

\* The same in the form that most proofs need.
LEMMA OnlyIsSeq ==
    ASSUME NEW S, NEW s \in Seq(S), NEW T
    PROVE  Only(s, T) \in Seq(S) /\ Only(s, T) \in Seq(T)
  <1>1. Only(s, T) \in Seq(S \intersect T) BY OnlyType
  <1>2. S \intersect T \subseteq S /\ S \intersect T \subseteq T OBVIOUS
  <1>3. QED BY <1>1, <1>2, SeqMonotonic

LEMMA OnlyOne ==
    ASSUME NEW x, NEW T
    PROVE  Only(<<x>>, T) = IF x \in T THEN <<x>> ELSE <<>>
  <1>1. <<>> \in Seq({x}) /\ x \in {x} /\ Append(<<>>, x) = <<x>> OBVIOUS
  <1>2. Only(Append(<<>>, x), T) = IF x \in T THEN Append(Only(<<>>, T), x) ELSE Only(<<>>, T)
    BY <1>1, OnlyAppend
  <1>3. QED BY <1>1, <1>2, OnlyEmpty

LEMMA AppendToConcat ==
    ASSUME NEW S, NEW x \in S
    PROVE  \A s, t \in Seq(S) : Append(s \o t, x) = s \o Append(t, x)
  <1> TAKE s, t \in Seq(S)
  <1>1. s \o t \in Seq(S) /\ <<x>> \in Seq(S) OBVIOUS
  <1>2. Append(s \o t, x) = (s \o t) \o <<x>> BY <1>1, AppendIsConcat
  <1>3. Append(t, x) = t \o <<x>> BY AppendIsConcat
  <1>4. QED BY <1>1, <1>2, <1>3, ConcatAssociative

LEMMA OnlyConcat ==
    ASSUME NEW S, NEW s \in Seq(S), NEW T
    PROVE  \A t \in Seq(S) : Only(s \o t, T) = Only(s, T) \o Only(t, T)
  <1> DEFINE P == {t \in Seq(S) : Only(s \o t, T) = Only(s, T) \o Only(t, T)}
  <1>1. <<>> \in P
    <2>1. Only(s, T) \in Seq(S) BY OnlyIsSeq
    <2>2. s \o <<>> = s /\ Only(s, T) \o <<>> = Only(s, T) BY <2>1, ConcatEmptySeq
    <2>3. <<>> \in Seq(S) OBVIOUS
    <2>4. QED BY <2>2, <2>3, OnlyEmpty
  <1>2. ASSUME NEW t \in Seq(S), NEW x \in S, t \in P PROVE Append(t, x) \in P
    <2>1. Append(t, x) \in Seq(S) /\ s \o t \in Seq(S) OBVIOUS
    <2>2. s \o Append(t, x) = Append(s \o t, x) OBVIOUS
    <2>3. Only(s, T) \in Seq(S) /\ Only(t, T) \in Seq(S) BY OnlyIsSeq
    <2>4. CASE x \in T
      <3>1. Only(Append(s \o t, x), T) = Append(Only(s \o t, T), x)
        <4> DEFINE u == s \o t
        <4>1. u \in Seq(S) BY <2>1
        <4> HIDE DEF u
        <4>2. Only(Append(u, x), T) = Append(Only(u, T), x) BY <4>1, <2>4, OnlyAppend
        <4>3. QED BY <4>2 DEF u
      <3>2. Only(Append(t, x), T) = Append(Only(t, T), x) BY <2>4, OnlyAppend
      <3>3. Append(Only(s, T) \o Only(t, T), x) = Only(s, T) \o Append(Only(t, T), x)
        BY <2>3, AppendToConcat, Zenon
      <3>4. QED BY <1>2, <2>1, <2>2, <3>1, <3>2, <3>3
    <2>5. CASE x \notin T
      <3>1. Only(Append(s \o t, x), T) = Only(s \o t, T)
        <4> DEFINE u == s \o t
        <4>1. u \in Seq(S) BY <2>1
        <4> HIDE DEF u
        <4>2. Only(Append(u, x), T) = Only(u, T) BY <4>1, <2>5, OnlyAppend
        <4>3. QED BY <4>2 DEF u
      <3>2. Only(Append(t, x), T) = Only(t, T) BY <2>5, OnlyAppend
      <3>3. QED BY <1>2, <2>1, <2>2, <3>1, <3>2
    <2>6. QED BY <2>4, <2>5
  <1>3. Seq(S) \subseteq P
    <2> HIDE DEF P
    <2> QED BY <1>1, <1>2, SeqSetInduction
  <1>4. QED BY <1>3

\* Taking twice is taking what is in both sets.
LEMMA OnlyOnly ==
    ASSUME NEW S, NEW T, NEW U
    PROVE  \A s \in Seq(S) : Only(Only(s, T), U) = Only(s, T \intersect U)
  <1> DEFINE P == {s \in Seq(S) : Only(Only(s, T), U) = Only(s, T \intersect U)}
  <1>1. <<>> \in P BY OnlyEmpty
  <1>2. ASSUME NEW s \in Seq(S), NEW x \in S, s \in P PROVE Append(s, x) \in P
    <2>1. Append(s, x) \in Seq(S) /\ Only(s, T) \in Seq(S) BY OnlyIsSeq
    <2>2. Only(Append(s, x), T \intersect U)
            = IF x \in T \intersect U THEN Append(Only(s, T \intersect U), x) ELSE Only(s, T \intersect U)
      BY OnlyAppend
    <2>3. CASE x \in T
      <3>1. Only(Append(s, x), T) = Append(Only(s, T), x) BY <2>3, OnlyAppend
      <3>2. Only(Append(Only(s, T), x), U)
              = IF x \in U THEN Append(Only(Only(s, T), U), x) ELSE Only(Only(s, T), U)
        BY <2>1, OnlyAppend
      <3>3. Only(Only(s, T), U) = Only(s, T \intersect U) BY <1>2
      <3>4. Only(Only(Append(s, x), T), U) = Only(Append(s, x), T \intersect U)
        <4>1. CASE x \in U
          <5>1. x \in T \intersect U BY <2>3, <4>1
          <5>2. QED BY <4>1, <5>1, <2>2, <3>1, <3>2, <3>3, Zenon
        <4>2. CASE x \notin U
          <5>1. x \notin T \intersect U BY <4>2
          <5>2. QED BY <4>2, <5>1, <2>2, <3>1, <3>2, <3>3, Zenon
        <4>3. QED BY <4>1, <4>2
      <3>5. QED BY <2>1, <3>4
    <2>4. CASE x \notin T
      <3>1. Only(Append(s, x), T) = Only(s, T) BY <2>4, OnlyAppend
      <3>2. QED BY <1>2, <2>1, <2>2, <2>4, <3>1
    <2>5. QED BY <2>3, <2>4
  <1>3. Seq(S) \subseteq P
    <2> HIDE DEF P
    <2> QED BY <1>1, <1>2, SeqSetInduction
  <1>4. QED BY <1>3

\* Nothing is taken exactly when nothing is in the set.
LEMMA OnlyNone ==
    ASSUME NEW S, NEW T
    PROVE  \A s \in Seq(S) : Only(s, T) = <<>> <=> \A i \in 1 .. Len(s) : s[i] \notin T
  <1> DEFINE P == {s \in Seq(S) : Only(s, T) = <<>> <=> \A i \in 1 .. Len(s) : s[i] \notin T}
  <1>1. <<>> \in P BY OnlyEmpty
  <1>2. ASSUME NEW s \in Seq(S), NEW x \in S, s \in P PROVE Append(s, x) \in P
    <2>1. Append(s, x) \in Seq(S) /\ Only(s, T) \in Seq(S) BY OnlyIsSeq
    <2>2. (\A i \in 1 .. Len(Append(s, x)) : Append(s, x)[i] \notin T)
            <=> x \notin T /\ \A i \in 1 .. Len(s) : s[i] \notin T
      BY AppendProperties
    <2>3. CASE x \in T
      <3>1. Only(Append(s, x), T) = Append(Only(s, T), x) BY <2>3, OnlyAppend
      <3>2. Append(Only(s, T), x) # <<>> BY <2>1, AppendProperties
      <3>3. QED BY <2>1, <2>2, <2>3, <3>1, <3>2
    <2>4. CASE x \notin T
      <3>1. Only(Append(s, x), T) = Only(s, T) BY <2>4, OnlyAppend
      <3>2. QED BY <1>2, <2>1, <2>2, <2>4, <3>1
    <2>5. QED BY <2>3, <2>4
  <1>3. Seq(S) \subseteq P
    <2> HIDE DEF P
    <2> QED BY <1>1, <1>2, SeqSetInduction
  <1>4. QED BY <1>3

\* Only what can be in the sequence matters of the set.
LEMMA OnlyWithin ==
    ASSUME NEW S, NEW T, NEW U, S \intersect T = S \intersect U
    PROVE  \A s \in Seq(S) : Only(s, T) = Only(s, U)
  <1> DEFINE P == {s \in Seq(S) : Only(s, T) = Only(s, U)}
  <1>1. <<>> \in P BY OnlyEmpty
  <1>2. ASSUME NEW s \in Seq(S), NEW x \in S, s \in P PROVE Append(s, x) \in P
    <2>1. Append(s, x) \in Seq(S) /\ (x \in T <=> x \in U) OBVIOUS
    <2>2. Only(Append(s, x), T) = IF x \in T THEN Append(Only(s, T), x) ELSE Only(s, T)
      BY OnlyAppend
    <2>3. Only(Append(s, x), U) = IF x \in U THEN Append(Only(s, U), x) ELSE Only(s, U)
      BY OnlyAppend
    <2>4. QED BY <1>2, <2>1, <2>2, <2>3
  <1>3. Seq(S) \subseteq P
    <2> HIDE DEF P
    <2> QED BY <1>1, <1>2, SeqSetInduction
  <1>4. QED BY <1>3

\* What is in the sequence and in the set is taken.
LEMMA OnlyHas ==
    ASSUME NEW S, NEW s \in Seq(S), NEW T, NEW i \in 1 .. Len(s), s[i] \in T
    PROVE  \E j \in 1 .. Len(Only(s, T)) : Only(s, T)[j] = s[i]
  <1> DEFINE x == s[i]
             t == Only(s, T)
  <1>1. x \in S /\ x \in T /\ t \in Seq(S) BY OnlyIsSeq
  <1>2. Only(t, {x}) = Only(s, T \intersect {x}) BY OnlyOnly
  <1>3. x \in T \intersect {x} BY <1>1
  <1> DEFINE U == T \intersect {x}
             V == {x}
  <1>4. Only(s, U) # <<>>
    <2>1. x \in U BY <1>3
    <2> HIDE DEF U
    <2>2. QED BY <2>1, OnlyNone
  <1>5. \E j \in 1 .. Len(t) : t[j] \in V
    <2>1. Only(t, V) # <<>> BY <1>2, <1>4
    <2> HIDE DEF t, V
    <2>2. QED BY <1>1, <2>1, OnlyNone
  <1>6. QED BY <1>5

\* What is left without the elements of a set, for any set that has them all.
LEMMA WithoutIs ==
    ASSUME NEW S, NEW s \in Seq(S), NEW T
    PROVE  Without(s, T) = Only(s, S \ T)
  <1>1. s \in Seq(Range(s)) /\ Range(s) \subseteq S BY SeqOfRange, RangeOfSeq
  <1>2. Range(s) \intersect (Range(s) \ T) = Range(s) \intersect (S \ T) BY <1>1
  <1>3. QED BY <1>1, <1>2, OnlyWithin DEF Without

-----------------------------------------------------------------------------
(* Only and Count at the two ends of a queue.                               *)

LEMMA HeadThenTail ==
    ASSUME NEW S, NEW s \in Seq(S), s # <<>>
    PROVE  /\ Head(s) \in S /\ Tail(s) \in Seq(S)
           /\ <<Head(s)>> \in Seq(S)
           /\ s = <<Head(s)>> \o Tail(s)
  <1> DEFINE h == Head(s)
             r == Tail(s)
  <1>1. h \in S /\ r \in Seq(S) /\ Len(r) = Len(s) - 1 /\ h = s[1]
        /\ \A i \in 1 .. Len(r) : r[i] = s[i + 1]
    BY HeadTailProperties
  <1> HIDE DEF h, r
  <1>2. <<h>> \in Seq(S) /\ Len(<<h>>) = 1 BY <1>1
  <1>3. /\ <<h>> \o r \in Seq(S) /\ Len(<<h>> \o r) = 1 + Len(r)
        /\ \A i \in 1 .. 1 + Len(r) : (<<h>> \o r)[i] = IF i <= 1 THEN <<h>>[i] ELSE r[i - 1]
    BY <1>1, <1>2, ConcatProperties
  <1>4. \A i \in 1 .. Len(s) : s[i] = (<<h>> \o r)[i] BY <1>1, <1>2, <1>3
  <1>5. s = <<h>> \o r BY <1>1, <1>3, <1>4, SeqEqual
  <1>6. QED BY <1>1, <1>2, <1>5 DEF h, r

\* What is taken from the front of a queue.
LEMMA OnlyTail ==
    ASSUME NEW S, NEW s \in Seq(S), s # <<>>, NEW T
    PROVE  Only(s, T) = IF Head(s) \in T THEN <<Head(s)>> \o Only(Tail(s), T)
                                         ELSE Only(Tail(s), T)
  <1> DEFINE h == Head(s)
             r == Tail(s)
  <1>1. h \in S /\ r \in Seq(S) /\ <<h>> \in Seq(S) /\ s = <<h>> \o r BY HeadThenTail
  <1> HIDE DEF h, r
  <1>2. Only(s, T) = Only(<<h>>, T) \o Only(r, T)
    <2>1. PICK u \in Seq(S) : u = <<h>> BY <1>1
    <2>2. Only(u \o r, T) = Only(u, T) \o Only(r, T) BY <1>1, OnlyConcat
    <2>3. QED BY <1>1, <2>1, <2>2, Zenon
  <1>3. Only(<<h>>, T) = IF h \in T THEN <<h>> ELSE <<>> BY OnlyOne
  <1>4. Only(r, T) \in Seq(S) BY <1>1, OnlyIsSeq
  <1>5. <<>> \o Only(r, T) = Only(r, T) BY <1>4, ConcatEmptySeq
  <1>6. QED BY <1>2, <1>3, <1>5 DEF h, r

\* The front of a queue that goes on in a second one.
LEMMA FrontOfTwo ==
    ASSUME NEW S, NEW q \in Seq(S), NEW out \in Seq(S), q # <<>>
    PROVE  q \o out # <<>> /\ Head(q \o out) = Head(q) /\ Tail(q \o out) = Tail(q) \o out
  <1> DEFINE qo == q \o out
             r == Tail(q)
             s == Tail(qo)
  <1>1. /\ Len(q) > 0 /\ r \in Seq(S) /\ Len(r) = Len(q) - 1
        /\ \A i \in 1 .. Len(r) : r[i] = q[i + 1]
    BY HeadTailProperties, LenProperties
  <1>2. /\ qo \in Seq(S) /\ Len(qo) = Len(q) + Len(out)
        /\ \A i \in 1 .. Len(q) + Len(out) : qo[i] = IF i <= Len(q) THEN q[i] ELSE out[i - Len(q)]
    BY ConcatProperties
  <1> HIDE DEF qo, r
  <1>3. qo # <<>> /\ Head(qo) = Head(q) BY <1>1, <1>2
  <1>4. /\ s \in Seq(S) /\ Len(s) = Len(qo) - 1
        /\ \A i \in 1 .. Len(s) : s[i] = qo[i + 1]
    BY <1>2, <1>3, HeadTailProperties
  <1> HIDE DEF s
  <1>5. /\ r \o out \in Seq(S) /\ Len(r \o out) = Len(r) + Len(out)
        /\ \A i \in 1 .. Len(r) + Len(out) :
              (r \o out)[i] = IF i <= Len(r) THEN r[i] ELSE out[i - Len(r)]
    BY <1>1, ConcatProperties
  <1>6. Len(q) \in Nat /\ Len(out) \in Nat BY LenProperties
  <1>7. ASSUME NEW i \in 1 .. Len(s) PROVE s[i] = (r \o out)[i]
    <2>1. i \in Nat /\ i + 1 \in 1 .. Len(q) + Len(out) /\ i \in 1 .. Len(r) + Len(out)
      BY <1>1, <1>2, <1>4, <1>6
    <2>2. CASE i <= Len(r)
      <3>1. s[i] = q[i + 1] BY <1>1, <1>2, <1>4, <1>6, <2>1, <2>2
      <3>2. (r \o out)[i] = r[i] BY <1>5, <2>1, <2>2
      <3>3. r[i] = q[i + 1] BY <1>1, <2>1, <2>2
      <3>4. QED BY <3>1, <3>2, <3>3
    <2>3. CASE i > Len(r)
      <3>1. s[i] = out[(i + 1) - Len(q)] BY <1>1, <1>2, <1>4, <1>6, <2>1, <2>3
      <3>2. (r \o out)[i] = out[i - Len(r)] BY <1>1, <1>5, <1>6, <2>1, <2>3
      <3>3. (i + 1) - Len(q) = i - Len(r) BY <1>1, <1>6, <2>1
      <3>4. QED BY <3>1, <3>2, <3>3
    <2>4. QED BY <1>1, <1>6, <2>1, <2>2, <2>3
  <1>8. s = r \o out
    <2> DEFINE t == r \o out
    <2>1. t \in Seq(S) /\ Len(s) = Len(t) BY <1>1, <1>2, <1>4, <1>5, <1>6
    <2>2. \A i \in 1 .. Len(s) : s[i] = t[i] BY <1>7
    <2> HIDE DEF t
    <2>3. s = t BY <1>4, <2>1, <2>2, SeqEqual
    <2>4. QED BY <2>3 DEF t
  <1>9. QED BY <1>3, <1>8 DEF qo, r, s

\* What is taken comes from the front, or stays as it is.
LEMMA OnlyFront ==
    ASSUME NEW S, NEW s \in Seq(S), s # <<>>, NEW T
    PROVE  IF Head(s) \in T
           THEN /\ Only(s, T) # <<>> /\ Head(Only(s, T)) = Head(s)
                /\ Only(Tail(s), T) = Tail(Only(s, T))
           ELSE Only(Tail(s), T) = Only(s, T)
  <1> DEFINE h == Head(s)
             rest == Only(Tail(s), T)
  <1>1. Only(s, T) = IF h \in T THEN <<h>> \o rest ELSE rest BY OnlyTail
  <1>2. rest \in Seq(T) BY HeadThenTail, OnlyIsSeq
  <1> HIDE DEF h, rest
  <1>3. CASE h \in T
    <2>1. <<h>> \in Seq(T) /\ <<h>> # <<>> /\ Head(<<h>>) = h /\ Tail(<<h>>) = <<>>
      BY <1>3
    <2>2. PICK u \in Seq(T) : u = <<h>> BY <2>1
    <2>3. u \o rest # <<>> /\ Head(u \o rest) = Head(u) /\ Tail(u \o rest) = Tail(u) \o rest
      BY <1>2, <2>1, <2>2, FrontOfTwo
    <2>4. <<>> \o rest = rest BY <1>2, ConcatEmptySeq
    <2>5. Only(s, T) # <<>> /\ Head(Only(s, T)) = h /\ Tail(Only(s, T)) = rest
      BY <1>1, <1>3, <2>1, <2>2, <2>3, <2>4
    <2>6. QED BY <1>3, <2>5 DEF h, rest
  <1>4. CASE h \notin T BY <1>1, <1>4 DEF h, rest
  <1>5. QED BY <1>3, <1>4

LEMMA CountNat ==
    ASSUME NEW S, NEW s \in Seq(S), NEW T
    PROVE  Count(s, T) \in Nat
  <1>1. Only(s, T) \in Seq(S) BY OnlyIsSeq
  <1>2. QED BY <1>1, LenProperties DEF Count

LEMMA CountEmpty ==
    ASSUME NEW T PROVE Count(<<>>, T) = 0
  BY OnlyEmpty DEF Count

LEMMA CountAppend ==
    ASSUME NEW S, NEW s \in Seq(S), NEW x \in S, NEW T
    PROVE  Count(Append(s, x), T) = Count(s, T) + IF x \in T THEN 1 ELSE 0
  <1>1. Only(s, T) \in Seq(S) /\ Len(Only(s, T)) \in Nat BY OnlyIsSeq, LenProperties
  <1>2. Only(Append(s, x), T) = IF x \in T THEN Append(Only(s, T), x) ELSE Only(s, T)
    BY OnlyAppend
  <1>3. Len(Append(Only(s, T), x)) = Len(Only(s, T)) + 1 BY <1>1, AppendProperties
  <1>4. QED BY <1>1, <1>2, <1>3 DEF Count

LEMMA CountOne ==
    ASSUME NEW x, NEW T
    PROVE  Count(<<x>>, T) = IF x \in T THEN 1 ELSE 0
  <1>1. Only(<<x>>, T) = IF x \in T THEN <<x>> ELSE <<>> BY OnlyOne
  <1>2. QED BY <1>1 DEF Count

LEMMA CountConcat ==
    ASSUME NEW S, NEW s \in Seq(S), NEW t \in Seq(S), NEW T
    PROVE  Count(s \o t, T) = Count(s, T) + Count(t, T)
  <1>1. Only(s, T) \in Seq(S) /\ Only(t, T) \in Seq(S) BY OnlyIsSeq
  <1>2. Only(s \o t, T) = Only(s, T) \o Only(t, T) BY OnlyConcat
  <1>3. QED BY <1>1, <1>2, ConcatProperties DEF Count

LEMMA CountTail ==
    ASSUME NEW S, NEW s \in Seq(S), s # <<>>, NEW T
    PROVE  Count(Tail(s), T) = Count(s, T) - IF Head(s) \in T THEN 1 ELSE 0
  <1> DEFINE h == Head(s)
             r == Tail(s)
  <1>1. h \in S /\ r \in Seq(S) /\ <<h>> \in Seq(S) BY HeadThenTail
  <1>2. Only(s, T) = IF h \in T THEN <<h>> \o Only(r, T) ELSE Only(r, T) BY OnlyTail
  <1> HIDE DEF h, r
  <1>3. Only(r, T) \in Seq(S) /\ Len(Only(r, T)) \in Nat BY <1>1, OnlyIsSeq, LenProperties
  <1>4. Len(<<h>> \o Only(r, T)) = 1 + Len(Only(r, T)) BY <1>1, <1>3, ConcatProperties
  <1>5. QED BY <1>2, <1>3, <1>4 DEF Count, h, r

-----------------------------------------------------------------------------
(* What is left of a sequence when some of its middle part is taken out.    *)

\* Everything is taken when everything is in the set.
LEMMA OnlyAll ==
    ASSUME NEW S, NEW T
    PROVE  \A s \in Seq(S) : (\A i \in 1 .. Len(s) : s[i] \in T) => Only(s, T) = s
  <1> DEFINE P == {s \in Seq(S) : (\A i \in 1 .. Len(s) : s[i] \in T) => Only(s, T) = s}
  <1>1. <<>> \in P BY OnlyEmpty
  <1>2. ASSUME NEW s \in Seq(S), NEW x \in S, s \in P PROVE Append(s, x) \in P
    <2>1. Append(s, x) \in Seq(S) OBVIOUS
    <2>2. ASSUME \A i \in 1 .. Len(Append(s, x)) : Append(s, x)[i] \in T
          PROVE  Only(Append(s, x), T) = Append(s, x)
      <3>1. x \in T /\ \A i \in 1 .. Len(s) : s[i] \in T BY <2>2, AppendProperties
      <3>2. Only(Append(s, x), T) = Append(Only(s, T), x) BY <3>1, OnlyAppend
      <3>3. QED BY <1>2, <3>1, <3>2
    <2>3. QED BY <2>1, <2>2
  <1>3. Seq(S) \subseteq P
    <2> HIDE DEF P
    <2> QED BY <1>1, <1>2, SeqSetInduction
  <1>4. QED BY <1>3

LEMMA WithoutIsSeq ==
    ASSUME NEW S, NEW s \in Seq(S), NEW T
    PROVE  Without(s, T) \in Seq(S)
  <1> DEFINE U == S \ T
  <1>1. Without(s, T) = Only(s, U) BY WithoutIs
  <1> HIDE DEF U
  <1>2. QED BY <1>1, OnlyIsSeq

\* Nothing is missing without the elements of a set that has none of them.
LEMMA WithoutNone ==
    ASSUME NEW S, NEW s \in Seq(S), NEW T, Count(s, T) = 0
    PROVE  Without(s, T) = s
  <1>1. Only(s, T) = <<>>
    <2>1. Only(s, T) \in Seq(S) BY OnlyIsSeq
    <2>2. Len(Only(s, T)) = 0 BY DEF Count
    <2>3. QED BY <2>1, <2>2, EmptySeq
  <1>2. \A i \in 1 .. Len(s) : s[i] \in S \ T
    <2>1. \A i \in 1 .. Len(s) : s[i] \notin T BY <1>1, OnlyNone
    <2>2. QED BY <2>1, ElementOfSeq
  <1> DEFINE U == S \ T
  <1>3. Without(s, T) = Only(s, U) BY WithoutIs
  <1>4. \A i \in 1 .. Len(s) : s[i] \in U BY <1>2
  <1> HIDE DEF U
  <1>5. QED BY <1>3, <1>4, OnlyAll

\* What two sequences differ in does not matter if it is not in the set.
LEMMA OnlyPrefix ==
    ASSUME NEW S, NEW T, NEW x \in Seq(S), NEW y \in Seq(S), Only(x, T) = Only(y, T)
    PROVE  \A z \in Seq(S) : Only(x \o z, T) = Only(y \o z, T)
  <1>1. \A s \in Seq(S) : \A z \in Seq(S) : Only(s \o z, T) = Only(s, T) \o Only(z, T)
    BY OnlyConcat
  <1>2. QED BY <1>1

LEMMA OnlySuffix ==
    ASSUME NEW S, NEW T, NEW x \in Seq(S), NEW y \in Seq(S), Only(x, T) = Only(y, T)
    PROVE  \A z \in Seq(S) : Only(z \o x, T) = Only(z \o y, T)
  <1> SUFFICES ASSUME NEW z \in Seq(S) PROVE Only(z \o x, T) = Only(z \o y, T)
    OBVIOUS
  <1>1. \A t \in Seq(S) : Only(z \o t, T) = Only(z, T) \o Only(t, T) BY OnlyConcat
  <1>2. QED BY <1>1

\* The others stay.
LEMMA OthersStay ==
    ASSUME NEW S, NEW u \in Seq(S), NEW b \in Seq(S), NEW v \in Seq(S),
           NEW T, NEW U, T \intersect U = {}
    PROVE  Only((u \o Without(b, T)) \o v, U) = Only((u \o b) \o v, U)
  <1> DEFINE w == Without(b, T)
             R == S \ T
             RU == R \intersect U
  <1>1. w \in Seq(S) /\ w = Only(b, R) BY WithoutIs, WithoutIsSeq
  <1>2. Only(w, U) = Only(b, U)
    <2>1. Only(Only(b, R), U) = Only(b, RU) BY OnlyOnly
    <2>2. S \intersect RU = S \intersect U OBVIOUS
    <2>3. Only(b, RU) = Only(b, U)
      <3> HIDE DEF RU
      <3> QED BY <2>2, OnlyWithin
    <2>4. QED BY <1>1, <2>1, <2>3
  <1> HIDE DEF w
  <1> DEFINE uw == u \o w
             ub == u \o b
  <1>3. uw \in Seq(S) /\ ub \in Seq(S) BY <1>1, ConcatProperties
  <1>4. Only(uw, U) = Only(ub, U) BY <1>1, <1>2, OnlySuffix
  <1> HIDE DEF uw, ub
  <1>5. Only(uw \o v, U) = Only(ub \o v, U) BY <1>3, <1>4, OnlyPrefix
  <1>6. QED BY <1>5 DEF uw, ub, w

\* There are as many fewer as have been taken out.
LEMMA FewerLeft ==
    ASSUME NEW S, NEW u \in Seq(S), NEW b \in Seq(S), NEW v \in Seq(S), NEW T
    PROVE  Count((u \o Without(b, T)) \o v, T) = Count((u \o b) \o v, T) - Count(b, T)
  <1> DEFINE w == Without(b, T)
             R == S \ T
             RT == R \intersect T
  <1>1. w \in Seq(S) /\ w = Only(b, R) BY WithoutIs, WithoutIsSeq
  <1>2. Only(w, T) = <<>>
    <2>1. Only(Only(b, R), T) = Only(b, RT) BY OnlyOnly
    <2>2. \A i \in 1 .. Len(b) : b[i] \notin RT OBVIOUS
    <2>3. Only(b, RT) = <<>>
      <3> HIDE DEF RT
      <3> QED BY <2>2, OnlyNone
    <2>4. QED BY <1>1, <2>1, <2>3
  <1>3. Count(w, T) = 0 BY <1>2 DEF Count
  <1> HIDE DEF w
  <1>4. u \o w \in Seq(S) /\ u \o b \in Seq(S) BY <1>1, ConcatProperties
  <1>5. /\ Count((u \o w) \o v, T) = Count(u \o w, T) + Count(v, T)
        /\ Count((u \o b) \o v, T) = Count(u \o b, T) + Count(v, T)
    BY <1>4, CountConcat
  <1>6. /\ Count(u \o w, T) = Count(u, T) + Count(w, T)
        /\ Count(u \o b, T) = Count(u, T) + Count(b, T)
    BY <1>1, CountConcat
  <1>7. /\ Count(u, T) \in Nat /\ Count(v, T) \in Nat
        /\ Count(b, T) \in Nat /\ Count(w, T) \in Nat
    BY <1>1, CountNat
  <1>8. QED BY <1>3, <1>5, <1>6, <1>7 DEF w

=============================================================================
