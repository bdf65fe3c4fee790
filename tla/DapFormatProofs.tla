--------------------------- MODULE DapFormatProofs ---------------------------
(***************************************************************************)
(* The pages of a list of variables of any length, and the messages of the *)
(* debugger adapter in a stream cut anywhere.                              *)
(***************************************************************************)
EXTENDS DapFraming, VariablePages, SubsequenceProofs, TLAPS

(* A list of variables in pages.                                            *)

\* The front end stays within the list.
PageInv ==
    /\ list \in Seq(Nat)
    /\ page \in Nat \ {0}
    /\ asked \in 0 .. Len(list)
    /\ PagesMakeTheList

\* A page that ends within the list is the part of it from start on, and is not
\* refused (xdebugger_base.cpp:292-316).
LEMMA PageIsSlice ==
    ASSUME PageInv, NEW count \in 0 .. Len(list) - asked, asked < Len(list),
           Ask(asked, count), asked' = IF count = 0 THEN Len(list) ELSE asked + count
    PROVE  PageInv'
  <1> DEFINE e == End(asked, count)
  <1>1. /\ list \in Seq(Nat) /\ Len(list) \in Nat /\ asked \in 0 .. Len(list)
        /\ e \in asked .. Len(list) /\ asked' = e
    BY DEF PageInv, End
  <1>2. ~Throws(asked, count)
    BY <1>1 DEF Throws
  <1>3. VariablesRequest(asked, count) = SubSeq(list, asked + 1, e)
    <2>1. CASE asked = 0 /\ count = 0
      <3>1. VariablesRequest(asked, count) = list /\ e = Len(list) /\ asked + 1 = 1
        BY <2>1 DEF VariablesRequest, End
      <3>2. SubSeq(list, 1, Len(list)) = list
        BY <1>1, SubSeqFull
      <3>3. QED
        BY <3>1, <3>2
    <2>2. CASE ~ (asked = 0 /\ count = 0)
      BY <2>2 DEF VariablesRequest
    <2>3. QED
      BY <2>1, <2>2
  <1> HIDE DEF e
  <1>4. shown' = SubSeq(list, 1, asked) \o SubSeq(list, asked + 1, e) /\ ~thrown'
    BY <1>2, <1>3 DEF Ask, PageInv, PagesMakeTheList
  <1>5. SubSeq(list, 1, asked) \o SubSeq(list, asked + 1, e) = SubSeq(list, 1, e)
    <2>1. 1 \in 1 .. Len(list) + 1 /\ asked \in 1 - 1 .. Len(list) /\ e \in asked .. Len(list)
      BY <1>1
    <2>2. QED
      BY <1>1, <2>1, ConcatAdjacentSubSeq
  <1>6. list' = list /\ page' = page
    BY DEF Ask
  <1>7. shown' = SubSeq(list', 1, asked')
    BY <1>1, <1>4, <1>5, <1>6
  <1>8. PagesMakeTheList'
    BY <1>4, <1>7, Zenon DEF PagesMakeTheList
  <1>9. list' \in Seq(Nat) /\ page' \in Nat \ {0} /\ asked' \in 0 .. Len(list')
    BY <1>1, <1>6 DEF PageInv
  <1>10. QED
    BY <1>8, <1>9 DEF PageInv

\* However the front end goes through the list, the pages put together are the list.
THEOREM PagesAreTheList == PagingSpec => []PagesMakeTheList
  <1>1. PagingInit => PageInv
    <2> SUFFICES ASSUME PagingInit PROVE PageInv
      OBVIOUS
    <2>1. PICK n \in 0 .. MaxVariables : list = [i \in 1 .. n |-> i]
      BY DEF PagingInit
    <2>2. n \in Nat /\ list \in Seq(Nat)
      BY <2>1, PageBounds
    <2>3. shown = SubSeq(list, 1, 0)
      BY SubSeqEmpty DEF PagingInit
    <2>4. QED
      BY <2>2, <2>3, PageBounds DEF PagingInit, PageInv, PagesMakeTheList
  <1>2. PageInv /\ [PagingNext]_pageVars => PageInv'
    <2> SUFFICES ASSUME PageInv, [PagingNext]_pageVars PROVE PageInv'
      OBVIOUS
    <2>1. CASE NextPage
      <3> DEFINE count == IF Left < page THEN Left ELSE page
      <3>1. count \in 1 .. Len(list) - asked /\ asked < Len(list)
        BY <2>1 DEF NextPage, Left, PageInv
      <3>2. Ask(asked, count) /\ asked' = asked + count
        BY <2>1 DEF NextPage
      <3> HIDE DEF count
      <3>3. count \in 0 .. Len(list) - asked /\ count # 0
        BY <3>1 DEF PageInv
      <3>4. QED
        BY <3>1, <3>2, <3>3, PageIsSlice
    <2>2. CASE TheRest
      <3>1. 0 \in 0 .. Len(list) - asked /\ asked < Len(list)
        BY <2>2 DEF TheRest, Left, PageInv
      <3>2. QED
        BY <2>2, <3>1, PageIsSlice DEF TheRest
    <2>3. CASE UNCHANGED pageVars
      BY <2>3 DEF PageInv, PagesMakeTheList, pageVars
    <2>4. QED
      BY <2>1, <2>2, <2>3 DEF PagingNext
  <1>3. PageInv => PagesMakeTheList
    BY DEF PageInv
  <1>4. QED
    BY <1>1, <1>2, <1>3, PTL DEF PagingSpec

-----------------------------------------------------------------------------
(* FlattenSeq, from either end.                                             *)

\* The recursive function that FlattenSeq is defined by.
Piled(s, m, f) == f = [i \in 1 .. m |-> IF i = 1 THEN s[i] ELSE f[i - 1] \o s[i]]

LEMMA PiledExists ==
    ASSUME NEW s, NEW m \in Nat
    PROVE  \E f : Piled(s, m, f)
  <1> DEFINE P == {n \in Nat : \E f : Piled(s, n, f)}
             next(f, i) == IF i = 1 THEN s[i] ELSE f[i - 1] \o s[i]
  <1>1. 0 \in P
    <2> DEFINE e == [i \in 1 .. 0 |-> s[i]]
    <2>1. \A i \in 1 .. 0 : FALSE OBVIOUS
    <2>2. e = [i \in 1 .. 0 |-> next(e, i)] BY <2>1
    <2>3. Piled(s, 0, e) BY <2>2 DEF Piled
    <2>4. QED BY <2>3
  <1>2. ASSUME NEW n \in Nat, n \in P PROVE n + 1 \in P
    <2>1. PICK f : Piled(s, n, f) BY <1>2
    <2> DEFINE g == [i \in 1 .. n + 1 |-> IF i = n + 1 THEN next(f, i) ELSE f[i]]
    <2>2. ASSUME NEW i \in 1 .. n + 1 PROVE g[i] = next(g, i)
      <3>1. next(g, i) = next(f, i)
        <4>1. CASE i = 1 BY <4>1
        <4>2. CASE i # 1
          <5>1. i - 1 \in 1 .. n /\ i - 1 # n + 1 /\ i - 1 \in 1 .. n + 1 BY <4>2
          <5>2. g[i - 1] = f[i - 1] BY <5>1
          <5> HIDE DEF g
          <5>3. QED BY <4>2, <5>2
        <4>3. QED BY <4>1, <4>2
      <3>2. CASE i = n + 1 BY <3>1, <3>2
      <3>3. CASE i # n + 1
        <4>1. i \in 1 .. n BY <3>3
        <4>2. f[i] = next(f, i) BY <2>1, <4>1 DEF Piled
        <4>3. g[i] = f[i] BY <3>3
        <4>4. QED BY <3>1, <4>2, <4>3
      <3>4. QED BY <3>2, <3>3
    <2>3. Piled(s, n + 1, g)
      <3> HIDE DEF g
      <3>1. \E dom : g = [i \in dom |-> g[i]] /\ dom = 1 .. n + 1
        BY DEF g
      <3>2. QED BY <2>2, <3>1 DEF Piled
    <2>4. QED BY <2>3
  <1>3. Nat \subseteq P
    <2> HIDE DEF P
    <2> QED BY <1>1, <1>2, NatSetInduction
  <1>4. QED BY <1>3

LEMMA PiledAt ==
    ASSUME NEW s, NEW m, NEW f, Piled(s, m, f), NEW i \in 1 .. m
    PROVE  f[i] = IF i = 1 THEN s[i] ELSE f[i - 1] \o s[i]
  BY DEF Piled

Alike(s, t, m) == \A i \in 1 .. m : s[i] = t[i]

\* On what two sequences have in common, the functions agree.
LEMMA PiledAgree ==
    ASSUME NEW s, NEW t, NEW m \in Nat, NEW n \in Nat, m <= n,
           Alike(s, t, m), NEW f, Piled(s, m, f), NEW g, Piled(t, n, g)
    PROVE  m # 0 => f[m] = g[m]
  <1> DEFINE P == {i \in Nat : i \in 1 .. m => f[i] = g[i]}
  <1>1. 0 \in P OBVIOUS
  <1>2. ASSUME NEW i \in Nat, i \in P PROVE i + 1 \in P
    <2> SUFFICES ASSUME i + 1 \in 1 .. m PROVE f[i + 1] = g[i + 1] OBVIOUS
    <2>1. i + 1 \in 1 .. n /\ s[i + 1] = t[i + 1] BY DEF Alike
    <2>2. f[i + 1] = IF i + 1 = 1 THEN s[i + 1] ELSE f[i + 1 - 1] \o s[i + 1]
      BY PiledAt
    <2>3. g[i + 1] = IF i + 1 = 1 THEN t[i + 1] ELSE g[i + 1 - 1] \o t[i + 1]
      BY <2>1, PiledAt
    <2>4. CASE i = 0 BY <2>1, <2>2, <2>3, <2>4
    <2>5. CASE i # 0
      <3>1. i \in 1 .. m /\ i + 1 - 1 = i /\ i + 1 # 1 BY <2>5
      <3>2. f[i] = g[i] BY <1>2, <3>1
      <3>3. QED BY <2>1, <2>2, <2>3, <3>1, <3>2
    <2>6. QED BY <2>4, <2>5
  <1>3. Nat \subseteq P
    <2> HIDE DEF P
    <2> QED BY <1>1, <1>2, NatSetInduction
  <1>4. QED BY <1>3

LEMMA FlattenIs ==
    ASSUME NEW S, NEW s \in Seq(S), s # <<>>
    PROVE  \E f : Piled(s, Len(s), f) /\ FlattenSeq(s) = f[Len(s)]
  <1> DEFINE f == CHOOSE g : Piled(s, Len(s), g)
  <1>1. Len(s) \in Nat /\ Len(s) # 0 OBVIOUS
  <1>2. Piled(s, Len(s), f) BY <1>1, PiledExists
  <1>3. FlattenSeq(s) = f[Len(s)] BY <1>1 DEF FlattenSeq, Piled
  <1>4. QED
    <2> HIDE DEF f
    <2> QED BY <1>2, <1>3

LEMMA FlattenEmpty == FlattenSeq(<<>>) = <<>>
  BY DEF FlattenSeq

LEMMA FlattenAppend ==
    ASSUME NEW S, NEW s \in Seq(Seq(S)), NEW x \in Seq(S)
    PROVE  FlattenSeq(Append(s, x)) = FlattenSeq(s) \o x
  <1> DEFINE T == Seq(S)
             n == Len(s)
             m == n + 1
  <1>1. s \in Seq(T) /\ x \in T /\ <<>> \o x = x
    BY ConcatEmptySeq
  <1> HIDE DEF T
  <1>2. PICK t \in Seq(T) : t = Append(s, x)
    BY <1>1, AppendProperties
  <1>3. /\ n \in Nat /\ m \in Nat /\ n <= m /\ m \in 1 .. m /\ m - 1 = n
        /\ t # <<>> /\ Len(t) = m /\ t[m] = x
        /\ \A i \in 1 .. n : s[i] = t[i]
    BY <1>1, <1>2
  <1>4. PICK g : Piled(t, m, g) /\ FlattenSeq(t) = g[m]
    BY <1>3, FlattenIs
  <1> HIDE DEF m
  <1>5. FlattenSeq(t) = IF m = 1 THEN x ELSE g[n] \o x
    BY <1>3, <1>4, PiledAt
  <1>6. CASE s = <<>>
    <2>1. FlattenSeq(s) = <<>> BY <1>6, FlattenEmpty
    <2>2. m = 1 BY <1>6 DEF m
    <2>3. QED BY <1>1, <1>2, <1>5, <2>1, <2>2
  <1>7. CASE s # <<>>
    <2>1. PICK f : Piled(s, n, f) /\ FlattenSeq(s) = f[n] BY <1>1, <1>7, FlattenIs
    <2>2. n # 0 /\ n \in 1 .. n /\ m # 1 BY <1>1, <1>7 DEF m
    <2> HIDE DEF n
    <2>3. f[n] = g[n]
      <3>1. n \in Nat /\ m \in Nat /\ n <= m /\ n # 0 BY <1>3, <2>2
      <3>2. Alike(s, t, n) BY <1>3 DEF Alike
      <3>3. Piled(s, n, f) BY <2>1
      <3>4. Piled(t, m, g) BY <1>4
      <3>5. QED BY <3>1, <3>2, <3>3, <3>4, PiledAgree
    <2>4. FlattenSeq(t) = f[n] \o x BY <1>5, <2>2, <2>3
    <2>5. QED BY <1>2, <2>1, <2>4
  <1>8. QED BY <1>6, <1>7

LEMMA FlattenIsSeq ==
    ASSUME NEW S
    PROVE  \A s \in Seq(Seq(S)) : FlattenSeq(s) \in Seq(S)
  <1> DEFINE T == Seq(S)
             P == {s \in Seq(T) : FlattenSeq(s) \in T}
  <1>1. <<>> \in P
    <2>1. <<>> \in Seq(T) /\ <<>> \in T BY EmptySeq
    <2>2. QED BY <2>1, FlattenEmpty
  <1>2. \A s \in Seq(T) : \A x \in T : s \in P => Append(s, x) \in P
    <2> SUFFICES ASSUME NEW s \in Seq(T), NEW x \in T, s \in P
                 PROVE  Append(s, x) \in P
      OBVIOUS
    <2>1. FlattenSeq(Append(s, x)) = FlattenSeq(s) \o x BY FlattenAppend
    <2>2. FlattenSeq(s) \o x \in T BY ConcatProperties
    <2>3. Append(s, x) \in Seq(T)
      <3> HIDE DEF T
      <3> QED BY AppendProperties
    <2>4. QED BY <2>1, <2>2, <2>3
  <1>3. Seq(T) \subseteq P
    <2> HIDE DEF P, T
    <2> QED BY <1>1, <1>2, SeqSetInduction
  <1>4. QED BY <1>3

\* The first of them comes first.
LEMMA FlattenFirst ==
    ASSUME NEW S, NEW x \in Seq(S)
    PROVE  \A s \in Seq(Seq(S)) : FlattenSeq(<<x>> \o s) = x \o FlattenSeq(s)
  <1> DEFINE T == Seq(S)
             P == {s \in Seq(T) : FlattenSeq(<<x>> \o s) = x \o FlattenSeq(s)}
  <1>1. PICK u \in Seq(T) : u = <<x>>
    <2>1. x \in T OBVIOUS
    <2>2. <<x>> \in Seq(T)
      <3> HIDE DEF T
      <3> QED BY <2>1
    <2>3. QED BY <2>2
  <1>2. <<>> \in Seq(T) BY EmptySeq
  <1>3. <<>> \in P
    <2>1. u \o <<>> = Append(<<>>, x)
      <3>1. x \in T OBVIOUS
      <3> HIDE DEF T
      <3>2. QED BY <1>1, <1>2, <3>1, ConcatEmptySeq
    <2>2. FlattenSeq(Append(<<>>, x)) = FlattenSeq(<<>>) \o x BY <1>2, FlattenAppend
    <2>3. <<>> \o x = x /\ x \o <<>> = x BY ConcatEmptySeq
    <2>4. QED BY <1>1, <1>2, <2>1, <2>2, <2>3, FlattenEmpty
  <1>4. \A s \in Seq(T) : \A y \in T : s \in P => Append(s, y) \in P
    <2> SUFFICES ASSUME NEW s \in Seq(T), NEW y \in T, s \in P
                 PROVE  Append(s, y) \in P
      OBVIOUS
    <2>1. /\ Append(u \o s, y) = u \o Append(s, y)
          /\ u \o s \in Seq(T) /\ Append(s, y) \in Seq(T)
      <3>1. y \in T /\ s \in Seq(T) OBVIOUS
      <3> HIDE DEF T
      <3>2. QED BY <3>1, AppendToConcat, ConcatProperties, AppendProperties
    <2>2. FlattenSeq(Append(u \o s, y)) = FlattenSeq(u \o s) \o y
      BY <2>1, FlattenAppend
    <2>3. FlattenSeq(u \o s) = x \o FlattenSeq(s) BY <1>1
    <2>4. FlattenSeq(s) \in Seq(S) BY FlattenIsSeq
    <2>5. (x \o FlattenSeq(s)) \o y = x \o (FlattenSeq(s) \o y)
      BY <2>4, ConcatAssociative
    <2>6. FlattenSeq(Append(s, y)) = FlattenSeq(s) \o y BY FlattenAppend
    <2>7. FlattenSeq(u \o Append(s, y)) = x \o FlattenSeq(Append(s, y))
      BY <2>1, <2>2, <2>3, <2>5, <2>6, Zenon
    <2>8. QED BY <1>1, <2>1, <2>7
  <1>5. Seq(T) \subseteq P
    <2> HIDE DEF P, T
    <2> QED BY <1>3, <1>4, SeqSetInduction
  <1>6. QED BY <1>5

-----------------------------------------------------------------------------
(* What the adapter writes, token by token.                                 *)

LEMMA DigitIsLength ==
    ASSUME NEW n \in DOMAIN Digit
    PROVE  /\ Digit[n] \in Tokens /\ Digit[n] # "S1" /\ Length(Digit[n]) = n
           /\ n \in Nat \ {0}
  <1>1. Length(Digit[n]) = n
    BY DigitAssumption DEF Length
  <1>2. n \in 1 .. Len(Digit) /\ Digit[n] \in Words
    BY DigitAssumption
  <1>3. Digit[n] # "S1" /\ Digit[n] \in Tokens
    BY <1>2, DigitAssumption DEF Tokens
  <1>4. n \in Nat \ {0}
    BY <1>2
  <1>5. QED
    BY <1>1, <1>3, <1>4

Joined(w, s, m, t, n) ==
    /\ Len(w) = m + n
    /\ \A i \in 1 .. m : w[i] = s[i]
    /\ \A j \in 1 .. n : w[m + j] = t[j]

LEMMA ConcatAt ==
    ASSUME NEW S, NEW s \in Seq(S), NEW t \in Seq(S)
    PROVE  s \o t \in Seq(S) /\ Joined(s \o t, s, Len(s), t, Len(t))
  <1>1. Len(s) \in Nat /\ Len(t) \in Nat
    OBVIOUS
  <1>2. \A i \in 1 .. Len(s) + Len(t) :
            (s \o t)[i] = IF i <= Len(s) THEN s[i] ELSE t[i - Len(s)]
    BY ConcatProperties
  <1>3. \A j \in 1 .. Len(t) : (s \o t)[Len(s) + j] = t[j]
    <2> TAKE j \in 1 .. Len(t)
    <2>1. Len(s) + j \in 1 .. Len(s) + Len(t) /\ ~ (Len(s) + j <= Len(s))
          /\ Len(s) + j - Len(s) = j
      BY <1>1
    <2>2. QED
      BY <1>2, <2>1
  <1>4. QED
    BY <1>1, <1>2, <1>3, ConcatProperties DEF Joined

LEMMA SingleToken ==
    ASSUME NEW S, NEW x \in S
    PROVE  <<x>> \in Seq(S) /\ Len(<<x>>) = 1 /\ <<x>>[1] = x
  OBVIOUS

LEMMA MarksAre ==
    /\ HEADER \in Seq(Tokens) /\ Len(HEADER) = 2
    /\ HEADER[1] = "H1" /\ HEADER[2] = "H2"
    /\ SEPARATOR \in Seq(Tokens) /\ Len(SEPARATOR) = 2
    /\ SEPARATOR[1] = "S1" /\ SEPARATOR[2] = "S2"
  <1>1. "H1" \in Tokens /\ "H2" \in Tokens /\ "S1" \in Tokens /\ "S2" \in Tokens
    BY DEF Tokens
  <1>2. QED
    BY <1>1 DEF HEADER, SEPARATOR

FramedAs(text, body) ==
    /\ text[1] = "H1" /\ text[2] = "H2"
    /\ text[3] = Digit[Len(body)]
    /\ text[4] = "S1" /\ text[5] = "S2"
    /\ \A j \in 1 .. Len(body) : text[5 + j] = body[j]

LEMMA FramedIs ==
    ASSUME NEW body \in Seq(Tokens), Len(body) \in DOMAIN Digit
    PROVE  /\ Framed(body) \in Seq(Tokens)
           /\ Len(Framed(body)) = 5 + Len(body)
           /\ FramedAs(Framed(body), body)
  <1> DEFINE d == <<Digit[Len(body)]>>
             u == HEADER \o d
             v == u \o SEPARATOR
  <1>1. Digit[Len(body)] \in Tokens
    BY DigitIsLength
  <1>2. d \in Seq(Tokens) /\ Len(d) = 1 /\ d[1] = Digit[Len(body)]
    BY <1>1, SingleToken
  <1> HIDE DEF d
  <1>3. u \in Seq(Tokens) /\ Len(u) = 3 /\ u[1] = "H1" /\ u[2] = "H2" /\ u[3] = d[1]
    <2>1. u \in Seq(Tokens) /\ Joined(u, HEADER, 2, d, 1)
      BY <1>2, MarksAre, ConcatAt
    <2>2. Len(u) = 2 + 1 /\ u[1] = HEADER[1] /\ u[2] = HEADER[2] /\ u[2 + 1] = d[1]
      BY <2>1 DEF Joined
    <2>3. QED
      BY <2>1, <2>2, MarksAre
  <1> HIDE DEF u
  <1>4. /\ v \in Seq(Tokens) /\ Len(v) = 5
        /\ v[1] = "H1" /\ v[2] = "H2" /\ v[3] = d[1] /\ v[4] = "S1" /\ v[5] = "S2"
    <2>1. v \in Seq(Tokens) /\ Joined(v, u, 3, SEPARATOR, 2)
      BY <1>3, MarksAre, ConcatAt
    <2>2. /\ Len(v) = 3 + 2 /\ v[1] = u[1] /\ v[2] = u[2] /\ v[3] = u[3]
          /\ v[3 + 1] = SEPARATOR[1] /\ v[3 + 2] = SEPARATOR[2]
      BY <2>1 DEF Joined
    <2>3. QED
      BY <1>3, <2>1, <2>2, MarksAre
  <1>5. Framed(body) = v \o body
    BY DEF Framed, u, d
  <1> HIDE DEF v
  <1>6. /\ v \o body \in Seq(Tokens) /\ Len(v \o body) = 5 + Len(body)
        /\ \A i \in 1 .. 5 : (v \o body)[i] = v[i]
        /\ \A j \in 1 .. Len(body) : (v \o body)[5 + j] = body[j]
    <2>1. v \o body \in Seq(Tokens) /\ Joined(v \o body, v, 5, body, Len(body))
      BY <1>4, ConcatAt
    <2>2. QED
      BY <2>1 DEF Joined
  <1>7. 1 \in 1 .. 5 /\ 2 \in 1 .. 5 /\ 3 \in 1 .. 5 /\ 4 \in 1 .. 5 /\ 5 \in 1 .. 5
    OBVIOUS
  <1>8. QED
    BY <1>2, <1>4, <1>5, <1>6, <1>7 DEF FramedAs

-----------------------------------------------------------------------------
(* What is still to be read.                                                *)

Readable(r) ==
    /\ r \in Seq(Seq(Tokens))
    /\ \A i \in DOMAIN r : Len(r[i]) \in DOMAIN Digit

LEMMA EncodeNone == Encode(<<>>) = <<>>
  BY FlattenEmpty DEF Encode

LEMMA EncodeIsTokens ==
    ASSUME NEW r, Readable(r)
    PROVE  Encode(r) \in Seq(Tokens)
  <1> DEFINE T == Seq(Tokens)
             t == [i \in DOMAIN r |-> Framed(r[i])]
  <1>1. \A i \in DOMAIN r : Framed(r[i]) \in T
    <2> TAKE i \in DOMAIN r
    <2>1. r[i] \in Seq(Tokens) /\ Len(r[i]) \in DOMAIN Digit
      BY DEF Readable
    <2>2. QED
      BY <2>1, FramedIs
  <1>2. r \in Seq(T)
    BY DEF Readable
  <1>3. t \in Seq(T)
    <2> HIDE DEF T
    <2>1. t \in [1 .. Len(r) -> T] /\ Len(r) \in Nat
      BY <1>1, <1>2
    <2>2. QED
      BY <2>1
  <1>4. QED
    BY <1>3, FlattenIsSeq DEF Encode

\* The first message comes first, behind its header.
LEMMA EncodeFirst ==
    ASSUME NEW r, Readable(r), r # <<>>, NEW rest, rest = SubSeq(r, 2, Len(r))
    PROVE  /\ r[1] \in Seq(Tokens) /\ Len(r[1]) \in DOMAIN Digit /\ Readable(rest)
           /\ Encode(r) = Framed(r[1]) \o Encode(rest)
  <1> DEFINE T == Seq(Tokens)
             q == [i \in DOMAIN rest |-> Framed(rest[i])]
             t == [i \in DOMAIN r |-> Framed(r[i])]
  <1>1. /\ r \in Seq(T) /\ Len(r) \in Nat /\ Len(r) # 0 /\ DOMAIN r = 1 .. Len(r)
        /\ rest \in Seq(T) /\ Len(rest) = Len(r) - 1 /\ DOMAIN rest = 1 .. Len(r) - 1
        /\ \A i \in 1 .. Len(r) - 1 : rest[i] = r[i + 1]
    <2>1. r \in Seq(T)
      BY DEF Readable
    <2> HIDE DEF T
    <2>2. Len(r) \in Nat /\ Len(r) # 0 /\ DOMAIN r = 1 .. Len(r)
      BY <2>1
    <2>3. rest \in Seq(T) /\ Len(rest) = Len(r) - 1
          /\ \A i \in 1 .. Len(r) - 1 : rest[i] = r[i + 1]
      BY <2>1, <2>2, HeadTailProperties, TailIsSubSeq
    <2>4. QED
      BY <2>1, <2>2, <2>3
  <1>2. Readable(rest)
    BY <1>1 DEF Readable
  <1>3. r[1] \in Seq(Tokens) /\ Len(r[1]) \in DOMAIN Digit
    <2>1. 1 \in DOMAIN r
      BY <1>1
    <2>2. QED
      BY <2>1 DEF Readable
  <1>4. Framed(r[1]) \in T
    BY <1>3, FramedIs
  <1>5. \A i \in DOMAIN r : Framed(r[i]) \in T
    <2> TAKE i \in DOMAIN r
    <2>1. r[i] \in Seq(Tokens) /\ Len(r[i]) \in DOMAIN Digit
      BY DEF Readable
    <2>2. QED
      BY <2>1, FramedIs
  <1>6. q \in Seq(T) /\ t \in Seq(T) /\ t = <<Framed(r[1])>> \o q
    <2> DEFINE F(b) == Framed(b)
    <2> HIDE DEF T
    <2>1. /\ t \in [1 .. Len(r) -> T] /\ t \in Seq(T) /\ Len(t) = Len(r)
      BY <1>1, <1>5
    <2>2. /\ q \in [1 .. Len(r) - 1 -> T] /\ Len(r) - 1 \in Nat
      BY <1>1, <1>5
    <2>3. q \in Seq(T) /\ Len(q) = Len(r) - 1
      BY <2>2
    <2>4. \A i \in 1 .. Len(r) - 1 : q[i] = t[i + 1]
      BY <1>1
    <2>5. t[1] = Framed(r[1])
      BY <1>1
    <2> HIDE DEF q, t
    <2>6. PICK x \in T : x = Framed(r[1])
      BY <1>4
    <2> DEFINE w == <<x>>
    <2>7. w \in Seq(T) /\ Len(w) = 1 /\ w[1] = x
      BY SingleToken
    <2> HIDE DEF w
    <2>8. w \o q \in Seq(T) /\ Len(w \o q) = Len(r)
          /\ \A i \in 1 .. Len(r) : (w \o q)[i] = t[i]
      <3>0. w \o q \in Seq(T) /\ Joined(w \o q, w, 1, q, Len(r) - 1)
        BY <2>3, <2>7, ConcatAt
      <3>1. /\ Len(w \o q) = 1 + (Len(r) - 1) /\ (w \o q)[1] = w[1]
            /\ \A j \in 1 .. Len(r) - 1 : (w \o q)[1 + j] = q[j]
        BY <3>0 DEF Joined
      <3>2. ASSUME NEW i \in 1 .. Len(r) PROVE (w \o q)[i] = t[i]
        <4>1. CASE i = 1
          BY <2>5, <2>6, <2>7, <3>1, <4>1
        <4>2. CASE i # 1
          <5>1. i - 1 \in 1 .. Len(r) - 1 /\ 1 + (i - 1) = i /\ (i - 1) + 1 = i
            BY <1>1, <4>2
          <5>2. QED
            BY <2>4, <3>1, <5>1
        <4>3. QED
          BY <4>1, <4>2
      <3>3. QED
        BY <1>1, <3>0, <3>1, <3>2
    <2>9. t = w \o q
      BY <2>1, <2>8, SeqEqual
    <2>10. QED
      BY <2>1, <2>3, <2>6, <2>9 DEF w
  <1>7. Encode(r) = Framed(r[1]) \o FlattenSeq(q)
    <2>1. Encode(r) = FlattenSeq(t)
      BY DEF Encode
    <2> HIDE DEF q, t
    <2>2. FlattenSeq(<<Framed(r[1])>> \o q) = Framed(r[1]) \o FlattenSeq(q)
      BY <1>4, <1>6, FlattenFirst
    <2>3. QED
      BY <1>6, <2>1, <2>2, Zenon
  <1>8. QED
    BY <1>2, <1>3, <1>7 DEF Encode

\* Encode(r) in terms of the first message and of Encode(rest).
MessageAhead(e, body, next) ==
    /\ e \in Seq(Tokens) /\ next \in Seq(Tokens)
    /\ body \in Seq(Tokens) /\ Len(body) \in Nat \ {0} /\ Len(body) \in DOMAIN Digit
    /\ Len(e) = 5 + Len(body) + Len(next)
    /\ FramedAs(e, body)
    /\ \A j \in 1 .. Len(next) : e[5 + Len(body) + j] = next[j]

LEMMA EncodeSome ==
    ASSUME NEW r, Readable(r), r # <<>>
    PROVE  /\ Readable(SubSeq(r, 2, Len(r)))
           /\ MessageAhead(Encode(r), r[1], Encode(SubSeq(r, 2, Len(r))))
  <1> DEFINE rest == SubSeq(r, 2, Len(r))
             body == r[1]
             f == Framed(body)
             next == Encode(rest)
  <1>1. /\ body \in Seq(Tokens) /\ Len(body) \in DOMAIN Digit /\ Readable(rest)
        /\ Encode(r) = f \o next
    BY EncodeFirst
  <1>2. Len(body) \in Nat \ {0}
    BY <1>1, DigitIsLength
  <1>3. f \in Seq(Tokens) /\ Len(f) = 5 + Len(body) /\ FramedAs(f, body)
    BY <1>1, FramedIs
  <1>4. next \in Seq(Tokens)
    BY <1>1, EncodeIsTokens
  <1> HIDE DEF rest, f, next, body
  <1>5. f \o next \in Seq(Tokens) /\ Joined(f \o next, f, 5 + Len(body), next, Len(next))
    BY <1>3, <1>4, ConcatAt
  <1>6. FramedAs(f \o next, body)
    <2>1. /\ \A i \in 1 .. 5 + Len(body) : (f \o next)[i] = f[i]
          /\ Len(body) \in Nat
      BY <1>2, <1>5 DEF Joined
    <2>2. \A i \in 1 .. 5 : (f \o next)[i] = f[i]
      <3> TAKE i \in 1 .. 5
      <3>1. i \in 1 .. 5 + Len(body)
        BY <2>1
      <3>2. QED
        BY <2>1, <3>1
    <2>3. \A j \in 1 .. Len(body) : (f \o next)[5 + j] = f[5 + j]
      <3> TAKE j \in 1 .. Len(body)
      <3>1. 5 + j \in 1 .. 5 + Len(body)
        BY <2>1
      <3>2. QED
        BY <2>1, <3>1
    <2>4. 1 \in 1 .. 5 /\ 2 \in 1 .. 5 /\ 3 \in 1 .. 5 /\ 4 \in 1 .. 5 /\ 5 \in 1 .. 5
      OBVIOUS
    <2>5. QED
      BY <1>3, <2>2, <2>3, <2>4 DEF FramedAs
  <1>7. MessageAhead(Encode(r), body, next)
    BY <1>1, <1>2, <1>4, <1>5, <1>6 DEF MessageAhead, Joined
  <1>8. QED
    BY <1>1, <1>7 DEF rest, body, next

-----------------------------------------------------------------------------
(* The search for two tokens.                                               *)

LEMMA OccursIs ==
    ASSUME NEW S, NEW text \in Seq(S), NEW pattern \in Seq(S), Len(pattern) = 2,
           NEW i \in 1 .. Len(text) - 1
    PROVE  Occurs(pattern, text, i) <=> text[i] = pattern[1] /\ text[i + 1] = pattern[2]
  <1> DEFINE found == SubSeq(text, i, i + 1)
  <1>1. /\ found \in Seq(S) /\ Len(found) = 2 /\ found[1] = text[i] /\ found[2] = text[i + 1]
    <2>1. /\ Len(text) \in Nat /\ i \in Int /\ i + 1 \in Int /\ i <= i + 1
          /\ \A k \in i .. i + 1 : text[k] \in S
          /\ i + 1 - i + 1 = 2
      OBVIOUS
    <2>2. /\ found \in Seq(S) /\ Len(found) = 2
          /\ \A k \in 1 .. 2 : found[k] = text[i + k - 1]
      BY <2>1, SubSeqProperties
    <2>3. i + 1 - 1 = i /\ i + 2 - 1 = i + 1 /\ 1 \in 1 .. 2 /\ 2 \in 1 .. 2
      OBVIOUS
    <2>4. QED
      BY <2>2, <2>3
  <1>2. Occurs(pattern, text, i) <=> found = pattern
    <2>1. i + Len(pattern) - 1 = i + 1
      OBVIOUS
    <2>2. QED
      BY <2>1 DEF Occurs
  <1> HIDE DEF found
  <1>3. found[1] = pattern[1] /\ found[2] = pattern[2] => found = pattern
    <2> SUFFICES ASSUME found[1] = pattern[1], found[2] = pattern[2] PROVE found = pattern
      OBVIOUS
    <2>1. \A k \in 1 .. Len(found) : k = 1 \/ k = 2
      BY <1>1
    <2>2. \A k \in 1 .. Len(found) : found[k] = pattern[k]
      BY <2>1
    <2>3. QED
      BY <1>1, <2>2, SeqEqual
  <1>4. QED
    BY <1>1, <1>2, <1>3

Least(n, from, to, pattern, text) ==
    /\ n \in from .. to /\ Occurs(pattern, text, n)
    /\ \A j \in from .. to : Occurs(pattern, text, j) => n <= j

LEMMA FindIs ==
    ASSUME NEW text, NEW pattern, NEW from \in Nat, NEW to \in Int,
           to = Len(text) - Len(pattern) + 1
    PROVE  \/ Find(text, pattern, from) = npos
           \/ Least(Find(text, pattern, from), from, to, pattern, text)
  <1> DEFINE found == {i \in from .. to : Occurs(pattern, text, i)}
  <1>1. Find(text, pattern, from) =
            IF found = {} THEN npos ELSE CHOOSE i \in found : \A j \in found : i <= j
    BY DEF Find
  <1>2. found \in SUBSET Nat
    OBVIOUS
  <1>3. CASE found = {}
    BY <1>1, <1>3
  <1>4. CASE found # {}
    <2>1. Find(text, pattern, from) = CHOOSE i \in found : \A j \in found : i <= j
      BY <1>1, <1>4
    <2>2. \E i \in found : \A j \in found : i <= j
      <3> HIDE DEF found
      <3> QED BY <1>2, <1>4, LeastNumber
    <2>3. /\ Find(text, pattern, from) \in found
          /\ \A j \in found : Find(text, pattern, from) <= j
      <3> HIDE DEF found
      <3> QED BY <2>1, <2>2
    <2>4. QED
      BY <2>3 DEF Least
  <1>5. QED
    BY <1>3, <1>4

-----------------------------------------------------------------------------
(* The reader: what it has found, and what it has before it.                *)

\* buf is what has been delivered of text.
Begun(buf, text) ==
    /\ buf \in Seq(Tokens) /\ text \in Seq(Tokens)
    /\ Len(buf) <= Len(text)
    /\ \A i \in 1 .. Len(buf) : buf[i] = text[i]

\* From p on, text is e.
Ahead(text, p, e) ==
    /\ Len(text) = p - 1 + Len(e)
    /\ \A i \in 1 .. Len(e) : text[p - 1 + i] = e[i]

Messages(e) == e = <<>> \/ \E body, next : MessageAhead(e, body, next)

LEMMA EncodeIsMessages ==
    ASSUME NEW r, Readable(r)
    PROVE  Messages(Encode(r))
  <1>1. CASE r = <<>>
    BY <1>1, EncodeNone DEF Messages
  <1>2. CASE r # <<>>
    BY <1>2, EncodeSome DEF Messages
  <1>3. QED
    BY <1>1, <1>2

LEMMA TokenAhead ==
    ASSUME NEW buf, NEW text, Begun(buf, text), NEW e \in Seq(Tokens),
           NEW p \in Nat \ {0}, Ahead(text, p, e),
           NEW k \in Nat, p + k \in 1 .. Len(buf)
    PROVE  k + 1 \in 1 .. Len(e) /\ buf[p + k] = e[k + 1]
  <1>1. Len(buf) \in Nat /\ Len(text) \in Nat /\ Len(e) \in Nat /\ Len(buf) <= Len(text)
    BY DEF Begun
  <1>2. k + 1 \in 1 .. Len(e)
    BY <1>1 DEF Ahead
  <1>3. text[p - 1 + (k + 1)] = e[k + 1]
    BY <1>2 DEF Ahead
  <1>4. p - 1 + (k + 1) = p + k
    OBVIOUS
  <1>5. buf[p + k] = text[p + k]
    BY DEF Begun
  <1>6. QED
    BY <1>2, <1>3, <1>4, <1>5

HeaderAt(n, p, buf) == n = npos \/ (n = p /\ p + 1 <= Len(buf))

\* The first header from the next message on is that of the next message.
LEMMA FindHeader ==
    ASSUME NEW buf, NEW text, Begun(buf, text), NEW e \in Seq(Tokens), Messages(e),
           NEW p \in Nat \ {0}, Ahead(text, p, e)
    PROVE  HeaderAt(Find(buf, HEADER, p), p, buf)
  <1> DEFINE n == Find(buf, HEADER, p)
             to == Len(buf) - Len(HEADER) + 1
  <1>1. /\ buf \in Seq(Tokens) /\ Len(buf) \in Nat /\ to = Len(buf) - 1
        /\ HEADER \in Seq(Tokens) /\ Len(HEADER) = 2
    BY MarksAre DEF Begun
  <1>2. n = npos \/ Least(n, p, to, HEADER, buf)
    <2>1. p \in Nat /\ to \in Int
      BY <1>1
    <2>2. QED
      BY <2>1, FindIs
  <1> HIDE DEF n, to
  <1>3. CASE n = npos
    BY <1>3 DEF HeaderAt, n
  <1>4. CASE Least(n, p, to, HEADER, buf)
    <2>1. n \in p .. to
      BY <1>4 DEF Least
    <2>2. p \in p .. to /\ p \in 1 .. Len(buf) - 1 /\ p + 1 <= Len(buf)
      BY <1>1, <2>1
    <2>3. p \in 1 .. Len(buf) /\ p + 1 \in 1 .. Len(buf)
      BY <1>1, <2>2
    <2>4. /\ 1 + 1 \in 1 .. Len(e) /\ buf[p + 1] = e[1 + 1]
          /\ buf[p] = e[1]
      <3>1. 1 + 1 \in 1 .. Len(e) /\ buf[p + 1] = e[1 + 1]
        BY <2>3, TokenAhead
      <3>2. 1 \in 1 .. Len(e) /\ buf[p] = text[p] /\ p - 1 + 1 = p
        BY <2>3, <3>1 DEF Begun
      <3>3. text[p - 1 + 1] = e[1]
        BY <3>2 DEF Ahead
      <3>4. QED
        BY <3>1, <3>2, <3>3
    <2>5. e # <<>>
      BY <2>4
    <2>6. PICK body, next : MessageAhead(e, body, next)
      BY <2>5 DEF Messages
    <2>7. e[1] = "H1" /\ e[2] = "H2"
      BY <2>6 DEF MessageAhead, FramedAs
    <2>8. buf[p] = HEADER[1] /\ buf[p + 1] = HEADER[2]
      BY <2>4, <2>7, MarksAre
    <2>9. Occurs(HEADER, buf, p)
      BY <1>1, <2>2, <2>8, OccursIs
    <2>10. n <= p
      BY <1>4, <2>2, <2>9 DEF Least
    <2>11. n = p
      BY <2>1, <2>10
    <2>12. QED
      BY <2>2, <2>11 DEF HeaderAt, n
  <1>5. QED
    BY <1>2, <1>3, <1>4

SeparatorAt(n, p, buf) == n = npos \/ (n = p + 3 /\ p + 4 <= Len(buf))

\* The first separator behind a header is that of the same message.
LEMMA FindSeparator ==
    ASSUME NEW buf, NEW text, Begun(buf, text), NEW e \in Seq(Tokens), Messages(e),
           NEW p \in Nat \ {0}, Ahead(text, p, e)
    PROVE  SeparatorAt(Find(buf, SEPARATOR, p + 2), p, buf)
  <1> DEFINE n == Find(buf, SEPARATOR, p + 2)
             to == Len(buf) - Len(SEPARATOR) + 1
  <1>1. /\ buf \in Seq(Tokens) /\ Len(buf) \in Nat /\ to = Len(buf) - 1
        /\ SEPARATOR \in Seq(Tokens) /\ Len(SEPARATOR) = 2
    BY MarksAre DEF Begun
  <1>2. n = npos \/ Least(n, p + 2, to, SEPARATOR, buf)
    <2>1. p + 2 \in Nat /\ to \in Int
      BY <1>1
    <2>2. QED
      BY <2>1, FindIs
  <1> HIDE DEF n, to
  <1>3. CASE n = npos
    BY <1>3 DEF SeparatorAt, n
  <1>4. CASE Least(n, p + 2, to, SEPARATOR, buf)
    <2>1. n \in p + 2 .. to /\ Occurs(SEPARATOR, buf, n)
      BY <1>4 DEF Least
    <2>2. p + 2 \in 1 .. Len(buf) - 1 /\ p + 2 \in 1 .. Len(buf)
      BY <1>1, <2>1
    <2>3. 2 + 1 \in 1 .. Len(e) /\ buf[p + 2] = e[2 + 1]
      BY <2>2, TokenAhead
    <2>4. e # <<>>
      BY <2>3
    <2>5. PICK body, next : MessageAhead(e, body, next)
      BY <2>4 DEF Messages
    <2>6. e[3] = Digit[Len(body)] /\ e[4] = "S1" /\ e[5] = "S2"
      BY <2>5 DEF MessageAhead, FramedAs
    <2>7. Digit[Len(body)] # "S1"
      <3>1. Len(body) \in DOMAIN Digit
        BY <2>5 DEF MessageAhead
      <3>2. QED
        BY <3>1, DigitIsLength
    <2>8. n # p + 2
      <3>1. ~ Occurs(SEPARATOR, buf, p + 2)
        BY <1>1, <2>2, <2>3, <2>6, <2>7, OccursIs, MarksAre
      <3>2. QED
        BY <2>1, <3>1
    <2>9. /\ p + 3 \in p + 2 .. to /\ p + 3 \in 1 .. Len(buf) - 1 /\ p + 4 <= Len(buf)
          /\ p + 3 \in 1 .. Len(buf) /\ p + 4 \in 1 .. Len(buf) /\ n >= p + 3
      BY <1>1, <2>1, <2>8
    <2>10. buf[p + 3] = e[3 + 1] /\ buf[p + 4] = e[4 + 1]
      BY <2>9, TokenAhead
    <2>11. buf[p + 3] = SEPARATOR[1] /\ buf[p + 3 + 1] = SEPARATOR[2]
      BY <2>6, <2>10, MarksAre
    <2>12. Occurs(SEPARATOR, buf, p + 3)
      BY <1>1, <2>9, <2>11, OccursIs
    <2>13. n <= p + 3
      BY <1>4, <2>9, <2>12 DEF Least
    <2>14. n = p + 3
      BY <2>1, <2>9, <2>13
    <2>15. QED
      BY <2>9, <2>14 DEF SeparatorAt, n
  <1>5. QED
    BY <1>2, <1>3, <1>4

\* A piece moves from the stream to the buffer.
LEMMA PieceMoves ==
    ASSUME NEW buf \in Seq(Tokens), NEW rest \in Seq(Tokens), NEW n \in 0 .. Len(rest)
    PROVE  /\ buf \o SubSeq(rest, 1, n) \in Seq(Tokens)
           /\ SubSeq(rest, n + 1, Len(rest)) \in Seq(Tokens)
           /\ Len(buf) <= Len(buf \o SubSeq(rest, 1, n))
           /\ (buf \o SubSeq(rest, 1, n)) \o SubSeq(rest, n + 1, Len(rest)) = buf \o rest
  <1> DEFINE a == SubSeq(rest, 1, n)
             b == SubSeq(rest, n + 1, Len(rest))
  <1>1. a \in Seq(Tokens) /\ b \in Seq(Tokens)
    <2>1. Len(rest) \in Nat /\ \A i \in 1 .. Len(rest) : rest[i] \in Tokens
      OBVIOUS
    <2>2. (\A i \in 1 .. n : rest[i] \in Tokens)
          /\ (\A i \in n + 1 .. Len(rest) : rest[i] \in Tokens)
      BY <2>1
    <2>3. 1 \in Int /\ n \in Int /\ n + 1 \in Int /\ Len(rest) \in Int
      BY <2>1
    <2>4. QED
      BY <2>2, <2>3, SubSeqProperties
  <1>2. a \o b = rest
    <2>1. 1 \in 1 .. Len(rest) + 1 /\ n \in 1 - 1 .. Len(rest) /\ Len(rest) \in n .. Len(rest)
      OBVIOUS
    <2>2. a \o b = SubSeq(rest, 1, Len(rest))
      BY <2>1, ConcatAdjacentSubSeq
    <2>3. QED
      BY <2>2, SubSeqFull
  <1> HIDE DEF a, b
  <1>3. (buf \o a) \o b = buf \o rest
    <2>1. (buf \o a) \o b = buf \o (a \o b)
      BY <1>1, ConcatAssociative
    <2>2. QED
      BY <1>2, <2>1, Zenon
  <1>4. buf \o a \in Seq(Tokens) /\ Len(buf \o a) = Len(buf) + Len(a)
    BY <1>1, ConcatProperties
  <1>5. Len(buf) <= Len(buf \o a)
    BY <1>1, <1>4
  <1>6. QED
    BY <1>1, <1>3, <1>4, <1>5 DEF a, b

LEMMA BufferIsBegun ==
    ASSUME NEW buf \in Seq(Tokens), NEW rest \in Seq(Tokens)
    PROVE  Begun(buf, buf \o rest)
  <1>1. buf \o rest \in Seq(Tokens) /\ Joined(buf \o rest, buf, Len(buf), rest, Len(rest))
    BY ConcatAt
  <1>2. Len(buf) \in Nat /\ Len(rest) \in Nat
    OBVIOUS
  <1>3. QED
    BY <1>1, <1>2 DEF Begun, Joined

\* The length is that of the body.
LEMMA SizeIs ==
    ASSUME NEW buf, NEW text, Begun(buf, text), NEW p \in Nat \ {0},
           NEW e, NEW body, NEW next, MessageAhead(e, body, next), Ahead(text, p, e),
           p + 4 <= Len(buf)
    PROVE  Length(buf[p + 2]) = Len(body)
  <1>1. e \in Seq(Tokens) /\ Len(buf) \in Nat
    BY DEF MessageAhead, Begun
  <1>2. p + 2 \in 1 .. Len(buf)
    BY <1>1
  <1>3. buf[p + 2] = e[2 + 1]
    BY <1>1, <1>2, TokenAhead
  <1>4. e[3] = Digit[Len(body)]
    BY DEF MessageAhead, FramedAs
  <1>5. Len(body) \in DOMAIN Digit
    BY DEF MessageAhead
  <1>6. Length(Digit[Len(body)]) = Len(body)
    BY <1>5, DigitIsLength
  <1>7. QED
    BY <1>3, <1>4, <1>6

\* That many tokens behind the separator are the body, and what follows is the
\* next message.
LEMMA BodyIs ==
    ASSUME NEW buf, NEW text, Begun(buf, text), NEW p \in Nat \ {0},
           NEW e, NEW body, NEW next, MessageAhead(e, body, next), Ahead(text, p, e),
           p + 4 + Len(body) <= Len(buf)
    PROVE  /\ SubSeq(buf, p + 5, p + 5 + Len(body) - 1) = body
           /\ Ahead(text, p + 5 + Len(body), next)
  <1> DEFINE m == Len(body)
             found == SubSeq(buf, p + 5, p + 5 + m - 1)
  <1>1. /\ e \in Seq(Tokens) /\ body \in Seq(Tokens) /\ next \in Seq(Tokens)
        /\ m \in Nat \ {0} /\ buf \in Seq(Tokens) /\ Len(buf) \in Nat /\ Len(next) \in Nat
        /\ Len(e) = 5 + m + Len(next)
    BY DEF MessageAhead, Begun
  <1>2. \A j \in 1 .. m : buf[p + (4 + j)] = body[j]
    <2> TAKE j \in 1 .. m
    <2>1. PICK k \in Nat : k = 4 + j
      BY <1>1
    <2>2. p + k \in 1 .. Len(buf) /\ k + 1 = 5 + j
      BY <1>1, <2>1
    <2>4. buf[p + k] = e[k + 1]
      BY <1>1, <2>2, TokenAhead
    <2>3. e[5 + j] = body[j]
      BY DEF MessageAhead, FramedAs
    <2>5. QED
      BY <2>1, <2>2, <2>3, <2>4
  <1>3. found = body
    <2>0. ASSUME NEW i \in p + 5 .. p + 5 + m - 1 PROVE buf[i] \in Tokens
      <3>1. i \in 1 .. Len(buf)
        BY <1>1
      <3>2. QED
        BY <1>1, <3>1
    <2>1. /\ p + 5 \in Int /\ p + 5 + m - 1 \in Int /\ p + 5 <= p + 5 + m - 1
          /\ p + 5 + m - 1 - (p + 5) + 1 = m
      <3>1. PICK k \in Nat \ {0} : k = m
        BY <1>1
      <3> HIDE DEF m, found
      <3>2. /\ p + 5 \in Int /\ p + 5 + k - 1 \in Int /\ p + 5 <= p + 5 + k - 1
            /\ p + 5 + k - 1 - (p + 5) + 1 = k
        OBVIOUS
      <3>3. QED
        BY <3>1, <3>2
    <2>2. /\ found \in Seq(Tokens) /\ Len(found) = m
          /\ \A i \in 1 .. m : found[i] = buf[p + 5 + i - 1]
      BY <2>0, <2>1, SubSeqProperties
    <2>3. \A i \in 1 .. m : found[i] = body[i]
      <3> TAKE i \in 1 .. m
      <3>1. p + 5 + i - 1 = p + (4 + i)
        BY <1>1
      <3>2. QED
        BY <1>2, <2>2, <3>1
    <2> HIDE DEF found
    <2>4. QED
      BY <1>1, <2>2, <2>3, SeqEqual
  <1>4. Ahead(text, p + 5 + m, next)
    <2>1. Len(text) = p + 5 + m - 1 + Len(next)
      BY <1>1 DEF Ahead
    <2>2. \A j \in 1 .. Len(next) : text[p + 5 + m - 1 + j] = next[j]
      <3> TAKE j \in 1 .. Len(next)
      <3>1. 5 + m + j \in 1 .. Len(e) /\ p - 1 + (5 + m + j) = p + 5 + m - 1 + j
        BY <1>1
      <3>2. text[p - 1 + (5 + m + j)] = e[5 + m + j]
        BY <3>1 DEF Ahead
      <3>3. e[5 + m + j] = next[j]
        BY DEF MessageAhead
      <3>4. QED
        BY <3>1, <3>2, <3>3
    <2>3. QED
      BY <2>1, <2>2 DEF Ahead
  <1>5. QED
    BY <1>3, <1>4

\* What lies behind the end of the buffer is what has not been delivered.
LEMMA NothingInBuffer ==
    ASSUME NEW buf \in Seq(Tokens), NEW rest \in Seq(Tokens), NEW e \in Seq(Tokens),
           Ahead(buf \o rest, Len(buf) + 1, e)
    PROVE  rest = e
  <1>1. Joined(buf \o rest, buf, Len(buf), rest, Len(rest))
    BY ConcatAt
  <1>2. Len(buf) \in Nat /\ Len(rest) \in Nat /\ Len(e) \in Nat /\ Len(buf) + 1 - 1 = Len(buf)
    OBVIOUS
  <1>3. Len(rest) = Len(e)
    BY <1>1, <1>2 DEF Ahead, Joined
  <1>4. \A j \in 1 .. Len(rest) : rest[j] = e[j]
    <2> TAKE j \in 1 .. Len(rest)
    <2>1. (buf \o rest)[Len(buf) + j] = rest[j]
      BY <1>1 DEF Joined
    <2>2. (buf \o rest)[Len(buf) + 1 - 1 + j] = e[j]
      BY <1>3 DEF Ahead
    <2>3. QED
      BY <1>2, <2>1, <2>2
  <1>5. QED
    BY <1>3, <1>4, SeqEqual

LEMMA NothingBefore ==
    ASSUME NEW text \in Seq(Tokens)
    PROVE  Ahead(<<>> \o text, 1, text)
  <1>1. <<>> \o text = text
    BY ConcatEmptySeq
  <1>2. Len(text) \in Nat /\ Len(text) = 1 - 1 + Len(text)
    OBVIOUS
  <1>3. \A i \in 1 .. Len(text) : text[1 - 1 + i] = text[i]
    <2> TAKE i \in 1 .. Len(text)
    <2>1. 1 - 1 + i = i
      OBVIOUS
    <2>2. QED
      BY <2>1
  <1>4. QED
    BY <1>1, <1>2, <1>3 DEF Ahead

\* The message read is the next one of bodies.
LEMMA QueueGrows ==
    ASSUME NEW S, NEW all \in Seq(S), NEW n \in Nat, n <= Len(all),
           NEW rest, rest = SubSeq(all, n + 1, Len(all)), rest # <<>>
    PROVE  /\ n + 1 <= Len(all) /\ rest[1] \in S /\ rest \in Seq(S)
           /\ Append(SubSeq(all, 1, n), rest[1]) = SubSeq(all, 1, n + 1)
           /\ SubSeq(rest, 2, Len(rest)) = SubSeq(all, n + 1 + 1, Len(all))
  <1>1. Len(all) \in Nat
    OBVIOUS
  <1>2. n + 1 <= Len(all)
    <2>1. n + 1 > Len(all) => rest = <<>>
      BY <1>1, SubSeqEmpty
    <2>2. QED
      BY <1>1, <2>1
  <1>3. n + 1 \in 1 .. Len(all) /\ Len(all) \in n + 1 .. Len(all)
    BY <1>1, <1>2
  <1>4. Head(rest) = all[n + 1] /\ Tail(rest) = SubSeq(all, n + 1 + 1, Len(all))
    BY <1>3, HeadTailOfSubSeq
  <1>5. rest \in Seq(S)
    <2>1. /\ n + 1 \in Int /\ Len(all) \in Int
          /\ \A i \in n + 1 .. Len(all) : all[i] \in S
      BY <1>1
    <2>2. QED
      BY <2>1, SubSeqProperties
  <1>6. rest[1] = all[n + 1] /\ rest[1] \in S
    BY <1>3, <1>4, <1>5
  <1>7. SubSeq(rest, 2, Len(rest)) = SubSeq(all, n + 1 + 1, Len(all))
    BY <1>4, <1>5, TailIsSubSeq
  <1>8. Append(SubSeq(all, 1, n), rest[1]) = SubSeq(all, 1, n + 1)
    <2> DEFINE q == SubSeq(all, 1, n)
    <2>1. /\ 1 \in 1 .. Len(all) /\ n + 1 \in 1 .. Len(all) /\ n + 1 - 1 = n
      BY <1>3
    <2>2. SubSeq(all, 1, n + 1) = q \o <<all[n + 1]>>
      BY <2>1, SubSeqRecursiveSecond
    <2>3. q \in Seq(S)
      <3>1. 1 \in Int /\ n \in Int /\ \A i \in 1 .. n : all[i] \in S
        BY <1>1
      <3>2. QED
        BY <3>1, SubSeqProperties
    <2> HIDE DEF q
    <2>4. Append(q, all[n + 1]) = q \o <<all[n + 1]>>
      BY <1>6, <2>3, AppendIsConcat
    <2>5. QED
      BY <1>6, <2>2, <2>4 DEF q
  <1>9. QED
    BY <1>2, <1>5, <1>6, <1>7, <1>8

-----------------------------------------------------------------------------
(* The inductive invariant.                                                 *)

\* The next message begins at p, in the buffer or right behind it.
Begins(p) == p \in 1 .. Len(buffer) + 1 /\ Ahead(buffer \o unread, p, Encode(Rest))

QueueInv ==
    /\ Readable(bodies)
    /\ buffer \in Seq(Tokens) /\ unread \in Seq(Tokens)
    /\ Len(queue) \in Nat /\ Len(queue) <= Len(bodies)
    /\ queue = SubSeq(bodies, 1, Len(queue))

\* handle_tcp_socket searches from where the next message begins; and what it has
\* found are the header and the separator of this message.
ReaderInv ==
    /\ reader \in {"idle", "header", "separator", "body"}
    /\ reader = "idle" => unread = Encode(Rest)
    /\ reader = "header" => Begins(hint) /\ HeaderAt(headerPos, hint, buffer)
    /\ reader \in {"separator", "body"} =>
           /\ Begins(headerPos) /\ headerPos + 1 <= Len(buffer)
           /\ SeparatorAt(separatorPos, headerPos, buffer)
    /\ reader = "separator" => hint = headerPos + 2
    /\ reader = "body" => separatorPos # npos

FramingInv == QueueInv /\ ReaderInv

LEMMA RestIsReadable ==
    ASSUME QueueInv
    PROVE  Readable(Rest) /\ Encode(Rest) \in Seq(Tokens) /\ Messages(Encode(Rest))
  <1> DEFINE T == Seq(Tokens)
             n == Len(queue)
             r == Rest
  <1>1. bodies \in Seq(T) /\ n \in Nat /\ n <= Len(bodies)
    BY DEF QueueInv, Readable
  <1>2. r \in Seq(T) /\ \A i \in DOMAIN r : \E j \in DOMAIN bodies : r[i] = bodies[j]
    <2> HIDE DEF T
    <2>1. Len(bodies) \in Nat /\ DOMAIN bodies = 1 .. Len(bodies)
      BY <1>1
    <2>2. \A i \in n + 1 .. Len(bodies) : bodies[i] \in T
      BY <1>1, <2>1
    <2>3. n + 1 \in Int /\ Len(bodies) \in Int
      BY <1>1, <2>1
    <2>4. /\ r \in Seq(T) /\ Len(r) = IF n + 1 <= Len(bodies) THEN Len(bodies) - (n + 1) + 1 ELSE 0
          /\ \A i \in 1 .. Len(bodies) - (n + 1) + 1 : r[i] = bodies[n + 1 + i - 1]
      BY <2>2, <2>3, SubSeqProperties DEF Rest
    <2> HIDE DEF n, r
    <2>5. ASSUME NEW i \in DOMAIN r PROVE \E j \in DOMAIN bodies : r[i] = bodies[j]
      <3>1. i \in 1 .. Len(r)
        BY <2>4
      <3>2. PICK k \in Nat : k = Len(bodies)
        BY <2>1
      <3>3. n \in Nat /\ n <= k /\ Len(r) = IF n + 1 <= k THEN k - (n + 1) + 1 ELSE 0
        BY <1>1, <2>4, <3>2
      <3>4. i \in 1 .. k - (n + 1) + 1 /\ n + 1 + i - 1 \in 1 .. k
        <4>1. CASE n + 1 <= k
          BY <3>1, <3>3, <4>1
        <4>2. CASE ~ (n + 1 <= k)
          BY <3>1, <3>3, <4>2
        <4>3. QED
          BY <4>1, <4>2
      <3>5. r[i] = bodies[n + 1 + i - 1]
        BY <2>4, <3>2, <3>4
      <3>6. QED
        BY <2>1, <3>2, <3>4, <3>5
    <2>6. QED
      BY <2>4, <2>5
  <1>3. Readable(r)
    BY <1>2 DEF QueueInv, Readable
  <1>4. QED
    BY <1>3, EncodeIsTokens, EncodeIsMessages

\* append_tcp_message moves what is before the reader, and changes nothing of it.
LEMMA PieceReceived ==
    ASSUME QueueInv, AppendTcpMessage, UNCHANGED <<bodies, queue>>
    PROVE  /\ QueueInv' /\ Rest' = Rest
           /\ Len(buffer) \in Nat /\ Len(buffer') \in Nat /\ Len(buffer) <= Len(buffer')
           /\ \A p : Begins(p) => Begins(p)'
  <1>1. PICK n \in 0 .. Len(unread) :
            /\ buffer' = buffer \o SubSeq(unread, 1, n)
            /\ unread' = SubSeq(unread, n + 1, Len(unread))
    BY DEF AppendTcpMessage
  <1>2. buffer \in Seq(Tokens) /\ unread \in Seq(Tokens)
    BY DEF QueueInv
  <1>3. /\ buffer' \in Seq(Tokens) /\ unread' \in Seq(Tokens)
        /\ Len(buffer) <= Len(buffer') /\ buffer' \o unread' = buffer \o unread
    BY <1>1, <1>2, PieceMoves
  <1>4. Rest' = Rest
    BY DEF Rest
  <1>5. Len(buffer) \in Nat /\ Len(buffer') \in Nat
    BY <1>2, <1>3
  <1>6. ASSUME NEW p, Begins(p) PROVE Begins(p)'
    <2>1. p \in 1 .. Len(buffer')  + 1
      BY <1>3, <1>5, <1>6 DEF Begins
    <2>2. Ahead(buffer' \o unread', p, Encode(Rest'))
      BY <1>3, <1>4, <1>6 DEF Begins
    <2>3. QED
      BY <2>1, <2>2 DEF Begins
  <1>7. QED
    BY <1>3, <1>4, <1>5, <1>6 DEF QueueInv

LEMMA HeaderSought ==
    ASSUME NEW buf \in Seq(Tokens), NEW rest \in Seq(Tokens),
           NEW e \in Seq(Tokens), Messages(e),
           NEW p \in 1 .. Len(buf) + 1, Ahead(buf \o rest, p, e)
    PROVE  HeaderAt(Find(buf, HEADER, p), p, buf)
  <1>1. Begun(buf, buf \o rest)
    BY BufferIsBegun
  <1>2. p \in Nat \ {0}
    OBVIOUS
  <1>3. QED
    BY <1>1, <1>2, FindHeader

LEMMA SeparatorSought ==
    ASSUME NEW buf \in Seq(Tokens), NEW rest \in Seq(Tokens),
           NEW e \in Seq(Tokens), Messages(e),
           NEW p \in 1 .. Len(buf) + 1, Ahead(buf \o rest, p, e)
    PROVE  SeparatorAt(Find(buf, SEPARATOR, p + 2), p, buf)
  <1>1. Begun(buf, buf \o rest)
    BY BufferIsBegun
  <1>2. p \in Nat \ {0}
    OBVIOUS
  <1>3. QED
    BY <1>1, <1>2, FindSeparator

\* What has been found in the buffer is in a message.
LEMMA SomeMessage ==
    ASSUME QueueInv, NEW p, Begins(p), p <= Len(buffer)
    PROVE  Rest # <<>>
  <1>1. buffer \in Seq(Tokens) /\ unread \in Seq(Tokens)
    BY DEF QueueInv
  <1>2. Begun(buffer, buffer \o unread)
    BY <1>1, BufferIsBegun
  <1>3. Len(buffer) \in Nat /\ Len(buffer \o unread) \in Nat /\ Len(buffer) <= Len(buffer \o unread)
    BY <1>1, <1>2 DEF Begun
  <1>4. Len(buffer \o unread) = p - 1 + Len(Encode(Rest)) /\ p \in 1 .. Len(buffer) + 1
    BY DEF Begins, Ahead
  <1>5. Len(Encode(Rest)) # 0
    BY <1>3, <1>4, RestIsReadable
  <1>6. QED
    BY <1>5, EncodeNone

-----------------------------------------------------------------------------
(* The steps.                                                               *)

LEMMA CallStep ==
    ASSUME FramingInv, HandleTcpSocket
    PROVE  FramingInv'
  <1>1. QueueInv /\ reader = "idle" /\ unread = Encode(Rest)
    BY DEF FramingInv, ReaderInv, HandleTcpSocket
  <1>2. /\ buffer' = <<>> /\ unread' = unread /\ bodies' = bodies /\ queue' = queue
        /\ reader' = "header" /\ hint' = 1 /\ headerPos' = npos
    BY DEF HandleTcpSocket
  <1>3. buffer' \in Seq(Tokens) /\ Len(buffer') = 0
    BY <1>2, EmptySeq
  <1>4. QueueInv'
    BY <1>1, <1>2, <1>3 DEF QueueInv
  <1>5. Rest' = Rest
    BY <1>2 DEF Rest
  <1>6. Ahead(buffer' \o unread', 1, Encode(Rest'))
    <2>1. Ahead(<<>> \o unread, 1, unread)
      BY <1>1, NothingBefore DEF QueueInv
    <2>2. QED
      BY <1>1, <1>2, <1>5, <2>1
  <1>7. Begins(hint)'
    BY <1>2, <1>3, <1>6 DEF Begins
  <1>8. HeaderAt(headerPos, hint, buffer)'
    BY <1>2 DEF HeaderAt
  <1>9. ReaderInv'
    BY <1>2, <1>7, <1>8 DEF ReaderInv
  <1>10. QED
    BY <1>4, <1>9 DEF FramingInv

LEMMA AwaitHeaderStep ==
    ASSUME FramingInv, AwaitHeader
    PROVE  FramingInv'
  <1>1. QueueInv /\ reader = "header" /\ Begins(hint)
    BY DEF FramingInv, ReaderInv, AwaitHeader
  <1>2. /\ AppendTcpMessage /\ UNCHANGED <<bodies, queue>>
        /\ reader' = "header" /\ hint' = hint /\ headerPos' = Find(buffer', HEADER, hint)
    BY DEF AwaitHeader
  <1>3. QueueInv' /\ Rest' = Rest /\ Begins(hint)'
    <2>1. /\ QueueInv' /\ Rest' = Rest
          /\ \A p : Begins(p) => Begins(p)'
      BY <1>1, <1>2, PieceReceived
    <2>2. /\ hint \in 1 .. Len(buffer') + 1
          /\ Ahead(buffer' \o unread', hint, Encode(Rest'))
      BY <1>1, <2>1 DEF Begins
    <2>3. QED
      BY <1>2, <2>1, <2>2 DEF Begins
  <1>4. HeaderAt(Find(buffer', HEADER, hint'), hint', buffer')
    <2>1. /\ buffer' \in Seq(Tokens) /\ unread' \in Seq(Tokens)
          /\ hint' \in 1 .. Len(buffer') + 1
          /\ Ahead(buffer' \o unread', hint', Encode(Rest))
      BY <1>3 DEF QueueInv, Begins
    <2>2. Encode(Rest) \in Seq(Tokens) /\ Messages(Encode(Rest))
      BY <1>1, RestIsReadable
    <2>3. QED
      BY <2>1, <2>2, HeaderSought
  <1>5. HeaderAt(headerPos, hint, buffer)'
    BY <1>2, <1>4
  <1>6. ReaderInv'
    BY <1>2, <1>3, <1>5 DEF ReaderInv
  <1>7. QED
    BY <1>3, <1>6 DEF FramingInv

LEMMA HeaderFoundStep ==
    ASSUME FramingInv, HeaderFound
    PROVE  FramingInv'
  <1>1. /\ QueueInv /\ Begins(hint) /\ hint = headerPos /\ headerPos + 1 <= Len(buffer)
        /\ Begins(headerPos)
    BY DEF FramingInv, ReaderInv, HeaderFound, HeaderAt
  <1>2. /\ UNCHANGED <<bodies, unread, buffer, headerPos, queue>>
        /\ reader' = "separator"
        /\ hint' = headerPos + Len(HEADER) /\ separatorPos' = Find(buffer, SEPARATOR, hint')
    BY DEF HeaderFound
  <1>3. hint' = headerPos' + 2
    BY <1>2, MarksAre
  <1>4. QueueInv'
    BY <1>1, <1>2 DEF QueueInv
  <1>5. Begins(headerPos)' /\ headerPos' + 1 <= Len(buffer')
    BY <1>1, <1>2 DEF Begins, Rest
  <1>6. SeparatorAt(Find(buffer, SEPARATOR, headerPos + 2), headerPos, buffer)
    <2>1. /\ buffer \in Seq(Tokens) /\ unread \in Seq(Tokens)
          /\ headerPos \in 1 .. Len(buffer) + 1
          /\ Ahead(buffer \o unread, headerPos, Encode(Rest))
      BY <1>1 DEF QueueInv, Begins
    <2>2. QED
      BY <1>1, <2>1, RestIsReadable, SeparatorSought
  <1>7. SeparatorAt(separatorPos, headerPos, buffer)'
    <2>1. separatorPos' = Find(buffer, SEPARATOR, headerPos + 2)
      BY <1>2, <1>3
    <2>2. QED
      BY <1>2, <1>6, <2>1
  <1>8. ReaderInv'
    BY <1>2, <1>3, <1>5, <1>7 DEF ReaderInv
  <1>9. QED
    BY <1>4, <1>8 DEF FramingInv

LEMMA AwaitSeparatorStep ==
    ASSUME FramingInv, AwaitSeparator
    PROVE  FramingInv'
  <1>1. /\ QueueInv /\ Begins(headerPos) /\ headerPos + 1 <= Len(buffer)
        /\ hint = headerPos + 2
    BY DEF FramingInv, ReaderInv, AwaitSeparator
  <1>2. /\ AppendTcpMessage /\ UNCHANGED <<bodies, queue>>
        /\ reader' = "separator" /\ hint' = hint /\ headerPos' = headerPos
        /\ separatorPos' = Find(buffer', SEPARATOR, hint)
    BY DEF AwaitSeparator
  <1>3. /\ QueueInv' /\ Rest' = Rest /\ Begins(headerPos)'
        /\ headerPos' + 1 <= Len(buffer')
    <2>1. /\ QueueInv' /\ Rest' = Rest
          /\ Len(buffer) \in Nat /\ Len(buffer') \in Nat /\ Len(buffer) <= Len(buffer')
      BY <1>1, <1>2, PieceReceived
    <2>2. \A p : Begins(p) => Begins(p)'
      BY <1>1, <1>2, PieceReceived
    <2>3. /\ headerPos \in 1 .. Len(buffer') + 1
          /\ Ahead(buffer' \o unread', headerPos, Encode(Rest'))
      BY <1>1, <2>2 DEF Begins
    <2>4. headerPos \in Nat
      BY <2>3
    <2>5. headerPos' + 1 <= Len(buffer')
      BY <1>1, <1>2, <2>1, <2>4
    <2>6. QED
      BY <1>2, <2>1, <2>3, <2>5 DEF Begins
  <1>4. SeparatorAt(Find(buffer', SEPARATOR, headerPos' + 2), headerPos', buffer')
    <2>1. /\ buffer' \in Seq(Tokens) /\ unread' \in Seq(Tokens)
          /\ headerPos' \in 1 .. Len(buffer') + 1
          /\ Ahead(buffer' \o unread', headerPos', Encode(Rest))
      BY <1>3 DEF QueueInv, Begins
    <2>2. Encode(Rest) \in Seq(Tokens) /\ Messages(Encode(Rest))
      BY <1>1, RestIsReadable
    <2>3. QED
      BY <2>1, <2>2, SeparatorSought
  <1>5. SeparatorAt(separatorPos, headerPos, buffer)'
    <2>1. separatorPos' = Find(buffer', SEPARATOR, headerPos' + 2)
      BY <1>1, <1>2
    <2>2. QED
      BY <1>4, <2>1
  <1>6. ReaderInv'
    BY <1>1, <1>2, <1>3, <1>5 DEF ReaderInv
  <1>7. QED
    BY <1>3, <1>6 DEF FramingInv

LEMMA SeparatorFoundStep ==
    ASSUME FramingInv, SeparatorFound
    PROVE  FramingInv'
  <1>1. /\ QueueInv /\ Begins(headerPos) /\ headerPos + 1 <= Len(buffer)
        /\ SeparatorAt(separatorPos, headerPos, buffer) /\ separatorPos # npos
    BY DEF FramingInv, ReaderInv, SeparatorFound
  <1>2. /\ UNCHANGED <<bodies, unread, buffer, headerPos, separatorPos, queue>>
        /\ reader' = "body"
    BY DEF SeparatorFound
  <1>3. QueueInv' /\ Begins(headerPos)'
    BY <1>1, <1>2 DEF QueueInv, Begins, Rest
  <1>4. ReaderInv'
    BY <1>1, <1>2, <1>3 DEF ReaderInv, SeparatorAt
  <1>5. QED
    BY <1>3, <1>4 DEF FramingInv

LEMMA AwaitBodyStep ==
    ASSUME FramingInv, AwaitBody
    PROVE  FramingInv'
  <1>1. /\ QueueInv /\ Begins(headerPos) /\ headerPos + 1 <= Len(buffer)
        /\ SeparatorAt(separatorPos, headerPos, buffer) /\ separatorPos # npos
    BY DEF FramingInv, ReaderInv, AwaitBody
  <1>2. /\ AppendTcpMessage /\ UNCHANGED <<bodies, queue>>
        /\ reader' = "body" /\ headerPos' = headerPos /\ separatorPos' = separatorPos
    BY DEF AwaitBody
  <1>3. /\ QueueInv' /\ Rest' = Rest
        /\ Len(buffer) \in Nat /\ Len(buffer') \in Nat /\ Len(buffer) <= Len(buffer')
    BY <1>1, <1>2, PieceReceived
  <1>4. \A p : Begins(p) => Begins(p)'
    BY <1>1, <1>2, PieceReceived
  <1>5. /\ headerPos \in 1 .. Len(buffer') + 1
        /\ Ahead(buffer' \o unread', headerPos, Encode(Rest'))
    BY <1>1, <1>4 DEF Begins
  <1>6. Begins(headerPos)' /\ headerPos \in Nat
    BY <1>2, <1>5 DEF Begins
  <1>7. separatorPos = headerPos + 3 /\ headerPos + 4 <= Len(buffer)
    BY <1>1 DEF SeparatorAt
  <1>8. headerPos' + 1 <= Len(buffer') /\ SeparatorAt(separatorPos, headerPos, buffer)'
    BY <1>2, <1>3, <1>6, <1>7 DEF SeparatorAt
  <1>9. ReaderInv'
    BY <1>1, <1>2, <1>6, <1>8 DEF ReaderInv
  <1>10. QED
    BY <1>3, <1>9 DEF FramingInv

\* What is needed of the sizes to compare them.
LEMMA SizesAreNumbers ==
    ASSUME FramingInv, reader = "body"
    PROVE  /\ Remaining \in Int /\ MsgSize \in Nat \ {0}
           /\ MsgPos \in Nat /\ Len(buffer) \in Nat
  <1>1. /\ QueueInv /\ Begins(headerPos) /\ headerPos + 1 <= Len(buffer)
        /\ separatorPos = headerPos + 3 /\ headerPos + 4 <= Len(buffer)
    BY DEF FramingInv, ReaderInv, SeparatorAt
  <1>2. /\ buffer \in Seq(Tokens) /\ unread \in Seq(Tokens) /\ Len(buffer) \in Nat
        /\ headerPos \in Nat \ {0} /\ Ahead(buffer \o unread, headerPos, Encode(Rest))
        /\ Begun(buffer, buffer \o unread)
    BY <1>1, BufferIsBegun DEF QueueInv, Begins
  <1>3. Rest # <<>>
    <2>1. headerPos <= Len(buffer)
      BY <1>1, <1>2
    <2>2. QED
      BY <1>1, <2>1, SomeMessage
  <1>4. MessageAhead(Encode(Rest), Rest[1], Encode(SubSeq(Rest, 2, Len(Rest))))
    BY <1>1, <1>3, RestIsReadable, EncodeSome
  <1>5. Len(Rest[1]) \in Nat \ {0}
    BY <1>4 DEF MessageAhead
  <1>6. Length(buffer[headerPos + 2]) = Len(Rest[1])
    BY <1>1, <1>2, <1>4, SizeIs
  <1>7. MsgSize \in Nat \ {0}
    BY <1>5, <1>6, MarksAre DEF MsgSize
  <1>8. Remaining \in Int /\ MsgPos \in Nat
    BY <1>1, <1>2, MarksAre DEF Remaining, MsgPos
  <1>9. QED
    BY <1>2, <1>7, <1>8

\* The message is whole in the buffer: what is pushed, and what is then ahead.
LEMMA MessageStep ==
    ASSUME FramingInv, reader = "body", Remaining >= MsgSize, Push,
           UNCHANGED <<bodies, unread, buffer>>
    PROVE  /\ QueueInv' /\ Readable(Rest')
           /\ \A p : p = MsgPos + MsgSize => Begins(p)'
           /\ Remaining = MsgSize => unread' = Encode(Rest')
           /\ Rest # <<>> /\ queue' = Append(queue, Rest[1])
           /\ Rest' = SubSeq(Rest, 2, Len(Rest))
  <1> DEFINE body == Rest[1]
             m == Len(body)
             more == SubSeq(Rest, 2, Len(Rest))
  <1>1. /\ QueueInv /\ Begins(headerPos) /\ headerPos + 1 <= Len(buffer)
        /\ separatorPos = headerPos + 3 /\ headerPos + 4 <= Len(buffer)
    BY DEF FramingInv, ReaderInv, SeparatorAt
  <1>2. /\ buffer \in Seq(Tokens) /\ unread \in Seq(Tokens) /\ Len(buffer) \in Nat
        /\ headerPos \in Nat \ {0} /\ Ahead(buffer \o unread, headerPos, Encode(Rest))
        /\ Begun(buffer, buffer \o unread)
    BY <1>1, BufferIsBegun DEF QueueInv, Begins
  <1>3. Rest # <<>>
    <2>1. headerPos <= Len(buffer)
      BY <1>1, <1>2
    <2>2. QED
      BY <1>1, <2>1, SomeMessage
  <1>4. Readable(more) /\ MessageAhead(Encode(Rest), body, Encode(more))
    BY <1>1, <1>3, RestIsReadable, EncodeSome
  <1>5. m \in Nat \ {0}
    BY <1>4 DEF MessageAhead
  <1> HIDE DEF body, m, more
  <1>6. MsgSize = m
    <2>1. Length(buffer[headerPos + 2]) = m
      BY <1>1, <1>2, <1>4, SizeIs DEF m
    <2>2. QED
      BY <2>1, MarksAre DEF MsgSize
  <1>7. MsgPos = headerPos + 5
    BY <1>1, <1>2, MarksAre DEF MsgPos
  <1>8. headerPos + 4 + m <= Len(buffer) /\ MsgPos + MsgSize = headerPos + 5 + m
    BY <1>2, <1>5, <1>6, <1>7 DEF Remaining
  <1>9. /\ SubSeq(buffer, headerPos + 5, headerPos + 5 + m - 1) = body
        /\ Ahead(buffer \o unread, headerPos + 5 + m, Encode(more))
    BY <1>2, <1>4, <1>8, BodyIs DEF m
  <1>10. queue' = Append(queue, body)
    BY <1>6, <1>7, <1>9 DEF Push
  <1>11. /\ Len(queue) + 1 <= Len(bodies) /\ body \in Seq(Tokens)
         /\ queue' = SubSeq(bodies, 1, Len(queue) + 1)
         /\ more = SubSeq(bodies, Len(queue) + 1 + 1, Len(bodies))
         /\ Len(queue') = Len(queue) + 1
    <2> DEFINE T == Seq(Tokens)
    <2>1. /\ bodies \in Seq(T) /\ Len(queue) \in Nat /\ Len(queue) <= Len(bodies)
          /\ queue = SubSeq(bodies, 1, Len(queue))
      BY <1>1 DEF QueueInv, Readable
    <2> HIDE DEF T
    <2>2. /\ Len(queue) + 1 <= Len(bodies) /\ body \in T
          /\ Append(SubSeq(bodies, 1, Len(queue)), body) = SubSeq(bodies, 1, Len(queue) + 1)
          /\ more = SubSeq(bodies, Len(queue) + 1 + 1, Len(bodies))
      BY <1>3, <2>1, QueueGrows DEF Rest, body, more
    <2>3. queue' = SubSeq(bodies, 1, Len(queue) + 1)
      BY <1>10, <2>1, <2>2, Zenon
    <2>4. Len(queue') = Len(queue) + 1
      <3>1. /\ 1 \in Int /\ Len(queue) + 1 \in Int /\ 1 <= Len(queue) + 1
            /\ Len(queue) + 1 - 1 + 1 = Len(queue) + 1
            /\ \A i \in 1 .. Len(queue) + 1 : bodies[i] \in T
        BY <2>1, <2>2
      <3>2. QED
        BY <2>3, <3>1, SubSeqProperties
    <2>5. QED
      BY <2>2, <2>3, <2>4 DEF T
  <1>12. QueueInv'
    BY <1>1, <1>11 DEF QueueInv
  <1>13. Rest' = more
    BY <1>11 DEF Rest
  <1>14. ASSUME NEW p, p = MsgPos + MsgSize PROVE Begins(p)'
    <2>1. headerPos + 5 + m \in 1 .. Len(buffer) + 1
      BY <1>2, <1>5, <1>8
    <2>2. QED
      BY <1>8, <1>9, <1>13, <1>14, <2>1 DEF Begins
  <1>15. Remaining = MsgSize => unread' = Encode(Rest')
    <2> SUFFICES ASSUME Remaining = MsgSize PROVE unread = Encode(more)
      BY <1>13
    <2>1. headerPos + 5 + m = Len(buffer) + 1
      BY <1>2, <1>5, <1>6, <1>7 DEF Remaining
    <2>2. Ahead(buffer \o unread, Len(buffer) + 1, Encode(more))
      BY <1>9, <2>1
    <2>3. QED
      BY <1>2, <1>4, <2>2, EncodeIsTokens, NothingInBuffer
  <1>16. QED
    BY <1>3, <1>4, <1>10, <1>12, <1>13, <1>14, <1>15 DEF body, more

LEMMA LastMessageStep ==
    ASSUME FramingInv, LastMessage
    PROVE  FramingInv'
  <1>1. /\ reader = "body" /\ Push /\ UNCHANGED <<bodies, unread, buffer>>
        /\ Remaining = MsgSize /\ reader' = "idle"
    BY DEF LastMessage
  <1>2. Remaining >= MsgSize
    BY <1>1, SizesAreNumbers
  <1>3. QueueInv' /\ unread' = Encode(Rest')
    BY <1>1, <1>2, MessageStep
  <1>4. ReaderInv'
    BY <1>1, <1>3 DEF ReaderInv
  <1>5. QED
    BY <1>3, <1>4 DEF FramingInv

LEMMA NextMessageStep ==
    ASSUME FramingInv, NextMessage
    PROVE  FramingInv'
  <1>1. /\ reader = "body" /\ Push /\ UNCHANGED <<bodies, unread, buffer>>
        /\ Remaining > MsgSize /\ reader' = "header"
        /\ hint' = MsgPos + MsgSize /\ headerPos' = Find(buffer, HEADER, hint')
        /\ separatorPos' = npos
    BY DEF NextMessage
  <1>2. Remaining >= MsgSize
    BY <1>1, SizesAreNumbers
  <1>3. QueueInv' /\ Readable(Rest') /\ \A p : p = MsgPos + MsgSize => Begins(p)'
    BY <1>1, <1>2, MessageStep
  <1> DEFINE p == MsgPos + MsgSize
  <1>4. /\ p \in 1 .. Len(buffer') + 1
        /\ Ahead(buffer' \o unread', p, Encode(Rest'))
    BY <1>3 DEF Begins
  <1>5. Begins(hint)'
    BY <1>1, <1>4 DEF Begins
  <1>6. HeaderAt(Find(buffer', HEADER, hint'), hint', buffer')
    <2>1. /\ Encode(Rest') \in Seq(Tokens) /\ Messages(Encode(Rest'))
      BY <1>3, EncodeIsTokens, EncodeIsMessages
    <2>2. QED
      BY <1>3, <1>5, <2>1, HeaderSought DEF QueueInv, Begins
  <1>7. HeaderAt(headerPos, hint, buffer)'
    BY <1>1, <1>6
  <1>8. ReaderInv'
    BY <1>1, <1>5, <1>7 DEF ReaderInv
  <1>9. QED
    BY <1>3, <1>8 DEF FramingInv

-----------------------------------------------------------------------------
LEMMA FramingStarts ==
    ASSUME FramingInit
    PROVE  FramingInv
  <1>1. /\ bodies \in Streams /\ unread = Encode(bodies) /\ reader = "idle"
        /\ buffer = <<>> /\ queue = <<>>
    BY DEF FramingInit
  <1>2. Readable(bodies)
    BY <1>1, StreamsAssumption DEF Readable
  <1>3. bodies \in Seq(Seq(Tokens)) /\ Len(bodies) \in Nat /\ Len(queue) = 0
    BY <1>1, <1>2 DEF Readable
  <1>4. queue = SubSeq(bodies, 1, Len(queue))
    BY <1>1, <1>3, SubSeqEmpty
  <1>5. Rest = bodies
    <2>1. Len(queue) + 1 = 1
      BY <1>3
    <2>2. SubSeq(bodies, 1, Len(bodies)) = bodies
      BY <1>3, SubSeqFull
    <2>3. QED
      BY <2>1, <2>2 DEF Rest
  <1>6. unread \in Seq(Tokens) /\ buffer \in Seq(Tokens)
    BY <1>1, <1>2, EncodeIsTokens, EmptySeq
  <1>7. QueueInv
    BY <1>2, <1>3, <1>4, <1>6 DEF QueueInv
  <1>8. ReaderInv
    BY <1>1, <1>5 DEF ReaderInv
  <1>9. QED
    BY <1>7, <1>8 DEF FramingInv

LEMMA FramingSteps ==
    ASSUME FramingInv, [FramingNext]_framingVars
    PROVE  FramingInv'
  <1>1. CASE HandleTcpSocket
    BY <1>1, CallStep
  <1>2. CASE AwaitHeader
    BY <1>2, AwaitHeaderStep
  <1>3. CASE HeaderFound
    BY <1>3, HeaderFoundStep
  <1>4. CASE AwaitSeparator
    BY <1>4, AwaitSeparatorStep
  <1>5. CASE SeparatorFound
    BY <1>5, SeparatorFoundStep
  <1>6. CASE AwaitBody
    BY <1>6, AwaitBodyStep
  <1>7. CASE LastMessage
    BY <1>7, LastMessageStep
  <1>8. CASE NextMessage
    BY <1>8, NextMessageStep
  <1>9. CASE UNCHANGED framingVars
    BY <1>9 DEF FramingInv, QueueInv, ReaderInv, Begins, Rest, framingVars
  <1>10. QED
    BY <1>1, <1>2, <1>3, <1>4, <1>5, <1>6, <1>7, <1>8, <1>9 DEF FramingNext

\* However the stream of the debugger adapter is cut, handle_tcp_socket queues its
\* messages whole and in their order, and a call that returns leaves nothing of the
\* stream in the buffer it throws away (xdap_tcp_client_impl.cpp:285-340): for
\* streams of any length, whatever the bodies hold.
THEOREM StreamIsReadWhole == FramingSpec => []NothingIsCutOff
  <1>1. FramingInit => FramingInv
    BY FramingStarts
  <1>2. FramingInv /\ [FramingNext]_framingVars => FramingInv'
    BY FramingSteps
  <1>3. FramingInv => NothingIsCutOff
    BY DEF FramingInv, QueueInv, ReaderInv, Rest, NothingIsCutOff
  <1>4. QED
    BY <1>1, <1>2, <1>3, PTL DEF FramingSpec

-----------------------------------------------------------------------------
(* handle_tcp_socket implements MessageReader.                              *)

LEMMA FirstAndRest ==
    ASSUME NEW r, Readable(r), r # <<>>
    PROVE  Head(r) = r[1] /\ Tail(r) = SubSeq(r, 2, Len(r))
  <1>1. r \in Seq(Seq(Tokens))
    BY DEF Readable
  <1>2. QED
    BY <1>1, TailIsSubSeq

\* A call begins whatever there is to take.
LEMMA CallBegins ==
    ASSUME HandleTcpSocket
    PROVE  Reader!Call
  <1>1. reader = "idle" /\ reader' = "header" /\ UNCHANGED <<bodies, queue>>
    BY DEF HandleTcpSocket
  <1>2. Rest' = Rest
    BY <1>1 DEF Rest
  <1>3. QED
    BY <1>1, <1>2 DEF Reader!Call

\* A call that goes on has another message to take.
LEMMA MessageTaken ==
    ASSUME FramingInv, LastMessage \/ NextMessage
    PROVE  Reader!Take
  <1>1. /\ reader = "body" /\ Push /\ UNCHANGED <<bodies, unread, buffer>>
        /\ Remaining >= MsgSize
    BY SizesAreNumbers DEF LastMessage, NextMessage
  <1>2. /\ QueueInv' /\ Rest # <<>> /\ queue' = Append(queue, Rest[1])
        /\ Rest' = SubSeq(Rest, 2, Len(Rest))
        /\ \A p : p = MsgPos + MsgSize => Begins(p)'
    BY <1>1, MessageStep
  <1>3. Head(Rest) = Rest[1] /\ Tail(Rest) = SubSeq(Rest, 2, Len(Rest))
    BY <1>2, FirstAndRest, RestIsReadable DEF FramingInv
  <1>4. NextMessage => Rest' # <<>>
    <2> SUFFICES ASSUME NextMessage, Rest' = <<>> PROVE FALSE
      OBVIOUS
    <2>1. PICK p : p = MsgPos + MsgSize
      OBVIOUS
    <2>2. p \in Nat /\ p <= Len(buffer) /\ Len(buffer) \in Nat
      BY <1>1, <2>1, SizesAreNumbers DEF NextMessage, Remaining
    <2>3. Len(buffer \o unread) = p - 1 + Len(Encode(<<>>))
      BY <1>1, <1>2, <2>1 DEF Begins, Ahead
    <2>4. Len(Encode(<<>>)) = 0
      BY EncodeNone
    <2>5. Len(buffer) <= Len(buffer \o unread) /\ Len(buffer \o unread) \in Nat
      BY BufferIsBegun DEF Begun, FramingInv, QueueInv
    <2>6. QED
      BY <2>2, <2>3, <2>4, <2>5
  <1>5. (reader # "idle")' => NextMessage
    BY DEF LastMessage
  <1>6. QED
    BY <1>1, <1>2, <1>3, <1>4, <1>5 DEF Reader!Take

\* The other steps of handle_tcp_socket are within one message.
LEMMA WithinMessage ==
    ASSUME \/ AwaitHeader \/ HeaderFound \/ AwaitSeparator \/ SeparatorFound \/ AwaitBody
           \/ UNCHANGED framingVars
    PROVE  UNCHANGED Reader!vars
  <1>1. UNCHANGED <<bodies, queue>> /\ (reader # "idle")' = (reader # "idle")
    BY DEF AwaitHeader, HeaderFound, AwaitSeparator, SeparatorFound, AwaitBody, framingVars
  <1>2. QED
    BY <1>1 DEF Reader!vars, Rest

\* handle_tcp_socket (xdap_tcp_client_impl.cpp:285-340) takes the messages of any
\* stream one after another, at least one in each call, and does not go on when no
\* other has begun.  However the stream is cut, the loop of the DAP client may be
\* reasoned about as if it received messages, the first of which a call may have
\* to wait for.
THEOREM ReaderIsImplemented == FramingSpec => ImplementsReader
  <1>1. FramingInit => FramingInv /\ Reader!Init
    <2> SUFFICES ASSUME FramingInit PROVE FramingInv /\ Reader!Init
      OBVIOUS
    <2>1. FramingInv
      BY FramingStarts
    <2>2. bodies \in Streams /\ reader = "idle" /\ queue = <<>> /\ Len(queue) = 0
      BY DEF FramingInit
    <2>3. Rest = bodies
      <3>1. bodies \in Seq(Seq(Tokens))
        BY <2>1 DEF FramingInv, QueueInv, Readable
      <3>2. SubSeq(bodies, 1, Len(bodies)) = bodies
        BY <3>1, SubSeqFull
      <3>3. QED
        BY <2>2, <3>2 DEF Rest
    <2>4. QED
      BY <2>1, <2>2, <2>3 DEF Reader!Init
  <1>2. FramingInv /\ [FramingNext]_framingVars => FramingInv'
    BY FramingSteps
  <1>3. FramingInv /\ [FramingNext]_framingVars => [Reader!Next]_(Reader!vars)
    BY CallBegins, MessageTaken, WithinMessage DEF FramingNext, Reader!Next
  <1>4. QED
    BY <1>1, <1>2, <1>3, PTL DEF FramingSpec, ImplementsReader, Reader!Spec

=============================================================================
