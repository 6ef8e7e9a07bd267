-------------------------- MODULE GenerationProofs --------------------------
(***************************************************************************)
(* Theorems about Generation, for every registry, every answer of a        *)
(* provider and every failure: the stream of each adapter is the engine    *)
(* stream that StreamCall pulls, and it shows the content of its outcome.  *)
(* AgreementProofs goes on from here: to what that outcome is.             *)
(***************************************************************************)
EXTENDS Generation, FiniteSetTheorems, TLAPS

\* A set of natural numbers that has zero, and the successor of each, has all:
\* the induction behind every loop.
LEMMA Induction ==
    ASSUME NEW S, 0 \in S, \A n \in Nat : n \in S => n + 1 \in S
    PROVE  Nat \subseteq S
<1> SUFFICES ASSUME ~ (Nat \subseteq S) PROVE FALSE OBVIOUS
<1> DEFINE T == Nat \ S
<1>1. PICK n \in T : \A m \in T : ~ (<<m, n>> \in OpToRel(<, Nat))
  BY NatLessThanWellFounded, WFMin
<1>2. \A m \in T : ~ (m < n)
  BY <1>1 DEF OpToRel
<1>3. n \in Nat /\ n # 0 OBVIOUS
<1>4. n - 1 \in Nat /\ n - 1 < n BY <1>3
<1>5. n - 1 \in S BY <1>2, <1>4
<1>6. (n - 1) + 1 \in S BY <1>4, <1>5
<1> QED BY <1>3, <1>6

\* Two sequences joined are a sequence of both.
LEMMA Joined ==
    ASSUME NEW s, NEW t, IsSequence(s), IsSequence(t)
    PROVE  /\ IsSequence(s \o t)
           /\ Len(s) \in Nat /\ Len(t) \in Nat
           /\ DOMAIN s = 1 .. Len(s) /\ DOMAIN t = 1 .. Len(t)
           /\ Len(s \o t) = Len(s) + Len(t)
           /\ \A i \in 1 .. Len(s) : (s \o t)[i] = s[i]
           /\ \A i \in 1 .. Len(t) : (s \o t)[Len(s) + i] = t[i]
<1> DEFINE S == {s[i] : i \in DOMAIN s} \cup {t[i] : i \in DOMAIN t}
<1>1. s \in Seq(S) /\ t \in Seq(S)
  BY DEF IsSequence
<1> HIDE DEF S
<1>2. /\ s \o t \in Seq(S)
      /\ Len(s) \in Nat /\ Len(t) \in Nat
      /\ DOMAIN s = 1 .. Len(s) /\ DOMAIN t = 1 .. Len(t)
      /\ Len(s \o t) = Len(s) + Len(t)
      /\ \A i \in 1 .. Len(s) : (s \o t)[i] = s[i]
      /\ \A i \in 1 .. Len(t) : (s \o t)[Len(s) + i] = t[i]
  BY <1>1
<1>3. IsSequence(s \o t)
  <2> DEFINE u == s \o t
  <2>1. u \in Seq(S) BY <1>2
  <2> HIDE DEF u
  <2>2. u \in Seq({u[i] : i \in DOMAIN u}) BY <2>1
  <2> QED BY <2>2 DEF IsSequence, u
<1> QED BY <1>2, <1>3

\* What a loop that joins texts has joined after each of them.
Joins(texts, f) ==
    f[0] = <<>> /\ \A n \in 1 .. Len(texts) : f[n] = f[n - 1] \o texts[n]

\* Concat is such a loop.
LEMMA ConcatUnrolls ==
    ASSUME NEW texts, Len(texts) \in Nat
    PROVE  \E f : Joins(texts, f) /\ Concat(texts) = f[Len(texts)]
<1> DEFINE N == Len(texts)
           none == <<>>
           Loops(f, m) == f = [n \in 0 .. m |-> IF n = 0 THEN none ELSE f[n - 1] \o texts[n]]
           joined == CHOOSE f : Loops(f, N)
<1>1. Concat(texts) = joined[N] BY DEF Concat
<1>2. N \in Nat OBVIOUS
<1> HIDE DEF N, none, joined
<1>3. \E f : Loops(f, N)
  <2> DEFINE S == {m \in Nat : \E f : Loops(f, m)}
  <2>1. 0 \in S
    <3> DEFINE g == [n \in 0 .. 0 |-> none]
    <3>1. Loops(g, 0) OBVIOUS
    <3> HIDE DEF Loops, g
    <3> QED BY <3>1
  <2>2. ASSUME NEW m \in Nat, m \in S PROVE m + 1 \in S
    <3>1. PICK f : Loops(f, m)
      <4> HIDE DEF Loops
      <4> QED BY <2>2
    <3> DEFINE next == f[m] \o texts[m + 1]
               g == [n \in 0 .. m + 1 |-> IF n = m + 1 THEN next ELSE f[n]]
    <3>2. \A n \in 0 .. m + 1 : g[n] = IF n = 0 THEN none ELSE g[n - 1] \o texts[n]
      <4> TAKE n \in 0 .. m + 1
      <4>1. CASE n = m + 1
        <5>1. g[n - 1] = f[m] /\ n # 0 BY <4>1
        <5> QED BY <4>1, <5>1
      <4>2. CASE n # m + 1
        <5>1. n \in 0 .. m /\ g[n] = f[n] BY <4>2
        <5>2. f[n] = IF n = 0 THEN none ELSE f[n - 1] \o texts[n] BY <3>1, <5>1
        <5>3. n # 0 => g[n - 1] = f[n - 1] BY <4>2
        <5> QED BY <5>1, <5>2, <5>3
      <4> QED BY <4>1, <4>2
    <3>3. Loops(g, m + 1) BY <3>2
    <3> HIDE DEF Loops, g
    <3> QED BY <3>3
  <2> HIDE DEF Loops
  <2> QED BY <1>2, <2>1, <2>2, Induction
<1>4. Loops(joined, N)
  <2> HIDE DEF Loops
  <2> QED BY <1>3 DEF joined
<1>5. joined[0] = none BY <1>2, <1>4
<1>6. \A n \in 1 .. N : joined[n] = joined[n - 1] \o texts[n]
  <2> TAKE n \in 1 .. N
  <2>1. n \in 0 .. N /\ n # 0 BY <1>2
  <2> QED BY <1>4, <2>1
<1>7. Joins(texts, joined) BY <1>5, <1>6 DEF Joins, N, none
<1> QED BY <1>1, <1>7 DEF N

\* Texts joined are made of what they are made of.
LEMMA JoinedTexts ==
    ASSUME NEW S, NEW texts \in Seq(Seq(S)), NEW f, Joins(texts, f)
    PROVE  \A n \in 0 .. Len(texts) : f[n] \in Seq(S)
<1> DEFINE N == Len(texts)
           A == Seq(S)
           none == <<>>
           T == {n \in Nat : n <= N => f[n] \in A}
<1>1. /\ N \in Nat /\ none \in A
      /\ \A a \in A, i \in 1 .. N : a \o texts[i] \in A
  OBVIOUS
<1>2. f[0] = none /\ \A n \in 1 .. N : f[n] = f[n - 1] \o texts[n] BY DEF Joins
<1> HIDE DEF N, A, none
<1>3. 0 \in T BY <1>1, <1>2
<1>4. ASSUME NEW n \in Nat, n \in T PROVE n + 1 \in T
  <2>1. ASSUME n + 1 <= N PROVE f[n + 1] \in A
    <3>1. f[n] \in A BY <1>4, <2>1, <1>1
    <3>2. n + 1 \in 1 .. N /\ (n + 1) - 1 = n BY <2>1, <1>1
    <3>3. f[n + 1] = f[n] \o texts[n + 1] BY <1>2, <3>2
    <3> QED BY <1>1, <3>1, <3>2, <3>3
  <2> QED BY <2>1
<1>5. Nat \subseteq T
  <2> HIDE DEF T
  <2> QED BY <1>3, <1>4, Induction
<1> QED BY <1>1, <1>5 DEF N, A

LEMMA ConcatLoop ==
    ASSUME NEW S, NEW texts \in Seq(Seq(S))
    PROVE  Concat(texts) \in Seq(S)
<1>1. Len(texts) \in Nat OBVIOUS
<1>2. PICK f : Joins(texts, f) /\ Concat(texts) = f[Len(texts)] BY <1>1, ConcatUnrolls
<1>3. \A n \in 0 .. Len(texts) : f[n] \in Seq(S) BY <1>2, JoinedTexts
<1>4. Len(texts) \in 0 .. Len(texts) BY <1>1
<1> QED BY <1>2, <1>3, <1>4

\* The calls among the blocks of an answer are in order (EngineCommon, ToolsOf).
LEMMA ToolsLoop ==
    ASSUME NEW blocks, IsSequence(blocks)
    PROVE  IsSequence(ToolsOf(blocks))
<1> DEFINE B == {blocks[i] : i \in DOMAIN blocks}
           pieces == [i \in DOMAIN blocks |->
                        IF blocks[i].type = "tool" THEN <<blocks[i]>> ELSE <<>>]
           tools == Concat(pieces)
<1>1. ToolsOf(blocks) = tools BY DEF ToolsOf
<1>2. pieces \in Seq(Seq(B))
  <2>1. Len(blocks) \in Nat /\ DOMAIN blocks = 1 .. Len(blocks) BY DEF IsSequence
  <2>2. ASSUME NEW i \in DOMAIN blocks PROVE pieces[i] \in Seq(B)
    <3>1. pieces[i] = <<blocks[i]>> \/ pieces[i] = <<>> OBVIOUS
    <3>2. blocks[i] \in B OBVIOUS
    <3> HIDE DEF pieces, B
    <3>3. <<>> \in Seq(B) /\ \A b \in B : <<b>> \in Seq(B) OBVIOUS
    <3>4. <<blocks[i]>> \in Seq(B) BY <3>2, <3>3
    <3> QED BY <3>1, <3>3, <3>4
  <2>3. DOMAIN pieces = 1 .. Len(blocks) /\ pieces = [i \in 1 .. Len(blocks) |-> pieces[i]]
    BY <2>1
  <2> HIDE DEF pieces, B
  <2> QED BY <2>1, <2>2, <2>3
<1> HIDE DEF pieces, B
<1>3. tools \in Seq(B) BY <1>2, ConcatLoop
<1> HIDE DEF tools
<1>4. IsSequence(tools) BY <1>3 DEF IsSequence
<1> QED BY <1>1, <1>4

\* Sequences joined one after the other: in any order.
LEMMA JoinsAssociate ==
    ASSUME NEW S, NEW a \in Seq(S), NEW b \in Seq(S), NEW c \in Seq(S)
    PROVE  /\ a \o b \in Seq(S)
           /\ (a \o b) \o c = a \o (b \o c)
           /\ a \o <<>> = a /\ <<>> \o a = a
  OBVIOUS

\* A sequence that is two others, one after the other.
BothIn(u, s, t) ==
    /\ DOMAIN u = 1 .. Len(s) + Len(t)
    /\ u = [i \in DOMAIN u |-> u[i]]
    /\ \A i \in 1 .. Len(s) : u[i] = s[i]
    /\ \A i \in 1 .. Len(t) : u[Len(s) + i] = t[i]

LEMMA IsJoin ==
    ASSUME NEW s, NEW t, IsSequence(s), IsSequence(t), NEW u, BothIn(u, s, t)
    PROVE  u = s \o t
<1> USE DEF BothIn
<1> DEFINE v == s \o t
           n == Len(s)
           m == Len(t)
<1>1. /\ IsSequence(v)
      /\ n \in Nat /\ m \in Nat
      /\ Len(v) = n + m
      /\ \A i \in 1 .. n : v[i] = s[i]
      /\ \A i \in 1 .. m : v[n + i] = t[i]
  BY Joined
<1> HIDE DEF v
<1>2. DOMAIN v = 1 .. n + m /\ v = [i \in 1 .. n + m |-> v[i]] BY <1>1 DEF IsSequence
<1>3. ASSUME NEW i \in 1 .. n + m PROVE u[i] = v[i]
  <2>1. CASE i \in 1 .. n BY <1>1, <2>1
  <2>2. CASE i \notin 1 .. n
    <3> DEFINE j == i - n
    <3>1. j \in 1 .. m /\ i = n + j BY <1>1, <2>2
    <3> HIDE DEF j
    <3> QED BY <1>1, <3>1
  <2> QED BY <2>1, <2>2
<1>4. u = [i \in 1 .. n + m |-> u[i]] OBVIOUS
<1> HIDE DEF n, m
<1>5. u = v BY <1>2, <1>3, <1>4
<1> QED BY <1>5 DEF v

\* Texts and more texts joined are the texts joined, and then the others.
LEMMA ConcatJoins ==
    ASSUME NEW S, NEW a \in Seq(Seq(S)), NEW b \in Seq(Seq(S))
    PROVE  Concat(a \o b) = Concat(a) \o Concat(b)
<1> DEFINE n == Len(a)
           m == Len(b)
           u == a \o b
           A == Seq(S)
           none == <<>>
<1>1. /\ u \in Seq(A) /\ n \in Nat /\ m \in Nat /\ Len(u) = n + m
      /\ \A i \in 1 .. n : u[i] = a[i]
      /\ \A i \in 1 .. m : u[n + i] = b[i]
      /\ \A i \in 1 .. m : b[i] \in A
  OBVIOUS
<1>2. PICK fa : Joins(a, fa) /\ Concat(a) = fa[n] BY <1>1, ConcatUnrolls
<1>3. PICK fb : Joins(b, fb) /\ Concat(b) = fb[m] BY <1>1, ConcatUnrolls
<1>4. PICK fu : Joins(u, fu) /\ Concat(u) = fu[Len(u)]
  <2> HIDE DEF u
  <2>1. Len(u) \in Nat BY <1>1
  <2> QED BY <2>1, ConcatUnrolls
<1>5. /\ \A k \in 0 .. n : fa[k] \in A
      /\ \A k \in 0 .. m : fb[k] \in A
  BY <1>2, <1>3, JoinedTexts
<1>6. /\ fa[0] = none /\ \A k \in 1 .. n : fa[k] = fa[k - 1] \o a[k]
      /\ fb[0] = none /\ \A k \in 1 .. m : fb[k] = fb[k - 1] \o b[k]
      /\ fu[0] = none /\ \A k \in 1 .. n + m : fu[k] = fu[k - 1] \o u[k]
  <2>1. Len(u) = n + m BY <1>1
  <2> HIDE DEF u
  <2> QED BY <1>2, <1>3, <1>4, <2>1 DEF Joins
<1>7. /\ \A x, y, z \in A : (x \o y) \o z = x \o (y \o z)
      /\ \A x \in A : x \o none = x
  BY JoinsAssociate
<1> HIDE DEF n, m, u, A, none
<1> DEFINE T == {k \in Nat : k <= n => fu[k] = fa[k]}
<1>8. Nat \subseteq T
  <2>1. 0 \in T BY <1>6
  <2>2. ASSUME NEW k \in Nat, k \in T PROVE k + 1 \in T
    <3>1. ASSUME k + 1 <= n PROVE fu[k + 1] = fa[k + 1]
      <4>1. fu[k] = fa[k] BY <1>1, <2>2, <3>1
      <4>2. k + 1 \in 1 .. n /\ k + 1 \in 1 .. n + m /\ (k + 1) - 1 = k BY <1>1, <3>1
      <4>3. fu[k + 1] = fu[k] \o u[k + 1] /\ fa[k + 1] = fa[k] \o a[k + 1] BY <1>6, <4>2
      <4> QED BY <1>1, <4>1, <4>2, <4>3
    <3> QED BY <3>1
  <2> HIDE DEF T
  <2> QED BY <2>1, <2>2, Induction
<1> DEFINE both(k) == fa[n] \o fb[k]
           U == {k \in Nat : k <= m => fu[n + k] = both(k)}
<1>9. Nat \subseteq U
  <2>1. 0 \in U
    <3>1. fu[n] = fa[n] /\ fa[n] \in A BY <1>1, <1>5, <1>8
    <3>2. n + 0 = n BY <1>1
    <3>3. both(0) = fa[n] BY <1>6, <1>7, <3>1
    <3> HIDE DEF both
    <3> QED BY <3>1, <3>2, <3>3
  <2>2. ASSUME NEW k \in Nat, k \in U PROVE k + 1 \in U
    <3>1. ASSUME k + 1 <= m PROVE fu[n + (k + 1)] = both(k + 1)
      <4>1. fu[n + k] = both(k)
        <5> HIDE DEF both
        <5> QED BY <1>1, <2>2, <3>1
      <4>2. /\ k + 1 \in 1 .. m /\ n + (k + 1) \in 1 .. n + m /\ k \in 0 .. m
            /\ (k + 1) - 1 = k /\ (n + (k + 1)) - 1 = n + k
        BY <1>1, <3>1
      <4>3. fu[n + (k + 1)] = fu[n + k] \o u[n + (k + 1)] BY <1>6, <4>2
      <4>4. fb[k + 1] = fb[k] \o b[k + 1] BY <1>6, <4>2
      <4>5. u[n + (k + 1)] = b[k + 1] /\ b[k + 1] \in A BY <1>1, <4>2
      <4>6. fa[n] \in A /\ fb[k] \in A BY <1>1, <1>5, <4>2
      <4>7. (fa[n] \o fb[k]) \o b[k + 1] = fa[n] \o (fb[k] \o b[k + 1])
        BY <1>7, <4>5, <4>6
      <4> QED BY Zenon, <4>1, <4>3, <4>4, <4>5, <4>7
    <3> HIDE DEF both
    <3> QED BY <3>1
  <2> HIDE DEF U
  <2> QED BY <2>1, <2>2, Induction
<1>10. fu[n + m] = both(m)
  <2> HIDE DEF both
  <2> QED BY <1>1, <1>9
<1>11. Len(u) = n + m BY <1>1
<1> QED BY Zenon, <1>2, <1>3, <1>4, <1>10, <1>11 DEF u

\* A sequence of sequences, and what joining it gives.
Pieces(p) == IsSequence(p) /\ \A i \in DOMAIN p : IsSequence(p[i])

LEMMA PiecesTyped ==
    ASSUME NEW a, NEW b, Pieces(a), Pieces(b)
    PROVE  \E S : a \in Seq(Seq(S)) /\ b \in Seq(Seq(S))
<1> DEFINE Of(p) == UNION {{p[i][k] : k \in DOMAIN p[i]} : i \in DOMAIN p}
           S == Of(a) \cup Of(b)
<1>1. ASSUME NEW p, Pieces(p), Of(p) \subseteq S PROVE p \in Seq(Seq(S))
  <2>1. ASSUME NEW i \in DOMAIN p PROVE p[i] \in Seq(S)
    <3> DEFINE s == p[i]
               X == {s[k] : k \in DOMAIN s}
    <3>1. s \in Seq(X) BY <1>1 DEF Pieces, IsSequence
    <3>2. X \subseteq Of(p) OBVIOUS
    <3>3. X \subseteq S BY <1>1, <3>2
    <3> HIDE DEF s, S, X
    <3>4. s \in Seq(S) BY <3>1, <3>3
    <3> QED BY <3>4 DEF s
  <2> HIDE DEF S
  <2> QED BY <1>1, <2>1 DEF Pieces, IsSequence
<1>2. a \in Seq(Seq(S)) /\ b \in Seq(Seq(S))
  <2>1. Of(a) \subseteq S /\ Of(b) \subseteq S OBVIOUS
  <2> HIDE DEF S
  <2> QED BY <1>1, <2>1
<1> HIDE DEF S
<1> QED BY <1>2

LEMMA PiecesJoin ==
    ASSUME NEW a, NEW b, Pieces(a), Pieces(b)
    PROVE  /\ Concat(a \o b) = Concat(a) \o Concat(b)
           /\ IsSequence(Concat(a)) /\ IsSequence(Concat(b))
<1>1. PICK S : a \in Seq(Seq(S)) /\ b \in Seq(Seq(S)) BY PiecesTyped
<1>2. Concat(a \o b) = Concat(a) \o Concat(b) BY <1>1, ConcatJoins
<1> DEFINE x == Concat(a)
           y == Concat(b)
<1>3. x \in Seq(S) /\ y \in Seq(S) BY <1>1, ConcatLoop
<1> HIDE DEF x, y
<1>4. IsSequence(x) /\ IsSequence(y) BY <1>3 DEF IsSequence
<1> QED BY <1>2, <1>4 DEF x, y

\* Nothing joined is nothing, one text is itself.
LEMMA ConcatFew ==
    /\ Concat(<<>>) = <<>>
    /\ \A x : IsSequence(x) => Concat(<<x>>) = x
<1>1. Concat(<<>>) = <<>>
  <2> DEFINE p == <<>>
  <2>1. Len(p) = 0 OBVIOUS
  <2>2. PICK f : Joins(p, f) /\ Concat(p) = f[0] BY <2>1, ConcatUnrolls
  <2> QED BY <2>2 DEF Joins
<1>2. ASSUME NEW x, IsSequence(x) PROVE Concat(<<x>>) = x
  <2> DEFINE p == <<x>>
             none == <<>>
  <2>1. Len(p) = 1 /\ p[1] = x OBVIOUS
  <2> HIDE DEF p
  <2>2. Len(p) \in Nat BY <2>1
  <2>3. PICK f : Joins(p, f) /\ Concat(p) = f[Len(p)] BY <2>2, ConcatUnrolls
  <2>4. f[0] = none /\ f[1] = f[0] \o x
    <3>1. 1 \in 1 .. Len(p) /\ 1 - 1 = 0 BY <2>1
    <3>2. f[1] = f[1 - 1] \o p[1] /\ f[0] = none BY <2>3, <3>1 DEF Joins
    <3> QED BY <2>1, <3>1, <3>2
  <2>5. none \o x = x BY <1>2, JoinsAssociate DEF IsSequence
  <2> QED BY <2>1, <2>3, <2>4, <2>5 DEF p
<1> QED BY <1>1, <1>2

\* A sequence element by element is a sequence.
LEMMA AsManyAs ==
    ASSUME NEW s, IsSequence(s), NEW t, DOMAIN t = DOMAIN s, t = [i \in DOMAIN s |-> t[i]]
    PROVE  IsSequence(t)
<1>1. Len(s) \in Nat /\ DOMAIN s = 1 .. Len(s) BY DEF IsSequence
<1>2. t = [i \in 1 .. Len(s) |-> t[i]] BY <1>1
<1> QED BY <1>1, <1>2 DEF IsSequence

\* A sequence made of another, element by element, and two made alike.
MadeOf(p, a) == DOMAIN p = DOMAIN a /\ p = [i \in DOMAIN a |-> p[i]]
Alike(r, u, p, a) == \A i \in DOMAIN a, k \in DOMAIN u : u[k] = a[i] => r[k] = p[i]

LEMMA MadeIsSequence ==
    ASSUME NEW s, IsSequence(s), NEW p, MadeOf(p, s)
    PROVE  IsSequence(p) /\ Len(p) = Len(s)
<1>1. IsSequence(p) BY AsManyAs DEF MadeOf
<1>2. /\ DOMAIN p = 1 .. Len(p) /\ Len(p) \in Nat
      /\ DOMAIN p = 1 .. Len(s) /\ Len(s) \in Nat
  BY <1>1 DEF MadeOf, IsSequence
<1>3. \A m, n \in Nat : 1 .. m = 1 .. n => m = n
  <2> SUFFICES ASSUME NEW m \in Nat, NEW n \in Nat, 1 .. m = 1 .. n, m < n PROVE FALSE
    OBVIOUS
  <2>1. n \in 1 .. n /\ n \notin 1 .. m OBVIOUS
  <2> QED BY <2>1
<1> QED BY <1>1, <1>2, <1>3

\* What is made of two sequences joins as they do.
LEMMA MapJoins ==
    ASSUME NEW a, NEW b, IsSequence(a), IsSequence(b), NEW p, NEW q, NEW r,
           MadeOf(p, a), MadeOf(q, b), MadeOf(r, a \o b),
           Alike(r, a \o b, p, a), Alike(r, a \o b, q, b)
    PROVE  r = p \o q
<1> DEFINE u == a \o b
<1>1. /\ IsSequence(u)
      /\ Len(a) \in Nat /\ Len(b) \in Nat
      /\ DOMAIN a = 1 .. Len(a) /\ DOMAIN b = 1 .. Len(b)
      /\ Len(u) = Len(a) + Len(b)
      /\ \A i \in 1 .. Len(a) : u[i] = a[i]
      /\ \A i \in 1 .. Len(b) : u[Len(a) + i] = b[i]
  BY Joined
<1>2. MadeOf(r, u) /\ Alike(r, u, p, a) /\ Alike(r, u, q, b) OBVIOUS
<1> HIDE DEF u
<1>3. DOMAIN u = 1 .. Len(a) + Len(b) BY <1>1 DEF IsSequence
<1>4. IsSequence(p) /\ IsSequence(q) BY MadeIsSequence
<1>5. Len(p) = Len(a) /\ Len(q) = Len(b) BY MadeIsSequence
<1>6. \A i \in 1 .. Len(p) : r[i] = p[i]
  <2> TAKE i \in 1 .. Len(p)
  <2>1. i \in DOMAIN u /\ i \in DOMAIN a /\ u[i] = a[i] BY <1>1, <1>3, <1>5
  <2> QED BY <1>2, <2>1 DEF Alike
<1>7. \A i \in 1 .. Len(q) : r[Len(p) + i] = q[i]
  <2> TAKE i \in 1 .. Len(q)
  <2>1. Len(p) + i \in DOMAIN u /\ i \in DOMAIN b /\ u[Len(p) + i] = b[i] BY <1>1, <1>3, <1>5
  <2> QED BY <1>2, <2>1 DEF Alike
<1>8. BothIn(r, p, q) BY <1>2, <1>3, <1>5, <1>6, <1>7 DEF MadeOf, BothIn
<1> QED BY <1>4, <1>8, IsJoin

\* The first elements of a sequence.
Initial(s, n) == [i \in 1 .. n |-> s[i]]

LEMMA Initials ==
    ASSUME NEW s, IsSequence(s)
    PROVE  /\ Initial(s, 0) = <<>> /\ Initial(s, Len(s)) = s
           /\ \A n \in 1 .. Len(s) : Initial(s, n - 1) \o <<s[n]>> = Initial(s, n)
<1>1. Len(s) \in Nat /\ DOMAIN s = 1 .. Len(s) /\ s = [i \in 1 .. Len(s) |-> s[i]]
  BY DEF IsSequence
<1>2. Initial(s, Len(s)) = s BY <1>1 DEF Initial
<1>3. Initial(s, 0) = <<>> BY DEF Initial
<1>4. ASSUME NEW n \in 1 .. Len(s) PROVE Initial(s, n - 1) \o <<s[n]>> = Initial(s, n)
  <2> DEFINE a == Initial(s, n - 1)
             b == <<s[n]>>
             u == Initial(s, n)
  <2>1. n - 1 \in Nat BY <1>1
  <2>2. IsSequence(a) /\ Len(a) = n - 1 /\ \A i \in 1 .. n - 1 : a[i] = s[i]
    BY <2>1 DEF Initial, IsSequence
  <2>3. IsSequence(b) /\ Len(b) = 1 /\ b[1] = s[n] BY DEF IsSequence
  <2>4. DOMAIN u = 1 .. n /\ u = [i \in DOMAIN u |-> u[i]] /\ \A i \in 1 .. n : u[i] = s[i]
    BY DEF Initial
  <2> HIDE DEF a, b, u
  <2>5. BothIn(u, a, b)
    <3>1. Len(a) + Len(b) = n BY <1>1, <2>2, <2>3
    <3>2. \A i \in 1 .. Len(a) : u[i] = a[i] BY <1>1, <2>2, <2>4
    <3>3. \A i \in 1 .. Len(b) : Len(a) + i = n /\ i = 1 BY <1>1, <2>2, <2>3
    <3>4. \A i \in 1 .. Len(b) : u[Len(a) + i] = b[i]
      <4> TAKE i \in 1 .. Len(b)
      <4>1. Len(a) + i = n /\ i = 1 BY <3>3
      <4>2. u[n] = s[n] BY <1>1, <2>4
      <4> QED BY <4>1, <4>2, <2>3
    <3> QED BY <2>4, <3>1, <3>2, <3>4 DEF BothIn
  <2>6. u = a \o b BY <2>2, <2>3, <2>5, IsJoin
  <2> QED BY <2>6 DEF a, b, u
<1> QED BY <1>2, <1>3, <1>4

\* Every element joined is the sequence.
LEMMA ConcatSingles ==
    ASSUME NEW s, IsSequence(s)
    PROVE  Concat([i \in DOMAIN s |-> <<s[i]>>]) = s
<1> DEFINE N == Len(s)
           pieces == [i \in DOMAIN s |-> <<s[i]>>]
           none == <<>>
<1>1. N \in Nat /\ DOMAIN s = 1 .. N BY DEF IsSequence
<1>2. Len(pieces) = N /\ \A n \in 1 .. N : pieces[n] = <<s[n]>> BY <1>1
<1> HIDE DEF pieces
<1>3. PICK f : Joins(pieces, f) /\ Concat(pieces) = f[Len(pieces)] BY <1>1, <1>2, ConcatUnrolls
<1>4. f[0] = none /\ \A n \in 1 .. N : f[n] = f[n - 1] \o <<s[n]>>
  BY <1>2, <1>3 DEF Joins
<1>5. /\ Initial(s, 0) = none /\ Initial(s, N) = s
      /\ \A n \in 1 .. N : Initial(s, n - 1) \o <<s[n]>> = Initial(s, n)
  BY Initials
<1> HIDE DEF none, N
<1> DEFINE T == {n \in Nat : n <= N => f[n] = Initial(s, n)}
<1>6. 0 \in T BY <1>4, <1>5
<1>7. ASSUME NEW n \in Nat, n \in T PROVE n + 1 \in T
  <2>1. ASSUME n + 1 <= N PROVE f[n + 1] = Initial(s, n + 1)
    <3>1. f[n] = Initial(s, n) BY <1>1, <1>7, <2>1
    <3>2. n + 1 \in 1 .. N /\ (n + 1) - 1 = n BY <1>1, <2>1
    <3>3. f[n + 1] = f[(n + 1) - 1] \o <<s[n + 1]>> BY <1>4, <3>2
    <3>4. Initial(s, (n + 1) - 1) \o <<s[n + 1]>> = Initial(s, n + 1) BY <1>5, <3>2
    <3> QED BY <3>1, <3>2, <3>3, <3>4
  <2> QED BY <2>1
<1>8. N \in T
  <2> HIDE DEF T
  <2> QED BY <1>1, <1>6, <1>7, Induction
<1> QED BY <1>1, <1>2, <1>3, <1>5, <1>8 DEF pieces

\* Events, or blocks, whose texts are texts.
Worded(es) == IsSequence(es) /\ \A i \in DOMAIN es : es[i].event = "text" => IsSequence(es[i].text)
WordedBlocks(blocks) ==
    IsSequence(blocks) /\ \A i \in DOMAIN blocks : blocks[i].type = "text" => IsSequence(blocks[i].text)

TextPieces(es) == [i \in DOMAIN es |-> IF es[i].event = "text" THEN es[i].text ELSE <<>>]
CallPieces(es) == [i \in DOMAIN es |-> IF es[i].event = "done" THEN <<es[i].call>> ELSE <<>>]
WordPieces(blocks) ==
    [i \in DOMAIN blocks |-> IF blocks[i].type = "text" THEN blocks[i].text ELSE <<>>]
ToolPieces(blocks) ==
    [i \in DOMAIN blocks |-> IF blocks[i].type = "tool" THEN <<blocks[i]>> ELSE <<>>]

LEMMA EventPieces ==
    ASSUME NEW es, Worded(es)
    PROVE  Pieces(TextPieces(es)) /\ Pieces(CallPieces(es))
<1> DEFINE p == TextPieces(es)
           q == CallPieces(es)
<1>1. IsSequence(<<>>) /\ \A x : IsSequence(<<x>>) BY DEF IsSequence
<1>2. \A i \in DOMAIN es : IsSequence(p[i]) BY <1>1 DEF TextPieces, Worded
<1>3. \A i \in DOMAIN es : IsSequence(q[i]) BY <1>1 DEF CallPieces
<1>4. /\ DOMAIN p = DOMAIN es /\ p = [i \in DOMAIN es |-> p[i]]
      /\ DOMAIN q = DOMAIN es /\ q = [i \in DOMAIN es |-> q[i]]
  BY DEF TextPieces, CallPieces
<1> HIDE DEF p, q
<1>5. IsSequence(es) BY DEF Worded
<1>6. IsSequence(p) /\ IsSequence(q) BY <1>4, <1>5, AsManyAs
<1>7. Pieces(p) /\ Pieces(q) BY <1>2, <1>3, <1>4, <1>6 DEF Pieces
<1> QED BY <1>7 DEF p, q

LEMMA BlockPieces ==
    ASSUME NEW blocks, WordedBlocks(blocks)
    PROVE  Pieces(WordPieces(blocks)) /\ Pieces(ToolPieces(blocks))
<1> DEFINE p == WordPieces(blocks)
           q == ToolPieces(blocks)
<1>1. IsSequence(<<>>) /\ \A x : IsSequence(<<x>>) BY DEF IsSequence
<1>2. \A i \in DOMAIN blocks : IsSequence(p[i]) BY <1>1 DEF WordPieces, WordedBlocks
<1>3. \A i \in DOMAIN blocks : IsSequence(q[i]) BY <1>1 DEF ToolPieces
<1>4. /\ DOMAIN p = DOMAIN blocks /\ p = [i \in DOMAIN blocks |-> p[i]]
      /\ DOMAIN q = DOMAIN blocks /\ q = [i \in DOMAIN blocks |-> q[i]]
  BY DEF WordPieces, ToolPieces
<1> HIDE DEF p, q
<1>5. IsSequence(blocks) BY DEF WordedBlocks
<1>6. IsSequence(p) /\ IsSequence(q) BY <1>4, <1>5, AsManyAs
<1>7. Pieces(p) /\ Pieces(q) BY <1>2, <1>3, <1>4, <1>6 DEF Pieces
<1> QED BY <1>7 DEF p, q

\* Joined events, and joined blocks, are worded.
LEMMA WordedJoin ==
    ASSUME NEW a, NEW b
    PROVE  /\ Worded(a) /\ Worded(b) => Worded(a \o b)
           /\ WordedBlocks(a) /\ WordedBlocks(b) => WordedBlocks(a \o b)
<1> DEFINE u == a \o b
<1>1. ASSUME IsSequence(a), IsSequence(b)
      PROVE  /\ IsSequence(u)
             /\ \A k \in DOMAIN u : \/ \E i \in DOMAIN a : u[k] = a[i]
                                    \/ \E i \in DOMAIN b : u[k] = b[i]
  <2>1. /\ IsSequence(u)
        /\ Len(a) \in Nat /\ Len(b) \in Nat
        /\ DOMAIN a = 1 .. Len(a) /\ DOMAIN b = 1 .. Len(b)
        /\ Len(u) = Len(a) + Len(b)
        /\ \A i \in 1 .. Len(a) : u[i] = a[i]
        /\ \A i \in 1 .. Len(b) : u[Len(a) + i] = b[i]
    BY <1>1, Joined
  <2> HIDE DEF u
  <2>2. DOMAIN u = 1 .. Len(a) + Len(b) BY <2>1 DEF IsSequence
  <2>3. ASSUME NEW k \in DOMAIN u
        PROVE  (\E i \in DOMAIN a : u[k] = a[i]) \/ (\E i \in DOMAIN b : u[k] = b[i])
    <3>1. CASE k \in 1 .. Len(a) BY <2>1, <3>1
    <3>2. CASE k \notin 1 .. Len(a)
      <4> DEFINE j == k - Len(a)
      <4>1. j \in 1 .. Len(b) /\ k = Len(a) + j BY <2>1, <2>2, <3>2
      <4> HIDE DEF j
      <4> QED BY <2>1, <4>1
    <3> QED BY <3>1, <3>2
  <2> QED BY <2>1, <2>3
<1> HIDE DEF u
<1>2. Worded(a) /\ Worded(b) => Worded(u) BY <1>1 DEF Worded
<1>3. WordedBlocks(a) /\ WordedBlocks(b) => WordedBlocks(u) BY <1>1 DEF WordedBlocks
<1> QED BY <1>2, <1>3 DEF u

\* What joined events show.
LEMMA ShowingJoins ==
    ASSUME NEW a, NEW b, Worded(a), Worded(b)
    PROVE  /\ TextShown(a \o b) = TextShown(a) \o TextShown(b)
           /\ CallsDone(a \o b) = CallsDone(a) \o CallsDone(b)
           /\ IsSequence(TextShown(a)) /\ IsSequence(CallsDone(a))
<1> DEFINE u == a \o b
<1>1. IsSequence(a) /\ IsSequence(b) BY DEF Worded
<1>2. TextPieces(u) = TextPieces(a) \o TextPieces(b)
  <2> DEFINE p == TextPieces(a)
             q == TextPieces(b)
             r == TextPieces(u)
  <2>1. MadeOf(p, a) /\ MadeOf(q, b) /\ MadeOf(r, u) BY DEF MadeOf, TextPieces
  <2>2. Alike(r, u, p, a) /\ Alike(r, u, q, b)
    <3> HIDE DEF u
    <3> QED BY DEF Alike, TextPieces
  <2> HIDE DEF p, q, r
  <2>3. r = p \o q BY <1>1, <2>1, <2>2, MapJoins
  <2> QED BY <2>3 DEF p, q, r
<1>3. CallPieces(u) = CallPieces(a) \o CallPieces(b)
  <2> DEFINE p == CallPieces(a)
             q == CallPieces(b)
             r == CallPieces(u)
  <2>1. MadeOf(p, a) /\ MadeOf(q, b) /\ MadeOf(r, u) BY DEF MadeOf, CallPieces
  <2>2. Alike(r, u, p, a) /\ Alike(r, u, q, b)
    <3> HIDE DEF u
    <3> QED BY DEF Alike, CallPieces
  <2> HIDE DEF p, q, r
  <2>3. r = p \o q BY <1>1, <2>1, <2>2, MapJoins
  <2> QED BY <2>3 DEF p, q, r
<1>4. \A es : TextShown(es) = Concat(TextPieces(es)) /\ CallsDone(es) = Concat(CallPieces(es))
  BY DEF TextShown, CallsDone, TextPieces, CallPieces
<1>5. /\ Pieces(TextPieces(a)) /\ Pieces(TextPieces(b))
      /\ Pieces(CallPieces(a)) /\ Pieces(CallPieces(b))
  BY EventPieces
<1>6. Concat(TextPieces(u)) = Concat(TextPieces(a)) \o Concat(TextPieces(b))
        /\ IsSequence(Concat(TextPieces(a)))
  BY <1>2, <1>5, PiecesJoin
<1>7. Concat(CallPieces(u)) = Concat(CallPieces(a)) \o Concat(CallPieces(b))
        /\ IsSequence(Concat(CallPieces(a)))
  BY <1>3, <1>5, PiecesJoin
<1> QED BY <1>4, <1>6, <1>7

\* What joined blocks say.
LEMMA BlocksJoin ==
    ASSUME NEW a, NEW b, WordedBlocks(a), WordedBlocks(b)
    PROVE  /\ TextOf(a \o b) = TextOf(a) \o TextOf(b)
           /\ GeminiCalls(a \o b) = GeminiCalls(a) \o GeminiCalls(b)
           /\ ToolsOf(a \o b) = ToolsOf(a) \o ToolsOf(b)
           /\ IsSequence(TextOf(a)) /\ IsSequence(GeminiCalls(a)) /\ IsSequence(ToolsOf(a))
<1> DEFINE u == a \o b
<1>1. IsSequence(a) /\ IsSequence(b) BY DEF WordedBlocks
<1>2. WordPieces(u) = WordPieces(a) \o WordPieces(b)
  <2> DEFINE p == WordPieces(a)
             q == WordPieces(b)
             r == WordPieces(u)
  <2>1. MadeOf(p, a) /\ MadeOf(q, b) /\ MadeOf(r, u) BY DEF MadeOf, WordPieces
  <2>2. Alike(r, u, p, a) /\ Alike(r, u, q, b)
    <3> HIDE DEF u
    <3> QED BY DEF Alike, WordPieces
  <2> HIDE DEF p, q, r
  <2>3. r = p \o q BY <1>1, <2>1, <2>2, MapJoins
  <2> QED BY <2>3 DEF p, q, r
<1>3. ToolPieces(u) = ToolPieces(a) \o ToolPieces(b)
  <2> DEFINE p == ToolPieces(a)
             q == ToolPieces(b)
             r == ToolPieces(u)
  <2>1. MadeOf(p, a) /\ MadeOf(q, b) /\ MadeOf(r, u) BY DEF MadeOf, ToolPieces
  <2>2. Alike(r, u, p, a) /\ Alike(r, u, q, b)
    <3> HIDE DEF u
    <3> QED BY DEF Alike, ToolPieces
  <2> HIDE DEF p, q, r
  <2>3. r = p \o q BY <1>1, <2>1, <2>2, MapJoins
  <2> QED BY <2>3 DEF p, q, r
<1>4. \A x : TextOf(x) = Concat(WordPieces(x)) /\ ToolsOf(x) = Concat(ToolPieces(x))
  BY DEF TextOf, ToolsOf, WordPieces, ToolPieces
<1>5. /\ Pieces(WordPieces(a)) /\ Pieces(WordPieces(b))
      /\ Pieces(ToolPieces(a)) /\ Pieces(ToolPieces(b))
  BY BlockPieces
<1>6. TextOf(u) = TextOf(a) \o TextOf(b) /\ IsSequence(TextOf(a))
  BY <1>2, <1>4, <1>5, PiecesJoin
<1>7. /\ ToolsOf(u) = ToolsOf(a) \o ToolsOf(b)
      /\ IsSequence(ToolsOf(a)) /\ IsSequence(ToolsOf(b))
  BY <1>3, <1>4, <1>5, PiecesJoin
<1>8. GeminiCalls(u) = GeminiCalls(a) \o GeminiCalls(b) /\ IsSequence(GeminiCalls(a))
  <2> DEFINE s == ToolsOf(a)
             t == ToolsOf(b)
             v == ToolsOf(u)
             p == GeminiCalls(a)
             q == GeminiCalls(b)
             r == GeminiCalls(u)
  <2>1. MadeOf(p, s) /\ MadeOf(q, t) /\ MadeOf(r, v) BY DEF MadeOf, GeminiCalls
  <2>2. Alike(r, v, p, s) /\ Alike(r, v, q, t)
    <3> DEFINE Made(x) == [i \in DOMAIN x |-> [id |-> x[i].id, name |-> x[i].name,
                                               arguments |-> x[i].arguments]]
    <3>1. p = Made(s) /\ q = Made(t) /\ r = Made(v) BY DEF GeminiCalls
    <3> HIDE DEF p, q, r, s, t, v
    <3> QED BY <3>1 DEF Alike
  <2>3. v = s \o t BY <1>7
  <2>4. IsSequence(s) /\ IsSequence(t) BY <1>7
  <2> HIDE DEF p, q, r, s, t, v
  <2>5. r = p \o q BY <2>1, <2>2, <2>3, <2>4, MapJoins
  <2>6. IsSequence(p) BY <2>1, <2>4, AsManyAs DEF MadeOf
  <2> QED BY <2>5, <2>6 DEF p, q, r
<1> QED BY <1>6, <1>7, <1>8

\* Events, and the text and the calls they show.
Shown(es, text, done) == Worded(es) /\ TextShown(es) = text /\ CallsDone(es) = done

LEMMA ShownJoin ==
    ASSUME NEW a, NEW b, NEW text, NEW more, NEW done, NEW others,
           Shown(a, text, done), Shown(b, more, others)
    PROVE  Shown(a \o b, text \o more, done \o others)
  BY WordedJoin, ShowingJoins DEF Shown

LEMMA ShownFew ==
    /\ Shown(<<>>, <<>>, <<>>)
    /\ \A text : IsSequence(text) => Shown(<<TextDelta(text)>>, text, <<>>)
    /\ \A given : Shown(<<ToolDone(given)>>, <<>>, <<given>>)
    /\ \A e : e.event \notin {"text", "done"} => Shown(<<e>>, <<>>, <<>>)
<1>1. \A es : TextShown(es) = Concat(TextPieces(es)) /\ CallsDone(es) = Concat(CallPieces(es))
  BY DEF TextShown, CallsDone, TextPieces, CallPieces
<1>2. IsSequence(<<>>) /\ \A x : IsSequence(<<x>>) BY DEF IsSequence
<1>3. Shown(<<>>, <<>>, <<>>)
  <2>1. TextPieces(<<>>) = <<>> /\ CallPieces(<<>>) = <<>> BY DEF TextPieces, CallPieces
  <2>2. Worded(<<>>) BY <1>2 DEF Worded
  <2> QED BY <1>1, <2>1, <2>2, ConcatFew DEF Shown
<1>4. ASSUME NEW e, NEW text, NEW given, IsSequence(text), IsSequence(given),
             e.event = "text" => e.text = text, e.event # "text" => text = <<>>,
             e.event = "done" => given = <<e.call>>, e.event # "done" => given = <<>>
      PROVE  Shown(<<e>>, text, given)
  <2> DEFINE es == <<e>>
  <2>1. TextPieces(es) = <<text>>
    <3>1. TextPieces(es) = <<IF e.event = "text" THEN e.text ELSE <<>> >> BY DEF TextPieces
    <3>2. (IF e.event = "text" THEN e.text ELSE <<>>) = text BY <1>4
    <3> QED BY <3>1, <3>2
  <2>2. CallPieces(es) = <<given>>
    <3>1. CallPieces(es) = <<IF e.event = "done" THEN <<e.call>> ELSE <<>> >> BY DEF CallPieces
    <3>2. (IF e.event = "done" THEN <<e.call>> ELSE <<>>) = given BY <1>4
    <3> QED BY <3>1, <3>2
  <2>3. DOMAIN es = {1} /\ es[1] = e OBVIOUS
  <2>4. IsSequence(es) BY <1>2
  <2> HIDE DEF es
  <2>5. Worded(es) BY <1>4, <2>3, <2>4 DEF Worded
  <2>6. TextShown(es) = text /\ CallsDone(es) = given
    BY <1>1, <1>4, <2>1, <2>2, ConcatFew
  <2> QED BY <2>5, <2>6 DEF Shown, es
<1>5. ASSUME NEW text, IsSequence(text) PROVE Shown(<<TextDelta(text)>>, text, <<>>)
  <2> DEFINE e == TextDelta(text)
  <2>1. e.event = "text" /\ e.text = text BY DEF TextDelta
  <2> HIDE DEF e
  <2>2. Shown(<<e>>, text, <<>>) BY <1>2, <1>4, <1>5, <2>1
  <2> QED BY <2>2 DEF e
<1>6. ASSUME NEW given PROVE Shown(<<ToolDone(given)>>, <<>>, <<given>>)
  <2> DEFINE e == ToolDone(given)
  <2>1. e.event = "done" /\ e.call = given BY DEF ToolDone
  <2> HIDE DEF e
  <2>2. Shown(<<e>>, <<>>, <<given>>) BY <1>2, <1>4, <2>1
  <2> QED BY <2>2 DEF e
<1>7. ASSUME NEW e, e.event \notin {"text", "done"} PROVE Shown(<<e>>, <<>>, <<>>)
  BY <1>2, <1>4, <1>7
<1> QED BY <1>3, <1>5, <1>6, <1>7

\* Events that show neither text nor a finished call, after others.
LEMMA ShownMore ==
    ASSUME NEW a, NEW b, NEW text, NEW done, Shown(a, text, done), Shown(b, <<>>, <<>>)
    PROVE  Shown(a \o b, text, done)
<1>1. IsSequence(text) /\ IsSequence(done)
  BY ShowingJoins DEF Shown
<1>2. text \o <<>> = text /\ done \o <<>> = done BY <1>1, JoinsAssociate DEF IsSequence
<1> DEFINE none == <<>>
<1>3. Shown(b, none, none) OBVIOUS
<1>4. text \o none = text /\ done \o none = done BY <1>2
<1> HIDE DEF none
<1>5. Shown(a \o b, text \o none, done \o none) BY <1>3, ShownJoin
<1> QED BY <1>4, <1>5

\* One text for each element of a sequence of calls, joined, shows the calls.
LEMMA ConcatShows ==
    ASSUME NEW given, IsSequence(given), NEW pieces, MadeOf(pieces, given),
           \A i \in DOMAIN given : Shown(pieces[i], <<>>, <<given[i]>>)
    PROVE  Shown(Concat(pieces), <<>>, given)
<1> DEFINE N == Len(given)
           none == <<>>
           one(n) == <<given[n]>>
<1>1. N \in Nat /\ DOMAIN given = 1 .. N BY DEF IsSequence
<1>2. IsSequence(pieces) BY MadeIsSequence
<1>3. Len(pieces) = N BY MadeIsSequence
<1>4. PICK f : Joins(pieces, f) /\ Concat(pieces) = f[Len(pieces)]
  BY <1>1, <1>3, ConcatUnrolls
<1>5. f[0] = none /\ \A n \in 1 .. N : f[n] = f[n - 1] \o pieces[n]
  BY <1>3, <1>4 DEF Joins
<1>6. \A n \in 1 .. N : Shown(pieces[n], none, one(n)) BY <1>1
<1>7. Shown(none, none, none) BY ShownFew
<1>8. /\ Initial(given, 0) = none /\ Initial(given, N) = given
      /\ \A n \in 1 .. N : Initial(given, n - 1) \o one(n) = Initial(given, n)
  BY Initials
<1>9. none \o none = none OBVIOUS
<1> HIDE DEF none, one, N
<1> DEFINE T == {n \in Nat : n <= N => Shown(f[n], none, Initial(given, n))}
<1>10. 0 \in T BY <1>5, <1>7, <1>8
<1>11. ASSUME NEW n \in Nat, n \in T PROVE n + 1 \in T
  <2>1. ASSUME n + 1 <= N PROVE Shown(f[n + 1], none, Initial(given, n + 1))
    <3>1. Shown(f[n], none, Initial(given, n)) BY <1>1, <1>11, <2>1
    <3>2. n + 1 \in 1 .. N /\ (n + 1) - 1 = n BY <1>1, <2>1
    <3>3. /\ f[n + 1] = f[n] \o pieces[n + 1]
          /\ Initial(given, n) \o one(n + 1) = Initial(given, n + 1)
          /\ Shown(pieces[n + 1], none, one(n + 1))
      <4>1. f[n + 1] = f[(n + 1) - 1] \o pieces[n + 1] BY <1>5, <3>2
      <4>2. Initial(given, (n + 1) - 1) \o one(n + 1) = Initial(given, n + 1) BY <1>8, <3>2
      <4> QED BY <1>6, <3>2, <4>1, <4>2
    <3>4. Shown(f[n] \o pieces[n + 1], none \o none, Initial(given, n) \o one(n + 1))
      BY <3>1, <3>3, ShownJoin
    <3> QED BY <1>9, <3>3, <3>4
  <2> QED BY <2>1
<1>12. N \in T
  <2> HIDE DEF T
  <2> QED BY <1>1, <1>10, <1>11, Induction
<1>13. Shown(f[N], none, given) BY <1>1, <1>8, <1>12
<1> QED BY <1>3, <1>4, <1>13 DEF none

\* The calls of a finished chat stream are shown as they are given,
LEMMA DonesShow ==
    ASSUME NEW given, IsSequence(given)
    PROVE  Shown([i \in DOMAIN given |-> ToolDone(given[i])], <<>>, given)
<1> DEFINE dones == [i \in DOMAIN given |-> ToolDone(given[i])]
           pieces == [i \in DOMAIN dones |-> <<dones[i]>>]
<1>1. IsSequence(dones)
  <2>1. DOMAIN dones = DOMAIN given /\ dones = [i \in DOMAIN given |-> dones[i]] OBVIOUS
  <2> HIDE DEF dones
  <2> QED BY <2>1, AsManyAs
<1>2. MadeOf(pieces, given) BY DEF MadeOf
<1>3. \A i \in DOMAIN given : Shown(pieces[i], <<>>, <<given[i]>>)
  <2> TAKE i \in DOMAIN given
  <2>1. pieces[i] = <<ToolDone(given[i])>> OBVIOUS
  <2> HIDE DEF pieces
  <2> QED BY <2>1, ShownFew
<1> HIDE DEF pieces, dones
<1>4. Shown(Concat(pieces), <<>>, given) BY <1>2, <1>3, ConcatShows
<1>5. Concat(pieces) = dones BY <1>1, ConcatSingles DEF pieces
<1> QED BY <1>4, <1>5 DEF dones

\* and so are those of a Gemini chunk.
LEMMA GeminiShows ==
    ASSUME NEW given, IsSequence(given)
    PROVE  Shown(GeminiCallEvents(given), <<>>, given)
<1> DEFINE pieces == [i \in DOMAIN given |-> <<ToolStart(given[i]), ToolDone(given[i])>>]
<1>1. MadeOf(pieces, given) BY DEF MadeOf
<1>2. \A i \in DOMAIN given : Shown(pieces[i], <<>>, <<given[i]>>)
  <2> TAKE i \in DOMAIN given
  <2> DEFINE a == <<ToolStart(given[i])>>
             b == <<ToolDone(given[i])>>
             none == <<>>
             one == <<given[i]>>
  <2>1. Shown(a, none, none)
    <3>1. ToolStart(given[i]).event \notin {"text", "done"} BY DEF ToolStart
    <3> QED BY <3>1, ShownFew
  <2>2. Shown(b, none, one) BY ShownFew
  <2>3. none \o none = none /\ none \o one = one OBVIOUS
  <2>4. pieces[i] = a \o b OBVIOUS
  <2> HIDE DEF a, b, none, one, pieces
  <2>5. Shown(a \o b, none \o none, none \o one) BY <2>1, <2>2, ShownJoin
  <2>6. Shown(pieces[i], none, one) BY <2>3, <2>4, <2>5
  <2> QED BY <2>6 DEF none, one
<1>3. GeminiCallEvents(given) = Concat(pieces) BY DEF GeminiCallEvents
<1> HIDE DEF pieces
<1> QED BY <1>1, <1>2, <1>3, ConcatShows

\* Neither does the end of an answer show more.
LEMMA ClosingShows ==
    ASSUME NEW outcome
    PROVE  /\ Shown(Closing(outcome), <<>>, <<>>)
           /\ Shown(<<Terminal(outcome)>>, <<>>, <<>>)
           /\ \A native : Shown(<<ContinuationDelta(native)>>, <<>>, <<>>)
<1>1. Terminal(outcome).event \notin {"text", "done"} BY DEF Terminal
<1>2. \A native : ContinuationDelta(native).event \notin {"text", "done"}
  BY DEF ContinuationDelta
<1>3. Shown(<<Terminal(outcome)>>, <<>>, <<>>) BY <1>1, ShownFew
<1>4. \A native : Shown(<<ContinuationDelta(native)>>, <<>>, <<>>) BY <1>2, ShownFew
<1>5. Shown(<<ContinuationDelta(outcome.continuation), Terminal(outcome)>>, <<>>, <<>>)
  <2> DEFINE a == <<ContinuationDelta(outcome.continuation)>>
             b == <<Terminal(outcome)>>
             none == <<>>
  <2>1. Shown(a, none, none) /\ Shown(b, none, none) BY <1>3, <1>4
  <2>2. <<ContinuationDelta(outcome.continuation), Terminal(outcome)>> = a \o b OBVIOUS
  <2> HIDE DEF a, b
  <2>3. Shown(a \o b, none, none) BY <2>1, ShownMore
  <2> QED BY <2>2, <2>3
<1> QED BY <1>3, <1>4, <1>5 DEF Closing

\* Events that are output, and nothing else.
Outputs(es) ==
    IsSequence(es) /\ \A i \in DOMAIN es : Kind(es[i]) = "semantic"

\* Deltas, calls and usage are output.
LEMMA OneOutput ==
    /\ Outputs(<<>>)
    /\ \A text : Outputs(<<TextDelta(text)>>)
    /\ \A tool : Outputs(<<ToolStart(tool)>>) /\ Outputs(<<ToolDone(tool)>>)
    /\ \A id, text : Outputs(<<ToolDelta(id, text)>>)
    /\ \A usage : Outputs(<<UsageEvent(usage)>>)
<1>1. ASSUME NEW e, Kind(e) = "semantic" PROVE Outputs(<<e>>)
  BY <1>1 DEF Outputs, IsSequence
<1>2. Outputs(<<>>) BY DEF Outputs, IsSequence
<1> QED
  BY <1>1, <1>2 DEF Kind, TextDelta, ToolStart, ToolDone,
                    ToolDelta, UsageEvent

\* Output after output is output.
LEMMA OutputsJoin ==
    ASSUME NEW s, NEW t, Outputs(s), Outputs(t)
    PROVE  Outputs(s \o t) /\ (s \o t = <<>> <=> s = <<>> /\ t = <<>>)
<1> DEFINE u == s \o t
<1>1. /\ IsSequence(u)
      /\ Len(s) \in Nat /\ Len(t) \in Nat
      /\ DOMAIN s = 1 .. Len(s) /\ DOMAIN t = 1 .. Len(t)
      /\ Len(u) = Len(s) + Len(t)
      /\ \A i \in 1 .. Len(s) : u[i] = s[i]
      /\ \A i \in 1 .. Len(t) : u[Len(s) + i] = t[i]
  BY Joined DEF Outputs
<1> HIDE DEF u
<1>2. DOMAIN u = 1 .. Len(u) BY <1>1 DEF IsSequence
<1>3. ASSUME NEW i \in 1 .. Len(u) PROVE Kind(u[i]) = "semantic"
  <2>1. CASE i \in 1 .. Len(s) BY <2>1, <1>1 DEF Outputs
  <2>2. CASE i \notin 1 .. Len(s)
    <3> DEFINE j == i - Len(s)
    <3>1. j \in 1 .. Len(t) /\ i = Len(s) + j BY <1>1, <2>2
    <3> HIDE DEF j
    <3>2. u[i] = t[j] BY <1>1, <3>1
    <3> QED BY <3>1, <3>2, <1>1 DEF Outputs
  <2> QED BY <2>1, <2>2
<1>4. Outputs(u) BY <1>1, <1>2, <1>3 DEF Outputs
<1>5. (u = <<>> <=> Len(u) = 0) /\ (s = <<>> <=> Len(s) = 0) /\ (t = <<>> <=> Len(t) = 0)
  BY <1>1 DEF Outputs, IsSequence
<1> QED BY <1>1, <1>4, <1>5 DEF u

\* A decoder that has told output, or none.
Tells(state, shown) ==
    "semantic" \in DOMAIN state /\ state.semantic \in BOOLEAN /\ (state.semantic <=> shown)

\* What a step of a decoder promises: it goes on after output; or it returns
\* after output, at most one continuation and a terminal; or it raises, after
\* output and at most one continuation, a cause that is told as it was.
GoesOn(step, shown) ==
    /\ step.end = Open
    /\ Outputs(step.events)
    /\ Tells(step.state, shown \/ step.events # <<>>)

Finishes(step) ==
    LET es == step.events
        n == Len(es)
    IN /\ step.end = Returned
       /\ IsSequence(es) /\ n > 0
       /\ Kind(es[n]) = "terminal"
       /\ \A i \in 1 .. n - 1 :
            \/ Kind(es[i]) = "semantic"
            \/ Kind(es[i]) = "continuation" /\ i = n - 1

\* An error, told truly of an attempt that was answered.
Truly(error, shown) ==
    /\ error.error \notin {"no", "returned"}
    /\ error.error = "TransientAttempt" =>
         /\ error.billability = "PossiblyBillable"
         /\ error.cause.kind = "interrupted" => (error.cause.partial <=> shown)

Breaks(step, shown) ==
    LET es == step.events
        n == Len(es)
    IN /\ IsSequence(es)
       /\ \A i \in 1 .. n :
            \/ Kind(es[i]) = "semantic"
            \/ Kind(es[i]) = "continuation" /\ i = n
       /\ Truly(step.end, shown \/ \E i \in 1 .. n : Kind(es[i]) = "semantic")

Fulfils(step, shown) == GoesOn(step, shown) \/ Finishes(step) \/ Breaks(step, shown)

\* A step that yields output and tells it fulfils its promise.
LEMMA GoesFulfil ==
    ASSUME NEW state, NEW es, NEW shown, Outputs(es), Tells(state, shown \/ es # <<>>)
    PROVE  Fulfils(Goes(state, es), shown)
  BY DEF Fulfils, GoesOn, Goes

\* So does one that returns with a terminal, alone, after output, or after the
\* continuation of a success.
LEMMA FinishesFulfil ==
    ASSUME NEW state, NEW es, NEW outcome, NEW shown, Outputs(es)
    PROVE  /\ Fulfils(Returns(state, es \o Closing(outcome)), shown)
           /\ Fulfils(Returns(state, Closing(outcome)), shown)
           /\ Fulfils(Returns(state, Append(es, Terminal(outcome))), shown)
           /\ Fulfils(Returns(state, <<Terminal(outcome)>>), shown)
<1> DEFINE Last1(c) == IsSequence(c) /\ Len(c) \in 1 .. 2
                         /\ Kind(c[Len(c)]) = "terminal"
                         /\ (Len(c) = 2 => Kind(c[1]) = "continuation")
<1>1. ASSUME NEW c, Last1(c) PROVE Fulfils(Returns(state, es \o c), shown)
  <2> DEFINE u == es \o c
  <2>1. /\ IsSequence(u)
        /\ Len(es) \in Nat /\ Len(c) \in Nat
        /\ DOMAIN es = 1 .. Len(es) /\ DOMAIN c = 1 .. Len(c)
        /\ Len(u) = Len(es) + Len(c)
        /\ \A i \in 1 .. Len(es) : u[i] = es[i]
        /\ \A i \in 1 .. Len(c) : u[Len(es) + i] = c[i]
    <3>1. IsSequence(es) BY DEF Outputs
    <3>2. IsSequence(c) BY <1>1
    <3> QED BY <3>1, <3>2, Joined
  <2> HIDE DEF u
  <2>2. Kind(u[Len(u)]) = "terminal" BY <1>1, <2>1
  <2>3. ASSUME NEW i \in 1 .. Len(u) - 1
        PROVE  \/ Kind(u[i]) = "semantic"
               \/ Kind(u[i]) = "continuation" /\ i = Len(u) - 1
    <3>1. CASE i \in 1 .. Len(es) BY <2>1, <3>1 DEF Outputs
    <3>2. CASE i \notin 1 .. Len(es)
      <4>1. Len(c) = 2 /\ i = Len(es) + 1 BY <1>1, <2>1, <3>2
      <4>2. u[i] = c[1] BY <2>1, <4>1
      <4> QED BY <1>1, <2>1, <4>1, <4>2
    <3> QED BY <3>1, <3>2
  <2>4. Len(u) > 0 BY <1>1, <2>1
  <2>5. Fulfils(Returns(state, u), shown)
    <3> DEFINE step == Returns(state, u)
    <3>1. step.events = u /\ step.end = Returned BY DEF Returns
    <3> HIDE DEF step, Last1
    <3>2. Len(u) \in Nat BY <2>1
    <3>3. Finishes(step) BY <2>1, <2>2, <2>3, <2>4, <3>1, <3>2 DEF Finishes
    <3> QED BY <3>3 DEF Fulfils, step
  <2> QED BY <2>5 DEF u
<1>2. Last1(<<Terminal(outcome)>>)
  BY DEF IsSequence, Kind, Terminal
<1>3. Last1(<<ContinuationDelta(outcome.continuation), Terminal(outcome)>>)
  BY DEF IsSequence, Kind, Terminal, ContinuationDelta
<1>4. Last1(Closing(outcome)) BY <1>2, <1>3 DEF Closing
<1> HIDE DEF Last1
<1>5. ASSUME NEW c, Last1(c), Outputs(<<>>) PROVE <<>> \o c = c
  <2>1. c \in Seq({c[i] : i \in DOMAIN c}) BY <1>5 DEF Last1, IsSequence
  <2> QED BY <2>1
<1>6. Append(es, Terminal(outcome)) = es \o <<Terminal(outcome)>>
  BY DEF Outputs, IsSequence
<1>7. ASSUME NEW c, Last1(c) PROVE Fulfils(Returns(state, c), shown)
  <2> DEFINE es0 == <<>>
  <2>1. Outputs(es0) /\ es0 \o c = c BY <1>5, <1>7, OneOutput
  <2> QED
    BY <1>7 DEF Fulfils, Finishes, Returns, Last1
<1> QED BY <1>1, <1>2, <1>4, <1>6, <1>7

\* One that raises after output, the cause told of it,
LEMMA BreaksAfterOutput ==
    ASSUME NEW state, NEW error, NEW shown, NEW es,
           Outputs(es), Truly(error, shown \/ es # <<>>)
    PROVE  Fulfils([Raises(state, error) EXCEPT !.events = es], shown)
<1> DEFINE step == [state |-> state, events |-> es, end |-> error]
<1>1. es # <<>> <=> \E i \in 1 .. Len(es) : Kind(es[i]) = "semantic"
  BY DEF Outputs, IsSequence
<1>2. Truly(error, shown \/ \E i \in 1 .. Len(es) : Kind(es[i]) = "semantic")
  BY <1>1 DEF Truly
<1>3. DOMAIN es = 1 .. Len(es) BY DEF Outputs, IsSequence
<1>4. step.events = es /\ step.end = error OBVIOUS
<1>5. Fulfils(step, shown)
  <2> HIDE DEF step
  <2> QED BY <1>2, <1>3, <1>4 DEF Fulfils, Breaks, Outputs
<1>6. [Raises(state, error) EXCEPT !.events = es] = step
  BY DEF Raises
<1> QED BY <1>5, <1>6

\* at once,
LEMMA BreaksAtOnce ==
    ASSUME NEW state, NEW error, NEW shown, Truly(error, shown)
    PROVE  Fulfils(Raises(state, error), shown)
<1> DEFINE none == <<>>
<1>1. Outputs(none) BY OneOutput
<1>2. Truly(error, shown \/ none # <<>>) BY DEF Truly
<1>3. Fulfils([Raises(state, error) EXCEPT !.events = none], shown)
  <2> HIDE DEF none
  <2> QED BY <1>1, <1>2, BreaksAfterOutput
<1>4. [Raises(state, error) EXCEPT !.events = none] = Raises(state, error)
  BY DEF Raises
<1> QED BY <1>3, <1>4

\* or after a continuation.
LEMMA BreaksAfterContinuation ==
    ASSUME NEW state, NEW error, NEW shown, NEW c, Truly(error, shown)
    PROVE  Fulfils([Raises(state, error) EXCEPT
                       !.events = <<ContinuationDelta(c)>>], shown)
<1> DEFINE es == <<ContinuationDelta(c)>>
           step == [state |-> state, events |-> es, end |-> error]
<1>1. Len(es) = 1 /\ Kind(es[1]) = "continuation" /\ IsSequence(es)
  BY DEF Kind, ContinuationDelta, IsSequence
<1>2. step.events = es /\ step.end = error OBVIOUS
<1>3. [Raises(state, error) EXCEPT !.events = es] = step
  BY DEF Raises
<1> HIDE DEF es, step
<1>4. \A i \in 1 .. Len(es) : i = 1 /\ Kind(es[i]) = "continuation" BY <1>1
<1>5. Truly(error, shown \/ \E i \in 1 .. Len(es) : Kind(es[i]) = "semantic")
  BY <1>4 DEF Truly
<1>6. Fulfils(step, shown) BY <1>1, <1>2, <1>4, <1>5 DEF Fulfils, Breaks
<1> QED BY <1>3, <1>6 DEF es

\* What the failures of an answered attempt are.
LEMMA FailuresAreTold ==
    ASSUME NEW shown
    PROVE  /\ \A code : Truly(Defect(code), shown)
           /\ Truly(Unavailable, shown)
           /\ \A window : Truly(RateLimited(window), shown)
           /\ \A timeout : Truly(Broken(timeout, "PossiblyBillable"), shown)
           /\ \A partial \in BOOLEAN :
                (partial <=> shown) => Truly(Interrupted(partial, "PossiblyBillable"), shown)
<1>1. \A code : Truly(Defect(code), shown)
  BY DEF Truly, Defect
<1>2. Truly(Unavailable, shown)
  BY DEF Truly, Unavailable, Transient
<1>3. \A window : Truly(RateLimited(window), shown)
  BY DEF Truly, RateLimited, Transient
<1>4. \A timeout : Truly(Broken(timeout, "PossiblyBillable"), shown)
  BY DEF Truly, Broken, Transient
<1>5. ASSUME NEW partial \in BOOLEAN, partial <=> shown
      PROVE  Truly(Interrupted(partial, "PossiblyBillable"), shown)
  <2> DEFINE why == [kind |-> "interrupted", partial |-> partial]
  <2>1. (why.partial <=> shown) BY <1>5
  <2> HIDE DEF why
  <2>2. Truly(Transient(why, "PossiblyBillable"), shown)
    BY <2>1 DEF Truly, Transient
  <2> QED BY <2>2 DEF why, Interrupted
<1> QED BY <1>1, <1>2, <1>3, <1>4, <1>5

\* A decoder that goes on silently, or after one event.
LEMMA Silent ==
    ASSUME NEW state, NEW shown, Tells(state, shown)
    PROVE  Fulfils(Goes(state, <<>>), shown)
<1>1. Tells(state, shown \/ <<>> # <<>>) BY DEF Tells
<1> QED BY <1>1, OneOutput, GoesFulfil

LEMMA Speaks ==
    ASSUME NEW state, NEW e, NEW shown, Tells(state, TRUE), Outputs(<<e>>)
    PROVE  Fulfils(Goes(state, <<e>>), shown)
<1> DEFINE es == <<e>>
<1>1. es # <<>> OBVIOUS
<1>2. Outputs(es) OBVIOUS
<1> HIDE DEF es
<1>3. Tells(state, shown \/ es # <<>>) BY <1>1 DEF Tells
<1>4. Fulfils(Goes(state, es), shown) BY <1>2, <1>3, GoesFulfil
<1> QED BY <1>4 DEF es

\* What a decoder told does not change with its other fields.
LEMMA TellsOn ==
    ASSUME NEW state, NEW shown, Tells(state, shown), NEW field, NEW value,
           field # "semantic"
    PROVE  Tells([state EXCEPT ![field] = value], shown)
  BY DEF Tells

LEMMA TellsTrue ==
    ASSUME NEW state, NEW shown, Tells(state, shown)
    PROVE  Tells([state EXCEPT !.semantic = TRUE], TRUE)
<1> DEFINE told == [state EXCEPT !.semantic = TRUE]
<1>1. "semantic" \in DOMAIN told /\ told.semantic = TRUE BY DEF Tells
<1> QED BY <1>1 DEF Tells

LEMMA AnthropicSpeaks ==
    ASSUME NEW state, NEW e, NEW shown, Tells(state, shown), Outputs(<<e>>)
    PROVE  Fulfils(AnthropicSemantic(state, e), shown)
  BY TellsTrue, Speaks DEF AnthropicSemantic

\* A frame no decoder can read is a defect.
LEMMA Malformed ==
    ASSUME NEW state, NEW code, NEW shown
    PROVE  Fulfils(Raises(state, Defect(code)), shown)
  BY FailuresAreTold, BreaksAtOnce

\* What a decoder concludes with: an outcome, or a defect.
Sound(outcome) == IsError(outcome) => \E code : outcome = Defect(code)
Conclusion(state, outcome) ==
    IF IsError(outcome) THEN Raises(state, outcome)
    ELSE Returns(state, Closing(outcome))

\* Every way to conclude is sound.
LEMMA SoundOutcomes ==
    /\ \A code : Sound(Defect(code))
    /\ \A arm, detail, meta : Sound(Outcome(arm, detail, meta))
    /\ \A why, meta : Sound(Failure(why, meta)) /\ Sound(Incomplete(why, meta))
    /\ \A content, native, meta : Sound(Success(content, native, meta))
    /\ \A row, intent, text, tools, blocks, meta :
         Sound(Answer(row, intent, text, tools, blocks, meta))
<1>1. \A code : Sound(Defect(code)) BY DEF Sound
<1>2. \A arm, detail, meta : ~ IsError(Outcome(arm, detail, meta))
  BY DEF IsError, Outcome
<1>3. \A content, native, meta : ~ IsError(Success(content, native, meta))
  BY DEF IsError, Success
<1>4. \A why, meta : Sound(Failure(why, meta)) /\ Sound(Incomplete(why, meta))
  BY <1>2 DEF Sound, Failure, Incomplete
<1>5. \A row, intent, text, tools, blocks, meta :
         Sound(Answer(row, intent, text, tools, blocks, meta))
  BY <1>3, <1>4 DEF Answer, Sound
<1> QED BY <1>1, <1>2, <1>3, <1>4, <1>5 DEF Sound

LEMMA Concludes ==
    ASSUME NEW state, NEW outcome, NEW shown, Sound(outcome)
    PROVE  Fulfils(Conclusion(state, outcome), shown)
<1>1. CASE IsError(outcome) BY <1>1, Malformed DEF Conclusion, Sound
<1>2. CASE ~ IsError(outcome)
  BY <1>2, OneOutput, FinishesFulfil DEF Conclusion
<1> QED BY <1>1, <1>2

\* One frame of an Anthropic stream, whatever it is
\* (anthropic_messages.py, AnthropicMessagesEngine.stream).
LEMMA AnthropicFulfils ==
    ASSUME NEW state, NEW frame, NEW row, NEW intent, NEW shown, Tells(state, shown)
    PROVE  Fulfils(AnthropicFrame(state, frame, row, intent), shown)
<1>1. Fulfils(AnthropicBlockStart(state, frame), shown)
  <2> DEFINE block == frame.block
             kept == [state EXCEPT !.native = Bind(@, frame.index, block)]
             opened == [kept EXCEPT !.open = Bind(@, frame.index,
                                                         [block EXCEPT !.arguments = <<>>])]
  <2>1. Tells(kept, shown) BY TellsOn
  <2>2. Tells(opened, shown)
    <3> HIDE DEF kept
    <3> QED BY <2>1, TellsOn
  <2>3. Fulfils(AnthropicSemantic(opened, ToolStart(block)), shown)
    <3> HIDE DEF opened
    <3> QED BY <2>2, OneOutput, AnthropicSpeaks
  <2>4. Fulfils(Goes(kept, <<>>), shown)
    <3> HIDE DEF kept
    <3> QED BY <2>1, Silent
  <2>5. Fulfils(Raises(state, Defect("unknown_content_block")), shown)
    BY Malformed
  <2>6. AnthropicBlockStart(state, frame) \in
          {AnthropicSemantic(opened, ToolStart(block)), Goes(kept, <<>>),
           Raises(state, Defect("unknown_content_block"))}
    BY DEF AnthropicBlockStart
  <2> HIDE DEF opened, kept, block
  <2> QED BY <2>3, <2>4, <2>5, <2>6
<1>2. Fulfils(AnthropicTextDelta(state, frame), shown)
  <2> DEFINE grown == [state EXCEPT !.text = @ \o frame.text,
                                    !.native[frame.index].text = @ \o frame.text]
  <2>1. Tells(grown, shown) BY DEF Tells
  <2>2. AnthropicTextDelta(state, frame) \in
          {Raises(state, Defect("malformed_stream_event")),
           Goes(grown, <<>>),
           AnthropicSemantic(grown, TextDelta(frame.text))}
    BY DEF AnthropicTextDelta
  <2> HIDE DEF grown
  <2>3. Fulfils(AnthropicSemantic(grown, TextDelta(frame.text)), shown)
    BY <2>1, OneOutput, AnthropicSpeaks
  <2> QED BY <2>1, <2>2, <2>3, Silent, Malformed
<1>3. Fulfils(AnthropicJsonDelta(state, frame), shown)
  <2> DEFINE grown == [state EXCEPT !.open[frame.index].arguments = @ \o frame.text]
             fragment == ToolDelta(state.open[frame.index].id, frame.text)
  <2>1. Tells(grown, shown) BY DEF Tells
  <2>2. AnthropicJsonDelta(state, frame) \in
          {Raises(state, Defect("malformed_stream_event")),
           Goes(grown, <<>>), AnthropicSemantic(grown, fragment)}
    BY DEF AnthropicJsonDelta
  <2>3. Outputs(<<fragment>>) BY OneOutput
  <2> HIDE DEF grown, fragment
  <2>4. Fulfils(AnthropicSemantic(grown, fragment), shown)
    BY <2>1, <2>3, AnthropicSpeaks
  <2> QED BY <2>1, <2>2, <2>4, Silent, Malformed
<1>4. Fulfils(AnthropicThinkingDelta(state, frame), shown)
  <2> DEFINE grown == [state EXCEPT !.native[frame.index].signature = @ \o frame.text]
  <2>1. Tells(grown, shown) BY DEF Tells
  <2>2. AnthropicThinkingDelta(state, frame) \in
          {Raises(state, Defect("malformed_stream_event")),
           Goes(grown, <<>>)}
    BY DEF AnthropicThinkingDelta
  <2> HIDE DEF grown
  <2> QED BY <2>1, <2>2, Silent, Malformed
<1>5. Fulfils(AnthropicBlockStop(state, frame, row), shown)
  <2> DEFINE open == state.open[frame.index]
             tool == AnthropicToolCall(
                       [open EXCEPT !.arguments = IF @ = <<>> THEN <<"{", "}">> ELSE @])
             done == [state EXCEPT !.open = Unbind(@, frame.index),
                                   !.tools = Append(@, tool),
                                   !.native[frame.index].arguments = tool.arguments]
             failure == Failure("InvalidToolArguments",
                          Meta(row.model, AnthropicUsage(state.fold),
                                      "PossiblyBillable"))
  <2>1. Tells(done, shown)
    <3> HIDE DEF tool
    <3> QED BY DEF Tells
  <2>2. AnthropicBlockStop(state, frame, row) \in
          {Goes(state, <<>>), Returns(state, <<Terminal(failure)>>),
           AnthropicSemantic(done, ToolDone(tool))}
    BY DEF AnthropicBlockStop
  <2> HIDE DEF done, tool, failure
  <2>3. Fulfils(AnthropicSemantic(done, ToolDone(tool)), shown)
    BY <2>1, OneOutput, AnthropicSpeaks
  <2>4. Fulfils(Returns(state, <<Terminal(failure)>>), shown)
    BY OneOutput, FinishesFulfil
  <2> QED BY <2>2, <2>3, <2>4, Silent
<1>6. Fulfils(AnthropicMessageDelta(state, frame), shown)
  <2> DEFINE told == [state EXCEPT !.stop = IF frame.stop = Absent THEN @ ELSE frame.stop,
                                   !.fold = AnthropicAbsorb(@, frame.usage)]
             usage == AnthropicUsage(told.fold)
  <2>1. Tells(told, shown) BY DEF Tells
  <2>2. AnthropicMessageDelta(state, frame) \in
          {Goes(told, <<>>), AnthropicSemantic(told, UsageEvent(usage))}
    BY DEF AnthropicMessageDelta
  <2> HIDE DEF told, usage
  <2>3. Fulfils(AnthropicSemantic(told, UsageEvent(usage)), shown)
    BY <2>1, OneOutput, AnthropicSpeaks
  <2> QED BY <2>1, <2>2, <2>3, Silent
<1>7. Fulfils(AnthropicMessageStop(state, row, intent), shown)
  <2> DEFINE usage == AnthropicUsage(state.fold)
             meta == Meta(state.model, usage, "PossiblyBillable")
             refused == Meta(state.model, usage, AnthropicRefusalBillability(usage))
             stopped == AnthropicStopped(state.stop, meta)
             answer == Answer(row, intent, state.text, state.tools,
                                     InOrder(state.native), meta)
             outcome ==
                IF state.model = Absent THEN Defect("malformed_stream_event")
                ELSE IF state.stop = "refusal"
                THEN Incomplete("content_filter_partial", refused)
                ELSE IF stopped # Absent THEN stopped
                ELSE answer
  <2>1. AnthropicMessageStop(state, row, intent) = Conclusion(state, outcome)
    BY DEF AnthropicMessageStop, Conclusion
  <2>2. stopped # Absent => Sound(stopped)
    <3> HIDE DEF meta
    <3> QED BY SoundOutcomes DEF AnthropicStopped
  <2>3. Sound(answer) BY SoundOutcomes
  <2>4. Sound(outcome)
    <3> HIDE DEF stopped, answer, refused
    <3> QED BY <2>2, <2>3, SoundOutcomes
  <2> HIDE DEF outcome
  <2> QED BY <2>1, <2>4, Concludes
<1>8. Fulfils(AnthropicFrame(state, frame, row, intent), shown)
  <2> DEFINE begun_ == [state EXCEPT !.model = frame.model,
                                     !.fold = AnthropicAbsorb(@, frame.usage)]
  <2>1. Tells(begun_, shown) BY DEF Tells
  <2>2. AnthropicFrame(state, frame, row, intent) \in
          {Goes(begun_, <<>>), AnthropicBlockStart(state, frame),
           AnthropicTextDelta(state, frame), AnthropicJsonDelta(state, frame),
           AnthropicThinkingDelta(state, frame),
           Raises(state, Defect("malformed_stream_event")),
           AnthropicBlockStop(state, frame, row),
           AnthropicMessageDelta(state, frame),
           AnthropicMessageStop(state, row, intent), Goes(state, <<>>)}
    BY DEF AnthropicFrame
  <2> HIDE DEF begun_
  <2>3. Fulfils(Goes(begun_, <<>>), shown) BY <2>1, Silent
  <2>4. Fulfils(Goes(state, <<>>), shown) BY Silent
  <2> QED BY <1>1, <1>2, <1>3, <1>4, <1>5, <1>6, <1>7, <2>2, <2>3, <2>4, Malformed
<1> QED BY <1>8

LEMMA ResponsesSpeaks ==
    ASSUME NEW state, NEW e, NEW shown, Tells(state, shown), Outputs(<<e>>)
    PROVE  Fulfils(ResponsesSemantic(state, e), shown)
  BY TellsTrue, Speaks DEF ResponsesSemantic

\* One frame of a Responses stream
\* (openai_responses.py, OpenAIResponsesEngine.stream).
LEMMA ResponsesFulfils ==
    ASSUME NEW state, NEW frame, NEW row, NEW intent, NEW shown, Tells(state, shown)
    PROVE  Fulfils(ResponsesFrame(state, frame, row, intent), shown)
<1>0. Fulfils(Goes(state, <<>>), shown) BY Silent
<1>1. Fulfils(ResponsesItemAdded(state, frame), shown)
  <2> DEFINE opened == [state EXCEPT !.open = [k \in DOMAIN @ \cup {frame.item.id} |->
                                                 IF k = frame.item.id THEN <<>> ELSE @[k]]]
  <2>1. Tells(opened, shown) BY DEF Tells
  <2>2. ResponsesItemAdded(state, frame) \in
          {Goes(state, <<>>),
           ResponsesSemantic(opened, ToolStart(frame.item))}
    BY DEF ResponsesItemAdded
  <2> HIDE DEF opened
  <2>3. Fulfils(ResponsesSemantic(opened, ToolStart(frame.item)), shown)
    BY <2>1, OneOutput, ResponsesSpeaks
  <2> QED BY <1>0, <2>2, <2>3
<1>2. Fulfils(ResponsesArgumentsDelta(state, frame), shown)
  <2> DEFINE grown == [state EXCEPT !.open[frame.id] = @ \o frame.text]
  <2>1. Tells(grown, shown) BY DEF Tells
  <2>2. ResponsesArgumentsDelta(state, frame) \in
          {Goes(state, <<>>),
           ResponsesSemantic(grown, ToolDelta(frame.id, frame.text))}
    BY DEF ResponsesArgumentsDelta
  <2> HIDE DEF grown
  <2>3. Fulfils(ResponsesSemantic(grown, ToolDelta(frame.id, frame.text)), shown)
    BY <2>1, OneOutput, ResponsesSpeaks
  <2> QED BY <1>0, <2>2, <2>3
<1>3. Fulfils(ResponsesItemDone(state, frame, row), shown)
  <2> DEFINE id == frame.item.id
             captured == [state EXCEPT !.items = Append(@, frame.item)]
             tool == ResponsesToolCall(frame.item,
                       IF id \in DOMAIN state.open THEN state.open[id] ELSE <<>>)
             silent == [captured EXCEPT !.refused = @ \/ frame.item.type = "refusal"]
             done == [captured EXCEPT !.tools = Append(@, tool),
                                      !.open = [k \in DOMAIN @ \ {id} |-> @[k]]]
             failure == Failure("InvalidToolArguments", ResponsesMeta(row, Absent))
  <2>1. Tells(captured, shown) BY DEF Tells
  <2>2. ResponsesItemDone(state, frame, row) \in
          {Goes(silent, <<>>), Returns(captured, <<Terminal(failure)>>),
           ResponsesSemantic(done, ToolDone(tool))}
    BY DEF ResponsesItemDone
  <2> HIDE DEF captured, tool, failure
  <2>3. Tells(silent, shown) /\ Tells(done, shown) BY <2>1 DEF Tells
  <2> HIDE DEF silent, done
  <2>4. Fulfils(ResponsesSemantic(done, ToolDone(tool)), shown)
    BY <2>3, OneOutput, ResponsesSpeaks
  <2>5. Fulfils(Returns(captured, <<Terminal(failure)>>), shown)
    BY OneOutput, FinishesFulfil
  <2>6. Fulfils(Goes(silent, <<>>), shown) BY <2>3, Silent
  <2> QED BY <2>2, <2>4, <2>5, <2>6
<1>4. Fulfils(ResponsesTerminal(state, frame, row, intent), shown)
  <2> DEFINE usage == ResponsesUsage(frame.response.usage)
             meta == ResponsesMeta(row, usage)
             incomplete == ResponsesIncomplete(frame.response.reason, meta)
             answer == Answer(row, intent, state.text, state.tools, state.items, meta)
             outcome ==
                IF frame.response.model = Absent THEN Defect("missing_model")
                ELSE IF usage # Absent /\ IsError(usage) THEN usage
                ELSE IF frame.type = "incomplete" THEN incomplete
                ELSE IF state.refused THEN Incomplete("content_filter_partial", meta)
                ELSE answer
  <2>1. ResponsesTerminal(state, frame, row, intent) = Conclusion(state, outcome)
    BY DEF ResponsesTerminal, Conclusion
  <2>2. usage # Absent => Sound(usage)
    BY SoundOutcomes DEF ResponsesUsage, Sound, IsError
  <2>3. Sound(incomplete)
    <3> HIDE DEF meta
    <3> QED BY SoundOutcomes DEF ResponsesIncomplete
  <2>4. Sound(answer) BY SoundOutcomes
  <2>5. Sound(outcome)
    <3> HIDE DEF usage, meta, incomplete, answer
    <3> QED BY <2>2, <2>3, <2>4, SoundOutcomes
  <2> HIDE DEF outcome
  <2> QED BY <2>1, <2>5, Concludes
<1>5. \A code : Fulfils(Raises(state, ResponsesInband(code)), shown)
  BY FailuresAreTold, BreaksAtOnce DEF ResponsesInband
<1>6. Fulfils(ResponsesFrame(state, frame, row, intent), shown)
  <2> DEFINE grown == [state EXCEPT !.text = @ \o frame.text]
             refused == [state EXCEPT !.refused = TRUE]
             said == ResponsesSemantic(grown, TextDelta(frame.text))
             broken == Raises(state, ResponsesInband(frame.code))
  <2>1. Tells(grown, shown) /\ Tells(refused, shown) BY DEF Tells
  <2>2. ResponsesFrame(state, frame, row, intent) \in
          {Goes(state, <<>>), said, Goes(refused, <<>>), broken,
           ResponsesItemAdded(state, frame), ResponsesArgumentsDelta(state, frame),
           ResponsesItemDone(state, frame, row),
           ResponsesTerminal(state, frame, row, intent)}
    BY DEF ResponsesFrame
  <2>3. Fulfils(broken, shown) BY <1>5
  <2> HIDE DEF grown, refused
  <2>4. Fulfils(said, shown) BY <2>1, OneOutput, ResponsesSpeaks
  <2>5. Fulfils(Goes(refused, <<>>), shown) BY <2>1, Silent
  <2> HIDE DEF said, broken
  <2> QED BY <1>0, <1>1, <1>2, <1>3, <1>4, <2>2, <2>3, <2>4, <2>5
<1> QED BY <1>6

\* One fragment of a call yields output, neither text nor a call that is done, and
\* keeps the accumulator finite.
LEMMA EntryOutputs ==
    ASSUME NEW step, NEW entry, IsFiniteSet(DOMAIN step.slots), Outputs(step.events),
           Shown(step.events, <<>>, <<>>)
    PROVE  /\ IsFiniteSet(DOMAIN ChatEntry(step, entry).slots)
           /\ Outputs(ChatEntry(step, entry).events)
           /\ Shown(ChatEntry(step, entry).events, <<>>, <<>>)
<1> DEFINE old == IF entry.index \in DOMAIN step.slots THEN step.slots[entry.index]
                  ELSE ChatSlot
           named == [old EXCEPT !.id = IF entry.id = "" THEN @ ELSE entry.id,
                                !.name = IF entry.name = "" THEN @ ELSE entry.name,
                                !.arguments = @ \o entry.text]
           begins == ~ old.started /\ "" \notin {named.id, named.name}
           one == [named EXCEPT !.started = @ \/ begins]
           starts == IF begins THEN <<ToolStart(one)>> ELSE <<>>
           grows == IF entry.text # <<>> /\ one.started
                    THEN <<ToolDelta(one.id, entry.text)>> ELSE <<>>
           slots == [k \in DOMAIN step.slots \cup {entry.index} |->
                       IF k = entry.index THEN one ELSE step.slots[k]]
<1>1. ChatEntry(step, entry) =
        [slots |-> slots, events |-> step.events \o starts \o grows]
  BY DEF ChatEntry
<1>2. DOMAIN slots = DOMAIN step.slots \cup {entry.index} OBVIOUS
<1>3. IsFiniteSet(DOMAIN slots) BY <1>2, FS_AddElement
<1> HIDE DEF slots, begins, one
<1>4. Outputs(starts) /\ Outputs(grows) BY OneOutput
<1>5. Shown(starts, <<>>, <<>>) /\ Shown(grows, <<>>, <<>>)
  <2>1. /\ ToolStart(one).event \notin {"text", "done"}
        /\ ToolDelta(one.id, entry.text).event \notin {"text", "done"}
    BY DEF ToolStart, ToolDelta
  <2> QED BY <2>1, ShownFew
<1> HIDE DEF starts, grows
<1>6. Outputs(step.events \o starts) BY <1>4, OutputsJoin
<1>7. Outputs((step.events \o starts) \o grows) BY <1>4, <1>6, OutputsJoin
<1>8. Shown((step.events \o starts) \o grows, <<>>, <<>>)
  <2> DEFINE none == <<>>
  <2>1. Shown(step.events, none, none) OBVIOUS
  <2> HIDE DEF none
  <2>2. Shown(step.events \o starts, none, none) BY <1>5, <2>1, ShownMore
  <2>3. Shown((step.events \o starts) \o grows, none, none) BY <1>5, <2>2, ShownMore
  <2> QED BY <2>3 DEF none
<1> QED BY <1>1, <1>3, <1>7, <1>8

\* So do all fragments of a chunk (_ToolCallAccumulator.apply).
LEMMA ApplyLoop ==
    ASSUME NEW slots, NEW entries, IsFiniteSet(DOMAIN slots), IsSequence(entries)
    PROVE  LET applied == ChatApply(slots, entries) IN
           /\ IsFiniteSet(DOMAIN applied.slots) /\ Outputs(applied.events)
           /\ Shown(applied.events, <<>>, <<>>)
<1> DEFINE N == Len(entries)
           base == [slots |-> slots, events |-> <<>>]
           Entry(f, n) == ChatEntry(f[n - 1], entries[n])
           Loops(f, m) == f = [n \in 0 .. m |-> IF n = 0 THEN base ELSE Entry(f, n)]
           applied == CHOOSE f : Loops(f, N)
<1>1. N \in Nat BY DEF IsSequence
<1>2. ChatApply(slots, entries) = applied[N] BY DEF ChatApply
<1>3. IsFiniteSet(DOMAIN base.slots) /\ Outputs(base.events) /\ Shown(base.events, <<>>, <<>>)
  BY OneOutput, ShownFew
<1> HIDE DEF base, N, applied
<1>4. \E f : Loops(f, N)
  <2> DEFINE S == {m \in Nat : \E f : Loops(f, m)}
  <2>1. 0 \in S
    <3> DEFINE g == [n \in 0 .. 0 |-> base]
    <3>1. Loops(g, 0) OBVIOUS
    <3> HIDE DEF Loops, g
    <3> QED BY <3>1
  <2>2. ASSUME NEW m \in Nat, m \in S PROVE m + 1 \in S
    <3>1. PICK f : Loops(f, m)
      <4> HIDE DEF Loops
      <4> QED BY <2>2
    <3> DEFINE next == ChatEntry(f[m], entries[m + 1])
               g == [n \in 0 .. m + 1 |-> IF n = m + 1 THEN next ELSE f[n]]
    <3>2. \A n \in 0 .. m + 1 : g[n] = IF n = 0 THEN base ELSE Entry(g, n)
      <4> TAKE n \in 0 .. m + 1
      <4>1. CASE n = m + 1
        <5>1. g[n - 1] = f[m] /\ n # 0 BY <4>1
        <5> QED BY <4>1, <5>1
      <4>2. CASE n # m + 1
        <5>1. n \in 0 .. m /\ g[n] = f[n] BY <4>2
        <5>2. f[n] = IF n = 0 THEN base ELSE Entry(f, n) BY <3>1, <5>1
        <5>3. n # 0 => g[n - 1] = f[n - 1] BY <4>2
        <5> QED BY <5>1, <5>2, <5>3
      <4> QED BY <4>1, <4>2
    <3>3. Loops(g, m + 1) BY <3>2
    <3> HIDE DEF Loops, g
    <3> QED BY <3>3
  <2> HIDE DEF Loops
  <2> QED BY <1>1, <2>1, <2>2, Induction
<1>5. Loops(applied, N)
  <2> HIDE DEF Loops
  <2> QED BY <1>4 DEF applied
<1> DEFINE Good(x) == /\ IsFiniteSet(DOMAIN x.slots) /\ Outputs(x.events)
                      /\ Shown(x.events, <<>>, <<>>)
           T == {n \in Nat : n <= N => Good(applied[n])}
<1>6. 0 \in T
  <2>1. applied[0] = base BY <1>1, <1>5
  <2> QED BY <2>1, <1>3
<1>7. ASSUME NEW n \in Nat, n \in T PROVE n + 1 \in T
  <2>1. ASSUME n + 1 <= N PROVE Good(applied[n + 1])
    <3>1. Good(applied[n]) BY <1>7, <2>1, <1>1
    <3>2. n + 1 \in 0 .. N /\ n + 1 # 0 /\ (n + 1) - 1 = n BY <2>1, <1>1
    <3>3. applied[n + 1] = ChatEntry(applied[n], entries[n + 1]) BY <1>5, <3>2
    <3> QED BY <3>1, <3>3, EntryOutputs
  <2> QED BY <2>1
<1>8. N \in T
  <2> HIDE DEF T
  <2> QED BY <1>1, <1>6, <1>7, Induction
<1> QED BY <1>1, <1>2, <1>8

\* The accumulator of a chat decoder has finitely many slots.
SlotsFit(state) == "slots" \in DOMAIN state /\ IsFiniteSet(DOMAIN state.slots)

\* A step of the chat decoder keeps its promise, and its accumulator.
ChatFulfils(step, shown) ==
    Fulfils(step, shown) /\ (step.end = Open => SlotsFit(step.state))

\* The finish reason of a chat stream folds the accumulator.
LEMMA ChatFinishFulfils ==
    ASSUME NEW state, NEW es, NEW finish, NEW row, NEW shown,
           SlotsFit(state), Outputs(es), Tells(state, shown \/ es # <<>>)
    PROVE  ChatFulfils(ChatFinish(state, es, finish, row), shown)
<1> DEFINE slots == ChatSlots(state)
           tools == ChatToolCalls(slots)
           n == Cardinality(DOMAIN state.slots)
           dones == [i \in DOMAIN tools.calls |-> ToolDone(tools.calls[i])]
           done == [state EXCEPT !.finish = finish, !.finished = slots,
                                 !.semantic = @ \/ tools.calls # <<>>]
           broken == [Raises(state, Unavailable) EXCEPT !.events = es]
           refused == [Raises(state, tools) EXCEPT !.events = es]
           failure == Failure(tools.failure, ChatMeta(row, state.usage))
           failed == Returns(state, Append(es, Terminal(failure)))
<1>1. n \in Nat /\ DOMAIN slots = 1 .. n
  <2>1. n \in Nat BY FS_CardinalityType DEF SlotsFit
  <2>2. DOMAIN slots = 1 .. n BY DEF ChatSlots, InOrder
  <2> QED BY <2>1, <2>2
<1>2. \/ tools = [calls |-> [i \in DOMAIN slots |-> ChatToolCall(slots[i])]]
      \/ tools = Defect("malformed_tool_call")
      \/ tools = [failure |-> "InvalidToolArguments"]
  <2> HIDE DEF slots
  <2> QED BY DEF ChatToolCalls
<1>3. ChatFinish(state, es, finish, row) =
        IF finish = Absent \/ state.finish # Absent THEN Goes(state, es)
        ELSE IF finish = "error" THEN broken
        ELSE IF IsError(tools) THEN refused
        ELSE IF "failure" \in DOMAIN tools THEN failed
        ELSE Goes(done, es \o dones)
  BY DEF ChatFinish
<1>4. ChatFulfils(Goes(state, es), shown)
  BY GoesFulfil DEF ChatFulfils, Goes
<1>5. ChatFulfils(broken, shown)
  <2>1. Truly(Unavailable, shown \/ es # <<>>) BY FailuresAreTold
  <2>2. Fulfils(broken, shown) BY <2>1, BreaksAfterOutput
  <2>3. broken.end # Open
    BY DEF Raises, Unavailable, Transient, Open
  <2> QED BY <2>2, <2>3 DEF ChatFulfils
<1>6. ASSUME IsError(tools) PROVE ChatFulfils(refused, shown)
  <2>1. tools = Defect("malformed_tool_call")
    <3> HIDE DEF tools
    <3> QED BY <1>2, <1>6 DEF IsError
  <2>2. Truly(tools, shown \/ es # <<>>) BY <2>1, FailuresAreTold
  <2> HIDE DEF tools
  <2>3. Fulfils(refused, shown) BY <2>2, BreaksAfterOutput
  <2>4. refused.end # Open BY <2>1 DEF Raises, Defect, Open
  <2> QED BY <2>3, <2>4 DEF ChatFulfils
<1>7. ChatFulfils(failed, shown)
  <2> HIDE DEF failure
  <2>1. Fulfils(failed, shown) BY FinishesFulfil
  <2>2. failed.end # Open BY DEF Returns, Returned, Open
  <2> QED BY <2>1, <2>2 DEF ChatFulfils
<1>8. ASSUME ~ IsError(tools), "failure" \notin DOMAIN tools
      PROVE  ChatFulfils(Goes(done, es \o dones), shown)
  <2>1. tools = [calls |-> [i \in DOMAIN slots |-> ChatToolCall(slots[i])]]
    <3> HIDE DEF tools
    <3> QED BY <1>2, <1>8 DEF IsError, Defect
  <2> HIDE DEF tools, slots
  <2>2. DOMAIN tools.calls = 1 .. n BY <1>1, <2>1
  <2>3. tools.calls # <<>> <=> n # 0 BY <1>1, <2>2
  <2>4. Outputs(dones) /\ (dones # <<>> <=> n # 0)
    <3>1. \A i \in 1 .. n : Kind(dones[i]) = "semantic"
      BY <2>2 DEF Kind, ToolDone
    <3>2. DOMAIN dones = 1 .. n BY <2>2
    <3>3. dones = [i \in 1 .. n |-> dones[i]] BY <2>2
    <3> HIDE DEF dones
    <3> QED BY <1>1, <3>1, <3>2, <3>3 DEF Outputs, IsSequence
  <2> HIDE DEF dones
  <2>5. Outputs(es \o dones) /\ (es \o dones # <<>> <=> es # <<>> \/ n # 0)
    BY <2>4, OutputsJoin
  <2>6. Tells(done, shown \/ es \o dones # <<>>)
    BY <2>3, <2>5 DEF Tells
  <2>7. SlotsFit(done) BY DEF SlotsFit
  <2> HIDE DEF done
  <2> QED BY <2>5, <2>6, <2>7, GoesFulfil DEF ChatFulfils, Goes
<1> HIDE DEF tools, done, dones, broken, refused, failed
<1> QED BY <1>3, <1>4, <1>5, <1>6, <1>7, <1>8

\* One chunk of a chat stream (openai_chat.py, OpenAIChatEngine.stream).
LEMMA ChatChunkFulfils ==
    ASSUME NEW state, NEW chunk, NEW row, NEW shown,
           SlotsFit(state), Tells(state, shown), IsSequence(chunk.entries)
    PROVE  ChatFulfils(ChatChunk(state, chunk, row), shown)
<1> DEFINE applied == ChatApply(state.slots, chunk.entries)
           usage == ChatFoldUsage(state.usage, chunk.usage)
           counts == IF chunk.usage = Absent THEN <<>>
                     ELSE <<UsageEvent(ChatUsage(usage))>>
           said == IF chunk.text = <<>> THEN <<>> ELSE <<TextDelta(chunk.text)>>
           es == counts \o applied.events \o said
           grown == [state EXCEPT !.model = IF @ = Absent THEN chunk.model ELSE @,
                                  !.usage = usage, !.slots = applied.slots,
                                  !.text = @ \o chunk.text,
                                  !.reasoning = @ \o chunk.reasoning,
                                  !.semantic = @ \/ es # <<>>]
<1>1. ChatChunk(state, chunk, row) = ChatFinish(grown, es, chunk.finish, row)
  BY DEF ChatChunk
<1>2. IsFiniteSet(DOMAIN applied.slots) /\ Outputs(applied.events)
  BY ApplyLoop DEF SlotsFit
<1>3. Outputs(counts) /\ Outputs(said) BY OneOutput
<1> HIDE DEF applied, counts, said, usage
<1>4. Outputs(es)
  <2>1. Outputs(counts \o applied.events) BY <1>2, <1>3, OutputsJoin
  <2> QED BY <1>3, <2>1, OutputsJoin
<1> HIDE DEF es
<1>5. SlotsFit(grown) BY <1>2 DEF SlotsFit
<1>6. Tells(grown, shown \/ es # <<>>) BY DEF Tells
<1> HIDE DEF grown
<1> QED BY <1>1, <1>4, <1>5, <1>6, ChatFinishFulfils

\* A return whose terminal follows a continuation, whatever its outcome.
LEMMA FinishesAfterContinuation ==
    ASSUME NEW state, NEW native, NEW outcome, NEW shown
    PROVE  Fulfils(Returns(state, Append(<<ContinuationDelta(native)>>,
                                                Terminal(outcome))), shown)
<1> DEFINE first == ContinuationDelta(native)
           last == Terminal(outcome)
           es == <<first>>
           c == <<last>>
           u == es \o c
           step == [state |-> state, events |-> u, end |-> Returned]
<1>1. Kind(first) = "continuation" /\ Kind(last) = "terminal"
  BY DEF Kind, ContinuationDelta, Terminal
<1> HIDE DEF first, last
<1>2. IsSequence(es) /\ Len(es) = 1 /\ es[1] = first BY DEF IsSequence
<1>3. IsSequence(c) /\ Len(c) = 1 /\ c[1] = last BY DEF IsSequence
<1>4. step.events = u /\ step.end = Returned OBVIOUS
<1>5. Append(es, last) = u
  <2> HIDE DEF es
  <2> QED BY <1>2 DEF IsSequence
<1>6. Returns(state, Append(es, last)) = step
  <2> HIDE DEF es, u
  <2> QED BY <1>5 DEF Returns
<1> HIDE DEF es, c, step
<1>7. /\ IsSequence(u)
      /\ Len(es) \in Nat /\ Len(c) \in Nat
      /\ DOMAIN es = 1 .. Len(es) /\ DOMAIN c = 1 .. Len(c)
      /\ Len(u) = Len(es) + Len(c)
      /\ \A i \in 1 .. Len(es) : u[i] = es[i]
      /\ \A i \in 1 .. Len(c) : u[Len(es) + i] = c[i]
  <2>1. IsSequence(es) /\ IsSequence(c) BY <1>2, <1>3
  <2> QED BY <2>1, Joined
<1> HIDE DEF u
<1>8. Len(u) = 2 /\ u[1] = first /\ u[2] = last
  <2>1. Len(u) = 2 BY <1>2, <1>3, <1>7
  <2>2. u[1] = es[1] BY <1>2, <1>7
  <2>3. \A k \in Nat : k = Len(es) + 1 => u[k] = c[1] BY <1>3, <1>7
  <2>4. u[2] = c[1] BY <2>3, <1>2
  <2> QED BY <2>1, <2>2, <2>4, <1>2, <1>3
<1>9. /\ Len(u) > 0 /\ Kind(u[Len(u)]) = "terminal"
      /\ \A i \in 1 .. Len(u) - 1 : Kind(u[i]) = "continuation" /\ i = Len(u) - 1
  <2>1. \A i \in 1 .. Len(u) - 1 : i = 1 /\ i = Len(u) - 1 BY <1>8
  <2> QED BY <2>1, <1>1, <1>8
<1>10. Finishes(step) BY <1>4, <1>7, <1>9 DEF Finishes
<1> QED BY <1>6, <1>10 DEF Fulfils, es, last, first

\* The end of a chat stream, cut or complete.
LEMMA ChatEndFulfils ==
    ASSUME NEW state, NEW row, NEW intent, NEW shown, Tells(state, shown)
    PROVE  ChatFulfils(ChatEnd(state, row, intent), shown)
<1> DEFINE native == ChatContinuation(row, intent, ChatNative(state))
           tools == ChatToolCalls(state.finished).calls
           outcome == ChatOutcome(state.finish, ChatMeta(row, state.usage), intent,
                                         state.text, tools, native)
           es == IF native = Absent THEN <<>> ELSE <<ContinuationDelta(native)>>
           cut == Raises(state, Interrupted(state.semantic, "PossiblyBillable"))
           bare == Raises(state, Defect("missing_model"))
           broken == [Raises(state, outcome) EXCEPT !.events = es]
           closed == Returns(state, Append(es, Terminal(outcome)))
<1>1. ChatEnd(state, row, intent) \in
        {cut, bare, IF IsError(outcome) THEN broken ELSE closed}
  BY DEF ChatEnd
<1>2. Fulfils(cut, shown) /\ cut.end # Open
  <2>1. Truly(Interrupted(state.semantic, "PossiblyBillable"), shown)
    BY FailuresAreTold DEF Tells
  <2>2. cut.end # Open
    BY DEF Raises, Interrupted, Transient, Open
  <2> QED BY <2>1, <2>2, BreaksAtOnce
<1>3. Fulfils(bare, shown) /\ bare.end # Open
  BY Malformed DEF Raises, Defect, Open
<1>4. Sound(outcome)
  <2> DEFINE meta == ChatMeta(row, state.usage)
  <2> HIDE DEF native, tools, meta
  <2> QED BY SoundOutcomes DEF ChatOutcome
<1> HIDE DEF native, outcome
<1>5. ASSUME IsError(outcome) PROVE Fulfils(broken, shown) /\ broken.end # Open
  <2>1. Truly(outcome, shown) BY <1>4, <1>5, FailuresAreTold DEF Sound
  <2>2. broken.end # Open
    BY <1>4, <1>5 DEF Sound, Raises, Defect, Open
  <2>3. CASE native = Absent
    <3>1. broken = Raises(state, outcome) BY <2>3 DEF Raises
    <3> QED BY <2>1, <2>2, <3>1, BreaksAtOnce
  <2>4. CASE native # Absent
    <3>1. es = <<ContinuationDelta(native)>> BY <2>4
    <3> QED BY <2>1, <2>2, <3>1, BreaksAfterContinuation
  <2> QED BY <2>3, <2>4
<1>6. Fulfils(closed, shown) /\ closed.end # Open
  <2>1. closed.end # Open BY DEF Returns, Returned, Open
  <2>2. CASE native = Absent
    <3> DEFINE none == <<>>
    <3>1. Outputs(none) BY OneOutput
    <3>2. Fulfils(Returns(state, Append(none, Terminal(outcome))), shown)
      BY <3>1, FinishesFulfil
    <3> QED BY <2>1, <2>2, <3>2
  <2>3. CASE native # Absent
    <3>1. es = <<ContinuationDelta(native)>> BY <2>3
    <3> QED BY <2>1, <3>1, FinishesAfterContinuation
  <2> QED BY <2>2, <2>3
<1> HIDE DEF cut, bare, broken, closed
<1> QED BY <1>1, <1>2, <1>3, <1>5, <1>6 DEF ChatFulfils

\* A Gemini call starts and is done at once.
LEMMA CallEvents ==
    ASSUME NEW given, IsSequence(given)
    PROVE  Outputs(GeminiCallEvents(given))
<1> DEFINE n == Len(given)
           pair(i) == <<ToolStart(given[i]), ToolDone(given[i])>>
           pieces == [i \in DOMAIN given |-> pair(i)]
           E == {e \in UNION {{ToolStart(given[i]), ToolDone(given[i])} : i \in DOMAIN given} :
                   Kind(e) = "semantic"}
           es == GeminiCallEvents(given)
<1>1. n \in Nat /\ DOMAIN given = 1 .. n BY DEF IsSequence
<1>2. es = Concat(pieces) BY DEF GeminiCallEvents
<1>3. \A i : Kind(ToolStart(given[i])) = "semantic" /\ Kind(ToolDone(given[i])) = "semantic"
  BY DEF Kind, ToolStart, ToolDone
<1>4. pieces \in Seq(Seq(E))
  <2>1. \A i \in DOMAIN given : ToolStart(given[i]) \in E /\ ToolDone(given[i]) \in E BY <1>3
  <2> HIDE DEF E
  <2>2. \A i \in DOMAIN given : pieces[i] \in Seq(E) BY <2>1
  <2>3. DOMAIN pieces = 1 .. n /\ pieces = [i \in 1 .. n |-> pieces[i]] BY <1>1
  <2> HIDE DEF pieces
  <2> QED BY <1>1, <2>2, <2>3
<1>5. \A e \in E : Kind(e) = "semantic" OBVIOUS
<1> HIDE DEF pieces, E, es
<1>6. es \in Seq(E) BY <1>2, <1>4, ConcatLoop
<1>7. IsSequence(es) /\ \A i \in DOMAIN es : es[i] \in E BY <1>6 DEF IsSequence
<1>8. Outputs(es) BY <1>5, <1>7 DEF Outputs
<1> QED BY <1>8 DEF es

\* One chunk of a Gemini stream (gemini_generate.py, GeminiGenerateEngine.stream).
LEMMA GeminiFulfils ==
    ASSUME NEW state, NEW chunk, NEW row, NEW intent, NEW shown,
           Tells(state, shown), IsSequence(chunk.parts)
    PROVE  Fulfils(GeminiChunk(state, chunk, row, intent), shown)
<1> DEFINE usage == GeminiFold(state.usage, chunk.usage)
           meta == GeminiMeta(row.model, usage)
           text == TextOf(chunk.parts)
           given == GeminiCalls(chunk.parts)
           said == IF text = <<>> THEN <<>> ELSE <<TextDelta(text)>>
           es == said \o GeminiCallEvents(given)
           grown == [state EXCEPT !.usage = usage, !.parts = @ \o chunk.parts,
                                  !.semantic = @ \/ es # <<>>]
           outcome == IF chunk.finish = "STOP"
                      THEN GeminiStop(row, intent, grown.parts, meta)
                      ELSE GeminiNonStop(chunk.finish, meta)
           blocked == Incomplete("content_filter_partial", meta)
           bare == Raises(state, Defect("malformed_candidate"))
           broken == [Raises(grown, outcome) EXCEPT !.events = es]
           closed == Returns(grown, es \o Closing(outcome))
<1>1. GeminiChunk(state, chunk, row, intent) \in
        {Returns(grown, <<Terminal(blocked)>>), bare, Goes(grown, es),
         IF IsError(outcome) THEN broken ELSE closed}
  BY DEF GeminiChunk
<1>2. IsSequence(given)
  <2> DEFINE tools == ToolsOf(chunk.parts)
  <2>1. IsSequence(tools) BY ToolsLoop
  <2>2. given = [i \in DOMAIN tools |->
                   [id |-> tools[i].id, name |-> tools[i].name, arguments |-> tools[i].arguments]]
    BY DEF GeminiCalls
  <2> HIDE DEF tools, given
  <2>3. Len(tools) \in Nat /\ DOMAIN tools = 1 .. Len(tools) BY <2>1 DEF IsSequence
  <2>4. given = [i \in 1 .. Len(tools) |-> given[i]] BY <2>2, <2>3
  <2> QED BY <2>3, <2>4 DEF IsSequence
<1>3. Outputs(said) BY OneOutput
<1>4. Outputs(es)
  <2> HIDE DEF said, given
  <2> QED BY <1>2, <1>3, CallEvents, OutputsJoin
<1>5. Sound(outcome)
  <2>1. Sound(GeminiStop(row, intent, grown.parts, meta))
    <3> DEFINE parts == grown.parts
    <3> HIDE DEF meta, parts
    <3> QED BY SoundOutcomes DEF GeminiStop
  <2>2. Sound(GeminiNonStop(chunk.finish, meta))
    <3> HIDE DEF meta
    <3> QED BY SoundOutcomes DEF GeminiNonStop
  <2> QED BY <2>1, <2>2
<1> HIDE DEF es, usage, outcome, meta
<1>6. Tells(grown, shown \/ es # <<>>) BY DEF Tells
<1> HIDE DEF grown
<1>7. Fulfils(Goes(grown, es), shown) BY <1>4, <1>6, GoesFulfil
<1>8. Fulfils(Returns(grown, <<Terminal(blocked)>>), shown) /\ Fulfils(closed, shown)
  BY <1>4, FinishesFulfil
<1>9. ASSUME IsError(outcome) PROVE Fulfils(broken, shown)
  <2>1. Truly(outcome, shown \/ es # <<>>) BY <1>5, <1>9, FailuresAreTold DEF Sound
  <2> QED BY <1>4, <2>1, BreaksAfterOutput
<1>10. Fulfils(bare, shown) BY Malformed
<1> HIDE DEF bare, broken, closed
<1> QED BY <1>1, <1>7, <1>8, <1>9, <1>10

\* What an adapter keeps for the contract beside the output it told: the chat
\* decoder its accumulator, and the frames it reads their parts in order, and
\* their texts.
DecoderFits(row, state) == row.engine = "openai_chat" => SlotsFit(state)
FrameFits(row, frame) ==
    /\ row.engine \in {"anthropic_messages", "openai_responses"} =>
         (frame.type = "text_delta" => IsSequence(frame.text))
    /\ row.engine = "openai_chat" => IsSequence(frame.entries) /\ IsSequence(frame.text)
    /\ row.engine = "gemini_generate" => WordedBlocks(frame.parts)

\* What a decoder has kept of what it showed: all of it. A chat decoder has its
\* calls only once a finish reason has folded them, a Gemini decoder the parts.
Holds(state, text, done) ==
    {"text", "tools"} \subseteq DOMAIN state /\ state.text = text /\ state.tools = done
ChatHolds(state, text, done) ==
    /\ {"text", "finish", "finished"} \subseteq DOMAIN state
    /\ state.text = text
    /\ done = IF state.finish = Absent THEN <<>> ELSE ChatToolCalls(state.finished).calls
GeminiHolds(state, text, done) ==
    /\ "parts" \in DOMAIN state
    /\ WordedBlocks(state.parts)
    /\ TextOf(state.parts) = text /\ GeminiCalls(state.parts) = done
Kept(row, state, text, done) ==
    /\ row.engine \in {"anthropic_messages", "openai_responses"} => Holds(state, text, done)
    /\ row.engine = "openai_chat" => ChatHolds(state, text, done)
    /\ row.engine = "gemini_generate" => GeminiHolds(state, text, done)

\* A success has the content that was shown.
Promised(outcome, text, done) ==
    outcome.arm = "Succeeded" =>
        \E native, meta : outcome = Success([text |-> text, tools |-> done], native, meta)

\* A step of a decoder shows what it keeps, or what its outcome has.
AddsUp(row, step, text, done) ==
    /\ step.end = Open =>
         \E more, others : /\ Shown(step.events, more, others)
                           /\ Kept(row, step.state, text \o more, done \o others)
    /\ step.end = Returned =>
         \E more, others, outcome :
            /\ Shown(step.events, more, others)
            /\ Len(step.events) > 0 /\ Last(step.events) = Terminal(outcome)
            /\ Promised(outcome, text \o more, done \o others)

\* A step that goes on and keeps what it shows adds up;
LEMMA GoesOnAddsUp ==
    ASSUME NEW row, NEW state, NEW es, NEW text, NEW done, NEW more, NEW others,
           Shown(es, more, others), Kept(row, state, text \o more, done \o others)
    PROVE  AddsUp(row, Goes(state, es), text, done)
<1>1. Goes(state, es).end # Returned BY DEF Goes, Open, Returned
<1>2. Goes(state, es).events = es /\ Goes(state, es).state = state BY DEF Goes
<1> QED BY <1>1, <1>2 DEF AddsUp

\* so does one that shows nothing and keeps what was;
LEMMA SilenceAddsUp ==
    ASSUME NEW row, NEW state, NEW es, NEW text, NEW done, IsSequence(text), IsSequence(done),
           Shown(es, <<>>, <<>>), Kept(row, state, text, done)
    PROVE  AddsUp(row, Goes(state, es), text, done)
<1> DEFINE none == <<>>
<1>1. text \o none = text /\ done \o none = done BY JoinsAssociate DEF IsSequence
<1>2. Shown(es, none, none) OBVIOUS
<1> HIDE DEF none
<1>3. Kept(row, state, text \o none, done \o none) BY <1>1
<1> QED BY <1>2, <1>3, GoesOnAddsUp

\* a step that raises has nothing to add up;
LEMMA RaisedAddsUp ==
    ASSUME NEW row, NEW step, NEW text, NEW done, step.end.error \notin {"no", "returned"}
    PROVE  AddsUp(row, step, text, done)
  BY DEF AddsUp, Open, Returned

\* and one that returns tells what its outcome has.
LEMMA LastJoined ==
    ASSUME NEW a, NEW b, IsSequence(a), IsSequence(b), Len(b) > 0
    PROVE  Len(a \o b) > 0 /\ Last(a \o b) = Last(b)
<1> DEFINE u == a \o b
<1>1. /\ Len(a) \in Nat /\ Len(b) \in Nat
      /\ Len(u) = Len(a) + Len(b)
      /\ \A i \in 1 .. Len(b) : u[Len(a) + i] = b[i]
  BY Joined
<1> HIDE DEF u
<1>2. u[Len(u)] = b[Len(b)] /\ Len(u) > 0 BY <1>1
<1> QED BY <1>2 DEF Last, u

LEMMA ReturnAddsUp ==
    ASSUME NEW row, NEW state, NEW es, NEW text, NEW done, NEW more, NEW others,
           NEW outcome, Shown(es, more, others), Promised(outcome, text \o more, done \o others)
    PROVE  /\ AddsUp(row, Returns(state, es \o Closing(outcome)), text, done)
           /\ AddsUp(row, Returns(state, Append(es, Terminal(outcome))), text, done)
<1> DEFINE last == Terminal(outcome)
           one == <<last>>
           two == <<ContinuationDelta(outcome.continuation)>> \o one
<1>1. IsSequence(one) /\ Len(one) = 1 /\ Last(one) = last
  BY DEF IsSequence, Last
<1>2. IsSequence(two) /\ Len(two) > 0 /\ Last(two) = last
  <2> DEFINE first == <<ContinuationDelta(outcome.continuation)>>
  <2>1. IsSequence(first) BY DEF IsSequence
  <2> HIDE DEF first, one
  <2> QED BY SMTT(30), <1>1, <2>1, LastJoined, Joined DEF first
<1>3. Closing(outcome) \in {one, two}
  <2> DEFINE a == <<ContinuationDelta(outcome.continuation)>>
             b == <<Terminal(outcome)>>
  <2>1. <<ContinuationDelta(outcome.continuation), Terminal(outcome)>> = a \o b OBVIOUS
  <2> HIDE DEF a, b
  <2>2. two = a \o b BY DEF a, b
  <2> QED BY <2>1, <2>2 DEF Closing
<1>4. Append(es, last) = es \o one
  <2>1. IsSequence(es) BY DEF Shown, Worded
  <2> HIDE DEF last
  <2> QED BY <2>1 DEF IsSequence
<1>5. Shown(Closing(outcome), <<>>, <<>>) /\ Shown(one, <<>>, <<>>) BY ClosingShows
<1> HIDE DEF one, two, last
<1>6. ASSUME NEW b, b \in {one, two}, Shown(b, <<>>, <<>>)
      PROVE  AddsUp(row, Returns(state, es \o b), text, done)
  <2> DEFINE new == es \o b
             step == Returns(state, new)
  <2>1. Shown(new, more, others) BY <1>6, ShownMore
  <2>2. IsSequence(es) /\ IsSequence(b) BY <1>6 DEF Shown, Worded
  <2>3. Len(b) > 0 /\ Last(b) = last BY <1>1, <1>2, <1>6
  <2>4. Len(new) > 0 /\ Last(new) = Terminal(outcome)
    BY <2>2, <2>3, LastJoined DEF last
  <2> HIDE DEF new
  <2>5. step.events = new /\ step.end # Open BY DEF Returns, Returned, Open
  <2> HIDE DEF step
  <2>6. /\ Shown(step.events, more, others)
        /\ Len(step.events) > 0 /\ Last(step.events) = Terminal(outcome)
        /\ Promised(outcome, text \o more, done \o others)
    BY <2>1, <2>4, <2>5
  <2>7. AddsUp(row, step, text, done) BY <2>5, <2>6 DEF AddsUp
  <2> QED BY <2>7 DEF step, new
<1>7. AddsUp(row, Returns(state, es \o Closing(outcome)), text, done) BY <1>3, <1>5, <1>6
<1>8. AddsUp(row, Returns(state, es \o one), text, done) BY <1>5, <1>6
<1> QED BY <1>4, <1>7, <1>8 DEF last

\* An outcome that comes after what was shown, and shows nothing more.
LEMMA PromiseAddsUp ==
    ASSUME NEW row, NEW state, NEW text, NEW done, IsSequence(text), IsSequence(done),
           NEW outcome, Promised(outcome, text, done)
    PROVE  /\ AddsUp(row, Returns(state, Closing(outcome)), text, done)
           /\ AddsUp(row, Returns(state, <<Terminal(outcome)>>), text, done)
<1> DEFINE none == <<>>
           one == <<Terminal(outcome)>>
<1>1. text \o none = text /\ done \o none = done BY JoinsAssociate DEF IsSequence
<1>2. Shown(none, none, none) BY ShownFew
<1>3. IsSequence(Closing(outcome)) /\ IsSequence(one) BY ClosingShows DEF Shown, Worded
<1>4. none \o Closing(outcome) = Closing(outcome)
  BY <1>3, JoinsAssociate DEF IsSequence
<1>5. Append(none, Terminal(outcome)) = one OBVIOUS
<1> HIDE DEF none, one
<1>6. Promised(outcome, text \o none, done \o none) BY <1>1
<1>7. /\ AddsUp(row, Returns(state, none \o Closing(outcome)), text, done)
      /\ AddsUp(row, Returns(state, Append(none, Terminal(outcome))), text, done)
  BY <1>2, <1>6, ReturnAddsUp
<1> QED BY <1>4, <1>5, <1>7 DEF one

LEMMA FewOutcomes ==
    ASSUME NEW text, NEW done
    PROVE  /\ \A why, meta : Promised(Failure(why, meta), text, done)
                               /\ Promised(Incomplete(why, meta), text, done)
           /\ \A native, meta : Promised(Success([text |-> text, tools |-> done], native, meta),
                                         text, done)
           /\ \A row, intent, blocks, meta :
                Promised(Answer(row, intent, text, done, blocks, meta), text, done)
<1>1. \A why, meta : Promised(Failure(why, meta), text, done)
                       /\ Promised(Incomplete(why, meta), text, done)
  BY DEF Promised, Failure, Incomplete, Outcome
<1>2. \A native, meta : Promised(Success([text |-> text, tools |-> done], native, meta), text, done)
  BY DEF Promised
<1>3. \A row, intent, blocks, meta :
         Promised(Answer(row, intent, text, done, blocks, meta), text, done)
  <2> TAKE row, intent, blocks, meta
  <2> DEFINE content == ResponseContent(intent, text, done)
  <2>1. content \in {[text |-> text, tools |-> done], Absent} BY DEF ResponseContent
  <2>2. Answer(row, intent, text, done, blocks, meta) =
          IF content = Absent THEN Failure("InvalidStructuredOutput", meta)
          ELSE Success(content, Artifact(row, intent, blocks), meta)
    BY DEF Answer
  <2> HIDE DEF content
  <2> QED BY <1>1, <1>2, <2>1, <2>2
<1> QED BY <1>1, <1>2, <1>3

\* How an attempt concludes.
LEMMA ConclusionAddsUp ==
    ASSUME NEW row, NEW state, NEW text, NEW done, IsSequence(text), IsSequence(done),
           NEW outcome, Sound(outcome), ~ IsError(outcome) => Promised(outcome, text, done)
    PROVE  AddsUp(row, Conclusion(state, outcome), text, done)
<1>1. CASE IsError(outcome)
  BY <1>1, RaisedAddsUp DEF Conclusion, Raises, Sound, Defect
<1>2. CASE ~ IsError(outcome)
  BY <1>2, PromiseAddsUp DEF Conclusion
<1> QED BY <1>1, <1>2

\* One event more, and what the decoder keeps of it.
Flagged(state) == [state EXCEPT !.semantic = TRUE]

LEMMA HoldsOn ==
    ASSUME NEW state, NEW text, NEW done, Holds(state, text, done)
    PROVE  Holds(Flagged(state), text, done)
  BY DEF Holds, Flagged

LEMMA SaysWhatItKeeps ==
    ASSUME NEW row, row.engine \in {"anthropic_messages", "openai_responses"},
           NEW state, NEW e, NEW text, NEW done, NEW more, NEW others,
           Shown(<<e>>, more, others), Holds(state, text \o more, done \o others)
    PROVE  /\ AddsUp(row, AnthropicSemantic(state, e), text, done)
           /\ AddsUp(row, ResponsesSemantic(state, e), text, done)
<1> DEFINE kept == Flagged(state)
<1>1. Holds(kept, text \o more, done \o others) BY HoldsOn
<1>2. /\ AnthropicSemantic(state, e) = Goes(kept, <<e>>)
      /\ ResponsesSemantic(state, e) = Goes(kept, <<e>>)
  BY DEF AnthropicSemantic, ResponsesSemantic, Flagged
<1> HIDE DEF kept
<1>3. Kept(row, kept, text \o more, done \o others) BY <1>1 DEF Kept
<1> QED BY <1>2, <1>3, GoesOnAddsUp

\* An event that is neither text nor a call that is done leaves both as they were;
LEMMA MentionsAddUp ==
    ASSUME NEW row, row.engine \in {"anthropic_messages", "openai_responses"},
           NEW state, NEW e, NEW text, NEW done, IsSequence(text), IsSequence(done),
           e.event \notin {"text", "done"}, Holds(state, text, done)
    PROVE  /\ AddsUp(row, AnthropicSemantic(state, e), text, done)
           /\ AddsUp(row, ResponsesSemantic(state, e), text, done)
<1> DEFINE none == <<>>
<1>1. Shown(<<e>>, none, none) BY ShownFew
<1>2. text \o none = text /\ done \o none = done BY JoinsAssociate DEF IsSequence
<1> HIDE DEF none
<1>3. Holds(state, text \o none, done \o none) BY <1>2
<1> QED BY <1>1, <1>3, SaysWhatItKeeps

\* and so does none.
LEMMA NothingAddsUp ==
    ASSUME NEW row, row.engine \in {"anthropic_messages", "openai_responses"},
           NEW state, NEW text, NEW done, IsSequence(text), IsSequence(done),
           Holds(state, text, done)
    PROVE  AddsUp(row, Goes(state, <<>>), text, done)
  BY ShownFew, SilenceAddsUp DEF Kept

\* A text, or a call that is done, is kept.
LEMMA TextAddsUp ==
    ASSUME NEW row, row.engine \in {"anthropic_messages", "openai_responses"},
           NEW state, NEW more, NEW text, NEW done, IsSequence(more), IsSequence(done),
           Holds(state, text \o more, done)
    PROVE  /\ AddsUp(row, AnthropicSemantic(state, TextDelta(more)), text, done)
           /\ AddsUp(row, ResponsesSemantic(state, TextDelta(more)), text, done)
<1> DEFINE none == <<>>
           e == TextDelta(more)
<1>1. Shown(<<e>>, more, none) BY ShownFew
<1>2. done \o none = done BY JoinsAssociate DEF IsSequence
<1> HIDE DEF none, e
<1>3. Holds(state, text \o more, done \o none) BY <1>2
<1>4. /\ AddsUp(row, AnthropicSemantic(state, e), text, done)
      /\ AddsUp(row, ResponsesSemantic(state, e), text, done)
  BY <1>1, <1>3, SaysWhatItKeeps
<1> QED BY <1>4 DEF e

LEMMA CallAddsUp ==
    ASSUME NEW row, row.engine \in {"anthropic_messages", "openai_responses"},
           NEW state, NEW given, NEW text, NEW done, IsSequence(text), IsSequence(done),
           Holds(state, text, Append(done, given))
    PROVE  /\ AddsUp(row, AnthropicSemantic(state, ToolDone(given)), text, done)
           /\ AddsUp(row, ResponsesSemantic(state, ToolDone(given)), text, done)
<1> DEFINE none == <<>>
           e == ToolDone(given)
           one == <<given>>
<1>1. Shown(<<e>>, none, one) BY ShownFew
<1>2. text \o none = text BY JoinsAssociate DEF IsSequence
<1>3. done \o one = Append(done, given) BY DEF IsSequence
<1> HIDE DEF none, e, one
<1>4. Holds(state, text \o none, done \o one) BY <1>2, <1>3
<1>5. /\ AddsUp(row, AnthropicSemantic(state, e), text, done)
      /\ AddsUp(row, ResponsesSemantic(state, e), text, done)
  BY <1>1, <1>4, SaysWhatItKeeps
<1> QED BY <1>5 DEF e

\* One frame of an Anthropic stream, whatever it is.
LEMMA AnthropicAddsUp ==
    ASSUME NEW state, NEW frame, NEW row, NEW intent, NEW text, NEW done,
           row.engine = "anthropic_messages", FrameFits(row, frame),
           IsSequence(text), IsSequence(done), Holds(state, text, done)
    PROVE  AddsUp(row, AnthropicFrame(state, frame, row, intent), text, done)
<1>0. /\ AddsUp(row, Goes(state, <<>>), text, done)
      /\ \A code : AddsUp(row, Raises(state, Defect(code)), text, done)
  BY NothingAddsUp, RaisedAddsUp DEF Raises, Defect
<1>1. AddsUp(row, AnthropicBlockStart(state, frame), text, done)
  <2> DEFINE block == frame.block
             kept == [state EXCEPT !.native = Bind(@, frame.index, block)]
             opened == [kept EXCEPT !.open = Bind(@, frame.index,
                                                         [block EXCEPT !.arguments = <<>>])]
  <2>1. Holds(kept, text, done) BY DEF Holds
  <2>2. Holds(opened, text, done)
    <3> HIDE DEF kept
    <3> QED BY <2>1 DEF Holds
  <2>3. AnthropicBlockStart(state, frame) \in
          {AnthropicSemantic(opened, ToolStart(block)), Goes(kept, <<>>),
           Raises(state, Defect("unknown_content_block"))}
    BY DEF AnthropicBlockStart
  <2> HIDE DEF opened, kept, block
  <2>4. AddsUp(row, AnthropicSemantic(opened, ToolStart(block)), text, done)
    <3>1. ToolStart(block).event \notin {"text", "done"} BY DEF ToolStart
    <3> QED BY <2>2, <3>1, MentionsAddUp
  <2>5. AddsUp(row, Goes(kept, <<>>), text, done) BY <2>1, NothingAddsUp
  <2> QED BY <1>0, <2>3, <2>4, <2>5
<1>2. ASSUME frame.type = "text_delta"
      PROVE  AddsUp(row, AnthropicTextDelta(state, frame), text, done)
  <2> DEFINE more == frame.text
             grown == [state EXCEPT !.text = @ \o more,
                                    !.native[frame.index].text = @ \o more]
  <2>1. IsSequence(more) BY <1>2 DEF FrameFits
  <2>2. Holds(grown, text \o more, done)
    <3> HIDE DEF more
    <3> QED BY DEF Holds
  <2>3. \/ AnthropicTextDelta(state, frame) = Raises(state, Defect("malformed_stream_event"))
        \/ more = <<>> /\ AnthropicTextDelta(state, frame) = Goes(grown, <<>>)
        \/ AnthropicTextDelta(state, frame) = AnthropicSemantic(grown, TextDelta(more))
    BY DEF AnthropicTextDelta
  <2> HIDE DEF grown, more
  <2>4. more = <<>> => AddsUp(row, Goes(grown, <<>>), text, done)
    <3>1. text \o <<>> = text BY JoinsAssociate DEF IsSequence
    <3>2. more = <<>> => Holds(grown, text, done) BY <2>2, <3>1
    <3> QED BY <3>2, NothingAddsUp
  <2>5. AddsUp(row, AnthropicSemantic(grown, TextDelta(more)), text, done)
    BY <2>1, <2>2, TextAddsUp
  <2> QED BY <1>0, <2>3, <2>4, <2>5
<1>3. AddsUp(row, AnthropicJsonDelta(state, frame), text, done)
  <2> DEFINE grown == [state EXCEPT !.open[frame.index].arguments = @ \o frame.text]
             fragment == ToolDelta(state.open[frame.index].id, frame.text)
  <2>1. Holds(grown, text, done) BY DEF Holds
  <2>2. AnthropicJsonDelta(state, frame) \in
          {Raises(state, Defect("malformed_stream_event")),
           Goes(grown, <<>>), AnthropicSemantic(grown, fragment)}
    BY DEF AnthropicJsonDelta
  <2>3. fragment.event \notin {"text", "done"} BY DEF ToolDelta
  <2> HIDE DEF grown, fragment
  <2>4. AddsUp(row, AnthropicSemantic(grown, fragment), text, done)
    BY <2>1, <2>3, MentionsAddUp
  <2>5. AddsUp(row, Goes(grown, <<>>), text, done) BY <2>1, NothingAddsUp
  <2> QED BY <1>0, <2>2, <2>4, <2>5
<1>4. AddsUp(row, AnthropicThinkingDelta(state, frame), text, done)
  <2> DEFINE grown == [state EXCEPT !.native[frame.index].signature = @ \o frame.text]
  <2>1. Holds(grown, text, done) BY DEF Holds
  <2>2. AnthropicThinkingDelta(state, frame) \in
          {Raises(state, Defect("malformed_stream_event")),
           Goes(grown, <<>>)}
    BY DEF AnthropicThinkingDelta
  <2> HIDE DEF grown
  <2> QED BY <1>0, <2>1, <2>2, NothingAddsUp
<1>5. AddsUp(row, AnthropicBlockStop(state, frame, row), text, done)
  <2> DEFINE open == state.open[frame.index]
             tool == AnthropicToolCall(
                       [open EXCEPT !.arguments = IF @ = <<>> THEN <<"{", "}">> ELSE @])
             closed == [state EXCEPT !.open = Unbind(@, frame.index),
                                     !.tools = Append(@, tool),
                                     !.native[frame.index].arguments = tool.arguments]
             failure == Failure("InvalidToolArguments",
                          Meta(row.model, AnthropicUsage(state.fold),
                                      "PossiblyBillable"))
  <2>1. Holds(closed, text, Append(done, tool))
    <3> HIDE DEF tool
    <3> QED BY DEF Holds
  <2>2. AnthropicBlockStop(state, frame, row) \in
          {Goes(state, <<>>), Returns(state, <<Terminal(failure)>>),
           AnthropicSemantic(closed, ToolDone(tool))}
    BY DEF AnthropicBlockStop
  <2>3. Promised(failure, text, done) BY FewOutcomes
  <2> HIDE DEF closed, tool, failure
  <2>4. AddsUp(row, AnthropicSemantic(closed, ToolDone(tool)), text, done)
    BY <2>1, CallAddsUp
  <2>5. AddsUp(row, Returns(state, <<Terminal(failure)>>), text, done)
    BY <2>3, PromiseAddsUp
  <2> QED BY <1>0, <2>2, <2>4, <2>5
<1>6. AddsUp(row, AnthropicMessageDelta(state, frame), text, done)
  <2> DEFINE told == [state EXCEPT !.stop = IF frame.stop = Absent THEN @ ELSE frame.stop,
                                   !.fold = AnthropicAbsorb(@, frame.usage)]
             usage == AnthropicUsage(told.fold)
             e == UsageEvent(usage)
  <2>1. Holds(told, text, done) BY DEF Holds
  <2>2. AnthropicMessageDelta(state, frame) \in
          {Goes(told, <<>>), AnthropicSemantic(told, e)}
    BY DEF AnthropicMessageDelta
  <2>3. e.event \notin {"text", "done"} BY DEF UsageEvent
  <2> HIDE DEF told, usage, e
  <2> QED BY <2>1, <2>2, <2>3, MentionsAddUp, NothingAddsUp
<1>7. AddsUp(row, AnthropicMessageStop(state, row, intent), text, done)
  <2> DEFINE usage == AnthropicUsage(state.fold)
             meta == Meta(state.model, usage, "PossiblyBillable")
             refused == Meta(state.model, usage, AnthropicRefusalBillability(usage))
             stopped == AnthropicStopped(state.stop, meta)
             answer == Answer(row, intent, state.text, state.tools,
                                     InOrder(state.native), meta)
             outcome ==
                IF state.model = Absent THEN Defect("malformed_stream_event")
                ELSE IF state.stop = "refusal"
                THEN Incomplete("content_filter_partial", refused)
                ELSE IF stopped # Absent THEN stopped
                ELSE answer
  <2>1. AnthropicMessageStop(state, row, intent) = Conclusion(state, outcome)
    BY DEF AnthropicMessageStop, Conclusion
  <2>2. stopped # Absent =>
          Sound(stopped) /\ (~ IsError(stopped) => Promised(stopped, text, done))
    <3>1. \A code : IsError(Defect(code)) BY DEF IsError, Defect
    <3> HIDE DEF meta
    <3>2. stopped \in {Incomplete("max_output_tokens", meta),
                       Failure("ProviderContextTooLarge", meta),
                       Absent, Defect("unknown_stop_reason")}
      BY DEF AnthropicStopped
    <3> HIDE DEF stopped
    <3> QED BY <3>1, <3>2, SoundOutcomes, FewOutcomes
  <2>3. Sound(answer) /\ Promised(answer, text, done)
    <3>1. state.text = text /\ state.tools = done BY DEF Holds
    <3>2. answer = Answer(row, intent, text, done, InOrder(state.native), meta) BY <3>1
    <3> HIDE DEF answer, meta
    <3> QED BY <3>2, SoundOutcomes, FewOutcomes
  <2>4. Sound(outcome) /\ (~ IsError(outcome) => Promised(outcome, text, done))
    <3>1. IsError(Defect("malformed_stream_event")) BY DEF IsError, Defect
    <3> HIDE DEF stopped, answer, refused
    <3> QED BY <2>2, <2>3, <3>1, SoundOutcomes, FewOutcomes
  <2> HIDE DEF outcome
  <2> QED BY <2>1, <2>4, ConclusionAddsUp
<1> DEFINE begun_ == [state EXCEPT !.model = frame.model,
                                   !.fold = AnthropicAbsorb(@, frame.usage)]
           told == AnthropicTextDelta(state, frame)
<1>8. AddsUp(row, Goes(begun_, <<>>), text, done)
  <2>1. Holds(begun_, text, done) BY DEF Holds
  <2> HIDE DEF begun_
  <2> QED BY <2>1, NothingAddsUp
<1>9. \/ AnthropicFrame(state, frame, row, intent) \in
           {Goes(begun_, <<>>), AnthropicBlockStart(state, frame),
            AnthropicJsonDelta(state, frame),
            AnthropicThinkingDelta(state, frame),
            Raises(state, Defect("malformed_stream_event")),
            AnthropicBlockStop(state, frame, row),
            AnthropicMessageDelta(state, frame),
            AnthropicMessageStop(state, row, intent), Goes(state, <<>>)}
      \/ frame.type = "text_delta" /\ AnthropicFrame(state, frame, row, intent) = told
  BY DEF AnthropicFrame
<1> HIDE DEF begun_
<1> QED BY <1>0, <1>1, <1>2, <1>3, <1>4, <1>5, <1>6, <1>7, <1>8, <1>9

\* One frame of a Responses stream.
LEMMA ResponsesAddsUp ==
    ASSUME NEW state, NEW frame, NEW row, NEW intent, NEW text, NEW done,
           row.engine = "openai_responses", FrameFits(row, frame),
           IsSequence(text), IsSequence(done), Holds(state, text, done)
    PROVE  AddsUp(row, ResponsesFrame(state, frame, row, intent), text, done)
<1>0. AddsUp(row, Goes(state, <<>>), text, done) BY NothingAddsUp
<1>1. AddsUp(row, ResponsesItemAdded(state, frame), text, done)
  <2> DEFINE opened == [state EXCEPT !.open = [k \in DOMAIN @ \cup {frame.item.id} |->
                                                 IF k = frame.item.id THEN <<>> ELSE @[k]]]
             e == ToolStart(frame.item)
  <2>1. Holds(opened, text, done) BY DEF Holds
  <2>2. ResponsesItemAdded(state, frame) \in {Goes(state, <<>>), ResponsesSemantic(opened, e)}
    BY DEF ResponsesItemAdded
  <2>3. e.event \notin {"text", "done"} BY DEF ToolStart
  <2> HIDE DEF opened, e
  <2> QED BY <1>0, <2>1, <2>2, <2>3, MentionsAddUp
<1>2. AddsUp(row, ResponsesArgumentsDelta(state, frame), text, done)
  <2> DEFINE grown == [state EXCEPT !.open[frame.id] = @ \o frame.text]
             e == ToolDelta(frame.id, frame.text)
  <2>1. Holds(grown, text, done) BY DEF Holds
  <2>2. ResponsesArgumentsDelta(state, frame) \in
          {Goes(state, <<>>), ResponsesSemantic(grown, e)}
    BY DEF ResponsesArgumentsDelta
  <2>3. e.event \notin {"text", "done"} BY DEF ToolDelta
  <2> HIDE DEF grown, e
  <2> QED BY <1>0, <2>1, <2>2, <2>3, MentionsAddUp
<1>3. AddsUp(row, ResponsesItemDone(state, frame, row), text, done)
  <2> DEFINE id == frame.item.id
             captured == [state EXCEPT !.items = Append(@, frame.item)]
             tool == ResponsesToolCall(frame.item,
                       IF id \in DOMAIN state.open THEN state.open[id] ELSE <<>>)
             silent == [captured EXCEPT !.refused = @ \/ frame.item.type = "refusal"]
             closed == [captured EXCEPT !.tools = Append(@, tool),
                                        !.open = [k \in DOMAIN @ \ {id} |-> @[k]]]
             failure == Failure("InvalidToolArguments", ResponsesMeta(row, Absent))
  <2>1. Holds(captured, text, done) BY DEF Holds
  <2>2. ResponsesItemDone(state, frame, row) \in
          {Goes(silent, <<>>), Returns(captured, <<Terminal(failure)>>),
           ResponsesSemantic(closed, ToolDone(tool))}
    BY DEF ResponsesItemDone
  <2>3. Promised(failure, text, done) BY FewOutcomes
  <2> HIDE DEF captured, tool, failure
  <2>4. Holds(silent, text, done) BY <2>1 DEF Holds
  <2>5. Holds(closed, text, Append(done, tool)) BY <2>1 DEF Holds
  <2> HIDE DEF silent, closed
  <2>6. AddsUp(row, ResponsesSemantic(closed, ToolDone(tool)), text, done)
    BY <2>5, CallAddsUp
  <2>7. AddsUp(row, Returns(captured, <<Terminal(failure)>>), text, done)
    BY <2>3, PromiseAddsUp
  <2>8. AddsUp(row, Goes(silent, <<>>), text, done) BY <2>4, NothingAddsUp
  <2> QED BY <2>2, <2>6, <2>7, <2>8
<1>4. AddsUp(row, ResponsesTerminal(state, frame, row, intent), text, done)
  <2> DEFINE usage == ResponsesUsage(frame.response.usage)
             meta == ResponsesMeta(row, usage)
             incomplete == ResponsesIncomplete(frame.response.reason, meta)
             answer == Answer(row, intent, state.text, state.tools, state.items, meta)
             outcome ==
                IF frame.response.model = Absent THEN Defect("missing_model")
                ELSE IF usage # Absent /\ IsError(usage) THEN usage
                ELSE IF frame.type = "incomplete" THEN incomplete
                ELSE IF state.refused THEN Incomplete("content_filter_partial", meta)
                ELSE answer
  <2>0. \A code : IsError(Defect(code)) BY DEF IsError, Defect
  <2>1. ResponsesTerminal(state, frame, row, intent) = Conclusion(state, outcome)
    BY DEF ResponsesTerminal, Conclusion
  <2>2. usage # Absent => Sound(usage)
    BY SoundOutcomes DEF ResponsesUsage, Sound, IsError
  <2>3. Sound(incomplete) /\ (~ IsError(incomplete) => Promised(incomplete, text, done))
    <3> HIDE DEF meta
    <3> QED BY <2>0, SoundOutcomes, FewOutcomes DEF ResponsesIncomplete
  <2>4. Sound(answer) /\ Promised(answer, text, done)
    <3>1. state.text = text /\ state.tools = done BY DEF Holds
    <3>2. answer = Answer(row, intent, text, done, state.items, meta) BY <3>1
    <3> HIDE DEF answer, meta
    <3> QED BY <3>2, SoundOutcomes, FewOutcomes
  <2>5. Sound(outcome) /\ (~ IsError(outcome) => Promised(outcome, text, done))
    <3> HIDE DEF usage, meta, incomplete, answer
    <3> QED BY <2>0, <2>2, <2>3, <2>4, SoundOutcomes, FewOutcomes
  <2> HIDE DEF outcome
  <2> QED BY <2>1, <2>5, ConclusionAddsUp
<1> DEFINE more == frame.text
           grown == [state EXCEPT !.text = @ \o more]
           refused == [state EXCEPT !.refused = TRUE]
           said == ResponsesSemantic(grown, TextDelta(more))
           broken == Raises(state, ResponsesInband(frame.code))
<1>5. frame.type = "text_delta" => AddsUp(row, said, text, done)
  <2>1. frame.type = "text_delta" => IsSequence(more) BY DEF FrameFits
  <2> HIDE DEF more
  <2>2. Holds(grown, text \o more, done) BY DEF Holds
  <2> HIDE DEF grown
  <2> QED BY <2>1, <2>2, TextAddsUp
<1>6. AddsUp(row, Goes(refused, <<>>), text, done)
  <2>1. Holds(refused, text, done) BY DEF Holds
  <2> HIDE DEF refused
  <2> QED BY <2>1, NothingAddsUp
<1>7. AddsUp(row, broken, text, done)
  BY RaisedAddsUp DEF ResponsesInband, Raises, RateLimited, Unavailable, Transient, Defect
<1>8. \/ ResponsesFrame(state, frame, row, intent) \in
           {Goes(state, <<>>), Goes(refused, <<>>), broken,
            ResponsesItemAdded(state, frame), ResponsesArgumentsDelta(state, frame),
            ResponsesItemDone(state, frame, row),
            ResponsesTerminal(state, frame, row, intent)}
      \/ frame.type = "text_delta" /\ ResponsesFrame(state, frame, row, intent) = said
  BY DEF ResponsesFrame
<1> HIDE DEF said, refused, broken
<1> QED BY <1>0, <1>1, <1>2, <1>3, <1>4, <1>5, <1>6, <1>7, <1>8

\* The finish reason of a chat stream folds the calls, and shows them.
LEMMA ChatFinishAddsUp ==
    ASSUME NEW row, row.engine = "openai_chat", NEW state, NEW es, NEW finish,
           NEW text, NEW done, NEW more, IsSequence(text), IsSequence(done), IsSequence(more),
           SlotsFit(state), Shown(es, more, <<>>), ChatHolds(state, text \o more, done)
    PROVE  AddsUp(row, ChatFinish(state, es, finish, row), text, done)
<1> DEFINE none == <<>>
           slots == ChatSlots(state)
           tools == ChatToolCalls(slots)
           given == tools.calls
           n == Cardinality(DOMAIN state.slots)
           dones == [i \in DOMAIN given |-> ToolDone(given[i])]
           folded == [state EXCEPT !.finish = finish, !.finished = slots,
                                   !.semantic = @ \/ given # <<>>]
           broken == [Raises(state, Unavailable) EXCEPT !.events = es]
           refused == [Raises(state, tools) EXCEPT !.events = es]
           failure == Failure(tools.failure, ChatMeta(row, state.usage))
           failed == Returns(state, Append(es, Terminal(failure)))
<1>1. n \in Nat /\ DOMAIN slots = 1 .. n
  <2>1. n \in Nat BY FS_CardinalityType DEF SlotsFit
  <2> QED BY <2>1 DEF ChatSlots, InOrder
<1>2. \/ tools = [calls |-> [i \in DOMAIN slots |-> ChatToolCall(slots[i])]]
      \/ tools = Defect("malformed_tool_call")
      \/ tools = [failure |-> "InvalidToolArguments"]
  <2> HIDE DEF slots
  <2> QED BY DEF ChatToolCalls
<1>3. ChatFinish(state, es, finish, row) =
        IF finish = Absent \/ state.finish # Absent THEN Goes(state, es)
        ELSE IF finish = "error" THEN broken
        ELSE IF IsError(tools) THEN refused
        ELSE IF "failure" \in DOMAIN tools THEN failed
        ELSE Goes(folded, es \o dones)
  BY DEF ChatFinish
<1>4. Shown(es, more, none) /\ IsSequence(none) BY DEF IsSequence
<1>5. /\ text \o none = text /\ done \o none = done /\ more \o none = more
      /\ \A s : IsSequence(s) => none \o s = s
  BY JoinsAssociate DEF IsSequence
<1>6. state.finish = Absent => done = none BY DEF ChatHolds
<1> HIDE DEF none
<1>7. AddsUp(row, Goes(state, es), text, done)
  <2>1. Kept(row, state, text \o more, done \o none) BY <1>5 DEF Kept
  <2> QED BY <1>4, <2>1, GoesOnAddsUp
<1>8. AddsUp(row, broken, text, done)
  <2>1. broken.end.error = "TransientAttempt" BY DEF Raises, Unavailable, Transient
  <2> HIDE DEF broken
  <2> QED BY <2>1, RaisedAddsUp
<1>9. ASSUME IsError(tools) PROVE AddsUp(row, refused, text, done)
  <2>1. tools = Defect("malformed_tool_call")
    <3> HIDE DEF tools
    <3> QED BY <1>2, <1>9 DEF IsError
  <2> HIDE DEF tools
  <2>2. refused.end.error = "ProtocolDefect" BY <2>1 DEF Raises, Defect
  <2> HIDE DEF refused
  <2> QED BY <2>2, RaisedAddsUp
<1>10. AddsUp(row, failed, text, done)
  <2>1. Promised(failure, text \o more, done \o none) BY FewOutcomes
  <2> HIDE DEF failure
  <2> QED BY <1>4, <2>1, ReturnAddsUp
<1>11. ASSUME finish # Absent, state.finish = Absent, ~ IsError(tools),
              "failure" \notin DOMAIN tools
       PROVE  AddsUp(row, Goes(folded, es \o dones), text, done)
  <2>1. tools = [calls |-> [i \in DOMAIN slots |-> ChatToolCall(slots[i])]]
    <3> HIDE DEF tools
    <3> QED BY <1>2, <1>11 DEF IsError, Defect
  <2>2. given = [i \in DOMAIN slots |-> ChatToolCall(slots[i])]
    <3> HIDE DEF tools
    <3> QED BY <2>1
  <2>3. IsSequence(given)
    <3> HIDE DEF given, slots
    <3>1. given = [i \in 1 .. n |-> given[i]] BY <1>1, <2>2
    <3> DEFINE S == {given[i] : i \in 1 .. n}
    <3>2. \A i \in 1 .. n : given[i] \in S OBVIOUS
    <3> HIDE DEF S, n
    <3>3. given \in Seq(S) /\ DOMAIN given = 1 .. n BY <1>1, <3>1, <3>2
    <3> QED BY <3>3 DEF IsSequence, S
  <2> HIDE DEF tools
  <2>4. /\ ChatHolds(folded, text \o more, given)
    <3>1. /\ {"text", "finish", "finished"} \subseteq DOMAIN state
          /\ state.text = text \o more
      BY DEF ChatHolds
    <3> HIDE DEF slots
    <3>2. /\ {"text", "finish", "finished"} \subseteq DOMAIN folded
          /\ folded.text = text \o more
          /\ folded.finish = finish /\ folded.finished = slots
      BY <3>1
    <3> HIDE DEF folded
    <3> QED BY <1>11, <3>2 DEF ChatHolds, tools
  <2> HIDE DEF folded, given
  <2>5. Shown(dones, none, given) BY <2>3, DonesShow DEF none
  <2> HIDE DEF dones
  <2>6. Shown(es \o dones, more \o none, none \o given) BY <1>4, <2>5, ShownJoin
  <2>7. none \o given = given /\ done \o given = given BY <1>5, <1>6, <1>11, <2>3
  <2>8. Shown(es \o dones, more, given) BY <1>5, <2>6, <2>7
  <2>9. Kept(row, folded, text \o more, done \o given) BY <2>4, <2>7 DEF Kept
  <2> QED BY <2>8, <2>9, GoesOnAddsUp
<1> HIDE DEF tools, folded, dones, broken, refused, failed
<1> QED BY <1>3, <1>7, <1>8, <1>9, <1>10, <1>11

\* One chunk of a chat stream: its text, and its calls when they are folded.
LEMMA ChatChunkAddsUp ==
    ASSUME NEW state, NEW chunk, NEW row, NEW text, NEW done,
           row.engine = "openai_chat", FrameFits(row, chunk), SlotsFit(state),
           IsSequence(text), IsSequence(done), ChatHolds(state, text, done)
    PROVE  AddsUp(row, ChatChunk(state, chunk, row), text, done)
<1> DEFINE none == <<>>
           more == chunk.text
           applied == ChatApply(state.slots, chunk.entries)
           usage == ChatFoldUsage(state.usage, chunk.usage)
           counts == IF chunk.usage = Absent THEN <<>>
                     ELSE <<UsageEvent(ChatUsage(usage))>>
           said == IF more = <<>> THEN <<>> ELSE <<TextDelta(more)>>
           es == counts \o applied.events \o said
           grown == [state EXCEPT !.model = IF @ = Absent THEN chunk.model ELSE @,
                                  !.usage = usage, !.slots = applied.slots,
                                  !.text = @ \o more,
                                  !.reasoning = @ \o chunk.reasoning,
                                  !.semantic = @ \/ es # <<>>]
<1>1. ChatChunk(state, chunk, row) = ChatFinish(grown, es, chunk.finish, row)
  BY DEF ChatChunk
<1>2. IsSequence(chunk.entries) /\ IsSequence(more) BY DEF FrameFits
<1>3. IsFiniteSet(DOMAIN applied.slots) /\ Shown(applied.events, none, none)
  BY <1>2, ApplyLoop DEF SlotsFit
<1>4. Shown(counts, none, none)
  <2>1. UsageEvent(ChatUsage(usage)).event \notin {"text", "done"} BY DEF UsageEvent
  <2> QED BY <2>1, ShownFew
<1>5. Shown(said, more, none)
  <2> HIDE DEF more
  <2>1. more = <<>> => Shown(said, more, none) BY ShownFew
  <2>2. more # <<>> => Shown(said, more, none) BY <1>2, ShownFew
  <2> QED BY <2>1, <2>2
<1>6. none \o more = more /\ none \o none = none
  BY <1>2, JoinsAssociate DEF IsSequence
<1>7. IsSequence(none) /\ \A a : Shown(a, none, none) <=> Shown(a, <<>>, <<>>)
  BY DEF IsSequence
<1> HIDE DEF none, applied, counts, said, usage
<1>8. Shown(es, more, none)
  <2>1. Shown(counts \o applied.events, none, none) BY <1>3, <1>4, <1>7, ShownMore
  <2>2. Shown((counts \o applied.events) \o said, none \o more, none \o none)
    BY <1>5, <2>1, ShownJoin
  <2> HIDE DEF more
  <2> QED BY <1>6, <2>2
<1> HIDE DEF es
<1>9. SlotsFit(grown) BY <1>3 DEF SlotsFit
<1> HIDE DEF more
<1>10. ChatHolds(grown, text \o more, done)
  <2>1. /\ {"text", "finish", "finished"} \subseteq DOMAIN grown
        /\ grown.text = text \o more
        /\ grown.finish = state.finish /\ grown.finished = state.finished
    BY DEF ChatHolds
  <2> HIDE DEF grown
  <2> QED BY <2>1 DEF ChatHolds
<1> HIDE DEF grown
<1> QED BY <1>1, <1>2, <1>8, <1>9, <1>10, ChatFinishAddsUp DEF none

\* The end of a chat stream, whose outcome has what was kept.
LEMMA ChatEndAddsUp ==
    ASSUME NEW state, NEW row, NEW intent, NEW text, NEW done,
           IsSequence(text), IsSequence(done), ChatHolds(state, text, done)
    PROVE  AddsUp(row, ChatEnd(state, row, intent), text, done)
<1> DEFINE none == <<>>
           native == ChatContinuation(row, intent, ChatNative(state))
           tools == ChatToolCalls(state.finished).calls
           meta == ChatMeta(row, state.usage)
           outcome == ChatOutcome(state.finish, meta, intent, state.text, tools, native)
           es == IF native = Absent THEN <<>> ELSE <<ContinuationDelta(native)>>
           cut == Raises(state, Interrupted(state.semantic, "PossiblyBillable"))
           bare == Raises(state, Defect("missing_model"))
           broken == [Raises(state, outcome) EXCEPT !.events = es]
           closed == Returns(state, Append(es, Terminal(outcome)))
<1>1. \/ ChatEnd(state, row, intent) \in {cut, bare}
      \/ state.finish # Absent /\ ChatEnd(state, row, intent) =
                                    IF IsError(outcome) THEN broken ELSE closed
  BY DEF ChatEnd
<1>2. AddsUp(row, cut, text, done) /\ AddsUp(row, bare, text, done)
  BY RaisedAddsUp DEF Raises, Interrupted, Transient, Defect
<1>3. Shown(es, none, none) BY ShownFew, ClosingShows
<1>4. text \o none = text /\ done \o none = done BY JoinsAssociate DEF IsSequence
<1>5. ASSUME state.finish # Absent
      PROVE  Sound(outcome) /\ (~ IsError(outcome) => Promised(outcome, text, done))
  <2>1. state.text = text /\ tools = done BY <1>5 DEF ChatHolds
  <2> DEFINE content == ResponseContent(intent, text, done)
  <2>2. outcome = ChatOutcome(state.finish, meta, intent, text, done, native) BY <2>1
  <2>3. content \in {[text |-> text, tools |-> done], Absent} BY DEF ResponseContent
  <2> HIDE DEF outcome, meta, native, tools
  <2>4. \/ outcome \in {Failure("InvalidStructuredOutput", meta),
                        Incomplete("max_output_tokens", meta),
                        Incomplete("content_filter_partial", meta),
                        Defect("unknown_finish_reason")}
        \/ content # Absent /\ outcome = Success(content, native, meta)
    <3>1. content = ResponseContent(intent, text, done) OBVIOUS
    <3> HIDE DEF content
    <3> QED BY <2>2, <3>1 DEF ChatOutcome
  <2>5. \A code : IsError(Defect(code)) BY DEF IsError, Defect
  <2> HIDE DEF content
  <2> QED BY <2>3, <2>4, <2>5, SoundOutcomes, FewOutcomes
<1> HIDE DEF none, native, tools, meta, outcome, es
<1>6. ASSUME state.finish # Absent, IsError(outcome) PROVE AddsUp(row, broken, text, done)
  <2>1. broken.end.error = "ProtocolDefect" BY <1>5, <1>6 DEF Raises, Sound, Defect
  <2> HIDE DEF broken
  <2> QED BY <2>1, RaisedAddsUp
<1>7. ASSUME state.finish # Absent, ~ IsError(outcome) PROVE AddsUp(row, closed, text, done)
  <2>1. Promised(outcome, text \o none, done \o none) BY <1>4, <1>5, <1>7
  <2> QED BY <1>3, <2>1, ReturnAddsUp
<1> HIDE DEF cut, bare, broken, closed
<1> QED BY <1>1, <1>2, <1>6, <1>7

\* One chunk of a Gemini stream: the next parts, and what all amount to at its end.
LEMMA GeminiAddsUp ==
    ASSUME NEW state, NEW chunk, NEW row, NEW intent, NEW text, NEW done,
           row.engine = "gemini_generate", FrameFits(row, chunk),
           IsSequence(text), IsSequence(done), GeminiHolds(state, text, done)
    PROVE  AddsUp(row, GeminiChunk(state, chunk, row, intent), text, done)
<1> DEFINE none == <<>>
           usage == GeminiFold(state.usage, chunk.usage)
           meta == GeminiMeta(row.model, usage)
           more == TextOf(chunk.parts)
           given == GeminiCalls(chunk.parts)
           said == IF more = <<>> THEN <<>> ELSE <<TextDelta(more)>>
           es == said \o GeminiCallEvents(given)
           grown == [state EXCEPT !.usage = usage, !.parts = @ \o chunk.parts,
                                  !.semantic = @ \/ es # <<>>]
           outcome == IF chunk.finish = "STOP"
                      THEN GeminiStop(row, intent, grown.parts, meta)
                      ELSE GeminiNonStop(chunk.finish, meta)
           blocked == Incomplete("content_filter_partial", meta)
           bare == Raises(state, Defect("malformed_candidate"))
           broken == [Raises(grown, outcome) EXCEPT !.events = es]
           closed == Returns(grown, es \o Closing(outcome))
<1>1. GeminiChunk(state, chunk, row, intent) \in
        {Returns(grown, <<Terminal(blocked)>>), bare, Goes(grown, es),
         IF IsError(outcome) THEN broken ELSE closed}
  BY DEF GeminiChunk
<1>2. WordedBlocks(chunk.parts) /\ WordedBlocks(state.parts) BY DEF FrameFits, GeminiHolds
<1>3. IsSequence(more) /\ IsSequence(given) BY <1>2, BlocksJoin
<1>4. GeminiHolds(grown, text \o more, done \o given)
  <2> HIDE DEF more, given, usage, es
  <2>1. "parts" \in DOMAIN state /\ TextOf(state.parts) = text /\ GeminiCalls(state.parts) = done
    BY DEF GeminiHolds
  <2>2. "parts" \in DOMAIN grown /\ grown.parts = state.parts \o chunk.parts BY <2>1
  <2> HIDE DEF grown
  <2>3. WordedBlocks(grown.parts) BY <1>2, <2>2, WordedJoin
  <2>4. /\ TextOf(grown.parts) = text \o more
        /\ GeminiCalls(grown.parts) = done \o given
    BY <1>2, <2>1, <2>2, BlocksJoin DEF more, given
  <2> QED BY <2>2, <2>3, <2>4 DEF GeminiHolds
<1>5. none \o given = given /\ more \o none = more
  BY <1>3, JoinsAssociate DEF IsSequence
<1>6. Shown(said, more, none)
  <2> HIDE DEF more
  <2>1. more = <<>> => Shown(said, more, none) BY ShownFew
  <2>2. more # <<>> => Shown(said, more, none) BY <1>3, ShownFew
  <2> QED BY <2>1, <2>2
<1>7. Shown(GeminiCallEvents(given), none, given) BY <1>3, GeminiShows
<1> HIDE DEF none, said, given, more
<1>8. Shown(es, more, given)
  <2>1. Shown(said \o GeminiCallEvents(given), more \o none, none \o given)
    BY <1>6, <1>7, ShownJoin
  <2> QED BY <1>5, <2>1
<1> HIDE DEF es, usage
<1>9. /\ Sound(outcome)
      /\ ~ IsError(outcome) => Promised(outcome, text \o more, done \o given)
  <2>0. \A code : IsError(Defect(code)) BY DEF IsError, Defect
  <2> DEFINE stop == GeminiStop(row, intent, grown.parts, meta)
             other == GeminiNonStop(chunk.finish, meta)
             content == ResponseContent(intent, text \o more, done \o given)
             native == GeminiContinuation(row, intent, grown.parts)
  <2>1. content \in {[text |-> text \o more, tools |-> done \o given], Absent}
    BY DEF ResponseContent
  <2>2. stop = IF content = Absent THEN Failure("InvalidStructuredOutput", meta)
               ELSE Success(content, native, meta)
    <3>1. TextOf(grown.parts) = text \o more /\ GeminiCalls(grown.parts) = done \o given
      BY <1>4 DEF GeminiHolds
    <3> HIDE DEF grown, meta
    <3> QED BY <3>1 DEF GeminiStop
  <2>3. Sound(stop) /\ Promised(stop, text \o more, done \o given)
    <3> HIDE DEF stop, content, native, meta
    <3> QED BY <2>1, <2>2, SoundOutcomes, FewOutcomes
  <2>4. other \in {Incomplete("max_output_tokens", meta),
                   Incomplete("content_filter_partial", meta),
                   Failure("InvalidToolArguments", meta), Defect("unknown_finish_reason")}
    <3> HIDE DEF meta
    <3> QED BY DEF GeminiNonStop
  <2>5. Sound(other) /\ (~ IsError(other) => Promised(other, text \o more, done \o given))
    <3> HIDE DEF other, meta
    <3> QED BY <2>0, <2>4, SoundOutcomes, FewOutcomes
  <2> HIDE DEF stop, other
  <2>6. outcome \in {stop, other} BY DEF stop, other
  <2> HIDE DEF outcome
  <2> QED BY <2>3, <2>5, <2>6
<1> HIDE DEF outcome, meta, grown
<1>10. AddsUp(row, Goes(grown, es), text, done)
  <2>1. Kept(row, grown, text \o more, done \o given) BY <1>4 DEF Kept
  <2> QED BY <1>8, <2>1, GoesOnAddsUp
<1>11. AddsUp(row, Returns(grown, <<Terminal(blocked)>>), text, done)
  <2>1. Promised(blocked, text, done) BY FewOutcomes
  <2> HIDE DEF blocked
  <2> QED BY <2>1, PromiseAddsUp
<1>12. ASSUME IsError(outcome) PROVE AddsUp(row, broken, text, done)
  <2>1. broken.end.error = "ProtocolDefect" BY <1>9, <1>12 DEF Raises, Sound, Defect
  <2> HIDE DEF broken
  <2> QED BY <2>1, RaisedAddsUp
<1>13. ASSUME ~ IsError(outcome) PROVE AddsUp(row, closed, text, done)
  BY <1>8, <1>9, <1>13, ReturnAddsUp
<1>14. AddsUp(row, bare, text, done) BY RaisedAddsUp DEF Raises, Defect
<1> HIDE DEF bare, broken, closed, blocked
<1> QED BY <1>1, <1>10, <1>11, <1>12, <1>13, <1>14

\* The promise of a step, and what is kept for the next one.
StepFits(row, step, shown) ==
    Fulfils(step, shown) /\ (step.end = Open => DecoderFits(row, step.state))

\* One frame of any stream: the case of each adapter.
LEMMA StepsFit ==
    ASSUME NEW row, NEW intent, NEW frame, NEW shown, row.engine \in Engines,
           Tells(decoder, shown), DecoderFits(row, decoder), FrameFits(row, frame)
    PROVE  StepFits(row, Step(row, intent, frame), shown)
<1> DEFINE step == Step(row, intent, frame)
<1> SUFFICES StepFits(row, step, shown) OBVIOUS
<1>1. CASE row.engine = "anthropic_messages"
  <2>1. step = AnthropicFrame(decoder, frame, row, intent) BY <1>1 DEF Step
  <2> HIDE DEF step
  <2> QED BY <1>1, <2>1, AnthropicFulfils DEF StepFits, DecoderFits
<1>2. CASE row.engine = "openai_responses"
  <2>1. step = ResponsesFrame(decoder, frame, row, intent) BY <1>2 DEF Step
  <2> HIDE DEF step
  <2> QED BY <1>2, <2>1, ResponsesFulfils DEF StepFits, DecoderFits
<1>3. CASE row.engine = "openai_chat"
  <2>1. step = ChatChunk(decoder, frame, row) BY <1>3 DEF Step
  <2>2. SlotsFit(decoder) /\ IsSequence(frame.entries)
    BY <1>3 DEF DecoderFits, FrameFits
  <2> HIDE DEF step
  <2> QED BY <2>1, <2>2, ChatChunkFulfils DEF StepFits, DecoderFits, ChatFulfils
<1>4. CASE row.engine = "gemini_generate"
  <2>1. step = GeminiChunk(decoder, frame, row, intent) BY <1>4 DEF Step
  <2>2. IsSequence(frame.parts) BY <1>4 DEF FrameFits, WordedBlocks
  <2> HIDE DEF step
  <2> QED BY <1>4, <2>1, <2>2, GeminiFulfils DEF StepFits, DecoderFits
<1> QED BY <1>1, <1>2, <1>3, <1>4 DEF Engines

\* Nothing that breaks an attempt is taken for its going on, or its return.
LEMMA TruthEnds ==
    ASSUME NEW row, NEW error, NEW shown, Truly(error, shown)
    PROVE  StepFits(row, Raises(decoder, error), shown)
<1>1. Raises(decoder, error).end # Open
  BY DEF Raises, Truly, Open
<1> QED BY <1>1, BreaksAtOnce DEF StepFits

\* What a Gemini decoder makes of a transient failure.
LEMMA GeminiTold ==
    ASSUME NEW shown, Tells(decoder, shown), NEW error, Truly(error, FALSE)
    PROVE  Truly(GeminiInterrupted(decoder, error), shown)
<1>1. CASE error.error = "TransientAttempt" /\ decoder.semantic
  <2>1. shown /\ error.billability = "PossiblyBillable" BY <1>1 DEF Tells, Truly
  <2>2. GeminiInterrupted(decoder, error) = Interrupted(TRUE, "PossiblyBillable")
    BY <1>1, <2>1 DEF GeminiInterrupted
  <2> QED BY <2>1, <2>2, FailuresAreTold
<1>2. CASE error.error = "TransientAttempt" /\ ~ decoder.semantic
  <2>1. ~ shown BY <1>2 DEF Tells
  <2> QED BY <1>2, <2>1 DEF Truly, GeminiInterrupted
<1>3. CASE error.error # "TransientAttempt"
  BY <1>3 DEF Truly, GeminiInterrupted
<1> QED BY <1>1, <1>2, <1>3

\* The source of a stream ends: a chat stream may be complete by then.
LEMMA SourceEndFits ==
    ASSUME NEW row, NEW intent, NEW shown, row.engine \in Engines, Tells(decoder, shown)
    PROVE  StepFits(row, SourceEnd(row, intent), shown)
<1> DEFINE step == SourceEnd(row, intent)
<1> SUFFICES StepFits(row, step, shown) OBVIOUS
<1>1. Truly(Interrupted(decoder.semantic, "PossiblyBillable"), shown)
  BY FailuresAreTold DEF Tells
<1>2. Truly(AnthropicCut(decoder), shown) BY <1>1 DEF AnthropicCut
<1>3. Truly(ResponsesCut(decoder), shown) BY <1>1 DEF ResponsesCut
<1>4. Truly(GeminiCut(decoder), shown)
  <2>1. Truly(Interrupted(FALSE, "PossiblyBillable"), FALSE) BY FailuresAreTold
  <2> QED BY <2>1, GeminiTold DEF GeminiCut
<1>5. step \in {Raises(decoder, AnthropicCut(decoder)),
                Raises(decoder, ResponsesCut(decoder)),
                Raises(decoder, GeminiCut(decoder)),
                ChatEnd(decoder, row, intent)}
  BY DEF SourceEnd, Engines
<1> HIDE DEF step
<1>6. ASSUME step = ChatEnd(decoder, row, intent) PROVE StepFits(row, step, shown)
  BY <1>6, ChatEndFulfils DEF StepFits, DecoderFits, ChatFulfils
<1> QED BY <1>2, <1>3, <1>4, <1>5, <1>6, TruthEnds

\* Something breaks a stream.
LEMMA FailuresFit ==
    ASSUME NEW row, NEW shown, row.engine \in Engines, Tells(decoder, shown),
           NEW failure, failure.kind \in {"transport", "inband", "malformed"}
    PROVE  StepFits(row, Raises(decoder, Fails(row, failure)), shown)
<1> DEFINE error == Fails(row, failure)
<1>1. Truly(AnthropicFails(decoder, failure), shown)
  BY FailuresAreTold DEF AnthropicFails, AnthropicInband
<1>2. Truly(ResponsesFails(decoder, failure), shown)
  BY FailuresAreTold DEF ResponsesFails, ResponsesInband
<1>3. Truly(ChatFails(decoder, failure), shown)
  BY FailuresAreTold DEF ChatFails, ChatInband
<1>4. Truly(GeminiFails(decoder, failure), shown)
  <2> DEFINE cause_ ==
        CASE failure.kind = "transport" -> Broken(failure.timeout, "PossiblyBillable")
          [] failure.kind = "inband" -> GeminiInband(failure.code)
          [] failure.kind = "malformed" -> Defect("malformed_stream_frame")
  <2>1. Truly(cause_, FALSE) BY FailuresAreTold DEF GeminiInband
  <2>2. GeminiFails(decoder, failure) = GeminiInterrupted(decoder, cause_)
    BY DEF GeminiFails
  <2> HIDE DEF cause_
  <2> QED BY <2>1, <2>2, GeminiTold
<1>5. Truly(error, shown) BY <1>1, <1>2, <1>3, <1>4 DEF Fails, Engines
<1> QED BY <1>5, TruthEnds

\* An attempt that was never answered, told without output.
NeverAnswered(error) ==
    /\ IsError(error) /\ error.error \notin {"no", "returned"}
    /\ error.error = "TransientAttempt" => error.cause.kind # "interrupted"

Opened(row, step) ==
    \/ /\ step.end = Open /\ step.events = <<StreamStart>>
       /\ Tells(step.state, FALSE) /\ DecoderFits(row, step.state)
       /\ Kept(row, step.state, <<>>, <<>>)
    \/ step.events = <<>> /\ NeverAnswered(step.end)
    \/ step.end = Returned /\ \E why, meta : step.events = <<Terminal(Failure(why, meta))>>

\* An attempt starts, is rejected with an error, or overflows.
LEMMA RejectionsOpen ==
    ASSUME NEW row, NEW start, Tells(start, FALSE), DecoderFits(row, start),
           Kept(row, start, <<>>, <<>>), NEW rejection,
           \/ rejection = Absent \/ NeverAnswered(rejection)
           \/ \E why, meta : rejection = Failure(why, meta)
    PROVE  Opened(row, Opens(start, rejection))
<1> DEFINE step == Opens(start, rejection)
<1>1. CASE rejection = Absent
  BY <1>1 DEF Opened, Opens, Goes
<1>2. CASE rejection # Absent /\ IsError(rejection)
  <2>1. \A why, meta : ~ IsError(Failure(why, meta)) BY DEF IsError, Failure, Outcome
  <2> QED BY <1>2, <2>1 DEF Opened, Opens, Raises
<1>3. CASE rejection # Absent /\ ~ IsError(rejection)
  <2>1. \E why, meta : rejection = Failure(why, meta) BY <1>3 DEF NeverAnswered
  <2> QED BY <1>3, <2>1 DEF Opened, Opens, Returns
<1> QED BY <1>1, <1>2, <1>3

\* What a request is rejected with.
LEMMA RejectionsTold ==
    /\ \A timeout, charge : NeverAnswered(Broken(timeout, charge))
    /\ NeverAnswered(Unavailable) /\ NeverAnswered(CredentialRejected)
    /\ \A window : NeverAnswered(RateLimited(window))
    /\ \A code : NeverAnswered(HttpDefect(code)) /\ NeverAnswered(Defect(code))
    /\ \A row : \E why, meta : Rejected(row, Absent) = Failure(why, meta)
    /\ \A row, failure : failure # Absent => Rejected(row, failure) = failure
<1>1. \A timeout, charge : NeverAnswered(Broken(timeout, charge))
  BY DEF NeverAnswered, IsError, Broken, Transient
<1>2. NeverAnswered(Unavailable) /\ NeverAnswered(CredentialRejected)
  BY DEF NeverAnswered, IsError, Unavailable, Transient, CredentialRejected
<1>3. \A window : NeverAnswered(RateLimited(window))
  BY DEF NeverAnswered, IsError, RateLimited, Transient
<1>4. \A code : NeverAnswered(HttpDefect(code)) /\ NeverAnswered(Defect(code))
  BY DEF NeverAnswered, IsError, HttpDefect, Defect
<1>5. \A row : \E why, meta : Rejected(row, Absent) = Failure(why, meta)
  BY DEF Rejected
<1>6. \A row, failure : failure # Absent => Rejected(row, failure) = failure
  BY DEF Rejected
<1> QED BY <1>1, <1>2, <1>3, <1>4, <1>5, <1>6

\* A decoder that has read nothing has kept nothing.
LEMMA StartsHold ==
    /\ Holds(AnthropicStart, <<>>, <<>>) /\ Holds(ResponsesStart, <<>>, <<>>)
    /\ ChatHolds(ChatStart, <<>>, <<>>) /\ GeminiHolds(GeminiStart, <<>>, <<>>)
<1> DEFINE none == <<>>
<1>1. TextOf(none) = none /\ GeminiCalls(none) = none
  <2>1. TextOf(none) = Concat(none) /\ ToolsOf(none) = Concat(none) BY DEF TextOf, ToolsOf
  <2>2. Concat(none) = none BY ConcatFew
  <2>3. GeminiCalls(none) = none
    <3>1. ToolsOf(none) = none BY <2>1, <2>2
    <3> QED BY <3>1 DEF GeminiCalls
  <2> QED BY <2>1, <2>2, <2>3
<1>2. WordedBlocks(none) BY DEF WordedBlocks, IsSequence
<1> HIDE DEF none
<1>3. Holds(AnthropicStart, none, none) BY DEF Holds, AnthropicStart, none
<1>4. Holds(ResponsesStart, none, none) BY DEF Holds, ResponsesStart, none
<1>5. ChatHolds(ChatStart, none, none) BY DEF ChatHolds, ChatStart, none
<1>6. GeminiHolds(GeminiStart, none, none)
  <2>1. "parts" \in DOMAIN GeminiStart /\ GeminiStart.parts = none BY DEF GeminiStart, none
  <2> QED BY <1>1, <1>2, <2>1 DEF GeminiHolds
<1> QED BY <1>3, <1>4, <1>5, <1>6 DEF none

\* Every adapter opens an attempt so.
LEMMA OpeningFits ==
    ASSUME NEW row, NEW reply, row.engine \in Engines
    PROVE  Opened(row, Opening(row, reply))
<1> DEFINE Told(r) == \/ r = Absent \/ NeverAnswered(r)
                      \/ \E why, meta : r = Failure(why, meta)
<1>1. \A failure : Told(failure) => Told(Rejected(row, failure))
  BY RejectionsTold
<1>2. Told(AnthropicRejection(row, reply))
  <2>1. Told(AnthropicHttpFailure(reply.http))
    BY RejectionsTold DEF AnthropicHttpFailure
  <2>2. Told(AnthropicConnection(reply))
    BY RejectionsTold DEF AnthropicConnection
  <2> QED BY <1>1, <2>1, <2>2 DEF AnthropicRejection
<1>3. Told(OpenAIHttpFailure(reply.http)) /\ Told(TransientConnection(reply))
  BY RejectionsTold DEF OpenAIHttpFailure, TransientConnection
<1>4. Told(ResponsesRejection(row, reply))
  BY <1>1, <1>3 DEF ResponsesRejection
<1>5. Told(ChatRejection(row, reply))
  <2>1. Told(ChatHttpFailure(reply.http))
    BY RejectionsTold DEF ChatHttpFailure
  <2> QED BY <1>1, <1>3, <2>1 DEF ChatRejection
<1>6. Told(GeminiRejection(row, reply))
  <2>1. Told(GeminiHttpFailure(reply.http))
    BY RejectionsTold DEF GeminiHttpFailure
  <2>2. Told(GeminiConnection(reply))
    BY RejectionsTold DEF GeminiConnection
  <2> QED BY <1>1, <2>1, <2>2 DEF GeminiRejection
<1>7. /\ Tells(AnthropicStart, FALSE) /\ Tells(ResponsesStart, FALSE)
      /\ Tells(ChatStart, FALSE) /\ Tells(GeminiStart, FALSE)
  BY DEF Tells, AnthropicStart, ResponsesStart, ChatStart,
         GeminiStart
<1>8. SlotsFit(ChatStart)
  <2> DEFINE none == <<>>
  <2>1. DOMAIN none = {} OBVIOUS
  <2>2. ChatStart.slots = none /\ "slots" \in DOMAIN ChatStart
    BY DEF ChatStart
  <2> HIDE DEF none
  <2> QED BY <2>1, <2>2, FS_EmptySet DEF SlotsFit
<1>9. /\ Holds(AnthropicStart, <<>>, <<>>) /\ Holds(ResponsesStart, <<>>, <<>>)
      /\ ChatHolds(ChatStart, <<>>, <<>>) /\ GeminiHolds(GeminiStart, <<>>, <<>>)
  BY StartsHold
<1> DEFINE step == Opening(row, reply)
<1> SUFFICES Opened(row, step) OBVIOUS
<1>10. CASE row.engine = "anthropic_messages"
  <2>1. step = Opens(AnthropicStart, AnthropicRejection(row, reply))
    BY <1>10 DEF Opening, AnthropicOpen
  <2> HIDE DEF step
  <2> QED BY <1>2, <1>7, <1>9, <1>10, <2>1, RejectionsOpen DEF DecoderFits, Kept
<1>11. CASE row.engine = "openai_responses"
  <2>1. step = Opens(ResponsesStart, ResponsesRejection(row, reply))
    BY <1>11 DEF Opening, ResponsesOpen
  <2> HIDE DEF step
  <2> QED BY <1>4, <1>7, <1>9, <1>11, <2>1, RejectionsOpen DEF DecoderFits, Kept
<1>12. CASE row.engine = "openai_chat"
  <2>1. step = Opens(ChatStart, ChatRejection(row, reply))
    BY <1>12 DEF Opening, ChatOpen
  <2> HIDE DEF step
  <2> QED BY <1>5, <1>7, <1>8, <1>9, <1>12, <2>1, RejectionsOpen DEF DecoderFits, Kept
<1>13. CASE row.engine = "gemini_generate"
  <2>1. step = Opens(GeminiStart, GeminiRejection(row, reply))
    BY <1>13 DEF Opening, GeminiOpen
  <2> HIDE DEF step
  <2> QED BY <1>6, <1>7, <1>9, <1>13, <2>1, RejectionsOpen DEF DecoderFits, Kept
<1> QED BY <1>10, <1>11, <1>12, <1>13 DEF Engines

\* The frames an adapter reads, in order, and each in order itself where it must be.
FramesFit(row, frames) ==
    IsSequence(frames) /\ \A i \in DOMAIN frames : FrameFits(row, frames[i])

\* Frames after frames are read in order,
LEMMA FramesJoin ==
    ASSUME NEW row, NEW s, NEW t, FramesFit(row, s), FramesFit(row, t)
    PROVE  FramesFit(row, s \o t)
<1> DEFINE u == s \o t
<1>1. /\ IsSequence(u)
      /\ Len(s) \in Nat /\ Len(t) \in Nat
      /\ DOMAIN s = 1 .. Len(s) /\ DOMAIN t = 1 .. Len(t)
      /\ Len(u) = Len(s) + Len(t)
      /\ \A i \in 1 .. Len(s) : u[i] = s[i]
      /\ \A i \in 1 .. Len(t) : u[Len(s) + i] = t[i]
  BY Joined DEF FramesFit
<1> HIDE DEF u
<1>2. DOMAIN u = 1 .. Len(u) BY <1>1 DEF IsSequence
<1>3. ASSUME NEW i \in 1 .. Len(u) PROVE FrameFits(row, u[i])
  <2>1. CASE i \in 1 .. Len(s) BY <2>1, <1>1 DEF FramesFit
  <2>2. CASE i \notin 1 .. Len(s)
    <3> DEFINE j == i - Len(s)
    <3>1. j \in 1 .. Len(t) /\ i = Len(s) + j BY <1>1, <2>2
    <3> HIDE DEF j
    <3>2. u[i] = t[j] BY <1>1, <3>1
    <3> QED BY <3>1, <3>2, <1>1 DEF FramesFit
  <2> QED BY <2>1, <2>2
<1> QED BY <1>1, <1>2, <1>3 DEF FramesFit, u

\* and so are the frames of all blocks.
LEMMA FramesConcat ==
    ASSUME NEW row, NEW pieces, IsSequence(pieces),
           \A i \in DOMAIN pieces : FramesFit(row, pieces[i])
    PROVE  FramesFit(row, Concat(pieces))
<1> DEFINE S == UNION {{pieces[i][k] : k \in DOMAIN pieces[i]} : i \in DOMAIN pieces}
           frames == Concat(pieces)
<1>1. \A f \in S : FrameFits(row, f) BY DEF FramesFit
<1>2. pieces \in Seq(Seq(S))
  <2>1. ASSUME NEW i \in DOMAIN pieces PROVE pieces[i] \in Seq(S)
    <3> DEFINE s == pieces[i]
               T == {s[k] : k \in DOMAIN s}
    <3>1. s \in Seq(T) BY DEF FramesFit, IsSequence
    <3>2. T \subseteq S OBVIOUS
    <3> HIDE DEF s, S, T
    <3>3. s \in Seq(S) BY <3>1, <3>2
    <3> QED BY <3>3 DEF s
  <2> HIDE DEF S
  <2> QED BY <2>1 DEF IsSequence
<1> HIDE DEF S
<1>3. frames \in Seq(S) BY <1>2, ConcatLoop
<1> HIDE DEF frames
<1>4. IsSequence(frames) BY <1>3 DEF IsSequence
<1>5. \A i \in DOMAIN frames : frames[i] \in S BY <1>3
<1> QED BY <1>1, <1>4, <1>5 DEF FramesFit, frames

LEMMA FewFrames ==
    ASSUME NEW row
    PROVE  /\ FramesFit(row, <<>>)
           /\ \A a : FrameFits(row, a) => FramesFit(row, <<a>>)
           /\ \A a, b : FrameFits(row, a) /\ FrameFits(row, b) => FramesFit(row, <<a, b>>)
           /\ \A a, b, c : FrameFits(row, a) /\ FrameFits(row, b) /\ FrameFits(row, c)
                             => FramesFit(row, <<a, b, c>>)
           /\ \A frames : (IsSequence(frames)
                             /\ \A i \in DOMAIN frames : FrameFits(row, frames[i]))
                            => FramesFit(row, frames)
  BY DEF FramesFit, IsSequence

\* A block of an answer, whose fragments are in order.
BlockFits(block) ==
    /\ block.type = "text" => IsSequence(block.text)
    /\ block.type = "tool" => IsSequence(block.arguments)
    /\ block.type = "thinking" => IsSequence(block.signature)

\* The chunks of one block of a chat answer.
LEMMA ChatBlockFits ==
    ASSUME NEW row, row.engine = "openai_chat",
           NEW block, BlockFits(block), NEW index, NEW late
    PROVE  FramesFit(row, ChatBlockChunks(block, index, late, row))
<1> DEFINE bare == ChatBare(row)
           Entry(id, name, text) ==
               [bare EXCEPT !.entries =
                   <<[index |-> index, id |-> id, name |-> name, text |-> text]>>]
           Fragment(i) == Entry("", IF late /\ i = 1 THEN block.name ELSE "",
                                <<block.arguments[i]>>)
           texts == [i \in DOMAIN block.text |-> [bare EXCEPT !.text = <<block.text[i]>>]]
           thought == <<[bare EXCEPT !.reasoning = block.signature]>>
           first == Entry(block.id, IF late THEN "" ELSE block.name, <<>>)
           fragments == [i \in DOMAIN block.arguments |-> Fragment(i)]
           named == IF late /\ block.arguments = <<>> THEN <<Entry("", block.name, <<>>)>>
                    ELSE <<>>
           chunks == ChatBlockChunks(block, index, late, row)
<1>1. chunks = CASE block.type = "text" -> texts
                 [] block.type = "thinking" -> thought
                 [] block.type = "tool" -> <<first>> \o fragments \o named
                 [] OTHER -> <<>>
  BY DEF ChatBlockChunks
<1>2. \A f : IsSequence(f.entries) /\ IsSequence(f.text) => FrameFits(row, f)
  BY DEF FrameFits
<1>3. \A e : IsSequence(<<e>>) BY DEF IsSequence
<1>4. /\ {"entries", "text"} \subseteq DOMAIN bare
      /\ IsSequence(bare.entries) /\ IsSequence(bare.text)
  BY DEF ChatBare, IsSequence
<1> HIDE DEF bare
<1>5. \A id, name, text : FrameFits(row, Entry(id, name, text))
  BY <1>2, <1>3, <1>4
<1>6. /\ FrameFits(row, [bare EXCEPT !.reasoning = block.signature])
      /\ \A text : IsSequence(text) => FrameFits(row, [bare EXCEPT !.text = text])
  BY <1>2, <1>4
<1> HIDE DEF Entry
<1>7. CASE block.type = "text"
  <2>1. \A i \in DOMAIN texts : FrameFits(row, texts[i]) BY <1>3, <1>6
  <2>2. IsSequence(block.text) BY <1>7 DEF BlockFits
  <2>3. DOMAIN texts = DOMAIN block.text /\ texts = [i \in DOMAIN block.text |-> texts[i]] OBVIOUS
  <2> HIDE DEF texts
  <2>4. IsSequence(texts) BY <2>2, <2>3, AsManyAs
  <2> QED BY <1>1, <1>7, <2>1, <2>4, FewFrames
<1>8. CASE block.type = "thinking" BY <1>1, <1>6, <1>8, FewFrames
<1>9. CASE block.type = "tool"
  <2>1. \A i \in DOMAIN fragments : FrameFits(row, fragments[i]) BY <1>5
  <2>2. IsSequence(block.arguments) BY <1>9 DEF BlockFits
  <2>3. DOMAIN fragments = DOMAIN block.arguments
          /\ fragments = [i \in DOMAIN block.arguments |-> fragments[i]] OBVIOUS
  <2>4. FrameFits(row, first) /\ FramesFit(row, named) BY <1>5, FewFrames
  <2> HIDE DEF fragments, first, named
  <2>5. IsSequence(fragments) BY <2>2, <2>3, AsManyAs
  <2>6. FramesFit(row, fragments) BY <2>1, <2>5, FewFrames
  <2>7. FramesFit(row, <<first>>) BY <2>4, FewFrames
  <2>8. FramesFit(row, <<first>> \o fragments) BY <2>6, <2>7, FramesJoin
  <2>9. FramesFit(row, <<first>> \o fragments \o named) BY <2>4, <2>8, FramesJoin
  <2> QED BY <1>1, <1>9, <2>9
<1>10. CASE block.type \notin {"text", "thinking", "tool"} BY <1>1, <1>10, FewFrames
<1> QED BY <1>7, <1>8, <1>9, <1>10

\* The frames that carry a text, fragment by fragment.
LEMMA FragmentsFit ==
    ASSUME NEW row, NEW text, IsSequence(text), NEW frames, MadeOf(frames, text),
           \A i \in DOMAIN text : FrameFits(row, frames[i])
    PROVE  FramesFit(row, frames)
  BY MadeIsSequence DEF FramesFit, MadeOf

\* The frames of one block of an Anthropic answer,
LEMMA AnthropicBlockFits ==
    ASSUME NEW row, row.engine = "anthropic_messages",
           NEW block, BlockFits(block), NEW index
    PROVE  FramesFit(row, AnthropicBlockFrames(block, index))
<1> DEFINE Pieces_(type, text) ==
               [i \in DOMAIN text |-> [type |-> type, index |-> index, text |-> <<text[i]>>]]
           Opened_(empty) == <<[type |-> "block_start", index |-> index, block |-> empty]>>
           stop == <<[type |-> "block_stop", index |-> index]>>
           frames == AnthropicBlockFrames(block, index)
<1>1. \/ block.type = "text" /\ frames =
           Opened_([block EXCEPT !.text = <<>>]) \o Pieces_("text_delta", block.text) \o stop
      \/ block.type = "tool" /\ frames =
           Opened_([block EXCEPT !.arguments = <<>>])
             \o Pieces_("json_delta", block.arguments) \o stop
      \/ block.type = "thinking" /\ frames =
           Opened_([block EXCEPT !.signature = <<>>])
             \o Pieces_("thinking_delta", block.signature) \o stop
      \/ frames = Opened_(block) \o stop
  BY DEF AnthropicBlockFrames
<1>2. \A e : IsSequence(<<e>>) BY DEF IsSequence
<1>3. \A empty : FramesFit(row, Opened_(empty))
  <2> TAKE empty
  <2>1. FrameFits(row, [type |-> "block_start", index |-> index, block |-> empty])
    BY DEF FrameFits
  <2> QED BY <2>1, FewFrames
<1>4. FramesFit(row, stop)
  <2>1. FrameFits(row, [type |-> "block_stop", index |-> index]) BY DEF FrameFits
  <2> QED BY <2>1, FewFrames
<1>5. ASSUME NEW type, NEW text, IsSequence(text) PROVE FramesFit(row, Pieces_(type, text))
  <2> DEFINE p == Pieces_(type, text)
  <2>1. MadeOf(p, text) BY DEF MadeOf
  <2>2. \A i \in DOMAIN text : FrameFits(row, p[i])
    <3> TAKE i \in DOMAIN text
    <3>1. p[i].text = <<text[i]>> OBVIOUS
    <3> HIDE DEF p
    <3> QED BY <1>2, <3>1 DEF FrameFits
  <2> HIDE DEF p
  <2>3. FramesFit(row, p) BY <1>5, <2>1, <2>2, FragmentsFit
  <2> QED BY <2>3 DEF p
<1> HIDE DEF frames, Pieces_, Opened_, stop
<1>6. \A a, b : FramesFit(row, a) /\ FramesFit(row, b) => FramesFit(row, a \o b) BY FramesJoin
<1>7. FramesFit(row, frames)
  BY <1>1, <1>3, <1>4, <1>5, <1>6 DEF BlockFits
<1> QED BY <1>7 DEF frames

\* and those of one item of a Responses answer.
LEMMA ResponsesItemFits ==
    ASSUME NEW row, row.engine = "openai_responses", NEW item, BlockFits(item)
    PROVE  FramesFit(row, ResponsesItemFrames(item))
<1> DEFINE Deltas(type, text) ==
               [i \in DOMAIN text |-> [type |-> type, id |-> item.id, text |-> <<text[i]>>]]
           added == <<[type |-> "item_added", item |-> item]>>
           done == <<[type |-> "item_done", item |-> item]>>
           refusal == <<[type |-> "refusal_delta"]>>
           none == <<>>
           body == CASE item.type = "text" -> Deltas("text_delta", item.text)
                     [] item.type = "tool" -> Deltas("arguments_delta", item.arguments)
                     [] item.type = "refusal" -> refusal
                     [] OTHER -> none
<1>1. ResponsesItemFrames(item) = added \o body \o done BY DEF ResponsesItemFrames
<1>2. \A e : IsSequence(<<e>>) BY DEF IsSequence
<1>3. FramesFit(row, added) /\ FramesFit(row, done) /\ FramesFit(row, refusal)
        /\ FramesFit(row, none)
  <2>1. /\ FrameFits(row, [type |-> "item_added", item |-> item])
        /\ FrameFits(row, [type |-> "item_done", item |-> item])
        /\ FrameFits(row, [type |-> "refusal_delta"])
    BY DEF FrameFits
  <2> QED BY <2>1, FewFrames
<1>4. ASSUME NEW type, NEW text, IsSequence(text) PROVE FramesFit(row, Deltas(type, text))
  <2> DEFINE p == Deltas(type, text)
  <2>1. MadeOf(p, text) BY DEF MadeOf
  <2>2. \A i \in DOMAIN text : FrameFits(row, p[i])
    <3> TAKE i \in DOMAIN text
    <3>1. p[i].text = <<text[i]>> OBVIOUS
    <3> HIDE DEF p
    <3> QED BY <1>2, <3>1 DEF FrameFits
  <2> HIDE DEF p
  <2>3. FramesFit(row, p) BY <1>4, <2>1, <2>2, FragmentsFit
  <2> QED BY <2>3 DEF p
<1> HIDE DEF added, done, refusal, none, Deltas
<1>5. FramesFit(row, body) BY <1>3, <1>4 DEF BlockFits
<1> HIDE DEF body
<1>6. FramesFit(row, added \o body) BY <1>3, <1>5, FramesJoin
<1>7. FramesFit(row, added \o body \o done) BY <1>3, <1>6, FramesJoin
<1> QED BY <1>1, <1>7

\* The frames of every adapter are read in order.
LEMMA AllFramesFit ==
    ASSUME NEW row, row.engine \in Engines, NEW answer,
           IsSequence(answer.blocks),
           \A i \in DOMAIN answer.blocks : BlockFits(answer.blocks[i])
    PROVE  FramesFit(row, Frames(row, answer))
<1> DEFINE blocks == answer.blocks
<1>1. CASE row.engine = "openai_chat"
  <2> DEFINE finish == [ChatBare(row) EXCEPT !.finish = answer.finish]
             usage == [ChatBare(row) EXCEPT
                          !.usage = [input |-> 3, output |-> answer.output]]
             pieces == [i \in DOMAIN blocks |->
                          ChatBlockChunks(blocks[i], i, answer.late, row)]
  <2>1. Frames(row, answer) = Concat(pieces) \o <<finish, finish, usage>>
    BY <1>1 DEF Frames, ChatFrames
  <2>2. FrameFits(row, finish) /\ FrameFits(row, usage)
    BY <1>1 DEF FrameFits, ChatBare, IsSequence
  <2>3. \A i \in DOMAIN pieces : FramesFit(row, pieces[i]) BY <1>1, ChatBlockFits
  <2>4. DOMAIN pieces = DOMAIN blocks /\ pieces = [i \in DOMAIN blocks |-> pieces[i]] OBVIOUS
  <2> HIDE DEF finish, usage, pieces
  <2>5. IsSequence(pieces) BY <2>4, AsManyAs
  <2>6. FramesFit(row, Concat(pieces)) BY <2>3, <2>5, FramesConcat
  <2>7. FramesFit(row, <<finish, finish, usage>>) BY <2>2, FewFrames
  <2> QED BY <2>1, <2>6, <2>7, FramesJoin
<1>2. CASE row.engine = "gemini_generate"
  <2> DEFINE Chunk(parts, finish) ==
               [type |-> "chunk", usage |-> [input |-> 3, output |-> answer.output],
                parts |-> parts, finish |-> finish]
             said(block) == [i \in DOMAIN block.text |->
                               Chunk(<<[block EXCEPT !.text = <<block.text[i]>>]>>, Absent)]
             whole(block) == <<Chunk(<<block>>, Absent)>>
             pieces == [i \in DOMAIN blocks |->
                          IF blocks[i].type = "text" THEN said(blocks[i]) ELSE whole(blocks[i])]
             closing == Chunk(<<>>, answer.finish)
  <2>1. Frames(row, answer) = Concat(pieces) \o <<closing>>
    BY <1>2 DEF Frames, GeminiFrames
  <2>2. IsSequence(<<>>) /\ \A e : IsSequence(<<e>>) BY DEF IsSequence
  <2>3. \A parts, finish : WordedBlocks(parts) => FrameFits(row, Chunk(parts, finish))
    BY <1>2 DEF FrameFits
  <2>4. /\ WordedBlocks(<<>>)
        /\ \A e : (e.type = "text" => IsSequence(e.text)) => WordedBlocks(<<e>>)
    BY <2>2 DEF WordedBlocks
  <2>10. FrameFits(row, closing) BY <2>3, <2>4
  <2> HIDE DEF Chunk, closing
  <2>5. ASSUME NEW i \in DOMAIN pieces PROVE FramesFit(row, pieces[i])
    <3>1. CASE blocks[i].type = "text"
      <4> DEFINE s == said(blocks[i])
                 text == blocks[i].text
      <4>1. \A k \in DOMAIN s : FrameFits(row, s[k])
        <5> TAKE k \in DOMAIN s
        <5> DEFINE e == [blocks[i] EXCEPT !.text = <<text[k]>>]
        <5>1. s[k] = Chunk(<<e>>, Absent) OBVIOUS
        <5>2. e.text = <<text[k]>> \/ e.text = blocks[i].text OBVIOUS
        <5>3. IsSequence(blocks[i].text) BY <3>1 DEF BlockFits
        <5>4. IsSequence(e.text) BY <2>2, <5>2, <5>3
        <5> HIDE DEF e, s
        <5> QED BY <2>3, <2>4, <5>1, <5>4
      <4>2. IsSequence(text) BY <3>1 DEF BlockFits
      <4>3. DOMAIN s = DOMAIN text /\ s = [k \in DOMAIN text |-> s[k]] OBVIOUS
      <4>4. pieces[i] = s BY <3>1
      <4> HIDE DEF s, text, pieces
      <4>5. IsSequence(s) BY <4>2, <4>3, AsManyAs
      <4> QED BY <4>1, <4>4, <4>5, FewFrames
    <3>2. CASE blocks[i].type # "text"
      <4>1. pieces[i] = whole(blocks[i]) BY <3>2
      <4>2. FrameFits(row, Chunk(<<blocks[i]>>, Absent)) BY <2>3, <2>4, <3>2
      <4> QED BY <4>1, <4>2, FewFrames
    <3> QED BY <3>1, <3>2
  <2>6. DOMAIN pieces = DOMAIN blocks /\ pieces = [i \in DOMAIN blocks |-> pieces[i]] OBVIOUS
  <2> HIDE DEF pieces
  <2>7. IsSequence(pieces) BY <2>6, AsManyAs
  <2>8. FramesFit(row, Concat(pieces)) BY <2>5, <2>7, FramesConcat
  <2>9. FramesFit(row, <<closing>>) BY <2>10, FewFrames
  <2> QED BY <2>1, <2>8, <2>9, FramesJoin
<1>3. CASE row.engine = "anthropic_messages"
  <2> DEFINE response == AnthropicResponse(answer)
             first == [type |-> "message_start", model |-> row.model,
                       usage |-> [response.usage EXCEPT !.output = Absent]]
             pieces == [i \in DOMAIN blocks |-> AnthropicBlockFrames(blocks[i], i)]
             delta == [type |-> "message_delta", stop |-> answer.finish,
                       usage |-> [AnthropicNoUsage EXCEPT !.output = answer.output]]
             stop == [type |-> "message_stop"]
  <2>1. Frames(row, answer) = <<first>> \o Concat(pieces) \o <<delta, stop>>
    BY <1>3 DEF Frames, AnthropicFrames
  <2>2. FrameFits(row, first) /\ FrameFits(row, delta) /\ FrameFits(row, stop)
    BY <1>3 DEF FrameFits
  <2>3. \A i \in DOMAIN pieces : FramesFit(row, pieces[i]) BY <1>3, AnthropicBlockFits
  <2>4. DOMAIN pieces = DOMAIN blocks /\ pieces = [i \in DOMAIN blocks |-> pieces[i]] OBVIOUS
  <2> HIDE DEF first, pieces, delta, stop
  <2>5. IsSequence(pieces) BY <2>4, AsManyAs
  <2>6. FramesFit(row, Concat(pieces)) BY <2>3, <2>5, FramesConcat
  <2>7. FramesFit(row, <<first>>) /\ FramesFit(row, <<delta, stop>>) BY <2>2, FewFrames
  <2>8. FramesFit(row, <<first>> \o Concat(pieces)) BY <2>6, <2>7, FramesJoin
  <2> QED BY <2>1, <2>7, <2>8, FramesJoin
<1>4. CASE row.engine = "openai_responses"
  <2> DEFINE response == ResponsesResponse(answer, row)
             first == [type |-> "created"]
             pieces == [i \in DOMAIN blocks |-> ResponsesItemFrames(blocks[i])]
             last == [type |-> response.status, response |-> response]
  <2>1. Frames(row, answer) = <<first>> \o Concat(pieces) \o <<last>>
    BY <1>4 DEF Frames, ResponsesFrames
  <2>2. FrameFits(row, first) /\ FrameFits(row, last)
    <3>1. response.status \in {"completed", "incomplete"} BY DEF ResponsesResponse
    <3> HIDE DEF response
    <3> QED BY <1>4, <3>1 DEF FrameFits
  <2>3. \A i \in DOMAIN pieces : FramesFit(row, pieces[i]) BY <1>4, ResponsesItemFits
  <2>4. DOMAIN pieces = DOMAIN blocks /\ pieces = [i \in DOMAIN blocks |-> pieces[i]] OBVIOUS
  <2> HIDE DEF first, pieces, last
  <2>5. IsSequence(pieces) BY <2>4, AsManyAs
  <2>6. FramesFit(row, Concat(pieces)) BY <2>3, <2>5, FramesConcat
  <2>7. FramesFit(row, <<first>>) /\ FramesFit(row, <<last>>) BY <2>2, FewFrames
  <2>8. FramesFit(row, <<first>> \o Concat(pieces)) BY <2>6, <2>7, FramesJoin
  <2> QED BY <2>1, <2>7, <2>8, FramesJoin
<1> QED BY <1>1, <1>2, <1>3, <1>4 DEF Engines

\* What the contract sees of the events.
KindsOf(es) == [i \in DOMAIN es |-> Kind(es[i])]

LEMMA FourKinds ==
    ASSUME NEW e
    PROVE  Kind(e) \in {"start", "semantic", "continuation", "terminal"}
  BY DEF Kind

\* Events appended are kinds appended.
LEMMA KindsGrow ==
    ASSUME NEW es, NEW new, IsSequence(es), IsSequence(new)
    PROVE  LET ys == KindsOf(es)
               zs == KindsOf(es \o new)
           IN /\ Len(es) \in Nat /\ Len(new) \in Nat
              /\ Len(ys) = Len(es) /\ Len(zs) = Len(es) + Len(new)
              /\ DOMAIN ys = 1 .. Len(es) /\ DOMAIN zs = 1 .. Len(es) + Len(new)
              /\ SubSeq(zs, 1, Len(ys)) = ys
              /\ \A i \in 1 .. Len(es) : zs[i] = Kind(es[i])
              /\ \A i \in 1 .. Len(new) : zs[Len(es) + i] = Kind(new[i])
<1> DEFINE u == es \o new
           ys == KindsOf(es)
           zs == KindsOf(u)
           n == Len(es)
           m == Len(new)
<1>1. /\ IsSequence(u)
      /\ n \in Nat /\ m \in Nat
      /\ DOMAIN es = 1 .. n /\ DOMAIN new = 1 .. m
      /\ Len(u) = n + m
      /\ \A i \in 1 .. n : u[i] = es[i]
      /\ \A i \in 1 .. m : u[n + i] = new[i]
  BY Joined
<1>2. DOMAIN u = 1 .. n + m
  <2> HIDE DEF u, n, m
  <2> QED BY <1>1 DEF IsSequence
<1> HIDE DEF u, n, m
<1>3. ys = [i \in 1 .. n |-> Kind(es[i])] BY <1>1 DEF KindsOf
<1>4. zs = [i \in 1 .. n + m |-> Kind(u[i])] BY <1>2 DEF KindsOf
<1> HIDE DEF ys, zs
<1>5. DOMAIN ys = 1 .. n /\ Len(ys) = n BY <1>1, <1>3
<1>6. DOMAIN zs = 1 .. n + m /\ Len(zs) = n + m BY <1>1, <1>4
<1>7. \A i \in 1 .. n : zs[i] = Kind(es[i]) /\ ys[i] = Kind(es[i])
  BY <1>1, <1>3, <1>4
<1>8. \A i \in 1 .. m : zs[n + i] = Kind(new[i])
  <2> TAKE i \in 1 .. m
  <2>1. n + i \in 1 .. n + m BY <1>1
  <2>2. zs[n + i] = Kind(u[n + i]) BY <1>4, <2>1
  <2> QED BY <1>1, <2>2
<1>9. SubSeq(zs, 1, n) = ys
  <2> DEFINE K == {"start", "semantic", "continuation", "terminal"}
             front == SubSeq(zs, 1, n)
  <2>1. zs \in Seq(K)
    <3>1. \A i \in 1 .. n + m : zs[i] \in K BY <1>4, FourKinds
    <3>2. zs = [i \in 1 .. n + m |-> zs[i]] BY <1>4
    <3>3. n + m \in Nat BY <1>1
    <3> HIDE DEF K
    <3> QED BY <3>1, <3>2, <3>3
  <2> HIDE DEF K
  <2>2. front \in Seq(K) /\ Len(front) = n /\ \A i \in 1 .. n : front[i] = zs[i]
    BY <1>1, <1>6, <2>1
  <2> HIDE DEF front
  <2>3. DOMAIN front = 1 .. n /\ front = [i \in 1 .. n |-> front[i]] BY <2>2
  <2>4. front = [i \in 1 .. n |-> Kind(es[i])] BY <1>7, <2>2, <2>3
  <2> QED BY <1>3, <2>4 DEF front
<1> QED BY <1>1, <1>5, <1>6, <1>7, <1>8, <1>9 DEF ys, zs, u, n, m

\* The events of an attempt that goes on: its start, and output.
Begun(es) ==
    /\ IsSequence(es) /\ Len(es) > 0
    /\ \A i \in 1 .. Len(es) : Kind(es[i]) = IF i = 1 THEN "start" ELSE "semantic"

\* Whether there was output is seen in the kinds.
LEMMA OutputSeen ==
    ASSUME NEW es, NEW new, Begun(es), IsSequence(new)
    PROVE  Contract!HasOutput(KindsOf(es \o new))
             <=> Len(es) > 1 \/ \E i \in 1 .. Len(new) : Kind(new[i]) = "semantic"
<1> DEFINE n == Len(es)
           m == Len(new)
           zs == KindsOf(es \o new)
<1>1. /\ n \in Nat /\ m \in Nat /\ n > 0
      /\ DOMAIN zs = 1 .. n + m
      /\ \A i \in 1 .. n : zs[i] = Kind(es[i])
      /\ \A i \in 1 .. m : zs[n + i] = Kind(new[i])
  BY KindsGrow DEF Begun
<1> HIDE DEF zs
<1>2. ASSUME n > 1 PROVE \E i \in DOMAIN zs : zs[i] = "semantic"
  <2>1. 2 \in 1 .. n /\ 2 \in 1 .. n + m BY <1>1, <1>2
  <2>2. Kind(es[2]) = "semantic" BY <2>1 DEF Begun
  <2> QED BY <1>1, <2>1, <2>2
<1>3. ASSUME NEW i \in 1 .. m, Kind(new[i]) = "semantic"
      PROVE  \E j \in DOMAIN zs : zs[j] = "semantic"
  <2>1. n + i \in 1 .. n + m BY <1>1
  <2> QED BY <1>1, <1>3, <2>1
<1>4. ASSUME NEW j \in DOMAIN zs, zs[j] = "semantic"
      PROVE  n > 1 \/ \E i \in 1 .. m : Kind(new[i]) = "semantic"
  <2>1. CASE j \in 1 .. n
    <3>1. Kind(es[j]) = "semantic" BY <1>1, <1>4, <2>1
    <3>2. j # 1 BY <3>1, <2>1 DEF Begun
    <3> QED BY <1>1, <2>1, <3>2
  <2>2. CASE j \notin 1 .. n
    <3> DEFINE i == j - n
    <3>1. i \in 1 .. m /\ j = n + i BY <1>1, <2>2
    <3> HIDE DEF i
    <3> QED BY <1>1, <1>4, <3>1
  <2> QED BY <2>1, <2>2
<1> QED BY <1>2, <1>3, <1>4 DEF Contract!HasOutput, zs

\* A step that goes on leaves an attempt begun.
LEMMA GoingOn ==
    ASSUME NEW es, Begun(es), NEW step, GoesOn(step, Len(es) > 1)
    PROVE  Begun(es \o step.events) /\ Tells(step.state, Len(es \o step.events) > 1)
<1> DEFINE new == step.events
           u == es \o new
           n == Len(es)
           m == Len(new)
<1>1. /\ IsSequence(es) /\ IsSequence(new) /\ n > 0
      /\ \A i \in DOMAIN new : Kind(new[i]) = "semantic"
      /\ Tells(step.state, n > 1 \/ new # <<>>)
  BY DEF Begun, GoesOn, Outputs
<1>2. /\ IsSequence(u)
      /\ n \in Nat /\ m \in Nat
      /\ DOMAIN es = 1 .. n /\ DOMAIN new = 1 .. m
      /\ Len(u) = n + m
      /\ \A i \in 1 .. n : u[i] = es[i]
      /\ \A i \in 1 .. m : u[n + i] = new[i]
  BY <1>1, Joined
<1>3. new # <<>> <=> m > 0 BY <1>1, <1>2 DEF IsSequence
<1> HIDE DEF u, new
<1>4. Tells(step.state, Len(u) > 1)
  <2>1. Len(u) > 1 <=> n > 1 \/ new # <<>> BY <1>1, <1>2, <1>3
  <2> QED BY <1>1, <2>1 DEF Tells
<1>5. ASSUME NEW i \in 1 .. n + m
      PROVE  Kind(u[i]) = IF i = 1 THEN "start" ELSE "semantic"
  <2>1. CASE i \in 1 .. n BY <1>2, <2>1 DEF Begun
  <2>2. CASE i \notin 1 .. n
    <3> DEFINE j == i - n
    <3>1. j \in 1 .. m /\ i = n + j /\ i # 1 BY <1>1, <1>2, <2>2
    <3> HIDE DEF j
    <3> QED BY <1>1, <1>2, <3>1
  <2> QED BY <2>1, <2>2
<1>6. Begun(u) BY <1>1, <1>2, <1>5 DEF Begun
<1> QED BY <1>4, <1>6 DEF u, new

\* An attempt that goes on is orderly, without a terminal.
LEMMA BegunIsOrderly ==
    ASSUME NEW es, Begun(es)
    PROVE  /\ Contract!Orderly(KindsOf(es))
           /\ Len(KindsOf(es)) = Len(es)
           /\ KindsOf(es) # <<>> /\ KindsOf(es)[Len(KindsOf(es))] # "terminal"
<1> DEFINE n == Len(es)
           ys == KindsOf(es)
<1>1. n \in Nat /\ n > 0 /\ DOMAIN es = 1 .. n BY DEF Begun, IsSequence
<1>2. ys = [i \in 1 .. n |-> Kind(es[i])] BY <1>1 DEF KindsOf
<1> HIDE DEF ys
<1>3. DOMAIN ys = 1 .. n /\ Len(ys) = n /\ ys # <<>> BY <1>1, <1>2
<1>4. \A i \in 1 .. n : ys[i] = IF i = 1 THEN "start" ELSE "semantic" BY <1>2 DEF Begun
<1>5. ys[n] # "terminal" BY <1>1, <1>4
<1>6. Contract!Orderly(ys) BY <1>3, <1>4 DEF Contract!Orderly
<1> QED BY <1>3, <1>5, <1>6 DEF ys

\* The last events of an attempt: a continuation among them comes last, or
\* before the terminal.
LastEvents(new) ==
    IsSequence(new) /\ \A i \in 1 .. Len(new) :
        /\ Kind(new[i]) # "start"
        /\ Kind(new[i]) = "terminal" => i = Len(new)
        /\ Kind(new[i]) = "continuation" =>
              i = Len(new) \/ (i + 1 = Len(new) /\ Kind(new[i + 1]) = "terminal")

\* So is one whose last events follow.
LEMMA EndsOrderly ==
    ASSUME NEW es, Begun(es), NEW new, LastEvents(new)
    PROVE  Contract!Orderly(KindsOf(es \o new))
<1> DEFINE n == Len(es)
           m == Len(new)
           zs == KindsOf(es \o new)
<1>1. /\ n \in Nat /\ m \in Nat /\ n > 0
      /\ Len(zs) = n + m /\ DOMAIN zs = 1 .. n + m
      /\ \A i \in 1 .. n : zs[i] = Kind(es[i])
      /\ \A i \in 1 .. m : zs[n + i] = Kind(new[i])
  BY KindsGrow DEF Begun, LastEvents
<1> HIDE DEF zs
<1>2. ASSUME NEW i \in 1 .. n
      PROVE  zs[i] = IF i = 1 THEN "start" ELSE "semantic"
  BY <1>1, <1>2 DEF Begun
<1>3. ASSUME NEW i \in 1 .. n + m, i \notin 1 .. n
      PROVE  /\ zs[i] # "start" /\ i # 1
             /\ zs[i] = "terminal" => i = n + m
             /\ zs[i] = "continuation" =>
                   i = n + m \/ (i + 1 = n + m /\ zs[i + 1] = "terminal")
  <2> DEFINE j == i - n
  <2>1. j \in 1 .. m /\ i = n + j /\ i # 1 BY <1>1, <1>3
  <2> HIDE DEF j
  <2>2. zs[i] = Kind(new[j]) BY <1>1, <2>1
  <2>3. zs[i] # "start" /\ (zs[i] = "terminal" => i = n + m)
    BY <1>1, <2>1, <2>2 DEF LastEvents
  <2>4. ASSUME zs[i] = "continuation", i # n + m
        PROVE  i + 1 = n + m /\ zs[i + 1] = "terminal"
    <3>1. j + 1 = m /\ Kind(new[j + 1]) = "terminal"
      BY <1>1, <2>1, <2>2, <2>4 DEF LastEvents
    <3>2. j + 1 \in 1 .. m /\ i + 1 = n + (j + 1)
      <4>1. j \in Nat /\ j >= 1 /\ j + 1 = m BY <2>1, <3>1
      <4> QED BY <1>1, <2>1, <4>1
    <3>3. zs[i + 1] = Kind(new[j + 1]) BY <1>1, <3>2
    <3> QED BY <1>1, <3>1, <3>2, <3>3
  <2> QED BY <2>1, <2>3, <2>4
<1>4. ASSUME NEW i \in 1 .. n + m
      PROVE  /\ zs[i] = "start" <=> i = 1
             /\ zs[i] = "terminal" => i = n + m
             /\ zs[i] = "continuation" =>
                   i = n + m \/ (i + 1 = n + m /\ zs[i + 1] = "terminal")
  <2>1. CASE i \in 1 .. n BY <1>2, <2>1
  <2>2. CASE i \notin 1 .. n BY <1>3, <2>2
  <2> QED BY <2>1, <2>2
<1>5. Contract!Orderly(zs) BY <1>1, <1>4 DEF Contract!Orderly
<1> QED BY <1>5 DEF zs

LEMMA FinishingEnds ==
    ASSUME NEW step, Finishes(step)
    PROVE  LastEvents(step.events)
<1> DEFINE new == step.events
           m == Len(new)
<1>1. /\ IsSequence(new) /\ m \in Nat /\ m > 0
      /\ Kind(new[m]) = "terminal"
      /\ \A i \in 1 .. m - 1 :
            \/ Kind(new[i]) = "semantic"
            \/ Kind(new[i]) = "continuation" /\ i = m - 1
  BY DEF Finishes, IsSequence
<1> HIDE DEF new, m
<1>2. ASSUME NEW i \in 1 .. m
      PROVE  /\ Kind(new[i]) # "start"
             /\ Kind(new[i]) = "terminal" => i = m
             /\ Kind(new[i]) = "continuation" =>
                   i = m \/ (i + 1 = m /\ Kind(new[i + 1]) = "terminal")
  <2>1. CASE i = m BY <1>1, <2>1
  <2>2. CASE i # m
    <3>1. i \in 1 .. m - 1 BY <1>1, <2>2
    <3>2. CASE Kind(new[i]) = "semantic" BY <3>2
    <3>3. CASE Kind(new[i]) = "continuation" /\ i = m - 1
      <4>1. i + 1 = m BY <1>1, <3>3
      <4> QED BY <1>1, <3>3, <4>1
    <3> QED BY <1>1, <3>1, <3>2, <3>3
  <2> QED BY <2>1, <2>2
<1> QED BY <1>1, <1>2 DEF LastEvents, new, m

LEMMA BreakingEnds ==
    ASSUME NEW step, NEW shown, Breaks(step, shown)
    PROVE  /\ LastEvents(step.events)
           /\ \A i \in 1 .. Len(step.events) : Kind(step.events[i]) # "terminal"
  BY DEF Breaks, LastEvents

\* Events appended are events of the contract's step.
LEMMA AppendingGrows ==
    ASSUME IsSequence(events), NEW new, IsSequence(new),
           events' = events \o new, NEW kinds,
           \A i \in 1 .. Len(new) : Kind(new[i]) \in kinds
    PROVE  Contract!Grows(kinds)
<1> DEFINE ys == KindsOf(events)
           zs == KindsOf(events')
           n == Len(events)
           m == Len(new)
<1>1. /\ n \in Nat /\ m \in Nat
      /\ Len(ys) = n /\ Len(zs) = n + m
      /\ SubSeq(zs, 1, Len(ys)) = ys
      /\ \A i \in 1 .. m : zs[n + i] = Kind(new[i])
  BY KindsGrow
<1>2. ASSUME NEW i \in n + 1 .. n + m PROVE zs[i] \in kinds
  <2> DEFINE j == i - n
  <2>1. j \in 1 .. m /\ i = n + j BY <1>1
  <2> HIDE DEF j, zs
  <2> QED BY <1>1, <2>1
<1>3. /\ Len(zs) >= Len(ys) /\ SubSeq(zs, 1, Len(ys)) = ys
      /\ \A i \in Len(ys) + 1 .. Len(zs) : zs[i] \in kinds
  <2> HIDE DEF ys, zs
  <2> QED BY <1>1, <1>2
<1> QED BY <1>3 DEF Contract!Grows, KindsOf

\* A step that keeps an adapter's promise is a step of the contract.
LEMMA AdvanceFits ==
    ASSUME end = Open, Begun(events),
           NEW row, NEW step, StepFits(row, step, Len(events) > 1),
           events' = events \o step.events, end' = step.end
    PROVE  /\ Contract!Goes \/ Contract!Raises
           /\ end' = Open =>
                /\ Begun(events') /\ Tells(step.state, Len(events') > 1)
                /\ DecoderFits(row, step.state)
<1> DEFINE new == step.events
           zs == KindsOf(events')
<1>1. end = Contract!Open /\ Contract!Open = Open
        /\ Contract!Returned = Returned
  BY DEF Contract!Open, Open, Contract!Returned, Returned
<1>2. IsSequence(events) BY DEF Begun
<1>3. Open # Returned BY DEF Open, Returned
<1>4. CASE GoesOn(step, Len(events) > 1)
  <2>1. Begun(events') /\ Tells(step.state, Len(events') > 1) BY <1>4, GoingOn
  <2>2. Contract!Orderly(zs) /\ zs # <<>> /\ zs[Len(zs)] # "terminal"
    BY <2>1, BegunIsOrderly
  <2>3. Contract!Grows(Contract!Kinds)
    <3>1. IsSequence(new) BY <1>4 DEF GoesOn, Outputs
    <3>2. \A i \in 1 .. Len(new) : Kind(new[i]) \in Contract!Kinds
      BY FourKinds DEF Contract!Kinds
    <3> QED BY <1>2, <3>1, <3>2, AppendingGrows
  <2>4. end' = Open BY <1>4 DEF GoesOn
  <2>5. Contract!Goes
    BY <1>1, <2>2, <2>3, <2>4 DEF Contract!Goes, KindsOf
  <2> QED BY <1>4, <2>1, <2>4, <2>5 DEF StepFits
<1>5. CASE Finishes(step)
  <2>1. LastEvents(new) BY <1>5, FinishingEnds
  <2>2. Contract!Orderly(zs) BY <2>1, EndsOrderly
  <2>3. IsSequence(new) BY <2>1 DEF LastEvents
  <2>4. Contract!Grows(Contract!Kinds)
    <3>2. \A i \in 1 .. Len(new) : Kind(new[i]) \in Contract!Kinds
      BY FourKinds DEF Contract!Kinds
    <3> QED BY <1>2, <2>3, <3>2, AppendingGrows
  <2>5. zs # <<>> /\ zs[Len(zs)] = "terminal"
    <3> DEFINE n == Len(events)
               m == Len(new)
    <3>1. /\ n \in Nat /\ m \in Nat /\ Len(zs) = n + m
          /\ \A i \in 1 .. m : zs[n + i] = Kind(new[i])
      BY <1>2, <2>3, KindsGrow
    <3>2. m > 0 /\ Kind(new[m]) = "terminal" BY <1>5 DEF Finishes
    <3> HIDE DEF zs, n, m, new
    <3>3. m \in 1 .. m /\ Len(zs) > 0 BY <3>1, <3>2
    <3>4. zs[n + m] = "terminal" BY <3>1, <3>2, <3>3
    <3> QED BY <3>1, <3>3, <3>4
  <2>6. end' = Returned BY <1>5 DEF Finishes
  <2>7. Contract!Goes
    BY <1>1, <2>2, <2>4, <2>5, <2>6 DEF Contract!Goes, KindsOf
  <2> QED BY <1>3, <2>6, <2>7
<1>6. CASE Breaks(step, Len(events) > 1)
  <2>1. LastEvents(new) /\ \A i \in 1 .. Len(new) : Kind(new[i]) # "terminal"
    BY <1>6, BreakingEnds
  <2>2. Contract!Orderly(zs) BY <2>1, EndsOrderly
  <2>3. IsSequence(new) BY <2>1 DEF LastEvents
  <2>4. Contract!Grows(Contract!Kinds \ {"terminal"})
    <3>2. \A i \in 1 .. Len(new) : Kind(new[i]) \in Contract!Kinds \ {"terminal"}
      BY <2>1, FourKinds DEF Contract!Kinds
    <3> QED BY <1>2, <2>3, <3>2, AppendingGrows
  <2>5. Contract!HasOutput(zs)
          <=> Len(events) > 1 \/ \E i \in 1 .. Len(new) : Kind(new[i]) = "semantic"
    BY <2>3, OutputSeen
  <2>6. Truly(end', Contract!HasOutput(zs)) BY <1>6, <2>5 DEF Breaks, Truly
  <2>7. Contract!Raises
    <3>1. end' \notin {Open, Returned}
      BY <2>6 DEF Truly, Open, Returned
    <3> QED
      BY <1>1, <2>2, <2>4, <2>6, <3>1 DEF Contract!Raises, KindsOf, Truly
  <2> QED BY <2>6, <2>7 DEF Truly, Open
<1> QED BY <1>4, <1>5, <1>6 DEF StepFits, Fulfils

\* How an attempt opens is a step of the contract.
LEMMA OpeningAdvances ==
    ASSUME end = Open, events = <<>>, NEW row, NEW step, Opened(row, step),
           events' = events \o step.events, end' = step.end
    PROVE  /\ Contract!Goes \/ Contract!Raises
           /\ end' = Open =>
                /\ Begun(events') /\ Tells(step.state, Len(events') > 1)
                /\ DecoderFits(row, step.state)
<1> DEFINE zs == KindsOf(events')
           none == <<>>
<1>1. end = Contract!Open /\ Contract!Open = Open
        /\ Contract!Returned = Returned
  BY DEF Contract!Open, Open, Contract!Returned, Returned
<1>2. IsSequence(events) /\ \A e : IsSequence(<<e>>) BY DEF IsSequence
<1>3. Open # Returned BY DEF Open, Returned
<1>4. ASSUME NEW e, step.events = <<e>>
      PROVE  /\ Contract!Grows(Contract!Kinds)
             /\ events' = <<e>> /\ IsSequence(events') /\ zs = <<Kind(e)>>
  <2> DEFINE one == <<e>>
  <2>1. IsSequence(one) /\ Len(one) = 1 /\ one[1] = e BY <1>2
  <2>2. events' = one
    <3>1. one \in Seq({e}) OBVIOUS
    <3> HIDE DEF one
    <3> QED BY <1>4, <3>1 DEF one
  <2>3. zs = <<Kind(e)>> BY <2>2 DEF KindsOf
  <2>4. \A i \in 1 .. Len(one) : Kind(one[i]) \in Contract!Kinds
    BY FourKinds DEF Contract!Kinds
  <2>5. events' = events \o one BY <1>4
  <2> HIDE DEF one
  <2>6. Contract!Grows(Contract!Kinds)
    BY <1>2, <2>1, <2>4, <2>5, AppendingGrows
  <2> QED BY <2>1, <2>2, <2>3, <2>6 DEF one
<1>5. CASE /\ step.end = Open /\ step.events = <<StreamStart>>
           /\ Tells(step.state, FALSE) /\ DecoderFits(row, step.state)
  <2>1. Kind(StreamStart) = "start" BY DEF Kind, StreamStart
  <2>2. /\ Contract!Grows(Contract!Kinds)
        /\ events' = <<StreamStart>> /\ IsSequence(events') /\ zs = <<"start">>
    BY <1>4, <1>5, <2>1
  <2>3. Len(events') = 1 /\ events'[1] = StreamStart BY <2>2
  <2>4. Begun(events') BY <2>1, <2>2, <2>3 DEF Begun
  <2>5. Contract!Orderly(zs) /\ zs # <<>> /\ zs[Len(zs)] # "terminal"
    BY <2>4, BegunIsOrderly
  <2>6. Contract!Goes
    BY <1>1, <1>5, <2>2, <2>5 DEF Contract!Goes, KindsOf
  <2>7. Tells(step.state, Len(events') > 1) BY <1>5, <2>3 DEF Tells
  <2> QED BY <1>5, <2>4, <2>6, <2>7
<1>6. CASE step.events = <<>> /\ NeverAnswered(step.end)
  <2>1. events' = <<>>
    <3>1. none \o none = none OBVIOUS
    <3> QED BY <1>6, <3>1
  <2>2. zs = none /\ DOMAIN zs = {} BY <2>1 DEF KindsOf
  <2>3. \A i \in 1 .. Len(none) : Kind(none[i]) \in Contract!Kinds \ {"terminal"}
    OBVIOUS
  <2>4. IsSequence(none) BY <1>2
  <2>5. events' = events \o none BY <1>6
  <2> HIDE DEF none
  <2>6. Contract!Grows(Contract!Kinds \ {"terminal"})
    BY <1>2, <2>3, <2>4, <2>5, AppendingGrows
  <2> HIDE DEF zs
  <2>7. Contract!Orderly(zs) /\ ~ Contract!HasOutput(zs)
    BY <2>2 DEF Contract!Orderly, Contract!HasOutput
  <2>8. end' \notin {Open, Returned}
    BY <1>6 DEF NeverAnswered, Open, Returned
  <2>9. end'.error = "TransientAttempt" => end'.cause.kind # "interrupted"
    BY <1>6 DEF NeverAnswered
  <2>10. Contract!Raises
    BY <1>1, <2>2, <2>6, <2>7, <2>8, <2>9 DEF Contract!Raises, KindsOf, zs, none
  <2> QED BY <2>8, <2>10
<1>7. CASE step.end = Returned /\ \E outcome : step.events = <<Terminal(outcome)>>
  <2>1. PICK outcome : step.events = <<Terminal(outcome)>> BY <1>7
  <2>2. Kind(Terminal(outcome)) = "terminal" BY DEF Kind, Terminal
  <2>3. Contract!Grows(Contract!Kinds) /\ zs = <<"terminal">>
    BY <1>4, <2>1, <2>2
  <2>4. Contract!Orderly(zs) /\ zs # <<>> /\ zs[Len(zs)] = "terminal"
    <3> SUFFICES ASSUME NEW kinds, kinds = <<"terminal">>
                 PROVE  Contract!Orderly(kinds) /\ kinds # <<>> /\ kinds[Len(kinds)] = "terminal"
      BY <2>3
    <3> QED BY DEF Contract!Orderly
  <2>5. Contract!Goes
    BY <1>1, <1>7, <2>3, <2>4 DEF Contract!Goes, KindsOf
  <2> QED BY <1>3, <1>7, <2>5
<1> QED BY <1>5, <1>6, <1>7 DEF Opened

\* While a stream is read, its decoder tells the output its events show.
EngineInv ==
    /\ vendor \in DOMAIN Rows
    /\ phase = "ready" => events = <<>> /\ end = Open
    /\ phase = "streaming" =>
         /\ end = Open /\ Begun(events)
         /\ Tells(decoder, Len(events) > 1)
         /\ DecoderFits(Row, decoder)
         /\ FramesFit(Row, rest)

\* A row is served by one of the four adapters, also when it is redefined.
LEMMA RowFits ==
    ASSUME RowsFit, vendor \in DOMAIN Rows
    PROVE  Row.engine \in Engines
  BY DEF RowsFit, Row

\* A call of the conversation begins a new attempt.
LEMMA DispatchBegins ==
    ASSUME EngineInv, NEW prepared, NEW streaming, Dispatch(prepared, streaming)
    PROVE  EngineInv' /\ Contract!Begin
<1>1. events' = <<>> /\ end' = Open BY DEF Dispatch
<1>2. vendor' = vendor /\ phase' \in {"ready", "done"} BY DEF Dispatch
<1>3. EngineInv' BY <1>1, <1>2 DEF EngineInv
<1>4. [i \in DOMAIN events' |-> Kind(events'[i])] = <<>> BY <1>1
<1>5. Contract!Begin
  BY <1>1, <1>4 DEF Contract!Begin, Contract!Open, Open
<1> QED BY <1>3, <1>5

\* What Advance leaves of a stream that goes on.
LEMMA Advanced ==
    ASSUME EngineInv, NEW step, Advance(step),
           UNCHANGED <<vendor, version>>,
           end' = Open =>
             /\ Begun(events') /\ Tells(step.state, Len(events') > 1)
             /\ DecoderFits(Row, step.state) /\ FramesFit(Row, rest')
    PROVE  EngineInv'
<1>1. Row' = Row BY DEF Row
<1>2. /\ decoder' = step.state /\ end' = step.end
      /\ phase' \in {"streaming", "done"}
      /\ phase' = "streaming" => end' = Open
  BY DEF Advance, Settle
<1>3. DecoderFits(Row', decoder') <=> DecoderFits(Row, step.state) BY <1>1, <1>2
<1>4. FramesFit(Row', rest') <=> FramesFit(Row, rest') BY <1>1
<1> QED BY <1>2, <1>3, <1>4 DEF EngineInv

LEMMA EngineInit ==
    ASSUME Init
    PROVE  EngineInv /\ Contract!Init
<1>1. EngineInv BY DEF Init, EngineInv, Vendors
<1>2. events = <<>> /\ end = Open BY DEF Init
<1>3. [i \in DOMAIN events |-> Kind(events[i])] = <<>> BY <1>2
<1>4. Contract!Init
  BY <1>2, <1>3 DEF Contract!Init, Contract!Open, Open
<1> QED BY <1>1, <1>4

\* Every step of a conversation is one of the contract, or leaves its attempt
\* alone.
LEMMA EngineSteps ==
    ASSUME RowsFit, AnswersFit, EngineInv, [Next]_vars
    PROVE  /\ EngineInv'
           /\ [Contract!Next]_<<[i \in DOMAIN events |-> Kind(events[i])], end>>
<1> DEFINE row == Row
           Seen == [i \in DOMAIN events |-> Kind(events[i])]
           Keeps == EngineInv' /\ [Contract!Next]_<<Seen, end>>
<1> SUFFICES Keeps OBVIOUS
<1>1. row.engine \in Engines BY RowFits DEF EngineInv
<1>2. ASSUME Contract!Begin \/ Contract!Goes \/ Contract!Raises, EngineInv'
      PROVE  Keeps
  BY <1>2 DEF Contract!Next
<1>3. CASE Begin
  <2>1. PICK prepared, streaming : Dispatch(prepared, streaming)
    BY <1>3 DEF Begin
  <2> QED BY <1>2, <2>1, DispatchBegins
<1>4. CASE Continue
  <2>1. PICK prepared, streaming : Dispatch(prepared, streaming)
    BY <1>4 DEF Continue
  <2> QED BY <1>2, <2>1, DispatchBegins
<1>5. CASE Redefine
  <2>1. phase = "done" /\ UNCHANGED <<vendor, phase, events, end>> BY <1>5 DEF Redefine
  <2> QED BY <2>1 DEF EngineInv
<1>6. CASE AnswerWhole
  <2>1. phase' = "done" /\ UNCHANGED <<vendor, events, end>>
    BY <1>6 DEF AnswerWhole, Settle
  <2> QED BY <2>1 DEF EngineInv
<1>7. CASE OpenStream
  <2>1. PICK reply \in {r \in Replies : r.kind # "malformed"} :
          /\ rest' = IF reply.kind = "answer" THEN Frames(row, reply.answer) ELSE <<>>
          /\ Advance(Opening(row, reply))
    BY <1>7 DEF OpenStream
  <2>2. phase = "ready" /\ UNCHANGED <<vendor, version>> BY <1>7 DEF OpenStream
  <2> DEFINE step == Opening(row, reply)
  <2>3. Opened(row, step) BY <1>1, OpeningFits
  <2>4. Advance(step) BY <2>1
  <2> HIDE DEF step
  <2>5. events' = events \o step.events /\ end' = step.end BY <2>4 DEF Advance
  <2>6. events = <<>> /\ end = Open BY <2>2 DEF EngineInv
  <2>7. /\ Contract!Goes \/ Contract!Raises
        /\ end' = Open =>
             /\ Begun(events') /\ Tells(step.state, Len(events') > 1)
             /\ DecoderFits(row, step.state)
    BY <2>3, <2>5, <2>6, OpeningAdvances
  <2>8. FramesFit(row, rest')
    <3>1. CASE reply.kind = "answer"
      <4>1. reply.answer \in Answers[vendor]
        BY <2>1, <3>1 DEF Replies, Possible
      <4>2. /\ IsSequence(reply.answer.blocks)
            /\ \A i \in DOMAIN reply.answer.blocks : BlockFits(reply.answer.blocks[i])
        BY <4>1 DEF EngineInv, AnswersFit, AnswerFits, KnownBlock, BlockFits
      <4> HIDE DEF row
      <4>3. FramesFit(row, Frames(row, reply.answer)) BY <1>1, <4>2, AllFramesFit
      <4> QED BY <2>1, <3>1, <4>3
    <3>2. CASE reply.kind # "answer" BY <2>1, <3>2, FewFrames
    <3> QED BY <3>1, <3>2
  <2>9. EngineInv' BY <2>2, <2>4, <2>7, <2>8, Advanced
  <2> QED BY <1>2, <2>7, <2>9
<1> DEFINE Reads(step) ==
             /\ phase = "streaming" /\ UNCHANGED <<vendor, version>>
             /\ Advance(step) /\ StepFits(row, step, Len(events) > 1)
             /\ FramesFit(row, rest')
<1>8. ASSUME NEW step, Reads(step) PROVE Keeps
  <2>1. events' = events \o step.events /\ end' = step.end BY <1>8 DEF Advance
  <2>2. Begun(events) /\ end = Open BY <1>8 DEF EngineInv
  <2> HIDE DEF row
  <2>3. /\ Contract!Goes \/ Contract!Raises
        /\ end' = Open =>
             /\ Begun(events') /\ Tells(step.state, Len(events') > 1)
             /\ DecoderFits(row, step.state)
    BY <1>8, <2>1, <2>2, AdvanceFits
  <2>4. EngineInv' BY <1>8, <2>3, Advanced DEF row
  <2> QED BY <1>2, <2>3, <2>4
<1>9. ASSUME phase = "streaming"
      PROVE  /\ Tells(decoder, Len(events) > 1)
             /\ DecoderFits(row, decoder) /\ FramesFit(row, rest)
  BY <1>9 DEF EngineInv
<1>10. CASE Deliver
  <2> DEFINE step == Step(row, call.intent, Head(rest))
  <2>1. /\ phase = "streaming" /\ rest # <<>> /\ Advance(step) /\ rest' = Tail(rest)
        /\ UNCHANGED <<vendor, version>>
    BY <1>10 DEF Deliver
  <2>2. FrameFits(row, Head(rest)) /\ FramesFit(row, Tail(rest))
    <3>1. IsSequence(rest) /\ \A i \in DOMAIN rest : FrameFits(row, rest[i])
      BY <1>9, <2>1 DEF FramesFit
    <3> HIDE DEF row
    <3> DEFINE front == Head(rest)
               left == Tail(rest)
               n == Len(rest)
               T == {rest[i] : i \in DOMAIN rest}
    <3>2. rest \in Seq(T) /\ n \in Nat /\ n > 0 /\ DOMAIN rest = 1 .. n
      BY <2>1, <3>1 DEF IsSequence
    <3> HIDE DEF T, n
    <3>3. front = rest[1] /\ 1 \in DOMAIN rest BY <3>2
    <3>4. left \in Seq(T) /\ Len(left) = n - 1 /\ \A i \in 1 .. n - 1 : left[i] = rest[i + 1]
      BY <2>1, <3>2 DEF n
    <3> HIDE DEF front, left
    <3>5. DOMAIN left = 1 .. n - 1 BY <3>2, <3>4
    <3>6. IsSequence(left) BY <3>4 DEF IsSequence
    <3>7. \A i \in DOMAIN left : FrameFits(row, left[i]) BY <3>1, <3>2, <3>4, <3>5
    <3>8. FrameFits(row, front) /\ FramesFit(row, left) BY <3>1, <3>3, <3>6, <3>7 DEF FramesFit
    <3> QED BY <3>8 DEF front, left
  <2> HIDE DEF row
  <2>3. StepFits(row, step, Len(events) > 1) BY <1>1, <1>9, <2>1, <2>2, StepsFit
  <2>4. FramesFit(row, rest') BY <2>1, <2>2
  <2> HIDE DEF step
  <2>5. Reads(step) BY <2>1, <2>3, <2>4
  <2> QED BY <1>8, <2>5
<1>11. CASE End
  <2> DEFINE step == SourceEnd(row, call.intent)
  <2>1. /\ phase = "streaming" /\ Advance(step)
        /\ UNCHANGED <<vendor, version, rest>>
    BY <1>11 DEF End
  <2> HIDE DEF row
  <2>2. StepFits(row, step, Len(events) > 1) BY <1>1, <1>9, <2>1, SourceEndFits
  <2>3. FramesFit(row, rest') BY <1>9, <2>1
  <2> HIDE DEF step
  <2>4. Reads(step) BY <2>1, <2>2, <2>3
  <2> QED BY <1>8, <2>4
<1>12. CASE Fail
  <2>1. PICK failure \in Failures :
          Advance(Raises(decoder, Fails(row, failure)))
    BY <1>12 DEF Fail
  <2>2. phase = "streaming" /\ UNCHANGED <<vendor, version, rest>>
    BY <1>12 DEF Fail
  <2>3. failure.kind \in {"transport", "inband", "malformed"} BY <2>1 DEF Failures
  <2> DEFINE step == Raises(decoder, Fails(row, failure))
  <2> HIDE DEF row
  <2>4. StepFits(row, step, Len(events) > 1) BY <1>1, <1>9, <2>2, <2>3, FailuresFit
  <2>5. FramesFit(row, rest') BY <1>9, <2>2
  <2>6. Advance(step) BY <2>1
  <2> HIDE DEF step
  <2>7. Reads(step) BY <2>2, <2>4, <2>5, <2>6
  <2> QED BY <1>8, <2>7
<1>13. CASE UNCHANGED vars
  <2>1. UNCHANGED <<vendor, version, phase, rest, decoder, events, end>>
    BY <1>13 DEF vars
  <2>2. row' = row BY <2>1 DEF Row
  <2>3. EngineInv' BY <2>1, <2>2 DEF EngineInv
  <2> QED BY <2>1, <2>3
<1> QED
  BY <1>3, <1>4, <1>5, <1>6, <1>7, <1>10, <1>11, <1>12, <1>13 DEF Next

\* The stream of every adapter, for every registry, every answer of a provider
\* and every failure, is the engine stream that StreamCall takes it for: it
\* starts once, output follows, a continuation only last or before the terminal,
\* and what it raises tells truly whether output was lost and may be billed
\* (the stream methods of anthropic_messages.py, openai_responses.py,
\* openai_chat.py and gemini_generate.py).
THEOREM EnginesKeepTheirContract == Spec => ImplementsEngine
<1>1. Init => EngineInv /\ Contract!Init BY EngineInit
<1>2. EngineInv /\ [Next]_vars =>
        /\ EngineInv'
        /\ [Contract!Next]_<<[i \in DOMAIN events |-> Kind(events[i])], end>>
  BY EngineSteps, RegistryAssumption
<1> QED
  BY <1>1, <1>2, PTL DEF Spec, ImplementsEngine, Contract!Spec

\* One frame of any stream adds up: the case of each adapter.
LEMMA FramesAddUp ==
    ASSUME NEW row, NEW intent, NEW frame, NEW text, NEW done, row.engine \in Engines,
           DecoderFits(row, decoder), FrameFits(row, frame),
           IsSequence(text), IsSequence(done), Kept(row, decoder, text, done)
    PROVE  AddsUp(row, Step(row, intent, frame), text, done)
<1> DEFINE step == Step(row, intent, frame)
<1> SUFFICES AddsUp(row, step, text, done) OBVIOUS
<1>1. CASE row.engine = "anthropic_messages"
  <2>1. step = AnthropicFrame(decoder, frame, row, intent) BY <1>1 DEF Step
  <2>2. Holds(decoder, text, done) BY <1>1 DEF Kept
  <2> HIDE DEF step
  <2> QED BY <1>1, <2>1, <2>2, AnthropicAddsUp
<1>2. CASE row.engine = "openai_responses"
  <2>1. step = ResponsesFrame(decoder, frame, row, intent) BY <1>2 DEF Step
  <2>2. Holds(decoder, text, done) BY <1>2 DEF Kept
  <2> HIDE DEF step
  <2> QED BY <1>2, <2>1, <2>2, ResponsesAddsUp
<1>3. CASE row.engine = "openai_chat"
  <2>1. step = ChatChunk(decoder, frame, row) BY <1>3 DEF Step
  <2>2. SlotsFit(decoder) /\ ChatHolds(decoder, text, done) BY <1>3 DEF DecoderFits, Kept
  <2> HIDE DEF step
  <2> QED BY <1>3, <2>1, <2>2, ChatChunkAddsUp
<1>4. CASE row.engine = "gemini_generate"
  <2>1. step = GeminiChunk(decoder, frame, row, intent) BY <1>4 DEF Step
  <2>2. GeminiHolds(decoder, text, done) BY <1>4 DEF Kept
  <2> HIDE DEF step
  <2> QED BY <1>4, <2>1, <2>2, GeminiAddsUp
<1> QED BY <1>1, <1>2, <1>3, <1>4 DEF Engines

\* So does the end of the source: only a chat stream may be complete by then.
LEMMA SourceEndAddsUp ==
    ASSUME NEW row, NEW intent, NEW text, NEW done, row.engine \in Engines,
           IsSequence(text), IsSequence(done), Kept(row, decoder, text, done)
    PROVE  AddsUp(row, SourceEnd(row, intent), text, done)
<1> DEFINE step == SourceEnd(row, intent)
<1> SUFFICES AddsUp(row, step, text, done) OBVIOUS
<1>1. CASE row.engine = "openai_chat"
  <2>1. step = ChatEnd(decoder, row, intent) BY <1>1 DEF SourceEnd
  <2>2. ChatHolds(decoder, text, done) BY <1>1 DEF Kept
  <2> HIDE DEF step
  <2> QED BY <2>1, <2>2, ChatEndAddsUp
<1>2. CASE row.engine # "openai_chat"
  <2>1. \A partial, charge : Interrupted(partial, charge).error = "TransientAttempt"
    BY DEF Interrupted, Transient
  <2>2. /\ AnthropicCut(decoder).error = "TransientAttempt"
        /\ ResponsesCut(decoder).error = "TransientAttempt"
        /\ GeminiCut(decoder).error = "TransientAttempt"
    BY <2>1 DEF AnthropicCut, ResponsesCut, GeminiCut, GeminiInterrupted
  <2>3. step.end.error = "TransientAttempt"
    BY <1>2, <2>2 DEF SourceEnd, Engines, Raises
  <2> HIDE DEF step
  <2> QED BY <2>3, RaisedAddsUp
<1> QED BY <1>1, <1>2

\* What breaks a stream leaves nothing to add up.
LEMMA FailuresAddUp ==
    ASSUME NEW row, NEW text, NEW done, row.engine \in Engines,
           NEW failure, failure.kind \in {"transport", "inband", "malformed"}
    PROVE  AddsUp(row, Raises(decoder, Fails(row, failure)), text, done)
<1> DEFINE Error(e) == e.error \in {"TransientAttempt", "ProtocolDefect"}
<1>1. /\ \A timeout, charge : Error(Broken(timeout, charge))
      /\ \A code : Error(Defect(code))
      /\ Error(Unavailable) /\ \A window : Error(RateLimited(window))
      /\ \A partial, charge : Error(Interrupted(partial, charge))
  BY DEF Broken, Defect, Unavailable, RateLimited, Interrupted, Transient
<1>2. /\ Error(AnthropicFails(decoder, failure))
      /\ Error(ResponsesFails(decoder, failure))
      /\ Error(ChatFails(decoder, failure))
  <2> HIDE DEF Error
  <2> QED BY <1>1 DEF AnthropicFails, AnthropicInband, ResponsesFails, ResponsesInband,
                      ChatFails, ChatInband
<1>3. Error(GeminiFails(decoder, failure))
  <2> DEFINE cause_ ==
        CASE failure.kind = "transport" -> Broken(failure.timeout, "PossiblyBillable")
          [] failure.kind = "inband" -> GeminiInband(failure.code)
          [] failure.kind = "malformed" -> Defect("malformed_stream_frame")
  <2> HIDE DEF Error
  <2>1. Error(cause_) BY <1>1 DEF GeminiInband
  <2>2. GeminiFails(decoder, failure) = GeminiInterrupted(decoder, cause_)
    BY DEF GeminiFails
  <2> HIDE DEF cause_
  <2> QED BY <1>1, <2>1, <2>2 DEF GeminiInterrupted
<1>4. Error(Fails(row, failure)) BY <1>2, <1>3 DEF Fails, Engines
<1>5. Raises(decoder, Fails(row, failure)).end = Fails(row, failure) BY DEF Raises
<1> QED BY <1>4, <1>5, RaisedAddsUp

\* Nothing was kept before an attempt opened, and what opens it shows nothing.
LEMMA OpeningAddsUp ==
    ASSUME NEW row, NEW step, Opened(row, step)
    PROVE  AddsUp(row, step, <<>>, <<>>)
<1> DEFINE none == <<>>
<1>1. none \o none = none /\ IsSequence(none) /\ Len(none) = 0 BY DEF IsSequence
<1>2. CASE step.end = Open /\ step.events = <<StreamStart>> /\ Kept(row, step.state, none, none)
  <2>1. StreamStart.event \notin {"text", "done"} BY DEF StreamStart
  <2>2. Shown(step.events, none, none) BY <1>2, <2>1, ShownFew
  <2>3. step.end # Returned BY <1>2 DEF Open, Returned
  <2> HIDE DEF none
  <2>4. Kept(row, step.state, none \o none, none \o none) BY <1>1, <1>2
  <2>5. AddsUp(row, step, none, none) BY <2>2, <2>3, <2>4 DEF AddsUp
  <2> QED BY <2>5 DEF none
<1>3. CASE step.events = <<>> /\ NeverAnswered(step.end)
  BY <1>3, RaisedAddsUp DEF NeverAnswered
<1>4. CASE step.end = Returned /\ \E why, meta : step.events = <<Terminal(Failure(why, meta))>>
  <2>1. PICK why, meta : step.events = <<Terminal(Failure(why, meta))>> BY <1>4
  <2> DEFINE outcome == Failure(why, meta)
  <2>2. Promised(outcome, none, none) BY FewOutcomes
  <2>3. Shown(step.events, none, none) BY <2>1, ClosingShows
  <2>4. Len(step.events) > 0 /\ Last(step.events) = Terminal(outcome)
    <3> SUFFICES ASSUME NEW last, step.events = <<last>>
                 PROVE  Len(step.events) > 0 /\ Last(step.events) = last
      BY <2>1
    <3> QED BY DEF Last
  <2>5. step.end # Open BY <1>4 DEF Open, Returned
  <2> HIDE DEF none, outcome
  <2>6. Promised(outcome, none \o none, none \o none) BY <1>1, <2>2
  <2>7. AddsUp(row, step, none, none) BY <2>3, <2>4, <2>5, <2>6 DEF AddsUp
  <2> QED BY <2>7 DEF none
<1> QED BY <1>2, <1>3, <1>4 DEF Opened

\* The runtime seals a success with its content, or makes it no success
\* (runtime.py, _seal_outcome).
LEMMA SealingKeeps ==
    ASSUME NEW row, NEW intent, NEW state, NEW outcome, NEW text, NEW done,
           Promised(outcome, text, done), NEW sealed,
           sealed = IF IsError(outcome) THEN outcome
                    ELSE SealOutcome(row, intent, state, outcome),
           ~ IsError(sealed), sealed.arm = "Succeeded"
    PROVE  sealed.content = [text |-> text, tools |-> done]
<1> DEFINE content == [text |-> text, tools |-> done]
<1>1. ~ IsError(outcome) /\ sealed = SealOutcome(row, intent, state, outcome) OBVIOUS
<1>2. outcome.arm = "Succeeded"
  <2> SUFFICES ASSUME outcome.arm # "Succeeded" PROVE FALSE OBVIOUS
  <2> QED BY <1>1 DEF SealOutcome
<1>3. PICK native, meta : outcome = Success(content, native, meta) BY <1>2 DEF Promised
<1> DEFINE made == SealGeneration(row, intent, state, outcome)
<1>4. \A why : Failure(why, outcome.meta).arm # "Succeeded" BY DEF Failure, Outcome
<1>5. sealed = IF made = TooLarge THEN Failure("ContinuationTooLarge", outcome.meta) ELSE made
  BY <1>1, <1>2 DEF SealOutcome
<1>6. \/ made \in {InvalidRequest, TooLarge}
      \/ \E artifact : made = Success(outcome.content, artifact, outcome.meta)
  BY DEF SealGeneration
<1>7. \A artifact : Success(outcome.content, artifact, outcome.meta).content = content
  <2> HIDE DEF content
  <2> QED BY <1>3 DEF Success
<1>8. IsError(InvalidRequest) BY DEF IsError, InvalidRequest
<1> HIDE DEF made, content
<1>9. sealed = made /\ made # TooLarge BY <1>4, <1>5
<1> QED BY <1>6, <1>7, <1>8, <1>9 DEF content

\* While a stream is read its decoder has kept what its events show, and when it is
\* over its outcome has.
ContentInv ==
    /\ phase = "streaming" =>
         Worded(events) /\ Kept(Row, decoder, TextShown(events), CallsDone(events))
    /\ ContentAddsUp

\* A step of the decoder that adds up keeps this.
LEMMA ContentAdvances ==
    ASSUME NEW step, Advance(step), UNCHANGED <<vendor, version>>, Worded(events),
           AddsUp(Row, step, TextShown(events), CallsDone(events))
    PROVE  ContentInv'
<1> DEFINE text == TextShown(events)
           done == CallsDone(events)
<1>1. Row' = Row BY DEF Row
<1>2. decoder' = step.state /\ events' = events \o step.events /\ end' = step.end
  BY DEF Advance
<1>3. Shown(events, text, done) BY DEF Shown
<1> HIDE DEF text, done
<1>4. CASE step.end = Open
  <2>1. PICK more, others : /\ Shown(step.events, more, others)
                            /\ Kept(Row, step.state, text \o more, done \o others)
    BY <1>4 DEF AddsUp, text, done
  <2>2. Shown(events', text \o more, done \o others) BY <1>2, <1>3, <2>1, ShownJoin
  <2>3. /\ Worded(events')
        /\ TextShown(events') = text \o more /\ CallsDone(events') = done \o others
    BY <2>2 DEF Shown
  <2>4. Kept(Row', decoder', TextShown(events'), CallsDone(events'))
    BY <1>1, <1>2, <2>1, <2>3
  <2>5. end' # Returned BY <1>2, <1>4 DEF Open, Returned
  <2> QED BY <2>3, <2>4, <2>5 DEF ContentInv, ContentAddsUp, Completed
<1>5. CASE step.end = Returned
  <2>1. PICK more, others, outcome :
          /\ Shown(step.events, more, others)
          /\ Len(step.events) > 0 /\ Last(step.events) = Terminal(outcome)
          /\ Promised(outcome, text \o more, done \o others)
    BY <1>5 DEF AddsUp, text, done
  <2>2. Shown(events', text \o more, done \o others) BY <1>2, <1>3, <2>1, ShownJoin
  <2>3. TextShown(events') = text \o more /\ CallsDone(events') = done \o others
    BY <2>2 DEF Shown
  <2>4. Last(events').outcome = outcome
    <3>1. IsSequence(events) /\ IsSequence(step.events) BY <2>1 DEF Shown, Worded
    <3>2. Last(events') = Terminal(outcome) BY <1>2, <2>1, <3>1, LastJoined
    <3> QED BY <3>2 DEF Terminal
  <2>5. step.end # Open BY <1>5 DEF Open, Returned
  <2>6. /\ phase' = "done"
        /\ result' = IF IsError(outcome) THEN outcome
                     ELSE SealOutcome(Row, call.intent, call.state, outcome)
    BY <1>5, <2>4, <2>5 DEF Advance, Settle
  <2>7. ContentAddsUp'
    <3> SUFFICES ASSUME ~ IsError(result'), result'.arm = "Succeeded"
                 PROVE  /\ TextShown(events') = result'.content.text
                        /\ CallsDone(events') = result'.content.tools
      BY DEF ContentAddsUp, Completed
    <3> DEFINE sealed == result'
               row == Row
               t == text \o more
               d == done \o others
    <3>1. /\ Promised(outcome, t, d) /\ ~ IsError(sealed) /\ sealed.arm = "Succeeded"
          /\ sealed = IF IsError(outcome) THEN outcome
                      ELSE SealOutcome(row, call.intent, call.state, outcome)
      BY <2>1, <2>6
    <3> HIDE DEF sealed, row, t, d
    <3>2. sealed.content = [text |-> t, tools |-> d] BY <3>1, SealingKeeps
    <3>3. result'.content = [text |-> text \o more, tools |-> done \o others]
      BY <3>2 DEF sealed, t, d
    <3> QED BY <2>3, <3>3
  <2> QED BY <2>6, <2>7 DEF ContentInv
<1>6. CASE step.end \notin {Open, Returned}
  <2>1. phase' = "done" /\ end' # Returned BY <1>2, <1>6 DEF Advance, Settle
  <2> QED BY <2>1 DEF ContentInv, ContentAddsUp, Completed
<1> QED BY <1>4, <1>5, <1>6

\* Every step of a conversation keeps it.
LEMMA ContentSteps ==
    ASSUME RowsFit, EngineInv, ContentInv, [Next]_vars
    PROVE  ContentInv'
<1>1. Row.engine \in Engines BY RowFits DEF EngineInv
<1>2. ASSUME NEW prepared, NEW streaming, Dispatch(prepared, streaming) PROVE ContentInv'
  <2>1. end' # Returned /\ phase' \in {"ready", "done"} BY <1>2 DEF Dispatch, Open, Returned
  <2> QED BY <2>1 DEF ContentInv, ContentAddsUp, Completed
<1>3. CASE Begin BY <1>2, <1>3 DEF Begin
<1>4. CASE Continue BY <1>2, <1>4 DEF Continue
<1>5. CASE Redefine \/ UNCHANGED vars
  <2>1. /\ UNCHANGED <<phase, events, end, result, decoder, vendor>>
        /\ phase = "streaming" => UNCHANGED version
    BY <1>5 DEF Redefine, vars
  <2>2. phase = "streaming" => Row' = Row BY <2>1 DEF Row
  <2>3. ContentAddsUp' BY <2>1 DEF ContentInv, ContentAddsUp, Completed
  <2> QED BY <2>1, <2>2, <2>3 DEF ContentInv
<1>6. CASE AnswerWhole
  <2>1. phase' = "done" /\ end' # Returned
    BY <1>6 DEF AnswerWhole, Settle, EngineInv, Open, Returned
  <2> QED BY <2>1 DEF ContentInv, ContentAddsUp, Completed
<1>7. CASE OpenStream
  <2>1. PICK reply \in Replies : Advance(Opening(Row, reply)) BY <1>7 DEF OpenStream
  <2>2. phase = "ready" /\ UNCHANGED <<vendor, version>> BY <1>7 DEF OpenStream
  <2> DEFINE step == Opening(Row, reply)
  <2>3. Opened(Row, step) BY <1>1, OpeningFits
  <2>4. Advance(step) BY <2>1
  <2> HIDE DEF step
  <2>5. Worded(events) /\ TextShown(events) = <<>> /\ CallsDone(events) = <<>>
    BY <2>2, ShownFew DEF EngineInv, Shown
  <2>6. AddsUp(Row, step, TextShown(events), CallsDone(events)) BY <2>3, <2>5, OpeningAddsUp
  <2> QED BY <2>2, <2>4, <2>5, <2>6, ContentAdvances
<1>8. ASSUME phase = "streaming"
      PROVE  /\ Worded(events) /\ Kept(Row, decoder, TextShown(events), CallsDone(events))
             /\ IsSequence(TextShown(events)) /\ IsSequence(CallsDone(events))
             /\ DecoderFits(Row, decoder) /\ FramesFit(Row, rest)
  <2>1. Worded(events) /\ Kept(Row, decoder, TextShown(events), CallsDone(events))
    BY <1>8 DEF ContentInv
  <2> QED BY <1>8, <2>1, ShowingJoins DEF EngineInv
<1>9. CASE Deliver
  <2> DEFINE step == Step(Row, call.intent, Head(rest))
  <2>1. phase = "streaming" /\ rest # <<>> /\ Advance(step) /\ UNCHANGED <<vendor, version>>
    BY <1>9 DEF Deliver
  <2>2. FrameFits(Row, Head(rest))
    <3>1. IsSequence(rest) /\ \A i \in DOMAIN rest : FrameFits(Row, rest[i])
      BY <1>8, <2>1 DEF FramesFit
    <3>2. Head(rest) = rest[1] /\ 1 \in DOMAIN rest BY <2>1, <3>1 DEF IsSequence
    <3> QED BY <3>1, <3>2
  <2>3. AddsUp(Row, step, TextShown(events), CallsDone(events))
    BY <1>1, <1>8, <2>1, <2>2, FramesAddUp
  <2> HIDE DEF step
  <2> QED BY <1>8, <2>1, <2>3, ContentAdvances
<1>10. CASE End
  <2> DEFINE step == SourceEnd(Row, call.intent)
  <2>1. phase = "streaming" /\ Advance(step) /\ UNCHANGED <<vendor, version>>
    BY <1>10 DEF End
  <2>2. AddsUp(Row, step, TextShown(events), CallsDone(events))
    BY <1>1, <1>8, <2>1, SourceEndAddsUp
  <2> HIDE DEF step
  <2> QED BY <1>8, <2>1, <2>2, ContentAdvances
<1>11. CASE Fail
  <2>1. PICK failure \in Failures : Advance(Raises(decoder, Fails(Row, failure)))
    BY <1>11 DEF Fail
  <2>2. phase = "streaming" /\ UNCHANGED <<vendor, version>> BY <1>11 DEF Fail
  <2>3. failure.kind \in {"transport", "inband", "malformed"} BY <2>1 DEF Failures
  <2> DEFINE step == Raises(decoder, Fails(Row, failure))
  <2>4. AddsUp(Row, step, TextShown(events), CallsDone(events))
    BY <1>1, <2>3, FailuresAddUp
  <2>5. Advance(step) BY <2>1
  <2> HIDE DEF step
  <2> QED BY <1>8, <2>2, <2>4, <2>5, ContentAdvances
<1> QED BY <1>3, <1>4, <1>5, <1>6, <1>7, <1>9, <1>10, <1>11 DEF Next

\* A stream that ends with a success has shown its consumer exactly the content
\* of that outcome: the texts of its deltas joined are its text, and the calls that
\* were done its calls, in order. No fragment is lost, shown twice or told only in
\* the end, whatever the adapter, the answer and the way it was cut into frames
\* (stream of the four adapters, and _seal_outcome of runtime.py).
THEOREM ContentIsShown == Spec => []ContentAddsUp
<1>1. Init => EngineInv /\ ContentInv
  <2>1. Init => phase = "idle" BY DEF Init
  <2>2. Init => ContentInv BY <2>1 DEF ContentInv, ContentAddsUp, Completed
  <2> QED BY <2>2, EngineInit
<1>2. EngineInv /\ ContentInv /\ [Next]_vars => EngineInv' /\ ContentInv'
  BY EngineSteps, ContentSteps, RegistryAssumption
<1>3. ContentInv => ContentAddsUp BY DEF ContentInv
<1> QED BY <1>1, <1>2, <1>3, PTL DEF Spec

=============================================================================
