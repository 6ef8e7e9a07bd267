-------------------------- MODULE AgreementProofs ---------------------------
(***************************************************************************)
(* A streamed answer means what it means when it comes whole: theorems     *)
(* about Generation, for every registry, every turn a provider may answer  *)
(* with and every way to cut it into frames. The frames that an adapter    *)
(* has read make the state of its decoder, so that the end of the stream   *)
(* weighs the turn that the whole answer tells.                            *)
(***************************************************************************)
EXTENDS GenerationProofs

\* Sequences joined: in any order.
LEMMA JoinsAnyhow ==
    ASSUME NEW a, NEW b, NEW c, IsSequence(a), IsSequence(b), IsSequence(c)
    PROVE  /\ IsSequence(a \o b)
           /\ (a \o b) \o c = a \o (b \o c)
           /\ a \o <<>> = a /\ <<>> \o a = a
<1> DEFINE S == {a[i] : i \in DOMAIN a} \cup {b[i] : i \in DOMAIN b} \cup {c[i] : i \in DOMAIN c}
<1>1. a \in Seq(S) /\ b \in Seq(S) /\ c \in Seq(S) BY DEF IsSequence
<1> HIDE DEF S
<1>2. IsSequence(a \o b) BY Joined
<1> QED BY <1>1, <1>2, JoinsAssociate

\* The first of a sequence, and the others.
LEMMA HeadOfJoin ==
    ASSUME NEW x, NEW t, IsSequence(t)
    PROVE  /\ IsSequence(<<x>>) /\ IsSequence(<<x>> \o t)
           /\ <<x>> \o t # <<>> /\ Head(<<x>> \o t) = x /\ Tail(<<x>> \o t) = t
<1> DEFINE S == {t[i] : i \in DOMAIN t} \cup {x}
<1>1. t \in Seq(S) /\ <<x>> \in Seq(S) /\ x \in S BY DEF IsSequence
<1>2. IsSequence(<<x>>) BY DEF IsSequence
<1>3. IsSequence(<<x>> \o t) BY <1>2, Joined
<1> HIDE DEF S
<1>4. <<x>> \o t # <<>> /\ Head(<<x>> \o t) = x /\ Tail(<<x>> \o t) = t BY <1>1
<1> QED BY <1>2, <1>3, <1>4

\* A sequence without its first elements.
Dropped(s, n) == [i \in 1 .. Len(s) - n |-> s[n + i]]

LEMMA Dropping ==
    ASSUME NEW s, IsSequence(s)
    PROVE  /\ Dropped(s, 0) = s /\ Dropped(s, Len(s)) = <<>>
           /\ \A n \in 0 .. Len(s) : IsSequence(Dropped(s, n)) /\ Len(Dropped(s, n)) = Len(s) - n
           /\ \A n \in 0 .. Len(s) : n # Len(s) =>
                Dropped(s, n) = <<s[n + 1]>> \o Dropped(s, n + 1)
<1>1. Len(s) \in Nat /\ DOMAIN s = 1 .. Len(s) /\ s = [i \in 1 .. Len(s) |-> s[i]]
  BY DEF IsSequence
<1>2. Dropped(s, 0) = s
  <2>1. \A i \in 1 .. Len(s) : 0 + i = i BY <1>1
  <2>2. Len(s) - 0 = Len(s) BY <1>1
  <2>3. [i \in 1 .. Len(s) |-> s[0 + i]] = [i \in 1 .. Len(s) |-> s[i]] BY <2>1
  <2> QED BY <1>1, <2>2, <2>3 DEF Dropped
<1>3. Dropped(s, Len(s)) = <<>> BY <1>1 DEF Dropped
<1>4. ASSUME NEW n \in 0 .. Len(s)
      PROVE  IsSequence(Dropped(s, n)) /\ Len(Dropped(s, n)) = Len(s) - n
  <2> DEFINE m == Len(s) - n
             d == [i \in 1 .. m |-> s[n + i]]
  <2>1. m \in Nat BY <1>1
  <2>2. Dropped(s, n) = d BY DEF Dropped
  <2>3. DOMAIN d = 1 .. m /\ d = [i \in 1 .. m |-> d[i]] OBVIOUS
  <2> HIDE DEF d
  <2>4. IsSequence(d) /\ Len(d) = m
    <3> HIDE DEF m
    <3> QED BY <2>1, <2>3 DEF IsSequence
  <2> QED BY <2>2, <2>4
<1>5. ASSUME NEW n \in 0 .. Len(s), n # Len(s)
      PROVE  Dropped(s, n) = <<s[n + 1]>> \o Dropped(s, n + 1)
  <2> DEFINE a == <<s[n + 1]>>
             b == Dropped(s, n + 1)
             u == Dropped(s, n)
             m == Len(s) - n
  <2>1. n + 1 \in 0 .. Len(s) /\ m \in Nat /\ m > 0 /\ Len(s) - (n + 1) = m - 1 BY <1>1, <1>5
  <2>2. IsSequence(b) /\ Len(b) = m - 1 BY <1>4, <2>1
  <2>3. IsSequence(a) /\ Len(a) = 1 /\ a[1] = s[n + 1] BY DEF IsSequence
  <2>4. DOMAIN u = 1 .. m /\ u = [i \in DOMAIN u |-> u[i]]
          /\ \A i \in 1 .. m : u[i] = s[n + i]
    BY DEF Dropped
  <2>5. \A i \in 1 .. m - 1 : b[i] = s[(n + 1) + i] BY <2>1 DEF Dropped
  <2> HIDE DEF a, b, u
  <2>6. BothIn(u, a, b)
    <3>1. Len(a) + Len(b) = m BY <2>1, <2>2, <2>3
    <3>2. \A i \in 1 .. Len(a) : u[i] = a[i]
      <4>1. u[1] = a[1]
        <5>1. 1 \in 1 .. m BY <2>1
        <5> QED BY <2>3, <2>4, <5>1
      <4>2. \A i \in 1 .. Len(a) : i = 1 BY <2>3
      <4> QED BY <4>1, <4>2
    <3>3. \A i \in 1 .. Len(b) : u[Len(a) + i] = b[i]
      <4> TAKE i \in 1 .. Len(b)
      <4>1. Len(a) + i \in 1 .. m /\ n + (Len(a) + i) = (n + 1) + i /\ i \in 1 .. m - 1
        BY SMTT(30), <1>1, <2>1, <2>2, <2>3
      <4> QED BY <2>4, <2>5, <4>1
    <3> QED BY <2>4, <3>1, <3>2, <3>3 DEF BothIn
  <2>7. u = a \o b BY <2>2, <2>3, <2>6, IsJoin
  <2> QED BY <2>7 DEF a, b, u
<1> QED BY <1>2, <1>3, <1>4, <1>5

\* The pieces that are still to come, joined.
Later(p, k) == Concat(Dropped(p, k))

LEMMA LaterUnrolls ==
    ASSUME NEW p, Pieces(p)
    PROVE  /\ Later(p, 0) = Concat(p) /\ Later(p, Len(p)) = <<>>
           /\ \A k \in 0 .. Len(p) : IsSequence(Later(p, k))
           /\ \A k \in 0 .. Len(p) : k # Len(p) =>
                /\ IsSequence(p[k + 1])
                /\ Later(p, k) = p[k + 1] \o Later(p, k + 1)
<1>1. IsSequence(p) /\ Len(p) \in Nat /\ DOMAIN p = 1 .. Len(p)
  BY DEF Pieces, IsSequence
<1>2. ASSUME NEW k \in 0 .. Len(p) PROVE Pieces(Dropped(p, k))
  <2>1. IsSequence(Dropped(p, k)) BY <1>1, Dropping
  <2>2. \A i \in DOMAIN Dropped(p, k) : Dropped(p, k)[i] = p[k + i] /\ k + i \in DOMAIN p
    BY <1>1 DEF Dropped
  <2> QED BY <2>1, <2>2 DEF Pieces
<1>3. Later(p, 0) = Concat(p) /\ Later(p, Len(p)) = <<>>
  BY <1>1, Dropping, ConcatFew DEF Later
<1>4. ASSUME NEW k \in 0 .. Len(p) PROVE IsSequence(Later(p, k))
  BY <1>2, PiecesJoin DEF Later
<1>5. ASSUME NEW k \in 0 .. Len(p), k # Len(p)
      PROVE  IsSequence(p[k + 1]) /\ Later(p, k) = p[k + 1] \o Later(p, k + 1)
  <2>1. k + 1 \in 0 .. Len(p) /\ k + 1 \in DOMAIN p
    <3> DEFINE N == Len(p)
    <3>1. N \in Nat /\ DOMAIN p = 1 .. N /\ k \in 0 .. N /\ k # N BY <1>1, <1>5
    <3> HIDE DEF N
    <3>2. k + 1 \in 0 .. N /\ k + 1 \in 1 .. N BY <3>1
    <3> QED BY <3>1, <3>2 DEF N
  <2>2. IsSequence(p[k + 1]) BY <2>1 DEF Pieces
  <2> DEFINE a == <<p[k + 1]>>
             b == Dropped(p, k + 1)
  <2>3. Pieces(b) BY <1>2, <2>1
  <2>4. Pieces(a) BY <2>2 DEF Pieces, IsSequence
  <2>5. Dropped(p, k) = a \o b BY <1>1, <1>5, Dropping
  <2>6. Concat(a) = p[k + 1] BY <2>2, ConcatFew
  <2> HIDE DEF a, b
  <2>7. Concat(a \o b) = Concat(a) \o Concat(b) BY <2>3, <2>4, PiecesJoin
  <2>8. Later(p, k) = Concat(a) \o Concat(b) BY <2>5, <2>7 DEF Later
  <2>9. Later(p, k + 1) = Concat(b) BY DEF Later, b
  <2> QED BY <2>2, <2>6, <2>8, <2>9
<1> QED BY <1>3, <1>4, <1>5

\* The next element of what is read piece by piece: within a piece,
LEMMA NextWithin ==
    ASSUME NEW x, NEW now, NEW later, IsSequence(now), IsSequence(later),
           NEW s, s = (<<x>> \o now) \o later
    PROVE  /\ IsSequence(now \o later)
           /\ s # <<>> /\ Head(s) = x /\ Tail(s) = now \o later
<1> DEFINE a == <<x>>
<1>1. IsSequence(<<>>) BY DEF IsSequence
<1>2. IsSequence(a) BY <1>1, HeadOfJoin
<1> HIDE DEF a
<1>3. IsSequence(now \o later) BY JoinsAnyhow
<1>4. (a \o now) \o later = a \o (now \o later) BY <1>2, JoinsAnyhow
<1>5. s = <<x>> \o (now \o later) BY <1>4 DEF a
<1> QED BY <1>3, <1>5, HeadOfJoin

\* and where one begins.
LEMMA NextPiece ==
    ASSUME NEW p, Pieces(p), NEW k \in 0 .. Len(p), k # Len(p),
           NEW x, NEW now, IsSequence(now), p[k + 1] = <<x>> \o now,
           NEW last, IsSequence(last)
    PROVE  /\ IsSequence(Later(p, k + 1) \o last)
           /\ Later(p, k) \o last = (<<x>> \o now) \o (Later(p, k + 1) \o last)
<1> DEFINE a == <<x>>
           later == Later(p, k + 1)
<1>1. IsSequence(p) /\ Len(p) \in Nat BY DEF Pieces, IsSequence
<1>2. k + 1 \in 0 .. Len(p) BY <1>1
<1>3. IsSequence(later) BY <1>2, LaterUnrolls
<1>4. Later(p, k) = (a \o now) \o later BY LaterUnrolls
<1>5. IsSequence(a) BY DEF IsSequence
<1> HIDE DEF a, later
<1>6. IsSequence(a \o now) /\ IsSequence(later \o last) BY <1>3, <1>5, JoinsAnyhow
<1> DEFINE b == a \o now
<1>7. IsSequence(b) BY <1>6
<1> HIDE DEF b
<1>8. (b \o later) \o last = b \o (later \o last) BY <1>3, <1>7, JoinsAnyhow
<1>9. Later(p, k) \o last = b \o (later \o last) BY <1>4, <1>8 DEF b
<1> QED BY <1>6, <1>9 DEF a, b, later

\* What one block says.
Spoken(block) == IF block.type = "text" THEN block.text ELSE <<>>
Asked(block) == IF block.type = "tool" THEN <<block>> ELSE <<>>
Called(block) ==
    IF block.type = "tool"
    THEN << [id |-> block.id, name |-> block.name, arguments |-> block.arguments] >> ELSE <<>>

LEMMA OneBlock ==
    ASSUME NEW b, b.type = "text" => IsSequence(b.text)
    PROVE  /\ WordedBlocks(<<b>>)
           /\ TextOf(<<b>>) = Spoken(b) /\ ToolsOf(<<b>>) = Asked(b) /\ GeminiCalls(<<b>>) = Called(b)
<1>1. IsSequence(<<>>) /\ \A x : IsSequence(<<x>>) BY DEF IsSequence
<1>2. IsSequence(Spoken(b)) /\ IsSequence(Asked(b)) BY <1>1 DEF Spoken, Asked
<1>3. WordedBlocks(<<b>>)
  <2>1. IsSequence(<<b>>) BY <1>1
  <2>2. \A i \in DOMAIN <<b>> : <<b>>[i] = b OBVIOUS
  <2> QED BY <2>1, <2>2 DEF WordedBlocks
<1>4. TextOf(<<b>>) = Concat(<<Spoken(b)>>) /\ ToolsOf(<<b>>) = Concat(<<Asked(b)>>)
  <2>1. [i \in DOMAIN <<b>> |-> IF <<b>>[i].type = "text" THEN <<b>>[i].text ELSE <<>>]
          = <<IF b.type = "text" THEN b.text ELSE <<>> >>
    OBVIOUS
  <2>2. [i \in DOMAIN <<b>> |-> IF <<b>>[i].type = "tool" THEN <<(<<b>>[i])>> ELSE <<>>]
          = <<IF b.type = "tool" THEN <<b>> ELSE <<>> >>
    OBVIOUS
  <2> QED BY <2>1, <2>2 DEF TextOf, ToolsOf, Spoken, Asked
<1>5. TextOf(<<b>>) = Spoken(b) /\ ToolsOf(<<b>>) = Asked(b) BY <1>2, <1>4, ConcatFew
<1>6. GeminiCalls(<<b>>) = Called(b)
  <2> DEFINE tools == ToolsOf(<<b>>)
  <2>1. GeminiCalls(<<b>>) = [i \in DOMAIN tools |->
          [id |-> tools[i].id, name |-> tools[i].name, arguments |-> tools[i].arguments]]
    BY DEF GeminiCalls
  <2>2. tools = Asked(b) BY <1>5
  <2> HIDE DEF tools
  <2>3. CASE b.type = "tool" BY <2>1, <2>2, <2>3 DEF Asked, Called
  <2>4. CASE b.type # "tool" BY <2>1, <2>2, <2>4 DEF Asked, Called
  <2> QED BY <2>3, <2>4
<1> QED BY <1>3, <1>5, <1>6

\* What one block more says.
LEMMA BlocksGrow ==
    ASSUME NEW bs, WordedBlocks(bs), NEW n \in 1 .. Len(bs)
    PROVE  LET front == Initial(bs, n - 1)
               more == Initial(bs, n)
           IN /\ more = front \o <<bs[n]>>
              /\ WordedBlocks(front) /\ WordedBlocks(more)
              /\ TextOf(more) = TextOf(front) \o Spoken(bs[n])
              /\ ToolsOf(more) = ToolsOf(front) \o Asked(bs[n])
              /\ GeminiCalls(more) = GeminiCalls(front) \o Called(bs[n])
              /\ IsSequence(TextOf(front)) /\ IsSequence(GeminiCalls(front))
              /\ IsSequence(ToolsOf(front))
<1> DEFINE front == Initial(bs, n - 1)
           b == bs[n]
           N == Len(bs)
<1>1. IsSequence(bs) /\ N \in Nat /\ DOMAIN bs = 1 .. N /\ n \in 1 .. N
        /\ \A i \in 1 .. N : bs[i].type = "text" => IsSequence(bs[i].text)
  BY DEF WordedBlocks, IsSequence
<1>2. Initial(bs, n) = front \o <<b>> BY <1>1, Initials
<1>3. b.type = "text" => IsSequence(b.text) BY <1>1
<1>4. WordedBlocks(front)
  <2> HIDE DEF N
  <2>1. n - 1 \in Nat /\ \A i \in 1 .. n - 1 : i \in 1 .. N BY <1>1
  <2>2. IsSequence(front) BY <2>1 DEF Initial, IsSequence
  <2>3. \A i \in DOMAIN front : front[i] = bs[i] /\ i \in 1 .. N BY <2>1 DEF Initial
  <2> HIDE DEF front
  <2> QED BY <1>1, <2>2, <2>3 DEF WordedBlocks
<1> HIDE DEF front, b
<1>5. /\ WordedBlocks(<<b>>) /\ TextOf(<<b>>) = Spoken(b)
      /\ ToolsOf(<<b>>) = Asked(b) /\ GeminiCalls(<<b>>) = Called(b)
  BY <1>3, OneBlock
<1>6. WordedBlocks(front \o <<b>>) BY <1>4, <1>5, WordedJoin
<1> QED BY <1>2, <1>4, <1>5, <1>6, BlocksJoin DEF front, b

\* The calls among the blocks are those blocks that are calls.
LEMMA ToolsAreBlocks ==
    ASSUME NEW bs, WordedBlocks(bs)
    PROVE  /\ \A n \in 0 .. Len(bs) : \A i \in DOMAIN ToolsOf(Initial(bs, n)) :
                \E k \in 1 .. n : bs[k] = ToolsOf(Initial(bs, n))[i] /\ bs[k].type = "tool"
           /\ \A n \in 0 .. Len(bs) : \A k \in 1 .. n :
                bs[k].type = "tool" =>
                    \E i \in DOMAIN ToolsOf(Initial(bs, n)) : ToolsOf(Initial(bs, n))[i] = bs[k]
<1> DEFINE N == Len(bs)
           T(n) == ToolsOf(Initial(bs, n))
           Right(n) == /\ \A i \in DOMAIN T(n) :
                            \E k \in 1 .. n : bs[k] = T(n)[i] /\ bs[k].type = "tool"
                       /\ \A k \in 1 .. n : bs[k].type = "tool" =>
                            \E i \in DOMAIN T(n) : T(n)[i] = bs[k]
           S == {n \in Nat : n <= N => Right(n)}
<1>1. N \in Nat /\ IsSequence(bs) BY DEF WordedBlocks, IsSequence
<1>2. Initial(bs, 0) = <<>> BY <1>1, Initials
<1>3. ToolsOf(<<>>) = <<>>
  <2>1. ToolsOf(<<>>) = Concat(<<>>) BY DEF ToolsOf
  <2> QED BY <2>1, ConcatFew
<1>4. 0 \in S
  <2>1. T(0) = <<>> BY <1>2, <1>3
  <2>2. Right(0) BY <2>1
  <2> QED BY <2>2
<1>5. ASSUME NEW n \in Nat, n \in S PROVE n + 1 \in S
  <2> SUFFICES ASSUME n + 1 <= N PROVE Right(n + 1)
    <3> HIDE DEF Right
    <3> QED OBVIOUS
  <2> DEFINE b == bs[n + 1]
             s == T(n)
             u == T(n + 1)
  <2>1. Right(n)
    <3> HIDE DEF Right
    <3> QED BY <1>1, <1>5
  <2>2. u = s \o Asked(b) /\ IsSequence(s)
    <3>1. n + 1 \in 1 .. N /\ (n + 1) - 1 = n BY <1>1
    <3> QED BY <3>1, BlocksGrow
  <2>3. /\ \A i \in DOMAIN s : \E k \in 1 .. n : bs[k] = s[i] /\ bs[k].type = "tool"
        /\ \A k \in 1 .. n : bs[k].type = "tool" => \E i \in DOMAIN s : s[i] = bs[k]
    BY <2>1
  <2> HIDE DEF T, Right
  <2>4. CASE b.type # "tool"
    <3>1. Asked(b) = <<>> BY <2>4 DEF Asked
    <3>2. u = s
      <4> HIDE DEF u, s
      <4> QED BY <2>2, <3>1, JoinsAnyhow
    <3>3. Right(n + 1)
      <4>1. \A k \in 1 .. n + 1 : k \in 1 .. n \/ k = n + 1 OBVIOUS
      <4>2. \A k \in 1 .. n : k \in 1 .. n + 1 OBVIOUS
      <4> HIDE DEF s
      <4> QED BY <2>3, <2>4, <3>2, <4>1, <4>2 DEF Right
    <3> QED BY <3>3
  <2>5. CASE b.type = "tool"
    <3>1. Asked(b) = <<b>> BY <2>5 DEF Asked
    <3> HIDE DEF u, s
    <3>2. /\ Len(s) \in Nat /\ DOMAIN s = 1 .. Len(s) /\ DOMAIN u = 1 .. Len(s) + 1
          /\ \A i \in 1 .. Len(s) : u[i] = s[i]
          /\ u[Len(s) + 1] = b
      <4> DEFINE t == <<b>>
      <4>1. IsSequence(t) /\ Len(t) = 1 /\ t[1] = b BY DEF IsSequence
      <4> HIDE DEF t
      <4>2. u = s \o t BY <2>2, <3>1 DEF t
      <4>0. IsSequence(s) /\ IsSequence(t) BY <2>2, <4>1
      <4>3. /\ IsSequence(s \o t)
            /\ Len(s) \in Nat /\ DOMAIN s = 1 .. Len(s)
            /\ Len(s \o t) = Len(s) + Len(t)
            /\ \A i \in 1 .. Len(s) : (s \o t)[i] = s[i]
            /\ \A i \in 1 .. Len(t) : (s \o t)[Len(s) + i] = t[i]
        BY <4>0, Joined
      <4>4. DOMAIN u = 1 .. Len(u) BY <4>2, <4>3 DEF IsSequence
      <4> QED BY <4>1, <4>2, <4>3, <4>4
    <3>3. ASSUME NEW i \in DOMAIN u
          PROVE  \E k \in 1 .. n + 1 : bs[k] = u[i] /\ bs[k].type = "tool"
      <4>1. CASE i = Len(s) + 1 BY <2>5, <3>2, <4>1
      <4>2. CASE i # Len(s) + 1
        <5>1. i \in DOMAIN s /\ u[i] = s[i] BY <3>2, <4>2
        <5>2. PICK k \in 1 .. n : bs[k] = s[i] /\ bs[k].type = "tool" BY <2>3, <5>1
        <5>3. k \in 1 .. n + 1 OBVIOUS
        <5> QED BY <5>1, <5>2, <5>3
      <4> QED BY <4>1, <4>2
    <3>4. ASSUME NEW k \in 1 .. n + 1, bs[k].type = "tool"
          PROVE  \E i \in DOMAIN u : u[i] = bs[k]
      <4>1. CASE k = n + 1 BY <3>2, <4>1 DEF b
      <4>2. CASE k # n + 1
        <5>1. k \in 1 .. n BY <4>2
        <5>2. PICK i \in DOMAIN s : s[i] = bs[k] BY <2>3, <3>4, <5>1
        <5>3. i \in DOMAIN u /\ u[i] = s[i] BY <3>2, <5>2
        <5> QED BY <5>2, <5>3
      <4> QED BY <4>1, <4>2
    <3> QED BY <3>3, <3>4 DEF Right, u
  <2> QED BY <2>4, <2>5
<1>6. Nat \subseteq S
  <2> HIDE DEF S
  <2> QED BY <1>4, <1>5, Induction
<1> QED BY <1>1, <1>6

\* What a step that ends a stream comes to, and an outcome that is a success.
Verdict(step) == IF step.end = Returned THEN Last(step.events).outcome ELSE step.end
Succeeds(outcome) == ~ IsError(outcome) /\ outcome.arm = "Succeeded"

\* Two successes that the runtime seals alike: with the same content, and if it
\* calls tools with native turns that say the same.
Artifacts(a, b) ==
    \E target, codec, one, other :
        /\ a = [target |-> target, codec |-> codec, blocks |-> one]
        /\ b = [target |-> target, codec |-> codec, blocks |-> other]
        /\ Says(one) = Says(other)
SameTurn(streamed, whole) ==
    \E content, meta, a, b :
        /\ streamed = Success(content, a, meta) /\ whole = Success(content, b, meta)
        /\ content.tools # <<>> => Artifacts(a, b)

\* The verdict of a stream is the verdict on the whole answer, or the same but for
\* how its native turn is cut, or another failure with the same meaning, or one that
\* only a stream tells.
Agreeing(row, answer, streamed, whole) ==
    \/ streamed = whole
    \/ SameTurn(streamed, whole)
    \/ ~ Succeeds(streamed) /\ ~ Succeeds(whole) /\ Meaning(streamed) = Meaning(whole)
    \/ ~ Succeeds(streamed) /\ ToldFirst(row, answer, Meaning(streamed))

LEMMA Verdicts ==
    ASSUME NEW state, NEW outcome
    PROVE  /\ Sound(outcome) =>
                /\ Conclusion(state, outcome).end # Open
                /\ Verdict(Conclusion(state, outcome)) = outcome
           /\ LET last == Returns(state, <<Terminal(outcome)>>) IN
                last.end # Open /\ Verdict(last) = outcome
           /\ \A code : LET raised == Raises(state, Defect(code)) IN
                raised.end # Open /\ Verdict(raised) = Defect(code)
           /\ \A events_ : Goes(state, events_).end = Open /\ Goes(state, events_).state = state
<1>1. Returned # Open BY DEF Returned, Open
<1>2. \A code : Defect(code) # Open /\ Defect(code) # Returned
  BY DEF Defect, Open, Returned
<1>3. ASSUME NEW code
      PROVE  LET raised == Raises(state, Defect(code)) IN
             raised.end # Open /\ Verdict(raised) = Defect(code)
  BY <1>2 DEF Raises, Verdict
<1>4. Last(<<Terminal(outcome)>>).outcome = outcome BY DEF Last, Terminal
<1>5. LET last == Returns(state, <<Terminal(outcome)>>) IN
      last.end # Open /\ Verdict(last) = outcome
  BY <1>1, <1>4 DEF Returns, Verdict
<1>6. Last(Closing(outcome)).outcome = outcome BY <1>4 DEF Closing, Last, Terminal
<1>7. ASSUME Sound(outcome)
      PROVE  /\ Conclusion(state, outcome).end # Open
             /\ Verdict(Conclusion(state, outcome)) = outcome
  <2>1. CASE IsError(outcome) BY <1>3, <1>7, <2>1 DEF Conclusion, Sound
  <2>2. CASE ~ IsError(outcome) BY <1>1, <1>6, <2>2 DEF Conclusion, Returns, Verdict
  <2> QED BY <2>1, <2>2
<1>8. \A events_ : Goes(state, events_).end = Open /\ Goes(state, events_).state = state
  BY DEF Goes
<1> QED BY <1>3, <1>5, <1>7, <1>8

----------------------------------------------------------------------------
\* The Responses stream. The frames of an item, between its first and its last.
ItemBody(item) ==
    LET Deltas(type, text) ==
            [i \in DOMAIN text |-> [type |-> type, id |-> item.id, text |-> <<text[i]>>]]
    IN CASE item.type = "text" -> Deltas("text_delta", item.text)
         [] item.type = "tool" -> Deltas("arguments_delta", item.arguments)
         [] item.type = "refusal" -> <<[type |-> "refusal_delta"]>>
         [] OTHER -> <<>>
ItemAdded(item) == [type |-> "item_added", item |-> item]
ItemDone(item) == [type |-> "item_done", item |-> item]
ItemsFrames(items) == [i \in DOMAIN items |-> ResponsesItemFrames(items[i])]
LastFrame(answer, row) ==
    [type |-> ResponsesResponse(answer, row).status, response |-> ResponsesResponse(answer, row)]

\* The decoder has read these items.
HasItems(state, items) ==
    /\ {"text", "refused", "items", "open", "tools", "semantic"} \subseteq DOMAIN state
    /\ state.items = items
    /\ state.tools = GeminiCalls(items)
    /\ \A i \in DOMAIN ToolsOf(items) : IsObject(ToolsOf(items)[i].arguments)
HasRead(state, items) ==
    /\ HasItems(state, items)
    /\ state.text = TextOf(items)
    /\ state.refused <=> ResponsesRefuses(items)

\* Within an item, after some frames of its body.
HasBegun(state, items, item, n) ==
    /\ HasItems(state, items)
    /\ state.text = TextOf(items) \o (IF item.type = "text" THEN Initial(item.text, n) ELSE <<>>)
    /\ ResponsesRefuses(items) => state.refused
    /\ state.refused => ResponsesRefuses(items) \/ item.type = "refusal"

\* The decoder stands where so much of an item is still to come; the frames that are
\* still to come.
ResponsesPlace(state, bs, k, part) ==
    \/ part \in {<<>>, << [type |-> "created"] >>} /\ HasRead(state, Initial(bs, k))
    \/ /\ k > 0
       /\ \E n \in 0 .. Len(ItemBody(bs[k])) :
            /\ part = Dropped(ItemBody(bs[k]), n) \o <<ItemDone(bs[k])>>
            /\ HasBegun(state, Initial(bs, k - 1), bs[k], n)
ResponsesRest(answer, row, k) == Later(ItemsFrames(answer.blocks), k) \o <<LastFrame(answer, row)>>
ResponsesAt(state, frames, answer, row) ==
    \E k \in 0 .. Len(answer.blocks) : \E part :
        /\ IsSequence(part) /\ frames = part \o ResponsesRest(answer, row, k)
        /\ ResponsesPlace(state, answer.blocks, k, part)

LEMMA ItemFramesAre ==
    ASSUME NEW item, item.type \in BlockTypes("openai_responses"),
           item.type = "text" => IsSequence(item.text),
           item.type = "tool" => IsSequence(item.arguments)
    PROVE  /\ IsSequence(ItemBody(item))
           /\ ResponsesItemFrames(item) = <<ItemAdded(item)>> \o (ItemBody(item) \o <<ItemDone(item)>>)
           /\ item.type = "text" =>
                /\ Len(ItemBody(item)) = Len(item.text)
                /\ \A n \in 1 .. Len(item.text) :
                     /\ ItemBody(item)[n].type = "text_delta"
                     /\ ItemBody(item)[n].text = <<item.text[n]>>
           /\ item.type = "tool" =>
                \A n \in 1 .. Len(ItemBody(item)) : ItemBody(item)[n].type = "arguments_delta"
           /\ item.type = "refusal" =>
                \A n \in 1 .. Len(ItemBody(item)) : ItemBody(item)[n].type = "refusal_delta"
           /\ item.type = "thinking" => Len(ItemBody(item)) = 0
<1> DEFINE Deltas(type, text) ==
               [i \in DOMAIN text |-> [type |-> type, id |-> item.id, text |-> <<text[i]>>]]
           refusal == << [type |-> "refusal_delta"] >>
           body == ItemBody(item)
<1>1. item.type \in {"text", "tool", "thinking", "refusal"} BY DEF BlockTypes
<1>2. ASSUME NEW type, NEW text, IsSequence(text)
      PROVE  /\ IsSequence(Deltas(type, text)) /\ Len(Deltas(type, text)) = Len(text)
             /\ \A n \in 1 .. Len(text) : /\ Deltas(type, text)[n].type = type
                                          /\ Deltas(type, text)[n].text = <<text[n]>>
  <2> DEFINE d == Deltas(type, text)
  <2>1. MadeOf(d, text) BY DEF MadeOf
  <2>2. \A n \in DOMAIN text : d[n].type = type /\ d[n].text = <<text[n]>> OBVIOUS
  <2>3. DOMAIN text = 1 .. Len(text) BY <1>2 DEF IsSequence
  <2> HIDE DEF d
  <2>4. IsSequence(d) /\ Len(d) = Len(text) BY <1>2, <2>1, MadeIsSequence
  <2>5. \A n \in 1 .. Len(text) : d[n].type = type /\ d[n].text = <<text[n]>> BY <2>2, <2>3
  <2> QED BY <2>4, <2>5 DEF d
<1>3. body = CASE item.type = "text" -> Deltas("text_delta", item.text)
               [] item.type = "tool" -> Deltas("arguments_delta", item.arguments)
               [] item.type = "refusal" -> refusal
               [] OTHER -> <<>>
  BY DEF ItemBody
<1>4. IsSequence(refusal) /\ Len(refusal) = 1 /\ refusal[1].type = "refusal_delta"
  BY DEF IsSequence
<1>5. IsSequence(<<>>) /\ Len(<<>>) = 0 BY DEF IsSequence
<1>6. ResponsesItemFrames(item) = <<ItemAdded(item)>> \o body \o <<ItemDone(item)>>
  BY DEF ResponsesItemFrames, ItemBody, ItemAdded, ItemDone
<1>11. IsSequence(<<ItemAdded(item)>>) /\ IsSequence(<<ItemDone(item)>>)
  BY <1>5, HeadOfJoin
<1> HIDE DEF body, refusal, Deltas
<1>12. IsSequence(body) =>
         ResponsesItemFrames(item) = <<ItemAdded(item)>> \o (body \o <<ItemDone(item)>>)
  <2> DEFINE first == <<ItemAdded(item)>>
             last == <<ItemDone(item)>>
  <2>1. IsSequence(first) /\ IsSequence(last) BY <1>11
  <2>2. ResponsesItemFrames(item) = first \o body \o last BY <1>6
  <2> HIDE DEF first, last
  <2>3. IsSequence(body) => ResponsesItemFrames(item) = first \o (body \o last)
    BY <2>1, <2>2, JoinsAnyhow
  <2> QED BY <2>3 DEF first, last
<1>7. CASE item.type = "text"
  <2>1. body = Deltas("text_delta", item.text) BY <1>3, <1>7
  <2>2. IsSequence(body) /\ Len(body) = Len(item.text) /\
          \A n \in 1 .. Len(item.text) : body[n].type = "text_delta" /\ body[n].text = <<item.text[n]>>
    BY <1>2, <1>7, <2>1
  <2> QED BY <1>12, <1>7, <2>2 DEF body
<1>8. CASE item.type = "tool"
  <2>1. body = Deltas("arguments_delta", item.arguments) BY <1>3, <1>8
  <2>2. IsSequence(body) /\ \A n \in 1 .. Len(body) : body[n].type = "arguments_delta"
    BY <1>2, <1>8, <2>1
  <2> QED BY <1>12, <1>8, <2>2 DEF body
<1>9. CASE item.type = "refusal"
  <2>1. body = refusal BY <1>3, <1>9
  <2>2. IsSequence(body) /\ \A n \in 1 .. Len(body) : body[n].type = "refusal_delta"
    BY <1>4, <2>1
  <2> QED BY <1>12, <1>9, <2>2 DEF body
<1>10. CASE item.type = "thinking"
  <2>1. IsSequence(body) /\ Len(body) = 0 BY <1>3, <1>5, <1>10
  <2> QED BY <1>12, <1>10, <2>1 DEF body
<1> QED BY <1>1, <1>7, <1>8, <1>9, <1>10

\* One item more: a refusal, or not.
LEMMA RefusesMore ==
    ASSUME NEW items, IsSequence(items), NEW item
    PROVE  ResponsesRefuses(items \o <<item>>) <=> ResponsesRefuses(items) \/ item.type = "refusal"
<1> DEFINE one == <<item>>
           u == items \o one
<1>1. IsSequence(one) /\ Len(one) = 1 /\ one[1] = item BY DEF IsSequence
<1> HIDE DEF one
<1>2. /\ IsSequence(u)
      /\ Len(items) \in Nat /\ DOMAIN items = 1 .. Len(items)
      /\ Len(u) = Len(items) + Len(one)
      /\ \A i \in 1 .. Len(items) : u[i] = items[i]
      /\ \A i \in 1 .. Len(one) : u[Len(items) + i] = one[i]
  BY <1>1, Joined
<1> HIDE DEF u
<1>3. DOMAIN u = 1 .. Len(items) + 1 /\ u[Len(items) + 1] = item
  BY <1>1, <1>2 DEF IsSequence
<1>4. \A s : ResponsesRefuses(s) <=> \E i \in DOMAIN s : s[i].type = "refusal"
  BY DEF ResponsesRefuses, ToSet
<1>5. (\E i \in DOMAIN u : u[i].type = "refusal")
        <=> (\E i \in DOMAIN items : items[i].type = "refusal") \/ item.type = "refusal"
  <2>1. ASSUME NEW i \in DOMAIN u, u[i].type = "refusal"
        PROVE  (\E j \in DOMAIN items : items[j].type = "refusal") \/ item.type = "refusal"
    <3>1. CASE i = Len(items) + 1 BY <1>3, <2>1, <3>1
    <3>2. CASE i # Len(items) + 1 BY <1>2, <1>3, <2>1, <3>2
    <3> QED BY <3>1, <3>2
  <2>2. ASSUME NEW i \in DOMAIN items, items[i].type = "refusal"
        PROVE  \E j \in DOMAIN u : u[j].type = "refusal"
    BY <1>2, <1>3, <2>2
  <2>3. ASSUME item.type = "refusal" PROVE \E j \in DOMAIN u : u[j].type = "refusal"
    <3>1. Len(items) + 1 \in DOMAIN u BY <1>2, <1>3
    <3> QED BY <1>3, <2>3, <3>1
  <2> QED BY <2>1, <2>2, <2>3
<1> QED BY <1>4, <1>5 DEF u, one

\* An item begins.
LEMMA ItemBegins ==
    ASSUME NEW state, NEW items, NEW item, HasRead(state, items), IsSequence(TextOf(items)),
           NEW row, NEW intent
    PROVE  LET step == ResponsesFrame(state, ItemAdded(item), row, intent) IN
           step.end = Open /\ HasBegun(step.state, items, item, 0)
<1> DEFINE frame == ItemAdded(item)
           step == ResponsesFrame(state, frame, row, intent)
           fresh == [state EXCEPT !.open = [k \in DOMAIN @ \cup {frame.item.id} |->
                                             IF k = frame.item.id THEN <<>> ELSE @[k]]]
<1>1. frame.type = "item_added" /\ frame.item = item BY DEF ItemAdded
<1>2. step = ResponsesItemAdded(state, frame) BY <1>1 DEF ResponsesFrame
<1>3. /\ TextOf(items) \o <<>> = TextOf(items)
      /\ TextOf(items) \o Initial(item.text, 0) = TextOf(items)
  <2>1. Initial(item.text, 0) = <<>> BY DEF Initial
  <2> QED BY <2>1, JoinsAnyhow
<1> HIDE DEF frame, step
<1>4. CASE item.type # "tool"
  <2>1. step.end = Open /\ step.state = state
    BY <1>1, <1>2, <1>4, Verdicts DEF ResponsesItemAdded
  <2> QED BY <1>3, <2>1 DEF HasRead, HasBegun, frame, step
<1>5. CASE item.type = "tool"
  <2> DEFINE last == [fresh EXCEPT !.semantic = TRUE]
  <2>0. ResponsesItemAdded(state, frame) = ResponsesSemantic(fresh, ToolStart(frame.item))
    BY <1>1, <1>5 DEF ResponsesItemAdded
  <2>1. step.end = Open /\ step.state = last
    <3> HIDE DEF fresh
    <3>1. step = Goes(last, <<ToolStart(frame.item)>>) BY <1>2, <2>0 DEF ResponsesSemantic
    <3> HIDE DEF last
    <3> QED BY <3>1 DEF Goes
  <2>2. /\ DOMAIN last = DOMAIN state
        /\ \A f \in DOMAIN state : f \notin {"open", "semantic"} => last[f] = state[f]
    OBVIOUS
  <2> HIDE DEF last, fresh
  <2>3. HasBegun(last, items, item, 0) BY <1>3, <2>2 DEF HasRead, HasItems, HasBegun
  <2> QED BY <2>1, <2>3 DEF frame, step
<1> QED BY <1>4, <1>5

\* One frame more of an item's body.
LEMMA ItemGoesOn ==
    ASSUME NEW state, NEW items, NEW item, NEW n \in 0 .. Len(ItemBody(item)),
           n # Len(ItemBody(item)),
           item.type \in BlockTypes("openai_responses"),
           item.type = "text" => IsSequence(item.text),
           item.type = "tool" => IsSequence(item.arguments),
           HasBegun(state, items, item, n), IsSequence(TextOf(items)),
           NEW row, NEW intent
    PROVE  LET step == ResponsesFrame(state, ItemBody(item)[n + 1], row, intent) IN
           step.end = Open /\ HasBegun(step.state, items, item, n + 1)
<1> DEFINE frame == ItemBody(item)[n + 1]
           step == ResponsesFrame(state, frame, row, intent)
           N == Len(ItemBody(item))
<1>1. item.type \in {"text", "tool", "thinking", "refusal"} BY DEF BlockTypes
<1>2. N \in Nat /\ n \in Nat /\ n + 1 \in 1 .. N
  <2>1. IsSequence(ItemBody(item)) BY ItemFramesAre
  <2>2. N \in Nat BY <2>1 DEF IsSequence
  <2> QED BY <2>2
<1> HIDE DEF frame, step
<1>3. CASE item.type = "text"
  <2> DEFINE text == item.text
             more == [state EXCEPT !.text = @ \o frame.text]
             last == [more EXCEPT !.semantic = TRUE]
             shown == TextOf(items)
  <2>1. /\ N = Len(text) /\ IsSequence(text)
        /\ frame.type = "text_delta" /\ frame.text = <<text[n + 1]>>
    BY <1>2, <1>3, ItemFramesAre DEF frame
  <2>2. frame.text # <<>> BY <2>1
  <2>3. step.end = Open /\ step.state = last
    <3>1. step = ResponsesSemantic(more, TextDelta(frame.text))
      BY <2>1, <2>2 DEF ResponsesFrame, step
    <3> HIDE DEF more
    <3>2. step = Goes(last, <<TextDelta(frame.text)>>) BY <3>1 DEF ResponsesSemantic
    <3> HIDE DEF last
    <3> QED BY <3>2 DEF Goes
  <2>4. /\ "text" \in DOMAIN state => last.text = state.text \o frame.text
        /\ DOMAIN last = DOMAIN state
        /\ \A f \in DOMAIN state : f \notin {"text", "semantic"} => last[f] = state[f]
    OBVIOUS
  <2> HIDE DEF last, more
  <2>5. Initial(text, n + 1) = Initial(text, n) \o <<text[n + 1]>>
    <3>1. (n + 1) - 1 = n BY <1>2
    <3> QED BY <1>2, <2>1, <3>1, Initials
  <2>6. IsSequence(Initial(text, n)) /\ IsSequence(<<text[n + 1]>>)
    <3>1. IsSequence(<<text[n + 1]>>) BY DEF IsSequence
    <3>2. IsSequence(Initial(text, n)) BY SMTT(30), <1>2 DEF Initial, IsSequence
    <3> QED BY <3>1, <3>2
  <2>7. state.text = shown \o Initial(text, n) BY <1>3 DEF HasBegun
  <2>8. last.text = shown \o Initial(text, n + 1)
    <3> DEFINE a == Initial(text, n)
               b == <<text[n + 1]>>
    <3>1. IsSequence(a) /\ IsSequence(b) /\ IsSequence(shown) BY <2>6
    <3>2. last.text = (shown \o a) \o b BY <2>1, <2>4, <2>7 DEF HasBegun, HasItems
    <3>3. Initial(text, n + 1) = a \o b BY <2>5
    <3> HIDE DEF a, b, shown
    <3>4. (shown \o a) \o b = shown \o (a \o b) BY <3>1, JoinsAnyhow
    <3> QED BY <3>2, <3>3, <3>4
  <2>9. HasBegun(last, items, item, n + 1)
    BY <1>3, <2>4, <2>8 DEF HasBegun, HasItems
  <2> QED BY <2>3, <2>9 DEF step, frame
<1>4. CASE item.type = "tool"
  <2>1. frame.type = "arguments_delta" BY <1>2, <1>4, ItemFramesAre DEF frame
  <2> DEFINE more == [state EXCEPT !.open[frame.id] = @ \o frame.text]
             last == [more EXCEPT !.semantic = TRUE]
  <2>2. step.end = Open /\ step.state \in {state, last}
    <3>1. step = ResponsesArgumentsDelta(state, frame) BY <2>1 DEF ResponsesFrame, step
    <3>2. \/ step = Goes(state, <<>>)
          \/ step = ResponsesSemantic(more, ToolDelta(frame.id, frame.text))
      BY <3>1 DEF ResponsesArgumentsDelta
    <3> HIDE DEF more
    <3>3. \/ step = Goes(state, <<>>)
          \/ step = Goes(last, <<ToolDelta(frame.id, frame.text)>>)
      BY <3>2 DEF ResponsesSemantic
    <3> HIDE DEF last
    <3> QED BY <3>3 DEF Goes
  <2>3. /\ DOMAIN last = DOMAIN state
        /\ \A f \in DOMAIN state : f \notin {"open", "semantic"} => last[f] = state[f]
    OBVIOUS
  <2> HIDE DEF last, more
  <2>4. HasBegun(state, items, item, n + 1) BY <1>4 DEF HasBegun
  <2>5. HasBegun(last, items, item, n + 1) BY <2>3, <2>4 DEF HasBegun, HasItems
  <2> QED BY <2>2, <2>4, <2>5 DEF step, frame
<1>5. CASE item.type = "refusal"
  <2>1. frame.type = "refusal_delta" BY <1>2, <1>5, ItemFramesAre DEF frame
  <2> DEFINE last == [state EXCEPT !.refused = TRUE]
  <2>2. step.end = Open /\ step.state = last BY <2>1, Verdicts DEF ResponsesFrame, step
  <2>3. /\ DOMAIN last = DOMAIN state /\ ("refused" \in DOMAIN state => last.refused)
        /\ \A f \in DOMAIN state : f # "refused" => last[f] = state[f]
    OBVIOUS
  <2> HIDE DEF last
  <2>4. HasBegun(last, items, item, n + 1) BY <1>5, <2>3 DEF HasBegun, HasItems
  <2> QED BY <2>2, <2>4 DEF step, frame
<1>6. CASE item.type = "thinking"
  <2>1. N = 0 BY <1>6, ItemFramesAre
  <2> QED BY <1>2, <2>1
<1> QED BY <1>1, <1>3, <1>4, <1>5, <1>6

\* An item is done, or it is a call that is broken.
LEMMA ItemEnds ==
    ASSUME NEW bs, WordedBlocks(bs), NEW k \in 1 .. Len(bs), NEW state,
           bs[k].type \in BlockTypes("openai_responses"),
           bs[k].type = "tool" => bs[k].arguments # Absent /\ IsSequence(bs[k].arguments),
           HasBegun(state, Initial(bs, k - 1), bs[k], Len(ItemBody(bs[k]))),
           NEW row, NEW intent
    PROVE  LET step == ResponsesFrame(state, ItemDone(bs[k]), row, intent) IN
           \/ step.end = Open /\ HasRead(step.state, Initial(bs, k))
           \/ /\ step.end # Open
              /\ Verdict(step) = Failure("InvalidToolArguments", ResponsesMeta(row, Absent))
              /\ bs[k].type = "tool" /\ ~ IsObject(bs[k].arguments)
<1> DEFINE items == Initial(bs, k - 1)
           more == Initial(bs, k)
           item == bs[k]
           frame == ItemDone(item)
           step == ResponsesFrame(state, frame, row, intent)
           taken == [state EXCEPT !.items = Append(@, frame.item)]
           fallback == IF frame.item.id \in DOMAIN state.open
                       THEN state.open[frame.item.id] ELSE <<>>
           asked == ResponsesToolCall(frame.item, fallback)
<1>1. frame.type = "item_done" /\ frame.item = item BY DEF ItemDone
<1>2. step = ResponsesItemDone(state, frame, row) BY <1>1 DEF ResponsesFrame
<1>3. /\ item.type \in BlockTypes("openai_responses")
      /\ item.type = "tool" => IsSequence(item.arguments)
  OBVIOUS
<1>4. /\ more = items \o <<item>>
      /\ WordedBlocks(items)
      /\ TextOf(more) = TextOf(items) \o Spoken(item)
      /\ ToolsOf(more) = ToolsOf(items) \o Asked(item)
      /\ GeminiCalls(more) = GeminiCalls(items) \o Called(item)
      /\ IsSequence(TextOf(items)) /\ IsSequence(GeminiCalls(items)) /\ IsSequence(ToolsOf(items))
  BY BlocksGrow
<1>5. item.type = "text" => IsSequence(item.text)
  <2>1. k \in DOMAIN bs BY DEF WordedBlocks, IsSequence
  <2> QED BY <2>1 DEF WordedBlocks
<1>6. HasBegun(state, items, item, Len(ItemBody(item))) OBVIOUS
<1>7. ResponsesRefuses(more) <=> ResponsesRefuses(items) \/ item.type = "refusal"
  <2>1. IsSequence(items) BY <1>4 DEF WordedBlocks
  <2> QED BY <1>4, <2>1, RefusesMore
<1>8. frame.item = item BY <1>1
<1> HIDE DEF items, more, item, frame, step
<1>9. IsSequence(items) BY <1>4 DEF WordedBlocks
<1>10. /\ {"text", "refused", "items", "open", "tools", "semantic"} \subseteq DOMAIN state
       /\ state.items = items /\ state.tools = GeminiCalls(items)
       /\ \A i \in DOMAIN ToolsOf(items) : IsObject(ToolsOf(items)[i].arguments)
  BY <1>6 DEF HasBegun, HasItems
<1>11. \A s, x : IsSequence(s) => Append(s, x) = s \o <<x>>
  <2> TAKE s, x
  <2> HAVE IsSequence(s)
  <2> DEFINE S == {s[i] : i \in DOMAIN s} \cup {x}
  <2>1. s \in Seq(S) /\ x \in S BY DEF IsSequence
  <2> HIDE DEF S
  <2> QED BY <2>1
<1>12. /\ DOMAIN taken = DOMAIN state /\ taken.items = more
       /\ \A f \in DOMAIN state : f # "items" => taken[f] = state[f]
  <2>1. Append(items, item) = more BY <1>4, <1>9, <1>11
  <2> QED BY <1>8, <1>10, <2>1
<1> HIDE DEF taken
<1>13. CASE item.type # "tool"
  <2> DEFINE last == [taken EXCEPT !.refused = @ \/ frame.item.type = "refusal"]
  <2>1. step = Goes(last, <<>>) BY <1>2, <1>8, <1>13 DEF ResponsesItemDone, taken
  <2>2. /\ DOMAIN last = DOMAIN state /\ last.items = more
        /\ last.refused = (state.refused \/ item.type = "refusal")
        /\ \A f \in DOMAIN state : f \notin {"items", "refused"} => last[f] = state[f]
    BY <1>8, <1>10, <1>12
  <2> HIDE DEF last
  <2>3. step.end = Open /\ step.state = last BY <2>1 DEF Goes
  <2>4. Asked(item) = <<>> /\ Called(item) = <<>> BY <1>13 DEF Asked, Called
  <2>5. ToolsOf(more) = ToolsOf(items) /\ GeminiCalls(more) = GeminiCalls(items)
    BY <1>4, <2>4, JoinsAnyhow
  <2>6. last.text = TextOf(more)
    <3>1. CASE item.type = "text"
      <4>1. Len(ItemBody(item)) = Len(item.text) BY <1>5, <1>3, <3>1, ItemFramesAre
      <4>2. Initial(item.text, Len(item.text)) = item.text BY <1>5, <3>1, Initials
      <4>3. state.text = TextOf(items) \o item.text BY <1>6, <3>1, <4>1, <4>2 DEF HasBegun
      <4> QED BY <1>4, <1>10, <2>2, <3>1, <4>3 DEF Spoken
    <3>2. CASE item.type # "text" BY <1>4, <1>6, <1>10, <2>2, <3>2 DEF HasBegun, Spoken
    <3> QED BY <3>1, <3>2
  <2>7. last.refused <=> ResponsesRefuses(more) BY <1>6, <1>7, <2>2 DEF HasBegun
  <2>8. HasRead(last, more) BY <1>10, <2>2, <2>5, <2>6, <2>7 DEF HasRead, HasItems
  <2> QED BY <2>3, <2>8 DEF step, frame, more, item
<1>14. CASE item.type = "tool"
  <2>1. asked = [id |-> item.id, name |-> item.name, arguments |-> item.arguments]
    <3>1. item.arguments # Absent BY <1>14 DEF item
    <3> QED BY <1>8, <3>1 DEF ResponsesToolCall
  <2>2. Called(item) = <<asked>> /\ Asked(item) = <<item>> BY <1>14, <2>1 DEF Asked, Called
  <2>3. CASE ~ IsObject(item.arguments)
    <3> DEFINE failure == Failure("InvalidToolArguments", ResponsesMeta(row, Absent))
    <3>1. step = Returns(taken, <<Terminal(failure)>>)
      BY <1>2, <1>8, <1>14, <2>1, <2>3 DEF ResponsesItemDone, taken
    <3> HIDE DEF failure
    <3>2. step.end # Open /\ Verdict(step) = failure BY <3>1, Verdicts
    <3> QED BY <1>14, <2>3, <3>2 DEF failure, step, frame, item
  <2>4. CASE IsObject(item.arguments)
    <3> DEFINE kept == [taken EXCEPT !.tools = Append(@, asked),
                                     !.open = [i \in DOMAIN @ \ {frame.item.id} |-> @[i]]]
               last == [kept EXCEPT !.semantic = TRUE]
    <3>1. step = ResponsesSemantic(kept, ToolDone(asked))
      BY <1>2, <1>8, <1>14, <2>1, <2>4 DEF ResponsesItemDone, taken
    <3> HIDE DEF asked
    <3>2. /\ DOMAIN last = DOMAIN state /\ last.items = more
          /\ last.tools = Append(state.tools, asked)
          /\ last.refused = state.refused /\ last.text = state.text
      BY <1>10, <1>12
    <3> HIDE DEF kept
    <3>3. step = Goes(last, <<ToolDone(asked)>>) BY <3>1 DEF ResponsesSemantic
    <3> HIDE DEF last
    <3>4. step.end = Open /\ step.state = last BY <3>3 DEF Goes
    <3>5. last.tools = GeminiCalls(more)
      <4>1. IsSequence(state.tools) BY <1>4, <1>10
      <4>2. Append(state.tools, asked) = state.tools \o <<asked>> BY <4>1, <1>11
      <4>3. last.tools = GeminiCalls(items) \o <<asked>> BY <1>10, <3>2, <4>2
      <4> QED BY <1>4, <2>2, <4>3
    <3>6. last.text = TextOf(more)
      <4>1. Spoken(item) = <<>> /\ state.text = TextOf(items) \o <<>>
        BY <1>6, <1>14 DEF HasBegun, Spoken
      <4> QED BY <1>4, <3>2, <4>1
    <3>7. last.refused <=> ResponsesRefuses(more) BY <1>6, <1>7, <1>14, <3>2 DEF HasBegun
    <3>8. \A i \in DOMAIN ToolsOf(more) : IsObject(ToolsOf(more)[i].arguments)
      <4> DEFINE a == ToolsOf(items)
                 b == <<item>>
                 u == a \o b
      <4>1. ToolsOf(more) = u BY <1>4, <2>2
      <4>2. IsSequence(b) /\ Len(b) = 1 /\ b[1] = item BY DEF IsSequence
      <4>3. \A i \in DOMAIN a : IsObject(a[i].arguments) BY <1>10
      <4>4. IsSequence(a) BY <1>4
      <4> HIDE DEF a, b
      <4>0. IsSequence(a) /\ IsSequence(b) BY <4>2, <4>4
      <4>5. /\ IsSequence(u) /\ Len(a) \in Nat /\ DOMAIN a = 1 .. Len(a)
            /\ Len(u) = Len(a) + Len(b)
            /\ \A i \in 1 .. Len(a) : u[i] = a[i]
            /\ \A i \in 1 .. Len(b) : u[Len(a) + i] = b[i]
        BY <4>0, Joined
      <4> HIDE DEF u
      <4>6. DOMAIN u = 1 .. Len(a) + 1 /\ u[Len(a) + 1] = item
        BY <4>2, <4>5 DEF IsSequence
      <4>7. ASSUME NEW i \in DOMAIN u PROVE IsObject(u[i].arguments)
        <5>1. CASE i = Len(a) + 1 BY <2>4, <4>6, <5>1
        <5>2. CASE i # Len(a) + 1 BY <4>3, <4>5, <4>6, <5>2
        <5> QED BY <5>1, <5>2
      <4> QED BY <4>1, <4>7
    <3>9. HasRead(last, more)
      BY <1>10, <3>2, <3>5, <3>6, <3>7, <3>8 DEF HasRead, HasItems
    <3> QED BY <3>4, <3>9 DEF step, frame, more, item
  <2> QED BY <2>3, <2>4
<1> QED BY <1>13, <1>14

\* What the outcomes that are no success say.
LEMMA ShortOutcomes ==
    /\ \A code : /\ ~ Succeeds(Defect(code)) /\ Meaning(Defect(code)) = <<"ProtocolDefect">>
                 /\ IsError(Defect(code))
    /\ \A why, meta : /\ ~ Succeeds(Failure(why, meta))
                      /\ Meaning(Failure(why, meta)) = <<"Failed", why>>
    /\ \A why, meta : /\ ~ Succeeds(Incomplete(why, meta))
                      /\ Meaning(Incomplete(why, meta)) = <<"Incomplete", why>>
    /\ \A meta : /\ ~ Succeeds(Outcome("Refused", "", meta))
                 /\ Meaning(Outcome("Refused", "", meta))
                      = <<"Incomplete", "content_filter_partial">>
<1>1. \A code : /\ ~ Succeeds(Defect(code)) /\ Meaning(Defect(code)) = <<"ProtocolDefect">>
                /\ IsError(Defect(code))
  BY DEF Defect, Succeeds, Meaning, IsError
<1>2. \A arm, detail, meta : /\ ~ IsError(Outcome(arm, detail, meta))
                             /\ Outcome(arm, detail, meta).arm = arm
                             /\ Outcome(arm, detail, meta).detail = detail
  BY DEF Outcome, IsError
<1>3. \A detail, meta : /\ ~ Succeeds(Outcome("Refused", detail, meta))
                        /\ Meaning(Outcome("Refused", detail, meta))
                             = <<"Incomplete", "content_filter_partial">>
  BY <1>2 DEF Succeeds, Meaning
<1>4. \A arm, detail, meta : arm \in {"Failed", "Incomplete"} =>
        /\ ~ Succeeds(Outcome(arm, detail, meta))
        /\ Meaning(Outcome(arm, detail, meta)) = <<arm, detail>>
  BY <1>2 DEF Succeeds, Meaning
<1>5. /\ \A why, meta : Failure(why, meta) = Outcome("Failed", why, meta)
      /\ \A why, meta : Incomplete(why, meta) = Outcome("Incomplete", why, meta)
  BY DEF Failure, Incomplete
<1>6. \A why, meta : /\ ~ Succeeds(Failure(why, meta))
                     /\ Meaning(Failure(why, meta)) = <<"Failed", why>>
  BY <1>4, <1>5
<1>7. \A why, meta : /\ ~ Succeeds(Incomplete(why, meta))
                     /\ Meaning(Incomplete(why, meta)) = <<"Incomplete", why>>
  BY <1>4, <1>5
<1> QED BY <1>1, <1>3, <1>6, <1>7

\* The blocks of an answer.
LEMMA AnswerBlocks ==
    ASSUME NEW answer, NEW engine, AnswerFits(answer, engine)
    PROVE  LET bs == answer.blocks IN
           /\ WordedBlocks(bs) /\ Len(bs) \in Nat /\ DOMAIN bs = 1 .. Len(bs)
           /\ Initial(bs, Len(bs)) = bs
           /\ \A i \in 1 .. Len(bs) :
                /\ KnownBlock(bs[i], engine) /\ bs[i].type \in BlockTypes(engine)
                /\ bs[i].type = "text" => IsSequence(bs[i].text)
                /\ bs[i].type = "tool" => IsSequence(bs[i].arguments) /\ bs[i].arguments # Absent
                /\ bs[i].type = "thinking" => IsSequence(bs[i].signature)
<1> DEFINE bs == answer.blocks
<1>1. IsSequence(bs) BY DEF AnswerFits
<1>2. Len(bs) \in Nat /\ DOMAIN bs = 1 .. Len(bs) BY <1>1 DEF IsSequence
<1>3. \A i \in DOMAIN bs :
        /\ KnownBlock(bs[i], engine) /\ bs[i].type \in BlockTypes(engine)
        /\ bs[i].type = "text" => IsSequence(bs[i].text)
        /\ bs[i].type = "tool" => IsSequence(bs[i].arguments) /\ bs[i].arguments # Absent
        /\ bs[i].type = "thinking" => IsSequence(bs[i].signature)
  BY DEF AnswerFits, KnownBlock
<1> HIDE DEF bs
<1>4. WordedBlocks(bs) BY <1>1, <1>3 DEF WordedBlocks
<1>5. Initial(bs, Len(bs)) = bs BY <1>1, Initials
<1> QED BY <1>2, <1>3, <1>4, <1>5 DEF bs

\* The last frame: what the stream concludes is what is made of the whole answer,
\* but for a refusal that was cut short
\* (openai_responses.py, _decode_response and stream).
LEMMA ResponsesLast ==
    ASSUME NEW answer, AnswerFits(answer, "openai_responses"),
           NEW row, row.model # Absent, row.engine = "openai_responses",
           NEW state, HasRead(state, answer.blocks), NEW intent
    PROVE  LET step == ResponsesFrame(state, LastFrame(answer, row), row, intent)
               whole == ResponsesDecode(row, intent, ResponsesResponse(answer, row))
           IN step.end # Open /\ Agreeing(row, answer, Verdict(step), whole)
<1> DEFINE frame == LastFrame(answer, row)
           response == ResponsesResponse(answer, row)
           bs == answer.blocks
           tools == ToolsOf(bs)
           step == ResponsesFrame(state, frame, row, intent)
           whole == ResponsesDecode(row, intent, response)
           usage == ResponsesUsage(response.usage)
           meta == ResponsesMeta(row, usage)
           incomplete == ResponsesIncomplete(response.reason, meta)
           made == Answer(row, intent, TextOf(bs), GeminiCalls(bs), bs, meta)
           outcome ==
              IF usage # Absent /\ IsError(usage) THEN usage
              ELSE IF frame.type = "incomplete" THEN incomplete
              ELSE IF state.refused THEN Incomplete("content_filter_partial", meta)
              ELSE made
<1>1. /\ response.items = bs /\ response.model = row.model /\ response.reason = answer.finish
      /\ response.status = IF answer.finish \in {"stop", "refusal"} THEN "completed"
                           ELSE "incomplete"
      /\ frame.response = response /\ frame.type = response.status
  BY DEF ResponsesResponse, LastFrame
<1>2. /\ \A i \in DOMAIN tools : IsObject(tools[i].arguments)
      /\ state.items = bs /\ state.tools = GeminiCalls(bs) /\ state.text = TextOf(bs)
      /\ (state.refused <=> ResponsesRefuses(bs))
  BY DEF HasRead, HasItems
<1>3. [i \in DOMAIN tools |-> ResponsesToolCall(tools[i], <<>>)] = GeminiCalls(bs)
  <2>1. \A i \in DOMAIN tools : tools[i].arguments # Absent
    <3>1. /\ WordedBlocks(bs) /\ Len(bs) \in Nat /\ DOMAIN bs = 1 .. Len(bs)
          /\ Initial(bs, Len(bs)) = bs
          /\ \A i \in 1 .. Len(bs) : bs[i].type = "tool" => bs[i].arguments # Absent
      BY AnswerBlocks
    <3> HIDE DEF bs
    <3>4. ASSUME NEW i \in DOMAIN tools PROVE tools[i].arguments # Absent
      <4>1. Len(bs) \in 0 .. Len(bs) BY <3>1
      <4>2. PICK k \in 1 .. Len(bs) : bs[k] = tools[i] /\ bs[k].type = "tool"
        BY <3>1, <4>1, ToolsAreBlocks
      <4> QED BY <3>1, <4>2
    <3> QED BY <3>4
  <2> HIDE DEF tools, bs
  <2>2. \A i \in DOMAIN tools : ResponsesToolCall(tools[i], <<>>)
          = [id |-> tools[i].id, name |-> tools[i].name, arguments |-> tools[i].arguments]
    BY <2>1 DEF ResponsesToolCall
  <2>3. GeminiCalls(bs) = [i \in DOMAIN tools |->
          [id |-> tools[i].id, name |-> tools[i].name, arguments |-> tools[i].arguments]]
    BY DEF GeminiCalls, tools
  <2> QED BY <2>2, <2>3
<1>4. \A item \in ToSet(tools) : IsObject(item.arguments)
  <2> HIDE DEF tools
  <2> QED BY <1>2 DEF ToSet
<1>5. step = Conclusion(state, outcome)
  <2> HIDE DEF response, frame, usage, meta
  <2>1. step = ResponsesTerminal(state, frame, row, intent) BY <1>1 DEF ResponsesFrame
  <2>2. /\ usage = ResponsesUsage(frame.response.usage)
        /\ meta = ResponsesMeta(row, ResponsesUsage(frame.response.usage))
        /\ frame.response.model # Absent
    BY <1>1 DEF usage, meta
  <2> HIDE DEF bs
  <2> QED BY <1>1, <1>2, <2>1, <2>2 DEF ResponsesTerminal, Conclusion
<1>6. whole = IF usage # Absent /\ IsError(usage) THEN usage
              ELSE IF ResponsesRefuses(bs) THEN Outcome("Refused", "", meta)
              ELSE IF frame.type = "incomplete" THEN incomplete
              ELSE made
  <2>1. response.status \in {"completed", "incomplete"} BY <1>1
  <2> HIDE DEF response, frame, bs
  <2> QED BY <1>1, <1>3, <1>4, <2>1 DEF ResponsesDecode, bs
<1>7. usage # Absent /\ IsError(usage) => \E code : usage = Defect(code)
  <2> HIDE DEF response
  <2> QED BY DEF ResponsesUsage, IsError
<1>8. incomplete = CASE answer.finish = "max_tokens" -> Incomplete("max_output_tokens", meta)
                     [] answer.finish = "content_filter" -> Incomplete("content_filter_partial", meta)
                     [] OTHER -> Defect("unknown_incomplete_reason")
  <2> HIDE DEF meta, response
  <2> QED BY <1>1 DEF ResponsesIncomplete
<1>9. Sound(outcome)
  <2>1. usage # Absent /\ IsError(usage) => Sound(usage) BY <1>7, SoundOutcomes
  <2>2. Sound(incomplete)
    <3> HIDE DEF incomplete, meta
    <3> QED BY <1>8, SoundOutcomes
  <2>3. Sound(made) BY SoundOutcomes
  <2> HIDE DEF usage, meta, incomplete, made, frame
  <2> QED BY <2>1, <2>2, <2>3, SoundOutcomes
<1> HIDE DEF outcome, incomplete, made, usage
<1>10. step.end # Open /\ Verdict(step) = outcome
  <2> HIDE DEF step
  <2> QED BY <1>5, <1>9, Verdicts
<1>11. Agreeing(row, answer, outcome, whole)
  <2> HIDE DEF whole, meta, response, step
  <2>1. CASE (usage # Absent /\ IsError(usage)) \/ ~ ResponsesRefuses(bs)
    <3>1. outcome = whole BY <1>2, <1>6, <2>1 DEF outcome
    <3> QED BY <3>1 DEF Agreeing
  <2>2. CASE ~ (usage # Absent /\ IsError(usage)) /\ ResponsesRefuses(bs)
    <3>1. whole = Outcome("Refused", "", meta) BY <1>6, <2>2
    <3>2. CASE frame.type # "incomplete"
      <4>1. outcome = Incomplete("content_filter_partial", meta)
        BY <1>2, <2>2, <3>2 DEF outcome
      <4> QED BY <3>1, <4>1, ShortOutcomes DEF Agreeing
    <3>3. CASE frame.type = "incomplete"
      <4>1. outcome = incomplete /\ answer.finish \notin {"stop", "refusal"}
        BY <1>1, <2>2, <3>3 DEF outcome
      <4>2. CASE answer.finish = "content_filter"
        <5>1. outcome = Incomplete("content_filter_partial", meta) BY <1>8, <4>1, <4>2
        <5> QED BY <3>1, <5>1, ShortOutcomes DEF Agreeing
      <4>3. CASE answer.finish # "content_filter"
        <5>1. outcome \in {Incomplete("max_output_tokens", meta),
                           Defect("unknown_incomplete_reason")}
          BY <1>8, <4>1, <4>3
        <5>2. ~ Succeeds(outcome) /\
                Meaning(outcome) \in {<<"Incomplete", "max_output_tokens">>, <<"ProtocolDefect">>}
          BY <5>1, ShortOutcomes
        <5>3. ToldFirst(row, answer, Meaning(outcome))
          BY <2>2, <4>1, <5>2 DEF ToldFirst
        <5> QED BY <5>2, <5>3 DEF Agreeing
      <4> QED BY <4>2, <4>3
    <3> QED BY <3>2, <3>3
  <2> QED BY <2>1, <2>2
<1> QED BY <1>10, <1>11

\* The frames of the items, one after the other.
LEMMA ItemsUnroll ==
    ASSUME NEW answer, AnswerFits(answer, "openai_responses")
    PROVE  LET bs == answer.blocks
               p == ItemsFrames(bs)
           IN /\ Pieces(p) /\ Len(p) = Len(bs)
              /\ \A k \in 1 .. Len(bs) :
                   /\ IsSequence(ItemBody(bs[k]))
                   /\ p[k] = <<ItemAdded(bs[k])>> \o (ItemBody(bs[k]) \o <<ItemDone(bs[k])>>)
<1> DEFINE bs == answer.blocks
           p == ItemsFrames(bs)
           Frames_(b) == <<ItemAdded(b)>> \o (ItemBody(b) \o <<ItemDone(b)>>)
<1>1. /\ WordedBlocks(bs) /\ Len(bs) \in Nat /\ DOMAIN bs = 1 .. Len(bs)
      /\ \A i \in 1 .. Len(bs) :
           /\ bs[i].type \in BlockTypes("openai_responses")
           /\ bs[i].type = "text" => IsSequence(bs[i].text)
           /\ bs[i].type = "tool" => IsSequence(bs[i].arguments)
  BY AnswerBlocks
<1> HIDE DEF bs
<1>2. IsSequence(bs) BY <1>1 DEF WordedBlocks
<1>3. MadeOf(p, bs) /\ \A k \in DOMAIN bs : p[k] = ResponsesItemFrames(bs[k])
  BY DEF MadeOf, ItemsFrames
<1> HIDE DEF p, Frames_
<1>4. IsSequence(p) /\ Len(p) = Len(bs) BY <1>2, <1>3, MadeIsSequence
<1>5. ASSUME NEW k \in 1 .. Len(bs)
      PROVE  IsSequence(ItemBody(bs[k])) /\ p[k] = Frames_(bs[k]) /\ IsSequence(p[k])
  <2>1. IsSequence(ItemBody(bs[k])) /\ ResponsesItemFrames(bs[k]) = Frames_(bs[k])
    BY <1>1, ItemFramesAre DEF Frames_
  <2>2. IsSequence(Frames_(bs[k]))
    <3> DEFINE done == <<ItemDone(bs[k])>>
               body == ItemBody(bs[k])
    <3>1. IsSequence(done) BY DEF IsSequence
    <3> HIDE DEF done, body
    <3>2. IsSequence(body) BY <2>1 DEF body
    <3>3. IsSequence(body \o done) BY <3>1, <3>2, JoinsAnyhow
    <3>4. IsSequence(<<ItemAdded(bs[k])>> \o (body \o done)) BY <3>3, HeadOfJoin
    <3> QED BY <3>4 DEF Frames_, done, body
  <2> QED BY <1>1, <1>3, <2>1, <2>2
<1>6. Pieces(p)
  <2>1. DOMAIN p = 1 .. Len(bs) BY <1>1, <1>3 DEF MadeOf
  <2> QED BY <1>4, <1>5, <2>1 DEF Pieces
<1> QED BY <1>4, <1>5, <1>6 DEF bs, p, Frames_

\* One frame more: the decoder goes on with the others, or its verdict agrees with
\* the one on the whole answer.
Following(row, intent, answer, step, frames) ==
    \/ step.end = Open /\ ResponsesAt(step.state, frames, answer, row)
    \/ /\ step.end # Open
       /\ Agreeing(row, answer, Verdict(step),
                   ResponsesDecode(row, intent, ResponsesResponse(answer, row)))

LEMMA ResponsesFollows ==
    ASSUME NEW answer, AnswerFits(answer, "openai_responses"),
           NEW row, row.model # Absent, row.engine = "openai_responses",
           NEW state, NEW frames, ResponsesAt(state, frames, answer, row), NEW intent
    PROVE  /\ frames # <<>>
           /\ Following(row, intent, answer, ResponsesFrame(state, Head(frames), row, intent),
                        Tail(frames))
<1> DEFINE bs == answer.blocks
           N == Len(bs)
           p == ItemsFrames(bs)
           last == <<LastFrame(answer, row)>>
           L(i) == ResponsesRest(answer, row, i)
           whole == ResponsesDecode(row, intent, ResponsesResponse(answer, row))
           At(st, fs) == ResponsesAt(st, fs, answer, row)
           step == ResponsesFrame(state, Head(frames), row, intent)
<1>1. /\ WordedBlocks(bs) /\ N \in Nat /\ Initial(bs, N) = bs
      /\ \A i \in 1 .. N :
           /\ bs[i].type \in BlockTypes("openai_responses")
           /\ bs[i].type = "text" => IsSequence(bs[i].text)
           /\ bs[i].type = "tool" => IsSequence(bs[i].arguments) /\ bs[i].arguments # Absent
  BY AnswerBlocks
<1>2. /\ Pieces(p) /\ Len(p) = N
      /\ \A i \in 1 .. N :
           /\ IsSequence(ItemBody(bs[i]))
           /\ p[i] = <<ItemAdded(bs[i])>> \o (ItemBody(bs[i]) \o <<ItemDone(bs[i])>>)
  BY ItemsUnroll
<1>3. PICK k \in 0 .. N :
        \E part : IsSequence(part) /\ frames = part \o L(k) /\ ResponsesPlace(state, bs, k, part)
  BY DEF ResponsesAt
<1>4. PICK part : IsSequence(part) /\ frames = part \o L(k) /\ ResponsesPlace(state, bs, k, part)
  BY <1>3
<1>5. \A i \in 0 .. N : L(i) = Later(p, i) \o last BY DEF ResponsesRest
<1>6. IsSequence(last) BY DEF IsSequence
<1>7. \A st, fs, i, q :
        i \in 0 .. N /\ IsSequence(q) /\ fs = q \o L(i) /\ ResponsesPlace(st, bs, i, q) => At(st, fs)
  BY DEF ResponsesAt
<1>8. \A st, fs : st.end = Open /\ At(st.state, fs) => Following(row, intent, answer, st, fs)
  BY DEF Following
<1>9. \A st, fs : st.end # Open /\ Agreeing(row, answer, Verdict(st), whole)
                 => Following(row, intent, answer, st, fs)
  BY DEF Following
<1>10. IsSequence(<<>>) BY DEF IsSequence
<1> HIDE DEF bs, p, last, At, whole
<1>11. \A i \in 0 .. N : IsSequence(L(i))
  <2> TAKE i \in 0 .. N
  <2>1. IsSequence(Later(p, i)) BY <1>2, LaterUnrolls
  <2>2. L(i) = Later(p, i) \o last BY <1>5
  <2> HIDE DEF L
  <2> QED BY <1>6, <2>1, <2>2, JoinsAnyhow
<1> HIDE DEF L, step
<1>12. CASE part = << [type |-> "created"] >> /\ HasRead(state, Initial(bs, k))
  <2> DEFINE frame == [type |-> "created"]
  <2>1. frames = <<frame>> \o L(k) BY <1>4, <1>12
  <2>2. frame.type = "created" OBVIOUS
  <2> HIDE DEF frame
  <2>3. frames # <<>> /\ Head(frames) = frame /\ Tail(frames) = L(k)
    BY <1>11, <2>1, HeadOfJoin
  <2>4. step = Goes(state, <<>>) BY <2>2, <2>3 DEF ResponsesFrame, step
  <2>5. step.end = Open /\ step.state = state BY <2>4 DEF Goes
  <2>6. ResponsesPlace(state, bs, k, <<>>) BY <1>12 DEF ResponsesPlace
  <2>7. L(k) = <<>> \o L(k) BY <1>11, JoinsAnyhow
  <2>8. At(state, L(k)) BY <1>7, <1>10, <2>6, <2>7
  <2> QED BY <1>8, <2>3, <2>5, <2>8 DEF step
<1>13. CASE part = <<>> /\ HasRead(state, Initial(bs, k)) /\ k = N
  <2> DEFINE frame == LastFrame(answer, row)
  <2>1. frames = <<frame>>
    <3>1. Later(p, N) = <<>> BY <1>2, LaterUnrolls
    <3>6. N \in 0 .. N BY <1>1
    <3>2. L(N) = <<>> \o last BY <1>5, <3>1, <3>6
    <3>3. L(N) = last BY <1>6, <3>2, JoinsAnyhow
    <3>4. frames = <<>> \o last BY <1>4, <1>13, <3>3
    <3>5. frames = last BY <1>6, <3>4, JoinsAnyhow
    <3> QED BY <3>5 DEF last
  <2> HIDE DEF frame
  <2>2. frames # <<>> /\ Head(frames) = frame BY <2>1
  <2>3. HasRead(state, bs) BY <1>1, <1>13
  <2>4. step = ResponsesFrame(state, LastFrame(answer, row), row, intent)
    BY <2>2 DEF step, frame
  <2>5. step.end # Open /\ Agreeing(row, answer, Verdict(step), whole)
    BY <2>3, <2>4, ResponsesLast DEF bs, whole
  <2> QED BY <1>9, <2>2, <2>5 DEF step
<1>14. CASE part = <<>> /\ HasRead(state, Initial(bs, k)) /\ k # N
  <2> DEFINE item == bs[k + 1]
             body == ItemBody(item)
             done == <<ItemDone(item)>>
             added == ItemAdded(item)
             now == body \o done
  <2>1. k + 1 \in 1 .. N /\ k + 1 \in 0 .. N /\ k + 1 > 0 /\ (k + 1) - 1 = k BY <1>1, <1>14
  <2>2. IsSequence(body) /\ p[k + 1] = <<added>> \o now BY <1>2, <2>1
  <2>3. IsSequence(done) BY DEF IsSequence
  <2>4. Later(p, k) = p[k + 1] \o Later(p, k + 1) /\ IsSequence(Later(p, k + 1))
    BY <1>2, <1>14, <2>1, LaterUnrolls
  <2>5. frames = L(k)
    <3>1. frames = <<>> \o L(k) BY <1>4, <1>14
    <3> QED BY <1>11, <3>1, JoinsAnyhow
  <2> HIDE DEF added, body, done
  <2>6. IsSequence(now) BY <2>2, <2>3, JoinsAnyhow
  <2>7. L(k) = ((<<added>> \o now) \o Later(p, k + 1)) \o last BY <1>5, <2>2, <2>4
  <2>8. L(k + 1) = Later(p, k + 1) \o last BY <1>5, <2>1
  <2> DEFINE later == Later(p, k + 1)
  <2> HIDE DEF now, later
  <2>9. frames = <<added>> \o (now \o L(k + 1))
    <3> DEFINE a == <<added>>
    <3>1. IsSequence(a) /\ IsSequence(later) BY <2>4, HeadOfJoin, <1>10 DEF later
    <3>2. frames = ((a \o now) \o later) \o last BY <2>5, <2>7 DEF later
    <3> HIDE DEF a
    <3>3. (a \o now) \o later = a \o (now \o later) BY <2>6, <3>1, JoinsAnyhow
    <3>4. IsSequence(now \o later) BY <2>6, <3>1, JoinsAnyhow
    <3>5. (a \o (now \o later)) \o last = a \o ((now \o later) \o last)
      BY <1>6, <3>1, <3>4, JoinsAnyhow
    <3>6. (now \o later) \o last = now \o (later \o last)
      BY <1>6, <2>6, <3>1, JoinsAnyhow
    <3>7. L(k + 1) = later \o last BY <2>8 DEF later
    <3>8. frames = a \o (now \o L(k + 1)) BY <3>2, <3>3, <3>5, <3>6, <3>7
    <3> QED BY <3>8 DEF a
  <2>10. IsSequence(now \o L(k + 1)) BY <1>11, <2>1, <2>6, JoinsAnyhow
  <2>11. frames # <<>> /\ Head(frames) = added /\ Tail(frames) = now \o L(k + 1)
    BY <2>9, <2>10, HeadOfJoin
  <2>12. IsSequence(TextOf(Initial(bs, k))) BY <1>1, <2>1, BlocksGrow
  <2>13. step.end = Open /\ HasBegun(step.state, Initial(bs, k), item, 0)
    <3>1. step = ResponsesFrame(state, ItemAdded(item), row, intent) BY <2>11 DEF step, added
    <3> QED BY <1>14, <2>12, <3>1, ItemBegins
  <2>14. ResponsesPlace(step.state, bs, k + 1, now)
    <3>1. Dropped(ItemBody(item), 0) = ItemBody(item) /\ 0 \in 0 .. Len(ItemBody(item))
      <4>1. IsSequence(ItemBody(item)) BY <2>2 DEF body
      <4>2. Len(ItemBody(item)) \in Nat BY <4>1 DEF IsSequence
      <4> QED BY <4>1, <4>2, Dropping
    <3>2. now = Dropped(ItemBody(item), 0) \o <<ItemDone(item)>> BY <3>1 DEF now, body, done
    <3> QED BY <2>1, <2>13, <3>1, <3>2 DEF ResponsesPlace
  <2>15. At(step.state, now \o L(k + 1)) BY <1>7, <2>1, <2>6, <2>14
  <2> QED BY <1>8, <2>11, <2>13, <2>15 DEF step
<1>15. CASE /\ k > 0
            /\ \E n \in 0 .. Len(ItemBody(bs[k])) :
                 /\ part = Dropped(ItemBody(bs[k]), n) \o <<ItemDone(bs[k])>>
                 /\ HasBegun(state, Initial(bs, k - 1), bs[k], n)
  <2> DEFINE item == bs[k]
             body == ItemBody(item)
             items == Initial(bs, k - 1)
             done == <<ItemDone(item)>>
  <2>1. PICK n \in 0 .. Len(body) : part = Dropped(body, n) \o done /\ HasBegun(state, items, item, n)
    BY <1>15
  <2>0. k \in 1 .. N
    <3> HIDE DEF N
    <3> QED BY <1>1, <1>15
  <2>2. k \in 1 .. N /\ IsSequence(body) BY <1>2, <2>0
  <2>3. IsSequence(done) BY DEF IsSequence
  <2>4. IsSequence(TextOf(items)) BY <1>1, <2>2, BlocksGrow
  <2>5. CASE n = Len(body)
    <3>1. Dropped(body, n) = <<>>
      <4> HIDE DEF body
      <4> QED BY <2>2, <2>5, Dropping
    <3>2. part = done BY <2>1, <2>3, <3>1, JoinsAnyhow
    <3>3. frames # <<>> /\ Head(frames) = ItemDone(item) /\ Tail(frames) = L(k)
      <4>1. frames = <<ItemDone(item)>> \o L(k) BY <1>4, <3>2
      <4> QED BY <1>11, <4>1, HeadOfJoin
    <3>4. step = ResponsesFrame(state, ItemDone(bs[k]), row, intent) BY <3>3 DEF step
    <3>5. \/ step.end = Open /\ HasRead(step.state, Initial(bs, k))
          \/ /\ step.end # Open
             /\ Verdict(step) = Failure("InvalidToolArguments", ResponsesMeta(row, Absent))
             /\ bs[k].type = "tool" /\ ~ IsObject(bs[k].arguments)
      <4>1. HasBegun(state, Initial(bs, k - 1), bs[k], Len(ItemBody(bs[k]))) BY <2>1, <2>5
      <4>2. /\ bs[k].type \in BlockTypes("openai_responses")
            /\ bs[k].type = "tool" => bs[k].arguments # Absent /\ IsSequence(bs[k].arguments)
        BY <1>1, <2>2
      <4> DEFINE ended == ResponsesFrame(state, ItemDone(bs[k]), row, intent)
      <4>3. WordedBlocks(bs) /\ k \in 1 .. Len(bs) BY <1>1, <2>0
      <4>4. \/ ended.end = Open /\ HasRead(ended.state, Initial(bs, k))
            \/ /\ ended.end # Open
               /\ Verdict(ended) = Failure("InvalidToolArguments", ResponsesMeta(row, Absent))
               /\ bs[k].type = "tool" /\ ~ IsObject(bs[k].arguments)
        <5> HIDE DEF item, body, items, done, N
        <5> QED BY <4>1, <4>2, <4>3, ItemEnds
      <4> QED BY <3>4, <4>4
    <3>6. CASE step.end = Open /\ HasRead(step.state, Initial(bs, k))
      <4>1. ResponsesPlace(step.state, bs, k, <<>>) BY <3>6 DEF ResponsesPlace
      <4>2. L(k) = <<>> \o L(k) BY <1>11, JoinsAnyhow
      <4>3. At(step.state, L(k)) BY <1>7, <1>10, <4>1, <4>2
      <4> QED BY <1>8, <3>3, <3>6, <4>3 DEF step
    <3>7. CASE /\ step.end # Open
               /\ Verdict(step) = Failure("InvalidToolArguments", ResponsesMeta(row, Absent))
               /\ bs[k].type = "tool" /\ ~ IsObject(bs[k].arguments)
      <4>1. ~ CallsFit(row, answer)
        <5>1. N \in 0 .. N BY <1>1
        <5>2. PICK i \in DOMAIN ToolsOf(bs) : ToolsOf(bs)[i] = bs[k]
          BY <1>1, <2>2, <3>7, <5>1, ToolsAreBlocks
        <5>3. bs[k] \in ToSet(ToolsOf(bs)) BY <5>2 DEF ToSet
        <5> QED BY <3>7, <5>3 DEF CallsFit, bs
      <4>2. Agreeing(row, answer, Verdict(step), whole)
        <5>1. ~ Succeeds(Verdict(step)) /\ Meaning(Verdict(step)) = <<"Failed", "InvalidToolArguments">>
          BY <3>7, ShortOutcomes
        <5>2. ToldFirst(row, answer, Meaning(Verdict(step))) BY <4>1, <5>1 DEF ToldFirst
        <5> QED BY <5>1, <5>2 DEF Agreeing
      <4> QED BY <1>9, <3>3, <3>7, <4>2 DEF step
    <3> QED BY <3>5, <3>6, <3>7
  <2>6. CASE n # Len(body)
    <3> DEFINE frame == body[n + 1]
               left == Dropped(body, n + 1)
               now == left \o done
    <3>1. /\ Dropped(body, n) = <<frame>> \o left /\ IsSequence(left)
          /\ n + 1 \in 0 .. Len(body)
      <4> HIDE DEF body
      <4>1. Len(body) \in Nat BY <2>2 DEF IsSequence
      <4>2. n + 1 \in 0 .. Len(body) BY <2>6, <4>1
      <4> QED BY <2>2, <2>6, <4>2, Dropping
    <3>2. IsSequence(now)
      <4> HIDE DEF left, done
      <4> QED BY <2>3, <3>1, JoinsAnyhow
    <3>3. frames = <<frame>> \o (now \o L(k))
      <4> DEFINE a == <<frame>>
                 l == L(k)
      <4>1. IsSequence(a) /\ IsSequence(l) BY <1>10, <1>11, HeadOfJoin
      <4>2. frames = ((a \o left) \o done) \o l BY <1>4, <2>1, <3>1
      <4> HIDE DEF a, l, left, done, frame
      <4>3. (a \o left) \o done = a \o (left \o done) BY SMTT(30), <2>3, <3>1, <4>1, JoinsAnyhow
      <4>4. IsSequence(left \o done) BY <3>2
      <4>5. (a \o (left \o done)) \o l = a \o ((left \o done) \o l)
        BY <4>1, <4>4, JoinsAnyhow
      <4> QED BY <4>2, <4>3, <4>5 DEF a, l
    <3>4. IsSequence(now \o L(k))
      <4> HIDE DEF now
      <4> QED BY <1>11, <3>2, JoinsAnyhow
    <3>5. frames # <<>> /\ Head(frames) = frame /\ Tail(frames) = now \o L(k)
      <4> HIDE DEF now, frame
      <4> QED BY <3>3, <3>4, HeadOfJoin
    <3>6. step.end = Open /\ HasBegun(step.state, items, item, n + 1)
      <4>1. step = ResponsesFrame(state, ItemBody(item)[n + 1], row, intent) BY <3>5 DEF step
      <4>2. /\ item.type \in BlockTypes("openai_responses")
            /\ item.type = "text" => IsSequence(item.text)
            /\ item.type = "tool" => IsSequence(item.arguments)
        BY <1>1, <2>2
      <4>3. n \in 0 .. Len(ItemBody(item)) /\ n # Len(ItemBody(item)) BY <2>6
      <4>4. HasBegun(state, items, item, n) BY <2>1
      <4> HIDE DEF item, body, items, done, frame, left, now
      <4> QED BY <2>4, <4>1, <4>2, <4>3, <4>4, ItemGoesOn
    <3>7. ResponsesPlace(step.state, bs, k, now) BY <1>15, <3>1, <3>6 DEF ResponsesPlace
    <3>8. At(step.state, now \o L(k))
      <4> HIDE DEF now
      <4> QED BY <1>7, <3>2, <3>7
    <3> QED BY <1>8, <3>5, <3>6, <3>8 DEF step
  <2> QED BY <2>5, <2>6
<1> QED BY <1>4, <1>12, <1>13, <1>14, <1>15 DEF ResponsesPlace

\* The first frame.
LEMMA ResponsesBegins ==
    ASSUME NEW answer, AnswerFits(answer, "openai_responses"), NEW row
    PROVE  ResponsesAt(ResponsesStart, ResponsesFrames(answer, row), answer, row)
<1> DEFINE bs == answer.blocks
           p == ItemsFrames(bs)
           last == <<LastFrame(answer, row)>>
           part == << [type |-> "created"] >>
<1>1. /\ WordedBlocks(bs) /\ Len(bs) \in Nat BY AnswerBlocks
<1>2. Pieces(p) /\ Len(p) = Len(bs) BY ItemsUnroll
<1>3. ResponsesFrames(answer, row) = part \o Concat(p) \o last
  BY DEF ResponsesFrames, ItemsFrames, LastFrame
<1>4. IsSequence(part) /\ IsSequence(last) BY DEF IsSequence
<1>5. ResponsesRest(answer, row, 0) = Later(p, 0) \o last BY DEF ResponsesRest
<1>6. HasRead(ResponsesStart, Initial(bs, 0))
  <2>1. Initial(bs, 0) = <<>> BY DEF Initial
  <2>2. ToolsOf(<<>>) = <<>> /\ TextOf(<<>>) = <<>>
    <3>1. ToolsOf(<<>>) = Concat(<<>>) /\ TextOf(<<>>) = Concat(<<>>) BY DEF ToolsOf, TextOf
    <3> QED BY <3>1, ConcatFew
  <2>3. GeminiCalls(<<>>) = <<>> BY <2>2 DEF GeminiCalls
  <2>4. ~ ResponsesRefuses(<<>>) BY DEF ResponsesRefuses, ToSet
  <2> QED BY <2>1, <2>2, <2>3, <2>4 DEF HasRead, HasItems, ResponsesStart
<1> HIDE DEF p, last
<1>7. Later(p, 0) = Concat(p) /\ IsSequence(Later(p, 0))
  <2>1. 0 \in 0 .. Len(p) BY <1>1, <1>2
  <2> QED BY <1>2, <2>1, LaterUnrolls
<1>8. ResponsesFrames(answer, row) = part \o ResponsesRest(answer, row, 0)
  <2> DEFINE c == Concat(p)
  <2>1. IsSequence(c) BY <1>7
  <2> HIDE DEF c, part
  <2>2. (part \o c) \o last = part \o (c \o last) BY <1>4, <2>1, JoinsAnyhow
  <2>3. ResponsesFrames(answer, row) = (part \o c) \o last BY <1>3 DEF c
  <2>4. ResponsesRest(answer, row, 0) = c \o last BY <1>5, <1>7 DEF c
  <2> QED BY <2>2, <2>3, <2>4
<1>9. ResponsesPlace(ResponsesStart, bs, 0, part) BY <1>6 DEF ResponsesPlace
<1>10. 0 \in 0 .. Len(bs) BY <1>1
<1> HIDE DEF part
<1> QED BY <1>4, <1>8, <1>9, <1>10 DEF ResponsesAt

----------------------------------------------------------------------------
\* The Anthropic stream. A block while it grows, and the frames it grows by.
Contents(block) ==
    CASE block.type = "text" -> block.text
      [] block.type = "tool" -> block.arguments
      [] block.type = "thinking" -> block.signature
      [] OTHER -> <<>>
Partly(block, text) ==
    CASE block.type = "text" -> [block EXCEPT !.text = text]
      [] block.type = "tool" -> [block EXCEPT !.arguments = text]
      [] block.type = "thinking" -> [block EXCEPT !.signature = text]
      [] OTHER -> block
DeltaType(block) ==
    CASE block.type = "text" -> "text_delta"
      [] block.type = "tool" -> "json_delta"
      [] OTHER -> "thinking_delta"
BlockOpens(block, index) ==
    [type |-> "block_start", index |-> index, block |-> Partly(block, <<>>)]
BlockBody(block, index) ==
    [i \in DOMAIN Contents(block) |->
       [type |-> DeltaType(block), index |-> index, text |-> <<Contents(block)[i]>>]]
BlockStops(index) == [type |-> "block_stop", index |-> index]

LEMMA PartlyIs ==
    ASSUME NEW b, KnownBlock(b, "anthropic_messages"), b.type # "unknown"
    PROVE  /\ b.type \in {"text", "tool", "thinking"} /\ IsSequence(Contents(b))
           /\ Partly(b, Contents(b)) = b
           /\ \A t : /\ Partly(b, t).type = b.type /\ DOMAIN Partly(b, t) = DOMAIN b
                     /\ Contents(Partly(b, t)) = t
                     /\ \A u : Partly(Partly(b, t), u) = Partly(b, u)
                     /\ b.type = "tool" => Partly(b, t).id = b.id /\ Partly(b, t).name = b.name
<1>1. b.type \in {"text", "tool", "thinking"} BY DEF KnownBlock, BlockTypes
<1>2. b = [field \in DOMAIN b |-> b[field]] /\ "type" \in DOMAIN b BY DEF KnownBlock
<1> DEFINE With(field, t) == [b EXCEPT ![field] = t]
<1>3. ASSUME NEW field \in DOMAIN b, field # "type"
      PROVE  /\ With(field, b[field]) = b
             /\ \A t : /\ With(field, t).type = b.type /\ With(field, t)[field] = t
                       /\ DOMAIN With(field, t) = DOMAIN b
                       /\ \A u : [With(field, t) EXCEPT ![field] = u] = With(field, u)
                       /\ \A other \in DOMAIN b : other # field => With(field, t)[other] = b[other]
  <2>1. With(field, b[field]) = [f \in DOMAIN b |-> IF f = field THEN b[field] ELSE b[f]]
    OBVIOUS
  <2>2. [f \in DOMAIN b |-> IF f = field THEN b[field] ELSE b[f]] = [f \in DOMAIN b |-> b[f]]
    OBVIOUS
  <2>3. \A t : /\ With(field, t).type = b.type /\ With(field, t)[field] = t
               /\ DOMAIN With(field, t) = DOMAIN b
               /\ \A other \in DOMAIN b : other # field => With(field, t)[other] = b[other]
    BY <1>2, <1>3
  <2>4. \A t, u : [With(field, t) EXCEPT ![field] = u] = With(field, u)
    OBVIOUS
  <2> QED BY <1>2, <2>1, <2>2, <2>3, <2>4
<1>4. ASSUME NEW field \in DOMAIN b, field # "type", IsSequence(b[field]),
             \A x : x.type = b.type => /\ Contents(x) = x[field]
                                      /\ \A t : Partly(x, t) = [x EXCEPT ![field] = t],
             b.type = "tool" => field \notin {"id", "name"} /\ {"id", "name"} \subseteq DOMAIN b
      PROVE  /\ IsSequence(Contents(b)) /\ Partly(b, Contents(b)) = b
             /\ \A t : /\ Partly(b, t).type = b.type /\ DOMAIN Partly(b, t) = DOMAIN b
                       /\ Contents(Partly(b, t)) = t
                       /\ \A u : Partly(Partly(b, t), u) = Partly(b, u)
                       /\ b.type = "tool" => Partly(b, t).id = b.id /\ Partly(b, t).name = b.name
  <2>1. /\ With(field, b[field]) = b
        /\ \A t : /\ With(field, t).type = b.type /\ With(field, t)[field] = t
                  /\ DOMAIN With(field, t) = DOMAIN b
                  /\ \A other \in DOMAIN b : other # field => With(field, t)[other] = b[other]
    BY <1>3, <1>4
  <2>2. \A t, u : [With(field, t) EXCEPT ![field] = u] = With(field, u) BY <1>3, <1>4
  <2>3. Contents(b) = b[field] /\ \A t : Partly(b, t) = With(field, t) BY <1>4
  <2> HIDE DEF With
  <2>4. \A t : /\ Contents(With(field, t)) = t
               /\ \A u : Partly(With(field, t), u) = With(field, u)
    <3> TAKE t
    <3> DEFINE x == With(field, t)
    <3>1. x.type = b.type /\ x[field] = t BY <2>1
    <3>2. \A u : [x EXCEPT ![field] = u] = With(field, u) BY <2>2
    <3> HIDE DEF x
    <3>3. Contents(x) = t /\ \A u : Partly(x, u) = With(field, u) BY <1>4, <3>1, <3>2
    <3> QED BY <3>3 DEF x
  <2>5. ASSUME NEW t PROVE /\ Partly(b, t).type = b.type /\ DOMAIN Partly(b, t) = DOMAIN b
                           /\ Contents(Partly(b, t)) = t
                           /\ \A u : Partly(Partly(b, t), u) = Partly(b, u)
                           /\ b.type = "tool" => Partly(b, t).id = b.id /\ Partly(b, t).name = b.name
    <3>1. Partly(b, t) = With(field, t) BY <2>3
    <3>2. b.type = "tool" => With(field, t).id = b.id /\ With(field, t).name = b.name
      BY <1>4, <2>1
    <3>3. \A u : Partly(With(field, t), u) = Partly(b, u) BY <2>3, <2>4
    <3> QED BY <2>1, <2>4, <3>1, <3>2, <3>3
  <2>6. IsSequence(Contents(b)) /\ Partly(b, Contents(b)) = b BY <1>4, <2>1, <2>3
  <2> QED BY <2>5, <2>6
<1>5. CASE b.type = "text"
  <2>1. "text" \in DOMAIN b /\ IsSequence(b.text) BY <1>5 DEF KnownBlock
  <2>2. \A x : x.type = "text" => /\ Contents(x) = x.text
                                 /\ \A t : Partly(x, t) = [x EXCEPT !.text = t]
    BY DEF Contents, Partly
  <2> HIDE DEF With
  <2> QED BY <1>1, <1>4, <1>5, <2>1, <2>2
<1>6. CASE b.type = "tool"
  <2>1. "arguments" \in DOMAIN b /\ IsSequence(b.arguments) /\ {"id", "name"} \subseteq DOMAIN b
    BY <1>6 DEF KnownBlock
  <2>2. \A x : x.type = "tool" => /\ Contents(x) = x.arguments
                                 /\ \A t : Partly(x, t) = [x EXCEPT !.arguments = t]
    BY DEF Contents, Partly
  <2> HIDE DEF With
  <2> QED BY <1>1, <1>4, <1>6, <2>1, <2>2
<1>7. CASE b.type = "thinking"
  <2>1. "signature" \in DOMAIN b /\ IsSequence(b.signature) BY <1>7 DEF KnownBlock
  <2>2. \A x : x.type = "thinking" => /\ Contents(x) = x.signature
                                     /\ \A t : Partly(x, t) = [x EXCEPT !.signature = t]
    BY DEF Contents, Partly
  <2> HIDE DEF With
  <2> QED BY <1>1, <1>4, <1>7, <2>1, <2>2
<1> QED BY <1>1, <1>5, <1>6, <1>7

\* The frames of a block.
LEMMA BlockFramesAre ==
    ASSUME NEW b, KnownBlock(b, "anthropic_messages"), NEW index
    PROVE  /\ IsSequence(BlockBody(b, index)) /\ Len(BlockBody(b, index)) = Len(Contents(b))
           /\ \A n \in 1 .. Len(Contents(b)) : BlockBody(b, index)[n] =
                [type |-> DeltaType(b), index |-> index, text |-> <<Contents(b)[n]>>]
           /\ AnthropicBlockFrames(b, index) =
                <<BlockOpens(b, index)>> \o (BlockBody(b, index) \o <<BlockStops(index)>>)
<1> DEFINE text == Contents(b)
           body == BlockBody(b, index)
           first == <<BlockOpens(b, index)>>
           last == <<BlockStops(index)>>
           Piece(i) == [type |-> DeltaType(b), index |-> index, text |-> <<text[i]>>]
<1>1. b.type \in {"text", "tool", "thinking", "unknown"} BY DEF KnownBlock, BlockTypes
<1>2. IsSequence(text)
  <2>1. CASE b.type = "unknown" BY <2>1 DEF Contents, IsSequence
  <2>2. CASE b.type # "unknown" BY <2>2, PartlyIs
  <2> QED BY <2>1, <2>2
<1>3. MadeOf(body, text) /\ \A n \in DOMAIN text : body[n] = Piece(n)
  BY DEF MadeOf, BlockBody
<1>4. IsSequence(first) /\ IsSequence(last) BY DEF IsSequence
<1>5. AnthropicBlockFrames(b, index) = first \o body \o last
  <2>1. CASE b.type = "text"
    <3>1. text = b.text /\ DeltaType(b) = "text_delta" /\ Partly(b, <<>>) = [b EXCEPT !.text = <<>>]
      BY <2>1 DEF Contents, DeltaType, Partly
    <3>2. body = [i \in DOMAIN b.text |-> [type |-> "text_delta", index |-> index, text |-> <<b.text[i]>>]]
      BY <3>1 DEF BlockBody
    <3> HIDE DEF body
    <3> QED BY <2>1, <3>1, <3>2 DEF AnthropicBlockFrames, BlockOpens, BlockStops
  <2>2. CASE b.type = "tool"
    <3>1. /\ text = b.arguments /\ DeltaType(b) = "json_delta"
          /\ Partly(b, <<>>) = [b EXCEPT !.arguments = <<>>]
      BY <2>2 DEF Contents, DeltaType, Partly
    <3>2. body = [i \in DOMAIN b.arguments |->
                    [type |-> "json_delta", index |-> index, text |-> <<b.arguments[i]>>]]
      BY <3>1 DEF BlockBody
    <3> HIDE DEF body
    <3> QED BY <2>2, <3>1, <3>2 DEF AnthropicBlockFrames, BlockOpens, BlockStops
  <2>3. CASE b.type = "thinking"
    <3>1. /\ text = b.signature /\ DeltaType(b) = "thinking_delta"
          /\ Partly(b, <<>>) = [b EXCEPT !.signature = <<>>]
      BY <2>3 DEF Contents, DeltaType, Partly
    <3>2. body = [i \in DOMAIN b.signature |->
                    [type |-> "thinking_delta", index |-> index, text |-> <<b.signature[i]>>]]
      BY <3>1 DEF BlockBody
    <3> HIDE DEF body
    <3> QED BY <2>3, <3>1, <3>2 DEF AnthropicBlockFrames, BlockOpens, BlockStops
  <2>4. CASE b.type = "unknown"
    <3>1. text = <<>> /\ Partly(b, <<>>) = b BY <2>4 DEF Contents, Partly
    <3>2. body = <<>> BY <3>1 DEF BlockBody
    <3> HIDE DEF body
    <3>3. AnthropicBlockFrames(b, index) = first \o last
      BY <2>4, <3>1 DEF AnthropicBlockFrames, BlockOpens, BlockStops
    <3>4. first \o body = first BY <1>4, <3>2, JoinsAnyhow
    <3> QED BY <3>3, <3>4
  <2> QED BY <1>1, <2>1, <2>2, <2>3, <2>4
<1> HIDE DEF text, body, first, last, Piece
<1>6. IsSequence(body) /\ Len(body) = Len(text) BY <1>2, <1>3, MadeIsSequence
<1>7. (first \o body) \o last = first \o (body \o last) BY <1>4, <1>6, JoinsAnyhow
<1>8. DOMAIN text = 1 .. Len(text) BY <1>2 DEF IsSequence
<1> QED BY <1>3, <1>5, <1>6, <1>7, <1>8 DEF text, body, first, last, Piece

\* The blocks of an answer as they come whole.
WholeArguments(block) == IF block.arguments = <<>> THEN <<"{", "}">> ELSE block.arguments
WholeBlock(block) ==
    IF block.type = "tool" /\ block.arguments = <<>>
    THEN [block EXCEPT !.arguments = <<"{", "}">>] ELSE block
WholeBlocks(bs) == [i \in DOMAIN bs |-> WholeBlock(bs[i])]

LEMMA WholeIs ==
    ASSUME NEW answer, AnswerFits(answer, "anthropic_messages")
    PROVE  LET bs == answer.blocks
               ws == WholeBlocks(bs)
           IN /\ AnthropicResponse(answer).blocks = ws
              /\ WordedBlocks(ws) /\ Len(ws) = Len(bs) /\ Len(bs) \in Nat /\ DOMAIN ws = 1 .. Len(bs)
              /\ Initial(ws, Len(bs)) = ws
              /\ \A i \in 1 .. Len(bs) :
                   /\ KnownBlock(bs[i], "anthropic_messages")
                   /\ ws[i].type = bs[i].type
                   /\ bs[i].type # "tool" => ws[i] = bs[i]
                   /\ bs[i].type = "tool" =>
                        /\ ws[i] = Partly(bs[i], WholeArguments(bs[i]))
                        /\ ws[i].arguments = WholeArguments(bs[i])
                        /\ ws[i].id = bs[i].id /\ ws[i].name = bs[i].name
<1> DEFINE bs == answer.blocks
           ws == WholeBlocks(bs)
<1>1. /\ WordedBlocks(bs) /\ Len(bs) \in Nat /\ DOMAIN bs = 1 .. Len(bs)
      /\ \A i \in 1 .. Len(bs) : /\ KnownBlock(bs[i], "anthropic_messages")
                                 /\ bs[i].type = "text" => IsSequence(bs[i].text)
  BY AnswerBlocks
<1>2. AnthropicResponse(answer).blocks = ws
  BY DEF AnthropicResponse, WholeBlocks, WholeBlock
<1> HIDE DEF bs
<1>3. MadeOf(ws, bs) /\ \A i \in DOMAIN bs : ws[i] = WholeBlock(bs[i])
  BY DEF MadeOf, WholeBlocks
<1> HIDE DEF ws
<1>4. IsSequence(bs) BY <1>1 DEF WordedBlocks
<1>5. IsSequence(ws) /\ Len(ws) = Len(bs) BY <1>3, <1>4, MadeIsSequence
<1>6. DOMAIN ws = 1 .. Len(bs) BY <1>5 DEF IsSequence
<1>7. Initial(ws, Len(bs)) = ws BY <1>5, Initials
<1>8. ASSUME NEW i \in 1 .. Len(bs)
      PROVE  /\ ws[i].type = bs[i].type
             /\ bs[i].type # "tool" => ws[i] = bs[i]
             /\ bs[i].type = "tool" =>
                  /\ ws[i] = Partly(bs[i], WholeArguments(bs[i]))
                  /\ ws[i].arguments = WholeArguments(bs[i])
                  /\ ws[i].id = bs[i].id /\ ws[i].name = bs[i].name
  <2> DEFINE b == bs[i]
             w == ws[i]
  <2>1. w = WholeBlock(b) /\ KnownBlock(b, "anthropic_messages") BY <1>1, <1>3
  <2> HIDE DEF b, w
  <2>2. CASE b.type # "tool" BY <2>1, <2>2 DEF WholeBlock, b, w
  <2>3. CASE b.type = "tool"
    <3> DEFINE t == WholeArguments(b)
    <3>1. /\ Partly(b, Contents(b)) = b /\ Partly(b, t).type = b.type
          /\ Contents(Partly(b, t)) = t
          /\ Partly(b, t).id = b.id /\ Partly(b, t).name = b.name
      BY <2>1, <2>3, PartlyIs
    <3>2. Contents(b) = b.arguments BY <2>3 DEF Contents
    <3>3. w = Partly(b, t)
      <4>1. CASE b.arguments = <<>>
        BY <2>1, <2>3, <4>1 DEF WholeBlock, WholeArguments, Partly
      <4>2. CASE b.arguments # <<>>
        BY <2>1, <2>3, <3>1, <3>2, <4>2 DEF WholeBlock, WholeArguments
      <4> QED BY <4>1, <4>2
    <3> HIDE DEF t
    <3>4. w.type = "tool" BY <2>3, <3>1, <3>3
    <3>5. Contents(w) = w.arguments BY <3>4 DEF Contents
    <3> QED BY <2>3, <3>1, <3>3, <3>4, <3>5 DEF t, b, w
  <2> QED BY <2>2, <2>3
<1>9. WordedBlocks(ws)
  <2>1. ASSUME NEW i \in 1 .. Len(bs), ws[i].type = "text" PROVE IsSequence(ws[i].text)
    BY <1>1, <1>8, <2>1
  <2> QED BY <1>5, <1>6, <2>1 DEF WordedBlocks
<1> QED BY <1>1, <1>2, <1>5, <1>6, <1>7, <1>8, <1>9 DEF bs, ws

\* One entry of a map.
LEMMA Binding ==
    ASSUME NEW map, NEW key, NEW v
    PROVE  /\ DOMAIN Bind(map, key, v) = DOMAIN map \cup {key} /\ Bind(map, key, v)[key] = v
           /\ DOMAIN Unbind(map, key) = DOMAIN map \ {key}
  BY DEF Bind, Unbind

LEMMA BindingAgain ==
    ASSUME NEW map, NEW key, NEW v, NEW w
    PROVE  [Bind(map, key, v) EXCEPT ![key] = w] = Bind(map, key, w)
<1> DEFINE m == Bind(map, key, v)
<1>1. /\ DOMAIN m = DOMAIN map \cup {key} /\ \A j \in DOMAIN m : j # key => m[j] = map[j]
  BY DEF Bind
<1> HIDE DEF m
<1>2. [m EXCEPT ![key] = w] = [j \in DOMAIN map \cup {key} |-> IF j = key THEN w ELSE map[j]]
  BY <1>1
<1> QED BY <1>2 DEF m, Bind

LEMMA BindingNext ==
    ASSUME NEW ws, NEW k \in Nat, k > 0
    PROVE  Bind(Initial(ws, k - 1), k, ws[k]) = Initial(ws, k)
<1>1. DOMAIN Initial(ws, k - 1) \cup {k} = 1 .. k
  <2>1. DOMAIN Initial(ws, k - 1) = 1 .. k - 1 BY DEF Initial
  <2> QED BY <2>1
<1>2. \A j \in 1 .. k : j # k => j \in 1 .. k - 1 OBVIOUS
<1>3. \A j \in 1 .. k : (IF j = k THEN ws[k] ELSE Initial(ws, k - 1)[j]) = ws[j]
  BY <1>2 DEF Initial
<1> QED BY <1>1, <1>3 DEF Bind, Initial

\* The decoder has taken in k blocks, and none of them broke it;
DecodesBlocks(state, bs, k, model, fold) ==
    LET ws == WholeBlocks(bs) IN
    /\ {"model", "fold", "stop", "text", "open", "tools", "native", "semantic"} \subseteq DOMAIN state
    /\ state.model = model /\ state.fold = fold
    /\ state.tools = GeminiCalls(Initial(ws, k))
    /\ \A i \in 1 .. k :
         ws[i].type # "unknown" /\ (ws[i].type = "tool" => IsObject(ws[i].arguments))
\* no other has begun,
HasBlocks(state, bs, k, model, fold) ==
    /\ DecodesBlocks(state, bs, k, model, fold)
    /\ state.text = TextOf(Initial(WholeBlocks(bs), k))
    /\ state.native = Initial(WholeBlocks(bs), k)
    /\ DOMAIN state.open = {}
\* or one more has, and has grown to n fragments.
HasPart(state, bs, k, n, model, fold) ==
    LET b == bs[k]
        text == Initial(Contents(b), n)
        before == Initial(WholeBlocks(bs), k - 1)
    IN /\ DecodesBlocks(state, bs, k - 1, model, fold)
       /\ b.type # "unknown"
       /\ state.text = TextOf(before) \o (IF b.type = "text" THEN text ELSE <<>>)
       /\ state.native = Bind(before, k, Partly(b, IF b.type = "tool" THEN <<>> ELSE text))
       /\ b.type = "tool" => DOMAIN state.open = {k} /\ state.open[k] = Partly(b, text)
       /\ b.type # "tool" => DOMAIN state.open = {}

\* A block begins, unless its kind is unknown.
LEMMA BlockBegins ==
    ASSUME NEW state, NEW bs, NEW k \in Nat, k > 0, NEW model, NEW fold,
           KnownBlock(bs[k], "anthropic_messages"),
           HasBlocks(state, bs, k - 1, model, fold),
           IsSequence(TextOf(Initial(WholeBlocks(bs), k - 1))),
           NEW row, NEW intent
    PROVE  LET step == AnthropicFrame(state, BlockOpens(bs[k], k), row, intent) IN
           \/ step.end = Open /\ HasPart(step.state, bs, k, 0, model, fold)
           \/ /\ step.end # Open /\ Verdict(step) = Defect("unknown_content_block")
              /\ bs[k].type = "unknown"
<1> DEFINE b == bs[k]
           before == Initial(WholeBlocks(bs), k - 1)
           frame == BlockOpens(b, k)
           begun == Partly(b, <<>>)
           step == AnthropicFrame(state, frame, row, intent)
           kept == [state EXCEPT !.native = Bind(@, frame.index, frame.block)]
           opened == [kept EXCEPT !.open = Bind(@, frame.index, [frame.block EXCEPT !.arguments = <<>>])]
           last == [opened EXCEPT !.semantic = TRUE]
<1>1. frame.type = "block_start" /\ frame.index = k /\ frame.block = begun BY DEF BlockOpens
<1>2. step = AnthropicBlockStart(state, frame) BY <1>1 DEF AnthropicFrame
<1>3. b.type \in {"text", "tool", "thinking", "unknown"} BY DEF KnownBlock, BlockTypes
<1>4. /\ {"model", "fold", "stop", "text", "open", "tools", "native", "semantic"} \subseteq DOMAIN state
      /\ DecodesBlocks(state, bs, k - 1, model, fold)
      /\ state.text = TextOf(before) /\ state.native = before /\ DOMAIN state.open = {}
  BY DEF HasBlocks, DecodesBlocks
<1>5. Initial(Contents(b), 0) = <<>> BY DEF Initial
<1>6. TextOf(before) \o <<>> = TextOf(before) BY JoinsAnyhow
<1>7. /\ DOMAIN kept = DOMAIN state
      /\ "native" \in DOMAIN state => kept.native = Bind(state.native, frame.index, frame.block)
      /\ \A f \in DOMAIN state : f # "native" => kept[f] = state[f]
  OBVIOUS
<1> HIDE DEF frame, begun, b, before, step
<1>8. kept.native = Bind(before, k, begun) BY <1>1, <1>4, <1>7
<1> HIDE DEF kept
<1>9. CASE b.type = "unknown"
  <2>1. frame.block.type = "unknown" BY <1>1, <1>9 DEF begun, Partly
  <2>2. step = Raises(state, Defect("unknown_content_block"))
    BY <1>2, <2>1 DEF AnthropicBlockStart
  <2>3. step.end # Open /\ Verdict(step) = Defect("unknown_content_block") BY <2>2, Verdicts
  <2> QED BY <1>9, <2>3 DEF step, frame, b
<1>10. CASE b.type \in {"text", "thinking"}
  <2>1. begun.type = b.type /\ b.type \notin {"tool", "unknown"}
    BY <1>10, PartlyIs DEF begun, b
  <2>2. step = Goes(kept, <<>>)
    BY <1>1, <1>2, <1>10, <2>1 DEF AnthropicBlockStart, kept
  <2>3. step.end = Open /\ step.state = kept BY <2>2 DEF Goes
  <2>4. DecodesBlocks(kept, bs, k - 1, model, fold)
    BY <1>4, <1>7 DEF DecodesBlocks
  <2>5. kept.text = TextOf(before) /\ DOMAIN kept.open = {} BY <1>4, <1>7
  <2>6. HasPart(kept, bs, k, 0, model, fold)
    BY <1>5, <1>6, <1>8, <2>1, <2>4, <2>5 DEF HasPart, b, before, begun
  <2> QED BY <2>3, <2>6 DEF step, frame, b
<1>11. CASE b.type = "tool"
  <2>1. begun.type = "tool" BY <1>11, PartlyIs DEF begun, b
  <2>2. [begun EXCEPT !.arguments = <<>>] = begun
    <3>1. Partly(begun, <<>>) = begun BY <1>11, PartlyIs DEF begun, b
    <3>2. Partly(begun, <<>>) = [begun EXCEPT !.arguments = <<>>] BY <2>1 DEF Partly
    <3> QED BY <3>1, <3>2
  <2>3. step = AnthropicSemantic(opened, ToolStart(frame.block))
    BY <1>1, <1>2, <2>1 DEF AnthropicBlockStart, kept
  <2>4. /\ DOMAIN opened = DOMAIN state
        /\ opened.open = Bind(state.open, k, begun)
        /\ \A f \in DOMAIN state : f # "open" => opened[f] = kept[f]
    BY <1>1, <1>4, <1>7, <2>2
  <2> HIDE DEF opened
  <2>5. /\ DOMAIN last = DOMAIN state
        /\ \A f \in DOMAIN state : f # "semantic" => last[f] = opened[f]
    BY <2>4
  <2>6. step = Goes(last, <<ToolStart(frame.block)>>) BY <2>3 DEF AnthropicSemantic
  <2> HIDE DEF last
  <2>7. step.end = Open /\ step.state = last BY <2>6 DEF Goes
  <2>8. DecodesBlocks(last, bs, k - 1, model, fold)
    BY <1>4, <1>7, <2>4, <2>5 DEF DecodesBlocks
  <2>9. /\ last.text = TextOf(before) /\ last.native = Bind(before, k, begun)
        /\ last.open = Bind(state.open, k, begun)
    BY <1>4, <1>7, <1>8, <2>4, <2>5
  <2>10. DOMAIN last.open = {k} /\ last.open[k] = begun
    <3> DEFINE was == state.open
               open == Bind(was, k, begun)
    <3>1. DOMAIN was = {} BY <1>4
    <3>2. last.open = open BY <2>9
    <3> HIDE DEF was, begun
    <3>3. DOMAIN open = DOMAIN was \cup {k} /\ open[k] = begun BY ZenonT(40), Binding
    <3> HIDE DEF open
    <3> QED BY <3>1, <3>2, <3>3
  <2>11. HasPart(last, bs, k, 0, model, fold)
    BY <1>5, <1>6, <1>11, <2>8, <2>9, <2>10 DEF HasPart, b, before, begun
  <2> QED BY <2>7, <2>11 DEF step, frame, b
<1> QED BY <1>3, <1>9, <1>10, <1>11

\* One fragment more of it.
LEMMA BlockGrows ==
    ASSUME NEW state, NEW bs, NEW k \in Nat, k > 0, NEW model, NEW fold,
           KnownBlock(bs[k], "anthropic_messages"),
           NEW n \in 0 .. Len(Contents(bs[k])), n # Len(Contents(bs[k])),
           HasPart(state, bs, k, n, model, fold),
           IsSequence(TextOf(Initial(WholeBlocks(bs), k - 1))),
           NEW row, NEW intent
    PROVE  LET step == AnthropicFrame(state, BlockBody(bs[k], k)[n + 1], row, intent) IN
           step.end = Open /\ HasPart(step.state, bs, k, n + 1, model, fold)
<1> DEFINE b == bs[k]
           text == Contents(b)
           x == text[n + 1]
           had == Initial(text, n)
           has == Initial(text, n + 1)
           before == Initial(WholeBlocks(bs), k - 1)
           frame == BlockBody(b, k)[n + 1]
           step == AnthropicFrame(state, frame, row, intent)
<1>1. /\ {"model", "fold", "stop", "text", "open", "tools", "native", "semantic"} \subseteq DOMAIN state
      /\ DecodesBlocks(state, bs, k - 1, model, fold)
      /\ b.type # "unknown"
      /\ state.text = TextOf(before) \o (IF b.type = "text" THEN had ELSE <<>>)
      /\ state.native = Bind(before, k, Partly(b, IF b.type = "tool" THEN <<>> ELSE had))
      /\ b.type = "tool" => DOMAIN state.open = {k} /\ state.open[k] = Partly(b, had)
      /\ b.type # "tool" => DOMAIN state.open = {}
  BY DEF HasPart, DecodesBlocks
<1>2. /\ b.type \in {"text", "tool", "thinking"} /\ IsSequence(text)
      /\ \A t : /\ Partly(b, t).type = b.type /\ Contents(Partly(b, t)) = t
                /\ \A u : Partly(Partly(b, t), u) = Partly(b, u)
  BY <1>1, PartlyIs
<1>3. n \in Nat /\ Len(text) \in Nat /\ n + 1 \in 1 .. Len(text) /\ (n + 1) - 1 = n
  <2>1. Len(text) \in Nat BY <1>2 DEF IsSequence
  <2> QED BY <2>1
<1>4. frame = [type |-> DeltaType(b), index |-> k, text |-> <<x>>]
  BY <1>3, BlockFramesAre
<1>5. has = had \o <<x>> BY <1>2, <1>3, Initials
<1>6. IsSequence(had) /\ IsSequence(<<x>>)
  <2>1. IsSequence(<<x>>) BY DEF IsSequence
  <2>2. IsSequence(had) BY <1>3 DEF Initial, IsSequence
  <2> QED BY <2>1, <2>2
<1>7. IsSequence(TextOf(before)) OBVIOUS
<1>8. <<x>> # <<>> OBVIOUS
<1>9. frame.type = DeltaType(b) /\ frame.index = k /\ frame.text = <<x>> BY <1>4
<1> HIDE DEF frame, b, before, step, text, x, had, has
<1>10. CASE b.type = "text"
  <2> DEFINE grown == [state EXCEPT !.text = @ \o frame.text,
                                    !.native[frame.index].text = @ \o frame.text]
             last == [grown EXCEPT !.semantic = TRUE]
             part == Partly(b, had)
  <2>1. frame.type = "text_delta" BY <1>9, <1>10 DEF DeltaType
  <2>2. state.native = Bind(before, k, part) BY <1>1, <1>10
  <2>3. k \in DOMAIN state.native /\ state.native[k] = part
    <3> DEFINE native == Bind(before, k, part)
    <3> HIDE DEF part
    <3>1. DOMAIN native = DOMAIN before \cup {k} /\ native[k] = part BY ZenonT(40), Binding
    <3> HIDE DEF native
    <3>2. state.native = native BY <2>2 DEF native
    <3> QED BY <3>1, <3>2
  <2>4. part.type = "text" /\ part.text = had
    <3>1. part.type = "text" /\ Contents(part) = had BY <1>2, <1>10
    <3> HIDE DEF part
    <3> QED BY <3>1 DEF Contents
  <2>5. step = AnthropicSemantic(grown, TextDelta(frame.text))
    <3>1. step = AnthropicTextDelta(state, frame) BY <2>1 DEF AnthropicFrame, step
    <3> QED BY <1>8, <1>9, <2>3, <2>4, <3>1 DEF AnthropicTextDelta
  <2>6. [state.native EXCEPT ![k] = [part EXCEPT !.text = had \o <<x>>]] = Bind(before, k, Partly(b, has))
    <3>1. [part EXCEPT !.text = has] = Partly(b, has)
      <4>1. Partly(part, has) = Partly(b, has) BY <1>2
      <4>2. Partly(part, has) = [part EXCEPT !.text = has]
        <5> HIDE DEF part
        <5> QED BY <2>4 DEF Partly
      <4> QED BY <4>1, <4>2
    <3> DEFINE new == Partly(b, has)
    <3>2. [part EXCEPT !.text = had \o <<x>>] = new BY <1>5, <3>1
    <3> HIDE DEF part, new
    <3>3. [Bind(before, k, part) EXCEPT ![k] = new] = Bind(before, k, new) BY BindingAgain
    <3>4. [state.native EXCEPT ![k] = new] = Bind(before, k, new) BY <2>2, <3>3
    <3> QED BY <3>2, <3>4 DEF new
  <2>7. /\ DOMAIN grown = DOMAIN state
        /\ grown.text = state.text \o <<x>>
        /\ grown.native = Bind(before, k, Partly(b, has))
        /\ \A f \in DOMAIN state : f \notin {"text", "native"} => grown[f] = state[f]
    <3> DEFINE native == [state.native EXCEPT ![k] = [part EXCEPT !.text = had \o <<x>>]]
    <3> HIDE DEF part
    <3>1. DOMAIN grown = DOMAIN state /\
            \A f \in DOMAIN state : f \notin {"text", "native"} => grown[f] = state[f]
      OBVIOUS
    <3>2. grown.text = state.text \o <<x>> BY <1>1, <1>9
    <3>3. grown.native = native BY <1>1, <1>9, <2>3, <2>4
    <3>4. native = Bind(before, k, Partly(b, has)) BY <2>6
    <3> QED BY <3>1, <3>2, <3>3, <3>4
  <2> HIDE DEF grown, part
  <2>8. /\ DOMAIN last = DOMAIN state
        /\ \A f \in DOMAIN state : f # "semantic" => last[f] = grown[f]
    BY <2>7
  <2>9. step = Goes(last, <<TextDelta(frame.text)>>) BY <2>5 DEF AnthropicSemantic
  <2> HIDE DEF last
  <2>10. step.end = Open /\ step.state = last BY <2>9 DEF Goes
  <2>11. DecodesBlocks(last, bs, k - 1, model, fold)
    BY <1>1, <2>7, <2>8 DEF DecodesBlocks
  <2>12. last.text = TextOf(before) \o has
    <3>1. last.text = (TextOf(before) \o had) \o <<x>> BY <1>1, <1>10, <2>7, <2>8
    <3> DEFINE one == <<x>>
               front == TextOf(before)
    <3>2. IsSequence(one) /\ IsSequence(front) BY <1>6, <1>7
    <3> HIDE DEF one, front
    <3>3. (front \o had) \o one = front \o (had \o one) BY <1>6, <3>2, JoinsAnyhow
    <3> QED BY <1>5, <3>1, <3>3 DEF one, front
  <2>13. last.native = Bind(before, k, Partly(b, has)) /\ DOMAIN last.open = {}
    BY <1>1, <1>10, <2>7, <2>8
  <2>14. HasPart(last, bs, k, n + 1, model, fold)
    BY <1>10, <2>11, <2>12, <2>13 DEF HasPart, b, before, has, text
  <2> QED BY <2>10, <2>14 DEF step, frame, b
<1>11. CASE b.type = "thinking"
  <2> DEFINE last == [state EXCEPT !.native[frame.index].signature = @ \o frame.text]
             part == Partly(b, had)
  <2>1. frame.type = "thinking_delta" BY <1>9, <1>11 DEF DeltaType
  <2>2. state.native = Bind(before, k, part) BY <1>1, <1>11
  <2>3. k \in DOMAIN state.native /\ state.native[k] = part
    <3> DEFINE native == Bind(before, k, part)
    <3> HIDE DEF part
    <3>1. DOMAIN native = DOMAIN before \cup {k} /\ native[k] = part BY ZenonT(40), Binding
    <3> HIDE DEF native
    <3>2. state.native = native BY <2>2 DEF native
    <3> QED BY <3>1, <3>2
  <2>4. part.type = "thinking" /\ part.signature = had
    <3>1. part.type = "thinking" /\ Contents(part) = had BY <1>2, <1>11
    <3> HIDE DEF part
    <3> QED BY <3>1 DEF Contents
  <2>5. step = Goes(last, <<>>)
    <3>1. step = AnthropicThinkingDelta(state, frame) BY <2>1 DEF AnthropicFrame, step
    <3> QED BY <1>9, <2>3, <3>1 DEF AnthropicThinkingDelta
  <2>6. [state.native EXCEPT ![k] = [part EXCEPT !.signature = had \o <<x>>]] = Bind(before, k, Partly(b, has))
    <3>1. [part EXCEPT !.signature = has] = Partly(b, has)
      <4>1. Partly(part, has) = Partly(b, has) BY <1>2
      <4>2. Partly(part, has) = [part EXCEPT !.signature = has]
        <5> HIDE DEF part
        <5> QED BY <2>4 DEF Partly
      <4> QED BY <4>1, <4>2
    <3> DEFINE new == Partly(b, has)
    <3>2. [part EXCEPT !.signature = had \o <<x>>] = new BY <1>5, <3>1
    <3> HIDE DEF part, new
    <3>3. [Bind(before, k, part) EXCEPT ![k] = new] = Bind(before, k, new) BY BindingAgain
    <3>4. [state.native EXCEPT ![k] = new] = Bind(before, k, new) BY <2>2, <3>3
    <3> QED BY <3>2, <3>4 DEF new
  <2>7. /\ DOMAIN last = DOMAIN state
        /\ last.native = Bind(before, k, Partly(b, has))
        /\ \A f \in DOMAIN state : f # "native" => last[f] = state[f]
    <3> DEFINE native == [state.native EXCEPT ![k] = [part EXCEPT !.signature = had \o <<x>>]]
    <3> HIDE DEF part
    <3>1. last = [state EXCEPT !.native = native] BY <1>1, <1>9, <2>3, <2>4
    <3>2. native = Bind(before, k, Partly(b, has)) BY <2>6
    <3> HIDE DEF native, last
    <3> QED BY <1>1, <3>1, <3>2
  <2> HIDE DEF last, part
  <2>8. step.end = Open /\ step.state = last BY <2>5 DEF Goes
  <2>9. DecodesBlocks(last, bs, k - 1, model, fold) BY <1>1, <2>7 DEF DecodesBlocks
  <2>10. last.text = TextOf(before) \o <<>> /\ DOMAIN last.open = {} BY <1>1, <1>11, <2>7
  <2>11. HasPart(last, bs, k, n + 1, model, fold)
    BY <1>11, <2>7, <2>9, <2>10 DEF HasPart, b, before, has, text
  <2> QED BY <2>8, <2>11 DEF step, frame, b
<1>12. CASE b.type = "tool"
  <2> DEFINE grown == [state EXCEPT !.open[frame.index].arguments = @ \o frame.text]
             last == [grown EXCEPT !.semantic = TRUE]
             part == Partly(b, had)
             e == ToolDelta(state.open[frame.index].id, frame.text)
  <2>1. frame.type = "json_delta" BY <1>9, <1>12 DEF DeltaType
  <2>2. DOMAIN state.open = {k} /\ state.open[k] = part BY <1>1, <1>12
  <2>3. part.type = "tool" /\ part.arguments = had
    <3>1. part.type = "tool" /\ Contents(part) = had BY <1>2, <1>12
    <3> HIDE DEF part
    <3> QED BY <3>1 DEF Contents
  <2>4. step = AnthropicSemantic(grown, e)
    <3>1. step = AnthropicJsonDelta(state, frame) BY <2>1 DEF AnthropicFrame, step
    <3> QED BY <1>8, <1>9, <2>2, <3>1 DEF AnthropicJsonDelta
  <2>5. [part EXCEPT !.arguments = had \o <<x>>] = Partly(b, has)
    <3>1. Partly(part, has) = Partly(b, has) BY <1>2
    <3>2. Partly(part, has) = [part EXCEPT !.arguments = has]
      <4> HIDE DEF part
      <4> QED BY <2>3 DEF Partly
    <3> QED BY <1>5, <3>1, <3>2
  <2>6. /\ DOMAIN grown = DOMAIN state
        /\ DOMAIN grown.open = {k} /\ grown.open[k] = Partly(b, has)
        /\ \A f \in DOMAIN state : f # "open" => grown[f] = state[f]
    <3> DEFINE open == [state.open EXCEPT ![k] = [part EXCEPT !.arguments = had \o <<x>>]]
    <3> HIDE DEF part
    <3>1. grown = [state EXCEPT !.open = open] BY <1>1, <1>9, <2>2, <2>3
    <3>2. DOMAIN open = {k} /\ open[k] = Partly(b, has) BY <2>2, <2>5
    <3> HIDE DEF open, grown
    <3> QED BY <1>1, <3>1, <3>2
  <2> HIDE DEF grown, part, e
  <2>7. /\ DOMAIN last = DOMAIN state
        /\ \A f \in DOMAIN state : f # "semantic" => last[f] = grown[f]
    BY <2>6
  <2>8. step = Goes(last, <<e>>) BY <2>4 DEF AnthropicSemantic
  <2> HIDE DEF last
  <2>9. step.end = Open /\ step.state = last BY <2>8 DEF Goes
  <2>10. DecodesBlocks(last, bs, k - 1, model, fold) BY <1>1, <2>6, <2>7 DEF DecodesBlocks
  <2>11. /\ last.text = TextOf(before) \o <<>> /\ last.native = Bind(before, k, Partly(b, <<>>))
         /\ DOMAIN last.open = {k} /\ last.open[k] = Partly(b, has)
    BY <1>1, <1>12, <2>6, <2>7
  <2>12. HasPart(last, bs, k, n + 1, model, fold)
    BY <1>12, <2>10, <2>11 DEF HasPart, b, before, has, text
  <2> QED BY <2>9, <2>12 DEF step, frame, b
<1> QED BY <1>2, <1>10, <1>11, <1>12

\* It is done, or it is a call that is broken.
LEMMA BlockEnds ==
    ASSUME NEW state, NEW answer, AnswerFits(answer, "anthropic_messages"),
           NEW k \in 1 .. Len(answer.blocks), NEW model, NEW fold,
           HasPart(state, answer.blocks, k, Len(Contents(answer.blocks[k])), model, fold),
           NEW row, NEW intent
    PROVE  LET b == answer.blocks[k]
               step == AnthropicFrame(state, BlockStops(k), row, intent)
           IN \/ step.end = Open /\ HasBlocks(step.state, answer.blocks, k, model, fold)
              \/ /\ step.end # Open
                 /\ \E meta : Verdict(step) = Failure("InvalidToolArguments", meta)
                 /\ b.type = "tool" /\ b.arguments # <<>> /\ ~ IsObject(b.arguments)
<1> DEFINE bs == answer.blocks
           b == bs[k]
           ws == WholeBlocks(bs)
           w == ws[k]
           before == Initial(ws, k - 1)
           all == Initial(ws, k)
           frame == BlockStops(k)
           step == AnthropicFrame(state, frame, row, intent)
           text == Contents(b)
<1>1. /\ WordedBlocks(ws) /\ Len(ws) = Len(bs) /\ Len(bs) \in Nat
      /\ KnownBlock(b, "anthropic_messages")
      /\ w.type = b.type
      /\ b.type # "tool" => w = b
      /\ b.type = "tool" => /\ w = Partly(b, WholeArguments(b))
                            /\ w.arguments = WholeArguments(b)
                            /\ w.id = b.id /\ w.name = b.name
  BY WholeIs
<1>2. k \in Nat /\ k > 0 /\ k \in 1 .. Len(ws) BY <1>1
<1>3. /\ all = before \o <<w>>
      /\ TextOf(all) = TextOf(before) \o Spoken(w)
      /\ GeminiCalls(all) = GeminiCalls(before) \o Called(w)
      /\ IsSequence(TextOf(before)) /\ IsSequence(GeminiCalls(before))
  BY <1>1, <1>2, BlocksGrow
<1>4. all = Bind(before, k, w) BY <1>2, BindingNext
<1>5. frame.type = "block_stop" /\ frame.index = k BY DEF BlockStops
<1>6. step = AnthropicBlockStop(state, frame, row) BY <1>5 DEF AnthropicFrame
<1>7. b.type # "unknown" BY DEF HasPart
<1>8. /\ b.type \in {"text", "tool", "thinking"} /\ IsSequence(text) /\ Partly(b, text) = b
  BY <1>1, <1>7, PartlyIs
<1>9. Initial(text, Len(text)) = text BY <1>8, Initials
<1>10. /\ {"model", "fold", "stop", "text", "open", "tools", "native", "semantic"} \subseteq DOMAIN state
       /\ state.model = model /\ state.fold = fold
       /\ state.tools = GeminiCalls(before)
       /\ \A i \in 1 .. k - 1 : ws[i].type # "unknown" /\ (ws[i].type = "tool" => IsObject(ws[i].arguments))
       /\ state.text = TextOf(before) \o (IF b.type = "text" THEN text ELSE <<>>)
       /\ state.native = Bind(before, k, Partly(b, IF b.type = "tool" THEN <<>> ELSE text))
       /\ b.type = "tool" => DOMAIN state.open = {k} /\ state.open[k] = b
       /\ b.type # "tool" => DOMAIN state.open = {}
  BY <1>8, <1>9 DEF HasPart, DecodesBlocks
<1>11. \A i \in 1 .. k : i = k \/ i \in 1 .. k - 1 BY <1>2
<1> HIDE DEF before, all, frame, step, b, ws, w, text
<1>12. CASE b.type # "tool"
  <2>1. step = Goes(state, <<>>) BY <1>5, <1>6, <1>10, <1>12 DEF AnthropicBlockStop
  <2>2. step.end = Open /\ step.state = state BY <2>1 DEF Goes
  <2>3. Called(w) = <<>> BY <1>1, <1>12 DEF Called
  <2>4. GeminiCalls(all) = GeminiCalls(before)
    <3> DEFINE given == GeminiCalls(before)
    <3>1. IsSequence(given) /\ GeminiCalls(all) = given \o <<>> BY <1>3, <2>3
    <3> HIDE DEF given
    <3> QED BY <3>1, JoinsAnyhow DEF given
  <2>5. state.text = TextOf(all)
    <3>1. Spoken(w) = IF b.type = "text" THEN text ELSE <<>>
      BY <1>1, <1>12 DEF Spoken, text, Contents
    <3> QED BY <1>3, <1>10, <3>1
  <2>6. state.native = all BY <1>1, <1>4, <1>8, <1>10, <1>12
  <2>7. \A i \in 1 .. k : ws[i].type # "unknown" /\ (ws[i].type = "tool" => IsObject(ws[i].arguments))
    BY <1>1, <1>7, <1>10, <1>11, <1>12 DEF w
  <2>8. HasBlocks(state, bs, k, model, fold)
    BY <1>10, <1>12, <2>4, <2>5, <2>6, <2>7 DEF HasBlocks, DecodesBlocks, all, ws
  <2> QED BY <2>2, <2>8 DEF step, frame
<1>13. CASE b.type = "tool"
  <2> DEFINE whole == WholeArguments(b)
             given == [state.open[frame.index] EXCEPT
                         !.arguments = IF @ = <<>> THEN <<"{", "}">> ELSE @]
             asked == AnthropicToolCall(given)
             meta == Meta(row.model, AnthropicUsage(state.fold), "PossiblyBillable")
             failure == Failure("InvalidToolArguments", meta)
             closed == [state EXCEPT !.open = Unbind(@, frame.index),
                                     !.tools = Append(@, asked),
                                     !.native[frame.index].arguments = asked.arguments]
             last == [closed EXCEPT !.semantic = TRUE]
  <2>1. text = b.arguments BY <1>13 DEF text, Contents
  <2>4. /\ frame.index \in DOMAIN state.open /\ state.open[frame.index] = b
    BY <1>5, <1>10, <1>13
  <2>2. given = Partly(b, whole)
    <3>1. given = [b EXCEPT !.arguments = IF @ = <<>> THEN <<"{", "}">> ELSE @] BY <2>4
    <3> HIDE DEF given
    <3> QED BY <1>13, <3>1 DEF Partly, WholeArguments
  <2>3. asked = [id |-> b.id, name |-> b.name, arguments |-> whole]
    <3> HIDE DEF given, whole
    <3>1. given = w BY <1>1, <1>13, <2>2 DEF whole
    <3> QED BY <1>1, <1>13, <3>1 DEF AnthropicToolCall, whole
  <2>5. /\ ~ IsObject(whole) => step = Returns(state, <<Terminal(failure)>>)
        /\ IsObject(whole) => step = AnthropicSemantic(closed, ToolDone(asked))
    <3>1. asked.arguments = whole
      <4> HIDE DEF asked
      <4> QED BY <2>3
    <3>2. AnthropicBlockStop(state, frame, row) =
            IF ~ IsObject(asked.arguments) THEN Returns(state, <<Terminal(failure)>>)
            ELSE AnthropicSemantic(closed, ToolDone(asked))
      BY <2>4 DEF AnthropicBlockStop
    <3> HIDE DEF asked, closed, failure, whole
    <3> QED BY <1>6, <3>1, <3>2
  <2> HIDE DEF given
  <2>6. CASE ~ IsObject(whole)
    <3> HIDE DEF meta
    <3>1. step = Returns(state, <<Terminal(failure)>>) BY <2>5, <2>6
    <3>2. step.end # Open /\ Verdict(step) = Failure("InvalidToolArguments", meta)
      <4> HIDE DEF failure
      <4>1. step.end # Open /\ Verdict(step) = failure BY <3>1, Verdicts
      <4> QED BY <4>1 DEF failure
    <3>3. b.arguments # <<>> /\ ~ IsObject(b.arguments) BY <2>6 DEF WholeArguments, IsObject
    <3> QED BY <1>13, <3>2, <3>3 DEF step, frame, b
  <2>7. CASE IsObject(whole)
    <3> HIDE DEF whole
    <3>1. asked.arguments = whole /\ Called(w) = <<asked>>
      <4> HIDE DEF asked
      <4>1. asked.arguments = whole BY <2>3
      <4>2. w.type = "tool" /\ w.id = b.id /\ w.name = b.name /\ w.arguments = whole
        BY <1>1, <1>13 DEF whole
      <4> QED BY <2>3, <4>1, <4>2 DEF Called
    <3> HIDE DEF asked
    <3>2. state.native = Bind(before, k, Partly(b, <<>>)) BY <1>10, <1>13
    <3> DEFINE empty == Partly(b, <<>>)
               native == [state.native EXCEPT ![k] = [empty EXCEPT !.arguments = whole]]
    <3>3. empty.type = "tool" /\ Partly(empty, whole) = Partly(b, whole)
      BY <1>1, <1>7, <1>13, PartlyIs
    <3> HIDE DEF empty
    <3>4. [empty EXCEPT !.arguments = whole] = w
      <4>1. Partly(empty, whole) = [empty EXCEPT !.arguments = whole] BY <3>3 DEF Partly
      <4> QED BY <1>1, <1>13, <3>3, <4>1 DEF whole
    <3>5. native = all
      <4>1. [Bind(before, k, empty) EXCEPT ![k] = w] = Bind(before, k, w) BY BindingAgain
      <4>2. state.native = Bind(before, k, empty) BY <3>2 DEF empty
      <4> QED BY <1>4, <3>4, <4>1, <4>2
    <3>6. k \in DOMAIN state.native /\ state.native[k] = empty
      <4> DEFINE m == Bind(before, k, empty)
      <4>1. DOMAIN m = DOMAIN before \cup {k} /\ m[k] = empty BY ZenonT(40), Binding
      <4>2. state.native = m BY <3>2 DEF empty
      <4> HIDE DEF m
      <4> QED BY <4>1, <4>2
    <3>7. /\ DOMAIN closed = DOMAIN state
          /\ \A f \in DOMAIN state : f \notin {"open", "tools", "native"} => closed[f] = state[f]
      OBVIOUS
    <3>8. /\ closed.open = Unbind(state.open, k)
          /\ closed.tools = Append(state.tools, asked)
          /\ closed.native = native
      BY <1>5, <1>10, <3>1, <3>6
    <3> HIDE DEF closed, native
    <3>9. /\ DOMAIN last = DOMAIN state
          /\ \A f \in DOMAIN state : f # "semantic" => last[f] = closed[f]
      BY <3>7
    <3>10. step = Goes(last, <<ToolDone(asked)>>) BY <2>5, <2>7 DEF AnthropicSemantic
    <3> HIDE DEF last
    <3>11. step.end = Open /\ step.state = last BY <3>10 DEF Goes
    <3>12. last.tools = GeminiCalls(all)
      <4> DEFINE had == GeminiCalls(before)
                 S == {had[i] : i \in DOMAIN had} \cup {asked}
      <4>1. had \in Seq(S) /\ asked \in S BY <1>3 DEF IsSequence
      <4>2. last.tools = Append(had, asked) BY <1>10, <3>8, <3>9
      <4>3. GeminiCalls(all) = had \o <<asked>> BY <1>3, <3>1
      <4> HIDE DEF had, S
      <4>4. Append(had, asked) = had \o <<asked>> BY <4>1
      <4> QED BY <4>2, <4>3, <4>4
    <3>13. last.text = TextOf(all)
      <4>1. Spoken(w) = <<>> BY <1>1, <1>13 DEF Spoken
      <4> QED BY <1>3, <1>10, <1>13, <3>7, <3>9, <4>1
    <3>14. DOMAIN last.open = {}
      <4> DEFINE was == state.open
                 now == Unbind(was, k)
      <4>1. DOMAIN was = {k} BY <1>10, <1>13
      <4>2. last.open = now BY <1>10, <3>8, <3>9
      <4> HIDE DEF was
      <4>3. DOMAIN now = DOMAIN was \ {k} BY DEF Unbind
      <4> HIDE DEF now
      <4> QED BY <4>1, <4>2, <4>3
    <3>15. last.native = all /\ last.model = model /\ last.fold = fold
      BY <1>10, <3>5, <3>7, <3>8, <3>9
    <3>16. \A i \in 1 .. k : ws[i].type # "unknown" /\ (ws[i].type = "tool" => IsObject(ws[i].arguments))
      BY <1>1, <1>10, <1>11, <1>13, <2>7 DEF w, whole
    <3>17. HasBlocks(last, bs, k, model, fold)
      BY <1>10, <3>9, <3>12, <3>13, <3>14, <3>15, <3>16 DEF HasBlocks, DecodesBlocks, all, ws
    <3> QED BY <3>11, <3>17 DEF step, frame
  <2> QED BY <2>6, <2>7
<1> QED BY <1>12, <1>13

\* The blocks, bound in order, are in order.
LEMMA AlreadyInOrder ==
    ASSUME NEW s, IsSequence(s)
    PROVE  InOrder(s) = s
<1> DEFINE m == Len(s)
           keys == 1 .. m
<1>1. m \in Nat /\ DOMAIN s = keys /\ s = [i \in keys |-> s[i]] BY DEF IsSequence
<1> HIDE DEF m
<1>2. Cardinality(keys) = m
  <2>0. 1 \in Int /\ m \in Int BY <1>1
  <2>1. Cardinality(1 .. m) = IF 1 > m THEN 0 ELSE m - 1 + 1 BY <2>0, FS_Interval
  <2> QED BY <1>1, <2>1
<1>3. \A key \in keys : Cardinality({k \in keys : k < key}) = key - 1
  <2> TAKE key \in keys
  <2>1. {k \in keys : k < key} = 1 .. key - 1 BY <1>1
  <2>0. 1 \in Int /\ key - 1 \in Int BY <1>1
  <2>2. Cardinality(1 .. key - 1) = IF 1 > key - 1 THEN 0 ELSE (key - 1) - 1 + 1
    BY <2>0, FS_Interval
  <2>3. Cardinality(1 .. key - 1) = key - 1 BY <1>1, <2>2
  <2> QED BY <2>1, <2>3
<1>4. \A i \in keys : KeyAt(keys, i) = i
  <2> TAKE i \in keys
  <2>1. \A key \in keys : Cardinality({k \in keys : k < key}) = i - 1 => key = i
    BY <1>1, <1>3
  <2>2. \E key \in keys : Cardinality({k \in keys : k < key}) = i - 1 BY <1>3
  <2> DEFINE P(key) == Cardinality({k \in keys : k < key}) = i - 1
  <2>3. KeyAt(keys, i) = CHOOSE key \in keys : P(key) BY DEF KeyAt
  <2>4. /\ \A key \in keys : P(key) => key = i
        /\ \E key \in keys : P(key)
    BY <2>1, <2>2
  <2> HIDE DEF P
  <2> QED BY <2>3, <2>4
<1>5. InOrder(s) = [i \in 1 .. Cardinality(DOMAIN s) |-> s[KeyAt(DOMAIN s, i)]] BY DEF InOrder
<1>6. InOrder(s) = [i \in keys |-> s[KeyAt(keys, i)]] BY <1>1, <1>2, <1>5
<1>7. [i \in keys |-> s[KeyAt(keys, i)]] = [i \in keys |-> s[i]] BY <1>4
<1> QED BY <1>1, <1>6, <1>7

\* The frames around the blocks.
MessageStart(answer, row) ==
    [type |-> "message_start", model |-> row.model,
     usage |-> [AnthropicResponse(answer).usage EXCEPT !.output = Absent]]
MessageDelta(answer) ==
    [type |-> "message_delta", stop |-> answer.finish,
     usage |-> [AnthropicNoUsage EXCEPT !.output = answer.output]]
MessageStop == [type |-> "message_stop"]

\* The usage the stream tells in two frames is the usage of the whole answer.
FirstFold(answer, row) == AnthropicAbsorb(AnthropicNoUsage, MessageStart(answer, row).usage)
WholeFold(answer) == AnthropicAbsorb(AnthropicNoUsage, AnthropicResponse(answer).usage)

LEMMA FoldsAgree ==
    ASSUME NEW answer, NEW row
    PROVE  AnthropicAbsorb(FirstFold(answer, row), MessageDelta(answer).usage) = WholeFold(answer)
<1> DEFINE counts == {"input", "output", "read", "write"}
           whole == AnthropicResponse(answer).usage
           first == [whole EXCEPT !.output = Absent]
           second == [AnthropicNoUsage EXCEPT !.output = answer.output]
<1>1. DOMAIN AnthropicNoUsage = counts /\ \A k \in counts : AnthropicNoUsage[k] = Absent
  BY DEF AnthropicNoUsage
<1>2. whole = [AnthropicNoUsage EXCEPT !.input = 2, !.output = answer.output, !.read = 1]
  BY DEF AnthropicResponse
<1>3. MessageStart(answer, row).usage = first /\ MessageDelta(answer).usage = second
  BY DEF MessageStart, MessageDelta
<1> HIDE DEF counts
<1>4. /\ DOMAIN whole = counts /\ whole.output = answer.output
      /\ first = [k \in counts |-> IF k = "output" THEN Absent ELSE whole[k]]
      /\ second = [k \in counts |-> IF k = "output" THEN answer.output ELSE Absent]
  <2>1. DOMAIN whole = counts BY <1>1, <1>2
  <2>2. "output" \in counts BY DEF counts
  <2>3. whole.output = answer.output BY <1>1, <1>2, <2>2
  <2> HIDE DEF whole
  <2>4. first = [k \in counts |-> IF k = "output" THEN Absent ELSE whole[k]] BY <2>1
  <2>5. second = [k \in counts |-> IF k = "output" THEN answer.output ELSE Absent] BY <1>1
  <2> QED BY <2>1, <2>3, <2>4, <2>5
<1> HIDE DEF whole, first, second
<1>5. FirstFold(answer, row) = [k \in counts |-> first[k]]
  <2>1. FirstFold(answer, row)
          = [k \in counts |-> IF first[k] = Absent THEN AnthropicNoUsage[k] ELSE first[k]]
    BY <1>1, <1>3 DEF FirstFold, AnthropicAbsorb
  <2> QED BY <1>1, <2>1
<1>6. WholeFold(answer) = [k \in counts |-> whole[k]]
  <2>1. WholeFold(answer)
          = [k \in counts |-> IF whole[k] = Absent THEN AnthropicNoUsage[k] ELSE whole[k]]
    BY <1>1 DEF WholeFold, AnthropicAbsorb, whole
  <2> QED BY <1>1, <2>1
<1>7. AnthropicAbsorb(FirstFold(answer, row), second)
        = [k \in counts |-> IF second[k] = Absent THEN FirstFold(answer, row)[k] ELSE second[k]]
  BY <1>5 DEF AnthropicAbsorb
<1>8. \A k \in counts :
        (IF second[k] = Absent THEN FirstFold(answer, row)[k] ELSE second[k]) = whole[k]
  BY <1>4, <1>5
<1> QED BY <1>3, <1>6, <1>7, <1>8

\* The decoder has been told why the model stopped.
HasStopped(state, answer, row) ==
    /\ HasBlocks(state, answer.blocks, Len(answer.blocks), row.model, WholeFold(answer))
    /\ state.stop = answer.finish

LEMMA AnthropicReasons ==
    ASSUME NEW answer, answer.finish # Absent, NEW row, NEW intent, NEW state,
           HasBlocks(state, answer.blocks, Len(answer.blocks), row.model, FirstFold(answer, row))
    PROVE  LET step == AnthropicFrame(state, MessageDelta(answer), row, intent) IN
           step.end = Open /\ HasStopped(step.state, answer, row)
<1> DEFINE frame == MessageDelta(answer)
           step == AnthropicFrame(state, frame, row, intent)
           told == [state EXCEPT !.stop = IF frame.stop = Absent THEN @ ELSE frame.stop,
                                 !.fold = AnthropicAbsorb(@, frame.usage)]
           usage == AnthropicUsage(told.fold)
           last == [told EXCEPT !.semantic = TRUE]
<1>1. frame.type = "message_delta" /\ frame.stop = answer.finish BY DEF MessageDelta
<1>2. step = AnthropicMessageDelta(state, frame) BY <1>1 DEF AnthropicFrame
<1>3. /\ {"model", "fold", "stop", "text", "open", "tools", "native", "semantic"} \subseteq DOMAIN state
      /\ state.fold = FirstFold(answer, row)
  BY DEF HasBlocks, DecodesBlocks
<1>4. AnthropicAbsorb(FirstFold(answer, row), frame.usage) = WholeFold(answer) BY FoldsAgree
<1> HIDE DEF frame, step
<1>5. /\ DOMAIN told = DOMAIN state /\ told.stop = answer.finish /\ told.fold = WholeFold(answer)
      /\ \A f \in DOMAIN state : f \notin {"stop", "fold"} => told[f] = state[f]
  BY <1>1, <1>3, <1>4
<1>6. step \in {Goes(told, <<>>), AnthropicSemantic(told, UsageEvent(usage))}
  BY <1>2 DEF AnthropicMessageDelta
<1> HIDE DEF told, usage
<1>7. /\ DOMAIN last = DOMAIN state /\ last.stop = answer.finish /\ last.fold = WholeFold(answer)
      /\ \A f \in DOMAIN state : f \notin {"stop", "fold", "semantic"} => last[f] = state[f]
  BY <1>3, <1>5
<1>8. step.end = Open /\ step.state \in {told, last}
  <2>1. AnthropicSemantic(told, UsageEvent(usage)) = Goes(last, <<UsageEvent(usage)>>)
    BY DEF AnthropicSemantic
  <2> HIDE DEF last
  <2> QED BY <1>6, <2>1 DEF Goes
<1> HIDE DEF last
<1>9. ASSUME NEW st, DOMAIN st = DOMAIN state, st.stop = answer.finish, st.fold = WholeFold(answer),
             \A f \in DOMAIN state : f \notin {"stop", "fold", "semantic"} => st[f] = state[f]
      PROVE  HasStopped(st, answer, row)
  <2>1. /\ st.model = state.model /\ st.text = state.text /\ st.open = state.open
        /\ st.tools = state.tools /\ st.native = state.native
    BY <1>3, <1>9
  <2> QED BY <1>9, <2>1 DEF HasStopped, HasBlocks, DecodesBlocks
<1>10. HasStopped(told, answer, row) BY <1>5, <1>9
<1>11. HasStopped(last, answer, row) BY <1>7, <1>9
<1> QED BY <1>8, <1>10, <1>11 DEF step, frame

\* The last frame: what the stream concludes is what is made of the whole answer
\* (anthropic_messages.py, _decode_message and stream).
LEMMA AnthropicLast ==
    ASSUME NEW answer, AnswerFits(answer, "anthropic_messages"),
           NEW row, row.model # Absent, row.engine = "anthropic_messages",
           NEW state, HasStopped(state, answer, row), NEW intent
    PROVE  LET step == AnthropicFrame(state, MessageStop, row, intent)
               whole == AnthropicDecode(row, intent, AnthropicResponse(answer))
           IN step.end # Open /\ Agreeing(row, answer, Verdict(step), whole)
<1> DEFINE response == AnthropicResponse(answer)
           bs == answer.blocks
           ws == WholeBlocks(bs)
           N == Len(bs)
           tools == ToolsOf(ws)
           step == AnthropicFrame(state, MessageStop, row, intent)
           whole == AnthropicDecode(row, intent, response)
           usage == AnthropicUsage(WholeFold(answer))
           meta == Meta(row.model, usage, "PossiblyBillable")
           refused == Meta(row.model, usage, AnthropicRefusalBillability(usage))
           stopped == AnthropicStopped(answer.finish, meta)
           made == Answer(row, intent, TextOf(ws), GeminiCalls(ws), ws, meta)
           outcome == IF answer.finish = "refusal" THEN Incomplete("content_filter_partial", refused)
                      ELSE IF stopped # Absent THEN stopped
                      ELSE made
<1>1. /\ response.blocks = ws /\ WordedBlocks(ws) /\ Len(ws) = N /\ N \in Nat
      /\ DOMAIN ws = 1 .. N /\ Initial(ws, N) = ws
  BY WholeIs
<1>2. /\ state.stop = answer.finish /\ state.model = row.model /\ state.fold = WholeFold(answer)
      /\ state.text = TextOf(ws) /\ state.native = ws /\ state.tools = GeminiCalls(ws)
      /\ \A i \in 1 .. N : ws[i].type # "unknown" /\ (ws[i].type = "tool" => IsObject(ws[i].arguments))
  BY <1>1 DEF HasStopped, HasBlocks, DecodesBlocks
<1>3. response.stop = answer.finish /\ WholeFold(answer) = AnthropicAbsorb(AnthropicNoUsage, response.usage)
  BY DEF AnthropicResponse, WholeFold
<1>4. InOrder(ws) = ws BY <1>1, AlreadyInOrder DEF WordedBlocks
<1> HIDE DEF ws, response
<1>5. \A block \in ToSet(ws) : block.type # "unknown" BY <1>1, <1>2 DEF ToSet
<1>6. \A block \in ToSet(tools) : IsObject(block.arguments)
  <2>1. ASSUME NEW i \in DOMAIN tools PROVE IsObject(tools[i].arguments)
    <3>1. N \in 0 .. Len(ws) BY <1>1
    <3>2. PICK k \in 1 .. N : ws[k] = tools[i] /\ ws[k].type = "tool"
      BY <1>1, <3>1, ToolsAreBlocks
    <3> QED BY <1>2, <3>2
  <2> HIDE DEF tools
  <2> QED BY <2>1 DEF ToSet
<1>7. [i \in DOMAIN tools |-> AnthropicToolCall(tools[i])] = GeminiCalls(ws)
  BY DEF AnthropicToolCall, GeminiCalls
<1>8. whole = IF answer.finish = "refusal" THEN Outcome("Refused", "", refused)
              ELSE IF stopped # Absent THEN stopped
              ELSE made
  <2> HIDE DEF meta, refused, stopped
  <2>1. /\ usage = AnthropicUsage(AnthropicAbsorb(AnthropicNoUsage, response.usage))
        /\ tools = ToolsOf(response.blocks) /\ response.blocks = ws
    BY <1>1, <1>3
  <2> HIDE DEF usage, tools
  <2>2. stopped = AnthropicStopped(response.stop, meta) BY <1>3 DEF stopped
  <2> QED BY <1>3, <1>5, <1>6, <1>7, <2>1, <2>2 DEF AnthropicDecode, meta, refused
<1>9. step = Conclusion(state, outcome)
  <2>1. step = AnthropicMessageStop(state, row, intent) BY DEF AnthropicFrame, MessageStop
  <2>2. /\ usage = AnthropicUsage(state.fold)
        /\ meta = Meta(state.model, AnthropicUsage(state.fold), "PossiblyBillable")
        /\ refused = Meta(state.model, AnthropicUsage(state.fold),
                          AnthropicRefusalBillability(AnthropicUsage(state.fold)))
        /\ made = Answer(row, intent, state.text, state.tools, InOrder(state.native), meta)
        /\ stopped = AnthropicStopped(state.stop, meta)
    BY <1>2, <1>4
  <2>3. state.model # Absent BY <1>2
  <2> HIDE DEF meta, refused, made, stopped, usage, step
  <2> QED BY <1>2, <2>1, <2>2, <2>3 DEF AnthropicMessageStop, Conclusion
<1>10. stopped \in {Incomplete("max_output_tokens", meta), Failure("ProviderContextTooLarge", meta),
                    Absent, Defect("unknown_stop_reason")}
  <2> HIDE DEF meta
  <2> QED BY DEF AnthropicStopped
<1>11. Sound(outcome)
  <2>1. Sound(made) BY SoundOutcomes
  <2>2. stopped # Absent => Sound(stopped)
    <3> HIDE DEF stopped, meta
    <3> QED BY <1>10, SoundOutcomes
  <2> HIDE DEF made, stopped, refused
  <2> QED BY <2>1, <2>2, SoundOutcomes
<1> HIDE DEF made, stopped
<1>12. step.end # Open /\ Verdict(step) = outcome
  <2> HIDE DEF step, outcome
  <2> QED BY <1>9, <1>11, Verdicts
<1>13. Agreeing(row, answer, outcome, whole)
  <2> HIDE DEF whole, refused
  <2>1. CASE answer.finish # "refusal" BY <1>8, <2>1 DEF Agreeing
  <2>2. CASE answer.finish = "refusal"
    <3>1. outcome = Incomplete("content_filter_partial", refused) /\ whole = Outcome("Refused", "", refused)
      BY <1>8, <2>2
    <3> QED BY <3>1, ShortOutcomes DEF Agreeing
  <2> QED BY <2>1, <2>2
<1> QED BY <1>12, <1>13 DEF response

\* Where the decoder stands in the frames of an answer.
BlocksFrames(bs) == [i \in DOMAIN bs |-> AnthropicBlockFrames(bs[i], i)]
AnthropicTail(answer) == <<MessageDelta(answer), MessageStop>>
AnthropicRest(answer, k) == Later(BlocksFrames(answer.blocks), k) \o AnthropicTail(answer)
AnthropicAt(state, frames, answer, row) ==
    LET bs == answer.blocks
        fold == FirstFold(answer, row)
    IN \/ state = AnthropicStart /\ frames = <<MessageStart(answer, row)>> \o AnthropicRest(answer, 0)
       \/ \E k \in 0 .. Len(bs) :
            HasBlocks(state, bs, k, row.model, fold) /\ frames = AnthropicRest(answer, k)
       \/ \E k \in 1 .. Len(bs) : \E n \in 0 .. Len(Contents(bs[k])) :
            /\ HasPart(state, bs, k, n, row.model, fold)
            /\ frames = (Dropped(BlockBody(bs[k], k), n) \o <<BlockStops(k)>>) \o AnthropicRest(answer, k)
       \/ HasStopped(state, answer, row) /\ frames = <<MessageStop>>
AnthropicFollowing(row, intent, answer, step, frames) ==
    \/ step.end = Open /\ AnthropicAt(step.state, frames, answer, row)
    \/ /\ step.end # Open
       /\ Agreeing(row, answer, Verdict(step),
                   AnthropicDecode(row, intent, AnthropicResponse(answer)))

LEMMA BlocksUnroll ==
    ASSUME NEW answer, AnswerFits(answer, "anthropic_messages")
    PROVE  LET bs == answer.blocks
               p == BlocksFrames(bs)
           IN /\ Pieces(p) /\ Len(p) = Len(bs)
              /\ \A k \in 1 .. Len(bs) :
                   /\ IsSequence(BlockBody(bs[k], k) \o <<BlockStops(k)>>)
                   /\ p[k] = <<BlockOpens(bs[k], k)>> \o (BlockBody(bs[k], k) \o <<BlockStops(k)>>)
<1> DEFINE bs == answer.blocks
           p == BlocksFrames(bs)
           now(k) == BlockBody(bs[k], k) \o <<BlockStops(k)>>
<1>1. /\ WordedBlocks(bs) /\ Len(bs) \in Nat /\ DOMAIN bs = 1 .. Len(bs)
      /\ \A i \in 1 .. Len(bs) : KnownBlock(bs[i], "anthropic_messages")
  BY AnswerBlocks
<1> HIDE DEF bs
<1>2. IsSequence(bs) BY <1>1 DEF WordedBlocks
<1>3. MadeOf(p, bs) /\ \A k \in DOMAIN bs : p[k] = AnthropicBlockFrames(bs[k], k)
  BY DEF MadeOf, BlocksFrames
<1> HIDE DEF p
<1>4. IsSequence(p) /\ Len(p) = Len(bs) BY <1>2, <1>3, MadeIsSequence
<1>5. ASSUME NEW k \in 1 .. Len(bs)
      PROVE  IsSequence(now(k)) /\ p[k] = <<BlockOpens(bs[k], k)>> \o now(k) /\ IsSequence(p[k])
  <2>1. /\ IsSequence(BlockBody(bs[k], k))
        /\ AnthropicBlockFrames(bs[k], k) = <<BlockOpens(bs[k], k)>> \o now(k)
    BY <1>1, BlockFramesAre
  <2>2. IsSequence(now(k))
    <3> DEFINE stop == <<BlockStops(k)>>
    <3>1. IsSequence(stop) BY DEF IsSequence
    <3> HIDE DEF stop
    <3>2. IsSequence(BlockBody(bs[k], k) \o stop) BY <2>1, <3>1, JoinsAnyhow
    <3> QED BY <3>2 DEF stop
  <2> HIDE DEF now
  <2>3. IsSequence(<<BlockOpens(bs[k], k)>> \o now(k)) BY <2>2, HeadOfJoin
  <2> QED BY <1>1, <1>3, <2>1, <2>2, <2>3
<1>6. Pieces(p)
  <2>1. DOMAIN p = 1 .. Len(bs) BY <1>1, <1>3 DEF MadeOf
  <2> QED BY <1>4, <1>5, <2>1 DEF Pieces
<1> QED BY <1>4, <1>5, <1>6 DEF bs, p, now

LEMMA AnthropicFollows ==
    ASSUME NEW answer, AnswerFits(answer, "anthropic_messages"),
           NEW row, row.model # Absent, row.engine = "anthropic_messages",
           NEW state, NEW frames, AnthropicAt(state, frames, answer, row), NEW intent
    PROVE  /\ frames # <<>>
           /\ AnthropicFollowing(row, intent, answer,
                                 AnthropicFrame(state, Head(frames), row, intent), Tail(frames))
<1> DEFINE bs == answer.blocks
           N == Len(bs)
           p == BlocksFrames(bs)
           tail == AnthropicTail(answer)
           fold == FirstFold(answer, row)
           ws == WholeBlocks(bs)
           L(i) == AnthropicRest(answer, i)
           Left(i, n) == Dropped(BlockBody(bs[i], i), n) \o <<BlockStops(i)>>
           whole == AnthropicDecode(row, intent, AnthropicResponse(answer))
           At(st, fs) == AnthropicAt(st, fs, answer, row)
           step == AnthropicFrame(state, Head(frames), row, intent)
           Goal == /\ frames # <<>>
                   /\ AnthropicFollowing(row, intent, answer, step, Tail(frames))
<1>1. /\ WordedBlocks(bs) /\ N \in Nat
      /\ \A i \in 1 .. N : /\ KnownBlock(bs[i], "anthropic_messages")
                          /\ IsSequence(TextOf(Initial(ws, i - 1)))
  <2>1. /\ WordedBlocks(bs) /\ N \in Nat
        /\ \A i \in 1 .. N : KnownBlock(bs[i], "anthropic_messages")
    BY AnswerBlocks
  <2>2. WordedBlocks(ws) /\ Len(ws) = N BY WholeIs
  <2> HIDE DEF ws
  <2>3. \A i \in 1 .. N : IsSequence(TextOf(Initial(ws, i - 1))) BY <2>2, BlocksGrow
  <2> QED BY <2>1, <2>3
<1>2. /\ Pieces(p) /\ Len(p) = N
      /\ \A i \in 1 .. N :
           /\ IsSequence(BlockBody(bs[i], i) \o <<BlockStops(i)>>)
           /\ p[i] = <<BlockOpens(bs[i], i)>> \o (BlockBody(bs[i], i) \o <<BlockStops(i)>>)
  BY BlocksUnroll
<1>3. \A i : L(i) = Later(p, i) \o tail BY DEF AnthropicRest
<1>4. IsSequence(tail) BY DEF AnthropicTail, IsSequence
<1>5. /\ \A st, fs : \A i \in 0 .. N :
           fs = L(i) /\ HasBlocks(st, bs, i, row.model, fold) => At(st, fs)
      /\ \A st, fs : \A i \in 1 .. N : \A n \in 0 .. Len(Contents(bs[i])) :
           fs = Left(i, n) \o L(i) /\ HasPart(st, bs, i, n, row.model, fold) => At(st, fs)
      /\ \A st, fs : HasStopped(st, answer, row) /\ fs = <<MessageStop>> => At(st, fs)
  <2>1. \A st, fs : \A i \in 0 .. N :
          fs = L(i) /\ HasBlocks(st, bs, i, row.model, fold) => At(st, fs)
    BY DEF AnthropicAt
  <2>2. ASSUME NEW st, NEW fs, NEW i \in 1 .. N, NEW n \in 0 .. Len(Contents(bs[i])),
               fs = Left(i, n) \o L(i), HasPart(st, bs, i, n, row.model, fold)
        PROVE  At(st, fs)
    BY <2>2 DEF AnthropicAt
  <2>3. \A st, fs : HasStopped(st, answer, row) /\ fs = <<MessageStop>> => At(st, fs)
    BY DEF AnthropicAt
  <2> HIDE DEF At, L, Left, fold, bs, N
  <2> QED BY <2>1, <2>2, <2>3
<1>6. \A st, fs : st.end = Open /\ At(st.state, fs) => AnthropicFollowing(row, intent, answer, st, fs)
  BY DEF AnthropicFollowing
<1>7. \A st, fs : st.end # Open /\ Agreeing(row, answer, Verdict(st), whole)
                 => AnthropicFollowing(row, intent, answer, st, fs)
  BY DEF AnthropicFollowing
<1>8. \/ state = AnthropicStart /\ frames = <<MessageStart(answer, row)>> \o L(0)
      \/ \E k \in 0 .. N : HasBlocks(state, bs, k, row.model, fold) /\ frames = L(k)
      \/ \E k \in 1 .. N : \E n \in 0 .. Len(Contents(bs[k])) :
           /\ HasPart(state, bs, k, n, row.model, fold) /\ frames = Left(k, n) \o L(k)
      \/ HasStopped(state, answer, row) /\ frames = <<MessageStop>>
  BY DEF AnthropicAt
<1> HIDE DEF p, L, tail, At, whole, fold, Left
<1>9. \A i \in 0 .. N : IsSequence(L(i))
  <2> TAKE i \in 0 .. N
  <2>1. IsSequence(Later(p, i)) BY <1>2, LaterUnrolls
  <2> QED BY <1>3, <1>4, <2>1, JoinsAnyhow
<1> HIDE DEF bs, N, ws
<1>10. CASE state = AnthropicStart /\ frames = <<MessageStart(answer, row)>> \o L(0)
  <2> DEFINE frame == MessageStart(answer, row)
             told == [state EXCEPT !.model = row.model, !.fold = fold]
  <2>1. 0 \in 0 .. N BY <1>1
  <2>2. frames # <<>> /\ Head(frames) = frame /\ Tail(frames) = L(0)
    <3> HIDE DEF frame
    <3> QED BY <1>9, <1>10, <2>1, HeadOfJoin DEF frame
  <2>3. frame.type = "message_start" /\ frame.model = row.model BY DEF MessageStart
  <2>4. AnthropicAbsorb(AnthropicNoUsage, frame.usage) = fold BY DEF FirstFold, fold
  <2> HIDE DEF frame
  <2>5. state.fold = AnthropicNoUsage BY <1>10 DEF AnthropicStart
  <2>6. step = Goes(told, <<>>) BY <2>2, <2>3, <2>4, <2>5 DEF AnthropicFrame
  <2>7. /\ DOMAIN told = DOMAIN state /\ told.model = row.model /\ told.fold = fold
        /\ \A f \in DOMAIN state : f \notin {"model", "fold"} => told[f] = state[f]
    BY <1>10 DEF AnthropicStart
  <2> HIDE DEF told
  <2>8. step.end = Open /\ step.state = told BY <2>6 DEF Goes
  <2>9. HasBlocks(told, bs, 0, row.model, fold)
    <3>1. /\ {"model", "fold", "stop", "text", "open", "tools", "native", "semantic"} \subseteq DOMAIN state
          /\ state.text = <<>> /\ state.open = <<>> /\ state.tools = <<>> /\ state.native = <<>>
      BY <1>10 DEF AnthropicStart
    <3>2. /\ {"model", "fold", "stop", "text", "open", "tools", "native", "semantic"} \subseteq DOMAIN told
          /\ told.text = <<>> /\ told.open = <<>> /\ told.tools = <<>> /\ told.native = <<>>
      BY <2>7, <3>1
    <3>3. Initial(ws, 0) = <<>> BY DEF Initial
    <3>4. ToolsOf(<<>>) = <<>> /\ TextOf(<<>>) = <<>>
      <4>1. ToolsOf(<<>>) = Concat(<<>>) /\ TextOf(<<>>) = Concat(<<>>) BY DEF ToolsOf, TextOf
      <4> QED BY <4>1, ConcatFew
    <3>5. GeminiCalls(<<>>) = <<>> BY <3>4 DEF GeminiCalls
    <3>6. DOMAIN told.open = {} BY <3>2
    <3>7. told.model = row.model /\ told.fold = fold BY <2>7
    <3>8. \A i \in 1 .. 0 : ws[i].type # "unknown" /\ (ws[i].type = "tool" => IsObject(ws[i].arguments))
      OBVIOUS
    <3> QED BY <3>2, <3>3, <3>4, <3>5, <3>6, <3>7, <3>8 DEF HasBlocks, DecodesBlocks, ws
  <2>10. At(step.state, Tail(frames)) BY <1>5, <2>1, <2>2, <2>8, <2>9
  <2> QED BY <1>6, <2>2, <2>8, <2>10
<1>11. ASSUME NEW k \in 0 .. N, HasBlocks(state, bs, k, row.model, fold), frames = L(k), k = N
       PROVE  Goal
  <2> DEFINE frame == MessageDelta(answer)
  <2>1. frames = <<frame, MessageStop>>
    <3>1. Later(p, N) = <<>> BY <1>2, LaterUnrolls
    <3>2. L(N) = tail BY <1>3, <1>4, <3>1, JoinsAnyhow
    <3> QED BY <1>11, <3>2 DEF tail, AnthropicTail
  <2> HIDE DEF frame
  <2>2. frames # <<>> /\ Head(frames) = frame /\ Tail(frames) = <<MessageStop>> BY <2>1
  <2>3. step = AnthropicFrame(state, MessageDelta(answer), row, intent) BY <2>2 DEF frame
  <2>4. step.end = Open /\ HasStopped(step.state, answer, row)
    <3>1. HasBlocks(state, answer.blocks, Len(answer.blocks), row.model, FirstFold(answer, row))
      BY <1>11 DEF bs, N, fold
    <3>2. answer.finish # Absent BY DEF AnswerFits
    <3> QED BY <2>3, <3>1, <3>2, AnthropicReasons
  <2>5. At(step.state, Tail(frames)) BY <1>5, <2>2, <2>4
  <2> QED BY <1>6, <2>2, <2>4, <2>5
<1>12. ASSUME NEW k \in 0 .. N, HasBlocks(state, bs, k, row.model, fold), frames = L(k), k # N
       PROVE  Goal
  <2> DEFINE b == bs[k + 1]
             opens == BlockOpens(b, k + 1)
             now == BlockBody(b, k + 1) \o <<BlockStops(k + 1)>>
  <2>1. /\ k + 1 \in 1 .. N /\ k + 1 \in 0 .. N /\ k + 1 > 0 /\ (k + 1) - 1 = k
        /\ k + 1 \in Nat
    BY <1>1, <1>12
  <2>2. IsSequence(now) /\ p[k + 1] = <<opens>> \o now BY <1>2, <2>1
  <2> HIDE DEF opens, now
  <2>3. L(k) = (<<opens>> \o now) \o L(k + 1) /\ IsSequence(L(k + 1))
    <3>1. Later(p, k) \o tail = (<<opens>> \o now) \o (Later(p, k + 1) \o tail)
      <4> DEFINE a == <<opens>> \o now
                 later == Later(p, k + 1)
      <4>1. k \in 0 .. Len(p) /\ k # Len(p) /\ k + 1 \in 0 .. Len(p) BY <1>2, <1>12, <2>1
      <4>2. p[k + 1] = a /\ IsSequence(a) BY <2>2, HeadOfJoin
      <4>3. IsSequence(later) /\ Later(p, k) = a \o later BY <1>2, <4>1, <4>2, LaterUnrolls
      <4> HIDE DEF a, later
      <4>4. (a \o later) \o tail = a \o (later \o tail) BY <1>4, <4>2, <4>3, JoinsAnyhow
      <4> QED BY <4>3, <4>4 DEF a, later
    <3> QED BY <1>3, <1>9, <2>1, <3>1
  <2>4. frames # <<>> /\ Head(frames) = opens /\ Tail(frames) = now \o L(k + 1)
    BY <1>12, <2>2, <2>3, NextWithin
  <2>5. step = AnthropicFrame(state, BlockOpens(bs[k + 1], k + 1), row, intent)
    BY <2>4 DEF opens
  <2>6. \/ step.end = Open /\ HasPart(step.state, bs, k + 1, 0, row.model, fold)
        \/ /\ step.end # Open /\ Verdict(step) = Defect("unknown_content_block")
           /\ b.type = "unknown"
    <3>1. IsSequence(TextOf(Initial(WholeBlocks(bs), (k + 1) - 1))) BY <1>1, <2>1 DEF ws
    <3>2. KnownBlock(bs[k + 1], "anthropic_messages") BY <1>1, <2>1
    <3>3. HasBlocks(state, bs, (k + 1) - 1, row.model, fold) BY <1>12, <2>1
    <3> HIDE DEF b, step
    <3> DEFINE kk == k + 1
    <3>5. kk \in Nat /\ kk > 0 BY <2>1
    <3> HIDE DEF kk
    <3>6. LET st == AnthropicFrame(state, BlockOpens(bs[kk], kk), row, intent) IN
          \/ st.end = Open /\ HasPart(st.state, bs, kk, 0, row.model, fold)
          \/ /\ st.end # Open /\ Verdict(st) = Defect("unknown_content_block")
             /\ bs[kk].type = "unknown"
      BY <3>1, <3>2, <3>3, <3>5, BlockBegins DEF kk
    <3> QED BY <2>5, <3>6 DEF kk, b
  <2>7. CASE step.end = Open /\ HasPart(step.state, bs, k + 1, 0, row.model, fold)
    <3>1. Dropped(BlockBody(b, k + 1), 0) = BlockBody(b, k + 1) /\ 0 \in 0 .. Len(Contents(b))
      <4>1. /\ IsSequence(BlockBody(b, k + 1)) /\ Len(BlockBody(b, k + 1)) = Len(Contents(b))
        BY <1>1, <2>1, BlockFramesAre
      <4>2. Len(BlockBody(b, k + 1)) \in Nat BY <4>1 DEF IsSequence
      <4> QED BY <4>1, <4>2, Dropping
    <3>2. now = Left(k + 1, 0) BY <3>1 DEF now, Left
    <3>3. At(step.state, Tail(frames)) BY <1>5, <2>1, <2>4, <2>7, <3>1, <3>2
    <3> QED BY <1>6, <2>4, <2>7, <3>3
  <2>8. CASE /\ step.end # Open /\ Verdict(step) = Defect("unknown_content_block")
             /\ b.type = "unknown"
    <3>1. ~ Succeeds(Verdict(step)) /\ Meaning(Verdict(step)) = <<"ProtocolDefect">>
      BY <2>8, ShortOutcomes
    <3>2. \E block \in ToSet(answer.blocks) : block.type = "unknown"
      <4>1. k + 1 \in DOMAIN bs BY <1>1, <2>1 DEF WordedBlocks, IsSequence, N
      <4> QED BY <2>8, <4>1 DEF ToSet, bs
    <3>3. ToldFirst(row, answer, Meaning(Verdict(step))) BY <3>1, <3>2 DEF ToldFirst
    <3>4. Agreeing(row, answer, Verdict(step), whole) BY <3>1, <3>3 DEF Agreeing
    <3> QED BY <1>7, <2>4, <2>8, <3>4
  <2> QED BY <2>6, <2>7, <2>8
<1>13. ASSUME NEW k \in 1 .. N, NEW n \in 0 .. Len(Contents(bs[k])),
              HasPart(state, bs, k, n, row.model, fold), frames = Left(k, n) \o L(k),
              n # Len(Contents(bs[k]))
       PROVE  Goal
  <2> DEFINE body == BlockBody(bs[k], k)
             frame == body[n + 1]
             stop == <<BlockStops(k)>>
  <2>1. k \in 0 .. N /\ k \in Nat /\ k > 0 BY <1>1
  <2>2. IsSequence(body) /\ Len(body) = Len(Contents(bs[k])) BY <1>1, BlockFramesAre
  <2>3. IsSequence(stop) BY DEF IsSequence
  <2> HIDE DEF body, frame, stop
  <2>4. /\ Dropped(body, n) = <<frame>> \o Dropped(body, n + 1)
        /\ IsSequence(Dropped(body, n + 1)) /\ n + 1 \in 0 .. Len(Contents(bs[k]))
    <3>1. Len(body) \in Nat BY <2>2 DEF IsSequence
    <3>2. n \in 0 .. Len(body) /\ n # Len(body) BY <1>13, <2>2
    <3>3. n + 1 \in 0 .. Len(body) BY <3>1, <3>2
    <3> QED BY <2>2, <3>2, <3>3, Dropping DEF frame
  <2> DEFINE left == Dropped(body, n + 1)
             one == <<frame>>
  <2>5. Left(k, n) = (one \o left) \o stop /\ Left(k, n + 1) = left \o stop
    BY <2>4 DEF Left, body, stop
  <2>6. IsSequence(left) /\ IsSequence(one) BY <2>4, HeadOfJoin
  <2> HIDE DEF left, one
  <2>7. Left(k, n) = one \o Left(k, n + 1) /\ IsSequence(Left(k, n + 1))
    <3>1. (one \o left) \o stop = one \o (left \o stop) /\ IsSequence(left \o stop)
      BY <2>3, <2>6, JoinsAnyhow
    <3> QED BY <2>5, <3>1
  <2>8. frames # <<>> /\ Head(frames) = frame /\ Tail(frames) = Left(k, n + 1) \o L(k)
    <3>1. frames = (<<frame>> \o Left(k, n + 1)) \o L(k) BY <1>13, <2>7 DEF one
    <3> QED BY <1>9, <2>1, <2>7, <3>1, NextWithin
  <2>9. step.end = Open /\ HasPart(step.state, bs, k, n + 1, row.model, fold)
    <3>1. IsSequence(TextOf(Initial(WholeBlocks(bs), k - 1))) BY <1>1 DEF ws
    <3>2. step = AnthropicFrame(state, BlockBody(bs[k], k)[n + 1], row, intent)
      BY <2>8 DEF frame, body
    <3> HIDE DEF step
    <3>3. KnownBlock(bs[k], "anthropic_messages") BY <1>1
    <3>4. LET st == AnthropicFrame(state, BlockBody(bs[k], k)[n + 1], row, intent) IN
          st.end = Open /\ HasPart(st.state, bs, k, n + 1, row.model, fold)
      BY <1>13, <2>1, <3>1, <3>3, BlockGrows
    <3> QED BY <3>2, <3>4
  <2>10. At(step.state, Tail(frames)) BY <1>5, <2>4, <2>8, <2>9
  <2> QED BY <1>6, <2>8, <2>9, <2>10
<1>14. ASSUME NEW k \in 1 .. N, NEW n \in 0 .. Len(Contents(bs[k])),
              HasPart(state, bs, k, n, row.model, fold), frames = Left(k, n) \o L(k),
              n = Len(Contents(bs[k]))
       PROVE  Goal
  <2> DEFINE body == BlockBody(bs[k], k)
             stop == BlockStops(k)
  <2>1. k \in 0 .. N /\ k \in 1 .. Len(answer.blocks) BY <1>1 DEF N, bs
  <2>2. IsSequence(body) /\ Len(body) = Len(Contents(bs[k])) BY <1>1, BlockFramesAre
  <2> HIDE DEF body, stop
  <2>3. Left(k, n) = <<stop>>
    <3> DEFINE one == <<stop>>
    <3>1. IsSequence(one) BY DEF IsSequence
    <3>2. Dropped(body, n) = <<>> BY <1>14, <2>2, Dropping
    <3>3. Left(k, n) = <<>> \o one BY <3>2 DEF Left, body, stop
    <3> HIDE DEF one
    <3>4. Left(k, n) = one BY <3>1, <3>3, JoinsAnyhow
    <3> QED BY <3>4 DEF one
  <2>4. frames # <<>> /\ Head(frames) = stop /\ Tail(frames) = L(k)
    BY <1>9, <1>14, <2>1, <2>3, HeadOfJoin
  <2>5. \/ step.end = Open /\ HasBlocks(step.state, bs, k, row.model, fold)
        \/ /\ step.end # Open
           /\ \E meta : Verdict(step) = Failure("InvalidToolArguments", meta)
           /\ bs[k].type = "tool" /\ bs[k].arguments # <<>> /\ ~ IsObject(bs[k].arguments)
    <3>1. step = AnthropicFrame(state, BlockStops(k), row, intent) BY <2>4 DEF stop
    <3>2. HasPart(state, answer.blocks, k, Len(Contents(answer.blocks[k])), row.model, fold)
      BY <1>14 DEF bs
    <3>3. LET st == AnthropicFrame(state, BlockStops(k), row, intent) IN
          \/ st.end = Open /\ HasBlocks(st.state, answer.blocks, k, row.model, fold)
          \/ /\ st.end # Open
             /\ \E meta : Verdict(st) = Failure("InvalidToolArguments", meta)
             /\ answer.blocks[k].type = "tool" /\ answer.blocks[k].arguments # <<>>
             /\ ~ IsObject(answer.blocks[k].arguments)
      BY <2>1, <3>2, BlockEnds
    <3> HIDE DEF step
    <3> QED BY <3>1, <3>3 DEF bs
  <2>6. CASE step.end = Open /\ HasBlocks(step.state, bs, k, row.model, fold)
    <3>1. At(step.state, Tail(frames)) BY <1>5, <2>1, <2>4, <2>6
    <3> QED BY <1>6, <2>4, <2>6, <3>1
  <2>7. CASE /\ step.end # Open
             /\ \E meta : Verdict(step) = Failure("InvalidToolArguments", meta)
             /\ bs[k].type = "tool" /\ bs[k].arguments # <<>> /\ ~ IsObject(bs[k].arguments)
    <3>1. ~ Succeeds(Verdict(step)) /\ Meaning(Verdict(step)) = <<"Failed", "InvalidToolArguments">>
      BY <2>7, ShortOutcomes
    <3>2. ~ CallsFit(row, answer)
      <4>1. N \in 0 .. Len(bs) /\ Initial(bs, N) = bs BY <1>1, AnswerBlocks DEF N, bs
      <4>2. PICK i \in DOMAIN ToolsOf(bs) : ToolsOf(bs)[i] = bs[k]
        BY <1>1, <2>7, <4>1, ToolsAreBlocks
      <4>3. bs[k] \in ToSet(ToolsOf(bs)) BY <4>2 DEF ToSet
      <4> QED BY <2>7, <4>3 DEF CallsFit, bs
    <3>3. ToldFirst(row, answer, Meaning(Verdict(step))) BY <3>1, <3>2 DEF ToldFirst
    <3>4. Agreeing(row, answer, Verdict(step), whole) BY <3>1, <3>3 DEF Agreeing
    <3> QED BY <1>7, <2>4, <2>7, <3>4
  <2> QED BY <2>5, <2>6, <2>7
<1>15. CASE HasStopped(state, answer, row) /\ frames = <<MessageStop>>
  <2>1. frames # <<>> /\ Head(frames) = MessageStop BY <1>15
  <2>2. step = AnthropicFrame(state, MessageStop, row, intent) BY <2>1
  <2> HIDE DEF step
  <2>3. step.end # Open /\ Agreeing(row, answer, Verdict(step), whole)
    BY <1>15, <2>2, AnthropicLast DEF whole
  <2> QED BY <1>7, <2>1, <2>3 DEF step
<1> HIDE DEF Goal
<1>16. Goal
  <2>1. CASE state = AnthropicStart /\ frames = <<MessageStart(answer, row)>> \o L(0)
    BY <1>10, <2>1 DEF Goal
  <2>2. CASE \E k \in 0 .. N : HasBlocks(state, bs, k, row.model, fold) /\ frames = L(k)
    BY <1>11, <1>12, <2>2
  <2>3. CASE \E k \in 1 .. N : \E n \in 0 .. Len(Contents(bs[k])) :
           /\ HasPart(state, bs, k, n, row.model, fold) /\ frames = Left(k, n) \o L(k)
    <3>1. PICK k \in 1 .. N : \E n \in 0 .. Len(Contents(bs[k])) :
           /\ HasPart(state, bs, k, n, row.model, fold) /\ frames = Left(k, n) \o L(k)
      BY <2>3
    <3>2. PICK n \in 0 .. Len(Contents(bs[k])) :
           /\ HasPart(state, bs, k, n, row.model, fold) /\ frames = Left(k, n) \o L(k)
      BY <3>1
    <3> QED BY <1>13, <1>14, <3>2
  <2>4. CASE HasStopped(state, answer, row) /\ frames = <<MessageStop>>
    BY <1>15, <2>4 DEF Goal
  <2> QED BY <1>8, <2>1, <2>2, <2>3, <2>4
<1> QED BY <1>16 DEF Goal

\* The first frame.
LEMMA AnthropicBegins ==
    ASSUME NEW answer, AnswerFits(answer, "anthropic_messages"), NEW row
    PROVE  AnthropicAt(AnthropicStart, AnthropicFrames(answer, row), answer, row)
<1> DEFINE p == BlocksFrames(answer.blocks)
           tail == AnthropicTail(answer)
           start == <<MessageStart(answer, row)>>
<1>1. Pieces(p) BY BlocksUnroll
<1>2. AnthropicFrames(answer, row) = start \o Concat(p) \o tail
  BY DEF AnthropicFrames, BlocksFrames, AnthropicTail, MessageStart, MessageDelta, MessageStop
<1>3. IsSequence(start) /\ IsSequence(tail) BY DEF IsSequence, AnthropicTail
<1>4. AnthropicRest(answer, 0) = Later(p, 0) \o tail BY DEF AnthropicRest
<1> HIDE DEF p, tail, start
<1>5. Later(p, 0) = Concat(p) /\ IsSequence(Concat(p))
  BY <1>1, LaterUnrolls, PiecesJoin
<1> DEFINE c == Concat(p)
<1>6. IsSequence(c) BY <1>5
<1>7. AnthropicFrames(answer, row) = (start \o c) \o tail /\ AnthropicRest(answer, 0) = c \o tail
  BY <1>2, <1>4, <1>5
<1> HIDE DEF c
<1>8. (start \o c) \o tail = start \o (c \o tail) BY <1>3, <1>6, JoinsAnyhow
<1>9. AnthropicFrames(answer, row) = start \o AnthropicRest(answer, 0) BY <1>7, <1>8
<1> QED BY <1>9 DEF AnthropicAt, start

\* Nothing joined many times is nothing.
LEMMA ConcatNothing ==
    ASSUME NEW p, IsSequence(p), \A i \in DOMAIN p : p[i] = <<>>
    PROVE  Concat(p) = <<>>
<1> DEFINE N == Len(p)
           none == <<>>
           T(f) == {n \in Nat : n <= N => f[n] = none}
<1>1. N \in Nat /\ DOMAIN p = 1 .. N BY DEF IsSequence
<1>2. PICK f : Joins(p, f) /\ Concat(p) = f[N] BY <1>1, ConcatUnrolls
<1>3. none \o none = none OBVIOUS
<1>4. f[0] = none /\ \A n \in 1 .. N : f[n] = f[n - 1] \o none BY <1>1, <1>2 DEF Joins
<1> HIDE DEF N, none
<1>5. 0 \in T(f) BY <1>4
<1>6. ASSUME NEW n \in Nat, n \in T(f) PROVE n + 1 \in T(f)
  <2>1. ASSUME n + 1 <= N PROVE f[n + 1] = none
    <3>1. n + 1 \in 1 .. N /\ (n + 1) - 1 = n /\ n <= N BY <1>1, <2>1
    <3> QED BY <1>3, <1>4, <1>6, <3>1
  <2> QED BY <2>1
<1>7. N \in T(f)
  <2> DEFINE U == T(f)
  <2> HIDE DEF T
  <2>1. Nat \subseteq U
    <3> HIDE DEF U
    <3>1. 0 \in U /\ \A n \in Nat : n \in U => n + 1 \in U BY <1>5, <1>6 DEF U
    <3> QED BY <3>1, Induction
  <2> QED BY <1>1, <2>1
<1> QED BY <1>1, <1>2, <1>7 DEF none

\* A turn that calls tools is kept natively.
LEMMA NativeTurn ==
    ASSUME NEW bs, WordedBlocks(bs), ToolsOf(bs) # <<>>
    PROVE  bs # <<>> /\ \E b \in ToSet(bs) : b.type \in {"tool", "thinking"}
<1> DEFINE N == Len(bs)
<1>1. IsSequence(bs) /\ N \in Nat /\ DOMAIN bs = 1 .. N BY DEF WordedBlocks, IsSequence
<1>2. Initial(bs, N) = bs BY <1>1, Initials
<1>3. IsSequence(ToolsOf(bs)) BY BlocksJoin
<1>4. 1 \in DOMAIN ToolsOf(bs)
  <2> DEFINE t == ToolsOf(bs)
  <2>1. IsSequence(t) /\ t # <<>> BY <1>3
  <2> HIDE DEF t
  <2>2. 1 \in DOMAIN t BY <2>1 DEF IsSequence
  <2> QED BY <2>2 DEF t
<1>5. \E k \in 1 .. N : bs[k].type = "tool"
  <2>1. N \in 0 .. N BY <1>1
  <2> HIDE DEF N
  <2>2. 1 \in DOMAIN ToolsOf(Initial(bs, N)) BY <1>2, <1>4
  <2> QED BY <2>1, <2>2, ToolsAreBlocks DEF N
<1> HIDE DEF N
<1>6. PICK k \in 1 .. N : bs[k].type = "tool" BY <1>5
<1>7. bs[k] \in ToSet(bs) /\ k \in DOMAIN bs BY <1>1, <1>6 DEF ToSet
<1> QED BY <1>6, <1>7

----------------------------------------------------------------------------
\* The Gemini stream. The parts that a block is cut into, and the chunks of one
\* part each, up to the last.
Cut(b) ==
    IF b.type = "text" THEN [i \in DOMAIN b.text |-> [b EXCEPT !.text = <<b.text[i]>>]]
    ELSE <<b>>
Cuts(bs) == [i \in DOMAIN bs |-> Cut(bs[i])]
UsedBy(answer) == [input |-> 3, output |-> answer.output]
PartChunk(answer, part) ==
    [type |-> "chunk", usage |-> UsedBy(answer), parts |-> <<part>>, finish |-> Absent]
PartChunks(answer, parts) == [j \in DOMAIN parts |-> PartChunk(answer, parts[j])]
LastChunk(answer) ==
    [type |-> "chunk", usage |-> UsedBy(answer), parts |-> <<>>, finish |-> answer.finish]

\* A block is cut into parts that say what it says.
LEMMA CutSays ==
    ASSUME NEW b, b.type = "text" => "text" \in DOMAIN b /\ IsSequence(b.text),
           "type" \in DOMAIN b
    PROVE  /\ WordedBlocks(Cut(b))
           /\ TextOf(Cut(b)) = Spoken(b) /\ ToolsOf(Cut(b)) = Asked(b)
<1>1. CASE b.type # "text"
  <2>1. Cut(b) = <<b>> BY <1>1 DEF Cut
  <2> QED BY <1>1, <2>1, OneBlock
<1>2. CASE b.type = "text"
  <2> DEFINE t == b.text
             c == Cut(b)
             Fragment(i) == [b EXCEPT !.text = <<t[i]>>]
             none == <<>>
  <2>1. IsSequence(t) BY <1>2
  <2>2. c = [i \in DOMAIN t |-> Fragment(i)] BY <1>2 DEF Cut
  <2>3. \A i : Fragment(i).type = "text" /\ Fragment(i).text = <<t[i]>> BY <1>2
  <2> HIDE DEF c, t, Fragment
  <2>4. MadeOf(c, t) BY <2>2 DEF MadeOf
  <2>5. IsSequence(c) BY <2>1, <2>4, MadeIsSequence
  <2>6. \A x : IsSequence(<<x>>) BY HeadOfJoin DEF IsSequence
  <2>7. WordedBlocks(c) BY <2>2, <2>3, <2>5, <2>6 DEF WordedBlocks
  <2>8. WordPieces(c) = [i \in DOMAIN t |-> <<t[i]>>] BY <2>2, <2>3 DEF WordPieces
  <2>9. ToolPieces(c) = [i \in DOMAIN t |-> none]
    <3>1. \A i \in DOMAIN t : c[i].type # "tool" BY <2>2, <2>3
    <3> QED BY <2>2, <3>1 DEF ToolPieces
  <2>10. TextOf(c) = t BY <2>1, <2>8, ConcatSingles DEF TextOf, WordPieces
  <2>11. ToolsOf(c) = none
    <3> DEFINE p == ToolPieces(c)
    <3>1. IsSequence(p) BY <2>7, BlockPieces DEF Pieces
    <3>2. \A i \in DOMAIN p : p[i] = <<>> BY <2>9
    <3>3. ToolsOf(c) = Concat(p) BY DEF ToolsOf, ToolPieces
    <3> HIDE DEF p
    <3> QED BY <3>1, <3>2, <3>3, ConcatNothing
  <2> QED BY <1>2, <2>7, <2>10, <2>11 DEF c, t, Spoken, Asked
<1> QED BY <1>1, <1>2

\* The parts of an answer say what it says, and each comes in a chunk of its own.
LEMMA CutsSay ==
    ASSUME NEW bs, IsSequence(bs), NEW answer,
           \A i \in DOMAIN bs :
               /\ "type" \in DOMAIN bs[i]
               /\ bs[i].type = "text" => "text" \in DOMAIN bs[i] /\ IsSequence(bs[i].text)
    PROVE  LET parts == Concat(Cuts(bs)) IN
           /\ WordedBlocks(parts) /\ TextOf(parts) = TextOf(bs) /\ ToolsOf(parts) = ToolsOf(bs)
           /\ Concat([i \in DOMAIN bs |-> PartChunks(answer, Cut(bs[i]))])
                = PartChunks(answer, parts)
<1> DEFINE N == Len(bs)
           p == Cuts(bs)
           q == [i \in DOMAIN bs |-> PartChunks(answer, Cut(bs[i]))]
           Upto(n) == Initial(bs, n)
<1>1. N \in Nat /\ DOMAIN bs = 1 .. N /\ WordedBlocks(bs) BY DEF IsSequence, WordedBlocks
<1>2. Len(p) = N /\ Len(q) = N BY <1>1 DEF Cuts
<1>3. \A i \in 1 .. N : p[i] = Cut(bs[i]) /\ q[i] = PartChunks(answer, Cut(bs[i]))
  BY <1>1 DEF Cuts
<1>4. \A i \in 1 .. N : /\ WordedBlocks(p[i])
                        /\ TextOf(p[i]) = Spoken(bs[i]) /\ ToolsOf(p[i]) = Asked(bs[i])
  BY <1>1, <1>3, CutSays
<1> HIDE DEF p, q, N
<1>5. PICK f : Joins(p, f) /\ Concat(p) = f[N] BY <1>1, <1>2, ConcatUnrolls
<1>6. PICK g : Joins(q, g) /\ Concat(q) = g[N] BY <1>1, <1>2, ConcatUnrolls
<1>7. /\ f[0] = <<>> /\ \A n \in 1 .. N : f[n] = f[n - 1] \o p[n]
      /\ g[0] = <<>> /\ \A n \in 1 .. N : g[n] = g[n - 1] \o q[n]
  BY <1>2, <1>5, <1>6 DEF Joins
<1> DEFINE Right(n) == /\ WordedBlocks(f[n])
                       /\ TextOf(f[n]) = TextOf(Upto(n)) /\ ToolsOf(f[n]) = ToolsOf(Upto(n))
                       /\ g[n] = PartChunks(answer, f[n])
           S == {n \in Nat : n <= N => Right(n)}
<1>8. 0 \in S
  <2>1. f[0] = <<>> /\ Upto(0) = <<>> BY <1>1, <1>7, Initials
  <2>2. WordedBlocks(<<>>) BY DEF WordedBlocks, IsSequence
  <2>3. PartChunks(answer, <<>>) = <<>> BY DEF PartChunks
  <2>4. Right(0) BY <1>7, <2>1, <2>2, <2>3
  <2> QED BY <2>4
<1>9. ASSUME NEW n \in Nat, n \in S PROVE n + 1 \in S
  <2> SUFFICES ASSUME n + 1 <= N PROVE Right(n + 1)
    <3> HIDE DEF Right
    <3> QED OBVIOUS
  <2> DEFINE a == f[n]
             c == p[n + 1]
             u == f[n + 1]
             b == bs[n + 1]
             v == g[n + 1]
  <2>1. n + 1 \in 1 .. N /\ (n + 1) - 1 = n BY <1>1
  <2>2. Right(n)
    <3> HIDE DEF Right
    <3> QED BY <1>1, <1>9
  <2>3. u = a \o c /\ v = g[n] \o q[n + 1]
    <3>1. f[n + 1] = f[(n + 1) - 1] \o p[n + 1] /\ g[n + 1] = g[(n + 1) - 1] \o q[n + 1]
      BY <1>7, <2>1
    <3> QED BY <2>1, <3>1
  <2>4. WordedBlocks(a) /\ WordedBlocks(c) /\ TextOf(c) = Spoken(b) /\ ToolsOf(c) = Asked(b)
    BY <1>4, <2>1, <2>2
  <2>5. TextOf(a) = TextOf(Upto(n)) /\ ToolsOf(a) = ToolsOf(Upto(n)) /\ g[n] = PartChunks(answer, a)
    BY <2>2
  <2>6. q[n + 1] = PartChunks(answer, c) BY <1>3, <2>1
  <2> HIDE DEF a, c, u, v, Right
  <2>7. /\ WordedBlocks(a \o c)
        /\ TextOf(a \o c) = TextOf(a) \o TextOf(c) /\ ToolsOf(a \o c) = ToolsOf(a) \o ToolsOf(c)
    BY <2>4, BlocksJoin, WordedJoin
  <2>8. /\ TextOf(Upto(n + 1)) = TextOf(Upto(n)) \o Spoken(b)
        /\ ToolsOf(Upto(n + 1)) = ToolsOf(Upto(n)) \o Asked(b)
    BY <1>1, <2>1, BlocksGrow DEF N
  <2>9. v = PartChunks(answer, u)
    <3> DEFINE x == PartChunks(answer, a)
               y == PartChunks(answer, c)
               z == PartChunks(answer, a \o c)
               w == a \o c
    <3>1. MadeOf(x, a) /\ MadeOf(y, c) /\ MadeOf(z, w) BY DEF MadeOf, PartChunks
    <3>2. Alike(z, w, x, a) /\ Alike(z, w, y, c)
      <4> HIDE DEF w
      <4>1. z = PartChunks(answer, w) BY DEF w
      <4> QED BY <4>1 DEF Alike, PartChunks
    <3>3. IsSequence(a) /\ IsSequence(c) BY <2>4 DEF WordedBlocks
    <3> HIDE DEF x, y, z
    <3>4. z = x \o y BY <3>1, <3>2, <3>3, MapJoins
    <3> QED BY <2>3, <2>5, <2>6, <3>4 DEF x, y, z
  <2>10. Right(n + 1) BY <2>3, <2>4, <2>5, <2>7, <2>8, <2>9 DEF Right, u, v
  <2> QED BY <2>10
<1>10. Right(N)
  <2> HIDE DEF Right
  <2>1. Nat \subseteq S
    <3> HIDE DEF S
    <3> QED BY <1>8, <1>9, Induction
  <2> QED BY <1>1, <2>1
<1>11. Upto(N) = bs BY Initials DEF N
<1> QED BY <1>5, <1>6, <1>10, <1>11 DEF p, q

\* Two turns that say the same, and what is made of them: the same failure, or
\* the same content with artifacts that say the same.
LEMMA StopsAlike ==
    ASSUME NEW row, NEW intent, NEW one, NEW other, NEW meta,
           WordedBlocks(one), WordedBlocks(other),
           TextOf(one) = TextOf(other), ToolsOf(one) = ToolsOf(other), NEW answer
    PROVE  Agreeing(row, answer, GeminiStop(row, intent, one, meta),
                    GeminiStop(row, intent, other, meta))
<1> DEFINE content == ResponseContent(intent, TextOf(one), GeminiCalls(one))
           a == GeminiContinuation(row, intent, one)
           b == GeminiContinuation(row, intent, other)
           given == [text |-> TextOf(one), tools |-> GeminiCalls(one)]
<1>1. GeminiCalls(one) = GeminiCalls(other) BY DEF GeminiCalls
<1>2. /\ GeminiStop(row, intent, one, meta)
           = IF content = Absent THEN Failure("InvalidStructuredOutput", meta)
             ELSE Success(content, a, meta)
      /\ GeminiStop(row, intent, other, meta)
           = IF content = Absent THEN Failure("InvalidStructuredOutput", meta)
             ELSE Success(content, b, meta)
  BY <1>1 DEF GeminiStop
<1>3. content = Absent \/ content = given BY DEF ResponseContent
<1>4. Says(one) = Says(other) BY DEF Says
<1>5. ASSUME GeminiCalls(one) # <<>> PROVE Artifacts(a, b)
  <2>1. ToolsOf(one) # <<>>
    <3> SUFFICES ASSUME ToolsOf(one) = <<>> PROVE FALSE OBVIOUS
    <3> DEFINE t == ToolsOf(one)
    <3>1. t = <<>> OBVIOUS
    <3>2. GeminiCalls(one) = [i \in DOMAIN t |-> [id |-> t[i].id, name |-> t[i].name,
                                                  arguments |-> t[i].arguments]]
      BY DEF GeminiCalls
    <3> HIDE DEF t
    <3> QED BY <1>5, <3>1, <3>2
  <2>2. /\ one # <<>> /\ \E p \in ToSet(one) : p.type \in {"tool", "thinking"}
        /\ other # <<>> /\ \E p \in ToSet(other) : p.type \in {"tool", "thinking"}
    BY <2>1, NativeTurn
  <2>3. /\ a = [target |-> intent.target, codec |-> row.codec, blocks |-> one]
        /\ b = [target |-> intent.target, codec |-> row.codec, blocks |-> other]
    BY <2>2 DEF GeminiContinuation, Artifact
  <2> QED BY <1>4, <2>3 DEF Artifacts
<1> HIDE DEF content, a, b
<1>6. CASE content = Absent BY <1>2, <1>6 DEF Agreeing
<1>7. CASE content # Absent
  <2>1. content = given BY <1>3, <1>7
  <2>2. content.tools = GeminiCalls(one) BY <2>1
  <2>3. content.tools # <<>> => Artifacts(a, b) BY <1>5, <2>2
  <2> HIDE DEF given
  <2>4. SameTurn(GeminiStop(row, intent, one, meta), GeminiStop(row, intent, other, meta))
    BY <1>2, <1>7, <2>3 DEF SameTurn
  <2> QED BY <2>4 DEF Agreeing
<1> QED BY <1>6, <1>7

\* Where the decoder stands: so many parts of the answer read, all well formed.
Parts(answer) == Concat(Cuts(answer.blocks))
HasParts(state, answer, j) ==
    /\ {"usage", "parts", "semantic"} \subseteq DOMAIN state
    /\ state.parts = Initial(Parts(answer), j)
    /\ state.usage \in {Absent, UsedBy(answer)}
    /\ \A m \in 1 .. j : GeminiPartsFit(<<Parts(answer)[m]>>)
GeminiRest(answer, j) == Dropped(PartChunks(answer, Parts(answer)), j) \o <<LastChunk(answer)>>
GeminiAt(state, frames, answer) ==
    \E j \in 0 .. Len(Parts(answer)) :
        frames = GeminiRest(answer, j) /\ HasParts(state, answer, j)

LEMMA PartsAre ==
    ASSUME NEW answer, AnswerFits(answer, "gemini_generate")
    PROVE  LET bs == answer.blocks
               parts == Parts(answer)
           IN /\ WordedBlocks(bs) /\ WordedBlocks(parts)
              /\ TextOf(parts) = TextOf(bs) /\ ToolsOf(parts) = ToolsOf(bs)
              /\ GeminiFrames(answer) = GeminiRest(answer, 0)
<1> DEFINE bs == answer.blocks
           parts == Parts(answer)
           p == [i \in DOMAIN bs |-> PartChunks(answer, Cut(bs[i]))]
           last == <<LastChunk(answer)>>
<1>1. IsSequence(bs) /\ WordedBlocks(bs) BY AnswerBlocks DEF WordedBlocks
<1>2. \A i \in DOMAIN bs :
        /\ "type" \in DOMAIN bs[i]
        /\ bs[i].type = "text" => "text" \in DOMAIN bs[i] /\ IsSequence(bs[i].text)
  BY DEF AnswerFits, KnownBlock
<1>3. GeminiFrames(answer) = Concat(p) \o last
  <2> DEFINE Made(ps, finish) == [type |-> "chunk", usage |-> UsedBy(answer),
                                  parts |-> ps, finish |-> finish]
             Piece(b) == IF b.type = "text"
                         THEN [i \in DOMAIN b.text |->
                                 Made(<<[b EXCEPT !.text = <<b.text[i]>>]>>, Absent)]
                         ELSE <<Made(<<b>>, Absent)>>
  <2>1. GeminiFrames(answer) = Concat([i \in DOMAIN bs |-> Piece(bs[i])]) \o <<Made(<<>>, answer.finish)>>
    BY DEF GeminiFrames, UsedBy
  <2>2. ASSUME NEW b PROVE Piece(b) = PartChunks(answer, Cut(b))
    <3>1. CASE b.type = "text" BY <3>1 DEF PartChunks, PartChunk, Cut
    <3>2. CASE b.type # "text"
      <4>1. Cut(b) = <<b>> BY <3>2 DEF Cut
      <4>2. PartChunks(answer, <<b>>) = <<PartChunk(answer, b)>> BY DEF PartChunks
      <4> QED BY <3>2, <4>1, <4>2 DEF PartChunk
    <3> QED BY <3>1, <3>2
  <2>3. Made(<<>>, answer.finish) = LastChunk(answer) BY DEF LastChunk
  <2> HIDE DEF Piece, bs
  <2>4. [i \in DOMAIN bs |-> Piece(bs[i])] = p BY <2>2
  <2> QED BY <2>1, <2>3, <2>4
<1> HIDE DEF bs
<1>4. /\ WordedBlocks(parts) /\ TextOf(parts) = TextOf(bs) /\ ToolsOf(parts) = ToolsOf(bs)
      /\ Concat(p) = PartChunks(answer, parts)
  BY <1>1, <1>2, CutsSay DEF Parts, bs
<1> DEFINE c == PartChunks(answer, parts)
<1>5. IsSequence(c)
  <2>1. IsSequence(parts) BY <1>4 DEF WordedBlocks
  <2> HIDE DEF parts
  <2>2. MadeOf(c, parts) BY DEF MadeOf, PartChunks
  <2> QED BY <2>1, <2>2, MadeIsSequence
<1>6. Dropped(c, 0) = c BY <1>5, Dropping
<1>7. GeminiFrames(answer) = GeminiRest(answer, 0) BY <1>3, <1>4, <1>6 DEF GeminiRest
<1> QED BY <1>1, <1>4, <1>7 DEF bs

\* A part that is read is well formed, or both decoders refuse the answer.
LEMMA PartsFitTogether ==
    ASSUME NEW parts, WordedBlocks(parts)
    PROVE  GeminiPartsFit(parts)
             <=> \A m \in 1 .. Len(parts) : GeminiPartsFit(<<parts[m]>>)
<1> DEFINE N == Len(parts)
           t == ToolsOf(parts)
           Well(b) == "" \notin {b.id, b.name}
<1>1. N \in Nat /\ IsSequence(parts) BY DEF WordedBlocks, IsSequence
<1>2. Initial(parts, N) = parts /\ N \in 0 .. N BY <1>1, Initials
<1>3. /\ \A i \in DOMAIN t : \E k \in 1 .. N : parts[k] = t[i] /\ parts[k].type = "tool"
      /\ \A k \in 1 .. N : parts[k].type = "tool" => \E i \in DOMAIN t : t[i] = parts[k]
  <2>1. ToolsOf(Initial(parts, N)) = t BY <1>2
  <2> HIDE DEF t
  <2> QED BY <1>2, <2>1, ToolsAreBlocks
<1>4. GeminiPartsFit(parts) <=> \A i \in DOMAIN t : Well(t[i]) BY DEF GeminiPartsFit, ToSet
<1>5. ASSUME NEW m \in 1 .. N
      PROVE  GeminiPartsFit(<<parts[m]>>) <=> (parts[m].type = "tool" => Well(parts[m]))
  <2> DEFINE b == parts[m]
             u == ToolsOf(<<b>>)
  <2>1. b.type = "text" => IsSequence(b.text)
    <3>1. m \in DOMAIN parts BY <1>1 DEF IsSequence
    <3> QED BY <3>1 DEF WordedBlocks
  <2> HIDE DEF b
  <2>2. u = Asked(b) BY <2>1, OneBlock
  <2>3. GeminiPartsFit(<<b>>) <=> \A i \in DOMAIN u : Well(u[i]) BY DEF GeminiPartsFit, ToSet
  <2> HIDE DEF u, Well
  <2>4. CASE b.type = "tool"
    <3>1. u = <<b>> BY <2>2, <2>4 DEF Asked
    <3>2. DOMAIN u = {1} /\ u[1] = b BY <3>1
    <3> QED BY <2>3, <2>4, <3>2 DEF b
  <2>5. CASE b.type # "tool"
    <3>1. u = <<>> BY <2>2, <2>5 DEF Asked
    <3>2. DOMAIN u = {} BY <3>1
    <3> QED BY <2>3, <2>5, <3>2 DEF b
  <2> QED BY <2>4, <2>5
<1> HIDE DEF t, N, Well
<1>6. ASSUME \A i \in DOMAIN t : Well(t[i]), NEW m \in 1 .. N, parts[m].type = "tool"
      PROVE  Well(parts[m])
  BY <1>3, <1>6
<1>7. ASSUME \A m \in 1 .. N : parts[m].type = "tool" => Well(parts[m]), NEW i \in DOMAIN t
      PROVE  Well(t[i])
  BY <1>3, <1>7
<1> QED BY <1>4, <1>5, <1>6, <1>7 DEF N

LEMMA FoldsToUsed ==
    ASSUME NEW answer, NEW usage \in {Absent, UsedBy(answer)}
    PROVE  GeminiFold(usage, UsedBy(answer)) = UsedBy(answer)
<1> DEFINE used == UsedBy(answer)
<1>1. used = [k \in DOMAIN used |-> IF used[k] = 0 THEN used[k] ELSE used[k]]
  <2>1. used = [k \in DOMAIN used |-> used[k]] BY DEF UsedBy
  <2> HIDE DEF used
  <2> QED BY <2>1
<1> HIDE DEF used
<1>2. GeminiFold(usage, used) = used BY <1>1 DEF GeminiFold, used
<1> QED BY <1>2 DEF used

\* The last chunk: what is made of all parts is what is made of the whole answer
\* (gemini_generate.py, _decode_response and stream).
LEMMA GeminiLast ==
    ASSUME NEW answer, AnswerFits(answer, "gemini_generate"), NEW row, NEW intent, NEW state,
           HasParts(state, answer, Len(Parts(answer)))
    PROVE  LET step == GeminiChunk(state, LastChunk(answer), row, intent) IN
           /\ step.end # Open
           /\ Agreeing(row, answer, Verdict(step),
                       GeminiDecode(row, intent, GeminiResponse(answer)))
<1> DEFINE bs == answer.blocks
           parts == Parts(answer)
           used == UsedBy(answer)
           meta == GeminiMeta(row.model, used)
           chunk == LastChunk(answer)
           step == GeminiChunk(state, chunk, row, intent)
           finish == answer.finish
           whole == GeminiDecode(row, intent, GeminiResponse(answer))
           grown == [state EXCEPT !.usage = used, !.parts = @ \o <<>>,
                                  !.semantic = @ \/ <<>> # <<>>]
           blocked == Incomplete("content_filter_partial", meta)
           made == IF finish = "STOP" THEN GeminiStop(row, intent, parts, meta)
                   ELSE GeminiNonStop(finish, meta)
<1>1. /\ WordedBlocks(bs) /\ WordedBlocks(parts)
      /\ TextOf(parts) = TextOf(bs) /\ ToolsOf(parts) = ToolsOf(bs)
  BY PartsAre
<1>2. finish # Absent BY DEF AnswerFits
<1>3. IsSequence(parts) BY <1>1 DEF WordedBlocks
<1>4. /\ {"usage", "parts", "semantic"} \subseteq DOMAIN state
      /\ state.parts = parts /\ state.usage \in {Absent, used}
      /\ \A m \in 1 .. Len(parts) : GeminiPartsFit(<<parts[m]>>)
  <2>1. Initial(parts, Len(parts)) = parts BY <1>3, Initials
  <2> QED BY <2>1 DEF HasParts
<1>5. GeminiPartsFit(parts) BY <1>1, <1>4, PartsFitTogether
<1>6. GeminiPartsFit(bs) BY <1>1, <1>5 DEF GeminiPartsFit
<1>7. chunk.parts = <<>> /\ chunk.usage = used /\ chunk.finish = finish BY DEF LastChunk
<1>8. GeminiFold(state.usage, chunk.usage) = used BY <1>4, <1>7, FoldsToUsed
<1>9. TextOf(<<>>) = <<>> /\ ToolsOf(<<>>) = <<>> /\ GeminiCalls(<<>>) = <<>>
      /\ GeminiCallEvents(<<>>) = <<>> /\ GeminiPartsFit(<<>>)
  <2>1. TextOf(<<>>) = Concat(<<>>) /\ ToolsOf(<<>>) = Concat(<<>>) BY DEF TextOf, ToolsOf
  <2>2. TextOf(<<>>) = <<>> /\ ToolsOf(<<>>) = <<>> BY <2>1, ConcatFew
  <2>3. GeminiCalls(<<>>) = <<>> BY <2>2 DEF GeminiCalls
  <2>4. GeminiCallEvents(<<>>) = Concat(<<>>) BY DEF GeminiCallEvents
  <2>5. GeminiPartsFit(<<>>)
    <3> DEFINE t == ToolsOf(<<>>)
    <3>1. GeminiPartsFit(<<>>) <=> \A i \in DOMAIN t : "" \notin {t[i].id, t[i].name}
      BY DEF GeminiPartsFit, ToSet
    <3>2. t = <<>> BY <2>2
    <3> HIDE DEF t
    <3>3. DOMAIN t = {} BY <3>2
    <3> QED BY <3>1, <3>3
  <2> QED BY <2>2, <2>3, <2>4, <2>5, ConcatFew
<1>10. GeminiResponse(answer).finish = finish /\ GeminiResponse(answer).parts = bs
       /\ GeminiResponse(answer).usage = used
  BY DEF GeminiResponse, UsedBy
<1>11. whole = IF finish = "blocked" THEN blocked
               ELSE IF finish # "STOP" THEN GeminiNonStop(finish, meta)
               ELSE GeminiStop(row, intent, bs, meta)
  BY <1>2, <1>6, <1>10 DEF GeminiDecode
<1> HIDE DEF used, chunk
<1>12. grown.parts = parts
  <2>1. grown.parts = state.parts \o <<>> BY <1>4
  <2>2. parts \o <<>> = parts BY <1>3, JoinsAnyhow
  <2> HIDE DEF grown
  <2> QED BY <1>4, <2>1, <2>2
<1>13. step = IF finish = "blocked" THEN Returns(grown, <<Terminal(blocked)>>)
              ELSE IF IsError(made) THEN [Raises(grown, made) EXCEPT !.events = <<>>]
              ELSE Returns(grown, <<>> \o Closing(made))
  <2> DEFINE es == (IF TextOf(chunk.parts) = <<>> THEN <<>> ELSE <<TextDelta(TextOf(chunk.parts))>>)
                     \o GeminiCallEvents(GeminiCalls(chunk.parts))
             outcome == IF chunk.finish = "STOP"
                        THEN GeminiStop(row, intent, grown.parts, meta)
                        ELSE GeminiNonStop(chunk.finish, meta)
  <2>1. es = <<>>
    <3>1. es = <<>> \o <<>> BY <1>7, <1>9
    <3> QED BY <3>1
  <2>2. outcome = made BY <1>7, <1>12
  <2> DEFINE full == [state EXCEPT !.usage = GeminiFold(state.usage, chunk.usage),
                                   !.parts = @ \o chunk.parts, !.semantic = @ \/ es # <<>>]
  <2>3. full = grown BY <1>7, <1>8, <2>1
  <2>4. GeminiPartsFit(chunk.parts) /\ chunk.finish # Absent BY <1>2, <1>7, <1>9
  <2> DEFINE m == GeminiMeta(row.model, GeminiFold(state.usage, chunk.usage))
             end_ == IF chunk.finish = "STOP" THEN GeminiStop(row, intent, full.parts, m)
                     ELSE GeminiNonStop(chunk.finish, m)
  <2>5. m = meta BY <1>8
  <2>6. step = IF chunk.finish = "blocked"
               THEN Returns(full, <<Terminal(Incomplete("content_filter_partial", m))>>)
               ELSE IF ~ GeminiPartsFit(chunk.parts) THEN Raises(state, Defect("malformed_candidate"))
               ELSE IF chunk.finish = Absent THEN Goes(full, es)
               ELSE IF IsError(end_) THEN [Raises(full, end_) EXCEPT !.events = es]
               ELSE Returns(full, es \o Closing(end_))
    BY DEF GeminiChunk
  <2> HIDE DEF es, full, grown, m, meta
  <2>7. end_ = made BY <1>7, <1>12, <2>3, <2>5
  <2> HIDE DEF end_, made, step
  <2> QED BY <1>7, <2>1, <2>3, <2>4, <2>5, <2>6, <2>7
<1> HIDE DEF grown, step, whole
<1>14. CASE finish = "blocked"
  <2>1. step.end # Open /\ Verdict(step) = blocked BY <1>13, <1>14, Verdicts
  <2> QED BY <1>11, <1>14, <2>1 DEF Agreeing, step, whole, chunk
<1>15. CASE finish # "blocked"
  <2>1. Sound(made)
    <3>1. Sound(GeminiStop(row, intent, parts, meta))
      <4> HIDE DEF meta, parts
      <4> QED BY SoundOutcomes DEF GeminiStop
    <3>2. Sound(GeminiNonStop(finish, meta))
      <4> HIDE DEF meta
      <4> QED BY SoundOutcomes DEF GeminiNonStop
    <3> HIDE DEF meta, parts
    <3> QED BY <3>1, <3>2
  <2>2. <<>> \o Closing(made) = Closing(made) BY DEF Closing
  <2>3. [Raises(grown, made) EXCEPT !.events = <<>>] = Raises(grown, made) BY DEF Raises
  <2>4. Agreeing(row, answer, made, whole)
    <3>1. CASE finish = "STOP"
      <4>1. made = GeminiStop(row, intent, parts, meta) /\ whole = GeminiStop(row, intent, bs, meta)
        BY <1>11, <1>15, <3>1
      <4> HIDE DEF made, meta, parts, bs
      <4> QED BY <1>1, <4>1, StopsAlike
    <3>2. CASE finish # "STOP"
      <4>1. made = whole BY <1>11, <1>15, <3>2
      <4> QED BY <4>1 DEF Agreeing
    <3> QED BY <3>1, <3>2
  <2> HIDE DEF made
  <2>5. step = Conclusion(grown, made) BY <1>13, <1>15, <2>2, <2>3 DEF Conclusion
  <2>6. step.end # Open /\ Verdict(step) = made BY <2>1, <2>5, Verdicts
  <2> QED BY <2>4, <2>6 DEF step, whole, chunk
<1> QED BY <1>14, <1>15

\* The next chunk: one part more, or the verdict.
LEMMA GeminiFollows ==
    ASSUME Absent # "blocked", NEW answer, AnswerFits(answer, "gemini_generate"), NEW row,
           NEW state, NEW frames, GeminiAt(state, frames, answer), NEW intent
    PROVE  /\ frames # <<>>
           /\ LET step == GeminiChunk(state, Head(frames), row, intent) IN
              \/ step.end = Open /\ GeminiAt(step.state, Tail(frames), answer)
              \/ /\ step.end # Open
                 /\ Agreeing(row, answer, Verdict(step),
                             GeminiDecode(row, intent, GeminiResponse(answer)))
<1> DEFINE bs == answer.blocks
           parts == Parts(answer)
           N == Len(parts)
           c == PartChunks(answer, parts)
           used == UsedBy(answer)
           last == <<LastChunk(answer)>>
           step == GeminiChunk(state, Head(frames), row, intent)
<1>1. /\ WordedBlocks(bs) /\ WordedBlocks(parts)
      /\ TextOf(parts) = TextOf(bs) /\ ToolsOf(parts) = ToolsOf(bs)
  BY PartsAre
<1>2. IsSequence(parts) /\ N \in Nat BY <1>1 DEF WordedBlocks, IsSequence
<1>3. IsSequence(c) /\ Len(c) = N
  <2> HIDE DEF parts
  <2>1. MadeOf(c, parts) BY DEF MadeOf, PartChunks
  <2> QED BY <1>2, <2>1, MadeIsSequence
<1>4. PICK j \in 0 .. N : frames = GeminiRest(answer, j) /\ HasParts(state, answer, j)
  BY DEF GeminiAt
<1>5. frames = Dropped(c, j) \o last BY <1>4 DEF GeminiRest
<1>6. IsSequence(last) /\ IsSequence(<<>>) BY DEF IsSequence
<1> HIDE DEF N, c
<1>7. CASE j = N
  <2>1. frames = last
    <3>1. Dropped(c, N) = <<>> BY <1>3, Dropping
    <3>2. frames = <<>> \o last BY <1>5, <1>7, <3>1
    <3> QED BY <1>6, <3>2, JoinsAnyhow
  <2>2. frames # <<>> /\ Head(frames) = LastChunk(answer) BY <2>1
  <2>3. HasParts(state, answer, Len(Parts(answer))) BY <1>4, <1>7 DEF N
  <2> QED BY <2>2, <2>3, GeminiLast
<1>8. CASE j # N
  <2> DEFINE part == parts[j + 1]
             chunk == PartChunk(answer, part)
             more == Dropped(c, j + 1)
  <2>1. j + 1 \in 1 .. N /\ j + 1 \in 0 .. N /\ (j + 1) - 1 = j BY <1>2, <1>8
  <2>2. c[j + 1] = chunk
    <3>1. j + 1 \in DOMAIN parts BY <1>2, <2>1 DEF IsSequence, N
    <3> QED BY <3>1 DEF c, PartChunks
  <2>3. IsSequence(more) BY <1>3, <2>1, Dropping
  <2>4. Dropped(c, j) = <<chunk>> \o more BY <1>3, <1>8, <2>2, Dropping
  <2>5. GeminiRest(answer, j + 1) = more \o last BY DEF GeminiRest, c
  <2> HIDE DEF more, last, chunk
  <2>6. IsSequence(more \o last) BY <1>6, <2>3, JoinsAnyhow
  <2>7. frames = <<chunk>> \o (more \o last)
    <3> DEFINE a == <<chunk>>
    <3>1. IsSequence(a) BY <1>6, HeadOfJoin
    <3>2. frames = (a \o more) \o last BY <1>5, <2>4
    <3> HIDE DEF a
    <3>3. frames = a \o (more \o last) BY <1>6, <2>3, <3>1, <3>2, JoinsAnyhow
    <3> QED BY <3>3 DEF a
  <2>8. frames # <<>> /\ Head(frames) = chunk /\ Tail(frames) = GeminiRest(answer, j + 1)
    BY <2>5, <2>6, <2>7, HeadOfJoin
  <2>9. chunk.parts = <<part>> /\ chunk.usage = used /\ chunk.finish = Absent
    BY DEF chunk, PartChunk
  <2>10. /\ {"usage", "parts", "semantic"} \subseteq DOMAIN state
         /\ state.parts = Initial(parts, j) /\ state.usage \in {Absent, used}
         /\ \A m \in 1 .. j : GeminiPartsFit(<<parts[m]>>)
    BY <1>4 DEF HasParts
  <2>11. Initial(parts, j) \o <<part>> = Initial(parts, j + 1) BY <1>2, <2>1, Initials DEF N
  <2> HIDE DEF used
  <2>12. GeminiFold(state.usage, used) = used BY <2>10, FoldsToUsed DEF used
  <2> DEFINE fits == GeminiPartsFit(<<part>>)
             es == (IF TextOf(chunk.parts) = <<>> THEN <<>> ELSE <<TextDelta(TextOf(chunk.parts))>>)
                     \o GeminiCallEvents(GeminiCalls(chunk.parts))
             grown == [state EXCEPT !.usage = GeminiFold(state.usage, chunk.usage),
                                    !.parts = @ \o chunk.parts, !.semantic = @ \/ es # <<>>]
  <2>13. step = IF ~ fits THEN Raises(state, Defect("malformed_candidate")) ELSE Goes(grown, es)
    <3>1. step = GeminiChunk(state, chunk, row, intent) BY <2>8
    <3>2. chunk.finish # "blocked" /\ chunk.finish = Absent BY <2>9
    <3>3. GeminiPartsFit(chunk.parts) <=> fits BY <2>9
    <3> QED BY <3>1, <3>2, <3>3 DEF GeminiChunk
  <2>14. /\ {"usage", "parts", "semantic"} \subseteq DOMAIN grown
         /\ grown.parts = Initial(parts, j + 1) /\ grown.usage = used
    <3> HIDE DEF es, part, parts
    <3> QED BY <2>9, <2>10, <2>11, <2>12
  <2> HIDE DEF step, grown, es
  <2>15. CASE fits
    <3>1. step.end = Open /\ step.state = grown BY <2>13, <2>15 DEF Goes
    <3>2. \A m \in 1 .. j + 1 : m \in 1 .. j \/ m = j + 1 BY <1>2
    <3>3. HasParts(grown, answer, j + 1) BY <2>10, <2>14, <2>15, <3>2 DEF HasParts, used
    <3>4. GeminiAt(grown, Tail(frames), answer) BY <2>1, <2>8, <3>3 DEF GeminiAt, N
    <3> QED BY <2>8, <3>1, <3>4 DEF step
  <2>16. CASE ~ fits
    <3>1. step.end # Open /\ Verdict(step) = Defect("malformed_candidate")
      BY <2>13, <2>16, Verdicts
    <3>2. ~ GeminiPartsFit(bs)
      <4>1. ~ GeminiPartsFit(parts) BY <1>1, <2>1, <2>16, PartsFitTogether DEF N
      <4> QED BY <1>1, <4>1 DEF GeminiPartsFit
    <3>3. answer.finish # "blocked"
      <4> SUFFICES ASSUME answer.finish = "blocked" PROVE FALSE OBVIOUS
      <4>1. bs = <<>> BY DEF AnswerFits
      <4>2. ToolsOf(<<>>) = <<>>
        <5>1. ToolsOf(<<>>) = Concat(<<>>) BY DEF ToolsOf
        <5> QED BY <5>1, ConcatFew
      <4>3. GeminiPartsFit(<<>>)
        <5> DEFINE t == ToolsOf(<<>>)
        <5>1. GeminiPartsFit(<<>>) <=> \A i \in DOMAIN t : "" \notin {t[i].id, t[i].name}
          BY DEF GeminiPartsFit, ToSet
        <5>2. t = <<>> BY <4>2
        <5> HIDE DEF t
        <5>3. DOMAIN t = {} BY <5>2
        <5> QED BY <5>1, <5>3
      <4> HIDE DEF bs
      <4> QED BY <3>2, <4>1, <4>3
    <3>4. GeminiResponse(answer).finish = answer.finish /\ GeminiResponse(answer).parts = bs
      BY DEF GeminiResponse
    <3>5. GeminiDecode(row, intent, GeminiResponse(answer)) = Defect("malformed_candidate")
      BY <3>2, <3>3, <3>4 DEF GeminiDecode
    <3> QED BY <2>8, <3>1, <3>5 DEF Agreeing, step
  <2> QED BY <2>15, <2>16
<1> QED BY <1>7, <1>8

LEMMA GeminiBegins ==
    ASSUME NEW answer, AnswerFits(answer, "gemini_generate")
    PROVE  GeminiAt(GeminiStart, GeminiFrames(answer), answer)
<1> DEFINE parts == Parts(answer)
<1>1. GeminiFrames(answer) = GeminiRest(answer, 0) /\ WordedBlocks(parts) BY PartsAre
<1>2. IsSequence(parts) BY <1>1 DEF WordedBlocks
<1> HIDE DEF parts
<1>3. 0 \in 0 .. Len(parts) /\ Initial(parts, 0) = <<>> BY <1>2, Initials DEF IsSequence
<1>4. HasParts(GeminiStart, answer, 0) BY <1>3 DEF HasParts, GeminiStart, parts
<1> QED BY <1>1, <1>3, <1>4 DEF GeminiAt, parts

----------------------------------------------------------------------------
\* The chat stream. A chunk carries at most one fragment of a call.
LEMMA ApplyFew ==
    ASSUME NEW slots, NEW entry
    PROVE  LET base == [slots |-> slots, events |-> <<>>] IN
           /\ ChatApply(slots, <<>>) = base
           /\ ChatApply(slots, <<entry>>) = ChatEntry(base, entry)
<1> DEFINE base == [slots |-> slots, events |-> <<>>]
           Loops(f, entries) == f = [n \in 0 .. Len(entries) |->
                                       IF n = 0 THEN base ELSE ChatEntry(f[n - 1], entries[n])]
           loop(entries) == CHOOSE f : Loops(f, entries)
<1>1. \A entries : ChatApply(slots, entries) = loop(entries)[Len(entries)] BY DEF ChatApply
<1> HIDE DEF base
<1>2. ASSUME NEW entries, \E f : Loops(f, entries) PROVE Loops(loop(entries), entries)
  <2> HIDE DEF Loops
  <2> QED BY <1>2
<1>3. ChatApply(slots, <<>>) = base
  <2> DEFINE f == [n \in 0 .. 0 |-> base]
             none == <<>>
  <2>1. Len(none) = 0 OBVIOUS
  <2> HIDE DEF none
  <2>2. Loops(f, none) BY <2>1
  <2>3. loop(none)[0] = base
    <3>1. Loops(loop(none), none)
      <4> HIDE DEF Loops, loop, f
      <4> QED BY <1>2, <2>2
    <3> HIDE DEF loop
    <3> QED BY <2>1, <3>1
  <2> HIDE DEF loop
  <2> QED BY <1>1, <2>1, <2>3 DEF none
<1>4. ChatApply(slots, <<entry>>) = ChatEntry(base, entry)
  <2> DEFINE next == ChatEntry(base, entry)
             f == [n \in 0 .. 1 |-> IF n = 0 THEN base ELSE next]
             one == <<entry>>
  <2>1. Len(one) = 1 /\ one[1] = entry OBVIOUS
  <2> HIDE DEF one
  <2>2. Loops(f, one)
    <3>1. \A n \in 0 .. 1 : f[n] = IF n = 0 THEN base ELSE ChatEntry(f[n - 1], one[n])
      <4> TAKE n \in 0 .. 1
      <4>1. CASE n = 0 BY <4>1
      <4>2. CASE n = 1
        <5>1. f[n - 1] = base /\ one[n] = entry BY <2>1, <4>2
        <5> QED BY <4>2, <5>1
      <4> QED BY <4>1, <4>2
    <3> QED BY <2>1, <3>1
  <2>3. loop(one)[1] = next
    <3>1. Loops(loop(one), one)
      <4> HIDE DEF Loops, loop, f
      <4> QED BY <1>2, <2>2
    <3> HIDE DEF loop, next
    <3>2. loop(one) = [n \in 0 .. 1 |->
                         IF n = 0 THEN base ELSE ChatEntry(loop(one)[n - 1], one[n])]
      BY <2>1, <3>1
    <3>3. loop(one)[0] = base BY <3>2
    <3>4. loop(one)[1] = ChatEntry(loop(one)[1 - 1], one[1]) BY <3>2
    <3> QED BY <2>1, <3>3, <3>4 DEF next
  <2> HIDE DEF loop
  <2> QED BY <1>1, <2>1, <2>3 DEF one
<1> QED BY <1>3, <1>4 DEF base

LEMMA ApplyNothing ==
    ASSUME NEW slots
    PROVE  ChatApply(slots, <<>>).slots = slots /\ ChatApply(slots, <<>>).events = <<>>
<1>1. LET base == [slots |-> slots, events |-> <<>>] IN
      ChatApply(slots, <<>>) = base /\ ChatApply(slots, <<0>>) = ChatEntry(base, 0)
  BY ApplyFew
<1> QED BY <1>1

\* What one fragment makes of the slots.
OldSlot(slots, index) == IF index \in DOMAIN slots THEN slots[index] ELSE ChatSlot
SlotKeys == {"id", "name", "arguments"}
LEMMA EntryFills ==
    ASSUME NEW slots, NEW entry, SlotKeys \subseteq DOMAIN OldSlot(slots, entry.index)
    PROVE  LET after == ChatApply(slots, <<entry>>).slots
               old == OldSlot(slots, entry.index)
               new == after[entry.index]
           IN /\ DOMAIN after = DOMAIN slots \cup {entry.index}
              /\ \A i \in DOMAIN slots : i # entry.index => after[i] = slots[i]
              /\ SlotKeys \subseteq DOMAIN new
              /\ new.id = IF entry.id = "" THEN old.id ELSE entry.id
              /\ new.name = IF entry.name = "" THEN old.name ELSE entry.name
              /\ new.arguments = old.arguments \o entry.text
<1> DEFINE base == [slots |-> slots, events |-> <<>>]
           old == IF entry.index \in DOMAIN base.slots THEN base.slots[entry.index]
                  ELSE ChatSlot
           named == [old EXCEPT !.id = IF entry.id = "" THEN @ ELSE entry.id,
                                !.name = IF entry.name = "" THEN @ ELSE entry.name,
                                !.arguments = @ \o entry.text]
           begins == ~ old.started /\ "" \notin {named.id, named.name}
           new == [named EXCEPT !.started = @ \/ begins]
           after == [k \in DOMAIN base.slots \cup {entry.index} |->
                       IF k = entry.index THEN new ELSE base.slots[k]]
<1>1. ChatEntry(base, entry).slots = after BY DEF ChatEntry
<1>2. ChatApply(slots, <<entry>>).slots = after BY <1>1, ApplyFew
<1>3. base.slots = slots OBVIOUS
<1>4. old = OldSlot(slots, entry.index) BY <1>3 DEF OldSlot
<1> HIDE DEF base
<1>5. /\ DOMAIN after = DOMAIN slots \cup {entry.index} /\ after[entry.index] = new
      /\ \A i \in DOMAIN slots : i # entry.index => after[i] = slots[i]
  BY <1>3
<1> HIDE DEF after, old
<1>6. /\ SlotKeys \subseteq DOMAIN named
      /\ named.id = IF entry.id = "" THEN old.id ELSE entry.id
      /\ named.name = IF entry.name = "" THEN old.name ELSE entry.name
      /\ named.arguments = old.arguments \o entry.text
  BY <1>4 DEF SlotKeys
<1> HIDE DEF named, begins
<1>7. /\ DOMAIN new = DOMAIN named
      /\ new.id = named.id /\ new.name = named.name /\ new.arguments = named.arguments
  BY <1>6 DEF SlotKeys
<1> HIDE DEF new
<1> QED BY <1>2, <1>4, <1>5, <1>6, <1>7

\* What one chunk makes of the decoder, before the reason to finish.
ChatKeys == {"model", "usage", "text", "slots", "finish", "finished"}
Grows(state, chunk, grown) ==
    /\ ChatKeys \subseteq DOMAIN grown
    /\ grown.model = IF state.model = Absent THEN chunk.model ELSE state.model
    /\ grown.usage = ChatFoldUsage(state.usage, chunk.usage)
    /\ grown.text = state.text \o chunk.text
    /\ grown.slots = ChatApply(state.slots, chunk.entries).slots
    /\ grown.finish = state.finish /\ grown.finished = state.finished
LEMMA ChunkGrows ==
    ASSUME NEW state, ChatKeys \subseteq DOMAIN state, NEW chunk, NEW row
    PROVE  \E grown, es : /\ Grows(state, chunk, grown)
                          /\ ChatChunk(state, chunk, row) = ChatFinish(grown, es, chunk.finish, row)
                          /\ \/ es = <<>>
                             \/ chunk.usage # Absent \/ chunk.text # <<>> \/ chunk.entries # <<>>
<1> DEFINE applied == ChatApply(state.slots, chunk.entries)
           usage == ChatFoldUsage(state.usage, chunk.usage)
           es == (IF chunk.usage = Absent THEN <<>> ELSE <<UsageEvent(ChatUsage(usage))>>)
                   \o applied.events
                   \o (IF chunk.text = <<>> THEN <<>> ELSE <<TextDelta(chunk.text)>>)
           grown == [state EXCEPT !.model = IF @ = Absent THEN chunk.model ELSE @,
                                  !.usage = usage, !.slots = applied.slots,
                                  !.text = @ \o chunk.text,
                                  !.reasoning = @ \o chunk.reasoning,
                                  !.semantic = @ \/ es # <<>>]
<1>1. ChatChunk(state, chunk, row) = ChatFinish(grown, es, chunk.finish, row) BY DEF ChatChunk
<1> DEFINE slots == applied.slots
           model == IF state.model = Absent THEN chunk.model ELSE state.model
           text == state.text \o chunk.text
<1>2. Grows(state, chunk, grown)
  <2> HIDE DEF es, usage, applied
  <2>1. /\ ChatKeys \subseteq DOMAIN grown
        /\ grown.model = model /\ grown.usage = usage /\ grown.text = text
        /\ grown.slots = slots /\ grown.finish = state.finish
        /\ grown.finished = state.finished
    BY DEF ChatKeys
  <2> HIDE DEF grown
  <2> QED BY <2>1 DEF Grows, usage, applied
<1>3. ASSUME chunk.usage = Absent, chunk.text = <<>>, chunk.entries = <<>> PROVE es = <<>>
  <2>1. applied.events = <<>> BY <1>3, ApplyNothing
  <2> HIDE DEF applied
  <2>2. es = (<<>> \o <<>>) \o <<>> BY <1>3, <2>1
  <2> QED BY <2>2
<1> HIDE DEF grown, es
<1> QED BY <1>1, <1>2, <1>3

\* Before the reason to finish, the decoder goes on.
LEMMA ChunkGoesOn ==
    ASSUME NEW state, ChatKeys \subseteq DOMAIN state, NEW chunk, NEW row,
           chunk.finish = Absent \/ state.finish # Absent
    PROVE  LET step == ChatChunk(state, chunk, row) IN
           step.end = Open /\ Grows(state, chunk, step.state)
<1>1. PICK grown, es : /\ Grows(state, chunk, grown)
                       /\ ChatChunk(state, chunk, row) = ChatFinish(grown, es, chunk.finish, row)
  BY ChunkGrows
<1>2. grown.finish = state.finish BY <1>1 DEF Grows
<1>3. ChatFinish(grown, es, chunk.finish, row) = Goes(grown, es) BY <1>2 DEF ChatFinish
<1> DEFINE step == ChatChunk(state, chunk, row)
<1>4. step = Goes(grown, es) BY <1>1, <1>3
<1> HIDE DEF step
<1>5. step.end = Open /\ step.state = grown BY <1>4 DEF Goes
<1> QED BY <1>1, <1>5 DEF step

\* The chunks of a block, one for each fragment of a text, one for what was thought,
\* and those of a call, which is named by its first or, if that comes late, by its
\* second.
TextChunk(row, x) == [ChatBare(row) EXCEPT !.text = <<x>>]
ThoughtChunk(row, thought) == [ChatBare(row) EXCEPT !.reasoning = thought]
Fragment(k, id, name, text) == [index |-> k, id |-> id, name |-> name, text |-> text]
EntryChunk(row, fragment) == [ChatBare(row) EXCEPT !.entries = <<fragment>>]
CallOpens(row, b, k, late) == EntryChunk(row, Fragment(k, b.id, IF late THEN "" ELSE b.name, <<>>))
CallGoesOn(row, b, k, late, i) ==
    EntryChunk(row, Fragment(k, "", IF late /\ i = 1 THEN b.name ELSE "", <<b.arguments[i]>>))
CallNamed(row, b, k) == EntryChunk(row, Fragment(k, "", b.name, <<>>))

LEMMA ChatBlockShape ==
    ASSUME NEW b, KnownBlock(b, "openai_chat"), NEW k, NEW late, NEW row
    PROVE  LET c == ChatBlockChunks(b, k, late, row) IN
           /\ IsSequence(c)
           /\ b.type = "text" =>
                Len(c) = Len(b.text) /\ \A i \in 1 .. Len(c) : c[i] = TextChunk(row, b.text[i])
           /\ b.type = "thinking" => Len(c) = 1 /\ c[1] = ThoughtChunk(row, b.signature)
           /\ b.type = "tool" => Len(c) > 0 /\ c[1] = CallOpens(row, b, k, late)
           /\ b.type = "tool" /\ b.arguments # <<>> =>
                /\ Len(c) = 1 + Len(b.arguments)
                /\ \A i \in 1 .. Len(b.arguments) : c[i + 1] = CallGoesOn(row, b, k, late, i)
           /\ b.type = "tool" /\ b.arguments = <<>> =>
                /\ Len(c) = IF late THEN 2 ELSE 1
                /\ late => c[2] = CallNamed(row, b, k)
<1> DEFINE c == ChatBlockChunks(b, k, late, row)
           texts == [i \in DOMAIN b.text |-> TextChunk(row, b.text[i])]
           first == CallOpens(row, b, k, late)
           fragments == [i \in DOMAIN b.arguments |-> CallGoesOn(row, b, k, late, i)]
           named == IF late /\ b.arguments = <<>> THEN <<CallNamed(row, b, k)>> ELSE <<>>
<1>1. /\ b.type = "text" => c = texts
      /\ b.type = "thinking" => c = <<ThoughtChunk(row, b.signature)>>
      /\ b.type = "tool" => c = (<<first>> \o fragments) \o named
  BY DEF ChatBlockChunks, TextChunk, ThoughtChunk, CallOpens, CallGoesOn, CallNamed,
         EntryChunk, Fragment
<1>2. /\ b.type \in {"text", "tool", "thinking"}
      /\ b.type = "text" => IsSequence(b.text)
      /\ b.type = "tool" => IsSequence(b.arguments)
  BY DEF KnownBlock, BlockTypes
<1> HIDE DEF c
<1>3. \A x : IsSequence(<<x>>) /\ Len(<<x>>) = 1 /\ <<x>>[1] = x BY DEF IsSequence
<1>4. CASE b.type = "text"
  <2>1. MadeOf(texts, b.text) BY DEF MadeOf
  <2>2. \A i \in DOMAIN b.text : texts[i] = TextChunk(row, b.text[i]) OBVIOUS
  <2>3. DOMAIN b.text = 1 .. Len(b.text) BY <1>2, <1>4 DEF IsSequence
  <2> HIDE DEF texts
  <2>4. IsSequence(texts) /\ Len(texts) = Len(b.text) BY <1>2, <1>4, <2>1, MadeIsSequence
  <2>5. IsSequence(c) /\ Len(c) = Len(b.text) /\ \A i \in 1 .. Len(c) : c[i] = TextChunk(row, b.text[i])
    BY <1>1, <1>4, <2>2, <2>3, <2>4
  <2> QED BY <1>4, <2>5 DEF c
<1>5. CASE b.type = "thinking"
  <2> DEFINE one == <<ThoughtChunk(row, b.signature)>>
  <2>1. c = one BY <1>1, <1>5
  <2>2. IsSequence(one) /\ Len(one) = 1 /\ one[1] = ThoughtChunk(row, b.signature) BY <1>3
  <2> HIDE DEF one
  <2>3. IsSequence(c) /\ Len(c) = 1 /\ c[1] = ThoughtChunk(row, b.signature) BY <2>1, <2>2
  <2> QED BY <1>5, <2>3 DEF c
<1>6. CASE b.type = "tool"
  <2> DEFINE one == <<first>>
             front == one \o fragments
             args == b.arguments
  <2>1. c = front \o named BY <1>1, <1>6
  <2>2. IsSequence(one) /\ Len(one) = 1 /\ one[1] = first BY <1>3
  <2>3. MadeOf(fragments, args) /\ \A i \in DOMAIN args : fragments[i] = CallGoesOn(row, b, k, late, i)
    BY DEF MadeOf
  <2>4. IsSequence(args) /\ Len(args) \in Nat /\ DOMAIN args = 1 .. Len(args)
    BY <1>2, <1>6 DEF IsSequence
  <2> HIDE DEF fragments, first, one, args
  <2>5. IsSequence(fragments) /\ Len(fragments) = Len(args) BY <2>3, <2>4, MadeIsSequence
  <2>6. /\ IsSequence(front) /\ Len(front) = 1 + Len(args) /\ front[1] = first
        /\ \A i \in 1 .. Len(args) : front[1 + i] = fragments[i]
    <3>0. IsSequence(one) /\ IsSequence(fragments) BY <2>2, <2>5
    <3> DEFINE joined == one \o fragments
    <3>1. /\ IsSequence(joined) /\ Len(joined) = Len(one) + Len(fragments)
          /\ \A i \in 1 .. Len(one) : joined[i] = one[i]
          /\ \A i \in 1 .. Len(fragments) : joined[Len(one) + i] = fragments[i]
      BY <3>0, Joined
    <3> HIDE DEF joined
    <3>2. 1 \in 1 .. Len(one) BY <2>2
    <3>3. /\ IsSequence(joined) /\ Len(joined) = 1 + Len(args) /\ joined[1] = first
          /\ \A i \in 1 .. Len(args) : joined[1 + i] = fragments[i]
      BY <2>2, <2>5, <3>1, <3>2
    <3> QED BY <3>3 DEF joined
  <2> HIDE DEF front
  <2>7. ASSUME args # <<>>
        PROVE  /\ IsSequence(c) /\ c[1] = first /\ Len(c) = 1 + Len(args)
               /\ \A i \in 1 .. Len(args) : c[i + 1] = CallGoesOn(row, b, k, late, i)
    <3>1. named = <<>> BY <2>7 DEF args
    <3>2. c = front BY <2>1, <2>6, <3>1, JoinsAnyhow
    <3>3. \A i \in 1 .. Len(args) : i + 1 = 1 + i BY <2>4
    <3> QED BY <2>3, <2>4, <2>6, <3>2, <3>3
  <2>8. ASSUME args = <<>>
        PROVE  /\ IsSequence(c) /\ c[1] = first /\ Len(c) = IF late THEN 2 ELSE 1
               /\ late => c[2] = CallNamed(row, b, k)
    <3>1. Len(front) = 1 BY <2>6, <2>8
    <3>2. CASE late
      <4> DEFINE last == <<CallNamed(row, b, k)>>
      <4>1. named = last BY <2>8, <3>2 DEF args
      <4>2. IsSequence(last) /\ Len(last) = 1 /\ last[1] = CallNamed(row, b, k) BY <1>3
      <4> HIDE DEF last, named
      <4>3. c = front \o last BY <2>1, <4>1
      <4>4. IsSequence(front \o last) /\ Len(front \o last) = 2
            /\ (front \o last)[1] = front[1] /\ (front \o last)[2] = last[1]
        <5>1. 1 \in 1 .. Len(front) /\ 1 \in 1 .. Len(last) /\ Len(front) + 1 = 2
          BY <3>1, <4>2
        <5> QED BY <2>6, <3>1, <4>2, <5>1, Joined
      <4> QED BY <2>6, <3>2, <4>2, <4>3, <4>4
    <3>3. CASE ~ late
      <4>1. named = <<>> BY <3>3
      <4>2. c = front BY <2>1, <2>6, <4>1, JoinsAnyhow
      <4> QED BY <2>6, <3>1, <3>3, <4>2
    <3> QED BY <3>2, <3>3
  <2>9. Len(c) > 0
    <3>1. CASE args # <<>> BY <2>4, <2>7, <3>1
    <3>2. CASE args = <<>> BY <2>8, <3>2
    <3> QED BY <3>1, <3>2
  <2>10. IsSequence(c) /\ c[1] = first BY <2>7, <2>8
  <2>11. /\ args # <<>> =>
              /\ Len(c) = 1 + Len(args)
              /\ \A i \in 1 .. Len(args) : c[i + 1] = CallGoesOn(row, b, k, late, i)
         /\ args = <<>> => /\ Len(c) = IF late THEN 2 ELSE 1
                           /\ late => c[2] = CallNamed(row, b, k)
    BY <2>7, <2>8
  <2> QED BY <1>6, <2>9, <2>10, <2>11 DEF args, first, c
<1> QED BY <1>2, <1>4, <1>5, <1>6 DEF c

\* What the decoder has read of a message: its text, and its calls by their places.
ToolsAt(bs, k) == {i \in 1 .. k : bs[i].type = "tool"}
HasCall(slot, b) ==
    /\ SlotKeys \subseteq DOMAIN slot
    /\ slot.id = b.id /\ slot.name = b.name /\ slot.arguments = b.arguments
HasPartly(slot, b, n, late) ==
    /\ SlotKeys \subseteq DOMAIN slot
    /\ slot.id = b.id /\ slot.name = IF late /\ n = 1 THEN "" ELSE b.name
    /\ slot.arguments = IF b.arguments = <<>> THEN <<>> ELSE Initial(b.arguments, n - 1)
HasCalls(slots, bs, k) ==
    DOMAIN slots = ToolsAt(bs, k) /\ \A i \in ToolsAt(bs, k) : HasCall(slots[i], bs[i])
HasCallsPartly(slots, bs, k, n, late) ==
    /\ DOMAIN slots = ToolsAt(bs, k)
    /\ \A i \in ToolsAt(bs, k - 1) : HasCall(slots[i], bs[i])
    /\ HasPartly(slots[k], bs[k], n, late)
Unfinished(state, row) ==
    /\ ChatKeys \subseteq DOMAIN state
    /\ state.model \in {Absent, row.model} /\ state.usage = Absent /\ state.finish = Absent
HasMessage(state, bs, k, row) ==
    /\ Unfinished(state, row)
    /\ state.text = TextOf(Initial(bs, k)) /\ HasCalls(state.slots, bs, k)
SpokenPartly(b, n) == IF b.type = "text" THEN Initial(b.text, n) ELSE <<>>
HasChunks(state, bs, late, k, n, row) ==
    /\ Unfinished(state, row)
    /\ state.text = TextOf(Initial(bs, k - 1)) \o SpokenPartly(bs[k], n)
    /\ IF bs[k].type = "tool" /\ n > 0 THEN HasCallsPartly(state.slots, bs, k, n, late)
       ELSE HasCalls(state.slots, bs, k - 1)

LEMMA ToolsAtMore ==
    ASSUME NEW bs, NEW k \in Nat, k > 0
    PROVE  /\ bs[k].type = "tool" => ToolsAt(bs, k) = ToolsAt(bs, k - 1) \cup {k}
           /\ bs[k].type # "tool" => ToolsAt(bs, k) = ToolsAt(bs, k - 1)
           /\ k \notin ToolsAt(bs, k - 1)
<1>1. 1 .. k = (1 .. k - 1) \cup {k} /\ k \notin 1 .. k - 1 OBVIOUS
<1> QED BY <1>1 DEF ToolsAt

\* A block that is read, and one that begins.
LEMMA MessageOpens ==
    ASSUME NEW bs, WordedBlocks(bs), NEW k \in 1 .. Len(bs), NEW late, NEW row,
           NEW state, HasMessage(state, bs, k - 1, row)
    PROVE  HasChunks(state, bs, late, k, 0, row)
<1> DEFINE front == TextOf(Initial(bs, k - 1))
<1>1. IsSequence(front) BY BlocksGrow
<1>2. SpokenPartly(bs[k], 0) = <<>> BY DEF SpokenPartly, Initial
<1>3. state.text = front BY DEF HasMessage
<1> HIDE DEF front
<1>4. front \o <<>> = front BY <1>1, JoinsAnyhow
<1>5. state.text = front \o SpokenPartly(bs[k], 0) BY <1>2, <1>3, <1>4
<1> QED BY <1>5 DEF HasChunks, HasMessage, front

LEMMA MessageCloses ==
    ASSUME NEW bs, WordedBlocks(bs), NEW k \in 1 .. Len(bs), KnownBlock(bs[k], "openai_chat"),
           NEW late, NEW row, NEW state,
           HasChunks(state, bs, late, k, Len(ChatBlockChunks(bs[k], k, late, row)), row)
    PROVE  HasMessage(state, bs, k, row)
<1> DEFINE b == bs[k]
           c == ChatBlockChunks(b, k, late, row)
           n == Len(c)
           front == TextOf(Initial(bs, k - 1))
<1>1. /\ b.type \in {"text", "tool", "thinking"}
      /\ b.type = "text" => IsSequence(b.text)
      /\ b.type = "tool" => IsSequence(b.arguments)
  BY DEF KnownBlock, BlockTypes
<1>2. /\ b.type = "text" => n = Len(b.text)
      /\ b.type = "tool" => n > 0
      /\ b.type = "tool" /\ b.arguments # <<>> => n = 1 + Len(b.arguments)
      /\ b.type = "tool" /\ b.arguments = <<>> => n = IF late THEN 2 ELSE 1
  <2>1. KnownBlock(b, "openai_chat") OBVIOUS
  <2> HIDE DEF b
  <2> QED BY <2>1, ChatBlockShape
<1>3. /\ IsSequence(front) /\ TextOf(Initial(bs, k)) = front \o Spoken(b)
  BY BlocksGrow
<1>4. k \in Nat /\ k > 0
  <2>1. Len(bs) \in Nat BY DEF WordedBlocks, IsSequence
  <2> QED BY <2>1
<1> HIDE DEF n, b, c
<1>5. /\ Unfinished(state, row)
      /\ state.text = front \o SpokenPartly(b, n)
      /\ IF b.type = "tool" /\ n > 0 THEN HasCallsPartly(state.slots, bs, k, n, late)
         ELSE HasCalls(state.slots, bs, k - 1)
  BY DEF HasChunks, b, c, n
<1>6. SpokenPartly(b, n) = Spoken(b) BY <1>1, <1>2, Initials DEF SpokenPartly, Spoken
<1>7. HasCalls(state.slots, bs, k)
  <2>1. CASE b.type # "tool"
    <3>1. ToolsAt(bs, k) = ToolsAt(bs, k - 1) BY <1>4, <2>1, ToolsAtMore DEF b
    <3> QED BY <1>5, <2>1, <3>1 DEF HasCalls
  <2>2. CASE b.type = "tool"
    <3>1. HasCallsPartly(state.slots, bs, k, n, late) BY <1>2, <1>5, <2>2
    <3>2. HasCall(state.slots[k], b)
      <4> DEFINE slot == state.slots[k]
                 args == b.arguments
      <4>1. HasPartly(slot, b, n, late) BY <3>1 DEF HasCallsPartly, b
      <4> HIDE DEF slot
      <4>2. IsSequence(args) /\ Len(args) \in Nat BY <1>1, <2>2 DEF IsSequence
      <4>3. args # <<>> => Len(args) # 0 BY <4>2 DEF IsSequence
      <4>4. slot.name = b.name
        <5>1. late => n # 1 BY <1>2, <2>2, <4>2, <4>3
        <5> QED BY <4>1, <5>1 DEF HasPartly
      <4>5. slot.arguments = args
        <5>1. CASE args = <<>> BY <4>1, <5>1 DEF HasPartly
        <5>2. CASE args # <<>>
          <6>1. n - 1 = Len(args) BY <1>2, <2>2, <4>2, <5>2
          <6>2. Initial(args, n - 1) = args BY <4>2, <6>1, Initials
          <6> QED BY <4>1, <5>2, <6>2 DEF HasPartly
        <5> QED BY <5>1, <5>2
      <4> QED BY <4>1, <4>4, <4>5 DEF HasCall, HasPartly, slot
    <3>3. ToolsAt(bs, k) = ToolsAt(bs, k - 1) \cup {k} BY <1>4, <2>2, ToolsAtMore DEF b
    <3> QED BY <3>1, <3>2, <3>3 DEF HasCalls, HasCallsPartly, b
  <2> QED BY <2>1, <2>2
<1> QED BY <1>3, <1>5, <1>6, <1>7 DEF HasMessage

\* The fragment of a call that comes after so many of its chunks.
NextFragment(b, k, late, n) ==
    IF n = 0 THEN Fragment(k, b.id, IF late THEN "" ELSE b.name, <<>>)
    ELSE IF b.arguments = <<>> THEN Fragment(k, "", b.name, <<>>)
    ELSE Fragment(k, "", IF late /\ n = 1 THEN b.name ELSE "", <<b.arguments[n]>>)

LEMMA NextChunk ==
    ASSUME NEW b, KnownBlock(b, "openai_chat"), NEW k, NEW late, NEW row, NEW n \in Nat,
           n < Len(ChatBlockChunks(b, k, late, row))
    PROVE  LET chunk == ChatBlockChunks(b, k, late, row)[n + 1] IN
           /\ chunk.model = row.model /\ chunk.usage = Absent /\ chunk.finish = Absent
           /\ b.type = "text" =>
                /\ chunk.text = <<b.text[n + 1]>> /\ chunk.entries = <<>>
                /\ n + 1 \in 1 .. Len(b.text)
           /\ b.type = "thinking" => chunk.text = <<>> /\ chunk.entries = <<>>
           /\ b.type = "tool" =>
                /\ chunk.text = <<>> /\ chunk.entries = <<NextFragment(b, k, late, n)>>
                /\ b.arguments = <<>> /\ n > 0 => n = 1 /\ late
                /\ b.arguments # <<>> /\ n > 0 => n \in 1 .. Len(b.arguments)
<1> DEFINE c == ChatBlockChunks(b, k, late, row)
           chunk == c[n + 1]
<1>1. /\ b.type \in {"text", "tool", "thinking"}
      /\ b.type = "text" => IsSequence(b.text)
      /\ b.type = "tool" => IsSequence(b.arguments)
  BY DEF KnownBlock, BlockTypes
<1>2. /\ IsSequence(c)
      /\ b.type = "text" =>
           Len(c) = Len(b.text) /\ \A i \in 1 .. Len(c) : c[i] = TextChunk(row, b.text[i])
      /\ b.type = "thinking" => Len(c) = 1 /\ c[1] = ThoughtChunk(row, b.signature)
      /\ b.type = "tool" => Len(c) > 0 /\ c[1] = CallOpens(row, b, k, late)
      /\ b.type = "tool" /\ b.arguments # <<>> =>
           /\ Len(c) = 1 + Len(b.arguments)
           /\ \A i \in 1 .. Len(b.arguments) : c[i + 1] = CallGoesOn(row, b, k, late, i)
      /\ b.type = "tool" /\ b.arguments = <<>> =>
           /\ Len(c) = IF late THEN 2 ELSE 1
           /\ late => c[2] = CallNamed(row, b, k)
  BY ChatBlockShape
<1>3. Len(c) \in Nat /\ n < Len(c) BY <1>2 DEF IsSequence
<1> HIDE DEF c
<1>4. n + 1 \in 1 .. Len(c) BY <1>3
<1>5. CASE b.type = "text"
  <2>1. chunk = TextChunk(row, b.text[n + 1]) /\ n + 1 \in 1 .. Len(b.text) BY <1>2, <1>4, <1>5
  <2> HIDE DEF chunk
  <2>2. /\ chunk.model = row.model /\ chunk.usage = Absent /\ chunk.finish = Absent
        /\ chunk.text = <<b.text[n + 1]>> /\ chunk.entries = <<>>
    BY <2>1 DEF TextChunk, ChatBare
  <2> QED BY <1>5, <2>1, <2>2 DEF chunk, c
<1>6. CASE b.type = "thinking"
  <2>0. Len(c) = 1 /\ c[1] = ThoughtChunk(row, b.signature) BY <1>2, <1>6
  <2>1. n = 0 BY <1>3, <2>0
  <2>2. chunk = ThoughtChunk(row, b.signature) BY <2>0, <2>1
  <2> HIDE DEF chunk
  <2>3. /\ chunk.model = row.model /\ chunk.usage = Absent /\ chunk.finish = Absent
        /\ chunk.text = <<>> /\ chunk.entries = <<>>
    BY <2>2 DEF ThoughtChunk, ChatBare
  <2> QED BY <1>6, <2>3 DEF chunk, c
<1>7. CASE b.type = "tool"
  <2>1. /\ b.arguments = <<>> /\ n > 0 => n = 1 /\ late
        /\ b.arguments # <<>> /\ n > 0 => n \in 1 .. Len(b.arguments)
    <3>1. ASSUME b.arguments = <<>>, n > 0 PROVE n = 1 /\ late
      <4>1. Len(c) = IF late THEN 2 ELSE 1 BY <1>2, <1>7, <3>1
      <4>2. CASE late
        <5>1. Len(c) = 2 BY <4>1, <4>2
        <5>2. n = 1 BY <1>3, <3>1, <5>1
        <5> QED BY <4>2, <5>2
      <4>3. CASE ~ late
        <5>1. Len(c) = 1 BY <4>1, <4>3
        <5> QED BY <1>3, <3>1, <5>1
      <4> QED BY <4>2, <4>3
    <3>2. ASSUME b.arguments # <<>>, n > 0 PROVE n \in 1 .. Len(b.arguments)
      <4>1. Len(c) = 1 + Len(b.arguments) BY <1>2, <1>7, <3>2
      <4>2. Len(b.arguments) \in Nat BY <1>1, <1>7 DEF IsSequence
      <4> QED BY <1>3, <3>2, <4>1, <4>2
    <3> QED BY <3>1, <3>2
  <2>2. chunk = EntryChunk(row, NextFragment(b, k, late, n))
    <3>1. CASE n = 0
      <4>1. chunk = c[1] BY <3>1
      <4>2. c[1] = CallOpens(row, b, k, late) BY <1>2, <1>7
      <4>3. NextFragment(b, k, late, n) = Fragment(k, b.id, IF late THEN "" ELSE b.name, <<>>)
        BY <3>1 DEF NextFragment
      <4> QED BY <4>1, <4>2, <4>3 DEF CallOpens
    <3>2. CASE n > 0 /\ b.arguments = <<>>
      <4>1. n + 1 = 2 /\ late BY <2>1, <3>2
      <4>2. c[2] = CallNamed(row, b, k) BY <1>2, <1>7, <3>2, <4>1
      <4>3. n # 0 BY <3>2
      <4>4. NextFragment(b, k, late, n) = Fragment(k, "", b.name, <<>>)
        BY <3>2, <4>3 DEF NextFragment
      <4> QED BY <4>1, <4>2, <4>4 DEF CallNamed
    <3>3. CASE n > 0 /\ b.arguments # <<>>
      <4>1. chunk = CallGoesOn(row, b, k, late, n) BY <1>2, <1>7, <2>1, <3>3
      <4>2. n # 0 BY <3>3
      <4>3. NextFragment(b, k, late, n)
              = Fragment(k, "", IF late /\ n = 1 THEN b.name ELSE "", <<b.arguments[n]>>)
        BY <3>3, <4>2 DEF NextFragment
      <4> QED BY <4>1, <4>3 DEF CallGoesOn
    <3> QED BY <3>1, <3>2, <3>3
  <2> HIDE DEF chunk
  <2>3. /\ chunk.model = row.model /\ chunk.usage = Absent /\ chunk.finish = Absent
        /\ chunk.text = <<>> /\ chunk.entries = <<NextFragment(b, k, late, n)>>
    BY <2>2 DEF EntryChunk, ChatBare
  <2> QED BY <1>7, <2>1, <2>3 DEF chunk, c
<1> QED BY <1>1, <1>5, <1>6, <1>7

\* It goes into the slot of the call.
LEMMA FragmentFills ==
    ASSUME NEW bs, NEW k \in Nat, k > 0, bs[k].type = "tool", IsSequence(bs[k].arguments),
           NEW late, NEW n \in Nat,
           bs[k].arguments = <<>> /\ n > 0 => n = 1 /\ late,
           bs[k].arguments # <<>> /\ n > 0 => n \in 1 .. Len(bs[k].arguments),
           NEW slots,
           IF n > 0 THEN HasCallsPartly(slots, bs, k, n, late) ELSE HasCalls(slots, bs, k - 1)
    PROVE  HasCallsPartly(ChatApply(slots, <<NextFragment(bs[k], k, late, n)>>).slots,
                          bs, k, n + 1, late)
<1> DEFINE b == bs[k]
           args == b.arguments
           f == NextFragment(b, k, late, n)
           after == ChatApply(slots, <<f>>).slots
           old == OldSlot(slots, f.index)
           new == after[f.index]
           grown == IF args = <<>> THEN <<>> ELSE Initial(args, n)
<1>1. f.index = k BY DEF NextFragment, Fragment
<1>2. k \notin ToolsAt(bs, k - 1) /\ ToolsAt(bs, k) = ToolsAt(bs, k - 1) \cup {k}
  BY ToolsAtMore
<1>3. /\ DOMAIN slots = (IF n > 0 THEN ToolsAt(bs, k) ELSE ToolsAt(bs, k - 1))
      /\ \A i \in ToolsAt(bs, k - 1) : HasCall(slots[i], bs[i])
      /\ n > 0 => HasPartly(slots[k], b, n, late)
  BY DEF HasCalls, HasCallsPartly
<1> HIDE DEF b
<1>4. /\ n = 0 => old = ChatSlot
      /\ n > 0 => old = slots[k]
  BY <1>1, <1>2, <1>3 DEF OldSlot
<1>5. SlotKeys \subseteq DOMAIN old
  <2>1. SlotKeys \subseteq DOMAIN ChatSlot BY DEF SlotKeys, ChatSlot
  <2> HIDE DEF old
  <2>2. CASE n = 0
    <3>1. old = ChatSlot BY <1>4, <2>2
    <3> QED BY <2>1, <3>1
  <2>3. CASE n > 0
    <3>1. HasPartly(old, b, n, late) BY <1>3, <1>4, <2>3
    <3> QED BY <3>1 DEF HasPartly
  <2> QED BY <2>2, <2>3
<1>6. /\ DOMAIN after = DOMAIN slots \cup {f.index}
      /\ \A i \in DOMAIN slots : i # f.index => after[i] = slots[i]
      /\ SlotKeys \subseteq DOMAIN new
      /\ new.id = IF f.id = "" THEN old.id ELSE f.id
      /\ new.name = IF f.name = "" THEN old.name ELSE f.name
      /\ new.arguments = old.arguments \o f.text
  <2> HIDE DEF f
  <2> QED BY <1>5, EntryFills
<1>7. DOMAIN after = ToolsAt(bs, k) /\ \A i \in ToolsAt(bs, k - 1) : after[i] = slots[i]
  <2> HIDE DEF f, after
  <2> QED BY <1>1, <1>2, <1>3, <1>6
<1>8. HasPartly(new, b, n + 1, late)
  <2> HIDE DEF new, old, after
  <2>1. CASE n = 0
    <3>1. old = ChatSlot BY <1>4, <2>1
    <3>2. old.id = "" /\ old.name = "" /\ old.arguments = <<>> BY <3>1 DEF ChatSlot
    <3> DEFINE given == IF late THEN "" ELSE b.name
    <3>3. f = Fragment(k, b.id, given, <<>>) BY <2>1 DEF NextFragment
    <3>4. given \in {"", b.name} /\ (~ late => given = b.name) /\ (late => given = "") OBVIOUS
    <3> HIDE DEF f, given
    <3>5. f.id = b.id /\ f.name = given /\ f.text = <<>>
      BY <3>3 DEF Fragment
    <3>6. Initial(args, 0) = <<>> BY DEF Initial
    <3>7. (n + 1) - 1 = 0 /\ n + 1 = 1 BY <2>1
    <3>8. new.id = b.id BY <1>6, <3>2, <3>5
    <3>9. new.name = given BY <1>6, <3>2, <3>5
    <3>10. new.name = IF late /\ n + 1 = 1 THEN "" ELSE b.name BY <3>7, <3>4, <3>9
    <3>11. <<>> \o <<>> = <<>> OBVIOUS
    <3>12. new.arguments = <<>> BY <1>6, <3>2, <3>5, <3>11
    <3> QED BY <1>6, <3>6, <3>7, <3>8, <3>10, <3>12 DEF HasPartly
  <2>2. CASE n > 0 /\ args = <<>>
    <3>1. late /\ n = 1 /\ HasPartly(old, b, n, late) BY <1>3, <1>4, <2>2 DEF b
    <3>2. old.id = b.id /\ old.name = "" /\ old.arguments = <<>> BY <2>2, <3>1 DEF HasPartly
    <3>3. n # 0 BY <2>2
    <3>4. f = Fragment(k, "", b.name, <<>>) BY <2>2, <3>3 DEF NextFragment
    <3> HIDE DEF f
    <3>5. f.id = "" /\ f.name = b.name /\ f.text = <<>> BY <3>4 DEF Fragment
    <3>6. n + 1 # 1 BY <3>1
    <3>7. new.id = b.id /\ new.name = b.name BY <1>6, <3>2, <3>5
    <3>8. <<>> \o <<>> = <<>> OBVIOUS
    <3>9. new.arguments = <<>> BY <1>6, <3>2, <3>5, <3>8
    <3> QED BY <1>6, <2>2, <3>6, <3>7, <3>9 DEF HasPartly
  <2>3. CASE n > 0 /\ args # <<>>
    <3> DEFINE given == IF late /\ n = 1 THEN b.name ELSE ""
               one == <<args[n]>>
    <3>1. HasPartly(old, b, n, late) /\ n \in 1 .. Len(args) BY <1>3, <1>4, <2>3 DEF b
    <3>2. /\ old.id = b.id /\ old.name = (IF late /\ n = 1 THEN "" ELSE b.name)
          /\ old.arguments = Initial(args, n - 1)
      BY <2>3, <3>1 DEF HasPartly
    <3>3. n # 0 BY <2>3
    <3>4. f = Fragment(k, "", given, one) BY <2>3, <3>3 DEF NextFragment
    <3>5. (given = "" /\ ~ (late /\ n = 1)) \/ given = b.name OBVIOUS
    <3> HIDE DEF f, given
    <3>6. f.id = "" /\ f.name = given /\ f.text = one BY <3>4 DEF Fragment
    <3>7. IsSequence(args) BY DEF b
    <3> HIDE DEF args
    <3>8. Initial(args, n - 1) \o one = Initial(args, n) BY <3>1, <3>7, Initials
    <3>9. n + 1 # 1 /\ (n + 1) - 1 = n BY <2>3
    <3>10. new.name = b.name
      <4>1. new.name = IF given = "" THEN old.name ELSE given BY <1>6, <3>6
      <4> QED BY <3>2, <3>5, <4>1 DEF given
    <3>11. new.id = b.id /\ new.arguments = Initial(args, n) BY <1>6, <3>2, <3>6, <3>8
    <3> QED BY <1>6, <2>3, <3>9, <3>10, <3>11 DEF HasPartly, args
  <2> QED BY <2>1, <2>2, <2>3
<1> HIDE DEF after, f
<1>9. \A i \in ToolsAt(bs, k - 1) : HasCall(after[i], bs[i]) BY <1>3, <1>7
<1>10. HasPartly(after[k], b, n + 1, late) BY <1>1, <1>8
<1> QED BY <1>7, <1>9, <1>10 DEF HasCallsPartly, after, f, b

\* One chunk more is read.
LEMMA ChunkRead ==
    ASSUME NEW bs, WordedBlocks(bs), NEW k \in 1 .. Len(bs), KnownBlock(bs[k], "openai_chat"),
           NEW late, NEW row, NEW state, NEW n \in Nat,
           n < Len(ChatBlockChunks(bs[k], k, late, row)),
           HasChunks(state, bs, late, k, n, row)
    PROVE  LET chunk == ChatBlockChunks(bs[k], k, late, row)[n + 1]
               step == ChatChunk(state, chunk, row)
           IN step.end = Open /\ HasChunks(step.state, bs, late, k, n + 1, row)
<1> DEFINE b == bs[k]
           chunk == ChatBlockChunks(b, k, late, row)[n + 1]
           step == ChatChunk(state, chunk, row)
           grown == step.state
           front == TextOf(Initial(bs, k - 1))
           f == NextFragment(b, k, late, n)
<1>1. /\ b.type \in {"text", "tool", "thinking"}
      /\ b.type = "text" => IsSequence(b.text)
      /\ b.type = "tool" => IsSequence(b.arguments)
  BY DEF KnownBlock, BlockTypes
<1>2. /\ chunk.model = row.model /\ chunk.usage = Absent /\ chunk.finish = Absent
      /\ b.type = "text" =>
           /\ chunk.text = <<b.text[n + 1]>> /\ chunk.entries = <<>>
           /\ n + 1 \in 1 .. Len(b.text)
      /\ b.type = "thinking" => chunk.text = <<>> /\ chunk.entries = <<>>
      /\ b.type = "tool" =>
           /\ chunk.text = <<>> /\ chunk.entries = <<f>>
           /\ b.arguments = <<>> /\ n > 0 => n = 1 /\ late
           /\ b.arguments # <<>> /\ n > 0 => n \in 1 .. Len(b.arguments)
  BY NextChunk
<1>3. /\ Unfinished(state, row) /\ state.text = front \o SpokenPartly(b, n)
      /\ IF b.type = "tool" /\ n > 0 THEN HasCallsPartly(state.slots, bs, k, n, late)
         ELSE HasCalls(state.slots, bs, k - 1)
  BY DEF HasChunks
<1>4. IsSequence(front) BY BlocksGrow
<1>5. k \in Nat /\ k > 0
  <2>1. Len(bs) \in Nat BY DEF WordedBlocks, IsSequence
  <2> QED BY <2>1
<1> HIDE DEF chunk, front, f
<1>6. step.end = Open /\ Grows(state, chunk, grown)
  <2>1. ChatKeys \subseteq DOMAIN state BY <1>3 DEF Unfinished
  <2> QED BY <1>2, <2>1, ChunkGoesOn
<1> HIDE DEF step, b
<1>7. Unfinished(grown, row) /\ grown.text = state.text \o chunk.text
      /\ grown.slots = ChatApply(state.slots, chunk.entries).slots
  <2>1. ChatFoldUsage(Absent, Absent) = Absent BY DEF ChatFoldUsage
  <2> QED BY <1>2, <1>3, <1>6, <2>1 DEF Grows, Unfinished
<1>8. n + 1 \in Nat /\ n + 1 > 0 OBVIOUS
<1>9. CASE b.type # "tool"
  <2>1. chunk.entries = <<>> BY <1>1, <1>2, <1>9
  <2>2. grown.slots = state.slots
    <3>1. ChatApply(state.slots, <<>>).slots = state.slots BY ApplyNothing
    <3> QED BY <1>7, <2>1, <3>1
  <2>3. grown.text = front \o SpokenPartly(b, n + 1)
    <3>1. CASE b.type = "text"
      <4> DEFINE t == b.text
                 part == Initial(t, n)
                 one == <<t[n + 1]>>
      <4>1. IsSequence(t) /\ n + 1 \in 1 .. Len(t) /\ (n + 1) - 1 = n BY <1>1, <1>2, <3>1
      <4> HIDE DEF t
      <4>2. part \o one = Initial(t, n + 1)
        <5>1. Initial(t, (n + 1) - 1) \o <<t[n + 1]>> = Initial(t, n + 1) BY <4>1, Initials
        <5> QED BY <4>1, <5>1
      <4>3. IsSequence(part) /\ IsSequence(one) BY DEF Initial, IsSequence
      <4>4. state.text = front \o part BY <1>3, <3>1 DEF SpokenPartly, t
      <4>5. grown.text = (front \o part) \o one BY <1>2, <1>7, <3>1, <4>4 DEF t
      <4>6. SpokenPartly(b, n + 1) = Initial(t, n + 1) BY <3>1 DEF SpokenPartly, t
      <4> HIDE DEF part, one
      <4>7. (front \o part) \o one = front \o (part \o one) BY <1>4, <4>3, JoinsAnyhow
      <4> QED BY <4>2, <4>5, <4>6, <4>7
    <3>2. CASE b.type # "text"
      <4>1. SpokenPartly(b, n) = <<>> /\ SpokenPartly(b, n + 1) = <<>> BY <3>2 DEF SpokenPartly
      <4>2. chunk.text = <<>> BY <1>1, <1>2, <1>9, <3>2
      <4>3. front \o <<>> = front BY <1>4, JoinsAnyhow
      <4> QED BY <1>3, <1>7, <4>1, <4>2, <4>3
    <3> QED BY <3>1, <3>2
  <2>4. HasCalls(grown.slots, bs, k - 1) BY <1>3, <1>9, <2>2
  <2>5. HasChunks(grown, bs, late, k, n + 1, row) BY <1>7, <1>9, <2>3, <2>4 DEF HasChunks, b, front
  <2> QED BY <1>6, <2>5 DEF step, chunk, b
<1>10. CASE b.type = "tool"
  <2>1. HasCallsPartly(grown.slots, bs, k, n + 1, late)
    <3>1. grown.slots = ChatApply(state.slots, <<f>>).slots BY <1>2, <1>7, <1>10
    <3>2. IF n > 0 THEN HasCallsPartly(state.slots, bs, k, n, late)
          ELSE HasCalls(state.slots, bs, k - 1)
      BY <1>3, <1>10
    <3>3. /\ bs[k].type = "tool" /\ IsSequence(bs[k].arguments)
          /\ bs[k].arguments = <<>> /\ n > 0 => n = 1 /\ late
          /\ bs[k].arguments # <<>> /\ n > 0 => n \in 1 .. Len(bs[k].arguments)
      BY <1>1, <1>2, <1>10 DEF b
    <3>4. HasCallsPartly(ChatApply(state.slots, <<NextFragment(bs[k], k, late, n)>>).slots,
                         bs, k, n + 1, late)
      BY <1>5, <3>2, <3>3, FragmentFills
    <3> QED BY <3>1, <3>4 DEF f, b
  <2>2. grown.text = front \o SpokenPartly(b, n + 1)
    <3>1. SpokenPartly(b, n) = <<>> /\ SpokenPartly(b, n + 1) = <<>> BY <1>10 DEF SpokenPartly
    <3>2. chunk.text = <<>> BY <1>2, <1>10
    <3>3. front \o <<>> = front BY <1>4, JoinsAnyhow
    <3> QED BY <1>3, <1>7, <3>1, <3>2, <3>3
  <2>3. HasChunks(grown, bs, late, k, n + 1, row)
    BY <1>7, <1>8, <1>10, <2>1, <2>2 DEF HasChunks, b, front
  <2> QED BY <1>6, <2>3 DEF step, chunk, b
<1> QED BY <1>9, <1>10

\* The slots in the order of their places are the calls of the message.
Rank(keys, key) == Cardinality({k \in keys : k < key})
Ordered(bs, k) ==
    LET keys == ToolsAt(bs, k)
        tools == ToolsOf(Initial(bs, k))
    IN /\ IsFiniteSet(keys) /\ Cardinality(keys) = Len(tools)
       /\ \A i \in 1 .. Len(tools) : \E key \in keys :
            /\ bs[key] = tools[i]
            /\ \A other \in keys : Rank(keys, other) = i - 1 <=> other = key
LEMMA OrderGrows ==
    ASSUME NEW bs, WordedBlocks(bs), NEW k \in 1 .. Len(bs), Ordered(bs, k - 1)
    PROVE  Ordered(bs, k)
<1> DEFINE b == bs[k]
           old == ToolsAt(bs, k - 1)
           new == ToolsAt(bs, k)
           before == ToolsOf(Initial(bs, k - 1))
           after == ToolsOf(Initial(bs, k))
           m == Len(before)
<1>1. IsSequence(before) /\ after = before \o Asked(b) BY BlocksGrow
<1>2. k \in Nat /\ k > 0
  <2>1. Len(bs) \in Nat BY DEF WordedBlocks, IsSequence
  <2> QED BY <2>1
<1>3. /\ b.type = "tool" => new = old \cup {k}
      /\ b.type # "tool" => new = old
      /\ k \notin old
  BY <1>2, ToolsAtMore
<1>4. /\ IsFiniteSet(old) /\ Cardinality(old) = m
      /\ \A i \in 1 .. m : \E key \in old :
            /\ bs[key] = before[i]
            /\ \A other \in old : Rank(old, other) = i - 1 <=> other = key
  BY DEF Ordered
<1>5. \A key \in old : key \in 1 .. k - 1 BY DEF ToolsAt
<1> HIDE DEF b, old, new, before, after
<1>6. CASE b.type # "tool"
  <2>1. after = before
    <3>1. Asked(b) = <<>> BY <1>6 DEF Asked
    <3> QED BY <1>1, <3>1, JoinsAnyhow
  <2>2. new = old BY <1>3, <1>6
  <2> QED BY <1>4, <2>1, <2>2 DEF Ordered, old, new, before, after
<1>7. CASE b.type = "tool"
  <2> DEFINE one == <<b>>
  <2>1. Asked(b) = one BY <1>7 DEF Asked
  <2>2. IsSequence(one) /\ Len(one) = 1 /\ one[1] = b BY DEF IsSequence
  <2>3. new = old \cup {k} BY <1>3, <1>7
  <2> HIDE DEF one, m
  <2>4. /\ m \in Nat /\ Len(after) = m + 1 /\ after[m + 1] = b
        /\ \A i \in 1 .. m : after[i] = before[i]
    <3> DEFINE joined == before \o one
    <3>1. /\ Len(before) \in Nat /\ Len(joined) = Len(before) + Len(one)
          /\ \A i \in 1 .. Len(before) : joined[i] = before[i]
          /\ \A i \in 1 .. Len(one) : joined[Len(before) + i] = one[i]
      <4>1. IsSequence(before) /\ IsSequence(one) BY <1>1, <2>2
      <4> QED BY <4>1, Joined
    <3> HIDE DEF joined
    <3>2. after = joined BY <1>1, <2>1 DEF joined
    <3>3. 1 \in 1 .. Len(one) BY <2>2
    <3> QED BY <2>2, <3>1, <3>2, <3>3 DEF m
  <2>5. IsFiniteSet(new) /\ Cardinality(new) = m + 1
    <3>1. Cardinality(old \cup {k}) = Cardinality(old) + 1 /\ IsFiniteSet(old \cup {k})
      BY <1>3, <1>4, FS_AddElement
    <3> QED BY <1>4, <2>3, <3>1 DEF m
  <2>6. \A key \in old : Rank(new, key) = Rank(old, key)
    <3> TAKE key \in old
    <3>1. {j \in new : j < key} = {j \in old : j < key} BY <1>2, <1>5, <2>3
    <3> QED BY <3>1 DEF Rank
  <2>7. Rank(new, k) = m
    <3>1. {j \in new : j < k} = old BY <1>2, <1>5, <2>3
    <3> QED BY <1>4, <3>1 DEF Rank, m
  <2>8. \A key \in old : Rank(new, key) < m
    <3> TAKE key \in old
    <3> DEFINE part == {j \in old : j < key}
    <3>1. part \subseteq old /\ key \in old /\ key \notin part BY <1>5
    <3> HIDE DEF part
    <3>2. part # old BY <3>1
    <3> DEFINE c == Cardinality(part)
    <3>3. part \in SUBSET old BY <3>1
    <3>4. IsFiniteSet(part) /\ c <= m /\ c # m BY <1>4, <3>2, <3>3, FS_Subset DEF m
    <3>5. c \in Nat BY <3>4, FS_CardinalityType
    <3> HIDE DEF c
    <3>6. c < m BY <2>4, <3>4, <3>5
    <3>7. Rank(new, key) = c BY <2>6 DEF Rank, part, c
    <3> QED BY <3>6, <3>7
  <2>9. ASSUME NEW i \in 1 .. m + 1
        PROVE  \E key \in new : /\ bs[key] = after[i]
                                /\ \A other \in new : Rank(new, other) = i - 1 <=> other = key
    <3>1. CASE i = m + 1
      <4>1. \A other \in new : Rank(new, other) = i - 1 <=> other = k
        <5> TAKE other \in new
        <5>1. CASE other = k BY <2>4, <2>7, <3>1, <5>1
        <5>2. CASE other # k
          <6>1. other \in old BY <2>3, <5>2
          <6>2. Rank(new, other) < m BY <2>8, <6>1
          <6>3. i - 1 = m BY <2>4, <3>1
          <6> DEFINE r == Rank(new, other)
          <6>4. r < m BY <6>2
          <6> HIDE DEF r
          <6>5. r # m BY <2>4, <6>4
          <6> QED BY <5>2, <6>3, <6>5 DEF r
        <5> QED BY <5>1, <5>2
      <4>2. k \in new /\ bs[k] = after[i] BY <2>3, <2>4, <3>1 DEF b
      <4> QED BY <4>1, <4>2
    <3>2. CASE i \in 1 .. m
      <4>1. PICK key \in old : /\ bs[key] = before[i]
                               /\ \A other \in old : Rank(old, other) = i - 1 <=> other = key
        BY <1>4, <3>2 DEF m
      <4>2. key \in new /\ bs[key] = after[i] BY <2>3, <2>4, <3>2, <4>1
      <4>3. \A other \in new : Rank(new, other) = i - 1 <=> other = key
        <5> TAKE other \in new
        <5>1. CASE other = k
          <6>1. Rank(new, other) # i - 1 BY <2>4, <2>7, <3>2, <5>1
          <6>2. other # key BY <1>3, <4>1, <5>1
          <6> QED BY <6>1, <6>2
        <5>2. CASE other # k
          <6>1. other \in old BY <2>3, <5>2
          <6> QED BY <2>6, <4>1, <6>1
        <5> QED BY <5>1, <5>2
      <4> QED BY <4>2, <4>3
    <3> QED BY <2>4, <3>1, <3>2
  <2> QED BY <2>4, <2>5, <2>9 DEF Ordered, new, after
<1> QED BY <1>6, <1>7

CallsMatch(made, tools) ==
    DOMAIN made = DOMAIN tools /\ \A i \in DOMAIN tools : HasCall(made[i], tools[i])

LEMMA CallsInOrder ==
    ASSUME NEW bs, WordedBlocks(bs), NEW slots, HasCalls(slots, bs, Len(bs))
    PROVE  CallsMatch(InOrder(slots), ToolsOf(bs))
<1> DEFINE N == Len(bs)
           S == {k \in Nat : k <= N => Ordered(bs, k)}
           keys == ToolsAt(bs, N)
           tools == ToolsOf(bs)
           m == Len(tools)
<1>1. N \in Nat /\ IsSequence(bs) /\ Initial(bs, N) = bs
  BY Initials DEF WordedBlocks, IsSequence
<1>2. 0 \in S
  <2> DEFINE none == <<>>
  <2>1. ToolsAt(bs, 0) = {} BY DEF ToolsAt
  <2>2. Initial(bs, 0) = none BY DEF Initial
  <2>3. ToolsOf(none) = none
    <3>1. ToolsOf(<<>>) = Concat(<<>>) BY DEF ToolsOf
    <3> QED BY <3>1, ConcatFew
  <2>4. Len(none) = 0 OBVIOUS
  <2> HIDE DEF none
  <2>5. IsFiniteSet({}) /\ Cardinality({}) = 0 BY FS_EmptySet
  <2>6. ToolsOf(Initial(bs, 0)) = none BY <2>2, <2>3
  <2>7. 1 .. Len(none) = {} BY <2>4
  <2>8. Ordered(bs, 0) BY <2>1, <2>4, <2>5, <2>6, <2>7 DEF Ordered
  <2> QED BY <2>8
<1>3. ASSUME NEW k \in Nat, k \in S PROVE k + 1 \in S
  <2> SUFFICES ASSUME k + 1 <= N PROVE Ordered(bs, k + 1) OBVIOUS
  <2>1. k + 1 \in 1 .. N /\ (k + 1) - 1 = k /\ k <= N BY <1>1
  <2>2. Ordered(bs, (k + 1) - 1) BY <1>3, <2>1
  <2> QED BY <2>1, <2>2, OrderGrows
<1>4. Ordered(bs, N)
  <2> HIDE DEF S
  <2>1. Nat \subseteq S BY <1>2, <1>3, Induction
  <2> QED BY <1>1, <2>1 DEF S
<1>5. /\ Cardinality(keys) = m
      /\ \A i \in 1 .. m : \E key \in keys :
            /\ bs[key] = tools[i]
            /\ \A other \in keys : Rank(keys, other) = i - 1 <=> other = key
  BY <1>1, <1>4 DEF Ordered
<1>6. IsSequence(tools) /\ DOMAIN tools = 1 .. m
  <2>1. IsSequence(tools) BY BlocksJoin
  <2> HIDE DEF tools
  <2> QED BY <2>1 DEF IsSequence
<1>7. DOMAIN slots = keys /\ \A i \in keys : HasCall(slots[i], bs[i]) BY DEF HasCalls
<1> HIDE DEF keys, tools, m, N
<1>8. ASSUME NEW i \in 1 .. m
      PROVE  KeyAt(keys, i) \in keys /\ bs[KeyAt(keys, i)] = tools[i]
  <2>1. PICK key \in keys : /\ bs[key] = tools[i]
                            /\ \A other \in keys : Rank(keys, other) = i - 1 <=> other = key
    BY <1>5
  <2> DEFINE P(x) == Rank(keys, x) = i - 1
  <2>2. KeyAt(keys, i) = CHOOSE x \in keys : P(x) BY DEF KeyAt, Rank
  <2>3. P(key) /\ \A x \in keys : P(x) => x = key BY <2>1
  <2> HIDE DEF P
  <2>4. KeyAt(keys, i) = key BY <2>2, <2>3
  <2> QED BY <2>1, <2>4
<1>9. InOrder(slots) = [i \in 1 .. m |-> slots[KeyAt(keys, i)]] BY <1>5, <1>7 DEF InOrder
<1> DEFINE made == InOrder(slots)
<1>10. DOMAIN made = 1 .. m /\ \A i \in 1 .. m : made[i] = slots[KeyAt(keys, i)] BY <1>9
<1> HIDE DEF made
<1>11. \A i \in 1 .. m : HasCall(made[i], tools[i]) BY <1>7, <1>8, <1>10
<1> QED BY <1>6, <1>10, <1>11 DEF CallsMatch, made, tools

\* Calls that match are judged alike.
LEMMA JudgedAlike ==
    ASSUME NEW made, NEW tools, CallsMatch(made, tools)
    PROVE  ChatToolCalls(made) = ChatToolCalls(tools)
<1> DEFINE Judged(calls_) ==
               LET Bad(i) == \/ "" \in {calls_[i].id, calls_[i].name}
                             \/ ~ IsObject(calls_[i].arguments)
                   first == CHOOSE i \in DOMAIN calls_ : Bad(i) /\ \A j \in 1 .. i - 1 : ~ Bad(j)
               IN IF \A i \in DOMAIN calls_ : ~ Bad(i) THEN [calls |-> calls_]
                  ELSE IF "" \in {calls_[first].id, calls_[first].name}
                  THEN Defect("malformed_tool_call")
                  ELSE [failure |-> "InvalidToolArguments"]
           Of(slots) == [i \in DOMAIN slots |-> ChatToolCall(slots[i])]
<1>1. \A slots : ChatToolCalls(slots) = Judged(Of(slots)) BY DEF ChatToolCalls
<1>2. \A i \in DOMAIN tools : ChatToolCall(made[i]) = ChatToolCall(tools[i])
  BY DEF CallsMatch, HasCall, ChatToolCall
<1>3. Of(made) = Of(tools) BY <1>2 DEF CallsMatch
<1> HIDE DEF Judged, Of
<1> QED BY <1>1, <1>3

\* The chunks after the last block, and the whole message.
FinishChunk(answer, row) == [ChatBare(row) EXCEPT !.finish = answer.finish]
UsageChunk(answer, row) == [ChatBare(row) EXCEPT !.usage = UsedBy(answer)]
Judged(answer) == ChatToolCalls(ToolsOf(answer.blocks))
HasFinished(state, answer, row) ==
    /\ ChatKeys \subseteq DOMAIN state
    /\ state.model = row.model /\ state.finish = answer.finish /\ answer.finish # "error"
    /\ state.text = TextOf(answer.blocks)
    /\ CallsMatch(state.finished, ToolsOf(answer.blocks))
    /\ ~ IsError(Judged(answer)) /\ "failure" \notin DOMAIN Judged(answer)
ChatWhole(row, intent, answer) == ChatDecode(row, intent, ChatCompletion(answer, row))

LEMMA ChatDecodes ==
    ASSUME NEW row, row.model # Absent, NEW intent, NEW answer
    PROVE  LET whole == ChatWhole(row, intent, answer)
               meta == ChatMeta(row, UsedBy(answer))
           IN /\ answer.finish = "error" => whole = Unavailable
              /\ answer.finish # "error" /\ IsError(Judged(answer)) => whole = Judged(answer)
              /\ answer.finish # "error" /\ ~ IsError(Judged(answer))
                   /\ "failure" \in DOMAIN Judged(answer) =>
                     whole = Failure(Judged(answer).failure, meta)
              /\ answer.finish # "error" /\ ~ IsError(Judged(answer))
                   /\ "failure" \notin DOMAIN Judged(answer) =>
                     whole = ChatOutcome(answer.finish, meta, intent, TextOf(answer.blocks),
                                         Judged(answer).calls,
                                         ChatContinuation(row, intent, answer.blocks))
<1> DEFINE completion == ChatCompletion(answer, row)
<1>1. /\ completion.model = row.model /\ completion.finish = answer.finish
      /\ completion.failed = (answer.finish = "error")
      /\ completion.blocks = answer.blocks /\ completion.usage = UsedBy(answer)
  BY DEF ChatCompletion, UsedBy
<1>2. completion.failed <=> answer.finish = "error" BY <1>1
<1> HIDE DEF completion
<1>3. ChatInband(Absent) = Unavailable BY DEF ChatInband
<1>4. ChatWhole(row, intent, answer) = ChatDecode(row, intent, completion)
  BY DEF ChatWhole, completion
<1> DEFINE tools == ChatToolCalls(ToolsOf(completion.blocks))
           meta == ChatMeta(row, completion.usage)
           outcome == ChatOutcome(completion.finish, meta, intent, TextOf(completion.blocks),
                                  tools.calls, ChatContinuation(row, intent, completion.blocks))
<1>5. ChatDecode(row, intent, completion)
        = IF completion.failed THEN Unavailable
          ELSE IF completion.model = Absent THEN Defect("missing_model")
          ELSE IF IsError(tools) THEN tools
          ELSE IF "failure" \in DOMAIN tools THEN Failure(tools.failure, meta)
          ELSE outcome
  BY <1>3 DEF ChatDecode
<1>6. tools = Judged(answer) /\ meta = ChatMeta(row, UsedBy(answer)) BY <1>1 DEF Judged
<1>7. outcome = ChatOutcome(answer.finish, meta, intent, TextOf(answer.blocks), tools.calls,
                            ChatContinuation(row, intent, answer.blocks))
  BY <1>1
<1> HIDE DEF outcome, tools, meta
<1>8. CASE answer.finish = "error" BY <1>2, <1>4, <1>5, <1>8
<1>9. CASE answer.finish # "error"
  <2>1. ~ completion.failed /\ completion.model # Absent BY <1>1, <1>2, <1>9
  <2> QED BY <1>4, <1>5, <1>6, <1>7, <1>9, <2>1
<1> QED BY <1>8, <1>9

\* The reason to finish: the calls are judged, and the verdict is the whole message's,
\* or it is kept until the source ends.
LEMMA ChatFinishes ==
    ASSUME NEW answer, AnswerFits(answer, "openai_chat"), NEW row, row.model # Absent,
           NEW intent, NEW state, HasMessage(state, answer.blocks, Len(answer.blocks), row)
    PROVE  LET step == ChatChunk(state, FinishChunk(answer, row), row) IN
           \/ step.end = Open /\ HasFinished(step.state, answer, row) /\ step.state.usage = Absent
           \/ /\ step.end # Open
              /\ Agreeing(row, answer, Verdict(step), ChatWhole(row, intent, answer))
<1> DEFINE bs == answer.blocks
           chunk == FinishChunk(answer, row)
           step == ChatChunk(state, chunk, row)
           whole == ChatWhole(row, intent, answer)
           tools == Judged(answer)
<1>1. /\ chunk.finish = answer.finish /\ chunk.usage = Absent /\ chunk.text = <<>>
      /\ chunk.entries = <<>> /\ chunk.model = row.model
  BY DEF FinishChunk, ChatBare
<1> HIDE DEF chunk
<1>2. /\ WordedBlocks(bs) /\ Initial(bs, Len(bs)) = bs /\ answer.finish # Absent
  BY AnswerBlocks DEF AnswerFits
<1>3. Unfinished(state, row) /\ state.text = TextOf(bs) /\ HasCalls(state.slots, bs, Len(bs))
  BY <1>2 DEF HasMessage
<1> HIDE DEF bs
<1>4. PICK grown, es : /\ Grows(state, chunk, grown)
                       /\ ChatChunk(state, chunk, row) = ChatFinish(grown, es, chunk.finish, row)
                       /\ \/ es = <<>>
                          \/ chunk.usage # Absent \/ chunk.text # <<>> \/ chunk.entries # <<>>
  BY <1>3, ChunkGrows DEF Unfinished
<1>5. es = <<>> /\ step = ChatFinish(grown, es, answer.finish, row) BY <1>1, <1>4
<1>6. /\ ChatKeys \subseteq DOMAIN grown /\ grown.model = row.model /\ grown.usage = Absent
      /\ grown.finish = Absent /\ grown.slots = state.slots /\ grown.text = TextOf(bs)
  <2>1. ChatFoldUsage(Absent, Absent) = Absent BY DEF ChatFoldUsage
  <2>2. IsSequence(TextOf(bs)) BY <1>2, BlocksJoin
  <2>3. TextOf(bs) \o <<>> = TextOf(bs) BY <2>2, JoinsAnyhow
  <2>4. ChatApply(state.slots, <<>>).slots = state.slots BY ApplyNothing
  <2> QED BY <1>1, <1>3, <1>4, <2>1, <2>3, <2>4 DEF Grows, Unfinished
<1>7. CallsMatch(ChatSlots(grown), ToolsOf(bs)) BY <1>2, <1>3, <1>6, CallsInOrder DEF ChatSlots
<1>8. ChatToolCalls(ChatSlots(grown)) = tools BY <1>7, JudgedAlike DEF Judged, bs
<1> DEFINE told == [grown EXCEPT !.finish = answer.finish, !.finished = ChatSlots(grown),
                                 !.semantic = @ \/ tools.calls # <<>>]
           dones == es \o [i \in DOMAIN tools.calls |-> ToolDone(tools.calls[i])]
           failed == Failure(tools.failure, ChatMeta(row, grown.usage))
<1>9. step = IF answer.finish = "error" THEN [Raises(grown, Unavailable) EXCEPT !.events = es]
             ELSE IF IsError(tools) THEN [Raises(grown, tools) EXCEPT !.events = es]
             ELSE IF "failure" \in DOMAIN tools THEN Returns(grown, Append(es, Terminal(failed)))
             ELSE Goes(told, dones)
  BY <1>2, <1>5, <1>6, <1>8 DEF ChatFinish
<1> HIDE DEF step, tools, dones, whole
<1>10. /\ answer.finish = "error" => whole = Unavailable
       /\ answer.finish # "error" /\ IsError(tools) => whole = tools
       /\ answer.finish # "error" /\ ~ IsError(tools) /\ "failure" \in DOMAIN tools =>
            \E meta : whole = Failure(tools.failure, meta)
  <2>1. LET meta == ChatMeta(row, UsedBy(answer)) IN
        /\ answer.finish = "error" => whole = Unavailable
        /\ answer.finish # "error" /\ IsError(tools) => whole = tools
        /\ answer.finish # "error" /\ ~ IsError(tools) /\ "failure" \in DOMAIN tools =>
             whole = Failure(tools.failure, meta)
    BY ChatDecodes DEF whole, tools
  <2> QED BY <2>1
<1>11. CASE answer.finish = "error"
  <2>1. step = [Raises(grown, Unavailable) EXCEPT !.events = es] BY <1>9, <1>11
  <2>2. step.end = Unavailable BY <2>1 DEF Raises
  <2>3. Unavailable # Open /\ Unavailable # Returned
    BY DEF Unavailable, Transient, Open, Returned
  <2>4. step.end # Open /\ Verdict(step) = whole
    BY <1>10, <1>11, <2>2, <2>3 DEF Verdict
  <2> QED BY <2>4 DEF Agreeing, step, chunk, whole
<1>12. CASE answer.finish # "error" /\ IsError(tools)
  <2>1. step = [Raises(grown, tools) EXCEPT !.events = es] BY <1>9, <1>12
  <2>2. step.end = tools BY <2>1 DEF Raises
  <2>3. tools # Open /\ tools # Returned
    <3>1. \E x : \/ tools = [calls |-> x] \/ tools = Defect("malformed_tool_call")
                \/ tools = [failure |-> "InvalidToolArguments"]
      BY DEF tools, Judged, ChatToolCalls
    <3> QED BY <1>12, <3>1 DEF Defect, Open, Returned, IsError
  <2>4. step.end # Open /\ Verdict(step) = whole
    BY <1>10, <1>12, <2>2, <2>3 DEF Verdict
  <2> QED BY <2>4 DEF Agreeing, step, chunk, whole
<1>13. CASE answer.finish # "error" /\ ~ IsError(tools) /\ "failure" \in DOMAIN tools
  <2> HIDE DEF failed
  <2>1. Append(es, Terminal(failed)) = <<Terminal(failed)>> BY <1>5
  <2>2. step = Returns(grown, <<Terminal(failed)>>) BY <1>9, <1>13, <2>1
  <2>3. step.end # Open /\ Verdict(step) = failed BY <2>2, Verdicts
  <2>4. ~ Succeeds(failed) /\ Meaning(failed) = <<"Failed", tools.failure>>
    BY ShortOutcomes DEF failed
  <2>5. ~ Succeeds(whole) /\ Meaning(whole) = <<"Failed", tools.failure>>
    BY <1>10, <1>13, ShortOutcomes
  <2> QED BY <2>3, <2>4, <2>5 DEF Agreeing, step, chunk, whole
<1>14. CASE answer.finish # "error" /\ ~ IsError(tools) /\ "failure" \notin DOMAIN tools
  <2> DEFINE slots == ChatSlots(grown)
  <2>1. /\ ChatKeys \subseteq DOMAIN told /\ told.finish = answer.finish /\ told.finished = slots
        /\ told.model = grown.model /\ told.text = grown.text /\ told.usage = grown.usage
    <3> HIDE DEF slots
    <3> QED BY <1>6 DEF ChatKeys, slots
  <2>2. step = Goes(told, dones) BY <1>9, <1>14
  <2> HIDE DEF told, slots
  <2>3. step.end = Open /\ step.state = told BY <2>2 DEF Goes
  <2>4. HasFinished(told, answer, row)
    BY <1>6, <1>7, <1>14, <2>1 DEF HasFinished, slots, bs, tools
  <2> QED BY <1>6, <2>1, <2>3, <2>4 DEF step, chunk
<1> QED BY <1>11, <1>12, <1>13, <1>14

\* The native turn of a stream says what the message says, though in other blocks.
LEMMA OnlyCalls ==
    ASSUME NEW s, IsSequence(s), \A i \in DOMAIN s : s[i].type = "tool"
    PROVE  WordedBlocks(s) /\ TextOf(s) = <<>> /\ ToolsOf(s) = s
<1>1. WordedBlocks(s) BY DEF WordedBlocks
<1>2. TextOf(s) = <<>>
  <2> DEFINE p == WordPieces(s)
  <2>1. MadeOf(p, s) /\ \A i \in DOMAIN p : p[i] = <<>> BY DEF MadeOf, WordPieces
  <2>2. TextOf(s) = Concat(p) BY DEF TextOf, WordPieces
  <2> HIDE DEF p
  <2>3. IsSequence(p) BY <2>1, MadeIsSequence
  <2> QED BY <2>1, <2>2, <2>3, ConcatNothing
<1>3. ToolsOf(s) = s
  <2>1. [i \in DOMAIN s |-> IF s[i].type = "tool" THEN <<s[i]>> ELSE <<>>]
          = [i \in DOMAIN s |-> <<s[i]>>]
    OBVIOUS
  <2>2. ToolsOf(s) = Concat([i \in DOMAIN s |-> <<s[i]>>]) BY <2>1 DEF ToolsOf
  <2> QED BY <2>2, ConcatSingles
<1> QED BY <1>1, <1>2, <1>3

LEMMA NoBlocks == WordedBlocks(<<>>) /\ TextOf(<<>>) = <<>> /\ ToolsOf(<<>>) = <<>>
<1>1. IsSequence(<<>>) BY DEF IsSequence
<1> DEFINE none == <<>>
<1>2. DOMAIN none = {} OBVIOUS
<1> HIDE DEF none
<1>3. WordedBlocks(none) BY <1>1, <1>2 DEF WordedBlocks, none
<1>4. TextOf(<<>>) = Concat(<<>>) /\ ToolsOf(<<>>) = Concat(<<>>) BY DEF TextOf, ToolsOf
<1> QED BY <1>3, <1>4, ConcatFew DEF none

NativeCall(call_) ==
    [type |-> "tool", id |-> call_.id, name |-> call_.name, arguments |-> call_.arguments]
SameCalls(one, other) ==
    /\ DOMAIN one = DOMAIN other
    /\ \A i \in DOMAIN other : /\ one[i].id = other[i].id /\ one[i].name = other[i].name
                               /\ one[i].arguments = other[i].arguments

LEMMA SayTheSame ==
    ASSUME NEW one, NEW other, TextOf(one) = TextOf(other), SameCalls(ToolsOf(one), ToolsOf(other))
    PROVE  Says(one) = Says(other)
<1> DEFINE s == ToolsOf(one)
           t == ToolsOf(other)
           Said(x) == [i \in DOMAIN x |-> <<Signature(x[i]), x[i].arguments>>]
<1>1. Says(one) = <<TextOf(one), Said(s)>> /\ Says(other) = <<TextOf(other), Said(t)>> BY DEF Says
<1>2. SameCalls(s, t) OBVIOUS
<1> HIDE DEF s, t
<1>3. Said(s) = Said(t) BY <1>2 DEF SameCalls, Signature
<1> HIDE DEF Said
<1> QED BY <1>1, <1>3

LEMMA NativeSays ==
    ASSUME NEW state, NEW bs, WordedBlocks(bs), state.text = TextOf(bs),
           CallsMatch(state.finished, ToolsOf(bs))
    PROVE  LET native == ChatNative(state) IN
           /\ Says(native) = Says(bs)
           /\ ToolsOf(bs) # <<>> =>
                /\ native # <<>> /\ \E b \in ToSet(native) : b.type \in {"tool", "thinking"}
<1> DEFINE native == ChatNative(state)
           spoken == [type |-> "text", text |-> state.text]
           thought == [type |-> "thinking", signature |-> state.reasoning]
           a == IF state.text = <<>> THEN <<>> ELSE <<spoken>>
           b == IF state.reasoning = <<>> THEN <<>> ELSE <<thought>>
           tools == ToolsOf(bs)
           finished == state.finished
           c == [i \in DOMAIN finished |-> NativeCall(finished[i])]
<1>1. native = (a \o b) \o c BY DEF ChatNative, NativeCall
<1>2. IsSequence(state.text) /\ IsSequence(tools) BY BlocksJoin
<1>3. WordedBlocks(a) /\ TextOf(a) = state.text /\ ToolsOf(a) = <<>>
  <2>1. CASE state.text = <<>> BY <2>1, NoBlocks
  <2>2. CASE state.text # <<>>
    <3>1. a = <<spoken>> BY <2>2
    <3>2. spoken.type = "text" /\ spoken.text = state.text OBVIOUS
    <3> HIDE DEF spoken, a
    <3>3. WordedBlocks(<<spoken>>) /\ TextOf(<<spoken>>) = Spoken(spoken)
          /\ ToolsOf(<<spoken>>) = Asked(spoken)
      BY <1>2, <3>2, OneBlock
    <3>4. Spoken(spoken) = state.text /\ Asked(spoken) = <<>> BY <3>2 DEF Spoken, Asked
    <3> QED BY <3>1, <3>3, <3>4
  <2> QED BY <2>1, <2>2
<1>4. WordedBlocks(b) /\ TextOf(b) = <<>> /\ ToolsOf(b) = <<>>
  <2>1. CASE state.reasoning = <<>> BY <2>1, NoBlocks
  <2>2. CASE state.reasoning # <<>>
    <3>1. b = <<thought>> BY <2>2
    <3>2. thought.type = "thinking" OBVIOUS
    <3> HIDE DEF thought, b
    <3>3. WordedBlocks(<<thought>>) /\ TextOf(<<thought>>) = Spoken(thought)
          /\ ToolsOf(<<thought>>) = Asked(thought)
      BY <3>2, OneBlock
    <3>4. Spoken(thought) = <<>> /\ Asked(thought) = <<>> BY <3>2 DEF Spoken, Asked
    <3> QED BY <3>1, <3>3, <3>4
  <2> QED BY <2>1, <2>2
<1>5. DOMAIN c = DOMAIN finished /\ \A i \in DOMAIN finished : c[i] = NativeCall(finished[i])
  OBVIOUS
<1>6. DOMAIN finished = DOMAIN tools /\ \A i \in DOMAIN tools : HasCall(finished[i], tools[i])
  BY DEF CallsMatch
<1>7. MadeOf(c, tools) BY <1>6 DEF MadeOf
<1> HIDE DEF c, tools, finished, a, b
<1>8. \A i \in DOMAIN tools :
        /\ c[i].type = "tool" /\ c[i].id = tools[i].id /\ c[i].name = tools[i].name
        /\ c[i].arguments = tools[i].arguments
  BY <1>5, <1>6 DEF NativeCall, HasCall
<1>9. IsSequence(c) /\ DOMAIN c = DOMAIN tools BY <1>2, <1>5, <1>6, <1>7, MadeIsSequence
<1>10. WordedBlocks(c) /\ TextOf(c) = <<>> /\ ToolsOf(c) = c BY <1>8, <1>9, OnlyCalls
<1> DEFINE ab == a \o b
<1>11. /\ WordedBlocks(ab) /\ TextOf(ab) = TextOf(a) \o TextOf(b)
       /\ ToolsOf(ab) = ToolsOf(a) \o ToolsOf(b)
  BY <1>3, <1>4, WordedJoin, BlocksJoin
<1>12. TextOf(ab) = state.text /\ ToolsOf(ab) = <<>>
  <2>1. state.text \o <<>> = state.text BY <1>2, JoinsAnyhow
  <2>2. <<>> \o <<>> = <<>> OBVIOUS
  <2> QED BY <1>3, <1>4, <1>11, <2>1, <2>2
<1> HIDE DEF ab
<1>13. WordedBlocks(ab \o c) /\ TextOf(ab \o c) = TextOf(ab) \o TextOf(c)
       /\ ToolsOf(ab \o c) = ToolsOf(ab) \o ToolsOf(c)
  BY <1>10, <1>11, WordedJoin, BlocksJoin
<1>14. WordedBlocks(native) /\ TextOf(native) = TextOf(bs) /\ ToolsOf(native) = c
  <2>1. state.text \o <<>> = state.text /\ <<>> \o c = c BY <1>2, <1>9, JoinsAnyhow
  <2>2. native = ab \o c BY <1>1 DEF ab
  <2> QED BY <1>10, <1>12, <1>13, <2>1, <2>2
<1>15. SameCalls(ToolsOf(native), ToolsOf(bs)) BY <1>8, <1>9, <1>14 DEF SameCalls, tools
<1> HIDE DEF native
<1>16. Says(native) = Says(bs) BY <1>14, <1>15, SayTheSame
<1>17. ASSUME tools # <<>> PROVE ToolsOf(native) # <<>>
  <2>1. 1 \in DOMAIN tools
    <3>1. Len(tools) \in Nat /\ DOMAIN tools = 1 .. Len(tools) BY <1>2 DEF IsSequence
    <3>2. Len(tools) # 0 BY <1>2, <1>17 DEF IsSequence
    <3> QED BY <3>1, <3>2
  <2>2. 1 \in DOMAIN c BY <1>9, <2>1
  <2> QED BY <1>14, <2>2
<1>18. tools # <<>> => /\ native # <<>>
                       /\ \E x \in ToSet(native) : x.type \in {"tool", "thinking"}
  BY <1>14, <1>17, NativeTurn
<1> QED BY <1>16, <1>18 DEF native, tools

\* Two outcomes that differ in the artifact alone.
LEMMA OutcomesAgree ==
    ASSUME NEW row, NEW intent, NEW answer, NEW finish, NEW meta, NEW text, NEW tools, NEW a, NEW b,
           tools # <<>> => Artifacts(a, b)
    PROVE  LET one == ChatOutcome(finish, meta, intent, text, tools, a)
               other == ChatOutcome(finish, meta, intent, text, tools, b)
           IN Sound(one) /\ Agreeing(row, answer, one, other)
<1> DEFINE one == ChatOutcome(finish, meta, intent, text, tools, a)
           other == ChatOutcome(finish, meta, intent, text, tools, b)
           content == ResponseContent(intent, text, tools)
           given == [text |-> text, tools |-> tools]
<1>1. content = Absent \/ content = given BY DEF ResponseContent
<1>2. given.tools = tools OBVIOUS
<1> HIDE DEF given
<1>3. CASE finish \in {"stop", "tool_calls"} /\ content = Absent
  <2>1. one = Failure("InvalidStructuredOutput", meta) /\ other = Failure("InvalidStructuredOutput", meta)
    BY <1>3 DEF ChatOutcome
  <2> HIDE DEF one, other
  <2>2. Sound(one) /\ Agreeing(row, answer, one, other) BY <2>1, SoundOutcomes DEF Agreeing
  <2> QED BY <2>2 DEF one, other
<1>4. CASE finish \in {"stop", "tool_calls"} /\ content # Absent
  <2>1. one = Success(given, a, meta) /\ other = Success(given, b, meta)
    BY <1>1, <1>4 DEF ChatOutcome
  <2> HIDE DEF one, other
  <2>2. SameTurn(one, other) BY <1>2, <2>1 DEF SameTurn
  <2>3. Sound(one) /\ Agreeing(row, answer, one, other) BY <2>1, <2>2, SoundOutcomes DEF Agreeing
  <2> QED BY <2>3 DEF one, other
<1>5. CASE finish \notin {"stop", "tool_calls"}
  <2>1. one = other /\ \E x : one \in {Incomplete(x, meta), Defect(x)} BY <1>5 DEF ChatOutcome
  <2> HIDE DEF one, other
  <2>2. Sound(one) /\ Agreeing(row, answer, one, other) BY <2>1, SoundOutcomes DEF Agreeing
  <2> QED BY <2>2 DEF one, other
<1> QED BY <1>3, <1>4, <1>5

\* The source has ended after the last chunk: the verdict is the whole message's
\* (openai_chat.py, stream and _terminal_outcome).
LEMMA ChatConcludes ==
    ASSUME NEW answer, AnswerFits(answer, "openai_chat"), NEW row, row.model # Absent,
           NEW intent, NEW state, HasFinished(state, answer, row), state.usage = UsedBy(answer)
    PROVE  LET step == ChatEnd(state, row, intent) IN
           step.end # Open /\ Agreeing(row, answer, Verdict(step), ChatWhole(row, intent, answer))
<1> DEFINE bs == answer.blocks
           native == ChatNative(state)
           a == ChatContinuation(row, intent, native)
           b == ChatContinuation(row, intent, bs)
           meta == ChatMeta(row, UsedBy(answer))
           tools == ToolsOf(bs)
           calls_ == Judged(answer).calls
           outcome == ChatOutcome(answer.finish, meta, intent, TextOf(bs), calls_, a)
           step == ChatEnd(state, row, intent)
           whole == ChatWhole(row, intent, answer)
           es == IF a = Absent THEN <<>> ELSE <<ContinuationDelta(a)>>
<1>1. WordedBlocks(bs) /\ answer.finish # Absent BY AnswerBlocks DEF AnswerFits
<1>2. /\ state.model = row.model /\ state.finish = answer.finish /\ answer.finish # "error"
      /\ state.text = TextOf(bs) /\ CallsMatch(state.finished, tools)
      /\ ~ IsError(Judged(answer)) /\ "failure" \notin DOMAIN Judged(answer)
  BY DEF HasFinished
<1>3. whole = ChatOutcome(answer.finish, meta, intent, TextOf(bs), calls_, b)
  <2>1. LET met == ChatMeta(row, UsedBy(answer)) IN
        answer.finish # "error" /\ ~ IsError(Judged(answer))
          /\ "failure" \notin DOMAIN Judged(answer) =>
             whole = ChatOutcome(answer.finish, met, intent, TextOf(answer.blocks),
                                 Judged(answer).calls, ChatContinuation(row, intent, answer.blocks))
    BY ChatDecodes
  <2> QED BY <1>2, <2>1
<1>4. ChatToolCalls(state.finished).calls = calls_ BY <1>2, JudgedAlike DEF Judged
<1>5. ASSUME calls_ # <<>> PROVE tools # <<>>
  <2> DEFINE Of == [i \in DOMAIN tools |-> ChatToolCall(tools[i])]
  <2>1. \/ Judged(answer) = [calls |-> Of] \/ Judged(answer) = Defect("malformed_tool_call")
        \/ Judged(answer) = [failure |-> "InvalidToolArguments"]
    BY DEF Judged, ChatToolCalls
  <2>2. IsError(Defect("malformed_tool_call")) BY ShortOutcomes
  <2>3. "failure" \in DOMAIN [failure |-> "InvalidToolArguments"] OBVIOUS
  <2>4. Judged(answer) = [calls |-> Of] BY <1>2, <2>1, <2>2, <2>3
  <2>5. calls_ = Of BY <2>4
  <2> HIDE DEF tools, calls_
  <2>6. tools = <<>> => Of = <<>> OBVIOUS
  <2> QED BY <1>5, <2>5, <2>6
<1>6. /\ Says(native) = Says(bs)
      /\ tools # <<>> => native # <<>> /\ \E x \in ToSet(native) : x.type \in {"tool", "thinking"}
  BY <1>1, <1>2, NativeSays
<1>7. tools # <<>> => bs # <<>> /\ \E x \in ToSet(bs) : x.type \in {"tool", "thinking"}
  BY <1>1, NativeTurn
<1>8. calls_ # <<>> => Artifacts(a, b)
  <2> SUFFICES ASSUME calls_ # <<>> PROVE Artifacts(a, b) OBVIOUS
  <2> HIDE DEF native, bs, calls_, tools
  <2>1. /\ a = [target |-> intent.target, codec |-> row.codec, blocks |-> native]
        /\ b = [target |-> intent.target, codec |-> row.codec, blocks |-> bs]
    BY <1>5, <1>6, <1>7 DEF ChatContinuation, Artifact
  <2> QED BY <1>6, <2>1 DEF Artifacts
<1> HIDE DEF native
<1>9. step = IF IsError(outcome) THEN [Raises(state, outcome) EXCEPT !.events = es]
             ELSE Returns(state, Append(es, Terminal(outcome)))
  <2>1. state.finish # Absent /\ state.model # Absent BY <1>1, <1>2
  <2> HIDE DEF calls_, bs
  <2> QED BY <1>2, <1>4, <2>1 DEF ChatEnd, native, bs
<1> HIDE DEF a, b, calls_, meta, bs, whole, tools
<1>10. Sound(outcome) /\ Agreeing(row, answer, outcome, whole) BY <1>3, <1>8, OutcomesAgree
<1>11. step.end # Open /\ Verdict(step) = outcome
  <2> HIDE DEF outcome, step
  <2>1. CASE IsError(outcome)
    <3>1. step = [Raises(state, outcome) EXCEPT !.events = es] BY <1>9, <2>1
    <3> HIDE DEF es
    <3>2. step.end = outcome BY <3>1 DEF Raises
    <3>3. PICK code : outcome = Defect(code) BY <1>10, <2>1 DEF Sound
    <3>4. outcome # Open /\ outcome # Returned BY <3>3 DEF Defect, Open, Returned
    <3> QED BY <3>2, <3>4 DEF Verdict
  <2>2. CASE ~ IsError(outcome)
    <3> DEFINE told == Append(es, Terminal(outcome))
    <3>1. step = Returns(state, told) BY <1>9, <2>2
    <3>2. Last(told) = Terminal(outcome)
      <4> DEFINE t == Terminal(outcome)
                 one == <<t>>
                 S == {es[i] : i \in DOMAIN es} \cup {t}
      <4>1. IsSequence(<<>>) /\ \A x : IsSequence(<<x>>) BY DEF IsSequence
      <4>2. IsSequence(es) /\ IsSequence(one) /\ Len(one) > 0 /\ Last(one) = t
        BY <4>1 DEF Last
      <4>3. es \in Seq(S) /\ t \in S BY <4>2 DEF IsSequence
      <4> HIDE DEF es, one, t, S
      <4>4. Append(es, t) = es \o <<t>> BY <4>3
      <4>5. Last(es \o one) = Last(one) BY <4>2, LastJoined
      <4> QED BY <4>2, <4>4, <4>5 DEF t, one
    <3> HIDE DEF told
    <3>3. step.end = Returned /\ step.events = told BY <3>1 DEF Returns
    <3>4. Returned # Open BY DEF Returned, Open
    <3>5. Terminal(outcome).outcome = outcome BY DEF Terminal
    <3> QED BY <3>2, <3>3, <3>4, <3>5 DEF Verdict
  <2> QED BY <2>1, <2>2
<1> HIDE DEF step, outcome
<1> QED BY <1>10, <1>11 DEF step, whole

\* Where the decoder stands in the chunks of an answer: within the chunks of a block,
\* before the finish, after it, or at the end of the source.
ChatChunks(answer, row) ==
    [i \in DOMAIN answer.blocks |-> ChatBlockChunks(answer.blocks[i], i, answer.late, row)]
ChatTail(answer, row) ==
    <<FinishChunk(answer, row), FinishChunk(answer, row), UsageChunk(answer, row)>>
ChatRest(answer, row, k) == Later(ChatChunks(answer, row), k) \o ChatTail(answer, row)
ChatAt(state, frames, answer, row) ==
    LET bs == answer.blocks
        p == ChatChunks(answer, row)
    IN \/ \E k \in 1 .. Len(bs) : \E n \in Nat :
            /\ n < Len(p[k]) /\ HasChunks(state, bs, answer.late, k, n, row)
            /\ frames = Dropped(p[k], n) \o ChatRest(answer, row, k)
       \/ HasMessage(state, bs, Len(bs), row) /\ frames = ChatTail(answer, row)
       \/ /\ HasFinished(state, answer, row) /\ state.usage = Absent
          /\ frames \in {<<FinishChunk(answer, row), UsageChunk(answer, row)>>,
                         <<UsageChunk(answer, row)>>}
       \/ HasFinished(state, answer, row) /\ state.usage = UsedBy(answer) /\ frames = <<>>

LEMMA ChunksUnroll ==
    ASSUME NEW answer, AnswerFits(answer, "openai_chat"), NEW row
    PROVE  LET bs == answer.blocks
               p == ChatChunks(answer, row)
           IN /\ Pieces(p) /\ Len(p) = Len(bs) /\ Len(bs) \in Nat
              /\ \A k \in 1 .. Len(bs) :
                   /\ IsSequence(p[k]) /\ p[k] = ChatBlockChunks(bs[k], k, answer.late, row)
                   /\ KnownBlock(bs[k], "openai_chat")
<1> DEFINE bs == answer.blocks
           p == ChatChunks(answer, row)
<1>1. /\ WordedBlocks(bs) /\ Len(bs) \in Nat /\ DOMAIN bs = 1 .. Len(bs)
      /\ \A i \in 1 .. Len(bs) : KnownBlock(bs[i], "openai_chat")
  BY AnswerBlocks
<1>2. MadeOf(p, bs) /\ \A k \in DOMAIN bs : p[k] = ChatBlockChunks(bs[k], k, answer.late, row)
  BY DEF MadeOf, ChatChunks
<1> HIDE DEF bs, p
<1>3. IsSequence(bs) BY <1>1 DEF WordedBlocks
<1>4. IsSequence(p) /\ Len(p) = Len(bs) BY <1>2, <1>3, MadeIsSequence
<1>5. \A k \in 1 .. Len(bs) : IsSequence(p[k])
  <2> TAKE k \in 1 .. Len(bs)
  <2>1. IsSequence(ChatBlockChunks(bs[k], k, answer.late, row)) BY <1>1, ChatBlockShape
  <2> QED BY <1>1, <1>2, <2>1
<1>6. Pieces(p)
  <2>1. DOMAIN p = 1 .. Len(bs) BY <1>1, <1>2 DEF MadeOf
  <2> QED BY <1>4, <1>5, <2>1 DEF Pieces
<1>7. \A k \in 1 .. Len(bs) : p[k] = ChatBlockChunks(bs[k], k, answer.late, row) BY <1>1, <1>2
<1> QED BY <1>1, <1>4, <1>5, <1>6, <1>7 DEF bs, p

\* A message that is read so far goes on with the chunks of the first block after it
\* that has any: an empty text has none.
LEMMA ChatSkips ==
    ASSUME NEW answer, AnswerFits(answer, "openai_chat"), NEW row,
           NEW state, NEW start \in 0 .. Len(answer.blocks),
           HasMessage(state, answer.blocks, start, row)
    PROVE  ChatAt(state, ChatRest(answer, row, start), answer, row)
<1> DEFINE bs == answer.blocks
           N == Len(bs)
           p == ChatChunks(answer, row)
           tail == ChatTail(answer, row)
           Rest(k) == ChatRest(answer, row, k)
           At(fs) == ChatAt(state, fs, answer, row)
           Has(k) == HasMessage(state, bs, k, row)
           S == {j \in Nat : \A k \in 0 .. N : N - k = j /\ Has(k) => At(Rest(k))}
<1>1. /\ Pieces(p) /\ Len(p) = N /\ N \in Nat /\ WordedBlocks(bs)
      /\ \A k \in 1 .. N :
           /\ IsSequence(p[k]) /\ p[k] = ChatBlockChunks(bs[k], k, answer.late, row)
           /\ KnownBlock(bs[k], "openai_chat")
  BY ChunksUnroll, AnswerBlocks
<1>2. IsSequence(tail) BY DEF ChatTail, IsSequence
<1>3. \A k : Rest(k) = Later(p, k) \o tail BY DEF ChatRest
<1>4. Has(N) => At(tail) BY DEF ChatAt
<1>5. \A k \in 1 .. N : \A n \in Nat : \A fs :
        /\ n < Len(p[k]) /\ HasChunks(state, bs, answer.late, k, n, row)
        /\ fs = Dropped(p[k], n) \o Rest(k)
        => At(fs)
  BY DEF ChatAt
<1>6. ASSUME NEW k \in 1 .. N, Has(k - 1) PROVE HasChunks(state, bs, answer.late, k, 0, row)
  BY <1>1, <1>6, MessageOpens
<1>7. ASSUME NEW k \in 1 .. N, HasChunks(state, bs, answer.late, k, Len(p[k]), row)
      PROVE  Has(k)
  <2>1. HasChunks(state, bs, answer.late, k,
                  Len(ChatBlockChunks(bs[k], k, answer.late, row)), row)
    BY <1>1, <1>7
  <2>2. KnownBlock(bs[k], "openai_chat") /\ WordedBlocks(bs) BY <1>1
  <2> HIDE DEF bs, p
  <2> QED BY <2>1, <2>2, MessageCloses DEF N
<1> HIDE DEF p, tail, Rest, At, Has, bs, N
<1>8. 0 \in S
  <2> SUFFICES ASSUME NEW k \in 0 .. N, N - k = 0, Has(k) PROVE At(Rest(k)) OBVIOUS
  <2>1. k = N BY <1>1
  <2>2. Later(p, N) = <<>> BY <1>1, LaterUnrolls
  <2>3. Rest(N) = tail BY <1>2, <1>3, <2>2, JoinsAnyhow
  <2> QED BY <1>4, <2>1, <2>3
<1>9. ASSUME NEW j \in Nat, j \in S PROVE j + 1 \in S
  <2> SUFFICES ASSUME NEW k \in 0 .. N, N - k = j + 1, Has(k) PROVE At(Rest(k)) OBVIOUS
  <2>1. /\ k + 1 \in 1 .. N /\ k + 1 \in 0 .. N /\ (k + 1) - 1 = k /\ N - (k + 1) = j
        /\ k \in 0 .. Len(p) /\ k # Len(p) /\ k + 1 \in 0 .. Len(p)
    BY <1>1
  <2> DEFINE chunks == p[k + 1]
             later == Later(p, k + 1)
  <2>2. HasChunks(state, bs, answer.late, k + 1, 0, row) BY <1>6, <2>1
  <2>3. /\ Later(p, k) = chunks \o later /\ IsSequence(chunks) /\ IsSequence(later)
        /\ Len(chunks) \in Nat
    <3>1. IsSequence(chunks) BY <1>1, <2>1
    <3>2. Len(chunks) \in Nat BY <3>1 DEF IsSequence
    <3> HIDE DEF chunks
    <3> QED BY <1>1, <2>1, <3>1, <3>2, LaterUnrolls DEF chunks
  <2> HIDE DEF later
  <2>4. CASE Len(chunks) = 0
    <3>1. chunks = <<>> BY <2>3, <2>4 DEF IsSequence
    <3>2. Later(p, k) = later
      <4> HIDE DEF chunks
      <4> QED BY <2>3, <3>1, JoinsAnyhow
    <3>3. Rest(k) = Rest(k + 1) BY <1>3, <3>2 DEF later
    <3>4. Has(k + 1) BY <1>7, <2>1, <2>2, <2>4
    <3> QED BY <1>9, <2>1, <3>3, <3>4
  <2>5. CASE Len(chunks) # 0
    <3>1. 0 < Len(chunks) /\ Dropped(chunks, 0) = chunks
      <4> HIDE DEF chunks
      <4> QED BY <2>3, <2>5, Dropping
    <3>2. Rest(k) = chunks \o Rest(k + 1)
      <4>1. Rest(k) = (chunks \o later) \o tail /\ Rest(k + 1) = later \o tail
        BY <1>3, <2>3 DEF later
      <4> HIDE DEF chunks
      <4>2. (chunks \o later) \o tail = chunks \o (later \o tail) BY <1>2, <2>3, JoinsAnyhow
      <4> QED BY <4>1, <4>2
    <3> QED BY <1>5, <2>1, <2>2, <3>1, <3>2
  <2> QED BY <2>4, <2>5
<1>10. Nat \subseteq S
  <2> HIDE DEF S
  <2> QED BY <1>8, <1>9, Induction
<1>11. N - start \in Nat /\ start \in 0 .. N BY <1>1 DEF N, bs
<1>12. N - start \in S BY <1>10, <1>11
<1>13. Has(start) BY DEF Has, bs
<1> QED BY <1>11, <1>12, <1>13 DEF At, Rest

\* One chunk more: the decoder goes on with the others, or its verdict agrees with
\* the one on the whole answer.
ChatFollowing(row, intent, answer, step, frames) ==
    \/ step.end = Open /\ ChatAt(step.state, frames, answer, row)
    \/ /\ step.end # Open
       /\ Agreeing(row, answer, Verdict(step), ChatWhole(row, intent, answer))

LEMMA AfterFinish ==
    ASSUME NEW answer, NEW row, NEW state, HasFinished(state, answer, row), state.usage = Absent,
           answer.finish # Absent, IsSequence(TextOf(answer.blocks))
    PROVE  /\ LET step == ChatChunk(state, FinishChunk(answer, row), row) IN
              step.end = Open /\ HasFinished(step.state, answer, row) /\ step.state.usage = Absent
           /\ LET step == ChatChunk(state, UsageChunk(answer, row), row) IN
              /\ step.end = Open /\ HasFinished(step.state, answer, row)
              /\ step.state.usage = UsedBy(answer)
<1>1. ASSUME NEW chunk, chunk.model = row.model, chunk.text = <<>>
      PROVE  LET step == ChatChunk(state, chunk, row) IN
             /\ step.end = Open /\ HasFinished(step.state, answer, row)
             /\ step.state.usage = chunk.usage
  <2> DEFINE step == ChatChunk(state, chunk, row)
             grown == step.state
  <2>1. ChatKeys \subseteq DOMAIN state /\ state.finish # Absent BY DEF HasFinished
  <2>2. step.end = Open /\ Grows(state, chunk, grown) BY <2>1, ChunkGoesOn
  <2> HIDE DEF step
  <2>3. grown.usage = chunk.usage
    <3>1. \A new : ChatFoldUsage(Absent, new) = new BY DEF ChatFoldUsage
    <3> QED BY <2>2, <3>1 DEF Grows
  <2>4. grown.text = state.text
    <3>1. IsSequence(state.text) BY DEF HasFinished
    <3>2. state.text \o <<>> = state.text BY <3>1, JoinsAnyhow
    <3> QED BY <1>1, <2>2, <3>2 DEF Grows
  <2>5. HasFinished(grown, answer, row)
    BY <1>1, <2>2, <2>4 DEF Grows, HasFinished
  <2> QED BY <2>2, <2>3, <2>5 DEF step
<1> DEFINE fin == FinishChunk(answer, row)
           use == UsageChunk(answer, row)
<1>2. fin.model = row.model /\ fin.text = <<>> /\ fin.usage = Absent BY DEF FinishChunk, ChatBare
<1>3. use.model = row.model /\ use.text = <<>> /\ use.usage = UsedBy(answer)
  BY DEF UsageChunk, ChatBare
<1> HIDE DEF fin, use
<1>4. LET step == ChatChunk(state, fin, row) IN
      step.end = Open /\ HasFinished(step.state, answer, row) /\ step.state.usage = fin.usage
  BY <1>1, <1>2
<1>5. LET step == ChatChunk(state, use, row) IN
      step.end = Open /\ HasFinished(step.state, answer, row) /\ step.state.usage = use.usage
  BY <1>1, <1>3
<1> QED BY <1>2, <1>3, <1>4, <1>5 DEF fin, use

LEMMA ChatFollows ==
    ASSUME NEW answer, AnswerFits(answer, "openai_chat"), NEW row, row.model # Absent,
           NEW state, NEW frames, frames # <<>>, ChatAt(state, frames, answer, row), NEW intent
    PROVE  ChatFollowing(row, intent, answer, ChatChunk(state, Head(frames), row), Tail(frames))
<1> DEFINE bs == answer.blocks
           N == Len(bs)
           p == ChatChunks(answer, row)
           fin == FinishChunk(answer, row)
           use == UsageChunk(answer, row)
           tail == ChatTail(answer, row)
           Rest(k) == ChatRest(answer, row, k)
           At(st, fs) == ChatAt(st, fs, answer, row)
           step == ChatChunk(state, Head(frames), row)
           Goal == ChatFollowing(row, intent, answer, step, Tail(frames))
<1>1. /\ Pieces(p) /\ Len(p) = N /\ N \in Nat /\ WordedBlocks(bs) /\ answer.finish # Absent
      /\ \A k \in 1 .. N :
           /\ IsSequence(p[k]) /\ p[k] = ChatBlockChunks(bs[k], k, answer.late, row)
           /\ KnownBlock(bs[k], "openai_chat")
  BY ChunksUnroll, AnswerBlocks DEF AnswerFits
<1>2. IsSequence(tail) /\ tail = <<fin, fin, use>> BY DEF ChatTail, IsSequence
<1>3. \A k \in 1 .. N : IsSequence(Rest(k))
  <2> TAKE k \in 1 .. N
  <2>1. k \in 0 .. Len(p) BY <1>1
  <2> HIDE DEF p, tail, N
  <2>2. IsSequence(Later(p, k)) BY <1>1, <2>1, LaterUnrolls
  <2>3. IsSequence(Later(p, k) \o tail) BY <1>2, <2>2, JoinsAnyhow
  <2> QED BY <2>3 DEF ChatRest, p, tail
<1>4. ASSUME NEW k \in 1 .. N, NEW n \in Nat, NEW st, NEW fs,
             n < Len(p[k]), HasChunks(st, bs, answer.late, k, n, row),
             fs = Dropped(p[k], n) \o Rest(k)
      PROVE  At(st, fs)
  BY <1>4 DEF ChatAt
<1>5. ASSUME NEW st, NEW fs, HasFinished(st, answer, row), st.usage = Absent,
              fs = <<fin, use>> \/ fs = <<use>>
       PROVE  At(st, fs)
  <2>1. fs \in {<<FinishChunk(answer, row), UsageChunk(answer, row)>>, <<UsageChunk(answer, row)>>}
    BY <1>5
  <2> QED BY <1>5, <2>1 DEF ChatAt
<1>6. ASSUME NEW st, HasFinished(st, answer, row), st.usage = UsedBy(answer)
       PROVE  At(st, <<>>)
  BY <1>6 DEF ChatAt
<1>7. \A k \in 1 .. N : \A st : HasMessage(st, bs, k, row) => At(st, Rest(k))
  <2> TAKE k \in 1 .. N
  <2>1. k \in 0 .. Len(answer.blocks) BY <1>1
  <2> QED BY <2>1, ChatSkips
<1>8. /\ step.end = Open /\ At(step.state, Tail(frames)) => Goal
      /\ step.end # Open /\ Agreeing(row, answer, Verdict(step), ChatWhole(row, intent, answer))
           => Goal
  BY DEF ChatFollowing
<1>9. \/ \E k \in 1 .. N : \E n \in Nat :
           /\ n < Len(p[k]) /\ HasChunks(state, bs, answer.late, k, n, row)
           /\ frames = Dropped(p[k], n) \o Rest(k)
      \/ HasMessage(state, bs, N, row) /\ frames = tail
      \/ /\ HasFinished(state, answer, row) /\ state.usage = Absent
         /\ frames = <<fin, use>> \/ frames = <<use>>
  BY DEF ChatAt
<1> HIDE DEF Goal, At, Rest, p
<1>10. ASSUME NEW k \in 1 .. N, NEW n \in Nat, n < Len(p[k]),
             HasChunks(state, bs, answer.late, k, n, row), frames = Dropped(p[k], n) \o Rest(k)
      PROVE  Goal
  <2> DEFINE c == p[k]
             chunk == c[n + 1]
             left == Dropped(c, n + 1)
  <2>1. IsSequence(c) /\ c = ChatBlockChunks(bs[k], k, answer.late, row)
        /\ KnownBlock(bs[k], "openai_chat")
    BY <1>1
  <2>2. Len(c) \in Nat BY <2>1 DEF IsSequence
  <2> HIDE DEF c
  <2>3. n \in 0 .. Len(c) /\ n # Len(c) /\ n + 1 \in 0 .. Len(c) BY <1>10, <2>2 DEF c
  <2>4. Dropped(c, n) = <<chunk>> \o left /\ IsSequence(left) BY <2>1, <2>3, Dropping
  <2> HIDE DEF chunk, left
  <2>5. Head(frames) = chunk /\ Tail(frames) = left \o Rest(k)
    <3>1. frames = (<<chunk>> \o left) \o Rest(k) BY <1>10, <2>4 DEF c
    <3> QED BY <1>3, <2>4, <3>1, NextWithin
  <2>6. step = ChatChunk(state, chunk, row) BY <2>5
  <2>7. step.end = Open /\ HasChunks(step.state, bs, answer.late, k, n + 1, row)
    <3> DEFINE ch == ChatBlockChunks(bs[k], k, answer.late, row)[n + 1]
    <3>1. chunk = ch BY <2>1 DEF chunk
    <3>2. n < Len(ChatBlockChunks(bs[k], k, answer.late, row)) BY <1>10, <2>1 DEF c
    <3> HIDE DEF step
    <3>3. WordedBlocks(bs) /\ k \in 1 .. Len(bs) BY <1>1
    <3> HIDE DEF bs, N
    <3>4. LET st == ChatChunk(state, ch, row) IN
          st.end = Open /\ HasChunks(st.state, bs, answer.late, k, n + 1, row)
      BY <1>10, <2>1, <3>2, <3>3, ChunkRead
    <3> QED BY <2>6, <3>1, <3>4
  <2> HIDE DEF step
  <2>8. CASE n + 1 = Len(c)
    <3>1. HasMessage(step.state, bs, k, row)
      <4>1. HasChunks(step.state, bs, answer.late, k,
                      Len(ChatBlockChunks(bs[k], k, answer.late, row)), row)
        BY <2>1, <2>7, <2>8
      <4>2. WordedBlocks(bs) /\ k \in 1 .. Len(bs) BY <1>1
      <4> HIDE DEF bs, N
      <4> QED BY <2>1, <4>1, <4>2, MessageCloses
    <3>2. left = <<>> BY <2>1, <2>8, Dropping DEF left
    <3>3. Tail(frames) = Rest(k)
      <4>1. <<>> \o Rest(k) = Rest(k) BY <1>3, JoinsAnyhow
      <4> QED BY <2>5, <3>2, <4>1
    <3> QED BY <1>7, <1>8, <2>7, <3>1, <3>3
  <2>9. CASE n + 1 # Len(c)
    <3>1. n + 1 \in Nat /\ n + 1 < Len(c) BY <2>2, <2>3, <2>9
    <3>2. Tail(frames) = Dropped(c, n + 1) \o Rest(k) BY <2>5 DEF left
    <3>3. At(step.state, Tail(frames)) BY <1>4, <2>7, <3>1, <3>2 DEF c
    <3> QED BY <1>8, <2>7, <3>3
  <2> QED BY <2>8, <2>9
<1>11. ASSUME HasMessage(state, bs, N, row), frames = tail PROVE Goal
  <2>1. Head(frames) = fin /\ Tail(frames) = <<fin, use>>
    <3> HIDE DEF fin, use
    <3> QED BY <1>2, <1>11
  <2>2. step = ChatChunk(state, FinishChunk(answer, row), row) BY <2>1
  <2>3. HasMessage(state, answer.blocks, Len(answer.blocks), row) BY <1>11
  <2> DEFINE st == ChatChunk(state, FinishChunk(answer, row), row)
  <2>4. \/ st.end = Open /\ HasFinished(st.state, answer, row) /\ st.state.usage = Absent
        \/ /\ st.end # Open
           /\ Agreeing(row, answer, Verdict(st), ChatWhole(row, intent, answer))
    BY <2>3, ChatFinishes
  <2> HIDE DEF step, st
  <2>5. step = st BY <2>2 DEF st
  <2> HIDE DEF fin, use
  <2> QED BY <1>8, <1>5, <2>1, <2>4, <2>5
<1>12. ASSUME HasFinished(state, answer, row), state.usage = Absent, frames = <<fin, use>>
       PROVE  Goal
  <2>1. Head(frames) = fin /\ Tail(frames) = <<use>>
    <3> HIDE DEF fin, use
    <3> QED BY <1>12
  <2>2. step = ChatChunk(state, FinishChunk(answer, row), row) BY <2>1
  <2> DEFINE st == ChatChunk(state, FinishChunk(answer, row), row)
  <2>3. st.end = Open /\ HasFinished(st.state, answer, row) /\ st.state.usage = Absent
    BY <1>1, <1>12, AfterFinish, BlocksJoin
  <2> HIDE DEF step, st
  <2>4. step = st BY <2>2 DEF st
  <2> HIDE DEF fin, use
  <2> QED BY <1>8, <1>5, <2>1, <2>3, <2>4
<1>13. ASSUME HasFinished(state, answer, row), state.usage = Absent, frames = <<use>>
       PROVE  Goal
  <2>1. Head(frames) = use /\ Tail(frames) = <<>>
    <3> HIDE DEF fin, use
    <3> QED BY <1>13
  <2>2. step = ChatChunk(state, UsageChunk(answer, row), row) BY <2>1
  <2> DEFINE st == ChatChunk(state, UsageChunk(answer, row), row)
  <2>3. st.end = Open /\ HasFinished(st.state, answer, row) /\ st.state.usage = UsedBy(answer)
    BY <1>1, <1>13, AfterFinish, BlocksJoin
  <2> HIDE DEF step, st
  <2>4. step = st BY <2>2 DEF st
  <2> QED BY <1>8, <1>6, <2>1, <2>3, <2>4
<1>14. Goal BY <1>9, <1>10, <1>11, <1>12, <1>13
<1> QED BY <1>14 DEF Goal

\* The first chunk.
LEMMA ChatBegins ==
    ASSUME NEW answer, AnswerFits(answer, "openai_chat"), NEW row
    PROVE  ChatAt(ChatStart, ChatFrames(answer, row), answer, row)
<1> DEFINE bs == answer.blocks
           p == ChatChunks(answer, row)
<1>1. Pieces(p) /\ WordedBlocks(bs) /\ Len(bs) \in Nat BY ChunksUnroll, AnswerBlocks
<1>2. ChatFrames(answer, row) = Concat(p) \o ChatTail(answer, row)
  BY DEF ChatFrames, ChatChunks, ChatTail, FinishChunk, UsageChunk, UsedBy
<1>3. Later(p, 0) = Concat(p)
  <2> HIDE DEF p
  <2> QED BY <1>1, LaterUnrolls
<1>4. ChatFrames(answer, row) = ChatRest(answer, row, 0) BY <1>2, <1>3 DEF ChatRest
<1>5. HasMessage(ChatStart, bs, 0, row)
  <2>1. Initial(bs, 0) = <<>>
    <3> HIDE DEF bs
    <3>1. IsSequence(bs) BY <1>1 DEF WordedBlocks
    <3> QED BY <3>1, Initials
  <2>2. TextOf(Initial(bs, 0)) = <<>> BY <2>1, NoBlocks
  <2>3. /\ ChatKeys \subseteq DOMAIN ChatStart /\ ChatStart.model = Absent
        /\ ChatStart.usage = Absent /\ ChatStart.finish = Absent
        /\ ChatStart.text = <<>> /\ ChatStart.slots = <<>>
    BY DEF ChatStart, ChatKeys
  <2>4. ToolsAt(bs, 0) = {} BY DEF ToolsAt
  <2>5. DOMAIN ChatStart.slots = {} BY <2>3
  <2>6. HasCalls(ChatStart.slots, bs, 0) BY <2>4, <2>5 DEF HasCalls
  <2>7. Unfinished(ChatStart, row) BY <2>3 DEF Unfinished
  <2> HIDE DEF bs
  <2> QED BY <2>2, <2>3, <2>6, <2>7 DEF HasMessage
<1>6. 0 \in 0 .. Len(answer.blocks) BY <1>1
<1>7. ChatAt(ChatStart, ChatRest(answer, row, 0), answer, row) BY <1>5, <1>6, ChatSkips
<1> QED BY <1>4, <1>7

----------------------------------------------------------------------------
\* Absent stands for None, and is nothing else: not the finish reason of a blocked
\* prompt, nor an artifact, native or sealed.
AbsentIsNothing ==
    /\ Absent # "blocked"
    /\ \A target, codec, it :
         /\ Absent # [target |-> target, codec |-> codec, blocks |-> it]
         /\ Absent # [target |-> target, codec |-> codec, payload |-> it]

\* A payload has a sequence of turns,
Turned(payload) == {"first", "turns"} \subseteq DOMAIN payload /\ IsSequence(payload.turns)

\* and one more when it grows.
LEMMA TurnsGrow ==
    ASSUME NEW state, Turned(state), NEW x
    PROVE  LET grown == [state EXCEPT !.turns = Append(@, x)] IN
           /\ Turned(grown) /\ grown.first = state.first
           /\ Len(grown.turns) = Len(state.turns) + 1 /\ Len(state.turns) \in Nat
           /\ DOMAIN grown.turns = 1 .. Len(state.turns) + 1
           /\ Last(grown.turns) = x /\ grown.turns[Len(state.turns) + 1] = x
           /\ \A i \in 1 .. Len(state.turns) : grown.turns[i] = state.turns[i]
<1> DEFINE ts == state.turns
           more == Append(ts, x)
           grown == [state EXCEPT !.turns = Append(@, x)]
           one == <<x>>
<1>1. /\ grown.turns = more /\ grown.first = state.first
      /\ DOMAIN grown = DOMAIN state /\ IsSequence(ts)
  BY DEF Turned
<1>2. IsSequence(one) /\ Len(one) = 1 /\ one[1] = x /\ Last(one) = x BY DEF IsSequence, Last
<1>3. more = ts \o one
  <2> DEFINE S == {ts[i] : i \in DOMAIN ts} \cup {x}
  <2>1. ts \in Seq(S) /\ x \in S BY <1>1 DEF IsSequence
  <2> HIDE DEF S, ts
  <2> QED BY <2>1
<1> HIDE DEF ts, more, grown, one
<1>4. /\ IsSequence(more) /\ Len(ts) \in Nat /\ Len(more) = Len(ts) + 1
      /\ DOMAIN more = 1 .. Len(more)
      /\ \A i \in 1 .. Len(ts) : more[i] = ts[i]
      /\ more[Len(ts) + 1] = x
  <2>1. IsSequence(ts \o one) BY <1>1, <1>2, Joined
  <2>2. IsSequence(more) BY <2>1, <1>3
  <2>3. DOMAIN more = 1 .. Len(more) BY <2>2 DEF IsSequence
  <2>4. IsSequence(ts) /\ IsSequence(one) BY <1>1, <1>2
  <2>5. /\ Len(ts) \in Nat /\ Len(ts \o one) = Len(ts) + Len(one)
        /\ \A i \in 1 .. Len(ts) : (ts \o one)[i] = ts[i]
        /\ \A i \in 1 .. Len(one) : (ts \o one)[Len(ts) + i] = one[i]
    BY <2>4, Joined
  <2>6. /\ Len(ts) \in Nat /\ Len(ts \o one) = Len(ts) + 1
        /\ \A i \in 1 .. Len(ts) : (ts \o one)[i] = ts[i]
        /\ \A i \in 1 .. Len(one) : (ts \o one)[Len(ts) + i] = one[i]
    BY <1>2, <2>5
  <2>7. (ts \o one)[Len(ts) + 1] = x
    <3>1. 1 \in 1 .. Len(one) BY <1>2
    <3> QED BY <1>2, <2>6, <3>1
  <2> QED BY <1>3, <2>2, <2>3, <2>6, <2>7
<1>5. Last(more) = x BY <1>4 DEF Last
<1>6. Turned(grown) BY <1>1, <1>4 DEF Turned
<1>7. /\ Turned(grown) /\ grown.first = state.first
      /\ Len(grown.turns) = Len(ts) + 1 /\ Len(ts) \in Nat
      /\ DOMAIN grown.turns = 1 .. Len(ts) + 1
      /\ Last(grown.turns) = x /\ grown.turns[Len(ts) + 1] = x
      /\ \A i \in 1 .. Len(ts) : grown.turns[i] = ts[i]
  BY <1>1, <1>4, <1>5, <1>6
<1> QED BY <1>7 DEF ts, grown

\* Payloads that differ in what their turns hold, but not in the results given,
\* weigh the same.
LEMMA WeighAlike ==
    ASSUME NEW p, NEW q, p.first = q.first, Len(p.turns) = Len(q.turns),
           DOMAIN p.turns = DOMAIN q.turns,
           \A i \in DOMAIN p.turns : p.turns[i].results = q.turns[i].results
    PROVE  Weight(p) = Weight(q)
<1> DEFINE ts == p.turns
           us == q.turns
           Answered(s) == {i \in DOMAIN s : s[i].results # Absent}
           Big(s, i) == {j \in DOMAIN s[i].results : s[i].results[j].big}
           Given(s) == {{i} \X Big(s, i) : i \in Answered(s)}
<1>1. Answered(ts) = Answered(us) OBVIOUS
<1>2. \A i \in Answered(ts) : Big(ts, i) = Big(us, i) OBVIOUS
<1> HIDE DEF Answered, Big
<1>3. Given(ts) = Given(us) BY <1>1, <1>2
<1>4. /\ Weight(p) = Len(p.first.messages) + Len(ts) + Cardinality(UNION Given(ts))
      /\ Weight(q) = Len(q.first.messages) + Len(us) + Cardinality(UNION Given(us))
  BY DEF Weight, Answered, Big
<1> HIDE DEF Given, ts, us
<1>5. Len(ts) = Len(us) BY DEF ts, us
<1> QED BY <1>3, <1>4, <1>5

\* The runtime's seal leaves what agrees in agreement (runtime.py, _seal_outcome).
SealedBy(row, intent, state, outcome) ==
    IF IsError(outcome) THEN outcome ELSE SealOutcome(row, intent, state, outcome)

\* The turn that a success with this native turn adds, and the payload it leaves.
TurnOf(content, native) ==
    [text |-> content.text, calls |-> content.tools, native |-> native, results |-> Absent]
GrownBy(state, content, native) ==
    [state EXCEPT !.turns = Append(@, TurnOf(content, native))]

LEMMA SealsSuccess ==
    ASSUME AbsentIsNothing, NEW row, NEW intent, NEW state, NEW content, NEW meta,
           NEW target, NEW codec, NEW native
    PROVE  LET artifact == [target |-> target, codec |-> codec, blocks |-> native]
               sealed == Sealed(row, intent, GrownBy(state, content, native))
               result_ == SealedBy(row, intent, state, Success(content, artifact, meta))
           IN /\ content.tools # <<>> /\ (target # intent.target \/ codec # row.codec)
                   => result_ = InvalidRequest
              /\ content.tools # <<>> /\ target = intent.target /\ codec = row.codec =>
                   result_ = IF EncodeContinuation(sealed) THEN Success(content, sealed, meta)
                             ELSE Failure("ContinuationTooLarge", meta)
<1> DEFINE artifact == [target |-> target, codec |-> codec, blocks |-> native]
           outcome == Success(content, artifact, meta)
           sealed == Sealed(row, intent, GrownBy(state, content, native))
           generation == SealGeneration(row, intent, state, outcome)
           result_ == SealedBy(row, intent, state, outcome)
<1>1. /\ ~ IsError(outcome) /\ outcome.arm = "Succeeded" /\ outcome.content = content
      /\ outcome.continuation = artifact /\ outcome.meta = meta
  BY DEF Success, IsError
<1>2. artifact # Absent BY DEF AbsentIsNothing
<1>3. artifact.target = target /\ artifact.codec = codec /\ artifact.blocks = native OBVIOUS
<1> HIDE DEF outcome, artifact
<1>4. /\ content.tools # <<>> /\ (target # intent.target \/ codec # row.codec)
           => generation = InvalidRequest
      /\ content.tools # <<>> /\ target = intent.target /\ codec = row.codec =>
           generation = IF ~ EncodeContinuation(sealed) THEN TooLarge
                        ELSE Success(content, sealed, meta)
  BY <1>1, <1>2, <1>3 DEF SealGeneration, GrownBy, TurnOf
<1>5. result_ = IF generation = TooLarge THEN Failure("ContinuationTooLarge", meta) ELSE generation
  BY <1>1 DEF SealedBy, SealOutcome
<1>6. InvalidRequest # TooLarge /\ Success(content, sealed, meta) # TooLarge
  <2> HIDE DEF sealed
  <2>1. InvalidRequest.error = "InvalidRequest" /\ TooLarge.error = "ValueError"
    BY DEF InvalidRequest, TooLarge
  <2>2. "error" \in DOMAIN TooLarge /\ "error" \notin DOMAIN Success(content, sealed, meta)
    BY DEF TooLarge, Success
  <2> QED BY <2>1, <2>2
<1> HIDE DEF generation, sealed
<1>7. /\ content.tools # <<>> /\ (target # intent.target \/ codec # row.codec)
           => result_ = InvalidRequest
      /\ content.tools # <<>> /\ target = intent.target /\ codec = row.codec =>
           result_ = IF EncodeContinuation(sealed) THEN Success(content, sealed, meta)
                     ELSE Failure("ContinuationTooLarge", meta)
  BY <1>4, <1>5, <1>6
<1> QED BY <1>7 DEF sealed, outcome, artifact

LEMMA SealingAgrees ==
    ASSUME AbsentIsNothing, NEW row, NEW intent, NEW state, Turned(state),
           NEW answer, NEW streamed, NEW whole, Agreeing(row, answer, streamed, whole)
    PROVE  LET result_ == SealedBy(row, intent, state, streamed) IN
           \/ Meaning(result_) = Meaning(SealedBy(row, intent, state, whole))
           \/ ToldFirst(row, answer, Meaning(result_))
<1> DEFINE By(outcome) == SealedBy(row, intent, state, outcome)
<1>1. \A outcome : ~ Succeeds(outcome) => By(outcome) = outcome
  BY DEF Succeeds, SealedBy, SealOutcome
<1>2. CASE SameTurn(streamed, whole)
  <2>1. PICK content, meta, a, b :
          /\ streamed = Success(content, a, meta) /\ whole = Success(content, b, meta)
          /\ content.tools # <<>> => Artifacts(a, b)
    BY <1>2 DEF SameTurn
  <2>2. CASE content.tools = <<>>
    <3>1. ASSUME NEW x
          PROVE  By(Success(content, x, meta)) = Success(content, Absent, meta)
      <4> DEFINE outcome == Success(content, x, meta)
                 none == Success(content, Absent, meta)
      <4>1. /\ ~ IsError(outcome) /\ outcome.arm = "Succeeded" /\ outcome.content = content
            /\ outcome.meta = meta
        BY DEF Success, IsError
      <4>2. none # TooLarge
        <5>1. "error" \in DOMAIN TooLarge /\ "error" \notin DOMAIN none BY DEF TooLarge, Success
        <5> QED BY <5>1
      <4> HIDE DEF outcome
      <4>3. SealGeneration(row, intent, state, outcome) = none
        BY <2>2, <4>1 DEF SealGeneration
      <4> HIDE DEF none
      <4>4. By(outcome) = none BY <4>1, <4>2, <4>3 DEF SealedBy, SealOutcome
      <4> QED BY <4>4 DEF outcome, none
    <3> HIDE DEF By
    <3>2. By(streamed) = By(whole) BY <2>1, <3>1
    <3> QED BY <3>2 DEF By
  <2>3. CASE content.tools # <<>>
    <3>1. PICK target, codec, one, other :
            /\ a = [target |-> target, codec |-> codec, blocks |-> one]
            /\ b = [target |-> target, codec |-> codec, blocks |-> other]
            /\ Says(one) = Says(other)
      BY <2>1, <2>3 DEF Artifacts
    <3> DEFINE G(native) == GrownBy(state, content, native)
               S(native) == Sealed(row, intent, G(native))
               Made(native) == Success(content, S(native), meta)
               tooLarge == Failure("ContinuationTooLarge", meta)
    <3>2. CASE target # intent.target \/ codec # row.codec
      <4>1. By(streamed) = InvalidRequest /\ By(whole) = InvalidRequest
        BY <2>1, <2>3, <3>1, <3>2, SealsSuccess
      <4> QED BY <4>1
    <3>3. CASE target = intent.target /\ codec = row.codec
      <4>1. /\ By(streamed) = IF EncodeContinuation(S(one)) THEN Made(one) ELSE tooLarge
            /\ By(whole) = IF EncodeContinuation(S(other)) THEN Made(other) ELSE tooLarge
        BY <2>1, <2>3, <3>1, <3>3, SealsSuccess
      <4>2. ASSUME NEW native
            PROVE  /\ S(native).payload = G(native) /\ S(native) # Absent
                   /\ Last(G(native).turns).native = native
        <5>1. Last(G(native).turns) = TurnOf(content, native) BY TurnsGrow DEF GrownBy
        <5>2. TurnOf(content, native).native = native BY DEF TurnOf
        <5> HIDE DEF G
        <5>3. S(native).payload = G(native) /\ S(native) # Absent
          BY DEF Sealed, AbsentIsNothing
        <5> QED BY <5>1, <5>2, <5>3
      <4>3. Weight(G(one)) = Weight(G(other))
        <5> DEFINE ts == state.turns
        <5>1. ASSUME NEW native
              PROVE  /\ G(native).first = state.first
                     /\ Len(G(native).turns) = Len(ts) + 1 /\ Len(ts) \in Nat
                     /\ DOMAIN G(native).turns = 1 .. Len(ts) + 1
                     /\ G(native).turns[Len(ts) + 1] = TurnOf(content, native)
                     /\ \A i \in 1 .. Len(ts) : G(native).turns[i] = ts[i]
          BY TurnsGrow DEF GrownBy
        <5>2. \A native : TurnOf(content, native).results = Absent BY DEF TurnOf
        <5> HIDE DEF G, ts
        <5>3. \A i \in 1 .. Len(ts) + 1 : G(one).turns[i].results = G(other).turns[i].results
          <6> TAKE i \in 1 .. Len(ts) + 1
          <6>1. CASE i = Len(ts) + 1 BY <5>1, <5>2, <6>1
          <6>2. CASE i # Len(ts) + 1
            <7>1. i \in 1 .. Len(ts) BY <5>1, <6>2
            <7> QED BY <5>1, <7>1
          <6> QED BY <6>1, <6>2
        <5> QED BY <5>1, <5>3, WeighAlike
      <4>4. EncodeContinuation(S(one)) <=> EncodeContinuation(S(other))
        <5> HIDE DEF S, G
        <5> QED BY <4>2, <4>3 DEF EncodeContinuation
      <4>5. ASSUME NEW native
            PROVE  Meaning(Made(native)) = <<"Succeeded", content, meta, Says(native)>>
        <5> DEFINE made == Made(native)
        <5>1. /\ ~ IsError(made) /\ made.arm = "Succeeded" /\ made.content = content
              /\ made.continuation = S(native) /\ made.meta = meta
          BY DEF Success, IsError
        <5> HIDE DEF made, S, G
        <5>2. Meaning(made) = <<"Succeeded", content, meta,
                                Says(Last(S(native).payload.turns).native)>>
          BY <4>2, <5>1 DEF Meaning
        <5> QED BY <4>2, <5>2 DEF made
      <4> HIDE DEF S, G, Made, tooLarge, By
      <4>6. Meaning(By(streamed)) = Meaning(By(whole))
        BY <3>1, <4>1, <4>4, <4>5
      <4> QED BY <4>6 DEF By
    <3> QED BY <3>2, <3>3
  <2> QED BY <2>2, <2>3
<1>3. CASE streamed = whole BY <1>3
<1>4. CASE ~ Succeeds(streamed) /\ ~ Succeeds(whole) /\ Meaning(streamed) = Meaning(whole)
  BY <1>1, <1>4
<1>5. CASE ~ Succeeds(streamed) /\ ToldFirst(row, answer, Meaning(streamed))
  BY <1>1, <1>5
<1> QED BY <1>2, <1>3, <1>4, <1>5 DEF Agreeing

----------------------------------------------------------------------------
\* What every call is about has a sequence of turns, and so has every artifact that
\* the caller holds.
CallKeys == {"streaming", "intent", "state", "answer", "fault"}
CallInv == phase \in {"ready", "streaming"} => CallKeys \subseteq DOMAIN call
TurnsInv ==
    /\ CallInv
    /\ held # Absent => Turned(held.payload)
    /\ phase \in {"ready", "streaming"} => Turned(call.state)

\* A first request has none yet,
LEMMA FirstTurned ==
    ASSUME NEW row, NEW intent, NEW streaming,
           ~ IsError(PrepareFirst(row, intent, streaming))
    PROVE  Turned(PrepareFirst(row, intent, streaming).state)
<1> DEFINE first == [version |-> row.version, first |-> intent, turns |-> <<>>]
           state == Preflight(row, intent)
           prepared == PrepareFirst(row, intent, streaming)
<1>1. IsError(InvalidRequest) BY DEF IsError, InvalidRequest
<1>2. Turned(first) BY DEF Turned, IsSequence
<1> HIDE DEF first
<1>3. FirstState(row, intent) \in {first, InvalidRequest} BY DEF FirstState, first
<1>4. ~ IsError(state) => state = first BY <1>1, <1>3 DEF Preflight
<1> HIDE DEF state
<1>5. ~ IsError(prepared) => ~ IsError(state) /\ prepared = [intent |-> intent, state |-> state]
  BY <1>1 DEF PrepareFirst, state
<1> QED BY <1>2, <1>4, <1>5

\* a resumed one those of its artifact, the last with its results;
LEMMA NextTurned ==
    ASSUME NEW row, NEW artifact, Turned(artifact.payload), NEW results, NEW streaming,
           ~ IsError(PrepareNext(row, artifact, results, streaming))
    PROVE  Turned(PrepareNext(row, artifact, results, streaming).state)
<1> DEFINE ts == artifact.payload.turns
           n == Len(ts)
           payload == [artifact.payload EXCEPT !.turns[n].results = results]
           resumed == ResumeGeneration(row, artifact, results)
           prepared == PrepareNext(row, artifact, results, streaming)
<1>1. IsError(InvalidRequest) BY DEF IsError, InvalidRequest
<1>2. Turned(payload)
  <2> DEFINE us == [ts EXCEPT ![n] = [@ EXCEPT !.results = results]]
  <2>1. DOMAIN payload = DOMAIN artifact.payload /\ payload.turns = us BY DEF Turned
  <2>2. IsSequence(ts) BY DEF Turned
  <2>3. DOMAIN us = DOMAIN ts /\ us = [i \in DOMAIN ts |-> us[i]] OBVIOUS
  <2> HIDE DEF us, ts, payload
  <2>4. IsSequence(us) BY <2>2, <2>3, AsManyAs
  <2> QED BY <2>1, <2>4 DEF Turned
<1> HIDE DEF payload
<1>3. resumed = InvalidRequest \/ resumed = [intent |-> Resumed(row, payload), state |-> payload]
  BY DEF ResumeGeneration, payload
<1> HIDE DEF resumed
<1>4. ~ IsError(prepared) => prepared = resumed /\ ~ IsError(resumed)
  BY <1>1 DEF PrepareNext, resumed
<1> QED BY <1>1, <1>2, <1>3, <1>4

\* a call is dispatched with either,
LEMMA DispatchTurned ==
    ASSUME TurnsInv, NEW prepared, ~ IsError(prepared) => Turned(prepared.state),
           NEW streaming, Dispatch(prepared, streaming)
    PROVE  TurnsInv'
<1> DEFINE request == IF IsError(prepared) THEN prepared ELSE Request(Row, prepared.intent)
<1>1. held' = held BY DEF Dispatch
<1>2. \/ phase' = "done"
      \/ /\ phase' = "ready" /\ ~ IsError(request)
         /\ call' = [streaming |-> streaming, intent |-> prepared.intent,
                     state |-> prepared.state, request |-> request,
                     answer |-> Absent, fault |-> "none"]
  BY DEF Dispatch
<1>3. ~ IsError(request) => ~ IsError(prepared) OBVIOUS
<1> HIDE DEF request
<1>4. phase' = "ready" => CallKeys \subseteq DOMAIN call' /\ Turned(call'.state)
  BY <1>2, <1>3 DEF CallKeys
<1> QED BY <1>1, <1>2, <1>4 DEF TurnsInv, CallInv

\* and an outcome adds one more.
LEMMA SettleTurned ==
    ASSUME TurnsInv, Turned(call.state), NEW ended, Settle(ended)
    PROVE  held' # Absent => Turned(held'.payload)
<1> DEFINE row == Row
           intent == call.intent
           state == call.state
           sealed == SealedBy(row, intent, state, ended)
           made == SealGeneration(row, intent, state, ended)
           grown == [state EXCEPT !.turns =
                       Append(@, TurnOf(ended.content, ended.continuation.blocks))]
           whole == Sealed(row, intent, grown)
           Stays == IsError(sealed) \/ sealed.arm # "Succeeded" \/ sealed.continuation = Absent
<1>1. held' = IF Stays THEN held ELSE sealed.continuation BY DEF Settle, SealedBy
<1>2. Turned(grown) BY TurnsGrow
<1>3. IsError(InvalidRequest) BY DEF IsError, InvalidRequest
<1>4. \A content, it, meta :
        /\ Success(content, it, meta).continuation = it
        /\ Failure("ContinuationTooLarge", meta).arm # "Succeeded"
  BY DEF Success, Failure, Outcome
<1>5. \/ made = Success(ended.content, Absent, ended.meta) \/ made = InvalidRequest
      \/ made = TooLarge \/ made = Success(ended.content, whole, ended.meta)
  BY DEF SealGeneration, TurnOf
<1> HIDE DEF grown, row
<1>6. whole.payload = grown BY DEF Sealed
<1> HIDE DEF whole, made
<1>7. \/ sealed = ended /\ (IsError(ended) \/ ended.arm # "Succeeded")
      \/ sealed = made \/ sealed = Failure("ContinuationTooLarge", ended.meta)
  BY DEF SealedBy, SealOutcome, made
<1>8. IsError(TooLarge) BY DEF IsError, TooLarge
<1> HIDE DEF sealed
<1>9. Stays \/ sealed.continuation = whole BY <1>3, <1>4, <1>5, <1>7, <1>8
<1> HIDE DEF Stays
<1> QED BY <1>1, <1>2, <1>6, <1>9 DEF TurnsInv

LEMMA TurnsStep ==
    ASSUME TurnsInv, [Next]_vars
    PROVE  TurnsInv'
<1>1. ASSUME NEW ended, Settle(ended), phase \in {"ready", "streaming"} PROVE TurnsInv'
  <2>1. held' # Absent => Turned(held'.payload) BY <1>1, SettleTurned DEF TurnsInv
  <2>2. phase' = "done" BY <1>1 DEF Settle
  <2> QED BY <2>1, <2>2 DEF TurnsInv, CallInv
<1>2. ASSUME NEW step, Advance(step), phase \in {"ready", "streaming"},
             CallKeys \subseteq DOMAIN call', call'.state = call.state
      PROVE  TurnsInv'
  <2>1. CASE step.end = Open
    <3>1. held' = held BY <1>2, <2>1 DEF Advance
    <3> QED BY <1>2, <3>1 DEF TurnsInv, CallInv
  <2>2. CASE step.end # Open
    <3>1. \E ended : Settle(ended) BY <1>2, <2>2 DEF Advance
    <3> QED BY <1>1, <1>2, <3>1
  <2> QED BY <2>1, <2>2
<1>3. ASSUME phase \in {"ready", "streaming"}
      PROVE  /\ \A reply : CallKeys \subseteq DOMAIN Replied(reply)
                             /\ Replied(reply).state = call.state
             /\ \A fault : LET cut == [call EXCEPT !.fault = fault] IN
                           CallKeys \subseteq DOMAIN cut /\ cut.state = call.state
             /\ CallKeys \subseteq DOMAIN call
  BY <1>3 DEF TurnsInv, CallInv, Replied, CallKeys
<1>4. CASE Begin
  <2>1. PICK intent, streaming : Dispatch(PrepareFirst(Row, intent, streaming), streaming)
    BY <1>4 DEF Begin
  <2> QED BY <2>1, FirstTurned, DispatchTurned
<1>5. CASE Continue
  <2> DEFINE stored == DecodeContinuation(held, Row.target, Row.codec)
  <2>1. PICK results, streaming : Dispatch(PrepareNext(Row, stored, results, streaming), streaming)
    BY <1>5 DEF Continue
  <2>2. stored = held
    <3>1. ~ IsError(stored) BY <1>5 DEF Continue
    <3>2. IsError(InvalidRequest) BY DEF IsError, InvalidRequest
    <3> QED BY <3>1, <3>2 DEF DecodeContinuation
  <2>3. held # Absent BY <1>5 DEF Continue
  <2>4. Turned(stored.payload) BY <2>2, <2>3 DEF TurnsInv
  <2> HIDE DEF stored
  <2> QED BY <2>1, <2>4, NextTurned, DispatchTurned
<1>6. CASE Redefine BY <1>6 DEF Redefine, TurnsInv, CallInv
<1>7. CASE AnswerWhole
  <2>1. phase = "ready" /\ \E ended : Settle(ended) BY <1>7 DEF AnswerWhole
  <2> QED BY <1>1, <2>1
<1>8. CASE OpenStream
  <2>1. phase = "ready" BY <1>8 DEF OpenStream
  <2>2. \E reply, step : call' = Replied(reply) /\ Advance(step) BY <1>8 DEF OpenStream
  <2> QED BY <1>2, <1>3, <2>1, <2>2
<1>9. CASE Deliver
  <2>1. phase = "streaming" /\ call' = call BY <1>9 DEF Deliver
  <2>2. \E step : Advance(step) BY <1>9 DEF Deliver
  <2> QED BY <1>2, <1>3, <2>1, <2>2
<1>10. CASE End
  <2>1. /\ phase = "streaming" /\ \E step : Advance(step)
        /\ call' = call \/ call' = [call EXCEPT !.fault = "cut"]
    BY <1>10 DEF End
  <2> QED BY <1>2, <1>3, <2>1
<1>11. CASE Fail
  <2>1. /\ phase = "streaming"
        /\ \E step, fault : Advance(step) /\ call' = [call EXCEPT !.fault = fault]
    BY <1>11 DEF Fail
  <2> QED BY <1>2, <1>3, <2>1
<1>12. CASE UNCHANGED vars BY <1>12 DEF vars, TurnsInv, CallInv
<1> QED
  BY <1>4, <1>5, <1>6, <1>7, <1>8, <1>9, <1>10, <1>11, <1>12 DEF Next

----------------------------------------------------------------------------
\* Where a decoder stands in the frames of an answer.
DecoderAt(row, answer, state, frames) ==
    \/ row.engine = "anthropic_messages" /\ AnthropicAt(state, frames, answer, row)
    \/ row.engine = "openai_responses" /\ ResponsesAt(state, frames, answer, row)
    \/ row.engine = "openai_chat" /\ ChatAt(state, frames, answer, row)
    \/ row.engine = "gemini_generate" /\ GeminiAt(state, frames, answer)
Whole(row, intent, answer) == Generate(row, intent, [kind |-> "answer", answer |-> answer])

LEMMA WholeAnswers ==
    ASSUME NEW row, NEW intent, NEW answer
    PROVE  /\ row.engine = "anthropic_messages" =>
                Whole(row, intent, answer) = AnthropicDecode(row, intent, AnthropicResponse(answer))
           /\ row.engine = "openai_responses" =>
                Whole(row, intent, answer)
                  = ResponsesDecode(row, intent, ResponsesResponse(answer, row))
           /\ row.engine = "openai_chat" =>
                Whole(row, intent, answer) = ChatWhole(row, intent, answer)
           /\ row.engine = "gemini_generate" =>
                Whole(row, intent, answer) = GeminiDecode(row, intent, GeminiResponse(answer))
<1> DEFINE reply == [kind |-> "answer", answer |-> answer]
<1>1. reply.kind = "answer" /\ reply.answer = answer OBVIOUS
<1> HIDE DEF reply
<1>2. /\ AnthropicRejection(row, reply) = Absent /\ ResponsesRejection(row, reply) = Absent
      /\ ChatRejection(row, reply) = Absent /\ GeminiRejection(row, reply) = Absent
  BY <1>1 DEF AnthropicRejection, ResponsesRejection, ChatRejection, GeminiRejection
<1>3. AnthropicGenerate(row, intent, reply) = AnthropicDecode(row, intent, AnthropicResponse(answer))
  BY <1>1, <1>2 DEF AnthropicGenerate
<1>4. ResponsesGenerate(row, intent, reply)
        = ResponsesDecode(row, intent, ResponsesResponse(answer, row))
  BY <1>1, <1>2 DEF ResponsesGenerate
<1>5. ChatGenerate(row, intent, reply) = ChatWhole(row, intent, answer)
  BY <1>1, <1>2 DEF ChatGenerate, ChatWhole
<1>6. GeminiGenerate(row, intent, reply) = GeminiDecode(row, intent, GeminiResponse(answer))
  BY <1>1, <1>2 DEF GeminiGenerate
<1>7. Whole(row, intent, answer) = Generate(row, intent, reply) BY DEF Whole, reply
<1> QED BY <1>3, <1>4, <1>5, <1>6, <1>7 DEF Generate

\* A stream opens at its first frame,
LEMMA OpensAtFirst ==
    ASSUME NEW row, row.engine \in Engines, NEW reply, reply.kind = "answer",
           AnswerFits(reply.answer, row.engine)
    PROVE  LET step == Opening(row, reply) IN
           step.end = Open /\ DecoderAt(row, reply.answer, step.state, Frames(row, reply.answer))
<1> DEFINE answer == reply.answer
           step == Opening(row, reply)
<1>1. \A start : LET first == Opens(start, Absent) IN first.end = Open /\ first.state = start
  BY DEF Opens, Goes
<1>2. CASE row.engine = "anthropic_messages"
  <2>1. step = Opens(AnthropicStart, Absent)
    BY <1>2 DEF Opening, AnthropicOpen, AnthropicRejection
  <2>2. Frames(row, answer) = AnthropicFrames(answer, row) BY <1>2 DEF Frames
  <2>3. AnthropicAt(AnthropicStart, AnthropicFrames(answer, row), answer, row)
    BY <1>2, AnthropicBegins
  <2> HIDE DEF step
  <2>4. step.end = Open /\ step.state = AnthropicStart BY <1>1, <2>1
  <2> QED BY <1>2, <2>2, <2>3, <2>4 DEF DecoderAt, step
<1>3. CASE row.engine = "openai_responses"
  <2>1. step = Opens(ResponsesStart, Absent)
    BY <1>3 DEF Opening, ResponsesOpen, ResponsesRejection
  <2>2. Frames(row, answer) = ResponsesFrames(answer, row) BY <1>3 DEF Frames
  <2>3. ResponsesAt(ResponsesStart, ResponsesFrames(answer, row), answer, row)
    BY <1>3, ResponsesBegins
  <2> HIDE DEF step
  <2>4. step.end = Open /\ step.state = ResponsesStart BY <1>1, <2>1
  <2> QED BY <1>3, <2>2, <2>3, <2>4 DEF DecoderAt, step
<1>4. CASE row.engine = "openai_chat"
  <2>1. step = Opens(ChatStart, Absent)
    BY <1>4 DEF Opening, ChatOpen, ChatRejection
  <2>2. Frames(row, answer) = ChatFrames(answer, row) BY <1>4 DEF Frames
  <2>3. ChatAt(ChatStart, ChatFrames(answer, row), answer, row)
    BY <1>4, ChatBegins
  <2> HIDE DEF step
  <2>4. step.end = Open /\ step.state = ChatStart BY <1>1, <2>1
  <2> QED BY <1>4, <2>2, <2>3, <2>4 DEF DecoderAt, step
<1>5. CASE row.engine = "gemini_generate"
  <2>1. step = Opens(GeminiStart, Absent)
    BY <1>5 DEF Opening, GeminiOpen, GeminiRejection
  <2>2. Frames(row, answer) = GeminiFrames(answer) BY <1>5 DEF Frames
  <2>3. GeminiAt(GeminiStart, GeminiFrames(answer), answer)
    BY <1>5, GeminiBegins
  <2> HIDE DEF step
  <2>4. step.end = Open /\ step.state = GeminiStart BY <1>1, <2>1
  <2> QED BY <1>5, <2>2, <2>3, <2>4 DEF DecoderAt, step
<1> QED BY <1>2, <1>3, <1>4, <1>5 DEF Engines

\* A chat stream whose source is over has been read to its end.
LEMMA ChatReadThrough ==
    ASSUME NEW answer, AnswerFits(answer, "openai_chat"), NEW row, NEW state,
           ChatAt(state, <<>>, answer, row)
    PROVE  HasFinished(state, answer, row) /\ state.usage = UsedBy(answer)
<1> DEFINE bs == answer.blocks
           p == ChatChunks(answer, row)
           fin == FinishChunk(answer, row)
           use == UsageChunk(answer, row)
           tail == ChatTail(answer, row)
<1>1. /\ Pieces(p) /\ Len(p) = Len(bs) /\ \A k \in 1 .. Len(bs) : IsSequence(p[k])
  BY ChunksUnroll
<1>2. tail = <<fin, fin, use>> BY DEF ChatTail
<1>3. IsSequence(tail) BY DEF ChatTail, IsSequence
<1>4. tail # <<>> /\ <<fin, use>> # <<>> /\ <<use>> # <<>>
  <2> HIDE DEF fin, use, tail
  <2> QED BY <1>2
<1>5. ASSUME NEW k \in 1 .. Len(bs), NEW n \in Nat, n < Len(p[k])
      PROVE  Dropped(p[k], n) \o ChatRest(answer, row, k) # <<>>
  <2> DEFINE left == Dropped(p[k], n)
             more == ChatRest(answer, row, k)
             c == p[k]
  <2>1. IsSequence(c) BY <1>1
  <2>2. Len(c) \in Nat BY <2>1 DEF IsSequence
  <2>3. n \in 0 .. Len(c) BY <1>5, <2>2
  <2>4. IsSequence(Dropped(c, n)) /\ Len(Dropped(c, n)) = Len(c) - n
    <3> HIDE DEF c
    <3> QED BY <2>1, <2>3, Dropping
  <2>5. IsSequence(more)
    <3>1. k \in 0 .. Len(p) BY <1>1
    <3> HIDE DEF p, tail
    <3>2. IsSequence(Later(p, k)) BY <1>1, <3>1, LaterUnrolls
    <3>3. IsSequence(Later(p, k) \o tail) BY <1>3, <3>2, JoinsAnyhow
    <3> QED BY <3>3 DEF ChatRest, p, tail
  <2> HIDE DEF more, c
  <2>6. Len(left) > 0 /\ IsSequence(left) BY <1>5, <2>2, <2>4 DEF c
  <2> HIDE DEF left
  <2>7. Len(left \o more) > 0
    <3>1. Len(left \o more) = Len(left) + Len(more) /\ Len(left) \in Nat /\ Len(more) \in Nat
      BY <2>5, <2>6, Joined
    <3> QED BY <2>6, <3>1
  <2>8. left \o more # <<>>
    <3> DEFINE all == left \o more
    <3> HIDE DEF all
    <3>1. Len(all) > 0 BY <2>7 DEF all
    <3>2. all # <<>> BY <3>1
    <3> QED BY <3>2 DEF all
  <2> QED BY <2>8 DEF left, more
<1> HIDE DEF fin, use, tail, p
<1> QED BY <1>4, <1>5 DEF ChatAt, fin, use, tail, p

\* it goes on frame by frame, until its verdict is the one on the whole answer,
LEMMA GoesOnOrAgrees ==
    ASSUME AbsentIsNothing, NEW row, row.engine \in Engines, row.model # Absent,
           NEW intent, NEW answer, AnswerFits(answer, row.engine),
           NEW frames, frames # <<>>, DecoderAt(row, answer, decoder, frames)
    PROVE  LET step == Step(row, intent, Head(frames)) IN
           \/ step.end = Open /\ DecoderAt(row, answer, step.state, Tail(frames))
           \/ /\ step.end # Open
              /\ Agreeing(row, answer, Verdict(step), Whole(row, intent, answer))
<1> DEFINE step == Step(row, intent, Head(frames))
<1>1. CASE row.engine = "anthropic_messages"
  <2>1. step = AnthropicFrame(decoder, Head(frames), row, intent) BY <1>1 DEF Step
  <2>2. Whole(row, intent, answer) = AnthropicDecode(row, intent, AnthropicResponse(answer))
    BY <1>1, WholeAnswers
  <2>3. AnthropicAt(decoder, frames, answer, row) BY <1>1 DEF DecoderAt
  <2> DEFINE next == AnthropicFrame(decoder, Head(frames), row, intent)
  <2>4. AnthropicFollowing(row, intent, answer, next, Tail(frames))
    BY <1>1, <2>3, AnthropicFollows
  <2> HIDE DEF step, next
  <2>5. step = next BY <2>1 DEF next
  <2> QED BY <1>1, <2>2, <2>4, <2>5 DEF AnthropicFollowing, DecoderAt, step
<1>2. CASE row.engine = "openai_responses"
  <2>1. step = ResponsesFrame(decoder, Head(frames), row, intent) BY <1>2 DEF Step
  <2>2. Whole(row, intent, answer) = ResponsesDecode(row, intent, ResponsesResponse(answer, row))
    BY <1>2, WholeAnswers
  <2>3. ResponsesAt(decoder, frames, answer, row) BY <1>2 DEF DecoderAt
  <2> DEFINE next == ResponsesFrame(decoder, Head(frames), row, intent)
  <2>4. Following(row, intent, answer, next, Tail(frames))
    BY <1>2, <2>3, ResponsesFollows
  <2> HIDE DEF step, next
  <2>5. step = next BY <2>1 DEF next
  <2> QED BY <1>2, <2>2, <2>4, <2>5 DEF Following, DecoderAt, step
<1>3. CASE row.engine = "openai_chat"
  <2>1. step = ChatChunk(decoder, Head(frames), row) BY <1>3 DEF Step
  <2>2. Whole(row, intent, answer) = ChatWhole(row, intent, answer)
    BY <1>3, WholeAnswers
  <2>3. ChatAt(decoder, frames, answer, row) BY <1>3 DEF DecoderAt
  <2> DEFINE next == ChatChunk(decoder, Head(frames), row)
  <2>4. ChatFollowing(row, intent, answer, next, Tail(frames))
    BY <1>3, <2>3, ChatFollows
  <2> HIDE DEF step, next
  <2>5. step = next BY <2>1 DEF next
  <2> QED BY <1>3, <2>2, <2>4, <2>5 DEF ChatFollowing, DecoderAt, step
<1>4. CASE row.engine = "gemini_generate"
  <2>1. step = GeminiChunk(decoder, Head(frames), row, intent) BY <1>4 DEF Step
  <2>2. Whole(row, intent, answer) = GeminiDecode(row, intent, GeminiResponse(answer))
    BY <1>4, WholeAnswers
  <2>3. GeminiAt(decoder, frames, answer) BY <1>4 DEF DecoderAt
  <2> DEFINE next == GeminiChunk(decoder, Head(frames), row, intent)
  <2>4. \/ next.end = Open /\ GeminiAt(next.state, Tail(frames), answer)
        \/ /\ next.end # Open
           /\ Agreeing(row, answer, Verdict(next),
                       GeminiDecode(row, intent, GeminiResponse(answer)))
    BY <1>4, <2>3, GeminiFollows DEF AbsentIsNothing
  <2> HIDE DEF step, next
  <2>5. step = next BY <2>1 DEF next
  <2> QED BY <1>4, <2>2, <2>4, <2>5 DEF DecoderAt, step
<1> QED BY <1>1, <1>2, <1>3, <1>4 DEF Engines

\* and agrees when its source is over after its last frame: only a chat stream may
\* be that has not ended before.
LEMMA EndsAgreeing ==
    ASSUME AbsentIsNothing, NEW row, row.engine \in Engines, row.model # Absent,
           NEW intent, NEW answer, AnswerFits(answer, row.engine),
           DecoderAt(row, answer, decoder, <<>>)
    PROVE  LET step == SourceEnd(row, intent) IN
           step.end # Open /\ Agreeing(row, answer, Verdict(step), Whole(row, intent, answer))
<1>1. row.engine # "anthropic_messages"
  <2> SUFFICES ASSUME row.engine = "anthropic_messages" PROVE FALSE OBVIOUS
  <2>1. AnthropicAt(decoder, <<>>, answer, row) BY DEF DecoderAt
  <2> QED BY <2>1, AnthropicFollows
<1>2. row.engine # "openai_responses"
  <2> SUFFICES ASSUME row.engine = "openai_responses" PROVE FALSE OBVIOUS
  <2>1. ResponsesAt(decoder, <<>>, answer, row) BY DEF DecoderAt
  <2> QED BY <2>1, ResponsesFollows
<1>3. row.engine # "gemini_generate"
  <2> SUFFICES ASSUME row.engine = "gemini_generate" PROVE FALSE OBVIOUS
  <2>1. GeminiAt(decoder, <<>>, answer) BY DEF DecoderAt
  <2> QED BY <2>1, GeminiFollows DEF AbsentIsNothing
<1>4. row.engine = "openai_chat" BY <1>1, <1>2, <1>3 DEF Engines
<1>5. ChatAt(decoder, <<>>, answer, row) BY <1>4 DEF DecoderAt
<1>6. HasFinished(decoder, answer, row) /\ decoder.usage = UsedBy(answer)
  BY <1>4, <1>5, ChatReadThrough
<1> DEFINE step == ChatEnd(decoder, row, intent)
<1>7. step.end # Open /\ Agreeing(row, answer, Verdict(step), ChatWhole(row, intent, answer))
  BY <1>4, <1>6, ChatConcludes
<1>8. Whole(row, intent, answer) = ChatWhole(row, intent, answer) BY <1>4, WholeAnswers
<1>9. SourceEnd(row, intent) = step BY <1>4 DEF SourceEnd
<1> HIDE DEF step
<1> QED BY <1>7, <1>8, <1>9

\* What an answer is depends neither on the version of the row nor on its other
\* fields, but for these three.
LEMMA RowsAlike ==
    ASSUME NEW r, NEW row, r.engine = row.engine, r.model = row.model, r.codec = row.codec,
           row.engine \in Engines, NEW intent, NEW state, NEW answer
    PROVE  /\ Whole(r, intent, answer) = Whole(row, intent, answer)
           /\ \A outcome : SealedBy(r, intent, state, outcome) = SealedBy(row, intent, state, outcome)
           /\ \A said : ToldFirst(r, answer, said) <=> ToldFirst(row, answer, said)
<1>1. \A blocks : Artifact(r, intent, blocks) = Artifact(row, intent, blocks) BY DEF Artifact
<1>2. \A text, tools, blocks, meta :
        Answer(r, intent, text, tools, blocks, meta) = Answer(row, intent, text, tools, blocks, meta)
  BY <1>1 DEF Answer
<1>3. \A response : AnthropicDecode(r, intent, response) = AnthropicDecode(row, intent, response)
  BY <1>2 DEF AnthropicDecode
<1>4. \A usage : ResponsesMeta(r, usage) = ResponsesMeta(row, usage) BY DEF ResponsesMeta
<1>5. \A response : ResponsesDecode(r, intent, response) = ResponsesDecode(row, intent, response)
  BY <1>2, <1>4 DEF ResponsesDecode
<1>6. ResponsesResponse(answer, r) = ResponsesResponse(answer, row) BY DEF ResponsesResponse
<1>7. ChatWhole(r, intent, answer) = ChatWhole(row, intent, answer)
  <2>1. \A raw : ChatMeta(r, raw) = ChatMeta(row, raw) BY DEF ChatMeta
  <2>2. \A blocks : ChatContinuation(r, intent, blocks) = ChatContinuation(row, intent, blocks)
    BY <1>1 DEF ChatContinuation
  <2>3. \A completion : ChatDecode(r, intent, completion) = ChatDecode(row, intent, completion)
    BY <2>1, <2>2 DEF ChatDecode
  <2>4. ChatCompletion(answer, r) = ChatCompletion(answer, row) BY DEF ChatCompletion
  <2> QED BY <2>3, <2>4 DEF ChatWhole
<1>8. \A response : GeminiDecode(r, intent, response) = GeminiDecode(row, intent, response)
  <2>1. \A parts : GeminiContinuation(r, intent, parts) = GeminiContinuation(row, intent, parts)
    BY <1>1 DEF GeminiContinuation
  <2>2. \A parts, meta : GeminiStop(r, intent, parts, meta) = GeminiStop(row, intent, parts, meta)
    BY <2>1 DEF GeminiStop
  <2> QED BY <2>2 DEF GeminiDecode
<1>9. Whole(r, intent, answer) = Whole(row, intent, answer)
  BY <1>3, <1>5, <1>6, <1>7, <1>8, WholeAnswers DEF Engines
<1>10. \A payload : Sealed(r, intent, payload) = Sealed(row, intent, payload) BY DEF Sealed
<1>11. \A outcome : SealGeneration(r, intent, state, outcome) = SealGeneration(row, intent, state, outcome)
  <2> TAKE outcome
  <2> DEFINE content == outcome.content
             native == outcome.continuation
             grown == GrownBy(state, content, native.blocks)
             Made(x) == IF content.tools = <<>> THEN Success(content, Absent, outcome.meta)
                        ELSE IF native = Absent THEN InvalidRequest
                        ELSE IF native.target # intent.target \/ native.codec # x.codec
                        THEN InvalidRequest
                        ELSE IF ~ EncodeContinuation(Sealed(x, intent, grown)) THEN TooLarge
                        ELSE Success(content, Sealed(x, intent, grown), outcome.meta)
  <2>1. \A x : SealGeneration(x, intent, state, outcome) = Made(x)
    BY DEF SealGeneration, GrownBy, TurnOf
  <2> HIDE DEF grown
  <2>2. Made(r) = Made(row) BY <1>10
  <2> QED BY <2>1, <2>2
<1>12. \A outcome : SealedBy(r, intent, state, outcome) = SealedBy(row, intent, state, outcome)
  BY <1>11 DEF SealedBy, SealOutcome
<1>13. CallsFit(r, answer) <=> CallsFit(row, answer) BY DEF CallsFit
<1>14. \A said : ToldFirst(r, answer, said) <=> ToldFirst(row, answer, said)
  BY <1>13 DEF ToldFirst
<1> QED BY <1>9, <1>12, <1>14

\* While a stream is read that nothing has broken, its decoder stands in the
\* frames of the answer, and when it is over it agrees.
Agrees(row, said) ==
    LET whole == SealedBy(row, call.intent, call.state, Whole(row, call.intent, call.answer))
    IN Meaning(said) = Meaning(whole) \/ ToldFirst(row, call.answer, Meaning(said))
AgreeInv ==
    /\ TurnsInv
    /\ phase = "streaming" /\ call.fault = "none" =>
         /\ call.answer \in Answers[vendor]
         /\ DecoderAt(Row, call.answer, decoder, rest)
    /\ StreamAgreesWithGenerate

Streamed ==
    /\ phase = "done" /\ call # NoCall /\ call.streaming
    /\ call.answer # Absent /\ call.fault = "none"

LEMMA AgreementIs ==
    /\ StreamAgreesWithGenerate <=> (Streamed => Agrees(Row, result))
    /\ StreamAgreesWithGenerate' <=> (Streamed => Agrees(Row, result))'
<1>1. StreamAgreesWithGenerate <=> (Streamed => Agrees(Row, result))
  BY DEF StreamAgreesWithGenerate, Agrees, SealedBy, Whole, Streamed
<1>2. StreamAgreesWithGenerate' <=> (Streamed => Agrees(Row, result))'
  BY DEF StreamAgreesWithGenerate, Agrees, SealedBy, Whole, Streamed
<1> QED BY <1>1, <1>2

LEMMA RowKeeps ==
    ASSUME RowsFit, AnswersFit, vendor \in DOMAIN Rows
    PROVE  /\ Row.model # Absent /\ Row.engine = Rows[vendor].engine
           /\ Row.model = Rows[vendor].model /\ Row.codec = Rows[vendor].codec
           /\ \A answer \in Answers[vendor] : AnswerFits(answer, Row.engine)
<1>1. /\ {"engine", "version", "model", "codec"} \subseteq DOMAIN Rows[vendor]
      /\ Rows[vendor].model # Absent
  BY DEF RowsFit
<1>2. /\ Row.engine = Rows[vendor].engine
      /\ Row.model = Rows[vendor].model /\ Row.codec = Rows[vendor].codec
  BY <1>1 DEF Row
<1>3. \A answer \in Answers[vendor] : AnswerFits(answer, Rows[vendor].engine) BY DEF AnswersFit
<1> QED BY <1>1, <1>2, <1>3

\* Every step of a conversation keeps that.
LEMMA AgreeSteps ==
    ASSUME AbsentIsNothing, RowsFit, AnswersFit, EngineInv, AgreeInv, [Next]_vars
    PROVE  AgreeInv'
<1> DEFINE row == Row
<1>1. /\ vendor \in DOMAIN Rows /\ row.engine \in Engines /\ row.model # Absent
      /\ \A answer \in Answers[vendor] : AnswerFits(answer, row.engine)
  BY RowFits, RowKeeps DEF EngineInv
\* A call that is not streamed, or that something broke, has nothing to agree with.
<1>2. TurnsInv' /\ TurnsInv BY TurnsStep DEF AgreeInv
<1>3. ASSUME phase' # "streaming",
             \/ phase' # "done"
             \/ call' = NoCall \/ ~ call'.streaming \/ call'.fault # "none"
      PROVE  AgreeInv'
  BY <1>3, <1>2 DEF AgreeInv, StreamAgreesWithGenerate
<1>4. ASSUME NEW prepared, NEW streaming, Dispatch(prepared, streaming) PROVE AgreeInv'
  <2>1. CASE phase' = "done"
    <3>1. call' = NoCall BY <1>4, <2>1 DEF Dispatch
    <3> QED BY <1>3, <2>1, <3>1
  <2>2. CASE phase' # "done"
    <3>1. phase' = "ready" BY <1>4, <2>2 DEF Dispatch
    <3> QED BY <1>3, <3>1
  <2> QED BY <2>1, <2>2
<1>5. CASE Begin BY <1>4, <1>5 DEF Begin
<1>6. CASE Continue BY <1>4, <1>6 DEF Continue
<1>7. CASE Redefine
  <2>1. /\ phase = "done" /\ phase' = "done"
        /\ UNCHANGED <<vendor, call, result>>
    BY <1>7 DEF Redefine
  <2> DEFINE r == Row'
  <2>2. r = [Rows[vendor] EXCEPT !.version = version'] BY <2>1 DEF Row
  <2>3. r.engine = row.engine /\ r.model = row.model /\ r.codec = row.codec
    <3>1. {"engine", "version", "model", "codec"} \subseteq DOMAIN Rows[vendor]
      BY <1>1 DEF RowsFit
    <3> QED BY <2>2, <3>1 DEF Row
  <2> HIDE DEF r, row
  <2>4. SUFFICES ASSUME call # NoCall, call.streaming, call.answer # Absent,
                        call.fault = "none"
                 PROVE  Agrees(r, result)
    <3>1. Agrees(Row, result)' <=> Agrees(r, result) BY <2>1 DEF Agrees, r
    <3>2. Streamed' <=> Streamed BY <2>1 DEF Streamed
    <3>3. StreamAgreesWithGenerate'
      BY <2>4, <3>1, <3>2, AgreementIs DEF Streamed, r
    <3> QED BY <1>2, <2>1, <3>3 DEF AgreeInv
  <2>5. Agrees(row, result) BY <2>1, <2>3, <2>4, AgreementIs DEF AgreeInv, Streamed, row
  <2>6. row.engine \in Engines BY <1>1 DEF row
  <2> QED BY <2>3, <2>5, <2>6, RowsAlike DEF Agrees
<1>8. CASE AnswerWhole
  <2>1. phase = "ready" /\ ~ call.streaming /\ phase' = "done" BY <1>8 DEF AnswerWhole, Settle
  <2>2. PICK reply : call' = Replied(reply) BY <1>8 DEF AnswerWhole
  <2>3. CallKeys \subseteq DOMAIN call BY <1>2, <2>1 DEF TurnsInv, CallInv
  <2>4. ~ call'.streaming BY <2>1, <2>2, <2>3 DEF Replied, CallKeys
  <2> QED BY <1>3, <2>1, <2>4
\* What follows of a step of the decoder.
<1>9. ASSUME NEW step, Advance(step), UNCHANGED <<vendor, version>>,
             IsSequence(events), Turned(call.state),
             step.end = Returned => IsSequence(step.events) /\ Len(step.events) > 0,
             call'.fault = "none" =>
               /\ call'.answer \in Answers[vendor]
               /\ \/ step.end = Open /\ DecoderAt(row, call'.answer, step.state, rest')
                  \/ /\ step.end # Open
                     /\ call'.intent = call.intent /\ call'.state = call.state
                     /\ Agreeing(row, call'.answer, Verdict(step),
                                 Whole(row, call.intent, call'.answer))
      PROVE  AgreeInv'
  <2>1. Row' = row BY <1>9 DEF Row
  <2>2. decoder' = step.state /\ events' = events \o step.events BY <1>9 DEF Advance
  <2> HIDE DEF row
  <2>3. CASE call'.fault # "none"
    <3>1. phase' \in {"streaming", "done"} BY <1>9 DEF Advance, Settle
    <3> QED BY <1>2, <2>3, <3>1 DEF AgreeInv, StreamAgreesWithGenerate
  <2>4. CASE call'.fault = "none" /\ step.end = Open
    <3>1. phase' = "streaming" BY <1>9, <2>4 DEF Advance
    <3>2. call'.answer \in Answers[vendor] /\ DecoderAt(row, call'.answer, step.state, rest')
      BY <1>9, <2>4
    <3>3. vendor' = vendor BY <1>9
    <3>4. DecoderAt(Row', call'.answer, decoder', rest') BY <2>1, <2>2, <3>2
    <3>5. StreamAgreesWithGenerate' BY <3>1 DEF StreamAgreesWithGenerate
    <3> QED BY <1>2, <3>1, <3>2, <3>3, <3>4, <3>5 DEF AgreeInv
  <2>5. CASE call'.fault = "none" /\ step.end # Open
    <3> DEFINE verdict == IF step.end = Returned THEN Last(events').outcome ELSE step.end
               said == result'
    <3>1. verdict = Verdict(step)
      <4>1. step.end = Returned => Last(events') = Last(step.events) BY <1>9, <2>2, LastJoined
      <4> QED BY <4>1 DEF Verdict
    <3>2. phase' = "done" /\ said = SealedBy(row, call.intent, call.state, verdict)
      BY <1>9, <2>5 DEF Advance, Settle, SealedBy, row
    <3> HIDE DEF verdict, said
    <3>3. /\ call'.intent = call.intent /\ call'.state = call.state
          /\ Agreeing(row, call'.answer, verdict, Whole(row, call.intent, call'.answer))
      BY <1>9, <2>5, <3>1
    <3>4. \/ Meaning(said)
               = Meaning(SealedBy(row, call.intent, call.state, Whole(row, call.intent, call'.answer)))
          \/ ToldFirst(row, call'.answer, Meaning(said))
      BY <1>9, <3>2, <3>3, SealingAgrees
    <3>5. Agrees(Row, result)' BY <2>1, <3>3, <3>4 DEF Agrees, said
    <3>6. StreamAgreesWithGenerate' BY <3>5, AgreementIs
    <3> QED BY <1>2, <3>2, <3>6 DEF AgreeInv
  <2> QED BY <2>3, <2>4, <2>5
<1>10. CASE OpenStream
  <2>1. PICK reply \in {r \in Replies : r.kind # "malformed"} :
          /\ call' = Replied(reply)
          /\ rest' = IF reply.kind = "answer" THEN Frames(row, reply.answer) ELSE <<>>
          /\ Advance(Opening(row, reply))
    BY <1>10 DEF OpenStream
  <2>2. phase = "ready" /\ UNCHANGED <<vendor, version>> BY <1>10 DEF OpenStream
  <2> DEFINE step == Opening(row, reply)
  <2>3. Opened(row, step) BY <1>1, OpeningFits
  <2>4. CallKeys \subseteq DOMAIN call /\ events = <<>> BY <1>2, <2>2 DEF TurnsInv, CallInv, EngineInv
  <2>5. Turned(call.state) BY <1>2, <2>2 DEF TurnsInv
  <2>6. ASSUME call'.fault = "none"
        PROVE  /\ call'.answer \in Answers[vendor]
               /\ step.end = Open /\ DecoderAt(row, call'.answer, step.state, rest')
    <3>1. reply.kind = "answer"
      <4>1. reply.kind # "none" BY <2>1 DEF Replies
      <4> QED BY <2>1, <2>4, <2>6, <4>1 DEF Replied, CallKeys
    <3>2. call'.answer = reply.answer /\ rest' = Frames(row, reply.answer)
      BY <2>1, <2>4, <3>1 DEF Replied, CallKeys
    <3>3. reply.answer \in Answers[vendor] BY <2>1, <3>1 DEF Replies, Possible
    <3>4. AnswerFits(reply.answer, row.engine) BY <1>1, <3>3
    <3> HIDE DEF row
    <3>5. step.end = Open /\ DecoderAt(row, reply.answer, step.state, Frames(row, reply.answer))
      BY <1>1, <2>6, <3>1, <3>4, OpensAtFirst
    <3> QED BY <3>2, <3>3, <3>5
  <2>7. Advance(step) BY <2>1
  <2> HIDE DEF step, row
  <2>8. step.end = Returned => IsSequence(step.events) /\ Len(step.events) > 0
    <3>1. \A e : IsSequence(<<e>>) /\ Len(<<e>>) > 0 BY DEF IsSequence
    <3>2. ~ IsError(Returned) \/ Returned.error = "returned" BY DEF Returned
    <3> QED BY <2>3, <3>1, <3>2 DEF Opened, NeverAnswered, Open, Returned
  <2>9. IsSequence(events) BY <2>4 DEF IsSequence
  <2> QED BY <1>9, <2>2, <2>5, <2>6, <2>7, <2>8, <2>9
<1>11. ASSUME phase = "streaming"
       PROVE  /\ CallKeys \subseteq DOMAIN call /\ IsSequence(events) /\ Turned(call.state)
              /\ call.fault = "none" =>
                   /\ call.answer \in Answers[vendor]
                   /\ DecoderAt(row, call.answer, decoder, rest)
  BY <1>11, <1>2 DEF AgreeInv, TurnsInv, CallInv, EngineInv, Begun
<1>12. ASSUME NEW step, NEW shown, StepFits(row, step, shown), step.end = Returned
       PROVE  IsSequence(step.events) /\ Len(step.events) > 0
  <2>1. ~ GoesOn(step, shown) /\ ~ Breaks(step, shown)
    BY <1>12 DEF GoesOn, Breaks, Truly, Open, Returned
  <2> QED BY <1>12, <2>1 DEF StepFits, Fulfils, Finishes
<1>13. CASE Deliver
  <2> DEFINE step == Step(row, call.intent, Head(rest))
  <2>1. /\ phase = "streaming" /\ rest # <<>> /\ Advance(step) /\ rest' = Tail(rest)
        /\ UNCHANGED <<vendor, version, call>>
    BY <1>13 DEF Deliver
  <2>2. FrameFits(row, Head(rest))
    <3>1. IsSequence(rest) /\ \A i \in DOMAIN rest : FrameFits(row, rest[i])
      BY <2>1 DEF EngineInv, FramesFit
    <3>2. Head(rest) = rest[1] /\ 1 \in DOMAIN rest BY <2>1, <3>1 DEF IsSequence
    <3> QED BY <3>1, <3>2
  <2>3. Tells(decoder, Len(events) > 1) /\ DecoderFits(row, decoder)
    BY <2>1 DEF EngineInv
  <2> HIDE DEF row
  <2>4. StepFits(row, step, Len(events) > 1) BY <1>1, <2>2, <2>3, StepsFit
  <2>5. ASSUME call.fault = "none"
        PROVE  /\ call.answer \in Answers[vendor]
               /\ \/ step.end = Open /\ DecoderAt(row, call.answer, step.state, Tail(rest))
                  \/ /\ step.end # Open
                     /\ Agreeing(row, call.answer, Verdict(step),
                                 Whole(row, call.intent, call.answer))
    <3>1. call.answer \in Answers[vendor] /\ DecoderAt(row, call.answer, decoder, rest)
      BY <1>11, <2>1, <2>5
    <3>2. AnswerFits(call.answer, row.engine) BY <1>1, <3>1
    <3> QED BY <1>1, <2>1, <3>1, <3>2, GoesOnOrAgrees
  <2> HIDE DEF step
  <2>6. step.end = Returned => IsSequence(step.events) /\ Len(step.events) > 0
    BY <1>12, <2>4
  <2> QED BY <1>9, <1>11, <2>1, <2>5, <2>6
<1>14. CASE End
  <2> DEFINE step == SourceEnd(row, call.intent)
  <2>1. /\ phase = "streaming" /\ Advance(step) /\ UNCHANGED <<vendor, version, rest>>
        /\ call' = IF rest = <<>> THEN call ELSE [call EXCEPT !.fault = "cut"]
    BY <1>14 DEF End
  <2>2. Tells(decoder, Len(events) > 1) /\ DecoderFits(row, decoder)
    BY <2>1 DEF EngineInv
  <2> HIDE DEF row
  <2>3. StepFits(row, step, Len(events) > 1) BY <1>1, <2>2, SourceEndFits
  <2>4. ASSUME call'.fault = "none"
        PROVE  /\ call' = call /\ call.answer \in Answers[vendor] /\ step.end # Open
               /\ Agreeing(row, call.answer, Verdict(step), Whole(row, call.intent, call.answer))
    <3>1. rest = <<>> /\ call' = call BY <1>11, <2>1, <2>4 DEF CallKeys
    <3>2. call.answer \in Answers[vendor] /\ DecoderAt(row, call.answer, decoder, rest)
      BY <1>11, <2>1, <2>4, <3>1
    <3>3. AnswerFits(call.answer, row.engine) BY <1>1, <3>2
    <3> QED BY <1>1, <3>1, <3>2, <3>3, EndsAgreeing
  <2> HIDE DEF step
  <2>6. step.end = Returned => IsSequence(step.events) /\ Len(step.events) > 0
    BY <1>12, <2>3
  <2> QED BY <1>9, <1>11, <2>1, <2>4, <2>6
<1>15. CASE Fail
  <2>1. PICK failure \in Failures :
          /\ Advance(Raises(decoder, Fails(row, failure)))
          /\ call' = [call EXCEPT !.fault = failure.kind]
    BY <1>15 DEF Fail
  <2>2. phase = "streaming" /\ UNCHANGED <<vendor, version, rest>> BY <1>15 DEF Fail
  <2>3. failure.kind \in {"transport", "inband", "malformed"} BY <2>1 DEF Failures
  <2> DEFINE step == Raises(decoder, Fails(row, failure))
  <2>4. Tells(decoder, Len(events) > 1) /\ DecoderFits(row, decoder)
    BY <2>2 DEF EngineInv
  <2> HIDE DEF row
  <2>5. StepFits(row, step, Len(events) > 1) BY <1>1, <2>3, <2>4, FailuresFit
  <2>6. call'.fault # "none"
    BY <1>11, <2>1, <2>2, <2>3 DEF CallKeys
  <2>7. Advance(step) BY <2>1
  <2> HIDE DEF step
  <2>8. step.end = Returned => IsSequence(step.events) /\ Len(step.events) > 0
    BY <1>12, <2>5
  <2> QED BY <1>9, <1>11, <2>2, <2>6, <2>7, <2>8
<1>16. CASE UNCHANGED vars
  <2>1. UNCHANGED <<vendor, version, phase, call, rest, decoder, result>> BY <1>16 DEF vars
  <2>2. Row' = Row BY <2>1 DEF Row
  <2>3. StreamAgreesWithGenerate' <=> StreamAgreesWithGenerate
    BY <2>1, <2>2 DEF StreamAgreesWithGenerate
  <2> QED BY <1>2, <2>1, <2>2, <2>3 DEF AgreeInv
<1> QED
  BY <1>5, <1>6, <1>7, <1>8, <1>10, <1>13, <1>14, <1>15, <1>16 DEF Next

\* An answer that is streamed ends in the outcome that it has when it comes whole,
\* whichever the protocol, however it was cut into frames and whatever it holds: the
\* same content, usage, billability and transcript to continue from, or the same
\* failure; but for what the stream tells first (generate and stream of the four
\* engines, and _seal_outcome of runtime.py).
THEOREM StreamsMeanTheWhole ==
    ASSUME AbsentIsNothing
    PROVE  Spec => []StreamAgreesWithGenerate
<1>1. Init => EngineInv /\ AgreeInv
  <2>1. Init => phase = "idle" /\ held = Absent BY DEF Init
  <2>2. Init => AgreeInv
    BY <2>1 DEF AgreeInv, TurnsInv, CallInv, StreamAgreesWithGenerate
  <2> QED BY <2>2, EngineInit
<1>2. EngineInv /\ AgreeInv /\ [Next]_vars => EngineInv' /\ AgreeInv'
  BY EngineSteps, AgreeSteps, RegistryAssumption
<1>3. AgreeInv => StreamAgreesWithGenerate BY DEF AgreeInv
<1> QED BY <1>1, <1>2, <1>3, PTL DEF Spec

=============================================================================
