----------------------------- MODULE TextsProofs -----------------------------
(***************************************************************************)
(* What Joined and Split do to every list of names and every text.         *)
(*                                                                         *)
(* The induction is over sets: the set of the lengths, or of the           *)
(* sequences, for which a fact holds contains the first and with each the  *)
(* next, so it contains all.  It rests on the well-founded order of the    *)
(* natural numbers.                                                        *)
(***************************************************************************)
EXTENDS Texts, SequenceTheorems, WellFoundedInduction, TLAPS

(***************************************************************************)
(* Induction over numbers and over sequences.                              *)
(***************************************************************************)
Less == {p \in Nat \X Nat : p[1] < p[2]}

LEMMA LessWellFounded == IsWellFoundedOn(Less, Nat)
  BY NatLessThanWellFounded DEF OpToRel, Less

\* A set with 0 and, with each number, the next one has all numbers.
LEMMA NumbersByInduction ==
    ASSUME NEW T, 0 \in T, \A n \in Nat : n \in T => n + 1 \in T
    PROVE  Nat \subseteq T
<1> SUFFICES ASSUME Nat \ T # {} PROVE FALSE
  OBVIOUS
<1> DEFINE U == Nat \ T
<1>1. PICK x \in U : \A y \in U : <<y, x>> \notin Less
  <2>1. U \subseteq Nat /\ U # {}
    OBVIOUS
  <2> HIDE DEF U
  <2> QED
    BY <2>1, LessWellFounded, WFMin
<1>2. x # 0 /\ x \in Nat
  OBVIOUS
<1>3. x - 1 \in Nat /\ x - 1 \in T
  <2>1. <<x - 1, x>> \in Nat \X Nat /\ x - 1 < x
    BY <1>2
  <2>2. <<x - 1, x>> \in Less
    BY <2>1 DEF Less
  <2> QED
    BY <1>1, <1>2, <2>2
<1> QED
  BY <1>2, <1>3

\* A set with the empty sequence and, with each one, every longer by an element.
LEMMA SequencesByInduction ==
    ASSUME NEW S, NEW T, <<>> \in T,
           \A s \in Seq(S), e \in S : s \in T => Append(s, e) \in T
    PROVE  Seq(S) \subseteq T
<1> DEFINE N == {n \in Nat : \A s \in Seq(S) : Len(s) = n => s \in T}
<1>1. 0 \in N
  <2>1. \A s \in Seq(S) : Len(s) = 0 => s = <<>>
    BY EmptySeq
  <2> QED
    BY <2>1
<1>2. ASSUME NEW n \in Nat, n \in N
      PROVE  n + 1 \in N
  <2> SUFFICES ASSUME NEW s \in Seq(S), Len(s) = n + 1 PROVE s \in T
    OBVIOUS
  <2>1. s # <<>>
    BY EmptySeq
  <2>2. PICK t \in Seq(S), e \in S : s = Append(t, e)
    BY <2>1, SequenceEmptyOrAppend
  <2>3. Len(t) = n
    BY <2>2, AppendProperties, LenProperties
  <2> QED
    BY <1>2, <2>2, <2>3
<1>3. Nat \subseteq N
  <2> HIDE DEF N
  <2> QED
    BY <1>1, <1>2, NumbersByInduction
<1> QED
  BY <1>3, LenProperties

-----------------------------------------------------------------------------
(***************************************************************************)
(* Joined.                                                                 *)
(***************************************************************************)

\* The recursion of FlattenSeq, for the first n of the names.
Flattens(g, names, n) ==
    g = [i \in 1..n |-> IF i = 1 THEN names[i] ELSE g[i - 1] \o names[i]]

LEMMA FlattensAt ==
    ASSUME NEW names, NEW n \in Nat, NEW g, Flattens(g, names, n), NEW i \in 1..n
    PROVE  g[i] = IF i = 1 THEN names[i] ELSE g[i - 1] \o names[i]
<1> DEFINE F == [j \in 1..n |-> IF j = 1 THEN names[j] ELSE g[j - 1] \o names[j]]
<1>1. g = F
  BY DEF Flattens
<1>2. F[i] = IF i = 1 THEN names[i] ELSE g[i - 1] \o names[i]
  OBVIOUS
<1> HIDE DEF F
<1> QED
  BY <1>1, <1>2

LEMMA FlattensExist ==
    ASSUME NEW names, NEW m \in Nat
    PROVE  \E g : Flattens(g, names, m)
<1> DEFINE N == {n \in Nat : \E g : Flattens(g, names, n)}
<1>1. 0 \in N
  <2>1. Flattens(<<>>, names, 0)
    BY DEF Flattens
  <2> QED
    BY <2>1
<1>2. ASSUME NEW n \in Nat, n \in N
      PROVE  n + 1 \in N
  <2>1. PICK g : Flattens(g, names, n)
    BY <1>2
  <2> DEFINE h == [i \in 1..n + 1 |->
                      IF i = n + 1 THEN IF i = 1 THEN names[i] ELSE g[i - 1] \o names[i]
                      ELSE g[i]]
  <2>2. ASSUME NEW i \in 1..n + 1
        PROVE  h[i] = IF i = 1 THEN names[i] ELSE h[i - 1] \o names[i]
    <3>1. CASE i = n + 1
      BY <3>1
    <3>2. CASE i # n + 1
      <4>1. i \in 1..n /\ h[i] = g[i]
        BY <3>2
      <4>2. g[i] = IF i = 1 THEN names[i] ELSE g[i - 1] \o names[i]
        BY <2>1, <4>1, FlattensAt
      <4>3. i # 1 => i - 1 \in 1..n /\ i - 1 # n + 1
        BY <4>1
      <4>4. i # 1 => h[i - 1] = g[i - 1]
        BY <4>3
      <4> QED
        BY <4>1, <4>2, <4>4
    <3> QED
      BY <3>1, <3>2
  <2>3. h = [i \in 1..n + 1 |-> IF i = 1 THEN names[i] ELSE h[i - 1] \o names[i]]
    BY <2>2
  <2> HIDE DEF h
  <2>4. Flattens(h, names, n + 1)
    BY <2>3 DEF Flattens
  <2> QED
    BY <2>4
<1>3. Nat \subseteq N
  <2> HIDE DEF N
  <2> QED
    BY <1>1, <1>2, NumbersByInduction
<1> QED
  BY <1>3

LEMMA JoinedFlattens ==
    ASSUME NEW S, NEW names \in Seq(S)
    PROVE  /\ names = <<>> => Joined(names) = <<>>
           /\ names # <<>> => \E g : /\ Flattens(g, names, Len(names))
                                     /\ Joined(names) = g[Len(names)]
<1>1. Len(names) \in Nat /\ (names = <<>> <=> Len(names) = 0)
  BY LenProperties, EmptySeq
<1>2. CASE names = <<>>
  BY <1>1, <1>2 DEF Joined, FlattenSeq
<1>3. CASE names # <<>>
  <2> DEFINE g == CHOOSE g : g = [i \in 1..Len(names) |->
                         IF i = 1 THEN names[i] ELSE g[i - 1] \o names[i]]
  <2>1. Joined(names) = g[Len(names)]
    BY <1>1, <1>3 DEF Joined, FlattenSeq
  <2>2. Flattens(g, names, Len(names))
    BY <1>1, FlattensExist DEF Flattens
  <2> QED
    BY <1>3, <2>1, <2>2
<1> QED
  BY <1>2, <1>3

\* One recursion only: two that agree on the names agree.
LEMMA FlattensAgree ==
    ASSUME NEW names, NEW others, NEW n \in Nat, NEW m \in Nat, n <= m,
           \A i \in 1..n : names[i] = others[i],
           NEW g, Flattens(g, names, n), NEW h, Flattens(h, others, m)
    PROVE  \A i \in 1..n : g[i] = h[i]
<1> DEFINE N == {k \in Nat : k \in 1..n => g[k] = h[k]}
<1>1. 0 \in N
  OBVIOUS
<1>2. ASSUME NEW k \in Nat, k \in N
      PROVE  k + 1 \in N
  <2> SUFFICES ASSUME k + 1 \in 1..n PROVE g[k + 1] = h[k + 1]
    OBVIOUS
  <2>1. k + 1 \in 1..m /\ names[k + 1] = others[k + 1]
    OBVIOUS
  <2>2. /\ g[k + 1] = IF k + 1 = 1 THEN names[k + 1] ELSE g[k + 1 - 1] \o names[k + 1]
        /\ h[k + 1] = IF k + 1 = 1 THEN others[k + 1] ELSE h[k + 1 - 1] \o others[k + 1]
    BY <2>1, FlattensAt
  <2>3. k + 1 # 1 => g[k + 1 - 1] = h[k + 1 - 1]
    BY <1>2
  <2> QED
    BY <2>1, <2>2, <2>3
<1>3. Nat \subseteq N
  <2> HIDE DEF N
  <2> QED
    BY <1>1, <1>2, NumbersByInduction
<1> QED
  BY <1>3

\* componentsJoinedByString: of one name more.
LEMMA JoinedAppend ==
    ASSUME NEW S, NEW names \in Seq(S), NEW name \in S
    PROVE  Joined(Append(names, name)) = IF names = <<>> THEN name
                                         ELSE Joined(names) \o name
<1> DEFINE n    == Len(names)
           more == Append(names, name)
<1>1. /\ n \in Nat /\ (names = <<>> <=> n = 0)
      /\ more \in Seq(S) /\ more # <<>> /\ Len(more) = n + 1
      /\ \A i \in 1..n : names[i] = more[i]
      /\ more[n + 1] = name
  BY LenProperties, EmptySeq, AppendProperties
<1> HIDE DEF n, more
<1>2. PICK h : Flattens(h, more, n + 1) /\ Joined(more) = h[n + 1]
  BY <1>1, JoinedFlattens
<1>3. h[n + 1] = IF n + 1 = 1 THEN more[n + 1] ELSE h[n + 1 - 1] \o more[n + 1]
  BY <1>1, <1>2, FlattensAt
<1>4. CASE names = <<>>
  BY <1>1, <1>2, <1>3, <1>4 DEF more
<1>5. CASE names # <<>>
  <2>1. PICK g : Flattens(g, names, n) /\ Joined(names) = g[n]
    BY <1>5, JoinedFlattens DEF n
  <2>2. g[n] = h[n]
    <3>1. n + 1 \in Nat /\ n <= n + 1 /\ n \in 1..n
      BY <1>1, <1>5
    <3> QED
      BY <1>1, <1>2, <2>1, <3>1, FlattensAgree
  <2>3. n + 1 # 1 /\ n + 1 - 1 = n
    BY <1>1, <1>5
  <2> QED
    BY <1>1, <1>2, <1>3, <1>5, <2>1, <2>2, <2>3 DEF more
<1> QED
  BY <1>4, <1>5

\* The same for texts: the list of no names joined is the empty text.
LEMMA JoinedLonger ==
    ASSUME NEW S, NEW names \in Seq(Seq(S)), NEW name \in Seq(S)
    PROVE  Joined(Append(names, name)) = Joined(names) \o name
<1>1. CASE names = <<>>
  <2>1. Joined(names) = <<>>
    BY <1>1, JoinedFlattens
  <2> QED
    BY <1>1, <2>1, JoinedAppend, ConcatEmptySeq
<1>2. CASE names # <<>>
  BY <1>2, JoinedAppend
<1> QED
  BY <1>1, <1>2

\* The pieces of the names of a list.
PiecesOfEach(names) == UNION {ToSet(names[i]) : i \in 1..Len(names)}

LEMMA PieceOfOne ==
    ASSUME NEW names, NEW x
    PROVE  x \in PiecesOfEach(names) <=> \E i \in 1..Len(names) : x \in ToSet(names[i])
  BY DEF PiecesOfEach

\* A list of texts joined is a text, with the pieces of each and no others.
LEMMA JoinedPieces ==
    ASSUME NEW S, NEW names \in Seq(Seq(S))
    PROVE  /\ Joined(names) \in Seq(S)
           /\ ToSet(Joined(names)) = PiecesOfEach(names)
<1> DEFINE Fits(s) == /\ Joined(s) \in Seq(S)
                      /\ ToSet(Joined(s)) = PiecesOfEach(s)
           T == {s \in Seq(Seq(S)) : Fits(s)}
<1>1. <<>> \in T
  <2>1. Joined(<<>>) = <<>> /\ <<>> \in Seq(S) /\ <<>> \in Seq(Seq(S)) /\ Len(<<>>) = 0
    BY JoinedFlattens, EmptySeq
  <2>2. ToSet(<<>>) = {} /\ PiecesOfEach(<<>>) = {}
    BY <2>1, LenProperties DEF ToSet, PiecesOfEach
  <2> QED
    BY <2>1, <2>2
<1>2. ASSUME NEW s \in Seq(Seq(S)), NEW e \in Seq(S), s \in T
      PROVE  Append(s, e) \in T
  <2> DEFINE t == Append(s, e)
  <2>1. /\ t \in Seq(Seq(S)) /\ Len(t) = Len(s) + 1 /\ Len(s) \in Nat
        /\ \A i \in 1..Len(s) : t[i] = s[i]
        /\ t[Len(s) + 1] = e
    BY AppendProperties, LenProperties
  <2>2. Joined(t) = Joined(s) \o e
    BY JoinedLonger
  <2>3. Joined(t) \in Seq(S) /\ Range(Joined(t)) = Range(Joined(s)) \cup Range(e)
    BY <1>2, <2>2, ConcatProperties, RangeConcatenation
  <2>4. ToSet(Joined(t)) = ToSet(Joined(s)) \cup ToSet(e)
    BY <2>3 DEF Range, ToSet
  <2> HIDE DEF t
  <2>5. PiecesOfEach(t) = PiecesOfEach(s) \cup ToSet(e)
    <3>1. 1..Len(t) = 1..Len(s) \cup {Len(s) + 1}
      BY <2>1
    <3>2. ASSUME NEW x
          PROVE  x \in PiecesOfEach(t) <=> x \in PiecesOfEach(s) \cup ToSet(e)
      BY <2>1, <3>1, PieceOfOne
    <3> QED
      BY <3>2
  <2>6. ToSet(Joined(s)) = PiecesOfEach(s)
    BY <1>2
  <2>7. Fits(t)
    BY <2>3, <2>4, <2>5, <2>6
  <2> QED
    BY <2>1, <2>7 DEF t
<1>3. Seq(Seq(S)) \subseteq T
  <2> HIDE DEF T
  <2> QED
    BY <1>1, <1>2, SequencesByInduction
<1> QED
  BY <1>3

LEMMA LeastNumber ==
    ASSUME NEW T, T \subseteq Nat, T # {}
    PROVE  Min(T) \in T /\ \A n \in T : Min(T) <= n
<1>1. PICK m \in T : \A n \in T : <<n, m>> \notin Less
  BY LessWellFounded, WFMin
<1>2. \A n \in T : m <= n
  <2> SUFFICES ASSUME NEW n \in T, n < m PROVE FALSE
    OBVIOUS
  <2>1. <<n, m>> \in Nat \X Nat /\ n < m
    OBVIOUS
  <2> QED
    BY <1>1, <2>1 DEF Less
<1> QED
  BY <1>2 DEF Min

\* SelectInSeq gives the first place of an element, or 0.
Place(s, x) == SelectInSeq(s, LAMBDA n : n = x)

LEMMA FirstPlace ==
    ASSUME NEW S, NEW s \in Seq(S), NEW x
    PROVE  /\ Place(s, x) = 0 => x \notin ToSet(s)
           /\ Place(s, x) # 0 => /\ Place(s, x) \in 1..Len(s) /\ s[Place(s, x)] = x
                                 /\ \A i \in 1..Len(s) : i < Place(s, x) => s[i] # x
<1> DEFINE at == Place(s, x)
           I  == {i \in 1..Len(s) : s[i] = x}
<1> SUFFICES /\ at = 0 => x \notin ToSet(s)
             /\ at # 0 => /\ at \in 1..Len(s) /\ s[at] = x
                         /\ \A i \in 1..Len(s) : i < at => s[i] # x
  OBVIOUS
<1>1. at = IF I # {} THEN Min(I) ELSE 0
  BY DEF SelectInSeq, Place
<1> HIDE DEF at
<1>2. Len(s) \in Nat /\ DOMAIN s = 1..Len(s)
  BY LenProperties
<1>3. CASE I = {}
  BY <1>1, <1>2, <1>3 DEF ToSet
<1>4. CASE I # {}
  <2>1. I \subseteq Nat
    BY <1>2
  <2>2. Min(I) \in I /\ \A n \in I : Min(I) <= n
    <3> HIDE DEF I
    <3> QED
      BY <1>4, <2>1, LeastNumber
  <2>3. at \in I /\ \A n \in I : at <= n
    BY <1>1, <1>4, <2>2
  <2>4. at \in 1..Len(s) /\ s[at] = x
    BY <2>3
  <2>5. \A i \in 1..Len(s) : i < at => s[i] # x
    BY <1>2, <2>3, <2>4
  <2> QED
    BY <1>2, <2>4, <2>5
<1> QED
  BY <1>3, <1>4

LEMMA FrontAndLast ==
    ASSUME NEW S, NEW s \in Seq(S), s # <<>>
    PROVE  /\ Front(s) \in Seq(S) /\ Last(s) \in S /\ s = Append(Front(s), Last(s))
           /\ Len(s) \in Nat \ {0} /\ Last(s) = s[Len(s)]
           /\ Len(Front(s)) = Len(s) - 1
           /\ \A i \in 1..Len(s) - 1 : Front(s)[i] = s[i]
<1>1. PICK t \in Seq(S), e \in S : s = Append(t, e)
  BY SequenceEmptyOrAppend
<1> DEFINE n == Len(s)
<1>2. /\ Len(t) \in Nat /\ n = Len(t) + 1 /\ s[n] = e
      /\ \A i \in 1..Len(t) : s[i] = t[i] /\ t[i] \in S
  BY <1>1, AppendProperties, LenProperties, ElementOfSeq
<1> DEFINE front == SubSeq(s, 1, n - 1)
<1>3. Front(s) = front /\ Last(s) = s[n]
  BY DEF Front, Last
<1> HIDE DEF n
<1>4. \A i \in 1..n - 1 : s[i] \in S
  BY <1>2
<1>5. /\ front \in Seq(S) /\ Len(front) = IF 1 <= n - 1 THEN n - 1 - 1 + 1 ELSE 0
      /\ \A i \in 1..n - 1 - 1 + 1 : front[i] = s[1 + i - 1]
  BY <1>2, <1>4, SubSeqProperties
<1> HIDE DEF front
<1>6. Len(front) = Len(t) /\ \A i \in 1..Len(t) : front[i] = t[i] /\ front[i] = s[i]
  BY <1>2, <1>5
<1>7. front = t
  BY <1>5, <1>6, SeqEqual
<1> QED
  BY <1>1, <1>2, <1>3, <1>5, <1>6, <1>7 DEF n

\* Without the last name the text is no longer.
LEMMA JoinedFront ==
    ASSUME NEW S, NEW names \in Seq(Seq(S)), names # <<>>
    PROVE  Len(Joined(Front(names))) <= Len(Joined(names))
<1>1. /\ Front(names) \in Seq(Seq(S)) /\ Last(names) \in Seq(S)
      /\ names = Append(Front(names), Last(names))
  BY FrontAndLast
<1> DEFINE a == Joined(Front(names))
           b == Last(names)
<1>2. a \in Seq(S) /\ b \in Seq(S)
  BY <1>1, JoinedPieces
<1>3. Joined(names) = a \o b
  BY <1>1, JoinedLonger
<1> HIDE DEF a, b
<1>4. Len(a \o b) = Len(a) + Len(b) /\ Len(a) \in Nat /\ Len(b) \in Nat
  BY <1>2, ConcatProperties, LenProperties
<1> QED
  BY <1>3, <1>4 DEF a

LEMMA ContainsIsIn ==
    ASSUME NEW S, NEW s \in Seq(S), NEW x
    PROVE  Contains(s, x) <=> x \in ToSet(s)
  BY LenProperties DEF Contains, ToSet

-----------------------------------------------------------------------------
(***************************************************************************)
(* Split.                                                                  *)
(***************************************************************************)
LEMMA SplitNames ==
    ASSUME NEW S, NEW text \in Seq(S)
    PROVE  /\ Split(text) \in Seq(Seq(S))
           /\ \A i \in 1..Len(Split(text)) : ToSet(Split(text)[i]) \subseteq ToSet(text)
           /\ text # <<>> => /\ Len(Split(text)) = Len(text)
                             /\ \A i \in 1..Len(text) : Split(text)[i] = <<text[i]>>
<1>0. /\ text \in [1..Len(text) -> S] /\ Len(text) \in Nat /\ DOMAIN text = 1..Len(text)
      /\ <<>> \in Seq(S)
  BY LenProperties, EmptySeq
<1>1. CASE text = <<>>
  <2> DEFINE one == <<(<<>>)>>
  <2>1. one \in Seq(Seq(S)) /\ Len(one) = 1 /\ one[1] = <<>>
    <3>1. one = Append(<<>>, <<>>)
      OBVIOUS
    <3> QED
      BY <1>0, <3>1, EmptySeq, AppendProperties
  <2>2. Split(text) = one
    BY <1>1 DEF Split
  <2> HIDE DEF one
  <2> QED
    BY <1>1, <2>1, <2>2
<1>2. CASE text # <<>>
  <2> DEFINE names == [i \in 1..Len(text) |-> <<text[i]>>]
  <2>1. Split(text) = names
    BY <1>0, <1>2 DEF Split
  <2>2. ASSUME NEW i \in 1..Len(text)
        PROVE  <<text[i]>> \in Seq(S) /\ ToSet(<<text[i]>>) = {text[i]}
    BY <1>0 DEF ToSet
  <2>3. names \in [1..Len(text) -> Seq(S)]
    BY <2>2
  <2>4. names \in Seq(Seq(S))
    BY <1>0, <2>3, SeqDef
  <2>5. Len(names) = Len(text)
    <3>1. DOMAIN names = 1..Len(text) /\ DOMAIN names = 1..Len(names) /\ Len(names) \in Nat
      BY <2>4, LenProperties
    <3> HIDE DEF names
    <3> QED
      BY <1>0, <3>1
  <2>6. \A i \in 1..Len(text) : ToSet(names[i]) \subseteq ToSet(text)
    BY <1>0, <2>2 DEF ToSet
  <2>7. \A i \in 1..Len(text) : names[i] = <<text[i]>>
    OBVIOUS
  <2> HIDE DEF names
  <2> QED
    BY <2>1, <2>4, <2>5, <2>6, <2>7
<1> QED
  BY <1>1, <1>2

\* A text is its pieces joined.
LEMMA JoinedSplit ==
    ASSUME NEW S, NEW text \in Seq(S)
    PROVE  Joined(Split(text)) = text
<1> DEFINE T == {s \in Seq(S) : Joined(Split(s)) = s}
<1>1. \A e \in Seq(S) : Joined(Append(<<>>, e)) = e
  BY EmptySeq, JoinedAppend
<1>2. <<>> \in T
  <2>1. Split(<<>>) = Append(<<>>, <<>>)
    BY DEF Split
  <2> QED
    BY <1>1, <2>1, EmptySeq
<1>3. ASSUME NEW s \in Seq(S), NEW p \in S, s \in T
      PROVE  Append(s, p) \in T
  <2> DEFINE t == Append(s, p)
  <2>1. /\ t \in Seq(S) /\ t # <<>> /\ t = s \o <<p>> /\ <<p>> \in Seq(S)
        /\ Len(t) = Len(s) + 1 /\ Len(s) \in Nat
        /\ \A i \in 1..Len(s) : t[i] = s[i]
        /\ t[Len(s) + 1] = p
    BY AppendProperties, AppendIsConcat, LenProperties
  <2>2. Split(t) \in Seq(Seq(S)) /\ Split(s) \in Seq(Seq(S))
    BY <2>1, SplitNames
  <2>3. CASE s = <<>>
    <3>1. t = <<p>>
      BY <2>3
    <3>2. Split(t) = Append(<<>>, <<p>>)
      BY <3>1 DEF Split
    <3> QED
      BY <1>1, <2>1, <3>1, <3>2
  <2>4. CASE s # <<>>
    <3> DEFINE a == Split(t)
               b == Split(s)
               c == Append(b, <<p>>)
    <3>1. a = c
      <4>1. /\ Len(a) = Len(t) /\ \A i \in 1..Len(t) : a[i] = <<t[i]>>
            /\ Len(b) = Len(s) /\ \A i \in 1..Len(s) : b[i] = <<s[i]>>
        BY <2>1, <2>4, SplitNames
      <4> HIDE DEF a, b, t
      <4>2. /\ c \in Seq(Seq(S)) /\ Len(c) = Len(b) + 1
            /\ \A i \in 1..Len(b) : c[i] = b[i]
            /\ c[Len(b) + 1] = <<p>>
        BY <2>1, <2>2, AppendProperties DEF b
      <4> HIDE DEF c
      <4>3. Len(a) = Len(c)
        BY <2>1, <4>1, <4>2
      <4>4. ASSUME NEW i \in 1..Len(a)
            PROVE  a[i] = c[i]
        <5>1. CASE i = Len(s) + 1
          BY <2>1, <4>1, <4>2, <5>1
        <5>2. CASE i # Len(s) + 1
          <6>1. i \in 1..Len(s) /\ i \in 1..Len(b) /\ i \in 1..Len(t)
            BY <2>1, <4>1, <5>2
          <6>2. a[i] = <<t[i]>> /\ c[i] = b[i] /\ b[i] = <<s[i]>> /\ t[i] = s[i]
            BY <2>1, <4>1, <4>2, <6>1
          <6> QED
            BY <6>2
        <5> QED
          BY <5>1, <5>2
      <4>5. a \in Seq(Seq(S))
        BY <2>2 DEF a
      <4> QED
        BY <4>2, <4>3, <4>4, <4>5, SeqEqual
    <3> QED
      BY <1>3, <2>1, <2>2, <3>1, JoinedLonger
  <2> QED
    BY <2>1, <2>3, <2>4
<1>4. Seq(S) \subseteq T
  <2> HIDE DEF T
  <2> QED
    BY <1>2, <1>3, SequencesByInduction
<1> QED
  BY <1>4
=============================================================================
