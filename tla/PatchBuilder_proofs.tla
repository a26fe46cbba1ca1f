------------------------- MODULE PatchBuilder_proofs -------------------------
(***************************************************************************)
(* What the construction of a patch guarantees for any edits, of any files *)
(* and any texts.                                                          *)
(***************************************************************************)
EXTENDS PatchBuilder, FiniteSetTheorems, SequenceTheorems, WellFoundedInduction, TLAPS

-------------------------------------------------------------------------------
(* Induction by hand: a smallest counterexample is taken.                  *)

\* Numbers that one collects have a least one.
LEMMA LeastNumber ==
  ASSUME NEW S, S \subseteq Nat, S # {}
  PROVE  \E m \in S : \A n \in S : m <= n
<1> DEFINE segments == {0..m : m \in S}
<1>1. segments \subseteq FiniteSubsetsOf(Nat) /\ segments # {}
  <2>1. \A m \in Nat : 0..m \in FiniteSubsetsOf(Nat)
    <3> SUFFICES ASSUME NEW m \in Nat PROVE 0..m \in FiniteSubsetsOf(Nat)
      OBVIOUS
    <3>1. IsFiniteSet(0..m) /\ 0..m \subseteq Nat
      BY FS_Interval
    <3> QED BY <3>1 DEF FiniteSubsetsOf
  <2>2. ASSUME NEW x \in segments PROVE x \in FiniteSubsetsOf(Nat)
    BY <2>1, <2>2
  <2> QED BY <2>2
<1>2. \E x \in segments : \A y \in segments : <<y, x>> \notin StrictSubsetOrdering(Nat)
  <2> HIDE DEF segments
  <2> QED BY <1>1, FS_StrictSubsetOrderingWellFounded, WFMin
<1>3. PICK m \in S : \A n \in S : <<0..n, 0..m>> \notin StrictSubsetOrdering(Nat)
  BY <1>2
<1>4. ASSUME NEW n \in S, n < m PROVE FALSE
  <2>1. 0..n \subseteq 0..m /\ m \notin 0..n /\ m \in 0..m
    BY <1>4
  <2>2. 0..n \in SUBSET Nat /\ 0..m \in SUBSET Nat
    OBVIOUS
  <2> QED BY <1>3, <2>1, <2>2 DEF StrictSubsetOrdering
<1> QED BY <1>4

\* Of the parts of a finite set that one collects, one has the fewest elements.
LEMMA SmallestPart ==
  ASSUME NEW S, IsFiniteSet(S), NEW C, C \subseteq SUBSET S, C # {}
  PROVE  \E s \in C : \A u \in C : Cardinality(s) <= Cardinality(u)
<1> DEFINE sizes == {Cardinality(s) : s \in C}
<1>1. sizes \subseteq Nat /\ sizes # {}
  BY FS_Subset, FS_CardinalityType
<1>2. \E m \in sizes : \A n \in sizes : m <= n
  <2> HIDE DEF sizes
  <2> QED BY <1>1, LeastNumber
<1> QED BY <1>2

\* One element less, and one less is counted.
LEMMA WithoutOne ==
  ASSUME NEW S, IsFiniteSet(S), NEW x \in S
  PROVE  /\ IsFiniteSet(S \ {x})
         /\ Cardinality(S) \in Nat /\ Cardinality(S \ {x}) \in Nat
         /\ Cardinality(S \ {x}) = Cardinality(S) - 1
         /\ Cardinality(S \ {x}) < Cardinality(S)
<1>1. IsFiniteSet(S \ {x}) /\ Cardinality(S \ {x}) = Cardinality(S) - 1
  BY FS_RemoveElement
<1>2. Cardinality(S) \in Nat /\ Cardinality(S \ {x}) \in Nat
  BY <1>1, FS_CardinalityType
<1> QED BY <1>1, <1>2

-------------------------------------------------------------------------------
(* The reference: a text read from its top.                                *)

\* The edits of one text: in it, none empty, and no two overlap.
Fits(text, E) ==
  /\ text \in Text
  /\ IsFiniteSet(E)
  /\ \A r \in E : /\ r.start \in 1..Len(text)
                  /\ End(r) \in (r.start + 1)..(Len(text) + 1)
                  /\ r.new \in Text
  /\ \A r, s \in E : r # s => ~(r.start <= s.start /\ s.start < End(r))

\* What is read from character i on.
Reading(g, text, E, i) == IF i > Len(text) THEN <<>> ELSE Piece(text, E, i) \o g[i + 1]

\* g gives what is read from every character on.
Reads(g, text, E) == g = [i \in 1..(Len(text) + 1) |-> Reading(g, text, E, i)]

\* One reading more makes one that is right from n characters before the end on
\* right from n + 1 on.
LEMMA ReadsExists ==
  ASSUME NEW text \in Text, NEW E
  PROVE  \E g : Reads(g, text, E)
<1> DEFINE N == Len(text)
           Right(g, n) == \A i \in 1..(N + 1) : i + n > N => g[i] = Reading(g, text, E, i)
           bad == {n \in Nat : ~ \E g : Right(g, n) /\ DOMAIN g = 1..(N + 1)
                                        /\ g = [i \in 1..(N + 1) |-> g[i]]}
<1>0. N \in Nat
  BY LenProperties DEF Text
<1> HIDE DEF N
<1>1. 0 \notin bad
  <2> DEFINE g == [i \in 1..(N + 1) |-> <<>>]
  <2>1. Right(g, 0)
    BY <1>0 DEF Reading, N
  <2>2. DOMAIN g = 1..(N + 1) /\ g = [i \in 1..(N + 1) |-> g[i]]
    OBVIOUS
  <2> HIDE DEF g
  <2> QED BY <2>1, <2>2
<1>2. ASSUME NEW n \in Nat, n \notin bad PROVE n + 1 \notin bad
  <2>1. PICK g : Right(g, n)
    BY <1>2
  <2> DEFINE h == [i \in 1..(N + 1) |-> Reading(g, text, E, i)]
  <2>2. ASSUME NEW i \in 1..(N + 1), i + (n + 1) > N PROVE h[i] = Reading(h, text, E, i)
    <3>1. CASE i > N
      BY <3>1 DEF Reading, N
    <3>2. CASE i <= N
      <4>1. i + 1 \in 1..(N + 1) /\ (i + 1) + n > N
        BY <1>0, <2>2, <3>2
      <4>2. h[i + 1] = g[i + 1]
        BY <2>1, <4>1
      <4>3. h[i] = Reading(g, text, E, i)
        OBVIOUS
      <4> HIDE DEF h
      <4> QED BY <4>2, <4>3 DEF Reading
    <3> QED BY <1>0, <3>1, <3>2
  <2>3. DOMAIN h = 1..(N + 1) /\ h = [i \in 1..(N + 1) |-> h[i]]
    OBVIOUS
  <2>4. Right(h, n + 1)
    <3> HIDE DEF h
    <3> QED BY <2>2
  <2> HIDE DEF h, Right
  <2> QED BY <2>3, <2>4
<1>3. bad = {}
  <2> SUFFICES ASSUME bad # {} PROVE FALSE
    OBVIOUS
  <2>1. bad \subseteq Nat
    OBVIOUS
  <2> HIDE DEF bad
  <2>2. PICK m \in bad : \A n \in bad : m <= n
    BY <2>1, LeastNumber
  <2>3. m \in Nat /\ m # 0
    BY <1>1, <2>1
  <2>4. m - 1 \in Nat /\ m - 1 \notin bad /\ (m - 1) + 1 = m
    BY <2>2, <2>3
  <2> QED BY <1>2, <2>4
<1>4. PICK g : Right(g, N) /\ g = [i \in 1..(N + 1) |-> g[i]]
  BY <1>0, <1>3
<1>5. \A i \in 1..(N + 1) : g[i] = Reading(g, text, E, i)
  BY <1>0, <1>4
<1>6. g = [i \in 1..(N + 1) |-> Reading(g, text, E, i)]
  <2> HIDE DEF Right
  <2> QED BY <1>4, <1>5
<1> QED BY <1>6 DEF Reads, N

\* The recursive function of the reference is such a g.
LEMMA ReplacedReads ==
  ASSUME NEW text \in Text, NEW E
  PROVE  \E g : Reads(g, text, E) /\ Replaced(text, E) = g[1]
<1> DEFINE Body(g, i) == IF i > Len(text) THEN <<>> ELSE Piece(text, E, i) \o g[i + 1]
           From[i \in 1..(Len(text) + 1)] == Body(From, i)
           Fixed(g) == g = [i \in 1..(Len(text) + 1) |-> Body(g, i)]
<1>1. Replaced(text, E) = From[1]
  BY DEF Replaced
<1>2. \A g : Fixed(g) <=> Reads(g, text, E)
  BY DEF Reads, Reading
<1>3. Fixed(From)
  <2>1. From = CHOOSE g : Fixed(g)
    BY Zenon
  <2>2. \E g : Fixed(g)
    BY <1>2, ReadsExists
  <2> HIDE DEF Fixed, From
  <2> QED BY <2>1, <2>2
<1> HIDE DEF Fixed, From
<1> QED BY <1>1, <1>2, <1>3

\* Every piece is a text.
LEMMA PieceType ==
  ASSUME NEW text, NEW E, Fits(text, E), NEW i \in 1..Len(text)
  PROVE  Piece(text, E, i) \in Text
<1>1. CASE \E r \in E : r.start = i
  <2>1. (CHOOSE r \in E : r.start = i) \in E
    BY <1>1
  <2> QED BY <1>1, <2>1 DEF Fits, Piece
<1>2. CASE ~ \E r \in E : r.start = i
  <2>1. text[i] \in Characters /\ <<>> \in Text
    BY ElementOfSeq, EmptySeq DEF Fits, Text
  <2>2. <<text[i]>> \in Text
    BY <2>1 DEF Text
  <2> QED BY <1>2, <2>1, <2>2 DEF Piece
<1> QED BY <1>1, <1>2

\* From the end to the beginning, what is read is a text.
LEMMA ReadsType ==
  ASSUME NEW text, NEW E, Fits(text, E), NEW g, Reads(g, text, E),
         NEW i \in 1..(Len(text) + 1)
  PROVE  g[i] \in Text
<1> DEFINE N == Len(text)
           bad == {n \in 0..N : g[N + 1 - n] \notin Text}
<1>0. N \in Nat
  BY LenProperties DEF Fits, Text
<1>1. \A j \in 1..(N + 1) : g[j] = Reading(g, text, E, j)
  BY DEF Reads
<1>2. bad = {}
  <2> SUFFICES ASSUME bad # {} PROVE FALSE
    OBVIOUS
  <2>1. PICK m \in bad : \A n \in bad : m <= n
    <3> bad \subseteq Nat
      BY <1>0
    <3> HIDE DEF bad
    <3> QED BY LeastNumber
  <2>2. m \in 0..N /\ g[N + 1 - m] \notin Text
    OBVIOUS
  <2>3. CASE m = 0
    <3>1. g[N + 1] = <<>>
      BY <1>0, <1>1 DEF Reading
    <3>2. N + 1 - m = N + 1 /\ <<>> \in Text
      BY <1>0, <2>3, EmptySeq DEF Text
    <3> HIDE DEF N, bad
    <3> QED BY <2>2, <3>1, <3>2
  <2>4. CASE m # 0
    <3>1. m - 1 \in 0..N /\ N + 1 - (m - 1) = (N + 1 - m) + 1 /\ N + 1 - m \in 1..N
      BY <1>0, <2>2, <2>4
    <3>2. m - 1 \notin bad
      <4> HIDE DEF bad
      <4> QED BY <1>0, <2>1, <2>2, <2>4
    <3>3. g[(N + 1 - m) + 1] \in Text
      BY <3>1, <3>2
    <3>4. g[N + 1 - m] = Piece(text, E, N + 1 - m) \o g[(N + 1 - m) + 1]
      <4>1. g[N + 1 - m] = Reading(g, text, E, N + 1 - m) /\ ~(N + 1 - m > Len(text))
        <5> HIDE DEF bad
        <5> QED BY <1>0, <1>1, <3>1
      <4> QED BY <4>1 DEF Reading
    <3>5. Piece(text, E, N + 1 - m) \in Text
      BY <3>1, PieceType
    <3> QED BY <2>2, <3>3, <3>4, <3>5, ConcatProperties DEF Text
  <2> QED BY <2>3, <2>4
<1>3. N + 1 - i \in 0..N /\ N + 1 - (N + 1 - i) = i
  BY <1>0
<1>4. N + 1 - i \notin bad
  BY <1>2
<1> HIDE DEF N
<1> QED BY <1>3, <1>4

\* One character is read: its piece, and the rest.
LEMMA ReadOne ==
  ASSUME NEW text, NEW E, Fits(text, E), NEW g, Reads(g, text, E), NEW i \in 1..Len(text)
  PROVE  /\ g[i] = Piece(text, E, i) \o g[i + 1]
         /\ g[i] \in Text /\ g[i + 1] \in Text /\ Piece(text, E, i) \in Text
<1>1. Len(text) \in Nat
  BY LenProperties DEF Fits, Text
<1>2. i \in 1..(Len(text) + 1) /\ i + 1 \in 1..(Len(text) + 1) /\ ~(i > Len(text))
  BY <1>1
<1>3. g[i] = Reading(g, text, E, i)
  BY <1>2 DEF Reads
<1> QED BY <1>2, <1>3, ReadsType, PieceType DEF Reading

\* From i on, and before j, no edit reaches; or all is gone.
Plain(text, E, i, j) == \A k \in i..(j - 1) : Piece(text, E, k) = <<text[k]>>
Gone(text, E, i, j)  == \A k \in i..(j - 1) : Piece(text, E, k) = <<>>

\* From j on, two sets of edits make the same of the text.
Alike(text, E, F, j) == \A k \in j..Len(text) : Piece(text, E, k) = Piece(text, F, k)

\* No other edit starts further up.
IsTopmost(x, E) == \A s \in E : x.start <= s.start

\* Where no edit reaches, the text is read as it is.
LEMMA Copied ==
  ASSUME NEW text, NEW E, Fits(text, E), NEW g, Reads(g, text, E),
         NEW j \in 1..(Len(text) + 1), NEW i \in 1..j,
         Plain(text, E, i, j)
  PROVE  /\ g[i] = SubSeq(text, i, j - 1) \o g[j]
         /\ SubSeq(text, i, j - 1) \in Text
         /\ Len(SubSeq(text, i, j - 1)) = j - i
<1> DEFINE N == Len(text)
           bad == {n \in 0..(j - i) : g[j - n] # SubSeq(text, j - n, j - 1) \o g[j]}
<1>0. N \in Nat /\ text \in Seq(Characters) /\ j \in 1..(N + 1) /\ i \in 1..j
  BY LenProperties DEF Fits, Text
<1>1. \A k \in i..(j - 1) : text[k] \in Characters
  BY <1>0, ElementOfSeq
<1>2. ASSUME NEW k \in i..j PROVE SubSeq(text, k, j - 1) \in Text
  <2>1. \A l \in k..(j - 1) : text[l] \in Characters
    BY <1>0, <1>1
  <2> QED BY <1>0, <2>1, SubSeqProperties DEF Text
<1>3. g[j] \in Text
  BY <1>0, ReadsType
<1>4. bad = {}
  <2> SUFFICES ASSUME bad # {} PROVE FALSE
    OBVIOUS
  <2>1. PICK m \in bad : \A n \in bad : m <= n
    <3> bad \subseteq Nat
      BY <1>0
    <3> HIDE DEF bad
    <3> QED BY LeastNumber
  <2>2. m \in 0..(j - i) /\ g[j - m] # SubSeq(text, j - m, j - 1) \o g[j]
    OBVIOUS
  <2>3. m - 1 \notin bad
    <3> HIDE DEF bad
    <3> QED BY <1>0, <2>1, <2>2
  <2>4. CASE m = 0
    <3>1. j - m = j /\ SubSeq(text, j, j - 1) = <<>>
      BY <1>0, <2>4, SubSeqEmpty
    <3>2. <<>> \o g[j] = g[j]
      BY <1>3, ConcatEmptySeq DEF Text
    <3> HIDE DEF N, bad
    <3> QED BY <2>2, <3>1, <3>2
  <2>5. CASE m # 0
    <3> DEFINE k == j - m
    <3>1. /\ m - 1 \in 0..(j - i) /\ j - (m - 1) = k + 1
          /\ k \in i..(j - 1) /\ k \in 1..N /\ k + 1 \in i..j /\ j - 1 \in k..N
      <4> HIDE DEF bad, N
      <4> QED BY <1>0, <2>2, <2>5
    <3>2. g[k + 1] = SubSeq(text, k + 1, j - 1) \o g[j]
      <4>1. g[j - (m - 1)] = SubSeq(text, j - (m - 1), j - 1) \o g[j]
        BY <2>3, <3>1
      <4> HIDE DEF k
      <4> QED BY <3>1, <4>1
    <3>3. g[k] = <<text[k]>> \o g[k + 1]
      <4> HIDE DEF k
      <4>1. Piece(text, E, k) = <<text[k]>>
        BY <3>1 DEF Plain
      <4>2. g[k] = Piece(text, E, k) \o g[k + 1]
        BY <3>1, ReadOne
      <4> QED BY <4>1, <4>2
    <3>4. SubSeq(text, k, j - 1) = <<text[k]>> \o SubSeq(text, k + 1, j - 1)
      <4> HIDE DEF k
      <4> QED BY <1>0, <3>1, SubSeqRecursiveFirst
    <3>5. <<text[k]>> \in Seq(Characters) /\ SubSeq(text, k + 1, j - 1) \in Seq(Characters)
      <4> HIDE DEF k
      <4>1. <<text[k]>> \in Seq(Characters)
        <5> text[k] \in Characters
          BY <1>1, <3>1
        <5> QED OBVIOUS
      <4>2. SubSeq(text, k + 1, j - 1) \in Seq(Characters)
        BY <1>2, <3>1 DEF Text
      <4> QED BY <4>1, <4>2
    <3>6. g[k] = SubSeq(text, k, j - 1) \o g[j]
      <4> HIDE DEF k, bad, N
      <4>1. g[j] \in Seq(Characters)
        BY <1>3 DEF Text
      <4>2. (<<text[k]>> \o SubSeq(text, k + 1, j - 1)) \o g[j]
              = <<text[k]>> \o (SubSeq(text, k + 1, j - 1) \o g[j])
        <5> DEFINE a == <<text[k]>>
                   b == SubSeq(text, k + 1, j - 1)
                   c == g[j]
        <5>1. a \in Seq(Characters) /\ b \in Seq(Characters) /\ c \in Seq(Characters)
          BY <3>5, <4>1
        <5> HIDE DEF a, b, c
        <5>2. (a \o b) \o c = a \o (b \o c)
          BY <5>1, ConcatAssociative
        <5> QED BY <5>2 DEF a, b, c
      <4> QED BY <3>2, <3>3, <3>4, <4>2
    <3> QED BY <2>2, <3>6
  <2> QED BY <2>4, <2>5
<1>5. g[i] = SubSeq(text, i, j - 1) \o g[j]
  <2>1. j - i \in 0..(j - i) /\ j - (j - i) = i
    BY <1>0
  <2>2. j - i \notin bad
    BY <1>4
  <2>3. g[j - (j - i)] = SubSeq(text, j - (j - i), j - 1) \o g[j]
    BY <2>1, <2>2
  <2> QED BY <2>1, <2>3
<1>6. Len(SubSeq(text, i, j - 1)) = j - i
  <2>1. Len(SubSeq(text, i, j - 1)) = IF i <= j - 1 THEN (j - 1) - i + 1 ELSE 0
    BY <1>0, <1>1, SubSeqProperties
  <2> QED BY <1>0, <2>1
<1> QED BY <1>0, <1>2, <1>5, <1>6

\* Characters that are gone are passed over.
LEMMA Skipped ==
  ASSUME NEW text, NEW E, Fits(text, E), NEW g, Reads(g, text, E),
         NEW j \in 1..(Len(text) + 1), NEW i \in 1..j,
         Gone(text, E, i, j)
  PROVE  g[i] = g[j]
<1> DEFINE bad == {n \in 0..(j - i) : g[j - n] # g[j]}
<1>0. Len(text) \in Nat /\ j \in 1..(Len(text) + 1) /\ i \in 1..j
  BY LenProperties DEF Fits, Text
<1>1. bad = {}
  <2> SUFFICES ASSUME bad # {} PROVE FALSE
    OBVIOUS
  <2>1. PICK m \in bad : \A n \in bad : m <= n
    <3> bad \subseteq Nat
      BY <1>0
    <3> HIDE DEF bad
    <3> QED BY LeastNumber
  <2>2. m \in 0..(j - i) /\ g[j - m] # g[j]
    OBVIOUS
  <2>3. m # 0
    BY <1>0, <2>2
  <2>4. m - 1 \notin bad
    <3> HIDE DEF bad
    <3> QED BY <1>0, <2>1, <2>2
  <2> DEFINE k == j - m
  <2>5. /\ m - 1 \in 0..(j - i) /\ j - (m - 1) = k + 1
        /\ k \in i..(j - 1) /\ k \in 1..Len(text)
    <3> HIDE DEF bad
    <3> QED BY <1>0, <2>2, <2>3
  <2>6. g[k + 1] = g[j]
    <3>1. g[j - (m - 1)] = g[j]
      BY <2>4, <2>5
    <3> HIDE DEF k
    <3> QED BY <2>5, <3>1
  <2>7. g[k] = g[k + 1]
    <3> HIDE DEF k
    <3>1. Piece(text, E, k) = <<>>
      BY <2>5 DEF Gone
    <3>2. g[k] = Piece(text, E, k) \o g[k + 1] /\ g[k + 1] \in Text
      BY <2>5, ReadOne
    <3> QED BY <3>1, <3>2, ConcatEmptySeq DEF Text
  <2> QED BY <2>2, <2>6, <2>7
<1>2. j - i \in 0..(j - i) /\ j - (j - i) = i
  BY <1>0
<1>3. j - i \notin bad
  BY <1>1
<1>4. g[j - (j - i)] = g[j]
  BY <1>2, <1>3
<1> QED BY <1>2, <1>4

\* From where the pieces are the same on, the same is read.
LEMMA SameRest ==
  ASSUME NEW text \in Text, NEW E, NEW F,
         NEW g, Reads(g, text, E), NEW h, Reads(h, text, F),
         NEW j \in 1..(Len(text) + 1),
         Alike(text, E, F, j)
  PROVE  g[j] = h[j]
<1> DEFINE N == Len(text)
           bad == {n \in 0..(N + 1 - j) : g[N + 1 - n] # h[N + 1 - n]}
<1>0. N \in Nat /\ j \in 1..(N + 1)
  BY LenProperties DEF Text
<1>1. \A i \in 1..(N + 1) : g[i] = Reading(g, text, E, i) /\ h[i] = Reading(h, text, F, i)
  BY DEF Reads
<1>2. bad = {}
  <2> SUFFICES ASSUME bad # {} PROVE FALSE
    OBVIOUS
  <2>1. PICK m \in bad : \A n \in bad : m <= n
    <3> bad \subseteq Nat
      BY <1>0
    <3> HIDE DEF bad
    <3> QED BY LeastNumber
  <2>2. m \in 0..(N + 1 - j) /\ g[N + 1 - m] # h[N + 1 - m]
    OBVIOUS
  <2>3. m - 1 \notin bad
    <3> HIDE DEF bad
    <3> QED BY <1>0, <2>1, <2>2
  <2> DEFINE k == N + 1 - m
  <2>4. k \in j..(N + 1) /\ k \in 1..(N + 1) /\ g[k] # h[k]
    <3> HIDE DEF bad, N
    <3> QED BY <1>0, <2>2
  <2>5. CASE k > N
    <3> HIDE DEF k
    <3> QED BY <1>1, <2>4, <2>5 DEF Reading
  <2>6. CASE ~(k > N)
    <3>1. m - 1 \in 0..(N + 1 - j) /\ N + 1 - (m - 1) = k + 1 /\ k \in j..N
      <4> HIDE DEF bad, N
      <4> QED BY <1>0, <2>2, <2>6
    <3>2. g[k + 1] = h[k + 1]
      <4>1. g[N + 1 - (m - 1)] = h[N + 1 - (m - 1)]
        BY <2>3, <3>1
      <4> HIDE DEF k
      <4> QED BY <3>1, <4>1
    <3>3. Piece(text, E, k) = Piece(text, F, k)
      <4> HIDE DEF k
      <4> QED BY <3>1 DEF Alike
    <3> HIDE DEF k
    <3> QED BY <1>1, <2>4, <2>6, <3>2, <3>3 DEF Reading
  <2> QED BY <2>5, <2>6
<1>3. N + 1 - j \in 0..(N + 1 - j) /\ N + 1 - (N + 1 - j) = j
  BY <1>0
<1>4. N + 1 - j \notin bad
  BY <1>2
<1>5. g[N + 1 - (N + 1 - j)] = h[N + 1 - (N + 1 - j)]
  BY <1>3, <1>4
<1> HIDE DEF N
<1> QED BY <1>3, <1>5

\* The part of a text before its character n, as the part of a longer text.
LEMMA SpliceAt ==
  ASSUME NEW text \in Text, NEW e \in 1..(Len(text) + 1), NEW n \in 1..e,
         NEW rest \in Text
  PROVE  LET t == SubSeq(text, 1, e - 1) \o rest
         IN  /\ SubSeq(t, 1, n - 1) = SubSeq(text, 1, n - 1)
             /\ SubSeq(t, e, Len(t)) = rest
<1> DEFINE p == SubSeq(text, 1, e - 1)
           t == p \o rest
<1>0. /\ Len(text) \in Nat /\ Len(rest) \in Nat
      /\ text \in Seq(Characters) /\ rest \in Seq(Characters)
      /\ e \in Int /\ n \in Int /\ 1 <= n /\ n <= e /\ e <= Len(text) + 1
  BY LenProperties DEF Text
<1>1. \A i \in 1..Len(text) : text[i] \in Characters
  BY <1>0, ElementOfSeq
<1>2. /\ p \in Seq(Characters) /\ Len(p) = e - 1
      /\ \A i \in 1..(e - 1) : p[i] = text[i]
  <2>1. \A i \in 1..(e - 1) : text[i] \in Characters
    BY <1>0, <1>1
  <2>2. /\ p \in Seq(Characters)
        /\ Len(p) = IF 1 <= e - 1 THEN (e - 1) - 1 + 1 ELSE 0
        /\ \A i \in 1..((e - 1) - 1 + 1) : p[i] = text[1 + i - 1]
    BY <1>0, <2>1, SubSeqProperties
  <2> HIDE DEF p
  <2>3. Len(p) = e - 1
    BY <1>0, <2>2
  <2>4. \A i \in 1..(e - 1) : p[i] = text[i]
    BY <1>0, <2>2
  <2> QED BY <2>2, <2>3, <2>4
<1> HIDE DEF p
<1>3. /\ t \in Seq(Characters)
      /\ Len(t) = (e - 1) + Len(rest)
      /\ \A i \in 1..(e - 1) : t[i] = text[i]
      /\ \A i \in 1..Len(rest) : t[i + (e - 1)] = rest[i]
  <2>1. /\ t \in Seq(Characters) /\ Len(t) = Len(p) + Len(rest)
        /\ \A i \in 1..(Len(p) + Len(rest)) :
             t[i] = IF i <= Len(p) THEN p[i] ELSE rest[i - Len(p)]
    BY <1>0, <1>2, ConcatProperties
  <2> HIDE DEF t
  <2>2. ASSUME NEW i \in 1..(e - 1) PROVE t[i] = text[i]
    <3>1. i \in 1..(Len(p) + Len(rest)) /\ i <= Len(p)
      BY <1>0, <1>2
    <3> QED BY <1>2, <2>1, <3>1
  <2>3. ASSUME NEW i \in 1..Len(rest) PROVE t[i + (e - 1)] = rest[i]
    <3>1. i + (e - 1) \in 1..(Len(p) + Len(rest)) /\ ~(i + (e - 1) <= Len(p))
          /\ (i + (e - 1)) - Len(p) = i
      BY <1>0, <1>2
    <3> QED BY <2>1, <3>1
  <2> QED BY <1>2, <2>1, <2>2, <2>3
<1> HIDE DEF t
<1>4. SubSeq(t, 1, n - 1) = SubSeq(text, 1, n - 1)
  <2> DEFINE a == SubSeq(t, 1, n - 1)
             b == SubSeq(text, 1, n - 1)
  <2>1. \A i \in 1..(n - 1) : t[i] = text[i] /\ text[i] \in Characters
    BY <1>0, <1>1, <1>3
  <2>2. /\ b \in Seq(Characters)
        /\ Len(b) = IF 1 <= n - 1 THEN (n - 1) - 1 + 1 ELSE 0
        /\ \A i \in 1..((n - 1) - 1 + 1) : b[i] = text[1 + i - 1]
    BY <1>0, <2>1, SubSeqProperties
  <2>3. \A i \in 1..(n - 1) : t[i] \in Characters
    BY <2>1
  <2>4. /\ a \in Seq(Characters)
        /\ Len(a) = IF 1 <= n - 1 THEN (n - 1) - 1 + 1 ELSE 0
        /\ \A i \in 1..((n - 1) - 1 + 1) : a[i] = t[1 + i - 1]
    BY <1>0, <2>3, SubSeqProperties
  <2> HIDE DEF a, b
  <2>5. Len(a) = Len(b) /\ \A i \in 1..Len(a) : a[i] = b[i]
    BY <1>0, <2>1, <2>2, <2>4
  <2>6. a = b
    BY <2>2, <2>4, <2>5, SeqEqual
  <2> QED BY <2>6 DEF a, b
<1>5. SubSeq(t, e, Len(t)) = rest
  <2> DEFINE a == SubSeq(t, e, Len(t))
  <2>1. Len(t) \in Int
    BY <1>0, <1>3
  <2>2. \A i \in e..Len(t) : t[i] \in Characters
    <3> \A i \in 1..Len(t) : t[i] \in Characters
      BY <1>3, ElementOfSeq
    <3> QED BY <1>0, <1>3
  <2>3. /\ a \in Seq(Characters)
        /\ Len(a) = IF e <= Len(t) THEN Len(t) - e + 1 ELSE 0
        /\ \A i \in 1..(Len(t) - e + 1) : a[i] = t[e + i - 1]
    BY <1>0, <2>1, <2>2, SubSeqProperties
  <2> HIDE DEF a
  <2>4. Len(a) = Len(rest)
    BY <1>0, <1>3, <2>3
  <2>5. ASSUME NEW i \in 1..Len(a) PROVE a[i] = rest[i]
    <3>1. e + i - 1 = i + (e - 1) /\ i \in 1..Len(rest) /\ i \in 1..(Len(t) - e + 1)
      BY <1>0, <1>3, <2>4
    <3> QED BY <1>3, <2>3, <3>1
  <2>6. a = rest
    BY <1>0, <2>3, <2>4, <2>5, SeqEqual
  <2> QED BY <2>6 DEF a
<1> QED BY <1>4, <1>5 DEF p, t

\* Behind the topmost edit start the others.
LEMMA BehindTopmost ==
  ASSUME NEW text, NEW E, Fits(text, E), NEW x \in E, IsTopmost(x, E)
  PROVE  /\ Len(text) \in Nat /\ x.start \in Nat /\ End(x) \in Nat
         /\ 1 <= x.start /\ x.start < End(x) /\ End(x) <= Len(text) + 1
         /\ \A s \in E \ {x} : s.start \in Nat /\ End(x) <= s.start
<1>1. Len(text) \in Nat
  BY LenProperties DEF Fits, Text
<1>2. x.start \in 1..Len(text) /\ End(x) \in (x.start + 1)..(Len(text) + 1)
  BY DEF Fits
<1>3. ASSUME NEW s \in E \ {x} PROVE s.start \in Nat /\ End(x) <= s.start
  <2>1. s.start \in 1..Len(text) /\ x.start <= s.start /\ ~(s.start < End(x))
    BY DEF Fits, IsTopmost
  <2> QED BY <1>1, <1>2, <2>1
<1> QED BY <1>1, <1>2, <1>3

\* What the topmost edit makes of the pieces, and what they are without it.
LEMMA TopmostPieces ==
  ASSUME NEW text, NEW E, Fits(text, E), NEW x \in E, IsTopmost(x, E)
  PROVE  /\ Plain(text, E, 1, x.start)
         /\ Piece(text, E, x.start) = x.new
         /\ Gone(text, E, x.start + 1, End(x))
         /\ Plain(text, E \ {x}, 1, End(x))
         /\ Alike(text, E, E \ {x}, End(x))
<1>1. /\ Len(text) \in Nat /\ x.start \in Nat /\ End(x) \in Nat
      /\ 1 <= x.start /\ x.start < End(x) /\ End(x) <= Len(text) + 1
      /\ \A s \in E \ {x} : s.start \in Nat /\ End(x) <= s.start
  BY BehindTopmost
<1>2. ASSUME NEW k \in 1..(x.start - 1) PROVE Piece(text, E, k) = <<text[k]>>
  <2>1. ~ \E r \in E : r.start = k
    BY <1>1
  <2>2. ~ \E r \in E : r.start < k /\ k < End(r)
    BY <1>1
  <2> QED BY <2>1, <2>2 DEF Piece
<1>3. Piece(text, E, x.start) = x.new
  <2>1. \E r \in E : r.start = x.start
    OBVIOUS
  <2>2. (CHOOSE r \in E : r.start = x.start) = x
    BY <1>1
  <2> QED BY <2>1, <2>2 DEF Piece
<1>4. ASSUME NEW k \in (x.start + 1)..(End(x) - 1) PROVE Piece(text, E, k) = <<>>
  <2>1. ~ \E r \in E : r.start = k
    BY <1>1
  <2>2. \E r \in E : r.start < k /\ k < End(r)
    BY <1>1
  <2> QED BY <2>1, <2>2 DEF Piece
<1>5. ASSUME NEW k \in 1..(End(x) - 1) PROVE Piece(text, E \ {x}, k) = <<text[k]>>
  <2>1. ~ \E r \in E \ {x} : r.start = k
    BY <1>1
  <2>2. ~ \E r \in E \ {x} : r.start < k /\ k < End(r)
    BY <1>1
  <2> QED BY <2>1, <2>2 DEF Piece
<1>6. ASSUME NEW k \in End(x)..Len(text)
      PROVE  Piece(text, E, k) = Piece(text, E \ {x}, k)
  <2>1. x.start # k /\ ~(k < End(x))
    BY <1>1
  <2>2. (\E r \in E : r.start < k /\ k < End(r))
          <=> (\E r \in E \ {x} : r.start < k /\ k < End(r))
    BY <2>1
  <2>3. CASE \E r \in E : r.start = k
    <3>1. PICK y \in E : y.start = k
      BY <2>3
    <3>2. \A r \in E : r.start = k => r = y
      <4> SUFFICES ASSUME NEW r \in E, r.start = k, r # y PROVE FALSE
        OBVIOUS
      <4>1. k \in Nat /\ y.start < End(y)
        <5>1. y.start \in 1..Len(text) /\ End(y) \in (y.start + 1)..(Len(text) + 1)
          BY DEF Fits
        <5> QED BY <1>1, <3>1, <5>1
      <4>2. ~(y.start <= r.start /\ r.start < End(y))
        BY DEF Fits
      <4> QED BY <3>1, <4>1, <4>2
    <3>3. y \in E \ {x}
      BY <2>1, <3>1
    <3>4. (CHOOSE r \in E : r.start = k) = y
      BY <3>1, <3>2
    <3>5. (CHOOSE r \in E \ {x} : r.start = k) = y
      BY <3>1, <3>2, <3>3
    <3>6. \E r \in E \ {x} : r.start = k
      BY <3>1, <3>3
    <3> QED BY <2>3, <3>4, <3>5, <3>6 DEF Piece
  <2>4. CASE ~ \E r \in E : r.start = k
    BY <2>2, <2>4 DEF Piece
  <2> QED BY <2>3, <2>4
<1> QED BY <1>2, <1>3, <1>4, <1>5, <1>6 DEF Plain, Gone, Alike

\* Without one of its edits, the others still fit a text.
LEMMA FewerFit ==
  ASSUME NEW text, NEW E, Fits(text, E), NEW F, F \subseteq E
  PROVE  Fits(text, F)
BY FS_Subset DEF Fits

\* Reading with the topmost edit in place is applying it, by its offsets, to the
\* text with the others in place.
LEMMA ReplacedTopmost ==
  ASSUME NEW text, NEW E, Fits(text, E), NEW x \in E, IsTopmost(x, E)
  PROVE  Replaced(text, E) = Apply(x, Replaced(text, E \ {x}))
<1> DEFINE F == E \ {x}
           n == x.start
           e == End(x)
<1>0. /\ Len(text) \in Nat /\ n \in Nat /\ e \in Nat
      /\ 1 <= n /\ n < e /\ e <= Len(text) + 1
      /\ text \in Text /\ x.new \in Text
  BY BehindTopmost DEF Fits
<1>1. Fits(text, F)
  BY FewerFit
<1>2. /\ Plain(text, E, 1, n)
      /\ Piece(text, E, n) = x.new
      /\ Gone(text, E, n + 1, e)
      /\ Plain(text, F, 1, e)
      /\ Alike(text, E, F, e)
  BY TopmostPieces
<1>3. Apply(x, Replaced(text, F)) =
        SubSeq(Replaced(text, F), 1, n - 1) \o x.new
          \o SubSeq(Replaced(text, F), e, Len(Replaced(text, F)))
  BY DEF Apply
<1> HIDE DEF F, n, e
<1>4. PICK g : Reads(g, text, E) /\ Replaced(text, E) = g[1]
  BY <1>0, ReplacedReads
<1>5. PICK h : Reads(h, text, F) /\ Replaced(text, F) = h[1]
  BY <1>0, ReplacedReads
<1>6. /\ 1 \in 1..n /\ 1 \in 1..e /\ n \in 1..Len(text) /\ n \in 1..(Len(text) + 1)
      /\ n + 1 \in 1..e /\ e \in 1..(Len(text) + 1) /\ n \in 1..e
  BY <1>0
<1>7. g[1] = SubSeq(text, 1, n - 1) \o g[n] /\ SubSeq(text, 1, n - 1) \in Text
  <2>1. Reads(g, text, E) /\ Plain(text, E, 1, n)
    BY <1>2, <1>4
  <2> QED BY <1>6, <2>1, Copied, Zenon
<1>8. g[n] = x.new \o g[n + 1]
  <2>1. Reads(g, text, E) /\ n \in 1..Len(text)
    BY <1>4, <1>6
  <2>2. g[n] = Piece(text, E, n) \o g[n + 1]
    BY <2>1, ReadOne
  <2> QED BY <1>2, <2>2
<1>9. g[n + 1] = g[e]
  BY <1>2, <1>4, <1>6, Skipped
<1>10. g[e] = h[e]
  BY <1>0, <1>2, <1>4, <1>5, <1>6, SameRest
<1>11. h[1] = SubSeq(text, 1, e - 1) \o h[e]
  <2>1. Reads(h, text, F) /\ Plain(text, F, 1, e) /\ e \in 1..(Len(text) + 1) /\ 1 \in 1..e
    BY <1>2, <1>5, <1>6
  <2> QED BY <1>1, <2>1, Copied, Zenon
<1>12. h[e] \in Text
  BY <1>1, <1>5, <1>6, ReadsType
<1>13. /\ SubSeq(h[1], 1, n - 1) = SubSeq(text, 1, n - 1)
       /\ SubSeq(h[1], e, Len(h[1])) = h[e]
  <2> DEFINE rest == h[e]
  <2>1. rest \in Text
    BY <1>12
  <2> HIDE DEF rest
  <2>2. LET t == SubSeq(text, 1, e - 1) \o rest
        IN  /\ SubSeq(t, 1, n - 1) = SubSeq(text, 1, n - 1)
            /\ SubSeq(t, e, Len(t)) = rest
    BY <1>0, <1>6, <2>1, SpliceAt
  <2> QED BY <1>11, <2>2 DEF rest
<1>14. Apply(x, h[1]) = SubSeq(text, 1, n - 1) \o x.new \o h[e]
  BY <1>3, <1>5, <1>13
<1>15. g[1] = SubSeq(text, 1, n - 1) \o (x.new \o h[e])
  BY <1>7, <1>8, <1>9, <1>10
<1>16. (SubSeq(text, 1, n - 1) \o x.new) \o h[e] = SubSeq(text, 1, n - 1) \o (x.new \o h[e])
  <2> DEFINE a == SubSeq(text, 1, n - 1)
             b == x.new
             c == h[e]
  <2>1. a \in Seq(Characters) /\ b \in Seq(Characters) /\ c \in Seq(Characters)
    BY <1>0, <1>7, <1>12 DEF Text
  <2> HIDE DEF a, b, c
  <2>2. (a \o b) \o c = a \o (b \o c)
    BY <2>1, ConcatAssociative
  <2> QED BY <2>2 DEF a, b, c
<1> QED BY <1>4, <1>5, <1>14, <1>15, <1>16 DEF F

\* With no edit, the text is read as it is.
LEMMA ReplacedNothing ==
  ASSUME NEW text \in Text
  PROVE  Replaced(text, {}) = text
<1> DEFINE e == Len(text) + 1
           E == {}
<1>0. Len(text) \in Nat /\ text \in Seq(Characters) /\ e - 1 = Len(text)
  BY LenProperties DEF Text
<1>1. Fits(text, E)
  BY FS_EmptySet DEF Fits
<1>2. PICK g : Reads(g, text, E) /\ Replaced(text, E) = g[1]
  BY ReplacedReads
<1>3. Plain(text, E, 1, e)
  BY DEF Plain, Piece
<1>4. e \in 1..(Len(text) + 1) /\ 1 \in 1..e
  BY <1>0
<1>5. g[e] = <<>>
  BY <1>0, <1>2, <1>4 DEF Reads, Reading
<1> HIDE DEF e, E
<1>6. g[1] = SubSeq(text, 1, e - 1) \o g[e]
  <2>1. Reads(g, text, E)
    BY <1>2
  <2> QED BY <1>1, <1>3, <1>4, <2>1, Copied, Zenon
<1>7. SubSeq(text, 1, Len(text)) = text
  BY <1>0, SubSeqFull
<1>8. text \o <<>> = text
  BY <1>0, ConcatEmptySeq
<1> QED BY <1>0, <1>2, <1>5, <1>6, <1>7, <1>8 DEF E

-------------------------------------------------------------------------------
(* The construction by offsets gives the same.                             *)

\* The topmost edit is one of them, and no other starts further up.
LEMMA TopmostIn ==
  ASSUME NEW text, NEW E, Fits(text, E), E # {}
  PROVE  Topmost(E) \in E /\ IsTopmost(Topmost(E), E)
<1> DEFINE starts == {r.start : r \in E}
<1>1. starts \subseteq Nat /\ starts # {}
  BY DEF Fits
<1>2. \E m \in starts : \A n \in starts : m <= n
  <2> HIDE DEF starts
  <2> QED BY <1>1, LeastNumber
<1>3. \E r \in E : \A s \in E : r.start <= s.start
  BY <1>2
<1> QED BY <1>3 DEF Topmost, IsTopmost

\* One unfolding of the fold: what applying the edits of s to the text gives.
Folded(g, text, s) == IF s = {} THEN text ELSE Apply(Topmost(s), g[s \ {Topmost(s)}])

Folding(g, text, E) == g = [s \in SUBSET E |-> Folded(g, text, s)]

\* The fold over the edits of a text that is folded with all of them.
LEMMA FoldReplaces ==
  ASSUME NEW text, NEW E, Fits(text, E)
  PROVE  /\ \E g : Folding(g, text, E)
         /\ \A g : Folding(g, text, E) => g[E] = Replaced(text, E)
<1> DEFINE h == [s \in SUBSET E |-> Replaced(text, s)]
<1>1. ASSUME NEW s \in SUBSET E, s # {}
      PROVE  /\ Topmost(s) \in s /\ s \ {Topmost(s)} \in SUBSET E
             /\ Replaced(text, s) = Apply(Topmost(s), Replaced(text, s \ {Topmost(s)}))
             /\ Cardinality(s) \in Nat /\ Cardinality(s \ {Topmost(s)}) \in Nat
             /\ Cardinality(s \ {Topmost(s)}) < Cardinality(s)
  <2>1. Fits(text, s) /\ IsFiniteSet(s)
    BY FewerFit DEF Fits
  <2>2. Topmost(s) \in s /\ IsTopmost(Topmost(s), s)
    BY <1>1, <2>1, TopmostIn
  <2> QED BY <2>1, <2>2, ReplacedTopmost, WithoutOne
<1>2. Replaced(text, {}) = text
  BY ReplacedNothing DEF Fits
<1>3. ASSUME NEW s \in SUBSET E PROVE h[s] = Folded(h, text, s)
  <2>1. CASE s = {}
    BY <1>2, <2>1 DEF Folded
  <2>2. CASE s # {}
    <3> DEFINE x == Topmost(s)
    <3>1. s \ {x} \in SUBSET E /\ Replaced(text, s) = Apply(x, Replaced(text, s \ {x}))
      BY <1>1, <2>2
    <3>2. h[s \ {x}] = Replaced(text, s \ {x}) /\ h[s] = Replaced(text, s)
      BY <3>1
    <3> HIDE DEF h
    <3> QED BY <2>2, <3>1, <3>2 DEF Folded
  <2> QED BY <2>1, <2>2
<1>4. Folding(h, text, E)
  <2>1. h = [s \in SUBSET E |-> h[s]]
    OBVIOUS
  <2> HIDE DEF h
  <2> QED BY <1>3, <2>1 DEF Folding
<1>5. ASSUME NEW g, Folding(g, text, E) PROVE g[E] = Replaced(text, E)
  <2> DEFINE bad == {s \in SUBSET E : g[s] # Replaced(text, s)}
  <2> SUFFICES ASSUME bad # {} PROVE FALSE
    OBVIOUS
  <2>1. PICK s \in bad : \A u \in bad : Cardinality(s) <= Cardinality(u)
    <3> bad \subseteq SUBSET E
      OBVIOUS
    <3> HIDE DEF bad
    <3> QED BY SmallestPart DEF Fits
  <2>2. s \in SUBSET E /\ g[s] # Replaced(text, s) /\ g[s] = Folded(g, text, s)
    BY <1>5 DEF Folding
  <2>3. s # {}
    BY <1>2, <2>2 DEF Folded
  <2> DEFINE x == Topmost(s)
  <2>4. /\ s \ {x} \in SUBSET E
        /\ Replaced(text, s) = Apply(x, Replaced(text, s \ {x}))
        /\ Cardinality(s) \in Nat /\ Cardinality(s \ {x}) \in Nat
        /\ Cardinality(s \ {x}) < Cardinality(s)
    BY <1>1, <2>2, <2>3
  <2>5. s \ {x} \notin bad
    <3> HIDE DEF bad, x
    <3> QED BY <2>1, <2>4
  <2>6. g[s \ {x}] = Replaced(text, s \ {x})
    BY <2>4, <2>5
  <2>7. g[s] = Apply(x, g[s \ {x}])
    BY <2>2, <2>3 DEF Folded
  <2> HIDE DEF x
  <2> QED BY <2>2, <2>4, <2>6, <2>7
<1> QED BY <1>4, <1>5

\* The texts of the construction are those with every edit in place.
LEMMA AppliedIsReplaced ==
  ASSUME NEW f, Fits(snapshots[f], EditsIn(f))
  PROVE  Applied(f) = Replaced(snapshots[f], EditsIn(f))
<1> DEFINE text == snapshots[f]
           E == EditsIn(f)
           Body(g, s) == IF s = {} THEN text
                         ELSE LET x == Topmost(s) IN Apply(x, g[s \ {x}])
           iter[s \in SUBSET E] == Body(iter, s)
           Fixed(g) == g = [s \in SUBSET E |-> Body(g, s)]
<1>1. Applied(f) = iter[E]
  BY DEF Applied, MapThenFoldSet
<1>2. \A g : Fixed(g) <=> Folding(g, text, E)
  BY DEF Folding, Folded
<1>3. Fixed(iter)
  <2>1. iter = CHOOSE g : Fixed(g)
    BY Zenon
  <2>2. \E g : Fixed(g)
    BY <1>2, FoldReplaces
  <2> HIDE DEF Fixed, iter
  <2> QED BY <2>1, <2>2
<1> HIDE DEF Fixed, iter
<1> QED BY <1>1, <1>2, <1>3, FoldReplaces

-------------------------------------------------------------------------------
(* The invariant.                                                          *)

\* What edit i is resolved to.
Resolution(i) ==
  LET file == FileOf(edits[i].file)
  IN [file |-> file, old |-> edits[i].old, new |-> edits[i].new,
      start |-> Min(Occurrences(disk[Stripped(file)], edits[i].old))]

\* Each edit up to pos is there once.
EachOnce == /\ resolved = {Resolution(i) : i \in 1..pos}
            /\ IsFiniteSet(resolved) /\ Cardinality(resolved) = pos

\* No objection was found to any of them.
NoObjections ==
  \A i \in 1..pos :
    /\ PathObjection(edits[i].file) = "none"
    /\ FileOf(edits[i].file) \in DOMAIN snapshots
    /\ TargetObjection(disk[Stripped(FileOf(edits[i].file))], edits[i].old) = "none"

\* The snapshots are what is read of files of the layout.
AsRead == \A f \in DOMAIN snapshots :
            /\ f \in Files
            /\ SourceObjection(f) = "none"
            /\ snapshots[f] = disk[Stripped(f)]

\* What is handed to git, or built, was combined from edits that do not overlap.
Combined == outcome \in {"built", "empty_edit", "not_serialized"} =>
              /\ pos = Len(edits)
              /\ \A f \in DOMAIN snapshots : ~Overlap(f)
              /\ modified = [f \in DOMAIN snapshots |-> Replaced(snapshots[f], EditsIn(f))]

\* Edits that keep the rules.
CleanInput ==
  /\ Len(edits) <= MaxEdits
  /\ \A i \in 1..Len(edits) :
       /\ Resolvable(edits[i])
       /\ Cardinality(Occurrences(disk[Stripped(FileOf(edits[i].file))], edits[i].old)) = 1
       /\ \A j \in 1..(i - 1) : FileOf(edits[i].file) = FileOf(edits[j].file) =>
                                  Target(edits[i]) \cap Target(edits[j]) = {}

CleanPasses == CleanInput => outcome \in {"building", "built", "empty_edit", "not_serialized"}

Known == /\ [edits |-> edits, disk |-> disk, links |-> links] \in Inputs
         /\ pos \in 0..Len(edits)
         /\ outcome \in {"building", "built", "raised"}
                          \cup UnsafeObjections \cup RepairableObjections

IInv == Known /\ EachOnce /\ NoObjections /\ AsRead /\ Combined /\ CleanPasses

-------------------------------------------------------------------------------
(* What the invariant says of an edit.                                     *)

LEMMA KnownInputs ==
  ASSUME Known
  PROVE  /\ Len(edits) \in Nat
         /\ \A i \in 1..Len(edits) : /\ edits[i] \in Edit
                                    /\ edits[i].old \in Text /\ edits[i].old # <<>>
                                    /\ edits[i].new \in Text
         /\ \A q \in DOMAIN disk : disk[q] \in Text \cup {Binary}
<1> DEFINE input == [edits |-> edits, disk |-> disk, links |-> links]
<1>1. input \in Inputs /\ input.edits = edits /\ input.disk = disk
  BY DEF Known
<1>2. edits \in Seq(Edit) /\ \A q \in DOMAIN disk : disk[q] \in Text \cup {Binary}
  <2> HIDE DEF input
  <2> QED BY <1>1, InputsAreInputs
<1>3. Len(edits) \in Nat /\ \A i \in 1..Len(edits) : edits[i] \in Edit
  BY <1>2, LenProperties, ElementOfSeq
<1> QED BY <1>2, <1>3 DEF Edit

\* A target that occurs in a text occurs within it, and first somewhere.
LEMMA FirstOccurrence ==
  ASSUME NEW text \in Text, NEW target \in Text, target # <<>>,
         Occurrences(text, target) # {}
  PROVE  /\ Len(text) \in Nat /\ Len(target) \in Nat /\ Len(target) >= 1
         /\ \A i \in Occurrences(text, target) :
              i \in Nat /\ 1 <= i /\ i + Len(target) <= Len(text) + 1
         /\ Min(Occurrences(text, target)) \in Occurrences(text, target)
         /\ \A i \in Occurrences(text, target) : Min(Occurrences(text, target)) <= i
<1>1. Len(text) \in Nat /\ Len(target) \in Nat /\ Len(target) >= 1
  <2>1. Len(target) \in Nat /\ Len(text) \in Nat /\ target \in Seq(Characters)
    BY LenProperties DEF Text
  <2>2. Len(target) # 0
    BY <2>1, EmptySeq
  <2> QED BY <2>1, <2>2
<1>2. \A i \in Occurrences(text, target) :
         i \in Nat /\ 1 <= i /\ i + Len(target) <= Len(text) + 1
  BY <1>1 DEF Occurrences
<1>3. \E m \in Occurrences(text, target) : \A i \in Occurrences(text, target) : m <= i
  <2> DEFINE S == Occurrences(text, target)
  <2>1. S \subseteq Nat /\ S # {}
    BY <1>2
  <2> HIDE DEF S
  <2>2. \E m \in S : \A i \in S : m <= i
    BY <2>1, LeastNumber
  <2> QED BY <2>2 DEF S
<1> QED BY <1>1, <1>2, <1>3 DEF Min

\* A snapshot is a text.
LEMMA SnapshotIsText ==
  ASSUME Known, NEW f, SourceObjection(f) = "none"
  PROVE  Stripped(f) \in DOMAIN disk /\ disk[Stripped(f)] \in Text
<1>1. Stripped(f) \in DOMAIN disk /\ disk[Stripped(f)] # Binary
  BY DEF SourceObjection
<1> QED BY <1>1, KnownInputs

\* An edit up to pos is one of its file, at the first place of its target; no
\* other place is seen.
LEMMA ResolvedEdit ==
  ASSUME Known, NoObjections, AsRead, NEW i \in 1..pos
  PROVE  LET file == FileOf(edits[i].file)
             text == snapshots[file]
             r    == Resolution(i)
         IN  /\ file \in DOMAIN snapshots /\ r.file = file
             /\ r.old = edits[i].old /\ r.new = edits[i].new
             /\ text \in Text /\ text = disk[Stripped(file)]
             /\ r.start \in Occurrences(text, r.old)
             /\ Len(text) \in Nat /\ Len(r.old) \in Nat /\ Len(r.old) >= 1
             /\ r.start \in Nat /\ 1 <= r.start /\ End(r) <= Len(text) + 1
             /\ End(r) = r.start + Len(r.old)
             /\ r.new \in Text
             /\ \A a, b \in Occurrences(text, r.old) : a < b => b < a + Len(r.old)
<1> DEFINE file == FileOf(edits[i].file)
           text == snapshots[file]
           r    == Resolution(i)
           old  == edits[i].old
<1>1. pos \in Nat /\ i \in 1..Len(edits) /\ old \in Text /\ old # <<>> /\ edits[i].new \in Text
  BY KnownInputs DEF Known
<1>2. file \in DOMAIN snapshots
  BY DEF NoObjections
<1>3. SourceObjection(file) = "none" /\ text = disk[Stripped(file)]
  BY <1>2 DEF AsRead
<1>4. text \in Text
  BY <1>3, SnapshotIsText
<1>5. TargetObjection(text, old) = "none"
  BY <1>3 DEF NoObjections
<1>6. /\ r.file = file /\ r.old = old /\ r.new = edits[i].new
      /\ r.start = Min(Occurrences(text, old))
      /\ End(r) = r.start + Len(r.old)
  BY <1>3 DEF Resolution, End
<1> HIDE DEF file, text, r, old
<1>7. Occurrences(text, old) # {} /\ SeenAfter(text, old) = {}
  BY <1>5 DEF TargetObjection
<1>8. /\ Len(text) \in Nat /\ Len(old) \in Nat /\ Len(old) >= 1
      /\ \A a \in Occurrences(text, old) :
           a \in Nat /\ 1 <= a /\ a + Len(old) <= Len(text) + 1
      /\ Min(Occurrences(text, old)) \in Occurrences(text, old)
      /\ \A a \in Occurrences(text, old) : Min(Occurrences(text, old)) <= a
  BY <1>1, <1>4, <1>7, FirstOccurrence
<1>9. \A a, b \in Occurrences(text, old) : a < b => b < a + Len(old)
  <2> SUFFICES ASSUME NEW a \in Occurrences(text, old), NEW b \in Occurrences(text, old)
               PROVE  b < a + Len(old)
    OBVIOUS
  <2>1. ~(b >= Min(Occurrences(text, old)) + Len(old))
    BY <1>7 DEF SeenAfter
  <2> QED BY <1>8, <2>1
<1>10. /\ r.start \in Occurrences(text, r.old)
       /\ Len(r.old) \in Nat /\ Len(r.old) >= 1
       /\ r.start \in Nat /\ 1 <= r.start /\ End(r) <= Len(text) + 1
       /\ \A a, b \in Occurrences(text, r.old) : a < b => b < a + Len(r.old)
  BY <1>6, <1>8, <1>9
<1> QED BY <1>1, <1>2, <1>3, <1>4, <1>6, <1>8, <1>10 DEF file, text, r, old

\* The edits of a file fit its text unless two overlap.
LEMMA EditsFit ==
  ASSUME IInv, NEW f \in DOMAIN snapshots, ~Overlap(f)
  PROVE  Fits(snapshots[f], EditsIn(f))
<1> USE DEF IInv
<1>1. snapshots[f] \in Text
  BY SnapshotIsText DEF AsRead
<1>2. IsFiniteSet(EditsIn(f))
  BY FS_Subset DEF EachOnce, EditsIn
<1>3. ASSUME NEW r \in EditsIn(f)
      PROVE  /\ r.start \in 1..Len(snapshots[f])
             /\ End(r) \in (r.start + 1)..(Len(snapshots[f]) + 1)
             /\ r.new \in Text
  <2>1. PICK i \in 1..pos : r = Resolution(i)
    BY DEF EditsIn, EachOnce
  <2>2. f = FileOf(edits[i].file)
    BY <2>1, ResolvedEdit DEF EditsIn
  <2>3. /\ Len(snapshots[f]) \in Nat /\ Len(r.old) \in Nat /\ Len(r.old) >= 1
        /\ r.start \in Nat /\ 1 <= r.start /\ End(r) <= Len(snapshots[f]) + 1
        /\ End(r) = r.start + Len(r.old)
        /\ r.new \in Text
    BY <2>1, <2>2, ResolvedEdit
  <2> QED BY <2>3
<1>4. \A r, s \in EditsIn(f) : r # s => ~(r.start <= s.start /\ s.start < End(r))
  BY DEF Overlap
<1> QED BY <1>1, <1>2, <1>3, <1>4 DEF Fits

-------------------------------------------------------------------------------
(* Steps.                                                                  *)

\* What depends on the inputs only stays.
LEMMA SameInputs ==
  ASSUME UNCHANGED inputs
  PROVE  /\ Files' = Files
         /\ \A i : /\ Resolution(i)' = Resolution(i)
                  /\ FileOf(edits[i].file)' = FileOf(edits[i].file)
                  /\ PathObjection(edits[i].file)' = PathObjection(edits[i].file)
         /\ \A f : SourceObjection(f)' = SourceObjection(f)
         /\ CleanInput' = CleanInput
<1>1. edits' = edits /\ disk' = disk /\ links' = links
  BY DEF inputs
<1>2. Files' = Files
  BY <1>1 DEF Files
<1>3. \A i : /\ FileOf(edits[i].file)' = FileOf(edits[i].file)
            /\ PathObjection(edits[i].file)' = PathObjection(edits[i].file)
  BY <1>1, <1>2 DEF FileOf, PathObjection
<1>4. \A i : Resolution(i)' = Resolution(i)
  BY <1>1, <1>3 DEF Resolution
<1>5. \A f : SourceObjection(f)' = SourceObjection(f)
  BY <1>1 DEF SourceObjection
<1>6. CleanInput' = CleanInput
  BY <1>1, <1>2 DEF CleanInput, Resolvable, Target, FileOf, PathObjection, SourceObjection
<1> QED BY <1>2, <1>3, <1>4, <1>5, <1>6

\* What the edits are refused for, before git is asked.
Refusals == {"too_many", "unsafe_path", "no_terraform_file", "unknown_file", "duplicate_edits",
             "symlink", "raised", "not_utf8", "edit_target_not_found",
             "edit_target_ambiguous", "overlapping_edits"}

\* What there is to object to an edit.
LEMMA Objections ==
  ASSUME NEW edit
  PROVE  Objection(edit) \in {"none"} \cup Refusals
BY DEF Objection, PathObjection, SourceObjection, TargetObjection, Refusals

\* An edit with no objection is of a file of the layout that can be read, has not
\* been resolved yet, and its target is clear.
LEMMA NoObjection ==
  ASSUME AsRead, NEW edit, Objection(edit) = "none"
  PROVE  LET file == FileOf(edit.file)
         IN  /\ PathObjection(edit.file) = "none" /\ file \in Files
             /\ SourceObjection(file) = "none"
             /\ SnapshotOf(file) = disk[Stripped(file)]
             /\ TargetObjection(disk[Stripped(file)], edit.old) = "none"
             /\ ~ \E r \in resolved : /\ r.file = file
                                     /\ r.old = edit.old /\ r.new = edit.new
<1> DEFINE file == FileOf(edit.file)
<1>1. PathObjection(edit.file) = "none" /\ file \in Files
  BY DEF Objection, PathObjection
<1>2. ~ \E r \in resolved : r.file = file /\ r.old = edit.old /\ r.new = edit.new
  BY DEF Objection
<1>3. SourceObjection(file) = "none"
  BY <1>1, <1>2 DEF Objection, AsRead
<1>4. SnapshotOf(file) = disk[Stripped(file)]
  BY DEF SnapshotOf, AsRead
<1>5. TargetObjection(SnapshotOf(file), edit.old) = "none"
  BY <1>1, <1>2, <1>3 DEF Objection
<1> QED BY <1>1, <1>2, <1>3, <1>4, <1>5

\* A refusal keeps everything but the outcome.
LEMMA Refused ==
  ASSUME IInv, NEW objection, Refuse(objection), ~CleanInput,
         objection \in Refusals
  PROVE  IInv'
<1> USE DEF IInv
<1>1. UNCHANGED inputs /\ UNCHANGED <<pos, snapshots, resolved, modified>> /\ outcome' = objection
  BY DEF Refuse
<1>2. /\ Files' = Files /\ CleanInput' = CleanInput
      /\ \A i : /\ Resolution(i)' = Resolution(i)
               /\ FileOf(edits[i].file)' = FileOf(edits[i].file)
               /\ PathObjection(edits[i].file)' = PathObjection(edits[i].file)
      /\ \A f : SourceObjection(f)' = SourceObjection(f)
  BY <1>1, SameInputs
<1>3. edits' = edits /\ disk' = disk /\ links' = links
  BY <1>1 DEF inputs
<1>4. Known'
  BY <1>1, <1>3 DEF Known, Refusals, UnsafeObjections, RepairableObjections
<1>5. EachOnce' /\ NoObjections' /\ AsRead'
  <2>1. EachOnce'
    BY <1>1, <1>2 DEF EachOnce
  <2>2. NoObjections'
    BY <1>1, <1>2, <1>3 DEF NoObjections
  <2>3. AsRead'
    BY <1>1, <1>2, <1>3 DEF AsRead
  <2> QED BY <2>1, <2>2, <2>3
<1>6. outcome' \notin {"built", "empty_edit", "not_serialized"}
  BY <1>1 DEF Refusals
<1> QED BY <1>2, <1>4, <1>5, <1>6 DEF Combined, CleanPasses

\* The target of an edit is where it is resolved to.
LEMMA TargetOfResolution ==
  ASSUME Known, NoObjections, AsRead, NEW i \in 1..pos
  PROVE  Target(edits[i]) = Resolution(i).start..(End(Resolution(i)) - 1)
<1> DEFINE r == Resolution(i)
<1>1. Target(edits[i]) = r.start..(r.start + Len(r.old) - 1)
  BY DEF Target, Resolution
<1>2. r.start \in Nat /\ Len(r.old) \in Nat /\ End(r) = r.start + Len(r.old)
  BY ResolvedEdit
<1> HIDE DEF r
<1>3. r.start + Len(r.old) - 1 = End(r) - 1
  BY <1>2
<1>4. Target(edits[i]) = r.start..(End(r) - 1)
  BY <1>1, <1>3
<1> QED BY <1>4 DEF r

\* There is nothing to object to an edit that keeps the rules.
LEMMA CleanHasNoObjection ==
  ASSUME IInv, CleanInput, pos < Len(edits)
  PROVE  Objection(edits[pos + 1]) = "none"
<1> USE DEF IInv
<1> DEFINE i == pos + 1
           edit == edits[i]
           file == FileOf(edit.file)
           text == disk[Stripped(file)]
           old  == edit.old
<1>1. /\ pos \in Nat /\ i \in 1..Len(edits) /\ 1..pos = 1..(i - 1)
      /\ old \in Text /\ old # <<>>
  BY KnownInputs DEF Known
<1>2. /\ PathObjection(edit.file) = "none" /\ SourceObjection(file) = "none"
      /\ Cardinality(Occurrences(text, old)) = 1
      /\ \A j \in 1..(i - 1) : file = FileOf(edits[j].file) => Target(edit) \cap Target(edits[j]) = {}
  BY <1>1 DEF CleanInput, Resolvable
<1>3. text \in Text
  BY <1>2, SnapshotIsText
<1>4. SnapshotOf(file) = text
  BY DEF SnapshotOf, AsRead
<1>5. \E o : Occurrences(text, old) = {o}
  <2>1. IsFiniteSet(Occurrences(text, old))
    <3> DEFINE top == Len(text) - Len(old) + 1
    <3>1. top \in Int
      BY <1>1, <1>3, LenProperties DEF Text
    <3>2. IsFiniteSet(1..top)
      <4> HIDE DEF top
      <4> QED BY <3>1, FS_Interval
    <3>3. Occurrences(text, old) \subseteq 1..top
      BY DEF Occurrences
    <3> QED BY <3>2, <3>3, FS_Subset
  <2> QED BY <1>2, <2>1, FS_Singleton
<1>6. PICK o : Occurrences(text, old) = {o}
  BY <1>5
<1> HIDE DEF text, old
<1>7. o \in Nat /\ Len(old) \in Nat /\ Len(old) >= 1 /\ Min(Occurrences(text, old)) = o
  BY <1>1, <1>3, <1>6, FirstOccurrence
<1>8. SeenAfter(text, old) = {}
  BY <1>6, <1>7 DEF SeenAfter
<1>9. TargetObjection(text, old) = "none"
  BY <1>6, <1>8 DEF TargetObjection
<1>10. ~ \E r \in resolved : r.file = file /\ r.old = old /\ r.new = edit.new
  <2> SUFFICES ASSUME NEW r \in resolved, r.file = file, r.old = old PROVE FALSE
    OBVIOUS
  <2>1. PICK j \in 1..pos : r = Resolution(j)
    BY DEF EachOnce
  <2>2. FileOf(edits[j].file) = file /\ edits[j].old = old
    BY <2>1, ResolvedEdit
  <2>3. Target(edits[j]) = Target(edit)
    BY <2>2 DEF Target, old
  <2>4. Target(edit) \cap Target(edits[j]) = {}
    BY <1>1, <1>2, <2>2
  <2>5. o \in Target(edit)
    <3>1. Target(edit) = o..(o + Len(old) - 1)
      BY <1>7 DEF Target, old, text
    <3> HIDE DEF edit
    <3> QED BY <1>7, <3>1
  <2> HIDE DEF edit
  <2> QED BY <2>3, <2>4, <2>5
<1> HIDE DEF file
<1> QED
  <2> DEFINE source == IF file \in DOMAIN snapshots THEN "none" ELSE SourceObjection(file)
  <2>1. source = "none"
    BY <1>2
  <2> QED BY <1>2, <1>4, <1>9, <1>10 DEF Objection, file, old

\* Edits that keep the rules do not overlap.
LEMMA CleanDoesNotOverlap ==
  ASSUME IInv, CleanInput, pos = Len(edits), NEW f \in DOMAIN snapshots
  PROVE  ~Overlap(f)
<1> USE DEF IInv
<1> SUFFICES ASSUME NEW r \in EditsIn(f), NEW s \in EditsIn(f),
                    r # s, r.start <= s.start, s.start < End(r)
             PROVE  FALSE
  BY DEF Overlap
<1>1. PICK i \in 1..pos : r = Resolution(i)
  BY DEF EditsIn, EachOnce
<1>2. PICK j \in 1..pos : s = Resolution(j)
  BY DEF EditsIn, EachOnce
<1>3. /\ FileOf(edits[i].file) = f /\ FileOf(edits[j].file) = f
      /\ r.start \in Nat /\ s.start \in Nat /\ End(r) \in Nat /\ End(s) \in Nat
      /\ s.start < End(s)
  <2>1. r.file = FileOf(edits[i].file) /\ s.file = FileOf(edits[j].file)
    BY <1>1, <1>2, ResolvedEdit
  <2>2. /\ r.start \in Nat /\ Len(r.old) \in Nat /\ End(r) = r.start + Len(r.old)
    BY <1>1, ResolvedEdit
  <2>3. /\ s.start \in Nat /\ Len(s.old) \in Nat /\ Len(s.old) >= 1
        /\ End(s) = s.start + Len(s.old)
    BY <1>2, ResolvedEdit
  <2> QED BY <2>1, <2>2, <2>3 DEF EditsIn
<1>4. Target(edits[i]) = r.start..(End(r) - 1) /\ Target(edits[j]) = s.start..(End(s) - 1)
  BY <1>1, <1>2, TargetOfResolution
<1>5. s.start \in Target(edits[i]) \cap Target(edits[j])
  BY <1>3, <1>4
<1>6. i # j /\ i \in 1..Len(edits) /\ j \in 1..Len(edits) /\ Len(edits) \in Nat
  BY <1>1, <1>2, KnownInputs
<1>7. CASE j < i
  <2>1. j \in 1..(i - 1)
    BY <1>6, <1>7
  <2>2. Target(edits[i]) \cap Target(edits[j]) = {}
    BY <1>3, <1>6, <2>1 DEF CleanInput
  <2> QED BY <1>5, <2>2
<1>8. CASE i < j
  <2>1. i \in 1..(j - 1)
    BY <1>6, <1>8
  <2>2. Target(edits[j]) \cap Target(edits[i]) = {}
    BY <1>3, <1>6, <2>1 DEF CleanInput
  <2> QED BY <1>5, <2>2
<1> QED BY <1>6, <1>7, <1>8

LEMMA InitInductive == Init => IInv
<1> SUFFICES ASSUME Init PROVE IInv
  OBVIOUS
<1>1. PICK input \in Inputs : edits = input.edits /\ disk = input.disk /\ links = input.links
  BY DEF Init
<1>2. [edits |-> edits, disk |-> disk, links |-> links] \in Inputs
  <2>1. input = [edits |-> input.edits, disk |-> input.disk, links |-> input.links]
    BY InputsAreInputs
  <2> QED BY <1>1, <2>1
<1>3. Len(edits) \in Nat
  <2>1. edits \in Seq(Edit)
    BY <1>1, InputsAreInputs
  <2> QED BY <2>1, LenProperties
<1>4. pos = 0 /\ resolved = {} /\ DOMAIN snapshots = {} /\ outcome = "building"
  <2>1. DOMAIN <<>> = {}
    BY EmptySeq
  <2> QED BY <2>1 DEF Init
<1>5. Known
  BY <1>2, <1>3, <1>4 DEF Known
<1>6. EachOnce
  BY <1>4, FS_EmptySet DEF EachOnce
<1>7. NoObjections /\ AsRead /\ Combined /\ CleanPasses
  BY <1>4 DEF NoObjections, AsRead, Combined, CleanPasses
<1> QED BY <1>5, <1>6, <1>7 DEF IInv

LEMMA TooManyInductive == IInv /\ TooMany => IInv'
<1> SUFFICES ASSUME IInv, TooMany PROVE IInv'
  OBVIOUS
<1>1. ~CleanInput
  <2>1. Len(edits) \in Nat /\ Len(edits) > MaxEdits
    BY KnownInputs DEF IInv, TooMany
  <2> QED BY <2>1, MaxEditsIsNatural DEF CleanInput
<1>2. Refuse("too_many") /\ "too_many" \in Refusals
  BY DEF TooMany, Refusals
<1> QED BY <1>1, <1>2, Refused

\* An edit that is resolved is one more, of a file that is now read.
LEMMA ResolveInductive == IInv /\ ResolveEdit => IInv'
<1> SUFFICES ASSUME IInv, ResolveEdit PROVE IInv'
  OBVIOUS
<1> USE DEF IInv
<1> DEFINE i == pos + 1
           edit == edits[i]
           file == FileOf(edit.file)
<1>0. /\ pos \in Nat /\ Len(edits) \in Nat /\ pos < Len(edits) /\ i \in 1..Len(edits)
      /\ outcome = "building"
  BY KnownInputs DEF Known, ResolveEdit
<1>1. CASE Objection(edit) # "none"
  <2>1. Refuse(Objection(edit)) /\ Objection(edit) \in Refusals
    BY <1>1, Objections DEF ResolveEdit
  <2>2. ~CleanInput
    BY <1>0, <1>1, CleanHasNoObjection
  <2> QED BY <2>1, <2>2, Refused
<1>2. CASE Objection(edit) = "none"
  <2>1. /\ pos' = i
        /\ snapshots' = [f \in DOMAIN snapshots \cup {file} |-> SnapshotOf(f)]
        /\ resolved' = resolved \cup
             {[file |-> file, old |-> edit.old, new |-> edit.new,
               start |-> Min(Occurrences(SnapshotOf(file), edit.old))]}
        /\ UNCHANGED inputs /\ UNCHANGED <<modified, outcome>>
    BY <1>2 DEF ResolveEdit
  <2>2. /\ PathObjection(edit.file) = "none" /\ file \in Files
        /\ SourceObjection(file) = "none"
        /\ SnapshotOf(file) = disk[Stripped(file)]
        /\ TargetObjection(disk[Stripped(file)], edit.old) = "none"
        /\ ~ \E r \in resolved : r.file = file /\ r.old = edit.old /\ r.new = edit.new
    BY <1>2, NoObjection
  <2>3. resolved' = resolved \cup {Resolution(i)} /\ Resolution(i) \notin resolved
    BY <2>1, <2>2 DEF Resolution
  <2>4. /\ Files' = Files /\ CleanInput' = CleanInput
        /\ \A k : /\ Resolution(k)' = Resolution(k)
                 /\ FileOf(edits[k].file)' = FileOf(edits[k].file)
                 /\ PathObjection(edits[k].file)' = PathObjection(edits[k].file)
        /\ \A f : SourceObjection(f)' = SourceObjection(f)
    BY <2>1, SameInputs
  <2>5. edits' = edits /\ disk' = disk /\ links' = links /\ outcome' = outcome
    BY <2>1 DEF inputs
  <2>6. 1..pos' = 1..pos \cup {i} /\ pos' \in Nat
    BY <1>0, <2>1
  <2>7. Known'
    BY <1>0, <2>1, <2>5 DEF Known
  <2>8. EachOnce'
    <3>1. resolved' = {Resolution(k) : k \in 1..pos'}
      <4> HIDE DEF i
      <4> QED BY <2>3, <2>6 DEF EachOnce
    <3>2. IsFiniteSet(resolved') /\ Cardinality(resolved') = pos'
      <4>1. IsFiniteSet(resolved) /\ Cardinality(resolved) = pos
        BY DEF EachOnce
      <4>2. /\ IsFiniteSet(resolved \cup {Resolution(i)})
            /\ Cardinality(resolved \cup {Resolution(i)}) = Cardinality(resolved) + 1
        BY <2>3, <4>1, FS_AddElement
      <4> QED BY <2>1, <2>3, <4>1, <4>2
    <3> QED BY <2>4, <3>1, <3>2 DEF EachOnce
  <2>9. NoObjections'
    <3>1. ASSUME NEW k \in 1..pos'
          PROVE  /\ PathObjection(edits[k].file) = "none"
                 /\ FileOf(edits[k].file) \in DOMAIN snapshots'
                 /\ TargetObjection(disk[Stripped(FileOf(edits[k].file))], edits[k].old) = "none"
      <4>1. CASE k \in 1..pos
        BY <2>1, <4>1 DEF NoObjections
      <4>2. CASE k = i
        BY <2>1, <2>2, <4>2
      <4> QED BY <2>6, <4>1, <4>2
    <3> QED BY <2>4, <2>5, <3>1 DEF NoObjections
  <2>10. AsRead'
    <3>1. ASSUME NEW f \in DOMAIN snapshots'
          PROVE  f \in Files /\ SourceObjection(f) = "none" /\ snapshots'[f] = disk[Stripped(f)]
      <4>1. snapshots'[f] = SnapshotOf(f)
        BY <2>1
      <4>2. CASE f \in DOMAIN snapshots
        BY <4>1, <4>2 DEF AsRead, SnapshotOf
      <4>3. CASE f = file
        BY <2>2, <4>1, <4>3
      <4> QED BY <2>1, <4>2, <4>3
    <3> QED BY <2>4, <2>5, <3>1 DEF AsRead
  <2>11. Combined' /\ CleanPasses'
    BY <1>0, <2>5 DEF Combined, CleanPasses
  <2> QED BY <2>7, <2>8, <2>9, <2>10, <2>11
<1> QED BY <1>1, <1>2

\* Edits that do not overlap are combined.
LEMMA CombineInductive == IInv /\ Combine => IInv'
<1> SUFFICES ASSUME IInv, Combine PROVE IInv'
  OBVIOUS
<1> USE DEF IInv
<1>1. outcome = "building" /\ pos = Len(edits)
  BY DEF Combine
<1>2. CASE \E f \in DOMAIN snapshots : Overlap(f)
  <2>1. Refuse("overlapping_edits") /\ "overlapping_edits" \in Refusals
    BY <1>2 DEF Combine, Refusals
  <2>2. ~CleanInput
    BY <1>1, <1>2, CleanDoesNotOverlap
  <2> QED BY <2>1, <2>2, Refused
<1>3. CASE ~ \E f \in DOMAIN snapshots : Overlap(f)
  <2> DEFINE texts == [f \in DOMAIN snapshots |-> Applied(f)]
  <2>1. /\ modified' = texts
        /\ outcome' \in {IF texts = snapshots THEN "empty_edit" ELSE "built", "not_serialized"}
        /\ UNCHANGED inputs /\ UNCHANGED <<pos, snapshots, resolved>>
    BY <1>3 DEF Combine
  <2>2. outcome' \in {"built", "empty_edit", "not_serialized"}
    <3> HIDE DEF texts
    <3> QED BY <2>1
  <2>3. /\ Files' = Files /\ CleanInput' = CleanInput
        /\ \A k : /\ Resolution(k)' = Resolution(k)
                 /\ FileOf(edits[k].file)' = FileOf(edits[k].file)
                 /\ PathObjection(edits[k].file)' = PathObjection(edits[k].file)
        /\ \A f : SourceObjection(f)' = SourceObjection(f)
    BY <2>1, SameInputs
  <2>4. /\ edits' = edits /\ disk' = disk /\ links' = links
        /\ pos' = pos /\ snapshots' = snapshots /\ resolved' = resolved
    BY <2>1 DEF inputs
  <2>5. Known'
    BY <2>2, <2>4 DEF Known, UnsafeObjections, RepairableObjections
  <2>6. EachOnce'
    BY <2>3, <2>4 DEF EachOnce
  <2>7. NoObjections'
    BY <2>3, <2>4 DEF NoObjections
  <2>8. AsRead'
    BY <2>3, <2>4 DEF AsRead
  <2>9. Combined'
    <3>1. \A f : Overlap(f)' = Overlap(f)
      BY <2>4 DEF Overlap, EditsIn
    <3>2. \A f : EditsIn(f)' = EditsIn(f)
      BY <2>4 DEF EditsIn
    <3>3. \A f \in DOMAIN snapshots : Applied(f) = Replaced(snapshots[f], EditsIn(f))
      BY <1>3, EditsFit, AppliedIsReplaced
    <3>4. modified' = [f \in DOMAIN snapshots |-> Replaced(snapshots[f], EditsIn(f))]
      BY <2>1, <3>3
    <3> QED BY <1>1, <1>3, <2>4, <3>1, <3>2, <3>4 DEF Combined
  <2>10. CleanPasses'
    BY <2>2 DEF CleanPasses
  <2> QED BY <2>5, <2>6, <2>7, <2>8, <2>9, <2>10
<1> QED BY <1>2, <1>3

\* Nothing changes when nothing is done.
LEMMA StutterInductive == IInv /\ UNCHANGED vars => IInv'
<1> SUFFICES ASSUME IInv, UNCHANGED vars PROVE IInv'
  OBVIOUS
<1>1. /\ edits' = edits /\ disk' = disk /\ links' = links /\ pos' = pos
      /\ snapshots' = snapshots /\ resolved' = resolved /\ modified' = modified
      /\ outcome' = outcome /\ UNCHANGED inputs
  BY DEF vars, inputs
<1>2. /\ Files' = Files /\ CleanInput' = CleanInput
      /\ \A k : /\ Resolution(k)' = Resolution(k)
               /\ FileOf(edits[k].file)' = FileOf(edits[k].file)
               /\ PathObjection(edits[k].file)' = PathObjection(edits[k].file)
      /\ \A f : SourceObjection(f)' = SourceObjection(f)
  BY <1>1, SameInputs
<1>3. Known' /\ EachOnce' /\ NoObjections' /\ AsRead' /\ CleanPasses'
  <2> USE DEF IInv
  <2>1. Known'
    BY <1>1 DEF Known
  <2>2. EachOnce'
    BY <1>1, <1>2 DEF EachOnce
  <2>3. NoObjections'
    BY <1>1, <1>2 DEF NoObjections
  <2>4. AsRead'
    BY <1>1, <1>2 DEF AsRead
  <2>5. CleanPasses'
    BY <1>1, <1>2 DEF CleanPasses
  <2> QED BY <2>1, <2>2, <2>3, <2>4, <2>5
<1>4. Combined'
  <2>1. \A f : Overlap(f)' = Overlap(f)
    BY <1>1 DEF Overlap, EditsIn
  <2>2. \A f : EditsIn(f)' = EditsIn(f)
    BY <1>1 DEF EditsIn
  <2> QED BY <1>1, <2>1, <2>2 DEF IInv, Combined
<1> QED BY <1>3, <1>4 DEF IInv

LEMMA Inductive == IInv /\ [Next]_vars => IInv'
BY TooManyInductive, ResolveInductive, CombineInductive, StutterInductive DEF Next

LEMMA Invariant == Spec => []IInv
BY InitInductive, Inductive, PTL DEF Spec

-------------------------------------------------------------------------------
(* Theorems.                                                               *)

\* Every construction keeps its state in its type: each resolved edit counts once,
\* and snapshots are taken of files of the checkout only.
THEOREM ConstructionTypeCorrect == Spec => []TypeOK
<1>1. ASSUME IInv PROVE DOMAIN snapshots \subseteq DOMAIN disk
  BY <1>1 DEF IInv, AsRead, Files
<1>2. IInv => TypeOK
  BY <1>1 DEF IInv, Known, EachOnce, TypeOK
<1> QED BY <1>2, Invariant, PTL

\* Whatever the texts and the edits, what is built by offsets from the bottom
\* upward is each text read from its top with every edit in place: every edit
\* of the model is applied once, where its target is, and no two of them claim the
\* same character.
THEOREM PatchIsBuiltAsReplaced == Spec => []BuiltAsReplaced
<1>1. ASSUME IInv PROVE BuiltAsReplaced
  <2> USE <1>1 DEF IInv
  <2> SUFFICES ASSUME outcome = "built"
               PROVE  /\ Cardinality(resolved) = Len(edits)
                      /\ \A r, s \in resolved : r # s /\ r.file = s.file =>
                           r.start # s.start /\ (r.start < s.start => End(r) <= s.start)
                      /\ \A f \in DOMAIN modified :
                           /\ modified[f] = Replaced(disk[Stripped(f)], EditsIn(f))
                           /\ \A r \in EditsIn(f) :
                                r.start \in Occurrences(disk[Stripped(f)], r.old)
    BY DEF BuiltAsReplaced
  <2>1. /\ pos = Len(edits)
        /\ \A f \in DOMAIN snapshots : ~Overlap(f)
        /\ modified = [f \in DOMAIN snapshots |-> Replaced(snapshots[f], EditsIn(f))]
    BY DEF Combined
  <2>2. ASSUME NEW r \in resolved
        PROVE  /\ r.file \in DOMAIN snapshots
               /\ r.start \in Nat /\ End(r) \in Nat /\ r.start < End(r)
               /\ r.start \in Occurrences(disk[Stripped(r.file)], r.old)
    <3>1. PICK i \in 1..pos : r = Resolution(i)
      BY DEF EachOnce
    <3>2. r.file = FileOf(edits[i].file) /\ r.file \in DOMAIN snapshots
      BY <3>1, ResolvedEdit
    <3>3. snapshots[r.file] = disk[Stripped(r.file)]
      BY <3>2 DEF AsRead
    <3>4. /\ r.start \in Occurrences(snapshots[r.file], r.old)
          /\ r.start \in Nat /\ Len(r.old) \in Nat /\ Len(r.old) >= 1
          /\ End(r) = r.start + Len(r.old)
      BY <3>1, <3>2, ResolvedEdit
    <3> QED BY <3>2, <3>3, <3>4
  <2>3. ASSUME NEW r \in resolved, NEW s \in resolved, r # s, r.file = s.file
        PROVE  r.start # s.start /\ (r.start < s.start => End(r) <= s.start)
    <3>1. ~Overlap(r.file) /\ r \in EditsIn(r.file) /\ s \in EditsIn(r.file)
      BY <2>1, <2>2, <2>3 DEF EditsIn
    <3>2. ~(r.start <= s.start /\ s.start < End(r))
      BY <2>3, <3>1 DEF Overlap
    <3>3. /\ r.start \in Nat /\ End(r) \in Nat /\ r.start < End(r) /\ s.start \in Nat
      BY <2>2
    <3> QED BY <3>2, <3>3
  <2>4. ASSUME NEW f \in DOMAIN modified
        PROVE  /\ modified[f] = Replaced(disk[Stripped(f)], EditsIn(f))
               /\ \A r \in EditsIn(f) : r.start \in Occurrences(disk[Stripped(f)], r.old)
    <3>1. f \in DOMAIN snapshots
      BY <2>1
    <3>2. modified[f] = Replaced(disk[Stripped(f)], EditsIn(f))
      BY <2>1, <3>1 DEF AsRead
    <3> QED BY <2>2, <3>2 DEF EditsIn
  <2> QED BY <2>1, <2>3, <2>4 DEF EachOnce
<1> QED BY <1>1, Invariant, PTL

\* Edits that keep the rules are refused only for what git says; those of unsafe
\* paths, and those whose targets occur apart, never reach it.
THEOREM CleanEditsAreBuilt == Spec => []OnlyCleanEditsAreBuilt
<1>1. ASSUME IInv PROVE OnlyCleanEditsAreBuilt
  <2> USE <1>1 DEF IInv
  <2>1. CleanInput => outcome \in {"building", "built", "empty_edit", "not_serialized"}
    BY DEF CleanPasses
  <2>2. ASSUME outcome \in {"built", "empty_edit", "not_serialized"}
        PROVE  /\ \A i \in 1..Len(edits) : PathObjection(edits[i].file) # "unsafe_path"
               /\ \A r \in resolved : \A i, j \in Occurrences(snapshots[r.file], r.old) :
                    i < j => j < i + Len(r.old)
    <3>1. pos = Len(edits)
      BY <2>2 DEF Combined
    <3>2. \A i \in 1..Len(edits) : PathObjection(edits[i].file) # "unsafe_path"
      BY <3>1 DEF NoObjections
    <3>3. ASSUME NEW r \in resolved
          PROVE  \A i, j \in Occurrences(snapshots[r.file], r.old) : i < j => j < i + Len(r.old)
      <4>1. PICK k \in 1..pos : r = Resolution(k)
        BY DEF EachOnce
      <4>2. r.file = FileOf(edits[k].file)
        BY <4>1, ResolvedEdit
      <4> QED BY <4>1, <4>2, ResolvedEdit
    <3> QED BY <3>2, <3>3
  <2> QED BY <2>1, <2>2 DEF OnlyCleanEditsAreBuilt, CleanInput
<1> QED BY <1>1, Invariant, PTL

-------------------------------------------------------------------------------
(* The check of the code.                                                  *)

\* The edits of a file in the order of their offsets, each once.
InOrder(list, f) ==
  /\ list \in Seq(EditsIn(f))
  /\ \A r \in EditsIn(f) : \E i \in 1..Len(list) : list[i] = r
  /\ \A i, j \in 1..Len(list) : i < j => list[i] # list[j] /\ list[i].start <= list[j].start

\* Where no two neighbours overlap, an edit ends before each later one starts.
LEMMA NeighboursKeepApart ==
  ASSUME NEW f, NEW list, InOrder(list, f),
         \A r \in EditsIn(f) : r.start \in Nat /\ End(r) \in Nat /\ r.start < End(r),
         \A i \in 1..(Len(list) - 1) : End(list[i]) <= list[i + 1].start,
         NEW i \in 1..Len(list), NEW j \in 1..Len(list), i < j
  PROVE  End(list[i]) <= list[j].start
<1> DEFINE bad == {k \in 1..Len(list) : i < k /\ ~(End(list[i]) <= list[k].start)}
<1>1. Len(list) \in Nat /\ \A k \in 1..Len(list) : list[k] \in EditsIn(f)
  BY LenProperties, ElementOfSeq DEF InOrder
<1>2. bad = {}
  <2> SUFFICES ASSUME bad # {} PROVE FALSE
    OBVIOUS
  <2>1. PICK k \in bad : \A l \in bad : k <= l
    <3> bad \subseteq Nat
      BY <1>1
    <3> HIDE DEF bad
    <3> QED BY LeastNumber
  <2>2. k \in 1..Len(list) /\ i < k /\ ~(End(list[i]) <= list[k].start)
    OBVIOUS
  <2>3. /\ k - 1 \in 1..(Len(list) - 1) /\ k - 1 \in 1..Len(list)
        /\ (k - 1) + 1 = k /\ ~(k <= k - 1)
    BY <1>1, <2>2
  <2>4. End(list[k - 1]) <= list[k].start
    BY <2>3
  <2>5. CASE i = k - 1
    BY <2>2, <2>4, <2>5
  <2>6. CASE i # k - 1
    <3>1. i < k - 1 /\ k - 1 \notin bad
      <4> HIDE DEF bad
      <4> QED BY <1>1, <2>1, <2>2, <2>3, <2>6
    <3>2. End(list[i]) <= list[k - 1].start
      BY <2>3, <3>1
    <3>3. /\ End(list[i]) \in Nat /\ list[k - 1].start \in Nat /\ End(list[k - 1]) \in Nat
          /\ list[k - 1].start < End(list[k - 1]) /\ list[k].start \in Nat
      BY <1>1, <2>2, <2>3
    <3> QED BY <2>2, <2>4, <3>2, <3>3
  <2> QED BY <2>5, <2>6
<1> QED BY <1>2

\* The code sorts the edits of a file and looks at neighbours only; that is enough
\* to see whether any two of its edits overlap.
THEOREM NeighboursShowOverlap ==
  ASSUME IInv, NEW f, NEW list, InOrder(list, f)
  PROVE  Overlap(f) <=> \E i \in 1..(Len(list) - 1) : list[i + 1].start < End(list[i])
<1>1. Len(list) \in Nat /\ \A k \in 1..Len(list) : list[k] \in EditsIn(f)
  BY LenProperties, ElementOfSeq DEF InOrder
<1>2. ASSUME NEW r \in EditsIn(f)
      PROVE  r.start \in Nat /\ End(r) \in Nat /\ r.start < End(r)
  <2>1. PICK i \in 1..pos : r = Resolution(i)
    BY DEF IInv, EachOnce, EditsIn
  <2>2. r.start \in Nat /\ Len(r.old) \in Nat /\ Len(r.old) >= 1 /\ End(r) = r.start + Len(r.old)
    BY <2>1, ResolvedEdit DEF IInv
  <2> QED BY <2>2
<1>3. ASSUME NEW i \in 1..(Len(list) - 1), list[i + 1].start < End(list[i]) PROVE Overlap(f)
  <2>1. i \in 1..Len(list) /\ i + 1 \in 1..Len(list) /\ i < i + 1
    BY <1>1
  <2>2. list[i] # list[i + 1] /\ list[i].start <= list[i + 1].start
    BY <2>1 DEF InOrder
  <2>3. list[i] \in EditsIn(f) /\ list[i + 1] \in EditsIn(f)
    BY <1>1, <2>1
  <2> QED BY <1>3, <2>2, <2>3 DEF Overlap
<1>4. ASSUME Overlap(f), \A i \in 1..(Len(list) - 1) : ~(list[i + 1].start < End(list[i]))
      PROVE  FALSE
  <2>1. \A i \in 1..(Len(list) - 1) : End(list[i]) <= list[i + 1].start
    <3> SUFFICES ASSUME NEW i \in 1..(Len(list) - 1) PROVE End(list[i]) <= list[i + 1].start
      OBVIOUS
    <3>1. i \in 1..Len(list) /\ i + 1 \in 1..Len(list)
      BY <1>1
    <3>2. End(list[i]) \in Nat /\ list[i + 1].start \in Nat
      BY <1>1, <1>2, <3>1
    <3> QED BY <1>4, <3>2
  <2>2. PICK r \in EditsIn(f), s \in EditsIn(f) : r # s /\ r.start <= s.start /\ s.start < End(r)
    BY <1>4 DEF Overlap
  <2>3. PICK i \in 1..Len(list) : list[i] = r
    BY DEF InOrder
  <2>4. PICK j \in 1..Len(list) : list[j] = s
    BY DEF InOrder
  <2>5. CASE i < j
    <3>1. End(r) <= s.start
      BY <1>2, <2>1, <2>3, <2>4, <2>5, NeighboursKeepApart
    <3> QED BY <1>2, <2>2, <3>1
  <2>6. CASE j < i
    <3>1. End(s) <= r.start
      BY <1>2, <2>1, <2>3, <2>4, <2>6, NeighboursKeepApart
    <3>2. s.start < End(s) /\ s.start \in Nat /\ End(s) \in Nat /\ r.start \in Nat
      BY <1>2
    <3> QED BY <2>2, <3>1, <3>2
  <2>7. i # j
    BY <2>2, <2>3, <2>4
  <2> QED BY <1>1, <2>5, <2>6, <2>7
<1> QED BY <1>3, <1>4
=============================================================================
