------------------------- MODULE ContextBuilder_proofs -------------------------
(***************************************************************************)
(* What the context builder guarantees for every set of sources, failure,  *)
(* diff and limits: its budget, the excerpts, the symbols and the block in *)
(* focus.                                                                  *)
(***************************************************************************)
EXTENDS ContextBuilder, FiniteSetTheorems, WellFoundedInduction, TLAPS

-------------------------------------------------------------------------------
(* Numbers and blocks.                                                     *)

LEMMA LeastNumber ==
  ASSUME NEW S, S \subseteq Nat, S # {}
  PROVE  Least(S) \in S /\ \A n \in S : Least(S) <= n
<1> DEFINE segments == {0..m : m \in S}
<1>1. segments \subseteq FiniteSubsetsOf(Nat) /\ segments # {}
  <2>1. \A m \in Nat : 0..m \in FiniteSubsetsOf(Nat)
    <3> SUFFICES ASSUME NEW m \in Nat PROVE 0..m \in FiniteSubsetsOf(Nat)
      OBVIOUS
    <3>1. IsFiniteSet(0..m) /\ 0..m \subseteq Nat
      BY FS_Interval
    <3> QED BY <3>1 DEF FiniteSubsetsOf
  <2>2. ASSUME NEW x \in segments PROVE x \in FiniteSubsetsOf(Nat)
    BY <2>1, <2>2
  <2> QED BY <2>2
<1>2. \E x \in segments : \A y \in segments : <<y, x>> \notin StrictSubsetOrdering(Nat)
  <2> HIDE DEF segments
  <2> QED BY <1>1, FS_StrictSubsetOrderingWellFounded, WFMin
<1>3. PICK m \in S : \A n \in S : <<0..n, 0..m>> \notin StrictSubsetOrdering(Nat)
  BY <1>2
<1>4. ASSUME NEW n \in S, n < m PROVE FALSE
  <2>1. 0..n \subseteq 0..m /\ m \notin 0..n /\ m \in 0..m
    BY <1>4
  <2>2. 0..n \in SUBSET Nat /\ 0..m \in SUBSET Nat
    OBVIOUS
  <2> QED BY <1>3, <2>1, <2>2 DEF StrictSubsetOrdering
<1>5. \A n \in S : m <= n
  BY <1>4
<1> QED BY <1>5 DEF Least

LEMMA GreatestNumber ==
  ASSUME NEW k \in Nat, NEW S, S \subseteq 0..k, S # {}
  PROVE  Greatest(S) \in S /\ \A n \in S : Greatest(S) >= n
<1> DEFINE gaps == {k - n : n \in S}
<1>1. Least(gaps) \in gaps /\ \A g \in gaps : Least(gaps) <= g
  <2>1. gaps \subseteq Nat /\ gaps # {}
    <3>1. \A n \in S : k - n \in Nat
      OBVIOUS
    <3> QED BY <3>1
  <2> HIDE DEF gaps
  <2> QED BY <2>1, LeastNumber
<1>2. PICK n \in S : \A m \in S : k - n <= k - m
  BY <1>1
<1>3. \A m \in S : n >= m
  BY <1>2
<1> QED BY <1>3 DEF Greatest

\* Offsets grow, and with them the excerpts.
LEMMA Block ==
  ASSUME NEW b \in Blocks
  PROVE  /\ Last(b) \in Nat /\ Last(b) >= 1 /\ Start[b] \in Nat
         /\ \A lo, hi \in 1..Last(b) : lo <= hi =>
              /\ Size(b, lo, hi) \in Nat /\ Size(b, lo, hi) > 0
              /\ lo < hi => Size(b, lo, hi) > 1
              /\ lo > 1 => Size(b, lo - 1, hi) > Size(b, lo, hi)
              /\ hi < Last(b) => Size(b, lo, hi + 1) > Size(b, lo, hi)
         /\ Size(b, 1, Last(b)) > 1
<1> DEFINE o == Offsets[b]
<1>1. /\ o \in Seq(Nat) /\ Len(o) >= 2
      /\ \A i, j \in 1..Len(o) : i < j => o[i] < o[j]
      /\ Size(b, 1, Last(b)) > 1 /\ Start[b] \in Nat
  BY BlocksHaveLines
<1>2. Len(o) \in Nat /\ \A i \in 1..Len(o) : o[i] \in Nat
  BY <1>1
<1>3. Last(b) \in Nat /\ Last(b) >= 1 /\ Len(o) = Last(b) + 1
  BY <1>1, <1>2 DEF Last
<1> HIDE DEF o
<1>4. ASSUME NEW lo \in 1..Last(b), NEW hi \in 1..Last(b), lo <= hi
      PROVE  /\ o[hi + 1] - o[lo] \in Nat /\ o[hi + 1] - o[lo] > 0
             /\ lo < hi => o[hi + 1] - o[lo] > 1
             /\ lo > 1 => o[hi + 1] - o[lo - 1] > o[hi + 1] - o[lo]
             /\ hi < Last(b) => o[hi + 1 + 1] - o[lo] > o[hi + 1] - o[lo]
  <2>1. o[lo] \in Nat /\ o[hi + 1] \in Nat /\ o[hi] \in Nat /\ o[lo] < o[hi + 1]
    BY <1>1, <1>2, <1>3, <1>4
  <2>2. lo < hi => o[lo] < o[hi] /\ o[hi] < o[hi + 1]
    BY <1>1, <1>3, <1>4
  <2>3. lo > 1 => o[lo - 1] \in Nat /\ o[lo - 1] < o[lo]
    BY <1>1, <1>2, <1>3, <1>4
  <2>4. hi < Last(b) => o[hi + 1 + 1] \in Nat /\ o[hi + 1] < o[hi + 1 + 1]
    BY <1>1, <1>2, <1>3, <1>4
  <2> QED BY <2>1, <2>2, <2>3, <2>4
<1> QED BY <1>1, <1>3, <1>4 DEF Size, o

-------------------------------------------------------------------------------
(* Excerpts.                                                               *)

\* What holds of an excerpt from its first line on.
Sound(e) ==
  /\ e \in Excerpt
  /\ e.focus \in e.low..e.high
  /\ e.high <= Last(e.block)
  /\ ~e.cut => e.low = 1 /\ e.high = Last(e.block)
  /\ ~e.cut \/ ~OneLine(e) => Extent(e) <= e.max

\* What FinishExcerpt makes of it.
Maximal(e) == /\ Sound(e)
              /\ e.cut => ~FitsBelow(e) /\ ~FitsAbove(e)

LEMMA ExcerptSize ==
  ASSUME NEW e, Sound(e)
  PROVE  /\ e.low \in 1..Last(e.block) /\ e.high \in 1..Last(e.block) /\ e.low <= e.high
         /\ e.block \in Blocks /\ e.max \in Nat /\ e.focus \in Nat
         /\ Extent(e) \in Nat /\ Extent(e) > 0
<1>1. /\ e.low \in Nat \ {0} /\ e.high \in Nat \ {0} /\ e.focus \in Nat \ {0}
      /\ e.block \in Blocks /\ e.max \in Nat
  BY DEF Sound, Excerpt
<1>2. Last(e.block) \in Nat
  BY <1>1, Block
<1>3. e.low \in 1..Last(e.block) /\ e.high \in 1..Last(e.block) /\ e.low <= e.high
  BY <1>1, <1>2 DEF Sound
<1> QED BY <1>1, <1>3, Block DEF Extent

LEMMA FirstLineIsSound ==
  ASSUME NEW b \in Blocks, NEW role \in {"resource", "supporting"},
         NEW focus \in 1..Last(b), NEW max \in Nat
  PROVE  LET e == ExcerptOf(b, role, focus, max)
         IN Sound(e) /\ e.block = b /\ e.role = role /\ e.focus = focus /\ e.max = max
<1> DEFINE e == ExcerptOf(b, role, focus, max)
<1>1. Last(b) \in Nat /\ Last(b) >= 1 /\ Size(b, 1, Last(b)) \in Nat
  BY Block
<1>2. /\ e.block = b /\ e.role = role /\ e.focus = focus /\ e.max = max
      /\ e.cut = (Size(b, 1, Last(b)) > max)
      /\ e.low = (IF e.cut THEN focus ELSE 1)
      /\ e.high = (IF e.cut THEN focus ELSE Last(b))
  BY DEF ExcerptOf
<1>3. e \in Excerpt
  BY <1>1 DEF ExcerptOf, Excerpt
<1> HIDE DEF e
<1>4. ASSUME e.cut PROVE Sound(e)
  <2>1. e.low = focus /\ e.high = focus /\ OneLine(e)
    BY <1>2, <1>4 DEF OneLine
  <2>2. focus \in Nat /\ focus \in focus..focus /\ focus <= Last(b)
    BY <1>1
  <2> QED BY <1>2, <1>3, <1>4, <2>1, <2>2 DEF Sound
<1>5. ASSUME ~e.cut PROVE Sound(e)
  <2>1. e.low = 1 /\ e.high = Last(b) /\ focus \in 1..Last(b)
    BY <1>2, <1>5
  <2>2. Extent(e) = Size(b, 1, Last(b)) /\ ~(Size(b, 1, Last(b)) > max)
    BY <1>2, <1>5, <2>1 DEF Extent
  <2>3. Extent(e) <= max /\ Last(b) <= Last(b)
    BY <1>1, <2>2
  <2> QED BY <1>2, <1>3, <1>5, <2>1, <2>3 DEF Sound
<1>6. Sound(e)
  BY <1>4, <1>5
<1> QED BY <1>2, <1>6 DEF e

LEMMA GrownIsSound ==
  ASSUME NEW e, Sound(e), Growing(e)
  PROVE  /\ Sound(Grown(e))
         /\ Grown(e).block = e.block /\ Grown(e).role = e.role /\ Grown(e).max = e.max
<1> DEFINE f == [e EXCEPT !.low = IF FitsBelow(e) THEN @ - 1 ELSE @]
           g == Grown(e)
<1>0. g = [f EXCEPT !.high = IF FitsAbove(f) THEN @ + 1 ELSE @]
  BY DEF Grown
<1>1. /\ e.low \in 1..Last(e.block) /\ e.high \in 1..Last(e.block) /\ e.low <= e.high
      /\ e.block \in Blocks /\ e.max \in Nat /\ e \in Excerpt /\ e.cut
  BY ExcerptSize DEF Sound, Growing
<1>2. /\ f \in Excerpt /\ f.block = e.block /\ f.role = e.role /\ f.focus = e.focus
      /\ f.max = e.max /\ f.cut /\ f.high = e.high
      /\ f.low = IF FitsBelow(e) THEN e.low - 1 ELSE e.low
  BY <1>1 DEF Excerpt, FitsBelow
<1> HIDE DEF f, g
<1>3. /\ g \in Excerpt
  <2>1. f.high \in Nat \ {0} /\ f.high + 1 \in Nat \ {0}
    BY <1>1, <1>2, Block
  <2> QED BY <1>0, <1>2, <2>1 DEF Excerpt
<1>4. /\ g.block = e.block /\ g.role = e.role /\ g.focus = e.focus
      /\ g.max = e.max /\ g.cut /\ g.low = f.low
      /\ g.high = IF FitsAbove(f) THEN e.high + 1 ELSE e.high
  BY <1>0, <1>1, <1>2 DEF Excerpt
<1>5. Last(e.block) \in Nat
  BY <1>1, Block
<1>6. g.focus \in g.low..g.high /\ g.high <= Last(g.block)
  BY <1>1, <1>2, <1>4, <1>5 DEF Sound, FitsAbove, FitsBelow, Excerpt
<1>7. Extent(g) <= g.max
  <2>1. CASE FitsAbove(f)
    BY <1>2, <1>4, <2>1 DEF FitsAbove, Extent
  <2>2. CASE ~FitsAbove(f) /\ FitsBelow(e)
    BY <1>2, <1>4, <2>2 DEF FitsBelow, Extent
  <2>3. CASE ~FitsAbove(f) /\ ~FitsBelow(e)
    <3>1. FitsAbove(f) <=> FitsAbove(e)
      BY <1>2, <2>3 DEF FitsAbove
    <3> QED BY <2>3, <3>1 DEF Growing
  <2> QED BY <2>1, <2>2, <2>3
<1>8. Sound(g)
  BY <1>3, <1>4, <1>6, <1>7 DEF Sound
<1> QED BY <1>4, <1>8 DEF g

LEMMA GrownOutIsMaximal ==
  ASSUME NEW e, Sound(e), ~Growing(e)
  PROVE  Maximal(e)
<1>1. CASE ~e.cut \/ (~FitsBelow(e) /\ ~FitsAbove(e))
  BY <1>1 DEF Maximal
<1>2. CASE e.cut /\ ~(Extent(e) < e.max)
  <2>1. /\ e.low \in 1..Last(e.block) /\ e.high \in 1..Last(e.block) /\ e.low <= e.high
        /\ e.block \in Blocks /\ e.max \in Nat /\ Extent(e) \in Nat
    BY ExcerptSize
  <2>2. Extent(e) >= e.max
    BY <1>2, <2>1
  <2>3. /\ e.low > 1 => Size(e.block, e.low - 1, e.high) > Extent(e)
        /\ e.high < Last(e.block) => Size(e.block, e.low, e.high + 1) > Extent(e)
    BY <2>1, Block DEF Extent
  <2>4. e.low > 1 => Size(e.block, e.low - 1, e.high) \in Nat
    BY <2>1, Block
  <2>5. e.high < Last(e.block) => Size(e.block, e.low, e.high + 1) \in Nat
    BY <2>1, Block
  <2> QED BY <2>1, <2>2, <2>3, <2>4, <2>5 DEF Maximal, FitsBelow, FitsAbove
<1> QED BY <1>1, <1>2 DEF Growing

-------------------------------------------------------------------------------
(* The invariant.                                                          *)

Picks == [size : Nat, taken : SUBSET Nat, distance : Nat, left : SUBSET Nat]

\* Excerpts are sound while they grow and maximal when they are shown.
ShapeInv == /\ pc = "grow" => Sound(excerpt)
            /\ \A i \in DOMAIN shown : Maximal(shown[i])

\* What is picked of a hunk fits, and costs something once a line is in it.
PickInv == pc = "offer" =>
             /\ pick \in Picks
             /\ hunk <= Len(diff.hunks)
             /\ pick.left \subseteq DOMAIN diff.hunks[hunk].body
             /\ pick.size <= ceiling - used
             /\ pick.taken # {} => pick.size > 0

Supporting == pc = "grow" /\ excerpt.role = "supporting"

\* No section may spend past the total, or past what was spent when it began;
\* an excerpt has what was left for it, and a definition is not begun without.
BudgetInv ==
  /\ pc # "done" => characters = 0
  /\ pc \in {"hunk", "offer", "symbol"} \/ Supporting => ceiling <= Larger(lim.total, used)
  /\ pc = "grow" =>
       /\ excerpt.role = "resource" => excerpt.max <= Larger(lim.total - used, 1)
       /\ excerpt.role = "supporting" => excerpt.max <= ceiling - used /\ used < ceiling

\* Every reference is in one of three sets, and a resolved one is shown or
\* about to be.
SymbolInv ==
  /\ pc \in {"rank", "raised", "failure", "resource", "hunk", "offer"} \/ (pc = "grow" /\ ~Supporting) =>
       pending = {} /\ resolved = {} /\ unresolved = {}
  /\ pc \in {"symbol", "metadata", "done"} \/ Supporting =>
       /\ pending \cup resolved \cup unresolved = References
       /\ resolved \cap unresolved = {}
       /\ pending \cap (resolved \cup unresolved) = {}
  /\ pc \in {"metadata", "done"} => pending = {}
  /\ \A r \in resolved :
       /\ r \in Refs /\ Defined(r)
       /\ \/ \E i \in DOMAIN shown : shown[i].block = Target[r].block
          \/ pc = "grow" /\ excerpt.block = Target[r].block

\* A block the diagnostic speaks of comes first.
Foremost(e) == /\ Named => e.block = failure.address
               /\ \A b \in Resources : ~Named /\ DiagnosedIn(b) => e.block = b

FocusInv ==
  /\ pc \in {"rank", "raised", "failure"} => shown = <<>>
  /\ shown # <<>> => Foremost(shown[1])
  /\ pc = "grow" /\ shown = <<>> /\ ~Supporting => Foremost(excerpt)
  /\ pc \in {"hunk", "offer", "symbol", "metadata", "done"} \/ Supporting =>
       /\ Named => shown # <<>>
       /\ \A b \in Resources : ~Named /\ DiagnosedIn(b) => shown # <<>> /\ ~Ambiguous

IInv == TypeOK /\ ShapeInv /\ PickInv /\ BudgetInv /\ SymbolInv /\ FocusInv

LEMMA InitIInv == Init => IInv
<1> SUFFICES ASSUME Init PROVE IInv
  OBVIOUS
<1>1. TypeOK
  BY DEF Init, TypeOK, Sections
<1>2. BudgetInv
  <2>1. lim.total \in Nat
    BY InputsAreInputs DEF Init, Limits
  <2> QED BY <2>1 DEF Init, BudgetInv, Supporting
<1>3. ShapeInv /\ PickInv /\ SymbolInv /\ FocusInv
  BY DEF Init, ShapeInv, PickInv, SymbolInv, FocusInv, Supporting
<1> QED BY <1>1, <1>2, <1>3 DEF IInv

-------------------------------------------------------------------------------
(* The inputs, and what is computed from them alone.                       *)

LEMMA Inputs ==
  ASSUME TypeOK
  PROVE  /\ failure.fixed \in Nat /\ failure.line \in Nat
         /\ failure.detail \in Seq(Nat) /\ failure.detail # <<>>
         /\ failure.address \in Resources \cup {NoBlock, Foreign}
         /\ lim.total \in Nat /\ lim.diagnostic \in Nat /\ lim.resource \in Nat
         /\ lim.diff \in Nat /\ lim.supporting \in Nat /\ lim.candidates \in Nat
         /\ diff.hunks \in Seq(Hunk)
<1>1. failure \in Failure /\ diff \in Diff /\ lim \in Limits
  BY InputsAreInputs DEF TypeOK
<1> QED BY <1>1 DEF Failure, Diff, Limits

LEMMA HunkType ==
  ASSUME TypeOK, hunk <= Len(diff.hunks)
  PROVE  /\ diff.hunks[hunk].size \in Nat /\ diff.hunks[hunk].head \in Nat
         /\ DOMAIN diff.hunks[hunk].body \subseteq Nat
         /\ \A i \in DOMAIN diff.hunks[hunk].body :
              diff.hunks[hunk].body[i].size \in Nat \ {0}
<1>1. diff.hunks[hunk] \in Hunk
  BY Inputs DEF TypeOK
<1> DEFINE body == diff.hunks[hunk].body
           Lines == [size : Nat \ {0}, changed : BOOLEAN]
<1>2. body \in Seq(Lines)
  BY <1>1 DEF Hunk
<1>3. diff.hunks[hunk].size \in Nat /\ diff.hunks[hunk].head \in Nat
  BY <1>1 DEF Hunk
<1> HIDE DEF body
<1>4. DOMAIN body = 1..Len(body) /\ Len(body) \in Nat
  BY <1>2
<1>5. \A i \in DOMAIN body : body[i] \in Lines
  <2> HIDE DEF Lines
  <2> QED BY <1>2, <1>4
<1>6. DOMAIN body \subseteq Nat /\ \A i \in DOMAIN body : body[i].size \in Nat \ {0}
  BY <1>4, <1>5
<1> QED BY <1>3, <1>6 DEF body

LEMMA FailureSizeType ==
  ASSUME TypeOK
  PROVE  FailureSize \in Nat /\ FailureSize <= Larger(failure.fixed, lim.diagnostic)
<1> DEFINE offsets == failure.detail
<1>1. /\ Available \in Nat
      /\ failure.fixed + Available = Larger(failure.fixed, lim.diagnostic)
  BY Inputs DEF Available, Larger
<1>2. offsets \in Seq(Nat) /\ Len(offsets) \in 1..Len(offsets) /\ Length(offsets) \in Nat
  BY Inputs DEF Length
<1>3. BoundedText(offsets, Available) \in 0..Available
  <2> DEFINE whole == {offsets[i] : i \in 2..Len(offsets)} \cap 0..Available
  <2>1. ASSUME whole # {} PROVE Greatest(whole) \in 0..Available
    <3>1. whole \subseteq 0..Available
      OBVIOUS
    <3> HIDE DEF whole
    <3>2. Greatest(whole) \in whole
      BY <1>1, <2>1, <3>1, GreatestNumber
    <3> QED BY <3>1, <3>2, Zenon
  <2> QED BY <1>1, <1>2, <2>1 DEF BoundedText
<1>4. failure.fixed \in Nat
  BY Inputs
<1> HIDE DEF offsets
<1>5. FailureSize = failure.fixed + BoundedText(offsets, Available)
  BY DEF FailureSize, offsets
<1> QED BY <1>1, <1>3, <1>4, <1>5

LEMMA FocusIsALine ==
  ASSUME TypeOK, NEW b \in Blocks
  PROVE  Focus(b) \in 1..Last(b)
<1>1. Last(b) \in Nat /\ Last(b) >= 1 /\ Start[b] \in Nat
  BY Block
<1>2. \A l \in FocusLines(b) : l \in Nat /\ Within(b, l)
  BY <1>1, Inputs DEF FocusLines, ChangedIn, DiagnosedIn
<1>3. CASE FocusLines(b) = {}
  BY <1>1, <1>3 DEF Focus
<1>4. CASE FocusLines(b) # {}
  <2>1. Least(FocusLines(b)) \in FocusLines(b)
    BY <1>2, <1>4, LeastNumber
  <2>2. Least(FocusLines(b)) \in Nat /\ Within(b, Least(FocusLines(b)))
    BY <1>2, <2>1
  <2>3. Focus(b) = Least(FocusLines(b)) - Start[b] + 1
    BY <1>4 DEF Focus
  <2> QED BY <1>1, <2>2, <2>3 DEF Within
<1> QED BY <1>3, <1>4

LEMMA BestIsBest ==
  ASSUME NEW S, S \subseteq Resources, S # {}
  PROVE  Best(S) \in S /\ \A a \in S \ {Best(S)} : Before(Best(S), a)
<1> DEFINE points == {Score(a) : a \in S}
<1>1. \A a : Score(a) \in 0..230
  BY DEF Score
<1>2. Greatest(points) \in points /\ \A n \in points : Greatest(points) >= n
  <2>1. points \subseteq 0..230 /\ points # {}
    BY <1>1
  <2> HIDE DEF points
  <2> QED BY <2>1, GreatestNumber
<1>3. PICK top \in S : \A a \in S : Score(top) >= Score(a)
  BY <1>2
<1> DEFINE tops == {a \in S : Score(a) = Score(top)}
<1>4. Least(tops) \in tops /\ \A a \in tops : Least(tops) <= a
  <2>1. tops \subseteq Nat /\ tops # {}
    BY BlocksAreNumbers
  <2> HIDE DEF tops
  <2> QED BY <2>1, LeastNumber
<1>5. PICK b \in tops : \A a \in tops : b <= a
  BY <1>4
<1>6. \A a \in S \ {b} : Before(b, a)
  <2> SUFFICES ASSUME NEW a \in S \ {b} PROVE Before(b, a)
    OBVIOUS
  <2>1. Score(b) = Score(top) /\ Score(a) \in Nat /\ Score(top) \in Nat /\ Score(top) >= Score(a)
    BY <1>1, <1>3
  <2>2. a \in Nat /\ b \in Nat /\ a # b
    BY BlocksAreNumbers
  <2>3. Score(a) = Score(top) => b < a
    BY <1>5, <2>2
  <2> QED BY <2>1, <2>3 DEF Before
<1>7. \E c \in S : \A a \in S \ {c} : Before(c, a)
  BY <1>6
<1> HIDE DEF points, tops
<1> QED BY <1>7 DEF Best

LEMMA Wanted ==
  ASSUME TypeOK, StillWanted # {}
  PROVE  LET b == IF Named THEN failure.address ELSE Best(StillWanted)
         IN b \in Resources /\ (~Named => b \in Candidates)
<1>1. CASE Named
  BY <1>1 DEF Named
<1>2. CASE ~Named
  <2>1. StillWanted \subseteq Candidates /\ Candidates \subseteq Resources
    BY <1>2 DEF StillWanted, Candidates
  <2>2. Best(StillWanted) \in StillWanted
    BY <2>1, BestIsBest
  <2> QED BY <1>2, <2>1, <2>2
<1> QED BY <1>1, <1>2

\* The excerpt TakeResource starts with.
LEMMA TakenIsSound ==
  ASSUME TypeOK, TakeResource
  PROVE  LET b == IF Named THEN failure.address ELSE Best(StillWanted)
         IN /\ b \in Resources
            /\ Sound(excerpt') /\ excerpt'.block = b /\ excerpt'.role = "resource"
            /\ excerpt'.max <= Larger(lim.total - used, 1)
<1> DEFINE b == IF Named THEN failure.address ELSE Best(StillWanted)
           max == Smaller(lim.resource, Larger(lim.total - used, 1))
<1>1. b \in Resources /\ b \in Blocks
  BY Wanted, BlocksAreNumbers DEF TakeResource
<1>2. max \in Nat /\ max <= Larger(lim.total - used, 1)
  BY Inputs DEF TypeOK, Smaller, Larger
<1>3. Focus(b) \in 1..Last(b)
  BY <1>1, FocusIsALine
<1>4. excerpt' = ExcerptOf(b, "resource", Focus(b), max)
  BY DEF TakeResource
<1> HIDE DEF b, max
<1>5. /\ Sound(excerpt') /\ excerpt'.block = b /\ excerpt'.role = "resource"
      /\ excerpt'.max = max
  BY <1>1, <1>2, <1>3, <1>4, FirstLineIsSound
<1> QED BY <1>1, <1>2, <1>5 DEF b

\* The excerpt of a definition.
LEMMA DefinitionIsSound ==
  ASSUME TypeOK, NEW r \in Refs, Defined(r), used < ceiling,
         NEW e, e = ExcerptOf(Target[r].block, "supporting", Target[r].line, ceiling - used)
  PROVE  Sound(e) /\ e.block = Target[r].block /\ e.role = "supporting" /\ e.max = ceiling - used
<1>1. Target[r].block \in Blocks /\ Target[r].line \in 1..Last(Target[r].block)
  BY SymbolsHaveTargets DEF Defined
<1>2. ceiling - used \in Nat
  BY DEF TypeOK
<1> QED BY <1>1, <1>2, FirstLineIsSound

LEMMA ReferencesAreRefs == References \subseteq Refs
BY SymbolsHaveTargets DEF References

-------------------------------------------------------------------------------
(* The steps.                                                              *)

LEMMA GrowKeeps ==
  ASSUME ShapeInv, Grow
  PROVE  /\ Sound(excerpt')
         /\ excerpt'.block = excerpt.block /\ excerpt'.role = excerpt.role
         /\ excerpt'.max = excerpt.max
<1>1. Sound(excerpt) /\ Growing(excerpt) /\ excerpt' = Grown(excerpt)
  BY DEF Grow, ShapeInv
<1> QED BY <1>1, GrownIsSound

\* What becomes of a hunk: it is left out, taken whole, or opened line by line.
LEMMA HunkStep ==
  ASSUME TypeOK, TakeHunk
  PROVE  /\ \/ /\ pc' = "hunk" /\ hunk' = hunk + 1 /\ pick' = pick
               /\ \/ used' = used
                  \/ used' \in Nat /\ used <= used' /\ used' <= ceiling
            \/ /\ pc' = "offer" /\ hunk' = hunk /\ used' = used
               /\ pick' \in Picks
               /\ pick'.left \subseteq DOMAIN diff.hunks[hunk].body
               /\ pick'.size <= ceiling - used /\ pick'.taken = {}
         /\ truncated' \in {truncated, truncated \cup {"diff"}}
<1> DEFINE h == diff.hunks[hunk]
<1>1. /\ h.size \in Nat /\ h.head \in Nat /\ DOMAIN h.body \subseteq Nat
      /\ used \in Nat /\ ceiling \in Nat
  BY HunkType DEF TakeHunk, TypeOK
<1>2. ChangedLines(h) \subseteq DOMAIN h.body
  BY DEF ChangedLines
<1>3. truncated' \in {truncated, truncated \cup {"diff"}}
  BY DEF TakeHunk
<1>4. \/ pc' = pc /\ hunk' = hunk + 1 /\ pick' = pick /\ used' = used
      \/ /\ h.size <= ceiling - used /\ used' = used + h.size
         /\ pc' = pc /\ hunk' = hunk + 1 /\ pick' = pick
      \/ /\ ~(h.head >= ceiling - used)
         /\ pick' = [size |-> h.head, taken |-> {}, distance |-> 0, left |-> ChangedLines(h)]
         /\ pc' = "offer" /\ hunk' = hunk /\ used' = used
  BY Zenon DEF TakeHunk
<1>5. pc = "hunk"
  BY DEF TakeHunk
<1> HIDE DEF h
<1>6. CASE pc' = pc /\ hunk' = hunk + 1 /\ pick' = pick /\ used' = used
  BY <1>3, <1>5, <1>6
<1>7. CASE /\ h.size <= ceiling - used /\ used' = used + h.size
           /\ pc' = pc /\ hunk' = hunk + 1 /\ pick' = pick
  <2>1. used' \in Nat /\ used <= used' /\ used' <= ceiling
    BY <1>1, <1>7
  <2> QED BY <1>3, <1>5, <1>7, <2>1
<1>8. CASE /\ ~(h.head >= ceiling - used)
           /\ pick' = [size |-> h.head, taken |-> {}, distance |-> 0, left |-> ChangedLines(h)]
           /\ pc' = "offer" /\ hunk' = hunk /\ used' = used
  <2>1. pick' \in Picks /\ pick'.left = ChangedLines(h) /\ pick'.size = h.head /\ pick'.taken = {}
    BY <1>1, <1>2, <1>8 DEF Picks
  <2>2. pick'.size <= ceiling - used
    BY <1>1, <1>8, <2>1
  <2> QED BY <1>2, <1>3, <1>8, <2>1, <2>2 DEF h
<1> QED BY <1>4, <1>6, <1>7, <1>8

\* A line that is picked fits, and leaves the pick bigger.
LEMMA OfferStep ==
  ASSUME TypeOK, PickInv, OfferLine
  PROVE  /\ pick' \in Picks /\ pick'.left \subseteq pick.left
         /\ pick'.size <= ceiling - used
         /\ pick'.taken # {} => pick'.size > 0
<1> DEFINE i == Least(pick.left)
           cost == diff.hunks[hunk].body[i].size
<1>1. /\ pick \in Picks /\ pick.left # {} /\ pick.left \subseteq DOMAIN diff.hunks[hunk].body
      /\ hunk <= Len(diff.hunks) /\ pick.size <= ceiling - used
      /\ pick.taken # {} => pick.size > 0
  BY DEF OfferLine, PickInv
<1>2. i \in pick.left /\ i \in Nat
  <2>1. pick.left \subseteq Nat
    BY <1>1 DEF Picks
  <2> QED BY <1>1, <2>1, LeastNumber
<1>3. cost \in Nat /\ cost > 0
  BY <1>1, <1>2, HunkType
<1>4. pick' = IF pick.size + cost <= ceiling - used
              THEN [pick EXCEPT !.size = pick.size + cost, !.taken = @ \cup {i}, !.left = @ \ {i}]
              ELSE [pick EXCEPT !.left = @ \ {i}]
  BY DEF OfferLine
<1>5. used \in Nat /\ ceiling \in Nat
  BY DEF TypeOK
<1> HIDE DEF i, cost
<1>6. CASE pick.size + cost <= ceiling - used
  <2>1. pick' = [pick EXCEPT !.size = pick.size + cost, !.taken = @ \cup {i}, !.left = @ \ {i}]
    BY <1>4, <1>6
  <2>2. pick.size + cost \in Nat /\ pick.size + cost > 0
    BY <1>1, <1>3 DEF Picks
  <2> QED BY <1>1, <1>2, <1>6, <2>1, <2>2 DEF Picks
<1>7. CASE ~(pick.size + cost <= ceiling - used)
  BY <1>1, <1>4, <1>7 DEF Picks
<1> QED BY <1>6, <1>7

LEMMA WidenStep ==
  ASSUME TypeOK, PickInv, WidenPick
  PROVE  /\ pick' \in Picks /\ pick'.left \subseteq DOMAIN diff.hunks[hunk].body
         /\ pick'.size = pick.size /\ pick'.taken = pick.taken
<1>1. pick \in Picks /\ hunk <= Len(diff.hunks)
  BY DEF WidenPick, PickInv
<1> DEFINE near == Nearby(diff.hunks[hunk], pick.distance + 1)
<1>2. near \subseteq DOMAIN diff.hunks[hunk].body /\ near \subseteq Nat
  BY <1>1, HunkType DEF Nearby
<1>3. pick' = [pick EXCEPT !.distance = @ + 1, !.left = near]
  BY DEF WidenPick
<1> HIDE DEF near
<1>4. /\ pick = [size |-> pick.size, taken |-> pick.taken,
                 distance |-> pick.distance, left |-> pick.left]
      /\ pick.size \in Nat /\ pick.taken \in SUBSET Nat /\ pick.distance + 1 \in Nat
  BY <1>1 DEF Picks
<1>5. pick' = [size |-> pick.size, taken |-> pick.taken,
               distance |-> pick.distance + 1, left |-> near]
  BY <1>3, <1>4
<1>6. pick' \in Picks
  BY <1>2, <1>4, <1>5 DEF Picks
<1> QED BY <1>2, <1>5, <1>6

LEMMA TypeStep ==
  ASSUME IInv, Next
  PROVE  TypeOK'
<1> USE DEF IInv
<1>1. CASE BoundFailure
  BY <1>1, FailureSizeType DEF TypeOK, BoundFailure, inputVars, symbolVars, Sections
<1>2. CASE TakeResource
  <2>1. excerpt' \in Excerpt
    BY <1>2, TakenIsSound DEF Sound
  <2> QED BY <1>2, <2>1 DEF TypeOK, TakeResource, inputVars, symbolVars
<1>3. CASE Grow
  <2>1. excerpt' \in Excerpt
    BY <1>3, GrowKeeps DEF Sound
  <2> QED BY <1>3, <2>1 DEF TypeOK, Grow, inputVars, symbolVars
<1>4. CASE FinishExcerpt
  <2>1. excerpt \in Excerpt /\ Extent(excerpt) \in Nat
    BY <1>4, ExcerptSize DEF FinishExcerpt, ShapeInv, Sound
  <2>2. shown' \in Seq(Excerpt)
    BY <1>4, <2>1 DEF TypeOK, FinishExcerpt
  <2> QED BY <1>4, <2>1, <2>2 DEF TypeOK, FinishExcerpt, inputVars, symbolVars
<1>5. CASE OpenDiff
  <2>1. ceiling' \in Nat
    BY <1>5, Inputs DEF TypeOK, OpenDiff, Rest, Smaller, Larger
  <2> QED BY <1>5, <2>1 DEF TypeOK, OpenDiff, inputVars, symbolVars
<1>6. CASE TakeHunk
  <2>1. hunk \in Nat \ {0} /\ used \in Nat /\ pick \in Picks \cup {NoPick}
    BY DEF TypeOK, Picks
  <2>2. hunk' \in Nat \ {0} /\ used' \in Nat /\ pick' \in Picks \cup {NoPick}
    BY <1>6, <2>1, HunkStep
  <2>3. pc' \in {"hunk", "offer"} /\ truncated' \subseteq Sections
    BY <1>6, HunkStep DEF TypeOK, Sections
  <2> QED BY <1>6, <2>2, <2>3 DEF TypeOK, TakeHunk, inputVars, symbolVars, Picks
<1>7. CASE OfferLine
  <2>1. pick' \in Picks
    BY <1>7, OfferStep
  <2> QED BY <1>7, <2>1 DEF TypeOK, OfferLine, inputVars, symbolVars, Picks
<1>8. CASE WidenPick
  <2>1. pick' \in Picks
    BY <1>8, WidenStep
  <2> QED BY <1>8, <2>1 DEF TypeOK, WidenPick, inputVars, symbolVars, Picks
<1>9. CASE FinishHunk
  <2>1. used' \in Nat
    BY <1>9 DEF TypeOK, FinishHunk, PickInv, Picks
  <2> QED BY <1>9, <2>1 DEF TypeOK, FinishHunk, inputVars, symbolVars
<1>10. CASE OpenSymbols
  <2>1. ceiling' \in Nat
    BY <1>10, Inputs DEF TypeOK, OpenSymbols, Rest, Smaller, Larger
  <2> QED BY <1>10, <2>1, ReferencesAreRefs DEF TypeOK, OpenSymbols, inputVars, symbolVars
<1>11. CASE ResolveSymbol
  <2>1. excerpt' \in Excerpt \cup {NoExcerpt}
    <3>1. \A r \in pending : r \in Refs
      BY DEF TypeOK
    <3> QED BY <1>11, <3>1, DefinitionIsSound DEF TypeOK, ResolveSymbol, Sound
  <2>2. pending' \subseteq Refs /\ resolved' \subseteq Refs /\ unresolved' \subseteq Refs
    BY <1>11 DEF TypeOK, ResolveSymbol
  <2>3. pc' \in {"symbol", "grow"}
    BY <1>11 DEF ResolveSymbol
  <2> QED BY <1>11, <2>1, <2>2, <2>3 DEF TypeOK, ResolveSymbol, inputVars
<1>12. CASE CloseSymbols
  BY <1>12 DEF TypeOK, CloseSymbols, inputVars, symbolVars
<1>13. CASE CountMetadata
  <2>1. Cardinality(unresolved) \in Nat
    BY SymbolsHaveTargets, FS_Subset, FS_CardinalityType DEF TypeOK
  <2>2. characters' \in Nat
    BY <1>13, <2>1, SizesAreNumbers DEF TypeOK, CountMetadata
  <2> QED BY <1>13, <2>2 DEF TypeOK, CountMetadata, inputVars, symbolVars, Sections
<1>14. CASE Rank
  BY <1>14 DEF TypeOK, Rank, inputVars, symbolVars
<1> QED BY <1>1, <1>2, <1>3, <1>4, <1>5, <1>6, <1>7, <1>8, <1>9, <1>10, <1>11, <1>12, <1>13,
           <1>14
        DEF Next

\* The steps that neither touch an excerpt nor begin one.
Elsewhere == \/ Rank \/ BoundFailure \/ OpenDiff \/ TakeHunk \/ OfferLine \/ WidenPick
             \/ FinishHunk \/ OpenSymbols \/ CloseSymbols \/ CountMetadata

LEMMA ElsewhereKeepsExcerpts ==
  ASSUME Elsewhere
  PROVE  shown' = shown /\ excerpt' = excerpt /\ pc # "grow" /\ pc' # "grow"
<1>1. CASE TakeHunk
  BY <1>1, Zenon DEF TakeHunk
<1> QED BY <1>1 DEF Elsewhere, Rank, BoundFailure, OpenDiff, OfferLine, WidenPick, FinishHunk,
           OpenSymbols, CloseSymbols, CountMetadata

LEMMA NextSteps ==
  ASSUME Next
  PROVE  TakeResource \/ Grow \/ FinishExcerpt \/ ResolveSymbol \/ Elsewhere
BY DEF Next, Elsewhere

LEMMA NextKeepsInputs ==
  ASSUME Next
  PROVE  UNCHANGED inputVars
BY DEF Next, Rank, BoundFailure, TakeResource, Grow, FinishExcerpt, OpenDiff, TakeHunk, OfferLine,
       WidenPick, FinishHunk, OpenSymbols, ResolveSymbol, CloseSymbols, CountMetadata

\* A finished excerpt stands behind those shown before.
LEMMA FinishedIsShown ==
  ASSUME TypeOK, ShapeInv, FinishExcerpt
  PROVE  /\ Maximal(excerpt) /\ excerpt \in Excerpt
         /\ Len(shown) \in Nat /\ DOMAIN shown = 1..Len(shown)
         /\ DOMAIN shown' = 1..(Len(shown) + 1)
         /\ \A i \in DOMAIN shown : i \in DOMAIN shown' /\ shown'[i] = shown[i]
         /\ shown'[Len(shown) + 1] = excerpt
         /\ \A i \in DOMAIN shown' : i \in DOMAIN shown \/ i = Len(shown) + 1
<1>1. Maximal(excerpt) /\ excerpt \in Excerpt
  BY GrownOutIsMaximal DEF FinishExcerpt, ShapeInv, Sound
<1>2. shown \in Seq(Excerpt) /\ shown' = Append(shown, excerpt)
  BY DEF TypeOK, FinishExcerpt
<1>3. /\ Len(shown) \in Nat /\ DOMAIN shown = 1..Len(shown)
      /\ DOMAIN shown' = 1..(Len(shown) + 1)
      /\ \A i \in 1..Len(shown) : shown'[i] = shown[i]
      /\ shown'[Len(shown) + 1] = excerpt
  BY <1>1, <1>2
<1>4. \A i \in 1..Len(shown) : i \in 1..(Len(shown) + 1)
  BY <1>3
<1>5. \A i \in 1..(Len(shown) + 1) : i \in 1..Len(shown) \/ i = Len(shown) + 1
  BY <1>3
<1> QED BY <1>1, <1>3, <1>4, <1>5

\* What an excerpt of a definition does to the symbols and to the excerpt.
LEMMA ResolveStep ==
  ASSUME TypeOK, ResolveSymbol
  PROVE  /\ shown' = shown
         /\ \E r \in pending :
              /\ r \in Refs
              /\ pending' = pending \ {r}
              /\ \/ /\ pc' = "symbol" /\ excerpt' = excerpt
                    /\ \/ unresolved' = unresolved \cup {r} /\ resolved' = resolved
                       \/ /\ AlreadyShown(r)
                          /\ unresolved' = unresolved /\ resolved' = resolved \cup {r}
                 \/ /\ pc' = "grow" /\ Defined(r)
                    /\ Sound(excerpt') /\ excerpt'.block = Target[r].block
                    /\ excerpt'.role = "supporting" /\ excerpt'.max = ceiling - used
                    /\ used < ceiling
                    /\ unresolved' = unresolved /\ resolved' = resolved \cup {r}
<1>1. shown' = shown /\ pc = "symbol" /\ pending \subseteq Refs
  BY DEF ResolveSymbol, TypeOK
<1>2. PICK r \in pending :
        /\ pending' = pending \ {r}
        /\ \/ /\ unresolved' = unresolved \cup {r}
              /\ UNCHANGED <<pc, excerpt, resolved>>
           \/ /\ AlreadyShown(r)
              /\ resolved' = resolved \cup {r}
              /\ UNCHANGED <<pc, excerpt, unresolved>>
           \/ /\ Defined(r) /\ ~AlreadyShown(r) /\ used < ceiling
              /\ excerpt' = ExcerptOf(Target[r].block, "supporting", Target[r].line,
                                      ceiling - used)
              /\ pc' = "grow"
              /\ resolved' = resolved \cup {r}
              /\ UNCHANGED unresolved
  BY DEF ResolveSymbol
<1>3. r \in Refs
  BY <1>1
<1>4. CASE unresolved' = unresolved \cup {r} /\ UNCHANGED <<pc, excerpt, resolved>>
  BY <1>1, <1>2, <1>3, <1>4
<1>5. CASE AlreadyShown(r) /\ resolved' = resolved \cup {r} /\ UNCHANGED <<pc, excerpt, unresolved>>
  BY <1>1, <1>2, <1>3, <1>5
<1>6. CASE /\ Defined(r) /\ used < ceiling
           /\ excerpt' = ExcerptOf(Target[r].block, "supporting", Target[r].line, ceiling - used)
           /\ pc' = "grow" /\ resolved' = resolved \cup {r} /\ UNCHANGED unresolved
  <2>1. /\ Sound(excerpt') /\ excerpt'.block = Target[r].block
        /\ excerpt'.role = "supporting" /\ excerpt'.max = ceiling - used
    BY <1>3, <1>6, DefinitionIsSound
  <2> QED BY <1>1, <1>2, <1>3, <1>6, <2>1
<1> QED BY <1>2, <1>4, <1>5, <1>6

LEMMA ShapeStep ==
  ASSUME IInv, Next
  PROVE  ShapeInv'
<1> USE DEF IInv
<1>1. CASE TakeResource
  <2>1. Sound(excerpt')
    BY <1>1, TakenIsSound
  <2> QED BY <1>1, <2>1 DEF TakeResource, ShapeInv, Sound, Maximal, OneLine, Extent, FitsBelow, FitsAbove
<1>2. CASE Grow
  <2>1. Sound(excerpt')
    BY <1>2, GrowKeeps
  <2> QED BY <1>2, <2>1 DEF Grow, ShapeInv
<1>3. CASE FinishExcerpt
  <2>1. \A i \in DOMAIN shown' : Maximal(shown'[i])
    BY <1>3, FinishedIsShown DEF ShapeInv
  <2>2. pc' # "grow"
    BY <1>3 DEF FinishExcerpt
  <2> QED BY <2>1, <2>2 DEF ShapeInv
<1>4. CASE ResolveSymbol
  BY <1>4, ResolveStep DEF ShapeInv
<1>5. CASE Elsewhere
  BY <1>5, ElsewhereKeepsExcerpts DEF ShapeInv
<1> QED BY <1>1, <1>2, <1>3, <1>4, <1>5, NextSteps

LEMMA PickStep ==
  ASSUME IInv, Next
  PROVE  PickInv'
<1> USE DEF IInv
<1>1. UNCHANGED inputVars
  BY NextKeepsInputs
<1>2. CASE TakeHunk
  <2>1. ceiling' = ceiling /\ hunk <= Len(diff.hunks) /\ diff' = diff
    BY <1>1, <1>2 DEF TakeHunk, inputVars
  <2> QED BY <1>2, <2>1, HunkStep DEF PickInv
<1>3. CASE OfferLine
  <2>1. ceiling' = ceiling /\ used' = used /\ hunk' = hunk /\ diff' = diff /\ pc = "offer"
    BY <1>1, <1>3 DEF OfferLine, inputVars
  <2> QED BY <1>3, <2>1, OfferStep DEF PickInv
<1>4. CASE WidenPick
  <2>1. ceiling' = ceiling /\ used' = used /\ hunk' = hunk /\ diff' = diff /\ pc = "offer"
    BY <1>1, <1>4 DEF WidenPick, inputVars
  <2> QED BY <1>4, <2>1, WidenStep DEF PickInv
<1>5. CASE ~(TakeHunk \/ OfferLine \/ WidenPick)
  <2>1. pc' # "offer"
    <3>1. CASE ResolveSymbol
      BY <3>1, ResolveStep
    <3> QED BY <1>5, <3>1 DEF Next, Rank, BoundFailure, TakeResource, Grow, FinishExcerpt, OpenDiff,
               FinishHunk, OpenSymbols, CloseSymbols, CountMetadata
  <2> QED BY <2>1 DEF PickInv
<1> QED BY <1>2, <1>3, <1>4, <1>5

\* What is left of a section is never more than what is left of the total.
LEMMA BudgetStep ==
  ASSUME IInv, Next
  PROVE  BudgetInv'
<1> USE DEF IInv
<1>1. /\ used \in Nat /\ ceiling \in Nat /\ lim.total \in Nat /\ lim.diff \in Nat
      /\ lim.supporting \in Nat
  BY Inputs DEF TypeOK
<1>2. lim' = lim
  BY NextKeepsInputs DEF inputVars
<1>3. CASE Rank \/ BoundFailure \/ CloseSymbols \/ CountMetadata
  <2>1. pc' \in {"raised", "failure", "resource", "metadata", "done"}
        /\ (pc' # "done" => characters' = characters /\ pc # "done")
    BY <1>3 DEF Rank, BoundFailure, CloseSymbols, CountMetadata
  <2> QED BY <2>1 DEF BudgetInv, Supporting
<1>4. CASE TakeResource
  <2>1. excerpt'.role = "resource" /\ excerpt'.max <= Larger(lim.total - used, 1)
    BY <1>4, TakenIsSound
  <2> QED BY <1>2, <1>4, <2>1 DEF TakeResource, BudgetInv, Supporting
<1>5. CASE Grow
  <2>1. excerpt'.role = excerpt.role /\ excerpt'.max = excerpt.max
    BY <1>5, GrowKeeps
  <2> QED BY <1>2, <1>5, <2>1 DEF Grow, BudgetInv, Supporting
<1>6. CASE FinishExcerpt
  <2>1. /\ pc = "grow" /\ used' = used + Extent(excerpt) /\ ceiling' = ceiling
        /\ characters' = 0 /\ pc' \in {"resource", "symbol"}
        /\ pc' = "symbol" => excerpt.role = "supporting"
    BY <1>6 DEF FinishExcerpt, BudgetInv, ShapeInv, Sound, Excerpt
  <2>2. Extent(excerpt) \in Nat
    BY <2>1, ExcerptSize DEF ShapeInv
  <2>3. pc' = "symbol" => ceiling <= Larger(lim.total, used')
    <3>1. ASSUME pc' = "symbol" PROVE ceiling <= Larger(lim.total, used)
      BY <2>1, <3>1 DEF BudgetInv, Supporting
    <3> QED BY <1>1, <2>1, <2>2, <3>1 DEF Larger
  <2> QED BY <1>2, <2>1, <2>3 DEF BudgetInv, Supporting
<1>7. CASE OpenDiff
  <2>1. ceiling' = used + Smaller(lim.diff, Rest) /\ used' = used /\ pc' = "hunk"
        /\ characters' = characters /\ pc # "done"
    BY <1>7 DEF OpenDiff
  <2>2. ceiling' <= Larger(lim.total, used)
    BY <1>1, <2>1 DEF Rest, Smaller, Larger
  <2> QED BY <1>2, <2>1, <2>2 DEF BudgetInv, Supporting
<1>8. CASE TakeHunk
  <2>1. pc = "hunk" /\ ceiling' = ceiling /\ characters' = characters
    BY <1>8 DEF TakeHunk
  <2>2. pc' \in {"hunk", "offer"} /\ used' \in Nat /\ used <= used'
    BY <1>1, <1>8, HunkStep
  <2>3. ceiling <= Larger(lim.total, used')
    BY <1>1, <2>1, <2>2 DEF BudgetInv, Larger
  <2> QED BY <1>2, <2>1, <2>2, <2>3 DEF BudgetInv, Supporting
<1>9. CASE OfferLine \/ WidenPick
  BY <1>2, <1>9 DEF OfferLine, WidenPick, BudgetInv, Supporting
<1>10. CASE FinishHunk
  <2>1. /\ pc = "offer" /\ pc' = "hunk" /\ ceiling' = ceiling /\ characters' = characters
        /\ used' = IF pick.taken = {} THEN used ELSE used + pick.size - 1
    BY <1>10 DEF FinishHunk
  <2>2. pick.size \in Nat /\ (pick.taken # {} => pick.size > 0)
    BY <2>1 DEF PickInv, Picks
  <2>3. used <= used' /\ used' \in Nat
    BY <1>1, <2>1, <2>2
  <2>4. ceiling <= Larger(lim.total, used')
    BY <1>1, <2>1, <2>3 DEF BudgetInv, Larger
  <2> QED BY <1>2, <2>1, <2>4 DEF BudgetInv, Supporting
<1>11. CASE OpenSymbols
  <2>1. ceiling' = used + Smaller(lim.supporting, Rest) /\ used' = used /\ pc' = "symbol"
        /\ characters' = characters /\ pc # "done"
    BY <1>11 DEF OpenSymbols
  <2>2. ceiling' <= Larger(lim.total, used)
    BY <1>1, <2>1 DEF Rest, Smaller, Larger
  <2> QED BY <1>2, <2>1, <2>2 DEF BudgetInv, Supporting
<1>12. CASE ResolveSymbol
  <2>1. pc = "symbol" /\ used' = used /\ ceiling' = ceiling /\ characters' = characters
    BY <1>12 DEF ResolveSymbol
  <2>2. \/ pc' = "symbol"
        \/ /\ pc' = "grow" /\ excerpt'.role = "supporting" /\ excerpt'.max = ceiling - used
           /\ used < ceiling
    BY <1>12, ResolveStep
  <2>3. pc' = "grow" => excerpt'.max <= ceiling - used
    BY <1>1, <2>2
  <2> QED BY <1>2, <2>1, <2>2, <2>3 DEF BudgetInv, Supporting
<1> QED BY <1>3, <1>4, <1>5, <1>6, <1>7, <1>8, <1>9, <1>10, <1>11, <1>12 DEF Next

\* An excerpt of several lines is at least two characters long and keeps to
\* what was left for it, so one that spends past the total is a single line.
LEMMA OnlyOneLineOverruns ==
  ASSUME IInv, FinishExcerpt, used' > Larger(used, lim.total)
  PROVE  TooLongAlone
<1> USE DEF IInv
<1>1. /\ used \in Nat /\ ceiling \in Nat /\ lim.total \in Nat
      /\ pc = "grow" /\ used' = used + Extent(excerpt) /\ Sound(excerpt)
  BY Inputs DEF TypeOK, FinishExcerpt, ShapeInv
<1>2. /\ excerpt.low \in 1..Last(excerpt.block) /\ excerpt.high \in 1..Last(excerpt.block)
      /\ excerpt.low <= excerpt.high /\ excerpt.block \in Blocks /\ excerpt.max \in Nat
      /\ Extent(excerpt) \in Nat /\ Extent(excerpt) > 0
  BY <1>1, ExcerptSize
<1>3. Extent(excerpt) > Larger(lim.total - used, 0)
  BY <1>1, <1>2 DEF Larger
<1>4. ASSUME excerpt.role = "supporting"
      PROVE  used < lim.total /\ excerpt.max <= lim.total - used
  <2>1. excerpt.max <= ceiling - used /\ used < ceiling /\ ceiling <= Larger(lim.total, used)
    BY <1>1, <1>4 DEF BudgetInv, Supporting
  <2> QED BY <1>1, <1>2, <2>1 DEF Larger
<1>5. ASSUME ~OneLine(excerpt) PROVE FALSE
  <2>1. Extent(excerpt) > 1 /\ Extent(excerpt) <= excerpt.max
    <3>1. CASE ~excerpt.cut
      BY <1>1, <1>2, <3>1, Block DEF Sound, Extent
    <3>2. CASE excerpt.low < excerpt.high
      BY <1>1, <1>2, <1>5, <3>2, Block DEF Sound, Extent
    <3>3. excerpt.low < excerpt.high \/ ~excerpt.cut
      <4>1. Last(excerpt.block) \in Nat
        BY <1>2, Block
      <4> QED BY <1>2, <1>5, <4>1 DEF OneLine
    <3> QED BY <3>1, <3>2, <3>3
  <2>2. CASE excerpt.role = "resource"
    <3>1. excerpt.max <= Larger(lim.total - used, 1)
      BY <1>1, <2>2 DEF BudgetInv
    <3> QED BY <1>1, <1>2, <1>3, <2>1, <3>1 DEF Larger
  <2>3. CASE excerpt.role = "supporting"
    BY <1>1, <1>2, <1>3, <1>4, <2>1, <2>3 DEF Larger
  <2>4. excerpt.role \in {"resource", "supporting"}
    BY <1>1 DEF Sound, Excerpt
  <2> QED BY <2>2, <2>3, <2>4
<1> QED BY <1>1, <1>3, <1>4, <1>5 DEF TooLongAlone

\* No other step spends past the total, the diagnostic excepted.
LEMMA OverrunStep ==
  ASSUME IInv, Next, Spent' > Larger(Spent, lim.total)
  PROVE  TooLongAlone
<1> USE DEF IInv
<1>1. /\ used \in Nat /\ ceiling \in Nat /\ lim.total \in Nat /\ characters \in Nat
      /\ failure.fixed \in Nat /\ lim.diagnostic \in Nat
      /\ pc # "done" => characters = 0
  BY Inputs DEF TypeOK, BudgetInv
<1>2. CASE BoundFailure
  <2>1. pc = "failure" /\ used' = FailureSize /\ characters' = 0
    BY <1>1, <1>2 DEF BoundFailure
  <2>2. FailureSize \in Nat /\ FailureSize <= Larger(failure.fixed, lim.diagnostic)
    BY FailureSizeType
  <2> QED BY <1>1, <2>1, <2>2 DEF Spent, Larger, TooLongAlone
<1>3. CASE FinishExcerpt
  <2>1. pc = "grow" /\ characters' = 0 /\ used' \in Nat
    <3>1. TypeOK'
      BY TypeStep
    <3> QED BY <1>1, <1>3, <3>1 DEF FinishExcerpt, TypeOK
  <2>2. used' > Larger(used, lim.total)
    BY <1>1, <2>1 DEF Spent, Larger
  <2> QED BY <1>3, <2>1, <2>2, OnlyOneLineOverruns
<1>4. CASE TakeHunk \/ FinishHunk
  <2>1. pc \in {"hunk", "offer"} /\ characters' = 0
    BY <1>1, <1>4 DEF TakeHunk, FinishHunk
  <2>2. used' \in Nat /\ (used' = used \/ used' <= ceiling)
    <3>1. CASE TakeHunk
      BY <1>1, <3>1, HunkStep
    <3>2. CASE FinishHunk
      <4>1. used' = IF pick.taken = {} THEN used ELSE used + pick.size - 1
        BY <3>2 DEF FinishHunk
      <4>2. /\ pick.size \in Nat /\ pick.size <= ceiling - used
            /\ pick.taken # {} => pick.size > 0
        BY <3>2 DEF FinishHunk, PickInv, Picks
      <4> QED BY <1>1, <4>1, <4>2
    <3> QED BY <1>4, <3>1, <3>2
  <2>3. ceiling <= Larger(lim.total, used)
    BY <2>1 DEF BudgetInv
  <2> QED BY <1>1, <2>1, <2>2, <2>3 DEF Spent, Larger
<1>5. CASE CountMetadata
  <2>1. Cardinality(unresolved) \in Nat
    BY SymbolsHaveTargets, FS_Subset, FS_CardinalityType DEF TypeOK
  <2>2. MetadataSize + SymbolSize * Cardinality(unresolved) \in Nat
    BY <2>1, SizesAreNumbers
  <2>3. used' = used /\ characters' \in Nat /\ characters' <= Larger(lim.total, used)
    BY <1>1, <1>5, <2>2 DEF CountMetadata, Larger
  <2> QED BY <1>1, <2>3 DEF Spent, Larger
<1>6. CASE UNCHANGED <<used, characters>>
  BY <1>1, <1>6 DEF Spent, Larger
<1> QED BY <1>2, <1>3, <1>4, <1>5, <1>6
        DEF Next, Rank, TakeResource, Grow, OpenDiff, OfferLine, WidenPick, OpenSymbols,
            ResolveSymbol, CloseSymbols

LEMMA ReferencesStay ==
  ASSUME IInv, Next, pc # "resource", pc = "grow" => Supporting
  PROVE  References' = References
<1> USE DEF IInv
<1>1. CASE FinishExcerpt
  <2>1. excerpt.role # "resource"
    BY <1>1 DEF FinishExcerpt, Supporting
  <2>2. \A i \in DOMAIN shown' : shown'[i].role = "resource" =>
          i \in DOMAIN shown /\ shown'[i] = shown[i]
    BY <1>1, <2>1, FinishedIsShown
  <2>3. \A i \in DOMAIN shown : i \in DOMAIN shown' /\ shown'[i] = shown[i]
    BY <1>1, FinishedIsShown
  <2>4. ASSUME NEW v
        PROVE  (\E i \in DOMAIN shown : /\ shown[i].role = "resource"
                                        /\ shown[i].block = v.block
                                        /\ v.line \in shown[i].low..shown[i].high)
               <=> (\E i \in DOMAIN shown' : /\ shown'[i].role = "resource"
                                             /\ shown'[i].block = v.block
                                             /\ v.line \in shown'[i].low..shown'[i].high)
    BY <2>2, <2>3
  <2> QED BY <2>4 DEF References
<1>2. CASE ~FinishExcerpt
  <2>1. shown' = shown
    <3>1. CASE Elsewhere
      BY <3>1, ElsewhereKeepsExcerpts
    <3>2. CASE ResolveSymbol
      BY <3>2, ResolveStep
    <3> QED BY <1>2, <3>1, <3>2, NextSteps DEF TakeResource, Grow
  <2> QED BY <2>1 DEF References
<1> QED BY <1>1, <1>2

\* No reference is lost between the three sets, and none is in two of them.
LEMMA SymbolStep ==
  ASSUME IInv, Next
  PROVE  SymbolInv'
<1> USE DEF IInv
<1>1. \A r : Defined(r)' <=> Defined(r)
  BY DEF Defined
<1>2. CASE Rank \/ BoundFailure \/ OpenDiff \/ OfferLine \/ WidenPick \/ FinishHunk
  <2>1. /\ pc \in {"rank", "failure", "resource", "offer"}
        /\ pc' \in {"raised", "failure", "resource", "hunk", "offer"}
        /\ UNCHANGED symbolVars
    BY <1>2 DEF Rank, BoundFailure, OpenDiff, OfferLine, WidenPick, FinishHunk
  <2> QED BY <2>1 DEF SymbolInv, Supporting, symbolVars
<1>3. CASE TakeHunk
  <2>1. pc = "hunk" /\ pc' \in {"hunk", "offer"} /\ UNCHANGED symbolVars
    BY <1>3, HunkStep DEF TakeHunk
  <2> QED BY <2>1 DEF SymbolInv, Supporting, symbolVars
<1>4. CASE TakeResource
  <2>1. pc = "resource" /\ pc' = "grow" /\ UNCHANGED symbolVars
    BY <1>4 DEF TakeResource
  <2>2. excerpt'.role = "resource"
    BY <1>4, TakenIsSound
  <2> QED BY <2>1, <2>2 DEF SymbolInv, Supporting, symbolVars
<1>5. CASE Grow
  <2>1. excerpt'.role = excerpt.role /\ excerpt'.block = excerpt.block
    BY <1>5, GrowKeeps
  <2>2. shown' = shown /\ pc = "grow" /\ pc' = "grow" /\ UNCHANGED symbolVars
    BY <1>5 DEF Grow
  <2>3. References' = References
    BY <2>2 DEF References
  <2> QED BY <2>1, <2>2, <2>3, <1>1 DEF SymbolInv, Supporting, symbolVars
<1>6. CASE FinishExcerpt
  <2>1. /\ pc = "grow" /\ UNCHANGED symbolVars
        /\ excerpt.role = "resource" => pc' = "resource"
        /\ excerpt.role # "resource" => pc' = "symbol"
    BY <1>6 DEF FinishExcerpt
  <2>2. CASE excerpt.role = "resource"
    BY <2>1, <2>2 DEF SymbolInv, Supporting, symbolVars
  <2>3. CASE excerpt.role # "resource"
    <3>1. Supporting
      BY <1>6, <2>1, <2>3, FinishedIsShown DEF Supporting, Excerpt
    <3>2. References' = References
      BY <2>1, <3>1, ReferencesStay
    <3>3. \A r \in resolved : \E i \in DOMAIN shown' : shown'[i].block = Target[r].block
      <4>1. \A r \in resolved : \/ \E i \in DOMAIN shown : shown[i].block = Target[r].block
                                \/ excerpt.block = Target[r].block
        BY DEF SymbolInv
      <4>2. Len(shown) + 1 \in DOMAIN shown' /\ shown'[Len(shown) + 1] = excerpt
        BY <1>6, FinishedIsShown
      <4>3. \A i \in DOMAIN shown : i \in DOMAIN shown' /\ shown'[i] = shown[i]
        BY <1>6, FinishedIsShown
      <4> QED BY <4>1, <4>2, <4>3
    <3> QED BY <1>1, <2>1, <2>3, <3>1, <3>2, <3>3 DEF SymbolInv, Supporting, symbolVars
  <2> QED BY <2>2, <2>3
<1>7. CASE OpenSymbols
  <2>1. /\ pc = "hunk" /\ pc' = "symbol" /\ pending' = References
        /\ resolved' = resolved /\ unresolved' = unresolved /\ shown' = shown
    BY <1>7 DEF OpenSymbols
  <2>2. References' = References /\ resolved = {} /\ unresolved = {}
    BY <2>1 DEF References, SymbolInv
  <2> QED BY <2>1, <2>2 DEF SymbolInv, Supporting
<1>8. CASE ResolveSymbol
  <2>1. pc = "symbol" /\ References' = References /\ shown' = shown
    <3>1. pc = "symbol"
      BY <1>8 DEF ResolveSymbol
    <3> QED BY <1>8, <3>1, ReferencesStay, ResolveStep
  <2>2. PICK r \in pending :
          /\ r \in Refs
          /\ pending' = pending \ {r}
          /\ \/ /\ pc' = "symbol" /\ excerpt' = excerpt
                /\ \/ unresolved' = unresolved \cup {r} /\ resolved' = resolved
                   \/ /\ AlreadyShown(r)
                      /\ unresolved' = unresolved /\ resolved' = resolved \cup {r}
             \/ /\ pc' = "grow" /\ Defined(r)
                /\ Sound(excerpt') /\ excerpt'.block = Target[r].block
                /\ excerpt'.role = "supporting" /\ excerpt'.max = ceiling - used
                /\ unresolved' = unresolved /\ resolved' = resolved \cup {r}
    BY <1>8, ResolveStep
  <2>3. /\ pending \cup resolved \cup unresolved = References
        /\ resolved \cap unresolved = {}
        /\ pending \cap (resolved \cup unresolved) = {}
    BY <2>1 DEF SymbolInv
  <2>4. /\ pending' \cup resolved' \cup unresolved' = References
        /\ resolved' \cap unresolved' = {}
        /\ pending' \cap (resolved' \cup unresolved') = {}
    <3>1. \/ unresolved' = unresolved \cup {r} /\ resolved' = resolved
          \/ unresolved' = unresolved /\ resolved' = resolved \cup {r}
      BY <2>2
    <3> QED BY <2>2, <2>3, <3>1
  <2>5. \A q \in resolved' :
          /\ q \in Refs /\ Defined(q)
          /\ \/ \E i \in DOMAIN shown' : shown'[i].block = Target[q].block
             \/ pc' = "grow" /\ excerpt'.block = Target[q].block
    <3>1. \A q \in resolved : /\ q \in Refs /\ Defined(q)
                              /\ \E i \in DOMAIN shown : shown[i].block = Target[q].block
      BY <2>1 DEF SymbolInv
    <3>2. AlreadyShown(r) =>
            Defined(r) /\ \E i \in DOMAIN shown : shown[i].block = Target[r].block
      BY DEF AlreadyShown
    <3> QED BY <2>1, <2>2, <3>1, <3>2
  <2>6. pc' = "symbol" \/ Supporting'
    BY <2>2 DEF Supporting
  <2> QED BY <1>1, <2>1, <2>2, <2>4, <2>5, <2>6 DEF SymbolInv, Supporting
<1>9. CASE CloseSymbols
  <2>1. pc = "symbol" /\ pc' = "metadata" /\ pending = {} /\ UNCHANGED symbolVars /\ shown' = shown
    BY <1>9 DEF CloseSymbols
  <2>2. References' = References
    BY <2>1 DEF References
  <2> QED BY <1>1, <2>1, <2>2 DEF SymbolInv, Supporting, symbolVars
<1>10. CASE CountMetadata
  <2>1. pc = "metadata" /\ pc' = "done" /\ UNCHANGED symbolVars /\ shown' = shown
    BY <1>10 DEF CountMetadata
  <2>2. References' = References
    BY <2>1 DEF References
  <2> QED BY <1>1, <2>1, <2>2 DEF SymbolInv, Supporting, symbolVars
<1> QED BY <1>2, <1>3, <1>4, <1>5, <1>6, <1>7, <1>8, <1>9, <1>10 DEF Next

-------------------------------------------------------------------------------
(* The block the diagnostic speaks of.                                     *)

LEMMA DiagnosedIsApart ==
  ASSUME TypeOK, NEW a \in Resources, NEW b \in Resources, DiagnosedIn(a), DiagnosedIn(b)
  PROVE  a = b
<1>1. /\ Start[a] \in Nat /\ Last(a) \in Nat /\ Start[b] \in Nat /\ Last(b) \in Nat
      /\ failure.line \in Nat
  BY Block, Inputs, BlocksAreNumbers
<1>2. /\ FileOf[a] = FileOf[b]
      /\ Start[a] <= failure.line /\ failure.line < Start[a] + Last(a)
      /\ Start[b] <= failure.line /\ failure.line < Start[b] + Last(b)
  BY DEF DiagnosedIn, Within
<1>3. ~(Start[a] + Last(a) <= Start[b]) /\ ~(Start[b] + Last(b) <= Start[a])
  BY <1>1, <1>2
<1> QED BY <1>2, <1>3, ResourcesAreApart

LEMMA DiagnosedScores ==
  ASSUME TypeOK, NEW b \in Resources, DiagnosedIn(b), ~Named
  PROVE  /\ Score(b) >= 80 /\ b \in Candidates /\ ~Ambiguous
         /\ \A a \in Resources \ {b} : Score(a) <= 75
<1>1. Score(b) \in Nat /\ Score(b) >= 80
  BY DEF Score
<1>2. b \in Candidates
  BY <1>1 DEF Candidates
<1>3. ~Ambiguous
  BY <1>2 DEF Ambiguous, LineSpecific, DiagnosedIn
<1>4. ASSUME NEW a \in Resources \ {b} PROVE Score(a) <= 75
  <2>1. ~DiagnosedIn(a)
    BY <1>4, DiagnosedIsApart
  <2>2. failure.address # a
    BY <1>4 DEF Named
  <2> QED BY <2>1, <2>2 DEF Score
<1> QED BY <1>1, <1>2, <1>3, <1>4

\* The first excerpt is cut of the block in focus.
LEMMA FirstTaken ==
  ASSUME TypeOK, TakeResource, shown = <<>>
  PROVE  Foremost(excerpt')
<1> DEFINE t == IF Named THEN failure.address ELSE Best(StillWanted)
<1>1. excerpt'.block = t
  BY TakenIsSound
<1>2. Named => t = failure.address
  OBVIOUS
<1>3. ASSUME NEW b \in Resources, ~Named, DiagnosedIn(b) PROVE t = b
  <2>1. ShownBlocks("resource") = {}
    BY DEF ShownBlocks
  <2>2. StillWanted # {} /\ StillWanted = Candidates
    BY <1>3, <2>1 DEF TakeResource, StillWanted
  <2>3. StillWanted \subseteq Resources /\ b \in StillWanted /\ t = Best(StillWanted)
    BY <1>3, <2>2, DiagnosedScores DEF Candidates
  <2>4. t \in StillWanted /\ (t # b => Before(t, b))
    BY <2>2, <2>3, BestIsBest
  <2>5. CASE t # b
    <3>1. Score(t) >= Score(b)
      BY <2>4, <2>5 DEF Before, Score
    <3>2. Score(b) >= 80 /\ Score(t) <= 75 /\ Score(t) \in Nat /\ Score(b) \in Nat
      <4>1. Score(t) \in Nat /\ Score(b) \in Nat
        BY DEF Score
      <4> QED BY <1>3, <2>3, <2>4, <2>5, <4>1, DiagnosedScores
    <3> QED BY <3>1, <3>2
  <2> QED BY <2>5
<1> HIDE DEF t
<1> QED BY <1>1, <1>2, <1>3 DEF Foremost

LEMMA ReadingsStay ==
  ASSUME failure' = failure, diff' = diff
  PROVE  /\ Named' = Named /\ Ambiguous' = Ambiguous
         /\ \A b : DiagnosedIn(b)' = DiagnosedIn(b)
<1>1. \A b : DiagnosedIn(b)' = DiagnosedIn(b)
  BY DEF DiagnosedIn
<1>2. \A b : Score(b)' = Score(b)
  BY <1>1 DEF Score, ChangedIn, ChangedFiles
<1>3. Candidates' = Candidates
  BY <1>2 DEF Candidates
<1> QED BY <1>1, <1>3 DEF Named, Ambiguous, LineSpecific

LEMMA FocusStep ==
  ASSUME IInv, Next
  PROVE  FocusInv'
<1> USE DEF IInv
<1>1. /\ failure' = failure /\ diff' = diff /\ lim' = lim
  BY NextKeepsInputs DEF inputVars
<1>2. /\ Named' = Named /\ Ambiguous' = Ambiguous
      /\ \A b : DiagnosedIn(b)' = DiagnosedIn(b)
  BY <1>1, ReadingsStay
<1>3. \A e : Foremost(e) => /\ Named' => e.block = failure'.address
                            /\ \A b \in Resources : ~Named' /\ DiagnosedIn(b)' => e.block = b
  BY <1>1, <1>2 DEF Foremost
<1>4. CASE TakeResource
  <2>1. pc' = "grow" /\ shown' = shown /\ pc = "resource"
    BY <1>4 DEF TakeResource
  <2>2. excerpt'.role = "resource"
    BY <1>4, TakenIsSound
  <2>3. shown = <<>> => Foremost(excerpt')
    BY <1>4, FirstTaken
  <2> QED BY <1>3, <2>1, <2>2, <2>3 DEF FocusInv, Foremost, Supporting
<1>5. CASE Grow
  <2>1. pc' = "grow" /\ shown' = shown /\ pc = "grow"
    BY <1>5 DEF Grow
  <2>2. excerpt'.role = excerpt.role /\ excerpt'.block = excerpt.block
    BY <1>5, GrowKeeps
  <2> QED BY <1>2, <1>3, <2>1, <2>2 DEF FocusInv, Foremost, Supporting
<1>6. CASE FinishExcerpt
  <2>1. /\ pc = "grow" /\ pc' \in {"resource", "symbol"}
        /\ pc' = "symbol" => excerpt.role # "resource"
    BY <1>6 DEF FinishExcerpt
  <2>2. excerpt.role # "resource" => Supporting
    BY <1>6, <2>1, FinishedIsShown DEF Supporting, Excerpt
  <2>3. shown' # <<>>
    BY <1>6, FinishedIsShown
  <2>4. CASE shown # <<>>
    <3>1. 1 \in DOMAIN shown
      BY <1>6, <2>4, FinishedIsShown DEF TypeOK
    <3>2. shown'[1] = shown[1] /\ Foremost(shown[1])
      BY <1>6, <2>4, <3>1, FinishedIsShown DEF FocusInv
    <3> QED BY <1>2, <1>3, <2>1, <2>2, <2>3, <3>2 DEF FocusInv, Foremost, Supporting
  <2>5. CASE shown = <<>>
    <3>1. shown'[1] = excerpt
      <4>1. Len(shown) = 0
        BY <2>5
      <4> QED BY <1>6, <4>1, FinishedIsShown
    <3>2. Foremost(excerpt)
      BY <2>1, <2>5 DEF FocusInv, Foremost
    <3> QED BY <1>2, <1>3, <2>1, <2>2, <2>3, <2>5, <3>1, <3>2 DEF FocusInv, Foremost, Supporting
  <2> QED BY <2>4, <2>5
<1>7. CASE ResolveSymbol
  <2>1. pc = "symbol" /\ shown' = shown
    BY <1>7, ResolveStep DEF ResolveSymbol
  <2>2. pc' = "symbol" \/ Supporting'
    BY <1>7, ResolveStep DEF Supporting
  <2> QED BY <1>2, <1>3, <2>1, <2>2 DEF FocusInv, Foremost, Supporting
<1>8. CASE OpenDiff
  <2>1. pc = "resource" /\ pc' = "hunk" /\ shown' = shown /\ StillWanted = {}
    BY <1>8 DEF OpenDiff
  <2>2. ASSUME shown = <<>> PROVE ShownBlocks("resource") = {} /\ Len(shown) = 0
    BY <2>2 DEF ShownBlocks
  <2>3. Named => shown # <<>>
    BY <2>1, <2>2 DEF StillWanted
  <2>4. ASSUME NEW b \in Resources, ~Named, DiagnosedIn(b)
        PROVE  shown # <<>> /\ ~Ambiguous
    <3>1. b \in Candidates /\ ~Ambiguous
      BY <2>4, DiagnosedScores
    <3> QED BY <2>1, <2>2, <2>4, <3>1 DEF StillWanted
  <2> QED BY <1>2, <1>3, <2>1, <2>3, <2>4 DEF FocusInv, Foremost, Supporting
<1>9. CASE Rank \/ BoundFailure
  BY <1>2, <1>3, <1>9 DEF Rank, BoundFailure, FocusInv, Foremost, Supporting
<1>10. CASE Elsewhere /\ ~OpenDiff /\ ~Rank /\ ~BoundFailure
  <2>1. /\ pc \in {"hunk", "offer", "symbol", "metadata"}
        /\ pc' \in {"hunk", "offer", "symbol", "metadata", "done"}
    <3>1. CASE TakeHunk
      BY <3>1, HunkStep DEF TakeHunk
    <3> QED BY <1>10, <3>1 DEF Elsewhere, OfferLine, WidenPick, FinishHunk, OpenSymbols,
               CloseSymbols, CountMetadata
  <2>2. shown' = shown
    BY <1>10, ElsewhereKeepsExcerpts
  <2> QED BY <1>2, <1>3, <2>1, <2>2 DEF FocusInv, Foremost, Supporting
<1> QED BY <1>4, <1>5, <1>6, <1>7, <1>8, <1>9, <1>10, NextSteps

-------------------------------------------------------------------------------
(* The theorems.                                                           *)

LEMMA Stutter ==
  ASSUME IInv, UNCHANGED vars
  PROVE  IInv'
<1>1. UNCHANGED <<failure, diff, lim, pc, used, ceiling, shown, excerpt, hunk, pick,
                  pending, resolved, unresolved, truncated, characters>>
  BY DEF vars, inputVars, symbolVars
<1>2. TypeOK' /\ ShapeInv' /\ PickInv'
  BY <1>1 DEF IInv, TypeOK, ShapeInv, PickInv, Sound, Maximal, OneLine, Extent, FitsBelow,
              FitsAbove
<1>3. BudgetInv'
  BY <1>1 DEF IInv, BudgetInv, Supporting
<1>4. SymbolInv'
  BY <1>1 DEF IInv, SymbolInv, Supporting, References, Defined
<1>5. FocusInv'
  BY <1>1, ReadingsStay DEF IInv, FocusInv, Supporting, Foremost
<1> QED BY <1>2, <1>3, <1>4, <1>5 DEF IInv

LEMMA Inductive == Spec => []IInv
<1>1. IInv /\ [Next]_vars => IInv'
  <2> SUFFICES ASSUME IInv, [Next]_vars PROVE IInv'
    OBVIOUS
  <2>1. CASE Next
    BY <2>1, TypeStep, ShapeStep, PickStep, BudgetStep, SymbolStep, FocusStep DEF IInv
  <2>2. CASE UNCHANGED vars
    BY <2>2, Stutter
  <2> QED BY <2>1, <2>2
<1> QED BY InitIInv, <1>1, PTL DEF Spec

\* Every variable of the builder keeps to its type: no excerpt leaves its block,
\* and no size is negative (build, builder.py:120).
THEOREM TypeCorrect == Spec => []TypeOK
<1>1. IInv => TypeOK
  BY DEF IInv
<1> QED BY <1>1, Inductive, PTL

\* Only a diagnostic that is too long by itself, or a single line longer than
\* what was left, takes the context past its total; the diff, an excerpt of
\* several lines and the metadata do not, nor do they add to an overrun
\* (builder.py:120-286).
THEOREM ContextIsBounded == Spec => BudgetIsKept
<1>1. IInv /\ [Next]_vars => [Spent' > Larger(Spent, lim.total) => TooLongAlone]_vars
  BY OverrunStep
<1> QED BY <1>1, Inductive, PTL DEF Spec, BudgetIsKept

\* Every excerpt contains the line it was cut for and could not be any longer
\* (_bounded_hcl_excerpt, builder.py:653).
THEOREM NoExcerptIsShort == Spec => []ExcerptsAreMaximal
<1>1. IInv => ExcerptsAreMaximal
  BY DEF IInv, ShapeInv, Maximal, Sound, ExcerptsAreMaximal
<1> QED BY <1>1, Inductive, PTL

\* Every reference is reported once, and a resolved one is shown
\* (_resolve_symbols, builder.py:377).
THEOREM ResolvedMeansShown == Spec => []ResolvedIsShown
<1>1. IInv => ResolvedIsShown
  <2> SUFFICES ASSUME IInv, pc \in {"metadata", "done"}
               PROVE  /\ resolved \cap unresolved = {}
                      /\ resolved \cup unresolved = References
                      /\ \A r \in resolved : \E i \in DOMAIN shown :
                           /\ shown[i].block = Target[r].block
                           /\ shown[i].cut \/ Target[r].line \in shown[i].low..shown[i].high
    BY DEF ResolvedIsShown
  <2>1. /\ resolved \cap unresolved = {}
        /\ resolved \cup unresolved = References
        /\ \A r \in resolved : r \in Refs /\ Defined(r)
        /\ \A r \in resolved : \E i \in DOMAIN shown : shown[i].block = Target[r].block
    BY DEF IInv, SymbolInv
  <2>2. ASSUME NEW r \in resolved, NEW i \in DOMAIN shown, shown[i].block = Target[r].block
        PROVE  shown[i].cut \/ Target[r].line \in shown[i].low..shown[i].high
    <3>1. Target[r].line \in 1..Last(Target[r].block)
      BY <2>1, <2>2, SymbolsHaveTargets DEF Defined
    <3>2. ~shown[i].cut => shown[i].low = 1 /\ shown[i].high = Last(Target[r].block)
      BY <2>2 DEF IInv, ShapeInv, Maximal, Sound
    <3> QED BY <3>1, <3>2
  <2> QED BY <2>1, <2>2
<1> QED BY <1>1, Inductive, PTL

\* The block the diagnostic points into is the first one shown, whatever the
\* diff changes elsewhere (_select_resources, builder.py:315).
THEOREM DiagnosedComesFirst == Spec => []DiagnosedBlockIsShown
<1>1. IInv => DiagnosedBlockIsShown
  <2> SUFFICES ASSUME IInv, pc \notin {"rank", "raised", "failure", "resource", "grow"}
               PROVE  /\ Named => Len(shown) > 0 /\ shown[1].block = failure.address
                      /\ \A b \in Resources : ~Named /\ DiagnosedIn(b) =>
                           Len(shown) > 0 /\ shown[1].block = b /\ ~Ambiguous
    BY DEF DiagnosedBlockIsShown
  <2>1. pc \in {"hunk", "offer", "symbol", "metadata", "done"}
    BY DEF IInv, TypeOK
  <2>2. shown # <<>> => Len(shown) > 0
    BY DEF IInv, TypeOK
  <2> QED BY <2>1, <2>2 DEF IInv, FocusInv, Foremost
<1> QED BY <1>1, Inductive, PTL
-------------------------------------------------------------------------------
(* Progress.                                                               *)

\* The blocks that are still given an excerpt, at most.
Wanting == IF StillWanted = {} THEN 0
           ELSE IF Named THEN 1
           ELSE (IF Ambiguous THEN lim.candidates ELSE 1) - Len(shown)

\* The lines an excerpt may still grow by.
Room(e) == Last(e.block) - (e.high - e.low)

HunksLeft == IF hunk > Len(diff.hunks) THEN 0 ELSE Len(diff.hunks) + 1 - hunk

Widenings == IF pick.distance >= lim.nearby THEN 0 ELSE lim.nearby - pick.distance

\* What is left to do: the sections, the turns of the section's loop, those of
\* the loop inside it, and those of the innermost one.
WorkLeft ==
  CASE pc = "rank"     -> <<6, 0, 0, 0>>
    [] pc = "failure"  -> <<5, 0, 0, 0>>
    [] pc = "resource" -> <<4, Wanting, 1, 0>>
    [] pc = "grow" /\ ~Supporting -> <<4, Wanting, 0, Room(excerpt)>>
    [] pc = "hunk"     -> <<3, HunksLeft, lim.nearby + 1, 0>>
    [] pc = "offer"    -> <<3, HunksLeft, Widenings, Cardinality(pick.left)>>
    [] pc = "symbol"   -> <<2, Cardinality(pending), 0, 0>>
    [] pc = "grow" /\ Supporting -> <<2, Cardinality(pending), 1, Room(excerpt)>>
    [] pc = "metadata" -> <<1, 0, 0, 0>>
    [] pc \in {"raised", "done"} -> <<0, 0, 0, 0>>

\* The lexicographic order.
Fewer(s, t) == \E k \in 1..4 : s[k] < t[k] /\ \A j \in 1..(k - 1) : s[j] = t[j]

LEMMA FewerByOne ==
  ASSUME NEW a1, NEW a2, NEW a3, NEW a4, NEW b1, NEW b2, NEW b3, NEW b4,
         \/ a1 < b1
         \/ a1 = b1 /\ a2 < b2
         \/ a1 = b1 /\ a2 = b2 /\ a3 < b3
         \/ a1 = b1 /\ a2 = b2 /\ a3 = b3 /\ a4 < b4
  PROVE  Fewer(<<a1, a2, a3, a4>>, <<b1, b2, b3, b4>>)
<1> DEFINE s == <<a1, a2, a3, a4>>
           t == <<b1, b2, b3, b4>>
<1>1. /\ s[1] = a1 /\ s[2] = a2 /\ s[3] = a3 /\ s[4] = a4
      /\ t[1] = b1 /\ t[2] = b2 /\ t[3] = b3 /\ t[4] = b4
  OBVIOUS
<1> HIDE DEF s, t
<1>2. CASE a1 < b1
  BY <1>1, <1>2 DEF Fewer
<1>3. CASE a1 = b1 /\ a2 < b2
  BY <1>1, <1>3 DEF Fewer
<1>4. CASE a1 = b1 /\ a2 = b2 /\ a3 < b3
  BY <1>1, <1>4 DEF Fewer
<1>5. CASE a1 = b1 /\ a2 = b2 /\ a3 = b3 /\ a4 < b4
  BY <1>1, <1>5 DEF Fewer
<1> QED BY <1>2, <1>3, <1>4, <1>5 DEF s, t

\* The block whose excerpt grows is still wanted: only when it is finished does
\* it count as shown.
WantedInv == pc = "grow" /\ ~Supporting => excerpt.block \in StillWanted

LEMMA WantedStays ==
  ASSUME UNCHANGED inputVars, shown' = shown
  PROVE  StillWanted' = StillWanted /\ Wanting' = Wanting
<1>1. failure' = failure /\ diff' = diff /\ lim' = lim
  BY DEF inputVars
<1>2. Named' = Named /\ Ambiguous' = Ambiguous
  BY <1>1, ReadingsStay
<1>3. \A b : Score(b)' = Score(b)
  BY <1>1 DEF Score, DiagnosedIn, ChangedIn, ChangedFiles
<1>4. Candidates' = Candidates
  BY <1>3 DEF Candidates
<1>5. \A role : ShownBlocks(role)' = ShownBlocks(role)
  BY DEF ShownBlocks
<1>6. StillWanted' = StillWanted
  BY <1>1, <1>2, <1>4, <1>5 DEF StillWanted
<1> QED BY <1>1, <1>2, <1>6 DEF Wanting

LEMMA TakenIsWanted ==
  ASSUME TypeOK, TakeResource
  PROVE  /\ excerpt'.block \in StillWanted /\ excerpt'.role = "resource"
         /\ pc = "resource" /\ pc' = "grow" /\ shown' = shown
<1>1. StillWanted # {} /\ pc = "resource" /\ pc' = "grow" /\ shown' = shown
  BY DEF TakeResource
<1>2. CASE Named
  <2>1. StillWanted \subseteq {failure.address}
    BY <1>2 DEF StillWanted
  <2>2. failure.address \in StillWanted
    BY <1>1, <2>1
  <2> QED BY <1>1, <1>2, <2>2, TakenIsSound
<1>3. CASE ~Named
  <2>1. StillWanted \subseteq Resources
    BY <1>3 DEF StillWanted, Candidates
  <2>2. Best(StillWanted) \in StillWanted
    BY <1>1, <2>1, BestIsBest
  <2> QED BY <1>1, <1>3, <2>2, TakenIsSound
<1> QED BY <1>2, <1>3

LEMMA WantedStep ==
  ASSUME IInv, WantedInv, Next
  PROVE  WantedInv'
<1>1. UNCHANGED inputVars
  BY NextKeepsInputs
<1>2. CASE TakeResource
  BY <1>1, <1>2, TakenIsWanted, WantedStays DEF IInv, WantedInv
<1>3. CASE Grow
  <2>1. /\ excerpt'.block = excerpt.block /\ excerpt'.role = excerpt.role
        /\ shown' = shown /\ pc = "grow" /\ pc' = "grow"
    BY <1>3, GrownIsSound DEF Grow, IInv, ShapeInv
  <2> QED BY <1>1, <2>1, WantedStays DEF WantedInv, Supporting
<1>4. CASE FinishExcerpt
  BY <1>4 DEF FinishExcerpt, WantedInv
<1>5. CASE ResolveSymbol
  <2>1. pc' = "grow" => excerpt'.role = "supporting"
    BY <1>5, ResolveStep DEF IInv
  <2> QED BY <2>1 DEF WantedInv, Supporting
<1>6. CASE Elsewhere
  BY <1>6, ElsewhereKeepsExcerpts DEF WantedInv
<1> QED BY <1>2, <1>3, <1>4, <1>5, <1>6, NextSteps

\* There is always a number of turns left.
LEMMA WorkIsNatural ==
  ASSUME IInv
  PROVE  /\ Wanting \in Nat /\ HunksLeft \in Nat /\ lim.nearby \in Nat
         /\ StillWanted # {} => Wanting > 0
         /\ IsFiniteSet(pending) /\ Cardinality(pending) \in Nat
         /\ pc = "grow" => Room(excerpt) \in Nat
         /\ pc = "offer" => /\ Widenings \in Nat /\ pick.distance \in Nat
                            /\ IsFiniteSet(pick.left) /\ Cardinality(pick.left) \in Nat
<1>1. TypeOK
  BY DEF IInv
<1>2. lim.nearby \in Nat /\ lim.candidates \in Nat /\ Len(shown) \in Nat
  BY <1>1, InputsAreInputs DEF TypeOK, Limits
<1>3. Wanting \in Nat /\ (StillWanted # {} => Wanting > 0)
  <2>1. CASE StillWanted # {} /\ ~Named
    <3>1. ~(Len(shown) >= IF Ambiguous THEN lim.candidates ELSE 1)
      BY <2>1 DEF StillWanted
    <3> QED BY <1>2, <2>1, <3>1 DEF Wanting
  <2> QED BY <2>1 DEF Wanting
<1>4. HunksLeft \in Nat
  <2>1. Len(diff.hunks) \in Nat /\ hunk \in Nat
    BY <1>1, Inputs DEF TypeOK
  <2> QED BY <2>1 DEF HunksLeft
<1>5. IsFiniteSet(pending) /\ Cardinality(pending) \in Nat
  BY <1>1, SymbolsHaveTargets, FS_Subset, FS_CardinalityType DEF TypeOK
<1>6. ASSUME pc = "grow" PROVE Room(excerpt) \in Nat
  <2>1. Sound(excerpt)
    BY <1>6 DEF IInv, ShapeInv
  <2>2. excerpt.low \in 1..Last(excerpt.block) /\ excerpt.high \in 1..Last(excerpt.block)
        /\ excerpt.low <= excerpt.high /\ excerpt.block \in Blocks
    BY <2>1, ExcerptSize
  <2>3. Last(excerpt.block) \in Nat
    BY <2>2, Block
  <2> QED BY <2>2, <2>3 DEF Room
<1>7. ASSUME pc = "offer"
      PROVE  /\ Widenings \in Nat /\ pick.distance \in Nat
             /\ IsFiniteSet(pick.left) /\ Cardinality(pick.left) \in Nat
  <2>1. pick \in Picks /\ hunk <= Len(diff.hunks)
        /\ pick.left \subseteq DOMAIN diff.hunks[hunk].body
    BY <1>7 DEF IInv, PickInv
  <2>2. pick.distance \in Nat
    BY <2>1 DEF Picks
  <2>3. IsFiniteSet(DOMAIN diff.hunks[hunk].body)
    <3>1. diff.hunks[hunk] \in Hunk
      BY <1>1, <2>1, Inputs DEF TypeOK
    <3>2. diff.hunks[hunk].body \in Seq([size : Nat \ {0}, changed : BOOLEAN])
      BY <3>1 DEF Hunk
    <3>3. /\ DOMAIN diff.hunks[hunk].body = 1..Len(diff.hunks[hunk].body)
          /\ Len(diff.hunks[hunk].body) \in Nat
      BY <3>2
    <3> QED BY <3>3, FS_Interval
  <2> QED BY <1>2, <2>1, <2>2, <2>3, FS_Subset, FS_CardinalityType DEF Widenings
<1> QED BY <1>2, <1>3, <1>4, <1>5, <1>6, <1>7

\* One more line of an excerpt, and one less it may grow by.
LEMMA GrownHasLessRoom ==
  ASSUME NEW e, Sound(e), Growing(e)
  PROVE  Room(Grown(e)) < Room(e)
<1> DEFINE f == [e EXCEPT !.low = IF FitsBelow(e) THEN @ - 1 ELSE @]
           g == Grown(e)
<1>1. /\ e.low \in 1..Last(e.block) /\ e.high \in 1..Last(e.block) /\ e.low <= e.high
      /\ Last(e.block) \in Nat /\ e \in Excerpt
  BY ExcerptSize, Block DEF Sound
<1>2. /\ f.block = e.block /\ f.max = e.max /\ f.high = e.high
      /\ f.low = IF FitsBelow(e) THEN e.low - 1 ELSE e.low
  BY <1>1 DEF Excerpt
<1>3. /\ g.block = e.block /\ g.low = f.low
      /\ g.high = IF FitsAbove(f) THEN e.high + 1 ELSE e.high
  BY <1>1 DEF Grown, Excerpt
<1> HIDE DEF f, g
<1>4. ~FitsBelow(e) => FitsAbove(f)
  BY <1>2 DEF Growing, FitsAbove
<1>5. g.high - g.low > e.high - e.low /\ g.high - g.low \in Int
  BY <1>1, <1>2, <1>3, <1>4
<1> QED BY <1>1, <1>3, <1>5 DEF Room, g

\* Each section comes after those before it.
LEMMA SectionsGoForward ==
  ASSUME IInv, Rank \/ BoundFailure \/ OpenDiff \/ OpenSymbols \/ CloseSymbols \/ CountMetadata
  PROVE  Fewer(WorkLeft', WorkLeft)
<1>1. CASE Rank
  <2>1. CASE pc' = "raised"
    <3>1. WorkLeft = <<6, 0, 0, 0>> /\ WorkLeft' = <<0, 0, 0, 0>>
      BY <1>1, <2>1 DEF Rank, WorkLeft
    <3> QED BY <3>1, FewerByOne
  <2>2. CASE pc' = "failure"
    <3>1. WorkLeft = <<6, 0, 0, 0>> /\ WorkLeft' = <<5, 0, 0, 0>>
      BY <1>1, <2>2 DEF Rank, WorkLeft
    <3> QED BY <3>1, FewerByOne
  <2> QED BY <1>1, <2>1, <2>2 DEF Rank
<1>2. CASE BoundFailure
  <2>1. WorkLeft = <<5, 0, 0, 0>> /\ WorkLeft' = <<4, Wanting', 1, 0>>
    BY <1>2 DEF BoundFailure, WorkLeft
  <2> QED BY <2>1, FewerByOne
<1>3. CASE OpenDiff
  <2>1. WorkLeft = <<4, Wanting, 1, 0>> /\ WorkLeft' = <<3, HunksLeft', lim'.nearby + 1, 0>>
    BY <1>3 DEF OpenDiff, WorkLeft
  <2> QED BY <2>1, FewerByOne
<1>4. CASE OpenSymbols
  <2>1. /\ WorkLeft = <<3, HunksLeft, lim.nearby + 1, 0>>
        /\ WorkLeft' = <<2, Cardinality(pending'), 0, 0>>
    BY <1>4 DEF OpenSymbols, WorkLeft
  <2> QED BY <2>1, FewerByOne
<1>5. CASE CloseSymbols
  <2>1. WorkLeft = <<2, Cardinality(pending), 0, 0>> /\ WorkLeft' = <<1, 0, 0, 0>>
    BY <1>5 DEF CloseSymbols, WorkLeft
  <2> QED BY <2>1, FewerByOne
<1>6. CASE CountMetadata
  <2>1. WorkLeft = <<1, 0, 0, 0>> /\ WorkLeft' = <<0, 0, 0, 0>>
    BY <1>6 DEF CountMetadata, WorkLeft
  <2> QED BY <2>1, FewerByOne
<1> QED BY <1>1, <1>2, <1>3, <1>4, <1>5, <1>6

\* Taking a block turns to the inner loop, a line is one turn of it, and a
\* finished excerpt one of the outer loop.
LEMMA ExcerptsGoForward ==
  ASSUME IInv, WantedInv, TakeResource \/ Grow \/ FinishExcerpt
  PROVE  Fewer(WorkLeft', WorkLeft)
<1>0. UNCHANGED inputVars
  BY NextKeepsInputs DEF Next
<1>1. CASE TakeResource
  <2>1. Wanting' = Wanting /\ pc = "resource" /\ pc' = "grow" /\ excerpt'.role = "resource"
    BY <1>0, <1>1, TakenIsWanted, WantedStays DEF IInv
  <2>2. WorkLeft = <<4, Wanting, 1, 0>> /\ WorkLeft' = <<4, Wanting, 0, Room(excerpt)'>>
    BY <2>1 DEF WorkLeft, Supporting
  <2> QED BY <2>2, FewerByOne
<1>2. CASE Grow
  <2>1. /\ pc = "grow" /\ pc' = "grow" /\ excerpt' = Grown(excerpt) /\ Sound(excerpt)
        /\ Growing(excerpt) /\ shown' = shown /\ pending' = pending
    BY <1>2 DEF Grow, symbolVars, IInv, ShapeInv
  <2>2. Room(excerpt') < Room(excerpt) /\ excerpt'.role = excerpt.role
    BY <2>1, GrownHasLessRoom, GrownIsSound
  <2>3. Wanting' = Wanting
    BY <1>0, <2>1, WantedStays
  <2>4. Room(excerpt)' = Room(excerpt')
    BY DEF Room
  <2>5. CASE Supporting
    <3>1. /\ WorkLeft = <<2, Cardinality(pending), 1, Room(excerpt)>>
          /\ WorkLeft' = <<2, Cardinality(pending), 1, Room(excerpt')>>
      BY <2>1, <2>2, <2>4, <2>5 DEF WorkLeft, Supporting
    <3> QED BY <2>2, <3>1, FewerByOne
  <2>6. CASE ~Supporting
    <3>1. /\ WorkLeft = <<4, Wanting, 0, Room(excerpt)>>
          /\ WorkLeft' = <<4, Wanting, 0, Room(excerpt')>>
      BY <2>1, <2>2, <2>3, <2>4, <2>6 DEF WorkLeft, Supporting
    <3> QED BY <2>2, <3>1, FewerByOne
  <2> QED BY <2>5, <2>6
<1>3. CASE FinishExcerpt
  <2>1. CASE Supporting
    <3>1. pc = "grow" /\ pc' = "symbol" /\ pending' = pending
      BY <1>3, <2>1 DEF FinishExcerpt, Supporting, symbolVars
    <3>2. /\ WorkLeft = <<2, Cardinality(pending), 1, Room(excerpt)>>
          /\ WorkLeft' = <<2, Cardinality(pending), 0, 0>>
      BY <2>1, <3>1 DEF WorkLeft
    <3> QED BY <3>2, FewerByOne
  <2>2. CASE ~Supporting
    <3>1. /\ pc = "grow" /\ pc' = "resource" /\ excerpt.role = "resource"
          /\ excerpt.block \in StillWanted
      BY <1>3, <2>2 DEF FinishExcerpt, Supporting, WantedInv, IInv, ShapeInv, Sound, Excerpt
    <3>2. WorkLeft = <<4, Wanting, 0, Room(excerpt)>> /\ WorkLeft' = <<4, Wanting', 1, 0>>
      BY <2>2, <3>1 DEF WorkLeft, Supporting
    <3>3. Wanting \in Nat /\ Wanting > 0
      BY <3>1, WorkIsNatural
    <3>4. Wanting' < Wanting
      <4>1. /\ Named' = Named /\ Ambiguous' = Ambiguous
            /\ failure' = failure /\ lim' = lim
        BY <1>0, ReadingsStay DEF inputVars
      <4>2. CASE StillWanted' = {}
        BY <3>3, <4>2 DEF Wanting
      <4>3. CASE StillWanted' # {} /\ Named
        <5>1. excerpt.block = failure.address
          BY <3>1, <4>3 DEF StillWanted
        <5>2. /\ Len(shown) + 1 \in DOMAIN shown'
              /\ shown'[Len(shown) + 1] = excerpt
          BY <1>3, FinishedIsShown DEF IInv
        <5>3. failure.address \in ShownBlocks("resource")'
          BY <3>1, <5>1, <5>2 DEF ShownBlocks
        <5>4. StillWanted' = {failure'.address} \ ShownBlocks("resource")'
          BY <4>1, <4>3 DEF StillWanted
        <5> QED BY <4>1, <4>3, <5>3, <5>4
      <4>4. CASE StillWanted' # {} /\ ~Named
        <5>1. /\ Wanting = (IF Ambiguous THEN lim.candidates ELSE 1) - Len(shown)
              /\ Wanting' = (IF Ambiguous THEN lim.candidates ELSE 1) - Len(shown')
          BY <3>1, <4>1, <4>4 DEF Wanting
        <5>2. Len(shown) \in Nat /\ Len(shown') = Len(shown) + 1 /\ lim.candidates \in Nat
          BY <1>3, Inputs DEF IInv, TypeOK, FinishExcerpt
        <5> QED BY <5>1, <5>2
      <4> QED BY <4>2, <4>3, <4>4
    <3> QED BY <3>2, <3>4, FewerByOne
  <2> QED BY <2>1, <2>2
<1> QED BY <1>1, <1>2, <1>3

\* A hunk is dealt with, a line of it is offered, or the lines around are.
LEMMA HunksGoForward ==
  ASSUME IInv, TakeHunk \/ OfferLine \/ WidenPick \/ FinishHunk
  PROVE  Fewer(WorkLeft', WorkLeft)
<1>0. /\ lim.nearby \in Nat /\ lim' = lim /\ diff' = diff
      /\ Len(diff.hunks) \in Nat /\ hunk \in Nat
  <2>1. UNCHANGED inputVars
    BY NextKeepsInputs DEF Next
  <2> QED BY <2>1, WorkIsNatural, Inputs DEF inputVars, IInv, TypeOK
<1>1. ASSUME hunk <= Len(diff.hunks), hunk' = hunk + 1 PROVE HunksLeft' < HunksLeft
  <2> DEFINE n == Len(diff.hunks)
  <2>1. n \in Nat /\ hunk \in Nat /\ ~(hunk > n) /\ Len(diff'.hunks) = n
    BY <1>0, <1>1
  <2>2. HunksLeft = n + 1 - hunk
    BY <2>1 DEF HunksLeft
  <2>3. HunksLeft' = IF hunk + 1 > n THEN 0 ELSE n + 1 - (hunk + 1)
    BY <1>1, <2>1 DEF HunksLeft
  <2> HIDE DEF n
  <2> QED BY <2>1, <2>2, <2>3
<1>2. CASE TakeHunk
  <2>1. pc = "hunk" /\ hunk <= Len(diff.hunks)
    BY <1>2 DEF TakeHunk
  <2>2. CASE pc' = "hunk" /\ hunk' = hunk + 1
    <3>1. /\ WorkLeft = <<3, HunksLeft, lim.nearby + 1, 0>>
          /\ WorkLeft' = <<3, HunksLeft', lim'.nearby + 1, 0>>
      BY <2>1, <2>2 DEF WorkLeft
    <3> QED BY <1>1, <2>1, <2>2, <3>1, FewerByOne
  <2>3. CASE pc' = "offer" /\ hunk' = hunk
    <3>1. HunksLeft' = HunksLeft
      BY <1>0, <2>3 DEF HunksLeft
    <3>2. /\ WorkLeft = <<3, HunksLeft, lim.nearby + 1, 0>>
          /\ WorkLeft' = <<3, HunksLeft, Widenings', Cardinality(pick'.left)>>
      BY <2>1, <2>3, <3>1 DEF WorkLeft
    <3>3. Widenings' < lim.nearby + 1
      <4>1. pick'.distance \in Nat
        BY <1>2, <2>3, HunkStep DEF IInv, Picks
      <4> QED BY <1>0, <4>1 DEF Widenings
    <3> QED BY <3>2, <3>3, FewerByOne
  <2> QED BY <1>2, <2>2, <2>3, HunkStep DEF IInv
<1>3. CASE OfferLine
  <2>1. /\ pc = "offer" /\ pc' = "offer" /\ hunk' = hunk /\ pick.left # {}
        /\ pick'.left = pick.left \ {Least(pick.left)} /\ pick'.distance = pick.distance
    <3>1. pick \in Picks
      BY <1>3 DEF OfferLine, IInv, PickInv
    <3> QED BY <1>3, <3>1 DEF OfferLine, Picks
  <2>2. /\ IsFiniteSet(pick.left) /\ Cardinality(pick.left) \in Nat
        /\ Least(pick.left) \in pick.left
    <3>1. pick.left \subseteq Nat
      BY <2>1 DEF IInv, PickInv, Picks
    <3> QED BY <2>1, <3>1, LeastNumber, WorkIsNatural
  <2>3. Cardinality(pick'.left) < Cardinality(pick.left)
    <3>1. Cardinality(pick'.left) = Cardinality(pick.left) - 1
      BY <2>1, <2>2, FS_RemoveElement
    <3> QED BY <2>2, <3>1
  <2>4. HunksLeft' = HunksLeft /\ Widenings' = Widenings
    BY <1>0, <2>1 DEF HunksLeft, Widenings
  <2>5. /\ WorkLeft = <<3, HunksLeft, Widenings, Cardinality(pick.left)>>
        /\ WorkLeft' = <<3, HunksLeft, Widenings, Cardinality(pick'.left)>>
    BY <2>1, <2>4 DEF WorkLeft
  <2> QED BY <2>3, <2>5, FewerByOne
<1>4. CASE WidenPick
  <2>1. /\ pc = "offer" /\ pc' = "offer" /\ hunk' = hunk /\ pick.distance < lim.nearby
        /\ pick'.distance = pick.distance + 1
    <3>1. pick \in Picks
      BY <1>4 DEF WidenPick, IInv, PickInv
    <3> QED BY <1>4, <3>1 DEF WidenPick, Picks
  <2>2. HunksLeft' = HunksLeft
    BY <1>0, <2>1 DEF HunksLeft
  <2>3. Widenings' < Widenings
    <3>1. pick.distance \in Nat
      BY <2>1, WorkIsNatural
    <3> QED BY <1>0, <2>1, <3>1 DEF Widenings
  <2>4. /\ WorkLeft = <<3, HunksLeft, Widenings, Cardinality(pick.left)>>
        /\ WorkLeft' = <<3, HunksLeft, Widenings', Cardinality(pick'.left)>>
    BY <2>1, <2>2 DEF WorkLeft
  <2> QED BY <2>3, <2>4, FewerByOne
<1>5. CASE FinishHunk
  <2>1. pc = "offer" /\ pc' = "hunk" /\ hunk' = hunk + 1 /\ hunk <= Len(diff.hunks)
    BY <1>5 DEF FinishHunk, IInv, PickInv
  <2>2. /\ WorkLeft = <<3, HunksLeft, Widenings, Cardinality(pick.left)>>
        /\ WorkLeft' = <<3, HunksLeft', lim'.nearby + 1, 0>>
    BY <2>1 DEF WorkLeft
  <2> QED BY <1>1, <2>1, <2>2, FewerByOne
<1> QED BY <1>2, <1>3, <1>4, <1>5

\* A reference is looked at once.
LEMMA SymbolsGoForward ==
  ASSUME IInv, ResolveSymbol
  PROVE  Fewer(WorkLeft', WorkLeft)
<1>1. pc = "symbol"
  BY DEF ResolveSymbol
<1>2. PICK r \in pending :
        /\ pending' = pending \ {r}
        /\ pc' = "symbol" \/ (pc' = "grow" /\ excerpt'.role = "supporting")
  BY ResolveStep DEF IInv
<1>3. Cardinality(pending') < Cardinality(pending)
  <2>1. IsFiniteSet(pending) /\ Cardinality(pending) \in Nat
    BY WorkIsNatural
  <2>2. Cardinality(pending') = Cardinality(pending) - 1
    BY <1>2, <2>1, FS_RemoveElement
  <2> QED BY <2>1, <2>2
<1>4. CASE pc' = "symbol"
  <2>1. /\ WorkLeft = <<2, Cardinality(pending), 0, 0>>
        /\ WorkLeft' = <<2, Cardinality(pending'), 0, 0>>
    BY <1>1, <1>4 DEF WorkLeft
  <2> QED BY <1>3, <2>1, FewerByOne
<1>5. CASE pc' = "grow" /\ excerpt'.role = "supporting"
  <2>1. /\ WorkLeft = <<2, Cardinality(pending), 0, 0>>
        /\ WorkLeft' = <<2, Cardinality(pending'), 1, Room(excerpt)'>>
    BY <1>1, <1>5 DEF WorkLeft, Supporting
  <2> QED BY <1>3, <2>1, FewerByOne
<1> QED BY <1>2, <1>4, <1>5

\* None of the builder's loops turns for ever: every turn of the loops over
\* blocks, lines of an excerpt, hunks, picked lines, distances and references
\* leaves fewer of them, in the lexicographic order of the loops and of natural
\* numbers (build and _bounded_hcl_excerpt, whose loop ends when nothing fits).
THEOREM ContextGoesForward ==
  Spec => /\ [](\A k \in 1..4 : WorkLeft[k] \in Nat)
          /\ [][Fewer(WorkLeft', WorkLeft)]_vars
<1>1. Init => WantedInv
  BY DEF Init, WantedInv
<1>2. IInv /\ WantedInv /\ [Next]_vars => WantedInv'
  <2> SUFFICES ASSUME IInv, WantedInv, [Next]_vars PROVE WantedInv'
    OBVIOUS
  <2>1. CASE Next
    BY <2>1, WantedStep
  <2>2. CASE UNCHANGED vars
    BY <2>2, WantedStays DEF vars, WantedInv, Supporting
  <2> QED BY <2>1, <2>2
<1>3. IInv => \A k \in 1..4 : WorkLeft[k] \in Nat
  <2> SUFFICES ASSUME IInv PROVE \A k \in 1..4 : WorkLeft[k] \in Nat
    OBVIOUS
  <2>1. PICK a \in Nat, b \in Nat, c \in Nat, d \in Nat : WorkLeft = <<a, b, c, d>>
    <3>1. CASE pc \in {"rank", "raised", "failure", "resource", "hunk", "symbol", "metadata",
                       "done"}
      BY <3>1, WorkIsNatural DEF WorkLeft
    <3>2. CASE pc = "offer"
      BY <3>2, WorkIsNatural DEF WorkLeft
    <3>3. CASE pc = "grow"
      BY <3>3, WorkIsNatural DEF WorkLeft
    <3> QED BY <3>1, <3>2, <3>3 DEF IInv, TypeOK
  <2> QED BY <2>1
<1>4. IInv /\ WantedInv /\ [Next]_vars => [Fewer(WorkLeft', WorkLeft)]_vars
  BY SectionsGoForward, ExcerptsGoForward, HunksGoForward, SymbolsGoForward DEF Next
<1> QED BY <1>1, <1>2, <1>3, <1>4, Inductive, PTL DEF Spec
=============================================================================
