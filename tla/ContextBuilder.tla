---------------------------- MODULE ContextBuilder ----------------------------
(***************************************************************************)
(* The source context of a model call (context/builder.py and the ranking  *)
(* of terraform/resources.py): rank the resource blocks by the evidence of *)
(* diagnostic and diff, cut an excerpt of the best ones around the line in *)
(* focus, then spend what is left of the character budget on the diff, on  *)
(* the definitions the excerpts refer to, and on metadata.                 *)
(*                                                                         *)
(* Text is its length: a block is the offsets of its lines, a symbol the   *)
(* lines it is used and defined on.  One step is one iteration of a loop   *)
(* of the code, so that what the loops guarantee can be stated and proved  *)
(* without recursion.                                                      *)
(***************************************************************************)
EXTENDS Integers, Sequences, FiniteSets

CONSTANTS
  Blocks,       \* the blocks of the sources, numbers in the order of their address
  Resources,    \* those that are resources
  Files, NoFile,
  FileOf, Start,\* the file and the first line of each block
  Offsets,      \* the characters before each line of a block, and all of them
  Refs,         \* symbols: var., local., data., resource and module references
  Early,        \* those that are resolved first: variables and locals
  Uses,         \* where they stand: [ref, block, line]
  Target,       \* where they are defined: [block, line], or NoTarget
  NoTarget,
  NoBlock,      \* no address in the diagnostic
  Foreign,      \* an address that is no resource of the sources
  NoExcerpt, NoPick,
  SymbolSize, MetadataSize,   \* characters of a symbol's name, of the metadata
  Failures, Diffs, Settings   \* what a run may come with

Limits == [diagnostic : Nat, resource : Nat \ {0}, diff : Nat, supporting : Nat,
           total : Nat, candidates : Nat, nearby : Nat]

\* "fixed" are the characters of summary, stage, address, file and line; the
\* lines of the detail are given by their offsets.
Failure == [address : Resources \cup {NoBlock, Foreign}, file : Files \cup {NoFile},
            line : Nat, fixed : Nat, detail : Seq(Nat) \ {<<>>}]

\* A hunk with the lines it spans in the new file, the characters before its
\* body, and each line of the body with its line break.
Hunk == [file : Files, first : Nat, last : Nat, head : Nat,
         body : Seq([size : Nat \ {0}, changed : BOOLEAN]), size : Nat]

Diff == [lines : SUBSET (Files \X Nat), hunks : Seq(Hunk)]

Last(b)          == Len(Offsets[b]) - 1     \* the number of lines of block b
Size(b, lo, hi)  == Offsets[b][hi + 1] - Offsets[b][lo]
Within(b, line)  == Start[b] <= line /\ line < Start[b] + Last(b)

ASSUME BlocksAreNumbers == Blocks \subseteq Nat /\ Resources \subseteq Blocks
ASSUME BlocksHaveLines ==
  /\ FileOf \in [Blocks -> Files]
  /\ Start \in [Blocks -> Nat]
  /\ \A b \in Blocks : /\ Offsets[b] \in Seq(Nat)
                       /\ Len(Offsets[b]) >= 2
                       /\ \A i, j \in 1..Len(Offsets[b]) :
                            i < j => Offsets[b][i] < Offsets[b][j]
                       /\ Size(b, 1, Last(b)) > 1
ASSUME ResourcesAreApart ==
  \A a, b \in Resources : a # b /\ FileOf[a] = FileOf[b] =>
    Start[a] + Last(a) <= Start[b] \/ Start[b] + Last(b) <= Start[a]
ASSUME SymbolsHaveTargets ==
  /\ IsFiniteSet(Refs)
  /\ Early \subseteq Refs
  /\ Uses \subseteq [ref : Refs, block : Resources, line : Nat]
  /\ \A r \in Refs : Target[r] # NoTarget =>
       Target[r].block \in Blocks /\ Target[r].line \in 1..Last(Target[r].block)
ASSUME SizesAreNumbers == SymbolSize \in Nat /\ MetadataSize \in Nat
ASSUME InputsAreInputs ==
  /\ Failures \subseteq Failure
  /\ Diffs \subseteq Diff
  /\ Settings \subseteq Limits
ASSUME SentinelsAreNoBlocks == {NoBlock, Foreign} \cap Blocks = {}

VARIABLES
  failure, diff, lim,   \* the input
  pc,                   \* the section under construction
  used,                 \* used_characters
  ceiling,              \* what "used" may reach in this section
  shown,                \* resource_blocks, then supporting_blocks
  excerpt,              \* the excerpt that is growing
  hunk,                 \* the next hunk of the diff
  pick,                 \* the lines picked of a hunk that does not fit
  pending,              \* references not looked at yet
  resolved, unresolved, \* resolved_symbols and unresolved_symbols
  truncated,            \* truncated_sections, those of blocks excepted
  characters            \* selected_context_characters

inputVars  == <<failure, diff, lim>>
symbolVars == <<pending, resolved, unresolved>>
vars == <<inputVars, pc, used, ceiling, shown, excerpt, hunk, pick, symbolVars,
          truncated, characters>>

Excerpt == [block : Blocks, role : {"resource", "supporting"}, focus : Nat \ {0},
            max : Nat, cut : BOOLEAN, low : Nat \ {0}, high : Nat \ {0}]

Sections == {"diagnostic", "diff", "metadata"}

TypeOK == /\ failure \in Failures
          /\ diff \in Diffs
          /\ lim \in Settings
          /\ pc \in {"rank", "raised", "failure", "resource", "grow", "hunk", "offer",
                     "symbol", "metadata", "done"}
          /\ used \in Nat
          /\ ceiling \in Nat
          /\ shown \in Seq(Excerpt)
          /\ excerpt \in Excerpt \cup {NoExcerpt}
          /\ hunk \in Nat \ {0}
          /\ pick \in [size : Nat, taken : SUBSET Nat, distance : Nat,
                       left : SUBSET Nat] \cup {NoPick}
          /\ pending \subseteq Refs
          /\ resolved \subseteq Refs
          /\ unresolved \subseteq Refs
          /\ truncated \subseteq Sections
          /\ characters \in Nat

Init == /\ failure \in Failures
        /\ diff \in Diffs
        /\ lim \in Settings
        /\ pc = "rank"
        /\ used = 0
        /\ ceiling = 0
        /\ shown = <<>>
        /\ excerpt = NoExcerpt
        /\ hunk = 1
        /\ pick = NoPick
        /\ pending = {}
        /\ resolved = {}
        /\ unresolved = {}
        /\ truncated = {}
        /\ characters = 0

Least(S)    == CHOOSE n \in S : \A m \in S : n <= m
Greatest(S) == CHOOSE n \in S : \A m \in S : n >= m
Smaller(m, n) == IF m <= n THEN m ELSE n
Larger(m, n)  == IF m >= n THEN m ELSE n

-------------------------------------------------------------------------------
(* Which resource blocks the evidence speaks for.                          *)

ChangedIn(b)    == {l \in 1..(Start[b] + Last(b)) : Within(b, l) /\ <<FileOf[b], l>> \in diff.lines}
ChangedFiles    == {diff.hunks[i].file : i \in DOMAIN diff.hunks}
DiagnosedIn(b)  == failure.line # 0 /\ failure.file = FileOf[b] /\ Within(b, failure.line)

\* Mutation: a changed line counts as much as the diagnosed one.
ScoreByChanges(b) ==
  (IF failure.address = b THEN 100 ELSE 0)
  + (IF DiagnosedIn(b) THEN 50 ELSE IF failure.file = FileOf[b] THEN 25 ELSE 0)
  + (IF ChangedIn(b) # {} THEN 50 ELSE IF FileOf[b] \in ChangedFiles THEN 15 ELSE 0)

Score(b) ==
  (IF failure.address = b THEN 100 ELSE 0)
  + (IF DiagnosedIn(b) THEN 80 ELSE IF failure.file = FileOf[b] THEN 25 ELSE 0)
  + (IF ChangedIn(b) # {} THEN 50 ELSE IF FileOf[b] \in ChangedFiles THEN 15 ELSE 0)

Candidates  == {b \in Resources : Score(b) > 0}
Before(a, b) == Score(a) > Score(b) \/ (Score(a) = Score(b) /\ a < b)
Best(S)     == CHOOSE b \in S : \A a \in S \ {b} : Before(b, a)

\* detect_resources: a candidate of at least 100 points is given the address of
\* the diagnostic, and one without an address does not validate.
Rank ==
  /\ pc = "rank"
  /\ pc' = IF failure.address = NoBlock /\ \E b \in Resources : Score(b) >= 100
           THEN "raised" ELSE "failure"
  /\ UNCHANGED <<inputVars, used, ceiling, shown, excerpt, hunk, pick, symbolVars, truncated,
                 characters>>

-------------------------------------------------------------------------------
(* The diagnostic.                                                         *)

Available == Larger(lim.diagnostic - failure.fixed, 0)

Length(offsets) == offsets[Len(offsets)]

\* _bounded_text: the leading lines that fit, or else the start of the first.
BoundedText(offsets, max) ==
  LET whole == {offsets[i] : i \in 2..Len(offsets)} \cap 0..max
  IN IF Length(offsets) <= max THEN Length(offsets)
     ELSE IF whole # {} THEN Greatest(whole) ELSE max

FailureSize == failure.fixed + BoundedText(failure.detail, Available)

BoundFailure ==
  /\ pc = "failure"
  /\ used' = FailureSize
  /\ truncated' = IF Length(failure.detail) > Available
                  THEN truncated \cup {"diagnostic"} ELSE truncated
  /\ pc' = "resource"
  /\ UNCHANGED <<inputVars, ceiling, shown, excerpt, hunk, pick, symbolVars, characters>>

-------------------------------------------------------------------------------
(* The resource blocks that are shown (_select_resources).                 *)

\* The line is compared with the lines of every candidate, whatever its file.
LineSpecific == failure.line # 0 /\ \E b \in Candidates : Within(b, failure.line)

Named     == failure.address \in Resources
Ambiguous == failure.address = NoBlock /\ ~LineSpecific /\ Cardinality(Candidates) > 1

ShownBlocks(role) == {shown[i].block : i \in {j \in DOMAIN shown : shown[j].role = role}}

\* The blocks _select_resources has yet to give: the named one alone, several
\* when the evidence is ambiguous, and otherwise the best candidate.
StillWanted ==
  LET limit == IF Ambiguous THEN lim.candidates ELSE 1
  IN IF Named THEN {failure.address} \ ShownBlocks("resource")
     ELSE IF Len(shown) >= limit THEN {}
     ELSE Candidates \ ShownBlocks("resource")

-------------------------------------------------------------------------------
(* Excerpts (_bounded_hcl_excerpt): a block that fits is shown whole, from *)
(* another the line in focus and the lines around it, below and above in   *)
(* turn, as long as they fit.                                              *)

FocusLines(b) == ChangedIn(b) \cup (IF DiagnosedIn(b) THEN {failure.line} ELSE {})

\* Mutation: lines are counted from zero.
FocusFromZero(b) == IF FocusLines(b) = {} THEN 0 ELSE Least(FocusLines(b)) - Start[b]

Focus(b) == IF FocusLines(b) = {} THEN 1 ELSE Least(FocusLines(b)) - Start[b] + 1

ExcerptOf(b, role, focus, max) ==
  LET cut == Size(b, 1, Last(b)) > max
  IN [block |-> b, role |-> role, focus |-> focus, max |-> max, cut |-> cut,
      low  |-> IF cut THEN focus ELSE 1,
      high |-> IF cut THEN focus ELSE Last(b)]

Extent(e) == Size(e.block, e.low, e.high)
FitsBelow(e) == e.low > 1 /\ Size(e.block, e.low - 1, e.high) <= e.max
FitsAbove(e) == e.high < Last(e.block) /\ Size(e.block, e.low, e.high + 1) <= e.max
Growing(e)   == e.cut /\ Extent(e) < e.max /\ (FitsBelow(e) \/ FitsAbove(e))

Grown(e) == LET f == [e EXCEPT !.low = IF FitsBelow(e) THEN @ - 1 ELSE @]
            IN [f EXCEPT !.high = IF FitsAbove(f) THEN @ + 1 ELSE @]

\* Mutation: the lines above are counted against the length before this turn.
GrowUnchecked ==
  /\ pc = "grow"
  /\ Growing(excerpt)
  /\ excerpt' = [excerpt EXCEPT !.low  = IF FitsBelow(excerpt) THEN @ - 1 ELSE @,
                                !.high = IF FitsAbove(excerpt) THEN @ + 1 ELSE @]
  /\ UNCHANGED <<inputVars, pc, used, ceiling, shown, hunk, pick, symbolVars,
                 truncated, characters>>

Grow ==
  /\ pc = "grow"
  /\ Growing(excerpt)
  /\ excerpt' = Grown(excerpt)
  /\ UNCHANGED <<inputVars, pc, used, ceiling, shown, hunk, pick, symbolVars,
                 truncated, characters>>

FinishExcerpt ==
  /\ pc = "grow"
  /\ ~Growing(excerpt)
  /\ shown' = Append(shown, excerpt)
  /\ used' = used + Extent(excerpt)
  /\ excerpt' = NoExcerpt
  /\ pc' = IF excerpt.role = "resource" THEN "resource" ELSE "symbol"
  /\ UNCHANGED <<inputVars, ceiling, hunk, pick, symbolVars, truncated, characters>>

\* However little is left, a selected block is given one character, and with
\* it the line in focus.
TakeResource ==
  /\ pc = "resource"
  /\ StillWanted # {}
  /\ LET b == IF Named THEN failure.address ELSE Best(StillWanted)
     IN excerpt' = ExcerptOf(b, "resource", Focus(b),
                             Smaller(lim.resource, Larger(lim.total - used, 1)))
  /\ pc' = "grow"
  /\ UNCHANGED <<inputVars, used, ceiling, shown, hunk, pick, symbolVars, truncated,
                 characters>>

-------------------------------------------------------------------------------
(* The diff.                                                               *)

Rest == Larger(lim.total - used, 0)

OpenDiff ==
  /\ pc = "resource"
  /\ StillWanted = {}
  /\ ceiling' = used + Smaller(lim.diff, Rest)
  /\ pc' = "hunk"
  /\ UNCHANGED <<inputVars, used, shown, excerpt, hunk, pick, symbolVars, truncated,
                 characters>>

\* A hunk that overlaps a selected block; without any, of a file the diff
\* changes, which every hunk is.
Relevant(h) ==
  \/ ShownBlocks("resource") = {}
  \/ \E b \in ShownBlocks("resource") :
       /\ FileOf[b] = h.file
       /\ h.last >= Start[b]
       /\ h.first < Start[b] + Last(b)

ChangedLines(h) == {i \in DOMAIN h.body : h.body[i].changed}

TakeHunk ==
  /\ pc = "hunk"
  /\ hunk <= Len(diff.hunks)
  /\ LET h == diff.hunks[hunk]
         remaining == ceiling - used
         dropped == ChangedLines(h) = {} \/ h.head >= remaining
     IN \/ /\ ~Relevant(h)
           /\ hunk' = hunk + 1
           /\ UNCHANGED <<pc, used, pick, truncated>>
        \/ /\ Relevant(h)
           /\ h.size <= remaining
           /\ used' = used + h.size
           /\ hunk' = hunk + 1
           /\ UNCHANGED <<pc, pick, truncated>>
        \/ /\ Relevant(h)
           /\ h.size > remaining
           /\ truncated' = truncated \cup {"diff"}
           /\ UNCHANGED used
           /\ IF dropped
              THEN hunk' = hunk + 1 /\ UNCHANGED <<pc, pick>>
              ELSE /\ pick' = [size |-> h.head, taken |-> {}, distance |-> 0,
                               left |-> ChangedLines(h)]
                   /\ pc' = "offer"
                   /\ UNCHANGED hunk
  /\ UNCHANGED <<inputVars, ceiling, shown, excerpt, symbolVars, characters>>

\* Mutation: the line break of the last line picked is forgotten in the check.
OfferLineUncounted ==
  /\ pc = "offer"
  /\ pick.left # {}
  /\ LET i == Least(pick.left)
         size == pick.size + diff.hunks[hunk].body[i].size
     IN pick' = IF pick.size < ceiling - used
                THEN [pick EXCEPT !.size = size, !.taken = @ \cup {i}, !.left = @ \ {i}]
                ELSE [pick EXCEPT !.left = @ \ {i}]
  /\ UNCHANGED <<inputVars, pc, used, ceiling, shown, excerpt, hunk, symbolVars,
                 truncated, characters>>

\* _bounded_diff_hunk: the changed lines in their order, then the lines around
\* them, nearest first; each is taken if it still fits.
OfferLine ==
  /\ pc = "offer"
  /\ pick.left # {}
  /\ LET i == Least(pick.left)
         size == pick.size + diff.hunks[hunk].body[i].size
     IN pick' = IF size <= ceiling - used
                THEN [pick EXCEPT !.size = size, !.taken = @ \cup {i}, !.left = @ \ {i}]
                ELSE [pick EXCEPT !.left = @ \ {i}]
  /\ UNCHANGED <<inputVars, pc, used, ceiling, shown, excerpt, hunk, symbolVars,
                 truncated, characters>>

\* Lines at a distance of a changed line that have not been taken.
Nearby(h, distance) ==
  {i \in DOMAIN h.body \ pick.taken :
     \E j \in ChangedLines(h) : i = j + distance \/ i = j - distance}

WidenPick ==
  /\ pc = "offer"
  /\ pick.left = {}
  /\ pick.taken # {}
  /\ pick.distance < lim.nearby
  /\ pick' = [pick EXCEPT !.distance = @ + 1,
                          !.left = Nearby(diff.hunks[hunk], pick.distance + 1)]
  /\ UNCHANGED <<inputVars, pc, used, ceiling, shown, excerpt, hunk, symbolVars,
                 truncated, characters>>

\* Joined, the last line picked loses its line break; with no changed line
\* that fits the hunk is left out.
FinishHunk ==
  /\ pc = "offer"
  /\ pick.left = {}
  /\ pick.taken = {} \/ pick.distance >= lim.nearby
  /\ used' = IF pick.taken = {} THEN used ELSE used + pick.size - 1
  /\ pick' = NoPick
  /\ hunk' = hunk + 1
  /\ pc' = "hunk"
  /\ UNCHANGED <<inputVars, ceiling, shown, excerpt, symbolVars, truncated, characters>>

-------------------------------------------------------------------------------
(* The symbols.                                                            *)

\* _collect_references: what the excerpts of the resources show.
References ==
  {u.ref : u \in {v \in Uses : \E i \in DOMAIN shown :
                    /\ shown[i].role = "resource"
                    /\ shown[i].block = v.block
                    /\ v.line \in shown[i].low..shown[i].high}}

OpenSymbols ==
  /\ pc = "hunk"
  /\ hunk > Len(diff.hunks)
  /\ pending' = References
  /\ ceiling' = used + Smaller(lim.supporting, Rest)
  /\ pc' = "symbol"
  /\ UNCHANGED <<inputVars, used, shown, excerpt, hunk, pick, resolved, unresolved,
                 truncated, characters>>

Defined(r) == Target[r] # NoTarget
AlreadyShown(r) == Defined(r) /\ \E i \in DOMAIN shown : shown[i].block = Target[r].block
Starved(r)      == Defined(r) /\ ~AlreadyShown(r) /\ used >= ceiling

\* Mutation: a definition there is no room for is called resolved.
ResolveSymbolStarving ==
  /\ pc = "symbol"
  /\ \E r \in pending :
       /\ pending \cap Early # {} => r \in Early
       /\ pending' = pending \ {r}
       /\ \/ /\ ~Defined(r)
             /\ unresolved' = unresolved \cup {r}
             /\ UNCHANGED <<pc, excerpt, resolved>>
          \/ /\ Defined(r)
             /\ resolved' = resolved \cup {r}
             /\ UNCHANGED unresolved
             /\ IF AlreadyShown(r) \/ Starved(r)
                THEN UNCHANGED <<pc, excerpt>>
                ELSE /\ pc' = "grow"
                     /\ excerpt' = ExcerptOf(Target[r].block, "supporting",
                                             Target[r].line, ceiling - used)
  /\ UNCHANGED <<inputVars, used, ceiling, shown, hunk, pick, truncated, characters>>

\* _resolve_symbols: variables and locals come first; in which order those of
\* a rank come depends on where they stand in the text and is left open.
ResolveSymbol ==
  /\ pc = "symbol"
  /\ \E r \in pending :
       /\ pending \cap Early # {} => r \in Early
       /\ pending' = pending \ {r}
       /\ \/ /\ ~Defined(r) \/ Starved(r)
             /\ unresolved' = unresolved \cup {r}
             /\ UNCHANGED <<pc, excerpt, resolved>>
          \/ /\ AlreadyShown(r)
             /\ resolved' = resolved \cup {r}
             /\ UNCHANGED <<pc, excerpt, unresolved>>
          \/ /\ Defined(r) /\ ~AlreadyShown(r) /\ used < ceiling
             /\ excerpt' = ExcerptOf(Target[r].block, "supporting", Target[r].line,
                                     ceiling - used)
             /\ pc' = "grow"
             /\ resolved' = resolved \cup {r}
             /\ UNCHANGED unresolved
  /\ UNCHANGED <<inputVars, used, ceiling, shown, hunk, pick, truncated, characters>>

CloseSymbols ==
  /\ pc = "symbol"
  /\ pending = {}
  /\ pc' = "metadata"
  /\ UNCHANGED <<inputVars, used, ceiling, shown, excerpt, hunk, pick, symbolVars,
                 truncated, characters>>

\* The metadata and the names of the unresolved symbols are counted when they
\* fit; otherwise the metadata is dropped.
CountMetadata ==
  /\ pc = "metadata"
  /\ LET size == MetadataSize + SymbolSize * Cardinality(unresolved)
     IN IF used + size > lim.total
        THEN truncated' = truncated \cup {"metadata"} /\ characters' = used
        ELSE characters' = used + size /\ UNCHANGED truncated
  /\ pc' = "done"
  /\ UNCHANGED <<inputVars, used, ceiling, shown, excerpt, hunk, pick, symbolVars>>

Next == \/ Rank \/ BoundFailure \/ TakeResource \/ Grow \/ FinishExcerpt
        \/ OpenDiff \/ TakeHunk \/ OfferLine \/ WidenPick \/ FinishHunk
        \/ OpenSymbols \/ ResolveSymbol \/ CloseSymbols \/ CountMetadata

Spec == Init /\ [][Next]_vars

-------------------------------------------------------------------------------
(* Properties.                                                             *)

OneLine(e) == e.cut /\ e.low = e.high

Spent == Larger(used, characters)

\* What may not fit by itself: a diagnostic whose fixed part, or whose own limit,
\* is more than the total, or a single line longer than what is left of it.
TooLongAlone ==
  \/ pc = "failure" /\ Larger(failure.fixed, lim.diagnostic) > lim.total
  \/ /\ pc = "grow"
     /\ OneLine(excerpt) /\ Extent(excerpt) > Larger(lim.total - used, 0)
     /\ excerpt.role = "supporting" => used < lim.total

\* The context stays within its total limit, whatever is selected.  The steps
\* that spend past it are those that add such a diagnostic or such a line.  A
\* definition is not even begun once the total is spent, and the diff, an
\* excerpt of several lines and the metadata neither cause an overrun nor add
\* to one.
BudgetIsKept == [][Spent' > Larger(Spent, lim.total) => TooLongAlone]_vars

\* Every excerpt shows the line it was cut for, and it is as long as its budget
\* allows: the whole block, or no line below or above would have fitted.
ExcerptsAreMaximal ==
  \A i \in DOMAIN shown :
    LET e == shown[i]
    IN /\ e.focus \in e.low..e.high
       /\ ~e.cut => e.low = 1 /\ e.high = Last(e.block)
       /\ e.cut => ~FitsBelow(e) /\ ~FitsAbove(e) /\ (OneLine(e) \/ Extent(e) <= e.max)

\* Every reference of the excerpts is reported once, as resolved or as
\* unresolved (the escalation policy asks for a schema on the strength of the
\* latter), and for a resolved one the model is shown the defining line, or an
\* excerpt of the defining block that says it was cut.
ResolvedIsShown ==
  pc \in {"metadata", "done"} =>
    /\ resolved \cap unresolved = {}
    /\ resolved \cup unresolved = References
    /\ \A r \in resolved : \E i \in DOMAIN shown :
         /\ shown[i].block = Target[r].block
         /\ shown[i].cut \/ Target[r].line \in shown[i].low..shown[i].high

\* The block the diagnostic points into, by address or by file and line, is the
\* one that is shown, and shown first: no amount of changed lines in other
\* blocks outweighs it.
DiagnosedBlockIsShown ==
  pc \notin {"rank", "raised", "failure", "resource", "grow"} =>
    /\ Named => Len(shown) > 0 /\ shown[1].block = failure.address
    /\ \A b \in Resources : ~Named /\ DiagnosedIn(b) =>
         Len(shown) > 0 /\ shown[1].block = b /\ ~Ambiguous

-------------------------------------------------------------------------------
(* A statement of the repository the code does not keep.                   *)

\* A diagnostic need not name a resource for its context to be built: the file,
\* the line and the diff are evidence enough
\* (test_changed_file_prioritizes_resource_without_diagnostic_address).
UnnamedIsRanked == pc # "raised"
=============================================================================
