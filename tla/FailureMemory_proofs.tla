------------------------- MODULE FailureMemory_proofs -------------------------
(***************************************************************************)
(* Proofs about FailureMemory for any number of runs, fingerprints and     *)
(* rows: what the table holds was proven for the key it is held under,     *)
(* entries are never replaced in place, the store implements the abstract  *)
(* VerifiedMemory, the table stays within its limit, and its statistics    *)
(* agree with its rows.                                                    *)
(***************************************************************************)
EXTENDS FailureMemory, FiniteSetTheorems, WellFoundedInduction, TLAPS

\* A run that is about to put has proven its patch for its fingerprint; with
\* that, OnlyProvenPatches is inductive.
OfferIsProven == \A r \in Runs : pc[r] = "put" => <<key[r], r>> \in proven

IInv == TypeOK /\ OfferIsProven /\ OnlyProvenPatches

-------------------------------------------------------------------------------

\* The rows of any table are finitely many.
LEMMA PresentIsFinite ==
  ASSUME NEW t
  PROVE  Cardinality(Present(t)) \in Nat
<1>1. IsFiniteSet(Present(t))
  BY FingerprintsAreFinite, FS_Subset DEF Present
<1> QED BY <1>1, FS_CardinalityType

\* Pruning forgets rows and changes none.
LEMMA PrunedRows ==
  ASSUME NEW t \in [Fingerprints -> Row \cup {NoRow}], NEW f \in Fingerprints
  PROVE  Pruned(t)[f] \in {t[f], NoRow}
BY DEF Pruned

LEMMA PrunedType ==
  ASSUME NEW t \in [Fingerprints -> Row \cup {NoRow}]
  PROVE  Pruned(t) \in [Fingerprints -> Row \cup {NoRow}]
BY DEF Pruned

\* Inserting an entry for a fingerprint without a row keeps the table a table.
LEMMA WithRowType ==
  ASSUME NEW t \in [Fingerprints -> Row \cup {NoRow}],
         NEW f \in Fingerprints, NEW row \in Row
  PROVE  WithRow(t, f, row) \in [Fingerprints -> Row \cup {NoRow}]
BY DEF WithRow

\* One more rejection counted against a row leaves a row.
LEMMA RejectedType ==
  ASSUME NEW row \in Row
  PROVE  Rejected(row) \in Row
BY DEF Row, Rejected

\* A row is touched in place: the fingerprints that have a row stay the same.
LEMMA Touched ==
  ASSUME NEW t \in [Fingerprints -> Row \cup {NoRow}],
         NEW f \in Present(t), NEW row \in Row
  PROVE  /\ Present(WithRow(t, f, row)) = Present(t)
         /\ \A g \in Present(t) : WithRow(t, f, row)[g] = IF g = f THEN row ELSE t[g]
BY NoRowIsNoRow DEF Present, WithRow

\* What a rejection and a spoilt entry leave of a row.
LEMMA RejectedKeeps ==
  ASSUME NEW row \in Row
  PROVE  /\ Rejected(row).patch = row.patch
         /\ Rejected(row).createdAt = row.createdAt
         /\ Rejected(row).rejections >= row.rejections
BY DEF Row, Rejected

LEMMA SpoiltKeeps ==
  ASSUME NEW row \in Row
  PROVE  /\ Spoilt(row) \in Row
         /\ Spoilt(row).patch = row.patch
         /\ Spoilt(row).createdAt = row.createdAt
         /\ Spoilt(row).rejections = row.rejections
BY DEF Row, Spoilt

\* The rows that are there are rows.
LEMMA PresentRow ==
  ASSUME TypeOK, NEW f \in Present(rows)
  PROVE  f \in Fingerprints /\ rows[f] \in Row
BY DEF TypeOK, Present

LEMMA CountedType ==
  ASSUME NEW c \in Counters, NEW l \in Nat, NEW h \in Nat
  PROVE  [c EXCEPT !.lookups = l, !.hits = h] \in Counters
<1>1. [c EXCEPT !.lookups = l] \in Counters
  BY DEF Counters
<1>2. [[c EXCEPT !.lookups = l] EXCEPT !.hits = h] \in Counters
  BY <1>1 DEF Counters
<1> QED BY <1>2

LEMMA EntryType ==
  ASSUME TypeOK, NEW r \in Runs
  PROVE  Entry(r) \in Row
BY DEF TypeOK, Entry, Row

-------------------------------------------------------------------------------
(* Type correctness.                                                       *)

LEMMA InitTypeOK == Init => TypeOK
BY DEF Init, TypeOK, Counters, NoCounts, RunSteps

LEMMA NextTypeOK == TypeOK /\ [Next]_vars => TypeOK'
<1> SUFFICES ASSUME TypeOK, [Next]_vars PROVE TypeOK'
  OBVIOUS
<1>1. ASSUME NEW r \in Runs, Select(r) PROVE TypeOK'
  BY <1>1 DEF TypeOK, Select, Goto, RunSteps, adminVars
<1>2. ASSUME NEW r \in Runs, CountLookup(r) PROVE TypeOK'
  <2>1. counters' \in Counters
    <3>1. /\ counters \in Counters
          /\ counters.lookups + 1 \in Nat
          /\ (IF seen[r] = NoRow THEN counters.hits ELSE counters.hits + 1) \in Nat
      BY DEF TypeOK, Counters
    <3>2. \/ counters' = counters
          \/ \E l, h \in Nat : counters' = [counters EXCEPT !.lookups = l, !.hits = h]
      BY <1>2, <3>1, Zenon DEF CountLookup
    <3> QED BY <3>1, <3>2, CountedType
  <2>2. \E step \in RunSteps : Goto(r, step)
    BY <1>2, Zenon DEF CountLookup, RunSteps
  <2>3. pc' \in [Runs -> RunSteps]
    BY <2>2 DEF TypeOK, Goto
  <2> QED BY <1>2, <2>1, <2>3 DEF TypeOK, CountLookup, adminVars
<1>3. ASSUME NEW r \in Runs, Reverify(r) PROVE TypeOK'
  BY <1>3 DEF TypeOK, Reverify, Goto, RunSteps, adminVars
<1>4. ASSUME NEW r \in Runs, RecordRejection(r) PROVE TypeOK'
  <2>1. rows' \in [Fingerprints -> Row \cup {NoRow}]
    <3>1. CASE rows' = rows
      BY <3>1 DEF TypeOK
    <3>2. CASE /\ rows[key[r]] # NoRow
               /\ rows' = WithRow(rows, key[r], Rejected(rows[key[r]]))
      BY <3>2, RejectedType, WithRowType DEF TypeOK
    <3> QED BY <1>4, <3>1, <3>2 DEF RecordRejection
  <2> QED BY <1>4, <2>1 DEF TypeOK, RecordRejection, Goto, RunSteps, Counters, adminVars
<1>5. ASSUME NEW r \in Runs, Resolve(r) PROVE TypeOK'
  BY <1>5 DEF TypeOK, Resolve, Goto, RunSteps, adminVars
<1>6. ASSUME NEW r \in Runs, Put(r) PROVE TypeOK'
  <2>1. rows' \in [Fingerprints -> Row \cup {NoRow}]
    BY <1>6, EntryType, WithRowType, PrunedType DEF TypeOK, Put
  <2> QED BY <1>6, <2>1 DEF TypeOK, Put, Goto, RunSteps, Counters, adminVars
<1>7. ASSUME NEW r \in Runs, Kill(r) PROVE TypeOK'
  BY <1>7 DEF TypeOK, Kill, Goto, RunSteps, adminVars
<1>8. CASE CountRows
  BY <1>8, PresentIsFinite DEF TypeOK, CountRows, runVars
<1>9. CASE DeleteRows
  BY <1>9 DEF TypeOK, DeleteRows, runVars, Counters, NoCounts
<1>10. ASSUME NEW f \in Fingerprints, Spoil(f) PROVE TypeOK'
  <2>1. rows' \in [Fingerprints -> Row \cup {NoRow}]
    BY <1>10, SpoiltKeeps, WithRowType DEF TypeOK, Spoil
  <2> QED BY <1>10, <2>1 DEF TypeOK, Spoil, runVars, adminVars
<1>11. CASE UNCHANGED vars
  BY <1>11 DEF TypeOK, vars, runVars, adminVars
<1> QED
  BY <1>1, <1>2, <1>3, <1>4, <1>5, <1>6, <1>7, <1>8, <1>9, <1>10, <1>11 DEF Next, Step

\* Every run, clear and kill keeps the table, the counters and the local state
\* of the runs in their types.
THEOREM TypeCorrect == Spec => []TypeOK
BY InitTypeOK, NextTypeOK, PTL DEF Spec

-------------------------------------------------------------------------------
(* What the memory holds was proven.                                       *)

LEMMA InitProven == Init => OfferIsProven /\ OnlyProvenPatches
BY DEF Init, OfferIsProven, OnlyProvenPatches, Present

\* A step that leaves alone which patch each row holds, forgets rows, or adds
\* the entry of a proven offer keeps the rows proven.
LEMMA NextProven == IInv /\ [Next]_vars => OfferIsProven' /\ OnlyProvenPatches'
<1> SUFFICES ASSUME IInv, [Next]_vars PROVE OfferIsProven' /\ OnlyProvenPatches'
  OBVIOUS
<1> USE DEF IInv
<1>1. ASSUME NEW r \in Runs, Select(r) PROVE OfferIsProven' /\ OnlyProvenPatches'
  BY <1>1 DEF TypeOK, Select, Goto, OfferIsProven, OnlyProvenPatches, Present
<1>2. ASSUME NEW r \in Runs, CountLookup(r) PROVE OfferIsProven' /\ OnlyProvenPatches'
  <2>1. \E step \in {"model", "reverify"} : Goto(r, step)
    BY <1>2, Zenon DEF CountLookup
  <2> QED BY <1>2, <2>1 DEF TypeOK, CountLookup, Goto, OfferIsProven, OnlyProvenPatches, Present
<1>3. ASSUME NEW r \in Runs, Reverify(r) PROVE OfferIsProven' /\ OnlyProvenPatches'
  BY <1>3 DEF TypeOK, Reverify, Goto, OfferIsProven, OnlyProvenPatches, Present
<1>4. ASSUME NEW r \in Runs, RecordRejection(r)
      PROVE  OfferIsProven' /\ OnlyProvenPatches'
  <2>1. OfferIsProven'
    BY <1>4 DEF TypeOK, RecordRejection, Goto, OfferIsProven
  <2>2. \A f \in Present(rows') : f \in Present(rows) /\ rows'[f].patch = rows[f].patch
    <3>1. CASE rows' = rows
      BY <3>1
    <3>2. CASE /\ rows[key[r]] # NoRow
               /\ rows' = WithRow(rows, key[r], Rejected(rows[key[r]]))
      <4>1. key[r] \in Present(rows) /\ rows[key[r]] \in Row
        BY <3>2 DEF TypeOK, Present
      <4> QED BY <3>2, <4>1, RejectedType, RejectedKeeps, Touched DEF TypeOK
    <3> QED BY <1>4, <3>1, <3>2 DEF RecordRejection
  <2> QED BY <1>4, <2>1, <2>2 DEF RecordRejection, OnlyProvenPatches
<1>5. ASSUME NEW r \in Runs, Resolve(r) PROVE OfferIsProven' /\ OnlyProvenPatches'
  BY <1>5 DEF TypeOK, Resolve, Goto, OfferIsProven, OnlyProvenPatches, Present
<1>6. ASSUME NEW r \in Runs, Put(r) PROVE OfferIsProven' /\ OnlyProvenPatches'
  <2>1. OfferIsProven'
    BY <1>6 DEF TypeOK, Put, Goto, OfferIsProven
  <2>2. ASSUME NEW f \in Present(rows')
        PROVE  \/ f \in Present(rows) /\ rows'[f] = rows[f]
               \/ f = key[r] /\ rows'[f].patch = r
    <3> DEFINE new == WithRow(rows, key[r], Entry(r))
    <3>1. CASE rows' = rows
      BY <3>1
    <3>2. CASE rows' = Pruned(rows)
      BY <3>2, PrunedRows DEF TypeOK, Present
    <3>3. CASE rows' = Pruned(new)
      <4>1. new \in [Fingerprints -> Row \cup {NoRow}]
        BY EntryType, WithRowType DEF TypeOK
      <4>2. f \in Fingerprints /\ rows'[f] # NoRow /\ rows'[f] = new[f]
        BY <3>3, <4>1, PrunedRows DEF Present
      <4>3. CASE f = key[r]
        BY <4>2, <4>3 DEF TypeOK, WithRow, Entry
      <4>4. CASE f # key[r]
        BY <4>2, <4>4 DEF TypeOK, WithRow, Present
      <4> QED BY <4>3, <4>4
    <3> QED BY <1>6, <3>1, <3>2, <3>3 DEF Put
  <2>3. <<key[r], r>> \in proven /\ proven' = proven
    BY <1>6 DEF Put, OfferIsProven
  <2> QED BY <2>1, <2>2, <2>3 DEF OnlyProvenPatches
<1>7. ASSUME NEW r \in Runs, Kill(r) PROVE OfferIsProven' /\ OnlyProvenPatches'
  BY <1>7 DEF TypeOK, Kill, Goto, OfferIsProven, OnlyProvenPatches, Present
<1>8. CASE CountRows
  BY <1>8 DEF CountRows, runVars, OfferIsProven, OnlyProvenPatches, Present
<1>9. CASE DeleteRows
  BY <1>9 DEF DeleteRows, runVars, OfferIsProven, OnlyProvenPatches, Present
<1>10. ASSUME NEW f \in Fingerprints, Spoil(f) PROVE OfferIsProven' /\ OnlyProvenPatches'
  <2>1. \A g \in Present(rows') : g \in Present(rows) /\ rows'[g].patch = rows[g].patch
    <3>1. f \in Present(rows) /\ rows[f] \in Row
      BY <1>10 DEF TypeOK, Spoil, Present
    <3> QED BY <1>10, <3>1, SpoiltKeeps, Touched DEF TypeOK, Spoil
  <2>2. proven' = proven /\ pc' = pc /\ key' = key
    BY <1>10 DEF Spoil, runVars
  <2> QED BY <2>1, <2>2 DEF OfferIsProven, OnlyProvenPatches
<1>11. CASE UNCHANGED vars
  BY <1>11 DEF vars, runVars, OfferIsProven, OnlyProvenPatches, Present
<1> QED
  BY <1>1, <1>2, <1>3, <1>4, <1>5, <1>6, <1>7, <1>8, <1>9, <1>10, <1>11 DEF Next, Step

\* However lookups, writes, evictions, clears and kills interleave, each patch
\* in the table was fully verified for the fingerprint it is found under.
THEOREM RememberedIsProven == Spec => []OnlyProvenPatches
<1>1. Init => IInv
  BY InitTypeOK, InitProven DEF IInv
<1>2. IInv /\ [Next]_vars => IInv'
  BY NextTypeOK, NextProven DEF IInv
<1>3. IInv => OnlyProvenPatches
  BY DEF IInv
<1> QED BY <1>1, <1>2, <1>3, PTL DEF Spec

-------------------------------------------------------------------------------
(* Entries are never replaced in place.                                    *)

LEMMA UnchangedKept == TypeOK /\ rows' = rows => Kept
<1> SUFFICES ASSUME TypeOK, rows' = rows, NEW f \in Present(rows)
             PROVE  rows[f].rejections >= rows[f].rejections
  BY DEF Kept
<1> rows[f].rejections \in Nat
  BY PresentRow DEF Row
<1> QED OBVIOUS

LEMMA NextKept == TypeOK /\ [Next]_vars => Kept
<1> SUFFICES ASSUME TypeOK, [Next]_vars PROVE Kept
  OBVIOUS
<1>1. ASSUME NEW f \in Present(rows), f \in Present(rows'), rows'[f] = rows[f]
      PROVE  rows'[f].rejections >= rows[f].rejections
  <2>1. rows[f].rejections \in Nat
    BY PresentRow DEF Row
  <2> QED BY <1>1, <2>1
<1>2. ASSUME NEW r \in Runs, RecordRejection(r) PROVE Kept
  <2>1. CASE rows' = rows
    BY <2>1, UnchangedKept
  <2>2. CASE /\ rows[key[r]] # NoRow
             /\ rows' = WithRow(rows, key[r], Rejected(rows[key[r]]))
    <3>1. key[r] \in Present(rows) /\ rows[key[r]] \in Row
      BY <2>2 DEF TypeOK, Present
    <3>2. \A f \in Present(rows) : rows'[f] = IF f = key[r] THEN Rejected(rows[f]) ELSE rows[f]
      BY <2>2, <3>1, RejectedType, Touched DEF TypeOK
    <3> QED BY <1>1, <3>1, <3>2, RejectedKeeps DEF Kept
  <2> QED BY <1>2, <2>1, <2>2 DEF RecordRejection
<1>3. ASSUME NEW r \in Runs, Put(r) PROVE Kept
  <2>1. CASE rows' = rows
    BY <2>1, UnchangedKept
  <2>2. CASE rows' = Pruned(rows)
    <3>1. \A f \in Present(rows) \cap Present(rows') : rows'[f] = rows[f]
      BY <2>2, PrunedRows DEF TypeOK, Present
    <3> QED BY <1>1, <3>1 DEF Kept
  <2>3. CASE /\ rows[key[r]] = NoRow
             /\ rows' = Pruned(WithRow(rows, key[r], Entry(r)))
    <3> DEFINE new == WithRow(rows, key[r], Entry(r))
    <3>1. new \in [Fingerprints -> Row \cup {NoRow}]
      BY EntryType, WithRowType DEF TypeOK
    <3>2. \A f \in Present(rows) : f \in Fingerprints /\ new[f] = rows[f]
      BY <2>3 DEF TypeOK, WithRow, Present
    <3>3. \A f \in Present(rows) \cap Present(rows') : rows'[f] = rows[f]
      BY <2>3, <3>1, <3>2, PrunedRows DEF Present
    <3> QED BY <1>1, <3>3 DEF Kept
  <2> QED BY <1>3, <2>1, <2>2, <2>3 DEF Put
<1>4. CASE DeleteRows
  BY <1>4 DEF DeleteRows, Kept, Present
<1>5. ASSUME NEW g \in Fingerprints, Spoil(g) PROVE Kept
  <2>1. g \in Present(rows) /\ rows[g] \in Row
    BY <1>5 DEF TypeOK, Spoil, Present
  <2>2. \A f \in Present(rows) : rows'[f] = IF f = g THEN Spoilt(rows[f]) ELSE rows[f]
    BY <1>5, <2>1, SpoiltKeeps, Touched DEF TypeOK, Spoil
  <2>3. rows[g].rejections \in Nat
    BY <2>1 DEF Row
  <2> QED BY <1>1, <2>1, <2>2, <2>3, SpoiltKeeps DEF Kept
<1>6. CASE rows' = rows
  BY <1>6, UnchangedKept
<1> QED
  BY <1>2, <1>3, <1>4, <1>5, <1>6
     DEF Next, Step, Select, CountLookup, Reverify, Resolve, Kill, CountRows, vars

\* No later run and no stale hit replaces an entry, only eviction and a clear
\* make room for another patch.
THEOREM EntriesAreNeverReplaced == Spec => FirstWriterWins
<1>1. TypeOK /\ [Next]_vars => [Kept]_vars
  BY NextKept
<1> QED BY <1>1, TypeCorrect, PTL DEF Spec, FirstWriterWins

-------------------------------------------------------------------------------
(* The store implements the abstract memory.                               *)

\* The abstract memory of a table.
ContentOf(t) == [f \in Fingerprints |-> IF t[f] = NoRow THEN NoRow ELSE t[f].patch]

\* Touching a row changes nothing the abstract memory shows.
LEMMA TouchedContent ==
  ASSUME TypeOK, NEW f \in Fingerprints, rows[f] # NoRow,
         NEW row \in Row, row.patch = rows[f].patch,
         rows' = WithRow(rows, f, row)
  PROVE  ContentOf(rows') = ContentOf(rows)
BY NoRowIsNoRow DEF TypeOK, WithRow, ContentOf

\* Pruning a table forgets, in the abstract memory, everything but its rows.
LEMMA PrunedContent ==
  ASSUME NEW t \in [Fingerprints -> Row \cup {NoRow}]
  PROVE  ContentOf(Pruned(t)) =
           [f \in Fingerprints |->
              IF f \in Present(Pruned(t)) THEN ContentOf(t)[f] ELSE NoRow]
<1> SUFFICES ASSUME NEW f \in Fingerprints
             PROVE  ContentOf(Pruned(t))[f] =
                      IF f \in Present(Pruned(t)) THEN ContentOf(t)[f] ELSE NoRow
  BY DEF ContentOf
<1> QED BY PrunedRows DEF ContentOf, Present

\* A new entry shows up in the abstract memory as its patch.
LEMMA EntryContent ==
  ASSUME TypeOK, NEW r \in Runs
  PROVE  ContentOf(WithRow(rows, key[r], Entry(r))) =
           [ContentOf(rows) EXCEPT ![key[r]] = r]
<1>1. Entry(r).patch = r /\ Entry(r) # NoRow
  BY EntryType, NoRowIsNoRow DEF Entry
<1>2. key[r] \in Fingerprints
  BY DEF TypeOK
<1> QED BY <1>1, <1>2 DEF TypeOK, WithRow, ContentOf

LEMMA InitRemembered == Init => Remembered!Init
BY DEF Init, Remembered!Init

LEMMA NextRemembered == IInv /\ [Next]_vars => [Remembered!Next]_(Remembered!vars)
<1> SUFFICES ASSUME IInv, [Next]_vars PROVE [Remembered!Next]_(Remembered!vars)
  OBVIOUS
<1> USE DEF IInv
<1>1. ASSUME ContentOf(rows') = ContentOf(rows), proven' = proven
      PROVE  UNCHANGED Remembered!vars
  BY <1>1 DEF ContentOf, Remembered!vars
<1>2. ASSUME NEW r \in Runs, RecordRejection(r) PROVE UNCHANGED Remembered!vars
  <2>1. CASE rows' = rows
    BY <1>1, <1>2, <2>1 DEF RecordRejection
  <2>2. CASE /\ rows[key[r]] # NoRow
             /\ rows' = WithRow(rows, key[r], Rejected(rows[key[r]]))
    <3>1. key[r] \in Fingerprints /\ rows[key[r]] \in Row
      BY <2>2 DEF TypeOK
    <3>2. ContentOf(rows') = ContentOf(rows)
      BY <2>2, <3>1, RejectedType, RejectedKeeps, TouchedContent
    <3> QED BY <1>1, <1>2, <3>2 DEF RecordRejection
  <2> QED BY <1>2, <2>1, <2>2 DEF RecordRejection
<1>3. ASSUME NEW r \in Runs, Resolve(r) PROVE [Remembered!Next]_(Remembered!vars)
  <2>1. CASE proven' = proven
    BY <1>1, <1>3, <2>1 DEF Resolve
  <2>2. CASE proven' = proven \cup {<<key[r], r>>}
    BY <1>3, <2>2 DEF Resolve, TypeOK, Remembered!Prove, Remembered!Next
  <2> QED BY <1>3, <2>1, <2>2 DEF Resolve
<1>4. ASSUME NEW r \in Runs, Put(r) PROVE [Remembered!Next]_(Remembered!vars)
  <2>1. CASE rows' = rows
    BY <1>1, <1>4, <2>1 DEF Put
  <2>2. CASE rows' = Pruned(rows)
    <3>1. Present(rows') \in SUBSET Fingerprints
      BY DEF Present
    <3>2. ContentOf(rows') = [f \in Fingerprints |->
                                IF f \in Present(rows') THEN ContentOf(rows)[f] ELSE NoRow]
      BY <2>2, PrunedContent DEF TypeOK
    <3> QED BY <1>4, <3>1, <3>2
            DEF Put, ContentOf, Remembered!Forgetting, Remembered!Forget, Remembered!Next
  <2>3. CASE /\ rows[key[r]] = NoRow
             /\ rows' = Pruned(WithRow(rows, key[r], Entry(r)))
    <3> DEFINE new == WithRow(rows, key[r], Entry(r))
    <3>1. Present(rows') \in SUBSET Fingerprints
      BY DEF Present
    <3>2. new \in [Fingerprints -> Row \cup {NoRow}]
      BY EntryType, WithRowType DEF TypeOK
    <3>3. ContentOf(rows') = [f \in Fingerprints |->
                                IF f \in Present(rows') THEN ContentOf(new)[f] ELSE NoRow]
      BY <2>3, <3>2, PrunedContent
    <3>4. ContentOf(new) = [ContentOf(rows) EXCEPT ![key[r]] = r]
      BY EntryContent
    <3>5. key[r] \in Fingerprints /\ ContentOf(rows)[key[r]] = NoRow
      BY <2>3 DEF TypeOK, ContentOf
    <3>6. <<key[r], r>> \in proven /\ proven' = proven
      BY <1>4 DEF Put, OfferIsProven
    <3>7. ContentOf(rows') =
            Remembered!Forgetting([ContentOf(rows) EXCEPT ![key[r]] = r], Present(rows'))
      BY <3>3, <3>4, Zenon DEF Remembered!Forgetting
    <3>8. Remembered!Remember
      BY <3>1, <3>5, <3>6, <3>7, Zenon DEF ContentOf, Remembered!Remember
    <3> QED BY <3>8 DEF Remembered!Next
  <2> QED BY <1>4, <2>1, <2>2, <2>3 DEF Put
<1>5. CASE DeleteRows
  <2>1. ContentOf(rows') = [f \in Fingerprints |-> NoRow]
    BY <1>5 DEF DeleteRows, ContentOf
  <2>2. ContentOf(rows') = Remembered!Forgetting(ContentOf(rows), {})
    BY <2>1 DEF Remembered!Forgetting
  <2> QED BY <1>5, <2>2 DEF DeleteRows, ContentOf, Remembered!Forget, Remembered!Next
<1>6. ASSUME NEW f \in Fingerprints, Spoil(f) PROVE UNCHANGED Remembered!vars
  <2>1. rows[f] \in Row
    BY <1>6 DEF TypeOK, Spoil
  <2>2. ContentOf(rows') = ContentOf(rows)
    BY <1>6, <2>1, SpoiltKeeps, TouchedContent DEF Spoil
  <2> QED BY <1>1, <1>6, <2>2 DEF Spoil
<1>7. CASE rows' = rows /\ proven' = proven
  BY <1>1, <1>7
<1> QED
  BY <1>2, <1>3, <1>4, <1>5, <1>6, <1>7
     DEF Next, Step, Select, CountLookup, Reverify, Kill, CountRows, vars

\* The store with its transactions, pruning, clears and kills implements the
\* abstract memory its users rely on.
THEOREM StoreImplementsVerifiedMemory == Spec => ImplementsVerifiedMemory
<1>1. Init => IInv
  BY InitTypeOK, InitProven DEF IInv
<1>2. IInv /\ [Next]_vars => IInv'
  BY NextTypeOK, NextProven DEF IInv
<1> QED BY <1>1, <1>2, InitRemembered, NextRemembered, PTL
        DEF Spec, ImplementsVerifiedMemory, Remembered!Spec

-------------------------------------------------------------------------------
(* Sums.  What a fold over a finite set computes is found by induction on  *)
(* the size of the set: of the sets that are exceptions, if there are any, *)
(* take a smallest one.                                                    *)

\* Numbers that one collects have a least one.
LEMMA LeastNumber ==
  ASSUME NEW S, S \subseteq Nat, S # {}
  PROVE  \E m \in S : \A n \in S : m <= n
<1> DEFINE segments == {0..m : m \in S}
<1>1. segments \subseteq FiniteSubsetsOf(Nat) /\ segments # {}
  <2>1. \A m \in Nat : 0..m \in FiniteSubsetsOf(Nat)
    <3> SUFFICES ASSUME NEW m \in Nat PROVE 0..m \in FiniteSubsetsOf(Nat)
      OBVIOUS
    <3>1. IsFiniteSet(0..m) /\ 0..m \subseteq Nat
      BY FS_Interval
    <3> QED BY <3>1 DEF FiniteSubsetsOf
  <2>2. ASSUME NEW x \in segments PROVE x \in FiniteSubsetsOf(Nat)
    BY <2>1, <2>2
  <2> QED BY <2>2
<1>2. \E x \in segments : \A y \in segments : <<y, x>> \notin StrictSubsetOrdering(Nat)
  <2> HIDE DEF segments
  <2> QED BY <1>1, FS_StrictSubsetOrderingWellFounded, WFMin
<1>3. PICK m \in S : \A n \in S : <<0..n, 0..m>> \notin StrictSubsetOrdering(Nat)
  BY <1>2
<1>4. ASSUME NEW n \in S, n < m PROVE FALSE
  <2>1. 0..n \subseteq 0..m /\ m \notin 0..n /\ m \in 0..m
    BY <1>4
  <2>2. 0..n \in SUBSET Nat /\ 0..m \in SUBSET Nat
    OBVIOUS
  <2> QED BY <1>3, <2>1, <2>2 DEF StrictSubsetOrdering
<1> QED BY <1>4

\* Of the parts of a finite set that one collects, one has the fewest elements.
LEMMA SmallestPart ==
  ASSUME NEW S, IsFiniteSet(S), NEW C, C \subseteq SUBSET S, C # {}
  PROVE  \E s \in C : \A u \in C : Cardinality(s) <= Cardinality(u)
<1> DEFINE sizes == {Cardinality(s) : s \in C}
<1>1. sizes \subseteq Nat /\ sizes # {}
  BY FS_Subset, FS_CardinalityType
<1>2. \E m \in sizes : \A n \in sizes : m <= n
  <2> HIDE DEF sizes
  <2> QED BY <1>1, LeastNumber
<1> QED BY <1>2

\* One element less, and one less is counted.
LEMMA WithoutOne ==
  ASSUME NEW S, IsFiniteSet(S), NEW x \in S
  PROVE  /\ IsFiniteSet(S \ {x})
         /\ Cardinality(S) \in Nat /\ Cardinality(S \ {x}) \in Nat
         /\ Cardinality(S \ {x}) = Cardinality(S) - 1
         /\ Cardinality(S \ {x}) < Cardinality(S)
<1>1. IsFiniteSet(S \ {x}) /\ Cardinality(S \ {x}) = Cardinality(S) - 1
  BY FS_RemoveElement
<1>2. Cardinality(S) \in Nat /\ Cardinality(S \ {x}) \in Nat
  BY <1>1, FS_CardinalityType
<1> QED BY <1>1, <1>2

\* The element a fold over s takes first, and what it makes of the rest.
Pick(s) == CHOOSE x \in s : TRUE

Unfolded(g, w, s) == IF s = {} THEN 0 ELSE w[Pick(s)] + g[s \ {Pick(s)}]

\* g sums up the weights w over every part of S, as the fold does.
Summing(g, w, S) == g = [s \in SUBSET S |-> Unfolded(g, w, s)]

\* What is chosen from a set that is not empty is in it.
LEMMA PickIn ==
  ASSUME NEW s, s # {}
  PROVE  Pick(s) \in s
BY DEF Pick

\* There is such a function: one unfolding more makes one that is
\* right on the parts of n elements right on those of n + 1.
LEMMA SummingExists ==
  ASSUME NEW S, IsFiniteSet(S), NEW w \in [S -> Nat]
  PROVE  \E g \in [SUBSET S -> Nat] : Summing(g, w, S)
<1> DEFINE Right(g, n) == \A s \in SUBSET S : Cardinality(s) <= n => g[s] = Unfolded(g, w, s)
           bad == {n \in Nat : ~ \E g \in [SUBSET S -> Nat] : Right(g, n)}
<1>0. ASSUME NEW s \in SUBSET S, s # {}
      PROVE  /\ Pick(s) \in s /\ w[Pick(s)] \in Nat /\ s \ {Pick(s)} \in SUBSET S
             /\ Cardinality(s) \in Nat /\ Cardinality(s \ {Pick(s)}) = Cardinality(s) - 1
  BY <1>0, PickIn, FS_Subset, WithoutOne
<1>1. 0 \notin bad
  <2> DEFINE g == [s \in SUBSET S |-> 0]
  <2>1. g \in [SUBSET S -> Nat]
    OBVIOUS
  <2>2. ASSUME NEW s \in SUBSET S, Cardinality(s) <= 0 PROVE s = {}
    BY <1>0, <2>2, FS_EmptySet, FS_Subset, FS_CardinalityType
  <2>3. Right(g, 0)
    BY <2>2 DEF Unfolded
  <2> QED BY <2>1, <2>3
<1>2. ASSUME NEW n \in Nat, n \notin bad PROVE n + 1 \notin bad
  <2>1. PICK g \in [SUBSET S -> Nat] : Right(g, n)
    BY <1>2
  <2> DEFINE h == [s \in SUBSET S |-> Unfolded(g, w, s)]
  <2>2. h \in [SUBSET S -> Nat]
    <3>1. ASSUME NEW s \in SUBSET S PROVE Unfolded(g, w, s) \in Nat
      <4>1. CASE s = {}
        BY <4>1 DEF Unfolded
      <4>2. CASE s # {}
        <5>1. w[Pick(s)] \in Nat /\ g[s \ {Pick(s)}] \in Nat
          BY <1>0, <4>2
        <5> QED BY <4>2, <5>1 DEF Unfolded
      <4> QED BY <4>1, <4>2
    <3> HIDE DEF Right, bad
    <3> QED BY <3>1
  <2>3. ASSUME NEW s \in SUBSET S, Cardinality(s) <= n + 1 PROVE h[s] = Unfolded(h, w, s)
    <3>1. CASE s = {}
      BY <3>1 DEF Unfolded
    <3>2. CASE s # {}
      <4>1. s \ {Pick(s)} \in SUBSET S /\ Cardinality(s \ {Pick(s)}) <= n
        BY <1>0, <2>3, <3>2
      <4>2. h[s \ {Pick(s)}] = g[s \ {Pick(s)}]
        BY <2>1, <4>1
      <4>3. h[s] = Unfolded(g, w, s)
        OBVIOUS
      <4> HIDE DEF h
      <4> QED BY <3>2, <4>2, <4>3 DEF Unfolded
    <3> QED BY <3>1, <3>2
  <2>4. Right(h, n + 1)
    BY <2>3
  <2> QED BY <2>2, <2>4
<1>3. bad = {}
  <2> SUFFICES ASSUME bad # {} PROVE FALSE
    OBVIOUS
  <2>1. PICK m \in bad : \A n \in bad : m <= n
    <3> bad \subseteq Nat
      OBVIOUS
    <3> HIDE DEF bad
    <3> QED BY LeastNumber
  <2>2. m \in Nat /\ m # 0
    BY <1>1
  <2>3. m - 1 \in Nat /\ m - 1 \notin bad
    <3> HIDE DEF bad
    <3> QED BY <2>1, <2>2
  <2>4. (m - 1) + 1 \notin bad
    <3> HIDE DEF bad
    <3> QED BY <1>2, <2>3
  <2>5. (m - 1) + 1 = m
    BY <2>2
  <2> QED BY <2>4, <2>5
<1>4. Cardinality(S) \in Nat
  BY FS_CardinalityType
<1>5. PICK g \in [SUBSET S -> Nat] : Right(g, Cardinality(S))
  BY <1>3, <1>4
<1>6. \A s \in SUBSET S : g[s] = Unfolded(g, w, s)
  BY <1>5, FS_Subset
<1> QED BY <1>6 DEF Summing

\* Where two functions sum up the same weights, they agree.
LEMMA SameSums ==
  ASSUME NEW S, IsFiniteSet(S), NEW R, NEW T \in SUBSET S, T \subseteq R,
         NEW w, NEW v, \A x \in T : w[x] = v[x],
         NEW g, Summing(g, w, S), NEW h, Summing(h, v, R)
  PROVE  g[T] = h[T]
<1> DEFINE bad == {s \in SUBSET T : g[s] # h[s]}
<1> SUFFICES ASSUME bad # {} PROVE FALSE
  OBVIOUS
<1>1. IsFiniteSet(T)
  BY FS_Subset
<1>2. PICK s \in bad : \A u \in bad : Cardinality(s) <= Cardinality(u)
  <2> bad \subseteq SUBSET T
    OBVIOUS
  <2> HIDE DEF bad
  <2> QED BY <1>1, SmallestPart
<1>3. /\ g[s] = Unfolded(g, w, s)
      /\ h[s] = Unfolded(h, v, s)
  BY DEF Summing
<1>4. s # {}
  BY <1>3 DEF Unfolded
<1>5. /\ Pick(s) \in T /\ s \ {Pick(s)} \in SUBSET T
      /\ Cardinality(s \ {Pick(s)}) \in Nat /\ Cardinality(s) \in Nat
      /\ Cardinality(s \ {Pick(s)}) < Cardinality(s)
  BY <1>1, <1>4, PickIn, FS_Subset, WithoutOne
<1>6. s \ {Pick(s)} \notin bad
  <2> HIDE DEF bad
  <2> QED BY <1>2, <1>5
<1> QED BY <1>3, <1>4, <1>5, <1>6 DEF Unfolded

\* g is right about the sums of the weights w over the parts of a finite S.
IsSum(g, w, S) == /\ IsFiniteSet(S)
                  /\ w \in [S -> Nat]
                  /\ g \in [SUBSET S -> Nat]
                  /\ Summing(g, w, S)

\* A sum does not depend on which element the fold takes first.
LEMMA SumOfOneMore ==
  ASSUME NEW S, NEW w, NEW g, IsSum(g, w, S), NEW T \in SUBSET S, NEW x \in T
  PROVE  /\ g[T] = w[x] + g[T \ {x}]
         /\ g[T] \in Nat /\ w[x] \in Nat /\ g[T \ {x}] \in Nat
<1> DEFINE bad == {s \in SUBSET S : \E y \in s : g[s] # w[y] + g[s \ {y}]}
<1> USE DEF IsSum
<1> SUFFICES ASSUME bad # {} PROVE FALSE
  <2> T \ {x} \in SUBSET S /\ x \in S
    OBVIOUS
  <2> QED OBVIOUS
<1>1. PICK s \in bad : \A u \in bad : Cardinality(s) <= Cardinality(u)
  <2> bad \subseteq SUBSET S
    OBVIOUS
  <2> HIDE DEF bad
  <2> QED BY SmallestPart
<1>2. PICK y \in s : g[s] # w[y] + g[s \ {y}]
  OBVIOUS
<1> DEFINE p == Pick(s)
<1>3. p \in s /\ p \in S /\ y \in S /\ s \in SUBSET S /\ IsFiniteSet(s)
  BY PickIn, FS_Subset
<1>4. g[s] = w[p] + g[s \ {p}]
  BY <1>3 DEF Summing, Unfolded
<1>5. p # y
  BY <1>2, <1>4
<1>6. y \in s \ {p} /\ p \in s \ {y} /\ (s \ {p}) \ {y} = (s \ {y}) \ {p}
  BY <1>3, <1>5
<1>7. ASSUME NEW z \in s PROVE s \ {z} \in SUBSET S /\ s \ {z} \notin bad
  <2>1. s \ {z} \in SUBSET S
    BY <1>3
  <2>2. /\ Cardinality(s) \in Nat /\ Cardinality(s \ {z}) \in Nat
        /\ Cardinality(s \ {z}) < Cardinality(s)
    BY <1>3, WithoutOne
  <2> HIDE DEF bad
  <2> QED BY <1>1, <2>1, <2>2
<1>8. g[s \ {p}] = w[y] + g[(s \ {p}) \ {y}]
  BY <1>3, <1>6, <1>7
<1>9. g[s \ {y}] = w[p] + g[(s \ {y}) \ {p}]
  BY <1>3, <1>6, <1>7
<1>10. /\ w[p] \in Nat /\ w[y] \in Nat
       /\ g[s \ {p}] \in Nat /\ g[s \ {y}] \in Nat /\ g[(s \ {p}) \ {y}] \in Nat
  BY <1>3
<1>11. g[(s \ {p}) \ {y}] = g[(s \ {y}) \ {p}]
  BY <1>6
<1> HIDE DEF p, bad
<1> QED BY <1>2, <1>4, <1>8, <1>9, <1>10, <1>11

\* Smaller weights on fewer elements sum up to no more.
LEMMA SmallerSums ==
  ASSUME NEW S, NEW w, NEW g, IsSum(g, w, S),
         NEW R, NEW v, NEW h, IsSum(h, v, R),
         S \subseteq R, \A x \in S : w[x] <= v[x]
  PROVE  g[S] <= h[R]
<1> DEFINE bad == {u \in SUBSET R : ~ g[u \cap S] <= h[u]}
<1> SUFFICES ASSUME bad # {} PROVE FALSE
  <2> R \in SUBSET R /\ R \cap S = S
    OBVIOUS
  <2> QED OBVIOUS
<1>1. PICK u \in bad : \A s \in bad : Cardinality(u) <= Cardinality(s)
  <2> bad \subseteq SUBSET R
    OBVIOUS
  <2> HIDE DEF bad
  <2> QED BY SmallestPart DEF IsSum
<1>2. u \in SUBSET R /\ IsFiniteSet(u) /\ ~ g[u \cap S] <= h[u]
  BY FS_Subset DEF IsSum
<1>3. ASSUME NEW x \in u PROVE g[(u \ {x}) \cap S] <= h[u \ {x}]
  <2>1. u \ {x} \in SUBSET R
    BY <1>2
  <2>2. /\ Cardinality(u) \in Nat /\ Cardinality(u \ {x}) \in Nat
        /\ Cardinality(u \ {x}) < Cardinality(u)
    BY <1>2, WithoutOne
  <2>3. u \ {x} \notin bad
    <3> HIDE DEF bad
    <3> QED BY <1>1, <2>1, <2>2
  <2> QED BY <2>1, <2>3
<1> HIDE DEF bad
<1>4. CASE u = {}
  <2>1. u \cap S = {}
    BY <1>4
  <2>2. g[{}] = 0 /\ h[{}] = 0
    BY DEF IsSum, Summing, Unfolded
  <2> QED BY <1>2, <1>4, <2>1, <2>2
<1>5. ASSUME NEW x \in u, x \in S PROVE FALSE
  <2>1. x \in u \cap S /\ u \cap S \in SUBSET S /\ (u \cap S) \ {x} = (u \ {x}) \cap S
    BY <1>5
  <2>2. /\ g[u \cap S] = w[x] + g[(u \cap S) \ {x}]
        /\ w[x] \in Nat /\ g[(u \cap S) \ {x}] \in Nat
    <3> DEFINE part == u \cap S
    <3>1. part \in SUBSET S /\ x \in part
      BY <2>1
    <3> HIDE DEF part
    <3>2. /\ g[part] = w[x] + g[part \ {x}]
          /\ w[x] \in Nat /\ g[part \ {x}] \in Nat
      BY <3>1, SumOfOneMore
    <3> QED BY <3>2 DEF part
  <2>3. /\ h[u] = v[x] + h[u \ {x}]
        /\ h[u] \in Nat /\ v[x] \in Nat /\ h[u \ {x}] \in Nat
    <3>1. u \in SUBSET R /\ IsSum(h, v, R)
      BY <1>2
    <3> QED BY <3>1, SumOfOneMore
  <2>4. w[x] <= v[x] /\ g[(u \cap S) \ {x}] <= h[u \ {x}]
    BY <1>3, <1>5, <2>1
  <2> QED BY <1>2, <2>1, <2>2, <2>3, <2>4
<1>6. ASSUME NEW x \in u, x \notin S PROVE FALSE
  <2>1. (u \ {x}) \cap S = u \cap S /\ u \cap S \in SUBSET S
    BY <1>6
  <2>2. /\ h[u] = v[x] + h[u \ {x}]
        /\ h[u] \in Nat /\ v[x] \in Nat /\ h[u \ {x}] \in Nat
    <3>1. u \in SUBSET R /\ IsSum(h, v, R)
      BY <1>2
    <3> QED BY <3>1, SumOfOneMore
  <2>3. g[u \cap S] \in Nat
    BY <2>1 DEF IsSum
  <2>4. g[u \cap S] <= h[u \ {x}]
    BY <1>3, <2>1
  <2> QED BY <1>2, <2>2, <2>3, <2>4
<1> QED BY <1>4, <1>5, <1>6

-------------------------------------------------------------------------------
(* The rejections in total.                                                *)

\* How often each row of t was rejected.
Weights(t) == [f \in Present(t) |-> t[f].rejections]

\* The fold that MapThenSumSet stands for is such a sum.
LEMMA TotalUnfolds ==
  ASSUME NEW t, \A f \in Present(t) : t[f].rejections \in Nat
  PROVE  \E g : IsSum(g, Weights(t), Present(t)) /\ TotalRejections(t) = g[Present(t)]
<1> DEFINE S == Present(t)
           Body(g, s) == IF s = {} THEN 0
                         ELSE LET x == CHOOSE x \in s : TRUE
                              IN  t[x].rejections + g[s \ {x}]
           iter[s \in SUBSET S] == Body(iter, s)
           Fixed(g) == g = [s \in SUBSET S |-> Body(g, s)]
<1>1. MapThenSumSet(LAMBDA f : t[f].rejections, S) = iter[S]
  <2> HIDE DEF S
  <2> QED BY DEF MapThenSumSet, MapThenFoldSet
<1>2. \A g, s : s \in SUBSET S => Body(g, s) = Unfolded(g, Weights(t), s)
  BY PickIn DEF Pick, Unfolded, Weights
<1>3. \A g : Fixed(g) <=> Summing(g, Weights(t), S)
  <2> SUFFICES ASSUME NEW g PROVE Fixed(g) <=> Summing(g, Weights(t), S)
    OBVIOUS
  <2>1. [s \in SUBSET S |-> Body(g, s)] = [s \in SUBSET S |-> Unfolded(g, Weights(t), s)]
    <3> HIDE DEF Body
    <3> QED BY <1>2
  <2> QED BY <2>1, Zenon DEF Summing
<1>4. IsFiniteSet(S) /\ Weights(t) \in [S -> Nat]
  BY FingerprintsAreFinite, FS_Subset DEF Present, Weights
<1>5. PICK h \in [SUBSET S -> Nat] : Summing(h, Weights(t), S)
  <2> HIDE DEF S
  <2> QED BY <1>4, SummingExists
<1>6. Fixed(iter)
  <2>1. iter = CHOOSE g : Fixed(g)
    BY Zenon
  <2>2. Fixed(h)
    BY <1>3, <1>5, Zenon
  <2> HIDE DEF Fixed, iter
  <2> QED BY <2>1, <2>2
<1>7. Summing(iter, Weights(t), S)
  <2> HIDE DEF Fixed, iter
  <2> QED BY <1>3, <1>6
<1>8. iter \in [SUBSET S -> Nat]
  <2> HIDE DEF iter
  <2>1. \A s \in SUBSET S : iter[s] = h[s]
    BY <1>4, <1>5, <1>7, SameSums
  <2>2. iter = [s \in SUBSET S |-> Unfolded(iter, Weights(t), s)]
    BY <1>7 DEF Summing
  <2> QED BY <2>1, <2>2
<1> QED 
  <2> HIDE DEF iter
  <2> QED BY <1>1, <1>4, <1>7, <1>8 DEF TotalRejections, IsSum

\* A table with no more rows, and no more rejections of any row.
LEMMA SmallerTotal ==
  ASSUME NEW t, \A f \in Present(t) : t[f].rejections \in Nat,
         NEW u, \A f \in Present(u) : u[f].rejections \in Nat,
         Present(t) \subseteq Present(u),
         \A f \in Present(t) : t[f].rejections <= u[f].rejections
  PROVE  TotalRejections(t) \in Nat /\ TotalRejections(u) \in Nat /\ TotalRejections(t) <= TotalRejections(u)
<1>1. PICK g : IsSum(g, Weights(t), Present(t)) /\ TotalRejections(t) = g[Present(t)]
  BY TotalUnfolds
<1>2. PICK h : IsSum(h, Weights(u), Present(u)) /\ TotalRejections(u) = h[Present(u)]
  BY TotalUnfolds
<1>3. \A f \in Present(t) : Weights(t)[f] <= Weights(u)[f]
  BY DEF Weights
<1>4. g[Present(t)] <= h[Present(u)]
  BY <1>1, <1>2, <1>3, SmallerSums
<1> QED BY <1>1, <1>2, <1>4 DEF IsSum

\* One more rejection of one row is one more in total.
LEMMA TotalOfOneMore ==
  ASSUME NEW t, \A f \in Present(t) : t[f].rejections \in Nat,
         NEW u, Present(u) = Present(t), NEW k \in Present(t),
         u[k].rejections = t[k].rejections + 1,
         \A f \in Present(t) \ {k} : u[f].rejections = t[f].rejections
  PROVE  TotalRejections(u) = TotalRejections(t) + 1
<1> DEFINE P == Present(t)
<1>1. PICK g : IsSum(g, Weights(t), P) /\ TotalRejections(t) = g[P]
  BY TotalUnfolds
<1>2. PICK h : IsSum(h, Weights(u), P) /\ TotalRejections(u) = h[P]
  BY TotalUnfolds
<1>3. /\ Weights(u)[k] = Weights(t)[k] + 1
      /\ \A f \in P \ {k} : Weights(t)[f] = Weights(u)[f]
  BY DEF Weights
<1>4. k \in P /\ P \in SUBSET P /\ P \ {k} \in SUBSET P
  OBVIOUS
<1> HIDE DEF P
<1>5. /\ g[P] = Weights(t)[k] + g[P \ {k}]
      /\ Weights(t)[k] \in Nat /\ g[P \ {k}] \in Nat
  BY <1>1, <1>4, SumOfOneMore
<1>6. /\ h[P] = Weights(u)[k] + h[P \ {k}]
      /\ Weights(u)[k] \in Nat /\ h[P \ {k}] \in Nat
  BY <1>2, <1>4, SumOfOneMore
<1>7. g[P \ {k}] = h[P \ {k}]
  BY <1>1, <1>2, <1>3, <1>4, SameSums DEF IsSum
<1> QED BY <1>1, <1>2, <1>3, <1>5, <1>6, <1>7

\* A new row that was never rejected adds nothing.
LEMMA TotalWithNew ==
  ASSUME NEW t, \A f \in Present(t) : t[f].rejections \in Nat,
         NEW k, k \notin Present(t),
         NEW u, Present(u) = Present(t) \cup {k}, u[k].rejections = 0,
         \A f \in Present(t) : u[f].rejections = t[f].rejections
  PROVE  TotalRejections(u) = TotalRejections(t)
<1> DEFINE P == Present(t)
           Q == Present(u)
<1>1. PICK g : IsSum(g, Weights(t), P) /\ TotalRejections(t) = g[P]
  BY TotalUnfolds
<1>2. PICK h : IsSum(h, Weights(u), Q) /\ TotalRejections(u) = h[Q]
  <2> \A f \in Present(u) : u[f].rejections \in Nat
    OBVIOUS
  <2> QED BY TotalUnfolds
<1>3. /\ Weights(u)[k] = 0
      /\ \A f \in P : Weights(t)[f] = Weights(u)[f]
  BY DEF Weights
<1>4. k \in Q /\ Q \in SUBSET Q /\ Q \ {k} = P /\ P \in SUBSET P /\ P \subseteq Q
  OBVIOUS
<1> HIDE DEF P, Q
<1>5. /\ h[Q] = Weights(u)[k] + h[Q \ {k}]
      /\ Weights(u)[k] \in Nat /\ h[Q \ {k}] \in Nat
  BY <1>2, <1>4, SumOfOneMore
<1>6. g[P] = h[P]
  BY <1>1, <1>2, <1>3, <1>4, SameSums DEF IsSum
<1>7. h[Q] = 0 + h[P] /\ h[P] \in Nat
  <2>1. h[Q] = 0 + h[Q \ {k}]
    BY <1>3, <1>5
  <2> QED BY <1>4, <1>5, <2>1
<1> QED BY <1>1, <1>2, <1>6, <1>7

\* No row, nothing rejected.
LEMMA TotalOfNothing ==
  ASSUME NEW t, Present(t) = {}
  PROVE  TotalRejections(t) = 0
<1> \A f \in Present(t) : t[f].rejections \in Nat
  OBVIOUS
<1>1. PICK g : IsSum(g, Weights(t), Present(t)) /\ TotalRejections(t) = g[Present(t)]
  BY TotalUnfolds
<1>2. g[{}] = 0
  <2> {} \in SUBSET Present(t)
    OBVIOUS
  <2> QED BY <1>1 DEF IsSum, Summing, Unfolded
<1> QED BY <1>1, <1>2

-------------------------------------------------------------------------------
(* The limit of the table.                                                 *)

\* The timestamps that matter, of the rows and of the entries on their way to
\* the table, are handed out already and are all different.
Offered == {r \in Runs : pc[r] = "put"}

StampsApart ==
  /\ \A f \in Present(rows) : rows[f].createdAt <= clock
  /\ \A r \in Offered : stamp[r] <= clock
  /\ \A f, g \in Present(rows) : f # g => rows[f].createdAt # rows[g].createdAt
  /\ \A r, q \in Offered : r # q => stamp[r] # stamp[q]
  /\ \A r \in Offered, f \in Present(rows) : stamp[r] # rows[f].createdAt

\* What an insertion makes of the table: rows that were there, and the entry.
LEMMA InsertedRows ==
  ASSUME TypeOK, NEW r \in Runs,
         NEW f \in Present(Pruned(WithRow(rows, key[r], Entry(r))))
  PROVE  LET t == Pruned(WithRow(rows, key[r], Entry(r)))
         IN  \/ f # key[r] /\ f \in Present(rows) /\ t[f] = rows[f]
             \/ f = key[r] /\ t[f] = Entry(r)
<1> DEFINE new == WithRow(rows, key[r], Entry(r))
<1>1. new \in [Fingerprints -> Row \cup {NoRow}]
  BY EntryType, WithRowType DEF TypeOK
<1>2. f \in Fingerprints /\ new[f] # NoRow /\ Pruned(new)[f] = new[f]
  BY <1>1, PrunedRows DEF Present
<1> QED BY <1>2 DEF TypeOK, WithRow, Present

\* No two rows of a table are of the same age.
DistinctStamps(t) ==
  \A f, g \in Present(t) : f # g => t[f].createdAt # t[g].createdAt

\* Of the rows that survive, the oldest has all others as newer ones.
LEMMA PrunedIsSmall ==
  ASSUME NEW t \in [Fingerprints -> Row \cup {NoRow}], DistinctStamps(t)
  PROVE  Cardinality(Present(Pruned(t))) <= MaxEntries
<1> DEFINE S == Present(Pruned(t))
           ages == {t[f].createdAt : f \in S}
<1> SUFFICES ASSUME ~ Cardinality(S) <= MaxEntries PROVE FALSE
  OBVIOUS
<1>1. /\ S \subseteq Present(t)
      /\ \A f \in Present(t) : f \in Fingerprints /\ t[f] \in Row
      /\ \A f \in S : ~ Cardinality(Newer(t, f)) >= MaxEntries
  BY DEF Present, Pruned
<1>2. IsFiniteSet(S) /\ Cardinality(S) \in Nat
  BY <1>1, FingerprintsAreFinite, FS_Subset, FS_CardinalityType DEF Present
<1>3. S # {}
  BY <1>2, FS_EmptySet, MaxEntriesIsNatural
<1> HIDE DEF S
<1>4. PICK m \in S : \A f \in S : t[m].createdAt <= t[f].createdAt
  <2>1. ages \subseteq Nat /\ ages # {}
    BY <1>1, <1>3 DEF Row
  <2>2. \E a \in ages : \A b \in ages : a <= b
    <3> HIDE DEF ages
    <3> QED BY <2>1, LeastNumber
  <2> QED BY <2>2
<1>5. S \ {m} \subseteq Newer(t, m)
  <2> SUFFICES ASSUME NEW f \in S, f # m PROVE f \in Newer(t, m)
    OBVIOUS
  <2>1. t[f].createdAt \in Nat /\ t[m].createdAt \in Nat
    BY <1>1 DEF Row
  <2>2. f \in Present(t) /\ t[f].createdAt # t[m].createdAt
    BY <1>1 DEF DistinctStamps
  <2> QED BY <1>4, <2>1, <2>2 DEF Newer
<1>6. IsFiniteSet(Newer(t, m))
  BY FingerprintsAreFinite, FS_Subset DEF Newer, Present
<1>7. /\ Cardinality(S \ {m}) <= Cardinality(Newer(t, m))
      /\ Cardinality(Newer(t, m)) \in Nat
  BY <1>5, <1>6, FS_Subset, FS_CardinalityType
<1>8. Cardinality(S \ {m}) = Cardinality(S) - 1
  BY <1>2, FS_RemoveElement
<1> QED BY <1>1, <1>2, <1>7, <1>8, MaxEntriesIsNatural

\* Rows that are forgotten or touched, and entries that are dropped, leave the
\* timestamps apart.
LEMMA FewerStamps ==
  ASSUME TypeOK, StampsApart,
         \A f \in Present(rows') : f \in Present(rows) /\ rows'[f].createdAt = rows[f].createdAt,
         \A r \in Runs : pc'[r] = "put" => pc[r] = "put",
         stamp' = stamp, clock' = clock
  PROVE  StampsApart'
BY DEF StampsApart, Offered

\* Only an offer takes a new timestamp, and only its own row keeps it.
LEMMA NextStamps == TypeOK /\ StampsApart /\ [Next]_vars => StampsApart'
<1> SUFFICES ASSUME TypeOK, StampsApart, [Next]_vars PROVE StampsApart'
  OBVIOUS
<1>1. ASSUME NEW r \in Runs, NEW step \in RunSteps \ {"put"}, Goto(r, step)
      PROVE  \A q \in Runs : pc'[q] = "put" => pc[q] = "put" /\ q # r
  BY <1>1 DEF TypeOK, Goto
<1>2. ASSUME NEW r \in Runs, RecordRejection(r) PROVE StampsApart'
  <2>1. \A f \in Present(rows') : f \in Present(rows) /\ rows'[f].createdAt = rows[f].createdAt
    <3>1. CASE rows' = rows
      BY <3>1
    <3>2. CASE /\ rows[key[r]] # NoRow
               /\ rows' = WithRow(rows, key[r], Rejected(rows[key[r]]))
      <4>1. key[r] \in Present(rows) /\ rows[key[r]] \in Row
        BY <3>2 DEF TypeOK, Present
      <4> QED BY <3>2, <4>1, RejectedType, RejectedKeeps, Touched DEF TypeOK
    <3> QED BY <1>2, <3>1, <3>2 DEF RecordRejection
  <2> QED BY <1>1, <1>2, <2>1, FewerStamps DEF RecordRejection, RunSteps
<1>3. ASSUME NEW r \in Runs, Resolve(r) PROVE StampsApart'
  <2>1. CASE Goto(r, "done") /\ UNCHANGED <<clock, stamp>>
    BY <1>1, <1>3, <2>1, FewerStamps DEF Resolve, RunSteps
  <2>2. CASE Goto(r, "put") /\ clock' = clock + 1 /\ stamp' = [stamp EXCEPT ![r] = clock + 1]
    <3>1. /\ \A q \in Runs : pc'[q] = "put" => pc[q] = "put" \/ q = r
          /\ stamp'[r] = clock + 1 /\ clock' = clock + 1 /\ clock \in Nat
          /\ \A q \in Runs \ {r} : stamp'[q] = stamp[q]
          /\ \A q \in Runs : stamp[q] \in Nat
          /\ \A f \in Present(rows) : rows[f].createdAt \in Nat
      BY <2>2, PresentRow DEF TypeOK, Goto, Row
    <3>2. rows' = rows
      BY <1>3 DEF Resolve
    <3> QED BY <3>1, <3>2 DEF StampsApart, Offered
  <2> QED BY <1>3, <2>1, <2>2 DEF Resolve
<1>4. ASSUME NEW r \in Runs, Put(r) PROVE StampsApart'
  <2>1. /\ pc[r] = "put" /\ stamp' = stamp /\ clock' = clock
        /\ \A q \in Runs : pc'[q] = "put" => pc[q] = "put" /\ q # r
    BY <1>1, <1>4 DEF Put, RunSteps
  <2>2. CASE rows' = rows
    BY <2>1, <2>2, FewerStamps
  <2>3. CASE rows' = Pruned(rows)
    <3>1. \A f \in Present(rows') : f \in Present(rows) /\ rows'[f].createdAt = rows[f].createdAt
      BY <2>3, PrunedRows DEF TypeOK, Present
    <3> QED BY <2>1, <3>1, FewerStamps
  <2>4. CASE rows' = Pruned(WithRow(rows, key[r], Entry(r)))
    <3>1. ASSUME NEW f \in Present(rows')
          PROVE  \/ f \in Present(rows) /\ rows'[f].createdAt = rows[f].createdAt
                 \/ f = key[r] /\ rows'[f].createdAt = stamp[r]
      BY <2>4, <3>1, InsertedRows DEF Entry
    <3> QED BY <2>1, <3>1 DEF StampsApart, Offered
  <2> QED BY <1>4, <2>2, <2>3, <2>4 DEF Put
<1>5. ASSUME NEW f \in Fingerprints, Spoil(f) PROVE StampsApart'
  <2>1. \A g \in Present(rows') : g \in Present(rows) /\ rows'[g].createdAt = rows[g].createdAt
    <3>1. f \in Present(rows) /\ rows[f] \in Row
      BY <1>5 DEF TypeOK, Spoil, Present
    <3> QED BY <1>5, <3>1, SpoiltKeeps, Touched DEF TypeOK, Spoil
  <2> QED BY <1>5, <2>1, FewerStamps DEF Spoil, runVars
<1>6. CASE DeleteRows
  <2>1. Present(rows') = {}
    BY <1>6 DEF DeleteRows, Present
  <2> QED BY <1>6, <2>1, FewerStamps DEF DeleteRows, runVars
<1>7. ASSUME NEW r \in Runs, NEW step \in RunSteps \ {"put"}, Goto(r, step),
             rows' = rows, stamp' = stamp, clock' = clock
      PROVE  StampsApart'
  BY <1>1, <1>7, FewerStamps
<1>8. ASSUME NEW r \in Runs, CountLookup(r) PROVE StampsApart'
  <2>1. \E step \in {"model", "reverify"} : Goto(r, step)
    BY <1>8, Zenon DEF CountLookup
  <2> QED BY <1>7, <1>8, <2>1 DEF CountLookup, RunSteps
<1>9. CASE UNCHANGED <<rows, clock, runVars>>
  BY <1>9, FewerStamps DEF runVars
<1> QED
  BY <1>2, <1>3, <1>4, <1>5, <1>6, <1>7, <1>8, <1>9
     DEF Next, Step, Select, Reverify, Kill, CountRows, RunSteps, vars

-------------------------------------------------------------------------------
(* The statistics.                                                         *)

CountedInv == TypeOK /\ StampsApart /\ CountersAddUp

\* An empty table: no stamps to tell apart, nothing to count.
LEMMA InitCounted == Init => StampsApart /\ CountersAddUp
<1> SUFFICES ASSUME Init PROVE StampsApart /\ CountersAddUp
  OBVIOUS
<1>1. Present(rows) = {}
  BY DEF Init, Present
<1>2. StampsApart
  BY <1>1 DEF Init, StampsApart, Offered
<1>3. TotalRejections(rows) = 0
  BY <1>1, TotalOfNothing
<1>4. CountersAddUp
  BY <1>1, <1>3, FS_EmptySet, MaxEntriesIsNatural DEF CountersAddUp, Init, NoCounts
<1> QED BY <1>2, <1>4

\* The table forgets rows or touches them without a rejection, or nothing
\* happens to it, and no counter shrinks.
LEMMA FewerRows ==
  ASSUME TypeOK, TypeOK', CountersAddUp,
         Present(rows') \subseteq Present(rows),
         \A f \in Present(rows') : rows'[f].rejections = rows[f].rejections,
         counters'.hits <= counters'.lookups,
         counters.writes <= counters'.writes,
         counters.rejections <= counters'.rejections
  PROVE  CountersAddUp'
<1>1. /\ \A f \in Present(rows) : rows[f].rejections \in Nat
      /\ \A f \in Present(rows') : rows'[f].rejections \in Nat
  BY DEF TypeOK, Present, Row
<1>2. IsFiniteSet(Present(rows))
  BY FingerprintsAreFinite, FS_Subset DEF Present
<1>3. /\ Cardinality(Present(rows')) \in Nat /\ Cardinality(Present(rows)) \in Nat
      /\ Cardinality(Present(rows')) <= Cardinality(Present(rows))
  BY <1>2, FS_Subset, FS_CardinalityType
<1>4. TotalRejections(rows') \in Nat /\ TotalRejections(rows) \in Nat /\ TotalRejections(rows') <= TotalRejections(rows)
  BY <1>1, SmallerTotal
<1>5. /\ counters.writes \in Nat /\ counters'.writes \in Nat
      /\ counters.rejections \in Nat /\ counters'.rejections \in Nat
  BY DEF TypeOK, Counters
<1> QED BY <1>3, <1>4, <1>5, MaxEntriesIsNatural DEF CountersAddUp

\* A write, a rejection or a lookup is counted with what it does to the table.
LEMMA NextCounted == CountedInv /\ TypeOK' /\ [Next]_vars => CountersAddUp'
<1> SUFFICES ASSUME CountedInv, TypeOK', [Next]_vars PROVE CountersAddUp'
  OBVIOUS
<1> USE DEF CountedInv
<1>0. /\ counters.lookups \in Nat /\ counters.hits \in Nat
      /\ counters.writes \in Nat /\ counters.rejections \in Nat
      /\ counters.hits <= counters.lookups
  BY DEF TypeOK, Counters, CountersAddUp
<1>1. CASE rows' = rows /\ counters' = counters
  BY <1>0, <1>1, FewerRows
<1>2. ASSUME NEW r \in Runs, CountLookup(r) PROVE CountersAddUp'
  <2>1. CASE counters' = counters
    BY <1>1, <1>2, <2>1 DEF CountLookup
  <2>2. CASE counters' = [counters EXCEPT !.lookups = @ + 1,
                                          !.hits = IF seen[r] = NoRow THEN @ ELSE @ + 1]
    <3>1. /\ counters'.lookups = counters.lookups + 1
          /\ counters'.hits \in {counters.hits, counters.hits + 1}
          /\ counters'.writes = counters.writes /\ counters'.rejections = counters.rejections
      BY <2>2 DEF TypeOK, Counters
    <3>2. rows' = rows
      BY <1>2 DEF CountLookup
    <3>3. counters'.hits <= counters'.lookups
      BY <1>0, <3>1
    <3> QED BY <1>0, <3>1, <3>2, <3>3, FewerRows
  <2> QED BY <1>2, <2>1, <2>2 DEF CountLookup
<1>3. ASSUME NEW r \in Runs, RecordRejection(r) PROVE CountersAddUp'
  <2>1. CASE rows' = rows /\ counters' = counters
    BY <1>1, <2>1
  <2>2. CASE counters' = [counters EXCEPT !.rejections = @ + 1]
    <3>1. /\ counters'.lookups = counters.lookups /\ counters'.hits = counters.hits
          /\ counters'.writes = counters.writes
          /\ counters'.rejections = counters.rejections + 1
      BY <2>2 DEF TypeOK, Counters
    <3>2. CASE rows' = rows
      BY <1>0, <3>1, <3>2, FewerRows
    <3>3. CASE /\ rows[key[r]] # NoRow
               /\ rows' = WithRow(rows, key[r], Rejected(rows[key[r]]))
      <4>1. key[r] \in Present(rows) /\ rows[key[r]] \in Row
        BY <3>3 DEF TypeOK, Present
      <4>2. /\ Present(rows') = Present(rows)
            /\ \A f \in Present(rows) :
                 rows'[f] = IF f = key[r] THEN Rejected(rows[f]) ELSE rows[f]
        BY <3>3, <4>1, RejectedType, Touched DEF TypeOK
      <4>3. rows'[key[r]].rejections = rows[key[r]].rejections + 1
        BY <4>1, <4>2 DEF Rejected, Row
      <4>4. \A f \in Present(rows) : rows[f].rejections \in Nat
        BY PresentRow DEF Row
      <4>5. TotalRejections(rows') = TotalRejections(rows) + 1
        BY <4>1, <4>2, <4>3, <4>4, TotalOfOneMore
      <4>6. TotalRejections(rows) \in Nat
        BY <4>4, SmallerTotal
      <4> QED BY <1>0, <3>1, <4>2, <4>5, <4>6 DEF CountersAddUp
    <3> QED BY <1>3, <3>2, <3>3 DEF RecordRejection
  <2> QED BY <1>3, <2>1, <2>2 DEF RecordRejection
<1>4. ASSUME NEW r \in Runs, Put(r) PROVE CountersAddUp'
  <2>1. CASE rows' = rows /\ counters' = counters
    BY <1>1, <2>1
  <2>2. CASE /\ counters' = [counters EXCEPT !.writes = @ + 1]
             /\ rows' = Pruned(IF rows[key[r]] = NoRow
                               THEN WithRow(rows, key[r], Entry(r)) ELSE rows)
    <3>1. /\ counters'.lookups = counters.lookups /\ counters'.hits = counters.hits
          /\ counters'.writes = counters.writes + 1
          /\ counters'.rejections = counters.rejections
      BY <2>2 DEF TypeOK, Counters
    <3>2. CASE rows' = Pruned(rows)
      <4>1. \A f \in Present(rows') : f \in Present(rows) /\ rows'[f] = rows[f]
        BY <3>2, PrunedRows DEF TypeOK, Present
      <4> QED BY <1>0, <3>1, <4>1, FewerRows
    <3>3. CASE rows[key[r]] = NoRow /\ rows' = Pruned(WithRow(rows, key[r], Entry(r)))
      <4> DEFINE new == WithRow(rows, key[r], Entry(r))
                 P == Present(rows)
      <4>1. new \in [Fingerprints -> Row \cup {NoRow}] /\ key[r] \in Fingerprints
        BY EntryType, WithRowType DEF TypeOK
      <4>2. key[r] \notin P /\ Entry(r) # NoRow
        BY <3>3, EntryType, NoRowIsNoRow DEF Present
      <4>3. /\ Present(new) = P \cup {key[r]}
            /\ new[key[r]] = Entry(r)
            /\ \A f \in P : new[f] = rows[f]
        BY <4>1, <4>2 DEF TypeOK, WithRow, Present
      <4>4. DistinctStamps(new)
        <5>1. \A f \in P : rows[f].createdAt # stamp[r]
          BY <1>4 DEF StampsApart, Offered, Put
        <5>2. \A f, g \in P : f # g => rows[f].createdAt # rows[g].createdAt
          BY DEF StampsApart
        <5>3. new[key[r]].createdAt = stamp[r]
          BY <4>3 DEF Entry
        <5> HIDE DEF new, P
        <5> QED BY <4>3, <5>1, <5>2, <5>3 DEF DistinctStamps
      <4>5. Cardinality(Present(rows')) <= MaxEntries
        BY <3>3, <4>1, <4>4, PrunedIsSmall
      <4>6. \A f \in Present(rows') : f \in Present(new) /\ rows'[f] = new[f]
        BY <3>3, <4>1, PrunedRows DEF Present
      <4>7. /\ \A f \in P : rows[f].rejections \in Nat
            /\ \A f \in Present(new) : new[f].rejections \in Nat
            /\ \A f \in Present(rows') : rows'[f].rejections \in Nat
        BY <4>1, <4>6 DEF TypeOK, Present, Row
      <4>8. TotalRejections(new) = TotalRejections(rows)
        <5>1. new[key[r]].rejections = 0
          BY <4>3 DEF Entry
        <5> HIDE DEF new
        <5> QED BY <4>2, <4>3, <4>7, <5>1, TotalWithNew
      <4>9. /\ TotalRejections(rows') \in Nat /\ TotalRejections(rows) \in Nat
            /\ TotalRejections(rows') <= TotalRejections(rows)
        <5>1. \A f \in Present(rows') : rows'[f].rejections <= new[f].rejections
          BY <4>6, <4>7
        <5> QED BY <4>6, <4>7, <4>8, <5>1, SmallerTotal
      <4>10. /\ Cardinality(Present(rows')) \in Nat /\ Cardinality(P) \in Nat
             /\ Cardinality(Present(rows')) <= Cardinality(P) + 1
        <5>1. IsFiniteSet(P)
          BY FingerprintsAreFinite, FS_Subset DEF Present
        <5>2. IsFiniteSet(Present(new)) /\ Cardinality(Present(new)) = Cardinality(P) + 1
          BY <4>2, <4>3, <5>1, FS_AddElement
        <5>3. Present(rows') \subseteq Present(new)
          BY <4>6
        <5> QED BY <5>1, <5>2, <5>3, FS_Subset, FS_CardinalityType
      <4>11. Cardinality(P) <= counters.writes /\ TotalRejections(rows) <= counters.rejections
        BY DEF CountersAddUp
      <4> HIDE DEF P, new
      <4>12. Cardinality(Present(rows')) <= counters'.writes
        BY <1>0, <3>1, <4>10, <4>11
      <4>13. TotalRejections(rows') <= counters'.rejections
        BY <1>0, <3>1, <4>9, <4>11
      <4>14. counters'.hits <= counters'.lookups
        BY <1>0, <3>1
      <4> QED BY <4>5, <4>12, <4>13, <4>14 DEF CountersAddUp
    <3> QED BY <2>2, <3>2, <3>3
  <2> QED BY <1>4, <2>1, <2>2 DEF Put
<1>5. CASE DeleteRows
  <2>1. Present(rows') = {}
    BY <1>5 DEF DeleteRows, Present
  <2>2. TotalRejections(rows') = 0
    BY <2>1, TotalOfNothing
  <2> QED BY <1>5, <2>1, <2>2, FS_EmptySet, MaxEntriesIsNatural
          DEF CountersAddUp, DeleteRows, NoCounts
<1>6. ASSUME NEW f \in Fingerprints, Spoil(f) PROVE CountersAddUp'
  <2>1. f \in Present(rows) /\ rows[f] \in Row
    BY <1>6 DEF TypeOK, Spoil, Present
  <2>2. \A g \in Present(rows') : g \in Present(rows) /\ rows'[g].rejections = rows[g].rejections
    BY <1>6, <2>1, SpoiltKeeps, Touched DEF TypeOK, Spoil
  <2> QED BY <1>0, <1>6, <2>2, FewerRows DEF Spoil
<1> QED
  BY <1>1, <1>2, <1>3, <1>4, <1>5, <1>6
     DEF Next, Step, Select, Reverify, Resolve, Kill, CountRows, vars

\* However many runs look up, write, reject, evict and clear at once, the table
\* never outgrows its limit and the statistics never contradict its rows.
THEOREM StatisticsAddUp == Spec => []CountersAddUp
<1>1. Init => CountedInv
  BY InitTypeOK, InitCounted DEF CountedInv
<1>2. CountedInv /\ [Next]_vars => CountedInv'
  BY NextTypeOK, NextStamps, NextCounted DEF CountedInv
<1>3. CountedInv => CountersAddUp
  BY DEF CountedInv
<1> QED BY <1>1, <1>2, <1>3, PTL DEF Spec
=============================================================================
