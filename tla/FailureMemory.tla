---------------------------- MODULE FailureMemory -----------------------------
(***************************************************************************)
(* The verified failure memory (cache/store.py): one SQLite database used  *)
(* by any number of runs at once, and by the cache command.  Each run is a *)
(* process: it looks its fingerprint up, verifies what it found, falls     *)
(* back to the model when there was nothing or it was stale, and offers a  *)
(* fully verified patch of its own to the memory.                          *)
(*                                                                         *)
(* A transaction is one step.  What python's sqlite3 runs outside one is a *)
(* step of its own: a SELECT before the first write of a connection is not *)
(* part of the transaction of that write.  Any transaction may fail (a     *)
(* lock is waited for at most ten seconds) and then changes nothing.  A    *)
(* process may be killed between any two steps.                            *)
(***************************************************************************)
EXTENDS Naturals, FiniteSets, FiniteSetsExt

CONSTANTS Runs,          \* the runs; a run's own patch is named by the run
          Fingerprints,  \* failure fingerprints
          MaxEntries,    \* MAX_MEMORY_ENTRIES
          NoRow          \* the value of a row that is not there

ASSUME FingerprintsAreFinite == IsFiniteSet(Fingerprints)
ASSUME MaxEntriesIsNatural == MaxEntries \in Nat
ASSUME NoRowIsNoRun == NoRow \notin Runs

VARIABLES
  rows,      \* the table failure_memory
  counters,  \* the table counters
  clock,     \* timestamps handed out so far
  pc,        \* where each run is
  key,       \* the fingerprint of each run
  seen,      \* the row each run's lookup read
  stamp,     \* created_at of the entry each run offers
  report,    \* write_status of each run
  admin,     \* where the command "cache clear" is
  counted,   \* the rows it counted
  proven     \* history: which patch was fully verified for which fingerprint

runVars == <<pc, key, seen, stamp, report>>
adminVars == <<admin, counted>>
vars == <<rows, counters, clock, runVars, adminVars, proven>>

Row == [patch : Runs, createdAt : Nat, rejections : Nat, readable : BOOLEAN]

ASSUME NoRowIsNoRow == NoRow \notin Row

Counters == [lookups : Nat, hits : Nat, writes : Nat, rejections : Nat]

RunSteps == {"select", "count", "reverify", "reject", "model", "put", "done",
             "killed"}

TypeOK == /\ rows \in [Fingerprints -> Row \cup {NoRow}]
          /\ counters \in Counters
          /\ clock \in Nat
          /\ pc \in [Runs -> RunSteps]
          /\ key \in [Runs -> Fingerprints]
          /\ seen \in [Runs -> Row \cup {NoRow}]
          /\ stamp \in [Runs -> Nat]
          /\ report \in [Runs -> {"none", "stored", "duplicate", "write_error"}]
          /\ admin \in {"idle", "counted", "done"}
          /\ counted \in Nat
          /\ proven \subseteq Fingerprints \X Runs

NoCounts == [lookups |-> 0, hits |-> 0, writes |-> 0, rejections |-> 0]

Init == /\ rows = [f \in Fingerprints |-> NoRow]
        /\ counters = NoCounts
        /\ clock = 0
        /\ pc = [r \in Runs |-> "select"]
        /\ key \in [Runs -> Fingerprints]
        /\ seen = [r \in Runs |-> NoRow]
        /\ stamp = [r \in Runs |-> 0]
        /\ report = [r \in Runs |-> "none"]
        /\ admin = "idle"
        /\ counted = 0
        /\ proven = {}

-------------------------------------------------------------------------------
(* Helpers.                                                                *)

Present(t) == {f \in Fingerprints : t[f] # NoRow}

Entry(r) == [patch |-> r, createdAt |-> stamp[r], rejections |-> 0,
             readable |-> TRUE]

WithRow(t, f, row) == [t EXCEPT ![f] = row]

Rejected(row) == [row EXCEPT !.rejections = @ + 1]

Spoilt(row) == [row EXCEPT !.readable = FALSE]

\* The rows that survive: those with fewer than MaxEntries newer ones.
Newer(t, f) == {g \in Present(t) : t[g].createdAt > t[f].createdAt}

Pruned(t) == [f \in Fingerprints |->
                IF f \in Present(t) /\ Cardinality(Newer(t, f)) >= MaxEntries
                THEN NoRow ELSE t[f]]

Goto(r, step) == pc' = [pc EXCEPT ![r] = step]

-------------------------------------------------------------------------------
(* get_failure                                                             *)

\* The SELECT, before the transaction of the counters; it may fail.
Select(r) ==
  /\ pc[r] = "select"
  /\ \/ Goto(r, "count") /\ seen' = [seen EXCEPT ![r] = rows[key[r]]]
     \/ Goto(r, "model") /\ UNCHANGED seen
  /\ UNCHANGED <<rows, counters, clock, key, stamp, report, adminVars, proven>>

\* The counters, and then the decoding of the row that was read before.
CountLookup(r) ==
  /\ pc[r] = "count"
  /\ \/ /\ counters' = [counters EXCEPT !.lookups = @ + 1,
                                        !.hits = IF seen[r] = NoRow THEN @ ELSE @ + 1]
        /\ Goto(r, IF seen[r] # NoRow /\ seen[r].readable THEN "reverify" ELSE "model")
     \/ Goto(r, "model") /\ UNCHANGED counters
  /\ UNCHANGED <<rows, clock, key, seen, stamp, report, adminVars, proven>>

-------------------------------------------------------------------------------
(* The run, as far as the memory sees it.                                  *)

\* The remembered patch is verified afresh: it ends the run, or is stale.
Reverify(r) ==
  /\ pc[r] = "reverify"
  /\ \E step \in {"done", "reject"} : Goto(r, step)
  /\ UNCHANGED <<rows, counters, clock, key, seen, stamp, report, adminVars, proven>>

\* Mutation: the row read by the lookup is written back.
RecordRejectionFromLookup(r) ==
  /\ pc[r] = "reject"
  /\ Goto(r, "model")
  /\ counters' = [counters EXCEPT !.rejections = @ + 1]
  /\ rows' = WithRow(rows, key[r], Rejected(seen[r]))
  /\ UNCHANGED <<clock, key, seen, stamp, report, adminVars, proven>>

\* Mutation: a rejection makes a row for a fingerprint that has none any more.
RecordRejectionUpserting(r) ==
  /\ pc[r] = "reject"
  /\ Goto(r, "model")
  /\ counters' = [counters EXCEPT !.rejections = @ + 1]
  /\ rows' = WithRow(rows, key[r], [patch |-> NoRow, createdAt |-> clock,
                                    rejections |-> 1, readable |-> TRUE])
  /\ UNCHANGED <<clock, key, seen, stamp, report, adminVars, proven>>

\* record_rejection counts against whatever row the fingerprint has by now.
RecordRejection(r) ==
  /\ pc[r] = "reject"
  /\ Goto(r, "model")
  /\ \/ /\ counters' = [counters EXCEPT !.rejections = @ + 1]
        /\ rows' = IF rows[key[r]] = NoRow THEN rows
                   ELSE WithRow(rows, key[r], Rejected(rows[key[r]]))
     \/ UNCHANGED <<counters, rows>>
  /\ UNCHANGED <<clock, key, seen, stamp, report, adminVars, proven>>

\* Mutation: a patch is offered that was not fully verified.
ResolveUnverified(r) ==
  /\ pc[r] = "model"
  /\ Goto(r, "put")
  /\ clock' = clock + 1
  /\ stamp' = [stamp EXCEPT ![r] = clock + 1]
  /\ UNCHANGED <<rows, counters, key, seen, report, adminVars, proven>>

\* The normal pipeline: its patch is fully verified, and the entry for it gets
\* its timestamp, or there is nothing to remember.
Resolve(r) ==
  /\ pc[r] = "model"
  /\ \/ /\ Goto(r, "put")
        /\ proven' = proven \cup {<<key[r], r>>}
        /\ clock' = clock + 1
        /\ stamp' = [stamp EXCEPT ![r] = clock + 1]
     \/ Goto(r, "done") /\ UNCHANGED <<proven, clock, stamp>>
  /\ UNCHANGED <<rows, counters, key, seen, report, adminVars>>

-------------------------------------------------------------------------------
(* put_failure: insert unless the fingerprint has a row, count the write,  *)
(* prune to the newest MaxEntries, all in one transaction.                 *)

\* Mutation: INSERT OR REPLACE.
PutReplacing(r) ==
  /\ pc[r] = "put"
  /\ Goto(r, "done")
  /\ rows' = Pruned(WithRow(rows, key[r], Entry(r)))
  /\ counters' = [counters EXCEPT !.writes = @ + 1]
  /\ report' = [report EXCEPT ![r] = "stored"]
  /\ UNCHANGED <<clock, key, seen, stamp, adminVars, proven>>

Put(r) ==
  /\ pc[r] = "put"
  /\ Goto(r, "done")
  /\ \/ /\ rows' = Pruned(IF rows[key[r]] = NoRow
                          THEN WithRow(rows, key[r], Entry(r)) ELSE rows)
        /\ counters' = [counters EXCEPT !.writes = @ + 1]
        /\ report' = [report EXCEPT ![r] = IF rows[key[r]] = NoRow THEN "stored"
                                                                  ELSE "duplicate"]
     \/ /\ report' = [report EXCEPT ![r] = "write_error"]
        /\ UNCHANGED <<rows, counters>>
  /\ UNCHANGED <<clock, key, seen, stamp, adminVars, proven>>

-------------------------------------------------------------------------------
(* The cache command, the operating system and the disk.                   *)

\* clear() counts the rows first, outside of the transaction that deletes.
CountRows ==
  /\ admin = "idle"
  /\ admin' = "counted"
  /\ counted' = Cardinality(Present(rows))
  /\ UNCHANGED <<rows, counters, clock, runVars, proven>>

\* Mutation: the statements of clear() are no transaction, and one fails.
DeleteCounters ==
  /\ admin = "counted"
  /\ admin' = "done"
  /\ counters' = NoCounts
  /\ UNCHANGED <<rows, clock, runVars, counted, proven>>

DeleteRows ==
  /\ admin = "counted"
  /\ admin' = "done"
  /\ rows' = [f \in Fingerprints |-> NoRow]
  /\ counters' = NoCounts
  /\ UNCHANGED <<clock, runVars, counted, proven>>

\* A process may be killed at any point; what it committed stays.
Kill(r) ==
  /\ pc[r] \notin {"done", "killed"}
  /\ Goto(r, "killed")
  /\ UNCHANGED <<rows, counters, clock, key, seen, stamp, report, adminVars, proven>>

\* An entry that no longer decodes: another version of the agent, a bad disk.
Spoil(f) ==
  /\ rows[f] # NoRow
  /\ rows' = WithRow(rows, f, Spoilt(rows[f]))
  /\ UNCHANGED <<counters, clock, runVars, adminVars, proven>>

Step(r) == \/ Select(r)          \/ CountLookup(r) \/ Reverify(r)
           \/ RecordRejection(r) \/ Resolve(r)     \/ Put(r)

Next == \/ \E r \in Runs : Step(r) \/ Kill(r)
        \/ CountRows \/ DeleteRows
        \/ \E f \in Fingerprints : Spoil(f)

Spec == Init /\ [][Next]_vars

-------------------------------------------------------------------------------
(* Properties.                                                             *)

\* Every remembered patch was fully verified by the run that wrote it, for
\* exactly the fingerprint it is remembered under, whatever the interleaving
\* of lookups, evictions, clears and kills.
OnlyProvenPatches ==
  \A f \in Present(rows) : <<f, rows[f].patch>> \in proven

TotalRejections(t) == MapThenSumSet(LAMBDA f : t[f].rejections, Present(t))

\* The counters of "cache stats" stay believable under concurrent runs and
\* clears: a hit is a lookup, a row was written, a rejection was counted; and
\* between two transactions there are never more rows than the limit.
CountersAddUp ==
  /\ Cardinality(Present(rows)) <= MaxEntries
  /\ counters.hits <= counters.lookups
  /\ Cardinality(Present(rows)) <= counters.writes
  /\ TotalRejections(rows) <= counters.rejections

\* What a step keeps of the rows that are there before and after it.
Kept == \A f \in Present(rows) \cap Present(rows') :
          /\ rows'[f].patch = rows[f].patch
          /\ rows'[f].createdAt = rows[f].createdAt
          /\ rows'[f].rejections >= rows[f].rejections

\* The first writer wins: an entry is never replaced in place, neither by a
\* later run that found another patch nor by one whose hit was stale.
FirstWriterWins == [][Kept]_vars

\* To its users the store is the abstract memory.
Remembered == INSTANCE VerifiedMemory
  WITH Patches <- Runs,
       Nothing <- NoRow,
       content <- [f \in Fingerprints |->
                     IF rows[f] = NoRow THEN NoRow ELSE rows[f].patch]

ImplementsVerifiedMemory == Remembered!Spec
=============================================================================
