---------------------------- MODULE VerifiedMemory ----------------------------
(***************************************************************************)
(* What the verified failure memory promises to the runs that share it: at *)
(* most one patch per failure fingerprint, always one that some run fully  *)
(* verified for that very fingerprint, never replaced while it is there.   *)
(* Entries may be forgotten at any time (eviction, cache clear).           *)
(***************************************************************************)
CONSTANTS Fingerprints, Patches,
          Nothing      \* a fingerprint without a patch; not one of Patches

VARIABLES
  content,   \* the remembered patch of each fingerprint
  proven     \* which patches were fully verified, and for what

vars == <<content, proven>>

Init == /\ content = [f \in Fingerprints |-> Nothing]
        /\ proven = {}

\* A run fully verifies a patch for a failure.
Prove == \E f \in Fingerprints, p \in Patches :
           /\ proven' = proven \cup {<<f, p>>}
           /\ UNCHANGED content

\* The memory after forgetting everything but the fingerprints of keep.
Forgetting(c, keep) == [f \in Fingerprints |-> IF f \in keep THEN c[f] ELSE Nothing]

\* A proven patch is remembered for a fingerprint that has none; making room
\* for it may forget others, or the new one itself.
Remember == \E f \in Fingerprints, p \in Patches, keep \in SUBSET Fingerprints :
              /\ content[f] = Nothing
              /\ <<f, p>> \in proven
              /\ content' = Forgetting([content EXCEPT ![f] = p], keep)
              /\ UNCHANGED proven

Forget == \E keep \in SUBSET Fingerprints :
            /\ content' = Forgetting(content, keep)
            /\ UNCHANGED proven

Next == Prove \/ Remember \/ Forget

Spec == Init /\ [][Next]_vars
=============================================================================
