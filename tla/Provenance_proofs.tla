--------------------------- MODULE Provenance_proofs ---------------------------
(***************************************************************************)
(* What the provenance of a patch proves, for any set of files, any        *)
(* history of commits and any number of changes during the run.            *)
(***************************************************************************)
EXTENDS Provenance, TLAPS

Early == {"discover", "commit", "tree", "status"}

\* Nothing is copied before the checkout has been looked at, everything but
\* links is copied before the contract is built, and nothing is eligible before
\* that, nor a patch of a link ever.
StepInv == /\ pc \in Early => copied = {}
           /\ pc \in {"contract", "end"} => copied = Files \ Linked
           /\ pc # "end" => level = "ineligible"
           /\ Eligible => affected \cap Linked = {}

\* A file that was copied with other content than the commit's still has other
\* content, or has been put back since.  This is what FingerprintBindsCopy
\* needs of every state in which the fingerprint may be taken.
DriftInv == (anchor # NoCommit /\ Running) =>
              \A f \in copied \ reverted :
                copy[f] # Trees[anchor][f] => work[f] # Trees[anchor][f]

\* While nobody touches the checkout, all that was read of it still holds.
QuietInv == changes = 0 =>
              /\ commit \in {head, NoCommit}
              /\ tree \in {head, NoCommit}
              /\ anchor # NoCommit => anchor = head /\ Clean
              /\ \A f \in copied : copy[f] = work[f]
              /\ Eligible => /\ anchor # NoCommit
                             /\ \A f \in affected : fingerprint[f] = work[f]

IInv == TypeOK /\ StepInv /\ DriftInv /\ QuietInv /\ FingerprintBindsCopy

LEMMA InitHolds == Init => IInv
BY BoundsAreNumbers
   DEF Init, IInv, TypeOK, Steps, Revisions, Content, NoFiles, EligibilityLevels,
       StepInv, DriftInv, QuietInv, FingerprintBindsCopy, Eligible, Early

LEMMA TreesType == \A c \in Commits : Trees[c] \in [Files -> Content]
BY TreesHoldFiles DEF Content

LEMMA WorthsType == Worths \subseteq EligibilityLevels
BY DEF Worths, EligibilityLevels, MutationEligibility

\* The steps that only read the checkout.
LEMMA ReadsKeep == IInv /\ (Discover \/ ReadCommit \/ ReadTree \/ ReadStatus) => IInv'
<1> SUFFICES ASSUME IInv, Discover \/ ReadCommit \/ ReadTree \/ ReadStatus PROVE IInv'
  OBVIOUS
<1> USE DEF checkoutVars, copyVars, resultVars
<1>1. /\ pc \in Early /\ pc' \in Steps \ {"end", "contract"}
      /\ UNCHANGED <<checkoutVars, caller, copyVars, resultVars, reverted>>
  BY DEF Discover, ReadCommit, ReadTree, ReadStatus, Early, Steps
<1>2. copied' = {} /\ level' = "ineligible"
  BY <1>1 DEF IInv, StepInv, Early
<1>3. layout' \subseteq Files /\ commit' \in Revisions /\ tree' \in Revisions /\ anchor' \in Revisions
  BY DEF IInv, TypeOK, Discover, ReadCommit, ReadTree, ReadStatus, Revisions
<1>4. TypeOK'
  BY <1>1, <1>3 DEF IInv, TypeOK
<1>5. StepInv' /\ DriftInv' /\ FingerprintBindsCopy'
  BY <1>1, <1>2 DEF StepInv, DriftInv, FingerprintBindsCopy, Eligible
<1>6. QuietInv'
  <2> SUFFICES ASSUME changes = 0
               PROVE  /\ commit' \in {head, NoCommit}
                      /\ tree' \in {head, NoCommit}
                      /\ anchor' # NoCommit => anchor' = head /\ Clean
    BY <1>1, <1>2 DEF QuietInv, Eligible, Clean
  <2>1. /\ commit \in {head, NoCommit} /\ tree \in {head, NoCommit}
        /\ anchor # NoCommit => anchor = head /\ Clean
    BY DEF IInv, QuietInv
  <2>2. CASE Discover
    BY <2>1, <2>2 DEF Discover
  <2>3. CASE ReadCommit
    BY <2>1, <2>3 DEF ReadCommit
  <2>4. CASE ReadTree
    BY <2>1, <2>4 DEF ReadTree
  <2>5. CASE ReadStatus
    <3>1. commit' = commit /\ tree' = tree
      BY <2>5 DEF ReadStatus
    <3>2. anchor' # NoCommit => anchor' = commit /\ Clean
      BY <2>5 DEF ReadStatus
    <3> QED BY <2>1, <3>1, <3>2
  <2> QED BY <2>2, <2>3, <2>4, <2>5
<1> QED BY <1>4, <1>5, <1>6 DEF IInv

LEMMA ProposeKeeps == IInv /\ Propose => IInv'
<1> SUFFICES ASSUME IInv, Propose PROVE IInv'
  OBVIOUS
<1> USE DEF Propose, checkoutVars, sourceVars, resultVars
<1>1. copied' = {} /\ reverted' = {} /\ level' = "ineligible" /\ pc' = "copy"
  BY DEF IInv, StepInv
<1>2. TypeOK'
  BY <1>1, BoundsAreNumbers DEF IInv, TypeOK, Steps, NoFiles, Content
<1>3. StepInv' /\ DriftInv' /\ FingerprintBindsCopy'
  BY <1>1 DEF StepInv, DriftInv, FingerprintBindsCopy, Eligible, Early
<1>4. QuietInv'
  BY <1>1 DEF IInv, QuietInv, Eligible, Clean
<1> QED BY <1>2, <1>3, <1>4 DEF IInv

LEMMA CopyKeeps == ASSUME NEW g \in Files, IInv, CopyFile(g) PROVE IInv'
<1> USE DEF CopyFile, checkoutVars, sourceVars, resultVars
<1>1. level' = "ineligible" /\ pc' = "copy" /\ pc = "copy"
  BY DEF IInv, StepInv
<1>2. copy' \in [Files -> Content] /\ copy'[g] = work[g]
      /\ \A f \in Files \ {g} : copy'[f] = copy[f]
  BY DEF IInv, TypeOK
<1>3. TypeOK'
  BY <1>1, <1>2 DEF IInv, TypeOK
<1>4. StepInv' /\ FingerprintBindsCopy'
  BY <1>1 DEF StepInv, FingerprintBindsCopy, Eligible, Early
<1>5. DriftInv'
  BY <1>1, <1>2 DEF IInv, TypeOK, DriftInv, Running
<1>6. QuietInv'
  BY <1>1, <1>2 DEF IInv, TypeOK, QuietInv, Eligible, Clean
<1> QED BY <1>3, <1>4, <1>5, <1>6 DEF IInv

LEMMA VerifyKeeps == IInv /\ Verify => IInv'
<1> SUFFICES ASSUME IInv, Verify PROVE IInv'
  OBVIOUS
<1> USE DEF Verify, checkoutVars, sourceVars, resultVars
<1>1. level' = "ineligible" /\ pc' \in {"contract", "propose"} /\ copied' = Files \ Linked
  BY DEF IInv, StepInv
<1>2. worth' \in EligibilityLevels
  BY WorthsType
<1>3. TypeOK'
  BY <1>1, <1>2 DEF IInv, TypeOK, Steps
<1>4. StepInv' /\ FingerprintBindsCopy'
  BY <1>1 DEF StepInv, FingerprintBindsCopy, Eligible, Early
<1>5. DriftInv'
  BY <1>1 DEF IInv, DriftInv, Running
<1>6. QuietInv'
  BY <1>1 DEF IInv, QuietInv, Eligible, Clean
<1> QED BY <1>3, <1>4, <1>5, <1>6 DEF IInv

\* The fingerprint is taken of the files as they are now: equal to the
\* commit's, they were so when they were copied.
LEMMA ContractKeeps == IInv /\ BuildContract => IInv'
<1> SUFFICES ASSUME IInv, BuildContract PROVE IInv'
  OBVIOUS
<1> USE DEF BuildContract, SourceFingerprint, Readable, checkoutVars, sourceVars, copyVars
<1>1. /\ pc' = "end" /\ pc = "contract" /\ copied' = Files \ Linked /\ copied = Files \ Linked
      /\ level' \in EligibilityLevels
      /\ fingerprint' \in [Files -> Content]
  BY DEF IInv, StepInv, TypeOK, EligibilityLevels, Content
<1>2. level' # "ineligible" =>
        /\ anchor # NoCommit
        /\ \A f \in affected : f \notin Linked /\ fingerprint'[f] = work[f]
  BY DEF IInv, TypeOK
<1>3. TypeOK'
  BY <1>1 DEF IInv, TypeOK, Steps
<1>4. StepInv' /\ DriftInv'
  BY <1>1, <1>2 DEF StepInv, DriftInv, Running, Early, Eligible
<1>5. FingerprintBindsCopy'
  BY <1>1, <1>2 DEF IInv, TypeOK, DriftInv, Running, FingerprintBindsCopy, Eligible
<1>6. QuietInv'
  BY <1>1, <1>2 DEF IInv, QuietInv, Eligible, Clean
<1> QED BY <1>3, <1>4, <1>5, <1>6 DEF IInv

LEMMA OwnerKeeps == IInv /\ Owner => IInv'
<1> SUFFICES ASSUME IInv, Owner PROVE IInv'
  OBVIOUS
<1>1. head' \in Revisions /\ work' \in [Files -> Content] /\ Change
  <2>1. ASSUME NEW f \in Files, Edit(f)
        PROVE  head' \in Revisions /\ work' \in [Files -> Content] /\ Change
    BY <2>1 DEF Edit, IInv, TypeOK
  <2>2. ASSUME NEW c \in Commits, Switch(c)
        PROVE  head' \in Revisions /\ work' \in [Files -> Content] /\ Change
    BY <2>2, TreesType DEF Switch, IInv, TypeOK, Revisions
  <2>3. ASSUME NEW c \in Commits, Commit(c)
        PROVE  head' \in Revisions /\ work' \in [Files -> Content] /\ Change
    BY <2>3 DEF Commit, IInv, TypeOK, Revisions
  <2> QED BY <2>1, <2>2, <2>3 DEF Owner
<1> USE DEF Change, sourceVars, copyVars, resultVars
<1>2. level' = "ineligible" /\ level = "ineligible" /\ pc' = pc /\ pc # "end"
  BY <1>1 DEF IInv, StepInv, Running
<1>3. changes' \in 0..MaxChanges /\ changes' # 0
  BY <1>1, BoundsAreNumbers DEF IInv, TypeOK
<1>4. TypeOK'
  BY <1>1, <1>3 DEF IInv, TypeOK
<1>5. StepInv' /\ FingerprintBindsCopy' /\ QuietInv'
  BY <1>1, <1>2, <1>3 DEF IInv, StepInv, FingerprintBindsCopy, Eligible, QuietInv
<1>6. DriftInv'
  BY <1>1 DEF IInv, TypeOK, DriftInv
<1> QED BY <1>4, <1>5, <1>6 DEF IInv

LEMMA Inductive == Spec => []IInv
<1>1. IInv /\ UNCHANGED vars => IInv'
  BY DEF IInv, vars, checkoutVars, sourceVars, copyVars, resultVars, TypeOK, StepInv, DriftInv,
         QuietInv, FingerprintBindsCopy, Running, Eligible, Clean
<1>2. IInv /\ [Next]_vars => IInv'
  BY <1>1, ReadsKeep, ProposeKeeps, CopyKeeps, VerifyKeeps, ContractKeeps, OwnerKeeps DEF Next
<1> QED BY InitHolds, <1>2, PTL DEF Spec

-------------------------------------------------------------------------------
(* The theorems.                                                           *)

\* Whatever the owner does to the checkout, every variable keeps to its type.
THEOREM TypeCorrect == Spec => []TypeOK
<1>1. IInv => TypeOK
  BY DEF IInv
<1> QED BY <1>1, Inductive, PTL

\* With the checkout left alone, an eligible patch was verified in a copy of
\* every regular file of the commit the result names, and fingerprinted there.
THEOREM QuietRunsAreExact == Spec => []QuietRunIsExact
<1>1. IInv => QuietRunIsExact
  <2> SUFFICES ASSUME IInv, Eligible, changes = 0
               PROVE  /\ head = anchor
                      /\ tree \in {anchor, NoCommit}
                      /\ \A f \in Files \ (Ignored \cup Linked) : copy[f] = Trees[anchor][f]
                      /\ \A f \in affected : f \notin Linked /\ fingerprint[f] = copy[f]
    BY DEF QuietRunIsExact
  <2>1. copied = Files \ Linked /\ affected \cap Linked = {}
    BY DEF IInv, StepInv, Eligible
  <2>2. anchor = head /\ Clean /\ tree \in {head, NoCommit}
    BY DEF IInv, QuietInv
  <2>3. \A f \in Files \ Linked : copy[f] = work[f]
    BY <2>1 DEF IInv, QuietInv
  <2>4. \A f \in affected : fingerprint[f] = work[f] /\ f \in Files
    BY DEF IInv, QuietInv, TypeOK
  <2>5. \A f \in affected : copy[f] = work[f] /\ f \notin Linked
    BY <2>1, <2>3, <2>4
  <2> QED BY <2>2, <2>3, <2>4, <2>5 DEF Clean
<1> QED BY <1>1, Inductive, PTL

\* However the checkout changes during the run, a fingerprint that matches the
\* commit speaks for the files the patch was verified on.
THEOREM FingerprintIsBinding == Spec => []FingerprintBindsCopy
<1>1. IInv => FingerprintBindsCopy
  BY DEF IInv
<1> QED BY <1>1, Inductive, PTL
=============================================================================
