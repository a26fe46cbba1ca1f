------------------------------ MODULE Provenance ------------------------------
(***************************************************************************)
(* One run of the agent and the checkout it works on (provenance.py, read  *)
(* with repository.py and workspace.py).  The run reads the commit, the    *)
(* tree and the cleanliness of the checkout when it starts, copies the     *)
(* files for every candidate it verifies, and fingerprints the files of    *)
(* the final patch when it writes its result.  Nothing locks the checkout: *)
(* its owner edits, commits and switches between any two of these reads.   *)
(*                                                                         *)
(* What a verified candidate is worth comes from module Assessment.        *)
(***************************************************************************)
EXTENDS Assessment, Naturals, FiniteSets

CONSTANTS Files,          \* Terraform files of the selected directory
          Ignored,        \* those git does not look at (.gitignore)
          Linked,         \* those that are symbolic links to a file of the repository
          Contents,       \* what a file may hold, or a link point to
          Absent,         \* the content of a file that is not there
          Commits, NoCommit,
          Trees,          \* what each commit holds
          MaxChanges,     \* bound: changes of the checkout during the run
          MaxCandidates   \* bound: candidates verified in one run

ASSUME IgnoredAreFiles     == Ignored \subseteq Files
ASSUME LinksAreFiles       == Linked \subseteq Files
ASSUME AbsentIsNoContent   == Absent \notin Contents
ASSUME NoCommitIsNoCommit  == NoCommit \notin Commits
ASSUME TreesHoldFiles      == Trees \in [Commits -> [Files -> Contents \cup {Absent}]]
ASSUME IgnoredAreUntracked == \A c \in Commits : \A f \in Ignored : Trees[c][f] = Absent
ASSUME BoundsAreNumbers    == MaxChanges \in Nat /\ MaxCandidates \in Nat

VARIABLES
  head,         \* the commit HEAD names
  work,         \* the working tree
  changes,      \* number of changes made to either during the run
  caller,       \* --source-revision, or NoCommit
  pc,           \* the next step of the run
  layout,       \* layout.terraform_files
  commit, tree, \* git_commit_sha, and the commit git_tree_sha belongs to
  anchor,       \* verified_against_commit_sha
  candidates,   \* candidates proposed so far
  affected,     \* the files the current candidate touches
  copied,       \* the files the current workspace copy has been given
  copy,         \* that copy
  worth,        \* eligibility its verification gives an anchored candidate
  fingerprint,  \* what source_fingerprint_sha256 is computed from
  level,        \* mutation eligibility of the result
  reverted      \* history: copied files that got the commit's content since

checkoutVars == <<head, work, changes>>
sourceVars   == <<caller, layout, commit, tree, anchor>>
copyVars     == <<candidates, affected, copied, copy, worth>>
resultVars   == <<fingerprint, level>>
vars == <<checkoutVars, pc, sourceVars, copyVars, resultVars, reverted>>

Content   == Contents \cup {Absent}
Revisions == Commits \cup {NoCommit}
NoFiles   == [f \in Files |-> Absent]
Steps == {"discover", "commit", "tree", "status", "propose", "copy", "contract",
          "end", "failed"}

TypeOK == /\ head \in Revisions
          /\ work \in [Files -> Content]
          /\ changes \in 0..MaxChanges
          /\ caller \in Revisions
          /\ pc \in Steps
          /\ layout \subseteq Files
          /\ commit \in Revisions
          /\ tree \in Revisions
          /\ anchor \in Revisions
          /\ candidates \in 0..MaxCandidates
          /\ affected \subseteq Files
          /\ copied \subseteq Files
          /\ copy \in [Files -> Content]
          /\ worth \in EligibilityLevels
          /\ fingerprint \in [Files -> Content]
          /\ level \in EligibilityLevels
          /\ reverted \subseteq Files

Init == /\ head \in Revisions
        /\ work \in [Files -> Content]
        /\ changes = 0
        /\ caller \in Revisions
        /\ pc = "discover"
        /\ layout = {}
        /\ commit = NoCommit
        /\ tree = NoCommit
        /\ anchor = NoCommit
        /\ candidates = 0
        /\ affected = {}
        /\ copied = {}
        /\ copy = NoFiles
        /\ worth = "ineligible"
        /\ fingerprint = NoFiles
        /\ level = "ineligible"
        /\ reverted = {}

-------------------------------------------------------------------------------
(* The run.                                                                *)

\* discover_repository: the Terraform files there are now, those reached by a
\* link included (is_file follows it); none is an error.
Discover ==
  /\ pc = "discover"
  /\ layout' = {f \in Files : work[f] # Absent}
  /\ pc' = IF layout' = {} THEN "failed" ELSE "commit"
  /\ UNCHANGED <<checkoutVars, caller, commit, tree, anchor, copyVars, resultVars,
                 reverted>>

\* git rev-parse HEAD^{commit}; git may be missing, fail or time out.  The
\* revision of the caller has to be the one that was read.
ReadCommit ==
  /\ pc = "commit"
  /\ commit' \in {head, NoCommit}
  /\ pc' = IF caller \in {NoCommit, commit'} THEN "tree" ELSE "failed"
  /\ UNCHANGED <<checkoutVars, caller, layout, tree, anchor, copyVars, resultVars,
                 reverted>>

\* git rev-parse HEAD^{tree}, a process of its own.
ReadTree ==
  /\ pc = "tree"
  /\ tree' \in {head, NoCommit}
  /\ pc' = "status"
  /\ UNCHANGED <<checkoutVars, caller, layout, commit, anchor, copyVars, resultVars,
                 reverted>>

\* git status compares the working tree with HEAD, ignored files excepted.
Clean == head # NoCommit /\ \A f \in Files \ Ignored : work[f] = Trees[head][f]

\* Mutation: a commit that could be read is taken for a clean checkout.
ReadStatusTrusting ==
  /\ pc = "status"
  /\ anchor' = commit
  /\ pc' = "propose"
  /\ UNCHANGED <<checkoutVars, caller, layout, commit, tree, copyVars, resultVars,
                 reverted>>

\* A status that is not empty, or that could not be read, anchors nothing.
ReadStatus ==
  /\ pc = "status"
  /\ anchor' \in {IF Clean THEN commit ELSE NoCommit, NoCommit}
  /\ pc' = "propose"
  /\ UNCHANGED <<checkoutVars, caller, layout, commit, tree, copyVars, resultVars,
                 reverted>>

\* Mutation: a run does not count its candidates.
ProposeUncounted ==
  /\ pc = "propose"
  /\ candidates' = candidates + 1
  /\ affected' \in SUBSET Files
  /\ copied' = {}
  /\ copy' = NoFiles
  /\ reverted' = {}
  /\ pc' = "copy"
  /\ UNCHANGED <<checkoutVars, sourceVars, worth, resultVars>>

\* A remembered candidate or the answer of a model: a patch of some files.
Propose ==
  /\ pc = "propose"
  /\ candidates < MaxCandidates
  /\ candidates' = candidates + 1
  /\ affected' \in SUBSET Files
  /\ copied' = {}
  /\ copy' = NoFiles
  /\ reverted' = {}
  /\ pc' = "copy"
  /\ UNCHANGED <<checkoutVars, sourceVars, worth, resultVars>>

\* create_safe_terraform_copy, one file after the other in any order, the
\* files git ignores and those that appeared since included.  It skips links.
CopyFile(f) ==
  /\ pc = "copy"
  /\ f \notin copied \cup Linked
  /\ copied' = copied \cup {f}
  /\ copy' = [copy EXCEPT ![f] = work[f]]
  /\ reverted' = reverted \ {f}
  /\ UNCHANGED <<checkoutVars, pc, sourceVars, candidates, affected, worth, resultVars>>

\* What the verifications there are can make of an anchored candidate.
Worths == {MutationEligibility(a, TRUE) : a \in UNION {VerdictsOf(m) : m \in Modes}}

\* The patch is scoped to the layout, which names links, and applied to the
\* copy, which has none.  A candidate of any worth ends the run; another one may be followed by the next.
Verify ==
  /\ pc = "copy"
  /\ copied = Files \ Linked
  /\ worth' \in Worths
  /\ worth' # "ineligible" => /\ affected # {}
                              /\ affected \subseteq layout
                              /\ \A f \in affected : copy[f] # Absent
  /\ \/ pc' = "contract"
     \/ pc' = "propose" /\ worth' = "ineligible"
  /\ UNCHANGED <<checkoutVars, sourceVars, candidates, affected, copied, copy,
                 resultVars, reverted>>

\* A link is neither fingerprinted nor an existing file for the contract.
Readable == \A f \in affected : work[f] # Absent /\ f \notin Linked

\* Mutation: the fingerprint is that of the commit that was read, not of the
\* files.
SourceFingerprintOfCommit == [f \in Files |->
  IF f \in affected /\ anchor # NoCommit THEN Trees[anchor][f] ELSE Absent]

\* The bytes of the affected files as they are in the checkout now, if all of
\* them can be read.
SourceFingerprint == [f \in Files |->
  IF f \in affected /\ Readable THEN work[f] ELSE Absent]

\* build_verified_patch_contract: the affected files have to be there still.
BuildContract ==
  /\ pc = "contract"
  /\ fingerprint' = SourceFingerprint
  /\ LET existing == affected # {} /\ affected \subseteq layout /\ Readable
     IN level' = IF existing /\ anchor # NoCommit THEN worth ELSE "ineligible"
  /\ pc' = "end"
  /\ UNCHANGED <<checkoutVars, sourceVars, copyVars, reverted>>

-------------------------------------------------------------------------------
(* The owner of the checkout.                                              *)

Running == pc \notin {"end", "failed"}

\* Every change is counted, and whether it gives a file that has been copied
\* the content it has in the commit the run is anchored at.
Change ==
  /\ Running
  /\ changes < MaxChanges
  /\ changes' = changes + 1
  /\ reverted' = reverted \cup
       {f \in copied : /\ anchor # NoCommit
                       /\ work'[f] # work[f]
                       /\ work'[f] = Trees[anchor][f]}
  /\ UNCHANGED <<pc, sourceVars, copyVars, resultVars>>

Edit(f) == /\ \E c \in Content \ {work[f]} : work' = [work EXCEPT ![f] = c]
           /\ UNCHANGED head
           /\ Change

\* git switch: with a clean tree, and the ignored files stay.
Switch(c) == /\ Clean
             /\ c # head
             /\ head' = c
             /\ work' = [f \in Files |-> IF f \in Ignored THEN work[f] ELSE Trees[c][f]]
             /\ Change

\* git commit -a.
Commit(c) == /\ c # head
             /\ \A f \in Files \ Ignored : work[f] = Trees[c][f]
             /\ head' = c
             /\ UNCHANGED work
             /\ Change

Owner == \/ \E f \in Files : Edit(f)
         \/ \E c \in Commits : Switch(c) \/ Commit(c)

Next == \/ Discover \/ ReadCommit \/ ReadTree \/ ReadStatus
        \/ Propose \/ (\E f \in Files : CopyFile(f)) \/ Verify \/ BuildContract
        \/ Owner

Spec == Init /\ [][Next]_vars

-------------------------------------------------------------------------------
(* Properties.                                                             *)

Eligible == level # "ineligible"

\* Left alone, the run tells the truth: for an eligible patch the commit the
\* result names is still checked out, the copy it was verified in holds every
\* regular file of that commit as it is there, and the fingerprint is the one
\* of the files the patch was verified on, none of them a link (README.md: "a
\* fingerprint of the exact pre-patch affected files").  Both exceptions are
\* real: a patch of a file git ignores is eligible, although no revision holds
\* that file, and so is one verified without the Terraform files the commit
\* holds as links, which the copy never gets.
QuietRunIsExact ==
  Eligible /\ changes = 0 =>
    /\ head = anchor
    /\ tree \in {anchor, NoCommit}
    /\ \A f \in Files \ (Ignored \cup Linked) : copy[f] = Trees[anchor][f]
    /\ \A f \in affected : f \notin Linked /\ fingerprint[f] = copy[f]

\* Whatever happens to the checkout in between, the platform that recomputes
\* the fingerprint from the commit the result names finds out: a file whose
\* fingerprint is the commit's was verified with the commit's content, unless
\* its owner put that content back after it had been copied.
FingerprintBindsCopy ==
  Eligible =>
    \A f \in affected \ reverted :
      fingerprint[f] = Trees[anchor][f] => copy[f] = Trees[anchor][f]
=============================================================================
