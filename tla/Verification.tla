----------------------------- MODULE Verification -----------------------------
(***************************************************************************)
(* The isolated verification of candidate patches (verification.py,        *)
(* _verify_candidate_patch), gate by gate: scope validation, the search    *)
(* for git, the filtered temporary copy, git apply --check, git apply, the *)
(* search for terraform, fmt, init, validate and, in full mode, plan.      *)
(*                                                                         *)
(* The environment chooses everything the code does not control: whether a *)
(* tool is installed, whether the copy can be made, how each command ends, *)
(* and whether what it printed has one of the markers of an unusable       *)
(* environment.  A command may also make the verifier itself raise (its    *)
(* output is not valid text, say); the caller turns any exception into     *)
(* the attempt VerifierRaised, so the raise is modelled up to there.  A    *)
(* run verifies several candidates one after the other: a remembered one,  *)
(* then those of its two model calls.                                      *)
(***************************************************************************)
EXTENDS Assessment

CONSTANT MaxCandidates   \* candidates one run may have verified
ASSUME MaxCandidatesIsPositive == MaxCandidates \in Nat \ {0}

VARIABLES
  mode,       \* "local" stops after validate, "full" goes on to plan
  candidate,  \* which candidate of the run is verified
  pc,         \* the gate the verifier is at
  commands,   \* how each command ended, so far
  copy,       \* the temporary copy of the repository
  attempt     \* the answer, NoAttempt while there is none

vars == <<mode, candidate, pc, commands, copy, attempt>>

Gates == {"scope", "git", "copy", "patch_check", "patch_apply", "terraform",
          "fmt", "init", "validate", "plan", "done"}

Copies == {"absent", "pristine", "patched", "removed"}

CommandEnds == {"passed", "failed", "error"}

TypeOK == /\ mode \in Modes
          /\ candidate \in 1..MaxCandidates
          /\ pc \in Gates
          /\ commands \in [Stages -> CommandStatuses]
          /\ copy \in Copies
          /\ attempt \in Attempt \cup {NoAttempt}

Init == /\ mode \in Modes
        /\ candidate = 1
        /\ pc = "scope"
        /\ commands = NothingRun
        /\ copy = "absent"
        /\ attempt = NoAttempt

-------------------------------------------------------------------------------
(* Helpers shared by the gates.                                            *)

\* Mutation: off by one, the next command is left out.
SkipAfter(s, cs) ==
  [t \in Stages |-> IF t > s /\ cs[t] = "none" THEN "skipped" ELSE cs[t]]

\* Every command from stage s on that has no result is recorded as skipped.
SkipFrom(s, cs) ==
  [t \in Stages |-> IF t >= s /\ cs[t] = "none" THEN "skipped" ELSE cs[t]]

\* Leaving the verifier also leaves the temporary directory, if there is one.
Return(verdict) ==
  /\ attempt' = verdict
  /\ commands' = verdict.commands
  /\ copy' = IF copy = "absent" THEN "absent" ELSE "removed"
  /\ pc' = "done"
  /\ UNCHANGED <<mode, candidate>>

Advance(gate, cs, tree) ==
  /\ pc' = gate
  /\ commands' = cs
  /\ copy' = tree
  /\ UNCHANGED <<mode, candidate, attempt>>

\* A command that timed out, could not start or printed an environment marker
\* blocks the verification; any other command that did not pass fails it.
Unavailable(r, marker) == r = "error" \/ marker

StageVerdict(s, r, marker, cs) ==
  LET blocked == Unavailable(r, marker)
  IN Verdict(IF blocked THEN "unavailable" ELSE "failed", s,
             SkipFrom(s + 1, [cs EXCEPT ![s] = r]),
             IF blocked THEN "environment" ELSE FailedCategory(s),
             "none", "in_scope", mode)

\* The gate of a command: go on when it passed, conclude when it did not.
Gate(gate, s, next, tree) ==
  /\ pc = gate
  /\ \/ Advance(next, [commands EXCEPT ![s] = "passed"], tree)
     \/ \E r \in CommandEnds \ {"passed"}, marker \in BOOLEAN :
          Return(StageVerdict(s, r, marker, commands))

-------------------------------------------------------------------------------
(* The gates.                                                              *)

\* The whole patch must stay inside existing Terraform files of the selected
\* directory; the category of a refusal comes from classify_patch_failure.
CheckScope ==
  /\ pc = "scope"
  /\ \/ Advance("git", commands, copy)
     \/ \E c \in {"malformed", "unsafe", "unknown"} :
          Return(Verdict("rejected", PatchCheck, commands, c, "none",
                         "out_of_scope", mode))

FindGit ==
  /\ pc = "git"
  /\ \/ Advance("copy", commands, copy)
     \/ Return(Verdict("unavailable", PatchCheck, SkipFrom(PatchCheck, commands),
                       "environment", "none", "in_scope", mode))

\* Mutation: a copy that cannot be made is tried again without a bound.
MakeCopyRetrying ==
  /\ pc = "copy"
  /\ \/ Advance("patch_check", commands, "pristine")
     \/ Advance("git", commands, copy)

\* Copy the filtered repository and write the patch file beside it.
MakeCopy ==
  /\ pc = "copy"
  /\ \/ Advance("patch_check", commands, "pristine")
     \/ Return(Verdict("unavailable", PatchCheck, commands, "environment",
                       "none", "in_scope", mode))

RunPatchCheck == Gate("patch_check", PatchCheck, "patch_apply", copy)

\* Mutation: the result of git apply is recorded but not looked at.
RunPatchApplyUnchecked ==
  /\ pc = "patch_apply"
  /\ \E r \in CommandEnds :
       Advance("terraform", [commands EXCEPT ![PatchApply] = r], "patched")

RunPatchApply == Gate("patch_apply", PatchApply, "terraform", "patched")

FindTerraform ==
  /\ pc = "terraform"
  /\ \/ Advance("fmt", commands, copy)
     \/ Return(Verdict("unavailable", Fmt, SkipFrom(Fmt, commands),
                       "environment", "none", "in_scope", mode))

RunFmt      == Gate("fmt", Fmt, "init", copy)
RunInit     == Gate("init", InitStage, "validate", copy)
RunValidate == Gate("validate", Validate, "plan", copy)

\* Local mode records the plan as skipped and never runs it.
SkipPlan ==
  /\ pc = "plan"
  /\ mode = "local"
  /\ Return(Verdict("locally_validated", NoStage, SkipFrom(Plan, commands),
                    "none", "none", "in_scope", mode))

\* The plan has its own classification of failures (plan_diagnostics.py).
RunPlan ==
  /\ pc = "plan"
  /\ mode = "full"
  /\ \/ Return(Verdict("verified", NoStage, [commands EXCEPT ![Plan] = "passed"],
                       "none", "none", "in_scope", mode))
     \/ \E r \in CommandEnds \ {"passed"}, class \in PlanClasses \ {"none"} :
          Return(PlanVerdict(class, r, mode))

\* An exception out of a command: the with statement removes the copy, the
\* caller records VerifierRaised and the results so far are lost.
CommandRaises ==
  /\ pc \in {"copy", "patch_check", "patch_apply", "fmt", "init", "validate", "plan"}
  /\ pc = "plan" => mode = "full"
  /\ Return(VerifierRaised("in_scope", mode))

\* Mutation: the caller does not count its candidates.
NextCandidateUncounted ==
  /\ pc = "done"
  /\ candidate' = candidate + 1
  /\ pc' = "scope"
  /\ commands' = NothingRun
  /\ attempt' = NoAttempt
  /\ UNCHANGED <<mode, copy>>

\* The caller comes back with the next candidate of the same run.
NextCandidate ==
  /\ pc = "done"
  /\ candidate < MaxCandidates
  /\ candidate' = candidate + 1
  /\ pc' = "scope"
  /\ commands' = NothingRun
  /\ attempt' = NoAttempt
  /\ UNCHANGED <<mode, copy>>

Next == \/ CheckScope    \/ FindGit       \/ MakeCopy
        \/ RunPatchCheck \/ RunPatchApply \/ FindTerraform
        \/ RunFmt        \/ RunInit       \/ RunValidate
        \/ SkipPlan      \/ RunPlan       \/ CommandRaises
        \/ NextCandidate

\* Every gate ends: a command is killed at command_timeout_seconds.  Whether
\* there is another candidate is the caller's business.
Fairness == WF_vars(Next /\ pc # "done")

Spec == Init /\ [][Next]_vars /\ Fairness

-------------------------------------------------------------------------------
(* Properties.                                                             *)

Ran(s) == commands[s] \in CommandEnds

\* No command of the pipeline is started unless every command before it
\* passed: terraform never sees a copy the patch was not applied to, and
\* nothing reaches plan on code that does not validate.  A local verification
\* never starts plan, the one command that needs cloud credentials.
GatesInOrder ==
  /\ \A s \in Stages : Ran(s) => \A t \in Stages : t < s => commands[t] = "passed"
  /\ Ran(Fmt) => copy \in {"patched", "removed"}
  /\ mode = "local" => ~Ran(Plan)

\* The three places that decide what a patch may be used for read different
\* fields of the attempt (assessment.py the commands and the plan class,
\* diagnose.py the status, provenance.py a copy of all of them).  They must
\* agree on the answer: a patch is verified for one exactly when it is for
\* the others, and conditional for one exactly when it is for the other.  A
\* conditional one did not fail: its five local gates passed and the plan was
\* not run, or was stopped by the environment and by nothing the patch says.
AssessmentsAgree ==
  attempt # NoAttempt =>
    /\ ApplySafety(attempt) = "verified" <=>
         FinalStatus(attempt, 1) = "verified_first_attempt"
    /\ MutationEligibility(attempt, TRUE) = "verified" <=>
         ApplySafety(attempt) = "verified"
    /\ MutationEligibility(attempt, TRUE) = "conditional" <=>
         ApplySafety(attempt) = "conditionally_eligible"
    /\ ApplySafety(attempt) = "conditionally_eligible" =>
         /\ PrePlanPassed(attempt)
         /\ attempt.status \in {"locally_validated", "unavailable"}
         /\ mode = "full" => attempt.category = "environment"

\* What the caller sees is the contract it is written against: one answer per
\* candidate, out of VerdictsOf(mode), that stands until the next one is asked.
Contract == INSTANCE VerifierContract

ImplementsContract == Contract!Spec

\* No candidate leaves the verifier hanging: whatever the tools do, there is
\* an answer (verification.py bounds every command by a timeout).
EveryVerificationEnds == attempt = NoAttempt ~> attempt # NoAttempt
=============================================================================
