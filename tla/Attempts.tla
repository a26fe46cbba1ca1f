------------------------------- MODULE Attempts -------------------------------
(***************************************************************************)
(* The verification attempt: what one isolated check of a candidate patch  *)
(* leaves behind (models.py, VerificationAttempt).  A stage of the         *)
(* pipeline is its position, so "an earlier stage" is "a smaller number".  *)
(* Text, timings and file lists are abstracted away; what later decisions  *)
(* read is kept: the status, the stage that failed, how each command       *)
(* ended, the failure category, the class of a failed plan and whether the *)
(* patch is inside the selected Terraform directory.                       *)
(***************************************************************************)
EXTENDS Naturals

CONSTANT NoAttempt   \* the value of an attempt that has not been recorded yet

NoStage    == 0
PatchCheck == 1
PatchApply == 2
Fmt        == 3
InitStage  == 4
Validate   == 5
Plan       == 6
Stages     == 1..6

Modes    == {"local", "full"}
Statuses == {"verified", "locally_validated", "failed", "rejected",
             "unavailable", "skipped"}

\* "none" is a command that was never reached, "error" one that timed out or
\* could not be started.
CommandStatuses == {"none", "passed", "failed", "error", "skipped"}

Categories == {"none", "malformed", "unsafe", "semantic", "environment",
               "unknown"}

\* The six environmental classes of a plan failure are one value here; a
\* semantic failure of a language-level assertion (precondition,
\* postcondition, check block) is told apart, because the policy is.
PlanClasses == {"none", "environmental", "semantic", "assertion", "unknown"}

PatchScopes == {"empty", "in_scope", "out_of_scope"}

Attempt == [status      : Statuses,
            failedStage : {NoStage} \cup Stages,
            commands    : [Stages -> CommandStatuses],
            category    : Categories,
            plan        : PlanClasses,
            patch       : PatchScopes,
            mode        : Modes]

ASSUME NoAttemptIsNoAttempt == NoAttempt \notin Attempt

-------------------------------------------------------------------------------
(* Building an attempt.                                                    *)

NothingRun == [s \in Stages |-> "none"]

\* The commands recorded when stage s ended with result r: every earlier one
\* passed, every later one is recorded as skipped.
RanUpTo(s, r) == [t \in Stages |-> IF t < s THEN "passed"
                                   ELSE IF t = s THEN r ELSE "skipped"]

AllPassed == [s \in Stages |-> "passed"]

Verdict(status, stage, commands, category, plan, patch, mode) ==
  [status |-> status, failedStage |-> stage, commands |-> commands,
   category |-> category, plan |-> plan, patch |-> patch, mode |-> mode]

\* The attempt recorded when the verifier itself raised: diagnose.py turns any
\* exception of the verifier into this value.
VerifierRaised(patch, mode) ==
  Verdict("unavailable", PatchCheck, NothingRun, "environment", "none",
          patch, mode)

\* Verification switched off by the caller.
SkippedVerification(patch, mode) ==
  Verdict("skipped", NoStage, NothingRun, "none", "none", patch, mode)

\* Structured edits that could not be turned into a patch at all: no command
\* ran and the patch is the empty string.
ConstructionRejected(repairable, mode) ==
  Verdict("rejected", PatchCheck, NothingRun,
          IF repairable THEN "malformed" ELSE "unsafe", "none", "empty", mode)

-------------------------------------------------------------------------------
(* The attempts the verifier can return.                                   *)

\* Patch-scope validation refused the candidate.
RejectedVerdicts(mode) ==
  {Verdict("rejected", PatchCheck, NothingRun, c, "none", "out_of_scope", mode) :
     c \in {"malformed", "unsafe", "unknown"}}

\* Failure category of a stage that ran and did not pass for a reason other
\* than the environment; init is the one stage whose failure stays unknown.
FailedCategory(s) == IF s = InitStage THEN "unknown" ELSE "semantic"

\* A tool is missing (git before the check, terraform before fmt), the
\* temporary copy could not be made, or a command could not do its work.
BlockedVerdicts(mode) ==
  {Verdict("unavailable", s, RanUpTo(s, "skipped"), "environment", "none",
           "in_scope", mode) : s \in {PatchCheck, Fmt}}
  \cup {VerifierRaised("in_scope", mode)}
  \cup {Verdict("unavailable", s, RanUpTo(s, r), "environment", "none",
                "in_scope", mode) : s \in Stages \ {Plan}, r \in {"failed", "error"}}

FailedVerdicts(mode) ==
  {Verdict("failed", s, RanUpTo(s, "failed"), FailedCategory(s), "none",
           "in_scope", mode) : s \in Stages \ {Plan}}

\* A plan that did not pass is classified by what it printed, also when it
\* timed out: a timeout with no diagnostic is "unknown", not environmental.
PlanVerdict(class, r, mode) ==
  Verdict(IF class = "environmental" THEN "unavailable" ELSE "failed",
          Plan, RanUpTo(Plan, r),
          CASE class = "environmental"             -> "environment"
            [] class \in {"semantic", "assertion"} -> "semantic"
            [] OTHER                               -> "unknown",
          class, "in_scope", mode)

PassedVerdict(mode) ==
  IF mode = "local"
  THEN Verdict("locally_validated", NoStage, RanUpTo(Plan, "skipped"), "none",
               "none", "in_scope", mode)
  ELSE Verdict("verified", NoStage, AllPassed, "none", "none", "in_scope", mode)

\* Everything one call of the verifier can return in the given mode.  Module
\* Verification shows that the staged pipeline returns nothing else.
VerdictsOf(mode) ==
  RejectedVerdicts(mode) \cup BlockedVerdicts(mode) \cup FailedVerdicts(mode)
  \cup {PassedVerdict(mode)}
  \cup (IF mode = "full"
        THEN {PlanVerdict(c, r, mode) :
                c \in PlanClasses \ {"none"}, r \in {"failed", "error"}}
        ELSE {})
=============================================================================
