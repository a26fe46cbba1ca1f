------------------------------ MODULE Assessment ------------------------------
(***************************************************************************)
(* What a finished attempt is worth: the deterministic verification        *)
(* outcome and apply-safety level (assessment.py), the final status of a   *)
(* run (diagnose.py, _final_status) and the mutation eligibility of the    *)
(* final patch (provenance.py).  The three are computed by different code  *)
(* from the same attempt and must agree; module Verification checks that.  *)
(***************************************************************************)
EXTENDS Attempts

Passed(a, s)      == a.commands[s] = "passed"
PrePlanPassed(a)  == \A s \in Stages \ {Plan} : Passed(a, s)
PlanRequested(a)  == a.mode = "full"
PlanAttempted(a)  == a.commands[Plan] \notin {"none", "skipped"}
PlanPassed(a)     == PlanRequested(a) /\ Passed(a, Plan)

LocallyValidated(a) ==
  /\ a.mode = "local"
  /\ ~PlanAttempted(a)
  /\ a.status = "locally_validated"
  /\ PrePlanPassed(a)

FullyVerified(a) ==
  /\ PlanRequested(a)
  /\ a.status = "verified"
  /\ PrePlanPassed(a)
  /\ PlanPassed(a)

Outcomes == {"fully_verified", "locally_validated", "environment_blocked",
             "semantic_failure", "patch_invalid", "unknown_failure"}

PlanOutcome(class) ==
  CASE class = "environmental"             -> "environment_blocked"
    [] class \in {"semantic", "assertion"} -> "semantic_failure"
    [] OTHER                               -> "unknown_failure"

\* A patch-side stage makes the patch invalid before the status is looked at:
\* a missing git or terraform executable therefore also ends here.
Outcome(a) ==
  IF FullyVerified(a) THEN "fully_verified"
  ELSE IF LocallyValidated(a) THEN "locally_validated"
  ELSE IF a.plan # "none" THEN PlanOutcome(a.plan)
  ELSE IF a.status = "rejected" \/ a.failedStage \in {PatchCheck, PatchApply, Fmt}
       THEN "patch_invalid"
  ELSE IF a.status = "unavailable" THEN "environment_blocked"
  ELSE IF a.failedStage = Validate THEN "semantic_failure"
  ELSE "unknown_failure"

ApplySafety(a) ==
  IF FullyVerified(a) THEN "verified"
  ELSE IF \/ LocallyValidated(a)
          \/ /\ Outcome(a) = "environment_blocked"
             /\ a.plan = "environmental"
             /\ PrePlanPassed(a)
             /\ PlanAttempted(a)
             /\ ~PlanPassed(a)
       THEN "conditionally_eligible"
  ELSE "ineligible"

-------------------------------------------------------------------------------

FinalStatuses == {"verified_first_attempt", "verified_after_retry",
                  "locally_validated_first_attempt",
                  "locally_validated_after_retry", "patch_rejected",
                  "verification_unavailable", "verification_skipped",
                  "verification_failed"}

FinalStatus(a, attemptCount) ==
  CASE a.status = "verified" ->
         IF attemptCount = 1 THEN "verified_first_attempt" ELSE "verified_after_retry"
    [] a.status = "locally_validated" ->
         IF attemptCount = 1 THEN "locally_validated_first_attempt"
                             ELSE "locally_validated_after_retry"
    [] a.status = "rejected"    -> "patch_rejected"
    [] a.status = "unavailable" -> "verification_unavailable"
    [] a.status = "skipped"     -> "verification_skipped"
    [] a.status = "failed"      -> "verification_failed"

-------------------------------------------------------------------------------
(* Mutation eligibility of the final patch, from the provenance copied out *)
(* of the attempt.  "anchored" is a clean checkout of a known commit.      *)

VerificationComplete(a) ==
  /\ a.status \in {"verified", "locally_validated"}
  /\ PrePlanPassed(a)
  /\ PlanPassed(a)

ConditionalVerificationComplete(a) ==
  /\ a.plan = "environmental"
  /\ Outcome(a) = "environment_blocked"
  /\ PrePlanPassed(a)
  /\ PlanAttempted(a)
  /\ ~PlanPassed(a)

\* Mutation: the plan a local verification never runs is required of it.
LocalVerificationCompleteWithPlan(a) ==
  /\ Outcome(a) = "locally_validated"
  /\ PlanAttempted(a)
  /\ PrePlanPassed(a)

LocalVerificationComplete(a) ==
  /\ Outcome(a) = "locally_validated"
  /\ a.mode = "local"
  /\ ~PlanAttempted(a)
  /\ a.status \in {"verified", "locally_validated"}
  /\ PrePlanPassed(a)

VerificationPassed(a) == a.status \in {"verified", "locally_validated"}

EligibilityLevels == {"verified", "conditional", "ineligible"}

\* Mutation: the checkout is not asked for.
MutationEligibilityAnywhere(a, anchored) ==
  IF a.patch = "in_scope" /\ Outcome(a) = "fully_verified" THEN "verified"
                                                           ELSE "ineligible"

MutationEligibility(a, anchored) ==
  IF a.patch # "in_scope" \/ ~anchored THEN "ineligible"
  ELSE IF /\ Outcome(a) = "fully_verified"
          /\ VerificationPassed(a)
          /\ VerificationComplete(a)
       THEN "verified"
  ELSE IF \/ /\ Outcome(a) = "environment_blocked"
             /\ ConditionalVerificationComplete(a)
          \/ /\ Outcome(a) = "locally_validated"
             /\ LocalVerificationComplete(a)
       THEN "conditional"
  ELSE "ineligible"
=============================================================================
