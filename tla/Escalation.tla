------------------------------ MODULE Escalation ------------------------------
(***************************************************************************)
(* The escalation policy (context/escalation.py): after the first attempt, *)
(* decide without any I/O whether the run stops, repairs the candidate at  *)
(* the same context level, or escalates from the minimal context to the    *)
(* provider schema.  A decision reads the attempt, how the output of the   *)
(* failed command relates to the original failure, and four facts about    *)
(* the request.  The output itself is abstracted to the set of phrase      *)
(* families found in it.                                                   *)
(***************************************************************************)
EXTENDS Attempts

ContextModes == {"auto", "lightweight", "schema_aware"}

\* Phrase families of the output of the failed command.  "same" stands for
\* enough words in common with the original failure.
Phrases == {"environment", "syntax", "same", "semantic"}

Relations == {"environment_failure", "same_failure", "new_semantic_failure",
              "new_syntactic_failure", "unknown"}

\* What a request says besides its attempt: the requested context mode,
\* whether a second attempt is enabled, the stage of the original failure,
\* whether a resource type is known (schema_eligible), whether the minimal
\* context holds several candidate resources, and whether a failure-relevant
\* attribute depends on a symbol the context could not resolve.
Requests == [context        : ContextModes,
             repairs        : BOOLEAN,
             failureStage   : {NoStage, Fmt, InitStage, Validate, Plan},
             schemaEligible : BOOLEAN,
             ambiguous      : BOOLEAN,
             unresolved     : BOOLEAN]

\* The failure log of a run names an apply or an unrecognised stage as NoStage
\* here: no candidate can fail there.

-------------------------------------------------------------------------------
(* classify_verification_error                                             *)

PlanIsSemantic(a) == a.plan \in {"semantic", "assertion"}

\* Only a failure at the stage of the original failure can be the same one.
SameFailure(a, output, stage) == "same" \in output /\ a.failedStage = stage

Relation(a, output, stage) ==
  IF a.status = "unavailable" \/ a.category = "environment"
    THEN "environment_failure"
  ELSE IF PlanIsSemantic(a)
    THEN IF SameFailure(a, output, stage) THEN "same_failure"
                                          ELSE "new_semantic_failure"
  ELSE IF a.plan = "unknown"              THEN "unknown"
  ELSE IF "environment" \in output        THEN "environment_failure"
  ELSE IF "syntax" \in output             THEN "new_syntactic_failure"
  ELSE IF SameFailure(a, output, stage)   THEN "same_failure"
  ELSE IF "semantic" \in output           THEN "new_semantic_failure"
  ELSE "unknown"

-------------------------------------------------------------------------------
(* ContextEscalationPolicy.decide                                          *)

Actions == {"stop", "repair", "escalate"}

Codes == {"verification_passed", "verification_skipped", "malformed_patch",
          "second_attempt_disabled", "unsafe_patch", "environment_unavailable",
          "no_actionable_failure", "formatting_failure", "explicit_mode_repair",
          "patch_apply_failure", "patch_check_failure",
          "syntactic_patch_failure", "terraform_language_semantic_failure",
          "provider_constraint_unresolved", "verification_semantic_failure",
          "ambiguous_resource", "unresolved_supporting_symbol",
          "insufficient_evidence", "schema_unavailable_source_fallback",
          "schema_unavailable"}

Decision == [action : Actions, code : Codes, relation : Relations]

Decide(action, code, relation) ==
  [action |-> action, code |-> code, relation |-> relation]

Actionable(a) ==
  a.status = "failed" /\ a.failedStage \in {PatchCheck, Fmt, Validate, Plan}

\* Mutation: the relation to the environment is not looked at.
SettledFirstByStatus(a, relation) ==
  \/ a.status \in {"verified", "locally_validated", "skipped", "rejected",
                   "unavailable"}
  \/ a.failedStage = Plan /\ a.plan = "unknown"

\* Reasons to stop that hold in every context mode, and the one repair that
\* comes before them: a candidate that is malformed but in scope.
SettledFirst(a, relation) ==
  \/ a.status \in {"verified", "locally_validated", "skipped", "rejected",
                   "unavailable"}
  \/ relation = "environment_failure"
  \/ a.failedStage = Plan /\ a.plan = "unknown"

SettledDecision(a, relation, req) ==
  IF a.status \in {"verified", "locally_validated"}
    THEN Decide("stop", "verification_passed", relation)
  ELSE IF a.status = "skipped"
    THEN Decide("stop", "verification_skipped", relation)
  ELSE IF a.status = "rejected" /\ a.category = "malformed"
    THEN IF req.repairs THEN Decide("repair", "malformed_patch", relation)
                        ELSE Decide("stop", "second_attempt_disabled", relation)
  ELSE IF a.status = "rejected"
    THEN Decide("stop", "unsafe_patch", relation)
  ELSE IF a.status = "unavailable" \/ relation = "environment_failure"
    THEN Decide("stop", "environment_unavailable", relation)
  ELSE Decide("stop", "no_actionable_failure", relation)

\* An explicit context mode keeps its level: one repair, or nothing.
ExplicitDecision(a, relation) ==
  IF Actionable(a)
    THEN Decide("repair", IF a.failedStage = Fmt THEN "formatting_failure"
                                                 ELSE "explicit_mode_repair", relation)
    ELSE Decide("stop", IF a.failedStage = PatchApply THEN "patch_apply_failure"
                                                      ELSE "no_actionable_failure", relation)

\* Mutation: asked for also when no resource type is known.
EscalationReasonUntyped(a, relation, req) ==
  IF relation \in {"same_failure", "new_semantic_failure"}
  THEN "verification_semantic_failure" ELSE "none"

\* Why the provider schema would help; "none" when nothing says it would.
EscalationReason(a, relation, req) ==
  IF a.failedStage \notin {Validate, Plan} \/ ~req.schemaEligible THEN "none"
  ELSE IF relation = "same_failure"         THEN "provider_constraint_unresolved"
  ELSE IF relation = "new_semantic_failure" THEN "verification_semantic_failure"
  ELSE IF req.ambiguous                     THEN "ambiguous_resource"
  ELSE IF req.unresolved                    THEN "unresolved_supporting_symbol"
  ELSE "none"

AutoDecision(a, relation, req) ==
  CASE a.failedStage = PatchCheck -> Decide("repair", "patch_check_failure", relation)
    [] a.failedStage = PatchApply -> Decide("stop", "patch_apply_failure", relation)
    [] a.failedStage = Fmt        -> Decide("repair", "formatting_failure", relation)
    [] a.failedStage = InitStage  -> Decide("stop", "environment_unavailable", relation)
    [] OTHER ->
         IF relation = "new_syntactic_failure"
           THEN Decide("repair", "syntactic_patch_failure", relation)
         ELSE IF a.failedStage = Plan /\ a.plan = "assertion"
           THEN Decide("repair", "terraform_language_semantic_failure", relation)
         ELSE IF EscalationReason(a, relation, req) # "none"
           THEN Decide("escalate", EscalationReason(a, relation, req), relation)
         ELSE IF Actionable(a)
           THEN Decide("repair", "insufficient_evidence", relation)
         ELSE Decide("stop", "no_actionable_failure", relation)

DecisionFor(a, output, req) ==
  LET relation == Relation(a, output, req.failureStage)
  IN IF SettledFirst(a, relation)   THEN SettledDecision(a, relation, req)
     ELSE IF ~req.repairs           THEN Decide("stop", "second_attempt_disabled", relation)
     ELSE IF req.context # "auto"   THEN ExplicitDecision(a, relation)
     ELSE AutoDecision(a, relation, req)
=============================================================================
