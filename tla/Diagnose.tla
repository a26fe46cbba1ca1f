------------------------------- MODULE Diagnose -------------------------------
(***************************************************************************)
(* One run of the agent (orchestration/diagnose.py, diagnose_repository,   *)
(* and its caller in cli.py): collect the evidence, look for a remembered  *)
(* candidate, otherwise call the model, verify its candidate, let the      *)
(* escalation policy decide about the one second call, verify again,       *)
(* remember a fully verified patch and write the result document.          *)
(*                                                                         *)
(* The verifier is the contract of VerifierContract: any of VerdictsOf.    *)
(* The memory of verified failures is seen from this one run: a lookup     *)
(* misses, hits or fails, a write stores, finds a duplicate or fails.      *)
(* Module FailureMemory has the store itself, shared by many runs.         *)
(***************************************************************************)
EXTENDS Escalation, Assessment, Sequences

CONSTANTS Configs,      \* the configurations a run may be started with
          NoDecision    \* the value of a decision that was not taken yet

\* The command line and what the collectors found out.  "memory": switched
\* off, switched on but the store could not be opened, or open.  "focus": no
\* context was built (legacy strategy), or one with no candidate resource, a
\* single one, or several.  "anchored": a clean checkout of a known commit.
Config == [context        : ContextModes,
           verify         : BOOLEAN,
           mode           : Modes,
           repairs        : BOOLEAN,
           memory         : {"off", "unopened", "open"},
           failureStage   : {NoStage, Fmt, InitStage, Validate, Plan},
           focus          : {"none", "empty", "single", "ambiguous"},
           schemaEligible : BOOLEAN,
           unresolved     : BOOLEAN,
           anchored       : BOOLEAN]

ASSUME ConfigsAreConfigurations == Configs \subseteq Config
ASSUME NoDecisionIsNoDecision == NoDecision \notin Decision

VARIABLES
  cfg,          \* the configuration of this run
  pc,           \* the next step of the pipeline
  memory,       \* what the result says of the failure memory
  schema,       \* whether provider schema was asked for, and came
  calls,        \* semantic model calls made
  answers,      \* model calls that answered
  candidate,    \* the candidate of the last answer
  attempts,     \* the verification attempts of the run
  decision,     \* what the escalation policy said
  second,       \* why there is a second call
  remembered,   \* the attempt whose patch was handed to the failure memory
  source,       \* where the reported patch comes from
  eligibility,  \* mutation eligibility of the reported patch
  exit,         \* how the process ended
  document      \* the result document on disk

answerVars == <<calls, answers, candidate>>
policyVars == <<decision, second>>
resultVars == <<remembered, source, eligibility, exit, document>>
vars == <<cfg, pc, memory, schema, answerVars, attempts, policyVars, resultVars>>

Steps == {"collect", "lookup", "reuse", "schema", "route", "call", "verify",
          "decide", "retrieve", "repair", "reverify", "store", "write", "end"}

MemoryStatuses == {"disabled", "ineligible", "read_error", "miss", "hit",
                   "hit_stale", "hit_verified", "hit_locally_validated",
                   "hit_environment_blocked", "write_error"}

\* A structured edit set that was built into a patch, a diff written by the
\* model, or an edit set the builder refused: repairable, or unsafe.
Candidates == {"none", "structured", "legacy", "malformed_edit", "unsafe_edit"}

TypeOK == /\ cfg \in Configs
          /\ pc \in Steps
          /\ memory \in MemoryStatuses
          /\ schema \in {"not_requested", "retrieved", "empty"}
          /\ calls \in 0..2
          /\ answers \in 0..2
          /\ candidate \in Candidates
          /\ attempts \in Seq(Attempt)
          /\ Len(attempts) <= 2
          /\ decision \in Decision \cup {NoDecision}
          /\ second \in {"none", "repair", "context_escalation"}
          /\ remembered \in Attempt \cup {NoAttempt}
          /\ source \in {"none", "verified_failure_memory", "llm"}
          /\ eligibility \in EligibilityLevels
          /\ exit \in {"running", "ok", "error", "crashed"}
          /\ document \in {"none", "ok", "error"}

Init == /\ cfg \in Configs
        /\ pc = "collect"
        /\ memory = "disabled"
        /\ schema = "not_requested"
        /\ calls = 0
        /\ answers = 0
        /\ candidate = "none"
        /\ attempts = <<>>
        /\ decision = NoDecision
        /\ second = "none"
        /\ remembered = NoAttempt
        /\ source = "none"
        /\ eligibility = "ineligible"
        /\ exit = "running"
        /\ document = "none"

-------------------------------------------------------------------------------
(* Helpers.                                                                *)

Final == attempts[Len(attempts)]

Request == [context        |-> cfg.context,
            repairs        |-> cfg.repairs,
            failureStage   |-> cfg.failureStage,
            schemaEligible |-> cfg.schemaEligible,
            ambiguous      |-> cfg.focus = "ambiguous",
            unresolved     |-> cfg.focus # "none" /\ cfg.unresolved]

\* FailureMemoryPolicy (cache/policy.py).
EligibleForLookup(verify) ==
  /\ verify
  /\ cfg.focus = "single"
  /\ cfg.failureStage \in {Validate, Plan}

\* Mutation: what may be reused may be remembered.
EligibleForStoreReusable(a, count) ==
  /\ EligibleForLookup(TRUE)
  /\ Outcome(a) \in {"fully_verified", "locally_validated", "environment_blocked"}

EligibleForStore(a, count) ==
  /\ EligibleForLookup(TRUE)
  /\ FinalStatus(a, count) \in {"verified_first_attempt", "verified_after_retry"}
  /\ Outcome(a) = "fully_verified"
  /\ a.patch # "empty"

ReusableOutcomes == {"fully_verified", "locally_validated", "environment_blocked"}

ReuseStatus(a) == CASE Outcome(a) = "fully_verified"      -> "hit_verified"
                    [] Outcome(a) = "locally_validated"   -> "hit_locally_validated"
                    [] Outcome(a) = "environment_blocked" -> "hit_environment_blocked"

\* The attempts a candidate can get.  A structured edit set was validated when
\* its patch was built, so the verifier does not refuse it again; one that
\* could not be built is rejected without a verification.
Verified(c) ==
  CASE c = "structured"     -> VerdictsOf(cfg.mode) \ RejectedVerdicts(cfg.mode)
    [] c = "legacy"         -> VerdictsOf(cfg.mode)
    [] c = "malformed_edit" -> {ConstructionRejected(TRUE, cfg.mode)}
    [] c = "unsafe_edit"    -> {ConstructionRejected(FALSE, cfg.mode)}

Skipped(c) == {SkippedVerification(p, cfg.mode) :
                 p \in IF c = "structured" THEN {"in_scope"} ELSE PatchScopes}

\* An error of the run reaches the caller, which replaces the result by an
\* error document; that write may fail too and then nothing is written.
Fail == /\ pc' = "end"
        /\ exit' = "error"
        /\ document' \in {"error", "none"}

-------------------------------------------------------------------------------
(* Evidence and the failure memory.                                        *)

\* Repository, provenance, diff, log and context; the cache is opened last.
Collect ==
  /\ pc = "collect"
  /\ \/ /\ pc' = "lookup"
        /\ memory' = CASE cfg.memory = "off"      -> "disabled"
                       [] cfg.memory = "unopened" -> "read_error"
                       [] cfg.memory = "open"     -> "ineligible"
        /\ UNCHANGED <<exit, document>>
     \/ Fail /\ UNCHANGED memory
  /\ UNCHANGED <<cfg, schema, answerVars, attempts, policyVars, remembered,
                 source, eligibility>>

Lookup ==
  /\ pc = "lookup"
  /\ IF cfg.memory = "open" /\ EligibleForLookup(cfg.verify)
     THEN \/ memory' \in {"miss", "read_error"} /\ pc' = "schema"
          \/ memory' = "hit" /\ pc' = "reuse"
     ELSE pc' = "schema" /\ UNCHANGED memory
  /\ UNCHANGED <<cfg, schema, answerVars, attempts, policyVars, resultVars>>

\* Mutation: a stale candidate is taken for the first attempt of the run.
ReuseRememberedAsFirst ==
  /\ pc = "reuse"
  /\ \E a \in VerdictsOf(cfg.mode) : attempts' = <<a>>
  /\ memory' = "hit_stale"
  /\ pc' = "decide"
  /\ UNCHANGED <<cfg, schema, answerVars, policyVars, resultVars>>

\* A remembered candidate is verified afresh.  Accepted, it ends the run
\* without a model; otherwise the run goes on as if there had been no hit.
ReuseRemembered ==
  /\ pc = "reuse"
  /\ \E a \in VerdictsOf(cfg.mode) :
       \/ /\ Outcome(a) \in ReusableOutcomes
          /\ attempts' = <<a>>
          /\ memory' = ReuseStatus(a)
          /\ source' = "verified_failure_memory"
          /\ pc' = "write"
       \/ /\ Outcome(a) \notin ReusableOutcomes
          /\ memory' = "hit_stale"
          /\ pc' = "schema"
          /\ UNCHANGED <<attempts, source>>
  /\ UNCHANGED <<cfg, schema, answerVars, policyVars, remembered, eligibility,
                 exit, document>>

-------------------------------------------------------------------------------
(* The first call.                                                         *)

\* Explicit schema mode asks for the provider schema before the first call.
InitialSchema ==
  /\ pc = "schema"
  /\ \/ /\ pc' = "route"
        /\ IF cfg.context = "schema_aware" THEN schema' \in {"retrieved", "empty"}
                                           ELSE UNCHANGED schema
        /\ UNCHANGED <<exit, document>>
     \/ /\ cfg.context = "schema_aware"
        /\ Fail
        /\ UNCHANGED schema
  /\ UNCHANGED <<cfg, memory, answerVars, attempts, policyVars, remembered, source,
                 eligibility>>

\* Model selection (module Routing) and construction of the provider.
RouteInitial ==
  /\ pc = "route"
  /\ \/ pc' = "call" /\ UNCHANGED <<exit, document>>
     \/ Fail
  /\ UNCHANGED <<cfg, memory, schema, answerVars, attempts, policyVars,
                 remembered, source, eligibility>>

\* A failed first call, an answer without a diagnosis, or a checkout that can
\* no longer be read while the patch is built: each is an error of the run.
\* An exception main does not catch (module OpenRouter, Break) ends the process
\* without a document.
CallDiagnose ==
  /\ pc = "call"
  /\ calls' = calls + 1
  /\ \/ /\ answers' = answers + 1
        /\ candidate' \in Candidates \ {"none"}
        /\ pc' = "verify"
        /\ UNCHANGED <<exit, document>>
     \/ /\ answers' \in {answers, answers + 1}
        /\ Fail
        /\ UNCHANGED candidate
     \/ /\ pc' = "end"
        /\ exit' = "crashed"
        /\ UNCHANGED <<answers, candidate, document>>
  /\ UNCHANGED <<cfg, memory, schema, attempts, policyVars, remembered, source,
                 eligibility>>

VerifyFirst ==
  /\ pc = "verify"
  /\ pc' = "decide"
  /\ \E a \in IF cfg.verify \/ candidate \in {"malformed_edit", "unsafe_edit"}
              THEN Verified(candidate) ELSE Skipped(candidate) :
       attempts' = <<a>>
  /\ UNCHANGED <<cfg, memory, schema, answerVars, policyVars, resultVars>>

-------------------------------------------------------------------------------
(* The decision and the second call.                                       *)

\* What the decision makes of the first attempt: a failure whose output turns
\* out to be the environment's is reported as unavailable.
Reclassified(a, d) ==
  IF a.status = "failed" /\ d.relation = "environment_failure"
  THEN [a EXCEPT !.status = "unavailable"] ELSE a

DecideNext ==
  /\ pc = "decide"
  /\ \E output \in SUBSET Phrases :
       LET d == DecisionFor(attempts[1], output, Request)
       IN /\ decision' = d
          /\ attempts' = <<Reclassified(attempts[1], d)>>
          /\ \/ d.action = "stop" /\ pc' = "store" /\ UNCHANGED second
             \/ d.action = "repair" /\ pc' = "repair" /\ second' = "repair"
             \/ d.action = "escalate" /\ pc' = "retrieve" /\ UNCHANGED second
  /\ UNCHANGED <<cfg, memory, schema, answerVars, resultVars>>

\* Mutation: without a schema the decision is taken again.
RetrieveSchemaRetrying ==
  /\ pc = "retrieve"
  /\ \/ schema' = "retrieved" /\ second' = "context_escalation" /\ pc' = "repair"
     \/ schema' = "empty" /\ pc' = "decide" /\ UNCHANGED second
  /\ UNCHANGED <<cfg, memory, answerVars, attempts, decision, resultVars>>

\* Escalation without a usable schema falls back to the source around the
\* diagnostic of a failed plan, if it has a location, or stops.  An error out of
\* the retrieval (module SchemaRetrieval, Inspect) is an error of the run.
RetrieveSchema ==
  /\ pc = "retrieve"
  /\ \/ /\ schema' = "retrieved"
        /\ second' = "context_escalation"
        /\ pc' = "repair"
        /\ UNCHANGED <<decision, exit, document>>
     \/ /\ schema' = "empty"
        /\ \E located \in BOOLEAN :
             /\ located => attempts[1].plan # "none"
             /\ IF located /\ decision.relation \in {"same_failure", "new_semantic_failure"}
                THEN /\ decision' = Decide("repair", "schema_unavailable_source_fallback",
                                           decision.relation)
                     /\ second' = "repair"
                     /\ pc' = "repair"
                ELSE /\ decision' = Decide("stop", "schema_unavailable", decision.relation)
                     /\ pc' = "store"
                     /\ UNCHANGED second
        /\ UNCHANGED <<exit, document>>
     \/ Fail /\ UNCHANGED <<schema, decision, second>>
  /\ UNCHANGED <<cfg, memory, answerVars, attempts, remembered, source, eligibility>>

\* A second call that raises is a warning and the first attempt stands.  An
\* answer whose edits cannot be built is a rejected candidate; any other error
\* out of the builder is caught with the errors of the call, although the
\* answer has been received by then.
CallRepair ==
  /\ pc = "repair"
  /\ calls' = calls + 1
  /\ \/ /\ pc' = "store"
        /\ UNCHANGED <<answers, candidate>>
     \/ /\ pc' = "reverify"
        /\ answers' = answers + 1
        /\ candidate' \in {"structured", "malformed_edit", "unsafe_edit", "none"}
  /\ UNCHANGED <<cfg, memory, schema, attempts, policyVars, resultVars>>

\* Mutation: a second candidate that fails is repaired again.
VerifySecondRepairing ==
  /\ pc = "reverify"
  /\ candidate # "none"
  /\ \E a \in Verified(candidate) :
       /\ attempts' = Append(attempts, a)
       /\ pc' = IF a.status = "failed" THEN "repair" ELSE "store"
  /\ UNCHANGED <<cfg, memory, schema, answerVars, policyVars, resultVars>>

\* Mutation: the second attempt replaces the first one.
VerifySecondReplacing ==
  /\ pc = "reverify"
  /\ candidate # "none"
  /\ \E a \in Verified(candidate) : attempts' = <<a>>
  /\ pc' = "store"
  /\ UNCHANGED <<cfg, memory, schema, answerVars, policyVars, resultVars>>

\* The second candidate is verified, also when verification is switched off.
VerifySecond ==
  /\ pc = "reverify"
  /\ candidate # "none"
  /\ \E a \in Verified(candidate) : attempts' = Append(attempts, a)
  /\ pc' = "store"
  /\ UNCHANGED <<cfg, memory, schema, answerVars, policyVars, resultVars>>

\* The assertion that a received answer has a candidate fails; no handler
\* catches an AssertionError, so no document is written.
SecondCandidateMissing ==
  /\ pc = "reverify"
  /\ candidate = "none"
  /\ pc' = "end"
  /\ exit' = "crashed"
  /\ UNCHANGED <<cfg, memory, schema, answerVars, attempts, policyVars,
                 remembered, source, eligibility, document>>

-------------------------------------------------------------------------------
(* The result.                                                             *)

\* Remember a fully verified patch, unless it carries something secret.
StoreMemory ==
  /\ pc = "store"
  /\ pc' = "write"
  /\ source' = "llm"
  /\ \/ /\ cfg.memory = "open"
        /\ EligibleForStore(Final, Len(attempts))
        /\ remembered' = Final
        /\ memory' \in {memory, "write_error"}
     \/ UNCHANGED <<memory, remembered>>
  /\ UNCHANGED <<cfg, schema, answerVars, attempts, policyVars, eligibility,
                 exit, document>>

\* The patch contract and the document; a failed write becomes an error.
WriteDocument ==
  /\ pc = "write"
  /\ eligibility' = MutationEligibility(Final, cfg.anchored)
  /\ \/ pc' = "end" /\ exit' = "ok" /\ document' = "ok"
     \/ Fail
  /\ UNCHANGED <<cfg, memory, schema, answerVars, attempts, policyVars,
                 remembered, source>>

Next == \/ Collect      \/ Lookup         \/ ReuseRemembered
        \/ InitialSchema \/ RouteInitial  \/ CallDiagnose
        \/ VerifyFirst  \/ DecideNext     \/ RetrieveSchema
        \/ CallRepair   \/ VerifySecond   \/ SecondCandidateMissing
        \/ StoreMemory  \/ WriteDocument

\* One process runs the pipeline and each step has a timeout of its own.
Fairness == WF_vars(Next)

Spec == Init /\ [][Next]_vars /\ Fairness

-------------------------------------------------------------------------------
(* Properties.                                                             *)

FirstFailed == /\ attempts[1].status = "failed"
               /\ attempts[1].failedStage \in {PatchCheck, Fmt, Validate, Plan}

FirstMalformed == /\ attempts[1].status = "rejected"
                  /\ attempts[1].category = "malformed"

\* The second model call is spent only when it can help: it is enabled, and
\* the first candidate was malformed or failed at a stage a new candidate can
\* pass.  An unusable environment, an unclassified plan failure, an unsafe
\* patch or a failed init never costs a call (README: "do not consume a
\* speculative repair call", "Unsafe candidates stop immediately").
SecondCallHasACause ==
  calls = 2 => /\ cfg.repairs
               /\ FirstMalformed \/ FirstFailed
               /\ attempts[1].category # "environment"
               /\ attempts[1].plan \notin {"environmental", "unknown"}

\* Provider schema is retrieved only in the explicit mode, or in auto mode
\* after a candidate failed at validate or plan for a reason the language does
\* not settle; the second call carries it exactly when it is an escalation,
\* and a repair keeps the context level of the first call.
SchemaOnlyForEvidence ==
  /\ schema # "not_requested" =>
       \/ cfg.context = "schema_aware"
       \/ /\ cfg.context = "auto"
          /\ cfg.schemaEligible
          /\ attempts[1].status = "failed"
          /\ attempts[1].failedStage \in {Validate, Plan}
          /\ attempts[1].plan # "assertion"
  /\ cfg.context # "schema_aware" =>
       (second = "context_escalation" <=> schema = "retrieved")

\* What enters the failure memory is the final patch of this run, verified by
\* all six gates in full mode, for a failure that can be looked up again.  A
\* local validation, a blocked plan or a reused patch is never remembered.
RememberedOnlyFullyVerified ==
  remembered # NoAttempt =>
    /\ remembered = Final
    /\ remembered.commands = AllPassed
    /\ remembered.status = "verified"
    /\ cfg.mode = "full"
    /\ cfg.focus = "single"
    /\ source = "llm"

\* The document claims no more than the attempts show: a verified patch went
\* through all six gates on a clean known commit, a conditional one through
\* five, and a success after a retry had a second call and a failed or
\* malformed first candidate behind it.
ResultMatchesEvidence ==
  document = "ok" =>
    /\ eligibility = "verified" => cfg.anchored /\ Final.commands = AllPassed
    /\ eligibility = "conditional" => cfg.anchored /\ PrePlanPassed(Final)
                                      /\ Final.status # "failed"
    /\ FinalStatus(Final, Len(attempts)) \in
         {"verified_after_retry", "locally_validated_after_retry"} =>
           calls = 2 /\ (FirstFailed \/ FirstMalformed)
    /\ FinalStatus(Final, Len(attempts)) = "verified_first_attempt" => calls <= 1

\* Every attempt of the document is accounted for: one per answer of a model,
\* or the single fresh verification of a remembered candidate with no call at
\* all.  A stale remembered candidate leaves no attempt behind and costs
\* nothing of the two-call budget.  With verification off nothing is run; only
\* the candidate that replaces one that could not be built is put through the
\* gates all the same.
AttemptsAreAccountedFor ==
  /\ source = "llm" => Len(attempts) = answers
  /\ source = "verified_failure_memory" =>
       Len(attempts) = 1 /\ calls = 0 /\ remembered = NoAttempt
  /\ memory = "hit_stale" => source # "verified_failure_memory"
  /\ answers <= calls
  /\ ~cfg.verify => /\ attempts # <<>> => attempts[1].commands = NothingRun
                    /\ Len(attempts) = 2 => FirstMalformed

\* Evidence is not rewritten.  An attempt, once recorded, stays what it was;
\* the one exception is the reclassification of a failure the environment
\* caused, and that always ends the run without another call.
EvidenceIsKept ==
  [][\A i \in 1..Len(attempts) :
       /\ i <= Len(attempts')
       /\ \/ attempts'[i] = attempts[i]
          \/ /\ attempts'[i] = [attempts[i] EXCEPT !.status = "unavailable"]
             /\ attempts[i].status = "failed"
             /\ pc' = "store" /\ calls = 1]_vars

\* Whatever the tools, the model and the disk do, the process ends.
EveryRunEnds == <>(pc = "end")

-------------------------------------------------------------------------------
(* A statement of the repository the code does not keep.                   *)

\* diagnose.py asserts, once the second answer is received, that it left a
\* candidate.
ReceivedAnswerHasCandidate == pc = "reverify" => candidate # "none"
=============================================================================
