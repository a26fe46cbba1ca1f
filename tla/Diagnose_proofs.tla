---------------------------- MODULE Diagnose_proofs ----------------------------
(***************************************************************************)
(* What one run of the agent guarantees in every configuration, whatever   *)
(* the model, the tools and the memory answer: what a second call and a    *)
(* schema need, what is remembered, and what the document may claim.       *)
(***************************************************************************)
EXTENDS Diagnose, SequenceTheorems, TLAPS

-------------------------------------------------------------------------------
(* Attempts.                                                               *)

\* What the later decisions rely on in an attempt, wherever it comes from.
Coherent(a) ==
  /\ a \in Attempt
  /\ a.plan # "none" => a.failedStage = Plan /\ a.status \in {"failed", "unavailable"}
  /\ a.plan = "environmental" => a.status = "unavailable"
  /\ a.status = "failed" => a.failedStage \in Stages /\ a.commands # NothingRun
  /\ a.status = "verified" => a.commands = AllPassed /\ a.mode = "full"

LEMMA VerdictIsCoherent ==
  ASSUME NEW st \in Statuses, NEW s \in {NoStage} \cup Stages,
         NEW c \in [Stages -> CommandStatuses], NEW k \in Categories,
         NEW p \in PlanClasses, NEW x \in PatchScopes, NEW m \in Modes,
         p # "none" => s = Plan /\ st \in {"failed", "unavailable"},
         p = "environmental" => st = "unavailable",
         st = "failed" => s \in Stages /\ c # NothingRun,
         st = "verified" => c = AllPassed /\ m = "full"
  PROVE  /\ Coherent(Verdict(st, s, c, k, p, x, m))
         /\ Verdict(st, s, c, k, p, x, m).commands = c
BY DEF Verdict, Attempt, Coherent

\* The values the verdicts are made of.
LEMMA Members ==
  /\ {"rejected", "unavailable", "failed", "locally_validated", "verified", "skipped"}
       \subseteq Statuses
  /\ {"none", "malformed", "unsafe", "unknown", "environment", "semantic"} \subseteq Categories
  /\ "none" \in PlanClasses
  /\ {"empty", "in_scope", "out_of_scope"} \subseteq PatchScopes
  /\ {"failed", "error", "skipped"} \subseteq CommandStatuses
BY DEF Statuses, Categories, PlanClasses, PatchScopes, CommandStatuses

LEMMA CommandsType ==
  /\ NothingRun \in [Stages -> CommandStatuses] /\ AllPassed \in [Stages -> CommandStatuses]
  /\ \A s \in Stages, r \in CommandStatuses :
       /\ RanUpTo(s, r) \in [Stages -> CommandStatuses]
       /\ r # "none" => RanUpTo(s, r) # NothingRun
<1>1. NothingRun \in [Stages -> CommandStatuses] /\ AllPassed \in [Stages -> CommandStatuses]
  BY DEF NothingRun, AllPassed, CommandStatuses
<1>2. ASSUME NEW s \in Stages, NEW r \in CommandStatuses
      PROVE  /\ RanUpTo(s, r) \in [Stages -> CommandStatuses]
             /\ r # "none" => RanUpTo(s, r) # NothingRun
  <2>1. RanUpTo(s, r) \in [Stages -> CommandStatuses]
    BY DEF RanUpTo, CommandStatuses
  <2>2. RanUpTo(s, r)[s] = r /\ NothingRun[s] = "none"
    BY DEF RanUpTo, NothingRun, Stages
  <2> QED BY <2>1, <2>2
<1> QED BY <1>1, <1>2

LEMMA StageNumbers ==
  /\ PatchCheck \in Stages /\ PatchApply \in Stages /\ Fmt \in Stages /\ InitStage \in Stages
  /\ Validate \in Stages /\ Plan \in Stages
BY DEF PatchCheck, PatchApply, Fmt, InitStage, Validate, Plan, Stages

LEMMA VerdictsAreCoherent ==
  ASSUME NEW m \in Modes, NEW a \in VerdictsOf(m)
  PROVE  Coherent(a)
<1>1. CASE a \in RejectedVerdicts(m)
  <2>1. PICK c \in {"malformed", "unsafe", "unknown"} :
          a = Verdict("rejected", PatchCheck, NothingRun, c, "none", "out_of_scope", m)
    BY <1>1 DEF RejectedVerdicts
  <2>2. c \in Categories
    BY Members
  <2> QED BY <2>1, <2>2, Members, VerdictIsCoherent,
            StageNumbers, CommandsType
<1>2. CASE a \in BlockedVerdicts(m)
  <2>1. PICK s \in Stages, c \in [Stages -> CommandStatuses] :
          a = Verdict("unavailable", s, c, "environment", "none", "in_scope", m)
    <3>1. CASE a = VerifierRaised("in_scope", m)
      BY <3>1, StageNumbers, CommandsType DEF VerifierRaised
    <3>2. CASE \E s \in Stages, r \in {"failed", "error", "skipped"} :
                 a = Verdict("unavailable", s, RanUpTo(s, r), "environment", "none",
                             "in_scope", m)
      <4>1. PICK s \in Stages, r \in {"failed", "error", "skipped"} :
              a = Verdict("unavailable", s, RanUpTo(s, r), "environment", "none", "in_scope", m)
        BY <3>2
      <4>2. r \in CommandStatuses
        BY <4>1, Members
      <4>3. RanUpTo(s, r) \in [Stages -> CommandStatuses]
        BY <4>2, CommandsType
      <4> QED BY <4>1, <4>3
    <3>3. CASE \E s \in {PatchCheck, Fmt} :
                 a = Verdict("unavailable", s, RanUpTo(s, "skipped"), "environment", "none",
                             "in_scope", m)
      BY <3>2, <3>3, StageNumbers
    <3>4. CASE \E s \in Stages \ {Plan}, r \in {"failed", "error"} :
                 a = Verdict("unavailable", s, RanUpTo(s, r), "environment", "none",
                             "in_scope", m)
      BY <3>2, <3>4
    <3> QED BY <1>2, <3>1, <3>3, <3>4 DEF BlockedVerdicts
  <2> QED BY <2>1, Members, VerdictIsCoherent,
            StageNumbers, CommandsType
<1>3. CASE a \in FailedVerdicts(m)
  <2>1. PICK s \in Stages \ {Plan} :
          a = Verdict("failed", s, RanUpTo(s, "failed"), FailedCategory(s), "none", "in_scope", m)
    BY <1>3 DEF FailedVerdicts
  <2>2. FailedCategory(s) \in Categories /\ "failed" \in CommandStatuses
    BY Members DEF FailedCategory
  <2>3. RanUpTo(s, "failed") \in [Stages -> CommandStatuses] /\ RanUpTo(s, "failed") # NothingRun
    BY <2>2, CommandsType
  <2> QED BY <2>1, <2>2, <2>3, Members, VerdictIsCoherent,
            StageNumbers, CommandsType
<1>4. CASE a = PassedVerdict(m)
  <2>1. CASE m = "local"
    <3>1. RanUpTo(Plan, "skipped") \in [Stages -> CommandStatuses]
      BY Members, StageNumbers, CommandsType
    <3>2. a = Verdict("locally_validated", NoStage, RanUpTo(Plan, "skipped"), "none", "none",
                      "in_scope", m)
      BY <1>4, <2>1 DEF PassedVerdict
    <3> QED BY <3>1, <3>2, Members, VerdictIsCoherent,
            StageNumbers, CommandsType
  <2>2. CASE m # "local"
    <3>1. a = Verdict("verified", NoStage, AllPassed, "none", "none", "in_scope", m) /\ m = "full"
      BY <1>4, <2>2 DEF PassedVerdict, Modes
    <3> QED BY <3>1, Members, VerdictIsCoherent,
            StageNumbers, CommandsType
  <2> QED BY <2>1, <2>2
<1>5. CASE \E c \in PlanClasses \ {"none"}, r \in {"failed", "error"} : a = PlanVerdict(c, r, m)
  <2>1. PICK c \in PlanClasses \ {"none"}, r \in {"failed", "error"} : a = PlanVerdict(c, r, m)
    BY <1>5
  <2> DEFINE st == IF c = "environmental" THEN "unavailable" ELSE "failed"
             k == CASE c = "environmental"             -> "environment"
                    [] c \in {"semantic", "assertion"} -> "semantic"
                    [] OTHER                           -> "unknown"
  <2>2. a = Verdict(st, Plan, RanUpTo(Plan, r), k, c, "in_scope", m)
    BY <2>1 DEF PlanVerdict
  <2>3. st \in Statuses /\ k \in Categories /\ r \in CommandStatuses
    BY <2>1, Members, StageNumbers
  <2>4. RanUpTo(Plan, r) \in [Stages -> CommandStatuses] /\ RanUpTo(Plan, r) # NothingRun
    BY <2>1, <2>3, StageNumbers, CommandsType
  <2>5. /\ st \in {"failed", "unavailable"} /\ st # "verified"
        /\ c = "environmental" => st = "unavailable"
    OBVIOUS
  <2> HIDE DEF st, k
  <2>6. Plan \in {NoStage} \cup Stages /\ c \in PlanClasses /\ "in_scope" \in PatchScopes
    BY <2>1, Members, StageNumbers
  <2> QED BY <2>2, <2>3, <2>4, <2>5, <2>6, VerdictIsCoherent,
            StageNumbers, CommandsType
<1> QED BY <1>1, <1>2, <1>3, <1>4, <1>5 DEF VerdictsOf

LEMMA UnverifiedIsCoherent ==
  ASSUME NEW m \in Modes
  PROVE  /\ \A k \in {"malformed", "unsafe"} :
              Coherent(Verdict("rejected", PatchCheck, NothingRun, k, "none", "empty", m))
         /\ \A p \in PatchScopes :
              Coherent(Verdict("skipped", NoStage, NothingRun, "none", "none", p, m))
<1>1. NothingRun \in [Stages -> CommandStatuses] /\ PatchCheck \in {NoStage} \cup Stages
      /\ NoStage \in {NoStage} \cup Stages
  BY CommandsType, StageNumbers
<1>2. ASSUME NEW k \in {"malformed", "unsafe"}
      PROVE  Coherent(Verdict("rejected", PatchCheck, NothingRun, k, "none", "empty", m))
  <2>1. k \in Categories
    BY Members
  <2> QED BY <1>1, <2>1, Members, VerdictIsCoherent
<1>3. ASSUME NEW p \in PatchScopes
      PROVE  Coherent(Verdict("skipped", NoStage, NothingRun, "none", "none", p, m))
  BY <1>1, Members, VerdictIsCoherent
<1> QED BY <1>2, <1>3

LEMMA VerdictsKeepTheMode ==
  ASSUME NEW m \in Modes, NEW a \in VerdictsOf(m)
  PROVE  a.mode = m
BY DEF VerdictsOf, RejectedVerdicts, BlockedVerdicts, FailedVerdicts, PassedVerdict, PlanVerdict,
       VerifierRaised, Verdict

\* An attempt of a candidate: by the verifier, or of one that was not built.
LEMMA VerifiedIsCoherent ==
  ASSUME TypeOK, NEW c \in Candidates \ {"none"}, NEW a \in Verified(c)
  PROVE  /\ Coherent(a) /\ a.mode = cfg.mode
         /\ c \in {"malformed_edit", "unsafe_edit"} => a.commands = NothingRun
<1>1. cfg.mode \in Modes
  BY ConfigsAreConfigurations DEF TypeOK, Config
<1>2. CASE c \in {"structured", "legacy"}
  <2>1. a \in VerdictsOf(cfg.mode)
    BY <1>2 DEF Verified
  <2> QED BY <1>1, <1>2, <2>1, VerdictsAreCoherent, VerdictsKeepTheMode
<1>3. CASE c \in {"malformed_edit", "unsafe_edit"}
  <2>1. PICK k \in {"malformed", "unsafe"} :
          a = Verdict("rejected", PatchCheck, NothingRun, k, "none", "empty", cfg.mode)
    BY <1>3 DEF Verified, ConstructionRejected
  <2>2. Coherent(a)
    BY <1>1, <2>1, UnverifiedIsCoherent
  <2> QED BY <2>1, <2>2 DEF Verdict
<1> QED BY <1>2, <1>3 DEF Candidates

LEMMA SkippedIsCoherent ==
  ASSUME TypeOK, NEW c, NEW a \in Skipped(c)
  PROVE  Coherent(a) /\ a.mode = cfg.mode /\ a.commands = NothingRun
<1>1. cfg.mode \in Modes
  BY ConfigsAreConfigurations DEF TypeOK, Config
<1>2. PICK p \in PatchScopes :
        a = Verdict("skipped", NoStage, NothingRun, "none", "none", p, cfg.mode)
  BY DEF Skipped, SkippedVerification, PatchScopes
<1>3. Coherent(a)
  BY <1>1, <1>2, UnverifiedIsCoherent
<1> QED BY <1>2, <1>3 DEF Verdict

LEMMA ReclassifiedIsCoherent ==
  ASSUME NEW a, Coherent(a), NEW d
  PROVE  /\ Coherent(Reclassified(a, d)) /\ Reclassified(a, d).commands = a.commands
         /\ Reclassified(a, d).mode = a.mode
         /\ \/ Reclassified(a, d) = a
            \/ /\ a.status = "failed" /\ d.relation = "environment_failure"
               /\ Reclassified(a, d) = [a EXCEPT !.status = "unavailable"]
<1>1. CASE a.status = "failed" /\ d.relation = "environment_failure"
  <2>1. Reclassified(a, d) = [a EXCEPT !.status = "unavailable"]
    BY <1>1 DEF Reclassified
  <2>2. /\ [a EXCEPT !.status = "unavailable"] \in Attempt
        /\ [a EXCEPT !.status = "unavailable"].status = "unavailable"
        /\ [a EXCEPT !.status = "unavailable"].commands = a.commands
        /\ [a EXCEPT !.status = "unavailable"].mode = a.mode
        /\ [a EXCEPT !.status = "unavailable"].plan = a.plan
        /\ [a EXCEPT !.status = "unavailable"].failedStage = a.failedStage
    BY DEF Coherent, Attempt, Statuses
  <2> QED BY <1>1, <2>1, <2>2 DEF Coherent
<1>2. CASE ~(a.status = "failed" /\ d.relation = "environment_failure")
  BY <1>2 DEF Reclassified
<1> QED BY <1>1, <1>2

-------------------------------------------------------------------------------
(* The decision.                                                           *)

\* What makes a second call worthwhile.
Cause(a) == /\ \/ a.status = "failed" /\ a.failedStage \in {PatchCheck, Fmt, Validate, Plan}
               \/ a.status = "rejected" /\ a.category = "malformed"
            /\ a.category # "environment"
            /\ a.plan \notin {"environmental", "unknown"}

\* What makes provider schema worthwhile in auto mode.
SchemaCause(a) == /\ a.status = "failed"
                  /\ a.failedStage \in {Validate, Plan}
                  /\ a.plan # "assertion"

LEMMA RelationType == \A a, output, stage : Relation(a, output, stage) \in Relations
BY DEF Relation, Relations

LEMMA DecideType ==
  ASSUME NEW action \in Actions, NEW code \in Codes, NEW relation \in Relations
  PROVE  /\ Decide(action, code, relation) \in Decision
         /\ Decide(action, code, relation).action = action
         /\ Decide(action, code, relation).relation = relation
BY DEF Decide, Decision

LEMMA Decisions ==
  ASSUME NEW a, Coherent(a), NEW output, NEW req \in Requests
  PROVE  LET d == DecisionFor(a, output, req)
         IN /\ d \in Decision
            /\ d.action # "stop" => req.repairs /\ Cause(a)
            /\ d.action = "escalate" =>
                 req.context = "auto" /\ req.schemaEligible /\ SchemaCause(a)
            /\ a.status = "failed" /\ d.relation = "environment_failure" => d.action = "stop"
<1> DEFINE d == DecisionFor(a, output, req)
           rel == Relation(a, output, req.failureStage)
<1>1. rel \in Relations
  BY RelationType
<1>2. rel # "environment_failure" => a.status # "unavailable" /\ a.category # "environment"
  BY DEF Relation
<1>3. a.status \in Statuses /\ a.failedStage \in {NoStage} \cup Stages
  BY DEF Coherent, Attempt
<1> HIDE DEF rel
<1>4. CASE SettledFirst(a, rel)
  <2>1. d = SettledDecision(a, rel, req)
    BY <1>4 DEF DecisionFor, rel
  <2>2. \/ \E code \in Codes : d = Decide("stop", code, rel)
        \/ /\ d = Decide("repair", "malformed_patch", rel)
           /\ a.status = "rejected" /\ a.category = "malformed" /\ req.repairs
    BY <2>1 DEF SettledDecision, Codes
  <2>3. CASE \E code \in Codes : d = Decide("stop", code, rel)
    <3>1. PICK code \in Codes : d = Decide("stop", code, rel)
      BY <2>3
    <3>2. d \in Decision /\ d.action = "stop"
      BY <1>1, <3>1, DecideType DEF Actions
    <3> QED BY <3>2
  <2>4. CASE /\ d = Decide("repair", "malformed_patch", rel)
             /\ a.status = "rejected" /\ a.category = "malformed" /\ req.repairs
    <3>1. d \in Decision /\ d.action = "repair"
      BY <1>1, <2>4, DecideType DEF Actions, Codes
    <3>2. Cause(a)
      BY <2>4 DEF Cause, Coherent
    <3> QED BY <2>4, <3>1, <3>2
  <2> QED BY <2>2, <2>3, <2>4
<1>5. CASE ~SettledFirst(a, rel)
  <2>1. /\ a.status = "failed" /\ rel # "environment_failure" /\ a.failedStage \in Stages
        /\ a.category # "environment" /\ a.plan \notin {"environmental", "unknown"}
    BY <1>2, <1>3, <1>5 DEF SettledFirst, Statuses, Coherent
  <2>2. a.failedStage \in {PatchCheck, Fmt, Validate, Plan} => Cause(a)
    BY <2>1 DEF Cause
  <2>3. CASE ~req.repairs
    <3>1. d = Decide("stop", "second_attempt_disabled", rel)
      BY <1>5, <2>3 DEF DecisionFor, rel
    <3> QED BY <1>1, <3>1, DecideType DEF Actions, Codes
  <2>4. CASE req.repairs /\ req.context # "auto"
    <3>1. d = ExplicitDecision(a, rel)
      BY <1>5, <2>4 DEF DecisionFor, rel
    <3>2. PICK action \in {"stop", "repair"}, code \in Codes :
            d = Decide(action, code, rel) /\ (action = "repair" => Actionable(a))
      BY <3>1 DEF ExplicitDecision, Codes
    <3>3. d \in Decision /\ d.action = action /\ d.relation = rel
      BY <1>1, <3>2, DecideType DEF Actions
    <3> QED BY <2>1, <2>2, <2>4, <3>2, <3>3 DEF Actionable
  <2>5. CASE req.repairs /\ req.context = "auto"
    <3>1. d = AutoDecision(a, rel, req)
      BY <1>5, <2>5 DEF DecisionFor, rel
    <3>2. PICK action \in Actions, code \in Codes :
            /\ d = Decide(action, code, rel)
            /\ action # "stop" => a.failedStage \in {PatchCheck, Fmt, Validate, Plan}
            /\ action = "escalate" => /\ EscalationReason(a, rel, req) # "none"
                                      /\ ~(a.failedStage = Plan /\ a.plan = "assertion")
      <4>1. EscalationReason(a, rel, req) \in Codes \cup {"none"}
        BY DEF EscalationReason, Codes
      <4> QED BY <2>1, <3>1, <4>1
              DEF AutoDecision, Codes, Actions, Actionable, Stages, PatchCheck, PatchApply, Fmt,
                  InitStage, Validate, Plan
    <3>3. d \in Decision /\ d.action = action /\ d.relation = rel
      BY <1>1, <3>2, DecideType
    <3>4. action = "escalate" => req.schemaEligible /\ SchemaCause(a)
      BY <2>1, <3>2 DEF EscalationReason, SchemaCause, Coherent
    <3> QED BY <2>1, <2>2, <2>5, <3>2, <3>3, <3>4
  <2> QED BY <2>3, <2>4, <2>5
<1> QED BY <1>4, <1>5

-------------------------------------------------------------------------------
(* The invariant.                                                          *)

BeforeCall == {"collect", "lookup", "reuse", "schema", "route", "call"}

\* How far a run has come at each step of the pipeline.
PhaseInv ==
  /\ pc \in {"collect", "lookup", "reuse"} => schema = "not_requested" /\ memory # "hit_stale"
  /\ pc = "reuse" => cfg.verify
  /\ pc \in BeforeCall => calls = 0 /\ answers = 0 /\ attempts = <<>>
  /\ pc = "verify" => calls = 1 /\ answers = 1 /\ attempts = <<>> /\ candidate # "none"
  /\ pc \in {"decide", "retrieve", "repair"} => calls = 1 /\ answers = 1 /\ Len(attempts) = 1
  /\ pc = "reverify" => calls = 2 /\ answers = 2 /\ Len(attempts) = 1
  /\ pc = "store" => calls \in 1..2 /\ Len(attempts) \in 1..2 /\ answers = Len(attempts)
  /\ pc = "write" => Len(attempts) \in 1..2
  /\ pc \notin {"write", "end"} => source = "none" /\ remembered = NoAttempt
  /\ pc # "end" => document = "none"

\* What the policy has found when a second call is on its way.
PolicyInv ==
  /\ pc \in BeforeCall \cup {"verify", "decide", "retrieve"} =>
       second = "none" /\ (schema # "not_requested" => cfg.context = "schema_aware")
  /\ pc \in {"retrieve", "repair"} => cfg.repairs /\ Cause(attempts[1])
  /\ pc = "retrieve" => /\ decision \in Decision
                        /\ cfg.context = "auto" /\ cfg.schemaEligible
                        /\ SchemaCause(attempts[1])

CallInv ==
  /\ answers <= calls
  /\ calls = 2 => Len(attempts) # 0 /\ cfg.repairs /\ Cause(attempts[1])
  /\ Len(attempts) = 2 => calls = 2
  /\ \A i \in DOMAIN attempts : Coherent(attempts[i]) /\ attempts[i].mode = cfg.mode
  /\ ~cfg.verify /\ attempts # <<>> => attempts[1].commands = NothingRun

SourceInv ==
  /\ source = "llm" => Len(attempts) = answers
  /\ source = "verified_failure_memory" =>
       Len(attempts) = 1 /\ calls = 0 /\ remembered = NoAttempt /\ memory # "hit_stale"

ResultInv == document = "ok" => /\ Len(attempts) \in 1..2
                                /\ eligibility = MutationEligibility(Final, cfg.anchored)

IInv == /\ TypeOK /\ PhaseInv /\ PolicyInv /\ CallInv /\ SourceInv /\ ResultInv
        /\ SchemaOnlyForEvidence /\ RememberedOnlyFullyVerified

LEMMA InitIInv == Init => IInv
<1> SUFFICES ASSUME Init PROVE IInv
  OBVIOUS
<1>1. TypeOK
  BY DEF Init, TypeOK, Steps, MemoryStatuses, Candidates, EligibilityLevels
<1>2. PhaseInv /\ PolicyInv /\ CallInv /\ SourceInv /\ ResultInv
  BY DEF Init, PhaseInv, PolicyInv, CallInv, SourceInv, ResultInv, BeforeCall
<1>3. SchemaOnlyForEvidence /\ RememberedOnlyFullyVerified
  BY DEF Init, SchemaOnlyForEvidence, RememberedOnlyFullyVerified
<1> QED BY <1>1, <1>2, <1>3 DEF IInv

LEMMA ConfigType ==
  ASSUME TypeOK
  PROVE  cfg \in Config /\ Request \in Requests /\ Request.repairs = cfg.repairs
         /\ Request.context = cfg.context /\ Request.schemaEligible = cfg.schemaEligible
BY ConfigsAreConfigurations DEF TypeOK, Config, Request, Requests

\* Steps that leave the attempts and the calls alone.
LEMMA Untouched ==
  ASSUME IInv, UNCHANGED <<cfg, attempts, calls, answers>>
  PROVE  CallInv'
BY DEF IInv, CallInv, Cause, Coherent

-------------------------------------------------------------------------------
(* The steps.                                                              *)

\* The steps before the first call change only what they find out.
LEMMA FirstSteps ==
  ASSUME IInv, Collect \/ Lookup \/ InitialSchema \/ RouteInitial
  PROVE  IInv'
<1> USE DEF IInv
<1>1. UNCHANGED <<cfg, calls, answers, candidate, attempts, decision, second, remembered,
                  source, eligibility>>
  BY DEF Collect, Lookup, InitialSchema, RouteInitial, answerVars, policyVars, resultVars
<1>2. /\ pc \in BeforeCall /\ calls = 0 /\ answers = 0 /\ attempts = <<>> /\ second = "none"
      /\ source = "none" /\ remembered = NoAttempt /\ document = "none"
      /\ schema # "not_requested" => cfg.context = "schema_aware"
  BY DEF PhaseInv, PolicyInv, Collect, Lookup, InitialSchema, RouteInitial, BeforeCall
<1>3. /\ pc' \in {"lookup", "reuse", "schema", "route", "call", "end"}
      /\ pc' = "reuse" => cfg.verify
      /\ pc' \in {"lookup", "reuse"} => schema' = "not_requested" /\ memory' # "hit_stale"
      /\ memory' \in MemoryStatuses
      /\ schema' \in {"not_requested", "retrieved", "empty"}
      /\ schema' # "not_requested" => cfg.context = "schema_aware"
      /\ \/ exit' = exit /\ document' = "none"
         \/ pc' = "end" /\ exit' = "error" /\ document' \in {"error", "none"}
  <2>0. memory \in MemoryStatuses /\ schema \in {"not_requested", "retrieved", "empty"}
        /\ cfg.memory \in {"off", "unopened", "open"}
    BY ConfigType DEF TypeOK, Config
  <2>1. ASSUME Collect PROVE <1>3!:
    <3>1. schema' = schema /\ schema = "not_requested"
      BY <2>1 DEF Collect, PhaseInv
    <3>2. CASE pc' = "lookup" /\ exit' = exit /\ document' = document
               /\ memory' = CASE cfg.memory = "off"      -> "disabled"
                              [] cfg.memory = "unopened" -> "read_error"
                              [] cfg.memory = "open"     -> "ineligible"
      <4>1. memory' \in {"disabled", "read_error", "ineligible"}
        BY <2>0, <3>2
      <4> QED BY <1>2, <3>1, <3>2, <4>1 DEF MemoryStatuses
    <3>3. CASE Fail /\ memory' = memory
      BY <2>0, <3>1, <3>3 DEF Fail
    <3> QED BY <2>1, <3>2, <3>3 DEF Collect
  <2>2. ASSUME Lookup PROVE <1>3!:
    <3>1. /\ schema' = schema /\ schema = "not_requested" /\ exit' = exit
          /\ document' = document /\ memory # "hit_stale"
      BY <2>2 DEF Lookup, PhaseInv, resultVars
    <3>2. \/ memory' \in {"miss", "read_error"} /\ pc' = "schema"
          \/ memory' = "hit" /\ pc' = "reuse" /\ cfg.verify
          \/ memory' = memory /\ pc' = "schema"
      BY <2>2 DEF Lookup, EligibleForLookup
    <3> QED BY <1>2, <2>0, <3>1, <3>2 DEF MemoryStatuses
  <2>3. ASSUME InitialSchema PROVE <1>3!:
    <3>1. memory' = memory
      BY <2>3 DEF InitialSchema
    <3>2. \/ /\ pc' = "route" /\ exit' = exit /\ document' = document
             /\ \/ cfg.context = "schema_aware" /\ schema' \in {"retrieved", "empty"}
                \/ schema' = schema
          \/ Fail /\ schema' = schema
      BY <2>3 DEF InitialSchema
    <3> QED BY <1>2, <2>0, <3>1, <3>2 DEF Fail
  <2>4. ASSUME RouteInitial PROVE <1>3!:
    <3>1. memory' = memory /\ schema' = schema
      BY <2>4 DEF RouteInitial
    <3>2. (pc' = "call" /\ exit' = exit /\ document' = document) \/ Fail
      BY <2>4 DEF RouteInitial
    <3> QED BY <1>2, <2>0, <3>1, <3>2 DEF Fail
  <2> QED BY <2>1, <2>2, <2>3, <2>4
<1>4. CallInv'
  BY <1>1, Untouched
<1>5. TypeOK'
  BY <1>1, <1>3 DEF TypeOK, Steps
<1>6. PhaseInv'
  BY <1>1, <1>2, <1>3 DEF PhaseInv, BeforeCall
<1>7. PolicyInv' /\ SchemaOnlyForEvidence'
  BY <1>1, <1>2, <1>3 DEF PolicyInv, SchemaOnlyForEvidence, BeforeCall
<1>8. SourceInv' /\ ResultInv' /\ RememberedOnlyFullyVerified'
  BY <1>1, <1>2, <1>3 DEF SourceInv, ResultInv, RememberedOnlyFullyVerified
<1> QED BY <1>4, <1>5, <1>6, <1>7, <1>8

LEMMA ReuseStep ==
  ASSUME IInv, ReuseRemembered
  PROVE  IInv'
<1> USE DEF IInv
<1>1. /\ UNCHANGED <<cfg, schema, calls, answers, candidate, decision, second, remembered,
                     eligibility, exit, document>>
      /\ pc = "reuse" /\ calls = 0 /\ answers = 0 /\ attempts = <<>> /\ source = "none"
      /\ remembered = NoAttempt /\ document = "none" /\ schema = "not_requested"
      /\ second = "none" /\ cfg.verify
  BY DEF ReuseRemembered, answerVars, policyVars, PhaseInv, PolicyInv, BeforeCall
<1>2. PICK a \in VerdictsOf(cfg.mode) :
        \/ /\ Outcome(a) \in ReusableOutcomes
           /\ attempts' = <<a>>
           /\ memory' = ReuseStatus(a)
           /\ source' = "verified_failure_memory"
           /\ pc' = "write"
        \/ memory' = "hit_stale" /\ pc' = "schema" /\ attempts' = attempts /\ source' = source
  BY DEF ReuseRemembered
<1>3. Coherent(a) /\ a.mode = cfg.mode
  BY ConfigType, VerdictsAreCoherent, VerdictsKeepTheMode DEF Config
<1>4. CASE memory' = "hit_stale" /\ pc' = "schema" /\ attempts' = attempts /\ source' = source
  <2>1. CallInv'
    BY <1>1, <1>4, Untouched
  <2>2. TypeOK'
    BY <1>1, <1>4 DEF TypeOK, Steps, MemoryStatuses
  <2>3. PhaseInv' /\ PolicyInv' /\ SchemaOnlyForEvidence' /\ SourceInv' /\ ResultInv'
        /\ RememberedOnlyFullyVerified'
    BY <1>1, <1>4 DEF PhaseInv, PolicyInv, SchemaOnlyForEvidence, SourceInv, ResultInv,
                      RememberedOnlyFullyVerified, BeforeCall
  <2> QED BY <2>1, <2>2, <2>3
<1>5. CASE /\ Outcome(a) \in ReusableOutcomes /\ attempts' = <<a>> /\ memory' = ReuseStatus(a)
           /\ source' = "verified_failure_memory" /\ pc' = "write"
  <2>1. memory' \in MemoryStatuses /\ memory' # "hit_stale"
    BY <1>5 DEF ReuseStatus, ReusableOutcomes, MemoryStatuses
  <2>2. /\ Len(attempts') = 1 /\ DOMAIN attempts' = {1} /\ attempts'[1] = a
        /\ attempts' \in Seq(Attempt) /\ attempts' # <<>>
    BY <1>3, <1>5 DEF Coherent
  <2>3. TypeOK'
    BY <1>1, <1>5, <2>1, <2>2 DEF TypeOK, Steps
  <2>4. CallInv'
    BY <1>1, <1>3, <2>2 DEF CallInv
  <2>5. PhaseInv' /\ PolicyInv' /\ SchemaOnlyForEvidence' /\ SourceInv' /\ ResultInv'
        /\ RememberedOnlyFullyVerified'
    BY <1>1, <1>5, <2>1, <2>2 DEF PhaseInv, PolicyInv, SchemaOnlyForEvidence, SourceInv,
                                  ResultInv, RememberedOnlyFullyVerified, BeforeCall
  <2> QED BY <2>3, <2>4, <2>5
<1> QED BY <1>2, <1>4, <1>5

LEMMA CallStep ==
  ASSUME IInv, CallDiagnose
  PROVE  IInv'
<1> USE DEF IInv
<1>1. /\ UNCHANGED <<cfg, memory, schema, attempts, decision, second, remembered, source,
                     eligibility>>
      /\ pc = "call" /\ calls = 0 /\ answers = 0 /\ attempts = <<>> /\ source = "none"
      /\ remembered = NoAttempt /\ document = "none" /\ second = "none" /\ calls' = 1
      /\ schema # "not_requested" => cfg.context = "schema_aware"
  BY DEF CallDiagnose, policyVars, PhaseInv, PolicyInv, BeforeCall
<1>2. \/ /\ pc' = "verify" /\ answers' = 1 /\ candidate' \in Candidates \ {"none"}
         /\ exit' = exit /\ document' = document
      \/ /\ pc' = "end" /\ answers' \in {0, 1} /\ candidate' = candidate
         /\ exit' \in {"error", "crashed"} /\ document' \in {"none", "error"}
  BY <1>1 DEF CallDiagnose, Fail
<1>3. TypeOK'
  BY <1>1, <1>2 DEF TypeOK, Steps
<1>4. CallInv'
  BY <1>1, <1>2 DEF CallInv
<1>5. PhaseInv' /\ PolicyInv' /\ SchemaOnlyForEvidence' /\ SourceInv' /\ ResultInv'
      /\ RememberedOnlyFullyVerified'
  BY <1>1, <1>2 DEF PhaseInv, PolicyInv, SchemaOnlyForEvidence, SourceInv, ResultInv,
                    RememberedOnlyFullyVerified, BeforeCall
<1> QED BY <1>3, <1>4, <1>5

LEMMA VerifyStep ==
  ASSUME IInv, VerifyFirst
  PROVE  IInv'
<1> USE DEF IInv
<1>1. /\ UNCHANGED <<cfg, memory, schema, calls, answers, candidate, decision, second,
                     remembered, source, eligibility, exit, document>>
      /\ pc = "verify" /\ pc' = "decide" /\ calls = 1 /\ answers = 1 /\ source = "none"
      /\ candidate # "none" /\ remembered = NoAttempt /\ document = "none" /\ second = "none"
      /\ schema # "not_requested" => cfg.context = "schema_aware"
  BY DEF VerifyFirst, answerVars, policyVars, resultVars, PhaseInv, PolicyInv, BeforeCall
<1>2. PICK a \in IF cfg.verify \/ candidate \in {"malformed_edit", "unsafe_edit"}
                 THEN Verified(candidate) ELSE Skipped(candidate) :
        attempts' = <<a>>
  BY DEF VerifyFirst
<1>3. Coherent(a) /\ a.mode = cfg.mode /\ (~cfg.verify => a.commands = NothingRun)
  <2>1. CASE cfg.verify \/ candidate \in {"malformed_edit", "unsafe_edit"}
    <3>1. candidate \in Candidates \ {"none"}
      BY <1>1 DEF TypeOK
    <3>2. a \in Verified(candidate)
      BY <1>2, <2>1
    <3> QED BY <2>1, <3>1, <3>2, VerifiedIsCoherent
  <2>2. CASE ~(cfg.verify \/ candidate \in {"malformed_edit", "unsafe_edit"})
    <3>1. a \in Skipped(candidate)
      BY <1>2, <2>2
    <3> QED BY <3>1, SkippedIsCoherent
  <2> QED BY <2>1, <2>2
<1>4. /\ Len(attempts') = 1 /\ DOMAIN attempts' = {1} /\ attempts'[1] = a
      /\ attempts' \in Seq(Attempt) /\ attempts' # <<>>
  BY <1>2, <1>3 DEF Coherent
<1>5. TypeOK'
  BY <1>1, <1>4 DEF TypeOK, Steps
<1>6. CallInv'
  BY <1>1, <1>3, <1>4 DEF CallInv
<1>7. PhaseInv' /\ PolicyInv' /\ SchemaOnlyForEvidence' /\ SourceInv' /\ ResultInv'
      /\ RememberedOnlyFullyVerified'
  BY <1>1, <1>4 DEF PhaseInv, PolicyInv, SchemaOnlyForEvidence, SourceInv, ResultInv,
                    RememberedOnlyFullyVerified, BeforeCall
<1> QED BY <1>5, <1>6, <1>7

\* The decision: a reclassified attempt always goes with a stop.
LEMMA DecideFacts ==
  ASSUME IInv, DecideNext
  PROVE  \E a \in Attempt :
           /\ attempts' = <<a>> /\ Coherent(a)
           /\ a.commands = attempts[1].commands /\ a.mode = cfg.mode
           /\ \/ a = attempts[1]
              \/ /\ attempts[1].status = "failed" /\ pc' = "store"
                 /\ a = [attempts[1] EXCEPT !.status = "unavailable"]
           /\ decision' \in Decision
           /\ \/ pc' = "store" /\ second' = second
              \/ pc' = "repair" /\ second' = "repair" /\ cfg.repairs /\ Cause(a)
              \/ /\ pc' = "retrieve" /\ second' = second /\ cfg.repairs /\ Cause(a)
                 /\ cfg.context = "auto" /\ cfg.schemaEligible /\ SchemaCause(a)
<1> USE DEF IInv
<1>1. Coherent(attempts[1]) /\ attempts[1].mode = cfg.mode
  BY DEF DecideNext, PhaseInv, CallInv, TypeOK
<1>2. PICK output \in SUBSET Phrases :
        LET d == DecisionFor(attempts[1], output, Request)
        IN /\ decision' = d
           /\ attempts' = <<Reclassified(attempts[1], d)>>
           /\ \/ d.action = "stop" /\ pc' = "store" /\ UNCHANGED second
              \/ d.action = "repair" /\ pc' = "repair" /\ second' = "repair"
              \/ d.action = "escalate" /\ pc' = "retrieve" /\ UNCHANGED second
  BY DEF DecideNext
<1> DEFINE d == DecisionFor(attempts[1], output, Request)
           a == Reclassified(attempts[1], d)
<1>3. /\ d \in Decision
      /\ d.action # "stop" => cfg.repairs /\ Cause(attempts[1])
      /\ d.action = "escalate" =>
           cfg.context = "auto" /\ cfg.schemaEligible /\ SchemaCause(attempts[1])
      /\ attempts[1].status = "failed" /\ d.relation = "environment_failure" => d.action = "stop"
  BY <1>1, ConfigType, Decisions
<1>4. /\ Coherent(a) /\ a.commands = attempts[1].commands /\ a.mode = cfg.mode
      /\ \/ a = attempts[1]
         \/ /\ attempts[1].status = "failed" /\ d.relation = "environment_failure"
            /\ a = [attempts[1] EXCEPT !.status = "unavailable"]
  BY <1>1, ReclassifiedIsCoherent
<1>5. /\ decision' = d /\ attempts' = <<a>>
      /\ \/ d.action = "stop" /\ pc' = "store" /\ second' = second
         \/ d.action = "repair" /\ pc' = "repair" /\ second' = "repair"
         \/ d.action = "escalate" /\ pc' = "retrieve" /\ second' = second
  BY <1>2
<1> HIDE DEF d, a
<1>6. a \in Attempt
  BY <1>4 DEF Coherent
<1>7. d.action # "stop" => a = attempts[1]
  BY <1>3, <1>4
<1>8. CASE d.action = "stop"
  BY <1>3, <1>4, <1>5, <1>6, <1>8
<1>9. CASE d.action # "stop"
  BY <1>3, <1>4, <1>5, <1>6, <1>7, <1>9
<1> QED BY <1>8, <1>9

LEMMA DecideStep ==
  ASSUME IInv, DecideNext
  PROVE  IInv'
<1>1. PICK a \in Attempt :
        /\ attempts' = <<a>> /\ Coherent(a)
        /\ a.commands = attempts[1].commands /\ a.mode = cfg.mode
        /\ decision' \in Decision
        /\ \/ pc' = "store" /\ second' = second
           \/ pc' = "repair" /\ second' = "repair" /\ cfg.repairs /\ Cause(a)
           \/ /\ pc' = "retrieve" /\ second' = second /\ cfg.repairs /\ Cause(a)
              /\ cfg.context = "auto" /\ cfg.schemaEligible /\ SchemaCause(a)
  BY DecideFacts
<1> USE DEF IInv
<1>2. /\ UNCHANGED <<cfg, memory, schema, calls, answers, candidate, remembered, source,
                     eligibility, exit, document>>
      /\ calls = 1 /\ answers = 1 /\ Len(attempts) = 1 /\ source = "none" /\ second = "none"
      /\ remembered = NoAttempt /\ document = "none"
      /\ schema # "not_requested" => cfg.context = "schema_aware"
  BY DEF DecideNext, answerVars, resultVars, PhaseInv, PolicyInv
<1>3. /\ Len(attempts') = 1 /\ DOMAIN attempts' = {1} /\ attempts'[1] = a
      /\ attempts' \in Seq(Attempt) /\ attempts' # <<>> /\ attempts # <<>>
  <2>1. /\ Len(<<a>>) = 1 /\ DOMAIN <<a>> = {1} /\ <<a>>[1] = a
        /\ <<a>> \in Seq(Attempt) /\ <<a>> # <<>>
    OBVIOUS
  <2>2. attempts # <<>>
    <3>1. Len(<<>>) = 0
      OBVIOUS
    <3> QED BY <1>2, <3>1
  <2> QED BY <1>1, <2>1, <2>2
<1>4. TypeOK'
  BY <1>1, <1>2, <1>3 DEF TypeOK, Steps
<1>5. CallInv'
  BY <1>1, <1>2, <1>3 DEF CallInv
<1>6. PhaseInv' /\ PolicyInv'
  BY <1>1, <1>2, <1>3 DEF PhaseInv, PolicyInv, BeforeCall
<1>7. SchemaOnlyForEvidence' /\ SourceInv' /\ ResultInv' /\ RememberedOnlyFullyVerified'
  <2>1. second' # "context_escalation" /\ (schema' = "retrieved" => cfg.context = "schema_aware")
    BY <1>1, <1>2
  <2> QED BY <1>2, <2>1 DEF SchemaOnlyForEvidence, SourceInv, ResultInv,
                            RememberedOnlyFullyVerified
<1> QED BY <1>4, <1>5, <1>6, <1>7

LEMMA RetrieveStep ==
  ASSUME IInv, RetrieveSchema
  PROVE  IInv'
<1> USE DEF IInv
<1>1. /\ UNCHANGED <<cfg, memory, calls, answers, candidate, attempts, remembered, source,
                     eligibility>>
      /\ calls = 1 /\ answers = 1 /\ Len(attempts) = 1 /\ source = "none" /\ second = "none"
      /\ remembered = NoAttempt /\ document = "none" /\ cfg.repairs /\ Cause(attempts[1])
      /\ decision \in Decision /\ cfg.context = "auto" /\ cfg.schemaEligible
      /\ SchemaCause(attempts[1]) /\ schema = "not_requested"
  BY DEF RetrieveSchema, answerVars, PhaseInv, PolicyInv
<1>2. decision.relation \in Relations
  BY <1>1 DEF Decision
<1>3. /\ decision' \in Decision
      /\ \/ /\ schema' = "retrieved" /\ second' = "context_escalation" /\ pc' = "repair"
            /\ exit' = exit /\ document' = document
         \/ /\ schema' = "empty" /\ second' = "repair" /\ pc' = "repair"
            /\ exit' = exit /\ document' = document
         \/ /\ schema' = "empty" /\ second' = "none" /\ pc' = "store"
            /\ exit' = exit /\ document' = document
         \/ /\ schema' = schema /\ second' = "none" /\ pc' = "end" /\ exit' = "error"
            /\ document' \in {"none", "error"}
  <2>1. /\ Decide("repair", "schema_unavailable_source_fallback", decision.relation) \in Decision
        /\ Decide("stop", "schema_unavailable", decision.relation) \in Decision
    BY <1>2, DecideType DEF Actions, Codes
  <2> QED BY <1>1, <2>1 DEF RetrieveSchema, Fail
<1>4. CallInv'
  BY <1>1, Untouched
<1>5. TypeOK'
  BY <1>1, <1>3 DEF TypeOK, Steps
<1>6. PhaseInv' /\ PolicyInv'
  BY <1>1, <1>3 DEF PhaseInv, PolicyInv, BeforeCall, Cause
<1>7. SchemaOnlyForEvidence'
  BY <1>1, <1>3 DEF SchemaOnlyForEvidence, SchemaCause
<1>8. SourceInv' /\ ResultInv' /\ RememberedOnlyFullyVerified'
  BY <1>1, <1>3 DEF SourceInv, ResultInv, RememberedOnlyFullyVerified
<1> QED BY <1>4, <1>5, <1>6, <1>7, <1>8

\* A call that raises leaves the first attempt as the last word.
LEMMA CallRepairStep ==
  ASSUME IInv, CallRepair
  PROVE  IInv'
<1> USE DEF IInv
<1>1. /\ UNCHANGED <<cfg, memory, schema, attempts, decision, second, remembered, source,
                     eligibility, exit, document>>
      /\ calls = 1 /\ answers = 1 /\ calls' = 2 /\ Len(attempts) = 1 /\ source = "none"
      /\ remembered = NoAttempt /\ document = "none" /\ cfg.repairs /\ Cause(attempts[1])
  BY DEF CallRepair, policyVars, resultVars, PhaseInv, PolicyInv
<1>2. \/ pc' = "store" /\ answers' = 1 /\ candidate' = candidate
      \/ pc' = "reverify" /\ answers' = 2 /\ candidate' \in Candidates
  BY <1>1 DEF CallRepair, Candidates
<1>3. TypeOK'
  BY <1>1, <1>2 DEF TypeOK, Steps
<1>4. CallInv'
  BY <1>1, <1>2 DEF CallInv, Cause, Coherent
<1>5. PhaseInv' /\ PolicyInv'
  BY <1>1, <1>2 DEF PhaseInv, PolicyInv, BeforeCall
<1>6. SchemaOnlyForEvidence'
  BY <1>1 DEF SchemaOnlyForEvidence
<1>7. SourceInv' /\ ResultInv' /\ RememberedOnlyFullyVerified'
  BY <1>1 DEF SourceInv, ResultInv, RememberedOnlyFullyVerified
<1> QED BY <1>3, <1>4, <1>5, <1>6, <1>7

LEMMA VerifySecondStep ==
  ASSUME IInv, VerifySecond
  PROVE  IInv' /\ Len(attempts') = Len(attempts) + 1
         /\ \A i \in 1..Len(attempts) : attempts'[i] = attempts[i]
<1> USE DEF IInv
<1>1. /\ UNCHANGED <<cfg, memory, schema, calls, answers, candidate, decision, second,
                     remembered, source, eligibility, exit, document>>
      /\ pc' = "store" /\ calls = 2 /\ answers = 2 /\ Len(attempts) = 1 /\ source = "none"
      /\ remembered = NoAttempt /\ document = "none" /\ candidate # "none"
      /\ candidate \in Candidates
  BY DEF VerifySecond, answerVars, policyVars, resultVars, PhaseInv, TypeOK
<1>2. PICK a \in Verified(candidate) : attempts' = Append(attempts, a)
  BY DEF VerifySecond
<1>3. Coherent(a) /\ a.mode = cfg.mode
  BY <1>1, VerifiedIsCoherent
<1>4. /\ attempts' \in Seq(Attempt) /\ Len(attempts') = 2 /\ DOMAIN attempts' = 1..2
      /\ attempts'[1] = attempts[1] /\ attempts'[2] = a
  <2>1. attempts \in Seq(Attempt) /\ a \in Attempt
    BY <1>3 DEF TypeOK, Coherent
  <2>2. /\ attempts' \in Seq(Attempt) /\ Len(attempts') = 2
        /\ attempts'[1] = attempts[1] /\ attempts'[2] = a
    <3>1. /\ Append(attempts, a) \in Seq(Attempt)
          /\ Len(Append(attempts, a)) = Len(attempts) + 1
          /\ \A i \in 1..Len(attempts) : Append(attempts, a)[i] = attempts[i]
          /\ Append(attempts, a)[Len(attempts) + 1] = a
      BY <2>1, AppendProperties
    <3> QED BY <1>1, <1>2, <3>1
  <2> QED BY <2>2, LenProperties
<1>5. TypeOK'
  BY <1>1, <1>4 DEF TypeOK, Steps
<1>6. CallInv'
  <2>1. /\ answers' <= calls' /\ calls' = 2 /\ Len(attempts') = 2
        /\ cfg.repairs /\ Cause(attempts[1]) /\ Coherent(attempts[1])
        /\ attempts[1].mode = cfg.mode
        /\ ~cfg.verify => attempts[1].commands = NothingRun
    <3>1. DOMAIN attempts = 1..1
      BY <1>1, LenProperties DEF TypeOK
    <3>2. 1 \in DOMAIN attempts /\ attempts # <<>>
      BY <3>1
    <3> QED BY <1>1, <1>4, <3>2 DEF CallInv
  <2>2. \A i \in DOMAIN attempts' : Coherent(attempts'[i]) /\ attempts'[i].mode = cfg.mode
    BY <1>3, <1>4, <2>1
  <2> QED BY <1>1, <1>4, <2>1, <2>2 DEF CallInv, Cause
<1>7. PhaseInv' /\ PolicyInv'
  BY <1>1, <1>4 DEF PhaseInv, PolicyInv, BeforeCall
<1>8. SchemaOnlyForEvidence'
  BY <1>1, <1>4 DEF SchemaOnlyForEvidence
<1>9. SourceInv' /\ ResultInv' /\ RememberedOnlyFullyVerified'
  BY <1>1 DEF SourceInv, ResultInv, RememberedOnlyFullyVerified
<1>10. Len(attempts') = Len(attempts) + 1 /\ \A i \in 1..Len(attempts) : attempts'[i] = attempts[i]
  BY <1>1, <1>4
<1> QED BY <1>5, <1>6, <1>7, <1>8, <1>9, <1>10

LEMMA MissingStep ==
  ASSUME IInv, SecondCandidateMissing
  PROVE  IInv'
<1> USE DEF IInv
<1>1. /\ UNCHANGED <<cfg, memory, schema, calls, answers, candidate, attempts, decision,
                     second, remembered, source, eligibility, document>>
      /\ pc' = "end" /\ exit' = "crashed" /\ source = "none" /\ remembered = NoAttempt
      /\ document = "none"
  BY DEF SecondCandidateMissing, answerVars, policyVars, PhaseInv
<1>2. CallInv'
  BY <1>1, Untouched
<1>3. TypeOK' /\ PhaseInv' /\ PolicyInv' /\ SchemaOnlyForEvidence'
  BY <1>1 DEF TypeOK, Steps, PhaseInv, PolicyInv, BeforeCall, SchemaOnlyForEvidence
<1>4. SourceInv' /\ ResultInv' /\ RememberedOnlyFullyVerified'
  BY <1>1 DEF SourceInv, ResultInv, RememberedOnlyFullyVerified
<1> QED BY <1>2, <1>3, <1>4

\* What is eligible for the store went through all six gates in full mode.
LEMMA EligibleIsProven ==
  ASSUME IInv, pc = "store", EligibleForStore(Final, Len(attempts))
  PROVE  /\ Final \in Attempt /\ Final.status = "verified" /\ Final.commands = AllPassed
         /\ cfg.mode = "full" /\ cfg.focus = "single"
<1>1. Len(attempts) \in 1..2 /\ attempts \in Seq(Attempt)
  BY DEF IInv, PhaseInv, TypeOK
<1>2. Len(attempts) \in DOMAIN attempts
  BY <1>1, LenProperties
<1>3. Coherent(Final) /\ Final.mode = cfg.mode
  BY <1>2 DEF IInv, CallInv, Final
<1>4. FullyVerified(Final)
  BY DEF EligibleForStore, Outcome, PlanOutcome
<1>5. Final.status = "verified" /\ Final.commands = AllPassed /\ Final.mode = "full"
  BY <1>3, <1>4 DEF FullyVerified, Coherent
<1> QED BY <1>3, <1>5 DEF EligibleForStore, EligibleForLookup, Coherent

LEMMA StoreStep ==
  ASSUME IInv, StoreMemory
  PROVE  IInv'
<1> USE DEF IInv
<1>1. /\ UNCHANGED <<cfg, schema, calls, answers, candidate, attempts, decision, second,
                     eligibility, exit, document>>
      /\ pc = "store" /\ pc' = "write" /\ source' = "llm" /\ remembered = NoAttempt
      /\ document = "none" /\ Len(attempts) \in 1..2 /\ answers = Len(attempts)
  BY DEF StoreMemory, answerVars, policyVars, PhaseInv
<1>2. \/ /\ EligibleForStore(Final, Len(attempts)) /\ remembered' = Final
         /\ memory' \in {memory, "write_error"}
      \/ memory' = memory /\ remembered' = remembered
  BY DEF StoreMemory
<1>3. Final' = Final
  BY <1>1 DEF Final
<1>4. remembered' # NoAttempt =>
        /\ remembered' = Final /\ Final \in Attempt /\ Final.status = "verified"
        /\ Final.commands = AllPassed /\ cfg.mode = "full" /\ cfg.focus = "single"
  BY <1>1, <1>2, EligibleIsProven
<1>5. TypeOK'
  BY <1>1, <1>2, <1>4 DEF TypeOK, Steps, MemoryStatuses
<1>6. CallInv'
  BY <1>1, Untouched
<1>7. PhaseInv' /\ PolicyInv'
  BY <1>1 DEF PhaseInv, PolicyInv, BeforeCall
<1>8. SchemaOnlyForEvidence'
  BY <1>1 DEF SchemaOnlyForEvidence
<1>9. SourceInv' /\ ResultInv' /\ RememberedOnlyFullyVerified'
  BY <1>1, <1>3, <1>4 DEF SourceInv, ResultInv, RememberedOnlyFullyVerified
<1> QED BY <1>5, <1>6, <1>7, <1>8, <1>9

LEMMA WriteStep ==
  ASSUME IInv, WriteDocument
  PROVE  IInv'
<1> USE DEF IInv
<1>1. /\ UNCHANGED <<cfg, memory, schema, calls, answers, candidate, attempts, decision,
                     second, remembered, source>>
      /\ pc' = "end" /\ Len(attempts) \in 1..2
      /\ eligibility' = MutationEligibility(Final, cfg.anchored)
      /\ \/ exit' = "ok" /\ document' = "ok"
         \/ exit' = "error" /\ document' \in {"error", "none"}
  BY DEF WriteDocument, answerVars, policyVars, PhaseInv, Fail
<1>2. Final' = Final
  BY <1>1 DEF Final
<1>3. eligibility' \in EligibilityLevels
  BY <1>1 DEF MutationEligibility, EligibilityLevels
<1>4. TypeOK'
  BY <1>1, <1>3 DEF TypeOK, Steps
<1>5. CallInv'
  BY <1>1, Untouched
<1>6. PhaseInv' /\ PolicyInv'
  BY <1>1 DEF PhaseInv, PolicyInv, BeforeCall
<1>7. SchemaOnlyForEvidence' /\ SourceInv'
  BY <1>1 DEF SchemaOnlyForEvidence, SourceInv
<1>8. ResultInv' /\ RememberedOnlyFullyVerified'
  BY <1>1, <1>2 DEF ResultInv, RememberedOnlyFullyVerified
<1> QED BY <1>4, <1>5, <1>6, <1>7, <1>8

LEMMA StutterStep ==
  ASSUME IInv, UNCHANGED vars
  PROVE  IInv'
<1>1. UNCHANGED <<cfg, pc, memory, schema, calls, answers, candidate, attempts, decision,
                  second, remembered, source, eligibility, exit, document>>
  BY DEF vars, answerVars, policyVars, resultVars
<1>2. CallInv'
  BY <1>1, Untouched
<1>3. TypeOK' /\ PhaseInv' /\ PolicyInv' /\ SchemaOnlyForEvidence'
  BY <1>1 DEF IInv, TypeOK, PhaseInv, PolicyInv, SchemaOnlyForEvidence
<1>4. SourceInv' /\ ResultInv' /\ RememberedOnlyFullyVerified'
  BY <1>1 DEF IInv, SourceInv, ResultInv, RememberedOnlyFullyVerified, Final
<1> QED BY <1>2, <1>3, <1>4 DEF IInv

LEMMA Inductive == IInv /\ [Next]_vars => IInv'
<1> SUFFICES ASSUME IInv, [Next]_vars PROVE IInv'
  OBVIOUS
<1>1. CASE Collect \/ Lookup \/ InitialSchema \/ RouteInitial
  BY <1>1, FirstSteps
<1>2. CASE ReuseRemembered
  BY <1>2, ReuseStep
<1>3. CASE CallDiagnose
  BY <1>3, CallStep
<1>4. CASE VerifyFirst
  BY <1>4, VerifyStep
<1>5. CASE DecideNext
  BY <1>5, DecideStep
<1>6. CASE RetrieveSchema
  BY <1>6, RetrieveStep
<1>7. CASE CallRepair
  BY <1>7, CallRepairStep
<1>8. CASE VerifySecond
  BY <1>8, VerifySecondStep
<1>9. CASE SecondCandidateMissing
  BY <1>9, MissingStep
<1>10. CASE StoreMemory
  BY <1>10, StoreStep
<1>11. CASE WriteDocument
  BY <1>11, WriteStep
<1>12. CASE UNCHANGED vars
  BY <1>12, StutterStep
<1> QED BY <1>1, <1>2, <1>3, <1>4, <1>5, <1>6, <1>7, <1>8, <1>9, <1>10, <1>11, <1>12 DEF Next

LEMMA Invariance == Spec => []IInv
<1>1. Init => IInv
  BY InitIInv
<1>2. IInv /\ [Next]_vars => IInv'
  BY Inductive
<1> QED BY <1>1, <1>2, PTL DEF Spec

-------------------------------------------------------------------------------
(* The theorems.                                                           *)

\* Every variable of a run keeps its type; there are at most two model calls,
\* two answers and two attempts (orchestration/diagnose.py).
THEOREM TypeCorrect == Spec => []TypeOK
<1>1. IInv => TypeOK
  BY DEF IInv
<1> QED BY <1>1, Invariance, PTL

\* The second call of a run always has a cause a new candidate can cure: the
\* invariant carries the cause from the decision (ContextEscalationPolicy) over
\* the retrieval of schema and the call to everything that follows it.
THEOREM SecondCallNeedsACause == Spec => []SecondCallHasACause
<1>1. IInv => SecondCallHasACause
  BY DEF IInv, CallInv, SecondCallHasACause, Cause, FirstFailed, FirstMalformed
<1> QED BY <1>1, Invariance, PTL

\* Schema is retrieved in the explicit mode or on evidence, and the second call
\* carries it exactly when it is an escalation (retrieve_schema).
THEOREM SchemaNeedsEvidence == Spec => []SchemaOnlyForEvidence
<1>1. IInv => SchemaOnlyForEvidence
  BY DEF IInv
<1> QED BY <1>1, Invariance, PTL

\* Only the final patch of a run, through all six gates in full mode, is handed
\* to the failure memory (FailureMemoryPolicy.eligible_for_store).
THEOREM MemoryIsProven == Spec => []RememberedOnlyFullyVerified
<1>1. IInv => RememberedOnlyFullyVerified
  BY DEF IInv
<1> QED BY <1>1, Invariance, PTL

\* Attempts and answers of a result add up; with verification off nothing is
\* run, except for the candidate that follows one that could not be built.
THEOREM AttemptsAddUp == Spec => []AttemptsAreAccountedFor
<1>1. ASSUME IInv PROVE AttemptsAreAccountedFor
  <2>1. ASSUME ~cfg.verify, Len(attempts) = 2 PROVE FirstMalformed
    <3>1. DOMAIN attempts = 1..2
      BY <1>1, <2>1, LenProperties DEF IInv, TypeOK
    <3>2. attempts # <<>> /\ 1 \in DOMAIN attempts
      BY <3>1
    <3>3. /\ calls = 2 /\ Coherent(attempts[1]) /\ attempts[1].commands = NothingRun
          /\ Cause(attempts[1])
      BY <1>1, <2>1, <3>2 DEF IInv, CallInv
    <3> QED BY <3>3 DEF Coherent, Cause, FirstMalformed
  <2> QED BY <1>1, <2>1 DEF IInv, SourceInv, CallInv, AttemptsAreAccountedFor
<1> QED BY <1>1, Invariance, PTL

\* What the document claims was earned: by the gates the final attempt passed,
\* on a clean known commit, and after a retry only with a second call and a
\* first candidate that was malformed or failed (_final_status, provenance.py).
THEOREM ResultsAreEarned == Spec => []ResultMatchesEvidence
<1>1. ASSUME IInv, document = "ok" PROVE ResultMatchesEvidence
  <2>1. /\ Len(attempts) \in 1..2 /\ attempts \in Seq(Attempt)
        /\ eligibility = MutationEligibility(Final, cfg.anchored)
    BY <1>1 DEF IInv, TypeOK, ResultInv
  <2>2. 1 \in DOMAIN attempts /\ Len(attempts) \in DOMAIN attempts
    BY <2>1, LenProperties
  <2>3. Coherent(Final) /\ Coherent(attempts[1])
    BY <1>1, <2>2 DEF IInv, CallInv, Final
  <2>4. eligibility = "verified" => cfg.anchored /\ Final.commands = AllPassed
    <3>1. ASSUME eligibility = "verified"
          PROVE  cfg.anchored /\ PrePlanPassed(Final) /\ PlanPassed(Final)
      BY <2>1, <3>1 DEF MutationEligibility, VerificationComplete
    <3>2. ASSUME PrePlanPassed(Final), PlanPassed(Final) PROVE Final.commands = AllPassed
      <4>1. \A s \in Stages : Final.commands[s] = "passed"
        BY <3>2 DEF PrePlanPassed, PlanPassed, Passed
      <4>2. Final.commands \in [Stages -> CommandStatuses]
        BY <2>3 DEF Coherent, Attempt
      <4> QED BY <4>1, <4>2 DEF AllPassed
    <3> QED BY <3>1, <3>2
  <2>5. eligibility = "conditional" =>
          cfg.anchored /\ PrePlanPassed(Final) /\ Final.status # "failed"
    BY <2>1, <2>3 DEF MutationEligibility, ConditionalVerificationComplete,
                      LocalVerificationComplete, Coherent
  <2>6. FinalStatus(Final, Len(attempts)) \in
          {"verified_after_retry", "locally_validated_after_retry"} =>
            calls = 2 /\ (FirstFailed \/ FirstMalformed)
    <3>1. ASSUME FinalStatus(Final, Len(attempts)) \in
                   {"verified_after_retry", "locally_validated_after_retry"}
          PROVE  Len(attempts) = 2
      BY <2>1, <2>3, <3>1 DEF FinalStatus, Coherent, Attempt, Statuses
    <3>2. Len(attempts) = 2 => calls = 2 /\ Cause(attempts[1])
      BY <1>1 DEF IInv, CallInv
    <3> QED BY <3>1, <3>2 DEF Cause, FirstFailed, FirstMalformed
  <2>7. FinalStatus(Final, Len(attempts)) = "verified_first_attempt" => calls <= 1
    <3>1. ASSUME FinalStatus(Final, Len(attempts)) = "verified_first_attempt"
          PROVE  Len(attempts) = 1 /\ Final.status = "verified"
      BY <2>1, <2>3, <3>1 DEF FinalStatus, Coherent, Attempt, Statuses
    <3>2. Len(attempts) = 1 /\ Final.status = "verified" => ~Cause(attempts[1])
      BY DEF Final, Cause
    <3>3. calls \in 0..2 /\ (calls = 2 => Cause(attempts[1]))
      BY <1>1 DEF IInv, TypeOK, CallInv
    <3> QED BY <3>1, <3>2, <3>3
  <2> QED BY <2>4, <2>5, <2>6, <2>7 DEF ResultMatchesEvidence
<1>2. document # "ok" => ResultMatchesEvidence
  BY DEF ResultMatchesEvidence
<1>3. IInv => ResultMatchesEvidence
  BY <1>1, <1>2
<1> QED BY <1>3, Invariance, PTL

-------------------------------------------------------------------------------
(* The attempts of a run are never rewritten.                              *)

\* What one step may do to the attempts.
Kept == \A i \in 1..Len(attempts) :
          /\ i <= Len(attempts')
          /\ \/ attempts'[i] = attempts[i]
             \/ /\ attempts'[i] = [attempts[i] EXCEPT !.status = "unavailable"]
                /\ attempts[i].status = "failed"
                /\ pc' = "store" /\ calls = 1

LEMMA StepKeeps == IInv /\ Next => Kept
<1> SUFFICES ASSUME IInv, Next PROVE Kept
  OBVIOUS
<1>0. Len(attempts) \in Nat
  BY LenProperties DEF IInv, TypeOK
<1>1. CASE attempts' = attempts
  BY <1>0, <1>1 DEF Kept
<1>2. CASE ReuseRemembered \/ VerifyFirst
  <2>1. attempts = <<>>
    BY <1>2 DEF ReuseRemembered, VerifyFirst, IInv, PhaseInv, BeforeCall
  <2>2. Len(attempts) = 0
    BY <2>1
  <2> QED BY <2>2 DEF Kept
<1>3. CASE DecideNext
  <2>1. Len(attempts) = 1 /\ calls = 1
    BY <1>3 DEF DecideNext, IInv, PhaseInv
  <2>2. PICK a \in Attempt :
          /\ attempts' = <<a>>
          /\ \/ a = attempts[1]
             \/ /\ attempts[1].status = "failed" /\ pc' = "store"
                /\ a = [attempts[1] EXCEPT !.status = "unavailable"]
    BY <1>3, DecideFacts
  <2>3. Len(attempts') = 1 /\ attempts'[1] = a
    BY <2>2
  <2> QED BY <2>1, <2>2, <2>3 DEF Kept
<1>4. CASE VerifySecond
  BY <1>0, <1>4, VerifySecondStep DEF Kept
<1> QED BY <1>1, <1>2, <1>3, <1>4
        DEF Next, Collect, Lookup, InitialSchema, RouteInitial, CallDiagnose, RetrieveSchema,
            CallRepair, SecondCandidateMissing, StoreMemory, WriteDocument

\* A recorded attempt stays what it was; a failure the environment caused is
\* reclassified once, and the run then stops with the one call it has made
\* (diagnose.py, the decision after the first attempt).
THEOREM EvidenceStands == Spec => EvidenceIsKept
<1>1. IInv /\ [Next]_vars => [Kept]_vars
  BY StepKeeps
<1>2. EvidenceIsKept <=> [][Kept]_vars
  BY DEF EvidenceIsKept, Kept
<1> QED BY <1>1, <1>2, Invariance, PTL DEF Spec
-------------------------------------------------------------------------------
(* Progress.                                                               *)

\* The steps a run may still take, at most.
StepsLeft ==
  CASE pc = "collect"  -> 13
    [] pc = "lookup"   -> 12
    [] pc = "reuse"    -> 11
    [] pc = "schema"   -> 10
    [] pc = "route"    -> 9
    [] pc = "call"     -> 8
    [] pc = "verify"   -> 7
    [] pc = "decide"   -> 6
    [] pc = "retrieve" -> 5
    [] pc = "repair"   -> 4
    [] pc = "reverify" -> 3
    [] pc = "store"    -> 2
    [] pc = "write"    -> 1
    [] pc = "end"      -> 0

\* The steps of the pipeline that change only where it is, or little else.
LEMMA ForwardSteps ==
  /\ Collect => pc = "collect" /\ pc' \in {"lookup", "end"}
  /\ Lookup => pc = "lookup" /\ pc' \in {"reuse", "schema"}
  /\ ReuseRemembered => pc = "reuse" /\ pc' \in {"write", "schema"}
  /\ InitialSchema => pc = "schema" /\ pc' \in {"route", "end"}
  /\ RouteInitial => pc = "route" /\ pc' \in {"call", "end"}
  /\ CallDiagnose => pc = "call" /\ pc' \in {"verify", "end"}
  /\ VerifyFirst => pc = "verify" /\ pc' = "decide"
  /\ DecideNext => pc = "decide" /\ pc' \in {"store", "repair", "retrieve"}
  /\ RetrieveSchema => pc = "retrieve" /\ pc' \in {"repair", "store", "end"}
  /\ CallRepair => pc = "repair" /\ pc' \in {"store", "reverify"}
  /\ VerifySecond => pc = "reverify" /\ pc' = "store"
  /\ SecondCandidateMissing => pc = "reverify" /\ pc' = "end"
  /\ StoreMemory => pc = "store" /\ pc' = "write"
  /\ WriteDocument => pc = "write" /\ pc' = "end"
<1>1. /\ Collect => pc = "collect" /\ pc' \in {"lookup", "end"}
      /\ Lookup => pc = "lookup" /\ pc' \in {"reuse", "schema"}
      /\ ReuseRemembered => pc = "reuse" /\ pc' \in {"write", "schema"}
  BY DEF Collect, Lookup, ReuseRemembered, Fail
<1>2. /\ InitialSchema => pc = "schema" /\ pc' \in {"route", "end"}
      /\ RouteInitial => pc = "route" /\ pc' \in {"call", "end"}
      /\ CallDiagnose => pc = "call" /\ pc' \in {"verify", "end"}
      /\ VerifyFirst => pc = "verify" /\ pc' = "decide"
  BY DEF InitialSchema, RouteInitial, CallDiagnose, VerifyFirst, Fail
<1>3. DecideNext => pc = "decide" /\ pc' \in {"store", "repair", "retrieve"}
  BY DEF DecideNext
<1>4. /\ RetrieveSchema => pc = "retrieve" /\ pc' \in {"repair", "store", "end"}
      /\ CallRepair => pc = "repair" /\ pc' \in {"store", "reverify"}
  BY DEF RetrieveSchema, CallRepair, Fail
<1>5. /\ VerifySecond => pc = "reverify" /\ pc' = "store"
      /\ SecondCandidateMissing => pc = "reverify" /\ pc' = "end"
      /\ StoreMemory => pc = "store" /\ pc' = "write"
      /\ WriteDocument => pc = "write" /\ pc' = "end"
  BY DEF VerifySecond, SecondCandidateMissing, StoreMemory, WriteDocument, Fail
<1> QED BY <1>1, <1>2, <1>3, <1>4, <1>5

\* No outcome of a tool, a model or the memory takes a run back to an earlier
\* phase: whichever way it goes, each of its steps brings it closer to the end,
\* so that it takes at most thirteen (diagnose_repository has no loop around the
\* calls, the verifications and the retrieval).
THEOREM RunGoesForward == Spec => [](StepsLeft \in 0..13) /\ [][StepsLeft' < StepsLeft]_vars
<1>1. TypeOK => StepsLeft \in 0..13
  BY DEF TypeOK, Steps, StepsLeft
<1>2. [Next]_vars => [StepsLeft' < StepsLeft]_vars
  <2> SUFFICES ASSUME Next PROVE StepsLeft' < StepsLeft
    OBVIOUS
  <2>1. \/ pc = "collect" /\ pc' \in {"lookup", "end"}
        \/ pc = "lookup" /\ pc' \in {"reuse", "schema"}
        \/ pc = "reuse" /\ pc' \in {"write", "schema"}
        \/ pc = "schema" /\ pc' \in {"route", "end"}
        \/ pc = "route" /\ pc' \in {"call", "end"}
        \/ pc = "call" /\ pc' \in {"verify", "end"}
        \/ pc = "verify" /\ pc' = "decide"
        \/ pc = "decide" /\ pc' \in {"store", "repair", "retrieve"}
        \/ pc = "retrieve" /\ pc' \in {"repair", "store", "end"}
        \/ pc = "repair" /\ pc' \in {"store", "reverify"}
        \/ pc = "reverify" /\ pc' \in {"store", "end"}
        \/ pc = "store" /\ pc' = "write"
        \/ pc = "write" /\ pc' = "end"
    BY ForwardSteps DEF Next
  <2> QED BY <2>1 DEF StepsLeft
<1> QED BY <1>1, <1>2, TypeCorrect, PTL DEF Spec
=============================================================================
