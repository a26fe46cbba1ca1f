------------------------- MODULE Verification_proofs --------------------------
(***************************************************************************)
(* Proofs about the verifier for any number of candidates: its commands    *)
(* run in order, its temporary copy never outlives an answer, and what a   *)
(* caller sees of it is the contract it is written against.                *)
(***************************************************************************)
EXTENDS Verification, TLAPS

\* The stage whose command the verifier is about to run, or to prepare for.
StageAt(gate) ==
  CASE gate \in {"scope", "git", "copy", "patch_check"} -> PatchCheck
    [] gate = "patch_apply"                             -> PatchApply
    [] gate \in {"terraform", "fmt"}                    -> Fmt
    [] gate = "init"                                    -> InitStage
    [] gate = "validate"                                -> Validate
    [] OTHER                                            -> Plan

\* The commands before stage s passed, the others have not been reached.
PassedBefore(s) == [t \in Stages |-> IF t < s THEN "passed" ELSE "none"]

\* While the verifier works, everything it has run so far has passed.
WorkInv == pc # "done" => /\ attempt = NoAttempt
                          /\ commands = PassedBefore(StageAt(pc))

\* Once it is done, it has one of the answers of the contract.
AnswerInv == pc = "done" => /\ attempt \in VerdictsOf(mode)
                            /\ commands = attempt.commands

\* The copy exists exactly between its creation and the answer, and terraform
\* sees it only patched.
CopyInv ==
  /\ pc \in {"scope", "git", "copy"}                      => copy \in {"absent", "removed"}
  /\ pc \in {"patch_check", "patch_apply"}                => copy = "pristine"
  /\ pc \in {"terraform", "fmt", "init", "validate", "plan"} => copy = "patched"
  /\ pc = "done"                                          => copy \in {"absent", "removed"}
  /\ pc = "done" /\ Ran(Fmt)                              => copy = "removed"

IInv == TypeOK /\ WorkInv /\ AnswerInv /\ CopyInv

-------------------------------------------------------------------------------
(* Command results and verdicts.                                           *)

\* Recording the result of the command at hand and skipping the rest gives the
\* commands of a verdict of that stage.
LEMMA SkippedIsRanUpTo ==
  ASSUME NEW s \in Stages, NEW r \in CommandStatuses, r # "none"
  PROVE  SkipFrom(s + 1, [PassedBefore(s) EXCEPT ![s] = r]) = RanUpTo(s, r)
BY DEF SkipFrom, PassedBefore, RanUpTo, Stages, CommandStatuses

LEMMA SkippedAtIsRanUpTo ==
  ASSUME NEW s \in Stages
  PROVE  SkipFrom(s, PassedBefore(s)) = RanUpTo(s, "skipped")
BY DEF SkipFrom, PassedBefore, RanUpTo, Stages

LEMMA PassedOneMore ==
  ASSUME NEW s \in Stages
  PROVE  [PassedBefore(s) EXCEPT ![s] = "passed"] = PassedBefore(s + 1)
<1>1. [PassedBefore(s) EXCEPT ![s] = "passed"] =
        [t \in Stages |-> IF t = s THEN "passed" ELSE PassedBefore(s)[t]]
  BY DEF PassedBefore
<1>2. \A t \in Stages : (IF t = s THEN "passed" ELSE PassedBefore(s)[t]) =
                           IF t < s + 1 THEN "passed" ELSE "none"
  BY DEF PassedBefore, Stages
<1> QED BY <1>1, <1>2 DEF PassedBefore

LEMMA PassedAll == PassedBefore(Plan + 1) = AllPassed
BY DEF PassedBefore, AllPassed, Stages, Plan

LEMMA PassedNone == PassedBefore(PatchCheck) = NothingRun
BY DEF PassedBefore, NothingRun, Stages, PatchCheck

\* The verdict of a command that did not pass is one of the contract.
LEMMA StageVerdictInContract ==
  ASSUME NEW m \in Modes, mode = m, NEW s \in 1..5,
         NEW r \in {"failed", "error"}, NEW marker \in BOOLEAN
  PROVE  StageVerdict(s, r, marker, PassedBefore(s)) \in VerdictsOf(m)
<1>1. s \in Stages \ {Plan} /\ r \in CommandStatuses \ {"none"}
  BY DEF Stages, Plan, CommandStatuses
<1>2. CASE Unavailable(r, marker)
  <2>1. StageVerdict(s, r, marker, PassedBefore(s)) =
          Verdict("unavailable", s, RanUpTo(s, r), "environment", "none", "in_scope", m)
    BY <1>1, <1>2, SkippedIsRanUpTo DEF StageVerdict
  <2> QED BY <1>1, <2>1 DEF VerdictsOf, BlockedVerdicts
<1>3. CASE ~Unavailable(r, marker)
  <2>1. StageVerdict(s, r, marker, PassedBefore(s)) =
          Verdict("failed", s, RanUpTo(s, r), FailedCategory(s), "none", "in_scope", m)
    BY <1>1, <1>3, SkippedIsRanUpTo DEF StageVerdict
  <2>2. r = "failed"
    BY <1>3 DEF Unavailable
  <2> QED BY <1>1, <2>1, <2>2 DEF VerdictsOf, FailedVerdicts
<1> QED BY <1>2, <1>3

\* The commands of a verdict: nothing, a prefix that passed, or all.
Shapes == {NothingRun, AllPassed} \cup {RanUpTo(s, r) : s \in Stages, r \in CommandStatuses}

LEMMA ShapesType == Shapes \subseteq [Stages -> CommandStatuses]
BY DEF Shapes, NothingRun, AllPassed, RanUpTo, CommandStatuses

\* In each of these shapes the commands ran in order.
LEMMA ShapesInOrder ==
  ASSUME NEW cs \in Shapes, NEW s \in Stages, NEW t \in Stages,
         cs[s] \in CommandEnds, t < s
  PROVE  cs[t] = "passed"
BY DEF Shapes, NothingRun, AllPassed, RanUpTo, CommandEnds, Stages

LEMMA VerdictType ==
  ASSUME NEW st \in Statuses, NEW s \in {NoStage} \cup Stages,
         NEW cs \in Shapes, NEW c \in Categories, NEW pl \in PlanClasses,
         NEW p \in PatchScopes, NEW m \in Modes
  PROVE  /\ Verdict(st, s, cs, c, pl, p, m) \in Attempt
         /\ Verdict(st, s, cs, c, pl, p, m).commands \in Shapes
BY ShapesType DEF Verdict, Attempt

\* Every answer of the contract is an attempt with commands of such a shape.
LEMMA VerdictsAreAttempts ==
  ASSUME NEW m \in Modes, NEW v \in VerdictsOf(m)
  PROVE  v \in Attempt /\ v.commands \in Shapes
<1>1. /\ NothingRun \in Shapes /\ AllPassed \in Shapes
      /\ \A s \in Stages, r \in {"failed", "error", "skipped"} : RanUpTo(s, r) \in Shapes
  BY DEF Shapes, CommandStatuses
<1>2. /\ "none" \in PlanClasses /\ {"in_scope", "out_of_scope"} \subseteq PatchScopes
      /\ Stages \subseteq {NoStage} \cup Stages /\ NoStage \in {NoStage} \cup Stages
      /\ {PatchCheck, Fmt, Plan} \subseteq Stages
  BY DEF PlanClasses, PatchScopes, Stages, PatchCheck, Fmt, Plan
<1>3. {"none", "malformed", "unsafe", "unknown", "environment", "semantic"} \subseteq Categories
  BY DEF Categories
<1>4. {"verified", "locally_validated", "failed", "rejected", "unavailable"} \subseteq Statuses
  BY DEF Statuses
<1>5. CASE v \in RejectedVerdicts(m)
  <2>1. PICK c \in {"malformed", "unsafe", "unknown"} :
          v = Verdict("rejected", PatchCheck, NothingRun, c, "none", "out_of_scope", m)
    BY <1>5 DEF RejectedVerdicts
  <2>2. c \in Categories
    BY <1>3
  <2> QED BY <1>1, <1>2, <1>4, <2>1, <2>2, VerdictType, Zenon
<1>6. CASE v \in BlockedVerdicts(m)
  <2>1. PICK s \in Stages, cs \in Shapes :
          v = Verdict("unavailable", s, cs, "environment", "none", "in_scope", m)
    <3>1. CASE \E s \in {PatchCheck, Fmt} :
                  v = Verdict("unavailable", s, RanUpTo(s, "skipped"), "environment",
                              "none", "in_scope", m)
      BY <1>1, <1>2, <3>1, Zenon
    <3>2. CASE v = VerifierRaised("in_scope", m)
      BY <1>1, <1>2, <3>2, Zenon DEF VerifierRaised
    <3>3. CASE \E s \in Stages \ {Plan}, r \in {"failed", "error"} :
                  v = Verdict("unavailable", s, RanUpTo(s, r), "environment", "none",
                              "in_scope", m)
      BY <1>1, <3>3, Zenon
    <3> QED BY <1>6, <3>1, <3>2, <3>3 DEF BlockedVerdicts
  <2> QED BY <1>2, <1>3, <1>4, <2>1, VerdictType, Zenon
<1>7. CASE v \in FailedVerdicts(m)
  <2>1. PICK s \in Stages :
          v = Verdict("failed", s, RanUpTo(s, "failed"), FailedCategory(s), "none",
                      "in_scope", m)
    BY <1>7 DEF FailedVerdicts
  <2>2. FailedCategory(s) \in Categories
    BY <1>3 DEF FailedCategory
  <2> QED BY <1>1, <1>2, <1>4, <2>1, <2>2, VerdictType, Zenon
<1>8. CASE v = PassedVerdict(m)
  <2>1. CASE m = "local"
    BY <1>1, <1>2, <1>3, <1>4, <1>8, <2>1, VerdictType, Zenon DEF PassedVerdict
  <2>2. CASE m # "local"
    BY <1>1, <1>2, <1>3, <1>4, <1>8, <2>2, VerdictType, Zenon DEF PassedVerdict
  <2> QED BY <2>1, <2>2
<1>9. ASSUME NEW class \in PlanClasses, NEW r \in {"failed", "error"},
             v = PlanVerdict(class, r, m)
      PROVE  v \in Attempt /\ v.commands \in Shapes
  <2>1. PICK st \in Statuses, c \in Categories :
          v = Verdict(st, Plan, RanUpTo(Plan, r), c, class, "in_scope", m)
    BY <1>3, <1>4, <1>9 DEF PlanVerdict
  <2> QED BY <1>1, <1>2, <2>1, VerdictType, Zenon
<1> QED BY <1>5, <1>6, <1>7, <1>8, <1>9 DEF VerdictsOf

-------------------------------------------------------------------------------
(* The two ways a gate ends.                                               *)

LEMMA AdvanceStep ==
  ASSUME IInv, pc # "done", NEW gate \in Gates \ {"done"}, NEW tree \in Copies,
         Advance(gate, PassedBefore(StageAt(gate)), tree)
  PROVE  TypeOK' /\ WorkInv' /\ AnswerInv'
<1>1. PassedBefore(StageAt(gate)) \in [Stages -> CommandStatuses]
  BY DEF PassedBefore, CommandStatuses
<1> QED BY <1>1 DEF Advance, IInv, TypeOK, WorkInv, AnswerInv

\* A verdict of the contract may be returned at any gate, provided that it has
\* no result of terraform unless there is a copy.
LEMMA ReturnStep ==
  ASSUME IInv, NEW v \in VerdictsOf(mode), Return(v),
         copy = "absent" => v.commands[Fmt] \notin CommandEnds
  PROVE  IInv'
<1>1. v \in Attempt /\ v.commands \in [Stages -> CommandStatuses]
  BY VerdictsAreAttempts, ShapesType DEF IInv, TypeOK
<1>2. TypeOK' /\ WorkInv' /\ AnswerInv'
  BY <1>1 DEF Return, IInv, TypeOK, WorkInv, AnswerInv, Gates, Copies
<1>3. CopyInv'
  BY DEF Return, CopyInv, Ran
<1> QED BY <1>2, <1>3 DEF IInv

-------------------------------------------------------------------------------
(* The inductive invariant.                                                *)

LEMMA InitInv == Init => IInv
<1> SUFFICES ASSUME Init PROVE IInv
  OBVIOUS
<1>1. WorkInv /\ AnswerInv /\ CopyInv
  BY PassedNone DEF Init, WorkInv, AnswerInv, CopyInv, StageAt
<1>2. TypeOK
  <2>1. 1 \in 1..MaxCandidates
    BY MaxCandidatesIsPositive
  <2>2. NothingRun \in [Stages -> CommandStatuses]
    BY DEF NothingRun, CommandStatuses
  <2> QED BY <2>1, <2>2 DEF Init, TypeOK, Gates, Copies
<1> QED BY <1>1, <1>2 DEF IInv

\* A gate that runs a command keeps the invariant.
LEMMA GateStep ==
  ASSUME IInv, NEW gate \in {"patch_check", "patch_apply", "fmt", "init", "validate"},
         NEW s \in 1..5, s = StageAt(gate),
         NEW next \in Gates \ {"done"}, s + 1 = StageAt(next),
         NEW tree \in Copies, Gate(gate, s, next, tree)
  PROVE  \/ pc = gate /\ Advance(next, PassedBefore(s + 1), tree)
                      /\ TypeOK' /\ WorkInv' /\ AnswerInv'
         \/ IInv'
<1>1. pc = gate /\ pc # "done" /\ s \in Stages /\ mode \in Modes
  BY DEF Gate, Stages, IInv, TypeOK
<1>2. commands = PassedBefore(s)
  BY <1>1 DEF IInv, WorkInv
<1>3. CASE Advance(next, [commands EXCEPT ![s] = "passed"], tree)
  BY <1>1, <1>2, <1>3, PassedOneMore, AdvanceStep
<1>4. ASSUME NEW r \in CommandEnds \ {"passed"}, NEW marker \in BOOLEAN,
             Return(StageVerdict(s, r, marker, commands))
      PROVE  IInv'
  <2>1. StageVerdict(s, r, marker, PassedBefore(s)) \in VerdictsOf(mode)
    BY <1>1, StageVerdictInContract DEF CommandEnds
  <2>2. copy # "absent"
    BY <1>1 DEF IInv, CopyInv
  <2> QED BY <1>2, <1>4, <2>1, <2>2, ReturnStep
<1> QED BY <1>1, <1>3, <1>4 DEF Gate

\* An answer that blames no terraform command may be given without a copy.
LEMMA EarlyVerdicts ==
  ASSUME NEW m \in Modes, NEW v,
         \/ \E c \in {"malformed", "unsafe", "unknown"} :
              v = Verdict("rejected", PatchCheck, NothingRun, c, "none", "out_of_scope", m)
         \/ \E s \in {PatchCheck, Fmt} :
              v = Verdict("unavailable", s, RanUpTo(s, "skipped"), "environment", "none",
                          "in_scope", m)
         \/ v = VerifierRaised("in_scope", m)
  PROVE  v \in VerdictsOf(m) /\ v.commands[Fmt] \notin CommandEnds
<1>1. v \in VerdictsOf(m)
  <2>1. v \in RejectedVerdicts(m) \/ v \in BlockedVerdicts(m)
    BY DEF RejectedVerdicts, BlockedVerdicts
  <2> QED BY <2>1 DEF VerdictsOf
<1>2. v.commands \in {NothingRun, RanUpTo(PatchCheck, "skipped"), RanUpTo(Fmt, "skipped")}
  BY DEF Verdict, VerifierRaised
<1>3. v.commands[Fmt] \in {"none", "skipped"}
  BY <1>2 DEF NothingRun, RanUpTo, Stages, PatchCheck, Fmt
<1> QED BY <1>1, <1>3 DEF CommandEnds

LEMMA NextInv == IInv /\ [Next]_vars => IInv'
<1> SUFFICES ASSUME IInv, [Next]_vars PROVE IInv'
  OBVIOUS
<1>m. mode \in Modes
  BY DEF IInv, TypeOK
<1>w. pc # "done" => commands = PassedBefore(StageAt(pc))
  BY DEF IInv, WorkInv
<1>g. /\ StageAt("scope") = 1 /\ StageAt("git") = 1 /\ StageAt("copy") = 1
      /\ StageAt("patch_check") = 1 /\ StageAt("patch_apply") = 2
      /\ StageAt("terraform") = 3 /\ StageAt("fmt") = 3
      /\ StageAt("init") = 4 /\ StageAt("validate") = 5 /\ StageAt("plan") = 6
  BY DEF StageAt, PatchCheck, PatchApply, Fmt, InitStage, Validate, Plan
<1>1. CASE CheckScope
  <2>1. CASE Advance("git", commands, copy)
    <3>1. commands = PassedBefore(StageAt("git")) /\ copy \in {"absent", "removed"}
      BY <1>1, <1>g, <1>w DEF CheckScope, IInv, CopyInv
    <3> QED BY <1>1, <2>1, <3>1, AdvanceStep
            DEF CheckScope, Advance, IInv, CopyInv, Gates, Copies
  <2>2. ASSUME NEW c \in {"malformed", "unsafe", "unknown"},
               Return(Verdict("rejected", PatchCheck, commands, c, "none",
                              "out_of_scope", mode))
        PROVE  IInv'
    <3>1. commands = NothingRun
      BY <1>1, <1>g, <1>w, PassedNone DEF CheckScope, PatchCheck
    <3> QED BY <1>m, <2>2, <3>1, EarlyVerdicts, ReturnStep
  <2> QED BY <1>1, <2>1, <2>2 DEF CheckScope
<1>2. CASE FindGit
  <2>1. CASE Advance("copy", commands, copy)
    <3>1. commands = PassedBefore(StageAt("copy")) /\ copy \in {"absent", "removed"}
      BY <1>2, <1>g, <1>w DEF FindGit, IInv, CopyInv
    <3> QED BY <1>2, <2>1, <3>1, AdvanceStep
            DEF FindGit, Advance, IInv, CopyInv, Gates, Copies
  <2>2. CASE Return(Verdict("unavailable", PatchCheck, SkipFrom(PatchCheck, commands),
                            "environment", "none", "in_scope", mode))
    <3>1. SkipFrom(PatchCheck, commands) = RanUpTo(PatchCheck, "skipped")
      BY <1>2, <1>g, <1>w, SkippedAtIsRanUpTo DEF FindGit, PatchCheck, Stages
    <3> QED BY <1>m, <2>2, <3>1, EarlyVerdicts, ReturnStep
  <2> QED BY <1>2, <2>1, <2>2 DEF FindGit
<1>3. CASE MakeCopy
  <2>1. CASE Advance("patch_check", commands, "pristine")
    <3>1. commands = PassedBefore(StageAt("patch_check"))
      BY <1>3, <1>g, <1>w DEF MakeCopy
    <3> QED BY <1>3, <2>1, <3>1, AdvanceStep
            DEF MakeCopy, Advance, IInv, CopyInv, Gates, Copies
  <2>2. CASE Return(Verdict("unavailable", PatchCheck, commands, "environment",
                            "none", "in_scope", mode))
    <3>1. commands = NothingRun
      BY <1>3, <1>g, <1>w, PassedNone DEF MakeCopy, PatchCheck
    <3> QED BY <1>m, <2>2, <3>1, EarlyVerdicts, ReturnStep DEF VerifierRaised
  <2> QED BY <1>3, <2>1, <2>2 DEF MakeCopy
<1>4. CASE RunPatchCheck
  <2>1. copy \in Copies /\ (pc = "patch_check" => copy = "pristine")
    BY DEF IInv, TypeOK, CopyInv
  <2> QED BY <1>4, <1>g, <2>1, GateStep
          DEF RunPatchCheck, Advance, IInv, CopyInv, Gates, PatchCheck
<1>5. CASE RunPatchApply
  BY <1>5, <1>g, GateStep DEF RunPatchApply, Advance, IInv, CopyInv, Gates, Copies, PatchApply
<1>6. CASE FindTerraform
  <2>1. CASE Advance("fmt", commands, copy)
    <3>1. commands = PassedBefore(StageAt("fmt")) /\ copy = "patched"
      BY <1>6, <1>g, <1>w DEF FindTerraform, IInv, CopyInv
    <3> QED BY <1>6, <2>1, <3>1, AdvanceStep
            DEF FindTerraform, Advance, IInv, CopyInv, Gates, Copies
  <2>2. CASE Return(Verdict("unavailable", Fmt, SkipFrom(Fmt, commands),
                            "environment", "none", "in_scope", mode))
    <3>1. SkipFrom(Fmt, commands) = RanUpTo(Fmt, "skipped")
      BY <1>6, <1>g, <1>w, SkippedAtIsRanUpTo DEF FindTerraform, Fmt, Stages
    <3> QED BY <1>m, <2>2, <3>1, EarlyVerdicts, ReturnStep
  <2> QED BY <1>6, <2>1, <2>2 DEF FindTerraform
<1>7. CASE RunFmt
  <2>1. copy \in Copies /\ (pc = "fmt" => copy = "patched")
    BY DEF IInv, TypeOK, CopyInv
  <2> QED BY <1>7, <1>g, <2>1, GateStep DEF RunFmt, Advance, IInv, CopyInv, Gates, Fmt
<1>8. CASE RunInit
  <2>1. copy \in Copies /\ (pc = "init" => copy = "patched")
    BY DEF IInv, TypeOK, CopyInv
  <2> QED BY <1>8, <1>g, <2>1, GateStep DEF RunInit, Advance, IInv, CopyInv, Gates, InitStage
<1>9. CASE RunValidate
  <2>1. copy \in Copies /\ (pc = "validate" => copy = "patched")
    BY DEF IInv, TypeOK, CopyInv
  <2> QED BY <1>9, <1>g, <2>1, GateStep
          DEF RunValidate, Advance, IInv, CopyInv, Gates, Validate
<1>10. ASSUME pc = "plan", NEW v \in VerdictsOf(mode), Return(v) PROVE IInv'
  <2>1. copy # "absent"
    BY <1>10 DEF IInv, CopyInv
  <2> QED BY <1>10, <2>1, ReturnStep
<1>11. CASE SkipPlan
  <2>1. SkipFrom(Plan, commands) = RanUpTo(Plan, "skipped")
    BY <1>11, <1>g, <1>w, SkippedAtIsRanUpTo DEF SkipPlan, Plan, Stages
  <2>2. Verdict("locally_validated", NoStage, SkipFrom(Plan, commands), "none", "none",
                "in_scope", mode) \in VerdictsOf(mode)
    <3>1. Verdict("locally_validated", NoStage, SkipFrom(Plan, commands), "none", "none",
                  "in_scope", mode) = PassedVerdict(mode)
      BY <1>11, <2>1 DEF SkipPlan, PassedVerdict
    <3> QED BY <3>1 DEF VerdictsOf
  <2> QED BY <1>10, <1>11, <2>2 DEF SkipPlan
<1>12. CASE RunPlan
  <2>1. [commands EXCEPT ![Plan] = "passed"] = AllPassed
    BY <1>12, <1>g, <1>w, PassedOneMore, PassedAll DEF RunPlan, Plan, Stages
  <2>2. Verdict("verified", NoStage, AllPassed, "none", "none", "in_scope", mode)
          \in VerdictsOf(mode)
    BY <1>12 DEF RunPlan, VerdictsOf, PassedVerdict
  <2>3. ASSUME NEW r \in CommandEnds \ {"passed"}, NEW class \in PlanClasses \ {"none"}
        PROVE  PlanVerdict(class, r, mode) \in VerdictsOf(mode)
    <3>1. r \in {"failed", "error"}
      BY DEF CommandEnds
    <3>2. PlanVerdict(class, r, mode) \in
            {PlanVerdict(c, q, mode) : c \in PlanClasses \ {"none"}, q \in {"failed", "error"}}
      BY <3>1
    <3>3. mode = "full"
      BY <1>12 DEF RunPlan
    <3> QED BY <3>2, <3>3 DEF VerdictsOf
  <2> QED BY <1>10, <1>12, <2>1, <2>2, <2>3 DEF RunPlan
<1>13. CASE CommandRaises
  BY <1>m, <1>13, EarlyVerdicts, ReturnStep DEF CommandRaises
<1>14. CASE NextCandidate
  <2>1. copy \in {"absent", "removed"}
    BY <1>14 DEF NextCandidate, IInv, CopyInv
  <2>2. (WorkInv /\ AnswerInv /\ CopyInv)'
    BY <1>14, <2>1, PassedNone DEF NextCandidate, WorkInv, AnswerInv, CopyInv, StageAt
  <2>3. candidate' \in 1..MaxCandidates
    BY <1>14, MaxCandidatesIsPositive DEF NextCandidate, IInv, TypeOK
  <2>4. NothingRun \in [Stages -> CommandStatuses]
    BY DEF NothingRun, CommandStatuses
  <2> QED BY <1>14, <2>2, <2>3, <2>4 DEF NextCandidate, IInv, TypeOK, Gates
<1>15. CASE UNCHANGED vars
  BY <1>15 DEF vars, IInv, TypeOK, WorkInv, AnswerInv, CopyInv, Ran
<1> QED
  BY <1>1, <1>2, <1>3, <1>4, <1>5, <1>6, <1>7, <1>8, <1>9, <1>11, <1>12, <1>13, <1>14,
     <1>15 DEF Next

LEMMA Inductive == Spec => []IInv
BY InitInv, NextInv, PTL DEF Spec

-------------------------------------------------------------------------------
(* The theorems.                                                           *)

\* Whatever tools are missing and however their commands end, every variable
\* of the verifier stays in its type.
THEOREM TypeCorrect == Spec => []TypeOK
<1>1. IInv => TypeOK
  BY DEF IInv
<1> QED BY <1>1, Inductive, PTL

LEMMA LocalVerdicts ==
  ASSUME NEW v \in VerdictsOf("local")
  PROVE  v.commands[Plan] \notin CommandEnds
<1>1. \A s \in Stages \ {Plan}, r \in CommandStatuses :
        RanUpTo(s, r)[Plan] \notin CommandEnds
  BY DEF RanUpTo, Stages, Plan, CommandEnds
<1>2. NothingRun[Plan] \notin CommandEnds
  BY DEF NothingRun, Stages, Plan, CommandEnds
<1>3. CASE v \in RejectedVerdicts("local")
  BY <1>2, <1>3 DEF RejectedVerdicts, Verdict
<1>4. CASE v \in BlockedVerdicts("local")
  BY <1>1, <1>2, <1>4
     DEF BlockedVerdicts, VerifierRaised, Verdict, Stages, PatchCheck, Fmt, Plan, CommandStatuses
<1>5. CASE v \in FailedVerdicts("local")
  BY <1>1, <1>5 DEF FailedVerdicts, Verdict, CommandStatuses
<1>6. CASE v = PassedVerdict("local")
  BY <1>6 DEF PassedVerdict, Verdict, RanUpTo, Stages, Plan, CommandEnds
<1> QED BY <1>3, <1>4, <1>5, <1>6 DEF VerdictsOf

\* No command is started unless every earlier one passed, terraform never sees
\* a copy the patch was not applied to, and local mode never plans.
THEOREM CommandsRunInOrder == Spec => []GatesInOrder
<1>1. IInv => GatesInOrder
  <2> SUFFICES ASSUME IInv PROVE GatesInOrder
    OBVIOUS
  <2>1. CASE pc # "done"
    <3>1. commands = PassedBefore(StageAt(pc))
      BY <2>1 DEF IInv, WorkInv
    <3>2. StageAt(pc) \in Stages /\ (StageAt(pc) > Fmt => copy = "patched")
      BY <2>1 DEF IInv, TypeOK, Gates, CopyInv, StageAt, Stages, PatchCheck, PatchApply, Fmt,
                  InitStage, Validate, Plan
    <3>3. ~Ran(Plan)
      BY <3>1, <3>2 DEF Ran, PassedBefore, CommandEnds, Stages, Plan
    <3> QED BY <3>1, <3>2, <3>3 DEF GatesInOrder, Ran, CommandEnds, PassedBefore, Stages, Fmt
  <2>2. CASE pc = "done"
    <3>1. commands \in Shapes
      BY <2>2, VerdictsAreAttempts DEF IInv, TypeOK, AnswerInv
    <3>2. Ran(Fmt) => copy = "removed"
      BY <2>2 DEF IInv, CopyInv
    <3>3. mode = "local" => ~Ran(Plan)
      BY <2>2, LocalVerdicts DEF IInv, AnswerInv, Ran
    <3> QED BY <3>1, <3>2, <3>3, ShapesInOrder DEF GatesInOrder, Ran
  <2> QED BY <2>1, <2>2
<1> QED BY <1>1, Inductive, PTL

\* What AssessmentsAgree says of one attempt.
Agree(a) ==
  /\ ApplySafety(a) = "verified" <=> FinalStatus(a, 1) = "verified_first_attempt"
  /\ MutationEligibility(a, TRUE) = "verified" <=> ApplySafety(a) = "verified"
  /\ MutationEligibility(a, TRUE) = "conditional" <=>
       ApplySafety(a) = "conditionally_eligible"
  /\ ApplySafety(a) = "conditionally_eligible" =>
       /\ PrePlanPassed(a)
       /\ a.status \in {"locally_validated", "unavailable"}
       /\ a.mode = "full" => a.category = "environment"

\* An attempt that ended before the plan for whatever reason is good for nothing.
LEMMA EarlyEndsAgree ==
  ASSUME NEW a, a.status \in {"rejected", "unavailable", "failed"}, a.plan = "none"
  PROVE  Agree(a)
<1>1. ~FullyVerified(a) /\ ~LocallyValidated(a)
  BY DEF FullyVerified, LocallyValidated
<1>2. Outcome(a) \in {"patch_invalid", "environment_blocked", "semantic_failure",
                       "unknown_failure"}
  BY <1>1 DEF Outcome
<1>3. ApplySafety(a) = "ineligible"
  BY <1>1 DEF ApplySafety
<1>4. MutationEligibility(a, TRUE) = "ineligible"
  BY <1>2 DEF MutationEligibility, ConditionalVerificationComplete
<1>5. FinalStatus(a, 1) # "verified_first_attempt"
  BY DEF FinalStatus
<1> QED BY <1>3, <1>4, <1>5 DEF Agree

\* A plan that did not pass makes a candidate conditional exactly when the
\* environment is to blame.
LEMMA FailedPlansAgree ==
  ASSUME NEW a, a.mode = "full", a.patch = "in_scope",
         PrePlanPassed(a), PlanAttempted(a), ~Passed(a, Plan),
         \/ a.plan = "environmental" /\ a.status = "unavailable" /\ a.category = "environment"
         \/ a.plan \in {"semantic", "assertion", "unknown"} /\ a.status = "failed"
  PROVE  Agree(a)
<1>1. ~FullyVerified(a) /\ ~LocallyValidated(a) /\ ~PlanPassed(a)
  BY DEF FullyVerified, LocallyValidated, PlanPassed
<1>2. FinalStatus(a, 1) # "verified_first_attempt"
  BY DEF FinalStatus
<1>3. CASE a.plan = "environmental"
  <2>1. Outcome(a) = "environment_blocked"
    BY <1>1, <1>3 DEF Outcome, PlanOutcome
  <2>2. ApplySafety(a) = "conditionally_eligible"
    BY <1>1, <1>3, <2>1 DEF ApplySafety
  <2>3. MutationEligibility(a, TRUE) = "conditional"
    BY <1>1, <1>3, <2>1 DEF MutationEligibility, ConditionalVerificationComplete
  <2> QED BY <1>2, <1>3, <2>2, <2>3 DEF Agree
<1>4. CASE a.plan \in {"semantic", "assertion", "unknown"}
  <2>1. Outcome(a) \in {"semantic_failure", "unknown_failure"}
    BY <1>1, <1>4 DEF Outcome, PlanOutcome
  <2>2. ApplySafety(a) = "ineligible"
    BY <1>1, <1>4, <2>1 DEF ApplySafety
  <2>3. MutationEligibility(a, TRUE) = "ineligible"
    BY <1>4, <2>1 DEF MutationEligibility
  <2> QED BY <1>2, <2>2, <2>3 DEF Agree
<1> QED BY <1>3, <1>4

LEMMA PassedVerdictsAgree == ASSUME NEW m \in Modes PROVE Agree(PassedVerdict(m))
<1> DEFINE a == PassedVerdict(m)
<1>1. CASE m = "local"
  <2>1. /\ a.status = "locally_validated" /\ a.mode = "local" /\ a.patch = "in_scope"
        /\ a.commands = RanUpTo(Plan, "skipped")
    BY <1>1 DEF PassedVerdict, Verdict
  <2>2. PrePlanPassed(a) /\ ~PlanAttempted(a)
    BY <2>1 DEF PrePlanPassed, Passed, PlanAttempted, RanUpTo, Stages, Plan
  <2> HIDE DEF a
  <2>3. ~FullyVerified(a) /\ LocallyValidated(a) /\ Outcome(a) = "locally_validated"
    BY <2>1, <2>2 DEF FullyVerified, LocallyValidated, Outcome
  <2>4. ApplySafety(a) = "conditionally_eligible"
    BY <2>3 DEF ApplySafety
  <2>5. MutationEligibility(a, TRUE) = "conditional"
    BY <2>1, <2>2, <2>3 DEF MutationEligibility, LocalVerificationComplete
  <2>6. FinalStatus(a, 1) # "verified_first_attempt"
    BY <2>1 DEF FinalStatus
  <2>7. Agree(a)
    BY <2>1, <2>2, <2>4, <2>5, <2>6 DEF Agree
  <2> QED BY <2>7 DEF a
<1>2. CASE m = "full"
  <2>1. /\ a.status = "verified" /\ a.mode = "full" /\ a.patch = "in_scope"
        /\ a.commands = AllPassed
    BY <1>2 DEF PassedVerdict, Verdict
  <2>2. PrePlanPassed(a) /\ PlanPassed(a) /\ PlanRequested(a)
    BY <2>1 DEF PrePlanPassed, PlanPassed, PlanRequested, Passed, AllPassed, Stages, Plan
  <2> HIDE DEF a
  <2>3. FullyVerified(a) /\ Outcome(a) = "fully_verified"
    BY <2>1, <2>2 DEF FullyVerified, Outcome
  <2>4. ApplySafety(a) = "verified"
    BY <2>3 DEF ApplySafety
  <2>5. MutationEligibility(a, TRUE) = "verified"
    BY <2>1, <2>2, <2>3 DEF MutationEligibility, VerificationPassed, VerificationComplete
  <2>6. FinalStatus(a, 1) = "verified_first_attempt"
    BY <2>1 DEF FinalStatus
  <2>7. Agree(a)
    BY <2>4, <2>5, <2>6 DEF Agree
  <2> QED BY <2>7 DEF a
<1> QED BY <1>1, <1>2 DEF Modes

LEMMA VerdictsAgree == ASSUME NEW m \in Modes, NEW v \in VerdictsOf(m) PROVE Agree(v) /\ v.mode = m
<1>1. CASE v \in RejectedVerdicts(m) \cup BlockedVerdicts(m) \cup FailedVerdicts(m)
  <2>1. v.status \in {"rejected", "unavailable", "failed"} /\ v.plan = "none" /\ v.mode = m
    BY <1>1 DEF RejectedVerdicts, BlockedVerdicts, FailedVerdicts, VerifierRaised, Verdict
  <2> QED BY <2>1, EarlyEndsAgree
<1>2. CASE v = PassedVerdict(m)
  BY <1>2, PassedVerdictsAgree DEF PassedVerdict, Verdict
<1>3. ASSUME NEW c \in PlanClasses \ {"none"}, NEW r \in {"failed", "error"},
             m = "full", v = PlanVerdict(c, r, m)
      PROVE  Agree(v) /\ v.mode = m
  <2>1. /\ v.mode = "full" /\ v.patch = "in_scope" /\ v.plan = c
        /\ v.commands = RanUpTo(Plan, r)
        /\ v.status = IF c = "environmental" THEN "unavailable" ELSE "failed"
        /\ c = "environmental" => v.category = "environment"
    BY <1>3 DEF PlanVerdict, Verdict
  <2>2. PrePlanPassed(v) /\ PlanAttempted(v) /\ ~Passed(v, Plan)
    BY <2>1 DEF PrePlanPassed, PlanAttempted, Passed, RanUpTo, Stages, Plan
  <2> QED BY <1>3, <2>1, <2>2, FailedPlansAgree DEF PlanClasses
<1> QED BY <1>1, <1>2, <1>3 DEF VerdictsOf

\* Whatever the verifier returns, assessment, final status and mutation
\* eligibility say the same of it, and what they call conditional did not fail.
THEOREM ReadingsAgree == Spec => []AssessmentsAgree
<1>1. IInv => AssessmentsAgree
  <2> SUFFICES ASSUME IInv, attempt # NoAttempt PROVE Agree(attempt) /\ attempt.mode = mode
    BY DEF AssessmentsAgree, Agree
  <2>1. pc = "done" /\ mode \in Modes
    BY DEF IInv, WorkInv, TypeOK
  <2> QED BY <2>1, VerdictsAgree DEF IInv, AnswerInv
<1> QED BY <1>1, Inductive, PTL

\* A caller that relies on the contract alone, one answer out of VerdictsOf
\* for each candidate it asks about, may be given the staged pipeline.
THEOREM PipelineImplementsContract == Spec => ImplementsContract
<1>1. Init => Contract!Init
  BY DEF Init, Contract!Init
<1>2. IInv /\ IInv' /\ [Next]_vars => [Contract!Next]_(Contract!vars)
  <2> SUFFICES ASSUME IInv, IInv', [Next]_vars PROVE [Contract!Next]_(Contract!vars)
    OBVIOUS
  <2>1. CASE NextCandidate
    <3>1. attempt # NoAttempt
      BY <2>1, VerdictsAreAttempts, NoAttemptIsNoAttempt DEF NextCandidate, IInv, TypeOK, AnswerInv
    <3> QED BY <2>1, <3>1 DEF NextCandidate, Contract!Ask, Contract!Next
  <2>2. ASSUME NEW v, pc # "done", Return(v)
        PROVE  Contract!Next
    <3>1. attempt = NoAttempt /\ attempt' \in VerdictsOf(mode)
      BY <2>2 DEF Return, IInv, WorkInv, AnswerInv
    <3> QED BY <2>2, <3>1 DEF Return, Contract!Answer, Contract!Next
  <2>3. ASSUME NEW gate, NEW cs, NEW tree, Advance(gate, cs, tree)
        PROVE  UNCHANGED Contract!vars
    BY <2>3 DEF Advance, Contract!vars
  <2>4. CASE UNCHANGED vars
    BY <2>4 DEF vars, Contract!vars
  <2>5. CASE RunPatchCheck \/ RunPatchApply \/ RunFmt \/ RunInit \/ RunValidate
    BY <2>2, <2>3, <2>5 DEF RunPatchCheck, RunPatchApply, RunFmt, RunInit, RunValidate, Gate
  <2>6. CASE CheckScope \/ FindGit \/ MakeCopy \/ FindTerraform
    BY <2>2, <2>3, <2>6 DEF CheckScope, FindGit, MakeCopy, FindTerraform
  <2>7. CASE SkipPlan \/ RunPlan \/ CommandRaises
    BY <2>2, <2>7 DEF SkipPlan, RunPlan, CommandRaises
  <2> QED BY <2>1, <2>4, <2>5, <2>6, <2>7 DEF Next
<1> QED BY <1>1, <1>2, Inductive, PTL DEF Spec, ImplementsContract, Contract!Spec
-------------------------------------------------------------------------------
(* Progress.                                                               *)

\* The gates from a position to the answer.
GatesLeft(gate) ==
  CASE gate = "scope"       -> 10
    [] gate = "git"         -> 9
    [] gate = "copy"        -> 8
    [] gate = "patch_check" -> 7
    [] gate = "patch_apply" -> 6
    [] gate = "terraform"   -> 5
    [] gate = "fmt"         -> 4
    [] gate = "init"        -> 3
    [] gate = "validate"    -> 2
    [] gate = "plan"        -> 1
    [] gate = "done"        -> 0

\* The steps the verifications of a run may still take: eleven with each
\* candidate that may come, and the gates left with this one.
StepsLeft == 11 * (MaxCandidates - candidate) + GatesLeft(pc)

\* A gate that does not pass returns, and one that passes is followed by the next.
LEMMA GatesGoForward ==
  ASSUME TypeOK, Next, ~NextCandidate
  PROVE  candidate' = candidate /\ GatesLeft(pc') < GatesLeft(pc)
<1>1. ASSUME NEW v, Return(v) PROVE candidate' = candidate /\ pc' = "done"
  BY <1>1 DEF Return
<1>2. ASSUME NEW gate, NEW cs, NEW tree, Advance(gate, cs, tree)
      PROVE  candidate' = candidate /\ pc' = gate
  BY <1>2 DEF Advance
<1>3. /\ candidate' = candidate
      /\ \/ pc = "scope" /\ pc' \in {"git", "done"}
         \/ pc = "git" /\ pc' \in {"copy", "done"}
         \/ pc = "copy" /\ pc' \in {"patch_check", "done"}
         \/ pc = "patch_check" /\ pc' \in {"patch_apply", "done"}
         \/ pc = "patch_apply" /\ pc' \in {"terraform", "done"}
         \/ pc = "terraform" /\ pc' \in {"fmt", "done"}
         \/ pc = "fmt" /\ pc' \in {"init", "done"}
         \/ pc = "init" /\ pc' \in {"validate", "done"}
         \/ pc = "validate" /\ pc' \in {"plan", "done"}
         \/ pc = "plan" /\ pc' = "done"
  <2>1. CASE CheckScope \/ FindGit \/ MakeCopy \/ FindTerraform
    BY <1>1, <1>2, <2>1 DEF CheckScope, FindGit, MakeCopy, FindTerraform
  <2>2. CASE RunPatchCheck \/ RunPatchApply \/ RunFmt \/ RunInit \/ RunValidate
    BY <1>1, <1>2, <2>2 DEF RunPatchCheck, RunPatchApply, RunFmt, RunInit, RunValidate, Gate
  <2>3. CASE SkipPlan \/ RunPlan \/ CommandRaises
    BY <1>1, <2>3 DEF SkipPlan, RunPlan, CommandRaises
  <2> QED BY <2>1, <2>2, <2>3 DEF Next
<1> QED BY <1>3 DEF GatesLeft

\* Every step of a verification brings its answer closer and every candidate
\* is one of the few that may come: with any number of candidates a run's
\* verifications take a bounded number of steps (each gate of
\* _verify_candidate_patch either returns or goes on, none is repeated).
THEOREM VerificationGoesForward ==
  Spec => [](StepsLeft \in Nat) /\ [][StepsLeft' < StepsLeft]_vars
<1>1. \A gate \in Gates : GatesLeft(gate) \in 0..10
  BY DEF Gates, GatesLeft
<1>2. TypeOK => StepsLeft \in Nat
  BY <1>1, MaxCandidatesIsPositive DEF TypeOK, StepsLeft
<1>3. TypeOK /\ TypeOK' /\ [Next]_vars => [StepsLeft' < StepsLeft]_vars
  <2> SUFFICES ASSUME TypeOK, TypeOK', Next PROVE StepsLeft' < StepsLeft
    OBVIOUS
  <2>1. /\ candidate \in Nat /\ candidate' \in Nat /\ MaxCandidates \in Nat
        /\ GatesLeft(pc) \in 0..10 /\ GatesLeft(pc') \in 0..10
    BY <1>1, MaxCandidatesIsPositive DEF TypeOK
  <2>2. CASE NextCandidate
    <3>1. candidate' = candidate + 1
      BY <2>2 DEF NextCandidate
    <3>2. GatesLeft(pc') < 11 + GatesLeft(pc)
      BY <2>1
    <3> QED BY <2>1, <3>1, <3>2 DEF StepsLeft
  <2>3. CASE ~NextCandidate
    <3>1. candidate' = candidate /\ GatesLeft(pc') < GatesLeft(pc)
      BY <2>3, GatesGoForward
    <3> QED BY <2>1, <3>1 DEF StepsLeft
  <2> QED BY <2>2, <2>3
<1> QED BY <1>2, <1>3, TypeCorrect, PTL DEF Spec
=============================================================================
