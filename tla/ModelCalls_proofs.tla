--------------------------- MODULE ModelCalls_proofs ---------------------------
(***************************************************************************)
(* What holds of the choice of the two models for every registry, of any   *)
(* size, and every configuration; and of the semantic calls made with them *)
(* for every number of retries and every set of replies.  The second       *)
(* argument does not look into the classification of errors: Verdict stays *)
(* opaque.                                                                 *)
(***************************************************************************)
EXTENDS Routing, OpenRouter, FiniteSetTheorems, WellFoundedInduction, TLAPS

-------------------------------------------------------------------------------
(* The ranking.                                                            *)

LEMMA LeastNumber ==
  ASSUME NEW S, S \subseteq Nat, S # {}
  PROVE  \E m \in S : \A n \in S : m <= n
<1> DEFINE segments == {0..m : m \in S}
<1>1. segments \subseteq FiniteSubsetsOf(Nat) /\ segments # {}
  <2>1. \A m \in Nat : 0..m \in FiniteSubsetsOf(Nat)
    <3> SUFFICES ASSUME NEW m \in Nat PROVE 0..m \in FiniteSubsetsOf(Nat)
      OBVIOUS
    <3>1. IsFiniteSet(0..m) /\ 0..m \subseteq Nat
      BY FS_Interval
    <3> QED BY <3>1 DEF FiniteSubsetsOf
  <2>2. ASSUME NEW x \in segments PROVE x \in FiniteSubsetsOf(Nat)
    BY <2>1, <2>2
  <2> QED BY <2>2
<1>2. \E x \in segments : \A y \in segments : <<y, x>> \notin StrictSubsetOrdering(Nat)
  <2> HIDE DEF segments
  <2> QED BY <1>1, FS_StrictSubsetOrderingWellFounded, WFMin
<1>3. PICK m \in S : \A n \in S : <<0..n, 0..m>> \notin StrictSubsetOrdering(Nat)
  BY <1>2
<1>4. ASSUME NEW n \in S, n < m PROVE FALSE
  <2>1. 0..n \subseteq 0..m /\ m \notin 0..n /\ m \in 0..m
    BY <1>4
  <2>2. 0..n \in SUBSET Nat /\ 0..m \in SUBSET Nat
    OBVIOUS
  <2> QED BY <1>3, <2>1, <2>2 DEF StrictSubsetOrdering
<1> QED BY <1>4

\* The ranking is total on registered models, so there is a cheapest one.
LEMMA CheapestIsFirst ==
  ASSUME registry \in Registries, NEW S, S \subseteq {m \in Models : Known(m)}, S # {}
  PROVE  Cheapest(S) \in S /\ \A n \in S \ {Cheapest(S)} : Before(Cheapest(S), n)
<1>1. \A m \in S : /\ m \in Nat
                   /\ Tier(m) = registry[m].tier /\ Tier(m) \in Nat
                   /\ registry[m].priority \in Nat
  BY ModelsAreNumbers, RegistriesAreRegistries DEF Definition, Tier, Tiers, Known
<1> DEFINE tiers == {Tier(m) : m \in S}
<1>2. PICK a \in S : \A n \in S : Tier(a) <= Tier(n)
  <2>1. \E t \in tiers : \A u \in tiers : t <= u
    <3> tiers \subseteq Nat /\ tiers # {}
      BY <1>1
    <3> HIDE DEF tiers
    <3> QED BY LeastNumber
  <2> QED BY <2>1
<1> DEFINE A == {m \in S : Tier(m) = Tier(a)}
<1> DEFINE priorities == {registry[m].priority : m \in A}
<1>3. PICK b \in A : \A n \in A : registry[b].priority <= registry[n].priority
  <2>1. \E t \in priorities : \A u \in priorities : t <= u
    <3> priorities \subseteq Nat /\ priorities # {}
      BY <1>1, <1>2
    <3> HIDE DEF priorities
    <3> QED BY LeastNumber
  <2> QED BY <2>1
<1> DEFINE B == {m \in A : registry[m].priority = registry[b].priority}
<1>4. PICK c \in B : \A n \in B : c <= n
  <2>1. B \subseteq Nat /\ B # {}
    BY <1>1, <1>3
  <2> HIDE DEF B
  <2> QED BY <2>1, LeastNumber
<1>5. c \in S /\ Tier(c) = Tier(a) /\ registry[c].priority = registry[b].priority
  BY <1>4
<1>6. ASSUME NEW n \in S \ {c} PROVE Before(c, n)
  <2>1. CASE Tier(n) # Tier(a)
    BY <1>1, <1>2, <1>5, <2>1 DEF Before
  <2>2. CASE Tier(n) = Tier(a) /\ registry[n].priority # registry[b].priority
    <3>1. registry[b].priority <= registry[n].priority
      BY <1>3, <2>2
    <3>2. registry[c].priority < registry[n].priority
      BY <1>1, <1>5, <2>2, <3>1
    <3> QED BY <1>5, <2>2, <3>2 DEF Before
  <2>3. CASE Tier(n) = Tier(a) /\ registry[n].priority = registry[b].priority
    <3>1. c <= n
      BY <1>4, <2>3
    <3>2. c < n
      BY <1>1, <1>5, <3>1
    <3> QED BY <1>5, <2>3, <3>2 DEF Before
  <2> QED BY <2>1, <2>2, <2>3
<1> QED BY <1>5, <1>6 DEF Cheapest

LEMMA CheapestIsLowest ==
  ASSUME registry \in Registries, NEW S, S \subseteq {m \in Models : Known(m)}, S # {},
         NEW n \in S
  PROVE  Tier(Cheapest(S)) <= Tier(n)
<1>1. Cheapest(S) = n \/ Before(Cheapest(S), n)
  BY CheapestIsFirst
<1>2. \A m \in S : Tier(m) \in Nat
  BY RegistriesAreRegistries DEF Definition, Tier, Tiers, Known
<1>3. Cheapest(S) \in S
  BY CheapestIsFirst
<1> QED BY <1>1, <1>2, <1>3 DEF Before

-------------------------------------------------------------------------------
(* The invariant of the selections: what is promised of both, and their    *)
(* order.                                                                  *)

RoutingIInv == /\ RoutingTypeOK
               /\ SecondSelectionNeverRaises
               /\ ClimbsUnderCeiling
               /\ initial = NoModel => second = NoModel

LEMMA RoutingInitHolds == RoutingInit => RoutingIInv
BY DEF RoutingInit, RoutingIInv, RoutingTypeOK, SecondSelectionNeverRaises, ClimbsUnderCeiling

LEMMA EligibleIsKnown == Eligible(ceiling) \subseteq {m \in Models : Known(m)}
BY DEF Eligible

LEMMA InitialKeeps == RoutingIInv /\ SelectInitial => RoutingIInv'
<1> SUFFICES ASSUME RoutingIInv, SelectInitial PROVE RoutingIInv'
  OBVIOUS
<1>1. registry' = registry /\ mode' = mode /\ requested' = requested /\ ceiling' = ceiling
  BY DEF SelectInitial, request
<1>2. second = NoModel /\ second' = NoModel
  BY DEF RoutingIInv, SelectInitial
<1>3. raised' # "second"
  BY DEF SelectInitial
<1>4. CASE UNCHANGED initial
  BY <1>1, <1>2, <1>3, <1>4
     DEF RoutingIInv, RoutingTypeOK, SecondSelectionNeverRaises, ClimbsUnderCeiling, SelectInitial,
         Tier, Known, Usable, Eligible
<1>5. CASE initial' \in InitialChoice /\ raised' = raised
  <2>1. /\ initial' \in Models
        /\ mode = "auto" => Known(initial') /\ Usable(initial') /\ Tier(initial') <= ceiling
    <3>1. CASE mode = "fixed" \/ requested # NoModel
      BY <1>5, <3>1 DEF InitialChoice, RoutingIInv, RoutingTypeOK
    <3>2. CASE ~(mode = "fixed" \/ requested # NoModel)
      <4>1. Eligible(ceiling) # {} /\ initial' = Cheapest(Eligible(ceiling))
        BY <1>5, <3>2 DEF InitialChoice
      <4>2. initial' \in Eligible(ceiling)
        BY <4>1, CheapestIsFirst, EligibleIsKnown DEF RoutingIInv, RoutingTypeOK
      <4> QED BY <4>2 DEF Eligible
    <3> QED BY <3>1, <3>2
  <2>2. RoutingTypeOK'
    BY <1>1, <1>2, <1>5, <2>1 DEF SelectInitial, RoutingIInv, RoutingTypeOK
  <2>3. ClimbsUnderCeiling'
    BY <1>1, <1>2, <2>1 DEF ClimbsUnderCeiling, Tier, Known, Usable, Eligible
  <2> QED BY <1>2, <1>3, <2>2, <2>3 DEF RoutingIInv, SecondSelectionNeverRaises
<1> QED BY <1>4, <1>5 DEF SelectInitial

LEMMA SecondKeeps == RoutingIInv /\ SelectSecond => RoutingIInv'
<1> SUFFICES ASSUME RoutingIInv, SelectSecond PROVE RoutingIInv'
  OBVIOUS
<1> DEFINE stronger == {m \in Eligible(ceiling) : Tier(m) > Tier(initial)}
<1>1. /\ registry' = registry /\ mode' = mode /\ requested' = requested /\ ceiling' = ceiling
      /\ initial' = initial /\ initial # NoModel
      /\ raised = "nothing" /\ reason' \in {"repair", "context_escalation"}
  BY DEF SelectSecond, request
<1>2. mode = "auto" => Tier(initial) <= ceiling /\ Known(initial) /\ Usable(initial)
  BY <1>1 DEF RoutingIInv, ClimbsUnderCeiling
<1>3. ceiling < NoTier
  BY DEF RoutingIInv, RoutingTypeOK, Tiers, NoTier
<1>4. ASSUME NEW m \in SecondChoice(reason')
      PROVE  /\ Allowed(m)
             /\ m \in Models
             /\ mode = "auto" => Tier(m) <= ceiling /\ Known(m) /\ Usable(m)
             /\ m # initial => /\ mode = "auto" /\ reason' = "context_escalation"
                               /\ Tier(m) > Tier(initial)
                               /\ \A n \in Eligible(ceiling) :
                                    Tier(n) <= Tier(initial) \/ Tier(n) >= Tier(m)
  <2>1. CASE m = initial
    BY <1>1, <1>2, <1>3, <2>1 DEF Allowed, RoutingIInv, RoutingTypeOK, Tiers, NoTier
  <2>2. CASE m # initial
    <3>1. /\ mode # "fixed" /\ reason' # "repair" /\ stronger # {} /\ Tier(initial) # NoTier
          /\ m = Cheapest(stronger)
      BY <2>2 DEF SecondChoice
    <3>2. stronger \subseteq {n \in Models : Known(n)}
      BY EligibleIsKnown
    <3>3. m \in stronger /\ \A n \in stronger : Tier(m) <= Tier(n)
      BY <3>1, <3>2, CheapestIsFirst, CheapestIsLowest DEF RoutingIInv, RoutingTypeOK
    <3>4. \A n \in Eligible(ceiling) : Tier(n) \in Nat
      BY RegistriesAreRegistries DEF RoutingIInv, RoutingTypeOK, Eligible, Definition, Tier, Tiers, Known
    <3>5. Tier(initial) \in Nat
      BY <1>1, RegistriesAreRegistries
         DEF RoutingIInv, RoutingTypeOK, Definition, Tier, Tiers, Known, NoTier
    <3>6. \A n \in Eligible(ceiling) : Tier(n) <= Tier(initial) \/ Tier(n) >= Tier(m)
      BY <3>3, <3>4, <3>5
    <3>7. m \in Models /\ Known(m) /\ Usable(m) /\ Tier(m) <= ceiling
      BY <3>3 DEF Eligible
    <3>8. mode = "auto" /\ reason' = "context_escalation"
      BY <1>1, <3>1 DEF RoutingIInv, RoutingTypeOK
    <3>9. Tier(m) # NoTier
      BY <1>3, <3>3, <3>4, <3>7 DEF RoutingIInv, RoutingTypeOK, Tiers, NoTier
    <3> QED BY <3>3, <3>6, <3>7, <3>8, <3>9 DEF Allowed
  <2> QED BY <2>1, <2>2
<1>5. SecondChoice(reason') # {}
  BY DEF SecondChoice
<1>6. second' \in SecondChoice(reason') /\ raised' = raised
  BY <1>4, <1>5 DEF SelectSecond
<1>7. second' \in Models
  BY <1>4, <1>6
<1>8. RoutingTypeOK'
  BY <1>1, <1>6, <1>7 DEF RoutingIInv, RoutingTypeOK
<1>9. ClimbsUnderCeiling'
  <2>1. mode = "auto" => Tier(second') <= ceiling /\ Known(second') /\ Usable(second')
    BY <1>4, <1>6
  <2>2. second' # initial =>
          /\ mode = "auto" /\ reason' = "context_escalation"
          /\ Tier(second') > Tier(initial)
          /\ \A n \in Eligible(ceiling) :
               Tier(n) <= Tier(initial) \/ Tier(n) >= Tier(second')
    BY <1>4, <1>6
  <2> QED BY <1>1, <1>2, <2>1, <2>2 DEF ClimbsUnderCeiling, Tier, Known, Usable, Eligible
<1> QED BY <1>1, <1>6, <1>8, <1>9 DEF RoutingIInv, SecondSelectionNeverRaises

LEMMA RoutingInductive == RoutingSpec => []RoutingIInv
<1>1. RoutingIInv /\ UNCHANGED routingVars => RoutingIInv'
  BY DEF RoutingIInv, routingVars, request, RoutingTypeOK, SecondSelectionNeverRaises, ClimbsUnderCeiling,
         Tier, Known, Usable, Eligible
<1>2. RoutingIInv /\ [RoutingNext]_routingVars => RoutingIInv'
  BY <1>1, InitialKeeps, SecondKeeps DEF RoutingNext
<1> QED BY RoutingInitHolds, <1>2, PTL DEF RoutingSpec

-------------------------------------------------------------------------------
(* The theorems of the selections.                                         *)

\* Every variable keeps to its type: a selection gives a model or raises.
THEOREM RoutingTypeCorrect == RoutingSpec => []RoutingTypeOK
<1>1. RoutingIInv => RoutingTypeOK
  BY DEF RoutingIInv
<1> QED BY <1>1, RoutingInductive, PTL

\* No registry and no configuration makes the second selection raise once the
\* first one succeeded.
THEOREM SecondCallIsRoutable == RoutingSpec => []SecondSelectionNeverRaises
<1>1. RoutingIInv => SecondSelectionNeverRaises
  BY DEF RoutingIInv
<1> QED BY <1>1, RoutingInductive, PTL

\* Automatic routing stays under its ceiling, and an escalation climbs to the
\* next usable tier and never further.
THEOREM ClimbIsBounded == RoutingSpec => []ClimbsUnderCeiling
<1>1. RoutingIInv => ClimbsUnderCeiling
  BY DEF RoutingIInv
<1> QED BY <1>1, RoutingInductive, PTL

-------------------------------------------------------------------------------
(* A semantic call.                                                        *)

\* The part of the type invariant that the counters need.
CountersOK == /\ round \in 1..2
              /\ tries \in 0..(MaxRetries + 1)
              /\ requests \in Nat

\* The requests of the first round are counted exactly; a second round was
\* preceded by at most one full round.
Budget == /\ outcome = "pending" => tries <= MaxRetries
          /\ round = 1 => requests = tries
          /\ round = 2 => requests <= MaxRetries + 1 + tries

\* While the call goes on, its last reply was transient or asked for the
\* fallback; without a key there was none.
Going == /\ outcome = "pending" /\ last # NoReply =>
              Transient(last) \/ Verdict(last) \in FallbackCategories
         /\ ~key => last = NoReply
         /\ round = 2 => form = "json"

IInv == /\ CountersOK
        /\ Budget
        /\ Going
        /\ InvalidOnlyAfterFallback
        /\ TransientFailuresAreRetried

LEMMA RetriesInNat == MaxRetries \in Nat
  BY RetriesAreBounded

\* The last rule always applies, so some rule is the first that does.
LEMMA SomeRuleIsFirst ==
  ASSUME NEW status, NEW hint
  PROVE  LET rules == Rules(status, hint)
         IN \E i \in DOMAIN rules : rules[i][1] /\ \A j \in 1..(i - 1) : ~rules[j][1]
<1> DEFINE rules == Rules(status, hint)
<1> DEFINE P(i) == rules[i][1]
<1>1. DOMAIN rules = 1..10 /\ P(10)
  BY DEF Rules
<1> HIDE DEF P, rules
<1>2. \E i \in 1..10 : P(i) /\ \A j \in 1..(i - 1) : ~P(j)
  <2> SUFFICES ASSUME \A i \in 1..10 : P(i) => \E j \in 1..(i - 1) : P(j)
               PROVE  FALSE
    OBVIOUS
  <2>1. ~P(1) /\ ~P(2) /\ ~P(3)
    OBVIOUS
  <2>2. ~P(4) /\ ~P(5) /\ ~P(6)
    BY <2>1
  <2>3. ~P(7) /\ ~P(8) /\ ~P(9)
    BY <2>1, <2>2
  <2>4. ~P(10)
    BY <2>1, <2>2, <2>3
  <2> QED BY <2>4, <1>1
<1> QED BY <1>1, <1>2 DEF P, rules

LEMMA ClassifiedIsCategory ==
  ASSUME NEW status, NEW hint PROVE Classified(status, hint) \in Categories
<1> DEFINE rules == Rules(status, hint)
<1> DEFINE first == CHOOSE i \in DOMAIN rules : /\ rules[i][1]
                                               /\ \A j \in 1..(i - 1) : ~rules[j][1]
<1>1. first \in DOMAIN rules
  BY SomeRuleIsFirst
<1>2. DOMAIN rules = 1..10
  BY DEF Rules
<1>3. /\ rules[1][2] \in Categories /\ rules[2][2] \in Categories
      /\ rules[3][2] \in Categories /\ rules[4][2] \in Categories
      /\ rules[5][2] \in Categories /\ rules[6][2] \in Categories
      /\ rules[7][2] \in Categories /\ rules[8][2] \in Categories
      /\ rules[9][2] \in Categories /\ rules[10][2] \in Categories
  BY DEF Rules, Categories
<1>4. Classified(status, hint) = rules[first][2]
  BY DEF Classified
<1> HIDE DEF rules, first
<1> QED BY <1>1, <1>2, <1>3, <1>4

\* Whatever a reply is, it comes to an answer or to a category.
LEMMA VerdictIsFinal ==
  ASSUME NEW r \in Reply PROVE Verdict(r) \in Categories \cup {"answered"}
<1>1. Classified(r.status, "none") \in Categories
      /\ Classified(IF r.code = 0 THEN r.status ELSE r.code, r.hint) \in Categories
  BY ClassifiedIsCategory
<1>2. r.body \in Bodies /\ r.status \in Nat
  BY DEF Reply
<1> QED BY <1>1, <1>2 DEF Verdict, TransportFailed, Bodies, Categories

LEMMA InitHolds == Init => IInv
  BY RetriesInNat DEF Init, IInv, CountersOK, Budget, Going,
     InvalidOnlyAfterFallback, TransientFailuresAreRetried, FallbackCategories

\* A pending call has all it needs for another request.
LEMMA NoKeyKeeps == IInv /\ NoKey => IInv'
<1> SUFFICES ASSUME IInv, NoKey PROVE IInv'
  OBVIOUS
<1>1. CountersOK' /\ Budget'
  BY DEF IInv, NoKey, CountersOK, Budget, Finish
<1>2. Going' /\ InvalidOnlyAfterFallback' /\ TransientFailuresAreRetried'
  BY DEF IInv, NoKey, Going, InvalidOnlyAfterFallback, TransientFailuresAreRetried,
         Finish, FallbackCategories
<1> QED BY <1>1, <1>2 DEF IInv

LEMMA RetryKeeps == ASSUME NEW r \in Replies, IInv, Retry(r) PROVE IInv'
<1>1. CountersOK' /\ Budget'
  BY RetriesInNat DEF IInv, Retry, Send, Resent, CountersOK, Budget
<1>2. Going'
  <2>1. last' = r /\ Transient(r) /\ key /\ key' = key
    BY DEF Retry, Send, Resent
  <2>2. form' = form /\ round' = round
    BY DEF Retry
  <2> QED BY <2>1, <2>2 DEF IInv, Going, Transient, TransportFailed
<1>3. outcome' = "pending" /\ round' = round /\ form' = form
  BY DEF Retry, Send
<1>4. InvalidOnlyAfterFallback' /\ TransientFailuresAreRetried'
  BY <1>3 DEF InvalidOnlyAfterFallback, TransientFailuresAreRetried,
              FallbackCategories, Categories
<1> QED BY <1>1, <1>2, <1>4 DEF IInv

LEMMA FallBackKeeps == ASSUME NEW r \in Replies, IInv, FallBack(r) PROVE IInv'
<1>1. CountersOK' /\ Budget'
  BY RetriesInNat DEF IInv, FallBack, Send, Curable, CountersOK, Budget
<1>2. last' = r /\ Verdict(r) \in FallbackCategories /\ key' /\ form' = "json"
  BY DEF FallBack, Send, Curable
<1>3. Verdict(last') \in FallbackCategories
  BY <1>2
<1>4. Going'
  BY <1>2, <1>3 DEF Going, Verdict, Transient, TransportFailed
<1>5. outcome' = "pending"
  BY DEF FallBack, Send
<1>6. InvalidOnlyAfterFallback' /\ TransientFailuresAreRetried'
  BY <1>5 DEF InvalidOnlyAfterFallback, TransientFailuresAreRetried,
              FallbackCategories, Categories
<1> QED BY <1>1, <1>4, <1>6 DEF IInv

LEMMA ConcludeKeeps == ASSUME NEW r \in Replies, IInv, Conclude(r) PROVE IInv'
<1>1. outcome' = Verdict(r) /\ last' = r /\ key /\ key' = key /\ outcome = "pending"
      /\ requests' = requests + 1
  BY DEF Conclude, Send, Finish
<1>2. round' = round /\ form' = form /\ tries' = tries + 1
  BY DEF Conclude
<1>3. Verdict(r) \in Categories \cup {"answered"} /\ outcome' # "pending"
  BY <1>1, VerdictIsFinal, RepliesAreReplies DEF Categories
<1>4. CountersOK' /\ Budget'
  BY <1>1, <1>2, <1>3, RetriesInNat DEF IInv, CountersOK, Budget
<1>5. Going'
  BY <1>1, <1>2, <1>3 DEF IInv, Going
<1>6. InvalidOnlyAfterFallback'
  <2>1. ~(round = 1 /\ Verdict(r) \in FallbackCategories)
    BY DEF Conclude, Curable
  <2> QED BY <1>1, <1>2, <2>1 DEF IInv, CountersOK, Going, InvalidOnlyAfterFallback
<1>7. TransientFailuresAreRetried'
  <2>1. Transient(r) => tries >= MaxRetries
    BY RetriesInNat DEF Conclude, Resent, IInv, CountersOK
  <2>2. tries <= MaxRetries
    BY <1>1 DEF IInv, Budget
  <2>3. Transient(r) => tries' = MaxRetries + 1
    BY <1>2, <2>1, <2>2, RetriesInNat DEF IInv, CountersOK
  <2>4. Transient(last') => Transient(r)
    BY <1>1
  <2> QED BY <2>3, <2>4 DEF TransientFailuresAreRetried
<1> QED BY <1>4, <1>5, <1>6, <1>7 DEF IInv

LEMMA BreakKeeps == IInv /\ Break => IInv'
<1> SUFFICES ASSUME IInv, Break PROVE IInv'
  OBVIOUS
<1>1. CountersOK' /\ Budget'
  BY RetriesInNat DEF IInv, Break, Finish, CountersOK, Budget
<1>2. Going' /\ InvalidOnlyAfterFallback' /\ TransientFailuresAreRetried'
  BY DEF IInv, Break, Finish, Going, InvalidOnlyAfterFallback,
         TransientFailuresAreRetried, FallbackCategories, Categories
<1> QED BY <1>1, <1>2 DEF IInv

LEMMA StutterKeeps == IInv /\ UNCHANGED vars => IInv'
<1> SUFFICES ASSUME IInv, UNCHANGED vars PROVE IInv'
  OBVIOUS
<1>1. CountersOK' /\ Budget' /\ InvalidOnlyAfterFallback'
  BY DEF IInv, vars, CountersOK, Budget, InvalidOnlyAfterFallback
<1>2. last' = last /\ key' = key /\ outcome' = outcome /\ round' = round
      /\ form' = form /\ tries' = tries
  BY DEF vars
<1>3. Going'
  BY <1>2 DEF IInv, Going
<1>4. TransientFailuresAreRetried'
  BY <1>2 DEF IInv, TransientFailuresAreRetried
<1> QED BY <1>1, <1>3, <1>4 DEF IInv

LEMMA Inductive == Spec => []IInv
<1>1. IInv /\ [Next]_vars => IInv'
  BY NoKeyKeeps, RetryKeeps, FallBackKeeps, ConcludeKeeps, BreakKeeps, StutterKeeps DEF Next
<1> QED BY InitHolds, <1>1, PTL DEF Spec

\* Every variable keeps to its type.
THEOREM TypeCorrect == Spec => []TypeOK
<1>1. Init => TypeOK
  BY RetriesInNat DEF Init, TypeOK
<1>2. IInv' /\ TypeOK /\ [Next]_vars => TypeOK'
  <2> SUFFICES ASSUME IInv', TypeOK, [Next]_vars PROVE TypeOK'
    OBVIOUS
  <2>1. round' \in 1..2 /\ tries' \in 0..(MaxRetries + 1) /\ requests' \in Nat
    BY DEF IInv, CountersOK
  <2>2. CASE NoKey
    BY <2>1, <2>2 DEF NoKey, Finish, TypeOK, Categories
  <2>3. ASSUME NEW r \in Replies, Retry(r) \/ FallBack(r) \/ Conclude(r) PROVE TypeOK'
    <3>1. key' = key /\ last' = r /\ form' \in {form, "json"}
      BY <2>3 DEF Retry, FallBack, Conclude, Send
    <3>2. outcome' \in {outcome, Verdict(r)}
      BY <2>3 DEF Retry, FallBack, Conclude, Finish
    <3> QED BY <2>1, <3>1, <3>2, VerdictIsFinal, RepliesAreReplies DEF TypeOK
  <2>4. CASE Break
    BY <2>1, <2>4 DEF Break, Finish, TypeOK
  <2>5. CASE UNCHANGED vars
    BY <2>5 DEF vars, TypeOK
  <2> QED BY <2>2, <2>3, <2>4, <2>5 DEF Next
<1> QED BY <1>1, <1>2, Inductive, PTL DEF Spec

\* However the service behaves, a call costs at most its rounds' requests.
THEOREM CallIsBounded == Spec => []RequestsAreBounded
<1>1. IInv => RequestsAreBounded
  BY RetriesInNat DEF IInv, CountersOK, Budget, RequestsAreBounded
<1> QED BY <1>1, Inductive, PTL

\* A transient failure is reported only by a round without a retry left, and an
\* invalid or unsupported answer only after the JSON fallback.
THEOREM RemediesAreUsed == Spec => []CurableIsCured
<1>1. IInv => CurableIsCured
  BY DEF IInv, CurableIsCured
<1> QED BY <1>1, Inductive, PTL

\* A request follows only a transient reply or one the fallback may cure.
THEOREM NothingFollowsAVerdict == Spec => QuietAfterVerdict
<1>1. ASSUME IInv, Next, requests' # requests PROVE outcome = "pending"
  <2>1. ASSUME NoKey PROVE FALSE
    BY <1>1, <2>1 DEF NoKey
  <2>2. ASSUME NEW r \in Replies, Retry(r) \/ FallBack(r) \/ Conclude(r)
        PROVE  outcome = "pending"
    BY <2>2 DEF Retry, FallBack, Conclude, Send
  <2>3. ASSUME Break PROVE outcome = "pending"
    BY <2>3 DEF Break
  <2> QED BY <1>1, <2>1, <2>2, <2>3 DEF Next
<1>2. IInv /\ [Next]_vars => [Quiet]_vars
  BY <1>1 DEF IInv, Going, Quiet, vars
<1> QED BY <1>2, Inductive, PTL DEF Spec, QuietAfterVerdict
-------------------------------------------------------------------------------
(* Progress.                                                               *)

\* The requests a call may still send: those of its round, and those of the
\* fallback while there may be one.
RequestsLeft == IF outcome # "pending" THEN 0
                ELSE (IF round = 1 THEN MaxRetries + 1 ELSE 0) + (MaxRetries + 1 - tries)

\* Neither a service that stays unavailable nor one that answers nonsense for
\* ever keeps a call going: every request sent, and every fallback, leaves fewer
\* to send, and a call that has none left is over (_generate, _post_with_retries).
THEOREM CallGoesForward ==
  Spec => /\ [](RequestsLeft \in Nat)
          /\ [](outcome = "pending" => RequestsLeft > 0)
          /\ [][RequestsLeft' < RequestsLeft]_vars
<1>1. IInv => RequestsLeft \in Nat /\ (outcome = "pending" => RequestsLeft > 0)
  BY RetriesInNat DEF IInv, CountersOK, Budget, RequestsLeft
<1>2. IInv /\ [Next]_vars => [RequestsLeft' < RequestsLeft]_vars
  <2> SUFFICES ASSUME IInv, Next PROVE RequestsLeft' < RequestsLeft
    OBVIOUS
  <2>1. ASSUME outcome = "pending", outcome' # "pending" PROVE RequestsLeft' < RequestsLeft
    BY <1>1, <2>1 DEF RequestsLeft
  <2>2. CASE NoKey
    BY <2>1, <2>2 DEF NoKey, Finish
  <2>3. ASSUME NEW r \in Replies, Retry(r) PROVE RequestsLeft' < RequestsLeft
    BY <2>3, RetriesInNat DEF Retry, Send, Resent, IInv, CountersOK, RequestsLeft
  <2>4. ASSUME NEW r \in Replies, FallBack(r) PROVE RequestsLeft' < RequestsLeft
    <3>1. /\ outcome = "pending" /\ outcome' = "pending"
          /\ round = 1 /\ round' = 2 /\ tries' = 0
      BY <2>4 DEF FallBack, Send, Curable
    <3> QED BY <3>1, RetriesInNat DEF IInv, CountersOK, Budget, RequestsLeft
  <2>5. ASSUME NEW r \in Replies, Conclude(r) PROVE RequestsLeft' < RequestsLeft
    <3>1. outcome = "pending" /\ outcome' = Verdict(r)
      BY <2>5 DEF Conclude, Send, Finish
    <3>2. Verdict(r) # "pending"
      BY VerdictIsFinal, RepliesAreReplies DEF Categories
    <3> QED BY <2>1, <3>1, <3>2
  <2>6. CASE Break
    BY <2>1, <2>6 DEF Break, Finish
  <2> QED BY <2>2, <2>3, <2>4, <2>5, <2>6 DEF Next
<1> QED BY <1>1, <1>2, Inductive, PTL DEF Spec
=============================================================================
