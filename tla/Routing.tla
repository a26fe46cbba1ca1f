------------------------------- MODULE Routing --------------------------------
(***************************************************************************)
(* Model selection (reasoning/routing.py): one selection before the first  *)
(* semantic call and, when there is a second call, one before that, both   *)
(* from a fixed registry of one provider.  Fixed routing keeps the model   *)
(* it was given; automatic routing takes the cheapest usable model below   *)
(* the tier ceiling and moves up only for a context escalation.            *)
(***************************************************************************)
EXTENDS Naturals, FiniteSets

CONSTANTS Models,       \* the model IDs, numbers in their sorting order
          Registries,   \* the registries a run may be configured with
          NoModel       \* no model was requested, or selected yet

ASSUME ModelsAreNumbers == Models \subseteq Nat
ASSUME NoModelIsNoModel == NoModel \notin Models

\* Free, economy, balanced and premium; NoTier is a model nobody registered.
Tiers  == 0..3
NoTier == 4

\* "capable" is a response path the agent can parse: structured output or the
\* JSON fallback.
Definition == [registered : BOOLEAN, tier : Tiers, priority : Nat,
               enabled : BOOLEAN, capable : BOOLEAN]

ASSUME RegistriesAreRegistries == Registries \subseteq [Models -> Definition]

VARIABLES
  registry, mode, requested, ceiling,   \* the configuration of the run
  initial,                              \* the model of the first call
  second,                               \* the model of the second call
  reason,                               \* why there is a second call
  raised                                \* a selection that raised

request == <<registry, mode, requested, ceiling>>
routingVars == <<request, initial, second, reason, raised>>

RoutingTypeOK == /\ registry \in Registries
                 /\ mode \in {"fixed", "auto"}
                 /\ requested \in Models \cup {NoModel}
                 /\ ceiling \in Tiers
                 /\ initial \in Models \cup {NoModel}
                 /\ second \in Models \cup {NoModel}
                 /\ reason \in {"none", "repair", "context_escalation"}
                 /\ raised \in {"nothing", "initial", "second"}

RoutingInit == /\ registry \in Registries
               /\ mode \in {"fixed", "auto"}
               /\ requested \in Models \cup {NoModel}
               /\ ceiling \in Tiers
               /\ initial = NoModel
               /\ second = NoModel
               /\ reason = "none"
               /\ raised = "nothing"

-------------------------------------------------------------------------------
(* The registry.                                                           *)

Known(m)  == registry[m].registered
Usable(m) == registry[m].enabled /\ registry[m].capable
Tier(m)   == IF Known(m) THEN registry[m].tier ELSE NoTier

Eligible(top) == {m \in Models : Known(m) /\ Usable(m) /\ Tier(m) <= top}

\* Ranked by tier, then priority, then model ID.
Before(m, n) ==
  \/ Tier(m) < Tier(n)
  \/ Tier(m) = Tier(n) /\ registry[m].priority < registry[n].priority
  \/ Tier(m) = Tier(n) /\ registry[m].priority = registry[n].priority /\ m < n

Cheapest(S) == CHOOSE m \in S : \A n \in S \ {m} : Before(m, n)

\* A selected model passes assert_allowed.
Allowed(m) == mode = "auto" => Tier(m) # NoTier /\ Tier(m) <= ceiling

-------------------------------------------------------------------------------

\* The model of the first call; the empty set stands for ModelRoutingError.
\* A fixed model need not be registered, and the ceiling is not its concern.
InitialChoice ==
  IF mode = "fixed"
    THEN {m \in {requested} : m # NoModel /\ (Known(m) => Usable(m))}
  ELSE IF requested # NoModel
    THEN {m \in {requested} : Known(m) /\ Usable(m) /\ Tier(m) <= ceiling}
  ELSE IF Eligible(ceiling) # {} THEN {Cheapest(Eligible(ceiling))}
  ELSE {}

\* Mutation: the second call gets another model than the first.
SecondChoiceOther(why) == Eligible(ceiling) \ {initial}

\* Mutation: an escalation goes straight to the ceiling.
SecondChoiceTop(why) ==
  LET top == {m \in Eligible(ceiling) : Tier(m) = ceiling}
  IN IF why = "repair" \/ top = {} THEN {initial} ELSE {Cheapest(top)}

\* The model of the second call.
SecondChoice(why) ==
  LET stronger == {m \in Eligible(ceiling) : Tier(m) > Tier(initial)}
  IN IF mode = "fixed" \/ why = "repair" \/ Tier(initial) = NoTier \/ stronger = {}
     THEN {initial} ELSE {Cheapest(stronger)}

\* Mutation: with nothing to choose from, a built-in default is taken.
SelectInitialDefaulting ==
  /\ initial = NoModel
  /\ raised = "nothing"
  /\ initial' = IF InitialChoice = {} THEN 0 ELSE CHOOSE m \in InitialChoice : TRUE
  /\ UNCHANGED <<request, second, reason, raised>>

SelectInitial ==
  /\ initial = NoModel
  /\ raised = "nothing"
  /\ IF \E m \in InitialChoice : Allowed(m)
     THEN initial' \in InitialChoice /\ UNCHANGED raised
     ELSE raised' = "initial" /\ UNCHANGED initial
  /\ UNCHANGED <<request, second, reason>>

SelectSecond ==
  /\ initial # NoModel
  /\ second = NoModel
  /\ raised = "nothing"
  /\ reason' \in {"repair", "context_escalation"}
  /\ IF \E m \in SecondChoice(reason') : Allowed(m)
     THEN second' \in SecondChoice(reason') /\ UNCHANGED raised
     ELSE raised' = "second" /\ UNCHANGED second
  /\ UNCHANGED <<request, initial>>

RoutingNext == SelectInitial \/ SelectSecond

RoutingSpec == RoutingInit /\ [][RoutingNext]_routingVars

-------------------------------------------------------------------------------
(* Properties.                                                             *)

\* Once the first call could be routed the second one can: no run loses a
\* verified first attempt's decision to a routing error after the first call.
SecondSelectionNeverRaises == raised # "second"

\* Automatic routing never calls a model above the configured ceiling, nor one
\* the registry does not list, disables or cannot parse.  The model changes
\* only for a context escalation in automatic mode, and then to the next usable
\* tier: nothing eligible lies between the two.
ClimbsUnderCeiling ==
  /\ mode = "auto" =>
       \A m \in {initial, second} \ {NoModel} :
         Tier(m) <= ceiling /\ Known(m) /\ Usable(m)
  /\ (second # NoModel /\ second # initial) =>
       /\ mode = "auto" /\ reason = "context_escalation"
       /\ Tier(second) > Tier(initial)
       /\ \A m \in Eligible(ceiling) :
            Tier(m) <= Tier(initial) \/ Tier(m) >= Tier(second)
=============================================================================
