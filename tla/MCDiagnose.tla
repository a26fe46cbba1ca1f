------------------------------ MODULE MCDiagnose ------------------------------
(***************************************************************************)
(* Small instances of Diagnose: the configurations are two sets, each of *)
(* which varies what one group of decisions depends on and fixes the rest. *)
(***************************************************************************)
EXTENDS Diagnose

\* The whole escalation policy, without a memory: automatic context selection
\* in every situation it tells apart, and the two explicit modes.
PolicyConfigs ==
  [context : {"auto"}, verify : {TRUE}, mode : Modes, repairs : BOOLEAN,
   memory : {"off"}, failureStage : {Validate, Plan},
   focus : {"empty", "ambiguous"}, schemaEligible : BOOLEAN,
   unresolved : {FALSE}, anchored : {TRUE}]
  \cup
  [context : ContextModes, verify : {TRUE}, mode : {"full"}, repairs : {TRUE},
   memory : {"off"}, failureStage : {NoStage, Fmt, InitStage},
   focus : {"none", "single"}, schemaEligible : {TRUE},
   unresolved : {TRUE}, anchored : {FALSE}]

\* The failure memory in every context mode, in every state it can be
\* found in, with verification on and off.
MemoryConfigs ==
  [context : ContextModes, verify : BOOLEAN, mode : Modes, repairs : {TRUE},
   memory : {"open"}, failureStage : {Validate}, focus : {"single"},
   schemaEligible : {TRUE}, unresolved : {FALSE}, anchored : BOOLEAN]
  \cup
  [context : {"lightweight", "schema_aware"}, verify : {TRUE}, mode : {"full"},
   repairs : BOOLEAN, memory : {"unopened", "open"},
   failureStage : {Fmt, Plan}, focus : {"single", "ambiguous"},
   schemaEligible : {FALSE}, unresolved : {FALSE}, anchored : {TRUE}]

AllConfigs == PolicyConfigs \cup MemoryConfigs
=============================================================================
