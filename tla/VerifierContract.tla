--------------------------- MODULE VerifierContract ---------------------------
(***************************************************************************)
(* What a caller of the patch verifier may rely on: for each candidate it  *)
(* gives one answer, the answer is one of VerdictsOf(mode) for the mode of *)
(* the run, and the answer stands until the caller asks about another      *)
(* candidate.  The orchestration (module Diagnose) is written against this *)
(* contract only; module Verification, the staged pipeline with its        *)
(* commands and its temporary copy, implements it.                         *)
(***************************************************************************)
EXTENDS Naturals

CONSTANTS Modes,          \* the verification modes
          VerdictsOf(_),  \* the answers possible in a mode
          NoAttempt,      \* no answer yet
          MaxCandidates   \* candidates one run may have verified

VARIABLES
  mode,       \* the verification mode of the run
  candidate,  \* which candidate of the run is asked about
  attempt     \* the answer, NoAttempt while there is none

vars == <<mode, candidate, attempt>>

Init == /\ mode \in Modes
        /\ candidate = 1
        /\ attempt = NoAttempt

\* One isolated verification, seen from outside.
Answer == /\ attempt = NoAttempt
          /\ attempt' \in VerdictsOf(mode)
          /\ UNCHANGED <<mode, candidate>>

\* The caller asks about the next candidate.
Ask == /\ attempt # NoAttempt
       /\ candidate < MaxCandidates
       /\ candidate' = candidate + 1
       /\ attempt' = NoAttempt
       /\ UNCHANGED mode

Next == Answer \/ Ask

Spec == Init /\ [][Next]_vars
=============================================================================
