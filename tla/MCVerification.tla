---------------------------- MODULE MCVerification ----------------------------
(* Model checking of one isolated verification, in both modes.             *)
EXTENDS Verification
=============================================================================
