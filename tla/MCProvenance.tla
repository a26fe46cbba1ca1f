----------------------------- MODULE MCProvenance -----------------------------
(***************************************************************************)
(* A tracked file, one git ignores and a tracked link.  Of three commits   *)
(* the second changes the file, and the third removes it and points the    *)
(* link elsewhere.                                                         *)
(***************************************************************************)
EXTENDS Provenance, TLC

CONSTANTS main, override, shared, c1, c2, c3, old, new

MCTrees == (c1 :> (main :> old    @@ override :> Absent @@ shared :> old)) @@
           (c2 :> (main :> new    @@ override :> Absent @@ shared :> old)) @@
           (c3 :> (main :> Absent @@ override :> Absent @@ shared :> new))
=============================================================================
