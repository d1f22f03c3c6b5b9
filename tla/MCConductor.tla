----------------------------- MODULE MCConductor -----------------------------
(***************************************************************************)
(* Conductor for TLC: two candidates after the description, a server that  *)
(* may refuse twice and go away at any time.                               *)
(***************************************************************************)
EXTENDS Conductor

===============================================================================
