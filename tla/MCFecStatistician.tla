-------------------------- MODULE MCFecStatistician --------------------------
(***************************************************************************)
(* Six sequence numbers, so that a gap can reach the half range and a      *)
(* short stream wraps.                                                     *)
(***************************************************************************)
EXTENDS FecStatistician
===============================================================================
