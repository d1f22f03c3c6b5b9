----------------------------- MODULE MCSignalling -----------------------------
(***************************************************************************)
(* Signalling for TLC: two clients that may join in either order.          *)
(***************************************************************************)
EXTENDS Signalling

===============================================================================
