----------------------------- MODULE MCFecSender -----------------------------
(***************************************************************************)
(* FecSender for TLC: windows of 1 and 2 packets over a mask of 2 bits,    *)
(* numbers that wrap at 6, two reports of warm-up, an unsigned I that      *)
(* wraps at 5.                                                             *)
(***************************************************************************)
EXTENDS FecSender

MCZero == {0}

===============================================================================
