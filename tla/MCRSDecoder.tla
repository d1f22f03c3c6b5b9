----------------------------- MODULE MCRSDecoder -----------------------------
(***************************************************************************)
(* Six packets whose numbers wrap and four FEC packets whose masks overlap.*)
(* The limits keep only the order of the code's (the loss list is longer   *)
(* than the buffer of FEC packets, the loss threshold longer than a mask)  *)
(* and are tight enough that every list evicts, the big-gap reset happens, *)
(* FEC packets grow old, and a FEC packet may come when a packet it        *)
(* protects was received and forgotten.                                    *)
(***************************************************************************)
EXTENDS RSDecoder, TLC

MCMedia == {29, 30, 31, 0, 1, 2}
MCFec == {3, 4, 5, 6}
MCProtects == [f \in {3, 4} |-> {29, 30, 31}] @@ (5 :> {30, 31, 0})
              @@ (6 :> {0, 1, 2})

\* One unlucky pair of equations stands for the singular ones of RSMatrix.
MCZeroPivot(G, U) == G = {3, 4} /\ U = {29, 30}
===============================================================================
