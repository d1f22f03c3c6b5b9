------------------------------ MODULE MCRSCrash ------------------------------
(***************************************************************************)
(* Six media packets and the FEC packets of generations 0, 1 and 4 that    *)
(* protect them, with the field arithmetic of the code: 1, 2^3 and 2^5 are *)
(* a root pattern of these three equations.                                *)
(***************************************************************************)
EXTENDS RSDecoder, RSCode

MCMedia == 0 .. 5
MCFec == {6, 7, 10}
MCProtects == [f \in MCFec |-> MCMedia]

Sorted(S, i) == CHOOSE s \in S : Cardinality({t \in S : t < s}) = i - 1

\* Generation 0 has number 6.
MCZeroPivot(G, U) ==
  HasZeroMinor([i \in 1 .. Cardinality(U) |-> [m \in 1 .. Cardinality(U) |->
                  Coefficient(Sorted(G, i) - 6, MCMedia, Sorted(U, m))]],
               Cardinality(U))
===============================================================================
