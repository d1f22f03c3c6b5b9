------------------------------ MODULE MCRSMatrix ------------------------------
(***************************************************************************)
(* FEC packets of up to five generations, at most three of which were      *)
(* selected, over a window of six packets: a block whose FEC packets all   *)
(* protect the same six, or a sliding window that moves by one packet from *)
(* each generation to the next.                                            *)
(***************************************************************************)
EXTENDS RSMatrix

\* Up to three generations in increasing order
Gens == { s \in UNION {[1 .. k -> 0 .. 4] : k \in 1 .. 3} :
            \A i \in 2 .. Len(s) : s[i - 1] < s[i] }

Block == [g \in 0 .. 4 |-> 0 .. 5]
Sliding == [g \in 0 .. 4 |-> g .. g + 3]

Lost == {U \in SUBSET (0 .. 7) : Cardinality(U) <= 3}

MCInputs ==
  { i \in { [gen |-> s, mask |-> [j \in DOMAIN s |-> window[s[j]]], unknown |-> U] :
            s \in Gens, U \in Lost, window \in {Block, Sliding} } :
    i.unknown \subseteq UNION {i.mask[j] : j \in DOMAIN i.gen} }
===============================================================================
