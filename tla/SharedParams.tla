----------------------------- MODULE SharedParams -----------------------------
(***************************************************************************)
(* The three process-wide parameters of the sliding-window code            *)
(* (transV::Params): the window length L, the number I of media packets    *)
(* between two generations of FEC packets, and the number M of FEC packets *)
(* per generation.  They are plain statics, zero before the first          *)
(* statistics report, written by the statistics callback and read by the   *)
(* sending thread with no lock.                                            *)
(*                                                                         *)
(* This module is what the sending thread may rely on, an abstract         *)
(* specification of the writer: module Adaptation implements it.           *)
(***************************************************************************)
EXTENDS Integers

CONSTANTS
  Lengths,    \* values the window length may be given
  Intervals,  \* values the interval may be given
  Numbers     \* values the number of FEC packets may be given

ASSUME ParamsAssumption ==
  Lengths \subseteq Nat \ {0} /\ Intervals \subseteq Nat /\ Numbers \subseteq Nat

VARIABLES L, I, M
params == <<L, I, M>>

ParamsInit == L = 0 /\ I = 0 /\ M = 0

WriteL(l) == L' = l /\ UNCHANGED <<I, M>>
WriteI(i) == I' = i /\ UNCHANGED <<L, M>>
WriteM(m) == M' = m /\ UNCHANGED <<L, I>>

ParamsNext ==
  \/ \E l \in Lengths : WriteL(l)
  \/ \E i \in Intervals : WriteI(i)
  \/ \E m \in Numbers : WriteM(m)

ParamsSpec == ParamsInit /\ [][ParamsNext]_params

ParamsTypeOK == L \in Lengths \cup {0} /\ I \in Intervals \cup {0} /\ M \in Numbers \cup {0}

===============================================================================
