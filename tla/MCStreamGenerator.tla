-------------------------- MODULE MCStreamGenerator --------------------------
(***************************************************************************)
(* StreamGenerator for TLC, one type of each kind: a mask of 4 bits,       *)
(* numbers that wrap at 16, gaps that skip up to the whole mask, windows   *)
(* of 2 and 4, intervals up to one more than the window, and a counter     *)
(* and a rest of the rate that start below zero or above.                  *)
(***************************************************************************)
EXTENDS StreamGenerator

MCLengths == {2, 4}
MCIntervals == {1, 5}
MCNumbers == {1}
MCInsertInit == {-2, 0, 3}
MCLeftInit == {-3, 5}

===============================================================================
