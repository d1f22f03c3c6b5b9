--------------------------- MODULE MCBlockGenerator ---------------------------
(***************************************************************************)
(* BlockGenerator for TLC: a buffer of 7 packets over a mask of 6 bits     *)
(* (40 over 32 in the code), numbers that wrap at 14, rates on both sides  *)
(* of the threshold, limits of one to three frames.  Five or six packets   *)
(* in two frames meet the minimum before the limit of frames.              *)
(***************************************************************************)
EXTENDS BlockGenerator

\* Protection off, on for all frames, and lower for delta frames, each with a
\* limit of its own
MCParams ==
  {[delta_rate |-> 0, key_rate |-> 0, max_fec_frames |-> 2],
   [delta_rate |-> 100, key_rate |-> 100, max_fec_frames |-> 3],
   [delta_rate |-> 60, key_rate |-> 100, max_fec_frames |-> 1]}

===============================================================================
