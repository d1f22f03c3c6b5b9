-------------------------------- MODULE SeqNum --------------------------------
(***************************************************************************)
(* RTP sequence numbers: unsigned, wrapping, compared by half ranges.  The *)
(* width is a parameter (2^16 in the code) so that a small instance wraps. *)
(* Lists that the code keeps sorted by sequence number, and that never     *)
(* hold two packets of the same number, are sets of numbers here; Oldest   *)
(* and Newest are their front and back.                                    *)
(***************************************************************************)
EXTENDS Integers, FiniteSets

CONSTANT SeqMod    \* number of sequence numbers, 2^16 in the code

ASSUME SeqModAssumption == SeqMod \in Nat \ {0} /\ SeqMod % 2 = 0

Seq16 == 0 .. SeqMod - 1

\* webrtc::ForwardDiff: steps from a forward to b
ForwardDiff(a, b) == IF a <= b THEN b - a ELSE SeqMod - (a - b)

\* webrtc::MinDiff
MinDiff(a, b) ==
  IF ForwardDiff(a, b) <= ForwardDiff(b, a) THEN ForwardDiff(a, b)
                                            ELSE ForwardDiff(b, a)

\* webrtc::IsNewerSequenceNumber: at exactly half the range the larger
\* number is the newer one.
IsNewerSequenceNumber(a, b) ==
  /\ a # b
  /\ \/ 2 * ForwardDiff(b, a) < SeqMod
     \/ 2 * ForwardDiff(b, a) = SeqMod /\ a > b

\* SortablePacket::LessThan on the packets' numbers
LessThan(a, b) == IsNewerSequenceNumber(b, a)

\* front() and back() of a sorted list
Oldest(S) == CHOOSE s \in S : \A t \in S \ {s} : LessThan(s, t)
Newest(S) == CHOOSE s \in S : \A t \in S \ {s} : LessThan(t, s)

\* The m-th element of a sorted list
NthOldest(S, m) ==
  CHOOSE s \in S : Cardinality({t \in S : LessThan(t, s)}) = m - 1

\* What is left of a sorted list after `while (size > n) pop_front()`
KeepNewest(S, n) ==
  {s \in S : Cardinality({t \in S : LessThan(s, t)}) < n}

\* What is left of a sorted list after erasing from the front while the
\* element is more than `threshold` away from p.  The loop stops at the first
\* element in range, so a far element behind a near one stays.
PruneFront(S, p, threshold) ==
  {s \in S : \E t \in S : ~LessThan(s, t) /\ MinDiff(p, t) <= threshold}

===============================================================================
