----------------------------- MODULE PacketWindow -----------------------------
(***************************************************************************)
(* The list of media packets the FEC generators keep, oldest first, and    *)
(* what EncodeRSFec makes of it.  A packet is a record with its sequence   *)
(* number in `seq`; what else it carries is up to the generator.           *)
(***************************************************************************)
EXTENDS SeqNum, Sequences

CONSTANTS
  MaxSeqNumDiff,   \* kMaxFECSeqNumDiff (32)
  MaskLength       \* bits of the mask and MaxMediaPackets of the writer (32)

ASSUME MaskLengthAssumption ==
  MaxSeqNumDiff \in Nat \ {0} /\ MaskLength \in Nat /\ MaxSeqNumDiff <= MaskLength

\* The sequence number of a packet sent `gap` numbers after packet s
NextSeq(s, gap) == (s + gap) % SeqMod

\* The erase loop: packets are dropped from the front up to the first one
\* whose number is near enough to the newest, s, for the mask.
Near_OffByOne(w, s, i) == MinDiff(s, w[i].seq) <= MaxSeqNumDiff
Near(w, s, i) == MinDiff(s, w[i].seq) < MaxSeqNumDiff
FirstNear(w, s) ==
  CHOOSE i \in 1 .. Len(w) : Near(w, s, i) /\ \A j \in 1 .. i - 1 : ~Near(w, s, j)
EraseFar(w, s) == SubSeq(w, FirstNear(w, s), Len(w))

\* The mask: the bit of packet i is its distance from the first packet.
MaskOf(w) == [i \in 1 .. Len(w) |-> ForwardDiff(w[1].seq, w[i].seq)]

\* EncodeRSFec accepts the list.  It counts the bits in forward differences of
\* neighbours, so they must add up without going round, and no bit past the mask
\* may be needed.
Protectable(w) ==
  /\ Len(w) > 0 /\ Len(w) <= MaskLength
  /\ \A i \in 1 .. Len(w) : MaskOf(w)[i] < MaskLength
  /\ \A i \in 1 .. Len(w) - 1 :
       MaskOf(w)[i + 1] = MaskOf(w)[i] + ForwardDiff(w[i].seq, w[i + 1].seq)

===============================================================================
