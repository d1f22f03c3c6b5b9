------------------------------ MODULE FecSender ------------------------------
(***************************************************************************)
(* The sending side: the sliding-window generator on the sending thread    *)
(* and the adaptation on the statistics thread, over the shared L, I, M.   *)
(* Module StreamGenerator was specified against any writer of the          *)
(* parameters that keeps to SharedParams; here the writer is Adaptation.   *)
(***************************************************************************)
EXTENDS Adaptation, Sequences

CONSTANTS
  SeqMod, MaxSeqNumDiff, MaskLength, GenerateFecNum, FecRate, One,
  InsertInit, LeftInit, MaxGap

\* What StreamGenerator assumes of them, with the parameters Adaptation writes
ASSUME SenderAssumption ==
  /\ SeqMod \in Nat \ {0} /\ SeqMod % 2 = 0
  /\ MaxSeqNumDiff \in Nat \ {0} /\ MaskLength \in Nat /\ MaxSeqNumDiff <= MaskLength
  /\ MaxL <= MaskLength
  /\ GenerateFecNum \in Nat /\ FecRate \in Nat /\ One \in Nat \ {0}
  /\ InsertInit \subseteq Int /\ LeftInit \subseteq Int
  /\ MaxGap \in Nat \ {0} /\ 2 * (MaxGap + MaxSeqNumDiff) <= SeqMod

VARIABLES
  media_packets, num_media_packets_insert, left_rate, last_media_packet,
  generated, packet, last_seq, pc, exposed, disturbed, counted

G == INSTANCE StreamGenerator WITH
  Lengths <- MinL .. MaxL, Intervals <- 0 .. Width - 1, Numbers <- 1 .. MaxM

sender == <<media_packets, num_media_packets_insert, left_rate, last_media_packet,
            generated, packet, last_seq, pc>>
callback == <<do_RL_times, previous_L, incomplete, locals, cb>>
senderVars == <<vars, sender, exposed, disturbed, counted>>

SenderInit == Init /\ G!Init

SendStep == G!SenderStep /\ UNCHANGED callback

\* A step of the statistics thread; the history bit is StreamGenerator's.
AdaptStep ==
  /\ Next
  /\ disturbed' = (disturbed \/ L' < L)
  /\ UNCHANGED <<sender, exposed, counted>>

SenderNext == SendStep \/ AdaptStep

\* The video source keeps sending, reports keep coming (the polling thread
\* asks for one every RL_interval_ms), and neither thread stops for good.
SenderSpec ==
  /\ SenderInit /\ [][SenderNext]_senderVars
  /\ WF_senderVars(SendStep) /\ WF_senderVars(AdaptStep)

-------------------------------------------------------------------------------
(* Properties.                                                             *)

\* The sending thread sees nothing of Adaptation that SharedParams does not
\* allow: whatever holds of StreamGenerator holds of the sender.
ImplementsGenerator == G!Spec

\* Once the first report has been handled, the encoder is never asked for no
\* FEC packets, so the window is never thrown away again.
WindowKeptAfterStart ==
  do_RL_times > 0 /\ pc = "encode" /\ media_packets # <<>> =>
    G!NumFecPackets > 0 /\ G!Protectable(media_packets)

\* FEC starts by itself, and again after incomplete reports: from zeroed
\* parameters or whatever I the stack held, reports that are complete from some
\* time on make FEC packets flow for ever, provided L settles and no rate type met
\* the empty window.
FecFlows ==
  <>[][L' = L]_L /\ <>[](incomplete # "last") =>
    []<>(generated > 0) \/ <>(pc = "crashed" /\ ~last_media_packet)

===============================================================================
