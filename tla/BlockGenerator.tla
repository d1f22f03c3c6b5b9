---------------------------- MODULE BlockGenerator ----------------------------
(***************************************************************************)
(* The generators driven by WebRTC's protection parameters: RSfecGenerator *)
(* (type RSFECBlock), which encodes and forgets a block of frames, and the *)
(* branch of StreamRSfecGenerator for type RSFECStreamSourceRate, which    *)
(* applies the same rule to a window it keeps.  The rule compares overhead *)
(* in Q8 with the code's own thresholds.                                   *)
(*                                                                         *)
(* A packet of the list is its sequence number and whether it ends a frame *)
(* (the marker).  Parameters are set by another thread under a mutex.      *)
(***************************************************************************)
EXTENDS PacketWindow

CONSTANTS
  BufferLimit,   \* kRSfecMaxMediaPackets (40)
  Params,        \* the protection parameters that may be asked for: rates of key
                 \* and delta frames, and the max_fec_frames FecController gives
                 \* to both
  FrameCap,      \* num_protected_frames_ is counted up to here
  MaxGap         \* most sequence numbers between two packets

kMaxExcessOverhead == 50
kMinMediaPackets == 4
kHighProtectionThreshold == 80

\* Beyond the largest max_fec_frames the count makes no difference; the buffer
\* has room for more packets than the mask (40 over 32).
ASSUME BlockAssumption ==
  /\ BufferLimit \in Nat /\ MaxSeqNumDiff < BufferLimit
  /\ Params \subseteq [delta_rate : 0 .. 255, key_rate : 0 .. 255, max_fec_frames : Nat]
  /\ FrameCap \in Nat \ {0} /\ \A p \in Params : p.max_fec_frames < FrameCap
  /\ MaxGap \in Nat \ {0} /\ 2 * (MaxGap + MaxSeqNumDiff) <= SeqMod

NoProtection == [delta_rate |-> 0, key_rate |-> 0, max_fec_frames |-> 0]

VARIABLES
  block,         \* the type, read once from the command line: TRUE for RSFECBlock,
                 \* FALSE for RSFECStreamSourceRate
  media_packets, last_media_packet, generated,
  num_protected_frames, min_num_media_packets,
  media_contains_keyframe,
  current_params, pending_params,   \* pending_params is a set: empty or one
  last_seq, pc

list == <<media_packets, last_media_packet, num_protected_frames, media_contains_keyframe>>
vars == <<list, generated, min_num_media_packets, current_params, pending_params,
          last_seq, pc, block>>

Init ==
  /\ block \in BOOLEAN
  /\ media_packets = <<>> /\ last_media_packet = FALSE /\ generated = 0
  /\ num_protected_frames = 0 /\ min_num_media_packets = 1
  /\ media_contains_keyframe = FALSE
  /\ current_params = NoProtection /\ pending_params = {}
  /\ last_seq = 0 /\ pc = "idle"

-------------------------------------------------------------------------------
(* The decision, as a function of the list's length n, the frames counted  *)
(* and the rate.                                                           *)

NumFecPackets_Rounded(n, rate) == (n * rate + 255) \div 256 + 1
NumFecPackets(n, rate) ==
  LET q == (n * rate + 128) \div 256
  IN  IF rate > 0 /\ q = 0 THEN 1 ELSE q

Overhead(n, rate) == (NumFecPackets(n, rate) * 256) \div n

ExcessOverheadBelowMax(n, rate) == Overhead(n, rate) - rate < kMaxExcessOverhead

\* The average number of packets per frame is compared with 2.
MinimumMediaPacketsReached(n, frames, least) ==
  IF n < 2 * frames THEN n >= least ELSE n >= least + 1

FramesReached_Exactly(frames, max) == frames = max
FramesReached(frames, max) == frames >= max

CurrentRate(p, key) == IF key THEN p.key_rate ELSE p.delta_rate

CountFrame(marker) ==
  IF marker /\ num_protected_frames < FrameCap THEN num_protected_frames + 1
                                               ELSE num_protected_frames

\* Parameters that came since the last packet, and the minimum they ask for
\* given the frames collected so far
ParamsInForce == IF pending_params = {} THEN current_params
                 ELSE CHOOSE p \in pending_params : TRUE
MinimumInForce_Kept == min_num_media_packets
MinimumInForce ==
  IF pending_params = {} THEN min_num_media_packets
  ELSE IF CurrentRate(ParamsInForce, media_contains_keyframe) > kHighProtectionThreshold
       THEN kMinMediaPackets ELSE 1

-------------------------------------------------------------------------------
SetProtectionParameters(p) ==
  /\ pending_params' = {p}
  /\ UNCHANGED <<list, generated, min_num_media_packets, current_params, last_seq,
                 pc, block>>

\* Only the window of the stream type is kept short enough for the mask.
Shortened(w, s) == IF block THEN w ELSE EraseFar(w, s)

\* AddPacketAndGenerateFec up to the call of the encoder
AddPacket(gap, marker, key) ==
  LET s      == NextSeq(last_seq, gap)
      frames == CountFrame(marker)
      k      == media_contains_keyframe \/ (block /\ key)
      rate   == CurrentRate(ParamsInForce, k)
      n      == Len(media_packets')
      room   == Len(media_packets) < BufferLimit
  IN
  /\ pc = "idle"
  /\ last_seq' = s
  /\ current_params' = ParamsInForce /\ pending_params' = {}
  /\ min_num_media_packets' = MinimumInForce
  /\ media_contains_keyframe' = k
  /\ media_packets' =
       IF room THEN Shortened(Append(media_packets, [seq |-> s, marker |-> marker]), s)
               ELSE media_packets
  /\ last_media_packet' = (last_media_packet \/ room)
  /\ num_protected_frames' = frames
  /\ pc' = IF marker /\ \/ FramesReached(frames, ParamsInForce.max_fec_frames)
                        \/ /\ ExcessOverheadBelowMax(n, rate)
                           /\ MinimumMediaPacketsReached(n, frames, MinimumInForce)
           THEN "encode" ELSE "fetch"
  /\ UNCHANGED <<generated, block>>

Rate == CurrentRate(current_params, media_contains_keyframe)

ResetState ==
  /\ media_packets' = <<>> /\ last_media_packet' = FALSE
  /\ generated' = 0 /\ num_protected_frames' = 0
  /\ media_contains_keyframe' = FALSE

Encode ==
  /\ pc = "encode"
  /\ Rate > 0 /\ Protectable(media_packets)
  /\ generated' = NumFecPackets(Len(media_packets), Rate)
  /\ pc' = "fetch"
  /\ UNCHANGED <<list, min_num_media_packets, current_params, pending_params, last_seq,
                 block>>

\* Nothing generated: the encoder refused the list or the rate is zero.
AfterNothing_Kept == IF Rate = 0 THEN ResetState ELSE UNCHANGED <<list, generated>>
AfterNothing == ResetState

EncodeNothing ==
  /\ pc = "encode"
  /\ Rate = 0 \/ ~Protectable(media_packets)
  /\ AfterNothing
  /\ pc' = "fetch"
  /\ UNCHANGED <<min_num_media_packets, current_params, pending_params, last_seq, block>>

\* After the FEC packets are fetched the block generator starts afresh; the
\* stream generator only clears the packets it has handed out.
AfterFetch ==
  IF block /\ generated > 0 THEN ResetState ELSE generated' = 0 /\ UNCHANGED list

GetFecPackets ==
  /\ pc = "fetch"
  /\ AfterFetch
  /\ pc' = IF generated > 0 /\ ~last_media_packet THEN "crashed" ELSE "idle"
  /\ UNCHANGED <<min_num_media_packets, current_params, pending_params, last_seq, block>>

FrameEnds == \E gap \in 1 .. MaxGap, key \in BOOLEAN : AddPacket(gap, TRUE, key)
FrameGoesOn == \E gap \in 1 .. MaxGap, key \in BOOLEAN : AddPacket(gap, FALSE, key)
GeneratorStep == Encode \/ EncodeNothing \/ GetFecPackets

Next ==
  \/ \E p \in Params : SetProtectionParameters(p)
  \/ FrameGoesOn \/ FrameEnds \/ GeneratorStep

Spec == Init /\ [][Next]_vars

\* The sending thread keeps running and every frame has a last packet.
FairSpec == Spec /\ WF_vars(GeneratorStep) /\ SF_vars(FrameEnds)

-------------------------------------------------------------------------------
(* Properties.                                                             *)

TypeOK ==
  /\ media_packets \in Seq([seq : Seq16, marker : BOOLEAN])
  /\ Len(media_packets) <= BufferLimit
  /\ last_media_packet \in BOOLEAN /\ generated \in Nat
  /\ num_protected_frames \in 0 .. FrameCap
  /\ min_num_media_packets \in {1, kMinMediaPackets}
  /\ media_contains_keyframe \in BOOLEAN
  /\ current_params \in Params \cup {NoProtection} /\ pending_params \subseteq Params
  /\ last_seq \in Seq16 /\ pc \in {"idle", "encode", "fetch", "crashed"}
  /\ block \in BOOLEAN

\* "Produce FEC over at most `params_.max_fec_frames` frames": a block given to
\* the encoder ends at most the largest max_fec_frames frames, although the
\* limit may change in the middle of it.  The window of the stream type is kept
\* and may hold more.
FecOverFewFrames ==
  pc = "encode" /\ block =>
    \E max \in {p.max_fec_frames : p \in Params} \cup {1} :
      Cardinality({i \in 1 .. Len(media_packets) : media_packets[i].marker}) <= max

\* The checks of the encoder and of GetFecPackets hold: there is a media header
\* for the FEC packets, the encoder never makes more of them than it protects
\* (RTC_DCHECK_LE in NumFecPackets), and the window that the stream type keeps
\* after FEC was made always fits the mask, so that it is thrown away only when
\* there is nothing to protect it with.
EncoderContract ==
  /\ generated > 0 => last_media_packet /\ generated <= Len(media_packets)
  /\ ~block /\ media_packets # <<>> => Protectable(media_packets)

\* A block is always finished: the list is emptied again and again, whatever the
\* parameters and the sizes of the frames, the block longer than the encoder
\* accepts included (the buffer has room for more packets than the mask).
BlocksEnd == block => []<>(media_packets = <<>>)

\* Above the threshold on the protection level "we enforce at least
\* kMinMediaPackets packets for the FEC code" before max_fec_frames is reached,
\* also when parameters change in mid-block.  The minimum is chosen before the
\* packet's own frame type is looked at, so this is so only when key and delta
\* frames are on the same side of the threshold.
MinimumEnforced ==
  /\ generated > 0
  /\ current_params.delta_rate > kHighProtectionThreshold
  /\ current_params.key_rate > kHighProtectionThreshold
  /\ num_protected_frames < current_params.max_fec_frames
  => Len(media_packets) >= kMinMediaPackets

===============================================================================
