------------------------ MODULE BlockGenerator_proofs ------------------------
(***************************************************************************)
(* The generators driven by WebRTC's protection parameters, for every      *)
(* width of sequence numbers, every size of the buffer above the mask and  *)
(* every set of parameters, set at any moment.                             *)
(***************************************************************************)
EXTENDS BlockGenerator, PacketWindow_proofs, FiniteSetTheorems

-------------------------------------------------------------------------------
(* The inductive invariant                                                 *)

Packet == [seq : Seq16, marker : BOOLEAN]

\* The stream type keeps its window in order; and there is a last media packet
\* while there is a list, and a list while there are FEC packets to fetch.
ListInv ==
  /\ ~block => Ordered(media_packets, last_seq)
  /\ media_packets # <<>> => last_media_packet
  /\ pc = "encode" => media_packets # <<>>
  /\ generated > 0 => pc = "fetch" /\ media_packets # <<>> /\ generated <= Len(media_packets)

HighProtection(p) ==
  p.delta_rate > kHighProtectionThreshold /\ p.key_rate > kHighProtectionThreshold

\* The minimum is the one of the parameters in force, and has been reached by a
\* list that goes to the encoder before its frames have.
MinimumInv ==
  /\ HighProtection(current_params) => min_num_media_packets = kMinMediaPackets
  /\ /\ pc = "encode" \/ generated > 0
     /\ HighProtection(current_params)
     /\ num_protected_frames < current_params.max_fec_frames
     => Len(media_packets) >= kMinMediaPackets

Markers(w) == {i \in 1 .. Len(w) : w[i].marker}

\* A block that goes on has not reached the limit of the parameters in force
\* when its last frame ended, so that it ends within the largest limit.
FramesInv ==
  block =>
    /\ Cardinality(Markers(media_packets)) <= num_protected_frames
    /\ pc = "idle" \/ (pc = "fetch" /\ generated = 0) =>
         num_protected_frames = 0 \/ \E p \in Params : num_protected_frames < p.max_fec_frames
    /\ pc = "encode" =>
         num_protected_frames <= 1 \/ \E p \in Params : num_protected_frames <= p.max_fec_frames

IInv == TypeOK /\ ListInv /\ MinimumInv /\ FramesInv

-------------------------------------------------------------------------------
(* The rule                                                                *)

\* Not more FEC packets than media packets, and at least one for a positive rate.
LEMMA NumFecPacketsBounds ==
  ASSUME NEW n \in Nat \ {0}, NEW rate \in 0 .. 255
  PROVE  /\ NumFecPackets(n, rate) \in Nat
         /\ NumFecPackets(n, rate) <= n
         /\ rate > 0 => NumFecPackets(n, rate) > 0
<1> DEFINE q == (n * rate + 128) \div 256
<1>1. n * rate \in Nat /\ n * rate <= n * 255
  OBVIOUS
<1>2. q \in Nat /\ q <= n
  BY <1>1
<1> QED
  BY <1>2 DEF NumFecPackets

\* The parameters a packet is added with
LEMMA ParamsInForceType ==
  ASSUME TypeOK
  PROVE  /\ ParamsInForce \in Params \cup {NoProtection}
         /\ \A k \in BOOLEAN : CurrentRate(ParamsInForce, k) \in 0 .. 255
         /\ ParamsInForce.max_fec_frames \in Nat
<1>1. ParamsInForce \in Params \cup {NoProtection}
  BY DEF TypeOK, ParamsInForce
<1> QED
  BY <1>1, BlockAssumption DEF NoProtection, CurrentRate

\* The rate of the list in hand
LEMMA RateType ==
  ASSUME TypeOK
  PROVE  Rate \in 0 .. 255
  BY BlockAssumption DEF TypeOK, Rate, CurrentRate, NoProtection

-------------------------------------------------------------------------------
(* The list                                                                *)

\* A list ends finitely many frames.
LEMMA MarkersFinite ==
  ASSUME NEW w \in Seq(Packet)
  PROVE  IsFiniteSet(Markers(w)) /\ Cardinality(Markers(w)) \in Nat
<1>1. IsFiniteSet(1 .. Len(w))
  BY LenProperties, FS_Interval
<1>2. Markers(w) \subseteq 1 .. Len(w)
  BY DEF Markers
<1>3. IsFiniteSet(Markers(w))
  BY <1>1, <1>2, FS_Subset
<1> QED
  BY <1>3, FS_CardinalityType

\* The frames that end in a list are counted one by one.
LEMMA MarkersAppend ==
  ASSUME NEW w \in Seq(Packet), NEW p \in Packet
  PROVE  /\ Cardinality(Markers(w)) \in Nat
         /\ Cardinality(Markers(Append(w, p))) =
              Cardinality(Markers(w)) + IF p.marker THEN 1 ELSE 0
<1> DEFINE n == Len(w)
<1>1. /\ n \in Nat /\ Len(Append(w, p)) = n + 1 /\ Append(w, p)[n + 1] = p
      /\ \A i \in 1 .. n : Append(w, p)[i] = w[i]
  BY LenProperties
<1>2. IsFiniteSet(Markers(w))
  BY MarkersFinite
<1>3. Cardinality(Markers(w)) \in Nat
  BY MarkersFinite
<1>4. Markers(Append(w, p)) = IF p.marker THEN Markers(w) \cup {n + 1} ELSE Markers(w)
  BY <1>1 DEF Markers
<1>5. n + 1 \notin Markers(w)
  BY <1>1 DEF Markers
<1>6. Cardinality(Markers(w) \cup {n + 1}) = Cardinality(Markers(w)) + 1
  BY <1>2, <1>5, FS_AddElement
<1> QED
  BY <1>3, <1>4, <1>6

\* What AddPacket makes of the list
LEMMA AddedList ==
  ASSUME TypeOK, ListInv, NEW gap \in 1 .. MaxGap, NEW marker \in BOOLEAN,
         NEW key \in BOOLEAN, AddPacket(gap, marker, key)
  PROVE  /\ last_seq' \in Seq16
         /\ media_packets' \in Seq(Packet)
         /\ Len(media_packets') \in 1 .. BufferLimit
         /\ ~block => Ordered(media_packets', last_seq')
         /\ media_packets # <<>> \/ Len(media_packets) < BufferLimit
         /\ block => \/ media_packets' = media_packets
                     \/ \E p \in Packet : /\ p.marker = marker
                                          /\ media_packets' = Append(media_packets, p)
<1> DEFINE s == NextSeq(last_seq, gap)
           p == [seq |-> s, marker |-> marker]
           n == Len(media_packets)
<1>1. /\ gap \in Nat \ {0} /\ gap < SeqMod /\ 2 * (gap + MaxSeqNumDiff) <= SeqMod
      /\ last_seq \in Seq16 /\ media_packets \in Seq(Packet)
      /\ n \in Nat /\ n <= BufferLimit /\ BufferLimit \in Nat \ {0}
  BY BlockAssumption, MaskLengthAssumption, SeqModAssumption, LenProperties DEF TypeOK, Packet
<1>2. s \in Seq16 /\ ForwardDiff(last_seq, s) = gap
  BY <1>1, NextSeqAhead
<1>3. last_seq' = s
  BY DEF AddPacket
<1> HIDE DEF s
<1>4. p \in Packet /\ p.seq = s /\ p.marker = marker
  BY <1>2 DEF Packet
<1>5. media_packets' = IF n < BufferLimit THEN Shortened(Append(media_packets, p), s)
                                          ELSE media_packets
  BY DEF AddPacket, s
<1> HIDE DEF p
<1>6. CASE n >= BufferLimit
  <2>1. block
    <3> SUFFICES ASSUME ~block PROVE FALSE
      OBVIOUS
    <3>1. 1 \in 1 .. n /\ Ordered(media_packets, last_seq)
      BY <1>1, <1>6 DEF ListInv
    <3>2. /\ media_packets[1].seq \in Seq16
          /\ ForwardDiff(media_packets[1].seq, last_seq) >= n - 1
          /\ ForwardDiff(media_packets[1].seq, last_seq) < MaxSeqNumDiff
      BY <3>1 DEF Ordered
    <3>3. ForwardDiff(media_packets[1].seq, last_seq) \in Nat
      BY <1>1, <3>2, DistanceType
    <3> QED
      BY <1>1, <1>6, <3>2, <3>3, BlockAssumption, MaskLengthAssumption
  <2> QED
    BY <1>1, <1>2, <1>3, <1>5, <1>6, <2>1
<1>7. CASE n < BufferLimit /\ block
  <2>1. media_packets' = Append(media_packets, p)
    BY <1>5, <1>7 DEF Shortened
  <2>2. media_packets' \in Seq(Packet) /\ Len(media_packets') = n + 1
    BY <1>1, <1>4, <2>1
  <2> QED
    BY <1>1, <1>2, <1>3, <1>4, <1>7, <2>1, <2>2
<1>8. CASE n < BufferLimit /\ ~block
  <2>1. media_packets' = EraseFar(Append(media_packets, p), p.seq)
    BY <1>4, <1>5, <1>8 DEF Shortened
  <2>2. Ordered(media_packets, last_seq)
    BY <1>8 DEF ListInv
  <2>3. LET k == FirstNear(Append(media_packets, p), p.seq)
        IN  /\ k \in 1 .. n + 1
            /\ media_packets' \in Seq(Packet)
            /\ Len(media_packets') = n + 2 - k
            /\ Ordered(media_packets', p.seq)
    BY <1>1, <1>2, <1>4, <2>1, <2>2, AppendOrdered
  <2> QED
    BY <1>1, <1>2, <1>3, <1>4, <1>8, <2>3
<1> QED
  BY <1>1, <1>6, <1>7, <1>8

-------------------------------------------------------------------------------
\* The list is empty and nothing is protected at the start.
LEMMA InvInit == Init => IInv
<1> SUFFICES ASSUME Init PROVE IInv
  OBVIOUS
<1>1. /\ last_media_packet \in BOOLEAN /\ media_contains_keyframe \in BOOLEAN
      /\ block \in BOOLEAN
  BY Zenon DEF Init
<1>2. /\ media_packets = <<>> /\ generated = 0 /\ num_protected_frames = 0
      /\ min_num_media_packets = 1 /\ current_params = NoProtection
      /\ pending_params = {} /\ last_seq = 0 /\ pc = "idle"
  BY Zenon DEF Init
<1>3. TypeOK
  BY <1>1, <1>2, BlockAssumption, SeqModAssumption DEF TypeOK, Seq16
<1>4. ListInv
  BY <1>2 DEF ListInv, Ordered
<1>5. MinimumInv
  BY <1>2 DEF MinimumInv, HighProtection, NoProtection, kHighProtectionThreshold
<1>6. FramesInv
  <2>1. Markers(<<>>) = {}
    BY DEF Markers
  <2> QED
    BY <1>2, <2>1, FS_EmptySet DEF FramesInv
<1> QED
  BY <1>3, <1>4, <1>5, <1>6 DEF IInv

\* Adding a packet
LEMMA AddPacketInv ==
  ASSUME IInv, NEW gap \in 1 .. MaxGap, NEW marker \in BOOLEAN, NEW key \in BOOLEAN,
         AddPacket(gap, marker, key)
  PROVE  IInv'
<1> USE DEF IInv
<1> DEFINE frames == CountFrame(marker)
           n == Len(media_packets')
<1>1. /\ last_seq' \in Seq16
      /\ media_packets' \in Seq(Packet)
      /\ n \in 1 .. BufferLimit
      /\ ~block => Ordered(media_packets', last_seq')
      /\ media_packets # <<>> \/ Len(media_packets) < BufferLimit
      /\ block => \/ media_packets' = media_packets
                  \/ \E p \in Packet : /\ p.marker = marker
                                       /\ media_packets' = Append(media_packets, p)
  BY AddedList
<1>2. /\ ParamsInForce \in Params \cup {NoProtection}
      /\ ParamsInForce.max_fec_frames \in Nat
  BY ParamsInForceType
<1>3. /\ media_contains_keyframe' \in BOOLEAN /\ last_media_packet' \in BOOLEAN
      /\ block' = block
  <2>1. media_contains_keyframe' = (media_contains_keyframe \/ (block /\ key))
    BY DEF AddPacket
  <2>2. last_media_packet' = (last_media_packet \/ Len(media_packets) < BufferLimit)
    BY DEF AddPacket
  <2>3. block' = block
    BY DEF AddPacket
  <2> QED
    BY <2>1, <2>2, <2>3, Zenon
<1>4. last_media_packet'
  <2>1. last_media_packet' = (last_media_packet \/ Len(media_packets) < BufferLimit)
    BY DEF AddPacket
  <2>2. media_packets # <<>> => last_media_packet
    BY DEF ListInv
  <2> QED
    BY <1>1, <2>1, <2>2, Zenon
<1>5. /\ pc = "idle" /\ current_params' = ParamsInForce /\ pending_params' = {}
      /\ min_num_media_packets' = MinimumInForce /\ num_protected_frames' = frames
      /\ generated' = generated /\ pc' \in {"encode", "fetch"}
  BY DEF AddPacket
<1>6. /\ pc' = "encode" => marker
      /\ pc' = "encode" => \/ FramesReached(frames, ParamsInForce.max_fec_frames)
                          \/ MinimumMediaPacketsReached(n, frames, MinimumInForce)
      /\ pc' = "fetch" /\ marker => ~FramesReached(frames, ParamsInForce.max_fec_frames)
  BY DEF AddPacket
<1>7. /\ num_protected_frames \in 0 .. FrameCap /\ frames \in 0 .. FrameCap
      /\ FrameCap \in Nat \ {0} /\ BufferLimit \in Nat
  BY BlockAssumption DEF TypeOK, CountFrame
<1>8. generated = 0
  BY <1>5 DEF ListInv, TypeOK
<1>9. MinimumInForce \in {1, kMinMediaPackets}
  BY DEF MinimumInForce, TypeOK
<1>10. TypeOK'
  BY <1>1, <1>2, <1>3, <1>5, <1>7, <1>8, <1>9 DEF TypeOK, Packet
<1>11. ListInv'
  <2>1. media_packets' # <<>>
    BY <1>1
  <2> QED
    BY <1>1, <1>3, <1>4, <1>5, <1>8, <2>1 DEF ListInv
<1>12. MinimumInv'
  <2>1. HighProtection(ParamsInForce) => MinimumInForce = kMinMediaPackets
    BY DEF TypeOK, MinimumInv, HighProtection, MinimumInForce, ParamsInForce, CurrentRate
  <2>2. /\ pc' = "encode" /\ HighProtection(ParamsInForce)
        /\ frames < ParamsInForce.max_fec_frames
        => n >= kMinMediaPackets
    <3>1. n \in Nat
      BY <1>1, <1>7
    <3> HIDE DEF frames, n
    <3> QED
      BY <1>2, <1>6, <1>7, <2>1, <3>1
         DEF FramesReached, MinimumMediaPacketsReached, kMinMediaPackets
  <2> QED
    BY <1>5, <1>8, <2>1, <2>2 DEF MinimumInv
<1>13. FramesInv'
  <2> SUFFICES ASSUME block
               PROVE  /\ Cardinality(Markers(media_packets')) <= frames
                      /\ pc' = "fetch" => \/ frames = 0
                                          \/ \E p \in Params : frames < p.max_fec_frames
                      /\ pc' = "encode" => \/ frames <= 1
                                           \/ \E p \in Params : frames <= p.max_fec_frames
    BY <1>3, <1>5 DEF FramesInv
  <2>1. /\ Cardinality(Markers(media_packets)) <= num_protected_frames
        /\ \/ num_protected_frames = 0
           \/ \E p \in Params : num_protected_frames < p.max_fec_frames
    BY <1>5 DEF FramesInv
  <2>2. num_protected_frames < FrameCap
    BY <1>7, <2>1, BlockAssumption
  <2>3. frames = IF marker THEN num_protected_frames + 1 ELSE num_protected_frames
    BY <2>2 DEF CountFrame
  <2>4. Cardinality(Markers(media_packets')) <= frames
    <3>1. CASE media_packets' = media_packets
      <4>1. media_packets \in Seq(Packet)
        BY <1>1, <3>1
      <4>2. Cardinality(Markers(media_packets)) \in Nat
        BY <4>1, MarkersFinite
      <4> HIDE DEF frames
      <4> QED BY <1>7, <2>1, <2>3, <3>1, <4>2
    <3>2. CASE media_packets' # media_packets
      <4>1. PICK p \in Packet : p.marker = marker /\ media_packets' = Append(media_packets, p)
        BY <1>1, <3>2
      <4>2. media_packets \in Seq(Packet)
        BY DEF TypeOK, Packet
      <4>3. /\ Cardinality(Markers(media_packets)) \in Nat
            /\ Cardinality(Markers(media_packets')) =
                 Cardinality(Markers(media_packets)) + IF marker THEN 1 ELSE 0
        BY <4>1, <4>2, MarkersAppend
      <4> HIDE DEF frames
      <4> QED BY <1>7, <2>1, <2>3, <4>3
    <3> QED BY <3>1, <3>2
  <2>5. pc' = "fetch" => frames = 0 \/ \E p \in Params : frames < p.max_fec_frames
    <3>1. CASE ~marker
      BY <2>1, <2>3, <3>1
    <3>2. CASE marker /\ pc' = "fetch"
      <4>1. frames < ParamsInForce.max_fec_frames
        <5> HIDE DEF frames
        <5> QED
          BY <1>2, <1>6, <1>7, <3>2 DEF FramesReached
      <4>2. ParamsInForce \in Params
        BY <1>2, <1>7, <4>1 DEF NoProtection
      <4> QED BY <4>1, <4>2
    <3> QED BY <3>1, <3>2
  <2>6. frames <= 1 \/ \E p \in Params : frames <= p.max_fec_frames
    <3> HIDE DEF frames
    <3> QED
      BY <1>7, <2>1, <2>3, BlockAssumption
  <2> QED
    BY <2>4, <2>5, <2>6
<1> QED
  BY <1>10, <1>11, <1>12, <1>13

\* Starting afresh
LEMMA ResetInv ==
  ASSUME IInv, ResetState, pc' \in {"fetch", "idle", "crashed"},
         UNCHANGED <<min_num_media_packets, current_params, pending_params, last_seq, block>>
  PROVE  IInv'
<1> USE DEF IInv
<1>1. last_media_packet' \in BOOLEAN /\ media_contains_keyframe' \in BOOLEAN
  BY Zenon DEF ResetState
<1>2. media_packets' = <<>> /\ generated' = 0 /\ num_protected_frames' = 0
  BY DEF ResetState
<1>3. TypeOK'
  BY <1>1, <1>2, BlockAssumption DEF TypeOK
<1>4. ListInv'
  BY <1>2 DEF ListInv, Ordered
<1>5. MinimumInv'
  BY <1>2 DEF MinimumInv
<1>6. FramesInv'
  <2>1. Markers(media_packets') = {}
    BY <1>2 DEF Markers
  <2>2. Cardinality(Markers(media_packets')) = 0
    BY <2>1, FS_EmptySet
  <2> QED
    BY <1>2, <2>2 DEF FramesInv
<1> QED
  BY <1>3, <1>4, <1>5, <1>6

\* Every step keeps the list, the minimum and the frames right.
LEMMA InvStep ==
  ASSUME IInv, [Next]_vars
  PROVE  IInv'
<1> USE DEF IInv
<1>1. CASE \E p \in Params : SetProtectionParameters(p)
  <2>1. /\ pending_params' \subseteq Params
        /\ UNCHANGED <<list, generated, min_num_media_packets, current_params, last_seq,
                       pc, block>>
    BY <1>1 DEF SetProtectionParameters
  <2>2. TypeOK'
    BY <2>1 DEF TypeOK, list
  <2>3. ListInv' /\ MinimumInv' /\ FramesInv'
    BY <2>1 DEF ListInv, MinimumInv, FramesInv, list
  <2> QED BY <2>2, <2>3
<1>2. CASE FrameGoesOn \/ FrameEnds
  BY <1>2, AddPacketInv DEF FrameGoesOn, FrameEnds
<1>3. CASE Encode
  <2>1. Rate \in 0 .. 255 /\ Rate > 0
    BY <1>3, RateType DEF Encode
  <2>2. media_packets # <<>> /\ Len(media_packets) \in Nat \ {0}
    BY <1>3, EmptySeq DEF Encode, ListInv, TypeOK
  <2>3. /\ pc = "encode" /\ pc' = "fetch"
        /\ generated' = NumFecPackets(Len(media_packets), Rate)
        /\ UNCHANGED <<list, min_num_media_packets, current_params, pending_params, last_seq,
                       block>>
    BY <1>3 DEF Encode
  <2>4. generated' \in Nat /\ generated' > 0 /\ generated' <= Len(media_packets)
    BY <2>1, <2>2, <2>3, NumFecPacketsBounds
  <2>5. TypeOK'
    BY <2>3, <2>4 DEF TypeOK, list
  <2>6. ListInv' /\ MinimumInv' /\ FramesInv'
    BY <2>2, <2>3, <2>4 DEF ListInv, MinimumInv, FramesInv, list
  <2> QED BY <2>5, <2>6
<1>4. CASE EncodeNothing
  BY <1>4, ResetInv DEF EncodeNothing, AfterNothing
<1>5. CASE GetFecPackets
  <2>1. /\ pc = "fetch" /\ pc' \in {"idle", "crashed"}
        /\ UNCHANGED <<min_num_media_packets, current_params, pending_params, last_seq, block>>
    BY <1>5 DEF GetFecPackets
  <2>2. CASE block /\ generated > 0
    BY <1>5, <2>1, <2>2, ResetInv DEF GetFecPackets, AfterFetch
  <2>3. CASE ~(block /\ generated > 0)
    <3>1. generated' = 0 /\ UNCHANGED list
      BY <1>5, <2>3 DEF GetFecPackets, AfterFetch
    <3>2. TypeOK'
      BY <2>1, <3>1 DEF TypeOK, list
    <3>3. ListInv' /\ MinimumInv'
      BY <2>1, <3>1 DEF ListInv, MinimumInv, list
    <3>4. FramesInv'
      BY <2>1, <2>3, <3>1 DEF TypeOK, FramesInv, list
    <3> QED BY <3>2, <3>3, <3>4
  <2> QED BY <2>2, <2>3
<1>6. CASE UNCHANGED vars
  BY <1>6 DEF vars, list, TypeOK, ListInv, MinimumInv, FramesInv
<1> QED
  BY <1>1, <1>2, <1>3, <1>4, <1>5, <1>6 DEF Next, GeneratorStep

\* The encoder never makes more FEC packets than it protects, GetFecPackets has
\* a media header, and the window of the stream type fits the mask.
THEOREM ContractKept == Spec => []EncoderContract
<1>1. ASSUME IInv PROVE EncoderContract
  <2>1. generated > 0 => last_media_packet /\ generated <= Len(media_packets)
    BY <1>1 DEF IInv, ListInv
  <2>2. ~block /\ media_packets # <<>> => Protectable(media_packets)
    BY <1>1, OrderedProtectable, EmptySeq DEF IInv, TypeOK, ListInv
  <2> QED
    BY <2>1, <2>2 DEF EncoderContract
<1> QED
  BY <1>1, InvInit, InvStep, PTL DEF Spec

\* High protection never goes over fewer than kMinMediaPackets packets before
\* max_fec_frames is reached.
THEOREM MinimumAlwaysEnforced == Spec => []MinimumEnforced
<1>1. IInv => MinimumEnforced
  BY DEF IInv, MinimumInv, HighProtection, MinimumEnforced
<1> QED
  BY <1>1, InvInit, InvStep, PTL DEF Spec

\* A block ends at most the largest max_fec_frames frames, although the limit
\* may change in the middle of it.
THEOREM BlocksEndFewFrames == Spec => []FecOverFewFrames
<1>1. ASSUME IInv PROVE FecOverFewFrames
  <2> SUFFICES ASSUME pc = "encode", block
               PROVE  \E max \in {p.max_fec_frames : p \in Params} \cup {1} :
                        Cardinality(Markers(media_packets)) <= max
    BY DEF FecOverFewFrames, Markers
  <2>1. /\ Cardinality(Markers(media_packets)) <= num_protected_frames
        /\ \/ num_protected_frames <= 1
           \/ \E p \in Params : num_protected_frames <= p.max_fec_frames
    BY <1>1 DEF IInv, FramesInv
  <2>2. num_protected_frames \in Nat /\ \A p \in Params : p.max_fec_frames \in Nat
    BY <1>1, BlockAssumption DEF IInv, TypeOK
  <2>3. Cardinality(Markers(media_packets)) \in Nat
    BY <1>1, MarkersFinite DEF IInv, TypeOK, Packet
  <2>4. CASE num_protected_frames <= 1
    BY <2>1, <2>2, <2>3, <2>4
  <2>5. CASE \E p \in Params : num_protected_frames <= p.max_fec_frames
    BY <2>1, <2>2, <2>3, <2>5
  <2> QED BY <2>1, <2>4, <2>5
<1> QED
  BY <1>1, InvInit, InvStep, PTL DEF Spec

===============================================================================
