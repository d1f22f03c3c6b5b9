--------------------------- MODULE StreamGenerator ---------------------------
(***************************************************************************)
(* The sliding-window FEC generator (StreamRSfecGenerator) with the part   *)
(* of EncodeRSFec that decides what is protected.  The sending thread adds *)
(* media packets one at a time and fetches the FEC packets after each; the *)
(* statistics callback changes L, I and M (module SharedParams) between    *)
(* any two of its reads, so a call of AddPacketAndGenerateFec is a step    *)
(* per read of a shared parameter.                                         *)
(*                                                                         *)
(* A packet of the window is its sequence number and the history bit       *)
(* `covered`: some FEC packet that protects it has been generated.  The    *)
(* double left_rate_ is counted in units of 1/One.                         *)
(***************************************************************************)
EXTENDS SharedParams, PacketWindow

CONSTANTS
  Types,           \* window types the program may be started with
  GenerateFecNum,  \* inputV::Params::generate_fec_num
  FecRate, One,    \* inputV::Params::FecRate is FecRate / One
  InsertInit,      \* what memory may hold: the constructor in use leaves
  LeftInit,        \* num_media_packets_insert_ and left_rate_ alone
  MaxGap           \* most sequence numbers between two packets that enter
                   \* the window (FEC and unprotected packets take numbers too)

RateTypes == {"RSFECStreamStableRate", "SwiftFECAblI"}
IntervalTypes == {"RLSRSFEC", "SwiftFECAblL", "SwiftFECAblM"}
\* The types whose number of FEC packets is generate_fec_num, not M
FixedNumberTypes == {"RSFECStreamStableRate", "SwiftFECAblM"}

ASSUME TypeAssumption == Types \subseteq RateTypes \cup IntervalTypes
ASSUME GeneratorAssumption ==
  /\ GenerateFecNum \in Nat /\ FecRate \in Nat /\ One \in Nat \ {0}
  /\ InsertInit \subseteq Int /\ LeftInit \subseteq Int
\* The erase loop measures by half ranges.
ASSUME GapAssumption == MaxGap \in Nat \ {0} /\ 2 * (MaxGap + MaxSeqNumDiff) <= SeqMod
\* LModule.cc and the mask agree on the longest window.
ASSUME LengthAssumption == \A l \in Lengths : l <= MaskLength

VARIABLES
  type,               \* inputV::Params::type, read once from the command line
  media_packets,      \* the window
  num_media_packets_insert,
  left_rate,
  last_media_packet,  \* does last_media_packet_ hold a packet
  generated,          \* how many FEC packets wait in generated_fec_packets_
  packet,             \* the packet being added, from AddPacket to Decide
  last_seq,           \* number of the packet that entered the window last
  pc,                 \* where the sending thread is
  exposed,            \* a packet left the window uncovered (history)
  disturbed,          \* something that excuses it happened (history)
  counted             \* num_media_packets_insert_ owes nothing to a negative
                      \* start (history)

window == <<media_packets, num_media_packets_insert, left_rate>>
history == <<exposed, disturbed, counted>>
vars == <<params, type, window, last_media_packet, generated, packet, last_seq, pc,
          history>>

Entry == [seq : Seq16, covered : BOOLEAN]
NoPacket == [seq |-> 0, marker |-> FALSE]

Init ==
  /\ ParamsInit /\ type \in Types
  /\ media_packets = <<>> /\ last_media_packet = FALSE /\ generated = 0
  /\ num_media_packets_insert \in InsertInit
  /\ left_rate \in LeftInit
  /\ packet = NoPacket /\ last_seq = 0
  /\ pc = "idle"
  /\ exposed = FALSE
  /\ disturbed = (num_media_packets_insert < 0) /\ counted = ~disturbed

\* Is some packet of this list without FEC?
Uncovered(w) == \E i \in 1 .. Len(w) : ~w[i].covered

-------------------------------------------------------------------------------
(* AddPacketAndGenerateFec, the same for all window types up to the        *)
(* decision to generate.                                                   *)

AddPacket(gap, marker) ==
  /\ pc = "idle"
  /\ packet' = [seq |-> NextSeq(last_seq, gap), marker |-> marker]
  /\ pc' = "trim"
  /\ UNCHANGED <<params, type, window, last_media_packet, generated, last_seq, history>>

\* while (size > 0 && size >= L) pop_front
TooLong == Len(media_packets) > 0 /\ Len(media_packets) >= L

PopFront ==
  /\ pc = "trim" /\ TooLong
  /\ media_packets' = Tail(media_packets)
  /\ exposed' = (exposed \/ ~Head(media_packets).covered)
  /\ UNCHANGED <<params, type, num_media_packets_insert, left_rate, last_media_packet,
                 generated, packet, last_seq, pc, disturbed, counted>>

Trimmed ==
  /\ pc = "trim" /\ ~TooLong
  /\ pc' = "insert"
  /\ UNCHANGED <<params, type, window, last_media_packet, generated, packet, last_seq, history>>

\* num_media_packets_insert_++
Count_PerFrame(n) == IF packet.marker THEN n + 1 ELSE n
Count_Saturating(n) == IF n < Len(media_packets) THEN n + 1 ELSE n
Count(n) == n + 1

\* Second read of L: there is room unless L became smaller since the loop.
Insert ==
  LET s    == packet.seq
      full == Append(media_packets, [seq |-> s, covered |-> FALSE])
  IN
  /\ pc = "insert" /\ Len(media_packets) < L
  /\ media_packets' = EraseFar(full, s)
  /\ num_media_packets_insert' = Count(num_media_packets_insert)
  /\ last_media_packet' = TRUE
  /\ last_seq' = s
  /\ pc' = "decide"
  /\ disturbed' = (disturbed \/ Len(media_packets') < Len(full))
  /\ exposed' = (exposed \/ Uncovered(SubSeq(full, 1, FirstNear(full, s) - 1)))
  /\ UNCHANGED <<params, type, left_rate, generated, packet, counted>>

Refuse ==
  /\ pc = "insert" /\ Len(media_packets) >= L
  /\ pc' = "decide"
  /\ exposed' = (exposed \/ L > 0)
  /\ UNCHANGED <<params, type, window, last_media_packet, generated, packet, last_seq, disturbed,
                 counted>>

-------------------------------------------------------------------------------
(* When to generate.                                                       *)

\* The whole window is new
AllNew_Strict == num_media_packets_insert > Len(media_packets)
AllNew == num_media_packets_insert >= Len(media_packets)
RateReached ==
  /\ num_media_packets_insert > 0
  /\ left_rate + FecRate * num_media_packets_insert >= GenerateFecNum * One
  /\ packet.marker

Generates_AnyWindow == num_media_packets_insert >= I
Generates ==
  IF type \in RateTypes
  THEN AllNew \/ RateReached
  ELSE Len(media_packets) > 0 /\ num_media_packets_insert >= I

\* The last use of the packet
Decide ==
  /\ pc = "decide"
  /\ packet' = NoPacket
  /\ pc' = IF Generates THEN "encode" ELSE "fetch"
  /\ disturbed' = (disturbed \/ (type \in IntervalTypes /\ I > L))
  /\ UNCHANGED <<params, type, window, last_media_packet, generated, last_seq, exposed,
                 counted>>

-------------------------------------------------------------------------------
(* EncodeRSFec and what the generator does with its answer.                *)

\* num_fec_packets of EncodeRSFec
NumFecPackets == IF type \in FixedNumberTypes THEN GenerateFecNum ELSE M

Cap(r) == IF r > One THEN One ELSE r

ResetState ==
  /\ media_packets' = <<>>
  /\ last_media_packet' = FALSE
  /\ generated' = 0
  /\ num_media_packets_insert' = 0
  /\ UNCHANGED left_rate

\* The FEC packets protect the whole window.
AllCovered(w) == [i \in 1 .. Len(w) |-> [seq |-> w[i].seq, covered |-> TRUE]]

Encode ==
  /\ pc = "encode" /\ NumFecPackets > 0 /\ Protectable(media_packets)
  /\ generated' = NumFecPackets
  /\ media_packets' = AllCovered(media_packets)
  /\ left_rate' = IF type \notin RateTypes THEN left_rate
                  ELSE IF AllNew THEN 0
                  ELSE Cap(left_rate + FecRate * num_media_packets_insert
                             - GenerateFecNum * One)
  /\ num_media_packets_insert' = 0
  /\ counted' = TRUE
  /\ pc' = "fetch"
  /\ UNCHANGED <<params, type, last_media_packet, packet, last_seq, exposed, disturbed>>

EncodeFails ==
  /\ pc = "encode"
  /\ NumFecPackets = 0 \/ (Len(media_packets) > 0 /\ ~Protectable(media_packets))
  /\ ResetState
  /\ exposed' = (exposed \/ Uncovered(media_packets))
  /\ disturbed' = TRUE /\ counted' = TRUE
  /\ pc' = "fetch"
  /\ UNCHANGED <<params, type, packet, last_seq>>

\* The mask loop reads the front of an empty list.
EncodeEmpty ==
  /\ pc = "encode" /\ NumFecPackets > 0 /\ Len(media_packets) = 0
  /\ pc' = "crashed"
  /\ UNCHANGED <<params, type, window, last_media_packet, generated, packet, last_seq, history>>

\* GetFecPackets, called by the sender after every packet: the FEC packets
\* get the header of the last media packet; the window stays.
GetFecPackets ==
  /\ pc = "fetch"
  /\ pc' = IF generated > 0 /\ ~last_media_packet THEN "crashed" ELSE "idle"
  /\ generated' = 0
  /\ UNCHANGED <<params, type, window, last_media_packet, packet, last_seq, history>>

-------------------------------------------------------------------------------
\* The statistics callback writes a parameter.
ParamStep ==
  /\ ParamsNext
  /\ disturbed' = (disturbed \/ L' < L)
  /\ UNCHANGED <<type, window, last_media_packet, generated, packet, last_seq, pc,
                 exposed, counted>>

SenderStep ==
  \/ \E gap \in 1 .. MaxGap, marker \in BOOLEAN : AddPacket(gap, marker)
  \/ PopFront \/ Trimmed \/ Insert \/ Refuse \/ Decide
  \/ Encode \/ EncodeFails \/ EncodeEmpty \/ GetFecPackets

Next == SenderStep \/ ParamStep

Spec == Init /\ [][Next]_vars

\* The video source keeps sending and the sending thread keeps running.
FairSpec == Spec /\ WF_vars(SenderStep)

-------------------------------------------------------------------------------
(* Properties.                                                             *)

TypeOK ==
  /\ ParamsTypeOK
  /\ media_packets \in Seq(Entry)
  /\ num_media_packets_insert \in Int /\ left_rate \in Int
  /\ last_media_packet \in BOOLEAN /\ generated \in Nat
  /\ packet \in [seq : Seq16, marker : BOOLEAN] /\ last_seq \in Seq16
  /\ pc \in {"idle", "trim", "insert", "decide", "encode", "fetch", "crashed"}
  /\ exposed \in BOOLEAN /\ disturbed \in BOOLEAN /\ counted \in BOOLEAN
  /\ type \in Types

\* The encoder can protect whatever the window holds: its numbers ascend, wrap
\* included, and span less than the mask, however L changes and whatever gaps
\* the stream has.  The encoder's "beyond 32" failure, which empties the
\* window, is therefore never taken.  Module RSDecoder assumes as much of the
\* FEC packets it receives (MaskAssumption).
MaskFits == media_packets # <<>> => Protectable(media_packets)

\* num_media_packets_insert_ never counts fewer packets than wait for FEC: all
\* but the newest num_media_packets_insert_ packets of the window are covered,
\* through pops, erasures, failed encodings and changes of L in mid-call.  A
\* counter that memory started below zero does so until FEC is first generated.
CoveredPrefix ==
  counted =>
    \A i \in 1 .. Len(media_packets) :
      i <= Len(media_packets) - num_media_packets_insert => media_packets[i].covered

\* No packet leaves the window, or is kept out of it, without FEC, unless L
\* was made smaller, I exceeded L when it was read, the numbers of the window
\* were too far apart, the encoder was told to produce nothing, or the counter
\* of new packets was started below zero by whatever memory held.  Packets sent
\* while L is 0, before the first report, are refused and not counted as exposed.
ExposedOnlyIfDisturbed == exposed => disturbed

\* The checks of the encoder and of GetFecPackets hold.  EncodeRSFec is never
\* given an empty window (RTC_DCHECK_GT(num_media_packets, 0)), it would read the
\* front of an empty list: the interval types check for it, and the rate types
\* meet it only before the first packet was added.  And GetFecPackets has a media
\* header to wrap the FEC packets in (RTC_CHECK(last_media_packet_.has_value())),
\* although failed encodings clear it.
EncoderContract ==
  /\ pc = "encode" /\ (type \in IntervalTypes \/ last_media_packet) => media_packets # <<>>
  /\ generated > 0 => last_media_packet /\ media_packets # <<>>

\* Once the window length stays and M is positive, FEC packets keep coming,
\* whatever the counters held at the start and whatever happened before, unless
\* a rate type met the empty window before the first report.
FecKeepsComing ==
  <>[](L > 0 /\ NumFecPackets > 0) /\ <>[][L' = L]_L =>
    []<>(generated > 0) \/ <>(pc = "crashed" /\ ~last_media_packet)

===============================================================================
