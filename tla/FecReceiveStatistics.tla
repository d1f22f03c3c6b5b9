------------------------- MODULE FecReceiveStatistics -------------------------
(***************************************************************************)
(* FECReceiveStatisticsImpl: the statisticians of all streams, and which   *)
(* of them get a block in each receiver report.  A report has room for     *)
(* max_blocks; the rotation starts behind the stream where the last report *)
(* stopped.  A stream is alive when MaybeAppendReportBlockAndReset would   *)
(* append a block for it (module FecStatistician).                         *)
(***************************************************************************)
EXTENDS Naturals, Sequences, FiniteSets

CONSTANTS
  Ssrcs,       \* streams that may appear
  MaxBlocks    \* RtcpReportBlocks' max_blocks (31, RTCP_MAX_REPORT_BLOCKS)

ASSUME RotationAssumption == IsFiniteSet(Ssrcs) /\ MaxBlocks \in Nat \ {0}

VARIABLES
  all_ssrcs,               \* streams in order of appearance
  alive,                   \* streams with a recent packet
  last_returned_ssrc_idx,
  reported                 \* streams with a block in the last report

vars == <<all_ssrcs, alive, last_returned_ssrc_idx, reported>>

Known == {all_ssrcs[i] : i \in DOMAIN all_ssrcs}

Init ==
  /\ all_ssrcs = <<>> /\ alive = {}
  /\ last_returned_ssrc_idx = 0
  /\ reported = {}

\* OnVideoPacket, OnFECPacket: GetOrCreateStatistician, and the stream is alive.
OnPacket(s) ==
  /\ all_ssrcs' = IF s \in Known THEN all_ssrcs ELSE Append(all_ssrcs, s)
  /\ alive' = alive \cup {s}
  /\ UNCHANGED <<last_returned_ssrc_idx, reported>>

\* OnRecoverPacket, OnRetransmitPacket before any packet of the stream: the
\* statistician is created and ignores the packet.
OnStrayCopy(s) ==
  /\ s \notin Known
  /\ all_ssrcs' = Append(all_ssrcs, s)
  /\ UNCHANGED <<alive, last_returned_ssrc_idx, reported>>

\* kStatisticsTimeout has passed without a packet of s.
Timeout(s) ==
  /\ s \in alive
  /\ alive' = alive \ {s}
  /\ UNCHANGED <<all_ssrcs, last_returned_ssrc_idx, reported>>

\* The index (from 0) that turn i of the loop looks at, and the stream there
Index_FromFront(i) == i
Index(i) == (last_returned_ssrc_idx + i + 1) % Len(all_ssrcs)
StreamAt(i) == all_ssrcs[Index(i) + 1]

\* The streams that the first n turns append a block for
AppendedBy(n) == {StreamAt(i) : i \in 0 .. n - 1} \cap alive

\* The number of turns: the loop stops behind the last stream and when the
\* report is full.
Turns ==
  CHOOSE n \in 0 .. Len(all_ssrcs) :
    /\ n = Len(all_ssrcs) \/ Cardinality(AppendedBy(n)) = MaxBlocks
    /\ \A k \in 0 .. n - 1 : Cardinality(AppendedBy(k)) < MaxBlocks

RtcpReportBlocks ==
  /\ reported' = AppendedBy(Turns)
  /\ last_returned_ssrc_idx' = IF Turns = 0 THEN 0 ELSE Index(Turns - 1)
  /\ UNCHANGED <<all_ssrcs, alive>>

Next ==
  \/ \E s \in Ssrcs : OnPacket(s) \/ OnStrayCopy(s) \/ Timeout(s)
  \/ RtcpReportBlocks

\* RTCP reports are sent on a timer.
Spec == Init /\ [][Next]_vars /\ WF_vars(RtcpReportBlocks)

-------------------------------------------------------------------------------
(* Properties *)

\* The rotation starves no stream: one that stays alive is reported again and
\* again, while streams appear and die around it.
NoStarvation ==
  \A s \in Ssrcs : <>[](s \in alive) => []<>(s \in reported)

===============================================================================
