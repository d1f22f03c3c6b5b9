--------------------------- MODULE FecStatistician ---------------------------
(***************************************************************************)
(* FECStreamStatisticianImpl: what the receiver counts of one stream and   *)
(* reports to the sender, which sets the code's parameters from it.  Media *)
(* and FEC packets advance the stream, and every number jumped over is     *)
(* taken for lost; recovered and retransmitted copies of lost packets come *)
(* later, in any order, any number of times, or never.  Each call runs     *)
(* under the lock of FECStreamStatisticianLocked; the loop that records    *)
(* losses is one step for each turn.                                       *)
(*                                                                         *)
(* The maps packet_lost_time_, packet_recover_time_ and                    *)
(* packet_retransmit_time_ have their keys in common, the set tracked;     *)
(* recovered and retransmitted are the keys whose time is set.  The time   *)
(* sums are left out.                                                      *)
(***************************************************************************)
EXTENDS SeqNum, Sequences

CONSTANTS
  MaxConsiderLost,  \* max_consider_lost_packet_num_ (256)
  MaxAdvance,       \* bound: sequence numbers the stream advances in all
  MaxFec            \* bound: FEC packets received

ASSUME StatisticianAssumption ==
  MaxConsiderLost \in Nat \ {0} /\ MaxAdvance \in Nat /\ MaxFec \in Nat

VARIABLES
  received,                   \* last_receive_time_ has a value
  recent,                     \* and it is less than kStatisticsTimeout ago
  received_seq_max,
  consider_lost_packet_list,
  tracked, recovered, retransmitted,
  num,                        \* the cumulative_*_num_ counters
  last_report,                \* their values at the last report
  pc,                         \* "idle", or "insert" in InsertConsiderLostPacket
  seq_num, maybe_lost_seq_num, cnt,  \* its locals, 0 outside it
  advance,                    \* numbers the stream has advanced by (history)
  in_order                    \* packets that advanced it (history)

mapVars == <<tracked, recovered, retransmitted>>
loopVars == <<pc, seq_num, maybe_lost_seq_num, cnt>>
vars == <<received, recent, received_seq_max, consider_lost_packet_list, mapVars,
          num, last_report, loopVars, advance, in_order>>

Counters == [fec: Nat, recover: Nat, loss: Nat, retransmit: Nat, both: Nat, burst: Nat]
Zero == [fec |-> 0, recover |-> 0, loss |-> 0, retransmit |-> 0, both |-> 0, burst |-> 0]

Init ==
  /\ received = FALSE /\ recent = FALSE
  /\ received_seq_max = SeqMod - 1
  /\ consider_lost_packet_list = <<>>
  /\ tracked = {} /\ recovered = {} /\ retransmitted = {}
  /\ num = Zero /\ last_report = Zero
  /\ pc = "idle" /\ seq_num = 0 /\ maybe_lost_seq_num = 0 /\ cnt = 0
  /\ advance = 0 /\ in_order = 0

\* uint16_t arithmetic
Succ(s) == IF s = SeqMod - 1 THEN 0 ELSE s + 1
Pred(s) == IF s = 0 THEN SeqMod - 1 ELSE s - 1

\* received_seq_max_ as a packet s finds it: the first packet of a stream makes
\* itself the next one expected.
SeqMax(s) == IF received THEN received_seq_max ELSE Pred(s)

\* A gap before s: numbers were jumped over
Gap(s) == IsNewerSequenceNumber(s, SeqMax(s)) /\ MinDiff(SeqMax(s), s) # 1

\* What ReceiveFECPacket and ReceiveVideoPacket have in common
Arrive(s) ==
  LET max == SeqMax(s) IN
  /\ pc = "idle"
  /\ received' = TRUE /\ recent' = TRUE
  /\ cnt' = 0
  /\ IF IsNewerSequenceNumber(s, max)
     THEN /\ advance + ForwardDiff(max, s) <= MaxAdvance
          /\ advance' = advance + ForwardDiff(max, s)
          /\ in_order' = in_order + 1
     ELSE UNCHANGED <<advance, in_order>>
  /\ IF Gap(s)
     THEN /\ pc' = "insert"
          /\ seq_num' = s /\ maybe_lost_seq_num' = Succ(max)
          /\ received_seq_max' = max
     ELSE /\ UNCHANGED <<pc, seq_num, maybe_lost_seq_num>>
          /\ received_seq_max' = IF IsNewerSequenceNumber(s, max) THEN s ELSE max
  /\ UNCHANGED <<consider_lost_packet_list, mapVars, last_report>>

ReceiveVideoPacket(s) == Arrive(s) /\ UNCHANGED num

ReceiveFECPacket(s) ==
  /\ num.fec < MaxFec
  /\ Arrive(s)
  /\ num' = [num EXCEPT !.fec = @ + 1]

\* What is left of a full list, and the number popped from it
Full == Len(consider_lost_packet_list) >= MaxConsiderLost
Room == IF Full THEN Tail(consider_lost_packet_list) ELSE consider_lost_packet_list
Popped_Newest ==
  IF Full THEN {consider_lost_packet_list[Len(consider_lost_packet_list)]} ELSE {}
Popped == IF Full THEN {Head(consider_lost_packet_list)} ELSE {}

\* The condition of the loop of InsertConsiderLostPacket
MoreLost_Inclusive == ~IsNewerSequenceNumber(maybe_lost_seq_num, seq_num)
MoreLost == IsNewerSequenceNumber(seq_num, maybe_lost_seq_num)

\* One turn of the loop: the number enters the list and the maps afresh.
RecordLost ==
  LET s == maybe_lost_seq_num IN
  /\ pc = "insert" /\ MoreLost
  /\ consider_lost_packet_list' = Append(Room, s)
  /\ tracked' = (tracked \ Popped) \cup {s}
  /\ recovered' = recovered \ (Popped \cup {s})
  /\ retransmitted' = retransmitted \ (Popped \cup {s})
  /\ num' = [num EXCEPT !.loss = @ + 1]
  /\ maybe_lost_seq_num' = Succ(s)
  /\ cnt' = cnt + 1
  /\ UNCHANGED <<received, recent, received_seq_max, last_report, pc, seq_num,
                 advance, in_order>>

\* The loop ends, and the caller moves received_seq_max_.
LossesRecorded ==
  /\ pc = "insert" /\ ~MoreLost
  /\ num' = IF cnt > 1 THEN [num EXCEPT !.burst = @ + 1] ELSE num
  /\ received_seq_max' = seq_num
  /\ pc' = "idle" /\ seq_num' = 0 /\ maybe_lost_seq_num' = 0 /\ cnt' = 0
  /\ UNCHANGED <<received, recent, consider_lost_packet_list, mapVars, last_report,
                 advance, in_order>>

\* Only the first recovered copy of a tracked loss counts.
FirstRecover_Any(s) == s \in tracked
FirstRecover(s) == s \in tracked \ recovered
FirstRetransmit(s) == s \in tracked \ retransmitted

ReceiveRecoverPacket(s) ==
  /\ pc = "idle" /\ received /\ s \in tracked
  /\ recent' = TRUE
  /\ IF FirstRecover(s)
     THEN /\ recovered' = recovered \cup {s}
          /\ num' = [num EXCEPT !.recover = @ + 1,
                                !.both = IF s \in retransmitted THEN @ + 1 ELSE @]
     ELSE UNCHANGED <<recovered, num>>
  /\ UNCHANGED <<received, received_seq_max, consider_lost_packet_list, tracked,
                 retransmitted, last_report, loopVars, advance, in_order>>

ReceiveRetransmitPacket(s) ==
  /\ pc = "idle" /\ received /\ s \in tracked
  /\ recent' = TRUE
  /\ IF FirstRetransmit(s)
     THEN /\ retransmitted' = retransmitted \cup {s}
          /\ num' = [num EXCEPT !.retransmit = @ + 1,
                                !.both = IF s \in recovered THEN @ + 1 ELSE @]
     ELSE UNCHANGED <<retransmitted, num>>
  /\ UNCHANGED <<received, received_seq_max, consider_lost_packet_list, tracked,
                 recovered, last_report, loopVars, advance, in_order>>

\* A copy of a packet that is not tracked, or before the stream has begun, is
\* ignored: the early returns of both functions.
IgnoreCopy(s) ==
  /\ pc = "idle" /\ (~received \/ s \notin tracked)
  /\ UNCHANGED vars

\* No packet for kStatisticsTimeout
Timeout ==
  /\ pc = "idle" /\ recent
  /\ recent' = FALSE
  /\ UNCHANGED <<received, received_seq_max, consider_lost_packet_list, mapVars,
                 num, last_report, loopVars, advance, in_order>>

\* The two fractions of a report, in 255ths
Fraction_Uncapped(part, whole) == IF whole = 0 THEN 255 ELSE (255 * part) \div whole
Fraction(part, whole) ==
  IF part > whole \/ whole = 0 THEN 255 ELSE (255 * part) \div whole
FractionLostRecover ==
  Fraction(num.recover - last_report.recover, num.loss - last_report.loss)
FractionEffectiveFEC ==
  Fraction(num.recover - last_report.recover, num.fec - last_report.fec)

\* A report goes out only for a stream that is alive.
MaybeAppendReportBlockAndReset ==
  /\ pc = "idle" /\ received /\ recent
  /\ last_report' = num
  /\ UNCHANGED <<received, recent, received_seq_max, consider_lost_packet_list,
                 mapVars, num, loopVars, advance, in_order>>

\* Everything but a report
Receive ==
  \/ \E s \in Seq16 : \/ ReceiveVideoPacket(s) \/ ReceiveFECPacket(s)
                      \/ ReceiveRecoverPacket(s) \/ ReceiveRetransmitPacket(s)
                      \/ IgnoreCopy(s)
  \/ RecordLost \/ LossesRecorded
  \/ Timeout

Next == Receive \/ MaybeAppendReportBlockAndReset

Spec == Init /\ [][Next]_vars

-------------------------------------------------------------------------------
(* Properties *)

\* The maps share their keys, and sequence numbers stay within their width
\* through the arithmetic of the loop.
TypeOK ==
  /\ received \in BOOLEAN /\ recent \in BOOLEAN
  /\ received_seq_max \in Seq16
  /\ consider_lost_packet_list \in Seq(Seq16)
  /\ tracked \subseteq Seq16
  /\ recovered \subseteq tracked /\ retransmitted \subseteq tracked
  /\ num \in Counters /\ last_report \in Counters
  /\ pc \in {"idle", "insert"}
  /\ seq_num \in Seq16 /\ maybe_lost_seq_num \in Seq16
  /\ cnt \in Nat /\ advance \in Nat /\ in_order \in Nat

\* Every number the stream advanced over was received in order or counted lost,
\* exactly once, across wraps and gaps of any length.
LossesComplete == pc = "idle" => advance = in_order + num.loss

\* A loss is repaired at most once: the packets repaired by FEC or by
\* retransmission, those repaired by both taken once, are no more than the
\* packets lost, though copies come in any order and after eviction.
RepairsWithinLosses ==
  /\ num.recover + num.retransmit - num.both <= num.loss
  /\ num.both <= num.recover /\ num.both <= num.retransmit

\* A report fits its fields: the fractions are single bytes although packets lost
\* before the last report may be recovered after it, and no counter has fallen
\* behind its value at that report.
ReportFits ==
  /\ FractionLostRecover \in 0 .. 255 /\ FractionEffectiveFEC \in 0 .. 255
  /\ \A c \in DOMAIN num : last_report[c] <= num[c]

\* The maps hold nothing that is not in the list, so that they are bounded by
\* max_consider_lost_packet_num_ with it.
MapsBounded ==
  /\ Len(consider_lost_packet_list) <= MaxConsiderLost
  /\ \A s \in tracked : \E i \in DOMAIN consider_lost_packet_list :
       consider_lost_packet_list[i] = s

\* A repair is ignored as "Too old" only when the loss has left the list: every
\* listed number is in the maps, however lists and maps evict.  After the numbers
\* have wrapped a number may be listed twice, and the eviction of the first entry
\* takes the record of the second with it.
ListedUntilWrap ==
  advance <= SeqMod =>
    \A i \in DOMAIN consider_lost_packet_list : consider_lost_packet_list[i] \in tracked

\* Eviction keeps the maps and consider_lost_packet_list_ together, both ways.
MapsFollowList == MapsBounded /\ ListedUntilWrap

===============================================================================
