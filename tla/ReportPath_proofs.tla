-------------------------- MODULE ReportPath_proofs --------------------------
(***************************************************************************)
(* From the packets a receiver counts to the totals and averages the       *)
(* sender keeps.  Part 1: the counters of FECStreamStatisticianImpl, for   *)
(* every width of sequence numbers, every limit of the loss list and any   *)
(* order of packets.  Part 2: sums.  Part 3: the reports.  Part 4: both    *)
(* together.                                                               *)
(***************************************************************************)
EXTENDS ReportPath, FiniteSetTheorems, SequenceTheorems, WellFoundedInduction, TLAPS

\* In the loop the packet is ahead of the next number to record by less than
\* half the range, and what is left to record is the distance between them.
LoopDistance ==
  pc = "insert" =>
    /\ 2 * ForwardDiff(maybe_lost_seq_num, seq_num) < SeqMod
    /\ advance = in_order + num.loss + ForwardDiff(maybe_lost_seq_num, seq_num)

\* The counters leave room for every tracked packet that is not repaired yet.
RepairsAccounted ==
  /\ num.recover + num.retransmit - num.both
       + Cardinality(tracked \ (recovered \cup retransmitted)) <= num.loss
  /\ num.both + Cardinality(recovered \ retransmitted) <= num.recover
  /\ num.both + Cardinality(retransmitted \ recovered) <= num.retransmit

\* No counter is below its value at the last report.
ReportBehind ==
  /\ last_report.fec <= num.fec /\ last_report.recover <= num.recover
  /\ last_report.loss <= num.loss /\ last_report.retransmit <= num.retransmit
  /\ last_report.both <= num.both /\ last_report.burst <= num.burst

IInv ==
  /\ TypeOK /\ LoopDistance /\ LossesComplete /\ RepairsAccounted
  /\ MapsBounded /\ ReportBehind

-------------------------------------------------------------------------------
(* Sequence numbers *)

\* Distances are numbers below the width, and zero only between equals.
LEMMA DistanceType ==
  ASSUME NEW s \in Seq16, NEW t \in Seq16
  PROVE  /\ ForwardDiff(s, t) \in Nat
         /\ ForwardDiff(s, t) < SeqMod
         /\ ForwardDiff(s, t) = 0 <=> s = t
  BY SeqModAssumption DEF Seq16, ForwardDiff

\* The next number is one step closer to anything else.
LEMMA SuccCloser ==
  ASSUME NEW s \in Seq16, NEW t \in Seq16, s # t
  PROVE  Succ(s) \in Seq16 /\ ForwardDiff(Succ(s), t) = ForwardDiff(s, t) - 1
  BY SeqModAssumption DEF Seq16, ForwardDiff, Succ

\* The first packet of a stream is one step ahead of its predecessor.
LEMMA PredNext ==
  ASSUME NEW s \in Seq16
  PROVE  Pred(s) \in Seq16 /\ ForwardDiff(Pred(s), s) = 1
  BY SeqModAssumption DEF Seq16, ForwardDiff, Pred

\* What a packet finds as received_seq_max_ is a sequence number.
LEMMA SeqMaxType ==
  ASSUME TypeOK, NEW s \in Seq16
  PROVE  SeqMax(s) \in Seq16
  BY PredNext DEF TypeOK, SeqMax

\* Newer means ahead by at most half the range.
LEMMA NewerDistance ==
  ASSUME NEW s \in Seq16, NEW t \in Seq16
  PROVE  /\ IsNewerSequenceNumber(s, t) => 2 * ForwardDiff(t, s) <= SeqMod
         /\ 2 * ForwardDiff(t, s) < SeqMod /\ s # t => IsNewerSequenceNumber(s, t)
         /\ IsNewerSequenceNumber(s, t) => s # t
  BY SeqModAssumption, DistanceType DEF IsNewerSequenceNumber, Seq16

\* Without a gap a newer packet is exactly the next one.
LEMMA NoGapNext ==
  ASSUME NEW s \in Seq16, NEW t \in Seq16,
         IsNewerSequenceNumber(s, t), MinDiff(t, s) = 1
  PROVE  ForwardDiff(t, s) = 1
  BY SeqModAssumption DEF IsNewerSequenceNumber, MinDiff, ForwardDiff, Seq16

-------------------------------------------------------------------------------
(* Cardinalities *)

\* Every set of sequence numbers is finite and has a size.
LEMMA SizeOf ==
  ASSUME NEW S \in SUBSET Seq16
  PROVE  IsFiniteSet(S) /\ Cardinality(S) \in Nat
<1>1. IsFiniteSet(Seq16)
  BY FS_Interval, SeqModAssumption DEF Seq16
<1>2. IsFiniteSet(S)
  BY <1>1, FS_Subset
<1> QED
  BY <1>2, FS_CardinalityType

\* A set within another is no larger.
LEMMA SizeSubset ==
  ASSUME NEW S \in SUBSET Seq16, NEW T \in SUBSET S
  PROVE  Cardinality(T) <= Cardinality(S)
<1>1. IsFiniteSet(S)
  BY SizeOf
<1> QED
  BY <1>1, FS_Subset

\* One more element makes a set larger by at most one.
LEMMA SizeAdd ==
  ASSUME NEW S \in SUBSET Seq16, NEW s \in Seq16, NEW T \in SUBSET (S \cup {s})
  PROVE  Cardinality(T) <= Cardinality(S) + 1
<1>1. IsFiniteSet(S) /\ Cardinality(S) \in Nat
  BY SizeOf
<1>2. Cardinality(S \cup {s}) = IF s \in S THEN Cardinality(S) ELSE Cardinality(S) + 1
  BY <1>1, FS_AddElement
<1>3. Cardinality(T) <= Cardinality(S \cup {s})
  BY SizeSubset, S \cup {s} \in SUBSET Seq16
<1>4. Cardinality(T) \in Nat /\ Cardinality(S \cup {s}) \in Nat
  BY SizeOf, T \in SUBSET Seq16, S \cup {s} \in SUBSET Seq16
<1> QED
  BY <1>1, <1>2, <1>3, <1>4

\* Taking an element out makes a set smaller by one.
LEMMA SizeRemove ==
  ASSUME NEW S \in SUBSET Seq16, NEW s \in S
  PROVE  Cardinality(S \ {s}) = Cardinality(S) - 1
<1>1. IsFiniteSet(S)
  BY SizeOf
<1> QED
  BY <1>1, FS_RemoveElement
-------------------------------------------------------------------------------
(* The actions, one lemma each *)

\* A new statistician satisfies the invariant.
LEMMA InitIInv == Init => IInv
<1> SUFFICES ASSUME Init PROVE IInv
  OBVIOUS
<1>1. TypeOK
  <2>1. Zero \in Counters
    BY DEF Zero, Counters
  <2>2. 0 \in Seq16 /\ SeqMod - 1 \in Seq16
    BY SeqModAssumption DEF Seq16
  <2>3. consider_lost_packet_list \in Seq(Seq16)
    BY DEF Init
  <2> QED
    BY <2>1, <2>2, <2>3 DEF Init, TypeOK
<1>2. LoopDistance /\ LossesComplete
  BY DEF Init, LoopDistance, LossesComplete, Zero
<1>3. RepairsAccounted
  <2>1. /\ tracked \ (recovered \cup retransmitted) = {}
        /\ recovered \ retransmitted = {} /\ retransmitted \ recovered = {}
    BY DEF Init
  <2>2. Cardinality({}) = 0
    BY FS_EmptySet
  <2> QED
    BY <2>1, <2>2 DEF Init, RepairsAccounted, Zero
<1>4. MapsBounded
  BY StatisticianAssumption DEF Init, MapsBounded
<1>5. ReportBehind
  BY DEF Init, ReportBehind, Zero
<1> QED
  BY <1>1, <1>2, <1>3, <1>4, <1>5 DEF IInv

\* What an arriving packet does to the stream's position: it is the next number,
\* it leaves a gap for the loop to record, or it is old.
LEMMA ArrivePosition ==
  ASSUME IInv, NEW s \in Seq16, Arrive(s), num' \in Counters, num'.loss = num.loss
  PROVE  TypeOK' /\ LoopDistance' /\ LossesComplete'
<1> DEFINE max == SeqMax(s)
<1>1. max \in Seq16
  BY SeqMaxType DEF IInv
<1>2. pc = "idle" /\ advance = in_order + num.loss
  BY DEF IInv, LossesComplete, Arrive
<1>3. ForwardDiff(max, s) \in Nat
  BY <1>1, DistanceType
<1>4. num.loss \in Nat /\ advance \in Nat /\ in_order \in Nat
  BY DEF IInv, TypeOK, Counters
<1>5. CASE Gap(s)
  <2>1. IsNewerSequenceNumber(s, max) /\ s # max
    BY <1>1, <1>5, NewerDistance DEF Gap
  <2>2. Succ(max) \in Seq16 /\ ForwardDiff(Succ(max), s) = ForwardDiff(max, s) - 1
    BY <1>1, <2>1, SuccCloser
  <2>3. /\ pc' = "insert" /\ seq_num' = s /\ maybe_lost_seq_num' = Succ(max)
        /\ received_seq_max' = max
        /\ advance' = advance + ForwardDiff(max, s) /\ in_order' = in_order + 1
    BY <1>5, <2>1 DEF Arrive
  <2>4. TypeOK'
    BY <1>1, <1>3, <1>4, <2>2, <2>3 DEF IInv, TypeOK, Arrive, mapVars
  <2>5. 2 * ForwardDiff(max, s) <= SeqMod
    BY <1>1, <2>1, NewerDistance
  <2>6. LoopDistance'
    BY <1>2, <1>3, <1>4, <2>2, <2>3, <2>5, SeqModAssumption DEF LoopDistance
  <2> QED
    BY <2>3, <2>4, <2>6 DEF LossesComplete
<1>6. CASE ~Gap(s) /\ IsNewerSequenceNumber(s, max)
  <2>1. ForwardDiff(max, s) = 1
    BY <1>1, <1>6, NoGapNext DEF Gap
  <2>2. /\ pc' = "idle" /\ received_seq_max' = s
        /\ advance' = advance + 1 /\ in_order' = in_order + 1
    BY <1>2, <1>6, <2>1 DEF Arrive
  <2>3. TypeOK'
    BY <1>4, <1>6, <2>2 DEF IInv, TypeOK, Arrive, mapVars
  <2> QED
    BY <1>2, <1>4, <2>2, <2>3 DEF LoopDistance, LossesComplete
<1>7. CASE ~IsNewerSequenceNumber(s, max)
  <2>1. ~Gap(s)
    BY <1>7 DEF Gap
  <2>2. pc' = "idle" /\ received_seq_max' = max /\ UNCHANGED <<advance, in_order>>
    BY <1>2, <1>7, <2>1 DEF Arrive
  <2>3. TypeOK'
    BY <1>1, <1>4, <2>1, <2>2 DEF IInv, TypeOK, Arrive, mapVars
  <2> QED
    BY <1>2, <2>2, <2>3 DEF LoopDistance, LossesComplete
<1> QED
  BY <1>5, <1>6, <1>7

\* ReceiveVideoPacket moves the stream and leaves counters and maps alone.
LEMMA VideoIInv ==
  ASSUME IInv, NEW s \in Seq16, ReceiveVideoPacket(s)
  PROVE  IInv'
<1>1. Arrive(s) /\ num' = num
  BY DEF ReceiveVideoPacket
<1>2. TypeOK' /\ LoopDistance' /\ LossesComplete'
  BY <1>1, ArrivePosition DEF IInv, TypeOK
<1>3. UNCHANGED <<consider_lost_packet_list, tracked, recovered, retransmitted, last_report>>
  BY <1>1 DEF Arrive, mapVars
<1> QED
  BY <1>1, <1>2, <1>3 DEF IInv, RepairsAccounted, MapsBounded, ReportBehind

\* ReceiveFECPacket does the same and counts the packet.
LEMMA FecIInv ==
  ASSUME IInv, NEW s \in Seq16, ReceiveFECPacket(s)
  PROVE  IInv'
<1>1. Arrive(s) /\ num' = [num EXCEPT !.fec = @ + 1] /\ num \in Counters
  BY DEF ReceiveFECPacket, IInv, TypeOK
<1>2. /\ num' \in Counters /\ num'.loss = num.loss /\ num'.recover = num.recover
      /\ num'.retransmit = num.retransmit /\ num'.both = num.both
      /\ num'.burst = num.burst /\ num'.fec = num.fec + 1
  BY <1>1 DEF Counters
<1>3. TypeOK' /\ LoopDistance' /\ LossesComplete'
  BY <1>1, <1>2, ArrivePosition
<1>4. UNCHANGED <<consider_lost_packet_list, tracked, recovered, retransmitted, last_report>>
  BY <1>1 DEF Arrive, mapVars
<1>5. RepairsAccounted' /\ MapsBounded'
  BY <1>2, <1>4 DEF IInv, RepairsAccounted, MapsBounded
<1>6. ReportBehind'
  <2>1. num.fec \in Nat /\ last_report.fec \in Nat
    BY DEF IInv, TypeOK, Counters
  <2> QED
    BY <1>2, <1>4, <2>1 DEF IInv, ReportBehind
<1> QED
  BY <1>3, <1>5, <1>6 DEF IInv

\* One turn of the loop: one more loss, one step closer to the packet, at most one
\* tracked packet more, and the list and the maps change together.
LEMMA RecordLostIInv ==
  ASSUME IInv, RecordLost
  PROVE  IInv'
<1> DEFINE s == maybe_lost_seq_num
           list == consider_lost_packet_list
<1>1. /\ s \in Seq16 /\ seq_num \in Seq16 /\ pc = "insert" /\ pc' = "insert"
      /\ IsNewerSequenceNumber(seq_num, s)
  BY DEF IInv, TypeOK, RecordLost, MoreLost
<1>2. num \in Counters /\ num' = [num EXCEPT !.loss = @ + 1]
  BY DEF IInv, TypeOK, RecordLost
<1>3. /\ num' \in Counters /\ num'.loss = num.loss + 1 /\ num'.recover = num.recover
      /\ num'.retransmit = num.retransmit /\ num'.both = num.both
      /\ num'.burst = num.burst /\ num'.fec = num.fec
  BY <1>2 DEF Counters
<1>4. /\ num.loss \in Nat /\ num.recover \in Nat /\ num.retransmit \in Nat
      /\ num.both \in Nat /\ last_report.loss \in Nat
  BY DEF IInv, TypeOK, Counters
<1>5. s # seq_num
  BY <1>1, NewerDistance
<1>6. Succ(s) \in Seq16 /\ ForwardDiff(Succ(s), seq_num) = ForwardDiff(s, seq_num) - 1
  BY <1>1, <1>5, SuccCloser
<1>7. ForwardDiff(s, seq_num) \in Nat
  BY <1>1, DistanceType
<1>8. Len(list) \in Nat /\ list \in Seq(Seq16) /\ (Full => list # <<>>)
  BY StatisticianAssumption DEF IInv, TypeOK, Full
<1>9. Room \in Seq(Seq16)
  BY <1>8 DEF Room
<1>10. TypeOK'
  <2>1. consider_lost_packet_list' \in Seq(Seq16)
    BY <1>1, <1>9 DEF RecordLost
  <2>2. /\ tracked' \subseteq Seq16
        /\ recovered' \subseteq tracked' /\ retransmitted' \subseteq tracked'
    BY <1>1 DEF RecordLost, IInv, TypeOK
  <2> QED
    BY <1>1, <1>3, <1>6, <2>1, <2>2 DEF RecordLost, IInv, TypeOK
<1>11. LoopDistance' /\ LossesComplete'
  <2>1. /\ 2 * ForwardDiff(s, seq_num) < SeqMod
        /\ advance = in_order + num.loss + ForwardDiff(s, seq_num)
    BY <1>1 DEF IInv, LoopDistance
  <2>2. /\ maybe_lost_seq_num' = Succ(s) /\ seq_num' = seq_num
        /\ advance' = advance /\ in_order' = in_order
    BY DEF RecordLost
  <2>3. in_order \in Nat /\ SeqMod \in Nat
    BY SeqModAssumption DEF IInv, TypeOK
  <2> QED
    BY <1>1, <1>3, <1>4, <1>6, <1>7, <2>1, <2>2, <2>3 DEF LoopDistance, LossesComplete
<1>12. RepairsAccounted'
  <2> DEFINE U == tracked \ (recovered \cup retransmitted)
             A == recovered \ retransmitted
             B == retransmitted \ recovered
  <2>1. U \in SUBSET Seq16 /\ A \in SUBSET Seq16 /\ B \in SUBSET Seq16
    BY DEF IInv, TypeOK
  <2>2. U' \in SUBSET (U \cup {s}) /\ A' \in SUBSET A /\ B' \in SUBSET B
    BY DEF RecordLost, IInv, TypeOK
  <2>3. /\ Cardinality(U') <= Cardinality(U) + 1
        /\ Cardinality(A') <= Cardinality(A) /\ Cardinality(B') <= Cardinality(B)
    BY <1>1, <2>1, <2>2, SizeAdd, SizeSubset
  <2>4. U' \in SUBSET Seq16 /\ A' \in SUBSET Seq16 /\ B' \in SUBSET Seq16
    BY <1>1, <2>1, <2>2
  <2>5. /\ Cardinality(U) \in Nat /\ Cardinality(A) \in Nat /\ Cardinality(B) \in Nat
        /\ Cardinality(U') \in Nat /\ Cardinality(A') \in Nat /\ Cardinality(B') \in Nat
    BY <2>1, <2>4, SizeOf
  <2>6. /\ num.recover + num.retransmit - num.both + Cardinality(U) <= num.loss
        /\ num.both + Cardinality(A) <= num.recover
        /\ num.both + Cardinality(B) <= num.retransmit
    BY DEF IInv, RepairsAccounted
  <2>7. /\ num'.recover + num'.retransmit - num'.both + Cardinality(U') <= num'.loss
        /\ num'.both + Cardinality(A') <= num'.recover
        /\ num'.both + Cardinality(B') <= num'.retransmit
    BY <1>3, <1>4, <2>3, <2>5, <2>6
  <2> QED
    BY <2>7 DEF RepairsAccounted
<1>13. MapsBounded'
  <2>1. list' = Append(Room, s) /\ tracked' = (tracked \ Popped) \cup {s}
    BY DEF RecordLost
  <2>2. Len(list) <= MaxConsiderLost /\ MaxConsiderLost \in Nat
    BY StatisticianAssumption DEF IInv, MapsBounded
  <2>3. Len(Room) < MaxConsiderLost /\ Len(Room) \in Nat
    BY <1>8, <2>2 DEF Room, Full
  <2>4. Len(list') <= MaxConsiderLost
    BY <1>1, <1>9, <2>1, <2>2, <2>3
  <2>5. list'[Len(list')] = s /\ Len(list') \in DOMAIN list'
    BY <1>1, <1>9, <2>1, <2>3
  <2>6. \A i \in DOMAIN Room : i \in DOMAIN list' /\ list'[i] = Room[i]
    BY <1>1, <1>9, <2>1, <2>3
  <2>7. ASSUME NEW t \in tracked \ Popped PROVE \E i \in DOMAIN Room : Room[i] = t
    <3>1. PICK i \in DOMAIN list : list[i] = t
      BY DEF IInv, MapsBounded
    <3>2. CASE ~Full
      BY <3>1, <3>2 DEF Room
    <3>3. CASE Full
      <4>1. i # 1
        BY <1>8, <3>1, <3>3 DEF Popped
      <4>2. i - 1 \in DOMAIN Room /\ Room[i - 1] = t
        BY <1>8, <3>1, <3>3, <4>1 DEF Room
      <4> QED
        BY <4>2
    <3> QED
      BY <3>2, <3>3
  <2>8. \A t \in tracked' : \E i \in DOMAIN list' : list'[i] = t
    BY <2>1, <2>5, <2>6, <2>7
  <2> QED
    BY <2>4, <2>8 DEF MapsBounded
<1>14. ReportBehind'
  BY <1>3, <1>4 DEF RecordLost, IInv, ReportBehind
<1> QED
  BY <1>10, <1>11, <1>12, <1>13, <1>14 DEF IInv

\* The loop ends only when nothing is left to record.
LEMMA LossesRecordedIInv ==
  ASSUME IInv, LossesRecorded
  PROVE  IInv'
<1>1. /\ maybe_lost_seq_num \in Seq16 /\ seq_num \in Seq16 /\ pc = "insert"
      /\ ~IsNewerSequenceNumber(seq_num, maybe_lost_seq_num)
  BY DEF IInv, TypeOK, LossesRecorded, MoreLost
<1>2. /\ 2 * ForwardDiff(maybe_lost_seq_num, seq_num) < SeqMod
      /\ advance = in_order + num.loss + ForwardDiff(maybe_lost_seq_num, seq_num)
  BY <1>1 DEF IInv, LoopDistance
<1>3. ForwardDiff(maybe_lost_seq_num, seq_num) = 0
  BY <1>1, <1>2, NewerDistance, DistanceType
<1>4. num \in Counters /\ in_order \in Nat
  BY DEF IInv, TypeOK
<1>5. /\ num' \in Counters /\ num'.loss = num.loss /\ num'.recover = num.recover
      /\ num'.retransmit = num.retransmit /\ num'.both = num.both
      /\ num'.burst >= num.burst /\ num'.fec = num.fec
  BY <1>4 DEF LossesRecorded, Counters
<1>6. 0 \in Seq16
  BY SeqModAssumption DEF Seq16
<1>7. TypeOK'
  BY <1>1, <1>5, <1>6 DEF LossesRecorded, IInv, TypeOK, mapVars
<1>8. LoopDistance' /\ LossesComplete'
  BY <1>2, <1>3, <1>4, <1>5 DEF LossesRecorded, LoopDistance, LossesComplete, Counters
<1>9. UNCHANGED <<consider_lost_packet_list, tracked, recovered, retransmitted, last_report>>
  BY DEF LossesRecorded, mapVars
<1>10. RepairsAccounted' /\ MapsBounded'
  BY <1>5, <1>9 DEF IInv, RepairsAccounted, MapsBounded
<1>11. ReportBehind'
  <2>1. num.burst \in Nat /\ num'.burst \in Nat /\ last_report.burst \in Nat
    BY <1>5 DEF IInv, TypeOK, Counters
  <2> QED
    BY <1>5, <1>9, <2>1 DEF IInv, ReportBehind
<1> QED
  BY <1>7, <1>8, <1>10, <1>11 DEF IInv

\* A repair that is not the first of its kind, or a report, leaves counters and maps
\* as they are.
LEMMA QuietIInv ==
  ASSUME IInv, recent' \in BOOLEAN, last_report' \in {last_report, num},
         UNCHANGED <<received, received_seq_max, consider_lost_packet_list, tracked,
                     recovered, retransmitted, num, pc, seq_num, maybe_lost_seq_num,
                     cnt, advance, in_order>>
  PROVE  IInv'
<1>1. TypeOK'
  BY DEF IInv, TypeOK
<1>2. LoopDistance' /\ LossesComplete' /\ RepairsAccounted' /\ MapsBounded'
  BY DEF IInv, LoopDistance, LossesComplete, RepairsAccounted, MapsBounded
<1>3. ReportBehind'
  <2>1. CASE last_report' = last_report
    BY <2>1 DEF IInv, ReportBehind
  <2>2. CASE last_report' = num
    BY <2>2 DEF IInv, TypeOK, Counters, ReportBehind
  <2> QED
    BY <2>1, <2>2
<1> QED
  BY <1>1, <1>2, <1>3 DEF IInv

\* The first recovered copy of a loss: it was not repaired, or only retransmitted.
LEMMA RecoverIInv ==
  ASSUME IInv, NEW s \in Seq16, ReceiveRecoverPacket(s)
  PROVE  IInv'
<1>1. CASE ~FirstRecover(s)
  BY <1>1, QuietIInv DEF ReceiveRecoverPacket, loopVars
<1>2. CASE FirstRecover(s)
  <2> DEFINE U == tracked \ (recovered \cup retransmitted)
             A == recovered \ retransmitted
             B == retransmitted \ recovered
  <2>1. /\ num \in Counters /\ last_report \in Counters
        /\ s \in tracked /\ s \notin recovered
        /\ recovered' = recovered \cup {s} /\ tracked' = tracked
        /\ retransmitted' = retransmitted
        /\ UNCHANGED <<consider_lost_packet_list, last_report, pc, seq_num,
                       maybe_lost_seq_num, cnt, advance, in_order>>
    BY <1>2 DEF ReceiveRecoverPacket, FirstRecover, loopVars, IInv, TypeOK
  <2>2. num' = [num EXCEPT !.recover = @ + 1,
                           !.both = IF s \in retransmitted THEN @ + 1 ELSE @]
    BY <1>2 DEF ReceiveRecoverPacket
  <2>3. /\ num' \in Counters /\ num'.loss = num.loss /\ num'.recover = num.recover + 1
        /\ num'.retransmit = num.retransmit /\ num'.burst = num.burst
        /\ num'.fec = num.fec
        /\ num'.both = IF s \in retransmitted THEN num.both + 1 ELSE num.both
    <3>1. num \in Counters
      BY <2>1
    <3>2. CASE s \in retransmitted
      <4>1. num' = [[num EXCEPT !.recover = num.recover + 1] EXCEPT !.both = num.both + 1]
        BY <2>2, <3>2
      <4> DEFINE n == [num EXCEPT !.recover = num.recover + 1]
      <4>2. /\ n \in Counters /\ n.recover = num.recover + 1 /\ n.retransmit = num.retransmit
            /\ n.both = num.both /\ n.loss = num.loss /\ n.fec = num.fec
            /\ n.burst = num.burst
        BY <3>1 DEF Counters
      <4>3. n.both + 1 \in Nat
        BY <4>2 DEF Counters
      <4> QED
        BY <3>2, <4>1, <4>2, <4>3 DEF Counters
    <3>3. CASE s \notin retransmitted
      <4>1. num' = [num EXCEPT !.recover = num.recover + 1]
        BY <2>2, <3>1, <3>3 DEF Counters
      <4> QED
        BY <3>1, <3>3, <4>1 DEF Counters
    <3> QED
      BY <3>2, <3>3
  <2>4. /\ num.loss \in Nat /\ num.recover \in Nat /\ num.retransmit \in Nat
        /\ num.both \in Nat /\ last_report.recover \in Nat /\ last_report.both \in Nat
    BY <2>1 DEF Counters
  <2>5. U \in SUBSET Seq16 /\ A \in SUBSET Seq16 /\ B \in SUBSET Seq16
    BY DEF IInv, TypeOK
  <2>6. Cardinality(U) \in Nat /\ Cardinality(A) \in Nat /\ Cardinality(B) \in Nat
    BY <2>5, SizeOf
  <2>7. /\ num.recover + num.retransmit - num.both + Cardinality(U) <= num.loss
        /\ num.both + Cardinality(A) <= num.recover
        /\ num.both + Cardinality(B) <= num.retransmit
    BY DEF IInv, RepairsAccounted
  <2>8. /\ num'.recover + num'.retransmit - num'.both + Cardinality(U') <= num'.loss
        /\ num'.both + Cardinality(A') <= num'.recover
        /\ num'.both + Cardinality(B') <= num'.retransmit
    <3>1. CASE s \in retransmitted
      <4>1. U' = U /\ A' = A /\ B' = B \ {s} /\ s \in B
        BY <2>1, <3>1
      <4>2. Cardinality(B \ {s}) = Cardinality(B) - 1
        BY <2>5, <4>1, SizeRemove
      <4>3. /\ Cardinality(U') = Cardinality(U) /\ Cardinality(A') = Cardinality(A)
            /\ Cardinality(B') = Cardinality(B) - 1
        BY <4>1, <4>2
      <4>4. num'.both = num.both + 1
        BY <2>3, <3>1
      <4> HIDE DEF U, A, B
      <4> QED
        BY <2>3, <2>4, <2>6, <2>7, <4>3, <4>4
    <3>2. CASE s \notin retransmitted
      <4>1. U' = U \ {s} /\ s \in U /\ A' \in SUBSET (A \cup {s}) /\ B' = B
        BY <2>1, <3>2
      <4>2. Cardinality(U \ {s}) = Cardinality(U) - 1
        BY <2>5, <4>1, SizeRemove
      <4>3. /\ Cardinality(U') = Cardinality(U) - 1 /\ Cardinality(B') = Cardinality(B)
            /\ Cardinality(A') <= Cardinality(A) + 1
        BY <2>5, <4>1, <4>2, SizeAdd
      <4>4. Cardinality(A') \in Nat
        BY <2>5, <4>1, SizeOf, A' \in SUBSET Seq16
      <4>5. num'.both = num.both
        BY <2>3, <3>2
      <4> HIDE DEF U, A, B
      <4> QED
        BY <2>3, <2>4, <2>6, <2>7, <4>3, <4>4, <4>5
    <3> QED
      BY <3>1, <3>2
  <2>9. RepairsAccounted'
    BY <2>8 DEF RepairsAccounted
  <2>10. TypeOK'
    BY <2>1, <2>3 DEF ReceiveRecoverPacket, IInv, TypeOK
  <2>11. LoopDistance' /\ LossesComplete' /\ MapsBounded'
    BY <2>1, <2>3 DEF IInv, LoopDistance, LossesComplete, MapsBounded
  <2>12. ReportBehind'
    BY <2>1, <2>3, <2>4 DEF IInv, ReportBehind
  <2> QED
    BY <2>9, <2>10, <2>11, <2>12 DEF IInv
<1> QED
  BY <1>1, <1>2

\* The first retransmitted copy of a loss: it was not repaired, or only recovered.
LEMMA RetransmitIInv ==
  ASSUME IInv, NEW s \in Seq16, ReceiveRetransmitPacket(s)
  PROVE  IInv'
<1>1. CASE ~FirstRetransmit(s)
  BY <1>1, QuietIInv DEF ReceiveRetransmitPacket, loopVars
<1>2. CASE FirstRetransmit(s)
  <2> DEFINE U == tracked \ (recovered \cup retransmitted)
             A == recovered \ retransmitted
             B == retransmitted \ recovered
  <2>1. /\ num \in Counters /\ last_report \in Counters
        /\ s \in tracked /\ s \notin retransmitted
        /\ retransmitted' = retransmitted \cup {s} /\ tracked' = tracked
        /\ recovered' = recovered
        /\ UNCHANGED <<consider_lost_packet_list, last_report, pc, seq_num,
                       maybe_lost_seq_num, cnt, advance, in_order>>
    BY <1>2 DEF ReceiveRetransmitPacket, FirstRetransmit, loopVars, IInv, TypeOK
  <2>2. num' = [num EXCEPT !.retransmit = @ + 1,
                           !.both = IF s \in recovered THEN @ + 1 ELSE @]
    BY <1>2 DEF ReceiveRetransmitPacket
  <2>3. /\ num' \in Counters /\ num'.loss = num.loss /\ num'.retransmit = num.retransmit + 1
        /\ num'.recover = num.recover /\ num'.burst = num.burst
        /\ num'.fec = num.fec
        /\ num'.both = IF s \in recovered THEN num.both + 1 ELSE num.both
    <3>1. num \in Counters
      BY <2>1
    <3>2. CASE s \in recovered
      <4>1. num' = [[num EXCEPT !.retransmit = num.retransmit + 1] EXCEPT !.both = num.both + 1]
        BY <2>2, <3>2
      <4> DEFINE n == [num EXCEPT !.retransmit = num.retransmit + 1]
      <4>2. /\ n \in Counters /\ n.retransmit = num.retransmit + 1 /\ n.recover = num.recover
            /\ n.both = num.both /\ n.loss = num.loss /\ n.fec = num.fec
            /\ n.burst = num.burst
        BY <3>1 DEF Counters
      <4>3. n.both + 1 \in Nat
        BY <4>2 DEF Counters
      <4> QED
        BY <3>2, <4>1, <4>2, <4>3 DEF Counters
    <3>3. CASE s \notin recovered
      <4>1. num' = [num EXCEPT !.retransmit = num.retransmit + 1]
        BY <2>2, <3>1, <3>3 DEF Counters
      <4> QED
        BY <3>1, <3>3, <4>1 DEF Counters
    <3> QED
      BY <3>2, <3>3
  <2>4. /\ num.loss \in Nat /\ num.recover \in Nat /\ num.retransmit \in Nat
        /\ num.both \in Nat /\ last_report.retransmit \in Nat /\ last_report.both \in Nat
    BY <2>1 DEF Counters
  <2>5. U \in SUBSET Seq16 /\ A \in SUBSET Seq16 /\ B \in SUBSET Seq16
    BY DEF IInv, TypeOK
  <2>6. Cardinality(U) \in Nat /\ Cardinality(A) \in Nat /\ Cardinality(B) \in Nat
    BY <2>5, SizeOf
  <2>7. /\ num.recover + num.retransmit - num.both + Cardinality(U) <= num.loss
        /\ num.both + Cardinality(A) <= num.recover
        /\ num.both + Cardinality(B) <= num.retransmit
    BY DEF IInv, RepairsAccounted
  <2>8. /\ num'.recover + num'.retransmit - num'.both + Cardinality(U') <= num'.loss
        /\ num'.both + Cardinality(A') <= num'.recover
        /\ num'.both + Cardinality(B') <= num'.retransmit
    <3>1. CASE s \in recovered
      <4>1. U' = U /\ B' = B /\ A' = A \ {s} /\ s \in A
        BY <2>1, <3>1
      <4>2. Cardinality(A \ {s}) = Cardinality(A) - 1
        BY <2>5, <4>1, SizeRemove
      <4>3. /\ Cardinality(U') = Cardinality(U) /\ Cardinality(B') = Cardinality(B)
            /\ Cardinality(A') = Cardinality(A) - 1
        BY <4>1, <4>2
      <4>4. num'.both = num.both + 1
        BY <2>3, <3>1
      <4> HIDE DEF U, A, B
      <4> QED
        BY <2>3, <2>4, <2>6, <2>7, <4>3, <4>4
    <3>2. CASE s \notin recovered
      <4>1. U' = U \ {s} /\ s \in U /\ B' \in SUBSET (B \cup {s}) /\ A' = A
        BY <2>1, <3>2
      <4>2. Cardinality(U \ {s}) = Cardinality(U) - 1
        BY <2>5, <4>1, SizeRemove
      <4>3. /\ Cardinality(U') = Cardinality(U) - 1 /\ Cardinality(A') = Cardinality(A)
            /\ Cardinality(B') <= Cardinality(B) + 1
        BY <2>5, <4>1, <4>2, SizeAdd
      <4>4. Cardinality(B') \in Nat
        BY <2>5, <4>1, SizeOf, B' \in SUBSET Seq16
      <4>5. num'.both = num.both
        BY <2>3, <3>2
      <4> HIDE DEF U, A, B
      <4> QED
        BY <2>3, <2>4, <2>6, <2>7, <4>3, <4>4, <4>5
    <3> QED
      BY <3>1, <3>2
  <2>9. RepairsAccounted'
    BY <2>8 DEF RepairsAccounted
  <2>10. TypeOK'
    BY <2>1, <2>3 DEF ReceiveRetransmitPacket, IInv, TypeOK
  <2>11. LoopDistance' /\ LossesComplete' /\ MapsBounded'
    BY <2>1, <2>3 DEF IInv, LoopDistance, LossesComplete, MapsBounded
  <2>12. ReportBehind'
    BY <2>1, <2>3, <2>4 DEF IInv, ReportBehind
  <2> QED
    BY <2>9, <2>10, <2>11, <2>12 DEF IInv
<1> QED
  BY <1>1, <1>2

\* Every step preserves the invariant.
LEMMA NextIInv ==
  ASSUME IInv, [Next]_vars
  PROVE  IInv'
<1>1. ASSUME NEW s \in Seq16, ReceiveVideoPacket(s) PROVE IInv'
  BY <1>1, VideoIInv
<1>2. ASSUME NEW s \in Seq16, ReceiveFECPacket(s) PROVE IInv'
  BY <1>2, FecIInv
<1>3. ASSUME NEW s \in Seq16, ReceiveRecoverPacket(s) PROVE IInv'
  BY <1>3, RecoverIInv
<1>4. ASSUME NEW s \in Seq16, ReceiveRetransmitPacket(s) PROVE IInv'
  BY <1>4, RetransmitIInv
<1>5. ASSUME NEW s \in Seq16, IgnoreCopy(s) PROVE UNCHANGED vars
  BY <1>5 DEF IgnoreCopy
<1>6. CASE RecordLost
  BY <1>6, RecordLostIInv
<1>7. CASE LossesRecorded
  BY <1>7, LossesRecordedIInv
<1>8. CASE Timeout
  BY <1>8, QuietIInv DEF Timeout, mapVars, loopVars
<1>9. CASE MaybeAppendReportBlockAndReset
  BY <1>9, QuietIInv DEF MaybeAppendReportBlockAndReset, mapVars, loopVars
<1>10. CASE UNCHANGED vars
  <2>1. recent \in BOOLEAN
    BY DEF IInv, TypeOK
  <2> QED
    BY <1>10, <2>1, QuietIInv DEF vars, mapVars, loopVars
<1> QED
  BY <1>1, <1>2, <1>3, <1>4, <1>5, <1>6, <1>7, <1>8, <1>9, <1>10 DEF Next, Receive

-------------------------------------------------------------------------------
(* What the counters promise *)

\* The inductive invariant holds of every behaviour.
THEOREM Invariance == Spec => []IInv
<1>1. Init => IInv
  BY InitIInv
<1>2. IInv /\ [Next]_vars => IInv'
  BY NextIInv
<1> QED
  BY <1>1, <1>2, PTL DEF Spec

\* Sequence numbers keep their width and the three maps their common keys.
THEOREM StatsTypeCorrect == Spec => []TypeOK
<1>1. IInv => TypeOK
  BY DEF IInv
<1> QED
  BY <1>1, Invariance, PTL

\* Between calls of FECStreamStatisticianImpl every number the stream advanced over
\* was received in order or counted lost, exactly once.
THEOREM LossesCounted == Spec => []LossesComplete
<1>1. IInv => LossesComplete
  BY DEF IInv
<1> QED
  BY <1>1, Invariance, PTL

\* ReceiveRecoverPacket and ReceiveRetransmitPacket never count more repairs than
\* InsertConsiderLostPacket counted losses.
THEOREM RepairsCounted == Spec => []RepairsWithinLosses
<1>1. IInv => RepairsWithinLosses
  <2> SUFFICES ASSUME IInv PROVE RepairsWithinLosses
    OBVIOUS
  <2>1. /\ num.loss \in Nat /\ num.recover \in Nat /\ num.retransmit \in Nat
        /\ num.both \in Nat
    BY DEF IInv, TypeOK, Counters
  <2>2. /\ Cardinality(tracked \ (recovered \cup retransmitted)) \in Nat
        /\ Cardinality(recovered \ retransmitted) \in Nat
        /\ Cardinality(retransmitted \ recovered) \in Nat
    <3>1. /\ tracked \ (recovered \cup retransmitted) \in SUBSET Seq16
          /\ recovered \ retransmitted \in SUBSET Seq16
          /\ retransmitted \ recovered \in SUBSET Seq16
      BY DEF IInv, TypeOK
    <3> QED
      BY <3>1, SizeOf
  <2> QED
    BY <2>1, <2>2 DEF IInv, RepairsAccounted, RepairsWithinLosses
<1> QED
  BY <1>1, Invariance, PTL

\* A part in 255ths of a whole that is no smaller is a byte.
LEMMA FractionByte ==
  ASSUME NEW part \in Nat, NEW whole \in Nat
  PROVE  Fraction(part, whole) \in 0 .. 255
<1>1. CASE part > whole \/ whole = 0
  BY <1>1 DEF Fraction
<1>2. CASE part <= whole /\ whole # 0
  <2> DEFINE q == (255 * part) \div whole
             r == (255 * part) % whole
  <2>1. 255 * part \in Nat /\ whole \in Nat \ {0}
    BY <1>2
  <2>2. q \in Int /\ r \in 0 .. whole - 1 /\ 255 * part = whole * q + r
    BY <2>1, SMTT(30)
  <2> HIDE DEF q, r
  <2>3. q <= 255
    <3> SUFFICES ASSUME q >= 256 PROVE FALSE
      BY <2>2
    <3>1. whole * q >= whole * 256
      BY <2>1, <2>2
    <3> QED
      BY <1>2, <2>1, <2>2, <3>1
  <2>4. q >= 0
    <3> SUFFICES ASSUME q <= -1 PROVE FALSE
      BY <2>2
    <3>1. whole * q <= whole * (-1)
      BY <2>1, <2>2
    <3> QED
      BY <2>1, <2>2, <3>1
  <2>5. Fraction(part, whole) = q
    BY <1>2 DEF Fraction, q
  <2> QED
    BY <2>2, <2>3, <2>4, <2>5
<1> QED
  BY <1>1, <1>2

\* A report of MaybeAppendReportBlockAndReset fits its fields, whenever packets lost
\* before the last report are recovered.
THEOREM ReportAlwaysFits == Spec => []ReportFits
<1>1. IInv => ReportFits
  <2> SUFFICES ASSUME IInv PROVE ReportFits
    OBVIOUS
  <2>1. num \in Counters /\ last_report \in Counters /\ ReportBehind
    BY DEF IInv, TypeOK
  <2>2. /\ num.recover - last_report.recover \in Nat
        /\ num.loss - last_report.loss \in Nat
        /\ num.fec - last_report.fec \in Nat
    BY <2>1 DEF Counters, ReportBehind
  <2>3. FractionLostRecover \in 0 .. 255 /\ FractionEffectiveFEC \in 0 .. 255
    BY <2>2, FractionByte DEF FractionLostRecover, FractionEffectiveFEC
  <2>4. DOMAIN num = {"fec", "recover", "loss", "retransmit", "both", "burst"}
    BY <2>1 DEF Counters
  <2>5. \A c \in DOMAIN num : last_report[c] <= num[c]
    BY <2>1, <2>4 DEF ReportBehind
  <2> QED
    BY <2>3, <2>5 DEF ReportFits
<1> QED
  BY <1>1, Invariance, PTL

-------------------------------------------------------------------------------
(* The list until the numbers wrap                                         *)

\* The number the stream has come to, and how many it came over
Position == IF pc = "insert" THEN maybe_lost_seq_num ELSE received_seq_max
Passed == in_order + num.loss

\* The numbers of a list lie behind p, the oldest first, all within a of it.
Placed(list, p, a) ==
  /\ \A i \in 1 .. Len(list) : ForwardDiff(list[i], p) \in 1 .. a - 1
  /\ \A i, j \in 1 .. Len(list) : i < j => ForwardDiff(list[j], p) < ForwardDiff(list[i], p)

\* Before the stream has advanced by the whole range the list is ordered, so
\* without a number twice, and an eviction takes no other entry's record.
ListInv ==
  /\ received \/ consider_lost_packet_list = <<>>
  /\ pc = "insert" => received /\ in_order > 0
  /\ advance <= SeqMod =>
       /\ Placed(consider_lost_packet_list, Position, Passed)
       /\ \A i \in 1 .. Len(consider_lost_packet_list) : consider_lost_packet_list[i] \in tracked

\* The number one ahead is the next.
LEMMA OneAhead ==
  ASSUME NEW x \in Seq16, NEW y \in Seq16, ForwardDiff(x, y) = 1
  PROVE  y = Succ(x)
  BY SeqModAssumption, SMTT(30) DEF ForwardDiff, Succ, Seq16

\* The stream moves on by one number.
LEMMA PlacedOn ==
  ASSUME NEW L \in Seq(Seq16), NEW p \in Seq16, NEW a \in Nat, a + 1 <= SeqMod,
         Placed(L, p, a)
  PROVE  Placed(L, Succ(p), a + 1) /\ (a > 0 => Placed(Append(L, p), Succ(p), a + 1))
<1>1. /\ Len(L) \in Nat /\ Append(L, p) \in Seq(Seq16) /\ Len(Append(L, p)) = Len(L) + 1
      /\ Append(L, p)[Len(L) + 1] = p
      /\ \A i \in 1 .. Len(L) : L[i] \in Seq16 /\ Append(L, p)[i] = L[i]
  OBVIOUS
<1>2. ASSUME NEW x \in Seq16, ForwardDiff(x, p) + 1 < SeqMod
      PROVE  ForwardDiff(x, Succ(p)) = ForwardDiff(x, p) + 1
  BY <1>2, SeqModAssumption DEF ForwardDiff, Succ, Seq16
<1>3. \A i \in 1 .. Len(L) : /\ ForwardDiff(L[i], p) \in 1 .. a - 1
                            /\ ForwardDiff(L[i], Succ(p)) = ForwardDiff(L[i], p) + 1
  <2> SUFFICES ASSUME NEW i \in 1 .. Len(L)
               PROVE  /\ ForwardDiff(L[i], p) \in 1 .. a - 1
                      /\ ForwardDiff(L[i], Succ(p)) = ForwardDiff(L[i], p) + 1
    OBVIOUS
  <2>1. L[i] \in Seq16 /\ ForwardDiff(L[i], p) \in 1 .. a - 1
    BY <1>1 DEF Placed
  <2>2. ForwardDiff(L[i], p) + 1 < SeqMod
    BY <2>1, SeqModAssumption
  <2> QED BY <1>2, <2>1, <2>2
<1>4. \A i, j \in 1 .. Len(L) : i < j => ForwardDiff(L[j], p) < ForwardDiff(L[i], p)
  BY DEF Placed
<1>5. Placed(L, Succ(p), a + 1)
  BY <1>1, <1>3, <1>4 DEF Placed
<1>6. ASSUME a > 0 PROVE Placed(Append(L, p), Succ(p), a + 1)
  <2> DEFINE M == Append(L, p)
             n == Len(L)
  <2>1. ForwardDiff(p, Succ(p)) = 1
    BY <1>6, SeqModAssumption DEF ForwardDiff, Succ, Seq16
  <2>2. \A i \in 1 .. n : ForwardDiff(M[i], Succ(p)) \in 2 .. a
    BY <1>1, <1>3
  <2>3. M[n + 1] = p /\ Len(M) = n + 1 /\ n \in Nat /\ \A i \in 1 .. n : M[i] = L[i]
    BY <1>1
  <2> HIDE DEF M, n
  <2>4. \A i \in 1 .. n + 1 : i \in 1 .. n \/ i = n + 1
    BY <2>3
  <2>5. \A i \in 1 .. n + 1 : ForwardDiff(M[i], Succ(p)) \in 1 .. a
    BY <1>6, <2>1, <2>2, <2>3, <2>4
  <2>6. ASSUME NEW i \in 1 .. n + 1, NEW j \in 1 .. n + 1, i < j
        PROVE  ForwardDiff(M[j], Succ(p)) < ForwardDiff(M[i], Succ(p))
    <3>1. i \in 1 .. n
      BY <2>3, <2>6
    <3>2. CASE j = n + 1
      BY <2>1, <2>2, <2>3, <3>1, <3>2
    <3>3. CASE j \in 1 .. n
      BY <1>3, <1>4, <2>3, <2>6, <3>1, <3>3 DEF n
    <3> QED BY <2>4, <3>2, <3>3
  <2>7. (a + 1) - 1 = a
    OBVIOUS
  <2>8. Placed(M, Succ(p), a + 1)
    BY <2>3, <2>5, <2>6, <2>7, Zenon DEF Placed
  <2> QED BY <2>8 DEF M
<1> QED BY <1>5, <1>6

\* The front of a full list is dropped; the rest does not hold it again.
LEMMA PlacedTail ==
  ASSUME NEW L \in Seq(Seq16), L # <<>>, NEW p \in Seq16, NEW a \in Nat, Placed(L, p, a)
  PROVE  /\ Placed(Tail(L), p, a)
         /\ \A i \in 1 .. Len(Tail(L)) :
              /\ Tail(L)[i] # Head(L)
              /\ \E j \in 1 .. Len(L) : Tail(L)[i] = L[j]
<1>1. /\ Len(L) \in Nat \ {0} /\ Tail(L) \in Seq(Seq16) /\ Len(Tail(L)) = Len(L) - 1
      /\ Head(L) = L[1] /\ \A i \in 1 .. Len(L) - 1 : Tail(L)[i] = L[i + 1]
      /\ \A i \in 1 .. Len(L) : L[i] \in Seq16
  OBVIOUS
<1> DEFINE R == Tail(L)
<1> HIDE DEF R
<1>2. \A i \in 1 .. Len(R) : i + 1 \in 1 .. Len(L) /\ R[i] = L[i + 1] /\ 1 < i + 1
  BY <1>1 DEF R
<1>3. \A i \in 1 .. Len(L) : ForwardDiff(L[i], p) \in Nat
  BY <1>1, DistanceType
<1>4. \A i \in 1 .. Len(R) : R[i] # L[1]
  BY <1>1, <1>2, <1>3 DEF Placed
<1>5. Placed(R, p, a)
  BY <1>1, <1>2 DEF Placed, R
<1> QED BY <1>1, <1>2, <1>4, <1>5 DEF R

\* An arriving packet moves the stream on by one, to itself or into a gap.
LEMMA ArriveListInv ==
  ASSUME IInv, ListInv, NEW s \in Seq16, Arrive(s), num'.loss = num.loss
  PROVE  ListInv'
<1> DEFINE max == SeqMax(s)
           list == consider_lost_packet_list
<1>1. received'
  BY Zenon DEF Arrive
<1>2. /\ max \in Seq16 /\ list' = list /\ list \in Seq(Seq16) /\ tracked' = tracked /\ pc = "idle"
      /\ num.loss \in Nat /\ advance \in Nat /\ in_order \in Nat
      /\ advance = in_order + num.loss
  BY SeqMaxType DEF IInv, Arrive, mapVars, TypeOK, Counters, LossesComplete
<1>3. \/ advance' = advance /\ in_order' = in_order /\ Position' = max /\ pc' = "idle"
      \/ /\ advance' \in Nat /\ advance' >= advance + 1 /\ in_order' = in_order + 1
         /\ Position' = Succ(max)
  <2>1. ForwardDiff(max, s) \in Nat
    BY <1>2, DistanceType
  <2>2. CASE ~IsNewerSequenceNumber(s, max)
    BY <1>2, <2>2 DEF Arrive, Gap, Position
  <2>3. CASE Gap(s)
    <3>1. IsNewerSequenceNumber(s, max) /\ s # max
      BY <1>2, <2>3, NewerDistance DEF Gap
    <3>2. ForwardDiff(max, s) # 0
      BY <1>2, <3>1, DistanceType
    <3> QED BY <1>2, <2>1, <2>3, <3>1, <3>2 DEF Arrive, Position
  <2>4. CASE IsNewerSequenceNumber(s, max) /\ ~Gap(s)
    <3>1. ForwardDiff(max, s) = 1
      BY <1>2, <2>4, NoGapNext DEF Gap
    <3>2. s = Succ(max)
      BY <1>2, <3>1, OneAhead
    <3> QED BY <1>2, <2>4, <3>1, <3>2 DEF Arrive, Position
  <2> QED BY <2>2, <2>3, <2>4
<1>4. pc' = "insert" => in_order' > 0
  BY <1>2, <1>3
<1>5. ASSUME advance' <= SeqMod
      PROVE  Placed(list', Position', Passed') /\ \A i \in 1 .. Len(list') : list'[i] \in tracked'
  <2>1. CASE list = <<>>
    BY <1>2, <2>1 DEF Placed
  <2>2. CASE list # <<>>
    <3>1. received
      BY <2>2, Zenon DEF ListInv
    <3>2. max = received_seq_max
      BY <3>1, Zenon DEF SeqMax
    <3>3. advance <= SeqMod
      BY <1>2, <1>3, <1>5, SeqModAssumption
    <3>4. Placed(list, max, Passed) /\ \A i \in 1 .. Len(list) : list[i] \in tracked
      BY <1>2, <3>2, <3>3 DEF ListInv, Position
    <3>5. CASE in_order' = in_order /\ Position' = max
      BY <1>2, <3>4, <3>5 DEF Passed
    <3>6. CASE /\ advance' \in Nat /\ advance' >= advance + 1
               /\ in_order' = in_order + 1 /\ Position' = Succ(max)
      <4>1. Passed \in Nat /\ Passed + 1 <= SeqMod /\ Passed' = Passed + 1
        <5>1. Passed = advance /\ Passed' = in_order + 1 + num.loss
          BY <1>2, <3>6 DEF Passed
        <5>2. /\ advance \in Nat /\ advance' \in Nat /\ in_order \in Nat /\ num.loss \in Nat
              /\ advance + 1 <= advance' /\ advance = in_order + num.loss
          BY <1>2, <3>6
        <5>3. Passed' = Passed + 1
          BY <5>1, <5>2
        <5>4. Passed + 1 <= SeqMod
          BY <1>5, <5>1, <5>2, SeqModAssumption
        <5> QED BY <5>1, <5>2, <5>3, <5>4
      <4>2. Placed(list, Succ(max), Passed + 1)
        BY <1>2, <3>4, <4>1, PlacedOn
      <4> QED BY <1>2, <3>4, <3>6, <4>1, <4>2
    <3> QED BY <1>3, <3>5, <3>6
  <2> QED BY <2>1, <2>2
<1> QED BY <1>1, <1>4, <1>5, Zenon DEF ListInv

\* A turn of the loop drops the front of a full list, with its record, and adds
\* the number the stream has come to.
LEMMA RecordLostListInv ==
  ASSUME IInv, ListInv, RecordLost
  PROVE  ListInv'
<1> DEFINE s == maybe_lost_seq_num
           list == consider_lost_packet_list
<1>1. /\ s \in Seq16 /\ pc = "insert" /\ pc' = "insert" /\ list \in Seq(Seq16)
      /\ list' = Append(Room, s) /\ tracked' = (tracked \ Popped) \cup {s}
      /\ maybe_lost_seq_num' = Succ(s) /\ advance' = advance /\ in_order' = in_order
      /\ received' = received
      /\ num.loss \in Nat /\ advance \in Nat /\ in_order \in Nat /\ num'.loss = num.loss + 1
      /\ seq_num \in Seq16 /\ IsNewerSequenceNumber(seq_num, s)
      /\ advance = in_order + num.loss + ForwardDiff(s, seq_num)
  BY DEF IInv, TypeOK, RecordLost, Counters, MoreLost, LoopDistance
<1>2. received /\ in_order > 0
  BY <1>1, Zenon DEF ListInv
<1>3. received'
  BY <1>1, <1>2, Zenon
<1>4. ForwardDiff(s, seq_num) \in Nat \ {0}
  BY <1>1, NewerDistance, DistanceType
<1>5. ASSUME advance <= SeqMod
      PROVE  Placed(list', Position', Passed') /\ \A i \in 1 .. Len(list') : list'[i] \in tracked'
  <2>1. /\ Passed \in Nat /\ Passed > 0 /\ Passed + 1 <= SeqMod /\ Passed' = Passed + 1
        /\ Position = s /\ Position' = Succ(s)
    <3>1. Position = s /\ Position' = Succ(s)
      BY <1>1 DEF Position
    <3>2. Passed = in_order + num.loss /\ Passed' = in_order + (num.loss + 1)
      BY <1>1 DEF Passed
    <3>3. in_order + num.loss + 1 <= SeqMod
      BY <1>1, <1>4, <1>5, SeqModAssumption
    <3>4. in_order \in Nat /\ num.loss \in Nat
      BY <1>1
    <3>5. Passed \in Nat /\ Passed > 0 /\ Passed' = Passed + 1
      BY <1>2, <3>2, <3>4
    <3>6. Passed + 1 <= SeqMod
      BY <3>2, <3>3
    <3> QED BY <3>1, <3>5, <3>6
  <2>2. Placed(list, s, Passed) /\ \A i \in 1 .. Len(list) : list[i] \in tracked
    BY <1>5, <2>1 DEF ListInv
  <2>3. Full => list # <<>>
    BY <1>1, StatisticianAssumption DEF Full
  <2>4. /\ Room \in Seq(Seq16) /\ Placed(Room, s, Passed)
        /\ \A i \in 1 .. Len(Room) : Room[i] \in tracked \ Popped
    <3>1. CASE ~Full
      BY <1>1, <2>2, <3>1 DEF Room, Popped
    <3>2. CASE Full
      <4>1. list # <<>> /\ Room = Tail(list) /\ Popped = {Head(list)}
        BY <2>3, <3>2 DEF Room, Popped
      <4>2. /\ Placed(Tail(list), s, Passed)
            /\ \A i \in 1 .. Len(Tail(list)) :
                 /\ Tail(list)[i] # Head(list)
                 /\ \E j \in 1 .. Len(list) : Tail(list)[i] = list[j]
        BY <1>1, <2>1, <2>2, <4>1, PlacedTail
      <4>3. Tail(list) \in Seq(Seq16)
        BY <1>1, <4>1
      <4> HIDE DEF list
      <4> QED BY <2>2, <4>1, <4>2, <4>3
    <3> QED BY <3>1, <3>2
  <2>5. Placed(list', Succ(s), Passed + 1)
    BY <1>1, <2>1, <2>4, PlacedOn
  <2>6. /\ Len(Room) \in Nat /\ Len(list') = Len(Room) + 1 /\ list'[Len(Room) + 1] = s
        /\ \A i \in 1 .. Len(Room) : list'[i] = Room[i]
    BY <1>1, <2>4
  <2>7. \A i \in 1 .. Len(list') : list'[i] \in tracked'
    BY <1>1, <2>4, <2>6
  <2> QED BY <2>1, <2>5, <2>7
<1>6. ASSUME advance' <= SeqMod
      PROVE  Placed(list', Position', Passed') /\ \A i \in 1 .. Len(list') : list'[i] \in tracked'
  BY <1>1, <1>5, <1>6
<1>7. in_order' > 0
  BY <1>1, <1>2
<1> QED BY <1>3, <1>6, <1>7, Zenon DEF ListInv

\* The other steps leave the list and the stream's position alone.
LEMMA NextListInv ==
  ASSUME IInv, ListInv, [Next]_vars
  PROVE  ListInv'
<1>1. ASSUME NEW s \in Seq16, ReceiveVideoPacket(s) PROVE ListInv'
  BY <1>1, ArriveListInv DEF ReceiveVideoPacket
<1>2. ASSUME NEW s \in Seq16, ReceiveFECPacket(s) PROVE ListInv'
  <2>1. num'.loss = num.loss
    BY <1>2 DEF ReceiveFECPacket, IInv, TypeOK, Counters
  <2> QED BY <1>2, <2>1, ArriveListInv DEF ReceiveFECPacket
<1>3. CASE RecordLost
  BY <1>3, RecordLostListInv
<1>4. SUFFICES ASSUME /\ received' = received /\ UNCHANGED <<consider_lost_packet_list, tracked>>
                      /\ advance' = advance /\ in_order' = in_order
                      /\ num'.loss = num.loss /\ Position' = Position
                      /\ pc' = "insert" => pc = "insert"
               PROVE  ListInv'
  <2>1. ASSUME NEW s \in Seq16,
               ReceiveRecoverPacket(s) \/ ReceiveRetransmitPacket(s)
        PROVE  num'.loss = num.loss
    BY <2>1 DEF ReceiveRecoverPacket, ReceiveRetransmitPacket, IInv, TypeOK, Counters
  <2>2. ASSUME NEW s \in Seq16, ReceiveRecoverPacket(s) \/ ReceiveRetransmitPacket(s)
        PROVE  ListInv'
    BY <1>4, <2>1, <2>2 DEF ReceiveRecoverPacket, ReceiveRetransmitPacket, loopVars, Position
  <2>3. CASE LossesRecorded
    <3>1. maybe_lost_seq_num = seq_num
      BY <2>3, NewerDistance DEF LossesRecorded, MoreLost, IInv, LoopDistance, TypeOK
    <3>2. num'.loss = num.loss
      BY <2>3 DEF LossesRecorded, IInv, TypeOK, Counters
    <3> QED BY <1>4, <2>3, <3>1, <3>2 DEF LossesRecorded, Position, mapVars
  <2>4. CASE Timeout
    BY <1>4, <2>4 DEF Timeout, Position, mapVars, loopVars
  <2>5. CASE MaybeAppendReportBlockAndReset
    BY <1>4, <2>5 DEF MaybeAppendReportBlockAndReset, Position, mapVars, loopVars
  <2>6. CASE UNCHANGED vars \/ \E s \in Seq16 : IgnoreCopy(s)
    BY <1>4, <2>6 DEF IgnoreCopy, vars, Position, mapVars, loopVars
  <2> QED BY <1>1, <1>2, <1>3, <2>2, <2>3, <2>4, <2>5, <2>6 DEF Next, Receive
<1>5. Passed' = Passed
  BY <1>4 DEF Passed
<1> QED BY <1>4, <1>5, Zenon DEF ListInv

\* The maps and the list agree: nothing is in the maps that
\* InsertConsiderLostPacket has dropped from consider_lost_packet_list_, which keeps
\* its limit, and until the stream has advanced by the whole range of numbers every
\* listed loss is in the maps, so its repair is counted and not taken for "Too old".
THEOREM MapsAndListAgree == Spec => []MapsFollowList
<1>1. Init => ListInv
  BY DEF Init, ListInv, Placed
<1>2. IInv /\ ListInv /\ [Next]_vars => ListInv'
  BY NextListInv
<1>3. IInv /\ ListInv => ListedUntilWrap
  BY DEF IInv, TypeOK, ListInv, ListedUntilWrap
<1>4. IInv /\ ListInv => MapsFollowList
  BY <1>3 DEF IInv, MapsFollowList
<1> QED
  BY <1>1, <1>2, <1>4, Invariance, PTL DEF Spec

-------------------------------------------------------------------------------
(* Part 2.  Sums.  A fold is a recursive function of sets that takes out   *)
(* one element after the other.  Inductions run on the size of a set or    *)
(* the length of a list, in the form: there is no smallest counterexample. *)

\* The element that a fold takes first
Element(T) == CHOOSE x \in T : TRUE

\* The recursive function by which a fold adds the values v[x], x \in S
FoldEquation(v, S, g) ==
  g = [T \in SUBSET S |-> IF T = {} THEN 0 ELSE v[Element(T)] + g[T \ {Element(T)}]]

Total(v, S) == (CHOOSE g : FoldEquation(v, S, g))[S]

\* g[T] is the sum of v over T, whichever element is taken out.
Additive(v, S, g) ==
  /\ g \in [SUBSET S -> Int]
  /\ g[{}] = 0
  /\ \A T \in SUBSET S : \A x \in T : g[T] = v[x] + g[T \ {x}]

\* A set of natural numbers has a least element.
LEMMA LeastNat ==
  ASSUME NEW X \in SUBSET Nat, X # {}
  PROVE  \E m \in X : \A n \in X : m <= n
<1>1. PICK m \in X : \A n \in X : ~(<<n, m>> \in OpToRel(<, Nat))
  BY NatLessThanWellFounded, WFMin
<1>2. \A n \in X : ~(n < m)
  BY <1>1 DEF OpToRel
<1> QED BY <1>2

\* A non-empty collection of subsets of a finite set has a smallest member: what
\* any smaller set has, it has not.
LEMMA SmallestSet ==
  ASSUME NEW S, IsFiniteSet(S), NEW B \in SUBSET (SUBSET S), B # {}
  PROVE  \E T \in B : \A x \in T : T \ {x} \notin B
<1>1. \A T \in SUBSET S : IsFiniteSet(T) /\ Cardinality(T) \in Nat
  BY FS_Subset, FS_CardinalityType
<1> DEFINE X == {Cardinality(T) : T \in B}
<1>2. X \in SUBSET Nat /\ X # {}
  BY <1>1
<1>3. PICK m \in X : \A n \in X : m <= n
  BY <1>2, LeastNat
<1>4. PICK T \in B : Cardinality(T) = m
  BY <1>3
<1>5. ASSUME NEW x \in T PROVE T \ {x} \notin B
  <2>1. Cardinality(T \ {x}) = Cardinality(T) - 1
    BY <1>1, FS_RemoveElement
  <2> SUFFICES ASSUME T \ {x} \in B PROVE FALSE
    OBVIOUS
  <2>2. Cardinality(T \ {x}) \in X
    OBVIOUS
  <2> QED BY <1>1, <1>3, <1>4, <2>1, <2>2
<1> QED BY <1>5

\* Adding one more element to a sum.
LEMMA AdditiveExtends ==
  ASSUME NEW S, NEW y, y \notin S, NEW v, v[y] \in Int,
         NEW g, Additive(v, S, g), \A x \in S : v[x] \in Int
  PROVE  \E h : Additive(v, S \cup {y}, h)
<1> DEFINE U == S \cup {y}
           h == [T \in SUBSET U |-> IF y \in T THEN v[y] + g[T \ {y}] ELSE g[T]]
<1>1. \A T \in SUBSET U : T \ {y} \in SUBSET S /\ (y \notin T => T \in SUBSET S)
  OBVIOUS
<1>2. \A T \in SUBSET S : g[T] \in Int
  BY DEF Additive
<1>3. h \in [SUBSET U -> Int]
  BY <1>1, <1>2
<1>4. h[{}] = 0
  BY DEF Additive
<1>5. ASSUME NEW T \in SUBSET U, NEW x \in T
      PROVE  h[T] = v[x] + h[T \ {x}]
  <2>1. T \ {x} \in SUBSET U
    OBVIOUS
  <2>2. CASE x = y
    <3>1. h[T] = v[y] + g[T \ {y}]
      BY <2>2
    <3>2. h[T \ {x}] = g[T \ {y}]
      BY <2>1, <2>2
    <3> QED BY <2>2, <3>1, <3>2
  <2>3. CASE x # y /\ y \in T
    <3>1. h[T] = v[y] + g[T \ {y}]
      BY <2>3
    <3>2. h[T \ {x}] = v[y] + g[(T \ {x}) \ {y}]
      BY <2>1, <2>3
    <3>3. g[T \ {y}] = v[x] + g[(T \ {y}) \ {x}]
      BY <1>1, <2>3 DEF Additive
    <3>4. (T \ {y}) \ {x} = (T \ {x}) \ {y} /\ (T \ {y}) \ {x} \in SUBSET S
      BY <1>1
    <3>5. v[x] \in Int /\ g[(T \ {y}) \ {x}] \in Int
      BY <1>2, <2>3, <3>4
    <3> DEFINE rest == g[(T \ {y}) \ {x}]
    <3>6. h[T] = v[y] + (v[x] + rest)
      BY <3>1, <3>3
    <3>7. h[T \ {x}] = v[y] + rest
      BY <3>2, <3>4
    <3> HIDE DEF h, rest
    <3>8. v[y] + (v[x] + rest) = v[x] + (v[y] + rest)
      BY <3>5 DEF rest
    <3> QED BY <3>6, <3>7, <3>8
  <2>4. CASE y \notin T
    <3>1. h[T] = g[T] /\ h[T \ {x}] = g[T \ {x}]
      BY <2>1, <2>4
    <3>2. g[T] = v[x] + g[T \ {x}]
      BY <1>1, <2>4 DEF Additive
    <3> HIDE DEF h
    <3> QED BY <3>1, <3>2
  <2> QED BY <2>2, <2>3, <2>4
<1> HIDE DEF h
<1> QED BY <1>3, <1>4, <1>5 DEF Additive

\* Every finite set of integers has a sum.
LEMMA AdditiveExists ==
  ASSUME NEW S, IsFiniteSet(S), NEW v, \A x \in S : v[x] \in Int
  PROVE  \E g : Additive(v, S, g)
<1> DEFINE B == {T \in SUBSET S : ~\E g : Additive(v, T, g)}
<1> SUFFICES B = {}
  OBVIOUS
<1> SUFFICES ASSUME B # {} PROVE FALSE
  OBVIOUS
<1>1. PICK T \in B : \A x \in T : T \ {x} \notin B
  <2>1. B \in SUBSET (SUBSET S)
    OBVIOUS
  <2> HIDE DEF B
  <2> QED BY <2>1, SmallestSet
<1>2. T # {}
  <2> DEFINE g == [U \in SUBSET {} |-> 0]
  <2>1. \A U \in SUBSET {} : U = {}
    OBVIOUS
  <2>2. Additive(v, {}, g)
    BY <2>1 DEF Additive
  <2> QED BY <2>2
<1>3. PICK y \in T : TRUE
  BY <1>2
<1>4. PICK g : Additive(v, T \ {y}, g)
  BY <1>1
<1>5. \E h : Additive(v, (T \ {y}) \cup {y}, h)
  <2>1. v[y] \in Int /\ \A x \in T \ {y} : v[x] \in Int
    OBVIOUS
  <2> HIDE DEF B
  <2> QED BY <1>4, <2>1, AdditiveExtends
<1>6. (T \ {y}) \cup {y} = T
  OBVIOUS
<1> QED BY <1>1, <1>5, <1>6

\* h takes out the elements in the order of a fold.
FoldsUp(v, S, h) ==
  \A T \in SUBSET S :
    h[T] = IF T = {} THEN 0 ELSE v[Element(T)] + h[T \ {Element(T)}]

\* Whatever takes out the elements in the order of a fold is the sum.
LEMMA FoldUnique ==
  ASSUME NEW S, IsFiniteSet(S), NEW v, NEW g, Additive(v, S, g),
         NEW h, FoldsUp(v, S, h)
  PROVE  h[S] = g[S]
<1> DEFINE B == {T \in SUBSET S : h[T] # g[T]}
<1> SUFFICES ASSUME B # {} PROVE FALSE
  OBVIOUS
<1>1. PICK T \in B : \A x \in T : T \ {x} \notin B
  <2>1. B \in SUBSET (SUBSET S)
    OBVIOUS
  <2> HIDE DEF B
  <2> QED BY <2>1, SmallestSet
<1>2. T # {}
  BY DEF Additive, FoldsUp
<1> DEFINE x == Element(T)
<1>3. x \in T
  BY <1>2 DEF Element
<1> HIDE DEF x
<1>4. h[T \ {x}] = g[T \ {x}]
  BY <1>1, <1>3
<1>5. h[T] = v[x] + h[T \ {x}]
  BY <1>2 DEF x, FoldsUp
<1>6. g[T] = v[x] + g[T \ {x}]
  BY <1>3 DEF Additive
<1> QED BY <1>4, <1>5, <1>6

\* The fold computes the sum.
LEMMA TotalIs ==
  ASSUME NEW S, IsFiniteSet(S), NEW v, NEW g, Additive(v, S, g)
  PROVE  Total(v, S) = g[S]
<1>1. FoldEquation(v, S, g)
  <2> DEFINE w == [T \in SUBSET S |->
                     IF T = {} THEN 0 ELSE v[Element(T)] + g[T \ {Element(T)}]]
  <2>1. \A T \in SUBSET S : g[T] = w[T]
    BY DEF Additive, Element
  <2>2. g = [T \in SUBSET S |-> g[T]]
    BY DEF Additive
  <2> QED BY <2>1, <2>2 DEF FoldEquation
<1> DEFINE h == CHOOSE h : FoldEquation(v, S, h)
<1>2. FoldEquation(v, S, h)
  BY <1>1
<1> HIDE DEF h
<1>3. FoldsUp(v, S, h)
  BY <1>2 DEF FoldEquation, FoldsUp
<1>4. h[S] = g[S]
  BY <1>3, FoldUnique
<1> QED BY <1>4 DEF Total, h

\* What a sum is: an integer, 0 of nothing, and any element may be taken out.
LEMMA TotalFacts ==
  ASSUME NEW S, IsFiniteSet(S), NEW v, \A x \in S : v[x] \in Int
  PROVE  /\ Total(v, S) \in Int
         /\ S = {} => Total(v, S) = 0
         /\ \A x \in S : Total(v, S) = v[x] + Total(v, S \ {x})
<1>1. PICK g : Additive(v, S, g)
  BY AdditiveExists
<1>2. Total(v, S) = g[S]
  BY <1>1, TotalIs
<1>3. g[S] \in Int /\ (S = {} => g[S] = 0)
  BY <1>1 DEF Additive
<1>4. ASSUME NEW x \in S PROVE Total(v, S \ {x}) = g[S \ {x}]
  <2> DEFINE U == S \ {x}
             h == [T \in SUBSET U |-> g[T]]
  <2>1. IsFiniteSet(U)
    BY FS_Subset
  <2>2. SUBSET U \subseteq SUBSET S
    OBVIOUS
  <2>3. Additive(v, U, h)
    <3>1. h \in [SUBSET U -> Int]
      BY <1>1, <2>2 DEF Additive
    <3>2. h[{}] = 0
      BY <1>1 DEF Additive
    <3>3. ASSUME NEW T \in SUBSET U, NEW y \in T
          PROVE  h[T] = v[y] + h[T \ {y}]
      <4>1. T \in SUBSET S /\ T \ {y} \in SUBSET U
        OBVIOUS
      <4>2. g[T] = v[y] + g[T \ {y}]
        BY <1>1, <4>1 DEF Additive
      <4> QED BY <4>1, <4>2
    <3> HIDE DEF h
    <3> QED BY <3>1, <3>2, <3>3 DEF Additive
  <2>4. h[U] = g[U]
    OBVIOUS
  <2> HIDE DEF h
  <2> QED BY <2>1, <2>3, <2>4, TotalIs
<1>5. ASSUME NEW x \in S PROVE g[S] = v[x] + g[S \ {x}]
  BY <1>1 DEF Additive
<1> QED BY <1>2, <1>3, <1>4, <1>5

\* Only the values on the set matter.
LEMMA TotalSame ==
  ASSUME NEW S, IsFiniteSet(S), NEW v, NEW w, \A x \in S : v[x] \in Int /\ w[x] = v[x]
  PROVE  Total(w, S) = Total(v, S)
<1>1. PICK g : Additive(v, S, g)
  BY AdditiveExists
<1>2. Additive(w, S, g)
  BY <1>1 DEF Additive
<1> QED BY <1>1, <1>2, TotalIs

\* The sum of the numbers of a kind over reports on the way
LEMMA MapSum ==
  ASSUME NEW S, IsFiniteSet(S), NEW k, \A r \in S : r.num[k] \in Int
  PROVE  Report!MapThenSumSet(LAMBDA r : r.num[k], S) = Total([r \in S |-> r.num[k]], S)
<1> DEFINE v == [r \in S |-> r.num[k]]
           Equation(g) == g = [T \in SUBSET S |->
             IF T = {} THEN 0 ELSE Element(T).num[k] + g[T \ {Element(T)}]]
           h == CHOOSE h : Equation(h)
<1>1. Report!MapThenSumSet(LAMBDA r : r.num[k], S) = h[S]
  BY DEF Report!MapThenSumSet, Report!MapThenFoldSet, Element
<1>2. \A x \in S : v[x] \in Int
  OBVIOUS
<1>3. \A T \in SUBSET S : T # {} => Element(T) \in S /\ v[Element(T)] = Element(T).num[k]
  BY DEF Element
<1> HIDE DEF v
<1>4. PICK g : Additive(v, S, g)
  BY <1>2, AdditiveExists
<1>5. Equation(g)
  <2> DEFINE w == [T \in SUBSET S |->
                     IF T = {} THEN 0 ELSE Element(T).num[k] + g[T \ {Element(T)}]]
  <2>1. ASSUME NEW T \in SUBSET S PROVE g[T] = w[T]
    <3>1. T = {} => g[T] = 0
      BY <1>4 DEF Additive
    <3>2. T # {} => g[T] = v[Element(T)] + g[T \ {Element(T)}]
      BY <1>4 DEF Additive, Element
    <3> QED BY <1>3, <3>1, <3>2
  <2>2. g = [T \in SUBSET S |-> g[T]]
    BY <1>4 DEF Additive
  <2> QED BY <2>1, <2>2
<1>6. Equation(h)
  <2> HIDE DEF Equation
  <2> QED BY <1>5
<1> HIDE DEF h
<1>7. FoldsUp(v, S, h)
  BY <1>3, <1>6 DEF FoldsUp
<1>8. h[S] = g[S] /\ Total(v, S) = g[S]
  BY <1>4, <1>7, FoldUnique, TotalIs
<1> QED BY <1>1, <1>8 DEF v

-------------------------------------------------------------------------------
(* Sums of lists                                                           *)

ListSum(list) == Report!FoldSeq(+, 0, list)

\* A fold over a list is one over its positions.
LEMMA ListTotal == ASSUME NEW list PROVE ListSum(list) = Total(list, DOMAIN list)
BY DEF ListSum, Report!FoldSeq, Report!FoldFunction, Report!FoldFunctionOnSet,
       Report!MapThenFoldSet, Total, FoldEquation, Element

\* The sum of a list of integers
LEMMA ListSumType ==
  ASSUME NEW list \in Seq(Int)
  PROVE  ListSum(list) \in Int /\ (Len(list) = 0 => ListSum(list) = 0)
<1>1. DOMAIN list = 1 .. Len(list) /\ Len(list) \in Nat
  OBVIOUS
<1>2. IsFiniteSet(1 .. Len(list))
  BY <1>1, FS_Interval
<1>3. \A i \in 1 .. Len(list) : list[i] \in Int
  OBVIOUS
<1>4. Len(list) = 0 => 1 .. Len(list) = {}
  BY <1>1
<1> QED BY <1>1, <1>2, <1>3, <1>4, ListTotal, TotalFacts

\* One more value adds itself.
LEMMA ListSumAppend ==
  ASSUME NEW list \in Seq(Int), NEW e \in Int
  PROVE  ListSum(Append(list, e)) = ListSum(list) + e
<1> DEFINE n == Len(list)
           longer == Append(list, e)
<1>1. n \in Nat /\ DOMAIN list = 1 .. n /\ DOMAIN longer = 1 .. n + 1
  OBVIOUS
<1>2. /\ \A i \in 1 .. n : list[i] \in Int /\ longer[i] = list[i]
      /\ longer[n + 1] = e
  OBVIOUS
<1>3. \A i \in 1 .. n + 1 : longer[i] \in Int
  BY <1>1, <1>2
<1> HIDE DEF n, longer
<1>4. IsFiniteSet(1 .. n) /\ IsFiniteSet(1 .. n + 1)
  BY <1>1, FS_Interval
<1>5. (1 .. n + 1) \ {n + 1} = 1 .. n /\ n + 1 \in 1 .. n + 1
  BY <1>1
<1>6. Total(longer, 1 .. n + 1) = longer[n + 1] + Total(longer, (1 .. n + 1) \ {n + 1})
  BY <1>3, <1>4, <1>5, TotalFacts
<1>7. Total(longer, 1 .. n) = Total(list, 1 .. n)
  BY <1>2, <1>4, TotalSame
<1>8. Total(list, 1 .. n) \in Int
  BY <1>2, <1>4, TotalFacts
<1>9. ListSum(longer) = e + Total(list, 1 .. n) /\ ListSum(list) = Total(list, 1 .. n)
  BY <1>1, <1>2, <1>5, <1>6, <1>7, ListTotal
<1> QED BY <1>8, <1>9 DEF longer

\* A list of integers that is not empty is one value appended to a shorter list.
LEMMA LastAppended ==
  ASSUME NEW D, NEW list \in Seq(D), Len(list) # 0
  PROVE  \E init \in Seq(D), e \in D : list = Append(init, e) /\ Len(list) = Len(init) + 1
<1>1. list # << >>
  OBVIOUS
<1>2. PICK init \in Seq(D), e \in D : list = Append(init, e)
  BY <1>1, SequenceEmptyOrAppend
<1>3. Len(list) = Len(init) + 1
  BY <1>2, AppendProperties
<1> QED BY <1>2, <1>3

\* The sum of a concatenation
LEMMA ListSumConcat ==
  ASSUME NEW s \in Seq(Int), NEW t \in Seq(Int)
  PROVE  ListSum(s \o t) = ListSum(s) + ListSum(t)
<1> DEFINE Good(u) == ListSum(s \o u) = ListSum(s) + ListSum(u)
           X == {n \in Nat : \E u \in Seq(Int) : Len(u) = n /\ ~Good(u)}
<1> SUFFICES ASSUME ~Good(t) PROVE FALSE
  OBVIOUS
<1>1. X \in SUBSET Nat /\ X # {}
  <2>1. Len(t) \in X
    OBVIOUS
  <2> QED BY <2>1
<1>2. PICK m \in X : \A n \in X : m <= n
  BY <1>1, LeastNat
<1>3. PICK u \in Seq(Int) : Len(u) = m /\ ~Good(u)
  BY <1>2
<1>4. CASE m = 0
  <2>1. s \o u = s
    BY <1>3, <1>4
  <2>2. ListSum(u) = 0 /\ ListSum(s) \in Int
    BY <1>3, <1>4, ListSumType
  <2> QED BY <1>3, <2>1, <2>2
<1>5. CASE m # 0
  <2>1. PICK init \in Seq(Int), e \in Int :
          u = Append(init, e) /\ Len(u) = Len(init) + 1
    BY <1>3, <1>5, LastAppended
  <2>2. Good(init)
    <3>1. Len(init) \in Nat /\ Len(init) < m
      BY <1>3, <2>1
    <3> HIDE DEF Good
    <3> QED BY <1>2, <3>1
  <2>3. s \o u = Append(s \o init, e) /\ s \o init \in Seq(Int)
    BY <2>1
  <2>4. /\ ListSum(s \o u) = ListSum(s \o init) + e
        /\ ListSum(u) = ListSum(init) + e
    BY <2>1, <2>3, ListSumAppend
  <2>5. ListSum(init) \in Int /\ ListSum(s) \in Int
    BY ListSumType
  <2>6. ListSum(s \o u) = ListSum(s) + ListSum(u)
    BY <2>2, <2>4, <2>5
  <2> QED BY <1>3, <2>6
<1> QED BY <1>4, <1>5

Byte == 0 .. 255

\* A list of bytes adds up to at most 255 for each.
LEMMA ByteSum ==
  ASSUME NEW list \in Seq(Byte)
  PROVE  ListSum(list) \in 0 .. 255 * Len(list)
<1> DEFINE Good(u) == ListSum(u) \in 0 .. 255 * Len(u)
           X == {n \in Nat : \E u \in Seq(Byte) : Len(u) = n /\ ~Good(u)}
<1> SUFFICES ASSUME ~Good(list) PROVE FALSE
  OBVIOUS
<1>1. X \in SUBSET Nat /\ X # {}
  <2>1. Len(list) \in X
    OBVIOUS
  <2> QED BY <2>1
<1>2. PICK m \in X : \A n \in X : m <= n
  BY <1>1, LeastNat
<1>3. PICK u \in Seq(Byte) : Len(u) = m /\ ~Good(u)
  BY <1>2
<1>4. \A w \in Seq(Byte) : w \in Seq(Int)
  <2>1. Byte \subseteq Int
    BY DEF Byte
  <2> QED BY <2>1, SeqMonotonic
<1>5. CASE m = 0
  BY <1>3, <1>4, <1>5, ListSumType
<1>6. CASE m # 0
  <2>1. PICK init \in Seq(Byte), e \in Byte :
          u = Append(init, e) /\ Len(u) = Len(init) + 1
    <3>1. Len(u) # 0
      BY <1>3, <1>6
    <3> HIDE DEF Good, X
    <3> QED BY <1>3, <3>1, LastAppended
  <2>2. Good(init)
    <3>1. Len(init) \in Nat /\ Len(init) < m
      BY <1>3, <2>1
    <3> HIDE DEF Good
    <3> QED BY <1>2, <3>1
  <2>3. ListSum(u) = ListSum(init) + e
    BY <1>4, <2>1, ListSumAppend DEF Byte
  <2>4. Len(init) \in Nat
    OBVIOUS
  <2>5. e \in Int /\ 0 <= e /\ e <= 255
    BY DEF Byte
  <2>6. Good(u)
    BY <2>1, <2>2, <2>3, <2>4, <2>5
  <2> QED BY <1>3, <2>6
<1> QED BY <1>5, <1>6

\* The average of bytes is a byte.
LEMMA ByteAverage ==
  ASSUME NEW sum \in Nat, NEW n \in Nat \ {0}, sum <= 255 * n
  PROVE  Report!Quotient(sum, n) \in 0 .. 255
<1> DEFINE q == sum \div n
           r == sum % n
<1>1. q \in Int /\ r \in 0 .. n - 1 /\ sum = n * q + r
  BY SMTT(30)
<1> HIDE DEF q, r
<1>2. q <= 255
  <2> SUFFICES ASSUME q >= 256 PROVE FALSE
    BY <1>1
  <2>1. n * q >= n * 256
    BY <1>1
  <2> QED BY <1>1, <2>1
<1>3. q >= 0
  <2> SUFFICES ASSUME q <= -1 PROVE FALSE
    BY <1>1
  <2>1. n * q <= n * (-1)
    BY <1>1
  <2> QED BY <1>1, <2>1
<1>4. Report!Quotient(sum, n) = q
  BY DEF Report!Quotient, q
<1> QED BY <1>1, <1>2, <1>3, <1>4

\* Whole turns of the wire's numbers do not matter.
LEMMA TurnsVanish ==
  ASSUME NEW a \in Nat, NEW b \in Nat, NEW m \in Nat \ {0}, NEW w \in Nat,
         b = a + m * w
  PROVE  b % m = a % m
<1> DEFINE q == a \div m
           r == a % m
           p == b \div m
           s == b % m
<1>1. q \in Int /\ r \in 0 .. m - 1 /\ a = m * q + r
  BY SMTT(30)
<1>2. p \in Int /\ s \in 0 .. m - 1 /\ b = m * p + s
  BY SMTT(30)
<1> HIDE DEF q, r, p, s
<1> DEFINE d == q + w - p
<1>3. d \in Int /\ s = m * d + r
  BY <1>1, <1>2
<1> HIDE DEF d
<1>4. d < 1
  <2> SUFFICES ASSUME d >= 1 PROVE FALSE
    BY <1>3
  <2>1. m * d >= m * 1
    BY <1>3
  <2> QED BY <1>1, <1>2, <1>3, <2>1
<1>5. d > -1
  <2> SUFFICES ASSUME d <= -1 PROVE FALSE
    BY <1>3
  <2>1. m * d <= m * (-1)
    BY <1>3
  <2> QED BY <1>1, <1>2, <1>3, <2>1
<1>6. d = 0
  BY <1>3, <1>4, <1>5
<1> QED BY <1>1, <1>3, <1>6 DEF r, s

\* The sum of natural numbers is one.
LEMMA TotalNat ==
  ASSUME NEW S, IsFiniteSet(S), NEW v, \A x \in S : v[x] \in Nat
  PROVE  Total(v, S) \in Nat
<1> DEFINE B == {T \in SUBSET S : Total(v, T) \notin Nat}
<1> SUFFICES ASSUME B # {} PROVE FALSE
  OBVIOUS
<1>1. PICK T \in B : \A x \in T : T \ {x} \notin B
  <2>1. B \in SUBSET (SUBSET S)
    OBVIOUS
  <2> HIDE DEF B
  <2> QED BY <2>1, SmallestSet
<1>2. IsFiniteSet(T) /\ \A x \in T : v[x] \in Int
  BY FS_Subset
<1>3. T # {}
  BY <1>1, <1>2, TotalFacts
<1>4. PICK x \in T : TRUE
  BY <1>3
<1>5. Total(v, T) = v[x] + Total(v, T \ {x})
  BY <1>2, TotalFacts
<1>6. v[x] \in Nat /\ Total(v, T \ {x}) \in Nat
  BY <1>1
<1> QED BY <1>1, <1>5, <1>6

-------------------------------------------------------------------------------
(* Part 3.  The reports.  Nothing here depends on what the statistician    *)
(* does beyond what FecReport says of it.                                  *)

\* What the reports in S carry of a kind
Carried(S, k) == Total([r \in S |-> r.num[k]], S)

\* A report on the way
ReportType ==
  [id: Nat, num: [Kinds -> 0 .. NumMod - 1], average: [Kinds -> Int], fraction: Byte]

\* The window of one average, and its sum
WindowInv(w) ==
  /\ w.list \in Seq(Int) /\ Len(w.list) <= Window
  /\ w.sum = ListSum(w.list)
  /\ w.fixed \in Int

SumsInv ==
  /\ \A k \in Kinds : WindowInv(averages[k])
  /\ WindowInv(fraction)
  /\ fraction.list \in Seq(Byte) /\ fraction.fixed \in Byte

\* Reports are told apart by their number.
WayInv ==
  /\ reports \in 0 .. MaxReports
  /\ IsFiniteSet(network) /\ network \subseteq ReportType
  /\ \A r \in network : r.id < reports

ClockInv == now \in 1 .. MaxTime /\ stamp \in 0 .. now

CountsInv ==
  /\ OfKinds(num) \in [Kinds -> Nat] /\ OfKinds(last_report) \in [Kinds -> Nat]
  /\ cumulative \in [Kinds -> Nat]
  /\ lost \in [Kinds -> Nat] /\ forgotten \in [Kinds -> Nat]
  /\ \A k \in Kinds : OfKinds(last_report)[k] <= OfKinds(num)[k]

\* What was reported is with the sender, lost, forgotten or on the way, but for
\* whole turns of the numbers on the wire.
Conserved ==
  \A k \in Kinds : \E w \in Nat :
    OfKinds(last_report)[k] =
      cumulative[k] + lost[k] + forgotten[k] + Carried(network, k) + NumMod * w

RInv == CountsInv /\ ClockInv /\ WayInv /\ Conserved /\ SumsInv

\* What reports carry adds up.
LEMMA CarriedFacts ==
  ASSUME NEW S, IsFiniteSet(S), S \subseteq ReportType, NEW k \in Kinds
  PROVE  /\ Carried(S, k) \in Nat
         /\ S = {} => Carried(S, k) = 0
         /\ \A r \in S : Carried(S, k) = r.num[k] + Carried(S \ {r}, k)
<1> DEFINE v == [r \in S |-> r.num[k]]
<1>1. \A r \in S : v[r] \in Nat /\ v[r] \in Int /\ v[r] = r.num[k]
  BY PathAssumption DEF ReportType
<1>2. /\ Total(v, S) \in Nat
      /\ S = {} => Total(v, S) = 0
      /\ \A r \in S : Total(v, S) = v[r] + Total(v, S \ {r})
  <2> HIDE DEF v
  <2> QED BY <1>1, TotalFacts, TotalNat
<1>3. ASSUME NEW r \in S PROVE Carried(S \ {r}, k) = Total(v, S \ {r})
  <2> DEFINE U == S \ {r}
             u == [x \in U |-> x.num[k]]
  <2>1. IsFiniteSet(U)
    BY FS_Subset
  <2>2. \A x \in U : v[x] \in Int /\ u[x] = v[x]
    BY <1>1
  <2> HIDE DEF u, v
  <2>3. Total(u, U) = Total(v, U)
    BY <2>1, <2>2, TotalSame
  <2> QED BY <2>3 DEF Carried, u
<1>4. Carried(S, k) = Total(v, S)
  BY DEF Carried
<1> QED BY <1>1, <1>2, <1>3, <1>4

\* What FecReport adds up is what the reports on the way carry.
LEMMA CarriedIsSum ==
  ASSUME WayInv, NEW k \in Kinds
  PROVE  Report!MapThenSumSet(LAMBDA r : r.num[k], network) = Carried(network, k)
<1>1. \A r \in network : r.num[k] \in Int
  BY PathAssumption DEF WayInv, ReportType
<1> QED BY <1>1, MapSum DEF WayInv, Carried

\* One more value: what leaves the list leaves the sum.
LEMMA PushedInv ==
  ASSUME NEW D, D \subseteq Int, NEW w, WindowInv(w), w.list \in Seq(D), NEW e \in D
  PROVE  /\ WindowInv(Report!Pushed(w, e))
         /\ Report!Pushed(w, e).list \in Seq(D)
         /\ Report!Pushed(w, e).fixed =
              Report!Quotient(Report!Pushed(w, e).sum, Len(Report!Pushed(w, e).list))
         /\ Len(Report!Pushed(w, e).list) \in Nat \ {0}
<1> DEFINE l == w.list
           slid == Report!Slid(w)
           gone == SubSeq(l, 1, Len(l) - Len(slid))
           list == Append(slid, e)
           sum == w.sum - ListSum(gone) + e
           p == Report!Pushed(w, e)
<1>0. Window \in Nat /\ Window # 0
  BY PathAssumption
<1>1. /\ l \in Seq(Int) /\ l \in Seq(D) /\ Len(l) \in Nat
      /\ Len(l) <= Window /\ w.sum = ListSum(l)
  BY DEF WindowInv
<1>2. p = [list |-> list, sum |-> sum, fixed |-> Report!Quotient(sum, Len(list))]
  BY DEF Report!Pushed, ListSum
<1>3. /\ slid \in Seq(D) /\ Len(slid) \in Nat /\ Len(slid) < Window
      /\ gone \in Seq(D) /\ gone \o slid = l
  <2>1. CASE Len(l) >= Window
    <3>1. slid = SubSeq(l, 2, Len(l))
      BY <1>0, <1>1, <2>1 DEF Report!Slid
    <3>2. \A i \in 1 .. Len(l) : l[i] \in D
      BY <1>1, ElementOfSeq
    <3>3. slid \in Seq(D) /\ Len(slid) = Len(l) - 1
      <4>1. \A i \in 2 .. Len(l) : l[i] \in D
        BY <1>1, <3>2
      <4>2. Len(l) >= 1 /\ 2 \in Int /\ Len(l) \in Int
        BY <1>0, <1>1, <2>1
      <4> HIDE DEF l, slid
      <4>3. /\ slid \in Seq(D)
            /\ Len(slid) = IF 2 <= Len(l) THEN Len(l) - 2 + 1 ELSE 0
        BY <3>1, <4>1, <4>2, SubSeqProperties
      <4> DEFINE n == Len(l)
                 m == Len(slid)
      <4>4. n \in Int /\ n >= 1 /\ m = IF 2 <= n THEN n - 2 + 1 ELSE 0
        BY <4>2, <4>3
      <4> HIDE DEF n, m
      <4>5. m = n - 1
        BY <4>4
      <4> QED BY <4>3, <4>5 DEF n, m
    <3>4. gone = SubSeq(l, 1, 1)
      BY <1>1, <3>3
    <3>5. gone \in Seq(D)
      <4>1. \A i \in 1 .. 1 : l[i] \in D
        BY <1>0, <1>1, <2>1, <3>2
      <4> HIDE DEF l, gone
      <4> QED BY <3>4, <4>1, SubSeqProperties
    <3>6. SubSeq(l, 1, 1) \o SubSeq(l, 2, Len(l)) = SubSeq(l, 1, Len(l))
      <4>1. /\ 1 \in 1 .. Len(l) + 1 /\ 1 \in 1 - 1 .. Len(l) /\ Len(l) \in 1 .. Len(l)
            /\ 1 + 1 = 2
        BY <1>0, <1>1, <2>1
      <4> HIDE DEF l
      <4> QED BY <1>1, <4>1, ConcatAdjacentSubSeq
    <3>7. SubSeq(l, 1, Len(l)) = l
      BY <1>1, SubSeqFull
    <3> HIDE DEF l, slid, gone
    <3> QED BY <1>0, <1>1, <3>1, <3>3, <3>4, <3>5, <3>6, <3>7
  <2>2. CASE Len(l) < Window
    <3>1. slid = l
      BY <1>0, <1>1, <2>2 DEF Report!Slid
    <3>2. gone = << >>
      <4>1. gone = SubSeq(l, 1, 0)
        BY <1>1, <3>1
      <4> HIDE DEF gone
      <4> QED BY <4>1, SubSeqEmpty
    <3> HIDE DEF l, slid, gone
    <3> QED BY <1>1, <2>2, <3>1, <3>2, ConcatEmptySeq, EmptySeq
  <2> QED BY <1>0, <1>1, <2>1, <2>2
<1> HIDE DEF l, slid, gone
<1>4. list \in Seq(D) /\ Len(list) = Len(slid) + 1
  BY <1>3, AppendProperties
<1>5. /\ slid \in Seq(Int) /\ gone \in Seq(Int) /\ list \in Seq(Int) /\ e \in Int
  <2> HIDE DEF list
  <2> QED BY <1>3, <1>4, SeqMonotonic
<1>6. ListSum(l) = ListSum(gone) + ListSum(slid)
  BY <1>3, <1>5, ListSumConcat
<1>7. ListSum(list) = ListSum(slid) + e
  BY <1>5, ListSumAppend
<1>8. ListSum(gone) \in Int /\ ListSum(slid) \in Int
  BY <1>5, ListSumType
<1> HIDE DEF list
<1>9. sum = ListSum(list) /\ sum \in Int
  BY <1>1, <1>5, <1>6, <1>7, <1>8
<1> HIDE DEF sum
<1>10. Len(list) \in Nat /\ Len(list) # 0 /\ Len(list) <= Window
  BY <1>0, <1>3, <1>4
<1>11. Report!Quotient(sum, Len(list)) \in Int
  BY <1>9, <1>10 DEF Report!Quotient
<1>12. p.list = list /\ p.sum = sum /\ p.fixed = Report!Quotient(sum, Len(list))
  BY <1>2
<1> HIDE DEF p
<1> QED BY <1>4, <1>5, <1>9, <1>10, <1>11, <1>12 DEF WindowInv, p

\* A cleared window
LEMMA EmptyInv ==
  /\ WindowInv(Report!Empty)
  /\ Report!Empty.list \in Seq(Byte) /\ Report!Empty.list \in Seq(Int)
  /\ Report!Empty.fixed \in Byte
<1>1. Report!Empty.list = << >> /\ Report!Empty.sum = 0 /\ Report!Empty.fixed = 0
  BY DEF Report!Empty
<1>2. << >> \in Seq(Int) /\ << >> \in Seq(Byte) /\ Len(<< >>) = 0
  BY EmptySeq
<1>3. ListSum(<< >>) = 0
  BY <1>2, ListSumType
<1> QED BY <1>1, <1>2, <1>3, PathAssumption DEF WindowInv, Byte

\* A packet is counted.
LEMMA CountRInv ==
  ASSUME RInv, NEW K \in SUBSET Kinds, Report!Count(K)
  PROVE  RInv'
<1>1. /\ OfKinds(num)' = [k \in Kinds |-> IF k \in K THEN OfKinds(num)[k] + 1
                                          ELSE OfKinds(num)[k]]
      /\ OfKinds(last_report)' = OfKinds(last_report)
      /\ UNCHANGED <<reports, network, now, stamp, cumulative, averages, fraction,
                     lost, forgotten>>
  BY DEF Report!Count, Report!data
<1>2. CountsInv'
  <2>1. OfKinds(num)' \in [Kinds -> Nat]
    BY <1>1 DEF RInv, CountsInv
  <2>2. \A k \in Kinds : OfKinds(last_report)'[k] <= OfKinds(num)'[k]
    BY <1>1 DEF RInv, CountsInv
  <2> QED BY <1>1, <2>1, <2>2 DEF RInv, CountsInv
<1>3. ClockInv' /\ WayInv'
  BY <1>1 DEF RInv, ClockInv, WayInv
<1>4. Conserved'
  BY <1>1 DEF RInv, Conserved
<1>5. SumsInv'
  BY <1>1 DEF RInv, SumsInv
<1> QED BY <1>2, <1>3, <1>4, <1>5 DEF RInv

\* Time passes.
LEMMA TickRInv ==
  ASSUME RInv, Report!Tick
  PROVE  RInv'
<1>1. /\ now < MaxTime /\ now' = now + 1
      /\ OfKinds(num)' = OfKinds(num) /\ OfKinds(last_report)' = OfKinds(last_report)
      /\ UNCHANGED <<reports, network, stamp, cumulative, averages, fraction,
                     lost, forgotten>>
  BY DEF Report!Tick, Report!data, Report!receiver
<1>2. CountsInv' /\ WayInv'
  BY <1>1 DEF RInv, CountsInv, WayInv
<1>3. ClockInv'
  BY <1>1, PathAssumption DEF RInv, ClockInv
<1>4. Conserved' /\ SumsInv'
  BY <1>1 DEF RInv, Conserved, SumsInv
<1> QED BY <1>2, <1>3, <1>4 DEF RInv

\* A report is lost: what it carried is.
LEMMA LoseRInv ==
  ASSUME RInv, NEW r \in network, Report!Lose(r)
  PROVE  RInv'
<1>1. /\ network' = network \ {r}
      /\ lost' = [k \in Kinds |-> lost[k] + r.num[k]]
      /\ OfKinds(num)' = OfKinds(num) /\ OfKinds(last_report)' = OfKinds(last_report)
      /\ UNCHANGED <<reports, now, stamp, cumulative, averages, fraction, forgotten>>
  BY DEF Report!Lose, Report!Plus, Report!data, Report!receiver
<1>2. /\ IsFiniteSet(network) /\ network \subseteq ReportType
      /\ \A k \in Kinds : r.num[k] \in Nat
  BY PathAssumption DEF RInv, WayInv, ReportType
<1>3. CountsInv'
  BY <1>1, <1>2 DEF RInv, CountsInv
<1>4. ClockInv'
  BY <1>1 DEF RInv, ClockInv
<1>5. WayInv'
  BY <1>1, <1>2, FS_Subset DEF RInv, WayInv
<1>6. Conserved'
  <2> SUFFICES ASSUME NEW k \in Kinds
               PROVE  \E w \in Nat : OfKinds(last_report)'[k] =
                        cumulative'[k] + lost'[k] + forgotten'[k]
                        + Carried(network', k) + NumMod * w
    BY DEF Conserved
  <2>1. PICK w \in Nat : OfKinds(last_report)[k] =
          cumulative[k] + lost[k] + forgotten[k] + Carried(network, k) + NumMod * w
    BY DEF RInv, Conserved
  <2>2. Carried(network, k) = r.num[k] + Carried(network', k)
    BY <1>1, <1>2, CarriedFacts
  <2>3. Carried(network', k) \in Nat
    BY <1>5, CarriedFacts DEF WayInv
  <2>4. cumulative[k] \in Nat /\ lost[k] \in Nat /\ forgotten[k] \in Nat /\ NumMod * w \in Nat
    BY PathAssumption DEF RInv, CountsInv
  <2>5. lost'[k] = lost[k] + r.num[k]
    BY <1>1
  <2> QED BY <1>1, <1>2, <2>1, <2>2, <2>3, <2>4, <2>5
<1>7. SumsInv'
  BY <1>1 DEF RInv, SumsInv
<1> QED BY <1>3, <1>4, <1>5, <1>6, <1>7 DEF RInv

\* What is left of a number on the wire, and the turns it has lost
LEMMA TurnsLost ==
  ASSUME NEW n \in Nat, NEW m \in Nat \ {0}
  PROVE  n % m \in 0 .. m - 1 /\ \E q \in Nat : n = (n % m) + m * q
<1> DEFINE q == n \div m
           r == n % m
<1>1. q \in Nat /\ r \in 0 .. m - 1 /\ n = m * q + r
  BY SMTT(30)
<1> HIDE DEF q, r
<1>2. n = r + m * q
  BY <1>1
<1> QED BY <1>1, <1>2 DEF r

\* A report is made: what it carries was not reported before.
LEMMA MakeReportRInv ==
  ASSUME RInv, NEW average \in Report!Averages, Report!MakeReport(average, Byte)
  PROVE  RInv'
<1> PICK f \in Byte : network' = network \cup
       {[id |-> reports,
         num |-> [k \in Kinds |-> Report!Since[k] % NumMod],
         average |-> [k \in Kinds |-> IF Report!Since[k] = 0 THEN 0 ELSE average[k]],
         fraction |-> f]}
  BY DEF Report!MakeReport
<1> DEFINE c == OfKinds(num)
           d == OfKinds(last_report)
           since(k) == c[k] - d[k]
           x == [id |-> reports,
                 num |-> [k \in Kinds |-> since(k) % NumMod],
                 average |-> [k \in Kinds |-> IF since(k) = 0 THEN 0 ELSE average[k]],
                 fraction |-> f]
<1>1. /\ reports < MaxReports /\ reports' = reports + 1
      /\ d' = c /\ c' = c
      /\ network' = network \cup {x}
      /\ UNCHANGED <<now, stamp, cumulative, averages, fraction, lost, forgotten>>
  BY DEF Report!MakeReport, Report!Since, Report!data
<1>2. \A k \in Kinds : /\ c[k] \in Nat /\ d[k] \in Nat /\ since(k) \in Nat
                       /\ c[k] = d[k] + since(k)
  BY DEF RInv, CountsInv
<1>3. NumMod \in Nat \ {0} /\ MaxReports \in Nat
  BY PathAssumption
<1>4. \A k \in Kinds : /\ since(k) % NumMod \in 0 .. NumMod - 1
                       /\ \E q \in Nat : since(k) = (since(k) % NumMod) + NumMod * q
  BY <1>2, <1>3, TurnsLost
<1>5. \A k \in Kinds : average[k] \in Int
  BY PathAssumption DEF Report!Averages
<1>6. reports \in Nat
  BY <1>3 DEF RInv, WayInv
<1>7. x \in ReportType
  <2>1. x.num \in [Kinds -> 0 .. NumMod - 1]
    BY <1>4
  <2>2. x.average \in [Kinds -> Int]
    BY <1>5
  <2> QED BY <1>6, <2>1, <2>2 DEF ReportType
<1>8. x.id = reports /\ \A k \in Kinds : x.num[k] = since(k) % NumMod
  OBVIOUS
<1> HIDE DEF x, since, c, d
<1>9. x \notin network
  BY <1>6, <1>8 DEF RInv, WayInv, ReportType
<1>10. CountsInv'
  <2>1. c' \in [Kinds -> Nat] /\ d' \in [Kinds -> Nat] /\ \A k \in Kinds : d'[k] <= c'[k]
    <3>1. c \in [Kinds -> Nat]
      BY DEF RInv, CountsInv, c
    <3> QED BY <1>1, <3>1
  <2> QED BY <1>1, <2>1 DEF RInv, CountsInv, c, d
<1>11. ClockInv'
  BY <1>1 DEF RInv, ClockInv
<1>12. WayInv'
  <2>1. IsFiniteSet(network \cup {x})
    BY FS_AddElement DEF RInv, WayInv
  <2>2. \A r \in network \cup {x} : r.id < reports + 1
    BY <1>6, <1>8 DEF RInv, WayInv, ReportType
  <2>3. reports + 1 \in 0 .. MaxReports
    BY <1>1, <1>3, <1>6
  <2> QED BY <1>1, <1>7, <2>1, <2>2, <2>3 DEF RInv, WayInv
<1>13. Conserved'
  <2> SUFFICES ASSUME NEW k \in Kinds
               PROVE  \E w \in Nat : d'[k] =
                        cumulative'[k] + lost'[k] + forgotten'[k]
                        + Carried(network', k) + NumMod * w
    BY DEF Conserved, d
  <2>1. PICK w \in Nat : d[k] =
          cumulative[k] + lost[k] + forgotten[k] + Carried(network, k) + NumMod * w
    BY DEF RInv, Conserved, d
  <2>2. PICK q \in Nat : since(k) = (since(k) % NumMod) + NumMod * q
    BY <1>4
  <2>3. Carried(network', k) = x.num[k] + Carried(network, k)
    <3>1. network' \ {x} = network /\ x \in network'
      BY <1>1, <1>9
    <3> QED BY <1>12, <3>1, CarriedFacts DEF WayInv
  <2>4. Carried(network, k) \in Nat
    BY CarriedFacts DEF RInv, WayInv
  <2>5. cumulative[k] \in Nat /\ lost[k] \in Nat /\ forgotten[k] \in Nat
    BY DEF RInv, CountsInv
  <2>6. /\ NumMod * w \in Nat /\ NumMod * q \in Nat /\ w + q \in Nat
        /\ NumMod * (w + q) = NumMod * w + NumMod * q
    BY <1>3
  <2>7. x.num[k] \in Nat /\ x.num[k] = since(k) % NumMod
    BY <1>3, <1>4, <1>8
  <2>8. d'[k] = d[k] + since(k)
    BY <1>1, <1>2
  <2> DEFINE a == NumMod * w
             b == NumMod * q
             n == x.num[k]
  <2>9. /\ d[k] = cumulative[k] + lost[k] + forgotten[k] + Carried(network, k) + a
        /\ since(k) = n + b /\ a \in Nat /\ b \in Nat /\ n \in Nat
        /\ NumMod * (w + q) = a + b
        /\ Carried(network', k) = n + Carried(network, k)
    BY <2>1, <2>2, <2>3, <2>6, <2>7
  <2> HIDE DEF a, b, n
  <2>10. d'[k] = cumulative[k] + lost[k] + forgotten[k] + (n + Carried(network, k)) + (a + b)
    BY <2>4, <2>5, <2>8, <2>9
  <2>11. d'[k] = cumulative'[k] + lost'[k] + forgotten'[k] + Carried(network', k)
                 + NumMod * (w + q)
    BY <1>1, <2>9, <2>10
  <2> QED BY <2>6, <2>11
<1>14. SumsInv'
  BY <1>1 DEF RInv, SumsInv
<1> QED BY <1>10, <1>11, <1>12, <1>13, <1>14 DEF RInv

\* A report arrives: what it carried is with the sender now, and what the sender
\* had is forgotten after a silence.
LEMMA DeliverRInv ==
  ASSUME RInv, NEW r \in network, Report!Deliver(r)
  PROVE  RInv'
<1> DEFINE silent == stamp # 0 /\ now - stamp > Silence
           old == IF silent THEN [k \in Kinds |-> Report!Cleared(averages[k])] ELSE averages
           oldF == IF silent THEN Report!Cleared(fraction) ELSE fraction
           oldC == IF silent THEN Report!None ELSE cumulative
<1>1. /\ network' = network \ {r} /\ stamp' = now
      /\ fraction' = Report!Pushed(oldF, r.fraction)
      /\ averages' = [k \in Kinds |-> IF r.num[k] = 0 THEN old[k]
                                      ELSE Report!Pushed(old[k], r.average[k])]
      /\ cumulative' = [k \in Kinds |-> oldC[k] + r.num[k]]
      /\ forgotten' = IF silent THEN [k \in Kinds |-> forgotten[k] + cumulative[k]]
                      ELSE forgotten
      /\ OfKinds(num)' = OfKinds(num) /\ OfKinds(last_report)' = OfKinds(last_report)
      /\ UNCHANGED <<reports, now, lost>>
  BY DEF Report!Deliver, Report!Plus, Report!receiver
<1>2. /\ IsFiniteSet(network) /\ network \subseteq ReportType
      /\ r.fraction \in Byte
      /\ \A k \in Kinds : r.num[k] \in Nat /\ r.average[k] \in Int
  BY PathAssumption DEF RInv, WayInv, ReportType
<1>3. \A k \in Kinds : /\ oldC[k] \in Nat
                       /\ cumulative'[k] = oldC[k] + r.num[k]
                       /\ forgotten'[k] \in Nat /\ forgotten[k] \in Nat
                       /\ cumulative[k] \in Nat /\ lost[k] \in Nat
                       /\ oldC[k] + forgotten'[k] = cumulative[k] + forgotten[k]
  BY <1>1 DEF RInv, CountsInv, Report!None
<1>4. /\ \A k \in Kinds : WindowInv(old[k])
      /\ WindowInv(oldF) /\ oldF.list \in Seq(Byte)
  BY EmptyInv DEF RInv, SumsInv, Report!Cleared
<1> HIDE DEF old, oldF, oldC
<1>5. CountsInv'
  <2>1. cumulative' \in [Kinds -> Nat]
    BY <1>1, <1>2, <1>3
  <2>2. forgotten' \in [Kinds -> Nat]
    BY <1>1 DEF RInv, CountsInv
  <2> QED BY <1>1, <2>1, <2>2 DEF RInv, CountsInv
<1>6. ClockInv'
  BY <1>1, PathAssumption DEF RInv, ClockInv
<1>7. WayInv'
  BY <1>1, <1>2, FS_Subset DEF RInv, WayInv
<1>8. Conserved'
  <2> SUFFICES ASSUME NEW k \in Kinds
               PROVE  \E w \in Nat : OfKinds(last_report)'[k] =
                        cumulative'[k] + lost'[k] + forgotten'[k]
                        + Carried(network', k) + NumMod * w
    BY DEF Conserved
  <2>1. PICK w \in Nat : OfKinds(last_report)[k] =
          cumulative[k] + lost[k] + forgotten[k] + Carried(network, k) + NumMod * w
    BY DEF RInv, Conserved
  <2>2. Carried(network, k) = r.num[k] + Carried(network', k)
    BY <1>1, <1>2, CarriedFacts
  <2>3. Carried(network', k) \in Nat
    BY <1>7, CarriedFacts DEF WayInv
  <2>4. NumMod * w \in Nat
    BY PathAssumption
  <2> DEFINE a == NumMod * w
             n == r.num[k]
             c == Carried(network', k)
  <2>5. OfKinds(last_report)'[k] = cumulative[k] + lost[k] + forgotten[k] + (n + c) + a
    BY <1>1, <2>1, <2>2
  <2>6. a \in Nat /\ n \in Nat /\ c \in Nat
    BY <1>2, <2>3, <2>4
  <2>7. cumulative'[k] = oldC[k] + n
    BY <1>3
  <2>8. lost'[k] = lost[k]
    BY <1>1
  <2> HIDE DEF a, n, c
  <2>9. cumulative[k] + lost[k] + forgotten[k] + (n + c) + a
          = cumulative'[k] + lost'[k] + forgotten'[k] + c + a
    <3> DEFINE f1 == forgotten'[k]
    <3>1. /\ oldC[k] \in Nat /\ f1 \in Nat /\ forgotten[k] \in Nat
          /\ cumulative[k] \in Nat /\ lost[k] \in Nat
          /\ oldC[k] + f1 = cumulative[k] + forgotten[k]
      BY <1>3
    <3> HIDE DEF f1
    <3>2. cumulative[k] + lost[k] + forgotten[k] + (n + c) + a
            = (oldC[k] + n) + lost[k] + f1 + c + a
      BY <2>6, <3>1
    <3> QED BY <2>7, <2>8, <3>2 DEF f1
  <2> QED BY <2>5, <2>9 DEF a, c
<1>9. SumsInv'
  <2>1. ASSUME NEW k \in Kinds PROVE WindowInv(averages'[k])
    <3>1. CASE r.num[k] = 0
      BY <1>1, <1>4, <3>1
    <3>2. CASE r.num[k] # 0
      <4>1. old[k].list \in Seq(Int)
        BY <1>4 DEF WindowInv
      <4>2. averages'[k] = Report!Pushed(old[k], r.average[k])
        BY <1>1, <3>2
      <4> QED BY <1>2, <1>4, <4>1, <4>2, PushedInv
    <3> QED BY <3>1, <3>2
  <2>2. Byte \subseteq Int
    BY DEF Byte
  <2>3. /\ WindowInv(fraction') /\ fraction'.list \in Seq(Byte)
        /\ fraction'.fixed = Report!Quotient(fraction'.sum, Len(fraction'.list))
        /\ Len(fraction'.list) \in Nat \ {0}
    <3> DEFINE e == r.fraction
               p == Report!Pushed(oldF, e)
    <3>1. e \in Byte
      BY <1>2
    <3> HIDE DEF e
    <3>2. /\ WindowInv(p) /\ p.list \in Seq(Byte)
          /\ p.fixed = Report!Quotient(p.sum, Len(p.list))
          /\ Len(p.list) \in Nat \ {0}
      BY <1>4, <2>2, <3>1, PushedInv
    <3>3. fraction' = p
      BY <1>1 DEF e
    <3> HIDE DEF p
    <3> QED BY <3>2, <3>3
  <2>4. fraction'.fixed \in Byte
    <3>1. fraction'.sum \in 0 .. 255 * Len(fraction'.list)
      BY <2>3, ByteSum DEF WindowInv
    <3>2. fraction'.sum \in Nat /\ fraction'.sum <= 255 * Len(fraction'.list)
      BY <2>3, <3>1
    <3> DEFINE t == fraction'.sum
               n == Len(fraction'.list)
    <3>3. t \in Nat /\ n \in Nat \ {0} /\ t <= 255 * n
      BY <2>3, <3>2
    <3>4. fraction'.fixed = Report!Quotient(t, n)
      BY <2>3
    <3> HIDE DEF t, n
    <3>5. Report!Quotient(t, n) \in 0 .. 255
      BY <3>3, ByteAverage
    <3> QED BY <3>4, <3>5 DEF Byte
  <2>5. \A k \in Kinds : WindowInv(averages[k])'
    BY <2>1 DEF WindowInv
  <2>6. WindowInv(fraction)'
    BY <2>3 DEF WindowInv
  <2> QED BY <2>3, <2>4, <2>5, <2>6 DEF SumsInv
<1> QED BY <1>5, <1>6, <1>7, <1>8, <1>9 DEF RInv

\* Initially nothing was counted, reported or heard.
LEMMA InitRInv ==
  ASSUME Report!Init
  PROVE  RInv
<1>1. /\ OfKinds(num) = [k \in Kinds |-> 0] /\ OfKinds(last_report) = [k \in Kinds |-> 0]
      /\ reports = 0 /\ network = {} /\ now = 1 /\ stamp = 0
      /\ cumulative = [k \in Kinds |-> 0]
      /\ lost = [k \in Kinds |-> 0] /\ forgotten = [k \in Kinds |-> 0]
      /\ averages = [k \in Kinds |-> Report!Empty] /\ fraction = Report!Empty
  BY DEF Report!Init, Report!None
<1>2. CountsInv
  BY <1>1 DEF CountsInv
<1>3. ClockInv
  BY <1>1, PathAssumption DEF ClockInv
<1>4. WayInv
  BY <1>1, FS_EmptySet, PathAssumption DEF WayInv
<1>5. Conserved
  <2> SUFFICES ASSUME NEW k \in Kinds
               PROVE  OfKinds(last_report)[k] = cumulative[k] + lost[k] + forgotten[k]
                        + Carried(network, k) + NumMod * 0
    BY DEF Conserved
  <2>1. Carried(network, k) = 0
    BY <1>1, <1>4, CarriedFacts DEF WayInv
  <2> QED BY <1>1, <2>1, PathAssumption
<1>6. SumsInv
  BY <1>1, EmptyInv DEF SumsInv
<1> QED BY <1>2, <1>3, <1>4, <1>5, <1>6 DEF RInv

\* Every step of the reports keeps their invariant.
LEMMA StepRInv ==
  ASSUME RInv, [Report!Next]_(Report!vars)
  PROVE  RInv'
<1>1. CASE \E K \in SUBSET Kinds : Report!Count(K)
  BY <1>1, CountRInv
<1>2. CASE \E r \in network : Report!Lose(r) \/ Report!Deliver(r)
  BY <1>2, LoseRInv, DeliverRInv
<1>3. CASE Report!Tick
  BY <1>3, TickRInv
<1>4. CASE \E average \in Report!Averages : Report!MakeReport(average, 0 .. 255)
  BY <1>4, MakeReportRInv DEF Byte
<1>5. CASE UNCHANGED Report!vars
  <2>1. /\ OfKinds(num)' = OfKinds(num) /\ OfKinds(last_report)' = OfKinds(last_report)
        /\ UNCHANGED <<reports, network, now, stamp, cumulative, averages, fraction,
                       lost, forgotten>>
    BY <1>5 DEF Report!vars, Report!receiver, Report!data
  <2>2. CountsInv' /\ ClockInv' /\ WayInv'
    BY <2>1 DEF RInv, CountsInv, ClockInv, WayInv
  <2>3. Conserved' /\ SumsInv'
    BY <2>1 DEF RInv, Conserved, SumsInv
  <2> QED BY <2>2, <2>3 DEF RInv
<1> QED BY <1>1, <1>2, <1>3, <1>4, <1>5 DEF Report!Next

\* The invariant of the reports holds in every behaviour of FecReport.
THEOREM ReportInvariant == Report!Spec => []RInv
<1>1. Report!Init => RInv
  BY InitRInv
<1>2. RInv /\ [Report!Next]_(Report!vars) => RInv'
  BY StepRInv
<1> QED BY <1>1, <1>2, PTL DEF Report!Spec

\* Reports and the sender's windows keep their types: numbers on the wire within
\* their width, no list longer than kDefaultTimeWindow.
THEOREM ReportTypeCorrect == Report!Spec => []Report!TypeOK
<1>1. RInv => Report!TypeOK
  <2> SUFFICES ASSUME RInv PROVE Report!TypeOK
    OBVIOUS
  <2>1. \A f \in {OfKinds(num), OfKinds(last_report), cumulative, lost, forgotten} :
          f \in [Kinds -> Nat]
    BY DEF RInv, CountsInv
  <2>2. /\ reports \in 0 .. MaxReports /\ now \in 1 .. MaxTime /\ stamp \in 0 .. now
        /\ \A r \in network : r.num \in [Kinds -> 0 .. NumMod - 1]
    BY DEF RInv, ClockInv, WayInv, ReportType
  <2>3. ASSUME NEW w, WindowInv(w) PROVE Report!WindowOK(w)
    BY <2>3, ListSumType DEF WindowInv, Report!WindowOK
  <2>4. (\A k \in Kinds : Report!WindowOK(averages[k])) /\ Report!WindowOK(fraction)
    BY <2>3 DEF RInv, SumsInv
  <2> QED BY <2>1, <2>2, <2>4 DEF Report!TypeOK
<1> QED BY <1>1, ReportInvariant, PTL

\* Every packet that was counted and reported is accounted for once: with the
\* sender, on the way, lost or forgotten, but for whole turns of the wire's
\* numbers, in whatever order SetFECReportBlock is called.
THEOREM ReportedOnce == Report!Spec => []Report!CountedOnce
<1>1. RInv => Report!CountedOnce
  <2> SUFFICES ASSUME RInv, NEW k \in Kinds
               PROVE  (cumulative[k] + lost[k] + forgotten[k]
                         + Report!MapThenSumSet(LAMBDA r : r.num[k], network)) % NumMod
                      = OfKinds(last_report)[k] % NumMod
    BY DEF Report!CountedOnce
  <2>1. PICK w \in Nat : OfKinds(last_report)[k] =
          cumulative[k] + lost[k] + forgotten[k] + Carried(network, k) + NumMod * w
    BY DEF RInv, Conserved
  <2>2. Report!MapThenSumSet(LAMBDA r : r.num[k], network) = Carried(network, k)
    BY CarriedIsSum DEF RInv
  <2> DEFINE a == cumulative[k] + lost[k] + forgotten[k] + Carried(network, k)
             b == OfKinds(last_report)[k]
  <2>3. Carried(network, k) \in Nat
    BY CarriedFacts DEF RInv, WayInv
  <2>4. a \in Nat /\ b \in Nat /\ b = a + NumMod * w
    BY <2>1, <2>3 DEF RInv, CountsInv
  <2>5. NumMod \in Nat \ {0}
    BY PathAssumption
  <2> HIDE DEF a, b
  <2>6. b % NumMod = a % NumMod
    BY <2>4, <2>5, TurnsVanish
  <2> QED BY <2>2, <2>6 DEF a, b
<1> QED BY <1>1, ReportInvariant, PTL

\* The running sums that SetFECReportBlock keeps are the sums of its lists, and
\* the average of the fractions is a byte, through evictions and resets.
THEOREM RunningSums == Report!Spec => []Report!SumsAgree
<1>1. RInv => Report!SumsAgree
  BY DEF RInv, SumsInv, WindowInv, ListSum, Byte, Report!SumsAgree
<1> QED BY <1>1, ReportInvariant, PTL

-------------------------------------------------------------------------------
(* Part 4.  The statistician makes the reports of FecReport.               *)

\* A step of the path is one of the statistician, or leaves it alone.
LEMMA PathStep ==
  ASSUME [PathNext]_pathVars
  PROVE  [Next]_vars
  BY DEF PathNext, SendReport, Next, pathVars

\* The path shows behaviours of the statistician: all of part 1 holds of it.
LEMMA PathStatistician == PathSpec => Spec
<1>1. PathInit => Init
  BY DEF PathInit
<1>2. [PathNext]_pathVars => [Next]_vars
  BY PathStep
<1> QED BY <1>1, <1>2, PTL DEF PathSpec, Spec

\* What the constant MaxAdvance bounds
WithinAdvance == advance <= MaxAdvance

\* The stream advances no further than its bound.
LEMMA NextWithinAdvance ==
  ASSUME IInv, WithinAdvance, [Next]_vars
  PROVE  WithinAdvance'
<1>1. ASSUME NEW s \in Seq16, Arrive(s) PROVE WithinAdvance'
  BY <1>1 DEF Arrive, WithinAdvance
<1>2. ASSUME UNCHANGED advance PROVE WithinAdvance'
  BY <1>2 DEF WithinAdvance
<1> QED BY <1>1, <1>2 DEF Next, Receive, ReceiveVideoPacket, ReceiveFECPacket,
      ReceiveRecoverPacket, ReceiveRetransmitPacket, IgnoreCopy, RecordLost,
      LossesRecorded, Timeout, MaybeAppendReportBlockAndReset, vars

\* No kind counts more packets than were lost, nor more than the stream advanced.
LEMMA KindsWithinLosses ==
  ASSUME IInv, WithinAdvance
  PROVE  /\ num.loss \in Nat
         /\ OfKinds(num) \in [Kinds -> Nat] /\ OfKinds(last_report) \in [Kinds -> Nat]
         /\ \A k \in Kinds : /\ OfKinds(num)[k] <= num.loss
                             /\ OfKinds(num)[k] <= MaxAdvance
                             /\ OfKinds(last_report)[k] <= OfKinds(num)[k]
<1>1. /\ num.loss \in Nat /\ num.recover \in Nat /\ num.retransmit \in Nat
      /\ num.both \in Nat /\ last_report.recover \in Nat
      /\ last_report.retransmit \in Nat /\ last_report.both \in Nat
      /\ advance \in Nat /\ in_order \in Nat /\ MaxAdvance \in Nat
  BY StatisticianAssumption DEF IInv, TypeOK, Counters
<1>2. /\ Cardinality(tracked \ (recovered \cup retransmitted)) \in Nat
      /\ Cardinality(recovered \ retransmitted) \in Nat
      /\ Cardinality(retransmitted \ recovered) \in Nat
  <2>1. /\ tracked \ (recovered \cup retransmitted) \in SUBSET Seq16
        /\ recovered \ retransmitted \in SUBSET Seq16
        /\ retransmitted \ recovered \in SUBSET Seq16
    BY DEF IInv, TypeOK
  <2> QED BY <2>1, SizeOf
<1>3. /\ num.recover <= num.loss /\ num.retransmit <= num.loss /\ num.both <= num.loss
  BY <1>1, <1>2 DEF IInv, RepairsAccounted
<1>4. num.loss <= advance
  <2>1. CASE pc = "idle"
    BY <1>1, <2>1 DEF IInv, LossesComplete
  <2>2. CASE pc = "insert"
    <3>1. ForwardDiff(maybe_lost_seq_num, seq_num) \in Nat
      BY DistanceType DEF IInv, TypeOK
    <3> QED BY <1>1, <2>2, <3>1 DEF IInv, LoopDistance
  <2> QED BY <2>1, <2>2 DEF IInv, TypeOK
<1>5. /\ OfKinds(num)["recover"] = num.recover
      /\ OfKinds(num)["retransmit"] = num.retransmit
      /\ OfKinds(num)["both"] = num.both
      /\ OfKinds(last_report)["recover"] = last_report.recover
      /\ OfKinds(last_report)["retransmit"] = last_report.retransmit
      /\ OfKinds(last_report)["both"] = last_report.both
  BY DEF OfKinds, Kinds
<1>6. /\ OfKinds(num) \in [Kinds -> Nat] /\ OfKinds(last_report) \in [Kinds -> Nat]
  BY <1>1 DEF OfKinds, Kinds
<1>7. /\ last_report.recover <= num.recover /\ last_report.retransmit <= num.retransmit
      /\ last_report.both <= num.both
  BY DEF IInv, ReportBehind
<1>8. ASSUME NEW k \in Kinds
      PROVE  /\ OfKinds(num)[k] <= num.loss /\ OfKinds(num)[k] <= MaxAdvance
             /\ OfKinds(last_report)[k] <= OfKinds(num)[k]
  <2>1. k = "recover" \/ k = "retransmit" \/ k = "both"
    BY DEF Kinds
  <2> QED BY <1>1, <1>3, <1>4, <1>5, <1>7, <2>1 DEF WithinAdvance
<1> QED BY <1>1, <1>6, <1>8

\* Counters, and their bound
KindsBounded ==
  /\ num.loss \in Nat
  /\ OfKinds(num) \in [Kinds -> Nat] /\ OfKinds(last_report) \in [Kinds -> Nat]
  /\ \A k \in Kinds : OfKinds(num)[k] <= num.loss /\ OfKinds(num)[k] <= MaxAdvance

\* When some kinds count one packet more, that is a step of FecReport.
LEMMA CountedStep ==
  ASSUME KindsBounded, KindsBounded',
         NEW K \in SUBSET Kinds, K # {},
         \A k \in Kinds : num'[k] = IF k \in K THEN num[k] + 1 ELSE num[k],
         UNCHANGED last_report, UNCHANGED reportVars
  PROVE  Report!Count(K)
<1>1. OfKinds(num)' = [k \in Kinds |-> IF k \in K THEN OfKinds(num)[k] + 1
                                       ELSE OfKinds(num)[k]]
  BY DEF OfKinds
<1>2. OfKinds(last_report)' = OfKinds(last_report)
  BY DEF OfKinds
<1>3. \A k \in K : OfKinds(num)[k] - OfKinds(last_report)[k] < MaxAdvance
  <2> SUFFICES ASSUME NEW k \in K
               PROVE  OfKinds(num)[k] - OfKinds(last_report)[k] < MaxAdvance
    OBVIOUS
  <2>1. OfKinds(num)[k] \in Nat /\ OfKinds(last_report)[k] \in Nat
    BY DEF KindsBounded
  <2>2. OfKinds(num)[k] + 1 <= MaxAdvance
    BY <1>1 DEF KindsBounded
  <2> QED BY <2>1, <2>2, StatisticianAssumption
<1> QED BY <1>1, <1>2, <1>3 DEF Report!Count, Report!data, reportVars

\* Where no counter of a report changes, FecReport sees nothing.
LEMMA UncountedStep ==
  ASSUME \A k \in Kinds : num'[k] = num[k],
         UNCHANGED last_report, UNCHANGED reportVars
  PROVE  UNCHANGED Report!vars
<1>1. OfKinds(num)' = OfKinds(num) /\ OfKinds(last_report)' = OfKinds(last_report)
  BY DEF OfKinds
<1> QED BY <1>1 DEF Report!vars, Report!receiver, Report!data, reportVars

\* A recovered packet counts for one kind, or for two if it was retransmitted.
LEMMA RecoverCounts ==
  ASSUME TypeOK, KindsBounded, KindsBounded', NEW s \in Seq16,
         ReceiveRecoverPacket(s), UNCHANGED reportVars
  PROVE  [Report!Next]_(Report!vars)
<1>1. num \in Counters /\ UNCHANGED last_report
  BY DEF TypeOK, ReceiveRecoverPacket
<1>2. CASE FirstRecover(s)
  <2> DEFINE K == IF s \in retransmitted THEN {"recover", "both"} ELSE {"recover"}
  <2>1. num' = [num EXCEPT !.recover = @ + 1,
                           !.both = IF s \in retransmitted THEN @ + 1 ELSE @]
    BY <1>2 DEF ReceiveRecoverPacket
  <2>2. \A k \in Kinds : num'[k] = IF k \in K THEN num[k] + 1 ELSE num[k]
    BY <1>1, <2>1 DEF Kinds, Counters
  <2>3. K \in SUBSET Kinds /\ K # {}
    BY DEF Kinds
  <2> HIDE DEF K
  <2>4. Report!Count(K)
    BY <1>1, <2>2, <2>3, CountedStep
  <2> QED BY <2>3, <2>4 DEF Report!Next
<1>3. CASE ~FirstRecover(s)
  BY <1>1, <1>3, UncountedStep DEF ReceiveRecoverPacket
<1> QED BY <1>2, <1>3

\* And so does a retransmitted one.
LEMMA RetransmitCounts ==
  ASSUME TypeOK, KindsBounded, KindsBounded', NEW s \in Seq16,
         ReceiveRetransmitPacket(s), UNCHANGED reportVars
  PROVE  [Report!Next]_(Report!vars)
<1>1. num \in Counters /\ UNCHANGED last_report
  BY DEF TypeOK, ReceiveRetransmitPacket
<1>2. CASE FirstRetransmit(s)
  <2> DEFINE K == IF s \in recovered THEN {"retransmit", "both"} ELSE {"retransmit"}
  <2>1. num' = [num EXCEPT !.retransmit = @ + 1,
                           !.both = IF s \in recovered THEN @ + 1 ELSE @]
    BY <1>2 DEF ReceiveRetransmitPacket
  <2>2. \A k \in Kinds : num'[k] = IF k \in K THEN num[k] + 1 ELSE num[k]
    BY <1>1, <2>1 DEF Kinds, Counters
  <2>3. K \in SUBSET Kinds /\ K # {}
    BY DEF Kinds
  <2> HIDE DEF K
  <2>4. Report!Count(K)
    BY <1>1, <2>2, <2>3, CountedStep
  <2> QED BY <2>3, <2>4 DEF Report!Next
<1>3. CASE ~FirstRetransmit(s)
  BY <1>1, <1>3, UncountedStep DEF ReceiveRetransmitPacket
<1> QED BY <1>2, <1>3

\* Nothing else that the statistician receives is counted in a report's kinds.
LEMMA ReceiveCounts ==
  ASSUME TypeOK, KindsBounded, KindsBounded', Receive, UNCHANGED reportVars
  PROVE  [Report!Next]_(Report!vars)
<1>0. num \in Counters
  BY DEF TypeOK
<1>1. ASSUME NEW s \in Seq16, ReceiveVideoPacket(s) \/ ReceiveFECPacket(s) \/ IgnoreCopy(s)
      PROVE  UNCHANGED last_report /\ \A k \in Kinds : num'[k] = num[k]
  BY <1>0, <1>1 DEF ReceiveVideoPacket, ReceiveFECPacket, IgnoreCopy, Arrive, Kinds,
                    Counters, vars
<1>2. ASSUME RecordLost \/ LossesRecorded \/ Timeout
      PROVE  UNCHANGED last_report /\ \A k \in Kinds : num'[k] = num[k]
  BY <1>0, <1>2 DEF RecordLost, LossesRecorded, Timeout, Kinds, Counters
<1>3. CASE \E s \in Seq16 : ReceiveRecoverPacket(s)
  BY <1>3, RecoverCounts
<1>4. CASE \E s \in Seq16 : ReceiveRetransmitPacket(s)
  BY <1>4, RetransmitCounts
<1>5. CASE \E s \in Seq16 : ReceiveVideoPacket(s) \/ ReceiveFECPacket(s) \/ IgnoreCopy(s)
  BY <1>1, <1>5, UncountedStep
<1>6. CASE RecordLost \/ LossesRecorded \/ Timeout
  BY <1>2, <1>6, UncountedStep
<1> QED BY <1>3, <1>4, <1>5, <1>6 DEF Receive

\* A block made of the statistician's counters is a report of FecReport.
LEMMA SendReportReports ==
  ASSUME TypeOK, ReportBehind, SendReport
  PROVE  Report!Next
<1>1. num \in Counters /\ last_report \in Counters
  BY DEF TypeOK
<1>2. num.recover - last_report.recover \in Nat /\ num.loss - last_report.loss \in Nat
  BY <1>1 DEF Counters, ReportBehind
<1>3. FractionLostRecover \in 0 .. 255
  BY <1>2, FractionByte DEF FractionLostRecover
<1>4. PICK average \in Report!Averages : Report!MakeReport(average, {FractionLostRecover})
  BY DEF SendReport
<1>5. Report!MakeReport(average, 0 .. 255)
  BY <1>3, <1>4 DEF Report!MakeReport
<1> QED BY <1>5 DEF Report!Next

\* Every step of the path is one of FecReport, or one that it does not see.
LEMMA PathStepReports ==
  ASSUME TypeOK, ReportBehind, KindsBounded, KindsBounded', [PathNext]_pathVars
  PROVE  [Report!Next]_(Report!vars)
<1>1. CASE Receive /\ UNCHANGED reportVars
  BY <1>1, ReceiveCounts
<1>2. CASE SendReport
  BY <1>2, SendReportReports
<1>3. CASE (\E r \in network : Report!Lose(r) \/ Report!Deliver(r)) \/ Report!Tick
  BY <1>3 DEF Report!Next
<1>4. CASE UNCHANGED pathVars
  <2>1. UNCHANGED last_report /\ UNCHANGED reportVars /\ \A k \in Kinds : num'[k] = num[k]
    BY <1>4 DEF pathVars, vars
  <2> QED BY <2>1, UncountedStep
<1> QED BY <1>1, <1>2, <1>3, <1>4 DEF PathNext

\* What the path keeps of the statistician
LEMMA PathInvariant == PathSpec => [](IInv /\ KindsBounded)
<1>1. PathInit => WithinAdvance
  BY StatisticianAssumption DEF PathInit, Init, WithinAdvance
<1>2. IInv /\ WithinAdvance /\ [PathNext]_pathVars => WithinAdvance'
  BY PathStep, NextWithinAdvance
<1>3. IInv /\ WithinAdvance => KindsBounded
  BY KindsWithinLosses DEF KindsBounded
<1> QED BY <1>1, <1>2, <1>3, PathStatistician, Invariance, PTL DEF PathSpec

\* The statistician and its reports implement FecReport: what that module leaves
\* open, which kinds a packet counts for, how many between two reports and which
\* fraction, the statistician determines within those limits.
THEOREM PathImplementsReport == PathSpec => ImplementsReport
<1>1. PathInit => Report!Init
  BY DEF PathInit
<1>2. IInv /\ KindsBounded /\ KindsBounded' /\ [PathNext]_pathVars
        => [Report!Next]_(Report!vars)
  BY PathStepReports DEF IInv
<1> QED BY <1>1, <1>2, PathInvariant, PTL DEF PathSpec, ImplementsReport, Report!Spec

\* End to end, the sender is never told of more repairs than there were losses.
THEOREM SenderHearsLosses == PathSpec => []HeardWithinLosses
<1>1. KindsBounded /\ RInv => HeardWithinLosses
  <2> SUFFICES ASSUME KindsBounded, RInv, NEW k \in Kinds
               PROVE  cumulative[k] + forgotten[k] <= num.loss
    BY DEF HeardWithinLosses
  <2>1. PICK w \in Nat : OfKinds(last_report)[k] =
          cumulative[k] + lost[k] + forgotten[k] + Carried(network, k) + NumMod * w
    BY DEF RInv, Conserved
  <2>2. /\ OfKinds(last_report)[k] <= OfKinds(num)[k] /\ OfKinds(num)[k] <= num.loss
        /\ OfKinds(num)[k] \in Nat /\ OfKinds(last_report)[k] \in Nat
        /\ cumulative[k] \in Nat /\ lost[k] \in Nat /\ forgotten[k] \in Nat
    BY DEF RInv, CountsInv, KindsBounded
  <2>3. Carried(network, k) \in Nat
    BY CarriedFacts DEF RInv, WayInv
  <2>4. NumMod * w \in Nat
    BY PathAssumption
  <2> DEFINE a == NumMod * w
  <2>5. /\ a \in Nat
        /\ OfKinds(last_report)[k] =
             cumulative[k] + lost[k] + forgotten[k] + Carried(network, k) + a
    BY <2>1, <2>4
  <2> HIDE DEF a
  <2>6. cumulative[k] + forgotten[k] <= OfKinds(last_report)[k]
    BY <2>2, <2>3, <2>5
  <2>7. num.loss \in Int
    BY DEF KindsBounded
  <2> QED BY <2>2, <2>6, <2>7
<1>2. PathSpec => Report!Spec
  BY PathImplementsReport DEF ImplementsReport
<1> QED BY <1>1, <1>2, PathInvariant, ReportInvariant, PTL

\* What holds of any reports holds of the statistician's: each repair that a block
\* of MaybeAppendReportBlockAndReset carries is accounted for once.
THEOREM PathCountsOnce == PathSpec => []CountedOnce
<1>1. PathSpec => Report!Spec
  BY PathImplementsReport DEF ImplementsReport
<1> QED BY <1>1, ReportedOnce, PTL DEF CountedOnce

\* The sums that SetFECReportBlock keeps of these blocks are those of its lists.
THEOREM PathSumsAgree == PathSpec => []SumsAgree
<1>1. PathSpec => Report!Spec
  BY PathImplementsReport DEF ImplementsReport
<1> QED BY <1>1, RunningSums, PTL DEF SumsAgree

===============================================================================
