--------------------------- MODULE RSDecoder_proofs ---------------------------
(***************************************************************************)
(* Theorems about RSDecoder, for every stream, every limit and every order *)
(* of arrival.  All of them follow from one inductive invariant, IInv.     *)
(***************************************************************************)
EXTENDS RSDecoder, FiniteSetTheorems, TLAPS

\* A FEC packet that is not buffered has no links; the live pointers of a
\* buffered one lead to packets it protects, misses and that are believed lost.
LinksSound ==
  \A f \in Fec :
    /\ f \notin received_fec_packets => missing[f] = {}
    /\ missing[f] \subseteq Protects[f]
    /\ maybe_loss[f] \subseteq missing[f]
    /\ maybe_loss[f] \subseteq consider_loss_packets

\* Pointers are only ever missing from a FEC packet marked as having lost one,
\* and nothing is marked once the validity check of AttemptRecovery has run.
LinksComplete ==
  /\ \A f \in received_fec_packets \ expired : maybe_loss[f] = missing[f]
  /\ pc # "attempt" =>
       expired = {} /\ \A f \in received_fec_packets : missing[f] # {}

\* After the last round of a call no FEC packet misses a single packet.
SearchExhausted ==
  pc \in {"idle", "deliver"} =>
    \A f \in received_fec_packets : Cardinality(missing[f]) >= 2

\* Only a call that recovered something leaves packets to be returned.
ReturnedUnlessRecovered ==
  pc = "idle" \/ (pc \in {"attempt", "deliver"} /\ ~num_recovered) =>
    returned = recovered_packets

\* Unless a FEC packet came late, all FEC packets agree on what has arrived.
ArrivalsAgree ==
  /\ recovered_packets \subseteq seen
  /\ ~late =>
       /\ corrupt = {}
       /\ \A f \in received_fec_packets :
            missing[f] \cap seen = {} /\ Protects[f] \ missing[f] \subseteq seen

IInv ==
  /\ TypeOK /\ LinksSound /\ LinksComplete /\ KnownNotLost /\ FecTimed
  /\ SearchExhausted /\ ReturnedUnlessRecovered /\ ArrivalsAgree

-------------------------------------------------------------------------------
(* The lists after cleaning and eviction are parts of the lists before.    *)

\* DiscardOldRecoveredPackets and the limit on consider_loss_packets_ only drop.
LEMMA KeepNewestSubset == \A S, n : KeepNewest(S, n) \subseteq S
BY DEF KeepNewest

\* Erasing old elements from the front only drops, and keeps what is in range.
LEMMA PruneFrontFacts ==
  ASSUME NEW S, NEW p, NEW n
  PROVE  /\ PruneFront(S, p, n) \subseteq S
         /\ \A s \in S : MinDiff(p, s) <= n => s \in PruneFront(S, p, n)
<1>1. \A s \in S : ~LessThan(s, s)
  BY DEF LessThan, IsNewerSequenceNumber
<1> QED BY <1>1 DEF PruneFront

\* What InsertPacket and a reset leave is part of what there was.
LEMMA CleanFacts ==
  ASSUME NEW p
  PROVE  /\ CleanRecovered(p) \subseteq recovered_packets
         /\ CleanFec(p) \subseteq received_fec_packets
         /\ CleanLoss(p) \subseteq consider_loss_packets
BY PruneFrontFacts DEF CleanRecovered, CleanFec, CleanLoss

\* InsertFecPacket adds f at most.
LEMMA InsertFecSubset == \A F, f : InsertFec(F, f) \subseteq F \cup {f}
BY DEF InsertFec

\* A FEC packet from which pruning for packet s took a pointer does not protect
\* s: the mask is shorter than the threshold.
LEMMA PrunedNotProtecting ==
  ASSUME IInv, NEW s \in Media, NEW f \in CleanFec(s),
         ~(maybe_loss[f] \subseteq CleanLoss(s))
  PROVE  s \notin Protects[f]
<1>1. PICK c \in maybe_loss[f] : c \notin CleanLoss(s)
  OBVIOUS
<1>2. f \in Fec /\ ~BigGap(s)
  BY CleanFacts DEF IInv, TypeOK, CleanFec
<1>3. c \in consider_loss_packets /\ c \in Protects[f]
  BY <1>1, <1>2 DEF IInv, LinksSound
<1>4. ~(MinDiff(s, c) <= LossThreshold)
  BY <1>1, <1>2, <1>3, PruneFrontFacts DEF CleanLoss
<1> QED BY <1>2, <1>3, <1>4, MaskAssumption

-------------------------------------------------------------------------------
(* Every action preserves IInv.                                            *)

\* A media packet arrives: it leaves the losses of every FEC packet, and the FEC
\* packets it lets look complete are complete.
LEMMA ReceiveMediaInv ==
  ASSUME IInv, NEW s \in Media, ReceiveMedia(s)
  PROVE  IInv'
<1> DEFINE R == CleanRecovered(s)
           F == CleanFec(s)
           C == CleanLoss(s)
           ml == Live(maybe_loss, F, C)
           ex == Expired(maybe_loss, F, C, expired)
<1>1. /\ R \subseteq recovered_packets /\ F \subseteq received_fec_packets
      /\ C \subseteq consider_loss_packets
  BY CleanFacts
<1>2. \A f \in F : ~(maybe_loss[f] \subseteq C) => s \notin Protects[f]
  BY PrunedNotProtecting
<1>3. KeepNewest(R \cup {s}, MaxMediaPackets) \subseteq R \cup {s}
  BY KeepNewestSubset
<1>4. /\ pc = "idle" /\ pc' = "attempt" /\ num_recovered' = FALSE
      /\ received_fec_packets' = F /\ seen' = seen \cup {s}
      /\ UNCHANGED <<fec_receive_time, late, corrupt>>
  BY DEF ReceiveMedia
<1>5. /\ expired = {}
      /\ \A f \in Fec : f \in F => maybe_loss[f] = missing[f]
      /\ returned = recovered_packets
  BY <1>1, <1>4 DEF IInv, TypeOK, LinksComplete, ReturnedUnlessRecovered
<1>6. CASE s \in R
  <2>1. /\ recovered_packets' = R /\ returned' = returned \cap R
        /\ missing' = Of(missing, F) /\ maybe_loss' = ml /\ expired' = ex
        /\ consider_loss_packets' = C
    BY <1>6 DEF ReceiveMedia
  <2>2. \A f \in Fec : missing'[f] = IF f \in F THEN missing[f] ELSE {}
    BY <2>1 DEF Of
  <2>3. \A f \in Fec : maybe_loss'[f] = IF f \in F THEN maybe_loss[f] \cap C ELSE {}
    BY <2>1 DEF Live
  <2>4. TypeOK'
    BY <1>1, <1>4, <2>1 DEF IInv, TypeOK, Of, Live, Expired
  <2>5. LinksSound'
    BY <1>4, <2>1, <2>2, <2>3 DEF IInv, LinksSound
  <2>6. LinksComplete'
    BY <1>1, <1>4, <1>5, <2>1, <2>2, <2>3 DEF IInv, TypeOK, LinksComplete, Expired
  <2>7. KnownNotLost' /\ FecTimed'
    BY <1>1, <1>4, <2>1 DEF IInv, KnownNotLost, FecTimed
  <2>8. SearchExhausted' /\ ReturnedUnlessRecovered'
    BY <1>1, <1>4, <1>5, <2>1 DEF SearchExhausted, ReturnedUnlessRecovered
  <2>9. ArrivalsAgree'
    BY <1>1, <1>4, <1>6, <2>1, <2>2 DEF IInv, TypeOK, ArrivalsAgree
  <2> QED BY <2>4, <2>5, <2>6, <2>7, <2>8, <2>9 DEF IInv
<1>7. CASE s \notin R
  <2>1. /\ recovered_packets' = KeepNewest(R \cup {s}, MaxMediaPackets)
        /\ returned' = (returned \cup {s}) \cap recovered_packets'
        /\ missing' = [f \in Fec |-> Of(missing, F)[f] \ {s}]
        /\ maybe_loss' = UpdateMaybeLossPackets(ml, s)
        /\ expired' = DeleteUnavailableWeakPtr(ex, ml, s)
        /\ consider_loss_packets' = C \ {s}
    BY <1>7 DEF ReceiveMedia
  <2>2. \A f \in Fec : missing'[f] = IF f \in F THEN missing[f] \ {s} ELSE {}
    BY <2>1 DEF Of
  <2>3. \A f \in Fec : maybe_loss'[f] = IF f \in F THEN (maybe_loss[f] \cap C) \ {s} ELSE {}
    BY <2>1 DEF Live, UpdateMaybeLossPackets
  <2>4. TypeOK'
    <3>1. recovered_packets' \subseteq Media /\ returned' \subseteq recovered_packets'
      BY <1>1, <1>3, <2>1 DEF IInv, TypeOK
    <3>2. missing' \in [Fec -> SUBSET Media] /\ maybe_loss' \in [Fec -> SUBSET Media]
      BY <2>1, <2>2, <2>3 DEF IInv, TypeOK, UpdateMaybeLossPackets
    <3>3. expired' \subseteq received_fec_packets'
      BY <1>4, <2>1 DEF DeleteUnavailableWeakPtr, Expired
    <3> QED BY <1>1, <1>4, <2>1, <3>1, <3>2, <3>3 DEF IInv, TypeOK
  <2>5. LinksSound'
    BY <1>4, <2>1, <2>2, <2>3 DEF IInv, LinksSound
  <2>6. LinksComplete'
    <3>1. ASSUME NEW f \in F, f \notin expired'
          PROVE  maybe_loss'[f] = missing'[f]
      <4>1. f \in Fec
        BY <1>1 DEF IInv, TypeOK
      <4>2. CASE maybe_loss[f] \subseteq C
        BY <1>5, <2>2, <2>3, <4>1, <4>2
      <4>3. CASE ~(maybe_loss[f] \subseteq C)
        <5>1. f \in ex /\ s \notin ml[f]
          BY <1>2, <4>1, <4>3 DEF Expired, Live, IInv, LinksSound
        <5> QED BY <2>1, <3>1, <5>1 DEF DeleteUnavailableWeakPtr
      <4> QED BY <4>2, <4>3
    <3> QED BY <1>4, <3>1 DEF LinksComplete
  <2>7. KnownNotLost' /\ FecTimed'
    BY <1>1, <1>3, <1>4, <2>1 DEF IInv, KnownNotLost, FecTimed
  <2>8. SearchExhausted' /\ ReturnedUnlessRecovered'
    BY <1>1, <1>3, <1>4, <1>5, <2>1 DEF SearchExhausted, ReturnedUnlessRecovered
  <2>9. ArrivalsAgree'
    BY <1>1, <1>3, <1>4, <2>1, <2>2 DEF IInv, TypeOK, ArrivalsAgree
  <2> QED BY <2>4, <2>5, <2>6, <2>7, <2>8, <2>9 DEF IInv
<1> QED BY <1>6, <1>7

\* A FEC packet arrives: the packets it misses were not tracked, whatever is
\* evicted to make room.
LEMMA ReceiveFecInv ==
  ASSUME IInv, NEW f \in Fec, ReceiveFec(f)
  PROVE  IInv'
<1> DEFINE R == CleanRecovered(f)
           F == CleanFec(f)
           C == CleanLoss(f)
           ml == Live(maybe_loss, F, C)
           ex == Expired(maybe_loss, F, C, expired)
           m == AssignRecoveredPackets(f, R)
           F2 == InsertFec(F, f)
           C2 == KeepNewest(C \cup m, MaxConsiderLoss)
           ml2 == [ml EXCEPT ![f] = m]
<1>1. /\ R \subseteq recovered_packets /\ F \subseteq received_fec_packets
      /\ C \subseteq consider_loss_packets
  BY CleanFacts
<1>2. F2 \subseteq F \cup {f} /\ C2 \subseteq C \cup m /\ m = Protects[f] \ R
  BY InsertFecSubset, KeepNewestSubset DEF AssignRecoveredPackets
<1>3. /\ pc = "idle" /\ pc' = "attempt" /\ num_recovered' = FALSE
      /\ recovered_packets' = R /\ returned' = returned \cap R
      /\ UNCHANGED <<seen, corrupt>>
  BY DEF ReceiveFec
<1>4. /\ expired = {}
      /\ \A g \in Fec : g \in F => maybe_loss[g] = missing[g]
      /\ returned = recovered_packets
  BY <1>1, <1>3 DEF IInv, TypeOK, LinksComplete, ReturnedUnlessRecovered
<1>5. SearchExhausted' /\ ReturnedUnlessRecovered'
  BY <1>1, <1>3, <1>4 DEF SearchExhausted, ReturnedUnlessRecovered
<1>6. CASE f \in F
  <2>1. /\ received_fec_packets' = F /\ missing' = Of(missing, F)
        /\ maybe_loss' = ml /\ expired' = ex /\ consider_loss_packets' = C
        /\ UNCHANGED <<fec_receive_time, late>>
    BY <1>6 DEF ReceiveFec
  <2>2. \A g \in Fec : missing'[g] = IF g \in F THEN missing[g] ELSE {}
    BY <2>1 DEF Of
  <2>3. \A g \in Fec : maybe_loss'[g] = IF g \in F THEN maybe_loss[g] \cap C ELSE {}
    BY <2>1 DEF Live
  <2>4. TypeOK'
    BY <1>1, <1>3, <2>1 DEF IInv, TypeOK, Of, Live, Expired
  <2>5. LinksSound'
    BY <2>1, <2>2, <2>3 DEF IInv, LinksSound
  <2>6. LinksComplete'
    BY <1>1, <1>3, <1>4, <2>1, <2>2, <2>3 DEF IInv, TypeOK, LinksComplete, Expired
  <2>7. KnownNotLost' /\ FecTimed'
    BY <1>1, <1>3, <2>1 DEF IInv, KnownNotLost, FecTimed
  <2>8. ArrivalsAgree'
    BY <1>1, <1>3, <2>1, <2>2 DEF IInv, TypeOK, ArrivalsAgree
  <2> QED BY <1>5, <2>4, <2>5, <2>6, <2>7, <2>8 DEF IInv
<1>7. CASE f \notin F
  <2>1. /\ received_fec_packets' = F2
        /\ missing' = Of([missing EXCEPT ![f] = m], F2)
        /\ maybe_loss' = Live(ml2, F2, C2)
        /\ expired' = Expired(ml2, F2, C2, ex)
        /\ consider_loss_packets' = C2
        /\ fec_receive_time' = (fec_receive_time \ ((F \cup {f}) \ F2)) \cup {f}
        /\ late' = (late \/ m \cap seen # {})
    BY <1>7 DEF ReceiveFec
  <2>2. \A g \in Fec : missing'[g] =
          IF g \in F2 THEN (IF g = f THEN m ELSE missing[g]) ELSE {}
    BY <2>1 DEF Of, IInv, TypeOK
  <2>3. \A g \in Fec : ml2[g] =
          IF g = f THEN m ELSE IF g \in F THEN maybe_loss[g] \cap C ELSE {}
    BY DEF Live
  <2>4. \A g \in Fec : maybe_loss'[g] = IF g \in F2 THEN ml2[g] \cap C2 ELSE {}
    BY <2>1 DEF Live
  <2>5. m \subseteq Media /\ m \subseteq Protects[f]
    BY <1>2, StreamAssumption
  <2>6. TypeOK'
    <3>1. /\ recovered_packets' \subseteq Media /\ returned' \subseteq recovered_packets'
          /\ received_fec_packets' \subseteq Fec /\ consider_loss_packets' \subseteq Media
      BY <1>1, <1>2, <1>3, <2>1, <2>5 DEF IInv, TypeOK
    <3>2. missing' \in [Fec -> SUBSET Media]
      BY <2>1, <2>2, <2>5 DEF IInv, TypeOK, Of
    <3>3. maybe_loss' \in [Fec -> SUBSET Media]
      <4>1. maybe_loss' = [g \in Fec |-> IF g \in F2 THEN ml2[g] \cap C2 ELSE {}]
        BY <2>1 DEF Live
      <4> HIDE DEF ml2, F2
      <4> QED BY <1>1, <1>2, <2>5, <4>1 DEF IInv, TypeOK
    <3>4. expired' \subseteq received_fec_packets'
      BY <2>1 DEF Expired
    <3>5. /\ fec_receive_time' \subseteq Fec /\ late' \in BOOLEAN
          /\ pc' \in {"idle", "attempt", "deliver", "crashed"}
          /\ num_recovered' \in BOOLEAN /\ seen' \subseteq Media /\ corrupt' \subseteq Media
      BY <1>3, <2>1 DEF IInv, TypeOK
    <3> QED BY <3>1, <3>2, <3>3, <3>4, <3>5 DEF TypeOK
  <2>7. LinksSound'
    <3> SUFFICES ASSUME NEW g \in Fec
                 PROVE  /\ g \notin received_fec_packets' => missing'[g] = {}
                        /\ missing'[g] \subseteq Protects[g]
                        /\ maybe_loss'[g] \subseteq missing'[g]
                        /\ maybe_loss'[g] \subseteq consider_loss_packets'
      BY DEF LinksSound
    <3> HIDE DEF ml2, F2, C2, m
    <3> QED BY <1>2, <2>1, <2>2, <2>3, <2>4, <2>5 DEF IInv, LinksSound
  <2>8. LinksComplete'
    <3>1. ASSUME NEW g \in F2, g \notin expired'
          PROVE  maybe_loss'[g] = missing'[g]
      <4>1. g \in Fec
        BY <1>1, <1>2 DEF IInv, TypeOK
      <4>2. ml2[g] \subseteq C2 /\ g \notin ex
        BY <2>1, <3>1 DEF Expired
      <4>3. CASE g = f
        BY <2>2, <2>3, <2>4, <4>1, <4>2, <4>3
      <4>4. CASE g # f
        <5>1. g \in F /\ maybe_loss[g] \subseteq C
          BY <1>2, <4>2, <4>4 DEF Expired
        <5>2. maybe_loss[g] \cap C = missing[g]
          BY <1>4, <4>1, <5>1
        <5> HIDE DEF ml2, C2, F2
        <5> QED BY <2>2, <2>3, <2>4, <4>1, <4>2, <4>4, <5>1, <5>2
      <4> QED BY <4>3, <4>4
    <3> QED BY <1>3, <2>1, <3>1 DEF LinksComplete
  <2>9. KnownNotLost'
    BY <1>1, <1>2, <1>3, <2>1 DEF IInv, KnownNotLost
  <2>10. FecTimed'
    BY <1>1, <1>2, <2>1 DEF IInv, FecTimed
  <2>11. ArrivalsAgree'
    <3>1. recovered_packets' \subseteq seen'
      BY <1>1, <1>3 DEF IInv, ArrivalsAgree
    <3>2. ASSUME ~late', NEW g \in F2
          PROVE  missing'[g] \cap seen' = {} /\ Protects[g] \ missing'[g] \subseteq seen'
      <4>1. g \in Fec /\ ~late /\ m \cap seen = {}
        BY <1>1, <1>2, <2>1, <3>2 DEF IInv, TypeOK
      <4>2. CASE g = f
        BY <1>1, <1>2, <1>3, <2>2, <3>2, <4>1, <4>2 DEF IInv, ArrivalsAgree
      <4>3. CASE g # f
        BY <1>1, <1>2, <1>3, <2>2, <3>2, <4>1, <4>3 DEF IInv, ArrivalsAgree
      <4> QED BY <4>2, <4>3
    <3>3. ~late' => corrupt' = {}
      BY <1>3, <2>1 DEF IInv, ArrivalsAgree
    <3> QED BY <2>1, <3>1, <3>2, <3>3 DEF ArrivalsAgree
  <2> QED BY <1>5, <2>6, <2>7, <2>8, <2>9, <2>10, <2>11 DEF IInv
<1> QED BY <1>6, <1>7

\* What holds of the FEC packets that pass the validity check of AttemptRecovery.
LEMMA ValidFecFacts ==
  ASSUME IInv
  PROVE  /\ ValidFec \subseteq received_fec_packets /\ ValidFec \subseteq Fec
         /\ \A f \in ValidFec : maybe_loss[f] = missing[f] /\ missing[f] # {}
BY DEF IInv, TypeOK, LinksComplete, ValidFec

\* The clean-up at the head of AttemptRecovery keeps every part of IInv that does
\* not speak of where the thread is, and establishes LinksComplete.
LEMMA KeepFecInv ==
  ASSUME IInv, KeepFec(ValidFec), pc' \in {"deliver", "crashed"},
         UNCHANGED <<recovered_packets, returned, num_recovered, seen, late, corrupt>>
  PROVE  /\ TypeOK' /\ LinksSound' /\ LinksComplete' /\ KnownNotLost' /\ FecTimed'
         /\ ArrivalsAgree'
         /\ received_fec_packets' = ValidFec
         /\ \A f \in ValidFec : missing'[f] = missing[f]
<1> DEFINE V == ValidFec
<1>1. /\ V \subseteq received_fec_packets /\ V \subseteq Fec
      /\ \A f \in V : maybe_loss[f] = missing[f] /\ missing[f] # {}
  BY ValidFecFacts
<1> HIDE DEF V
<1>2. /\ received_fec_packets' = V /\ missing' = Of(missing, V)
      /\ maybe_loss' = Of(maybe_loss, V) /\ expired' = {}
      /\ consider_loss_packets' = ReferencedLoss(V)
      /\ fec_receive_time' = fec_receive_time \ (received_fec_packets \ V)
  BY DEF KeepFec, TimesOf, V
<1>3. /\ \A f \in Fec : missing'[f] = (IF f \in V THEN missing[f] ELSE {})
      /\ \A f \in Fec : maybe_loss'[f] = (IF f \in V THEN maybe_loss[f] ELSE {})
  BY <1>2 DEF Of
<1>4. ReferencedLoss(V) \subseteq consider_loss_packets
  BY DEF ReferencedLoss
<1>5. TypeOK'
  <2>1. missing' \in [Fec -> SUBSET Media] /\ maybe_loss' \in [Fec -> SUBSET Media]
    BY <1>2 DEF IInv, TypeOK, Of
  <2> QED BY <1>1, <1>2, <1>4, <2>1 DEF IInv, TypeOK
<1>6. LinksSound'
  <2>1. \A f \in V : maybe_loss[f] \subseteq ReferencedLoss(V)
    BY <1>1 DEF IInv, LinksSound, ReferencedLoss
  <2> QED BY <1>2, <1>3, <2>1 DEF IInv, LinksSound
<1>7. LinksComplete'
  BY <1>1, <1>2, <1>3 DEF LinksComplete
<1>8. KnownNotLost' /\ FecTimed'
  BY <1>1, <1>2, <1>4 DEF IInv, KnownNotLost, FecTimed
<1>9. ArrivalsAgree'
  BY <1>1, <1>2, <1>3 DEF IInv, ArrivalsAgree
<1>10. \A f \in V : missing'[f] = missing[f]
  BY <1>1, <1>3
<1> QED BY <1>2, <1>5, <1>6, <1>7, <1>8, <1>9, <1>10 DEF V

\* RecoverPacket fails and the process dies.
LEMMA RecoverFailsInv ==
  ASSUME IInv, RecoverFails
  PROVE  IInv'
<1>1. /\ KeepFec(ValidFec) /\ pc' = "crashed"
      /\ UNCHANGED <<recovered_packets, returned, num_recovered, seen, late, corrupt>>
  BY DEF RecoverFails
<1>2. SearchExhausted' /\ ReturnedUnlessRecovered'
  BY <1>1 DEF SearchExhausted, ReturnedUnlessRecovered
<1> QED BY <1>1, <1>2, KeepFecInv DEF IInv

\* Two different numbers are comparable, one way only.
LEMMA LessThanTotal ==
  ASSUME NEW a \in Seq16, NEW b \in Seq16, a # b
  PROVE  LessThan(a, b) <=> ~LessThan(b, a)
BY SeqModAssumption DEF Seq16, LessThan, IsNewerSequenceNumber, ForwardDiff

\* SearchFECPacket started at a FEC packet that misses one packet selects just it.
LEMMA SingleLossSelected ==
  ASSUME NEW V \in SUBSET Fec, NEW f \in V, NEW c, maybe_loss[f] = {c}
  PROVE  SearchFECPacket(V, f, f)
<1>1. ~LessThan(f, f) /\ ~LessThan(c, c)
  BY DEF LessThan, IsNewerSequenceNumber
<1>2. Run(V, f, f) = {f}
  BY <1>1, LessThanTotal, StreamAssumption DEF Run
<1>3. Losses({f}) = {c} /\ Losses({}) = {}
  BY DEF Losses
<1>4. Cardinality({f}) = 1 /\ Cardinality({c}) = 1 /\ Cardinality({}) = 0
  BY FS_Singleton, FS_EmptySet
<1>5. Accepts({}, f)
  <2>1. {t \in {c} : LessThan(t, c)} = {}
    BY <1>1
  <2>2. NthOldest({c}, Cardinality({}) + 1) = c
    BY <1>4, <2>1 DEF NthOldest
  <2>3. Losses({}) \cup maybe_loss[f] = {c}
    BY <1>3
  <2> QED BY <1>3, <2>2, <2>3 DEF Accepts
<1>6. {f} \ {f} = {}
  OBVIOUS
<1> QED BY <1>1, <1>2, <1>3, <1>4, <1>5, <1>6 DEF SearchFECPacket

\* A finite set that is neither empty nor a singleton has two elements.
LEMMA AtLeastTwo ==
  ASSUME NEW S, IsFiniteSet(S), S # {}, \A c \in S : S # {c}
  PROVE  Cardinality(S) >= 2
<1>1. Cardinality(S) \in Nat /\ Cardinality(S) # 0
  BY FS_CardinalityType, FS_EmptySet
<1>2. Cardinality(S) # 1
  BY FS_Singleton
<1> QED BY <1>1, <1>2

\* AttemptRecovery finds nothing: no FEC packet it keeps misses a single packet.
LEMMA AttemptEndsInv ==
  ASSUME IInv, AttemptEnds
  PROVE  IInv'
<1>1. /\ NothingDecodable(ValidFec) /\ KeepFec(ValidFec)
      /\ pc = "attempt" /\ pc' = "deliver"
      /\ UNCHANGED <<recovered_packets, returned, num_recovered, seen, late, corrupt>>
  BY DEF AttemptEnds
<1>2. /\ ValidFec \subseteq Fec
      /\ \A f \in ValidFec : maybe_loss[f] = missing[f] /\ missing[f] # {}
  BY ValidFecFacts
<1>3. ReturnedUnlessRecovered'
  BY <1>1 DEF IInv, ReturnedUnlessRecovered
<1>4. SearchExhausted'
  <2> SUFFICES ASSUME NEW f \in ValidFec PROVE Cardinality(missing[f]) >= 2
    BY <1>1, KeepFecInv DEF SearchExhausted
  <2>1. IsFiniteSet(missing[f])
    <3>1. IsFiniteSet(Seq16)
      BY FS_Interval, SeqModAssumption DEF Seq16
    <3>2. missing[f] \subseteq Seq16
      BY <1>2, StreamAssumption DEF IInv, TypeOK
    <3> QED BY <3>1, <3>2, FS_Subset
  <2>2. \A c \in missing[f] : missing[f] # {c}
    BY <1>1, <1>2, SingleLossSelected DEF NothingDecodable
  <2> QED BY <1>2, <2>1, <2>2, AtLeastTwo
<1> QED BY <1>1, <1>3, <1>4, KeepFecInv DEF IInv

\* ProcessReceivedFec hands out what was recovered.
LEMMA DeliverInv ==
  ASSUME IInv, Deliver
  PROVE  IInv'
<1>1. /\ pc = "deliver" /\ pc' = "idle"
      /\ returned' = IF num_recovered THEN recovered_packets ELSE returned
      /\ UNCHANGED <<recovered_packets, fecVars, consider_loss_packets,
                     fec_receive_time, num_recovered, seen, late, corrupt>>
  BY DEF Deliver, AllReturned
<1>2. TypeOK' /\ LinksSound' /\ LinksComplete'
  BY <1>1 DEF IInv, TypeOK, LinksSound, LinksComplete, fecVars
<1>3. KnownNotLost' /\ FecTimed' /\ ArrivalsAgree'
  BY <1>1 DEF IInv, KnownNotLost, FecTimed, ArrivalsAgree, fecVars
<1>4. SearchExhausted' /\ ReturnedUnlessRecovered'
  BY <1>1 DEF IInv, SearchExhausted, ReturnedUnlessRecovered, fecVars
<1> QED BY <1>2, <1>3, <1>4 DEF IInv

\* RecoverPacket succeeds: unless some FEC packet came late, the unknowns of the
\* combined masks are exactly the packets selected.
LEMMA RecoverSucceedsInv ==
  ASSUME IInv, RecoverSucceeds
  PROVE  IInv'
<1> DEFINE V == ValidFec
<1>a. PICK f \in V, h \in V : Decode(V, f, h)
  BY DEF RecoverSucceeds
<1> DEFINE G == Run(V, f, h)
           L == Losses(G)
           F == V \ G
<1>1. /\ recovered_packets' =
            KeepNewest(recovered_packets \cup L, MaxMediaPackets)
      /\ returned' = (returned \ L) \cap recovered_packets'
      /\ received_fec_packets' = F
      /\ missing' = [g \in Fec |-> Of(missing, F)[g] \ L]
      /\ maybe_loss' = [g \in Fec |-> Of(maybe_loss, F)[g] \ L]
      /\ consider_loss_packets' = ReferencedLoss(V) \ L
      /\ fec_receive_time' = TimesOf(F)
      /\ corrupt' = IF Garbage(G) THEN corrupt \cup L ELSE corrupt
      /\ seen' = seen \cup L
  BY <1>a DEF Decode, Tracked
<1>2. /\ pc = "attempt" /\ pc' = "attempt" /\ late' = late
      /\ expired' = {} /\ num_recovered' = TRUE
  BY DEF RecoverSucceeds
<1>3. /\ V \subseteq received_fec_packets /\ V \subseteq Fec
      /\ \A g \in V : maybe_loss[g] = missing[g] /\ missing[g] # {}
  BY ValidFecFacts
<1>4. G \subseteq V /\ F \subseteq V
  BY DEF Run
<1>5. L \subseteq Media
  BY <1>3, <1>4 DEF IInv, TypeOK, Losses
<1> HIDE DEF V, G, L
<1>6. /\ recovered_packets' \subseteq recovered_packets \cup L
      /\ returned' \subseteq recovered_packets'
      /\ received_fec_packets' = F
      /\ consider_loss_packets' = ReferencedLoss(V) \ L
      /\ fec_receive_time' = fec_receive_time \ (received_fec_packets \ F)
      /\ corrupt' = IF Garbage(G) THEN corrupt \cup L ELSE corrupt
      /\ seen' = seen \cup L
  BY <1>1, KeepNewestSubset DEF G, L, TimesOf
<1>7. /\ missing' = [g \in Fec |-> Of(missing, F)[g] \ L]
      /\ maybe_loss' = [g \in Fec |-> Of(maybe_loss, F)[g] \ L]
  BY <1>1 DEF G, L
<1>8. /\ \A g \in Fec : missing'[g] = (IF g \in F THEN missing[g] \ L ELSE {})
      /\ \A g \in Fec : maybe_loss'[g] = (IF g \in F THEN maybe_loss[g] \ L ELSE {})
  BY <1>7 DEF Of
<1>9. ReferencedLoss(V) \subseteq consider_loss_packets
  BY DEF ReferencedLoss
<1>10. TypeOK'
  <2>1. missing' \in [Fec -> SUBSET Media] /\ maybe_loss' \in [Fec -> SUBSET Media]
    BY <1>7, <1>8 DEF IInv, TypeOK
  <2>2. corrupt' \subseteq Media /\ seen' \subseteq Media
    BY <1>5, <1>6 DEF IInv, TypeOK
  <2> QED BY <1>2, <1>3, <1>4, <1>5, <1>6, <1>9, <2>1, <2>2 DEF IInv, TypeOK
<1>11. LinksSound'
  <2>1. \A g \in F : maybe_loss[g] \subseteq ReferencedLoss(V)
    BY <1>3, <1>4 DEF IInv, LinksSound, ReferencedLoss
  <2> QED BY <1>6, <1>8, <2>1 DEF IInv, LinksSound
<1>12. LinksComplete'
  BY <1>2, <1>3, <1>4, <1>6, <1>8 DEF LinksComplete
<1>13. KnownNotLost' /\ FecTimed'
  BY <1>3, <1>4, <1>6, <1>9 DEF IInv, KnownNotLost, FecTimed
<1>14. SearchExhausted' /\ ReturnedUnlessRecovered'
  BY <1>2 DEF SearchExhausted, ReturnedUnlessRecovered
<1>15. ArrivalsAgree'
  <2>1. recovered_packets' \subseteq seen'
    BY <1>6 DEF IInv, ArrivalsAgree
  <2>2. ASSUME ~late PROVE corrupt' = {}
    <3>1. /\ corrupt = {}
          /\ \A g \in G : /\ missing[g] \cap seen = {}
                          /\ Protects[g] \ missing[g] \subseteq seen
                          /\ missing[g] \subseteq Protects[g]
                          /\ maybe_loss[g] = missing[g]
      BY <1>3, <1>4, <2>2 DEF IInv, ArrivalsAgree, LinksSound
    <3>2. Unknown(G) = Losses(G)
      BY <3>1 DEF Unknown, Arrived, Losses
    <3> QED BY <1>6, <3>1, <3>2 DEF Garbage
  <2>3. ASSUME ~late, NEW g \in F
        PROVE  missing'[g] \cap seen' = {} /\ Protects[g] \ missing'[g] \subseteq seen'
    BY <1>3, <1>4, <1>6, <1>8, <2>3 DEF IInv, ArrivalsAgree
  <2> QED BY <1>2, <1>6, <2>1, <2>2, <2>3 DEF ArrivalsAgree
<1> QED BY <1>10, <1>11, <1>12, <1>13, <1>14, <1>15 DEF IInv

-------------------------------------------------------------------------------
(* The theorems.                                                           *)

\* IInv holds in every state the receiver reaches.
THEOREM Invariance == Spec => []IInv
<1>1. Init => IInv
  <2> SUFFICES ASSUME Init PROVE IInv
    OBVIOUS
  <2>1. TypeOK /\ LinksSound /\ LinksComplete
    BY DEF Init, NoLinks, TypeOK, LinksSound, LinksComplete
  <2> QED BY <2>1 DEF Init, IInv, KnownNotLost, FecTimed, SearchExhausted,
                      ReturnedUnlessRecovered, ArrivalsAgree
<1>2. IInv /\ [Next]_vars => IInv'
  <2> SUFFICES ASSUME IInv, [Next]_vars PROVE IInv'
    OBVIOUS
  <2>1. ASSUME NEW s \in Media, ReceiveMedia(s) PROVE IInv'
    BY <2>1, ReceiveMediaInv
  <2>2. ASSUME NEW f \in Fec, ReceiveFec(f) PROVE IInv'
    BY <2>2, ReceiveFecInv
  <2>3. CASE Handler
    BY <2>3, RecoverSucceedsInv, RecoverFailsInv, AttemptEndsInv, DeliverInv DEF Handler
  <2>4. CASE UNCHANGED vars
    BY <2>4 DEF vars, fecVars, IInv, TypeOK, LinksSound, LinksComplete, KnownNotLost,
                FecTimed, SearchExhausted, ReturnedUnlessRecovered, ArrivalsAgree
  <2> QED BY <2>1, <2>2, <2>3, <2>4 DEF Next, Dead
<1> QED BY <1>1, <1>2, PTL DEF Spec

\* Every list of the decoder holds packets of its kind.
THEOREM TypeCorrect == Spec => []TypeOK
<1>1. IInv => TypeOK
  BY DEF IInv
<1> QED BY <1>1, Invariance, PTL

\* Between calls, no pointer of a buffered FEC packet has expired and its two
\* views of its losses agree, whatever was evicted, pruned or reset.
THEOREM LinksStayConsistent == Spec => []LinksConsistent
<1>1. IInv => LinksConsistent
  BY DEF IInv, TypeOK, LinksSound, LinksComplete, LinksConsistent
<1> QED BY <1>1, Invariance, PTL

\* A tracked packet is never believed lost, so recovery adds no duplicate.
THEOREM KnownStaysNotLost == Spec => []KnownNotLost
<1>1. IInv => KnownNotLost
  BY DEF IInv
<1> QED BY <1>1, Invariance, PTL

\* Every buffered FEC packet has a receive time.
THEOREM FecAlwaysTimed == Spec => []FecTimed
<1>1. IInv => FecTimed
  BY DEF IInv
<1> QED BY <1>1, Invariance, PTL

\* No call returns while some buffered FEC packet could recover a packet alone.
THEOREM SingleLossRecovered == Spec => []NoSingleLossLeft
<1>1. IInv => NoSingleLossLeft
  BY DEF IInv, SearchExhausted, NoSingleLossLeft
<1> QED BY <1>1, Invariance, PTL

\* No call returns with a tracked packet that the callback has not been given.
THEOREM TrackedDelivered == Spec => []RecoveredDelivered
<1>1. IInv => RecoveredDelivered
  BY DEF IInv, ReturnedUnlessRecovered, RecoveredDelivered
<1> QED BY <1>1, Invariance, PTL

\* Decoding is exact as long as no FEC packet arrives after a packet it protects
\* has been dropped from tracking.
THEOREM ExactUnlessLate == Spec => []CorruptOnlyIfLate
<1>1. IInv => CorruptOnlyIfLate
  BY DEF IInv, TypeOK, ArrivalsAgree, CorruptOnlyIfLate
<1> QED BY <1>1, Invariance, PTL

-------------------------------------------------------------------------------
(* The rounds of recovery within one call.                                 *)

\* The half-range comparison sorts a set of numbers that lies within half the
\* range; only of such lists do front and back mean oldest and newest.
WithinHalfRange(S) ==
  \E base \in Seq16 : \A s \in S : 2 * ForwardDiff(base, s) < SeqMod

\* Within half the range LessThan compares distances from the base.
LEMMA HalfRangeOrder ==
  ASSUME NEW base \in Seq16, NEW a \in Seq16, NEW b \in Seq16,
         2 * ForwardDiff(base, a) < SeqMod, 2 * ForwardDiff(base, b) < SeqMod
  PROVE  LessThan(a, b) <=> ForwardDiff(base, a) < ForwardDiff(base, b)
<1> USE SeqModAssumption DEF Seq16, ForwardDiff, LessThan, IsNewerSequenceNumber
<1>1. CASE base <= a /\ base <= b
  BY <1>1
<1>2. CASE base <= a /\ base > b
  BY <1>2
<1>3. CASE base > a /\ base <= b
  BY <1>3
<1>4. CASE base > a /\ base > b
  BY <1>4
<1> QED BY <1>1, <1>2, <1>3, <1>4

\* Sets of sequence numbers are finite.
LEMMA NumbersFinite ==
  ASSUME NEW S \in SUBSET Seq16
  PROVE  IsFiniteSet(S) /\ Cardinality(S) \in Nat
<1>1. IsFiniteSet(Seq16)
  BY FS_Interval, SeqModAssumption DEF Seq16
<1> QED BY <1>1, FS_Subset, FS_CardinalityType

\* A list that has room for its elements loses none.
LEMMA RoomKeepsAll ==
  ASSUME NEW S \in SUBSET Seq16, NEW n \in Nat, Cardinality(S) <= n
  PROVE  KeepNewest(S, n) = S
<1>1. ASSUME NEW s \in S
      PROVE  Cardinality({t \in S : LessThan(s, t)}) < n
  <2> DEFINE T == {t \in S : LessThan(s, t)}
  <2>1. s \notin T
    BY DEF LessThan, IsNewerSequenceNumber
  <2>2. T \in SUBSET S /\ T \in SUBSET Seq16 /\ T # S
    BY <2>1
  <2>3. /\ IsFiniteSet(S) /\ Cardinality(S) \in Nat
        /\ Cardinality(T) \in Nat
    BY <2>2, NumbersFinite
  <2> HIDE DEF T
  <2>4. Cardinality(T) <= Cardinality(S) /\ Cardinality(S) # Cardinality(T)
    BY <2>2, <2>3, FS_Subset
  <2> QED BY <2>3, <2>4 DEF T
<1> QED BY <1>1 DEF KeepNewest

\* pop_front() until n are left leaves n: in a sorted list the numbers of newer
\* elements are 0, 1, 2, ..., each once.
LEMMA FullListKeepsLimit ==
  ASSUME NEW S \in SUBSET Seq16, NEW n \in Nat, Cardinality(S) > n,
         WithinHalfRange(S)
  PROVE  Cardinality(KeepNewest(S, n)) = n
<1> DEFINE Newer(s) == {t \in S : LessThan(s, t)}
           rank == [s \in S |-> Cardinality(Newer(s))]
           size == Cardinality(S)
<1>1. IsFiniteSet(S) /\ size \in Nat
  BY NumbersFinite
<1>2. PICK base \in Seq16 : \A s \in S : 2 * ForwardDiff(base, s) < SeqMod
  BY DEF WithinHalfRange
<1>3. \A s, t \in S : LessThan(s, t) <=> ForwardDiff(base, s) < ForwardDiff(base, t)
  BY <1>2, HalfRangeOrder
<1>4. \A s \in S : ForwardDiff(base, s) \in Nat
  BY SeqModAssumption DEF Seq16, ForwardDiff
<1>5. \A s, t \in S : s # t => LessThan(s, t) \/ LessThan(t, s)
  BY LessThanTotal
<1>6. \A s \in S : /\ IsFiniteSet(Newer(s)) /\ Cardinality(Newer(s)) \in Nat
                   /\ Newer(s) \in SUBSET S /\ s \notin Newer(s)
  <2> TAKE s \in S
  <2>1. Newer(s) \in SUBSET Seq16
    OBVIOUS
  <2>2. s \notin Newer(s)
    BY <1>3, <1>4
  <2> QED BY <2>1, <2>2, NumbersFinite
<1>7. ASSUME NEW s \in S, NEW t \in S, LessThan(s, t)
      PROVE  Cardinality(Newer(t)) < Cardinality(Newer(s))
  <2>1. Newer(t) \in SUBSET Newer(s)
    BY <1>3, <1>4, <1>7
  <2>2. t \in Newer(s) /\ t \notin Newer(t)
    BY <1>6, <1>7
  <2> HIDE DEF Newer
  <2>3. /\ Cardinality(Newer(t)) <= Cardinality(Newer(s))
        /\ Cardinality(Newer(s)) = Cardinality(Newer(t)) => Newer(s) = Newer(t)
    BY <1>6, <2>1, FS_Subset
  <2> QED BY <1>6, <2>2, <2>3
<1>8. ASSUME NEW s \in S
      PROVE  Cardinality(Newer(s)) \in 0 .. size - 1
  <2> HIDE DEF Newer
  <2>1. /\ Cardinality(Newer(s)) <= size
        /\ Cardinality(S) = Cardinality(Newer(s)) => S = Newer(s)
    BY <1>1, <1>6, FS_Subset
  <2> QED BY <1>1, <1>6, <2>1
<1> HIDE DEF Newer
<1>9. rank \in Injection(S, 0 .. size - 1)
  <2>1. rank \in [S -> 0 .. size - 1]
    BY <1>8
  <2>2. ASSUME NEW s \in S, NEW t \in S, s # t PROVE rank[s] # rank[t]
    BY <1>5, <1>6, <1>7, <2>2
  <2> QED BY <2>1, <2>2 DEF Injection, IsInjective
<1>10. rank \in Surjection(S, 0 .. size - 1)
  <2>1. IsFiniteSet(0 .. size - 1) /\ Cardinality(0 .. size - 1) = size
    <3>1. 0 \in Int /\ size - 1 \in Int
      BY <1>1
    <3> QED BY <1>1, <3>1, FS_Interval
  <2> QED BY <1>9, <2>1, FS_Injection
<1> DEFINE K == KeepNewest(S, n)
           kept == [s \in K |-> rank[s]]
<1>11. K = {s \in S : rank[s] < n}
  BY DEF KeepNewest, Newer
<1> HIDE DEF rank, K
<1>12. kept \in Bijection(K, 0 .. n - 1)
  <2>1. /\ \A s \in S : rank[s] \in 0 .. size - 1
        /\ \A s, t \in S : rank[s] = rank[t] => s = t
        /\ \A i \in 0 .. size - 1 : \E s \in S : rank[s] = i
    BY <1>9, <1>10 DEF Injection, IsInjective, Surjection
  <2>2. kept \in [K -> 0 .. n - 1]
    BY <1>11, <2>1, <1>1
  <2>3. \A s, t \in K : kept[s] = kept[t] => s = t
    BY <1>11, <2>1
  <2>4. \A i \in 0 .. n - 1 : \E s \in K : kept[s] = i
    BY <1>1, <1>11, <2>1
  <2> HIDE DEF kept
  <2> QED BY <2>2, <2>3, <2>4 DEF Bijection, Injection, IsInjective, Surjection
<1>13. IsFiniteSet(K)
  BY <1>1, <1>11, FS_Subset
<1>14. Cardinality(0 .. n - 1) = Cardinality(K)
  <2>1. ExistsBijection(K, 0 .. n - 1)
    BY <1>12 DEF ExistsBijection
  <2> QED BY <1>13, <2>1, FS_Bijection
<1>15. Cardinality(0 .. n - 1) = n
  <2>1. 0 \in Int /\ n - 1 \in Int
    OBVIOUS
  <2> QED BY <2>1, FS_Interval
<1> QED BY <1>14, <1>15 DEF K

\* What a successful round changes: the packets L leave the losses for the
\* tracking list, and FEC packets G, at least one, leave the buffer.
LEMMA RoundFacts ==
  ASSUME IInv, RecoverSucceeds
  PROVE  \E L, G :
           /\ L \subseteq consider_loss_packets
           /\ seen' = seen \cup L
           /\ recovered_packets' = KeepNewest(recovered_packets \cup L, MaxMediaPackets)
           /\ G # {} /\ G \subseteq received_fec_packets
           /\ received_fec_packets' \subseteq received_fec_packets \ G
<1> DEFINE V == ValidFec
<1>1. PICK f \in V, h \in V : Decode(V, f, h)
  BY DEF RecoverSucceeds
<1> DEFINE G == Run(V, f, h)
           L == Losses(G)
<1>2. V \subseteq received_fec_packets /\ V \subseteq Fec
  BY ValidFecFacts
<1>3. G \subseteq V
  BY DEF Run
<1>4. f \in G
  <2>1. ~LessThan(h, f)
    BY <1>1 DEF Decode, Selected, SearchFECPacket
  <2>2. ~LessThan(f, f)
    BY DEF LessThan, IsNewerSequenceNumber
  <2> QED BY <2>1, <2>2 DEF Run
<1>5. L \subseteq consider_loss_packets
  BY <1>2, <1>3 DEF IInv, LinksSound, Losses
<1>6. /\ seen' = seen \cup L
      /\ recovered_packets' = KeepNewest(recovered_packets \cup L, MaxMediaPackets)
      /\ received_fec_packets' = V \ G
  BY <1>1 DEF Decode, Tracked
<1> HIDE DEF V, G, L
<1> QED BY <1>2, <1>3, <1>4, <1>5, <1>6

\* A step taken within AttemptRecovery: another round, or the end of the loop.
LEMMA AttemptSteps ==
  ASSUME Next, pc = "attempt"
  PROVE  \/ RecoverSucceeds /\ pc' = "attempt"
         \/ pc' # "attempt" /\ UNCHANGED <<recovered_packets, seen>>
BY DEF Next, Handler, ReceiveMedia, ReceiveFec, RecoverSucceeds, RecoverFails,
       AttemptEnds, Deliver, Dead

\* The packets tracked and believed lost lie within half the range, so that the
\* lists which hold them are sorted.
ListsSorted == WithinHalfRange(recovered_packets \cup consider_loss_packets)

\* In a stream of any length, as long as what the decoder holds at one time lies
\* within half the range: a recovered packet is lost to the callback again only
\* if the tracking list is full.
THEOREM RecoveredSent == Spec /\ []ListsSorted => RecoveredSentUnlessFull
<1> DEFINE Sent == pc = "attempt" =>
                     \/ seen' \ seen \subseteq recovered_packets'
                     \/ Cardinality(recovered_packets') = MaxMediaPackets
<1>1. IInv /\ ListsSorted /\ [Next]_vars => [Sent]_vars
  <2> SUFFICES ASSUME IInv, ListsSorted, Next, pc = "attempt", RecoverSucceeds
               PROVE  \/ seen' \ seen \subseteq recovered_packets'
                      \/ Cardinality(recovered_packets') = MaxMediaPackets
    BY AttemptSteps
  <2>1. PICK L, G :
          /\ L \subseteq consider_loss_packets
          /\ seen' = seen \cup L
          /\ recovered_packets' = KeepNewest(recovered_packets \cup L, MaxMediaPackets)
    BY RoundFacts
  <2> DEFINE S == recovered_packets \cup L
  <2>2. S \in SUBSET Seq16 /\ MaxMediaPackets \in Nat
    BY <2>1, StreamAssumption, LimitAssumption DEF IInv, TypeOK
  <2>3. WithinHalfRange(S)
    BY <2>1 DEF ListsSorted, WithinHalfRange
  <2> HIDE DEF S
  <2>4. Cardinality(S) \in Nat
    BY <2>2, NumbersFinite
  <2>5. CASE Cardinality(S) <= MaxMediaPackets
    <3>1. recovered_packets' = S
      BY <2>1, <2>2, <2>5, RoomKeepsAll DEF S
    <3> QED BY <2>1, <3>1 DEF S
  <2>6. CASE Cardinality(S) > MaxMediaPackets
    BY <2>1, <2>2, <2>3, <2>6, FullListKeepsLimit DEF S
  <2> QED BY <2>2, <2>4, <2>5, <2>6
<1> QED BY <1>1, Invariance, PTL DEF Spec, RecoveredSentUnlessFull

\* The same without a hypothesis on the behaviour, for a stream that itself lies
\* within half the range, wrap included (up to 2^15 numbers).
THEOREM RecoveredSentInShortStream ==
  ASSUME WithinHalfRange(Media)
  PROVE  Spec => RecoveredSentUnlessFull
<1>1. IInv => ListsSorted
  BY DEF IInv, TypeOK, ListsSorted, WithinHalfRange
<1> QED BY <1>1, Invariance, RecoveredSent, PTL

\* Every round of the loop `while (true)` but the last uses up FEC packets, so a
\* call has at most as many rounds as FEC packets are buffered.
RoundsUseFec ==
  [][pc = "attempt" /\ pc' = "attempt" =>
       Cardinality(received_fec_packets') < Cardinality(received_fec_packets)]_vars

\* The loop of DecodeRSFec ends for every stream: no round repeats another.
THEOREM RoundsBounded == Spec => RoundsUseFec
<1> DEFINE Fewer == pc = "attempt" /\ pc' = "attempt" =>
                      Cardinality(received_fec_packets') < Cardinality(received_fec_packets)
<1>1. IInv /\ [Next]_vars => [Fewer]_vars
  <2> SUFFICES ASSUME IInv, RecoverSucceeds
               PROVE  Cardinality(received_fec_packets') < Cardinality(received_fec_packets)
    BY AttemptSteps
  <2>1. PICK G : /\ G # {} /\ G \subseteq received_fec_packets
                 /\ received_fec_packets' \subseteq received_fec_packets \ G
    BY RoundFacts
  <2>2. /\ received_fec_packets \in SUBSET Seq16
        /\ received_fec_packets' \in SUBSET received_fec_packets
        /\ received_fec_packets' # received_fec_packets
    BY <2>1, StreamAssumption DEF IInv, TypeOK
  <2>3. /\ IsFiniteSet(received_fec_packets)
        /\ Cardinality(received_fec_packets) \in Nat
        /\ Cardinality(received_fec_packets') \in Nat
    BY <2>2, NumbersFinite
  <2>4. /\ Cardinality(received_fec_packets') <= Cardinality(received_fec_packets)
        /\ Cardinality(received_fec_packets) # Cardinality(received_fec_packets')
    BY <2>2, <2>3, FS_Subset
  <2> QED BY <2>3, <2>4
<1> QED BY <1>1, Invariance, PTL DEF Spec, RoundsUseFec
===============================================================================
