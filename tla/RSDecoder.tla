------------------------------ MODULE RSDecoder ------------------------------
(***************************************************************************)
(* The receiving half of the sliding-window Reed-Solomon code:             *)
(* RSForwardErrorCorrection::DecodeRSFec and the RSfecReceiver that feeds  *)
(* it.  The network may lose, duplicate and reorder what the sender sent,  *)
(* so any sent packet may arrive at any time, any number of times.         *)
(*                                                                         *)
(* Packets are named by their sequence number (media and FEC share one     *)
(* number space because FEC travels in RED).  A FEC packet's header (base, *)
(* mask) is the set of media numbers it protects.  The shared and weak     *)
(* pointers between FEC packets and the media packets they miss become:    *)
(*   missing[f]     protected packets of f whose pkt is null               *)
(*   maybe_loss[f]  protected packets f holds a live weak pointer to       *)
(*   expired        FEC packets that hold some expired weak pointer        *)
(* A consider-loss packet's reference_fec_packets are exactly the buffered *)
(* f with that packet in maybe_loss[f]: both ends are pushed together and  *)
(* dead ends are deleted before they are followed.  The `arrive` bits of f *)
(* are the protected packets not in missing[f]: every assignment to        *)
(* ProtectedPacket::pkt sets the bit too.                                  *)
(***************************************************************************)
EXTENDS SeqNum

CONSTANTS
  Media,            \* sequence numbers of the media packets sent
  Fec,              \* sequence numbers of the FEC packets sent
  Protects,         \* [Fec -> SUBSET Media], the header's base and mask
  MaxMediaPackets,  \* RSfecHeaderReader::MaxMediaPackets (128)
  MaxFecPackets,    \* RSfecHeaderReader::MaxFecPackets (32)
  MaxConsiderLoss,  \* RSfecHeaderReader::MaxConsiderLossPackets (128)
  OldThreshold,     \* kOldSequenceThreshold (128)
  LossThreshold,    \* kConsiderLossSeqThreadshold (128)
  DecodeSpan,       \* kConsiderDecodeMaxN - 32 (96)
  ZeroPivot(_, _)   \* does the elimination of module RSMatrix meet a zero
                    \* pivot for these FEC packets and these unknowns?

ASSUME StreamAssumption ==
  /\ Media \subseteq Seq16 /\ Fec \subseteq Seq16 /\ Media \cap Fec = {}
  /\ Protects \in [Fec -> SUBSET Media]
  /\ \A f \in Fec : Protects[f] # {}

ASSUME LimitAssumption ==
  /\ MaxMediaPackets \in Nat \ {0} /\ MaxFecPackets \in Nat \ {0}
  /\ MaxConsiderLoss \in Nat \ {0}
  /\ OldThreshold \in Nat /\ LossThreshold \in Nat /\ DecodeSpan \in Nat

\* The mask has 32 bits and the thresholds are 128: two packets protected by
\* one FEC packet are never more than a threshold apart.
ASSUME MaskAssumption ==
  \A f \in Fec : \A s, t \in Protects[f] : MinDiff(s, t) <= LossThreshold

VARIABLES
  recovered_packets,      \* media packets tracked, received or recovered
  returned,               \* those of them already handed to the callback
  received_fec_packets,   \* FEC packets buffered
  missing, maybe_loss, expired,
  consider_loss_packets,  \* media packets believed lost
  fec_receive_time,       \* FEC packets with a receive time on record
  pc,                     \* where the receiving thread is
  num_recovered,          \* did this call of ProcessReceivedFec recover any
  seen,                   \* media packets ever tracked (history)
  late,                   \* a FEC packet came after a packet it protects was
                          \* dropped from tracking (history)
  corrupt                 \* media packets recovered with wrong bytes (history)

fecVars == <<received_fec_packets, missing, maybe_loss, expired>>
vars == <<recovered_packets, returned, fecVars, consider_loss_packets,
          fec_receive_time, pc, num_recovered, seen, late, corrupt>>

NoLinks == [f \in Fec |-> {}]

Init ==
  /\ recovered_packets = {} /\ returned = {}
  /\ received_fec_packets = {} /\ expired = {}
  /\ missing = NoLinks /\ maybe_loss = NoLinks
  /\ consider_loss_packets = {} /\ fec_receive_time = {}
  /\ pc = "idle" /\ num_recovered = FALSE
  /\ seen = {} /\ late = FALSE /\ corrupt = {}

-------------------------------------------------------------------------------
(* InsertPacket: reset on a big gap, forget what is too old, then insert.  *)

\* DecodeRSFec resets when the tracking list is full and p is far from its back.
BigGap(p) ==
  /\ Cardinality(recovered_packets) = MaxMediaPackets
  /\ MinDiff(p, Newest(recovered_packets)) > MaxMediaPackets

\* The three lists once DecodeRSFec and InsertPacket have cleaned them for p
CleanRecovered(p) == IF BigGap(p) THEN {} ELSE recovered_packets
CleanFec(p) ==
  IF BigGap(p) THEN {} ELSE PruneFront(received_fec_packets, p, OldThreshold)
CleanLoss(p) ==
  IF BigGap(p) THEN {} ELSE PruneFront(consider_loss_packets, p, LossThreshold)

\* Links of the FEC packets in F once only the loss packets in C are alive
Live(links, F, C) == [f \in Fec |-> IF f \in F THEN links[f] \cap C ELSE {}]
Expired(links, F, C, ex) == {f \in F : f \in ex \/ ~(links[f] \subseteq C)}
Of(links, F) == [f \in Fec |-> IF f \in F THEN links[f] ELSE {}]

\* UpdateMaybeLossPackets deletes, in every FEC packet that references s, the
\* expired pointers and then s.
UpdateMaybeLossPackets_PopsFront(links, s) ==
  [f \in Fec |-> IF s \in links[f] THEN links[f] \ {Oldest(links[f])} ELSE links[f]]
UpdateMaybeLossPackets(links, s) == [f \in Fec |-> links[f] \ {s}]
DeleteUnavailableWeakPtr(ex, links, s) == {f \in ex : s \notin links[f]}

\* A media packet arrives in RED: it goes to the callback first and to the
\* decoder after.  A packet already tracked changes nothing more.
ReceiveMedia(s) ==
  LET R  == CleanRecovered(s)
      F  == CleanFec(s)
      C  == CleanLoss(s)
      ml == Live(maybe_loss, F, C)
      ex == Expired(maybe_loss, F, C, expired)
  IN
  /\ pc = "idle"
  /\ pc' = "attempt"
  /\ num_recovered' = FALSE
  /\ received_fec_packets' = F
  /\ seen' = seen \cup {s}
  /\ UNCHANGED <<fec_receive_time, late, corrupt>>
  /\ IF s \in R
     THEN /\ recovered_packets' = R
          /\ returned' = returned \cap R
          /\ missing' = Of(missing, F)
          /\ maybe_loss' = ml
          /\ expired' = ex
          /\ consider_loss_packets' = C
     ELSE /\ recovered_packets' = KeepNewest(R \cup {s}, MaxMediaPackets)
          /\ returned' = (returned \cup {s}) \cap recovered_packets'
          /\ missing' = [f \in Fec |-> Of(missing, F)[f] \ {s}]
          /\ maybe_loss' = UpdateMaybeLossPackets(ml, s)
          /\ expired' = DeleteUnavailableWeakPtr(ex, ml, s)
          /\ consider_loss_packets' = C \ {s}

\* The packets f protects that are still without data after
\* AssignRecoveredPackets
AssignRecoveredPackets_Skipped(f, R) == Protects[f]
AssignRecoveredPackets(f, R) == Protects[f] \ R

\* received_fec_packets after push_back, sort and the MaxFecPackets limit
InsertFec(F, f) ==
  IF Cardinality(F \cup {f}) > MaxFecPackets
  THEN (F \cup {f}) \ {Oldest(F \cup {f})}
  ELSE F \cup {f}

\* A FEC packet arrives: every protected packet that is not tracked is linked
\* to a consider-loss packet, created when there is none.
ReceiveFec(f) ==
  LET R  == CleanRecovered(f)
      F  == CleanFec(f)
      C  == CleanLoss(f)
      ml == Live(maybe_loss, F, C)
      ex == Expired(maybe_loss, F, C, expired)
      m  == AssignRecoveredPackets(f, R)
      F2 == InsertFec(F, f)
      C2 == KeepNewest(C \cup m, MaxConsiderLoss)
      ml2 == [ml EXCEPT ![f] = m]
  IN
  /\ pc = "idle"
  /\ pc' = "attempt"
  /\ num_recovered' = FALSE
  /\ recovered_packets' = R
  /\ returned' = returned \cap R
  /\ UNCHANGED <<seen, corrupt>>
  /\ IF f \in F
     THEN /\ received_fec_packets' = F
          /\ missing' = Of(missing, F)
          /\ maybe_loss' = ml
          /\ expired' = ex
          /\ consider_loss_packets' = C
          /\ UNCHANGED <<fec_receive_time, late>>
     ELSE /\ received_fec_packets' = F2
          /\ missing' = Of([missing EXCEPT ![f] = m], F2)
          /\ maybe_loss' = Live(ml2, F2, C2)
          /\ expired' = Expired(ml2, F2, C2, ex)
          /\ consider_loss_packets' = C2
          /\ fec_receive_time' =
               (fec_receive_time \ ((F \cup {f}) \ F2)) \cup {f}
          /\ late' = (late \/ m \cap seen # {})

-------------------------------------------------------------------------------
(* AttemptRecovery: one round of the loop `while (true)` of DecodeRSFec.   *)

IsOldFecPacket(f) ==
  /\ recovered_packets # {}
  /\ MinDiff(Newest(recovered_packets), Newest(Protects[f])) > OldThreshold

\* The FEC packets that survive the check at the head of AttemptRecovery
ValidFec_Unchecked ==
  {f \in received_fec_packets : missing[f] # {} /\ ~IsOldFecPacket(f)}
ValidFec ==
  {f \in received_fec_packets :
     f \notin expired /\ missing[f] # {} /\ ~IsOldFecPacket(f)}

\* The loss packets that some FEC packet of V still references
ReferencedLoss(V) == {c \in consider_loss_packets : \E f \in V : c \in maybe_loss[f]}

\* The FEC packets of V from f to h in list order, and the packets they miss
Run(V, f, h) == {g \in V : ~LessThan(g, f) /\ ~LessThan(h, g)}
Losses(G) == UNION {maybe_loss[g] : g \in G}

\* One turn of SearchFECPacket's loop accepts g after the FEC packets of before:
\* the packets g misses that are new to the selection come after all selected
\* ones, g reaches at least as far as the selection, and g misses the packet at
\* the head of CMLP.  CMLP is the selection without one packet for every
\* earlier turn.
Accepts(before, g) ==
  LET old    == Losses(before)
      select == old \cup maybe_loss[g]
  IN
  /\ maybe_loss[g] # {}
  /\ old # {} =>
       /\ ~LessThan(Newest(maybe_loss[g]), Newest(old))
       /\ \A c \in maybe_loss[g] \ old : LessThan(Newest(old), c)
  /\ NthOldest(select, Cardinality(before) + 1) \in maybe_loss[g]

\* SearchFECPacket started at f selects the FEC packets f .. h: every turn
\* accepts, and CMLP is empty for the first time after h.
SearchFECPacket(V, f, h) ==
  /\ ~LessThan(h, f)
  /\ Cardinality(Losses(Run(V, f, h))) = Cardinality(Run(V, f, h))
  /\ \A g \in Run(V, f, h) \ {h} :
       Cardinality(Losses(Run(V, f, g))) > Cardinality(Run(V, f, g))
  /\ \A g \in Run(V, f, h) : Accepts(Run(V, f, g) \ {g}, g)

\* The search starts from the newest FEC packet, then the next older one, and
\* stops at the first start that succeeds.
Selected(V, f, h) ==
  /\ SearchFECPacket(V, f, h)
  /\ \A g \in V : LessThan(f, g) => \A k \in V : ~SearchFECPacket(V, g, k)

NothingDecodable_NewestOnly(V) == \A h \in V : ~SearchFECPacket(V, Newest(V), h)
NothingDecodable(V) == \A f, h \in V : ~SearchFECPacket(V, f, h)

\* What RecoverPacket makes of the combined masks of the FEC packets G
Arrived(G) == UNION {Protects[g] \ missing[g] : g \in G}
Unknown(G) == (UNION {Protects[g] : g \in G}) \ Arrived(G)

\* The base of every FEC packet of G lies close enough to the oldest base
\* before it for the 128-bit decoding window.
FitsDecodeWindow(G) ==
  \A g \in G :
    LET before == {e \in G : LessThan(e, g)}
    IN before # {} =>
         MinDiff(Oldest({Oldest(Protects[e]) : e \in before}),
                 Oldest(Protects[g])) <= DecodeSpan

\* GenerateDecodingMatrix gives up when there are more unknowns than equations
\* and on a zero pivot.
Solvable(G) ==
  /\ FitsDecodeWindow(G)
  /\ Cardinality(Unknown(G)) <= Cardinality(G)
  /\ ~ZeroPivot(G, Unknown(G))

\* The decoding table has one row for each loss packet of the selection.  Rows
\* beyond the unknowns are never written, and a wrong input spoils every row:
\* the bytes computed are then arbitrary.
Garbage(G) == Unknown(G) # Losses(G) \/ Arrived(G) \cap corrupt # {}

\* A FEC packet leaves the receive times with the buffer, F being what stays.
TimesOf_Cleared(F) == fec_receive_time \ received_fec_packets
TimesOf(F) == fec_receive_time \ (received_fec_packets \ F)

\* The check at the head of AttemptRecovery keeps the FEC packets V and the loss
\* packets they reference.
KeepFec(V) ==
  /\ received_fec_packets' = V
  /\ missing' = Of(missing, V)
  /\ maybe_loss' = Of(maybe_loss, V)
  /\ expired' = {}
  /\ consider_loss_packets' = ReferencedLoss(V)
  /\ fec_receive_time' = TimesOf(V)

\* The tracking list once the recovered packets L are in and it is cut again
Tracked_Cut(L) == KeepNewest(recovered_packets \cup L, MaxMediaPackets - 1)
Tracked(L) == KeepNewest(recovered_packets \cup L, MaxMediaPackets)

\* The FEC packets f .. h of V are decoded: the packets they miss enter the
\* tracking list, every FEC packet that covers them learns of it, the FEC packets
\* used are erased.
Decode(V, f, h) ==
  LET G == Run(V, f, h)
      L == Losses(G)
      F == V \ G
  IN
  /\ Selected(V, f, h)
  /\ Solvable(G)
  /\ recovered_packets' = Tracked(L)
  /\ returned' = (returned \ L) \cap recovered_packets'
  /\ received_fec_packets' = F
  /\ missing' = [g \in Fec |-> Of(missing, F)[g] \ L]
  /\ maybe_loss' = [g \in Fec |-> Of(maybe_loss, F)[g] \ L]
  /\ consider_loss_packets' = ReferencedLoss(V) \ L
  /\ fec_receive_time' = TimesOf(F)
  /\ corrupt' = IF Garbage(G) THEN corrupt \cup L ELSE corrupt
  /\ seen' = seen \cup L

\* RecoverPacket succeeds
RecoverSucceeds ==
  /\ pc = "attempt"
  /\ \E V \in {ValidFec} : \E f, h \in V : Decode(V, f, h)
  /\ expired' = {}
  /\ num_recovered' = TRUE
  /\ UNCHANGED <<pc, late>>

\* RecoverPacket fails: there is no decoding matrix, or the length read from
\* arbitrary bytes is larger than a packet.  The clean-up that follows logs
\* through fec_packet_it, which the validity loop left at
\* received_fec_packets_.end(): the "element" read there is the list's size field
\* taken for a pointer, and the process dies on the access.
RecoverFails_Retried ==
  \E V \in {ValidFec} :
    /\ pc = "attempt"
    /\ \E f, h \in V :
         /\ Selected(V, f, h)
         /\ ~Solvable(Run(V, f, h)) \/ Garbage(Run(V, f, h))
    /\ KeepFec(V)
    /\ UNCHANGED <<pc, recovered_packets, returned, num_recovered, seen, late, corrupt>>
RecoverFails ==
  \E V \in {ValidFec} :
    /\ pc = "attempt"
    /\ \E f, h \in V :
         /\ Selected(V, f, h)
         /\ ~Solvable(Run(V, f, h)) \/ Garbage(Run(V, f, h))
    /\ KeepFec(V)
    /\ pc' = "crashed"
    /\ UNCHANGED <<recovered_packets, returned, num_recovered, seen, late, corrupt>>

\* AttemptRecovery returns 0 and the loop of DecodeRSFec ends.
AttemptEnds ==
  \E V \in {ValidFec} :
    /\ pc = "attempt"
    /\ NothingDecodable(V)
    /\ KeepFec(V)
    /\ pc' = "deliver"
    /\ UNCHANGED <<recovered_packets, returned, num_recovered, seen, late, corrupt>>

\* What has been returned once ProcessReceivedFec is done
AllReturned_NoLoop == returned
AllReturned == IF num_recovered THEN recovered_packets ELSE returned

\* ProcessReceivedFec returns at once when nothing was recovered; otherwise it
\* hands every tracked packet not yet returned to the callback.
Deliver ==
  /\ pc = "deliver"
  /\ pc' = "idle"
  /\ returned' = AllReturned
  /\ UNCHANGED <<recovered_packets, fecVars, consider_loss_packets,
                 fec_receive_time, num_recovered, seen, late, corrupt>>

\* Nothing happens after the process has died.
Dead == pc = "crashed" /\ UNCHANGED vars

Handler == RecoverSucceeds \/ RecoverFails \/ AttemptEnds \/ Deliver

Next ==
  \/ \E s \in Media : ReceiveMedia(s)
  \/ \E f \in Fec : ReceiveFec(f)
  \/ Handler
  \/ Dead

\* The receiving thread finishes the call it is in.
Spec == Init /\ [][Next]_vars /\ WF_vars(Handler)

-------------------------------------------------------------------------------
(* Properties *)

\* Every list of the decoder holds packets of its kind, and only tracked packets
\* are marked returned.
TypeOK ==
  /\ recovered_packets \subseteq Media
  /\ returned \subseteq recovered_packets
  /\ received_fec_packets \subseteq Fec
  /\ expired \subseteq received_fec_packets
  /\ missing \in [Fec -> SUBSET Media]
  /\ maybe_loss \in [Fec -> SUBSET Media]
  /\ consider_loss_packets \subseteq Media
  /\ fec_receive_time \subseteq Fec
  /\ pc \in {"idle", "attempt", "deliver", "crashed"}
  /\ num_recovered \in BOOLEAN
  /\ seen \subseteq Media
  /\ late \in BOOLEAN
  /\ corrupt \subseteq Media

\* The two views a FEC packet has of its losses agree between calls: whatever
\* was evicted, pruned, reset or recovered, no buffered FEC packet holds an
\* expired pointer (SearchFECPacket locks them unchecked), the pointers are to
\* exactly the protected packets without data, and each is in
\* consider_loss_packets_.
LinksConsistent ==
  pc = "idle" =>
    /\ expired = {}
    /\ \A f \in received_fec_packets :
         missing[f] # {} /\ maybe_loss[f] = missing[f]
    /\ \A f \in received_fec_packets : maybe_loss[f] \subseteq consider_loss_packets

\* A packet that is tracked as received or recovered is never also believed
\* lost: AttemptRecovery pushes what it recovers without looking for duplicates.
KnownNotLost == consider_loss_packets \cap recovered_packets = {}

\* Every buffered FEC packet has a receive time: the success branch of
\* AttemptRecovery dereferences fec_receive_time_[seq_num] unchecked.
FecTimed == received_fec_packets \subseteq fec_receive_time

\* Recovery is never postponed: when a call returns, no FEC packet is left that
\* misses just one packet, in whatever order the packets came.
NoSingleLossLeft ==
  pc = "idle" =>
    \A f \in received_fec_packets : Cardinality(missing[f]) >= 2

\* What is tracked has been given to the callback when a call returns, also the
\* packets that several rounds of recovery produced.
RecoveredDelivered ==
  pc = "idle" => returned = recovered_packets

\* "Send any recovered media packets to VCM." (RSfec_receiver.cc:175): what a
\* round of recovery produces is still in recovered_packets, from where
\* ProcessReceivedFec sends it, unless the list is full and the eviction that
\* follows each recovered packet took it for the oldest.
RecoveredSentUnlessFull ==
  [][pc = "attempt" =>
       \/ seen' \ seen \subseteq recovered_packets'
       \/ Cardinality(recovered_packets') = MaxMediaPackets]_vars

\* Wrong bytes can only come out after a FEC packet was linked to a packet that
\* had been received, and forgotten, before.
CorruptOnlyIfLate == corrupt # {} => late

\* What AttemptRecovery says of the FEC packets the search selected, "Now these
\* fec_packets can be decoded!", and of a failed decoding, "Can't recover using
\* this packet, drop them!": the receiver survives it.
NoCrash == pc # "crashed"

\* The loop `while (true)` of DecodeRSFec ends: every call returns or dies.
HandlerTerminates == pc = "attempt" ~> pc \in {"idle", "crashed"}

===============================================================================
