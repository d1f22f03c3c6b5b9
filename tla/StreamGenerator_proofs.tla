------------------------ MODULE StreamGenerator_proofs ------------------------
(***************************************************************************)
(* The sliding-window generator, for every width of sequence numbers,      *)
(* every set of values the parameters may be given and at any moment, any  *)
(* gaps in the stream and any contents of the uninitialised counters.      *)
(***************************************************************************)
EXTENDS StreamGenerator, PacketWindow_proofs

-------------------------------------------------------------------------------
(* The inductive invariant, in three parts                                 *)

\* The packet being added comes after everything in the window.
Ahead ==
  pc \in {"trim", "insert"} => ForwardDiff(last_seq, packet.seq) \in 1 .. MaxGap

WindowInv == TypeOK /\ Ordered(media_packets, last_seq) /\ Ahead

\* The counter of new packets, and the room the undisturbed window has at each
\* point of a call: it never outgrows L, the next packet fits when its turn
\* comes, and between calls fewer packets wait for FEC than L allows, so that
\* what is popped is covered.
CounterInv ==
  /\ CoveredPrefix
  /\ counted => num_media_packets_insert >= 0
  /\ ~disturbed => counted
  /\ Len(media_packets) > 0 => L > 0
  /\ ~disturbed => Len(media_packets) <= L
  /\ ~disturbed /\ pc \in {"fetch", "idle", "trim"} /\ Len(media_packets) > 0 =>
       num_media_packets_insert < L
  /\ ~disturbed /\ pc = "insert" /\ L > 0 => Len(media_packets) < L
  /\ ExposedOnlyIfDisturbed

\* There is a last media packet whenever there is a window, and a window at
\* the end of every call that has once had one.
ContractInv ==
  /\ last_media_packet => L > 0
  /\ media_packets # <<>> => last_media_packet
  /\ pc \in {"decide", "encode"} /\ last_media_packet => media_packets # <<>>
  /\ pc = "encode" /\ type \in IntervalTypes => media_packets # <<>>
  /\ generated > 0 => pc = "fetch" /\ last_media_packet /\ media_packets # <<>>

-------------------------------------------------------------------------------
(* The window                                                              *)

\* What the types of the constants give
LEMMA ConstantTypes ==
  /\ Lengths \cup {0} \subseteq Nat /\ Intervals \cup {0} \subseteq Nat
  /\ Numbers \cup {0} \subseteq Nat /\ 0 \in Seq16
  BY ParamsAssumption, SeqModAssumption DEF Seq16

\* Covering the window changes neither its length nor its numbers.
LEMMA AllCoveredFacts ==
  ASSUME NEW w \in Seq(Entry)
  PROVE  /\ AllCovered(w) \in Seq(Entry)
         /\ Len(AllCovered(w)) = Len(w)
         /\ \A i \in 1 .. Len(w) : AllCovered(w)[i].seq = w[i].seq /\ AllCovered(w)[i].covered
<1>1. Len(w) \in Nat /\ \A i \in 1 .. Len(w) : w[i] \in Entry
  BY LenProperties
<1>2. \A i \in 1 .. Len(w) : [seq |-> w[i].seq, covered |-> TRUE] \in Entry
  BY <1>1 DEF Entry
<1>3. AllCovered(w) \in [1 .. Len(w) -> Entry]
  BY <1>2 DEF AllCovered
<1>4. AllCovered(w) \in Seq(Entry)
  BY <1>1, <1>3, SeqDef
<1>5. Len(AllCovered(w)) = Len(w)
  BY <1>1, <1>3, <1>4, LenProperties
<1> QED
  BY <1>4, <1>5 DEF AllCovered

\* What Insert makes of the window
LEMMA InsertedWindow ==
  ASSUME WindowInv, Insert
  PROVE  LET full == Append(media_packets, [seq |-> packet.seq, covered |-> FALSE])
             k    == FirstNear(full, packet.seq)
             n    == Len(media_packets)
         IN  /\ k \in 1 .. n + 1 /\ n \in Nat
             /\ media_packets' \in Seq(Entry)
             /\ Len(media_packets') = n + 2 - k
             /\ \A i \in 1 .. n + 2 - k : media_packets'[i] = full[k + i - 1]
             /\ \A i \in 1 .. n : full[i] = media_packets[i]
             /\ Len(full) = n + 1
             /\ Ordered(media_packets', packet.seq)
<1> DEFINE p == [seq |-> packet.seq, covered |-> FALSE]
<1>1. /\ media_packets \in Seq(Entry) /\ last_seq \in Seq16 /\ packet.seq \in Seq16
      /\ Ordered(media_packets, last_seq)
  BY DEF WindowInv, TypeOK
<1>2. p \in Entry /\ p.seq = packet.seq
  BY <1>1 DEF Entry
<1>3. PICK gap \in 1 .. MaxGap : ForwardDiff(last_seq, p.seq) = gap
  BY <1>2 DEF WindowInv, Ahead, Insert
<1>4. gap \in Nat \ {0} /\ 2 * (gap + MaxSeqNumDiff) <= SeqMod
  BY GapAssumption, MaskLengthAssumption, SeqModAssumption
<1>5. media_packets' = EraseFar(Append(media_packets, p), p.seq)
  BY <1>2 DEF Insert
<1>6. /\ Len(media_packets) \in Nat
      /\ Len(Append(media_packets, p)) = Len(media_packets) + 1
      /\ \A i \in 1 .. Len(media_packets) : Append(media_packets, p)[i] = media_packets[i]
  BY <1>1, LenProperties
<1> HIDE DEF p
<1>7. LET full == Append(media_packets, p)
          k    == FirstNear(full, p.seq)
      IN  /\ k \in 1 .. Len(media_packets) + 1
          /\ media_packets' \in Seq(Entry)
          /\ Len(media_packets') = Len(media_packets) + 2 - k
          /\ \A i \in 1 .. Len(media_packets) + 2 - k : media_packets'[i] = full[k + i - 1]
          /\ Ordered(media_packets', p.seq)
  <2>1. p.seq \in Seq16 /\ ForwardDiff(last_seq, p.seq) = gap
    BY <1>1, <1>2, <1>3
  <2> QED
    BY <1>1, <1>2, <1>4, <1>5, <2>1, AppendOrdered, SMTT(30)
<1> QED
  BY <1>2, <1>6, <1>7 DEF p

\* The window is empty and nothing waits at the start.
LEMMA WindowInit == Init => WindowInv
<1> SUFFICES ASSUME Init PROVE WindowInv
  OBVIOUS
<1>1. /\ last_media_packet \in BOOLEAN /\ exposed \in BOOLEAN
      /\ disturbed \in BOOLEAN /\ counted \in BOOLEAN
  <2>1. disturbed \in BOOLEAN
    BY SMT DEF Init
  <2>2. counted \in BOOLEAN /\ last_media_packet \in BOOLEAN /\ exposed \in BOOLEAN
    BY Zenon DEF Init
  <2> QED BY <2>1, <2>2
<1>2. packet \in [seq : Seq16, marker : BOOLEAN] /\ last_seq \in Seq16
  BY ConstantTypes DEF Init, NoPacket
<1>3. /\ ParamsInit /\ media_packets = <<>> /\ generated = 0 /\ pc = "idle"
      /\ num_media_packets_insert \in InsertInit /\ left_rate \in LeftInit
      /\ type \in Types
  BY Zenon DEF Init
<1>4. TypeOK
  BY <1>1, <1>2, <1>3, GeneratorAssumption DEF TypeOK, ParamsInit, ParamsTypeOK
<1>5. Ordered(media_packets, last_seq) /\ Ahead
  BY <1>3 DEF Ordered, Ahead
<1> QED
  BY <1>4, <1>5 DEF WindowInv

\* Every step keeps the window in order.
LEMMA WindowStep ==
  ASSUME WindowInv, [Next]_vars
  PROVE  WindowInv'
<1> USE DEF WindowInv
<1>1. CASE \E gap \in 1 .. MaxGap, marker \in BOOLEAN : AddPacket(gap, marker)
  <2>1. PICK gap \in 1 .. MaxGap, marker \in BOOLEAN : AddPacket(gap, marker)
    BY <1>1
  <2>2. gap \in Nat /\ gap < SeqMod
    BY GapAssumption, MaskLengthAssumption, SeqModAssumption
  <2>3. packet' = [seq |-> NextSeq(last_seq, gap), marker |-> marker]
    BY <2>1 DEF AddPacket
  <2>4. packet'.seq \in Seq16 /\ ForwardDiff(last_seq, packet'.seq) = gap
    BY <2>2, <2>3, NextSeqAhead DEF TypeOK
  <2>5. packet' \in [seq : Seq16, marker : BOOLEAN]
    BY <2>3, <2>4
  <2>6. TypeOK'
    BY <2>1, <2>5 DEF AddPacket, TypeOK, window, history, params, ParamsTypeOK
  <2>7. Ordered(media_packets, last_seq)' /\ Ahead'
    BY <2>1, <2>4 DEF AddPacket, Ahead, window, history, Ordered
  <2> QED BY <2>6, <2>7
<1>2. CASE PopFront
  <2>1. media_packets # <<>>
    BY <1>2 DEF PopFront, TooLong
  <2>2. media_packets' \in Seq(Entry) /\ Ordered(Tail(media_packets), last_seq)
    BY <1>2, <2>1, TailOrdered DEF PopFront, TypeOK
  <2>3. exposed' \in BOOLEAN
    BY <1>2, Zenon DEF PopFront
  <2>4. TypeOK'
    BY <1>2, <2>2, <2>3 DEF PopFront, TypeOK, params, ParamsTypeOK
  <2> QED
    BY <1>2, <2>2, <2>4 DEF PopFront, Ahead
<1>3. CASE Trimmed
  BY <1>3 DEF Trimmed, TypeOK, Ahead, params, ParamsTypeOK, window, history
<1>4. CASE Insert
  <2>1. media_packets' \in Seq(Entry) /\ Ordered(media_packets', packet.seq)
    BY <1>4, InsertedWindow
  <2>2. exposed' \in BOOLEAN /\ disturbed' \in BOOLEAN /\ last_media_packet' \in BOOLEAN
    BY <1>4, Zenon DEF Insert
  <2>3. /\ num_media_packets_insert' = num_media_packets_insert + 1
        /\ last_seq' = packet.seq /\ pc' = "decide"
        /\ UNCHANGED <<params, type, left_rate, generated, packet, counted>>
    BY <1>4, Zenon DEF Insert, Count
  <2>4. TypeOK'
    BY <2>1, <2>2, <2>3 DEF TypeOK, params, ParamsTypeOK
  <2> QED
    BY <2>1, <2>3, <2>4 DEF Ahead
<1>5. CASE Refuse
  <2>1. exposed' \in BOOLEAN
    BY <1>5, Zenon DEF Refuse
  <2> QED
    BY <1>5, <2>1 DEF Refuse, TypeOK, Ahead, params, ParamsTypeOK, window
<1>6. CASE Decide
  <2>1. disturbed' \in BOOLEAN
    BY <1>6, Zenon DEF Decide
  <2>2. packet' \in [seq : Seq16, marker : BOOLEAN]
    BY <1>6, ConstantTypes DEF Decide, NoPacket
  <2> QED
    BY <1>6, <2>1, <2>2 DEF Decide, TypeOK, Ahead, params, ParamsTypeOK, window
<1>7. CASE Encode
  <2>1. NumFecPackets \in Nat
    BY ConstantTypes, GeneratorAssumption DEF TypeOK, ParamsTypeOK, NumFecPackets
  <2>2. /\ media_packets' \in Seq(Entry)
        /\ Ordered(media_packets', last_seq)
    BY <1>7, AllCoveredFacts, SameNumbersOrdered DEF Encode, TypeOK
  <2>3. counted' \in BOOLEAN
    BY <1>7, Zenon DEF Encode
  <2>4. left_rate' \in Int
    <3>1. FecRate * num_media_packets_insert \in Int /\ GenerateFecNum * One \in Int
      BY GeneratorAssumption DEF TypeOK
    <3> QED
      BY <1>7, <3>1, GeneratorAssumption DEF Encode, TypeOK, Cap
  <2>5. /\ generated' = NumFecPackets /\ num_media_packets_insert' = 0 /\ pc' = "fetch"
        /\ UNCHANGED <<params, type, last_media_packet, packet, last_seq, exposed, disturbed>>
    BY <1>7, Zenon DEF Encode
  <2> QED
    BY <2>1, <2>2, <2>3, <2>4, <2>5 DEF TypeOK, Ahead, params, ParamsTypeOK
<1>8. CASE EncodeFails
  <2>1. /\ exposed' \in BOOLEAN /\ disturbed' \in BOOLEAN /\ counted' \in BOOLEAN
        /\ last_media_packet' \in BOOLEAN
    BY <1>8, Zenon DEF EncodeFails, ResetState
  <2>2. /\ media_packets' = <<>> /\ generated' = 0 /\ num_media_packets_insert' = 0
        /\ pc' = "fetch" /\ UNCHANGED <<params, type, packet, last_seq, left_rate>>
    BY <1>8, Zenon DEF EncodeFails, ResetState
  <2> QED
    BY <2>1, <2>2 DEF TypeOK, Ahead, params, ParamsTypeOK, Ordered
<1>9. CASE EncodeEmpty
  BY <1>9 DEF EncodeEmpty, TypeOK, Ahead, params, ParamsTypeOK, window, history
<1>10. CASE GetFecPackets
  <2>1. pc' \in {"crashed", "idle"} /\ generated' = 0
    BY <1>10 DEF GetFecPackets
  <2> QED
    BY <1>10, <2>1 DEF GetFecPackets, TypeOK, Ahead, params, ParamsTypeOK, window, history
<1>11. CASE ParamStep
  <2>1. disturbed' \in BOOLEAN
    BY <1>11, Zenon DEF ParamStep
  <2>2. ParamsTypeOK'
    BY <1>11 DEF ParamStep, ParamsNext, WriteL, WriteI, WriteM, TypeOK, ParamsTypeOK
  <2> QED
    BY <1>11, <2>1, <2>2 DEF ParamStep, TypeOK, Ahead, window
<1>12. CASE UNCHANGED vars
  BY <1>12 DEF vars, TypeOK, Ahead, params, ParamsTypeOK, window, history
<1> QED
  BY <1>1, <1>2, <1>3, <1>4, <1>5, <1>6, <1>7, <1>8, <1>9, <1>10, <1>11, <1>12
     DEF Next, SenderStep

\* A window in order is one the encoder accepts.
LEMMA WindowFits == WindowInv => MaskFits
  BY OrderedProtectable, LenProperties, EmptySeq DEF WindowInv, TypeOK, MaskFits

\* Whatever the gaps of the stream and the changes of L, the list handed to
\* EncodeRSFec ascends and spans less than the mask, so the branch that throws
\* the window away for spanning too much is dead.
THEOREM MaskAlwaysFits == Spec => []MaskFits
  BY WindowFits, WindowInit, WindowStep, PTL DEF Spec

-------------------------------------------------------------------------------
(* The counter and what leaves the window                                  *)

\* No packet waits at the start, and only a negative counter disturbs.
LEMMA CounterInit == Init => CounterInv
<1> SUFFICES ASSUME Init PROVE CounterInv
  OBVIOUS
<1>1. media_packets = <<>> /\ L = 0 /\ exposed = FALSE /\ (~disturbed => counted)
  BY Zenon DEF Init, ParamsInit
<1>2. num_media_packets_insert \in Int /\ (disturbed <=> num_media_packets_insert < 0)
  BY GeneratorAssumption DEF Init
<1>3. counted => ~disturbed
  BY Zenon DEF Init
<1> QED
  BY <1>1, <1>2, <1>3 DEF CounterInv, CoveredPrefix, ExposedOnlyIfDisturbed

\* A new packet is counted, so that what was covered stays among the counted.
LEMMA InsertCounter ==
  ASSUME WindowInv, CounterInv, Insert
  PROVE  CounterInv'
<1> DEFINE full == Append(media_packets, [seq |-> packet.seq, covered |-> FALSE])
           k == FirstNear(full, packet.seq)
           n == Len(media_packets)
<1>1. /\ k \in 1 .. n + 1 /\ n \in Nat /\ Len(full) = n + 1
      /\ Len(media_packets') = n + 2 - k
      /\ \A i \in 1 .. n + 2 - k : media_packets'[i] = full[k + i - 1]
      /\ \A i \in 1 .. n : full[i] = media_packets[i]
  BY InsertedWindow
<1>2. /\ n < L /\ num_media_packets_insert' = num_media_packets_insert + 1
      /\ pc' = "decide" /\ L' = L /\ (counted' <=> counted)
      /\ disturbed' <=> disturbed \/ Len(media_packets') < Len(full)
      /\ exposed' <=> exposed \/ Uncovered(SubSeq(full, 1, k - 1))
  BY DEF Insert, Count, params
<1>3. L \in Nat /\ num_media_packets_insert \in Int
  BY ConstantTypes DEF WindowInv, TypeOK, ParamsTypeOK
<1> HIDE DEF full, k
<1>4. CoveredPrefix'
  <2> SUFFICES ASSUME counted, NEW i \in 1 .. Len(media_packets'),
                      i <= Len(media_packets') - num_media_packets_insert'
               PROVE  media_packets'[i].covered
    BY <1>2 DEF CoveredPrefix
  <2>1. num_media_packets_insert >= 0
    BY DEF CounterInv
  <2>2. k + i - 1 \in 1 .. n /\ k + i - 1 <= n - num_media_packets_insert
    BY <1>1, <1>2, <1>3, <2>1
  <2>3. media_packets'[i] = media_packets[k + i - 1]
    BY <1>1, <2>2
  <2> QED
    BY <2>2, <2>3 DEF CounterInv, CoveredPrefix
<1>5. ~disturbed' => k = 1 /\ ~disturbed
  BY <1>1, <1>2
<1>6. ExposedOnlyIfDisturbed'
  <2>1. k = 1 => ~Uncovered(SubSeq(full, 1, k - 1))
    BY SubSeqEmpty DEF Uncovered
  <2> QED
    BY <1>2, <1>5, <2>1 DEF CounterInv, ExposedOnlyIfDisturbed
<1> QED
  BY <1>1, <1>2, <1>3, <1>4, <1>5, <1>6 DEF CounterInv

\* Every step keeps the counter and the history right.
LEMMA CounterStep ==
  ASSUME WindowInv, CounterInv, [Next]_vars
  PROVE  CounterInv'
<1> USE DEF CounterInv
<1>0. /\ L \in Nat /\ I \in Nat /\ num_media_packets_insert \in Int
      /\ media_packets \in Seq(Entry) /\ Len(media_packets) \in Nat
      /\ type \in RateTypes \cup IntervalTypes
  BY ConstantTypes, TypeAssumption, LenProperties DEF WindowInv, TypeOK, ParamsTypeOK
<1>1. CASE \E gap \in 1 .. MaxGap, marker \in BOOLEAN : AddPacket(gap, marker)
  BY <1>1 DEF AddPacket, CoveredPrefix, ExposedOnlyIfDisturbed, params, window, history
<1>2. CASE PopFront
  <2>1. media_packets # <<>> /\ Len(media_packets) > 0 /\ Len(media_packets) >= L
    BY <1>2 DEF PopFront, TooLong
  <2>2. /\ Len(Tail(media_packets)) = Len(media_packets) - 1
        /\ \A i \in 1 .. Len(media_packets) - 1 : Tail(media_packets)[i] = media_packets[i + 1]
    BY <1>0, <2>1, HeadTailProperties
  <2>3. /\ media_packets' = Tail(media_packets) /\ pc = "trim" /\ pc' = pc /\ L' = L
        /\ num_media_packets_insert' = num_media_packets_insert
        /\ (exposed' <=> exposed \/ ~Head(media_packets).covered)
        /\ (disturbed' <=> disturbed) /\ (counted' <=> counted)
    BY <1>2 DEF PopFront, params
  <2>4. CoveredPrefix'
    BY <1>0, <2>2, <2>3 DEF CoveredPrefix
  <2>5. ~disturbed => Head(media_packets).covered
    <3>1. ~disturbed => media_packets[1].covered
      BY <1>0, <2>1, <2>3 DEF CoveredPrefix
    <3>2. Head(media_packets) = media_packets[1]
      BY <1>0, <2>1
    <3> QED BY <3>1, <3>2
  <2>6. ExposedOnlyIfDisturbed'
    BY <2>3, <2>5 DEF ExposedOnlyIfDisturbed
  <2> QED
    BY <1>0, <2>1, <2>2, <2>3, <2>4, <2>6
<1>3. CASE Trimmed
  BY <1>0, <1>3
     DEF Trimmed, TooLong, CoveredPrefix, ExposedOnlyIfDisturbed, params, window, history
<1>4. CASE Insert
  BY <1>4, InsertCounter
<1>5. CASE Refuse
  <2>1. /\ pc = "insert" /\ Len(media_packets) >= L /\ pc' = "decide" /\ L' = L
        /\ (exposed' <=> exposed \/ L > 0)
        /\ (disturbed' <=> disturbed) /\ (counted' <=> counted)
        /\ media_packets' = media_packets
        /\ num_media_packets_insert' = num_media_packets_insert
    BY <1>5 DEF Refuse, params, window
  <2> QED
    BY <1>0, <2>1 DEF CoveredPrefix, ExposedOnlyIfDisturbed
<1>6. CASE Decide
  <2>1. /\ pc = "decide" /\ pc' = IF Generates THEN "encode" ELSE "fetch"
        /\ disturbed' <=> disturbed \/ (type \in IntervalTypes /\ I > L)
        /\ (exposed' <=> exposed) /\ (counted' <=> counted)
        /\ L' = L /\ media_packets' = media_packets
        /\ num_media_packets_insert' = num_media_packets_insert
    BY <1>6 DEF Decide, params, window
  <2>2. ~disturbed' /\ ~Generates /\ Len(media_packets) > 0 => num_media_packets_insert < L
    BY <1>0, <2>1 DEF Generates, AllNew
  <2> QED
    BY <2>1, <2>2 DEF CoveredPrefix, ExposedOnlyIfDisturbed
<1>7. CASE Encode
  <2>1. /\ media_packets' = AllCovered(media_packets) /\ num_media_packets_insert' = 0
        /\ counted' /\ (exposed' <=> exposed) /\ (disturbed' <=> disturbed)
        /\ pc' = "fetch" /\ L' = L
    BY <1>7 DEF Encode, params
  <2>2. /\ Len(media_packets') = Len(media_packets)
        /\ \A i \in 1 .. Len(media_packets) : media_packets'[i].covered
    BY <1>0, <2>1, AllCoveredFacts
  <2> QED
    BY <1>0, <2>1, <2>2 DEF CoveredPrefix, ExposedOnlyIfDisturbed
<1>8. CASE EncodeFails
  <2>1. /\ media_packets' = <<>> /\ num_media_packets_insert' = 0
        /\ counted' /\ disturbed' /\ pc' = "fetch" /\ L' = L
    BY <1>8 DEF EncodeFails, ResetState, params
  <2> QED
    BY <1>0, <2>1 DEF CoveredPrefix, ExposedOnlyIfDisturbed
<1>9. CASE EncodeEmpty
  BY <1>9 DEF EncodeEmpty, CoveredPrefix, ExposedOnlyIfDisturbed, params, window, history
<1>10. CASE GetFecPackets
  <2>1. pc = "fetch" /\ pc' \in {"crashed", "idle"}
    BY <1>10 DEF GetFecPackets
  <2> QED
    BY <1>10, <2>1
       DEF GetFecPackets, CoveredPrefix, ExposedOnlyIfDisturbed, params, window, history
<1>11. CASE ParamStep
  <2>1. L' = L \/ (L' \in Nat /\ L' > 0)
    BY <1>11, ParamsAssumption DEF ParamStep, ParamsNext, WriteL, WriteI, WriteM
  <2>2. /\ disturbed' <=> disturbed \/ L' < L
        /\ (exposed' <=> exposed) /\ (counted' <=> counted) /\ pc' = pc
        /\ media_packets' = media_packets
        /\ num_media_packets_insert' = num_media_packets_insert
    BY <1>11 DEF ParamStep, window
  <2> QED
    BY <1>0, <2>1, <2>2 DEF CoveredPrefix, ExposedOnlyIfDisturbed
<1>12. CASE UNCHANGED vars
  BY <1>12 DEF vars, CoveredPrefix, ExposedOnlyIfDisturbed, params, window, history
<1> QED
  BY <1>1, <1>2, <1>3, <1>4, <1>5, <1>6, <1>7, <1>8, <1>9, <1>10, <1>11, <1>12
     DEF Next, SenderStep

\* num_media_packets_insert_ never counts fewer packets than wait for FEC,
\* however the parameters change in mid-call.
THEOREM PrefixAlwaysCovered == Spec => []CoveredPrefix
<1>1. CounterInv => CoveredPrefix
  BY DEF CounterInv
<1> QED
  BY <1>1, WindowInit, WindowStep, CounterInit, CounterStep, PTL DEF Spec

\* A packet leaves the window unprotected only for one of the listed reasons.
THEOREM ExposureExcused == Spec => []ExposedOnlyIfDisturbed
<1>1. CounterInv => ExposedOnlyIfDisturbed
  BY DEF CounterInv
<1> QED
  BY <1>1, WindowInit, WindowStep, CounterInit, CounterStep, PTL DEF Spec

-------------------------------------------------------------------------------
(* What the encoder and GetFecPackets check                                *)

\* There is neither a packet nor a window at the start.
LEMMA ContractInit == Init => ContractInv
<1> SUFFICES ASSUME Init PROVE ContractInv
  OBVIOUS
<1>1. last_media_packet = FALSE /\ media_packets = <<>> /\ pc = "idle" /\ generated = 0
  BY Zenon DEF Init
<1> QED
  BY <1>1 DEF ContractInv

\* Every step keeps a media header for the FEC packets and a window to protect.
LEMMA ContractStep ==
  ASSUME WindowInv, ContractInv, [Next]_vars
  PROVE  ContractInv'
<1> USE DEF ContractInv
<1>0. /\ L \in Nat /\ media_packets \in Seq(Entry) /\ Len(media_packets) \in Nat
      /\ (media_packets # <<>> => Len(media_packets) > 0)
      /\ type \in RateTypes \cup IntervalTypes /\ generated \in Nat
  BY ConstantTypes, TypeAssumption, LenProperties, EmptySeq DEF WindowInv, TypeOK, ParamsTypeOK
<1>1. CASE \E gap \in 1 .. MaxGap, marker \in BOOLEAN : AddPacket(gap, marker)
  BY <1>1 DEF AddPacket, params, window
<1>2. CASE PopFront
  <2>1. media_packets # <<>>
    BY <1>2 DEF PopFront, TooLong
  <2> QED
    BY <1>2, <2>1 DEF PopFront, params
<1>3. CASE Trimmed
  BY <1>3 DEF Trimmed, params, window
<1>4. CASE Insert
  <2>1. Len(media_packets') > 0
    BY <1>4, InsertedWindow
  <2>2. /\ Len(media_packets) < L /\ last_media_packet' /\ L' = L
        /\ pc = "insert" /\ pc' = "decide" /\ generated' = generated
    BY <1>4 DEF Insert, params
  <2>3. media_packets' # <<>>
    BY <2>1
  <2> QED
    BY <1>0, <2>2, <2>3
<1>5. CASE Refuse
  BY <1>0, <1>5 DEF Refuse, params, window
<1>6. CASE Decide
  BY <1>0, <1>6 DEF Decide, Generates, RateTypes, IntervalTypes, params, window
<1>7. CASE Encode
  <2>1. /\ media_packets' = AllCovered(media_packets) /\ pc' = "fetch" /\ L' = L
        /\ (last_media_packet' <=> last_media_packet) /\ Protectable(media_packets)
    BY <1>7 DEF Encode, params
  <2>2. Len(media_packets') = Len(media_packets) /\ Len(media_packets) > 0
    BY <1>0, <2>1, AllCoveredFacts DEF Protectable
  <2>3. media_packets' # <<>> /\ media_packets # <<>>
    BY <2>2
  <2> QED
    BY <2>1, <2>3
<1>8. CASE EncodeFails
  <2>1. ~last_media_packet' /\ media_packets' = <<>> /\ generated' = 0 /\ pc' = "fetch"
    BY <1>8 DEF EncodeFails, ResetState
  <2> QED
    BY <2>1
<1>9. CASE EncodeEmpty
  BY <1>9 DEF EncodeEmpty, params, window
<1>10. CASE GetFecPackets
  <2>1. pc' \in {"crashed", "idle"} /\ generated' = 0
    BY <1>10 DEF GetFecPackets
  <2> QED
    BY <1>10, <2>1 DEF GetFecPackets, params, window
<1>11. CASE ParamStep
  <2>1. L' = L \/ L' > 0
    BY <1>11, ParamsAssumption DEF ParamStep, ParamsNext, WriteL, WriteI, WriteM
  <2> QED
    BY <1>11, <2>1 DEF ParamStep, window
<1>12. CASE UNCHANGED vars
  BY <1>12 DEF vars, params, window
<1> QED
  BY <1>1, <1>2, <1>3, <1>4, <1>5, <1>6, <1>7, <1>8, <1>9, <1>10, <1>11, <1>12
     DEF Next, SenderStep

\* The encoder is not handed an empty window once a packet is known, and
\* GetFecPackets never lacks a media header, although failed encodings clear it.
THEOREM ContractKept == Spec => []EncoderContract
<1>1. ContractInv => EncoderContract
  BY DEF ContractInv, EncoderContract
<1> QED
  BY <1>1, WindowInit, WindowStep, ContractInit, ContractStep, PTL DEF Spec

===============================================================================
