------------------------- MODULE PacketWindow_proofs -------------------------
(***************************************************************************)
(* Facts about the list of media packets that the proofs of the two        *)
(* generators share: what keeps its numbers ascending within the mask.     *)
(***************************************************************************)
EXTENDS PacketWindow, SequenceTheorems, WellFoundedInduction, TLAPS

\* The numbers of w ascend, wrap included, up to the last number s that was
\* added, and none is further from s than the mask reaches.
Ordered(w, s) ==
  \A i \in 1 .. Len(w) :
    /\ w[i].seq \in Seq16
    /\ ForwardDiff(w[i].seq, s) >= Len(w) - i
    /\ ForwardDiff(w[i].seq, s) < MaxSeqNumDiff
    /\ \A j \in i + 1 .. Len(w) : ForwardDiff(w[j].seq, s) < ForwardDiff(w[i].seq, s)

-------------------------------------------------------------------------------
(* Sequence numbers                                                        *)

\* Distances are natural numbers below the width.
LEMMA DistanceType ==
  ASSUME NEW a \in Seq16, NEW b \in Seq16
  PROVE  ForwardDiff(a, b) \in Nat /\ ForwardDiff(a, b) < SeqMod
  BY SeqModAssumption DEF Seq16, ForwardDiff

\* Distances add up as long as the sum does not wrap.
LEMMA DistanceAdds ==
  ASSUME NEW a \in Seq16, NEW b \in Seq16, NEW c \in Seq16,
         ForwardDiff(a, b) + ForwardDiff(b, c) < SeqMod
  PROVE  ForwardDiff(a, c) = ForwardDiff(a, b) + ForwardDiff(b, c)
  BY SeqModAssumption DEF Seq16, ForwardDiff

\* Of two numbers behind s, the further one precedes the nearer one by the
\* difference of their distances.
LEMMA DistanceBetween ==
  ASSUME NEW a \in Seq16, NEW b \in Seq16, NEW s \in Seq16,
         ForwardDiff(b, s) < ForwardDiff(a, s)
  PROVE  ForwardDiff(a, b) = ForwardDiff(a, s) - ForwardDiff(b, s)
  BY SeqModAssumption DEF Seq16, ForwardDiff

\* Within half the range, MinDiff is the distance to what is behind.
LEMMA MinDiffBehind ==
  ASSUME NEW a \in Seq16, NEW s \in Seq16, 2 * ForwardDiff(a, s) <= SeqMod
  PROVE  MinDiff(s, a) = ForwardDiff(a, s)
  BY SeqModAssumption DEF Seq16, ForwardDiff, MinDiff

\* A number is at no distance from itself.
LEMMA NoDistance ==
  ASSUME NEW s \in Seq16
  PROVE  ForwardDiff(s, s) = 0 /\ MinDiff(s, s) = 0
  BY DEF Seq16, ForwardDiff, MinDiff

\* The packet sent `gap` numbers later is `gap` ahead.
LEMMA NextSeqAhead ==
  ASSUME NEW s \in Seq16, NEW gap \in Nat, gap < SeqMod
  PROVE  NextSeq(s, gap) \in Seq16 /\ ForwardDiff(s, NextSeq(s, gap)) = gap
<1>1. s + gap < SeqMod => NextSeq(s, gap) = s + gap
  BY SeqModAssumption DEF Seq16, NextSeq
<1>2. s + gap >= SeqMod => NextSeq(s, gap) = s + gap - SeqMod
  BY SeqModAssumption DEF Seq16, NextSeq
<1> QED
  BY <1>1, <1>2, SeqModAssumption DEF Seq16, ForwardDiff

-------------------------------------------------------------------------------
(* The list                                                                *)

\* The erase loop stops within the list when its last packet is near enough,
\* and everything before the place where it stops was too far.
LEMMA FirstNearExists ==
  ASSUME NEW w, NEW s, Len(w) \in Nat, Len(w) > 0, Near(w, s, Len(w))
  PROVE  /\ FirstNear(w, s) \in 1 .. Len(w)
         /\ Near(w, s, FirstNear(w, s))
<1> DEFINE T == {i \in 1 .. Len(w) : Near(w, s, i)}
<1>1. T \subseteq Nat /\ T # {}
  BY DEF T
<1>2. \E x \in T : \A y \in T : ~(<<y, x>> \in OpToRel(<, Nat))
  <2> HIDE DEF T
  <2> QED
    BY <1>1, WFMin, NatLessThanWellFounded
<1>3. PICK x \in T : \A y \in T : ~(y < x)
  BY <1>1, <1>2 DEF OpToRel
<1>4. x \in 1 .. Len(w) /\ Near(w, s, x) /\ \A j \in 1 .. x - 1 : ~Near(w, s, j)
  BY <1>3
<1> HIDE DEF T
<1> QED
  BY <1>4 DEF FirstNear

\* An ordered list is one the encoder accepts.
LEMMA OrderedProtectable ==
  ASSUME NEW w, NEW s \in Seq16, Len(w) \in Nat, Len(w) > 0, Ordered(w, s)
  PROVE  Protectable(w)
<1> USE MaskLengthAssumption
<1> DEFINE d(i) == ForwardDiff(w[i].seq, s)
<1>1. \A i \in 1 .. Len(w) : w[i].seq \in Seq16 /\ d(i) \in Nat
  BY DistanceType DEF Ordered
<1>2. \A i \in 1 .. Len(w) : d(i) <= d(1) /\ d(i) < MaxSeqNumDiff
  BY <1>1 DEF Ordered
<1>3. Len(w) <= MaskLength
  BY <1>1 DEF Ordered
<1>4. ASSUME NEW i \in 1 .. Len(w) PROVE MaskOf(w)[i] = d(1) - d(i)
  <2>1. CASE i = 1
    BY <1>1, <2>1, NoDistance DEF MaskOf
  <2>2. CASE i # 1
    <3>1. 1 \in 1 .. Len(w) /\ i \in 1 + 1 .. Len(w)
      BY <2>2
    <3>2. d(i) < d(1)
      BY <3>1 DEF Ordered
    <3>3. ForwardDiff(w[1].seq, w[i].seq) = d(1) - d(i)
      BY <1>1, <3>1, <3>2, DistanceBetween
    <3> QED BY <3>3 DEF MaskOf
  <2> QED BY <2>1, <2>2
<1>5. \A i \in 1 .. Len(w) : MaskOf(w)[i] < MaskLength
  <2> HIDE DEF d
  <2> QED BY <1>1, <1>2, <1>4
<1>6. ASSUME NEW i \in 1 .. Len(w) - 1
      PROVE  MaskOf(w)[i + 1] = MaskOf(w)[i] + ForwardDiff(w[i].seq, w[i + 1].seq)
  <2>1. d(i + 1) < d(i)
    BY DEF Ordered
  <2>2. ForwardDiff(w[i].seq, w[i + 1].seq) = d(i) - d(i + 1)
    BY <1>1, <2>1, DistanceBetween
  <2>3. /\ d(1) \in Nat /\ d(i) \in Nat /\ d(i + 1) \in Nat
        /\ MaskOf(w)[i] = d(1) - d(i) /\ MaskOf(w)[i + 1] = d(1) - d(i + 1)
    <3> HIDE DEF d
    <3> QED BY <1>1, <1>4
  <2> HIDE DEF d
  <2> QED BY <2>2, <2>3
<1> QED
  BY <1>3, <1>5, <1>6 DEF Protectable

\* A packet that is sent after the newest, within half the range of everything
\* in the list, may be added: after the erase loop the list ends in it and is
\* ordered up to its number.
LEMMA AppendOrdered ==
  ASSUME NEW E, NEW w \in Seq(E), NEW p \in E, NEW last \in Seq16,
         NEW gap \in Nat \ {0}, 2 * (gap + MaxSeqNumDiff) <= SeqMod,
         p.seq \in Seq16, ForwardDiff(last, p.seq) = gap,
         Ordered(w, last)
  PROVE  LET full == Append(w, p)
             k    == FirstNear(full, p.seq)
         IN  /\ k \in 1 .. Len(w) + 1
             /\ EraseFar(full, p.seq) \in Seq(E)
             /\ Len(EraseFar(full, p.seq)) = Len(w) + 2 - k
             /\ \A i \in 1 .. Len(w) + 2 - k : EraseFar(full, p.seq)[i] = full[k + i - 1]
             /\ Ordered(EraseFar(full, p.seq), p.seq)
<1> USE MaskLengthAssumption
<1> DEFINE n == Len(w)
           full == Append(w, p)
           s == p.seq
           k == FirstNear(full, s)
           r == EraseFar(full, s)
           d(i) == ForwardDiff(full[i].seq, s)
<1>1. /\ n \in Nat /\ full \in Seq(E) /\ Len(full) = n + 1
      /\ full[n + 1] = p /\ \A i \in 1 .. n : full[i] = w[i]
  BY LenProperties
<1> HIDE DEF full, n
<1>2. \A i \in 1 .. n : /\ full[i].seq \in Seq16
                        /\ d(i) = ForwardDiff(w[i].seq, last) + gap
                        /\ d(i) \in Nat
  <2> SUFFICES ASSUME NEW i \in 1 .. n
               PROVE  /\ full[i].seq \in Seq16
                      /\ d(i) = ForwardDiff(w[i].seq, last) + gap
                      /\ d(i) \in Nat
    OBVIOUS
  <2>1. w[i].seq \in Seq16 /\ ForwardDiff(w[i].seq, last) < MaxSeqNumDiff
    BY DEF Ordered, n
  <2>2. ForwardDiff(w[i].seq, last) \in Nat
    BY <2>1, DistanceType
  <2>3. ForwardDiff(w[i].seq, last) + ForwardDiff(last, s) < SeqMod
    BY <2>1, <2>2, SeqModAssumption
  <2>4. ForwardDiff(w[i].seq, s) = ForwardDiff(w[i].seq, last) + gap
    BY <2>1, <2>3, DistanceAdds
  <2> QED BY <1>1, <2>1, <2>2, <2>4
<1>3. full[n + 1].seq \in Seq16 /\ d(n + 1) = 0
  BY <1>1, NoDistance
<1>4. \A i \in 1 .. n + 1 :
        /\ full[i].seq \in Seq16 /\ d(i) \in Nat
        /\ d(i) >= n + 1 - i
        /\ Near(full, s, i) <=> d(i) < MaxSeqNumDiff
        /\ \A j \in i + 1 .. n + 1 : d(j) < d(i)
  <2> SUFFICES ASSUME NEW i \in 1 .. n + 1
               PROVE  /\ full[i].seq \in Seq16 /\ d(i) \in Nat
                      /\ d(i) >= n + 1 - i
                      /\ Near(full, s, i) <=> d(i) < MaxSeqNumDiff
                      /\ \A j \in i + 1 .. n + 1 : d(j) < d(i)
    OBVIOUS
  <2>1. full[i].seq \in Seq16 /\ d(i) \in Nat
    BY <1>1, <1>2, <1>3
  <2>2. i \in 1 .. n =>
          /\ w[i].seq \in Seq16
          /\ ForwardDiff(w[i].seq, last) \in Nat
          /\ ForwardDiff(w[i].seq, last) >= n - i
          /\ ForwardDiff(w[i].seq, last) < MaxSeqNumDiff
          /\ \A j \in i + 1 .. n : ForwardDiff(w[j].seq, last) < ForwardDiff(w[i].seq, last)
    BY DistanceType DEF Ordered, n
  <2>3. d(i) >= n + 1 - i
    <3> HIDE DEF d
    <3> QED BY <1>1, <1>2, <1>3, <2>1, <2>2
  <2>4. 2 * d(i) <= SeqMod
    <3>1. CASE i = n + 1
      BY <1>3, <3>1, SeqModAssumption
    <3>2. CASE i # n + 1
      <4>1. i \in 1 .. n
        BY <1>1, <3>2
      <4>2. d(i) < MaxSeqNumDiff + gap
        BY <1>2, <2>2, <4>1
      <4> HIDE DEF d
      <4> QED BY <2>1, <4>2, SeqModAssumption
    <3> QED BY <3>1, <3>2
  <2>5. Near(full, s, i) <=> d(i) < MaxSeqNumDiff
    BY <2>1, <2>4, MinDiffBehind DEF Near
  <2>6. ASSUME NEW j \in i + 1 .. n + 1
        PROVE  d(j) < d(i)
    <3>1. i \in 1 .. n
      BY <1>1
    <3>2. CASE j = n + 1
      <4> HIDE DEF d
      <4> QED BY <1>1, <1>2, <1>3, <2>2, <3>1, <3>2
    <3>3. CASE j # n + 1
      <4>1. j \in i + 1 .. n /\ j \in 1 .. n
        BY <1>1, <3>3
      <4>2. ForwardDiff(w[j].seq, last) \in Nat
        BY <4>1, DistanceType DEF Ordered, n
      <4> HIDE DEF d
      <4> QED BY <1>1, <1>2, <2>2, <3>1, <4>1, <4>2
    <3> QED BY <3>2, <3>3
  <2> QED BY <2>1, <2>3, <2>5, <2>6
<1>5. k \in 1 .. n + 1 /\ Near(full, s, k)
  <2>1. Near(full, s, n + 1)
    BY <1>1, <1>3, NoDistance DEF Near
  <2> QED
    BY <1>1, <2>1, FirstNearExists
<1> HIDE DEF k
<1>6. /\ r \in Seq(E) /\ Len(r) = n + 2 - k
      /\ \A i \in 1 .. n + 2 - k : r[i] = full[k + i - 1]
  <2>1. \A i \in k .. n + 1 : full[i] \in E
    BY <1>1, <1>5, LenProperties
  <2>2. r = SubSeq(full, k, n + 1)
    BY <1>1 DEF EraseFar, k
  <2> QED
    BY <1>1, <1>5, <2>1, <2>2, SubSeqProperties
<1> HIDE DEF r
<1>7. Ordered(r, s)
  <2> SUFFICES ASSUME NEW i \in 1 .. Len(r)
               PROVE  /\ r[i].seq \in Seq16
                      /\ ForwardDiff(r[i].seq, s) >= Len(r) - i
                      /\ ForwardDiff(r[i].seq, s) < MaxSeqNumDiff
                      /\ \A j \in i + 1 .. Len(r) :
                           ForwardDiff(r[j].seq, s) < ForwardDiff(r[i].seq, s)
    BY DEF Ordered
  <2> DEFINE m == k + i - 1
  <2>1. m \in k .. n + 1 /\ m \in 1 .. n + 1 /\ r[i] = full[m]
    <3>1. i \in 1 .. n + 2 - k
      BY <1>6
    <3>2. r[i] = full[k + i - 1]
      BY <1>6, <3>1
    <3>3. k \in Nat /\ n \in Nat /\ k >= 1 /\ i \in Nat
      BY <1>1, <1>5, <3>1
    <3>4. m \in k .. n + 1 /\ m \in 1 .. n + 1
      <4> HIDE DEF n, full
      <4> QED BY <3>1, <3>3
    <3> QED BY <3>2, <3>4
  <2>2. ForwardDiff(r[i].seq, s) = d(m)
    BY <2>1
  <2>3. d(m) <= d(k) /\ d(k) < MaxSeqNumDiff
    <3>1. d(k) < MaxSeqNumDiff /\ d(k) \in Nat
      <4> HIDE DEF d
      <4> QED BY <1>4, <1>5
    <3>2. m = k \/ m \in k + 1 .. n + 1
      <4>1. k \in Nat /\ n \in Nat
        BY <1>1, <1>5
      <4> HIDE DEF m, n
      <4> QED BY <2>1, <4>1
    <3>3. m \in k + 1 .. n + 1 => d(m) < d(k)
      <4> HIDE DEF d, m, n
      <4> QED BY <1>4, <1>5
    <3>4. d(m) \in Nat
      <4> HIDE DEF d, m, n
      <4> QED BY <1>4, <2>1
    <3> HIDE DEF d, m, n
    <3> QED BY <3>1, <3>2, <3>3, <3>4
  <2>4. d(m) >= Len(r) - i
    <3> HIDE DEF d
    <3> QED BY <1>1, <1>4, <1>5, <1>6, <2>1
  <2>5. ASSUME NEW j \in i + 1 .. Len(r)
        PROVE  ForwardDiff(r[j].seq, s) < ForwardDiff(r[i].seq, s)
    <3>1. k + j - 1 \in m + 1 .. n + 1 /\ r[j] = full[k + j - 1]
      BY <1>1, <1>5, <1>6
    <3>2. d(k + j - 1) < d(m)
      <4> HIDE DEF d, m
      <4> QED BY <1>4, <2>1, <3>1
    <3> QED BY <2>1, <3>1, <3>2
  <2>6. d(m) \in Nat /\ d(k) \in Nat /\ r[i].seq \in Seq16
    BY <1>4, <1>5, <2>1
  <2> HIDE DEF d, m
  <2> QED BY <2>2, <2>3, <2>4, <2>5, <2>6
<1> QED
  BY <1>5, <1>6, <1>7 DEF k, r, full, n

\* Dropping the oldest packet keeps the order.
LEMMA TailOrdered ==
  ASSUME NEW E, NEW w \in Seq(E), NEW s, w # <<>>, Ordered(w, s)
  PROVE  /\ Ordered(Tail(w), s) /\ Tail(w) \in Seq(E)
         /\ Len(w) \in Nat \ {0} /\ Len(Tail(w)) = Len(w) - 1
         /\ \A i \in 1 .. Len(w) - 1 : Tail(w)[i] = w[i + 1]
<1>1. /\ Len(w) \in Nat \ {0} /\ Len(Tail(w)) = Len(w) - 1 /\ Tail(w) \in Seq(E)
      /\ \A i \in 1 .. Len(Tail(w)) : Tail(w)[i] = w[i + 1]
  BY HeadTailProperties, EmptySeq
<1> DEFINE t == Tail(w)
<1>2. Ordered(t, s)
  <2> HIDE DEF t
  <2> SUFFICES ASSUME NEW i \in 1 .. Len(t)
               PROVE  /\ t[i].seq \in Seq16
                      /\ ForwardDiff(t[i].seq, s) >= Len(t) - i
                      /\ ForwardDiff(t[i].seq, s) < MaxSeqNumDiff
                      /\ \A j \in i + 1 .. Len(t) :
                           ForwardDiff(t[j].seq, s) < ForwardDiff(t[i].seq, s)
    BY DEF Ordered
  <2>1. i + 1 \in 1 .. Len(w) /\ t[i] = w[i + 1] /\ Len(t) - i = Len(w) - (i + 1)
    BY <1>1 DEF t
  <2>2. \A j \in i + 1 .. Len(t) : j + 1 \in (i + 1) + 1 .. Len(w) /\ t[j] = w[j + 1]
    BY <1>1 DEF t
  <2> QED
    BY <2>1, <2>2 DEF Ordered
<1> QED
  BY <1>1, <1>2

\* An ordered list stays ordered when only what its packets carry changes.
LEMMA SameNumbersOrdered ==
  ASSUME NEW v, NEW w, NEW s, Ordered(w, s), Len(v) = Len(w),
         \A i \in 1 .. Len(w) : v[i].seq = w[i].seq
  PROVE  Ordered(v, s)
  BY DEF Ordered

===============================================================================
