-------------------------- MODULE Signalling_proofs --------------------------
(***************************************************************************)
(* Two clients and the signalling server, for any number of restarts,      *)
(* ticks of the timer and candidates, and reads that merge any number of   *)
(* writes.                                                                 *)
(***************************************************************************)
EXTENDS Signalling, SequenceTheorems, FiniteSetTheorems, TLAPS

-------------------------------------------------------------------------------
(* The inductive invariant, in four parts                                  *)

\* m waits in the channel q, and waits at most once.
Has(q, m) == \E i \in 1 .. Len(q) : q[i] = m
Once(q, m) == \A i, j \in 1 .. Len(q) : q[i] = m /\ q[j] = m => i = j

\* An offer waits behind "/other_join".
OfferBehind(q) ==
  \E i, j \in 1 .. Len(q) : q[i] = "/other_join" /\ j > i /\ q[j] = "offer"

\* A description waits; one waits before every candidate.
Descriptions == {"offer", "answer"}
HasDescription(q) == Has(q, "offer") \/ Has(q, "answer")
CandidatesBehind(q) ==
  \A i \in 1 .. Len(q) :
    q[i] = "candidate" => \E j \in 1 .. i - 1 : q[j] \in Descriptions

\* What is left of a channel after a read of n writes
Left(q, n) == SubSeq(q, n + 1, Len(q))

\* A client that could still be told that another one has joined
Fresh == {"NOT_CONNECTED", "SIGNED_IN"}

\* What a client has written goes with its state, and it is in the room from
\* when its "/join" is read until its end is.
LocalOK(c) ==
  /\ client[c] # "CONNECTTOPEER" => sig[c] = "none"
  /\ client[c] # "off" => ~Has(toServer[c], "end")
  /\ Has(toServer[c], "/join") =>
       c \notin room /\ toServer[c] \in {<<"/join">>, <<"/join", "end">>}
  /\ c \notin room /\ client[c] # "off" =>
       /\ client[c] = "NOT_CONNECTED" /\ Has(toServer[c], "/join")
       /\ toClient[c] = <<>>
  /\ c \in room \/ Has(toServer[c], "/join") =>
       client[c] # "off" \/ Has(toServer[c], "end")
  /\ Has(toServer[c], "offer") => client[c] = "off" \/ sig[c] \in {"offered", "stable"}
  /\ Has(toServer[c], "answer") => client[c] = "off" \/ sig[c] = "stable"
  /\ Once(toServer[c], "offer")

\* d has no offer on its way to the server and will not make one.
NoOffer(d) ==
  /\ ~Has(toServer[d], "offer") /\ sig[d] # "offering"
  /\ client[d] \in Fresh => ~Has(toClient[d], "/other_join")

\* One offer at most is on its way to c: none once it has a description, none
\* behind the offer, and none behind "/other_join", because d, which joined
\* later, is not told of c.
OfferOK(c, d) ==
  /\ "offer" \notin refused[c]
  /\ c \in room /\ client[c] # "off" =>
       /\ Once(toClient[c], "offer")
       /\ sig[c] \notin {"none", "idle"} => ~Has(toClient[c], "offer")
       /\ client[c] \in Fresh => ~OfferBehind(toClient[c])
       /\ \/ sig[c] \notin {"none", "idle"}
          \/ Has(toClient[c], "offer")
          \/ client[c] \in Fresh /\ Has(toClient[c], "/other_join")
          => NoOffer(d)

\* The offer, or the answer to it, is on its way: c offered and waits.
OfferOut(c, d) == Has(toServer[c], "offer") \/ Has(toClient[d], "offer")
AnswerOut(c, d) ==
  Has(toClient[c], "answer") \/ Has(toServer[d], "answer") \/ sig[d] = "answering"

\* Until a program ends, each offer is answered once.
AnswerOK(c, d) ==
  /\ "answer" \notin refused[c]
  /\ ~Has(toServer[c], "end")
  /\ client[c] = "off" => toClient[c] = <<>> /\ toServer[c] = <<>>
  /\ Once(toClient[c], "answer") /\ Once(toServer[c], "answer")
  /\ OfferOut(c, d) \/ AnswerOut(c, d) => sig[c] = "offered"
  /\ ~(OfferOut(c, d) /\ AnswerOut(c, d))
  /\ Has(toClient[c], "answer") => ~Has(toServer[d], "answer") /\ sig[d] = "stable"

\* The connection of c has a remote description, so it takes candidates.
Ready(c) == sig[c] \in {"answering", "stable"}

\* Control messages come only where a client in state st expects them.
Expected(q, st) ==
  \A i \in 1 .. Len(q) :
    /\ st = "NOT_CONNECTED" /\ i = 1 => q[i] = "/joined"
    /\ q[i] = "/joined" => i = 1 /\ st = "NOT_CONNECTED"
    /\ q[i] = "/other_join" =>
         (i = 2 /\ st = "NOT_CONNECTED") \/ (i = 1 /\ st = "SIGNED_IN")
    /\ q[i] # "/wait"
OnlyJoined(q) == \A i \in 1 .. Len(q) : q[i] = "/joined"

\* Undisturbed, a client reads what it expects: first that it has joined, then,
\* if it was first, that the other has, then messages; and before every
\* candidate that waits there is a description, read or waiting.
CandidateOK(c, d) ==
  /\ "candidate" \notin refused[c]
  /\ c \in room /\ client[c] = "NOT_CONNECTED" => toClient[c] # <<>>
  /\ Expected(toClient[c], client[c])
  /\ Ready(c) \/ CandidatesBehind(toClient[c])
  /\ d \notin room => client[c] # "CONNECTTOPEER" /\ OnlyJoined(toClient[c])
  /\ Ready(c) \/ HasDescription(toClient[c]) \/ CandidatesBehind(toServer[d])
  /\ sig[d] \in {"offered", "stable"} =>
       Ready(c) \/ HasDescription(toClient[c]) \/ HasDescription(toServer[d])

PairOK(c, d) ==
  /\ LocalOK(c) /\ OfferOK(c, d)
  /\ restarts = 0 => AnswerOK(c, d)
  /\ Undisturbed => CandidateOK(c, d)

IInv == TypeOK /\ \A c, d \in Clients : c # d => PairOK(c, d)

-------------------------------------------------------------------------------
(* Channels                                                                *)

\* A write
LEMMA AppendChannel ==
  ASSUME NEW S, NEW q \in Seq(S), NEW x \in S
  PROVE  /\ Append(q, x) \in Seq(S) /\ Len(q) \in Nat /\ Len(Append(q, x)) = Len(q) + 1
         /\ Append(q, x) # <<>> /\ Append(q, x)[Len(q) + 1] = x
         /\ \A i \in 1 .. Len(q) : Append(q, x)[i] = q[i]
         /\ \A m : Has(Append(q, x), m) <=> Has(q, m) \/ x = m
         /\ \A m : Once(q, m) /\ (x = m => ~Has(q, m)) => Once(Append(q, x), m)
         /\ OfferBehind(Append(q, x)) =>
              OfferBehind(q) \/ (x = "offer" /\ Has(q, "/other_join"))
         /\ CandidatesBehind(q) /\ (x = "candidate" => HasDescription(q)) =>
              CandidatesBehind(Append(q, x))
<1>1. /\ Append(q, x) \in Seq(S) /\ Len(q) \in Nat /\ Len(Append(q, x)) = Len(q) + 1
      /\ Append(q, x) # <<>> /\ Append(q, x)[Len(q) + 1] = x
      /\ \A i \in 1 .. Len(q) : Append(q, x)[i] = q[i]
  BY LenProperties, AppendProperties
<1> DEFINE r == Append(q, x)
<1> HIDE DEF r
<1>2. \A m : Has(r, m) <=> Has(q, m) \/ x = m
  BY <1>1 DEF Has, r
<1>3. \A m : Once(q, m) /\ (x = m => ~Has(q, m)) => Once(r, m)
  BY <1>1 DEF Has, Once, r
<1>4. OfferBehind(r) => OfferBehind(q) \/ (x = "offer" /\ Has(q, "/other_join"))
  <2> SUFFICES ASSUME NEW i \in 1 .. Len(q) + 1, NEW j \in 1 .. Len(q) + 1,
                      r[i] = "/other_join", j > i, r[j] = "offer"
               PROVE  OfferBehind(q) \/ (x = "offer" /\ Has(q, "/other_join"))
    BY <1>1 DEF OfferBehind, r
  <2>1. i \in 1 .. Len(q) /\ q[i] = "/other_join"
    BY <1>1 DEF r
  <2>2. CASE j = Len(q) + 1
    BY <1>1, <2>1, <2>2 DEF Has, r
  <2>3. CASE j # Len(q) + 1
    <3>1. j \in 1 .. Len(q) /\ q[j] = "offer"
      BY <1>1, <2>3 DEF r
    <3> QED BY <2>1, <3>1 DEF OfferBehind
  <2> QED BY <2>2, <2>3
<1>5. ASSUME CandidatesBehind(q), x = "candidate" => HasDescription(q)
      PROVE  CandidatesBehind(r)
  <2> SUFFICES ASSUME NEW i \in 1 .. Len(q) + 1, r[i] = "candidate"
               PROVE  \E j \in 1 .. i - 1 : r[j] \in Descriptions
    BY <1>1 DEF CandidatesBehind, r
  <2>1. CASE i = Len(q) + 1
    <3>1. PICK j \in 1 .. Len(q) : q[j] \in Descriptions
      BY <1>1, <1>5, <2>1 DEF HasDescription, Has, Descriptions, r
    <3>2. j \in 1 .. i - 1 /\ r[j] = q[j]
      BY <1>1, <2>1 DEF r
    <3> QED BY <3>1, <3>2
  <2>2. CASE i # Len(q) + 1
    <3>1. i \in 1 .. Len(q) /\ q[i] = "candidate"
      BY <1>1, <2>2 DEF r
    <3>2. PICK j \in 1 .. i - 1 : q[j] \in Descriptions
      BY <1>5, <3>1 DEF CandidatesBehind
    <3>3. r[j] = q[j]
      BY <1>1, <3>1 DEF r
    <3> QED BY <3>2, <3>3
  <2> QED BY <2>1, <2>2
<1> QED
  BY <1>1, <1>2, <1>3, <1>4, <1>5 DEF r

\* A read
LEMMA LeftChannel ==
  ASSUME NEW S, NEW q \in Seq(S), NEW n \in Nat, n <= Len(q)
  PROVE  /\ Left(q, n) \in Seq(S) /\ Len(q) \in Nat /\ Len(Left(q, n)) = Len(q) - n
         /\ \A i \in 1 .. Len(q) - n : Left(q, n)[i] = q[n + i]
         /\ \A m : Has(Left(q, n), m) <=> \E i \in n + 1 .. Len(q) : q[i] = m
         /\ \A m : Has(Left(q, n), m) => Has(q, m)
         /\ \A m : Once(q, m) => Once(Left(q, n), m)
         /\ OfferBehind(Left(q, n)) => OfferBehind(q)
         /\ CandidatesBehind(q) /\ (\A i \in 1 .. n : q[i] \notin Descriptions) =>
              CandidatesBehind(Left(q, n))
<1>1. Len(q) \in Nat /\ \A i \in 1 .. Len(q) : q[i] \in S
  BY LenProperties
<1> DEFINE r == Left(q, n)
<1>2. /\ r \in Seq(S) /\ Len(r) = Len(q) - n
      /\ \A i \in 1 .. Len(q) - n : r[i] = q[n + i]
  BY <1>1, SubSeqProperties DEF Left
<1> HIDE DEF r
<1>3. \A m : Has(r, m) <=> \E i \in n + 1 .. Len(q) : q[i] = m
  <2> SUFFICES ASSUME NEW m PROVE Has(r, m) <=> \E i \in n + 1 .. Len(q) : q[i] = m
    OBVIOUS
  <2>1. ASSUME NEW i \in n + 1 .. Len(q), q[i] = m PROVE Has(r, m)
    <3>1. i - n \in 1 .. Len(r) /\ r[i - n] = q[i]
      BY <1>1, <1>2
    <3> QED BY <2>1, <3>1 DEF Has
  <2>2. ASSUME NEW i \in 1 .. Len(r), r[i] = m PROVE \E j \in n + 1 .. Len(q) : q[j] = m
    <3>1. n + i \in n + 1 .. Len(q) /\ q[n + i] = m
      BY <1>1, <1>2, <2>2
    <3> QED BY <3>1
  <2> QED BY <2>1, <2>2 DEF Has
<1>4. \A m : Has(r, m) => Has(q, m)
  <2> SUFFICES ASSUME NEW m, Has(r, m) PROVE Has(q, m)
    OBVIOUS
  <2>1. PICK i \in n + 1 .. Len(q) : q[i] = m
    BY <1>3
  <2>2. i \in 1 .. Len(q)
    BY <1>1
  <2> QED BY <2>1, <2>2 DEF Has
<1>5. \A m : Once(q, m) => Once(r, m)
  <2> SUFFICES ASSUME NEW m, Once(q, m), NEW i \in 1 .. Len(r), NEW j \in 1 .. Len(r),
                      r[i] = m, r[j] = m
               PROVE  i = j
    BY DEF Once
  <2>1. n + i \in 1 .. Len(q) /\ n + j \in 1 .. Len(q) /\ q[n + i] = m /\ q[n + j] = m
    BY <1>1, <1>2
  <2>2. n + i = n + j
    BY <2>1 DEF Once
  <2> QED BY <1>1, <1>2, <2>2
<1>6. OfferBehind(r) => OfferBehind(q)
  <2> SUFFICES ASSUME NEW i \in 1 .. Len(r), NEW j \in 1 .. Len(r),
                      r[i] = "/other_join", j > i, r[j] = "offer"
               PROVE  OfferBehind(q)
    BY DEF OfferBehind
  <2>1. /\ n + i \in 1 .. Len(q) /\ n + j \in 1 .. Len(q) /\ n + j > n + i
        /\ q[n + i] = "/other_join" /\ q[n + j] = "offer"
    BY <1>1, <1>2
  <2> QED BY <2>1 DEF OfferBehind
<1>7. ASSUME CandidatesBehind(q), \A i \in 1 .. n : q[i] \notin Descriptions
      PROVE  CandidatesBehind(r)
  <2> SUFFICES ASSUME NEW i \in 1 .. Len(r), r[i] = "candidate"
               PROVE  \E j \in 1 .. i - 1 : r[j] \in Descriptions
    BY DEF CandidatesBehind
  <2>1. n + i \in 1 .. Len(q) /\ q[n + i] = "candidate"
    BY <1>1, <1>2
  <2>2. PICK k \in 1 .. n + i - 1 : q[k] \in Descriptions
    BY <1>7, <2>1 DEF CandidatesBehind
  <2>3. k \notin 1 .. n
    BY <1>7, <2>2
  <2>4. k - n \in 1 .. i - 1 /\ r[k - n] = q[k]
    BY <1>1, <1>2, <2>3
  <2> QED BY <2>2, <2>4
<1> QED
  BY <1>1, <1>2, <1>3, <1>4, <1>5, <1>6, <1>7 DEF r

\* Nothing waits in an empty channel, and in a new one only the "/join".
LEMMA ShortChannels ==
  /\ \A m : ~Has(<<>>, m) /\ Once(<<>>, m)
  /\ ~OfferBehind(<<>>) /\ CandidatesBehind(<<>>)
  /\ \A x, m : (Has(<<x>>, m) <=> x = m) /\ Once(<<x>>, m)
  /\ \A x, y, m : Has(<<x, y>>, m) <=> x = m \/ y = m
<1>1. \A m : ~Has(<<>>, m) /\ Once(<<>>, m)
  BY DEF Has, Once
<1>2. \A x, m : (Has(<<x>>, m) <=> x = m) /\ Once(<<x>>, m)
  BY DEF Has, Once
<1>3. \A x, y, m : Has(<<x, y>>, m) <=> x = m \/ y = m
  BY DEF Has
<1>4. ~OfferBehind(<<>>) /\ CandidatesBehind(<<>>)
  BY DEF OfferBehind, CandidatesBehind
<1> QED BY <1>1, <1>2, <1>3, <1>4

\* There are two clients.
LEMMA OtherClient ==
  ASSUME NEW c \in Clients, NEW d \in Clients \ {c}, NEW e \in Clients
  PROVE  e = c \/ e = d
<1> DEFINE S == Clients \ {c}
           T == S \ {d}
<1>1. IsFiniteSet(S) /\ Cardinality(S) = 1
  BY TwoClients, FS_RemoveElement
<1>2. d \in S
  OBVIOUS
<1> HIDE DEF S
<1>3. IsFiniteSet(T) /\ Cardinality(T) = 0
  BY <1>1, <1>2, FS_RemoveElement
<1>4. T = {}
  BY <1>3, FS_EmptySet
<1> QED BY <1>4 DEF S, T

\* What a client expects, after one more write
LEMMA AppendExpected ==
  ASSUME NEW S, NEW q \in Seq(S), NEW x \in S, NEW st, Expected(q, st)
  PROVE  /\ x \in Messages /\ (st = "NOT_CONNECTED" => q # <<>>) => Expected(Append(q, x), st)
         /\ x = "/other_join" /\ OnlyJoined(q) /\ st = "NOT_CONNECTED" /\ q # <<>> =>
              Expected(Append(q, x), st)
         /\ x = "/other_join" /\ OnlyJoined(q) /\ st = "SIGNED_IN" => Expected(Append(q, x), st)
         /\ x = "/joined" /\ q = <<>> /\ st = "NOT_CONNECTED" => Expected(Append(q, x), st)
<1>1. /\ Append(q, x) \in Seq(S) /\ Len(q) \in Nat /\ Len(Append(q, x)) = Len(q) + 1
      /\ Append(q, x)[Len(q) + 1] = x
      /\ \A i \in 1 .. Len(q) : Append(q, x)[i] = q[i]
      /\ q # <<>> <=> Len(q) # 0
  BY LenProperties, EmptySeq
<1> DEFINE r == Append(q, x)
<1> HIDE DEF r
<1>2. x \in Messages /\ (st = "NOT_CONNECTED" => q # <<>>) => Expected(r, st)
  BY <1>1 DEF Expected, Messages, r
<1>3. x = "/other_join" /\ OnlyJoined(q) /\ st = "NOT_CONNECTED" /\ q # <<>> => Expected(r, st)
  <2> SUFFICES ASSUME x = "/other_join", OnlyJoined(q), st = "NOT_CONNECTED", q # <<>>
               PROVE  Expected(r, st)
    OBVIOUS
  <2>1. Len(q) = 1
    <3>1. Len(q) > 1 => 2 \in 1 .. Len(q) /\ q[2] = "/joined"
      BY <1>1 DEF OnlyJoined
    <3>2. ~(Len(q) > 1)
      BY <1>1, <3>1 DEF Expected
    <3>3. Len(q) # 0
      BY EmptySeq
    <3>4. Len(q) \in Nat
      BY <1>1
    <3>5. \A n \in Nat : ~(n > 1) /\ n # 0 => n = 1
      OBVIOUS
    <3> QED BY <3>2, <3>3, <3>4, <3>5, Zenon
  <2> QED BY <1>1, <2>1 DEF Expected, r
<1>4. x = "/other_join" /\ OnlyJoined(q) /\ st = "SIGNED_IN" => Expected(r, st)
  <2> SUFFICES ASSUME x = "/other_join", OnlyJoined(q), st = "SIGNED_IN"
               PROVE  Expected(r, st)
    OBVIOUS
  <2>1. Len(q) = 0
    <3>1. Len(q) > 0 => 1 \in 1 .. Len(q) /\ q[1] = "/joined"
      BY <1>1 DEF OnlyJoined
    <3> QED BY <1>1, <3>1 DEF Expected
  <2> QED BY <1>1, <2>1 DEF Expected, r
<1>5. x = "/joined" /\ q = <<>> /\ st = "NOT_CONNECTED" => Expected(r, st)
  BY <1>1 DEF Expected, r
<1> QED BY <1>2, <1>3, <1>4, <1>5 DEF r

-------------------------------------------------------------------------------
(* One lemma per action: c acts, d is the other client                     *)

\* At the start nobody has written anything.
LEMMA InitInv == Init => IInv
<1> SUFFICES ASSUME Init PROVE IInv
  OBVIOUS
<1>1. TypeOK
  <2>1. /\ toServer \in [Clients -> Seq(Messages \cup {"/join", "end"})]
        /\ toClient \in [Clients -> Seq(Messages \cup {"/joined", "/other_join", "/wait"})]
    BY EmptySeq DEF Init
  <2>2. /\ room \subseteq Clients /\ waits \in 0 .. MaxWaits /\ restarts \in 0 .. MaxRestarts
        /\ client \in [Clients -> {"off", "NOT_CONNECTED", "SIGNED_IN", "CONNECTTOPEER"}]
        /\ sig \in [Clients -> {"none", "idle", "offering", "offered", "answering", "stable"}]
        /\ candidates \in [Clients -> 0 .. MaxCandidates]
        /\ refused \in [Clients -> SUBSET Messages]
    BY BoundsAssumption DEF Init
  <2>3. cut \in BOOLEAN
    BY Zenon DEF Init
  <2> QED BY <2>1, <2>2, <2>3 DEF TypeOK
<1>2. ASSUME NEW c \in Clients, NEW d \in Clients, c # d
      PROVE  PairOK(c, d)
  <2>1. /\ toServer[c] = <<>> /\ toClient[c] = <<>> /\ client[c] = "off" /\ sig[c] = "none"
        /\ toServer[d] = <<>> /\ toClient[d] = <<>> /\ client[d] = "off" /\ sig[d] = "none"
        /\ refused[c] = {} /\ room = {}
    BY DEF Init
  <2>2. Expected(<<>>, "off") /\ OnlyJoined(<<>>)
    BY DEF Expected, OnlyJoined
  <2> QED
    BY <2>1, <2>2, ShortChannels
       DEF PairOK, LocalOK, OfferOK, AnswerOK, CandidateOK, OfferOut, AnswerOut
<1> QED BY <1>1, <1>2 DEF IInv

\* A new program
LEMMA JoinStep ==
  ASSUME TypeOK, NEW c \in Clients, NEW d \in Clients, c # d, PairOK(c, d), PairOK(d, c),
         Join(c)
  PROVE  PairOK(c, d)' /\ PairOK(d, c)'
<1>1. /\ toServer[c] = <<>> /\ client[c] = "off" /\ client'[c] = "NOT_CONNECTED"
      /\ toServer'[c] = <<"/join">> /\ toClient'[c] = <<>>
      /\ toServer'[d] = toServer[d] /\ toClient'[d] = toClient[d] /\ client'[d] = client[d]
      /\ room' = room /\ sig' = sig /\ refused' = refused
      /\ restarts' = restarts /\ waits' = waits
  BY DEF Join, TypeOK
<1>2. (Undisturbed' <=> Undisturbed) /\ (Undisturbed => restarts = 0)
  BY DEF Undisturbed, Join
<1>3. c \notin room
  BY <1>1, ShortChannels DEF PairOK, LocalOK
<1>4. CandidatesBehind(<<"/join">>) /\ OnlyJoined(<<>>) /\ Expected(<<>>, "NOT_CONNECTED")
  BY DEF CandidatesBehind, OnlyJoined, Expected
<1>5. LocalOK(c)' /\ LocalOK(d)'
  BY <1>1, <1>3, ShortChannels DEF PairOK, LocalOK
<1>6. OfferOK(c, d)' /\ OfferOK(d, c)'
  BY <1>1, <1>3, ShortChannels DEF PairOK, LocalOK, OfferOK, NoOffer, Fresh
<1>7. restarts = 0 => AnswerOK(c, d)' /\ AnswerOK(d, c)'
  BY <1>1, <1>3, ShortChannels DEF PairOK, LocalOK, AnswerOK, OfferOut, AnswerOut
<1>8. Undisturbed => CandidateOK(c, d)' /\ CandidateOK(d, c)'
  BY <1>1, <1>2, <1>3, <1>4, ShortChannels
     DEF PairOK, LocalOK, AnswerOK, CandidateOK, Ready, HasDescription
<1> QED BY <1>1, <1>2, <1>5, <1>6, <1>7, <1>8 DEF PairOK

\* The end of a program
LEMMA EndStep ==
  ASSUME TypeOK, NEW c \in Clients, NEW d \in Clients, c # d, PairOK(c, d), PairOK(d, c),
         End(c)
  PROVE  PairOK(c, d)' /\ PairOK(d, c)'
<1> DEFINE q == toServer[c]
<1>1. /\ client[c] # "off" /\ client'[c] = "off" /\ sig'[c] = "none"
      /\ toServer'[c] = Append(q, "end") /\ toClient' = toClient
      /\ toServer'[d] = toServer[d] /\ client'[d] = client[d] /\ sig'[d] = sig[d]
      /\ room' = room /\ refused' = refused /\ restarts' # 0
      /\ q \in Seq(Messages \cup {"/join", "end"})
  BY DEF End, TypeOK
<1>2. ~Undisturbed'
  BY <1>1 DEF Undisturbed
<1>3. /\ \A m : Has(Append(q, "end"), m) <=> Has(q, m) \/ m = "end"
      /\ Once(q, "offer") => Once(Append(q, "end"), "offer")
  BY <1>1, AppendChannel
<1>4. Has(q, "/join") => Append(q, "end") = <<"/join", "end">>
  <2>1. Has(<<"/join", "end">>, "end")
    BY ShortChannels
  <2>2. Has(q, "/join") => q = <<"/join">>
    BY <1>1, <2>1 DEF PairOK, LocalOK
  <2>3. Append(<<"/join">>, "end") = <<"/join", "end">>
    <3> DEFINE s == <<"/join">>
               r == Append(s, "end")
               t == <<"/join", "end">>
    <3>1. s \in Seq({"/join", "end"}) /\ t \in Seq({"/join", "end"}) /\ Len(s) = 1 /\ Len(t) = 2
      OBVIOUS
    <3>2. r \in Seq({"/join", "end"}) /\ Len(r) = 2 /\ r[1] = "/join" /\ r[2] = "end"
      BY <3>1, AppendProperties
    <3>3. \A i \in 1 .. 2 : r[i] = t[i]
      BY <3>2
    <3> QED BY <3>1, <3>2, <3>3, SeqEqual
  <2> QED BY <2>2, <2>3
<1> HIDE DEF q
<1>5. LocalOK(c)' /\ LocalOK(d)'
  BY <1>1, <1>3, <1>4 DEF PairOK, LocalOK, q
<1>6. OfferOK(c, d)' /\ OfferOK(d, c)'
  BY <1>1, <1>3 DEF PairOK, OfferOK, NoOffer, Fresh, q
<1> QED BY <1>1, <1>2, <1>5, <1>6 DEF PairOK

\* A description is sent.
LEMMA SuccessStep ==
  ASSUME TypeOK, NEW c \in Clients, NEW d \in Clients, c # d, PairOK(c, d), PairOK(d, c),
         OnSuccess(c)
  PROVE  PairOK(c, d)' /\ PairOK(d, c)'
<1> DEFINE q == toServer[c]
           x == IF sig[c] = "offering" THEN "offer" ELSE "answer"
<1>1. /\ \/ sig[c] = "offering" /\ x = "offer" /\ sig'[c] = "offered"
         \/ sig[c] = "answering" /\ x = "answer" /\ sig'[c] = "stable"
      /\ toServer'[c] = Append(q, x) /\ toClient' = toClient
      /\ toServer'[d] = toServer[d] /\ client' = client /\ sig'[d] = sig[d]
      /\ room' = room /\ refused' = refused /\ restarts' = restarts
      /\ q \in Seq(Messages \cup {"/join", "end"}) /\ x \in Messages
  BY DEF OnSuccess, TypeOK, Messages
<1> HIDE DEF x
<1>2. (Undisturbed' <=> Undisturbed) /\ (Undisturbed => restarts = 0)
  BY DEF Undisturbed, OnSuccess
<1>3. /\ \A m : Has(Append(q, x), m) <=> Has(q, m) \/ x = m
      /\ \A m : Once(q, m) /\ (x = m => ~Has(q, m)) => Once(Append(q, x), m)
      /\ CandidatesBehind(q) => CandidatesBehind(Append(q, x))
  BY <1>1, AppendChannel
<1> HIDE DEF q
<1>4. /\ client[c] = "CONNECTTOPEER" /\ c \in room /\ ~Has(q, "/join")
      /\ NoOffer(d) /\ ~Has(q, x)
  BY <1>1 DEF PairOK, LocalOK, OfferOK, q
<1>5. LocalOK(c)' /\ LocalOK(d)'
  BY <1>1, <1>3, <1>4 DEF PairOK, LocalOK, q
<1>6. OfferOK(c, d)' /\ OfferOK(d, c)'
  BY <1>1, <1>3, <1>4 DEF PairOK, OfferOK, NoOffer, Fresh, q
<1>7. restarts = 0 => AnswerOK(c, d)' /\ AnswerOK(d, c)'
  BY <1>1, <1>3, <1>4 DEF PairOK, LocalOK, AnswerOK, OfferOut, AnswerOut, q
<1>8. Undisturbed => CandidateOK(c, d)' /\ CandidateOK(d, c)'
  BY <1>1, <1>2, <1>3, <1>4 DEF PairOK, CandidateOK, Ready, HasDescription, q
<1> QED BY <1>1, <1>2, <1>5, <1>6, <1>7, <1>8 DEF PairOK

\* A candidate is sent.
LEMMA IceCandidateStep ==
  ASSUME TypeOK, NEW c \in Clients, NEW d \in Clients, c # d, PairOK(c, d), PairOK(d, c),
         OnIceCandidate(c)
  PROVE  PairOK(c, d)' /\ PairOK(d, c)'
<1> DEFINE q == toServer[c]
           x == "candidate"
<1>1. /\ sig[c] \in {"offered", "stable"} /\ sig' = sig
      /\ toServer'[c] = Append(q, x) /\ toClient' = toClient
      /\ toServer'[d] = toServer[d] /\ client' = client
      /\ room' = room /\ refused' = refused /\ restarts' = restarts
      /\ q \in Seq(Messages \cup {"/join", "end"}) /\ x \in Messages
  BY DEF OnIceCandidate, TypeOK, Messages
<1>2. (Undisturbed' <=> Undisturbed) /\ (Undisturbed => restarts = 0)
  BY DEF Undisturbed, OnIceCandidate
<1>3. /\ \A m : Has(Append(q, x), m) <=> Has(q, m) \/ x = m
      /\ \A m : Once(q, m) /\ x # m => Once(Append(q, x), m)
      /\ CandidatesBehind(q) /\ HasDescription(q) => CandidatesBehind(Append(q, x))
  BY <1>1, AppendChannel
<1> HIDE DEF q
<1>4. client[c] = "CONNECTTOPEER" /\ c \in room /\ ~Has(q, "/join")
  BY <1>1 DEF PairOK, LocalOK, q
<1>5. LocalOK(c)' /\ LocalOK(d)'
  BY <1>1, <1>3, <1>4 DEF PairOK, LocalOK, q
<1>6. OfferOK(c, d)' /\ OfferOK(d, c)'
  BY <1>1, <1>3, <1>4 DEF PairOK, OfferOK, NoOffer, Fresh, q
<1>7. restarts = 0 => AnswerOK(c, d)' /\ AnswerOK(d, c)'
  BY <1>1, <1>3, <1>4 DEF PairOK, LocalOK, AnswerOK, OfferOut, AnswerOut, q
<1>8. Undisturbed => CandidateOK(c, d)' /\ CandidateOK(d, c)'
  BY <1>1, <1>2, <1>3, <1>4 DEF PairOK, CandidateOK, Ready, HasDescription, q
<1> QED BY <1>1, <1>2, <1>5, <1>6, <1>7, <1>8 DEF PairOK

\* The server reads the end of a program.
LEMMA ServerEndStep ==
  ASSUME TypeOK, NEW c \in Clients, NEW d \in Clients, c # d, PairOK(c, d), PairOK(d, c),
         ServerEnd(c)
  PROVE  PairOK(c, d)' /\ PairOK(d, c)'
<1> DEFINE q == toServer[c]
<1>1. /\ toServer'[c] = Tail(q) /\ toClient' = toClient
      /\ toServer'[d] = toServer[d] /\ client' = client /\ sig' = sig
      /\ room' = room \ {c} /\ refused' = refused /\ restarts' = restarts
      /\ q \in Seq(Messages \cup {"/join", "end"}) /\ q # <<>> /\ Head(q) = "end"
  BY DEF ServerEnd, TypeOK
<1>2. Len(q) \in Nat /\ 1 \in 1 .. Len(q) /\ q[1] = "end" /\ Tail(q) = Left(q, 1)
  BY <1>1, LenProperties, EmptySeq, HeadTailProperties DEF Left
<1>3. /\ \A m : Has(Tail(q), m) => Has(q, m)
      /\ Once(q, "offer") => Once(Tail(q), "offer")
  BY <1>1, <1>2, LeftChannel
<1>4. Has(q, "end")
  BY <1>2 DEF Has
<1>5. q # <<"/join">> /\ q # <<"/join", "end">>
  BY <1>1
<1> HIDE DEF q
<1>6. client[c] = "off" /\ restarts # 0 /\ ~Has(Tail(q), "/join")
  BY <1>3, <1>4, <1>5 DEF PairOK, LocalOK, AnswerOK, q
<1>7. ~Undisturbed'
  BY <1>1, <1>6 DEF Undisturbed
<1>8. LocalOK(c)' /\ LocalOK(d)'
  BY <1>1, <1>3, <1>6 DEF PairOK, LocalOK, q
<1>9. OfferOK(c, d)' /\ OfferOK(d, c)'
  BY <1>1, <1>3, <1>6 DEF PairOK, OfferOK, NoOffer, Fresh, q
<1> QED BY <1>1, <1>6, <1>7, <1>8, <1>9 DEF PairOK

\* The timer
LEMMA WaitStep ==
  ASSUME TypeOK, NEW c \in Clients, NEW d \in Clients, c # d, PairOK(c, d), PairOK(d, c),
         Wait
  PROVE  PairOK(c, d)'
<1> DEFINE q == toClient[c]
           x == "/wait"
<1>1. /\ toServer' = toServer /\ client' = client /\ sig' = sig
      /\ room' = room /\ refused' = refused /\ restarts' = restarts /\ waits' # 0
  BY DEF Wait, TypeOK
<1>2. ~Undisturbed'
  BY <1>1 DEF Undisturbed
<1>3. ASSUME NEW e \in Clients
      PROVE  /\ \A m : m # x => (Has(toClient[e], m)' <=> Has(toClient[e], m))
             /\ \A m : m # x /\ Once(toClient[e], m) => Once(toClient[e], m)'
             /\ OfferBehind(toClient[e])' => OfferBehind(toClient[e])
  <2>1. /\ toClient'[e] = Append(toClient[e], x) \/ toClient'[e] = toClient[e]
        /\ toClient[e] \in Seq(Messages \cup {"/joined", "/other_join", "/wait"})
    BY DEF Wait, Write, TypeOK
  <2>2. CASE toClient'[e] = toClient[e]
    BY <2>2
  <2>3. CASE toClient'[e] = Append(toClient[e], x)
    BY <2>1, <2>3, AppendChannel
  <2> QED BY <2>1, <2>2, <2>3
<1>4. \A e \in {c, d} : e \notin room => toClient'[e] = toClient[e]
  BY DEF Wait, Write, TypeOK
<1>5. LocalOK(c)'
  BY <1>1, <1>4 DEF PairOK, LocalOK
<1>6. OfferOK(c, d)'
  BY <1>1, <1>3, <1>4 DEF PairOK, OfferOK, NoOffer, Fresh
<1>7. restarts = 0 => AnswerOK(c, d)'
  BY <1>1, <1>3, <1>4 DEF PairOK, LocalOK, AnswerOK, OfferOut, AnswerOut
<1> QED BY <1>1, <1>2, <1>5, <1>6, <1>7 DEF PairOK

\* The server takes n writes of c: a "/join" on its own, or messages of which
\* only the first is passed on.
LEMMA DataStep ==
  ASSUME TypeOK, NEW c \in Clients, NEW d \in Clients, c # d, PairOK(c, d), PairOK(d, c),
         NEW n \in Nat \ {0}, ServerData(c, n)
  PROVE  PairOK(c, d)' /\ PairOK(d, c)'
<1> DEFINE q == toServer[c]
           r == Left(q, n)
           S == Messages \cup {"/join", "end"}
           T == Messages \cup {"/joined", "/other_join", "/wait"}
           chunk == SubSeq(q, 1, n)
<1>1. /\ toServer'[c] = r /\ toServer'[d] = toServer[d] /\ n <= Len(q)
      /\ client' = client /\ sig' = sig /\ refused' = refused /\ restarts' = restarts
      /\ q \in Seq(S) /\ toClient[c] \in Seq(T) /\ toClient[d] \in Seq(T)
  BY DEF ServerData, TypeOK, Left
<1>2. (Undisturbed' <=> Undisturbed) /\ (Undisturbed => restarts = 0)
  BY DEF Undisturbed, ServerData
<1>3. Len(q) \in Nat /\ 1 \in 1 .. Len(q) /\ \A i \in 1 .. Len(q) : q[i] \in S
  BY <1>1, LenProperties
<1>4. /\ chunk \in Seq(S) /\ Len(chunk) = n /\ \A i \in 1 .. n : chunk[i] = q[i]
      /\ chunk # <<>> /\ Head(chunk) = q[1]
  <2>1. chunk \in Seq(S) /\ Len(chunk) = n /\ \A i \in 1 .. n : chunk[i] = q[i]
    BY <1>1, <1>3, SubSeqProperties
  <2>2. chunk # <<>>
    BY <2>1, EmptySeq
  <2> QED BY <2>1, <2>2, HeadTailProperties
<1>5. \A i \in 1 .. n : q[i] # "end"
  BY <1>4 DEF ServerData
<1>6. /\ \A m : Has(r, m) => Has(q, m)
      /\ Has(r, "end") <=> Has(q, "end")
      /\ \A m : Once(q, m) => Once(r, m)
      /\ \A m : Once(q, m) /\ q[1] = m => ~Has(r, m)
      /\ Has(q, q[1])
  <2>1. /\ \A m : Has(r, m) <=> \E i \in n + 1 .. Len(q) : q[i] = m
        /\ \A m : Has(r, m) => Has(q, m)
        /\ \A m : Once(q, m) => Once(r, m)
    <3> HIDE DEF q, S
    <3> QED BY <1>1, <1>3, LeftChannel
  <2>2. Has(q, "end") => Has(r, "end")
    <3> SUFFICES ASSUME NEW i \in 1 .. Len(q), q[i] = "end" PROVE Has(r, "end")
      BY DEF Has
    <3>1. i \in n + 1 .. Len(q)
      BY <1>3, <1>5
    <3> QED BY <2>1, <3>1
  <2>3. ASSUME NEW m, Once(q, m), q[1] = m, Has(r, m) PROVE FALSE
    <3>1. PICK i \in n + 1 .. Len(q) : q[i] = m
      BY <2>1, <2>3
    <3>2. i \in 1 .. Len(q) /\ i # 1
      BY <1>3
    <3> QED BY <1>3, <2>3, <3>1, <3>2 DEF Once
  <2>4. Has(q, q[1])
    BY <1>3 DEF Has
  <2> QED BY <2>1, <2>2, <2>3, <2>4
<1>7. CASE chunk = <<"/join">>
  <2>1. /\ room' = room \cup {c}
        /\ toClient'[c] = Append(toClient[c], "/joined")
        /\ d \in room => toClient'[d] = Append(toClient[d], "/other_join")
        /\ d \notin room => toClient'[d] = toClient[d]
    BY <1>7 DEF ServerData, TypeOK, Write, Others
  <2>2. n = 1 /\ q[1] = "/join"
    <3> HIDE DEF chunk
    <3>1. Len(chunk) = 1 /\ chunk[1] = "/join"
      BY <1>7
    <3> QED BY <1>4, <3>1
  <2>3. /\ c \notin room /\ q \in {<<"/join">>, <<"/join", "end">>}
        /\ client[c] # "off" \/ Has(q, "end")
    BY <1>6, <2>2 DEF PairOK, LocalOK
  <2>4. /\ \A m : m # "end" => ~Has(r, m)
        /\ Once(r, "offer") /\ Once(r, "answer") /\ CandidatesBehind(r)
    <3>1. \A m : m # "end" => ~Has(r, m)
      <4> SUFFICES ASSUME NEW m, Has(r, m) PROVE m = "end"
        OBVIOUS
      <4>1. PICK i \in n + 1 .. Len(q) : q[i] = m
        <5> HIDE DEF q, S
        <5> QED BY <1>1, <1>3, LeftChannel
      <4>2. i = 2 /\ q = <<"/join", "end">>
        BY <2>2, <2>3, <4>1
      <4> QED BY <4>1, <4>2
    <3>2. Len(r) \in Nat /\ \A i \in 1 .. Len(r) : Has(r, r[i])
      BY <1>1, <1>3, LeftChannel DEF Has
    <3> QED BY <3>1, <3>2 DEF Once, CandidatesBehind
  <2> DEFINE qc == toClient[c]
             qd == toClient[d]
  <2>5. /\ \A m : Has(Append(qc, "/joined"), m) <=> Has(qc, m) \/ "/joined" = m
        /\ \A m : Once(qc, m) /\ m # "/joined" => Once(Append(qc, "/joined"), m)
        /\ OfferBehind(Append(qc, "/joined")) => OfferBehind(qc)
        /\ CandidatesBehind(qc) => CandidatesBehind(Append(qc, "/joined"))
        /\ Append(qc, "/joined") # <<>>
        /\ qc = <<>> => OnlyJoined(Append(qc, "/joined"))
        /\ qc = <<>> /\ client[c] = "NOT_CONNECTED" =>
             Expected(Append(qc, "/joined"), "NOT_CONNECTED")
    <3>1. "/joined" \in T
      OBVIOUS
    <3>2. Expected(<<>>, "NOT_CONNECTED")
      BY DEF Expected
    <3>4. qc = <<>> => OnlyJoined(Append(qc, "/joined"))
      BY <1>1, <3>1, AppendChannel DEF OnlyJoined
    <3>5. Append(qc, "/joined") # <<>>
      BY <1>1, <3>1, AppendChannel
    <3>6. qc = <<>> => Expected(Append(qc, "/joined"), "NOT_CONNECTED")
      BY <1>1, <3>1, <3>2, AppendExpected
    <3> HIDE DEF T
    <3> QED BY <1>1, <3>1, <3>4, <3>5, <3>6, AppendChannel
  <2>6. /\ \A m : Has(Append(qd, "/other_join"), m) <=> Has(qd, m) \/ "/other_join" = m
        /\ \A m : Once(qd, m) /\ m # "/other_join" => Once(Append(qd, "/other_join"), m)
        /\ OfferBehind(Append(qd, "/other_join")) => OfferBehind(qd)
        /\ CandidatesBehind(qd) => CandidatesBehind(Append(qd, "/other_join"))
        /\ Append(qd, "/other_join") # <<>>
        /\ Expected(qd, client[d]) /\ OnlyJoined(qd)
             /\ ((client[d] = "NOT_CONNECTED" /\ qd # <<>>) \/ client[d] = "SIGNED_IN") =>
             Expected(Append(qd, "/other_join"), client[d])
    <3>1. "/other_join" \in T
      OBVIOUS
    <3> HIDE DEF T, qd
    <3>3. Append(qd, "/other_join") # <<>>
      BY <1>1, <3>1, AppendChannel DEF qd
    <3>4. /\ Expected(qd, client[d]) /\ OnlyJoined(qd)
             /\ ((client[d] = "NOT_CONNECTED" /\ qd # <<>>) \/ client[d] = "SIGNED_IN") =>
             Expected(Append(qd, "/other_join"), client[d])
      BY <1>1, <3>1, AppendExpected DEF qd
    <3> QED BY <1>1, <3>1, <3>3, <3>4, AppendChannel DEF qd
  <2>7. /\ client[c] \in {"off", "NOT_CONNECTED"} /\ sig[c] = "none"
        /\ client[c] # "off" => toClient[c] = <<>>
        /\ client[d] \in {"off", "NOT_CONNECTED", "SIGNED_IN", "CONNECTTOPEER"}
    BY <2>3 DEF PairOK, LocalOK, TypeOK
  <2> HIDE DEF q, r, qc, qd, chunk, T, S
  <2>8. LocalOK(c)' /\ LocalOK(d)'
    BY <1>1, <1>6, <2>1, <2>3, <2>4, <2>7 DEF PairOK, LocalOK, q
  <2>9. OfferOK(c, d)' /\ OfferOK(d, c)'
    <3>1. NoOffer(c)'
      BY <1>1, <2>1, <2>4, <2>5, <2>7, ShortChannels DEF NoOffer, Fresh, qc
    <3>2. OfferOK(d, c)'
      BY <1>1, <2>1, <2>6, <3>1 DEF PairOK, OfferOK, qd
    <3>3. OfferOK(c, d)'
      BY <1>1, <2>1, <2>5, <2>7, ShortChannels DEF PairOK, OfferOK, Fresh, qc
    <3> QED BY <3>2, <3>3
  <2>10. restarts = 0 => AnswerOK(c, d)' /\ AnswerOK(d, c)'
    BY <1>1, <1>6, <2>1, <2>3, <2>4, <2>5, <2>6, <2>7
       DEF PairOK, LocalOK, AnswerOK, OfferOut, AnswerOut, q, qc, qd
  <2>11. Undisturbed => CandidateOK(c, d)' /\ CandidateOK(d, c)'
    <3> SUFFICES ASSUME Undisturbed PROVE CandidateOK(c, d)' /\ CandidateOK(d, c)'
      OBVIOUS
    <3>1. /\ client[c] # "off" /\ (d \in room => client[d] # "off")
          /\ client[d] # "CONNECTTOPEER" /\ OnlyJoined(qd)
      BY <1>2, <1>6, <2>3, <2>2 DEF PairOK, LocalOK, AnswerOK, CandidateOK, q, qd
    <3>2. CandidateOK(c, d)'
      BY <1>1, <2>1, <2>5, <2>7, <3>1 DEF PairOK, CandidateOK, Ready, HasDescription, qc
    <3>3. CandidateOK(d, c)'
      BY <1>1, <2>1, <2>4, <2>6, <2>7, <3>1
         DEF PairOK, CandidateOK, Ready, HasDescription, qd
    <3> QED BY <3>2, <3>3
  <2> QED BY <1>1, <1>2, <2>8, <2>9, <2>10, <2>11 DEF PairOK
<1>8. CASE chunk # <<"/join">>
  <2> DEFINE x == q[1]
             qd == toClient[d]
  <2>1. ~Has(q, "/join")
    <3>1. SUFFICES ASSUME Has(q, "/join") PROVE FALSE
      OBVIOUS
    <3>2. q \in {<<"/join">>, <<"/join", "end">>}
      BY <3>1 DEF PairOK, LocalOK
    <3>3. n = 1 /\ q[1] = "/join"
      <4>1. CASE q = <<"/join">>
        BY <1>1, <4>1
      <4>2. CASE q = <<"/join", "end">>
        <5>1. Len(q) = 2 /\ q[1] = "/join" /\ q[2] = "end"
          BY <4>2
        <5>2. n # 2
          BY <1>5, <5>1
        <5> QED BY <1>1, <5>1, <5>2
      <4> QED BY <3>2, <4>1, <4>2
    <3>4. <<"/join">> \in Seq(S) /\ Len(<<"/join">>) = 1 /\ <<"/join">>[1] = "/join"
      OBVIOUS
    <3>5. \A i \in 1 .. Len(chunk) : chunk[i] = <<"/join">>[i]
      BY <1>4, <3>3
    <3> HIDE DEF chunk, S
    <3>6. chunk = <<"/join">>
      BY <1>4, <3>3, <3>4, <3>5, SeqEqual
    <3> QED BY <1>8, <3>6
  <2>2. x \in Messages
    BY <1>3, <1>5, <1>6, <2>1
  <2>3. /\ room' = room /\ toClient'[c] = toClient[c]
        /\ d \in room => toClient'[d] = Append(qd, x)
        /\ d \notin room => toClient'[d] = qd
    BY <1>4, <1>8, <2>2 DEF ServerData, TypeOK, Write, Others
  <2>4. /\ \A m : Has(Append(qd, x), m) <=> Has(qd, m) \/ x = m
        /\ \A m : Once(qd, m) /\ (x = m => ~Has(qd, m)) => Once(Append(qd, x), m)
        /\ OfferBehind(Append(qd, x)) =>
             OfferBehind(qd) \/ (x = "offer" /\ Has(qd, "/other_join"))
        /\ CandidatesBehind(qd) /\ (x = "candidate" => HasDescription(qd)) =>
             CandidatesBehind(Append(qd, x))
        /\ Append(qd, x) # <<>>
        /\ Expected(qd, client[d]) /\ (client[d] = "NOT_CONNECTED" => qd # <<>>) =>
             Expected(Append(qd, x), client[d])
    <3>1. x \in T
      BY <2>2
    <3> HIDE DEF T, x, qd
    <3>3. Append(qd, x) # <<>>
      BY <1>1, <3>1, AppendChannel DEF qd
    <3>4. Expected(qd, client[d]) /\ (client[d] = "NOT_CONNECTED" => qd # <<>>) =>
             Expected(Append(qd, x), client[d])
      BY <1>1, <2>2, <3>1, AppendExpected DEF qd
    <3> QED BY <1>1, <3>1, <3>3, <3>4, AppendChannel DEF qd
  <2>5. x = "candidate" => ~CandidatesBehind(q)
    BY <1>3 DEF CandidatesBehind
  <2>6. x \in {"offer", "answer", "candidate"} /\ Has(q, x)
        /\ (\A m : Once(q, m) /\ x = m => ~Has(r, m))
    BY <1>6, <2>2 DEF Messages
  <2> HIDE DEF q, r, qd, chunk, T, S, x
  <2>8. LocalOK(c)' /\ LocalOK(d)'
    BY <1>1, <1>6, <2>1, <2>3 DEF PairOK, LocalOK, q, qd
  <2>9. OfferOK(c, d)' /\ OfferOK(d, c)'
    <3>1. OfferOK(c, d)'
      BY <1>1, <1>6, <2>3, <2>4, <2>6 DEF PairOK, OfferOK, NoOffer, qd
    <3>2. x = "offer" => NoOffer(c)' /\ ~NoOffer(c)
      BY <1>1, <1>6, <2>1, <2>3, <2>6 DEF PairOK, LocalOK, NoOffer, Fresh, q
    <3>3. NoOffer(c) => NoOffer(c)'
      BY <1>1, <1>6, <2>3 DEF NoOffer, q
    <3>4. OfferOK(d, c)'
      BY <1>1, <2>3, <2>4, <2>6, <3>2, <3>3 DEF PairOK, OfferOK, qd
    <3> QED BY <3>1, <3>4
  <2>10. restarts = 0 => AnswerOK(c, d)' /\ AnswerOK(d, c)'
    <3> SUFFICES ASSUME restarts = 0 PROVE AnswerOK(c, d)' /\ AnswerOK(d, c)'
      OBVIOUS
    <3>1. client[c] # "off" /\ (d \in room => client[d] # "off")
      BY <2>6, ShortChannels DEF PairOK, LocalOK, AnswerOK, q
    <3>2. AnswerOK(c, d)'
      BY <1>1, <1>6, <2>3, <2>4, <2>6, <3>1
         DEF PairOK, LocalOK, AnswerOK, OfferOut, AnswerOut, q, qd
    <3>3. AnswerOK(d, c)'
      BY <1>1, <1>6, <2>3, <2>4, <2>6, <3>1
         DEF PairOK, LocalOK, AnswerOK, OfferOut, AnswerOut, q, qd
    <3> QED BY <3>2, <3>3
  <2>11. Undisturbed => CandidateOK(c, d)' /\ CandidateOK(d, c)'
    <3> SUFFICES ASSUME Undisturbed PROVE CandidateOK(c, d)' /\ CandidateOK(d, c)'
      OBVIOUS
    <3>1. client[c] # "off" /\ c \in room
      BY <1>2, <2>1, <2>6, ShortChannels DEF PairOK, LocalOK, AnswerOK, q
    <3>2. d \in room
      <4>1. d \notin room => ~Ready(d) /\ ~HasDescription(qd)
        BY <1>2, ShortChannels
           DEF PairOK, LocalOK, AnswerOK, Ready, HasDescription, qd
      <4>2. d \notin room => client[c] # "CONNECTTOPEER" /\ sig[c] = "none"
        BY DEF PairOK, LocalOK, CandidateOK
      <4>3. x # "candidate" => d \in room
        BY <2>6, <3>1, <4>2 DEF PairOK, LocalOK, q
      <4>4. x = "candidate" => d \in room
        BY <2>5, <4>1 DEF PairOK, CandidateOK, q, qd
      <4> QED BY <4>3, <4>4
    <3>3. CandidateOK(c, d)'
      BY <1>1, <2>3, <3>1, <3>2 DEF PairOK, CandidateOK, Ready
    <3>4. CASE x = "candidate"
      <4>1. Ready(d) \/ HasDescription(qd)
        BY <2>5, <3>4 DEF PairOK, CandidateOK, q, qd
      <4>2. HasDescription(qd) => HasDescription(Append(qd, x))
        BY <2>4 DEF HasDescription
      <4>3. CandidateOK(d, c)'
        BY <1>1, <2>3, <2>4, <3>1, <3>2, <3>4, <4>1, <4>2
           DEF PairOK, CandidateOK, Ready, qd
      <4> QED BY <3>3, <4>3
    <3>5. CASE x # "candidate"
      <4>1. HasDescription(Append(qd, x))
        BY <2>4, <2>6, <3>5 DEF HasDescription
      <4>2. CandidateOK(d, c)'
        BY <1>1, <2>3, <2>4, <3>1, <3>2, <3>5, <4>1
           DEF PairOK, CandidateOK, Ready, qd
      <4> QED BY <3>3, <4>2
    <3> QED BY <3>4, <3>5
  <2> QED BY <1>1, <1>2, <2>8, <2>9, <2>10, <2>11 DEF PairOK
<1> QED BY <1>7, <1>8

\* A message that is cut in two is dropped.
LEMMA PartialReadStep ==
  ASSUME TypeOK, NEW c \in Clients, NEW d \in Clients, c # d, PairOK(c, d), PairOK(d, c),
         OnPartialRead(c)
  PROVE  PairOK(c, d)' /\ PairOK(d, c)'
<1> DEFINE q == toClient[c]
           T == Messages \cup {"/joined", "/other_join", "/wait"}
<1>1. /\ toClient'[c] = Tail(q) /\ toClient'[d] = toClient[d] /\ toServer' = toServer
      /\ client[c] \in {"SIGNED_IN", "CONNECTTOPEER"} /\ client'[c] = "CONNECTTOPEER"
      /\ client'[d] = client[d] /\ sig'[d] = sig[d]
      /\ sig'[c] = sig[c] \/ (sig[c] = "none" /\ sig'[c] = "idle")
      /\ room' = room /\ refused' = refused /\ restarts' = restarts
      /\ q \in Seq(T) /\ q # <<>>
  BY DEF OnPartialRead, TypeOK
<1>2. cut'
  BY Zenon DEF OnPartialRead
<1>3. ~Undisturbed'
  BY <1>2, Zenon DEF Undisturbed
<1>4. Len(q) \in Nat /\ 1 <= Len(q) /\ Tail(q) = Left(q, 1)
  BY <1>1, EmptySeq DEF Left
<1> HIDE DEF q, T
<1>5. /\ \A m : Has(Tail(q), m) => Has(q, m)
      /\ \A m : Once(q, m) => Once(Tail(q), m)
  <2>1. /\ \A m : Has(Left(q, 1), m) => Has(q, m)
        /\ \A m : Once(q, m) => Once(Left(q, 1), m)
    BY <1>1, <1>4, LeftChannel
  <2> QED BY <1>4, <2>1
<1>6. c \in room
  BY <1>1 DEF PairOK, LocalOK, q
<1>7. LocalOK(c)' /\ LocalOK(d)'
  BY <1>1, <1>6 DEF PairOK, LocalOK, q
<1>8. OfferOK(c, d)' /\ OfferOK(d, c)'
  BY <1>1, <1>5, <1>6 DEF PairOK, OfferOK, NoOffer, Fresh, q
<1>9. restarts = 0 => AnswerOK(c, d)' /\ AnswerOK(d, c)'
  BY <1>1, <1>5, <1>6 DEF PairOK, AnswerOK, OfferOut, AnswerOut, q
<1> QED BY <1>1, <1>3, <1>7, <1>8, <1>9 DEF PairOK

\* The row of ifs: a read of n writes starts with k control messages that are
\* acted on; a message behind them is heard, and what follows is lost.
Controls(q, n, k, old, cl) ==
  /\ k \in 0 .. 2 /\ k <= n /\ \A i \in 1 .. k : q[i] \in {"/joined", "/other_join"}
  /\ \/ k = 0 /\ cl = old
     \/ k = 1 /\ cl = "SIGNED_IN" /\ old = "NOT_CONNECTED" /\ q[1] = "/joined"
     \/ k > 0 /\ cl = "CONNECTTOPEER" /\ old \in Fresh /\ q[k] = "/other_join"
  /\ cl = "NOT_CONNECTED" => q[1] # "/joined"
  /\ cl = "SIGNED_IN" /\ k < n => q[k + 1] # "/other_join"

Hears(q, n, k, cl) == cl # "NOT_CONNECTED" /\ k < n /\ q[k + 1] \in Messages

\* What OnRead does, in those words
LEMMA ReadCases ==
  ASSUME TypeOK, NEW c \in Clients, NEW n \in Nat \ {0}, OnRead(c, n)
  PROVE  \E k \in Nat, cl \in {"NOT_CONNECTED", "SIGNED_IN", "CONNECTTOPEER"} :
           LET q  == toClient[c]
               m  == q[k + 1]
               s2 == IF cl = client[c] \/ cl = "SIGNED_IN" THEN sig[c] ELSE ConnectToPeer(sig[c])
           IN /\ Controls(q, n, k, client[c], cl)
              /\ Hears(q, n, k, cl) =>
                   /\ client'[c] = "CONNECTTOPEER" /\ sig'[c] = Applied(s2, m)
                   /\ refused'[c] = IF Accepts(s2, m) THEN refused[c] ELSE refused[c] \cup {m}
              /\ ~Hears(q, n, k, cl) =>
                   client'[c] = cl /\ sig'[c] = s2 /\ refused'[c] = refused[c]
<1> DEFINE T == Messages \cup {"/joined", "/other_join", "/wait"}
           q      == toClient[c]
           b0     == SubSeq(toClient[c], 1, n)
           joins  == client[c] = "NOT_CONNECTED" /\ Starts(b0, "/joined")
           b1     == IF joins THEN Rest(b0) ELSE b0
           c1     == IF joins THEN "SIGNED_IN" ELSE client[c]
           meets  == c1 = "SIGNED_IN" /\ Starts(b1, "/other_join")
           b2     == IF meets THEN Rest(b1) ELSE b1
           c2     == IF meets THEN "CONNECTTOPEER" ELSE c1
           s2     == IF meets THEN ConnectToPeer(sig[c]) ELSE sig[c]
           hears  == c2 # "NOT_CONNECTED" /\ b2 # <<>> /\ Head(b2) \in Messages
           j      == IF joins THEN 1 ELSE 0
           k      == IF meets THEN j + 1 ELSE j
<1>1. /\ q \in Seq(T) /\ n <= Len(q) /\ client[c] # "off"
      /\ client'[c] = IF hears THEN "CONNECTTOPEER" ELSE c2
      /\ sig'[c] = IF hears THEN Applied(s2, Body(b2)) ELSE s2
      /\ refused'[c] = IF hears /\ ~Accepts(s2, Body(b2))
                       THEN refused[c] \cup {Body(b2)} ELSE refused[c]
      /\ client[c] \in {"off", "NOT_CONNECTED", "SIGNED_IN", "CONNECTTOPEER"}
  BY DEF OnRead, TypeOK
<1>2. b0 \in Seq(T) /\ Len(b0) = n /\ \A i \in 1 .. n : b0[i] = q[i]
  BY <1>1, LenProperties, SubSeqProperties
<1> HIDE DEF q, b0, T
<1>3. joins <=> client[c] = "NOT_CONNECTED" /\ q[1] = "/joined"
  BY <1>2, EmptySeq, HeadTailProperties DEF Starts
<1> HIDE DEF joins
<1>4. b1 \in Seq(T) /\ Len(b1) = n - j /\ \A i \in 1 .. n - j : b1[i] = q[j + i]
  <2>1. CASE joins
    BY <1>2, <2>1, EmptySeq, HeadTailProperties DEF Rest
  <2>2. CASE ~joins
    BY <1>2, <2>2
  <2> QED BY <2>1, <2>2
<1>5. j \in {0, 1} /\ (joins <=> j = 1)
  OBVIOUS
<1> HIDE DEF b1, j
<1>6. meets <=> c1 = "SIGNED_IN" /\ j < n /\ q[j + 1] = "/other_join"
  BY <1>4, <1>5, EmptySeq, HeadTailProperties DEF Starts
<1> HIDE DEF meets
<1>7. b2 \in Seq(T) /\ Len(b2) = n - k /\ \A i \in 1 .. n - k : b2[i] = q[k + i]
  <2>1. CASE meets
    <3>1. Len(b1) # 0 /\ k = j + 1 /\ b2 = Tail(b1)
      BY <1>4, <1>5, <1>6, <2>1 DEF Rest
    <3>2. b1 # <<>>
      BY <3>1, EmptySeq
    <3>3. /\ Tail(b1) \in Seq(T) /\ Len(Tail(b1)) = Len(b1) - 1
          /\ \A i \in 1 .. Len(Tail(b1)) : Tail(b1)[i] = b1[i + 1]
      BY <1>4, <3>2, HeadTailProperties
    <3>4. \A i \in 1 .. n - k : i + 1 \in 1 .. n - j /\ j + (i + 1) = k + i
      BY <1>5, <3>1
    <3> HIDE DEF b2, k
    <3> QED BY <1>4, <1>5, <3>1, <3>3, <3>4
  <2>2. CASE ~meets
    BY <1>4, <2>2
  <2> QED BY <2>1, <2>2
<1>8. k \in 0 .. 2 /\ k <= n /\ (meets => k = j + 1) /\ (~meets => k = j)
  BY <1>5, <1>6
<1> HIDE DEF b2, k
<1>9. b2 # <<>> => Len(b2) # 0 /\ Head(b2) = b2[1]
  BY <1>7, EmptySeq, HeadTailProperties
<1>10. b2 = <<>> => Len(b2) = 0
  BY EmptySeq
<1>11. (b2 # <<>> <=> k < n) /\ (k < n => Head(b2) = q[k + 1])
  BY <1>7, <1>8, <1>9, <1>10
<1>12. hears <=> Hears(q, n, k, c2)
  BY <1>11 DEF Hears
<1>13. Hears(q, n, k, c2) => Body(b2) = q[k + 1]
  BY <1>11 DEF Hears, Body
<1>14. Controls(q, n, k, client[c], c2)
  BY <1>1, <1>3, <1>5, <1>6, <1>8 DEF Controls, Fresh
<1>15. s2 = IF c2 = client[c] \/ c2 = "SIGNED_IN" THEN sig[c] ELSE ConnectToPeer(sig[c])
  BY <1>1, <1>3, <1>6
<1>16. k \in Nat /\ c2 \in {"NOT_CONNECTED", "SIGNED_IN", "CONNECTTOPEER"}
  BY <1>1, <1>8
<1> HIDE DEF hears, c2, s2
<1> QED
  BY <1>1, <1>12, <1>13, <1>14, <1>15, <1>16 DEF q

\* A read by a client
LEMMA ReadStep ==
  ASSUME TypeOK, NEW c \in Clients, NEW d \in Clients, c # d, PairOK(c, d), PairOK(d, c),
         NEW n \in Nat \ {0}, OnRead(c, n)
  PROVE  PairOK(c, d)' /\ PairOK(d, c)'
<1> DEFINE q == toClient[c]
           r == Left(q, n)
           T == Messages \cup {"/joined", "/other_join", "/wait"}
<1>1. /\ toClient'[c] = r /\ toClient'[d] = toClient[d] /\ toServer' = toServer
      /\ client'[d] = client[d] /\ sig'[d] = sig[d] /\ refused'[d] = refused[d]
      /\ room' = room /\ restarts' = restarts
      /\ q \in Seq(T) /\ n <= Len(q) /\ client[c] # "off"
  BY DEF OnRead, TypeOK, Left
<1>2. (Undisturbed' <=> Undisturbed) /\ (Undisturbed => restarts = 0)
  BY DEF Undisturbed, OnRead
<1>3. PICK k \in Nat, cl \in {"NOT_CONNECTED", "SIGNED_IN", "CONNECTTOPEER"} :
        LET m  == q[k + 1]
            s2 == IF cl = client[c] \/ cl = "SIGNED_IN" THEN sig[c] ELSE ConnectToPeer(sig[c])
        IN /\ Controls(q, n, k, client[c], cl)
           /\ Hears(q, n, k, cl) =>
                /\ client'[c] = "CONNECTTOPEER" /\ sig'[c] = Applied(s2, m)
                /\ refused'[c] = IF Accepts(s2, m) THEN refused[c] ELSE refused[c] \cup {m}
           /\ ~Hears(q, n, k, cl) =>
                client'[c] = cl /\ sig'[c] = s2 /\ refused'[c] = refused[c]
  BY ReadCases
<1> DEFINE m == q[k + 1]
           s2 == IF cl = client[c] \/ cl = "SIGNED_IN" THEN sig[c] ELSE ConnectToPeer(sig[c])
           hears == Hears(q, n, k, cl)
<1>4. /\ Controls(q, n, k, client[c], cl)
      /\ hears => /\ client'[c] = "CONNECTTOPEER" /\ sig'[c] = Applied(s2, m)
                  /\ refused'[c] = IF Accepts(s2, m) THEN refused[c] ELSE refused[c] \cup {m}
      /\ ~hears => client'[c] = cl /\ sig'[c] = s2 /\ refused'[c] = refused[c]
  BY <1>3
<1> HIDE DEF T, q, r
<1>5. Len(q) \in Nat /\ \A i \in 1 .. Len(q) : q[i] \in T
  BY <1>1, LenProperties
<1>6. /\ \A x : Has(r, x) <=> \E i \in n + 1 .. Len(q) : q[i] = x
      /\ \A x : Has(r, x) => Has(q, x)
      /\ \A x : Once(q, x) => Once(r, x)
      /\ OfferBehind(r) => OfferBehind(q)
      /\ CandidatesBehind(q) /\ (\A i \in 1 .. n : q[i] \notin Descriptions) =>
              CandidatesBehind(r)
      /\ Len(r) = Len(q) - n /\ \A i \in 1 .. Len(q) - n : r[i] = q[n + i]
  <2>1. n \in Nat /\ r = Left(q, n)
    BY DEF r
  <2> HIDE DEF m, s2, hears
  <2>2. /\ \A x : Has(r, x) <=> \E i \in n + 1 .. Len(q) : q[i] = x
        /\ \A x : Has(r, x) => Has(q, x)
        /\ \A x : Once(q, x) => Once(r, x)
    BY <1>1, <2>1, LeftChannel
  <2>3. /\ OfferBehind(r) => OfferBehind(q)
        /\ CandidatesBehind(q) /\ (\A i \in 1 .. n : q[i] \notin Descriptions) =>
             CandidatesBehind(r)
    BY <1>1, <2>1, LeftChannel
  <2>4. Len(r) = Len(q) - n /\ \A i \in 1 .. Len(q) - n : r[i] = q[n + i]
    <3>1. /\ Len(Left(q, n)) = Len(q) - n
          /\ \A i \in 1 .. Len(q) - n : Left(q, n)[i] = q[n + i]
      BY <1>1, <1>5, SubSeqProperties DEF Left
    <3> QED BY <2>1, <3>1, Zenon
  <2> QED BY <2>2, <2>3, <2>4
<1>7. c \in room
  BY <1>1, ShortChannels, EmptySeq DEF PairOK, LocalOK, q
\* The control messages make a client meet its peer, or leave sig alone.
<1>8. /\ \/ s2 = sig[c] /\ (cl = client[c] \/ (cl = "SIGNED_IN" /\ client[c] = "NOT_CONNECTED"))
         \/ /\ client[c] \in Fresh /\ cl = "CONNECTTOPEER" /\ sig[c] = "none"
            /\ s2 = "offering" /\ k > 0 /\ q[k] = "/other_join" /\ Has(q, "/other_join")
      /\ k \in 0 .. 2 /\ k <= n
  <2>1. k > 0 => k \in 1 .. Len(q)
    BY <1>1, <1>4, <1>5 DEF Controls
  <2>2. client[c] \in Fresh => sig[c] = "none"
    BY DEF PairOK, LocalOK, Fresh
  <2> QED BY <1>4, <2>1, <2>2 DEF Controls, ConnectToPeer, Has, Fresh
<1>9. hears => /\ m \in {"offer", "answer", "candidate"} /\ Has(q, m)
               /\ (Once(q, m) => ~Has(r, m))
               /\ (k > 0 /\ q[k] = "/other_join" /\ m = "offer" => OfferBehind(q))
  <2> SUFFICES ASSUME hears
               PROVE  /\ m \in {"offer", "answer", "candidate"} /\ Has(q, m)
                      /\ (Once(q, m) => ~Has(r, m))
                      /\ (k > 0 /\ q[k] = "/other_join" /\ m = "offer" => OfferBehind(q))
    OBVIOUS
  <2>1. m \in Messages /\ k + 1 \in 1 .. n /\ k + 1 \in 1 .. Len(q)
    BY <1>1, <1>5 DEF Hears
  <2>2. Has(q, m)
    BY <2>1 DEF Has
  <2>3. Once(q, m) => ~Has(r, m)
    <3> SUFFICES ASSUME Once(q, m), NEW i \in n + 1 .. Len(q), q[i] = m PROVE FALSE
      BY <1>6
    <3>1. i \in 1 .. Len(q) /\ i # k + 1
      BY <1>5, <2>1
    <3> QED BY <2>1, <3>1 DEF Once
  <2>4. k > 0 /\ q[k] = "/other_join" /\ m = "offer" => OfferBehind(q)
    <3>1. k > 0 => k \in 1 .. Len(q) /\ k + 1 > k
      BY <1>5, <2>1
    <3> QED BY <2>1, <3>1 DEF OfferBehind
  <2> QED BY <2>1, <2>2, <2>3, <2>4 DEF Messages
<1>10. k > 0 /\ q[k] = "/other_join" /\ Has(r, "offer") => OfferBehind(q)
  <2> SUFFICES ASSUME k > 0, q[k] = "/other_join", NEW i \in n + 1 .. Len(q), q[i] = "offer"
               PROVE  OfferBehind(q)
    BY <1>6
  <2>1. k \in 1 .. Len(q) /\ i \in 1 .. Len(q) /\ i > k
    BY <1>1, <1>5, <1>8
  <2> QED BY <2>1 DEF OfferBehind
<1>11. sig[c] \in {"none", "idle", "offering", "offered", "answering", "stable"}
       /\ client[c] \in {"NOT_CONNECTED", "SIGNED_IN", "CONNECTTOPEER"}
  BY <1>1 DEF TypeOK
<1> HIDE DEF m, s2, hears
\* An offer is only heard by a client that can take it.
<1>12. hears /\ m = "offer" => s2 \in {"none", "idle"} /\ sig[c] = s2
  BY <1>1, <1>7, <1>8, <1>9, <1>11 DEF PairOK, OfferOK, q
\* What the message does to the connection
<1>13. /\ \/ sig'[c] = s2
          \/ hears /\ s2 = "none" /\ sig'[c] = "idle" /\ m # "offer"
          \/ hears /\ m = "offer" /\ sig'[c] = "answering"
          \/ hears /\ m = "answer" /\ s2 = "offered" /\ sig'[c] = "stable"
       /\ hears /\ m = "offer" => sig'[c] = "answering"
       /\ hears /\ m = "answer" /\ s2 = "offered" => sig'[c] = "stable"
       /\ \/ refused'[c] = refused[c]
          \/ hears /\ refused'[c] = refused[c] \cup {m} /\ m # "offer"
             /\ (m = "answer" => s2 # "offered")
             /\ (m = "candidate" => s2 \notin {"answering", "stable"})
       /\ (hears /\ client'[c] = "CONNECTTOPEER") \/ (~hears /\ client'[c] = cl /\ sig'[c] = s2)
  BY <1>4, <1>9, <1>12 DEF Applied, Accepts
<1>14. LocalOK(c)' /\ LocalOK(d)'
  BY <1>1, <1>7, <1>8, <1>11, <1>12, <1>13 DEF PairOK, LocalOK, Fresh
<1>15. OfferOK(c, d)' /\ OfferOK(d, c)'
  <2>1. "offer" \notin refused'[c] /\ "offer" \notin refused[c]
    BY <1>13 DEF PairOK, OfferOK
  <2>2. sig'[c] \notin {"none", "idle"} => ~Has(r, "offer")
    BY <1>1, <1>6, <1>7, <1>8, <1>9, <1>10, <1>12, <1>13 DEF PairOK, OfferOK, q
  <2>3. NoOffer(d) => NoOffer(d)'
    BY <1>1 DEF NoOffer
  <2>4. client'[c] \in Fresh => client[c] \in Fresh
    BY <1>8, <1>13 DEF Fresh
  <2>5. OfferOK(c, d)'
    BY <1>1, <1>6, <1>7, <1>8, <1>9, <1>12, <1>13, <2>1, <2>2, <2>3, <2>4
       DEF PairOK, OfferOK, q
  <2>6. NoOffer(c) => NoOffer(c)'
    BY <1>1, <1>6, <1>8, <1>13, <2>4 DEF NoOffer, q
  <2>7. OfferOK(d, c)'
    BY <1>1, <2>6 DEF PairOK, OfferOK
  <2> QED BY <2>5, <2>7
<1>16. restarts = 0 => AnswerOK(c, d)' /\ AnswerOK(d, c)'
  <2> SUFFICES ASSUME restarts = 0 PROVE AnswerOK(c, d)' /\ AnswerOK(d, c)'
    OBVIOUS
  <2>1. Has(q, "answer") => sig[c] = "offered" /\ s2 = "offered"
    BY <1>8 DEF PairOK, AnswerOK, AnswerOut, q
  <2>2. AnswerOK(c, d)'
    BY <1>1, <1>4, <1>6, <1>8, <1>9, <1>12, <1>13, <2>1
       DEF PairOK, AnswerOK, OfferOut, AnswerOut, q, Fresh
  <2>3. hears /\ m = "offer" => ~Has(toServer[d], "offer") /\ ~Has(r, "offer")
    BY <1>1, <1>7, <1>9 DEF PairOK, OfferOK, NoOffer, q
  <2>4. AnswerOK(d, c)'
    BY <1>1, <1>6, <1>8, <1>9, <1>12, <1>13, <2>1, <2>3
       DEF PairOK, AnswerOK, OfferOut, AnswerOut, q
  <2> QED BY <2>2, <2>4
<1>17. Undisturbed => CandidateOK(c, d)' /\ CandidateOK(d, c)'
  <2> SUFFICES ASSUME Undisturbed PROVE CandidateOK(c, d)' /\ CandidateOK(d, c)'
    OBVIOUS
  <2>1. CandidateOK(c, d) /\ CandidateOK(d, c) /\ restarts = 0
    BY <1>2 DEF PairOK
  <2>2. Expected(q, client[c])
    BY <2>1 DEF CandidateOK, q
  <2>3. \A i \in 1 .. k : q[i] \notin Messages
    BY <1>4 DEF Controls, Messages
  <2>4. client[c] = "NOT_CONNECTED" => q[1] = "/joined"
    BY <1>1, <1>5, <2>2 DEF Expected
  <2>5. cl # "NOT_CONNECTED" /\ (client[c] = "NOT_CONNECTED" => k > 0)
    BY <1>4, <2>4, <1>11 DEF Controls
  \* A message that the control messages leave in the read is heard.
  <2>6. hears \/ k = n
    <3> SUFFICES ASSUME k # n PROVE hears
      OBVIOUS
    <3>1. k < n /\ k + 1 \in 1 .. Len(q)
      BY <1>1, <1>5, <1>8
    <3>2. q[k + 1] \in T /\ q[k + 1] # "/joined" /\ q[k + 1] # "/wait"
      BY <1>5, <1>8, <2>2, <2>5, <3>1 DEF Expected
    <3>3. q[k + 1] # "/other_join"
      BY <1>4, <1>8, <2>2, <2>5, <3>1 DEF Expected, Controls, Fresh
    <3> QED BY <2>5, <3>1, <3>2, <3>3 DEF Hears, T, hears
  <2>7. Ready(c) => s2 = sig[c] /\ Ready(c)'
    BY <1>8, <1>12, <1>13 DEF Ready
  <2>8. hears /\ m = "candidate" => Ready(c)
    <3> SUFFICES ASSUME hears, m = "candidate", ~Ready(c) PROVE FALSE
      OBVIOUS
    <3>1. k + 1 \in 1 .. Len(q) /\ q[k + 1] = "candidate"
      BY <1>1, <1>5 DEF hears, Hears, m
    <3>2. PICK i \in 1 .. (k + 1) - 1 : q[i] \in Descriptions
      BY <2>1, <3>1 DEF CandidateOK, CandidatesBehind, q
    <3>3. i \in 1 .. k
      BY <1>8
    <3> QED BY <2>3, <3>2, <3>3 DEF Descriptions, Messages
  <2>9. Ready(c)' \/ \A i \in 1 .. n : q[i] \notin Descriptions
    <3>1. CASE hears
      <4>1. Has(q, "answer") => s2 = "offered"
        BY <1>8, <2>1 DEF PairOK, AnswerOK, AnswerOut, q
      <4> QED BY <1>9, <1>13, <2>7, <2>8, <3>1, <4>1 DEF Ready
    <3>2. CASE ~hears
      BY <2>3, <2>6, <3>2 DEF Descriptions, Messages
    <3> QED BY <3>1, <3>2
  <2>10. Ready(c)' \/ (HasDescription(q) => HasDescription(r))
    <3> SUFFICES ASSUME \A i \in 1 .. n : q[i] \notin Descriptions, HasDescription(q)
                 PROVE  HasDescription(r)
      BY <2>9
    <3>1. PICK i \in 1 .. Len(q) : q[i] \in Descriptions
      BY DEF HasDescription, Has, Descriptions
    <3>2. i \in n + 1 .. Len(q)
      BY <1>5, <3>1
    <3> QED BY <1>6, <3>1, <3>2 DEF HasDescription, Descriptions
  <2>11. client'[c] # "NOT_CONNECTED"
    BY <1>13, <2>5
  <2>12. Expected(r, client'[c])
    <3> SUFFICES ASSUME NEW i \in 1 .. Len(r)
                 PROVE  /\ r[i] # "/joined" /\ r[i] # "/wait"
                        /\ r[i] = "/other_join" => i = 1 /\ client'[c] = "SIGNED_IN"
      BY <2>11 DEF Expected
    <3>1. n + i \in 1 .. Len(q) /\ r[i] = q[n + i] /\ n + i > 1
      BY <1>1, <1>5, <1>6
    <3>2. /\ r[i] # "/joined" /\ r[i] # "/wait"
          /\ r[i] = "/other_join" => n + i = 2 /\ client[c] = "NOT_CONNECTED"
      BY <2>2, <3>1 DEF Expected
    <3>3. r[i] = "/other_join" => n = 1 /\ i = 1 /\ k = 1
      BY <1>6, <1>8, <2>5, <3>2
    <3>4. r[i] = "/other_join" => cl = "SIGNED_IN" /\ ~hears
      BY <1>4, <2>4, <3>2, <3>3 DEF Controls, hears, Hears
    <3> QED BY <1>13, <3>2, <3>3, <3>4
  <2>13. OnlyJoined(q) => ~hears /\ OnlyJoined(r) /\ ~Has(q, "/other_join")
    <3> SUFFICES ASSUME OnlyJoined(q) PROVE ~hears /\ OnlyJoined(r) /\ ~Has(q, "/other_join")
      OBVIOUS
    <3>1. ~Has(q, "/other_join") /\ ~Has(q, "offer") /\ ~Has(q, "answer") /\ ~Has(q, "candidate")
      BY DEF OnlyJoined, Has
    <3>2. OnlyJoined(r)
      <4> SUFFICES ASSUME NEW i \in 1 .. Len(r) PROVE r[i] = "/joined"
        BY DEF OnlyJoined
      <4>1. n + i \in 1 .. Len(q) /\ r[i] = q[n + i]
        BY <1>5, <1>6
      <4> QED BY <4>1 DEF OnlyJoined
    <3> QED BY <1>9, <3>1, <3>2
  <2>14. d \notin room => client'[c] # "CONNECTTOPEER" /\ OnlyJoined(r)
    <3> SUFFICES ASSUME d \notin room PROVE client'[c] # "CONNECTTOPEER" /\ OnlyJoined(r)
      OBVIOUS
    <3>1. client[c] # "CONNECTTOPEER" /\ OnlyJoined(q)
      BY <2>1 DEF CandidateOK, q
    <3> QED BY <1>8, <1>13, <2>13, <3>1
  <2>15. "candidate" \notin refused'[c]
    <3>1. "candidate" \notin refused[c]
      BY <2>1 DEF CandidateOK
    <3>2. hears /\ m = "candidate" => s2 \in {"answering", "stable"}
      BY <2>7, <2>8 DEF Ready
    <3> QED BY <1>13, <3>1, <3>2
  <2>16. Ready(c)' \/ CandidatesBehind(r)
    BY <1>6, <2>1, <2>7, <2>9 DEF CandidateOK, q
  <2>17. CandidateOK(c, d)'
    <3>1. Ready(c)' \/ HasDescription(r) \/ CandidatesBehind(toServer[d])
      BY <2>1, <2>7, <2>10 DEF CandidateOK, q
    <3>2. sig[d] \in {"offered", "stable"} =>
            Ready(c)' \/ HasDescription(r) \/ HasDescription(toServer[d])
      BY <2>1, <2>7, <2>10 DEF CandidateOK, q
    <3> QED BY <1>1, <2>11, <2>12, <2>14, <2>15, <2>16, <3>1, <3>2 DEF CandidateOK
  <2>18. CandidateOK(d, c)'
    <3>1. sig'[c] \in {"offered", "stable"} => sig[c] \in {"offered", "stable"}
      BY <1>8, <1>13
    <3>2. Ready(d)' <=> Ready(d)
      BY <1>1 DEF Ready
    <3> QED BY <1>1, <1>7, <2>1, <3>1, <3>2 DEF CandidateOK
  <2> QED BY <2>17, <2>18
<1> QED BY <1>1, <1>2, <1>14, <1>15, <1>16, <1>17 DEF PairOK

-------------------------------------------------------------------------------
(* The theorems                                                            *)

\* Every step keeps the channels and states in their sets.
LEMMA TypeStep ==
  ASSUME TypeOK, [Next]_vars
  PROVE  TypeOK'
<1> DEFINE S == Messages \cup {"/join", "end"}
           T == Messages \cup {"/joined", "/other_join", "/wait"}
           Channels == toServer \in [Clients -> Seq(S)] /\ toClient \in [Clients -> Seq(T)]
           States ==
             /\ room \subseteq Clients
             /\ waits \in 0 .. MaxWaits /\ restarts \in 0 .. MaxRestarts
             /\ client \in [Clients -> {"off", "NOT_CONNECTED", "SIGNED_IN", "CONNECTTOPEER"}]
             /\ sig \in [Clients ->
                           {"none", "idle", "offering", "offered", "answering", "stable"}]
             /\ candidates \in [Clients -> 0 .. MaxCandidates]
             /\ refused \in [Clients -> SUBSET Messages]
<1>t. Channels /\ States
  BY Zenon DEF TypeOK
<1>q. SUFFICES Channels' /\ States'
  <2>1. /\ Wait => cut' = cut
        /\ \A c : /\ Join(c) \/ End(c) \/ ServerEnd(c) => cut' = cut
                  /\ OnSuccess(c) \/ OnIceCandidate(c) => cut' = cut
                  /\ OnPartialRead(c) => cut' = TRUE
    BY Zenon DEF Wait, Join, End, ServerEnd, OnPartialRead, OnSuccess, OnIceCandidate
  <2>2. \A c, n : ServerData(c, n) => cut' = cut
    BY Zenon DEF ServerData
  <2>3. \A c, n : OnRead(c, n) => cut' = cut
    BY DEF OnRead
  <2>4. UNCHANGED vars => cut' = cut
    BY Zenon DEF vars
  <2>5. cut' = cut \/ cut' = TRUE
    BY <2>1, <2>2, <2>3, <2>4, Zenon DEF Next, Serve, Receive
  <2>6. cut' \in BOOLEAN
    BY <2>5, Zenon DEF TypeOK
  <2> QED BY <2>6, Zenon DEF TypeOK
<1>a. /\ Messages \subseteq S /\ Messages \subseteq T /\ "/join" \in S /\ "end" \in S
      /\ "/joined" \in T /\ "/other_join" \in T /\ "/wait" \in T
      /\ "offer" \in S /\ "answer" \in S /\ "candidate" \in S
  BY DEF Messages
<1> HIDE DEF S, T
<1>b. /\ <<>> \in Seq(T) /\ <<"/join">> \in Seq(S)
      /\ \A c \in Clients, x \in S : Append(toServer[c], x) \in Seq(S)
      /\ \A c \in Clients, x \in T : Append(toClient[c], x) \in Seq(T)
  BY <1>t, <1>a, EmptySeq, AppendProperties
<1>w. ASSUME NEW ch \in [Clients -> Seq(T)], NEW ds, NEW x \in T
      PROVE  Write(ch, ds, x) \in [Clients -> Seq(T)]
  BY AppendProperties DEF Write
<1>l. ASSUME NEW R, NEW q \in Seq(R), NEW n \in Nat
      PROVE  SubSeq(q, n + 1, Len(q)) \in Seq(R)
  <2>1. Len(q) \in Nat /\ \A i \in 1 .. Len(q) : q[i] \in R
    BY LenProperties
  <2>2. \A i \in n + 1 .. Len(q) : q[i] \in R
    BY <2>1
  <2> QED BY <2>1, <2>2, SubSeqProperties
<1>1. CASE Wait
  <2>1. toClient' \in [Clients -> Seq(T)]
    BY <1>t, <1>a, <1>w, <1>1 DEF Wait
  <2>2. toServer' \in [Clients -> Seq(S)] /\ States'
    BY <1>t, <1>1, BoundsAssumption DEF Wait
  <2> QED BY <2>1, <2>2
<1>2. ASSUME NEW c \in Clients, Join(c) PROVE Channels' /\ States'
  BY <1>t, <1>a, <1>b, <1>2 DEF Join
<1>3. ASSUME NEW c \in Clients, End(c) PROVE Channels' /\ States'
  BY <1>t, <1>a, <1>b, <1>3, BoundsAssumption DEF End
<1>4. ASSUME NEW c \in Clients, ServerEnd(c) PROVE Channels' /\ States'
  <2>1. Tail(toServer[c]) \in Seq(S)
    BY <1>t, <1>4, HeadTailProperties DEF ServerEnd
  <2> QED BY <1>t, <1>4, <2>1 DEF ServerEnd
<1>5. ASSUME NEW c \in Clients, NEW n \in 1 .. MaxBatch, n \in Nat \ {0}, ServerData(c, n)
      PROVE  Channels' /\ States'
  <2> DEFINE chunk == SubSeq(toServer[c], 1, n)
  <2>1. SubSeq(toServer[c], n + 1, Len(toServer[c])) \in Seq(S)
    BY <1>t, <1>5, <1>l
  <2>2. toServer' \in [Clients -> Seq(S)] /\ States'
    BY <1>t, <1>5, <2>1 DEF ServerData
  <2>3. \/ toClient' = Write(Write(toClient, {c}, "/joined"), Others(c), "/other_join")
        \/ \E x \in Messages : toClient' = Write(toClient, Others(c), x)
        \/ toClient' = toClient
    BY <1>5 DEF ServerData
  <2>4. Write(toClient, {c}, "/joined") \in [Clients -> Seq(T)]
    BY <1>t, <1>a, <1>w
  <2>5. toClient' \in [Clients -> Seq(T)]
    <3>1. CASE toClient' = Write(Write(toClient, {c}, "/joined"), Others(c), "/other_join")
      BY <1>a, <1>w, <2>4, <3>1
    <3>2. CASE \E x \in Messages : toClient' = Write(toClient, Others(c), x)
      <4>1. PICK x \in Messages : toClient' = Write(toClient, Others(c), x)
        BY <3>2
      <4>2. x \in T
        BY <1>a
      <4> QED BY <1>t, <1>w, <4>1, <4>2
    <3> QED BY <1>t, <2>3, <3>1, <3>2
  <2> QED BY <2>2, <2>5
<1>6. ASSUME NEW c \in Clients, NEW n \in 1 .. MaxBatch, n \in Nat \ {0}, OnRead(c, n)
      PROVE  Channels' /\ States'
  <2>1. SubSeq(toClient[c], n + 1, Len(toClient[c])) \in Seq(T)
    BY <1>t, <1>6, <1>l
  <2>2. Channels' /\ room' = room /\ waits' = waits /\ restarts' = restarts
        /\ candidates' = candidates
    BY <1>t, <1>6, <2>1 DEF OnRead
  <2>3. /\ client'[c] \in {"NOT_CONNECTED", "SIGNED_IN", "CONNECTTOPEER"}
        /\ sig'[c] \in {"none", "idle", "offering", "offered", "answering", "stable"}
        /\ refused'[c] \subseteq Messages
    <3>1. PICK k \in Nat, cl \in {"NOT_CONNECTED", "SIGNED_IN", "CONNECTTOPEER"} :
            LET q  == toClient[c]
                m  == q[k + 1]
                s2 == IF cl = client[c] \/ cl = "SIGNED_IN" THEN sig[c] ELSE ConnectToPeer(sig[c])
            IN /\ Controls(q, n, k, client[c], cl)
               /\ Hears(q, n, k, cl) =>
                    /\ client'[c] = "CONNECTTOPEER" /\ sig'[c] = Applied(s2, m)
                    /\ refused'[c] = IF Accepts(s2, m) THEN refused[c] ELSE refused[c] \cup {m}
               /\ ~Hears(q, n, k, cl) =>
                    client'[c] = cl /\ sig'[c] = s2 /\ refused'[c] = refused[c]
      BY <1>6, ReadCases
    <3> DEFINE m  == toClient[c][k + 1]
               s2 == IF cl = client[c] \/ cl = "SIGNED_IN" THEN sig[c] ELSE ConnectToPeer(sig[c])
    <3>2. s2 \in {"none", "idle", "offering", "offered", "answering", "stable"}
      BY <1>t DEF ConnectToPeer
    <3>3. refused[c] \subseteq Messages
      BY <1>t
    <3>4. CASE Hears(toClient[c], n, k, cl)
      <4>1. /\ client'[c] = "CONNECTTOPEER" /\ sig'[c] = Applied(s2, m)
            /\ refused'[c] = IF Accepts(s2, m) THEN refused[c] ELSE refused[c] \cup {m}
            /\ m \in Messages
        BY <3>1, <3>4, Zenon DEF Hears
      <4> HIDE DEF s2, m
      <4>2. Applied(s2, m) \in {"none", "idle", "offering", "offered", "answering", "stable"}
        BY <3>2 DEF Applied
      <4> QED BY <3>3, <4>1, <4>2
    <3>5. CASE ~Hears(toClient[c], n, k, cl)
      <4>1. client'[c] = cl /\ sig'[c] = s2 /\ refused'[c] = refused[c]
        BY <3>1, <3>5, Zenon
      <4> HIDE DEF s2
      <4> QED BY <3>1, <3>2, <3>3, <4>1
    <3> QED BY <3>4, <3>5
  <2>4. /\ client' = [client EXCEPT ![c] = client'[c]] /\ sig' = [sig EXCEPT ![c] = sig'[c]]
        /\ refused' = [refused EXCEPT ![c] = refused'[c]]
    BY <1>t, <1>6 DEF OnRead
  <2>5. client' \in [Clients -> {"off", "NOT_CONNECTED", "SIGNED_IN", "CONNECTTOPEER"}]
    BY <1>t, <2>3, <2>4
  <2>6. sig' \in [Clients -> {"none", "idle", "offering", "offered", "answering", "stable"}]
    BY <1>t, <2>3, <2>4
  <2>7. refused' \in [Clients -> SUBSET Messages]
    <3>1. refused'[c] \in SUBSET Messages /\ refused \in [Clients -> SUBSET Messages]
      BY <1>t, <2>3
    <3> QED BY <2>4, <3>1
  <2>8. /\ room \subseteq Clients /\ waits \in 0 .. MaxWaits /\ restarts \in 0 .. MaxRestarts
        /\ candidates \in [Clients -> 0 .. MaxCandidates]
    BY <1>t
  <2> QED BY <2>2, <2>5, <2>6, <2>7, <2>8
<1>7. ASSUME NEW c \in Clients, OnPartialRead(c) PROVE Channels' /\ States'
  <2>1. Tail(toClient[c]) \in Seq(T)
    BY <1>t, <1>7, HeadTailProperties DEF OnPartialRead
  <2> QED BY <1>t, <1>7, <2>1 DEF OnPartialRead
<1>8. ASSUME NEW c \in Clients, OnSuccess(c) PROVE Channels' /\ States'
  BY <1>t, <1>a, <1>b, <1>8 DEF OnSuccess
<1>9. ASSUME NEW c \in Clients, OnIceCandidate(c) PROVE Channels' /\ States'
  BY <1>t, <1>a, <1>b, <1>9, BoundsAssumption DEF OnIceCandidate
<1>10. CASE UNCHANGED vars
  BY <1>t, <1>10 DEF vars
<1>11. \A n \in 1 .. MaxBatch : n \in Nat \ {0}
  BY BoundsAssumption DEF MaxBatch
<1> HIDE DEF Channels, States
<1> QED
  BY <1>1, <1>2, <1>3, <1>4, <1>5, <1>6, <1>7, <1>8, <1>9, <1>10, <1>11
     DEF Next, Serve, Receive

\* The invariant is inductive.
LEMMA NextInv == IInv /\ [Next]_vars => IInv'
<1> SUFFICES ASSUME IInv, [Next]_vars PROVE IInv'
  OBVIOUS
<1>1. TypeOK /\ TypeOK'
  BY TypeStep DEF IInv
<1>2. ASSUME NEW c \in Clients, NEW d \in Clients, c # d PROVE PairOK(c, d) /\ PairOK(d, c)
  BY <1>2 DEF IInv
<1>3. SUFFICES ASSUME NEW a \in Clients, NEW b \in Clients, a # b PROVE PairOK(a, b)'
  BY <1>1 DEF IInv
<1>4. \A n \in 1 .. MaxBatch : n \in Nat \ {0}
  BY BoundsAssumption DEF MaxBatch
<1>5. CASE Wait
  BY <1>1, <1>2, <1>3, <1>5, WaitStep
<1>6. ASSUME NEW c \in Clients,
             \/ Join(c) \/ End(c) \/ Serve(c)
             \/ Receive(c) \/ OnPartialRead(c) \/ OnSuccess(c) \/ OnIceCandidate(c)
      PROVE  PairOK(a, b)'
  <2>1. PICK d \in Clients : d # c /\ (\/ (a = c /\ b = d) \/ (a = d /\ b = c))
    <3>1. a = c \/ b = c
      BY <1>3, OtherClient
    <3> QED BY <1>3, <3>1
  <2>2. PairOK(c, d) /\ PairOK(d, c)
    BY <1>2, <2>1
  <2>3. PairOK(c, d)' /\ PairOK(d, c)'
    <3>1. CASE Join(c)
      BY <1>1, <2>1, <2>2, <3>1, JoinStep
    <3>2. CASE End(c)
      BY <1>1, <2>1, <2>2, <3>2, EndStep
    <3>3. CASE ServerEnd(c)
      BY <1>1, <2>1, <2>2, <3>3, ServerEndStep
    <3>4. CASE \E n \in 1 .. MaxBatch : ServerData(c, n)
      BY <1>1, <1>4, <2>1, <2>2, <3>4, DataStep
    <3>5. CASE Receive(c)
      BY <1>1, <1>4, <2>1, <2>2, <3>5, ReadStep DEF Receive
    <3>6. CASE OnPartialRead(c)
      BY <1>1, <2>1, <2>2, <3>6, PartialReadStep
    <3>7. CASE OnSuccess(c)
      BY <1>1, <2>1, <2>2, <3>7, SuccessStep
    <3>8. CASE OnIceCandidate(c)
      BY <1>1, <2>1, <2>2, <3>8, IceCandidateStep
    <3> QED BY <1>6, <3>1, <3>2, <3>3, <3>4, <3>5, <3>6, <3>7, <3>8 DEF Serve
  <2> QED BY <2>1, <2>3
<1>7. CASE UNCHANGED vars
  <2>1. PairOK(a, b)
    BY <1>2, <1>3
  <2>2. /\ toServer' = toServer /\ toClient' = toClient /\ room' = room /\ waits' = waits
        /\ restarts' = restarts /\ client' = client /\ sig' = sig /\ refused' = refused
        /\ (Undisturbed' <=> Undisturbed)
    BY <1>7 DEF vars, Undisturbed
  <2> QED BY <2>1, <2>2
            DEF PairOK, LocalOK, OfferOK, NoOffer, AnswerOK, OfferOut, AnswerOut, CandidateOK,
                Ready
<1> QED BY <1>5, <1>6, <1>7 DEF Next

\* In every run IInv holds.
LEMMA AlwaysInv == Spec => []IInv
<1> QED BY InitInv, NextInv, PTL DEF Spec

\* There is another client.
LEMMA HasOther == \A c \in Clients : \E d \in Clients : c # d
<1> SUFFICES ASSUME NEW c \in Clients, Clients \ {c} = {} PROVE FALSE
  OBVIOUS
<1> DEFINE S == Clients \ {c}
<1>1. Cardinality(S) = 1
  BY TwoClients, FS_RemoveElement
<1> QED BY <1>1, FS_EmptySet

\* Offers never cross, whoever joins first, whatever the server's and the
\* clients' reads merge, cut or lose and however often a program is started
\* again: signal.js tells "/other_join" only to who was in the room before, so
\* no SetRemoteDescription of an offer is refused, and until a program is
\* restarted none of an answer.
THEOREM DescriptionsStayInSequence == Spec => []DescriptionsInSequence
<1>1. IInv => DescriptionsInSequence
  BY HasOther DEF IInv, PairOK, OfferOK, AnswerOK, DescriptionsInSequence
<1> QED BY <1>1, AlwaysInv, PTL

\* Without "/wait", cut reads and restarts OnMessageFromPeer refuses nothing:
\* every candidate is read after the description it belongs to, however many
\* writes a read merges and whichever of them OnRead drops.
THEOREM CandidatesAlwaysUsable == Spec => []CandidatesUsable
<1>1. IInv => CandidatesUsable
  <2> SUFFICES ASSUME IInv, Undisturbed, NEW c \in Clients PROVE refused[c] = {}
    BY DEF CandidatesUsable
  <2>1. PICK d \in Clients : c # d
    BY HasOther
  <2>2. OfferOK(c, d) /\ AnswerOK(c, d) /\ CandidateOK(c, d)
    BY <2>1 DEF IInv, PairOK, Undisturbed
  <2>3. refused[c] \subseteq {"offer", "answer", "candidate"}
    BY DEF IInv, TypeOK, Messages
  <2> QED BY <2>2, <2>3 DEF OfferOK, AnswerOK, CandidateOK
<1> QED BY <1>1, AlwaysInv, PTL

===============================================================================
