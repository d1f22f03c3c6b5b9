------------------------------ MODULE Signalling ------------------------------
(***************************************************************************)
(* Two clients (PeerConnectionClient and what Conductor does with its      *)
(* messages) and the signalling server (signal.js), over TCP.  The stream  *)
(* has no framing: one read takes any number of the writes that wait, or   *)
(* cuts a long message in two.  A "/message" is known by the description   *)
(* or candidate it carries.                                                *)
(*                                                                         *)
(* That a message WebRTC posts is sent, in order, is module Conductor's    *)
(* NoMessageLost; here it goes straight to the socket.                     *)
(***************************************************************************)
EXTENDS Naturals, Sequences, FiniteSets

CONSTANTS
  Clients,
  MaxWaits,       \* bound: ticks of the server's 10 s timer
  MaxCandidates,  \* bound: candidates a client reports
  MaxRestarts     \* bound: programs that end and are started again

ASSUME TwoClients == IsFiniteSet(Clients) /\ Cardinality(Clients) = 2
ASSUME BoundsAssumption ==
  MaxWaits \in Nat /\ MaxCandidates \in Nat /\ MaxRestarts \in Nat

VARIABLES
  toServer, toClient,  \* per client: writes not yet read
  room,                \* the server's room
  waits, restarts,
  client,              \* PeerConnectionClient::state_; "off": not started
  sig,                 \* offer/answer state of the client's connection
  candidates,          \* candidates the client has reported
  cut,                 \* a read has ended inside a message (history)
  refused              \* per client: kinds its connection could not apply (history)

vars == <<toServer, toClient, room, waits, restarts, client, sig, candidates, cut, refused>>

Messages == {"offer", "answer", "candidate"}

Init ==
  /\ toServer = [c \in Clients |-> <<>>] /\ toClient = [c \in Clients |-> <<>>]
  /\ room = {} /\ waits = 0 /\ restarts = 0
  /\ client = [c \in Clients |-> "off"]
  /\ sig = [c \in Clients |-> "none"]
  /\ candidates = [c \in Clients |-> 0]
  /\ cut = FALSE /\ refused = [c \in Clients |-> {}]

\* OnConnect sends "/join", on a new socket: what was written to the one of
\* an earlier program, whose end the server has seen, is gone.
Join(c) ==
  /\ client[c] = "off" /\ toServer[c] = <<>>
  /\ client' = [client EXCEPT ![c] = "NOT_CONNECTED"]
  /\ toServer' = [toServer EXCEPT ![c] = <<"/join">>]
  /\ toClient' = [toClient EXCEPT ![c] = <<>>]
  /\ UNCHANGED <<room, waits, restarts, sig, candidates, cut, refused>>

\* The program ends; TCP delivers what it sent and then the end.
End(c) ==
  /\ restarts < MaxRestarts /\ client[c] # "off"
  /\ restarts' = restarts + 1
  /\ client' = [client EXCEPT ![c] = "off"] /\ sig' = [sig EXCEPT ![c] = "none"]
  /\ candidates' = [candidates EXCEPT ![c] = 0]
  /\ toServer' = [toServer EXCEPT ![c] = Append(@, "end")]
  /\ UNCHANGED <<toClient, room, waits, cut, refused>>

-------------------------------------------------------------------------------
(* The server.  A chunk of several messages starts like its first and is   *)
(* passed on as one; the reader's JSON parser stops after the first value. *)

\* room.forEach((client) => { if (client !== socket) ...
Others_All(c) == room \cup {c}
Others(c) == room \ {c}

Write(channels, ds, m) ==
  [d \in Clients |-> IF d \in ds THEN Append(channels[d], m) ELSE channels[d]]

ServerData(c, n) ==
  LET chunk == SubSeq(toServer[c], 1, n) IN
  /\ n <= Len(toServer[c]) /\ \A i \in 1 .. n : chunk[i] # "end"
  /\ toServer' = [toServer EXCEPT ![c] = SubSeq(@, n + 1, Len(@))]
  /\ IF chunk = <<"/join">>
     THEN /\ room' = room \cup {c}
          /\ toClient' = Write(Write(toClient, {c}, "/joined"), Others(c), "/other_join")
     ELSE /\ toClient' = IF Head(chunk) \in Messages
                         THEN Write(toClient, Others(c), Head(chunk)) ELSE toClient
          /\ UNCHANGED room
  /\ UNCHANGED <<waits, restarts, client, sig, candidates, cut, refused>>

\* socket.on('end'): the others are not told.
ServerEnd(c) ==
  /\ toServer[c] # <<>> /\ Head(toServer[c]) = "end"
  /\ toServer' = [toServer EXCEPT ![c] = Tail(@)]
  /\ room' = room \ {c}
  /\ UNCHANGED <<toClient, waits, restarts, client, sig, candidates, cut, refused>>

\* setInterval: "/wait" to everyone in the room
Wait ==
  /\ waits < MaxWaits /\ room # {}
  /\ waits' = waits + 1
  /\ toClient' = Write(toClient, room, "/wait")
  /\ UNCHANGED <<toServer, room, restarts, client, sig, candidates, cut, refused>>

-------------------------------------------------------------------------------
(* A client.  OnRead is a row of ifs over the start of what was read; what *)
(* none of them takes is cleared.                                          *)

Starts(batch, m) == batch # <<>> /\ Head(batch) = m

\* What follows "/joined" in the same read is looked at; the same after
\* "/other_join".
Rest_Cleared(batch) == <<>>
Rest(batch) == Tail(batch)

\* The message a read that starts with "/message" carries
Body(batch) == Head(batch)

\* SetRemoteDescription and AddIceCandidate
Accepts(s, m) ==
  \/ m = "offer" /\ s \in {"none", "idle"}
  \/ m = "answer" /\ s = "offered"
  \/ m = "candidate" /\ s \in {"answering", "stable"}

\* OnMessageFromPeer makes the connection first, if there is none.
Applied(s, m) ==
  CASE Accepts(s, m) /\ m = "offer"  -> "answering"
    [] Accepts(s, m) /\ m = "answer" -> "stable"
    [] OTHER                         -> IF s = "none" THEN "idle" ELSE s

\* Makes the connection and asks for an offer, unless there is a connection.
ConnectToPeer_NoOffer(s) == IF s = "none" THEN "idle" ELSE s
ConnectToPeer(s) == IF s = "none" THEN "offering" ELSE s

OnRead(c, n) ==
  LET b0     == SubSeq(toClient[c], 1, n)
      joins  == client[c] = "NOT_CONNECTED" /\ Starts(b0, "/joined")
      b1     == IF joins THEN Rest(b0) ELSE b0
      c1     == IF joins THEN "SIGNED_IN" ELSE client[c]
      meets  == c1 = "SIGNED_IN" /\ Starts(b1, "/other_join")
      b2     == IF meets THEN Rest(b1) ELSE b1
      c2     == IF meets THEN "CONNECTTOPEER" ELSE c1
      s2     == IF meets THEN ConnectToPeer(sig[c]) ELSE sig[c]
      hears  == c2 # "NOT_CONNECTED" /\ b2 # <<>> /\ Head(b2) \in Messages
  IN
  /\ client[c] # "off" /\ n <= Len(toClient[c])
  /\ toClient' = [toClient EXCEPT ![c] = SubSeq(@, n + 1, Len(@))]
  /\ client' = [client EXCEPT ![c] = IF hears THEN "CONNECTTOPEER" ELSE c2]
  /\ sig' = [sig EXCEPT ![c] = IF hears THEN Applied(s2, Body(b2)) ELSE s2]
  /\ refused' = [refused EXCEPT ![c] = IF hears /\ ~Accepts(s2, Body(b2))
                                       THEN @ \cup {Body(b2)} ELSE @]
  /\ UNCHANGED <<toServer, room, waits, restarts, candidates, cut>>

\* A read, here or in the server, that ends inside a message: the JSON parser
\* rejects the first part, the second starts like nothing.
OnPartialRead(c) ==
  /\ client[c] \in {"SIGNED_IN", "CONNECTTOPEER"}
  /\ toClient[c] # <<>> /\ Head(toClient[c]) \in Messages
  /\ toClient' = [toClient EXCEPT ![c] = Tail(@)]
  /\ client' = [client EXCEPT ![c] = "CONNECTTOPEER"]
  /\ sig' = [sig EXCEPT ![c] = IF @ = "none" THEN "idle" ELSE @]
  /\ cut' = TRUE
  /\ UNCHANGED <<toServer, room, waits, restarts, candidates, refused>>

\* The description is ready: set as the local one and sent.
OnSuccess(c) ==
  /\ sig[c] \in {"offering", "answering"}
  /\ sig' = [sig EXCEPT ![c] = IF @ = "offering" THEN "offered" ELSE "stable"]
  /\ toServer' = [toServer EXCEPT ![c] =
                    Append(@, IF sig[c] = "offering" THEN "offer" ELSE "answer")]
  /\ UNCHANGED <<toClient, room, waits, restarts, client, candidates, cut, refused>>

OnIceCandidate(c) ==
  /\ sig[c] \in {"offered", "stable"} /\ candidates[c] < MaxCandidates
  /\ candidates' = [candidates EXCEPT ![c] = @ + 1]
  /\ toServer' = [toServer EXCEPT ![c] = Append(@, "candidate")]
  /\ UNCHANGED <<toClient, room, waits, restarts, client, sig, cut, refused>>

-------------------------------------------------------------------------------
\* Most writes one read takes: all a client can have waiting
MaxBatch == MaxWaits + (MaxCandidates + 1) * (MaxRestarts + 1) + 2

Receive(c) == \E n \in 1 .. MaxBatch : OnRead(c, n)
Serve(c) == ServerEnd(c) \/ \E n \in 1 .. MaxBatch : ServerData(c, n)

Next ==
  \/ Wait
  \/ \E c \in Clients :
       \/ Join(c) \/ End(c) \/ Serve(c)
       \/ Receive(c) \/ OnPartialRead(c) \/ OnSuccess(c) \/ OnIceCandidate(c)

Spec == Init /\ [][Next]_vars

\* Both programs are started, TCP delivers, WebRTC answers; the timer and the
\* candidates need not come.
FairSpec ==
  /\ Spec
  /\ \A c \in Clients :
       WF_vars(Join(c)) /\ WF_vars(Serve(c)) /\ WF_vars(Receive(c)) /\ WF_vars(OnSuccess(c))

-------------------------------------------------------------------------------
(* Properties.                                                             *)

TypeOK ==
  /\ toServer \in [Clients -> Seq(Messages \cup {"/join", "end"})]
  /\ toClient \in [Clients -> Seq(Messages \cup {"/joined", "/other_join", "/wait"})]
  /\ room \subseteq Clients /\ waits \in 0 .. MaxWaits /\ restarts \in 0 .. MaxRestarts
  /\ client \in [Clients -> {"off", "NOT_CONNECTED", "SIGNED_IN", "CONNECTTOPEER"}]
  /\ sig \in [Clients -> {"none", "idle", "offering", "offered", "answering", "stable"}]
  /\ candidates \in [Clients -> 0 .. MaxCandidates]
  /\ cut \in BOOLEAN /\ refused \in [Clients -> SUBSET Messages]

\* Offers never cross, whoever joins first, whatever the reads merge or lose
\* and even if a program is started again: only the client that was in the room
\* first is told "/other_join".  Without a restart an answer reaches only the
\* client that offered.
DescriptionsInSequence ==
  \A c \in Clients : /\ "offer" \notin refused[c]
                     /\ restarts = 0 => "answer" \notin refused[c]

\* The timer has not ticked, no read was cut and no program was started again.
Undisturbed == waits = 0 /\ ~cut /\ restarts = 0

\* However reads are merged, no candidate is read before the description it
\* belongs to, and none is lost to the state it finds.
CandidatesUsable == Undisturbed => \A c \in Clients : refused[c] = {}

\* Two clients in the room negotiate a connection, whoever joined first and
\* however reads are merged.  Each of the three disturbances can prevent it: a
\* read that starts with "/wait" is cleared whole, a message cut in two is lost
\* in both parts, and a client that has had a peer ignores "/other_join".
Negotiates ==
  room = Clients ~> (\A c \in Clients : sig[c] = "stable") \/ ~Undisturbed

===============================================================================
