--------------------------- MODULE Conductor_proofs ---------------------------
(***************************************************************************)
(* One client program, for every experiment type, any number of candidates *)
(* and retries and any order of what the server says.                      *)
(***************************************************************************)
EXTENDS Conductor, SequenceTheorems, TLAPS

-------------------------------------------------------------------------------
(* The inductive invariant                                                 *)

\* There is a connection exactly while state_ says so, and exactly then the
\* polling threads of this type run: none of them ever sees another state_ and
\* ends.  Only a connection makes descriptions and candidates, and the join
\* waits for one of its threads.
ConnectionInv ==
  /\ peer_connection <=> state = "CONNECTTOPEER"
  /\ \A t \in {"get", "rl"} :
       /\ peer_connection /\ t \in Polls => thread[t] \in {"check", "use"}
       /\ ~(peer_connection /\ t \in Polls) => thread[t] = "none"
  /\ creating # {} \/ described \/ posted # <<>> => peer_connection
  /\ main = "joining" => peer_connection

\* Until the window is closed, a client with a connection is in the state in
\* which PCSendMessage sends, so nothing is ever kept in pending_messages_.
QueueInv ==
  /\ peer_connection /\ main = "idle" =>
       client = "CONNECTTOPEER" /\ socket \in {"open", "closed"}
  /\ pending = <<>>
  /\ socket # "closed" => \A i \in 1 .. Len(ui) : ui[i] # Nothing
  /\ socket # "closed" /\ main = "idle" => posted = sent \o ui

IInv == TypeOK /\ ConnectionInv /\ QueueInv

-------------------------------------------------------------------------------
(* Sequences                                                               *)

Kinds == {"offer", "answer", "candidate"}

\* Moving the head of one list to the end of the other keeps what they hold.
LEMMA MoveHead ==
  ASSUME NEW S, NEW s \in Seq(S), NEW t \in Seq(S), t # <<>>
  PROVE  Append(s, Head(t)) \o Tail(t) = s \o t
<1>1. /\ Head(t) \in S /\ Tail(t) \in Seq(S) /\ Len(Tail(t)) = Len(t) - 1
      /\ \A i \in 1 .. Len(Tail(t)) : Tail(t)[i] = t[i + 1]
  BY HeadTailProperties
<1>2. Append(s, Head(t)) \in Seq(S) /\ Len(Append(s, Head(t))) = Len(s) + 1
  BY <1>1
<1> DEFINE a == Append(s, Head(t)) \o Tail(t)
           b == s \o t
<1>3. a \in Seq(S) /\ b \in Seq(S) /\ Len(a) = Len(b) /\ Len(b) = Len(s) + Len(t)
  BY <1>1, <1>2, ConcatProperties
<1>4. ASSUME NEW i \in 1 .. Len(b) PROVE a[i] = b[i]
  <2>1. Len(s) \in Nat /\ Len(t) \in Nat \ {0}
    BY LenProperties, EmptySeq
  <2>2. b[i] = IF i <= Len(s) THEN s[i] ELSE t[i - Len(s)]
    BY <1>3, ConcatProperties
  <2>3. a[i] = IF i <= Len(s) + 1 THEN Append(s, Head(t))[i] ELSE Tail(t)[i - (Len(s) + 1)]
    BY <1>1, <1>2, <1>3, <2>1, ConcatProperties
  <2>4. CASE i <= Len(s)
    BY <2>1, <2>2, <2>3, <2>4
  <2>5. CASE i = Len(s) + 1
    BY <2>1, <2>2, <2>3, <2>5
  <2>6. CASE i > Len(s) + 1
    <3>1. i - (Len(s) + 1) \in 1 .. Len(Tail(t))
      BY <1>1, <1>3, <2>1, <2>6
    <3>2. Tail(t)[i - (Len(s) + 1)] = t[i - Len(s)]
      BY <1>1, <2>1, <3>1
    <3> QED BY <2>1, <2>2, <2>3, <2>6, <3>2
  <2> QED BY <1>3, <2>1, <2>4, <2>5, <2>6
<1> HIDE DEF a, b
<1>5. a = b
  BY <1>3, <1>4, SeqEqual
<1> QED BY <1>5 DEF a, b

\* Appending to the second list appends to what they hold.
LEMMA AppendBehind ==
  ASSUME NEW S, NEW s \in Seq(S), NEW t \in Seq(S), NEW e \in S
  PROVE  s \o Append(t, e) = Append(s \o t, e)
<1>1. Append(t, e) = t \o <<e>> /\ <<e>> \in Seq(S)
  OBVIOUS
<1>2. s \o t \in Seq(S)
  BY ConcatProperties
<1>3. Append(s \o t, e) = (s \o t) \o <<e>>
  BY <1>2
<1> QED
  BY <1>1, <1>3, ConcatAssociative

-------------------------------------------------------------------------------
\* A program that has just started has no connection.
LEMMA InvInit == Init => IInv
<1> SUFFICES ASSUME Init PROVE IInv
  OBVIOUS
<1>1. /\ peer_connection = FALSE /\ described = FALSE
      /\ window \in BOOLEAN /\ peer_connection \in BOOLEAN /\ described \in BOOLEAN
  BY Zenon DEF Init
<1>2. /\ state = "NOT_CONNECTED" /\ client = "NOT_CONNECTED" /\ retries = 0
      /\ thread = [t \in {"get", "rl"} |-> "none"]
      /\ socket \in {"connecting", "closed"} /\ main = "idle" /\ creating = {}
      /\ ui = <<>> /\ pending = <<>> /\ posted = <<>> /\ sent = <<>>
  BY Zenon DEF Init
<1>3. TypeOK
  BY <1>1, <1>2, BoundsAssumption DEF TypeOK
<1>4. ConnectionInv /\ QueueInv
  BY <1>1, <1>2 DEF ConnectionInv, QueueInv
<1> QED
  BY <1>3, <1>4 DEF IInv

\* Every step keeps the connection, its threads and its messages together.
LEMMA InvStep ==
  ASSUME IInv, [Next]_vars
  PROVE  IInv'
<1> USE DEF IInv
<1> USE BoundsAssumption
<1>1. CASE OnConnect \/ OnRefused \/ DoConnect
  BY <1>1 DEF OnConnect, OnRefused, DoConnect, Serving, TypeOK, ConnectionInv, QueueInv,
              messages
<1>2. CASE OnClose
  BY <1>2 DEF OnClose, Serving, TypeOK, ConnectionInv, QueueInv, Nothing
<1>3. CASE ReadJoined
  BY <1>3 DEF ReadJoined, Serving, TypeOK, ConnectionInv, QueueInv, messages
<1>4. CASE ReadOtherJoin \/ \E kind \in {"offer", "answer", "candidate"} : ReadMessage(kind)
  <2>1. /\ main = "idle" /\ socket = "open" /\ client' = "CONNECTTOPEER"
        /\ socket' = socket /\ retries' = retries /\ window' = window
        /\ described' = described /\ ui' = ui /\ pending' = pending
        /\ posted' = posted /\ sent' = sent
    BY <1>4 DEF ReadOtherJoin, ReadMessage, Serving, NextClient
  <2>2. CASE peer_connection
    <3>1. UNCHANGED <<state, peer_connection, thread, main>>
      BY <1>4, <2>2 DEF ReadOtherJoin, ReadMessage
    <3>2. creating' \subseteq {"offer", "answer"}
      BY <1>4 DEF ReadOtherJoin, ReadMessage, TypeOK
    <3> QED
      BY <2>1, <2>2, <3>1, <3>2 DEF TypeOK, ConnectionInv, QueueInv
  <2>3. CASE ~peer_connection /\ InitializeWorks
    <3>1. creating' \subseteq {"offer", "answer"}
      BY <1>4, <2>3 DEF ReadOtherJoin, ReadMessage, TypeOK
    <3>2. peer_connection' \in BOOLEAN /\ peer_connection'
      BY <2>3, Zenon DEF InitializeWorks
    <3>3. /\ thread' \in [{"get", "rl"} -> {"none", "check", "use", "exited"}]
          /\ \A t \in {"get", "rl"} : thread'[t] = IF t \in Polls THEN "check" ELSE "none"
      BY <2>3 DEF InitializeWorks, StartThreads, TypeOK, ConnectionInv
    <3>4. state' = "CONNECTTOPEER" /\ main' = main
      BY <2>3 DEF InitializeWorks
    <3> QED
      BY <2>1, <3>1, <3>2, <3>3, <3>4 DEF TypeOK, ConnectionInv, QueueInv
  <2>4. CASE ~peer_connection /\ (InitializeFails \/ CreateFails)
    <3>1. /\ peer_connection' = FALSE /\ state' = "NOT_CONNECTED" /\ thread' = thread
          /\ main' \in {main, "crashed"}
      BY <2>4 DEF InitializeFails, CreateFails, Deleted
    <3>2. peer_connection' \in BOOLEAN /\ ~peer_connection'
      BY <3>1, Zenon
    <3>3. creating' = creating
      BY <1>4, <2>4, <3>2
         DEF ReadOtherJoin, ReadMessage, InitializeWorks, InitializeFails, CreateFails
    <3> QED
      BY <2>1, <2>4, <3>1, <3>2, <3>3 DEF TypeOK, ConnectionInv, QueueInv
  <2> QED
    BY <1>4, <2>2, <2>3, <2>4 DEF ReadOtherJoin, ReadMessage
<1>5. CASE \E t \in {"get", "rl"} : Check(t) \/ GetStats(t)
  <2>1. PICK t \in {"get", "rl"} : Check(t) \/ GetStats(t)
    BY <1>5
  <2>2. thread[t] \in {"check", "use"}
    BY <2>1 DEF Check, GetStats
  <2>3. peer_connection /\ t \in Polls /\ state = "CONNECTTOPEER"
    BY <2>2 DEF ConnectionInv
  <2>4. /\ UNCHANGED <<state, peer_connection, main, window, server, messages>>
        /\ thread' \in {[thread EXCEPT ![t] = "use"], [thread EXCEPT ![t] = "check"]}
    BY <2>1, <2>3 DEF Check, GetStats
  <2>5. TypeOK' /\ ConnectionInv'
    BY <2>3, <2>4 DEF TypeOK, ConnectionInv, server, messages
  <2>6. QueueInv'
    BY <2>4 DEF QueueInv, server, messages
  <2> QED BY <2>5, <2>6
<1>6. CASE (\E kind \in {"offer", "answer"} : OnSuccess(kind)) \/ OnIceCandidate
  <2>1. PICK m \in Kinds : Post(m)
    BY <1>6 DEF OnSuccess, OnIceCandidate, Kinds
  <2>2. /\ peer_connection
        /\ UNCHANGED <<state, peer_connection, thread, server, main, window, pending, sent>>
        /\ creating' \subseteq creating
    BY <1>6 DEF OnSuccess, OnIceCandidate, ConnectionInv
  <2>3. described' \in BOOLEAN
    BY <1>6, Zenon DEF OnSuccess, OnIceCandidate, TypeOK
  <2>4. /\ ui' = Append(ui, m) /\ posted' = Append(posted, m) /\ m # Nothing
    BY <2>1 DEF Post, Kinds, Nothing
  <2>5. ui \in Seq(Kinds \cup {Nothing}) /\ sent \in Seq(Kinds \cup {Nothing})
    BY DEF TypeOK, Kinds
  <2>6. sent \o Append(ui, m) = Append(sent \o ui, m)
    BY <2>5, AppendBehind
  <2>7. TypeOK'
    BY <2>2, <2>3, <2>4 DEF TypeOK, Kinds, server
  <2>8. ConnectionInv'
    BY <2>2 DEF ConnectionInv
  <2>9. QueueInv'
    <3>1. \A i \in 1 .. Len(ui') : \/ i \in 1 .. Len(ui) /\ ui'[i] = ui[i]
                                   \/ ui'[i] = m
      BY <2>4, <2>5
    <3>2. socket # "closed" /\ main = "idle" => posted' = sent' \o ui'
      BY <2>2, <2>4, <2>6 DEF QueueInv
    <3> QED
      BY <2>2, <2>4, <3>1, <3>2 DEF QueueInv, server
  <2> QED BY <2>7, <2>8, <2>9
<1>7. CASE UIThreadCallback
  <2> DEFINE E == Kinds \cup {Nothing}
  <2>1. /\ ui \in Seq(E) /\ ui # <<>> /\ sent \in Seq(Kinds) /\ sent \in Seq(E)
        /\ ui' = Tail(ui) /\ main = "idle"
    BY <1>7 DEF UIThreadCallback, TypeOK, Kinds
  <2>2. /\ Head(ui) \in E /\ Tail(ui) \in Seq(E) /\ Len(Tail(ui)) = Len(ui) - 1
        /\ \A i \in 1 .. Len(Tail(ui)) : Tail(ui)[i] = ui[i + 1]
        /\ Len(ui) \in Nat \ {0} /\ Head(ui) = ui[1]
    BY <2>1, HeadTailProperties, EmptySeq
  <2>3. Waiting = IF Head(ui) = Nothing THEN <<>> ELSE <<Head(ui)>>
    BY DEF Waiting, QueueInv
  <2>4. pending' = <<>>
    BY <1>7, <2>3 DEF UIThreadCallback
  <2>5. UNCHANGED <<peer_connection, thread, socket, retries, main, window, creating,
                    described, posted>>
    BY <1>7 DEF UIThreadCallback
  <2>6. state' = state
    BY <1>7 DEF UIThreadCallback, ConnectionInv, TypeOK
  <2>7. /\ client' \in {"NOT_CONNECTED", "SIGNED_IN", "CONNECTTOPEER"}
        /\ client = "CONNECTTOPEER" => client' = client
    BY <1>7 DEF UIThreadCallback, SignOut, TypeOK
  <2>8. sent' \in Seq(Kinds)
    <3>1. Waiting # <<>> => Head(Waiting) \in Kinds
      BY <2>2, <2>3
    <3> QED
      BY <1>7, <2>1, <3>1 DEF UIThreadCallback
  <2>9. TypeOK'
    BY <2>1, <2>2, <2>4, <2>5, <2>6, <2>7, <2>8 DEF TypeOK, Kinds
  <2>10. ConnectionInv'
    BY <2>5, <2>6 DEF ConnectionInv
  <2>11. ASSUME socket # "closed" PROVE posted = sent' \o Tail(ui)
    <3>1. Head(ui) # Nothing /\ posted = sent \o ui
      BY <2>1, <2>2, <2>11 DEF QueueInv
    <3>2. posted # <<>>
      BY <2>1, <3>1, ConcatProperties, EmptySeq
    <3>3. client = "CONNECTTOPEER" /\ socket = "open"
      BY <2>1, <2>11, <3>2 DEF ConnectionInv, QueueInv
    <3>4. sent' = Append(sent, Head(ui))
      BY <1>7, <2>3, <3>1, <3>3 DEF UIThreadCallback
    <3> QED
      BY <2>1, <3>1, <3>4, MoveHead
  <2>12. QueueInv'
    BY <2>1, <2>2, <2>4, <2>5, <2>7, <2>11 DEF QueueInv
  <2> QED BY <2>9, <2>10, <2>12
<1>8. CASE OnDestroyed
  <2>1. /\ main = "idle" /\ UNCHANGED <<thread, socket, retries, messages>>
        /\ client' \in {client, "NOT_CONNECTED"}
    BY <1>8 DEF OnDestroyed, SignOut
  <2>2. CASE MustJoin
    <3>1. main' = "joining" /\ UNCHANGED <<state, peer_connection, window>>
      BY <1>8, <2>2 DEF OnDestroyed
    <3>2. peer_connection
      BY <2>2 DEF MustJoin, ConnectionInv
    <3> QED
      BY <2>1, <3>1, <3>2 DEF TypeOK, ConnectionInv, QueueInv, messages
  <2>3. CASE ~MustJoin
    <3>1. ~peer_connection
      BY <2>3 DEF MustJoin, ConnectionInv, Polls
    <3>2. peer_connection' \in BOOLEAN /\ ~peer_connection' /\ window' \in BOOLEAN
      BY <1>8, <2>3, Zenon DEF OnDestroyed, Deleted
    <3>3. state' = "NOT_CONNECTED" /\ main' = main
      BY <1>8, <2>3 DEF OnDestroyed, Deleted
    <3> QED
      BY <2>1, <3>1, <3>2, <3>3 DEF TypeOK, ConnectionInv, QueueInv, messages
  <2> QED BY <2>2, <2>3
<1>9. CASE Quit \/ signal_handler
  <2>1. /\ main' = "stopped"
        /\ UNCHANGED <<state, peer_connection, thread, server, window, messages>>
    BY <1>9 DEF Quit, signal_handler
  <2>2. TypeOK' /\ ConnectionInv'
    BY <2>1 DEF TypeOK, ConnectionInv, server, messages
  <2>3. QueueInv'
    BY <2>1 DEF QueueInv, server, messages
  <2> QED BY <2>2, <2>3
<1>10. CASE UNCHANGED vars
  BY <1>10 DEF vars, TypeOK, ConnectionInv, QueueInv, server, messages
<1> QED
  BY <1>1, <1>2, <1>3, <1>4, <1>5, <1>6, <1>7, <1>8, <1>9, <1>10 DEF Next, MainStep

\* A polling thread or a description that is on its way finds the connection
\* it is for: the join is what keeps the connection alive.
THEOREM ConnectionOutlivesUse == Spec => []NoUseAfterDelete
<1>1. IInv => NoUseAfterDelete
  BY DEF IInv, TypeOK, ConnectionInv, NoUseAfterDelete
<1> QED
  BY <1>1, InvInit, InvStep, PTL DEF Spec

\* Between handlers state_, the connection and the polling threads agree.
THEOREM StateAlwaysAgrees == Spec => []StateAgrees
<1>1. ASSUME IInv PROVE StateAgrees
  <2>1. peer_connection = (state = "CONNECTTOPEER")
    BY <1>1 DEF IInv, TypeOK, ConnectionInv
  <2>2. peer_connection => \A t \in Polls : thread[t] \in {"check", "use"}
    BY <1>1 DEF IInv, ConnectionInv, Polls
  <2> QED
    BY <2>1, <2>2 DEF StateAgrees
<1> QED
  BY <1>1, InvInit, InvStep, PTL DEF Spec

\* While the server stays, PCSendMessage throws no message away and keeps
\* their order.
THEOREM MessagesKept == Spec => []NoMessageLost
<1>1. ASSUME IInv PROVE NoMessageLost
  <2>1. sent \o <<>> = sent
    BY <1>1, ConcatEmptySeq DEF IInv, TypeOK
  <2> QED
    BY <1>1, <2>1 DEF IInv, QueueInv, NoMessageLost
<1> QED
  BY <1>1, InvInit, InvStep, PTL DEF Spec

\* Once OnDestroyed waits for the polling thread it waits until a signal ends the
\* program, in every instance: the run conductor_waits shows one such behaviour,
\* this that there is no other way out.  The thread ends only when state_
\* changes, and state_ changes only after the join.
THEOREM JoinNeverReturns ==
  Spec => [][main = "joining" => main' = "joining" \/ signal_handler]_vars
<1>1. ASSUME IInv, [Next]_vars
      PROVE  [main = "joining" => main' = "joining" \/ signal_handler]_vars
  <2>1. ASSUME main = "joining", Next, ~signal_handler PROVE main' = "joining"
    <3>1. state = "CONNECTTOPEER"
      BY <1>1, <2>1 DEF IInv, ConnectionInv
    <3> QED
      BY <2>1, <3>1
         DEF Next, MainStep, OnConnect, OnRefused, OnClose, ReadJoined, ReadOtherJoin,
             ReadMessage, Check, GetStats, OnSuccess, OnIceCandidate, UIThreadCallback,
             Quit, DoConnect, OnDestroyed, Serving
  <2> QED BY <1>1, <2>1
<1> QED
  BY <1>1, InvInit, InvStep, PTL DEF Spec

===============================================================================
