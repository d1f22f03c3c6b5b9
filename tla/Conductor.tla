------------------------------ MODULE Conductor ------------------------------
(***************************************************************************)
(* One client program: the main thread, which pumps the GTK loop and the   *)
(* server socket (CustomSocketServer::Wait, PeerConnectionClient,          *)
(* Conductor), WebRTC's signalling thread, which answers CreateOffer and   *)
(* CreateAnswer, and the polling threads that read the statistics of the   *)
(* connection.  A handler of the main thread is one action, except that    *)
(* DeletePeerConnection waits for a polling thread in its middle.          *)
(*                                                                         *)
(* The paths no caller takes are left out: the window never asks for       *)
(* DisconnectFromCurrentPeer, nothing posts PEER_CONNECTION_CLOSED, and    *)
(* "/leaved" answers a "/leave" that SignOut only sends on a socket that   *)
(* is closed.  What the server says is any order of its messages; module   *)
(* Signalling is about that order.                                         *)
(***************************************************************************)
EXTENDS Naturals, Sequences, FiniteSets

CONSTANTS
  Type,           \* inputV::Params::type
  MaxCandidates,  \* bound: ICE candidates the connection reports
  MaxRetries      \* bound: connections the server refuses

ASSUME BoundsAssumption == MaxCandidates \in Nat /\ MaxRetries \in Nat

VARIABLES
  state,            \* Conductor::state_
  peer_connection,  \* is there a peer_connection_
  thread,           \* the polling threads; "none" is an empty handle
  client,           \* PeerConnectionClient::state_
  socket,           \* control_socket_; "retry": refused, DoConnect is due
  retries,
  main,             \* the main thread
  window,           \* GtkMainWnd::window_
  creating,         \* descriptions the signalling thread is asked for
  described,        \* SetLocalDescription was called
  ui,               \* callbacks queued with g_idle_add
  pending,          \* pending_messages_
  posted,           \* what WebRTC gave to SendMessage (history)
  sent              \* what went out on the socket (history)

server == <<client, socket, retries>>
messages == <<creating, described, ui, pending, posted, sent>>
vars == <<state, peer_connection, thread, server, main, window, messages>>

Nothing == "null"  \* the callback OnMessageSent queues has no message

\* The polling threads of this experiment type: startGetState always,
\* startRLState for the types that adapt.
Polls ==
  IF Type \in {"RLSRSFEC", "RSFECStreamStableRate", "SwiftFECAblI",
               "SwiftFECAblM", "SwiftFECAblL"}
  THEN {"get", "rl"} ELSE {"get"}

\* StartLogin, Connect and the first DoConnect, which may fail at once.
Init ==
  /\ state = "NOT_CONNECTED" /\ peer_connection = FALSE
  /\ thread = [t \in {"get", "rl"} |-> "none"]
  /\ client = "NOT_CONNECTED" /\ socket \in {"connecting", "closed"} /\ retries = 0
  /\ main = "idle" /\ window = TRUE
  /\ creating = {} /\ described = FALSE
  /\ ui = <<>> /\ pending = <<>> /\ posted = <<>> /\ sent = <<>>

-------------------------------------------------------------------------------
(* The client's connection to the signalling server.                       *)

\* The main loop quits at its next turn, before it serves the socket again.
Quitting == ~window /\ ~peer_connection /\ client = "NOT_CONNECTED"
Serving == main = "idle" /\ ~Quitting

\* The threads of the program run until it ends.
Running == main \in {"idle", "joining"}

OnConnect ==
  /\ Serving /\ socket = "connecting"
  /\ socket' = "open"
  /\ UNCHANGED <<state, peer_connection, thread, client, retries, main, window, messages>>

\* OnClose with ECONNREFUSED
OnRefused ==
  /\ Serving /\ socket = "connecting" /\ retries < MaxRetries
  /\ socket' = "retry" /\ retries' = retries + 1
  /\ UNCHANGED <<state, peer_connection, thread, client, main, window, messages>>

\* The delayed task; Connect may fail at once, and then nothing tries again.
DoConnect ==
  /\ Serving /\ socket = "retry"
  /\ socket' \in {"connecting", "closed"}
  /\ UNCHANGED <<state, peer_connection, thread, client, retries, main, window, messages>>

\* OnClose with another error, of an open socket or of an attempt to connect:
\* the socket is closed, the states stay.
OnClose ==
  /\ Serving /\ socket \in {"open", "connecting"}
  /\ socket' = "closed"
  /\ ui' = Append(ui, Nothing)
  /\ UNCHANGED <<state, peer_connection, thread, client, retries, main, window,
                 creating, described, pending, posted, sent>>

\* SignOut: on a closed socket "/leave" cannot be sent and the state stays.
SignOut_OnlyWithPeer(c) == IF c = "CONNECTTOPEER" THEN "NOT_CONNECTED" ELSE c
SignOut(c) == IF socket = "closed" THEN c ELSE "NOT_CONNECTED"

-------------------------------------------------------------------------------
(* The connection to the peer and its threads.                             *)

StartThreads ==
  thread' = [t \in DOMAIN thread |->
               IF t \in Polls /\ thread[t] = "none" THEN "check" ELSE thread[t]]

\* stopGetState: is there a thread to wait for?  The thread of the adaptation
\* is not waited for.
MustJoin_Never == FALSE
MustJoin == thread["get"] # "none"

\* The rest of DeletePeerConnection
Deleted ==
  /\ peer_connection' = FALSE
  /\ state' = "NOT_CONNECTED"

\* InitializePeerConnection: it succeeds, or there is no factory (the
\* connection is deleted again: no thread runs yet), or CreatePeerConnection
\* fails and AddTracks uses the connection all the same.
InitializeWorks ==
  /\ peer_connection' = TRUE /\ state' = "CONNECTTOPEER" /\ StartThreads
  /\ UNCHANGED main
InitializeFails_Kept ==
  peer_connection' = FALSE /\ state' = "CONNECTTOPEER" /\ UNCHANGED <<thread, main>>
InitializeFails == Deleted /\ UNCHANGED <<thread, main>>
CreateFails == Deleted /\ main' = "crashed" /\ UNCHANGED thread

\* OnRead of "/joined"
ReadJoined ==
  /\ Serving /\ socket = "open" /\ client = "NOT_CONNECTED"
  /\ client' = "SIGNED_IN"
  /\ UNCHANGED <<state, peer_connection, thread, socket, retries, main, window, messages>>

\* OnRead of "/other_join": ConnectToPeer, then the client's state
NextClient_Kept == "SIGNED_IN"
NextClient == "CONNECTTOPEER"
ReadOtherJoin ==
  /\ Serving /\ socket = "open" /\ client = "SIGNED_IN"
  /\ client' = NextClient
  /\ IF peer_connection
     THEN UNCHANGED <<state, peer_connection, thread, main, creating>>
     ELSE \/ InitializeWorks /\ creating' = creating \cup {"offer"}
          \/ InitializeFails /\ UNCHANGED creating
          \/ CreateFails /\ UNCHANGED creating
  /\ UNCHANGED <<socket, retries, window, described, ui, pending, posted, sent>>

\* Bound: the peer offers once.
Answered == "answer" \in creating \/ \E i \in DOMAIN posted : posted[i] = "answer"

\* OnRead of "/message": OnMessageFromPeer makes the connection if there is
\* none; when that fails it signs out, and OnRead signs in again.
ReadMessage(kind) ==
  /\ Serving /\ socket = "open" /\ client # "NOT_CONNECTED"
  /\ kind = "offer" => ~Answered
  /\ client' = "CONNECTTOPEER"
  /\ IF peer_connection
     THEN UNCHANGED <<state, peer_connection, thread, main>>
     ELSE InitializeWorks \/ InitializeFails \/ CreateFails
  /\ creating' = IF peer_connection' /\ kind = "offer"
                 THEN creating \cup {"answer"} ELSE creating
  /\ UNCHANGED <<socket, retries, window, described, ui, pending, posted, sent>>

\* doGetState and doFECRLState: look at state_, sleep, use the connection.
Check(t) ==
  /\ Running /\ thread[t] = "check"
  /\ IF state = "CONNECTTOPEER"
     THEN /\ thread' = [thread EXCEPT ![t] = "use"]
          /\ UNCHANGED <<state, peer_connection, main, window>>
     ELSE IF t = "get" /\ main = "joining"   \* Finalize returns to Close
     THEN /\ thread' = [thread EXCEPT ![t] = "none"]
          /\ Deleted /\ main' = "idle" /\ window' = FALSE
     ELSE /\ thread' = [thread EXCEPT ![t] = "exited"]
          /\ UNCHANGED <<state, peer_connection, main, window>>
  /\ UNCHANGED <<server, messages>>

GetStats(t) ==
  /\ Running /\ thread[t] = "use"
  /\ thread' = [thread EXCEPT ![t] = "check"]
  /\ UNCHANGED <<state, peer_connection, server, main, window, messages>>

-------------------------------------------------------------------------------
(* Messages to the peer.                                                   *)

\* SendMessage, from the signalling thread
Post(m) ==
  /\ ui' = Append(ui, m)
  /\ posted' = Append(posted, m)

OnSuccess(kind) ==
  /\ Running /\ kind \in creating
  /\ creating' = creating \ {kind}
  /\ described' = TRUE
  /\ Post(kind)
  /\ UNCHANGED <<state, peer_connection, thread, server, main, window, pending, sent>>

OnIceCandidate ==
  /\ Running /\ described
  /\ Cardinality({i \in DOMAIN posted : posted[i] = "candidate"}) < MaxCandidates
  /\ Post("candidate")
  /\ UNCHANGED <<state, peer_connection, thread, server, main, window,
                 creating, described, pending, sent>>

\* pending_messages_ with the message of the callback, if it has one
Waiting == IF Head(ui) = Nothing THEN pending ELSE Append(pending, Head(ui))

\* SEND_MESSAGE_TO_PEER on the main thread, with PCSendMessage
UIThreadCallback ==
  /\ main = "idle" /\ ui # <<>>
  /\ ui' = Tail(ui)
  /\ pending' = IF Waiting = <<>> THEN <<>> ELSE Tail(Waiting)
  /\ sent' = IF Waiting # <<>> /\ client = "CONNECTTOPEER" /\ socket = "open"
             THEN Append(sent, Head(Waiting)) ELSE sent
  /\ client' = IF Waiting # <<>> /\ client = "SIGNED_IN" THEN SignOut(client) ELSE client
  /\ state' = IF peer_connection THEN state ELSE "NOT_CONNECTED"
  /\ UNCHANGED <<peer_connection, thread, socket, retries, main, window,
                 creating, described, posted>>

-------------------------------------------------------------------------------
(* The end of the program.                                                 *)

\* The user closes the window: Close, then the window is gone.
OnDestroyed ==
  /\ main = "idle" /\ window
  /\ client' = SignOut(client)
  /\ IF MustJoin
     THEN main' = "joining" /\ UNCHANGED <<state, peer_connection, window>>
     ELSE Deleted /\ window' = FALSE /\ UNCHANGED main
  /\ UNCHANGED <<thread, socket, retries, messages>>

Quit ==
  /\ main = "idle" /\ Quitting
  /\ main' = "stopped"
  /\ UNCHANGED <<state, peer_connection, thread, server, window, messages>>

\* SIGINT: the handler calls exit, and no thread runs on, whatever the main
\* thread is doing, the join included.
signal_handler ==
  /\ Running
  /\ main' = "stopped"
  /\ UNCHANGED <<state, peer_connection, thread, server, window, messages>>

\* What the main thread does of itself
MainStep == UIThreadCallback \/ Quit \/ DoConnect

Next ==
  \/ OnConnect \/ OnRefused \/ OnClose
  \/ ReadJoined \/ ReadOtherJoin
  \/ \E kind \in {"offer", "answer", "candidate"} : ReadMessage(kind)
  \/ \E t \in {"get", "rl"} : Check(t) \/ GetStats(t)
  \/ \E kind \in {"offer", "answer"} : OnSuccess(kind)
  \/ OnIceCandidate \/ MainStep \/ OnDestroyed \/ signal_handler

Spec == Init /\ [][Next]_vars

\* The main loop turns and the polling threads are scheduled; no signal need
\* come.
FairSpec ==
  /\ Spec
  /\ WF_vars(UIThreadCallback) /\ WF_vars(Quit) /\ WF_vars(DoConnect)
  /\ \A t \in {"get", "rl"} : WF_vars(Check(t) \/ GetStats(t))

-------------------------------------------------------------------------------
(* Properties.                                                             *)

TypeOK ==
  /\ state \in {"NOT_CONNECTED", "CONNECTTOPEER"} /\ peer_connection \in BOOLEAN
  /\ thread \in [{"get", "rl"} -> {"none", "check", "use", "exited"}]
  /\ client \in {"NOT_CONNECTED", "SIGNED_IN", "CONNECTTOPEER"}
  /\ socket \in {"connecting", "open", "closed", "retry"} /\ retries \in 0 .. MaxRetries
  /\ main \in {"idle", "joining", "stopped", "crashed"} /\ window \in BOOLEAN
  /\ creating \subseteq {"offer", "answer"} /\ described \in BOOLEAN
  /\ \A q \in {pending, posted, sent} : q \in Seq({"offer", "answer", "candidate"})
  /\ ui \in Seq({"offer", "answer", "candidate", Nothing})

\* A thread that is going to use the connection, a polling thread that has
\* looked at state_ and slept or the signalling thread with a description for
\* it, finds one.  For the thread that stopGetState waits for this rests on the
\* join, which does not return (NeverWaits); the thread of the adaptation is not
\* waited for at all, and is safe only behind the join of the other.
NoUseAfterDelete ==
  (creating # {} \/ \E t \in DOMAIN thread : thread[t] = "use") => peer_connection

\* Between handlers a program without a connection is NOT_CONNECTED
\* (RTC_DCHECK(state_ == NOT_CONNECTED) in OnMessageFromPeer), and one with a
\* connection is polled.
StateAgrees ==
  main = "idle" =>
    /\ peer_connection = (state = "CONNECTTOPEER")
    /\ peer_connection => \A t \in Polls : thread[t] \in {"check", "use"}

\* While the server stays and the window is open, every message WebRTC makes
\* for the peer is sent or waits its turn, in order: PCSendMessage's state
\* check never throws one away.  (Only OnClose queues a callback with no
\* message.)
NoMessageLost ==
  socket # "closed" /\ main = "idle" => posted = sent \o pending \o ui

\* Without a peer, closing the window ends the program, unless the server went
\* away first: SignOut then leaves the client signed in.
QuitsWithoutPeer ==
  ~window /\ socket # "closed" ~> main = "stopped"

\* "This function never waits" (CustomSocketServer::Wait, which runs
\* OnDestroyed): the main thread returns from the join of the polling thread.
NeverWaits == main = "joining" ~> main # "joining"

===============================================================================
