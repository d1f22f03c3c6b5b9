# TLA+ models of the SwiftFEC / customizationFEC code

The repository is a WebRTC snapshot in which `src/examples/customizationFEC`
holds the project's own code: a video sender and receiver that protect RTP video
with a sliding-window Reed-Solomon code ("SwiftFEC"), and that adapt the window
length L, the FEC interval I and the number of FEC packets M to the network.
This directory models the parts whose correctness depends on orders of events,
limits and arithmetic, checks them with TLC on small instances and proves most of what
TLC checks, for every value of the constants, with TLAPS.

## 1. Inventory

| Component | State it keeps | Operations | What makes it correct |
|---|---|---|---|
| **RS decoder** `RS_forward_error_correction.cc`, `RSfec_receiver.cc` | `recovered_packets_` (tracked media, <= 128), `received_fec_packets_` (<= 32), `consider_loss_packets_` (<= 128), weak pointers between the last two, `fec_receive_time_` | `AddReceivedRedPacket`, `ProcessReceivedFec`, `DecodeRSFec` = `InsertPacket` + a loop of `AttemptRecovery` | pointers never dangle; what is recoverable is recovered at once, exactly, and delivered; the loop ends |
| **Matrix arithmetic** `reed_sol_matrix.cc` | none | coding coefficients, decoding table by elimination over GF(256) | the table recovers exactly the lost packets, NULL only when it must be |
| **RS encoder** `EncodeRSFec`, header writer | global base number | mask, base number, payloads | every FEC packet decodes against its header; limits 32 / 32 |
| **Sliding-window generator** `StreamRSfec_generator.cc` | media window, insertion counter, carried rate, parameters | `AddPacketAndGenerateFec`, `GetFecPackets` | window within the mask's 32 packets, FEC at the requested rate |
| **Block generator** `RSfec_generator.cc` | media buffer, frame counter, pending/current parameters | the same, `SetProtectionParameters` | every block protected or reported, parameters applied once |
| **FEC receive statistics** `Rtcp/FEC_receive_statistics_impl.cc` | newest number, list of losses (<= 256), lost / recovered / retransmitted times, cumulative counters and their values at the last report | `ReceiveFECPacket`, `ReceiveVideoPacket`, `ReceiveRecoverPacket`, `ReceiveRetransmitPacket`, `MaybeAppendReportBlockAndReset`, `RtcpReportBlocks` | each loss counted once, recovered/retransmitted/both consistent with the losses, reports monotone |
| **FEC reports** `FEC_report_block*.cc`, `fec_receiver_report.cc`, hooks in `rtcp_sender.cc`, `rtcp_receiver.cc` | reports on the wire; running lists, sums and totals at the sender | make, send, parse, `SetFECReportBlock`, reset after a silence | each packet counted in one report; sums never drift |
| **Adaptation** `conductor.cc` `FECStatsObserver`, `LModule`, `IModule`, `MModule` | L, I, M (process-wide), running averages | `OnStatsDelivered` on a timer | 3 <= L <= 32, 1 <= I <= L, 1 <= M |
| **Conductor** | connection state, peer connection, polling threads | start, connect, close, `doGetState`, `doFECRLState` | no use after close, no thread waits on itself |
| **Signalling** `peer_connection_client.cc`, `WebRTC_Experience_Script/SignalServer` | client state, rooms | join, relay, leave | both ends agree whether the call is up |
| Receive and send paths, ULPFEC, the rest of RTCP | copies of WebRTC's files with hooks for the above | | upstream's |
| Tambur | third-party streaming code, a baseline | | upstream's |
| Player, window, CSV logs | input and output of experiments | | not modelled |

How they interact. On the sending side `RTPSenderVideo` hands every media packet
to a generator, which calls the encoder when its rule says so and returns FEC
packets in RED, numbered in the same sequence as the media. On the receiving side
`RtpVideoStreamReceiver2` gives each RED packet to `RSfecReceiver`
(`AddReceivedRedPacket`, then `ProcessReceivedFec`, one packet per call), which
passes media to the callback, feeds the decoder and passes what was recovered to
the same callback. The callback also updates the statistics, which RTCP carries to
the sender, whose conductor sets L, I and M for the generator.

What is hard to test here: packets lost, duplicated and reordered by the network
against lists that evict at three different limits and hold weak pointers into each
other; the wrap of 16-bit numbers; singular equations, which need a particular loss
pattern; process-wide parameters written by one thread and read several times in
one call of another; polling threads that outlive what they poll. `PROJECT.json`
lists each hazard at its line.

## 2. Modules

```
SeqNum                    16-bit numbers, order and distance, pruning of sorted lists
 ├ RSDecoder              the decoder and the receiver that feeds it
 │   RSDecoder_proofs, MCRSDecoder, MCRSCrash (with RSCode)
 ├ FecStatistician        losses and repairs the receiver counts of one stream
 │  │   MCFecStatistician
 │  └ ReportPath          FecStatistician + FecReport; implements FecReport
 │      ReportPath_proofs (and both parts'), MCReportPath
 └ PacketWindow           the senders' packet list and what EncodeRSFec accepts
    │   PacketWindow_proofs (the lemmas about ordered windows both generators use)
    ├ StreamGenerator     the sliding window (EXTENDS SharedParams too)
    │   StreamGenerator_proofs, MCStreamGenerator
    └ BlockGenerator      blocks, and the window driven by WebRTC's parameters
        BlockGenerator_proofs, MCBlockGenerator
SharedParams              abstract: who may write L, I and M, and what
 └ Adaptation             the statistics callback that writes them (implements SharedParams)
    └ FecSender           Adaptation + StreamGenerator; implements StreamGenerator
        FecSender_proofs (and Adaptation's), MCFecSender
RSCode                    GF(256), coefficients, determinants
 └ RSMatrix               the elimination                            MCRSMatrix
FecReceiveStatistics      which streams get a block in a report      MCFecRotation
FecReport                 a report's way to the sender's totals, from any receiver
Conductor                 one client program and its threads
    Conductor_proofs, MCConductor
Signalling                two clients, the server, TCP
    Signalling_proofs, MCSignalling
```

How the models meet. `StreamGenerator!MaskFits` is what `RSDecoder` assumes of
the masks it receives (`MaskAssumption`). `Conductor!NoMessageLost` is what lets
`Signalling` write a posted message straight to the socket. Two modules are compositions:
the steps of `FecSender` are those of `Adaptation` and of `StreamGenerator` over the same
L, I and M, and in `ReportPath` a report is one step of `FecStatistician` and of
`FecReport` at once, over the same counters.

### SeqNum

`ForwardDiff`, `MinDiff`, `IsNewerSequenceNumber` with the width as a parameter,
so that small instances wrap. The sorted lists of the code hold each number once and
are modelled as sets; `Oldest`/`Newest` are `front()`/`back()`, `KeepNewest` is
"pop the front while too long", `PruneFront` is "erase from the front until one is
near enough", including that a far element behind a near one stays.

### RSDecoder

| Code | Model |
|---|---|
| `recovered_packets_` and `RecoveredPacket::returned` | `recovered_packets`, `returned` |
| `received_fec_packets_` | `received_fec_packets` |
| `ProtectedPacket::pkt == nullptr`, `arrive` bits | `missing[f]` |
| `ReceivedFecPacket::maybe_loss_packets` (weak pointers) | `maybe_loss[f]`, the live ones; `expired`, the holders of dead ones |
| `ConsiderLossPacket::reference_fec_packets` | the inverse of `maybe_loss` |
| `consider_loss_packets_` | `consider_loss_packets` |
| `fec_receive_time_` | its domain, `fec_receive_time` |
| `AddReceivedRedPacket` + `ProcessReceivedFec` + `DecodeRSFec` up to its loop | `ReceiveMedia(s)`, `ReceiveFec(f)` |
| one round of `AttemptRecovery` | `RecoverSucceeds`, `RecoverFails`, `AttemptEnds` |
| the delivery loop of `ProcessReceivedFec` | `Deliver` |

The network is any set of media packets `Media`, FEC packets `Fec` and headers
`Protects`; at every call any of them may arrive, so loss, duplication and
reordering need no channel. Bytes are abstracted: a recovered packet is right, or in
`corrupt`. It is corrupt when the decoding table has rows that were never written
(the packets believed lost are not the packets the combined masks call unknown) or an
input was corrupt. Whether the elimination meets a zero pivot is a parameter,
`ZeroPivot`; `MCRSCrash` gives it its real meaning through `RSCode`.

`RecoverFails` ends in `"crashed"`: the clean-up branch of `AttemptRecovery` reads
`(**fec_packet_it).seq_num` where `fec_packet_it` is `received_fec_packets_.end()`.
The element "at" the end of a list is its size field taken for a pointer, a small
number, and dereferencing it faults.

`seen`, `late` and `corrupt` are history variables: they say what the properties need
and no action's guard reads them, except that corrupt bytes spoil what is computed
from them and may give an impossible length.

### RSCode and RSMatrix

`RSCode` is the field of the galois library (an object file in the repository, so
external: polynomial 0x11d, generator 2) and the coefficient of a packet in a FEC
packet. `RSMatrix` is `reed_sol_skipped_stream_decoding_matrix` as a state machine, one
step per turn of its loops. Rows of arrived packets are unit rows all the way and are
left out.

### FecStatistician and FecReceiveStatistics

| Code | Model |
|---|---|
| keys of `packet_lost_time_`, `packet_recover_time_`, `packet_retransmit_time_` | `tracked`, always the same for the three |
| keys whose recover / retransmit time is set | `recovered`, `retransmitted` |
| `consider_lost_packet_list_` | the same, a sequence: a number may be in it twice |
| `cumulative_*_num_`, `last_report_cumulative_*_num_` | the records `num`, `last_report` |
| `last_receive_time_` | `received` (it has a value), `recent` (younger than the timeout) |
| `ReceiveVideoPacket`, `ReceiveFECPacket` | the same, then one `RecordLost` per turn of the loop of `InsertConsiderLostPacket` and `LossesRecorded` |
| `ReceiveRecoverPacket`, `ReceiveRetransmitPacket` and their early returns | the same and `IgnoreCopy` |
| `MaybeAppendReportBlockAndReset` | the same |

The first packet makes its predecessor `received_seq_max_` in the code before anything
else; `SeqMax` is the value the rest of the call sees. The sums of times (floating point)
are left out. `advance` and `in_order` are history variables. `MaxAdvance` and `MaxFec`
bound the length of a behaviour: the counters only grow.

`FecReceiveStatistics` is the level above: `all_ssrcs_`, the rotating index and which
streams are alive, that is, would append a block. A retransmission or a recovered packet
that creates a statistician leaves it not alive (`OnStrayCopy`), as the early return of
`FecStatistician` shows. Each call is atomic: both levels run under one lock.

### SharedParams, PacketWindow, StreamGenerator

| Code | Model |
|---|---|
| `transV::Params::L/I/M`, plain statics | `L`, `I`, `M`; any write is `ParamStep` |
| `media_packets_` | `media_packets`, a sequence of numbers, each with the history bit `covered` |
| `num_media_packets_insert_`, `left_rate_`, uninitialised by the constructor in use | the same, starting in `InsertInit`, `LeftInit` |
| `last_media_packet_.has_value()`, `generated_fec_packets_` | `last_media_packet`, `generated` |
| `AddPacketAndGenerateFec` | `AddPacket`, `PopFront`/`Trimmed` (one step per turn of the loop: each turn reads L), `Insert`/`Refuse` (second read of L), `Decide` (read of I), `Encode`/`EncodeFails`/`EncodeEmpty` (read of M) |
| `GetFecPackets` | the same |
| `EncodeRSFec` up to the payloads | `MaskOf`, `Protectable`, `NumFecPackets` |

`EncodeRSFec` adds up the differences of neighbouring numbers and stops at the end of the
mask; `Protectable` says the same of the distances from the first packet (`MaskOf`), which
are those sums as long as they do not go round the range of numbers.

`EncodeEmpty` ends in `"crashed"`: the mask loop reads `front()` of an empty list. A
packet is its number; the payload is left out. `left_rate_` (a double) is counted in
units of `1/One`. Gaps stand for the numbers that FEC packets, retransmissions and
unprotected packets take. `exposed`, `disturbed` and `counted` are history: no guard
reads them.

### BlockGenerator

`RSfecGenerator` and the branch of `StreamRSfecGenerator` for `RSFECStreamSourceRate`,
told apart by `block`. The overhead rule is in Q8 with the code's thresholds.
`SetProtectionParameters` comes from another thread under a mutex and is pending until
the next packet; `ParamsInForce` and `MinimumInForce` are the first lines of
`AddPacketAndGenerateFec`, in their order: the minimum is chosen before the packet's own
frame type is known. `num_protected_frames_` is counted up to `FrameCap`, beyond every
limit it is compared with.

### Adaptation and FecSender

`OnStatsDelivered` with a step per write of L, I or M, because the sending thread reads
them without a lock. What a report says is reduced to what is decided with it: the
interval the loss rate asks for, whether the averages are numbers, what the agents
answer (any value of their range: Python, external), whether bursts are short. A report
without the remote-inbound item leaves `default_I` uninitialised
(`IncompleteReport`, `StackValues`); the history variable `incomplete` tells whether the
last report was such, an earlier one, or none. `default_L` is assumed to be a length
`getL` could give (3 .. 32; it is 32 unless the command line says otherwise):
`Params.h:188-191` takes any number, and with one beyond the mask nothing here is claimed.
`I` is a `uint32_t` (`Width`). The locals of the
callback are reset in `OverrideI`, the last step that reads them, to keep states few (so
is the generator's `packet` in `Decide`).

`FecSender` replaces the generator's abstract writer by the callback. The refinement
mapping of `ImplementsGenerator` is the identity on the shared variables, with
`Lengths`, `Intervals` and `Numbers` the ranges the adaptation can produce.

### FecReport and ReportPath

In `FecReport` the receiver counts anything (`Count`): a packet may count for several of
the three kinds that a report carries with a time. `MakeReport` is the part of
`MaybeAppendReportBlockAndReset` that fills a block and the 16-bit fields of
`FEC_report_block.cc`; `network` is a set, so reports are lost (`Lose`) and overtake
each other; `Deliver` is `SetFECReportBlock`, with the reset after `kDefaultTimeThread`
of silence. Times and fractions are any values. `burst_lost_num_list_` is not modelled:
it is not cleared by the reset, and nothing reads it.

`ReportPath` puts the statistician in the place of that receiver. `SendReport` is
`MaybeAppendReportBlockAndReset` as `BuildFECR` calls it; the refinement mapping of
`ImplementsReport` takes the kinds out of the statistician's counters (`OfKinds`) and the
fraction from `FractionLostRecover`. A block in which the statistician has nothing to say
(not alive) is not sent.

### Conductor

| Code | Model |
|---|---|
| `Conductor::state_`, `peer_connection_` | `state`, `peer_connection` |
| `doGetState`, `doFECRLState` threads | `thread`, steps `Check` (look at `state_`) and `GetStats` (use the connection after the sleep) |
| `PeerConnectionClient::state_`, `control_socket_` | `client`, `socket` |
| `CustomSocketServer::Wait` | `Serving`, `Quit`, `UIThreadCallback` |
| `OnRead` | `ReadJoined`, `ReadOtherJoin`, `ReadMessage` |
| `InitializePeerConnection` | `InitializeWorks`, `InitializeFails`, `CreateFails` |
| `Close`, `DeletePeerConnection`, `stopGetState` | `OnDestroyed`, the join in `Check`, `Deleted` |
| `pending_messages_`, `g_idle_add` | `pending`, `ui` |
| `signal_handler` | the same: it exits, and no thread runs on (`Running`) |

Handlers no caller reaches are left out: the window never asks for
`DisconnectFromCurrentPeer`, nothing posts `PEER_CONNECTION_CLOSED`, and `/leaved`
answers a `/leave` that `SignOut` would send on a closed socket. `CreateFails` ends in
`"crashed"`: `AddTracks` uses the null connection.

### Signalling

`toServer` and `toClient` are TCP streams of whole writes; `OnRead(c, n)` and
`ServerData(c, n)` take any number of them in one read, and `OnPartialRead` is a read
that ends inside a message. The three `if`s of `OnRead` are the chain `b0`, `b1`, `b2`;
what none of them takes is cleared. `End` is the end of a program, after which it may
be started again (`Join`). `Join` waits until the server has read the old program's socket
to its end. That is an assumption: the two sockets are independent, and the code does not
keep a new program's `/join` from being read before the old one's last messages. What is
said of restarts rests on it. What WebRTC makes of descriptions and candidates (`Accepts`,
`Applied`) is external.

## 3. Runs

| Run | Properties | Instance | States |
|---|---|---|---|
| `decoder` | `LinksConsistent` `KnownNotLost` `FecTimed` `NoSingleLossLeft` `RecoveredDelivered` `CorruptOnlyIfLate` `HandlerTerminates` `RecoveredSentUnlessFull` | 6 media packets whose numbers wrap (29 .. 2 mod 32), 4 FEC packets, limits 3/3/4 | 190,128 |
| `crash` (violation) | `NoCrash` | six packets, FEC packets of generations 0, 1, 4, the real field | |
| `matrix` | `TableRecovers` `NullJustified` | all choices of up to 3 of 5 generations, all losses of up to 3 of the window | 10,464 |
| `statistics` | `LossesComplete` `RepairsWithinLosses` `MapsFollowList` `ReportFits` | numbers modulo 6, a list of 2 losses, 10 numbers of advance, 1 FEC packet | 4,017,547 |
| `rotation` | `NoStarvation` | 4 streams, 2 blocks per report | 15,953 |
| `window` | `MaskFits` `CoveredPrefix` `ExposedOnlyIfDisturbed` `EncoderContract` `FecKeepsComing` | mask of 4 bits, numbers modulo 16, gaps up to 4, L in {2, 4}, I in {1, 5}, counter starting at -2, 0 or 3, carried rate at -3 or 5 halves, an interval type and a rate type | 1,319,360 |
| `block` | `FecOverFewFrames` `EncoderContract` `MinimumEnforced` `BlocksEnd` | buffer of 7 over a mask of 6 (40 over 32 in the code), three parameter sets with limits of 1 to 3 frames, both types | 320,992 |
| `sender` | `NeverWraps` `ExcessIsStale` `WindowKeptAfterStart` `ImplementsGenerator` `FecFlows` | L in 1 .. 2, two reports of warm-up, I wraps at 5, three types | 1,014,545 |
| `conductor` | `NoUseAfterDelete` `StateAgrees` `NoMessageLost` `QuitsWithoutPeer` | 2 candidates, 2 refused connections | 28,727 |
| `conductor_waits` (violation) | `NeverWaits` | 1 candidate | |
| `signalling` | `DescriptionsInSequence` `CandidatesUsable` `Negotiates` | 2 clients, 2 timer ticks, 2 candidates each, 1 restart | 198,854 |
| `report_path` | `CountedOnce` `SumsAgree` `HeardWithinLosses` `ImplementsReport` | numbers modulo 6, a list of 2 losses, 4 numbers of advance, 3 reports, a 1-bit field that overflows, windows of 2, a reset after any tick of the clock | 375,278 |

Every property has a mutant of a mapped definition (`PROJECT.json`, "mutants"; operators
named `<definition>_<bug>` in the modules) that breaks it under the same configuration.

Bounds. The limits of the code are parameters and only their order matters to the
actions; the instances keep the relations the code has and make the limits small enough
to be exceeded. `MCRSDecoder`: limits in the order of the code's, not in its ratios; every list evicts,
the big-gap reset happens, FEC packets grow old, singular equations occur, a recovered
packet is evicted, and a FEC packet comes after a packet it protects was forgotten, so the
exceptions of `CorruptOnlyIfLate` and `RecoveredSentUnlessFull` are reached.
`MCFecStatistician`: ten numbers of advance over a range of six, so that numbers are lost
a second time after the wrap. Windows of 2 and 4 packets make the window shrink, grow,
overflow the mask by a gap and hold more or fewer packets than I. In
`MCBlockGenerator` the mask is longer than `kMinMediaPackets + 1`, so that FEC is made
before `max_fec_frames` and `MinimumEnforced` says something; gaps are 1 there, and larger
in `window` and in the theorems. In `MCFecSender` the
smallest interesting mask keeps the product of the two components small; the generator
alone is checked with a larger one. `Width` is just above the largest legal I, so a
decrement that wraps is seen. `NumMod = 2` makes the wire field overflow. In
`MCReportPath` four numbers of advance are enough for two losses, each repaired both ways
and more than once, before, between and after the reports, and for a number on the wire
that wraps; FEC packets change nothing there and are left to `statistics`.

Deadlock is checked except where the program really stops (a crash, a stopped program,
the end of the bounded inputs).

Fairness, and why the code justifies it:
- `RSDecoder`, `WF(Handler)`: the receiving thread is in a synchronous call that nothing
  blocks. Arrivals are not fair.
- `FecReceiveStatistics`, `WF(RtcpReportBlocks)`: RTCP sends reports on a timer.
- `StreamGenerator`, `WF(SenderStep)`: the video source keeps sending and the sending
  thread is scheduled. Writes of parameters are not fair.
- `FecSender`, `WF` of each thread: the polling thread asks for a report every
  `RL_interval_ms`. Which report comes is not fair.
- `BlockGenerator`, `WF(GeneratorStep)` and `SF(FrameEnds)`: every frame has a last
  packet, which the sender marks. Strong because the step is enabled only between calls.
- `Conductor`, `WF` of the main loop's own steps and of each polling thread. The server,
  the user, signals and WebRTC are not fair.
- `Signalling`: both programs are started, TCP delivers, WebRTC answers. Timer, candidates,
  restarts and cut reads are not fair.

## 4. Findings

1. `RS_forward_error_correction.cc:1289` (run `crash`). Three FEC packets of
   generations 0, 1 and 4 over six packets are singular for the losses {0, 3, 5};
   the branch that says "Can't recover using this packet, drop them!" reads through an
   end iterator instead.
2. `conductor.cc:850` (run `conductor_waits`). `main.cc:248` says "This function never
   waits." Closing the window of a connected client joins a thread that loops while
   `state_ == CONNECTTOPEER`, and the state changes only after the join.

Behaviours the code has that the properties name as their exceptions; each is reached by
its run, and the property fails without the exception:

| Where | What happens | Exception of |
|---|---|---|
| `RS_forward_error_correction.cc:1583` | a packet dropped from tracking is protected by a FEC packet that comes later; wrong bytes are recovered and delivered | `CorruptOnlyIfLate` (`late`) |
| `RS_forward_error_correction.cc:1330` | a recovered packet older than everything in a full list is evicted before it is sent | `RecoveredSentUnlessFull` |
| `FEC_receive_statistics_impl.cc:332` | a number lost again after a wrap is listed twice; evicting the old entry erases the fresh record | `MapsFollowList` (its part `ListedUntilWrap`) |
| `StreamRSfec_generator.cc:151` | before the first report a rate type encodes an empty window | `EncoderContract`, `FecKeepsComing` |
| `StreamRSfec_generator.cc:254` | while L is 0, before the first report, packets are refused | `ExposedOnlyIfDisturbed` does not count them |
| `StreamRSfec_generator.cc:254` | L shrinks between two reads of one call and the packet is kept out of the window | `ExposedOnlyIfDisturbed` (`disturbed`) |
| `StreamRSfec_generator.cc:72` | the counter of new packets starts with what memory held | `CoveredPrefix` (`counted`) |
| `RSfec_generator.cc:131` | a block longer than the mask is dropped unprotected | `BlocksEnd` counts it as an end |
| `RSfec_generator.cc:119` | the minimum is chosen before the frame type is known | `MinimumEnforced` (both rates above the threshold) |
| `StreamRSfec_generator.cc:402` | the kept window holds more than `max_fec_frames` frames | `FecOverFewFrames` (`block`) |
| `conductor.cc:257` | an incomplete report sets I from the stack | `NeverWraps` (no report so far), `ExcessIsStale` (not the last report), `FecFlows` (complete from some time on) |
| `peer_connection_client.cc:182` | `SignOut` on a closed socket leaves the client signed in and the program does not quit | `QuitsWithoutPeer` |
| `peer_connection_client.cc:86`, `:225`, `:67` | a read that starts with `/wait` is cleared whole; a message cut in two is lost; a client that has had a peer ignores `/other_join` | `Negotiates`, `CandidatesUsable` (`Undisturbed`) |

Remarks. `FEC_report_block.cc`'s diagram names the time fields in another order than the
code writes them (writer and reader agree). When initialisation fails in
`OnMessageFromPeer` the client signs out and `OnRead` sets its state back. SIGINT calls
`exit` in its handler (`main.cc:605`, `Conductor!signal_handler`) and so ends the program
at once, the join included; `g_interrupt_requested`, which `CustomSocketServer::Wait` tests
at `:252`, is never set. `NoUseAfterDelete` holds because of finding 2: the connection is
deleted only after a join that does not return. The adaptation thread is not joined at all;
a repair of the join alone would leave it to use a deleted connection.

## 5. Proofs

### Decoder

`RSDecoder_proofs` proves, for every stream, all limits and any width (assumptions
`SeqModAssumption`, `StreamAssumption`, `LimitAssumption`, `MaskAssumption`: numbers in
range, media and FEC disjoint, non-empty masks no longer than the loss threshold):

- `TypeCorrect`; `LinksStayConsistent`, `KnownStaysNotLost`, `FecAlwaysTimed`,
  `SingleLossRecovered`, `TrackedDelivered`, `ExactUnlessLate`: the invariants of the
  run `decoder`.

None of them is inductive. The inductive invariant `IInv` adds what holds in the middle
of a call: live pointers are a subset of the missing packets and lead into
`consider_loss_packets` (`LinksSound`); a FEC packet without a dead pointer points at
everything it misses (`LinksComplete`), which is what lets `AttemptRecovery` restore
`LinksConsistent` by dropping the others; after the last round the search has failed
from every start (`SearchExhausted`), and a FEC packet that misses one packet would have
been a successful start by itself, which gives `NoSingleLossLeft`; a packet is tracked
and unreturned only while a recovery of this call is pending
(`ReturnedUnlessRecovered`); and until a FEC packet comes late all FEC packets agree on
what arrived (`ArrivalsAgree`), which makes the table's rows those of the packets
believed lost.

Two action properties go beyond the invariants.

- `RecoveredSent`: `RecoveredSentUnlessFull`, in every behaviour in which the packets
  tracked and believed lost lie within half the range of numbers (`ListsSorted`). The
  hypothesis is what the code's sorted lists take for granted: beyond it "newer" is no
  order, `front()` need not be the oldest, and evicting the front may drop anything.
  `RecoveredSentInShortStream` has it without the hypothesis for a stream within half the
  range, wrap included, which the instance of the run `decoder` is. Within half the range
  a non-empty set has one oldest number (`HalfRangeOrder`), so that the evictions of a
  round either drop nothing (`RoomKeepsAll`) or leave the list at its limit
  (`FullListKeepsLimit`).
- `RoundsBounded`: each round of the loop of `DecodeRSFec` that is followed by another uses
  up at least one FEC packet, and rounds insert none. This is what `HandlerTerminates`
  rests on; the step from there to "the call ends" is liveness and stays with TLC.

### Statistics and the report path

`ReportPath_proofs` has four parts.

*The statistician.* It proves the four invariants of the run `statistics` and type
correctness, for every width, every limit of the list and any behaviour (`SeqModAssumption`,
`StatisticianAssumption`: the list holds at least one number). `LossesComplete` is
inductive only together with what the loop still has to record (`LoopDistance`: the
distance from the next number to the packet, below half the range, which is also why the
loop's "newer" test cannot stop early). `RepairsWithinLosses` needs the packets that can
still be repaired counted in (`RepairsAccounted`): a loss adds at most one unrepaired
packet, a first repair takes one away, eviction only loses some. `ReportFits`
needs only that no counter is behind its reported value (`ReportBehind`). `MapsFollowList`
(theorem `MapsAndListAgree`) is `MapsBounded`, which is inductive, and `ListedUntilWrap`,
which needs the list's order: measured from the number the
stream has come to, the distances fall strictly along the list and stay below what the
stream has passed (`Placed`). So no number is in it twice, and an eviction erases no
other entry's record; past one whole range the order is gone, and so is the property.

*Sums.* `FecReport` adds up sets and lists with folds. The library's induction theorems
take an operator and cannot be used, but that every set of natural numbers has a least
element can (`LeastNat`, from the well-foundedness of `<`): a smallest set or a shortest
list for which a fold is wrong would have a smaller one. This gives what a fold is
(`TotalFacts`: zero of nothing, and any element may be taken out first), and from it the
sum of an appended, concatenated or byte-valued list.

*The reports*, for any receiver that behaves like `FecReport`'s. `RunningSums` and
`ReportedOnce` rest on the invariant `RInv`. `CountedOnce` itself is not inductive, being
an equation of remainders; `Conserved` says instead that what was reported is what the
sender has, lost and forgotten reports had and reports on the way carry, *plus some number
of whole turns of the wire's field*, and each overflow adds to the turns. It needs that a
new report differs from those on the way (they are numbered, `WayInv`) and that counters
are never below their reported values.

*Both together.* `PathImplementsReport`: every step of `ReportPath` is a step of
`FecReport` or invisible to it. A first copy of a tracked loss is `Count` of one kind, or
of two if it has been repaired the other way before; that the count stays below the bound
`MaxAdvance` of the abstract module follows from `RepairsAccounted` and `LossesComplete`
after the step (`KindsWithinLosses`); that the fraction is a byte follows from
`ReportBehind`. `PathCountsOnce` and `PathSumsAgree` carry both properties over to
the statistician's reports, and `SenderHearsLosses` bounds the sender's totals by the
receiver's losses. Assumptions: `SeqModAssumption`, `StatisticianAssumption` and
`PathAssumption` (field width, window and clock positive, times integers).

### Sliding-window generator

`PacketWindow_proofs` holds what the generators share: `Ordered(w, s)` says that the
window ascends, ends at s and is nowhere further back than the mask reaches; appending a packet and
erasing from the front until one is near keeps it, and an ordered list is one the encoder
accepts (`OrderedProtectable`). The assumption is that gaps and window together stay
below half the range of numbers (`GapAssumption`): beyond it `MinDiff` itself is ambiguous.

`StreamGenerator_proofs` proves the four invariants of the run `window`, for any sets of
values of L (within the mask), I and M, written at any moment, and any initial contents
of the uninitialised counters:

- `MaskAlwaysFits` from `WindowInv` (types, `Ordered`, and that the packet in hand is
  ahead of the window);
- `PrefixAlwaysCovered` and `ExposureExcused` from `CounterInv`. Neither is inductive: that a
  packet popped from the front has been covered depends on the room at each point of a
  call, so the invariant says that an undisturbed window never outgrows L, that the
  packet fits when its turn comes and that between calls fewer than L packets wait;
- `ContractKept` from `ContractInv`: there is a last media packet while there is a window,
  and a window at the end of every call that has once had one.

### Adaptation and its composition with the generator

`FecSender_proofs`: for every width of I, every range of L and M, any reports and any
answers of the agents. The inductive invariant `AInv` follows I through the callback:
`default_I` is within the window the report was read with (`DefaultWithin`), the agent
moves I by one from a value in 1 .. MaxL, so that only `MaxL + 1` exists before the
clamp and 0 never meets the decrement (`IntervalWithin`), while all reports are complete.
After an incomplete one the next complete report sets or clamps I again, whatever it was
(`IntervalRepaired`). That 0 does not meet the decrement rests on `Warmup >= 2`
(5 in the code), because the first report, which finds L = 0, may leave I = 0.

- `IntervalNeverWraps`, `ExcessAlwaysStale`: the invariants of the run `sender`.
- `CallbackImplementsParams`: every step of the callback is one write of `SharedParams`
  or none. `SenderImplementsGenerator`: `FecSender` implements `StreamGenerator`, initial
  states and each step. The refinement is also how the proofs compose: the module
  instantiates `StreamGenerator_proofs`, so `WindowInv` and its step lemma hold of the
  sender without being proved again.
- `KeptAfterStart`: under the hypothesis that the command line asks for at least one FEC
  packet (`generate_fec_num`, 1 by default; with 0 the types of a fixed number hand
  the encoder a request it refuses).

### Block generator

`BlockGenerator_proofs`: for every buffer longer than the mask (40 over 32 in the code)
and every set of parameters, set at any moment. `ContractKept` needs that a list which
reaches the encoder is not empty and that the overhead rule never yields more FEC packets
than media packets (`NumFecPacketsBounds`). `MinimumAlwaysEnforced` needs the minimum
tied to the parameters in force (`MinimumInv`): they change together, and only while
nothing is being encoded. `BlocksEndFewFrames` needs that a block which goes on has not
reached the limit of the parameters in force when its last frame ended (`FramesInv`);
so it ends within the largest limit, not within the current one.

### Conductor

`Conductor_proofs`: for any number of candidates and retries. `ConnectionInv`: there is a
connection exactly while `state_` says so, and exactly then its polling threads run, each
between its look at `state_` and its use of the connection; only a connection makes
messages. `QueueInv`: while connected the client is in the state in which `PCSendMessage`
writes, so that nothing stays in `pending_messages_`. They give `ConnectionOutlivesUse`,
`StateAlwaysAgrees` and `MessagesKept`. `JoinNeverReturns` is the finding
`conductor_waits` for every instance: no step but the signal that ends the program leads
out of the join.

### Signalling

`Signalling_proofs`: for any number of ticks of the server's timer, candidates and
restarts and reads that merge any number of writes, with two clients (`TwoClients`: a
room holds two). The invariant is about each ordered pair of clients and has four parts:
what a client has written goes with its state (`LocalOK`); at most one offer is under way
to a client, and whoever has one, or the news of `/other_join` before it, faces a
client that has not offered and will not (`OfferOK`): the server tells `/other_join` only
to who was in the room before; until a restart each offer has one answer, which is either
to come or to be read (`AnswerOK`); and undisturbed, control messages come where they are
expected and a description stands before every candidate, in each channel and across
them (`CandidateOK`). The first two hold always, `AnswerOK` until a restart,
`CandidateOK` while `Undisturbed`. `DescriptionsStayInSequence` and
`CandidatesAlwaysUsable` follow.

### Only model-checked

- `TableRecovers` and `NullJustified`: the field operations of `RSCode` are recursive and
  bitwise, and what they compute is an induction over data.
- Liveness, which is out of the prover's reach: `HandlerTerminates`, `NoStarvation`,
  `FecKeepsComing`, `FecFlows`, `BlocksEnd`, `QuitsWithoutPeer`, `Negotiates`.

## 6. Not modelled, and the plan

Done: decoder, matrix, statistics and rotation; both generators; adaptation and its
composition with the generator; the report path and its composition with the statistics;
conductor and signalling; the proofs of all safety properties of the runs except the two of
the matrix, and of the refinements. Left:

1. `FecReceiveStatistics`: safety facts under `NoStarvation` (the index stays in range).
2. `RSMatrix`: an elimination over an abstract field, whose laws could be assumed and the
   table's equations then proved; what `RSCode` computes stays with TLC.

Not modelled, and why:

- WebRTC itself. The repository is the whole of WebRTC with the project under
  `src/examples/customizationFEC` (and an older copy of it in `src/examples/MyFECExp`),
  so the share of all lines the models cover is small by nature: what is modelled is most
  of the project's own control, about twenty files.
- The copies of WebRTC files: send path (`rtp_sender_video.cc`), receive path
  (`rtp_video_stream_receiver2.cc`), `rtcp_sender.cc`, `rtcp_receiver.cc`, ULPFEC, beyond
  the hooks that feed the modelled parts.
- Tambur: third-party research code, a baseline of the experiments.
- Player, window, MP4 and CSV input and output; the learning agents (Python, external).
- Payload bytes, header layout and floating-point averages: abstracted to what the
  properties tell apart.
- The sums of times in the statistics, and the other routines of
  `reed_sol_matrix.cc`, which the stream code does not call.

