------------------------------ MODULE ReportPath ------------------------------
(***************************************************************************)
(* The whole path of a report: the receiver's statistician (module         *)
(* FecStatistician) counts, MaybeAppendReportBlockAndReset makes a block   *)
(* of its counters, and the block goes over the network to the sender's    *)
(* FECReportBlockData.  The way from the block on is module FecReport,     *)
(* whose counted and reported are the statistician's counters and their    *)
(* values at the last report.                                              *)
(***************************************************************************)
EXTENDS FecStatistician

CONSTANTS
  Times(_),    \* averages a report of a kind may carry
  NumMod,      \* 2^16, the width of the numbers on the wire
  Window,      \* kDefaultTimeWindow
  Silence,     \* kDefaultTimeThread
  MaxReports,  \* bound on the reports sent
  MaxTime      \* bound on the sender's clock

\* The counters that a report carries with a time
Kinds == {"recover", "retransmit", "both"}

ASSUME PathAssumption ==
  /\ \A n \in {NumMod, Window, MaxTime} : n \in Nat \ {0}
  /\ \A n \in {Silence, MaxReports} : n \in Nat
  /\ \A k \in Kinds : Times(k) \subseteq Int

VARIABLES
  reports, network,                            \* the way
  now, stamp, cumulative, averages, fraction,  \* the sender
  lost, forgotten                              \* history

reportVars == <<reports, network, now, stamp, cumulative, averages, fraction,
                lost, forgotten>>
pathVars == <<vars, reportVars>>

\* Their values in the statistician's counters
OfKinds(counters) == [k \in Kinds |-> counters[k]]

\* A kind never counts more than the numbers the stream advances over.
Report == INSTANCE FecReport WITH
       counted <- OfKinds(num), reported <- OfKinds(last_report),
       Fractions <- 0 .. 255, MaxNum <- MaxAdvance, Timeout <- Silence

PathInit == Init /\ Report!Init

\* MaybeAppendReportBlockAndReset, and the RTCP sender puts the block on the way.
SendReport ==
  /\ MaybeAppendReportBlockAndReset
  /\ \E average \in Report!Averages : Report!MakeReport(average, {FractionLostRecover})

PathNext ==
  \/ Receive /\ UNCHANGED reportVars
  \/ SendReport
  \/ /\ UNCHANGED vars
     /\ \/ \E r \in network : Report!Lose(r) \/ Report!Deliver(r)
        \/ Report!Tick

PathSpec == PathInit /\ [][PathNext]_pathVars

-------------------------------------------------------------------------------
(* Properties *)

\* What FecReport leaves open, the statistician does: it counts each kind by one
\* packet at a time, never more between two reports than the stream advances,
\* and its fraction is a byte, whatever was lost before the last report and
\* repaired after it.
ImplementsReport == Report!Spec

\* End to end: the packets of a kind that the sender is told of are never more
\* than the receiver's losses, though reports are lost, late and out of order,
\* copies of a packet come more than once and the numbers on the wire wrap.
HeardWithinLosses ==
  \A k \in Kinds : cumulative[k] + forgotten[k] <= num.loss

\* Every repair the statistician counted is in one report only: what the sender
\* has, what is on the way, was lost or forgotten add up to what was reported.
CountedOnce == Report!CountedOnce

\* The sums and averages that the sender keeps of these reports are those of its
\* windows, through evictions and resets.
SumsAgree == Report!SumsAgree

===============================================================================
