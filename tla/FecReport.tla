------------------------------- MODULE FecReport -------------------------------
(***************************************************************************)
(* FEC reports from the receiver's statistics to the sender's statistics:  *)
(* MaybeAppendReportBlockAndReset makes a block of what happened since the *)
(* last one, the RTCP sender puts it on the wire, UDP loses and reorders,  *)
(* and the RTCP receiver feeds FECReportBlockData, which accumulates and   *)
(* averages over the last reports that say anything.                       *)
(*                                                                         *)
(* A kind is one of the three counts with a time (recovered, retransmitted *)
(* and both); the statistician itself is module FecStatistician, here it   *)
(* counts anything.  Times are positive except that a recovery may come    *)
(* after the retransmission it is compared with (kind "both").             *)
(***************************************************************************)
EXTENDS Integers, Sequences, FiniteSets, FiniteSetsExt, SequencesExt

CONSTANTS
  Kinds,
  Fractions,   \* values of the single-byte fraction
  Times(_),    \* averages a report of this kind may carry
  NumMod,      \* 2^16, the width of the numbers on the wire
  MaxNum,      \* bound: packets of a kind between two reports
  Window,      \* kDefaultTimeWindow
  Timeout,     \* kDefaultTimeThread
  MaxReports,  \* bound on the reports sent
  MaxTime      \* bound on the sender's clock

VARIABLES
  counted,    \* receiver: cumulative_*_pkt_num_, per kind
  reported,   \* receiver: last_report_cumulative_*_pkt_num_
  reports,    \* reports sent so far
  network,    \* reports on the way
  now,        \* sender: the clock
  stamp,      \* sender: report_block_timestamp_, 0 before the first report
  cumulative, \* sender: cumulative_*_pkt_
  averages,   \* sender: per kind, list, sum and fixed value
  fraction,   \* sender: the same of fraction_lost_recover
  lost,       \* numbers of the reports that were lost (history)
  forgotten   \* numbers dropped by ResetFECReportBlockData (history)

receiver == <<counted, reported, reports>>
data == <<stamp, cumulative, averages, fraction>>
vars == <<receiver, network, now, data, lost, forgotten>>

Empty == [list |-> <<>>, sum |-> 0, fixed |-> 0]
None == [k \in Kinds |-> 0]

Init ==
  /\ counted = None /\ reported = None /\ reports = 0
  /\ network = {} /\ now = 1 /\ stamp = 0
  /\ cumulative = None
  /\ averages = [k \in Kinds |-> Empty] /\ fraction = Empty
  /\ lost = None /\ forgotten = None

Plus(f, g) == [k \in Kinds |-> f[k] + g[k]]

-------------------------------------------------------------------------------
(* The receiver.                                                           *)

\* A packet arrives that counts for the kinds in K.
Count(K) ==
  /\ K # {} /\ \A k \in K : counted[k] - reported[k] < MaxNum
  /\ counted' = [k \in Kinds |-> IF k \in K THEN counted[k] + 1 ELSE counted[k]]
  /\ UNCHANGED <<reported, reports, network, now, data, lost, forgotten>>

\* What was counted since the last report
Since_Total == counted
Since == [k \in Kinds |-> counted[k] - reported[k]]

\* A report is made, with one of the fractions fs; a kind without packets has the
\* average 0.
MakeReport(average, fs) ==
  /\ reports < MaxReports
  /\ reports' = reports + 1
  /\ reported' = counted
  /\ \E f \in fs : network' = network \cup
       {[id |-> reports,
         num |-> [k \in Kinds |-> Since[k] % NumMod],
         average |-> [k \in Kinds |-> IF Since[k] = 0 THEN 0 ELSE average[k]],
         fraction |-> f]}
  /\ UNCHANGED <<counted, now, data, lost, forgotten>>

Lose(r) ==
  /\ network' = network \ {r}
  /\ lost' = Plus(lost, r.num)
  /\ UNCHANGED <<receiver, now, data, forgotten>>

-------------------------------------------------------------------------------
(* The sender.                                                             *)

\* Division as C++ does it
Quotient(a, b) == IF a >= 0 THEN a \div b ELSE -((-a) \div b)

\* One more value: the oldest leave while the list is full.
Slid(w) == IF Len(w.list) >= Window
           THEN SubSeq(w.list, Len(w.list) - Window + 2, Len(w.list)) ELSE w.list
Pushed(w, v) ==
  LET gone == SubSeq(w.list, 1, Len(w.list) - Len(Slid(w)))
      list == Append(Slid(w), v)
      sum  == w.sum - FoldSeq(+, 0, gone) + v
  IN  [list |-> list, sum |-> sum, fixed |-> Quotient(sum, Len(list))]

\* ResetFECReportBlockData on one list
Cleared_SumOnly(w) == [w EXCEPT !.sum = 0, !.fixed = 0]
Cleared(w) == Empty

\* SetFECReportBlock: a silence longer than Timeout clears everything first.
Deliver(r) ==
  LET silent == stamp # 0 /\ now - stamp > Timeout
      old    == IF silent THEN [k \in Kinds |-> Cleared(averages[k])] ELSE averages
      oldF   == IF silent THEN Cleared(fraction) ELSE fraction
      oldC   == IF silent THEN None ELSE cumulative
  IN
  /\ network' = network \ {r}
  /\ stamp' = now
  /\ fraction' = Pushed(oldF, r.fraction)
  /\ averages' = [k \in Kinds |-> IF r.num[k] = 0 THEN old[k]
                                  ELSE Pushed(old[k], r.average[k])]
  /\ cumulative' = Plus(oldC, r.num)
  /\ forgotten' = IF silent THEN Plus(forgotten, cumulative) ELSE forgotten
  /\ UNCHANGED <<receiver, now, lost>>

Tick ==
  /\ now < MaxTime
  /\ now' = now + 1
  /\ UNCHANGED <<receiver, network, data, lost, forgotten>>

\* Averages that a report may carry
Averages ==
  {average \in [Kinds -> UNION {Times(k) : k \in Kinds}] :
     \A k \in Kinds : average[k] \in Times(k)}

Next ==
  \/ \E K \in SUBSET Kinds : Count(K)
  \/ \E r \in network : Lose(r) \/ Deliver(r)
  \/ Tick
  \/ \E average \in Averages : MakeReport(average, Fractions)

Spec == Init /\ [][Next]_vars

-------------------------------------------------------------------------------
(* Properties.                                                             *)

WindowOK(w) ==
  /\ w.list \in Seq(Int) /\ Len(w.list) <= Window
  /\ w.sum \in Int /\ w.fixed \in Int

TypeOK ==
  /\ \A f \in {counted, reported, cumulative, lost, forgotten} : f \in [Kinds -> Nat]
  /\ reports \in 0 .. MaxReports /\ now \in 1 .. MaxTime /\ stamp \in 0 .. now
  /\ \A r \in network : r.num \in [Kinds -> 0 .. NumMod - 1]
  /\ \A k \in Kinds : WindowOK(averages[k])
  /\ WindowOK(fraction)

\* Every packet the receiver counted is in one report only: what the sender
\* has accumulated, what is on the way, was lost or was forgotten after a
\* silence add up to what was reported (modulo the width of the field), in
\* whatever order the reports come.
CountedOnce ==
  \A k \in Kinds :
    (cumulative[k] + lost[k] + forgotten[k]
       + MapThenSumSet(LAMBDA r : r.num[k], network)) % NumMod = reported[k] % NumMod

\* The running sums never drift from the lists they are sums of, through
\* evictions, empty reports and resets; and the average of fractions still is
\* a single byte.
SumsAgree ==
  /\ \A k \in Kinds : averages[k].sum = FoldSeq(+, 0, averages[k].list)
  /\ fraction.sum = FoldSeq(+, 0, fraction.list)
  /\ fraction.fixed \in 0 .. 255

===============================================================================
