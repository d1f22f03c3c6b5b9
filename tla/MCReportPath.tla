----------------------------- MODULE MCReportPath -----------------------------
(***************************************************************************)
(* A stream that advances by four of six numbers, and three reports that   *)
(* may pass each other; the numbers on the wire wrap at 2, and the windows *)
(* of the sender hold two reports.                                         *)
(***************************************************************************)
EXTENDS ReportPath

\* A recovery may come after the retransmission it is compared with.
MCTimes(k) == IF k = "both" THEN {-3} ELSE {3}

===============================================================================
