-------------------------- MODULE MCReportHistory ---------------------------
(* A small instance of ReportHistory for TLC.                              *)
EXTENDS ReportHistory, TLC

\* Whole averages: 60 is divided by every count that an hour reaches here.
MCMetric == 1 :> 0 @@ 2 :> 60 @@ 3 :> Nil
=============================================================================
