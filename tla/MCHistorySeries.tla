--------------------------- MODULE MCHistorySeries --------------------------
(* A small instance for TLC of two queries about a host's past, one of     *)
(* which is asked: the chart (HistorySeries) or the log (LogDays).         *)
EXTENDS HistorySeries, Integers

CONSTANTS Day, LastDate, Unknown, Refused

ASSUME LogAssumption ==
  /\ Day \in Nat \ {0} /\ LastDate \in Nat
  /\ Refused # Unknown
  /\ \A v \in {Unknown, Refused} :
       /\ v \notin [from : Int, to : Int]
       /\ v \notin [at : Int, before : Int, after : Int]

VARIABLES zone, dates, range

\* Clocks that are changed by up to a day, at any time of three days.
MCZones ==
  {z \in [at : 0..(3 * Day), before : (-Day)..Day, after : (-Day)..Day] :
     z.after - z.before \in (-Day)..Day /\ 0 \in {z.before, z.after}}

Log == INSTANCE LogDays WITH Zones <- MCZones

log == <<zone, dates, range>>

ChartAsked == ChartInit /\ zone = Unknown /\ dates = Unknown /\ range = Unknown
LogAsked ==
  /\ Log!Init
  /\ query = Unknown /\ raw = {} /\ hours = {} /\ step = Unknown
  /\ phase = "not asked"

MCNext ==
  \/ Coarsen /\ UNCHANGED log
  \/ Fail /\ UNCHANGED log
  \/ UseHours /\ UNCHANGED log
  \/ Accept /\ UNCHANGED log
  \/ zone # Unknown /\ Log!HostReports /\ UNCHANGED chart

MCSpec == (ChartAsked \/ LogAsked) /\ [][MCNext]_<<chart, log>>

WholeDays == Log!WholeDays
=============================================================================
