------------------------------- MODULE LogDays ------------------------------
(***************************************************************************)
(* The report log of a host by days of the server's calendar: host_reports *)
(* of http.rs, which turns two local dates into a range of instants, and   *)
(* the condition of report_logs_page in store.rs.                          *)
(*                                                                         *)
(* A day need not be 24 hours long.  Where the clocks of the server's time *)
(* zone are changed, local times are skipped or occur twice, midnight and  *)
(* even whole days among them.                                             *)
(*                                                                         *)
(* Abstractions.  Time goes in ticks, a day has `Day' of them (86,400      *)
(* seconds in the code).  A time zone changes its clocks once.  The        *)
(* parsing of dates is left out, and so are the pages (see Pages).         *)
(***************************************************************************)
EXTENDS Integers

CONSTANTS
  Day,       \* ticks of a day
  LastDate,  \* bound of the model: dates are 1..LastDate
  Zones,     \* [at, before, after]: the offset changes at an instant
  Unknown,   \* no range yet
  Refused    \* no range, an error

VARIABLES
  zone,   \* Local
  dates,  \* start_date and end_date
  range   \* what the statement binds, or Refused

vars == <<zone, dates, range>>

\* Every instant whose local time can be of one of the dates, or of the next.
Instants == (-2 * Day)..((LastDate + 4) * Day)

Offset(t) == IF t < zone.at THEN zone.before ELSE zone.after
LocalTime(t) == t + Offset(t)
LocalDate(t) == LocalTime(t) \div Day

Init ==
  /\ zone \in Zones
  /\ dates \in [start : 1..LastDate, end : 1..LastDate]
  /\ range = Unknown

Least(set) == CHOOSE t \in set : \A u \in set : t <= u
Greatest(set) == CHOOSE t \in set : \A u \in set : t >= u

\* Local.from_local_datetime: none, one or two instants.
FromLocal(time) == {t \in Instants : LocalTime(t) = time}

\* for second in 0..=86_400.  (Mutation: 0..86_400.)
WithinDay == 0..(Day - 1)
Searched == 0..Day

\* earliest().  (Mutation: latest().)
Later(instants) == Greatest(instants)
Earliest(instants) == Least(instants)

\* local_day_start, of a date for which the search ends.
HasStart(date) == \E k \in Searched : FromLocal(date * Day + k) # {}
LocalDayStart(date) ==
  LET exists == {k \in Searched : FromLocal(date * Day + k) # {}} IN
  Earliest(FromLocal(date * Day + Least(exists)))

\* report_log_range with server_day_bounds, for each of the two dates.
Accepted ==
  /\ \A date \in {dates.start, dates.end} : HasStart(date) /\ HasStart(date + 1)
  /\ dates.start <= dates.end

HostReports ==
  /\ range = Unknown
  /\ range' = IF Accepted
                THEN [from |-> LocalDayStart(dates.start), to |-> LocalDayStart(dates.end + 1)]
                ELSE Refused
  /\ UNCHANGED <<zone, dates>>

Spec == Init /\ [][HostReports]_vars

\* received_at >= from AND received_at < to
Logged(t) == range.from <= t /\ t < range.to

-----------------------------------------------------------------------------
(* Properties.                                                             *)

\* The date a report is filed under: the latest that the clocks of the server have
\* shown by then, so that the date never goes back.
FiledUnder(t) == LET shown == {LocalDate(u) : u \in {v \in Instants : v <= t}} IN Greatest(shown)

\* Every report is in the log of one date, whichever way and how far the clocks are
\* changed: a range of dates holds the reports filed under its dates, all of them
\* and no others, and it is refused only if it is in the wrong order.
WholeDays ==
  range # Unknown =>
    IF dates.start > dates.end THEN range = Refused
    ELSE /\ range # Refused
         /\ \A t \in Instants : Logged(t) <=> FiledUnder(t) \in dates.start..dates.end
=============================================================================
