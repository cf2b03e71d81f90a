---------------------------- MODULE HistorySeries ---------------------------
(***************************************************************************)
(* The chart of a host: history_series of store.rs, behind host_history of *)
(* http.rs.  It looks for a step so that the range, aligned to the step,   *)
(* has no more points than asked for, and that is at least an hour when    *)
(* the range holds an hour that retention has merged; then it groups the   *)
(* rows that are not merged and the merged hours by that step.             *)
(*                                                                         *)
(* The transaction reads one snapshot, so that nothing else changes        *)
(* while it looks.  The averages, which are weighted by the numbers of     *)
(* samples, are left out.                                                  *)
(***************************************************************************)
EXTENDS Naturals, FiniteSets, FiniteSetsExt

CONSTANTS
  Steps,    \* candidate steps in seconds: 1, 2, 5, ..., 3600, 21600, 86400
  Hour,     \* 3600
  Ticks,    \* instants in a second, as times have fractions
  MaxTime,  \* bound of the model, in seconds
  Budgets   \* values of max_points

ASSUME StepsAssumption ==
  /\ Steps \subseteq Nat \ {0} /\ IsFiniteSet(Steps) /\ {1, Hour} \subseteq Steps
  /\ \A s \in Steps : IF s < Hour THEN Hour % s = 0 ELSE s % Hour = 0
  /\ Ticks \in Nat \ {0} /\ MaxTime \in Nat \ {0}
  /\ Budgets \subseteq Nat \ {0}

VARIABLES
  query,  \* requested_from, requested_to and max_points
  raw,    \* collected_at of a row that is not merged, if there is one
  hours,  \* bucket_start, in hours, of the merged hours
  step,
  phase

chart == <<query, raw, hours, step, phase>>

Instants == 0..(MaxTime * Ticks - 1)
Second(t) == t \div Ticks

\* The least multiple of a that is not below n, and the greatest not above.
Up(n, a) == ((n + a - 1) \div a) * a
Down(n, a) == (n \div a) * a

\* The seconds of the range, without the fraction, over the points, rounded up.
MinimumStep(q) ==
  LET span == Max({Second(q.to - q.from), 1}) IN
  Max({Up(span, q.budget) \div q.budget, 1})

FirstStep(q) ==
  LET enough == {s \in Steps : s >= MinimumStep(q)} IN
  IF enough = {} THEN Max(Steps) ELSE Min(enough)

\* host_history refuses an empty range.
ChartInit ==
  /\ query \in {q \in [from : Instants, to : Instants, budget : Budgets] : q.from < q.to}
  /\ raw \in {{}} \union {{t} : t \in Instants}
  /\ hours \in SUBSET {h \in 0..MaxTime : h * Hour < MaxTime}
  /\ step = FirstStep(query)
  /\ phase = "search"

-----------------------------------------------------------------------------

\* to_seconds: a fraction counts as a whole second.  (Mutation: it is cut off.)
CutOff(t) == Second(t)
ToSeconds(t) == (t + Ticks - 1) \div Ticks

\* from_epoch and to_epoch
FromEpoch(s) == Down(Second(query.from), s)
ToEpoch(s) == Up(ToSeconds(query.to), s)

\* The points of the aligned range.
Points(s) == (ToEpoch(s) - FromEpoch(s)) \div s
Fits(s) == Points(s) <= query.budget

\* has_hourly, with hourly_from
HasHourly(s) ==
  \E h \in hours : Down(FromEpoch(s), Hour) <= h * Hour /\ h * Hour < ToEpoch(s)

Coarsen ==
  /\ phase = "search"
  /\ ~Fits(step)
  /\ \E s \in Steps : s > step
  /\ step' = Min({s \in Steps : s > step})
  /\ UNCHANGED <<query, raw, hours, phase>>

\* "history range exceeds the point budget"
Fail ==
  /\ phase = "search"
  /\ ~Fits(step)
  /\ \A s \in Steps : s <= step
  /\ phase' = "failed"
  /\ UNCHANGED <<query, raw, hours, step>>

UseHours ==
  /\ phase = "search"
  /\ Fits(step)
  /\ HasHourly(step) /\ step < Hour
  /\ step' = Hour
  /\ UNCHANGED <<query, raw, hours, phase>>

Accept ==
  /\ phase = "search"
  /\ Fits(step)
  /\ HasHourly(step) => step >= Hour
  /\ phase' = "done"
  /\ UNCHANGED <<query, raw, hours, step>>

Search == Coarsen \/ Fail \/ UseHours \/ Accept

ChartSpec == ChartInit /\ [][Search]_chart

\* The rows and hours that the statement selects between actual_from and
\* actual_to, and the number of the point that each is grouped into.
SelectedRows == {t \in raw : FromEpoch(step) * Ticks <= t /\ t < ToEpoch(step) * Ticks}
SelectedHours == {h \in hours : FromEpoch(step) <= h * Hour /\ h * Hour < ToEpoch(step)}
PointOf(second) == (second - FromEpoch(step)) \div step

-----------------------------------------------------------------------------
(* Properties.                                                             *)

Overlaps(h) == h * Hour * Ticks < query.to /\ query.from < (h + 1) * Hour * Ticks

\* The chart shows every sample of the range that was asked for, the hours that
\* reach into it among them; each hour lies in one point, whichever of its
\* samples is its first, and LIMIT max_points cuts no point off.
EverySampleShown ==
  phase = "done" =>
    /\ \A t \in raw : query.from <= t /\ t < query.to =>
         t \in SelectedRows /\ PointOf(Second(t)) < query.budget
    /\ \A h \in hours : Overlaps(h) =>
         /\ h \in SelectedHours
         /\ PointOf(h * Hour) = PointOf((h + 1) * Hour - 1)
         /\ PointOf(h * Hour) < query.budget

\* The search, which starts from a quotient and jumps to the hour, finds the
\* finest step there is: the points fit, and hours are not split.  It gives up
\* only if there is none.
Good(s) == Fits(s) /\ (s >= Hour \/ ~\E h \in hours : Overlaps(h))

FinestStep ==
  /\ phase = "done" => Good(step) /\ \A s \in Steps : s < step => ~Good(s)
  /\ phase = "failed" => \A s \in Steps : ~Good(s)

\* The chart is complete and as fine as it can be, although the two ends of the range
\* move with each step that is tried.
ChartTrue == EverySampleShown /\ FinestStep
=============================================================================
