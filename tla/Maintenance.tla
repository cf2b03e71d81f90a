----------------------------- MODULE Maintenance ----------------------------
(***************************************************************************)
(* The retention task of retention.rs: run_maintenance, which sleeps, runs *)
(* a cycle, and decides how long to sleep, and run_cycle_at, which runs    *)
(* the three batches in turn while its budget of transactions lasts.  What *)
(* a batch does to the database is in ReportHistory; here it moves pieces  *)
(* of work.                                                                *)
(*                                                                         *)
(* The task and its owner, which asks it to stop, run on two threads: the  *)
(* points where the task is not waiting in a select! are steps too.        *)
(*                                                                         *)
(* Abstractions.                                                           *)
(*  - A piece of work is a row or an aggregate that retention merges,      *)
(*    deletes or drops when it is due.  A row that was merged may be due   *)
(*    to be deleted, or have made an hour that is due to be dropped, at    *)
(*    once or later.                                                       *)
(*  - Delays are "soon" (MIN_MAINTENANCE_INTERVAL), "backoff", and         *)
(*    "interval".  Every timer may fire when it is armed.                  *)
(***************************************************************************)
EXTENDS Naturals, FiniteSets

CONSTANTS
  Work,             \* pieces of work
  BatchSize,        \* RetentionConfig.batch_size
  MaxTransactions,  \* RetentionConfig.max_transactions_per_run
  MaxFailures       \* bound of the model: runs that fail

\* What RetentionConfig::new accepts of the limits of a run.  (Its times and upper
\* bounds are left out, and ReportHistory has the retentions.)
ValidConfig ==
  /\ BatchSize \in Nat \ {0}
  /\ MaxTransactions \in Nat
  /\ MaxTransactions >= 3

ASSUME ConfigAssumption ==
  /\ ValidConfig
  /\ IsFiniteSet(Work)
  /\ MaxFailures \in Nat

VARIABLES
  due,           \* what is due for each piece of work, or what state it is in
  cutoff,        \* the pieces of work that the cutoffs of the run select
  phase,         \* where the task is
  delay,         \* how long it sleeps next
  transactions,  \* RetentionRunOutcome.transactions
  moved,         \* the run has done something
  pass,          \* the current pass of the loop has done something
  consecutive,   \* MaintenanceCounters.consecutive_failures
  backlog,       \* MaintenanceCounters.backlog_remaining
  requested,     \* ShutdownState.requested
  notified,      \* ShutdownState.notify holds a permit
  begun,         \* auxiliary: what has been due since the run began
  failures       \* auxiliary: runs that failed so far

run == <<transactions, moved, pass>>
status == <<delay, consecutive, backlog>>
stop == <<requested, notified>>
vars == <<due, cutoff, phase, run, status, stop, begun, failures>>

Tasks == {"merge", "delete", "drop"}
AllDue == {w \in Work : due[w] \in Tasks}
Pieces(task) == {w \in cutoff : due[w] = task}

Init ==
  /\ due \in [Work -> {"young", "merge", "delete", "drop"}]
  /\ cutoff = {}
  /\ phase = "top"
  /\ delay = "none"
  /\ transactions = 0
  /\ moved = FALSE
  /\ pass = FALSE
  /\ consecutive = 0
  /\ backlog = FALSE
  /\ requested = FALSE
  /\ notified = FALSE
  /\ begun = {}
  /\ failures = 0

-----------------------------------------------------------------------------
(* run_maintenance.                                                        *)

\* The task comes to the select! that waits for the delay or the notification.
Sleep ==
  /\ phase = "top"
  /\ phase' = "sleeping"
  /\ UNCHANGED <<due, cutoff, run, status, stop, begun, failures>>

\* The delay is over: run_once_at is called with the time.
Wake ==
  /\ phase = "sleeping"
  /\ phase' = "starting"
  /\ cutoff' = AllDue
  /\ begun' = AllDue
  /\ UNCHANGED <<due, run, status, stop, failures>>

\* The second select! polls the cycle for the first time.
Start ==
  /\ phase = "starting"
  /\ phase' = "merge"
  /\ UNCHANGED <<due, cutoff, run, status, stop, begun, failures>>

\* The future of the cycle is gone, and what it keeps with it.
CycleGone ==
  /\ cutoff' = {}
  /\ begun' = {}
  /\ transactions' = 0
  /\ moved' = FALSE
  /\ pass' = FALSE

InSelect == phase \in {"sleeping"} \union Tasks

\* shutdown.notify.notified(), in either select!: the cycle is dropped.
Notified ==
  /\ InSelect
  /\ notified
  /\ notified' = FALSE
  /\ phase' = IF requested THEN "stopped" ELSE "top"
  /\ CycleGone
  /\ UNCHANGED <<due, status, requested, failures>>

-----------------------------------------------------------------------------
(* run_cycle_at.                                                           *)

\* What a batch makes of its pieces of work.
Results(task) == IF task = "merge" THEN {"delete", "drop", "merged"} ELSE {"done"}

Batch(task, batch) ==
  /\ batch \subseteq Pieces(task)
  /\ Cardinality(batch) <= BatchSize
  /\ Cardinality(batch) < BatchSize => batch = Pieces(task)

\* outcome.backlog_remaining of a run that has made its last transaction.
BacklogLeft(spent, done) == spent >= MaxTransactions /\ done

\* How long to sleep after a run that succeeded.
Pause(left) == IF left THEN "soon" ELSE "interval"

\* counters.record
Finish(left) ==
  /\ phase' = "top"
  /\ delay' = Pause(left)
  /\ consecutive' = 0
  /\ backlog' = left

Following(task) == CASE task = "merge" -> "delete" [] task = "delete" -> "drop"
                     [] task = "drop" -> "merge"

\* The cycle ends when its budget is spent, or after a pass that did nothing.
\* (Mutation: after a batch that did nothing.)
BatchWasEmpty(task, spent, some) == spent >= MaxTransactions \/ (task = "drop" /\ Pieces(task) = {})
CycleEnds(task, spent, some) == spent >= MaxTransactions \/ (task = "drop" /\ ~some)

\* One transaction: aggregate_raw_batch, delete_aggregated_raw_batch or
\* delete_expired_aggregate_batch, with the checks that follow it.
Transaction ==
  /\ phase \in Tasks
  /\ \E batch \in SUBSET Pieces(phase) :
       /\ Batch(phase, batch)
       /\ \E result \in [batch -> Results(phase)] :
            due' = [w \in Work |-> IF w \in batch THEN result[w] ELSE due[w]]
       /\ LET spent == transactions + 1
              some == pass \/ batch # {}
              done == moved \/ batch # {}
          IN IF CycleEnds(phase, spent, some)
               THEN Finish(BacklogLeft(spent, done)) /\ CycleGone
               ELSE /\ phase' = Following(phase)
                    /\ transactions' = spent
                    /\ moved' = done
                    /\ pass' = (some /\ phase # "drop")
                    /\ UNCHANGED <<cutoff, begun, status>>
  /\ UNCHANGED <<stop, failures>>

\* A transaction fails, or the run exceeds max_run_time: what was committed
\* stays, the rest is left to a later run.  (Mutation: the error ends the task.)
TaskEnds == "dead"
RetriesLater == "top"
Fail ==
  /\ phase \in Tasks
  /\ failures < MaxFailures
  /\ failures' = failures + 1
  /\ consecutive' = consecutive + 1
  /\ delay' = "backoff"
  /\ phase' = RetriesLater
  /\ CycleGone
  /\ UNCHANGED <<due, backlog, stop>>

-----------------------------------------------------------------------------
(* The owner of the task, and time.                                        *)

\* RetentionMaintenanceTask::shutdown.
\* (Mutation: notify_waiters, which leaves no permit when nobody waits.)
NotifyWaiters == InSelect
NotifyOne == TRUE
Shutdown ==
  /\ ~requested
  /\ requested' = TRUE
  /\ notified' = NotifyOne
  /\ UNCHANGED <<due, cutoff, phase, run, status, begun, failures>>

\* SHUTDOWN_WAIT passes, or the task is dropped.
Abort ==
  /\ phase # "stopped"
  /\ phase' = "stopped"
  /\ CycleGone
  /\ UNCHANGED <<due, status, stop, failures>>

\* A row or an aggregate becomes due, too late for the cutoffs of a run.
Age(w) ==
  /\ \/ due[w] = "young" /\ due' = [due EXCEPT ![w] = "merge"]
     \/ due[w] = "merged" /\ \E task \in {"delete", "drop"} : due' = [due EXCEPT ![w] = task]
  /\ cutoff' = cutoff \ {w}
  /\ begun' = begun \ {w}
  /\ UNCHANGED <<phase, run, status, stop, failures>>

\* A report arrives during a run that is old already.
ArriveLate(w) ==
  /\ phase \in Tasks \union {"starting"}
  /\ due[w] = "young"
  /\ due' = [due EXCEPT ![w] = "merge"]
  /\ cutoff' = cutoff \union {w}
  /\ UNCHANGED <<phase, run, status, stop, begun, failures>>

Task == Sleep \/ Wake \/ Start \/ Notified \/ Transaction \/ Fail

Next ==
  \/ Task
  \/ Shutdown
  \/ Abort
  \/ \E w \in Work : Age(w) \/ ArriveLate(w)

\* The runtime polls the task, timers fire and transactions end.  select! polls
\* its branches in random order, so that it does not pass a notification by for
\* ever.  Nobody has to stop the task, and its failures are not persistent.
Fairness == WF_vars(Task) /\ SF_vars(Notified)

Spec == Init /\ [][Next]_vars /\ Fairness

-----------------------------------------------------------------------------
(* Properties.                                                             *)

\* The task sleeps for a whole interval only if all that was due when the run
\* began is done, in whatever batches and whatever was due after it: a budget
\* that ends in the middle of a pass, or a batch that finds nothing, never
\* hides work that is left.
PauseMeansDone ==
  [][phase' = "top" /\ phase \in Tasks /\ delay' = "interval" =>
       \A w \in begun : due'[w] \notin Tasks]_vars

\* What is due is done in the end, over as many runs as it takes and in spite
\* of runs that fail: no kind of work starves another, and no error ends the task.
BacklogWorkedOff ==
  \A w \in Work : due[w] \in Tasks ~> (due[w] \notin Tasks \/ phase = "stopped")

\* A request to stop is noticed, wherever the task is.
StopNoticed == requested ~> phase = "stopped"
=============================================================================
