-------------------------- MODULE TelemetryWriter ---------------------------
(***************************************************************************)
(* The path of a client report to the database: the report handler of      *)
(* http.rs, TelemetryWriter::submit and the writer task of telemetry.rs,   *)
(* and the batch transaction of store.rs, with the operations of other     *)
(* transactions that a queued report can meet.                             *)
(*                                                                         *)
(* Three kinds of processes run concurrently: the handlers (one per call), *)
(* the writer task, and the owner of the task, which asks it to stop and   *)
(* aborts it when it does not stop in time.  A step here is what a process *)
(* does between two points where another can interfere: an await, or the   *)
(* use of something shared by threads.                                     *)
(*                                                                         *)
(* Abstractions.                                                           *)
(*  - A row of client_metric_reports is identified with the call that      *)
(*    inserted it (host, received_at), or Nil when there is none.          *)
(*  - The token of a host is a number that grows when the host is paired   *)
(*    anew; the client always uses the last one it got.                    *)
(*  - The timers (enqueue wait, request time, flush latency, drain         *)
(*    timeout) may fire at any moment they are armed.                      *)
(*  - The counters of TelemetryWriterStats are left out.                   *)
(***************************************************************************)
EXTENDS Naturals, Sequences, FiniteSets

CONSTANTS
  Calls,          \* calls of the report handler, retries included
  Hosts,
  Reports,        \* report_id values
  Nil,            \* no row
  MaxToken,       \* bound of the model: tokens a host may get
  QueueCapacity,  \* 256 in production
  BatchSize,      \* 64 in production
  HostRows,       \* capacity::Limits.host_reports, 100,000
  Shortage,       \* bound of the model: the other budgets of capacity.rs may run out
  MaxPerHost      \* MAX_PENDING_PER_HOST, 16

ASSUME NilAssumption == Nil \notin Calls /\ Nil \notin Hosts /\ Nil \notin Reports

ASSUME FiniteAssumption == IsFiniteSet(Calls) /\ IsFiniteSet(Reports)

\* What TelemetryWriterConfig::new accepts, but for its times and its upper bounds.
ValidConfig ==
  /\ QueueCapacity \in Nat \ {0}
  /\ BatchSize \in 1..QueueCapacity

ASSUME ConfigAssumption ==
  /\ ValidConfig
  /\ MaxToken \in Nat
  /\ {MaxPerHost, HostRows} \subseteq Nat \ {0}
  /\ Shortage \in BOOLEAN

VARIABLES
  calls,       \* what each handler is doing, and what it carries
  held,        \* calls whose owner_permit is not yet released
  queue,       \* the mpsc channel
  closed,      \* the channel is closed to new reservations
  requested,   \* ShutdownState.requested
  notified,    \* ShutdownState.notify holds a permit
  phase,       \* where the writer task is
  batch,       \* reports the task has taken out and not answered
  results,     \* results of the batch transaction, by call
  response,    \* the oneshot of each call
  stored,      \* client_metric_reports: which call inserted the row
  token,       \* the current token of each host
  live,        \* the host is active and its token is not revoked
  fate         \* auxiliary: what became of the report of each call

task == <<closed, requested, notified, phase, batch, results>>
database == <<stored, token, live>>
vars == <<calls, held, queue, task, response, database, fate>>

Outcomes == {"new", "duplicate", "conflict", "unauthorized", "exhausted", "error"}

Call ==
  [step : {"idle", "reserving", "reserved", "waiting", "done"},
   host : Hosts \union {Nil}, report : Reports \union {Nil}, token : Nat,
   answer : Outcomes \union {"none", "full", "unavailable", "deadline"}]

\* Where the task is.  Between "answering" and "top" there is no await.
Phases == {"top", "checked", "select", "drain", "collect", "gather", "persist", "transaction",
           "committed", "answering", "stopped", "aborted"}

Init ==
  /\ calls = [c \in Calls |-> [step |-> "idle", host |-> Nil, report |-> Nil,
                               token |-> 0, answer |-> "none"]]
  /\ held = {}
  /\ queue = << >>
  /\ closed = FALSE
  /\ requested = FALSE
  /\ notified = FALSE
  /\ phase = "top"
  /\ batch = << >>
  /\ results = [c \in Calls |-> "none"]
  /\ response = [c \in Calls |-> "none"]
  /\ stored = [r \in Reports |-> Nil]
  /\ token = [h \in Hosts |-> 0]
  /\ live = [h \in Hosts |-> TRUE]
  /\ fate = [c \in Calls |-> "open"]

Members(seq) == {seq[k] : k \in DOMAIN seq}
At(step) == {c \in Calls : calls[c].step = step}
OfHost(set, h) == {c \in set : calls[c].host = h}

-----------------------------------------------------------------------------
(* The handlers.                                                           *)

Finish(c, said) == calls' = [calls EXCEPT ![c].step = "done", ![c].answer = said]
Voided(set) == [c \in Calls |-> IF c \in set /\ fate[c] = "open" THEN "void" ELSE fate[c]]

\* report, whose host_for_token finds the token live, and the start of submit:
\* the permit of the host is taken, or there is none.
Submit(c, h, r) ==
  /\ calls[c].step = "idle"
  /\ live[h]
  /\ LET room == Cardinality(OfHost(held, h)) < MaxPerHost IN
     /\ calls' = [calls EXCEPT ![c] =
          [step |-> IF room THEN "reserving" ELSE "done", host |-> h, report |-> r,
           token |-> token[h], answer |-> IF room THEN "none" ELSE "full"]]
     /\ held' = IF room THEN held \union {c} ELSE held
     /\ fate' = IF room THEN fate ELSE Voided({c})
  /\ UNCHANGED <<queue, task, response, database>>

\* The slots of the channel in use.
Slots == Len(queue) + Cardinality(At("reserved"))

\* sender.reserve() returns a slot.
Reserve(c) ==
  /\ calls[c].step = "reserving"
  /\ ~closed
  /\ Slots < QueueCapacity
  /\ calls' = [calls EXCEPT ![c].step = "reserved"]
  /\ UNCHANGED <<held, queue, task, response, database, fate>>

\* It fails, as the channel is closed, or it takes longer than enqueue_wait.  A
\* client that disconnects drops the handler here with the same effect.
Turned(c) ==
  /\ calls[c].step = "reserving"
  /\ \/ closed /\ Finish(c, "unavailable")
     \/ Finish(c, "full")
  /\ held' = held \ {c}
  /\ fate' = Voided({c})
  /\ UNCHANGED <<queue, task, response, database>>

\* permit.send: the slot is good even if the channel has been closed since.
Send(c) ==
  /\ calls[c].step = "reserved"
  /\ calls' = [calls EXCEPT ![c].step = "waiting"]
  /\ queue' = Append(queue, c)
  /\ UNCHANGED <<held, task, response, database, fate>>

\* The oneshot is answered, or its sender was dropped.
Receive(c) ==
  /\ calls[c].step = "waiting"
  /\ response[c] # "none"
  /\ Finish(c, IF response[c] = "dropped" THEN "unavailable" ELSE response[c])
  /\ UNCHANGED <<held, queue, task, response, database, fate>>

\* ResponseDeadline, or the client disconnects: the report stays queued and
\* keeps its permit.  (Mutation: the permit belongs to the handler.)
HeldAfterReturn(c) == held \ {c}
HeldAfterDeadline(c) == held
Deadline(c) ==
  /\ calls[c].step = "waiting"
  /\ response[c] = "none"
  /\ Finish(c, "deadline")
  /\ held' = HeldAfterDeadline(c)
  /\ UNCHANGED <<queue, task, response, database, fate>>

-----------------------------------------------------------------------------
(* The writer task, run_writer.                                            *)

Running == phase \notin {"stopped", "aborted"}

Goto(next) == phase' = next /\ UNCHANGED <<requested, notified>>
Take == batch' = Append(batch, Head(queue)) /\ queue' = Tail(queue)
Leave == UNCHANGED <<calls, held, response, database, fate, results>>

\* The top of the loop: a request to stop closes the channel.
Top ==
  /\ phase = "top"
  /\ closed' = (closed \/ requested)
  /\ Goto(IF closed' THEN "drain" ELSE "checked")
  /\ UNCHANGED <<queue, batch>>
  /\ Leave

\* The select! is polled some time after the flag was read.
Select ==
  /\ phase = "checked"
  /\ Goto("select")
  /\ UNCHANGED <<closed, queue, batch>>
  /\ Leave

\* The first report of a batch.
First ==
  /\ phase \in {"select", "drain"}
  /\ queue # << >>
  /\ Take
  /\ Goto("collect")
  /\ UNCHANGED closed
  /\ Leave

\* shutdown.notify.notified() in either select.
Notified ==
  /\ phase \in {"select", "gather"}
  /\ notified
  /\ notified' = FALSE
  /\ closed' = (closed \/ requested)
  /\ phase' = IF phase = "select" THEN "drain" ELSE "collect"
  /\ UNCHANGED <<requested, queue, batch>>
  /\ Leave

\* recv() returns None: the channel is closed, empty, and no slot is reserved.
ChannelDone == closed /\ queue = << >> /\ At("reserved") = {}

\* The task ends when the recv() of a drain returns None.
\* (Mutation: when a try_recv() finds nothing.)
DrainedForNow == closed /\ queue = << >>
Drained == ChannelDone
Stop ==
  /\ phase = "drain"
  /\ Drained
  /\ Goto("stopped")
  /\ UNCHANGED <<closed, queue, batch>>
  /\ Leave

\* The batch is not full.
Room == Len(batch) < BatchSize

\* The loop that fills the batch: when draining it takes what is there.
Collect ==
  /\ phase = "collect"
  /\ closed' = (closed \/ (requested /\ Room))
  /\ IF closed' /\ queue # << >> /\ Room
       THEN Take /\ Goto("collect")
       ELSE /\ Goto(IF closed' \/ ~Room THEN "persist" ELSE "gather")
            /\ UNCHANGED <<queue, batch>>
  /\ Leave

\* Otherwise it waits for one more report or for flush_at.
Gather ==
  /\ phase = "gather"
  /\ \/ queue # << >> /\ Take /\ Goto("collect")
     \/ Goto("persist") /\ UNCHANGED <<queue, batch>>
  /\ UNCHANGED closed
  /\ Leave

-----------------------------------------------------------------------------
(* persist_batch and store_report_batch.                                   *)

Persist == UNCHANGED <<calls, held, queue, closed, requested, notified, token, live>>

\* BEGIN IMMEDIATE: no other transaction writes until this one has ended.
Begin ==
  /\ phase = "persist"
  /\ phase' = "transaction"
  /\ Persist
  /\ UNCHANGED <<batch, results, response, stored, fate>>

\* The row a statement of the open transaction sees.
Row(r) ==
  LET inserted == {c \in Members(batch) : results[c] = "new" /\ calls[c].report = r}
  IN IF inserted # {} THEN CHOOSE c \in inserted : TRUE ELSE stored[r]

\* The credential is looked at again.  (Mutation: the handler did that.)
AuthorizedByHandler(c) == TRUE
Authorized(c) == live[calls[c].host] /\ token[calls[c].host] = calls[c].token

\* INSERT ... ON CONFLICT(report_id) DO NOTHING, and whose the row is then.
\* (Mutations: any row is the report; a retry replaces the row.)
InsertOrTrust(c) == IF Row(calls[c].report) = Nil THEN "new" ELSE "duplicate"
InsertOrReplace(c) ==
  LET row == Row(calls[c].report) IN
  IF row # Nil /\ calls[row].host # calls[c].host THEN "conflict" ELSE "new"
Insert(c) ==
  LET row == Row(calls[c].report) IN
  IF row = Nil THEN "new"
  ELSE IF calls[row].host = calls[c].host THEN "duplicate" ELSE "conflict"

\* capacity::report counts the rows of the host that the transaction sees, its own
\* included.  (Mutation: those that are committed.)
CommittedRows(h) == Cardinality({r \in Reports : stored[r] # Nil /\ calls[stored[r]].host = h})
RowsOf(h) == Cardinality({r \in Reports : Row(r) # Nil /\ calls[Row(r)].host = h})

\* A retry is not a new reservation.
HasCapacity(c) == Row(calls[c].report) # Nil \/ RowsOf(calls[c].host) < HostRows

\* The other budgets of capacity::report, of bytes, of all hosts' rows and of the
\* file system, may be used up at any time.
Exhaustible(c) == Shortage /\ Row(calls[c].report) = Nil

\* What may come of a report: an SQL error or want of capacity rolls its savepoint
\* back.
Stored(c) ==
  IF ~Authorized(c) THEN {"unauthorized"}
  ELSE {"error"} \union (IF HasCapacity(c) THEN {Insert(c)} ELSE {"exhausted"})
                \union (IF Exhaustible(c) THEN {"exhausted"} ELSE {})

\* store_report_in_transaction, in its savepoint, for the next report.
StoreReport ==
  /\ phase = "transaction"
  /\ \E k \in DOMAIN batch :
       LET c == batch[k] IN
       /\ results[c] = "none"
       /\ \A j \in 1..(k - 1) : results[batch[j]] # "none"
       /\ \E result \in Stored(c) : results' = [results EXCEPT ![c] = result]
  /\ Persist
  /\ UNCHANGED <<phase, batch, response, stored, fate>>

Commit ==
  /\ phase = "transaction"
  /\ \A c \in Members(batch) : results[c] # "none"
  /\ stored' = [r \in Reports |-> Row(r)]
  /\ fate' = [c \in Calls |->
       IF c \notin Members(batch) THEN fate[c]
       ELSE IF results[c] \in {"new", "duplicate"} THEN "kept" ELSE "void"]
  /\ phase' = "committed"
  /\ Persist
  /\ UNCHANGED <<batch, results, response>>

\* store_report_batch fails: no connection, no write lock, a savepoint or the
\* COMMIT fails, and everything is rolled back; or closing the connection fails
\* after the COMMIT.  Every report is answered with an error.
\* (Mutation: with the results of the savepoints, where there are any.)
KeepResults == [c \in Calls |->
  IF c \in Members(batch) /\ results[c] = "none" THEN "error" ELSE results[c]]
FailedResults == [c \in Calls |-> IF c \in Members(batch) THEN "error" ELSE results[c]]
Fail ==
  /\ phase \in {"persist", "transaction", "committed"}
  /\ results' = FailedResults
  /\ fate' = Voided(Members(batch))
  /\ phase' = "answering"
  /\ Persist
  /\ UNCHANGED <<batch, response, stored>>

Close ==
  /\ phase = "committed"
  /\ phase' = "answering"
  /\ Persist
  /\ UNCHANGED <<batch, results, response, stored, fate>>

\* completion.send, after which the permit of the report is dropped.
Answer ==
  /\ phase = "answering"
  /\ batch # << >>
  /\ LET c == Head(batch) IN
     /\ response' = [response EXCEPT ![c] = results[c]]
     /\ results' = [results EXCEPT ![c] = "none"]
     /\ held' = held \ {c}
  /\ batch' = Tail(batch)
  /\ phase' = IF batch' = << >> THEN "top" ELSE "answering"
  /\ UNCHANGED <<calls, queue, closed, requested, notified, database, fate>>

-----------------------------------------------------------------------------
(* The owner of the task, and other transactions.                          *)

\* TelemetryWriterTask::shutdown: notify_one leaves a permit when nobody waits.
\* (Mutation: notify_waiters, which does not.)
NotifyWaiters == phase \in {"select", "gather"}
NotifyOne == TRUE
Shutdown ==
  /\ ~requested
  /\ requested' = TRUE
  /\ notified' = NotifyOne
  /\ UNCHANGED <<calls, held, queue, closed, phase, batch, results, response,
                 database, fate>>

\* The drain timeout of shutdown, or the drop of the TelemetryWriterTask: the
\* task is cancelled at an await, an open transaction is rolled back, and the
\* queue, the batch, their completions and their permits are dropped.
Abort ==
  LET lost == Members(queue) \union Members(batch) IN
  /\ Running
  /\ phase # "answering"
  /\ phase' = "aborted"
  /\ closed' = TRUE
  /\ response' = [c \in Calls |-> IF c \in lost THEN "dropped" ELSE response[c]]
  /\ held' = held \ lost
  /\ fate' = Voided(lost)
  /\ queue' = << >>
  /\ batch' = << >>
  /\ results' = [c \in Calls |-> "none"]
  /\ UNCHANGED <<calls, requested, notified, database>>

Unlocked == phase # "transaction"

\* rotate_invite_authorization, cancel_invite or delete_host.
Revoke(h) ==
  /\ Unlocked
  /\ live[h]
  /\ live' = [live EXCEPT ![h] = FALSE]
  /\ UNCHANGED <<calls, held, queue, task, response, stored, token, fate>>

\* activate, with a new token.
Reactivate(h) ==
  /\ Unlocked
  /\ ~live[h]
  /\ token[h] < MaxToken
  /\ live' = [live EXCEPT ![h] = TRUE]
  /\ token' = [token EXCEPT ![h] = @ + 1]
  /\ UNCHANGED <<calls, held, queue, task, response, stored, fate>>

\* Retention, or the deletion of the host, removes a row.
Remove(r) ==
  /\ Unlocked
  /\ stored[r] # Nil
  /\ stored' = [stored EXCEPT ![r] = Nil]
  /\ UNCHANGED <<calls, held, queue, task, response, token, live, fate>>

-----------------------------------------------------------------------------

Handler(c) == Reserve(c) \/ Turned(c) \/ Send(c) \/ Receive(c) \/ Deadline(c)
Writer ==
  \/ Top \/ Select \/ First \/ Notified \/ Stop \/ Collect \/ Gather
  \/ Begin \/ StoreReport \/ Commit \/ Fail \/ Close \/ Answer

Next ==
  \/ \E c \in Calls, h \in Hosts, r \in Reports : Submit(c, h, r)
  \/ \E c \in Calls : Handler(c)
  \/ Writer
  \/ Shutdown
  \/ Abort
  \/ \E h \in Hosts : Revoke(h) \/ Reactivate(h)
  \/ \E r \in Reports : Remove(r)

Spec == Init /\ [][Next]_vars

\* The runtime goes on polling the tasks and fires the timers, transactions end,
\* and nobody has to submit, to stop the task or to abort it.
Fairness == WF_vars(Writer) /\ \A c \in Calls : WF_vars(Handler(c))

FairSpec == Spec /\ Fairness

-----------------------------------------------------------------------------
(* Properties.                                                             *)

Pending == Members(queue) \union Members(batch)

\* The types, and where each unfinished report is: it is sent at most once, it
\* is in one place, and the transaction has results for its own batch only.
TypeOK ==
  /\ calls \in [Calls -> Call]
  /\ held \subseteq Calls
  /\ queue \in Seq(Calls)
  /\ batch \in Seq(Calls)
  /\ {closed, requested, notified} \subseteq BOOLEAN
  /\ phase \in Phases
  /\ results \in [Calls -> Outcomes \union {"none"}]
  /\ response \in [Calls -> Outcomes \union {"none", "dropped"}]
  /\ stored \in [Reports -> Calls \union {Nil}]
  /\ token \in [Hosts -> 0..MaxToken]
  /\ live \in [Hosts -> BOOLEAN]
  /\ fate \in [Calls -> {"open", "kept", "void"}]
  /\ Len(queue) + Cardinality(At("reserved")) <= QueueCapacity \/ phase = "aborted"
  /\ Len(batch) <= BatchSize
  /\ Cardinality(Pending) = Len(queue) + Len(batch)

\* At most MAX_PENDING_PER_HOST reports of a host wait for the writer, those
\* whose handlers gave up or were dropped included: what one host leaves behind
\* cannot fill the queue of the others.
HostShareBounded ==
  \A h \in Hosts : Cardinality(OfHost(Pending \union At("reserved"), h)) <= MaxPerHost

\* What waits for the writer is bounded: the channel, the batch and each host's
\* share.
QueueBounded == TypeOK /\ HostShareBounded

\* A graceful stop leaves nobody behind: every report that got into the channel,
\* or holds a slot of it, was committed or refused by a transaction and its
\* handler was answered.
GracefulStopAnswersAll ==
  phase = "stopped" =>
    /\ Pending = {}
    /\ \A c \in Calls : calls[c].step \in {"reserved", "waiting"} =>
         response[c] \notin {"none", "dropped"}

\* A row never changes hands: a report that comes again, in the same batch or
\* later, leaves the row with its first received_at, until it is removed.
OriginalRowKept ==
  [][\A r \in Reports : stored[r] # Nil => stored'[r] \in {stored[r], Nil}]_vars

\* What is committed was sent by the client that is paired at that moment: a
\* report that waited in the queue while its credential was revoked, or its host
\* paired anew, is not stored.
StoredUnderLiveToken ==
  [][\A r \in Reports : stored'[r] \notin {stored[r], Nil} =>
       LET call == calls[stored'[r]] IN
       call.report = r /\ live[call.host] /\ token[call.host] = call.token]_vars

\* An acknowledgement is about the client's own report: when a commit keeps a
\* report, new or stored already, the row is of the host that sent it.
KeptIsOwnRow ==
  [][\A c \in Calls : fate[c] = "open" /\ fate'[c] = "kept" =>
       LET row == stored'[calls[c].report] IN
       row # Nil /\ calls[row].host = calls[c].host]_vars

\* A host never has more rows than its limit, not even by the reports of one batch,
\* none of which is committed when the next is counted.
CapacityKept ==
  \A h \in Hosts : Cardinality({r \in Reports : stored[r] # Nil /\ calls[stored[r]].host = h})
                     <= HostRows

\* "Existing receipts ... remain usable at capacity": a client that repeats a report
\* it has stored is told so, or that the transaction failed, however full the
\* database is.
ReceiptsUsable ==
  [][phase = "transaction" /\ phase' = "committed" =>
       \A c \in Members(batch) :
         LET row == stored[calls[c].report] IN
         row # Nil /\ calls[row].host = calls[c].host /\ Authorized(c) /\ results[c] # "error"
           => fate'[c] = "kept"]_vars

\* A receipt says what is stored, and what is stored gets its receipt.
ReceiptsTrue == KeptIsOwnRow /\ ReceiptsUsable

\* What the clients are told, in the terms of ReportDelivery.
Said(c) ==
  CASE calls[c].answer = "none" -> "none"
    [] calls[c].answer \in {"new", "duplicate"} -> "accepted"
    [] calls[c].answer \in {"conflict", "unauthorized"} -> "rejected"
    [] calls[c].answer = "full" -> "refused"
    [] OTHER -> "unknown"

Delivery == INSTANCE ReportDelivery WITH answer <- [c \in Calls |-> Said(c)]

\* "Results are returned only after the outer transaction commits; an uncertain
\* batch commit therefore never produces a false acknowledgement", and a report
\* that was answered with QueueFull, a conflict or a rejection is never stored.
DeliveryKept == Delivery!Spec

\* The permit of a host comes back, whatever the handler did meanwhile, unless
\* the task was aborted: a host is not locked out for good.
PermitReturned ==
  \A c \in Calls : c \in held ~> (c \notin held \/ phase = "aborted")

\* A requested stop is noticed whatever the task is waiting for, so that the
\* drain timeout is not what ends it.
DrainCompletes == requested ~> ~Running

=============================================================================
