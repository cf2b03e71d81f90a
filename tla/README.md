# TLA+ models of the xsos host-monitoring server

xsos is one Rust process (axum, tokio, one SQLite file in WAL mode). Client agents pair with it through an invite,
then POST metric reports; administrators manage instances and read the latest state and the history. All durable state
is in SQLite, where every write is a `BEGIN IMMEDIATE` transaction; what is in memory is the queue of the telemetry
writer, the rate limits, the admission semaphores and the two background tasks.

Paths below are relative to `src/crates/server/src/` unless they start with `src/`.

## 1. Inventory

| Component | State | Operations | Hard behaviours | What makes it correct |
|---|---|---|---|---|
| Instance lifecycle, `store.rs` 135-866, 1587-1664 | tables `client_instance_invites`, `client_pairing_requests`, `monitored_hosts`, `client_credentials` | create, rotate, cancel, delete, rename an invite; create, poll, expire, purge, activate a pairing request; delete a host | long legal sequences over four tables; lost answers and retries; lazy expiry under a clock that may go back; recovery rebinds an invite to another instance | the tables agree on who may report; a retry answers what the first call did; limits hold; an outcome is final |
| Telemetry writer, `telemetry.rs`, `store.rs` 940-1100, `http.rs` 774-805 | mpsc queue, owner permits, oneshots, stop flag and notification, the open batch | `report` handler, `submit`, writer loop, batch transaction, `shutdown`, abort | handlers, task and owner run concurrently; deadlines while a report is queued; credentials that change meanwhile; failing COMMIT and failing close; drain | no false acknowledgement; nothing stored that was refused; bounded share per host; a stop answers everybody |
| Report storage, `store.rs` 986-1100, 816-837 | `client_metric_reports`, `latest_report_id`, `last_seen_at`, payload | store a report, reset at activation | reordered reports, clocks that differ, retries | latest is newest, one payload per host, liveness follows receipt |
| Retention, `retention.rs` | `client_metric_hourly_aggregates`, `aggregated_at`; task counters | merge, delete merged rows, delete old aggregates; cycle; scheduler | batches interleave with reports; late reports; cutoffs computed once per cycle; back-off, health | no sample lost or counted twice; the latest report is spared; ids are remembered |
| Pages and list admission, `pagination.rs` | cursors held by clients; semaphores | `page`, `query`, `Admission::acquire`, `response` | rows deleted or moved between pages; cancelled requests whose SQL goes on | no row skipped that was there all along; permits come back |
| Rate limits, `pairing_admission.rs`, `http.rs` (`ReportBuckets`, `check_invite_account`) | token buckets in bounded maps | `check_*`, `allow`, `make_room` | a full table of partly used buckets; times read before the lock | no bucket's spent tokens are forgotten early; the delay told is enough |
| Capacity, `capacity.rs` | counts and byte budgets read in transactions | `instance`, `pairing`, `report`, `storage` | limit checks next to the write they guard; several reports in a transaction; retries at the limit | limits hold after each commit; a receipt stays usable |
| Locks and bootstrap, `database_lock.rs`, `main.rs`, `database_schema.rs` | the flock files beside the database, the common lock of the state directory (xcss); how far the database has been created | `init`, `run`, `doctor`, `admin-reset-password` | several processes; a process killed between two steps; a directory replaced between a check and the lock | one process per database; a server's database is complete and fits its key; no `init` touches a database it did not make |
| Release, `release_bundle.rs`, `release_contract.rs`, `web_assets.rs` | an installed tree, its manifest, the pointer `current` | `verify-release`, the check before `run` | every way a tree can differ from its manifest | a server runs the exact release of its version |
| A host's past, `store.rs` `history_series`, `http.rs` `host_reports` | none | a chart of at most so many points; a log by local dates | a step that is coarsened while both ends move; days that clock changes skip, shorten or repeat | nothing of the range is left out; a report is in the log of one day |
| Web views, `src/web/src/HostDetails.tsx` 36-141 | timer, request in flight, queued refresh, answer shown | poll, refresh, select a range, hide and show the page | timers and callbacks around a request in flight | one request at a time; the answer shown belongs to the selection; no refresh is lost |
| Validation, secrets, configuration, the rest of the web interface | none that other parts share | pure checks, encryption, views | - | - |

Interactions. A route handler first asks pairing admission (pairing routes) or reads the host of the bearer token
(report), then calls one operation of `store.rs`. Reports go through the writer's queue and share a transaction;
everything else has a transaction of its own. SQLite's write lock serialises them, so the shared state of the
components is the database between transactions: activation resets what report storage keeps, rotation revokes what a
queued report was checked against, host deletion cascades to history, and retention deletes rows that a retry or the
latest pointer may still need. `main.rs` 313-336 starts the writer (critical) and the retention task (degrading) and
stops both through a watch channel. Outside that process, the commands of the same binary meet each other at the locks
beside the database, and the web interface polls the server.

## 2. Modules

| Module | Models | State and actions |
|---|---|---|
| `Pairing` | instance lifecycle | one variable per table plus the wall clock; one action per transaction. Polling secrets identify requests and token hashes identify credentials, as the unique columns do |
| `PairingProofs` | | theorems about `Pairing` |
| `ReportDelivery` | abstract specification | each report is open, kept or void; each call is told nothing, accepted, rejected, refused or unknown |
| `TelemetryWriter` | the path of a report, with the limit of rows per host and the other budgets of `capacity.rs` | one record per handler call, the channel, the task's phase and batch, the results of the open transaction, oneshots; one action per stretch of code between two points where another process can interfere |
| `TelemetryWriterProofs` | | theorems about `TelemetryWriter`, the refinement among them |
| `ReportHistory` | what becomes of a stored report | rows, hosts' pointers, hourly aggregates with one metric (count, mean, least, greatest), clock; one action per transaction, retention batches at the time of any earlier start of their cycle |
| `ReportHistoryProofs` | | theorems about `ReportHistory` |
| `Maintenance` | the retention task | an abstract set of work that becomes due, the phase of the task, its budget, failures and the stop; one action per stretch between two awaits |
| `MaintenanceProofs` | | theorem about `Maintenance` |
| `TokenBuckets` | the rate limits of the pairing routes, of reports and of new invites | three bounded tables of buckets, the time each thread has read, and (auxiliary) the buckets of a table without limit |
| `TokenBucketsProofs` | | theorems about `TokenBuckets` |
| `Pages` | `page` and the queries of the three lists | the table, the page and cursors the client has, and (auxiliary) what its walk has shown |
| `ListAdmission` | `Admission` and `response` | global permits, the map of weak references, the semaphores, the SQL workers, and each call between two steps that others can see |
| `ListProofs` | | theorems about `ListAdmission` and `Pages` |
| `HistorySeries` | `history_series`, the chart of a host | the range asked for, one row and the merged hours, and the step tried; one action per turn of its loop |
| `LogDays` | `host_reports`, the log of a host by local dates | a time zone that changes its clocks once, the dates asked for and the range that is bound; one action, the handler |
| `Release` | `verify_release` and what it calls | no state: operators on an installed release (its root, the pointer, the entries of the manifest, the tree) |
| `Bootstrap` | the commands that open the database | the directory that the path names, what is in each, and for each process its command, stage, locks and pool; one action per step between two locks, checks or writes. It extends `Release` for what `run` may start from |
| `BootstrapProofs` | | theorems about `Bootstrap` and `Release` |
| `DetailPolling` | the two polling effects of a host's page | the selection, visibility, the effect's flags and timer, the requests not settled, what is shown; one action per callback |
| `HostPageProofs` | | theorems about `DetailPolling`, `HistorySeries` and `LogDays` |
| `MCPairing`, `MCTelemetryWriter`, `MCReportHistory`, `MCMaintenance`, `MCTokenBuckets`, `MCPages`, `MCListAdmission`, `MCHistorySeries`, `MCBootstrap`, `MCDetailPolling` | | instances and symmetry sets for TLC |

How they meet. The modules share no variables: each stands for the part of the process whose state it holds, and takes
the steps of the others that reach that state as actions of its own. `TelemetryWriter` has the revocations, renewals
and host deletions of `Pairing` (`live`, `token`) and refines `ReportDelivery`; `ReportHistory` has the activation,
the deletion and the batches that `Maintenance` schedules, and leaves open when they run, which allows every schedule;
`Pages` has arbitrary changes of the table; `Pairing` assumes no rate limit and `ListAdmission` no deadline, which
allows more than the code does; a server of `Bootstrap` that is running may add authorization codes under its key at
any time.

Correspondence. `map` in `PROJECT.json` names the lines of every definition. Some choices deserve a word.

* A transaction is one action. `BEGIN IMMEDIATE` takes the write lock at once, every operation rolls back on an error
  and the pool has no other writer, so no other transaction sees a part of it. The exception is the batch transaction
  of the writer, which is several actions (`Begin`, `StoreReport` for each savepoint, `Commit` or `Fail`, `Close`,
  `Answer`), because handlers time out, the task may be aborted and the result may be lost at each of these points.
* `CreatePairing` contains all that `create_pairing` does: the issued token, the existing row, expiry of all due rows,
  cleanup of a batch of old rows, then the four limits. When a limit refuses, expiry and cleanup stay committed, as in
  the code (`tx.commit()` before `AtCapacity`).
* `PollPairing` also stands for the expiry that `activate` persists: both write the same row to the same value.
* Time in `Pairing` is the wall clock, read by `Utc::now()`, so it may be set back. Time in `ReportHistory` only goes
  forward; what a client says about time may be ahead by `Skew`.
* In `Maintenance` a work item stands for rows that one batch handles; a failed run leaves its batches done. In
  `TokenBuckets` tokens are counted in time, so that one token is worth the refill interval. The pairing routes read
  the clock before the lock (`ReadClock`, then `Check`), the other limits under it (`Allow`).
* In `ReportHistory` the metric stands for fifteen that are merged alike. Averages are of values that every count
  divides, since what rounding does to a stored mean is left out.
* In `TelemetryWriter` the rows of a host are counted in the transaction that adds one, as in the code; the budgets of
  bytes, of all rows and of the file system may refuse at any time (`Shortage`), without their arithmetic.
* In `Bootstrap` a directory has an identity of its own, apart from the path that names it (`Move`): what a process
  has opened or locked stays what it was. A step that meets a lock held, or a database that is not as it should be, is
  not enabled; `End`, which may come at any moment, then ends the process with its locks. `init` goes by the path all
  along, and while one runs the directory is not replaced. The common lock is the external library's: one process at a
  time, at once or not at all, as `src/crates/server/tests/database_locking.rs` has it. The directory of the logs may
  exist already when `init` creates it. A power failure, and with it the calls of `sync_all`, is left out.
* In `Release` a digest stands for its content; the spelling of paths, the sizes and the identity of files between two
  calls are left out.
* In `DetailPolling` the server's data are a version that grows; an answer has the version of the moment it was made.
  A host that is selected anew replaces the whole component, so the selection is the range of the chart.
* `ValidConfig` of `TelemetryWriter`, `Maintenance` and `ReportHistory` is what the constructors of the configurations
  accept, without upper bounds and without times that no guard depends on. The assumptions of these modules, and with
  them the theorems, ask for no more.
* In `ListAdmission` the drop of a `Permit` is three steps, in the order of its fields, because another call can look
  up the semaphore between them. In `Pages` the byte budget may cut a page after any row.
* The timers of the writer (enqueue wait, request time, flush latency, drain timeout) may fire whenever they are
  armed: properties may not depend on their lengths.
* Audit rows, statistics counters, encryption of the code and the host facts in a report are left out: no modelled
  guard reads them.

## 3. Runs

| Run | Instance | Shows |
|---|---|---|
| `pairing` | 2 invites, 3 instances, 2 requests, 3 tokens, 2 names, clock 0..2, limits of 1 to 3 | the tables agree after every sequence of transactions (8 properties) |
| `pairing_rebind` | as above, 1 name | a counterexample: the finding of section 6 |
| `telemetry_writer` | 3 calls, 2 hosts, 1 report id, queue 2, batch 2, 2 per host, 1 row per host | bounds of the queue, graceful stop, refinement of `ReportDelivery`, a row never changes hands, receipts are true, also for a host at its limit |
| `telemetry_tokens` | 2 calls, 1 host, 2 report ids, one renewal, queue 2, batch 2, 1 row per host, budgets that run out, with fairness | stored rows are authorised at commit; two reports of one batch do not exceed the limit together; permits come back; a requested stop ends the task |
| `report_history` | 1 host, 3 reports (metric 0, 60 and NULL), clock 0..3, skew 2, hour of 2, batches of 2, retentions 1 and 2 | latest pointer and payload, liveness of the client, samples and their metric, remembered ids, expiry of aggregates |
| `token_buckets` | 2 sources and 1 identifier for tables of 1, 3 hosts for a table of 2, 2 threads, clock 0..3 | no bucket grants more than its rate whatever is evicted; the advertised delay is enough |
| `maintenance` | 3 pieces of work, batches of 1, budget of 4 transactions, 2 failures, with fairness | a pause means that all due is done; a backlog is worked off; a stop is noticed |
| `pages` | 4 rows with 2 sort keys, pages of 2 | no row that stays is skipped in either direction; an end without cursor is an end |
| `list_admission` | 4 calls, 4 resources, 3 permits | one list per resource; the permits keep a fourth resource waiting, also after callers have left |
| `history_series` | steps of 1, 2, 3, 6 and 12 s, an hour of 6 s, ranges over 15 s in half seconds, 1 to 7 points; days of 4 ticks, 3 dates, clocks changed by up to a day | the finest step that fits is found and no sample of the range is left out; a range of dates has every report of its days and no other |
| `bootstrap` | 3 processes, 2 directories, 2 keys, the release that was built and some sixty that differ from it in one entry or attribute | one process has a database; a server's database fits it; only exact releases run; no `init` touches another's database |
| `detail_polling` | 2 selections, 2 changes of the data, with fairness | what is shown is of the selection and never older than before; a refresh is honoured; polling goes on |

Why these bounds. In `Pairing`, three instances allow an invite's own instance, another invite's and an unknown one;
with two requests and three tokens a token can be used, purged and offered again; of the limits only that of a device
(one pending request) refuses a request here, as the total, the rows retained and the invites are limited to two or
more. The theorem `Bounds` has both limits of `PendingBounded` at any value. In `TelemetryWriter`, three calls fill a
queue of two or a batch and leave one waiting for a slot, and exceed the share of two if they are of one host; one
report id makes every pair of calls a retry or a collision, two make two reports of one batch compete for the room of
one row. In `ReportHistory`, the clock outlasts both retentions (1 and 2), two hours exist before the last instant,
and three reports make two merges of an hour, of two rows and of one; one report has no value, so that the metric's
count differs from the samples'. A larger clock did not add a behaviour in trials and costs hours. In `TokenBuckets` a
table of one makes two sources compete for it, a table of two makes three hosts choose whom to evict, and the clock
outlasts a full bucket and the entry's life; a behaviour uses the limits of the pairing routes or of the reports
(`limited`), which share nothing but the clock. In `Maintenance` a budget of four ends inside the second pass over
three tables. In `Pages` four rows with equal keys make two pages with a tie at the border. In `ListAdmission` four
calls can use up three permits while two of them meet in one resource, and as there are more resources than permits,
`ListsBounded` does not follow from `OneListPerOwner`: without the guard of the global semaphore only the former is
violated. In `HistorySeries` there are a step below the hour that does not divide the next one (2 and 3, as 2 and 5 in
the code), the hour, one above it, and ranges that begin and end between two seconds; one row is enough, as rows do
not interact. Its budgets are small against its steps, so that the failure occurs, which the limits of `host_history`
(31 days, at least 100 points) exclude. `LogDays` runs beside it in the same run, one query at a time: a change of the
clocks by up to a day skips and repeats a midnight and a whole day, and three dates give a day before, of and after
it. In `Bootstrap` two processes can hold the locks of different directories while a third comes to either, and two
keys make the configuration of a server differ from the codes stored. In `DetailPolling` two changes of the data make
an answer that is older than the one shown, two selections one that is for the other.

`CHECK_DEADLOCK FALSE` is set where the system really stops: in `TelemetryWriter` calls are made once and the task
ends; in `ReportHistory` the clock reaches its bound and nothing is left to delete; in `TokenBuckets` the clock
reaches its bound; in `Maintenance` the task ends; in `HistorySeries` the query does. `Pairing`, `Pages`,
`ListAdmission`, `Bootstrap` and `DetailPolling` are checked for deadlock. Symmetry sets are used only in runs without
liveness.

Fairness. `FairSpec` of `TelemetryWriter` is weak fairness of the writer as a whole and of each handler: the tokio
runtime polls a task that was woken, an armed timer fires, and a transaction ends because its statements share a
deadline of three seconds (`pagination.rs` 145-149). Clients need not submit, nobody has to stop or abort the task,
and no particular timer has to win. Choices inside the task (a commit that succeeds rather than fails) get no
fairness.

`Maintenance` has weak fairness of the task and strong fairness of the branch that sees the notification:
`tokio::select!` polls its branches in random order, so a notification that is ready again and again is not passed
over for ever. A run fails only finitely often (`MaxFailures`): with a database that fails for ever no backlog is
worked off.

`DetailPolling` has weak fairness of live requests and of the timer of the page. That a request ends is what the page
takes for granted of the external HTTP client (`@xcss/web`): the server answers within the deadlines of its
statements, and a lost connection or the client's own time limit is an error, which settles it too. Nobody has to look
at the page, hide it, select or refresh, and an aborted request need never be answered.

Every property of a passing run has a mutant in `PROJECT.json`: a plausible mistake in one mapped definition, for
which TLC finds the property violated. The mutated forms stand in the modules, marked `Mutation`.

## 4. Properties and where they come from

* `AuthorityAgrees`, `OneInvitePerInstance`, `ActiveRequestRetriable`, `PendingTokenUnissued`, `NamesAgree`,
  `ReactivatedByOwnInvite`, `RequestOutcomeFinal`, `PendingBounded` relate the four tables of the lifecycle. None is
  enforced by the schema; each depends on several statements of several operations.
* `DeliveryKept` is the refinement: `TelemetryWriter` implements `ReportDelivery`, with each answer read as what it
  tells the client. The comment "Results are returned only after the outer transaction commits; an uncertain batch
  commit therefore never produces a false acknowledgement" is its core; a close that fails after COMMIT is told as
  unknown, which promises nothing.
* `QueueBounded`, `GracefulStopAnswersAll`, `PermitReturned`, `DrainCompletes` are about the queue, the permits and
  the stop.
* `OriginalRowKept`, `StoredUnderLiveToken`, `ReceiptsTrue`, `CapacityKept` are about what a commit may write, and
  what the clients are told of it: "Existing receipts ... remain usable at capacity" is part of `ReceiptsTrue`.
* `LatestStored`, `LatestIsNewest`, `InOrderReportShown` are about what the administrator sees: one payload per host,
  that of the newest report of its current client, and a time of last contact that follows every receipt.
  `SamplesConserved` adds up an hour as `history_series` does, rows and aggregate together: its samples, and the
  count, total, least and greatest value of the metric, change only with a report that is received. `IdKeptForWindow`
  and `ExpiredHourIsOld` are about what retention may forget.
* `RateBounded` compares the tables with buckets of a table without limit at exact times. It lets a key exceed them by
  what its calls waited for the lock: when two calls enter a table in the other order, the code sets the bucket's time
  back and refills a span twice (`pairing_admission.rs` 210-219), which this bounds and does not exclude.
  `RetryAfterSuffices` compares the delay told with the next check at that time. `PauseMeansDone`, `BacklogWorkedOff`,
  `StopNoticed` are what the retention task owes.
* `PagesTrue` is about a walk through a list that changes: no row is skipped that was there all along, and an end
  without cursor is one. `OneListPerOwner` and `ListsBounded` are about permits that outlive the caller ("keeps its
  actual SQL worker and resource reservation paired until close has completed", `pagination.rs` 226-227).
* `ChartTrue` compares the range asked for with what the statement selects, groups and limits after both ends were
  aligned, and the search for a step with all steps. `WholeDays` compares the range that is bound with the local date
  of every instant.
* `DatabaseAlone` holds across replacements of the directory; it is about the commands that take the locks of the
  database, and leaves out `init`, which takes the common lock only. `ServesFitDatabase` relates the snapshot that was
  validated to the database that is served, `CreatorOnly` every creation and removal to the `init` that began it,
  `RunsExactRelease` the release that runs to the layout.
* `ShownIsCurrent`, `RefreshHonoured`, `KeepsPolling` are what a page of a host owes its reader.

## 5. Proofs

Eight modules hold theorems, for all values of the constants that the named assumptions of the modules admit. Every
invariant and every action property of a passing run is stated by one of them, and so is the refinement. All of them
start from an inductive invariant, with a lemma per action or group of actions; the last step of each theorem is
temporal.

`PairingProofs` proves for every set of invites, instances, secrets, tokens and names and every limit that `Spec`
implies the invariants and action properties of the run `pairing`, from `NilAssumption` and `LimitAssumption` of
`Pairing` (and that `Secrets` is finite, for `PendingBounded`).

The inductive invariant is `IInv`: the six state invariants and `TokensDistinct`. None of them is inductive alone.
`AuthorityAgrees` after an activation needs `OneInvitePerInstance` (otherwise a second invite could own the host);
`ActiveRequestRetriable` after a rotation needs both, to know that the requests denied are all those of that instance;
`PendingTokenUnissued` after an activation needs `TokensDistinct`, that no other pending request holds the same token,
which the code gets from the unique column. The proof has a lemma per action for the types and one for the relations;
`NextType` and `NextRelations` collect them, `InvariantHolds` adds the temporal step. The action properties follow
from `IInv` and a step lemma each. `PendingBounded` has a separate argument on cardinalities: every action but
`CreatePairing` leaves the pending rows a subset of what they were, and a creation adds one after the count was
checked.

`ListProofs` proves both properties of the run `list_admission` for any finite set of calls, any owners and
semaphores and any number of permits, from `AdmissionAssumption`. The invariant `Safe` says which calls refer to a
semaphore (`References`), that the map agrees with every reference (`MapAgrees`: `retain` keeps what is referred to,
so a new semaphore never replaces one in use), that a permit of an owner has one holder (`OneHolder`), and that a
running SQL worker belongs to a task (`WorkerHeld`); without `MapAgrees` two semaphores could serve one owner.
`StepOfOne` carries the invariant through all steps but the lookup. `Conserved` adds that free and used global permits
make up the total.

It also proves `PagesTrue` for any finite set of rows, sort keys and page size, from `PageAssumption`. `Ordered`, the
answer of ORDER BY, places a row by the number of rows ahead of it; that this is a permutation of the rows in the
order of the query is shown by cardinalities. A page that is cut off then holds the rows nearest to the cursor, in
either direction. The invariant `PageInv` adds to the two parts of `PagesTrue` that the cursors a client holds lie
within what it was shown: without it the next page could leave a gap behind what was shown before. Changes of the
table keep it because a row that comes or moves is no longer among those that stayed.

`ReportHistoryProofs` proves all six properties of the run `report_history`, for any hosts and reports and any
retentions. For `LatestStored`, `LatestIsNewest`, `IdKeptForWindow` and `InOrderReportShown` the invariant `Inv` adds
to the two checked ones that a host points to a report of its current client that is not merged (`Pointed`) and that
nothing was received in the future (`Received`), without which a time clamped to the receipt could still be ahead of
the clock. The order of the reports (`Newer`) is shown to be total and transitive.

For the hours, `HourInv` adds that an aggregate lies in its hour and holds a scalar that samples can make (`Sound`),
and that every merged row still stored lies between the first and the last time of the aggregate of its hour, unless
it is past the aggregate retention (`Covered`). `HourSteps` says what can happen to an hour: a row comes, some are
merged, the aggregate expires, it goes with its host, or it stays. `ExpiredHourIsOld` follows from `Covered`. The sums
over the rows of an hour are folds over sets; they are unfolded one element at a time (`SumSteps`, `RecordedSteps`),
and what holds for a set if it holds for all smaller ones holds for every finite set (`AllSubsets`, from the
well-foundedness of the subset order), so that no induction over data is needed. `TallyMerges` is the core: the rows
and the aggregate of an hour add up to the same before and after any part of the rows was merged into it.

The stored mean is a rounded quotient in the code, and a merge that rounds may change the total. So the result comes
in two theorems. `SamplesAreCounted` needs nothing: the number of samples, the number of those with the metric, the
least and the greatest are kept through all merges, whatever the averages. `SamplesAreConserved` is `SamplesConserved`
itself, with the total, under the hypothesis that nothing is rounded: each value is a multiple of every number of
samples that an hour reaches (`AllWhole`, `FewSamples`). The run has values of that kind (0 and 60, with at most three
samples).

`TelemetryWriterProofs` proves the bounds, the graceful stop, the capacity and the three action properties of what a
commit writes, and that `TelemetryWriter` implements `ReportDelivery` (`WriterDelivers`), for any calls, queue, batch,
shares and limits of rows. The invariant has four parts: where each report is (`Placement`: a permit is out exactly
for what is reserved, queued or in the batch), what its handler, the task and the database say of it (`Record`), what
the open transaction has found out (`Transaction`: its results are those of the table it will leave, however its
reports collide), and how much there is of everything (`Sizes`). The refinement is one lemma per action: each is a
step of `ReportDelivery` or leaves what it sees unchanged; the commit maps to its commit, a close that fails to an
unknown answer.

`MaintenanceProofs` proves `PauseMeansDone`. What is left of the work that was due when a run began is in its cutoffs
(`Selected`); a pass that has done nothing found every table before its own empty (`EmptyPass`); and a run that has
done nothing is in its first pass (`FirstPass`), which the budget cannot end. Without the last, a budget that ends a
pass could look like a pass that found nothing.

`TokenBucketsProofs` proves both properties of the run `token_buckets`, for any keys, bursts, refills, capacities and
threads. A bucket that is not in its table counts as full (`Value`). `Covered` says that no key's value exceeds what
an exact bucket would hold by more than its calls waited for the lock; an eviction keeps it because only a full
bucket, or one older than the life of an entry, is removed. `Waits` says that from a refusal on the table shows that
the wait ends in time: the key's own bucket has a token by then, or some bucket of the full table is full.

`BootstrapProofs` proves all four properties of the run `bootstrap`. The invariant says which locks a process has at
each stage (`Shapes`), that they exclude each other (`Alone`), how far the database is at each stage of the `init`
that creates it (`Inits`), and that a server's database fits it (`Fits`). `ServersFit` needs `Inits`: an `init` that
fails removes what it created, so that must not be a served database. The lemma about `Verified` shows by cardinality
that a tree with as many entries as the manifest, each of them listed, is the manifest's.

`HostPageProofs` proves `ShownIsCurrent`: at most one request is live (`OneLive`), it is for the current selection, and
its answer, once the server has made it, is no older than what is shown (`LiveFits`).

It proves `ChartTrue` from `StepsAssumption`, for any steps that divide the hour or are multiples of it, any fractions
of a second, ranges and budgets: in the chart alone (`ChartOnItsOwn`) and next to the log, as the run has them
(`ChartIsTrue`). The invariant is that the search has passed no step that would do (`Searched`); the rest is
arithmetic: the ends of the range are aligned outward to the step, buckets of a step below the hour and merged hours
fall into one point of the chart each, and no point of a step that fits is beyond the budget. Facts about division
that the SMT solver does not find are lemmas (`DivIsFloor`, `MultipleGap`).

It proves `WholeDays` from `LogAssumption`, for any length of the day and any change of the clocks by up to a day. The
start of a day is the least instant whose local date is that day or later, also where midnight is skipped or comes
twice; of the instants whose date is in the range, none lies outside of what is bound.

## 6. Finding

`RotatedInstanceKeepsHost` states the comment at `store.rs` 787-789, that a rotated instance keeps its host. It does
not hold: when the new code of a rotated instance is used in recover-identity mode by a device whose Host UUID the
server does not know, `store.rs` 799-814 moves the invite to that UUID. The revoked host keeps its history but no
invite names it any more, and as an invite may claim an existing host only if it names it already, it cannot be
reactivated.

## 7. Only model-checked, or not modelled

* Liveness (`PermitReturned`, `DrainCompletes`, `BacklogWorkedOff`, `StopNoticed`, `RefreshHonoured`, `KeepsPolling`)
  and anything with ENABLED is beyond the prover and stays with TLC.
* The rounding of stored means: with it the total of `SamplesConserved` is neither checked nor proved (section 5).
* `Typing` of `PairingProofs`, `Conservation` of `ListProofs`, `SamplesAreCounted` of `ReportHistoryProofs` and
  `ChartOnItsOwn` of `HostPageProofs` are theorems that no run states as a property.
* Left out of modules that exist: the statistics counters, health and durations of the tasks; audit rows; the rounding
  of stored means; hardware and disk samples; the arithmetic of the capacity budgets but for the rows of a host; the
  encoding of cursors; what the fingerprint of the schema covers; a power failure during `init`; the spelling of paths
  and the sizes of files of a release.
* No property says what the client of a request whose host was deleted should be answered (`store.rs` 1650): it polls
  404 although its credential is live, and no document states which answer is right.
* Not modelled: configuration and the validation of reports and pairing requests (pure functions without shared
  state), cryptography (`Bootstrap` uses only that what is encrypted under one key cannot be decrypted with another),
  the scripts that build a release, the React views, and the external xcss library (administrators, sessions, CSRF,
  server runtime), whose source is not in the repository.

## 8. Plan

Done: all modules of section 2. What would add to them:

1. The retry of a client, which is not in this repository, around `TelemetryWriter`, `TokenBuckets` and `Pairing`
   together: what a client that follows every answer gets in the end, also after its host was deleted.
2. The rounding of hourly means, as a bound on how far a mean may move with each merge.
3. The byte budgets of `capacity.rs` with the pages that SQLite reserves for retention.
