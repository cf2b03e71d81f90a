--------------------------- MODULE ReportHistory ----------------------------
(***************************************************************************)
(* What becomes of a report in the database: store_report_in_transaction   *)
(* of store.rs inserts the row and moves the host's pointer to its latest  *)
(* report, activate resets that pointer, and the batches of retention.rs   *)
(* merge old rows into hourly aggregates, then delete the rows, then the   *)
(* aggregates.  history_series of store.rs reads rows and aggregates       *)
(* together.                                                               *)
(*                                                                         *)
(* Every operation is one BEGIN IMMEDIATE transaction, hence one action.   *)
(* A maintenance cycle computes its cutoffs once and runs its batches for  *)
(* up to max_run_time, among the other transactions: the `now' of a batch  *)
(* is any earlier time.                                                    *)
(*                                                                         *)
(* Abstractions.                                                           *)
(*  - Report ids are numbers, as their order breaks ties.                  *)
(*  - One of the fifteen metrics of a row is modelled: each is merged by   *)
(*    itself, in the same way.  Averages are of whole numbers that every   *)
(*    count divides, as rounding is left out.                              *)
(*  - The facts of the host that a report carries are left out.            *)
(*  - The clock does not go back.                                          *)
(***************************************************************************)
EXTENDS Integers, FiniteSets, FiniteSetsExt

CONSTANTS
  Hosts,
  Reports,             \* report_id values
  Metric,              \* what each report says of the metric; Nil: nothing
  Nil,                 \* a NULL column, or a field of an absent row
  MaxClock,            \* bound of the model: the last instant
  Skew,                \* how far ahead a client's clock may be (5 minutes)
  Hour,                \* length of an aggregation bucket
  RawRetention,        \* RetentionConfig.raw_retention (7 days)
  AggregateRetention,  \* RetentionConfig.aggregate_retention (365 days)
  BatchSize            \* RetentionConfig.batch_size (256)

ASSUME ReportsAssumption ==
  /\ IsFiniteSet(Reports)
  /\ Reports \subseteq Nat
  /\ Nil \notin Hosts
  /\ Nil \notin Nat
  /\ Metric \in [Reports -> Nat \union {Nil}]

\* What RetentionConfig::new accepts of the retentions and of a batch, but for the
\* upper bounds.
ValidConfig ==
  /\ {RawRetention, AggregateRetention} \subseteq Nat
  /\ AggregateRetention > RawRetention
  /\ BatchSize \in Nat \ {0}

ASSUME RetentionAssumption ==
  /\ ValidConfig
  /\ {MaxClock, Skew} \subseteq Nat
  /\ Hour \in Nat \ {0}

VARIABLES
  rows,    \* client_metric_reports
  hosts,   \* monitored_hosts
  hourly,  \* client_metric_hourly_aggregates
  clock,   \* Utc::now()
  since    \* auxiliary: reports stored since their host was last activated

vars == <<rows, hosts, hourly, clock, since>>

Times == 0..(MaxClock + Skew)
Bucket(t) == t \div Hour
Buckets == {Bucket(t) : t \in Times}

Row ==
  [host : Hosts \union {Nil}, collected : Times, received : 0..MaxClock,
   payload : BOOLEAN, aggregated : BOOLEAN]
Host ==
  [status : {"absent", "active", "revoked"}, latest : Reports \union {Nil},
   seen : 0..MaxClock]
Scalar ==
  [count : Nat, min : Nat \union {Nil}, max : Nat \union {Nil}, avg : Nat \union {Nil}]
Aggregate == [count : Nat, start : Times, end : Times, metric : Scalar]

NoRow == [host |-> Nil, collected |-> 0, received |-> 0, payload |-> FALSE,
          aggregated |-> FALSE]
NoHost == [status |-> "absent", latest |-> Nil, seen |-> 0]
NoScalar == [count |-> 0, min |-> Nil, max |-> Nil, avg |-> Nil]
NoAggregate == [count |-> 0, start |-> 0, end |-> 0, metric |-> NoScalar]

Init ==
  /\ rows = [r \in Reports |-> NoRow]
  /\ hosts = [h \in Hosts |-> NoHost]
  /\ hourly = [h \in Hosts |-> [b \in Buckets |-> NoAggregate]]
  /\ clock = 0
  /\ since = {}

Lesser(t, u) == IF t < u THEN t ELSE u
Greater(t, u) == IF t > u THEN t ELSE u

-----------------------------------------------------------------------------
(* Storing a report.                                                       *)

\* previous_key and incoming_key: the client's time counts up to the time of
\* receipt.  (Mutation: the client's time is trusted.)
KeyOfClient(r, row) == <<row.collected, row.received, r>>
Key(r, row) == <<Lesser(row.collected, row.received), row.received, r>>

Newer(k, l) ==
  \/ k[1] > l[1]
  \/ k[1] = l[1] /\ k[2] > l[2]
  \/ k[1] = l[1] /\ k[2] = l[2] /\ k[3] > l[3]

\* (Mutation: the report that arrives last is the latest.)
ArrivesLast(h, r, row) == TRUE
BecomesLatest(h, r, row) ==
  LET previous == hosts[h].latest IN
  previous = Nil \/ Newer(Key(r, row), Key(previous, rows[previous]))

\* last_seen_at, which every new report sets, the latest or not.
Seen(host) == IF host.seen > clock THEN host.seen ELSE clock

\* store_report_in_transaction, with the check of the time in validate_report.
\* A report_id that is stored already changes nothing, and neither do a revoked
\* credential and exhausted capacity.
Store(h, r, collected) ==
  LET fresh == [host |-> h, collected |-> collected, received |-> clock,
                payload |-> FALSE, aggregated |-> FALSE]
      latest == BecomesLatest(h, r, fresh)
  IN /\ hosts[h].status = "active"
     /\ rows[r] = NoRow
     /\ collected <= clock + Skew
     /\ rows' = [s \in Reports |->
          IF s = r THEN [fresh EXCEPT !.payload = latest]
          ELSE IF latest /\ s = hosts[h].latest THEN [rows[s] EXCEPT !.payload = FALSE]
          ELSE rows[s]]
     /\ hosts' = [hosts EXCEPT ![h].seen = Seen(hosts[h]),
                               ![h].latest = IF latest THEN r ELSE @]
     /\ since' = since \union {r}
     /\ UNCHANGED <<hourly, clock>>

-----------------------------------------------------------------------------
(* The life of the host.                                                   *)

\* The payload that the pointer of the host keeps is released.
PayloadReleased(h) == [r \in Reports |->
  IF r = hosts[h].latest THEN [rows[r] EXCEPT !.payload = FALSE] ELSE rows[r]]

\* activate: the host is inserted, or reset.  It is not active (see Pairing).
Activate(h) ==
  /\ hosts[h].status # "active"
  /\ rows' = PayloadReleased(h)
  /\ hosts' = [hosts EXCEPT ![h] = [status |-> "active", latest |-> Nil, seen |-> clock]]
  /\ since' = {r \in since : rows[r].host # h}
  /\ UNCHANGED <<hourly, clock>>

\* rotate_invite_authorization
Revoke(h) ==
  /\ hosts[h].status = "active"
  /\ hosts' = [hosts EXCEPT ![h].status = "revoked"]
  /\ UNCHANGED <<rows, hourly, clock, since>>

\* delete_host_records, with the two ON DELETE CASCADE of the host's history.
DeleteHost(h) ==
  /\ hosts[h].status # "absent"
  /\ rows' = [r \in Reports |-> IF rows[r].host = h THEN NoRow ELSE rows[r]]
  /\ hosts' = [hosts EXCEPT ![h] = NoHost]
  /\ hourly' = [hourly EXCEPT ![h] = [b \in Buckets |-> NoAggregate]]
  /\ since' = {r \in since : rows[r].host # h}
  /\ UNCHANGED clock

-----------------------------------------------------------------------------
(* The batches of a maintenance cycle that began at now.                   *)

\* NOT EXISTS (SELECT 1 FROM monitored_hosts WHERE latest_report_id=report_id)
\* (Mutation: the guard is forgotten.)
Unguarded(r) == TRUE
NotLatest(r) == \A h \in Hosts : hosts[h].latest # r

Aggregable(now) == {r \in Reports :
  /\ rows[r] # NoRow
  /\ ~rows[r].aggregated
  /\ rows[r].collected + RawRetention < now
  /\ NotLatest(r)}

\* ORDER BY collected_at, report_id LIMIT batch_size
Oldest(set, batch) ==
  /\ batch \subseteq set
  /\ Cardinality(batch) <= BatchSize
  /\ Cardinality(batch) < BatchSize => batch = set
  /\ \A r \in batch, s \in set \ batch :
       \/ rows[r].collected < rows[s].collected
       \/ rows[r].collected = rows[s].collected /\ r < s

InBucket(batch, h, b) ==
  {r \in batch : rows[r].host = h /\ Bucket(rows[r].collected) = b}

\* ScalarAggregate::record: the mean moves by its share of the difference.
Record(scalar, value) ==
  LET count == scalar.count + 1 IN
  CASE value = Nil -> scalar
    [] value # Nil /\ scalar.count = 0 ->
         [count |-> 1, min |-> value, max |-> value, avg |-> value]
    [] OTHER ->
         [count |-> count,
          min |-> Lesser(scalar.min, value),
          max |-> Greater(scalar.max, value),
          avg |-> scalar.avg + (value - scalar.avg) \div count]

\* What the upsert makes of the metric's columns: the averages are weighed by
\* their counts.  (Mutation: they are not.)
Columns(old, new, avg) ==
  CASE old.count = 0 -> new
    [] old.count # 0 /\ new.count = 0 -> old
    [] OTHER -> [count |-> old.count + new.count, min |-> Lesser(old.min, new.min),
                 max |-> Greater(old.max, new.max), avg |-> avg]
UpsertedPlainMean(old, new) == Columns(old, new, (old.avg + new.avg) \div 2)
Upserted(old, new) ==
  Columns(old, new,
    old.avg + ((new.avg - old.avg) * new.count) \div (old.count + new.count))

\* HourlyAggregate of the new rows, and hourly_upsert_sql with what is there.
\* (Mutation: the interval becomes that of the new rows.)
MergedScalars(old, new) ==
  Upserted(old.metric,
    FoldSet(LAMBDA r, scalar : Record(scalar, Metric[r]), NoScalar, new))
MergedLastInterval(old, new) ==
  LET times == {rows[r].collected : r \in new} IN
  [count |-> old.count + Cardinality(new), start |-> Min(times), end |-> Max(times),
   metric |-> MergedScalars(old, new)]
Merged(old, new) ==
  LET times == {rows[r].collected : r \in new}
                 \union IF old.count = 0 THEN {} ELSE {old.start, old.end}
  IN [count |-> old.count + Cardinality(new), start |-> Min(times), end |-> Max(times),
      metric |-> MergedScalars(old, new)]

\* aggregate_raw_batch
AggregateRawBatch(now) ==
  \E batch \in SUBSET Aggregable(now) :
    /\ batch # {}
    /\ Oldest(Aggregable(now), batch)
    /\ hourly' = [h \in Hosts |-> [b \in Buckets |->
         LET new == InBucket(batch, h, b) IN
         IF new = {} THEN hourly[h][b] ELSE Merged(hourly[h][b], new)]]
    /\ rows' = [r \in Reports |->
         IF r \in batch THEN [rows[r] EXCEPT !.aggregated = TRUE] ELSE rows[r]]
    /\ UNCHANGED <<hosts, clock, since>>

\* The row has been there for a whole raw retention.
\* (Mutation: it is as old as its sample.)
AgeOfSample(row, now) == row.collected + RawRetention < now
Outdated(row, now) == row.received + RawRetention < now

Deletable(now) == {r \in Reports :
  rows[r] # NoRow /\ rows[r].aggregated /\ Outdated(rows[r], now) /\ NotLatest(r)}

\* delete_aggregated_raw_batch.  It takes the rows in the order they were
\* marked, which nothing else depends on.
DeleteAggregatedRawBatch(now) ==
  \E batch \in SUBSET Deletable(now) :
    /\ batch # {}
    /\ Cardinality(batch) <= BatchSize
    /\ Cardinality(batch) < BatchSize => batch = Deletable(now)
    /\ rows' = [r \in Reports |-> IF r \in batch THEN NoRow ELSE rows[r]]
    /\ since' = since \ batch
    /\ UNCHANGED <<hosts, hourly, clock>>

\* delete_expired_aggregate_batch, in the order of interval_end.
Expired(now) == {key \in Hosts \X Buckets :
  LET aggregate == hourly[key[1]][key[2]] IN
  aggregate.count > 0 /\ aggregate.end + AggregateRetention < now}

DeleteExpiredAggregateBatch(now) ==
  \E batch \in SUBSET Expired(now) :
    /\ batch # {}
    /\ Cardinality(batch) <= BatchSize
    /\ Cardinality(batch) < BatchSize => batch = Expired(now)
    /\ \A k \in batch, l \in Expired(now) \ batch :
         hourly[k[1]][k[2]].end <= hourly[l[1]][l[2]].end
    /\ hourly' = [h \in Hosts |-> [b \in Buckets |->
         IF <<h, b>> \in batch THEN NoAggregate ELSE hourly[h][b]]]
    /\ UNCHANGED <<rows, hosts, clock, since>>

-----------------------------------------------------------------------------

Tick ==
  /\ clock < MaxClock
  /\ clock' = clock + 1
  /\ UNCHANGED <<rows, hosts, hourly, since>>

Next ==
  \/ \E h \in Hosts, r \in Reports, collected \in Times : Store(h, r, collected)
  \/ \E h \in Hosts : Activate(h) \/ Revoke(h) \/ DeleteHost(h)
  \/ \E now \in 0..clock :
       \/ AggregateRawBatch(now)
       \/ DeleteAggregatedRawBatch(now)
       \/ DeleteExpiredAggregateBatch(now)
  \/ Tick

Spec == Init /\ [][Next]_vars

-----------------------------------------------------------------------------
(* Properties.                                                             *)

\* The rows have the types of the schema, and an absent row is empty.
TypeOK ==
  /\ rows \in [Reports -> Row]
  /\ hosts \in [Hosts -> Host]
  /\ clock \in 0..MaxClock
  /\ since \subseteq {r \in Reports : rows[r] # NoRow}
  /\ \A r \in Reports : rows[r].host = Nil => rows[r] = NoRow
  /\ \A h \in Hosts : hosts[h].status = "absent" => hosts[h] = NoHost

\* An hourly aggregate lies in its hour.
AggregatesOK ==
  /\ hourly \in [Hosts -> [Buckets -> Aggregate]]
  /\ \A h \in Hosts, b \in Buckets :
       LET aggregate == hourly[h][b] IN
       IF aggregate.count = 0 THEN aggregate = NoAggregate
       ELSE /\ aggregate.start <= aggregate.end
            /\ Bucket(aggregate.start) = b
            /\ Bucket(aggregate.end) = b
            /\ aggregate.metric.count <= aggregate.count
            /\ aggregate.metric.count = 0 => aggregate.metric = NoScalar

\* The report a host points to is there, is the host's own and has not been
\* merged: retention, which deletes by age, spares it however old it gets.
\* "A renewed authorization must not expose telemetry from the revoked
\* credential", and only one full payload per host is kept: the row of a host
\* that has its payload is the one the host points to.
LatestStored ==
  /\ TypeOK
  /\ \A h \in Hosts : hosts[h].latest # Nil =>
       rows[hosts[h].latest].host = h /\ ~rows[hosts[h].latest].aggregated
  /\ \A r \in Reports : rows[r] # NoRow =>
       (rows[r].payload <=> hosts[rows[r].host].latest = r)

\* The host shows the newest of the reports its current client sent, whatever
\* the order they arrived in, and each of them proves that the client was alive
\* at the time of receipt, whether or not its metrics are shown; and "a sample
\* cannot pin latest": its time counts up to the time of receipt, so that a later
\* report with a corrected clock is not held back for longer than the clocks
\* differed.
LatestIsNewest ==
  \A h \in Hosts, r \in Reports :
    r \in since /\ rows[r].host = h =>
      /\ rows[r].received <= hosts[h].seen
      /\ LET latest == hosts[h].latest IN
         /\ latest # Nil
         /\ \/ latest = r
            \/ Newer(Key(latest, rows[latest]), Key(r, rows[r]))

\* A report received in order of sampling is the latest: with a newer receipt
\* and a sampling time not in the future, nothing an earlier report claimed can
\* hide it.
InOrderReportShown ==
  [][\A h \in Hosts, r \in Reports :
       rows[r] = NoRow /\ rows'[r].host = h /\ rows'[r].collected = clock
         /\ (\A s \in since : rows[s].host = h => rows[s].received < clock)
       => hosts'[h].latest = r]_vars

\* The samples of an hour as history_series adds them up, from the rows that are
\* not merged and the aggregate: how many there are, how many of them have the
\* metric, its extremes and its total, of which the chart shows the mean.
Tally(raw, aggregate) ==
  LET scalars == {Record(NoScalar, Metric[r]) : r \in raw} \union {aggregate.metric}
      known == {scalar \in scalars : scalar.count > 0}
      having == {r \in raw : Metric[r] # Nil}
      merged == aggregate.metric
  IN [samples |-> Cardinality(raw) + aggregate.count,
      count |-> Cardinality(having) + merged.count,
      total |-> MapThenSumSet(LAMBDA r : Metric[r], having)
                  + IF merged.count = 0 THEN 0 ELSE merged.avg * merged.count,
      min |-> IF known = {} THEN Nil ELSE Min({scalar.min : scalar \in known}),
      max |-> IF known = {} THEN Nil ELSE Max({scalar.max : scalar \in known})]

Unmerged(h, b) == {r \in InBucket(Reports, h, b) : ~rows[r].aggregated}
Samples(h, b) == Tally(Unmerged(h, b), hourly[h][b])

\* The tally and one sample more.
Grown(tally, value) ==
  IF value = Nil THEN [tally EXCEPT !.samples = @ + 1]
  ELSE [samples |-> tally.samples + 1,
        count |-> tally.count + 1,
        total |-> tally.total + value,
        min |-> Min({tally.min, value} \ {Nil}),
        max |-> Max({tally.max, value} \ {Nil})]

\* No sample is lost or counted twice, and the least, the greatest and the mean
\* stay those of the samples received, in whatever batches and with whatever late
\* reports the hour is merged: what is shown of an hour changes with a report that
\* was not stored, and goes only with the aggregate or with the host.  (The first
\* case implies the second, and spares TLC most of the sums.)
SamplesConserved ==
  [][\A h \in Hosts, b \in Buckets :
       \/ UNCHANGED <<Unmerged(h, b), hourly[h][b]>>
       \/ Samples(h, b)' = Samples(h, b)
       \/ \E r \in Reports :
            /\ rows[r] = NoRow
            /\ r \in InBucket(Reports, h, b)'
            /\ Samples(h, b)' = Grown(Samples(h, b), Metric[r])
       \/ /\ hourly[h][b].count > 0
          /\ hourly'[h][b] = NoAggregate
          /\ Samples(h, b)' = Tally(Unmerged(h, b), NoAggregate)
       \/ hosts'[h] = NoHost]_vars

\* A report_id is remembered for a whole raw retention after its receipt, also
\* when the sample was old already and was merged at once: a client that missed
\* the answer and sends the report again within that time is not counted twice.
IdKeptForWindow ==
  [][\A r \in Reports :
       rows[r] # NoRow /\ rows'[r] = NoRow /\ hosts'[rows[r].host] # NoHost =>
         /\ rows[r].received + RawRetention < clock
         /\ rows[r].aggregated]_vars

\* An aggregate stays within its hour; and when it is dropped, none of the samples
\* merged into it that are still stored is younger than the aggregate retention:
\* late reports do not make an hour look older than it is.
ExpiredHourIsOld ==
  [][/\ AggregatesOK'
     /\ \A h \in Hosts, b \in Buckets :
          hourly[h][b].count > 0 /\ hourly'[h][b] = NoAggregate /\ hosts'[h] # NoHost =>
            \A r \in InBucket(Reports, h, b) :
              rows[r].aggregated => rows[r].collected + AggregateRetention < clock]_vars
=============================================================================
