---------------------------- MODULE TokenBuckets ----------------------------
(***************************************************************************)
(* The rate limits of the server, in tables of token buckets that hold a   *)
(* limited number of entries.                                              *)
(*                                                                         *)
(* The pairing routes (check_create, check_poll and check_activation of    *)
(* pairing_admission.rs) spend a token of a source address and then one of *)
(* an identifier.  A call reads the time before it takes the lock, so that *)
(* the calls come to the tables in another order than that of their times. *)
(*                                                                         *)
(* The reports of a host (ReportBuckets of http.rs) and the creation of    *)
(* invites (check_invite_account) have one table each and read the time    *)
(* under its lock.  The table of the hosts stands for both.                *)
(*                                                                         *)
(* Abstractions.                                                           *)
(*  - Tokens are counted in time: one token is worth the refill interval,  *)
(*    which makes the arithmetic that of integers.                         *)
(*  - last_refill and last_seen are one field: both are set together.      *)
(*  - The delay is not rounded up to seconds.                              *)
(***************************************************************************)
EXTENDS Integers, FiniteSets

CONSTANTS
  Sources,           \* canonical addresses
  Identifiers,       \* devices, or pairing requests
  Hosts,             \* hosts that report
  Threads,
  Nil,
  SourceBurst, IdentifierBurst, HostBurst,     \* BucketPolicy.burst
  SourceRefill, IdentifierRefill, HostRefill,  \* BucketPolicy.refill_interval
  SourceCapacity, IdentifierCapacity, HostCapacity,
  EntryTTL,
  MaxClock           \* bound of the model: the last instant

\* The tables that one route of PairingAdmission::new uses, and one that is alone.
Tables == {"sources", "identifiers", "hosts"}
Of(table, source, identifier, host) ==
  CASE table = "sources" -> source [] table = "identifiers" -> identifier [] table = "hosts" -> host
Keys(table) == Of(table, Sources, Identifiers, Hosts)
Refill(table) == Of(table, SourceRefill, IdentifierRefill, HostRefill)
Capacity(table) == Of(table, SourceCapacity, IdentifierCapacity, HostCapacity)
Burst(table) == Of(table, SourceBurst, IdentifierBurst, HostBurst)

\* A full bucket.
Full(table) == Burst(table) * Refill(table)

\* BucketPolicy::new, BoundedBuckets::new, and the values of production(), where
\* a bucket that nobody used for entry_ttl is full.
ASSUME PolicyAssumption ==
  /\ UNION {{Burst(table), Refill(table), Capacity(table)} : table \in Tables}
       \subseteq Nat \ {0}
  /\ EntryTTL \in Nat \ {0}
  /\ MaxClock \in Nat
  /\ \A table \in Tables : EntryTTL >= Full(table)
ASSUME KeysAssumption ==
  /\ \A a, b \in Tables : a # b => Keys(a) \intersect Keys(b) = {}
  /\ Nil \notin Sources /\ Nil \notin Nat

VARIABLES
  entries,  \* the tables of buckets
  calls,    \* what each thread checks, and the time it has read
  clock,    \* Instant::now()
  denied,   \* auxiliary: the last refusal, while no other check followed it
  owed,     \* auxiliary: the buckets of a table without limit, at exact times
  late      \* auxiliary: how long the calls of a key waited for the lock, in all

vars == <<entries, calls, clock, denied, owed, late>>

AllKeys == Sources \union Identifiers \union Hosts
TableOf(k) == CHOOSE table \in Tables : k \in Keys(table)
Bucket == [tokens : Nat, seen : 0..MaxClock]
NoBucket == [tokens |-> 0, seen |-> Nil]
Idle == [source |-> Nil, identifier |-> Nil, now |-> 0]
Granted == [table |-> Nil, key |-> Nil, at |-> 0, delay |-> 0]

Init ==
  /\ entries = [table \in Tables |-> [k \in Keys(table) |-> NoBucket]]
  /\ calls = [t \in Threads |-> Idle]
  /\ clock = 0
  /\ denied = Granted
  /\ owed = [k \in AllKeys |-> [tokens |-> Full(TableOf(k)), at |-> 0]]
  /\ late = [k \in AllKeys |-> 0]

Lesser(x, y) == IF x < y THEN x ELSE y
Least(set) == CHOOSE x \in set : \A y \in set : x <= y

-----------------------------------------------------------------------------
(* BoundedBuckets::check_at: what becomes of a table, and the delay of a    *)
(* refusal.                                                                *)

\* now.saturating_duration_since
Elapsed(since, now) == IF now > since THEN now - since ELSE 0

TokensAt(table, bucket, now) ==
  Lesser(Full(table), bucket.tokens + Elapsed(bucket.seen, now))

Present(table) == {k \in DOMAIN table : table[k] # NoBucket}

\* The entries that nobody used for entry_ttl are dropped.
Retained(table, now) == [k \in DOMAIN table |->
  IF table[k] # NoBucket /\ Elapsed(table[k].seen, now) < EntryTTL THEN table[k] ELSE NoBucket]

\* make_room: the full buckets.  (Mutation: any bucket.)
AnyEntry(name, table, now) == Present(table)
Evictable(name, table, now) ==
  {k \in Present(table) : TokensAt(name, table[k], now) = Full(name)}

\* min_by_key(last_seen); which of several is up to the hash map.
Eldest(table, set) == {k \in set : \A l \in set : table[k].seen <= table[l].seen}

HasRoom(name, table) == Cardinality(Present(table)) < Capacity(name)

\* The tables that have room for one more entry, none when no bucket is full.
WithRoom(name, table, now) ==
  IF HasRoom(name, table) THEN {table}
  ELSE {[table EXCEPT ![k] = NoBucket] : k \in Eldest(table, Evictable(name, table, now))}

\* Until the first bucket of a full table is full.
\* (Mutation: until it has a token.)
UntilOneToken(name, table, now) ==
  Least({LET tokens == TokensAt(name, table[k], now) IN
         IF tokens < Refill(name) THEN Refill(name) - tokens ELSE 1 : k \in Present(table)})
UntilOneIsFull(name, table, now) ==
  Least({Full(name) - TokensAt(name, table[k], now) : k \in Present(table)})

\* Bucket::check of a bucket that is there.
Spend(name, table, k, now) ==
  LET tokens == TokensAt(name, table[k], now) IN
  IF tokens < Refill(name)
    THEN [table |-> [table EXCEPT ![k] = [tokens |-> tokens, seen |-> now]],
          granted |-> FALSE, delay |-> Refill(name) - tokens]
    ELSE [table |-> [table EXCEPT ![k] = [tokens |-> tokens - Refill(name), seen |-> now]],
          granted |-> TRUE, delay |-> 0]

\* check_at: the possible results.
CheckAt(name, k, now) ==
  LET kept == Retained(entries[name], now)
      new == [tokens |-> Full(name), seen |-> now]
  IN IF kept[k] # NoBucket THEN {Spend(name, kept, k, now)}
     ELSE IF WithRoom(name, kept, now) = {}
     THEN {[table |-> kept, granted |-> FALSE, delay |-> UntilOneIsFull(name, kept, now)]}
     ELSE {Spend(name, [table EXCEPT ![k] = new], k, now) : table \in WithRoom(name, kept, now)}

-----------------------------------------------------------------------------

\* let now = Instant::now()
ReadClock(t, source, identifier) ==
  /\ calls[t] = Idle
  /\ calls' = [calls EXCEPT ![t] = [source |-> source, identifier |-> identifier, now |-> clock]]
  /\ UNCHANGED <<entries, clock, denied, owed, late>>

\* A bucket at its exact time, that lends what it does not have.
OwedAt(name, k) == Lesser(Full(name), owed[k].tokens + clock - owed[k].at)
Lent(name, k, granted) ==
  [tokens |-> OwedAt(name, k) - (IF granted THEN Refill(name) ELSE 0), at |-> clock]
Refused(name, k, result) ==
  [table |-> name, key |-> k, at |-> clock, delay |-> result.delay]

\* check_create, check_poll, check_activation: the identifier is not looked at
\* when the source is refused, and the source's token is spent when the
\* identifier is.
Check(t) ==
  LET call == calls[t] IN
  /\ call # Idle
  /\ \E source \in CheckAt("sources", call.source, call.now) :
     \E identifier \in
          IF source.granted THEN CheckAt("identifiers", call.identifier, call.now)
          ELSE {[table |-> entries["identifiers"], granted |-> FALSE, delay |-> 0]} :
       LET checked == IF source.granted THEN {call.source, call.identifier} ELSE {call.source}
       IN /\ entries' = [entries EXCEPT !["sources"] = source.table,
                                        !["identifiers"] = identifier.table]
          /\ denied' =
               IF ~source.granted THEN Refused("sources", call.source, source)
               ELSE IF ~identifier.granted
                 THEN Refused("identifiers", call.identifier, identifier)
               ELSE Granted
          /\ owed' = [k \in AllKeys |->
               IF k = call.source THEN Lent("sources", k, source.granted)
               ELSE IF k = call.identifier THEN Lent("identifiers", k, identifier.granted)
               ELSE owed[k]]
          /\ late' = [k \in AllKeys |->
               IF k \in checked THEN late[k] + clock - call.now ELSE late[k]]
  /\ calls' = [calls EXCEPT ![t] = Idle]
  /\ UNCHANGED clock

\* ReportBuckets::allow, with the time read under the lock.
Allow(h) ==
  /\ \E result \in CheckAt("hosts", h, clock) :
       /\ entries' = [entries EXCEPT !["hosts"] = result.table]
       /\ denied' = IF result.granted THEN Granted ELSE Refused("hosts", h, result)
       /\ owed' = [owed EXCEPT ![h] = Lent("hosts", h, result.granted)]
  /\ UNCHANGED <<calls, clock, late>>

Tick ==
  /\ clock < MaxClock
  /\ clock' = clock + 1
  /\ UNCHANGED <<entries, calls, denied, owed, late>>

Next ==
  \/ \E t \in Threads, source \in Sources, identifier \in Identifiers :
       ReadClock(t, source, identifier)
  \/ \E t \in Threads : Check(t)
  \/ \E h \in Hosts : Allow(h)
  \/ Tick

Spec == Init /\ [][Next]_vars

-----------------------------------------------------------------------------
(* Properties.                                                             *)

\* The tables are within their capacity and the buckets within their burst.
TypeOK ==
  /\ \A name \in Tables :
       /\ entries[name] \in [Keys(name) -> Bucket \union {NoBucket}]
       /\ Cardinality(Present(entries[name])) <= Capacity(name)
       /\ \A k \in Keys(name) : entries[name][k].tokens <= Full(name)
  /\ calls \in [Threads -> [source : Sources \union {Nil},
                            identifier : Identifiers \union {Nil}, now : 0..clock]]
  /\ clock \in 0..MaxClock

\* The tables are bounded, and so is what a key is granted: it never exceeds its
\* burst and what the time refills, by more than its calls waited for the lock.
\* Neither the removal of entries for want of room or use, nor calls that come out
\* of order, give it a new burst.
RateBounded ==
  TypeOK /\ \A name \in Tables : \A k \in Keys(name) : OwedAt(name, k) + late[k] >= 0

\* "Retry-After": a key that was refused is granted a token when it comes again
\* after the delay, if nobody else came meanwhile.
RetryAfterSuffices ==
  denied # Granted /\ clock >= denied.at + denied.delay =>
    \A result \in CheckAt(denied.table, denied.key, clock) : result.granted
=============================================================================
