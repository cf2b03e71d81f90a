------------------------- MODULE TokenBucketsProofs --------------------------
(***************************************************************************)
(* Proofs about TokenBuckets, for any keys, limits, capacities and calls:  *)
(* the tables keep their bounds, no key is granted more than its rate, and *)
(* a client that comes again after the delay it was told is granted.       *)
(*                                                                         *)
(* A bucket that is not in its table counts as full (Value).  The rate is  *)
(* kept because no key's value exceeds what an exact bucket without limit  *)
(* of the table would hold by more than its calls waited for the lock      *)
(* (Covered); the delay suffices because, from the refusal on, the table   *)
(* shows that the wait ends in time (Waits).                               *)
(***************************************************************************)
EXTENDS TokenBuckets, FiniteSetTheorems, WellFoundedInduction, TLAPS

-----------------------------------------------------------------------------
(* Numbers.                                                                *)

\* Of finite initial segments of Nat, one has no other below it.
LEMMA LeastExists ==
  ASSUME NEW S \in SUBSET Nat, S # {}
  PROVE  \E x \in S : \A y \in S : x <= y
<1> DEFINE upTo == {0..x : x \in S}
<1>1. upTo # {}
  OBVIOUS
<1>2. upTo \subseteq FiniteSubsetsOf(Nat)
  <2>1. ASSUME NEW x \in S PROVE IsFiniteSet(0..x) /\ 0..x \subseteq Nat
    BY FS_Interval
  <2> QED BY <2>1 DEF FiniteSubsetsOf
<1>3. PICK A \in upTo : \A B \in upTo : ~(<<B, A>> \in StrictSubsetOrdering(Nat))
  <2>1. IsWellFoundedOn(StrictSubsetOrdering(Nat), FiniteSubsetsOf(Nat))
    BY FS_StrictSubsetOrderingWellFounded
  <2> HIDE DEF upTo
  <2> QED BY <1>1, <1>2, <2>1, WFMin
<1>4. PICK x \in S : A = 0..x
  BY <1>3
<1>5. ASSUME NEW y \in S PROVE x <= y
  <2> SUFFICES ASSUME y < x PROVE FALSE
    OBVIOUS
  <2>1. 0..y \in upTo
    OBVIOUS
  <2>2. 0..y \subseteq 0..x
    OBVIOUS
  <2>3. x \in 0..x /\ x \notin 0..y
    OBVIOUS
  <2>4. 0..y # 0..x
    BY <2>3
  <2>5. <<0..y, 0..x>> \in StrictSubsetOrdering(Nat)
    BY <2>2, <2>4 DEF StrictSubsetOrdering
  <2> QED BY <1>3, <1>4, <2>1, <2>5
<1> QED BY <1>5

LEMMA Products ==
  ASSUME NEW a \in Nat \ {0}, NEW b \in Nat \ {0}
  PROVE  a * b \in Nat \ {0} /\ a * b >= b
OBVIOUS

LEMMA Policies ==
  ASSUME NEW name \in Tables
  PROVE  /\ Refill(name) \in Nat \ {0} /\ Full(name) \in Nat \ {0}
         /\ Full(name) >= Refill(name)
         /\ Capacity(name) \in Nat \ {0}
         /\ EntryTTL \in Nat /\ EntryTTL >= Full(name)
<1>1. {Burst(name), Refill(name), Capacity(name)} \subseteq Nat \ {0}
  BY PolicyAssumption
<1>2. Full(name) \in Nat \ {0} /\ Full(name) >= Refill(name)
  BY <1>1, Products DEF Full
<1>3. EntryTTL \in Nat /\ EntryTTL >= Full(name)
  BY PolicyAssumption
<1> QED BY <1>1, <1>2, <1>3

\* A bucket as time goes by.
LEMMA TokensGrow ==
  ASSUME NEW name \in Tables, NEW b \in Bucket, b.tokens <= Full(name), NEW now \in Nat
  PROVE  /\ TokensAt(name, b, now) \in Nat
         /\ TokensAt(name, b, now) <= Full(name) /\ TokensAt(name, b, now) >= b.tokens
         /\ now < b.seen => TokensAt(name, b, now) = b.tokens
         /\ now >= b.seen =>
              TokensAt(name, b, now) = Lesser(Full(name), b.tokens + (now - b.seen))
         /\ Elapsed(b.seen, now) >= EntryTTL => TokensAt(name, b, now) = Full(name)
<1>1. b.tokens \in Nat /\ b.seen \in Nat
  BY PolicyAssumption DEF Bucket
<1>2. Elapsed(b.seen, now) = IF now > b.seen THEN now - b.seen ELSE 0
  BY DEF Elapsed
<1>3. TokensAt(name, b, now) = Lesser(Full(name), b.tokens + Elapsed(b.seen, now))
  BY DEF TokensAt
<1> QED BY <1>1, <1>2, <1>3, Policies DEF Lesser
-----------------------------------------------------------------------------
(* Tables.                                                                 *)

Table(name, table) ==
  /\ table \in [Keys(name) -> Bucket \union {NoBucket}]
  /\ \A k \in Keys(name) : table[k].tokens <= Full(name)
  /\ IsFiniteSet(Present(table)) /\ Cardinality(Present(table)) <= Capacity(name)

Value(name, table, k, now) ==
  IF table[k] = NoBucket THEN Full(name) ELSE TokensAt(name, table[k], now)

\* Without some buckets, that are full.
Thinned(name, table, rest, now) ==
  /\ rest \in [Keys(name) -> Bucket \union {NoBucket}]
  /\ \A k \in Keys(name) :
       rest[k] = table[k] \/ (rest[k] = NoBucket /\ Value(name, table, k, now) = Full(name))

LEMMA NoBucketIsNone == NoBucket \notin Bucket /\ NoBucket.tokens = 0
BY KeysAssumption, PolicyAssumption DEF NoBucket, Bucket

LEMMA ThinnedIsTable ==
  ASSUME NEW name \in Tables, NEW table, Table(name, table), NEW now, NEW rest,
         Thinned(name, table, rest, now)
  PROVE  /\ Table(name, rest)
         /\ Present(rest) \subseteq Present(table)
         /\ \A k \in Keys(name) : Value(name, rest, k, now) = Value(name, table, k, now)
<1>1. DOMAIN rest = Keys(name) /\ DOMAIN table = Keys(name)
  BY DEF Table, Thinned
<1>2. Present(rest) \subseteq Present(table)
  BY <1>1 DEF Present, Thinned
<1>3. IsFiniteSet(Present(table)) /\ Cardinality(Present(table)) <= Capacity(name)
  BY DEF Table
<1>4. IsFiniteSet(Present(rest)) /\ Cardinality(Present(rest)) <= Cardinality(Present(table))
  BY <1>2, <1>3, FS_Subset
<1>5. Cardinality(Present(rest)) <= Capacity(name)
  BY <1>3, <1>4, FS_CardinalityType, Policies
<1>6. ASSUME NEW k \in Keys(name) PROVE rest[k].tokens <= Full(name)
  BY NoBucketIsNone, Policies DEF Thinned, Table
<1>7. \A k \in Keys(name) : Value(name, rest, k, now) = Value(name, table, k, now)
  BY DEF Value, Thinned
<1> QED BY <1>2, <1>4, <1>5, <1>6, <1>7 DEF Table, Thinned

LEMMA ThinnedTwice ==
  ASSUME NEW name \in Tables, NEW table, NEW rest, NEW last, NEW now,
         Thinned(name, table, rest, now), Thinned(name, rest, last, now)
  PROVE  Thinned(name, table, last, now)
BY DEF Thinned, Value

LEMMA RetainedThins ==
  ASSUME NEW name \in Tables, NEW table, Table(name, table), NEW now \in Nat
  PROVE  Thinned(name, table, Retained(table, now), now)
<1> DEFINE rest == Retained(table, now)
<1>1. rest = [k \in Keys(name) |->
                IF table[k] # NoBucket /\ Elapsed(table[k].seen, now) < EntryTTL
                  THEN table[k] ELSE NoBucket]
  BY DEF Retained, Table
<1>2. rest \in [Keys(name) -> Bucket \union {NoBucket}]
  BY <1>1 DEF Table
<1>3. ASSUME NEW k \in Keys(name), rest[k] # table[k]
      PROVE  rest[k] = NoBucket /\ Value(name, table, k, now) = Full(name)
  <2>1. /\ rest[k] = NoBucket /\ table[k] \in Bucket /\ table[k] # NoBucket
        /\ ~(Elapsed(table[k].seen, now) < EntryTTL)
    BY <1>1, <1>3 DEF Table
  <2>2. Elapsed(table[k].seen, now) \in Nat
    BY <2>1, PolicyAssumption DEF Elapsed, Bucket
  <2>3. Elapsed(table[k].seen, now) >= EntryTTL
    BY <2>1, <2>2, Policies
  <2>4. table[k].tokens <= Full(name)
    BY DEF Table
  <2>5. TokensAt(name, table[k], now) = Full(name)
    BY <2>1, <2>3, <2>4, TokensGrow
  <2> QED BY <2>1, <2>5 DEF Value
<1> HIDE DEF rest
<1>4. Thinned(name, table, rest, now)
  BY <1>2, <1>3 DEF Thinned
<1> QED BY <1>4 DEF rest

\* A full bucket, when there is one, makes room.
LEMMA RoomIsMade ==
  ASSUME NEW name \in Tables, NEW table, Table(name, table), NEW now \in Nat,
         NEW rest \in WithRoom(name, table, now)
  PROVE  Thinned(name, table, rest, now) /\ Cardinality(Present(rest)) < Capacity(name)
<1>1. /\ DOMAIN table = Keys(name) /\ table \in [Keys(name) -> Bucket \union {NoBucket}]
      /\ IsFiniteSet(Present(table)) /\ Cardinality(Present(table)) \in Nat
      /\ Cardinality(Present(table)) <= Capacity(name)
  BY FS_CardinalityType DEF Table
<1>2. CASE HasRoom(name, table)
  <2>1. rest = table
    BY <1>2 DEF WithRoom
  <2> QED BY <1>1, <1>2, <2>1 DEF HasRoom, Thinned
<1>3. CASE ~HasRoom(name, table)
  <2>1. PICK k \in Eldest(table, Evictable(name, table, now)) : rest = [table EXCEPT ![k] = NoBucket]
    BY <1>3 DEF WithRoom
  <2>2. k \in Present(table) /\ TokensAt(name, table[k], now) = Full(name)
    BY DEF Eldest, Evictable
  <2>3. k \in Keys(name) /\ table[k] # NoBucket
    BY <1>1, <2>2 DEF Present
  <2>4. /\ DOMAIN rest = Keys(name) /\ rest[k] = NoBucket
        /\ \A j \in Keys(name) : j # k => rest[j] = table[j]
    BY <1>1, <2>1, <2>3
  <2>5. Thinned(name, table, rest, now)
    BY <1>1, <2>1, <2>2, <2>3, <2>4 DEF Thinned, Value
  <2>6. Present(rest) = Present(table) \ {k}
    BY <1>1, <2>3, <2>4 DEF Present
  <2>7. Cardinality(Present(rest)) = Cardinality(Present(table)) - 1
    BY <1>1, <2>2, <2>6, FS_RemoveElement
  <2> QED BY <1>1, <2>5, <2>7, Policies
<1> QED BY <1>2, <1>3

\* A bucket put into a table with room, or where one was.
LEMMA BucketPut ==
  ASSUME NEW name \in Tables, NEW table, Table(name, table), NEW k \in Keys(name),
         table[k] # NoBucket \/ Cardinality(Present(table)) < Capacity(name),
         NEW b \in Bucket, b.tokens <= Full(name)
  PROVE  Table(name, [table EXCEPT ![k] = b])
<1> DEFINE new == [table EXCEPT ![k] = b]
<1>1. /\ DOMAIN table = Keys(name) /\ table \in [Keys(name) -> Bucket \union {NoBucket}]
      /\ IsFiniteSet(Present(table)) /\ Cardinality(Present(table)) \in Nat
      /\ Cardinality(Present(table)) <= Capacity(name)
      /\ \A j \in Keys(name) : table[j].tokens <= Full(name)
  BY FS_CardinalityType DEF Table
<1>2. /\ new \in [Keys(name) -> Bucket \union {NoBucket}] /\ new[k] = b
      /\ \A j \in Keys(name) : j # k => new[j] = table[j]
  BY <1>1
<1> HIDE DEF new
<1>3. b # NoBucket
  BY NoBucketIsNone
<1>4. Present(new) = Present(table) \union {k} /\ DOMAIN new = Keys(name)
  BY <1>1, <1>2, <1>3 DEF Present
<1>5. /\ IsFiniteSet(Present(table) \union {k})
      /\ Cardinality(Present(table) \union {k}) =
           IF k \in Present(table) THEN Cardinality(Present(table))
           ELSE Cardinality(Present(table)) + 1
  BY <1>1, FS_AddElement
<1>6. k \in Present(table) <=> table[k] # NoBucket
  BY <1>1 DEF Present
<1>7. IsFiniteSet(Present(new)) /\ Cardinality(Present(new)) <= Capacity(name)
  BY <1>1, <1>4, <1>5, <1>6, Policies
<1>8. Table(name, new)
  BY <1>1, <1>2, <1>7 DEF Table
<1> QED BY <1>8 DEF new
-----------------------------------------------------------------------------
(* What a check does.                                                      *)

\* A token is spent, or is not there yet.
Spent(name, value, k, now, result) ==
  /\ result.granted \in BOOLEAN
  /\ result.granted <=> value >= Refill(name)
  /\ result.table[k] = [tokens |-> IF result.granted THEN value - Refill(name) ELSE value,
                        seen |-> now]
  /\ ~result.granted => result.delay = Refill(name) - value

\* There is no bucket and no room for one.
NoRoom(name, k, now, result) ==
  /\ result.granted = FALSE
  /\ result.table[k] = NoBucket
  /\ WithRoom(name, result.table, now) = {}
  /\ \E j \in Present(result.table) :
       result.delay = Full(name) - TokensAt(name, result.table[j], now)

LEMMA Spending ==
  ASSUME NEW name \in Tables, NEW table, Table(name, table), NEW k \in Keys(name),
         NEW now \in 0..MaxClock, table[k] # NoBucket
  PROVE  LET result == Spend(name, table, k, now) IN
         /\ Table(name, result.table)
         /\ \A j \in Keys(name) : j # k => result.table[j] = table[j]
         /\ Spent(name, TokensAt(name, table[k], now), k, now, result)
<1> DEFINE value == TokensAt(name, table[k], now)
           left == [tokens |-> IF value < Refill(name) THEN value ELSE value - Refill(name),
                    seen |-> now]
           result == Spend(name, table, k, now)
<1>1. table[k] \in Bucket /\ table[k].tokens <= Full(name) /\ now \in Nat
  BY PolicyAssumption DEF Table
<1>2. value \in Nat /\ value <= Full(name)
  BY <1>1, TokensGrow
<1>3. /\ value < Refill(name) => result.granted = FALSE /\ result.delay = Refill(name) - value
      /\ ~(value < Refill(name)) => result.granted = TRUE
      /\ result.table = [table EXCEPT ![k] = left]
  BY DEF Spend
<1> HIDE DEF value, result
<1>4. left \in Bucket /\ left.tokens <= Full(name)
  BY <1>2, Policies DEF Bucket
<1>5. Table(name, result.table)
  <2> HIDE DEF left
  <2> QED BY <1>3, <1>4, BucketPut
<1>6. result.table[k] = left /\ \A j \in Keys(name) : j # k => result.table[j] = table[j]
  <2>1. DOMAIN table = Keys(name)
    BY DEF Table
  <2> QED BY <1>3, <2>1
<1>7. Spent(name, value, k, now, result)
  <2>1. CASE value < Refill(name)
    <3>1. ~(value >= Refill(name)) /\ left = [tokens |-> value, seen |-> now]
      BY <1>2, <2>1, Policies
    <3>2. result.granted = FALSE /\ result.delay = Refill(name) - value /\ result.table[k] = left
      BY <1>3, <1>6, <2>1
    <3> HIDE DEF left
    <3> QED BY <3>1, <3>2, Zenon DEF Spent
  <2>2. CASE ~(value < Refill(name))
    <3>1. value >= Refill(name) /\ left = [tokens |-> value - Refill(name), seen |-> now]
      BY <1>2, <2>2, Policies
    <3>2. result.granted = TRUE /\ result.table[k] = left
      BY <1>3, <1>6, <2>2
    <3> HIDE DEF left
    <3> QED BY <3>1, <3>2, Zenon DEF Spent
  <2> QED BY <2>1, <2>2
<1> QED BY <1>5, <1>6, <1>7 DEF value, result

LEMMA UntilRoom ==
  ASSUME NEW name \in Tables, NEW table, Table(name, table), NEW now \in Nat,
         WithRoom(name, table, now) = {}
  PROVE  \E j \in Present(table) :
           UntilOneIsFull(name, table, now) = Full(name) - TokensAt(name, table[j], now)
<1> DEFINE waits == {Full(name) - TokensAt(name, table[j], now) : j \in Present(table)}
<1>1. ~HasRoom(name, table)
  BY DEF WithRoom
<1>2. Present(table) # {}
  <2> SUFFICES ASSUME Present(table) = {} PROVE FALSE
    OBVIOUS
  <2>1. Cardinality(Present(table)) = 0
    BY FS_EmptySet, Zenon
  <2> QED BY <1>1, <2>1, Policies DEF HasRoom
<1>3. ASSUME NEW j \in Present(table) PROVE Full(name) - TokensAt(name, table[j], now) \in Nat
  <2>1. table[j] \in Bucket /\ table[j].tokens <= Full(name)
    BY DEF Present, Table
  <2> QED BY <2>1, TokensGrow, Policies
<1>4. waits \in SUBSET Nat /\ waits # {}
  BY <1>2, <1>3
<1> HIDE DEF waits
<1>5. \E x \in waits : \A y \in waits : x <= y
  BY <1>4, LeastExists
<1>6. Least(waits) \in waits
  BY <1>5 DEF Least
<1> QED BY <1>6 DEF UntilOneIsFull, waits

\* A check of a key leaves the other keys' values as they are.
LEMMA Outcome ==
  ASSUME NEW name \in Tables, NEW k \in Keys(name), NEW now \in 0..MaxClock,
         Table(name, entries[name]), NEW result \in CheckAt(name, k, now)
  PROVE  LET table == entries[name] IN
         /\ Table(name, result.table)
         /\ \A j \in Keys(name) : j # k =>
              \/ result.table[j] = table[j]
              \/ result.table[j] = NoBucket /\ Value(name, table, j, now) = Full(name)
         /\ \/ Spent(name, Value(name, table, k, now), k, now, result)
            \/ NoRoom(name, k, now, result) /\ Value(name, table, k, now) = Full(name)
<1> DEFINE table == entries[name]
           kept == Retained(table, now)
           new == [tokens |-> Full(name), seen |-> now]
<1>0. now \in Nat /\ Table(name, table)
  BY PolicyAssumption
<1>1. result \in IF kept[k] # NoBucket THEN {Spend(name, kept, k, now)}
                 ELSE IF WithRoom(name, kept, now) = {}
                   THEN {[table |-> kept, granted |-> FALSE, delay |-> UntilOneIsFull(name, kept, now)]}
                 ELSE {Spend(name, [rest EXCEPT ![k] = new], k, now) : rest \in WithRoom(name, kept, now)}
  BY DEF CheckAt
<1> HIDE DEF table
<1>2. Thinned(name, table, kept, now)
  BY <1>0, RetainedThins
<1> HIDE DEF kept
<1>3. Table(name, kept) /\ \A j \in Keys(name) : Value(name, kept, j, now) = Value(name, table, j, now)
  BY <1>0, <1>2, ThinnedIsTable
<1>4. CASE kept[k] # NoBucket
  <2>1. result = Spend(name, kept, k, now)
    BY <1>1, <1>4
  <2>2. /\ Table(name, result.table)
        /\ \A j \in Keys(name) : j # k => result.table[j] = kept[j]
        /\ Spent(name, TokensAt(name, kept[k], now), k, now, result)
    BY <1>3, <1>4, <2>1, Spending
  <2>3. TokensAt(name, kept[k], now) = Value(name, table, k, now)
    BY <1>3, <1>4 DEF Value
  <2> QED BY <1>2, <2>2, <2>3 DEF Thinned, table
<1>5. CASE kept[k] = NoBucket /\ WithRoom(name, kept, now) = {}
  <2>1. result = [table |-> kept, granted |-> FALSE, delay |-> UntilOneIsFull(name, kept, now)]
    BY <1>1, <1>5
  <2>2. result.table = kept /\ result.granted = FALSE
        /\ result.delay = UntilOneIsFull(name, kept, now)
    BY <2>1
  <2>3. NoRoom(name, k, now, result)
    BY <1>0, <1>3, <1>5, <2>2, UntilRoom DEF NoRoom
  <2>4. Value(name, table, k, now) = Full(name)
    BY <1>3, <1>5 DEF Value
  <2> QED BY <1>2, <1>3, <2>2, <2>3, <2>4 DEF Thinned, table
<1>6. CASE kept[k] = NoBucket /\ WithRoom(name, kept, now) # {}
  <2>1. PICK rest \in WithRoom(name, kept, now) :
          result = Spend(name, [rest EXCEPT ![k] = new], k, now)
    BY <1>1, <1>6
  <2>2. Thinned(name, kept, rest, now) /\ Cardinality(Present(rest)) < Capacity(name)
    BY <1>0, <1>3, RoomIsMade
  <2>3. Thinned(name, table, rest, now) /\ Table(name, rest)
    BY <1>2, <1>3, <2>2, ThinnedTwice, ThinnedIsTable
  <2>4. new \in Bucket /\ new.tokens <= Full(name) /\ new # NoBucket
    BY Policies, NoBucketIsNone DEF Bucket
  <2>5. TokensAt(name, new, now) = Full(name)
    BY <1>0, <2>4, TokensGrow, Policies DEF Lesser
  <2> DEFINE put == [rest EXCEPT ![k] = new]
  <2>6. put[k] = new /\ \A j \in Keys(name) : j # k => put[j] = rest[j]
    <3>1. DOMAIN rest = Keys(name)
      BY <2>3 DEF Table
    <3> QED BY <3>1
  <2>7. Table(name, put)
    <3> HIDE DEF new
    <3> QED BY <2>2, <2>3, <2>4, BucketPut
  <2> HIDE DEF put, new
  <2>8. /\ Table(name, result.table)
        /\ \A j \in Keys(name) : j # k => result.table[j] = put[j]
        /\ Spent(name, TokensAt(name, put[k], now), k, now, result)
    <3>1. result = Spend(name, put, k, now)
      BY <2>1 DEF put
    <3> QED BY <2>4, <2>6, <2>7, <3>1, Spending
  <2>9. Value(name, table, k, now) = Full(name)
    BY <1>3, <1>6 DEF Value
  <2> QED BY <2>3, <2>5, <2>6, <2>8, <2>9 DEF Thinned, table
<1> QED BY <1>4, <1>5, <1>6
LEMMA NoneIsFull ==
  ASSUME NEW name \in Tables, NEW table, Table(name, table), NEW now \in Nat,
         WithRoom(name, table, now) = {}
  PROVE  /\ ~(Cardinality(Present(table)) < Capacity(name))
         /\ \A j \in Present(table) : TokensAt(name, table[j], now) # Full(name)
<1> DEFINE full == Evictable(name, table, now)
           times == {table[k].seen : k \in full}
<1>1. ~HasRoom(name, table)
  BY DEF WithRoom
<1>2. Eldest(table, full) = {}
  BY <1>1 DEF WithRoom
<1>3. \A k \in full : table[k].seen \in Nat
  BY PolicyAssumption DEF Evictable, Present, Table, Bucket
<1>4. full = {}
  <2> SUFFICES ASSUME full # {} PROVE FALSE
    OBVIOUS
  <2>1. times \in SUBSET Nat /\ times # {}
    BY <1>3
  <2>2. PICK t \in times : \A u \in times : t <= u
    <3> HIDE DEF times
    <3> QED BY <2>1, LeastExists
  <2>3. PICK k \in full : t = table[k].seen
    OBVIOUS
  <2>4. k \in Eldest(table, full)
    BY <2>2, <2>3 DEF Eldest
  <2> QED BY <1>2, <2>4
<1> QED BY <1>1, <1>4 DEF HasRoom, Evictable

LEMMA TokensMonotone ==
  ASSUME NEW name \in Tables, NEW b \in Bucket, b.tokens <= Full(name),
         NEW t \in Nat, NEW u \in Nat, t <= u
  PROVE  TokensAt(name, b, t) <= TokensAt(name, b, u)
<1>1. b.seen \in Nat /\ b.tokens \in Nat
  BY PolicyAssumption DEF Bucket
<1> QED BY <1>1, TokensGrow, Policies DEF Lesser

LEMMA ValueGrows ==
  ASSUME NEW name \in Tables, NEW table, Table(name, table), NEW k \in Keys(name),
         NEW t \in Nat, NEW u \in Nat, t <= u
  PROVE  /\ Value(name, table, k, t) \in Nat /\ Value(name, table, k, u) \in Nat
         /\ Value(name, table, k, t) <= Value(name, table, k, u)
         /\ Value(name, table, k, u) <= Full(name)
<1>1. CASE table[k] = NoBucket
  BY <1>1, Policies DEF Value
<1>2. CASE table[k] # NoBucket
  <2>1. table[k] \in Bucket /\ table[k].tokens <= Full(name)
    BY <1>2 DEF Table
  <2> QED BY <1>2, <2>1, TokensMonotone, TokensGrow DEF Value
<1> QED BY <1>1, <1>2

-----------------------------------------------------------------------------
(* The invariant.                                                          *)

Types ==
  /\ entries = [name \in Tables |-> entries[name]]
  /\ \A name \in Tables : Table(name, entries[name])
  /\ \A name \in Tables : \A k \in Keys(name) :
       entries[name][k] # NoBucket => entries[name][k].seen <= clock
  /\ calls \in [Threads -> [source : Sources \union {Nil},
                            identifier : Identifiers \union {Nil}, now : 0..clock]]
  /\ \A t \in Threads :
       calls[t] # Idle => calls[t].source \in Sources /\ calls[t].identifier \in Identifiers
  /\ clock \in 0..MaxClock
  /\ owed \in [AllKeys -> [tokens : Int, at : 0..clock]]
  /\ late \in [AllKeys -> Nat]

Covered ==
  \A name \in Tables : \A k \in Keys(name) :
    Value(name, entries[name], k, clock) <= OwedAt(name, k) + late[k]

\* From the time a refusal names on, the key's bucket has a token, or there is a
\* full bucket to drop.
Ready(name, table, k, time) ==
  IF table[k] # NoBucket THEN TokensAt(name, table[k], time) >= Refill(name)
  ELSE \E j \in Present(table) : TokensAt(name, table[j], time) = Full(name)

Waits ==
  denied # Granted =>
    /\ denied.table \in Tables /\ denied.key \in Keys(denied.table)
    /\ denied.at \in 0..clock /\ denied.delay \in Nat
    /\ Ready(denied.table, entries[denied.table], denied.key, denied.at + denied.delay)

Inv == Types /\ Covered /\ Waits

-----------------------------------------------------------------------------
(* One check, whenever its time was read.                                  *)

LEMMA CheckCovered ==
  ASSUME Types, NEW name \in Tables, NEW k \in Keys(name), NEW now \in 0..clock,
         NEW result \in CheckAt(name, k, now), NEW held \in Int,
         Value(name, entries[name], k, clock) <= held
  PROVE  /\ Table(name, result.table) /\ result.granted \in BOOLEAN
         /\ \A j \in Keys(name) : result.table[j] # NoBucket => result.table[j].seen <= clock
         /\ \A j \in Keys(name) : j # k =>
              Value(name, result.table, j, clock) = Value(name, entries[name], j, clock)
         /\ Value(name, result.table, k, clock)
              <= held - (IF result.granted THEN Refill(name) ELSE 0) + (clock - now)
<1> DEFINE table == entries[name]
<1>1. /\ now \in 0..MaxClock /\ now \in Nat /\ clock \in Nat /\ clock \in 0..MaxClock
      /\ now <= clock /\ Table(name, table)
  BY PolicyAssumption DEF Types
<1>2. /\ Table(name, result.table)
      /\ \A j \in Keys(name) : j # k =>
           \/ result.table[j] = table[j]
           \/ result.table[j] = NoBucket /\ Value(name, table, j, now) = Full(name)
      /\ \/ Spent(name, Value(name, table, k, now), k, now, result)
         \/ NoRoom(name, k, now, result) /\ Value(name, table, k, now) = Full(name)
  BY <1>1, Outcome
<1>3. \A j \in Keys(name) : table[j] # NoBucket => table[j].seen <= clock
  BY DEF Types
<1> HIDE DEF table
<1>4. \A j \in Keys(name) :
        /\ Value(name, table, j, now) \in Nat /\ Value(name, table, j, clock) \in Nat
        /\ Value(name, table, j, now) <= Value(name, table, j, clock)
        /\ Value(name, table, j, clock) <= Full(name)
  BY <1>1, ValueGrows
<1>5. Value(name, table, k, clock) <= held
  BY DEF table
<1>6. ASSUME NEW j \in Keys(name), j # k
      PROVE  Value(name, result.table, j, clock) = Value(name, table, j, clock)
  <2>1. CASE result.table[j] = table[j]
    BY <2>1 DEF Value
  <2>2. CASE result.table[j] = NoBucket /\ Value(name, table, j, now) = Full(name)
    <3>1. Value(name, table, j, clock) = Full(name)
      BY <1>4, <2>2, Policies
    <3> QED BY <2>2, <3>1 DEF Value
  <2> QED BY <1>2, <1>6, <2>1, <2>2
<1>7. CASE Spent(name, Value(name, table, k, now), k, now, result)
  <2> DEFINE b == result.table[k]
  <2>1. /\ result.granted \in BOOLEAN /\ b.seen = now
        /\ b.tokens = IF result.granted THEN Value(name, table, k, now) - Refill(name)
                                        ELSE Value(name, table, k, now)
    BY <1>7 DEF Spent
  <2>2. b # NoBucket
    BY <1>1, <2>1, KeysAssumption DEF NoBucket
  <2>3. b \in Bucket /\ b.tokens <= Full(name) /\ b.tokens \in Nat
    BY <1>2, <2>2 DEF Table, Bucket
  <2>4. TokensAt(name, b, clock) = Lesser(Full(name), b.tokens + (clock - now))
    BY <1>1, <2>1, <2>3, TokensGrow
  <2>5. Value(name, result.table, k, clock) = TokensAt(name, b, clock)
    BY <2>2 DEF Value
  <2>6. b.seen <= clock
    BY <1>1, <2>1
  <2> HIDE DEF b
  <2>7. TokensAt(name, b, clock) <= b.tokens + (clock - now)
    BY <1>1, <2>3, <2>4, Policies DEF Lesser
  <2>8. b.tokens <= held - (IF result.granted THEN Refill(name) ELSE 0)
    BY <1>4, <1>5, <2>1, Policies
  <2>9. TokensAt(name, b, clock) \in Nat
    BY <1>1, <2>3, TokensGrow
  <2>10. Value(name, result.table, k, clock)
           <= held - (IF result.granted THEN Refill(name) ELSE 0) + (clock - now)
    BY <1>1, <2>1, <2>3, <2>5, <2>7, <2>8, <2>9, Policies
  <2>11. \A j \in Keys(name) : result.table[j] # NoBucket => result.table[j].seen <= clock
    BY <1>2, <1>3, <2>6 DEF b
  <2> QED BY <1>2, <1>6, <2>1, <2>10, <2>11 DEF table
<1>8. CASE NoRoom(name, k, now, result) /\ Value(name, table, k, now) = Full(name)
  <2>1. result.granted = FALSE /\ result.table[k] = NoBucket
    BY <1>8 DEF NoRoom
  <2>2. Value(name, result.table, k, clock) = Full(name)
    BY <2>1 DEF Value
  <2>3. Full(name) <= held
    BY <1>4, <1>5, <1>8, Policies
  <2>4. Value(name, result.table, k, clock) <= held + (clock - now)
    BY <1>1, <2>2, <2>3, Policies
  <2>5. held - (IF result.granted THEN Refill(name) ELSE 0) + (clock - now) = held + (clock - now)
    BY <1>1, <2>1
  <2>6. \A j \in Keys(name) : result.table[j] # NoBucket => result.table[j].seen <= clock
    BY <1>2, <1>3, <2>1
  <2> QED BY <1>2, <1>6, <2>1, <2>4, <2>5, <2>6 DEF table
<1> QED BY <1>2, <1>7, <1>8
\* A refusal names a time from which the key is ready.
LEMMA CheckWaits ==
  ASSUME Types, NEW name \in Tables, NEW k \in Keys(name), NEW now \in 0..clock,
         NEW result \in CheckAt(name, k, now), result.granted = FALSE
  PROVE  result.delay \in Nat /\ Ready(name, result.table, k, clock + result.delay)
<1>1. /\ now \in 0..MaxClock /\ now \in Nat /\ clock \in Nat /\ now <= clock
      /\ Table(name, entries[name])
  BY PolicyAssumption DEF Types
<1>2. /\ Table(name, result.table)
      /\ \/ Spent(name, Value(name, entries[name], k, now), k, now, result)
         \/ NoRoom(name, k, now, result)
  BY <1>1, Outcome
<1>3. \A j \in Keys(name) : result.table[j] # NoBucket => result.table[j].seen <= clock
  <2>1. Value(name, entries[name], k, clock) \in Nat
    BY <1>1, ValueGrows
  <2>2. Value(name, entries[name], k, clock) <= Value(name, entries[name], k, clock)
    BY <2>1
  <2> QED BY <2>1, <2>2, CheckCovered
<1>4. CASE Spent(name, Value(name, entries[name], k, now), k, now, result)
  <2> DEFINE value == Value(name, entries[name], k, now)
             b == result.table[k]
  <2>1. value \in Nat /\ value <= Full(name)
    BY <1>1, ValueGrows
  <2> HIDE DEF value
  <2>2. /\ ~(value >= Refill(name)) /\ result.delay = Refill(name) - value
        /\ b.tokens = value /\ b.seen = now
    BY <1>4 DEF Spent, value
  <2>3. b # NoBucket
    BY <1>1, <2>2, KeysAssumption DEF NoBucket
  <2>4. b \in Bucket /\ b.tokens <= Full(name)
    BY <1>2, <2>3 DEF Table
  <2> HIDE DEF b
  <2> DEFINE until == clock + result.delay
  <2>5. /\ result.delay \in Nat /\ until \in Nat /\ until >= now
        /\ until - now >= Refill(name) - value
    BY <1>1, <2>1, <2>2, Policies
  <2> HIDE DEF until
  <2>6. TokensAt(name, b, until) = Lesser(Full(name), b.tokens + (until - b.seen))
    BY <2>2, <2>4, <2>5, TokensGrow
  <2>7. TokensAt(name, b, until) >= Refill(name)
    BY <1>1, <2>1, <2>2, <2>5, <2>6, Policies DEF Lesser
  <2> QED BY <2>3, <2>5, <2>7 DEF Ready, b, until
<1>5. CASE NoRoom(name, k, now, result)
  <2>1. result.table[k] = NoBucket
    BY <1>5 DEF NoRoom
  <2>2. PICK j \in Present(result.table) :
          result.delay = Full(name) - TokensAt(name, result.table[j], now)
    BY <1>5 DEF NoRoom
  <2> DEFINE b == result.table[j]
  <2>3. /\ j \in Keys(name) /\ b # NoBucket /\ b \in Bucket /\ b.tokens <= Full(name)
        /\ b.seen <= clock /\ b.tokens \in Nat /\ b.seen \in Nat
    BY <1>2, <1>3, PolicyAssumption DEF Present, Table, Bucket
  <2>4. result.delay = Full(name) - TokensAt(name, b, now)
    BY <2>2
  <2> HIDE DEF b
  <2>5. TokensAt(name, b, now) \in Nat /\ TokensAt(name, b, now) <= Full(name)
    BY <1>1, <2>3, TokensGrow
  <2> DEFINE until == clock + result.delay
  <2>6. /\ result.delay \in Nat /\ until \in Nat /\ until >= b.seen
        /\ until - b.seen = clock - b.seen + result.delay
    BY <1>1, <2>3, <2>4, <2>5, Policies
  <2> HIDE DEF until
  <2>7. TokensAt(name, b, until) = Lesser(Full(name), b.tokens + (until - b.seen))
    BY <2>3, <2>6, TokensGrow
  <2>8. TokensAt(name, b, now) = IF now < b.seen THEN b.tokens
                                 ELSE Lesser(Full(name), b.tokens + (now - b.seen))
    BY <1>1, <2>3, TokensGrow
  <2>9. b.tokens + (until - b.seen) >= Full(name)
    BY <1>1, <2>3, <2>4, <2>5, <2>6, <2>8, Policies DEF Lesser
  <2>10. TokensAt(name, b, until) = Full(name)
    <3> DEFINE sum == b.tokens + (until - b.seen)
    <3>1. sum \in Nat /\ Full(name) \in Nat
      BY <2>3, <2>6, Policies
    <3>2. TokensAt(name, b, until) = Lesser(Full(name), sum) /\ sum >= Full(name)
      BY <2>7, <2>9
    <3> HIDE DEF sum
    <3> QED BY <3>1, <3>2 DEF Lesser
  <2> QED BY <2>1, <2>2, <2>6, <2>10 DEF Ready, b, until
<1> QED BY <1>2, <1>4, <1>5

\* Who comes when it is ready is granted.
LEMMA ReadyIsGranted ==
  ASSUME Types, NEW name \in Tables, NEW k \in Keys(name), NEW time \in Nat, time <= clock,
         Ready(name, entries[name], k, time), NEW result \in CheckAt(name, k, clock)
  PROVE  result.granted
<1> DEFINE table == entries[name]
<1>1. clock \in 0..MaxClock /\ clock \in Nat /\ Table(name, table)
  BY PolicyAssumption DEF Types
<1>2. /\ Table(name, result.table)
      /\ \A j \in Keys(name) : j # k => result.table[j] = table[j] \/ result.table[j] = NoBucket
      /\ \/ Spent(name, Value(name, table, k, clock), k, clock, result)
         \/ NoRoom(name, k, clock, result) /\ Value(name, table, k, clock) = Full(name)
  BY <1>1, Outcome
<1>3. Ready(name, table, k, time)
  OBVIOUS
<1> HIDE DEF table
<1>4. \A j \in Keys(name) : table[j] # NoBucket =>
        /\ TokensAt(name, table[j], time) <= TokensAt(name, table[j], clock)
        /\ TokensAt(name, table[j], time) \in Nat /\ TokensAt(name, table[j], clock) \in Nat
        /\ TokensAt(name, table[j], clock) <= Full(name)
  BY <1>1, TokensMonotone, TokensGrow DEF Table
<1>5. CASE Spent(name, Value(name, table, k, clock), k, clock, result)
  <2>1. Value(name, table, k, clock) >= Refill(name)
    BY <1>3, <1>4, Policies DEF Ready, Value
  <2> QED BY <1>5, <2>1 DEF Spent
<1>6. CASE NoRoom(name, k, clock, result)
  <2>1. /\ ~(Cardinality(Present(result.table)) < Capacity(name))
        /\ \A j \in Present(result.table) : TokensAt(name, result.table[j], clock) # Full(name)
    BY <1>1, <1>2, <1>6, NoneIsFull DEF NoRoom
  <2>2. result.table[k] = NoBucket
    BY <1>6 DEF NoRoom
  <2>3. ASSUME NEW j \in Keys(name), table[j] # NoBucket PROVE result.table[j] # NoBucket
    <3> SUFFICES ASSUME result.table[j] = NoBucket PROVE FALSE
      OBVIOUS
    <3>0. DOMAIN result.table = Keys(name) /\ DOMAIN table = Keys(name)
      BY <1>1, <1>2 DEF Table
    <3>a. \A i \in Keys(name) : result.table[i] # NoBucket => table[i] # NoBucket /\ i # j
      BY <1>2, <2>2
    <3>1. Present(result.table) \subseteq Present(table) \ {j} /\ j \in Present(table)
      BY <2>3, <3>0, <3>a DEF Present
    <3>2. /\ IsFiniteSet(Present(table)) /\ Cardinality(Present(table)) <= Capacity(name)
          /\ Cardinality(Present(table)) \in Nat
      BY <1>1, FS_CardinalityType DEF Table
    <3>3. /\ IsFiniteSet(Present(table) \ {j})
          /\ Cardinality(Present(table) \ {j}) = Cardinality(Present(table)) - 1
      BY <3>1, <3>2, FS_RemoveElement
    <3>4. /\ Cardinality(Present(result.table)) <= Cardinality(Present(table) \ {j})
          /\ Cardinality(Present(result.table)) \in Nat
      BY <3>1, <3>3, FS_Subset, FS_CardinalityType
    <3> QED BY <2>1, <3>2, <3>3, <3>4, Policies
  <2>4. table[k] = NoBucket
    BY <2>2, <2>3
  <2>5. PICK j \in Present(table) : TokensAt(name, table[j], time) = Full(name)
    BY <1>3, <2>4 DEF Ready
  <2>6. j \in Keys(name) /\ table[j] # NoBucket
    BY <1>1 DEF Present, Table
  <2>7. result.table[j] = table[j] /\ j \in Present(result.table)
    BY <1>2, <2>3, <2>4, <2>6 DEF Present, Table
  <2>8. TokensAt(name, table[j], clock) = Full(name)
    BY <1>4, <2>5, <2>6, Policies
  <2> QED BY <2>1, <2>7, <2>8
<1> QED BY <1>2, <1>5, <1>6

LEMMA TableOfKey ==
  ASSUME NEW name \in Tables, NEW k \in Keys(name)
  PROVE  TableOf(k) = name /\ k \in AllKeys
<1>1. \A table \in Tables : k \in Keys(table) => table = name
  BY KeysAssumption
<1>2. TableOf(k) = name
  BY <1>1 DEF TableOf
<1>3. k \in AllKeys
  BY DEF Keys, Of, AllKeys, Tables
<1> QED BY <1>2, <1>3

LEMMA OwedIsInt ==
  ASSUME Types, NEW name \in Tables, NEW k \in Keys(name)
  PROVE  /\ OwedAt(name, k) \in Int /\ OwedAt(name, k) <= Full(name) /\ late[k] \in Nat
         /\ OwedAt(name, k) = Lesser(Full(name), owed[k].tokens + clock - owed[k].at)
         /\ owed[k].tokens \in Int /\ owed[k].at \in 0..clock /\ clock \in Nat
<1>1. k \in AllKeys
  BY TableOfKey
<1>2. owed[k].tokens \in Int /\ owed[k].at \in 0..clock /\ clock \in Nat /\ late[k] \in Nat
  BY <1>1, PolicyAssumption DEF Types
<1> QED BY <1>2, Policies DEF OwedAt, Lesser

\* A key that was checked owes for its token from now on.
LEMMA LentNow ==
  ASSUME Types, NEW name \in Tables, NEW k \in Keys(name), NEW granted \in BOOLEAN,
         owed'[k] = Lent(name, k, granted), clock' = clock
  PROVE  /\ OwedAt(name, k)' = OwedAt(name, k) - (IF granted THEN Refill(name) ELSE 0)
         /\ owed'[k] \in [tokens : Int, at : 0..clock]
<1>1. OwedAt(name, k) \in Int /\ OwedAt(name, k) <= Full(name) /\ clock \in Nat
  BY OwedIsInt
<1>2. /\ owed'[k].tokens = OwedAt(name, k) - (IF granted THEN Refill(name) ELSE 0)
      /\ owed'[k].at = clock
      /\ owed'[k] = [tokens |-> owed'[k].tokens, at |-> owed'[k].at]
  BY DEF Lent
<1>3. OwedAt(name, k)' = Lesser(Full(name), owed'[k].tokens + clock - owed'[k].at)
  BY DEF OwedAt
<1>4. owed'[k].tokens \in Int /\ owed'[k].tokens <= Full(name)
  BY <1>1, <1>2, Policies
<1> QED BY <1>1, <1>2, <1>3, <1>4, Policies DEF Lesser
-----------------------------------------------------------------------------
(* The steps.                                                              *)

LEMMA InvInit == ASSUME Init PROVE Inv
<1>1. clock = 0 /\ clock \in 0..MaxClock /\ denied = Granted
  BY PolicyAssumption DEF Init
<1>2. ASSUME NEW name \in Tables
      PROVE  /\ entries[name] = [k \in Keys(name) |-> NoBucket]
             /\ Table(name, entries[name])
  <2>1. entries[name] = [k \in Keys(name) |-> NoBucket]
    BY DEF Init
  <2>2. Present(entries[name]) = {}
    BY <2>1 DEF Present
  <2>3. IsFiniteSet(Present(entries[name])) /\ Cardinality(Present(entries[name])) = 0
    BY <2>2, FS_EmptySet, Zenon
  <2> QED BY <2>1, <2>3, NoBucketIsNone, Policies DEF Table
<1>3. ASSUME NEW name \in Tables, NEW k \in Keys(name)
      PROVE  Value(name, entries[name], k, clock) <= OwedAt(name, k) + late[k]
  <2>1. TableOf(k) = name /\ k \in AllKeys
    BY TableOfKey
  <2>2. owed[k].tokens = Full(name) /\ owed[k].at = 0 /\ late[k] = 0
    BY <2>1 DEF Init
  <2>3. OwedAt(name, k) = Full(name)
    BY <1>1, <2>2, Policies DEF OwedAt, Lesser
  <2>4. Value(name, entries[name], k, clock) = Full(name)
    BY <1>2 DEF Value
  <2> QED BY <2>2, <2>3, <2>4, Policies
<1>4. owed \in [AllKeys -> [tokens : Int, at : 0..clock]]
  <2>1. ASSUME NEW k \in AllKeys PROVE Full(TableOf(k)) \in Int
    <3>1. PICK name \in Tables : k \in Keys(name)
      BY DEF AllKeys, Keys, Of, Tables
    <3> QED BY <3>1, TableOfKey, Policies
  <2> QED BY <1>1, <2>1 DEF Init
<1>5. calls = [t \in Threads |-> Idle] /\ late = [k \in AllKeys |-> 0]
      /\ entries = [name \in Tables |-> [k \in Keys(name) |-> NoBucket]]
  BY DEF Init
<1>6. Types
  BY <1>1, <1>2, <1>4, <1>5 DEF Types, Idle
<1> QED BY <1>1, <1>3, <1>6 DEF Inv, Covered, Waits

\* Steps that leave the tables alone.
LEMMA TimePasses ==
  ASSUME Inv, UNCHANGED <<entries, denied, owed, late>>, clock' \in {clock, clock + 1},
         clock' \in 0..MaxClock
  PROVE  /\ Covered' /\ Waits'
         /\ \A name \in Tables : Table(name, entries'[name])
         /\ \A name \in Tables : \A k \in Keys(name) :
              entries'[name][k] # NoBucket => entries'[name][k].seen <= clock'
         /\ owed' \in [AllKeys -> [tokens : Int, at : 0..clock']]
<1>1. clock \in Nat /\ clock' \in Nat /\ clock <= clock'
  BY PolicyAssumption DEF Inv, Types
<1>2. \A name \in Tables : Table(name, entries'[name])
  BY DEF Inv, Types
<1>3. ASSUME NEW name \in Tables, NEW k \in Keys(name), entries[name][k] # NoBucket
      PROVE  /\ entries[name][k].seen <= clock /\ entries[name][k].seen <= clock'
             /\ entries[name][k].seen \in Nat /\ entries[name][k].tokens \in Nat
             /\ entries[name][k] \in Bucket /\ entries[name][k].tokens <= Full(name)
  <2>1. entries[name][k] \in Bucket /\ entries[name][k].tokens <= Full(name)
    BY <1>3 DEF Inv, Types, Table
  <2>2. entries[name][k].seen <= clock
    BY <1>3 DEF Inv, Types
  <2> QED BY <1>1, <2>1, <2>2, PolicyAssumption DEF Bucket
<1>4. Covered'
  <2> SUFFICES ASSUME NEW name \in Tables, NEW k \in Keys(name)
               PROVE  Value(name, entries[name], k, clock') <= OwedAt(name, k)' + late[k]
    <3>1. \A name \in Tables : \A k \in Keys(name) :
            Value(name, entries[name], k, clock)' = Value(name, entries[name], k, clock')
      BY DEF Value
    <3> QED BY <3>1 DEF Covered
  <2>1. /\ OwedAt(name, k) = Lesser(Full(name), owed[k].tokens + clock - owed[k].at)
        /\ owed[k].tokens \in Int /\ owed[k].at \in 0..clock /\ late[k] \in Nat
    BY OwedIsInt DEF Inv
  <2>2. OwedAt(name, k)' = Lesser(Full(name), owed[k].tokens + clock' - owed[k].at)
    BY DEF OwedAt
  <2>3. Value(name, entries[name], k, clock) <= OwedAt(name, k) + late[k]
    BY DEF Inv, Covered
  <2>4. CASE entries[name][k] = NoBucket
    <3>1. /\ Value(name, entries[name], k, clock) = Full(name)
          /\ Value(name, entries[name], k, clock') = Full(name)
      BY <2>4 DEF Value
    <3> QED BY <1>1, <2>1, <2>2, <2>3, <3>1, Policies DEF Lesser
  <2>5. CASE entries[name][k] # NoBucket
    <3> DEFINE b == entries[name][k]
    <3>1. /\ b.seen <= clock /\ b.seen <= clock' /\ b.seen \in Nat /\ b.tokens \in Nat
          /\ b \in Bucket /\ b.tokens <= Full(name)
      BY <1>3, <2>5
    <3>2. /\ Value(name, entries[name], k, clock) = TokensAt(name, b, clock)
          /\ Value(name, entries[name], k, clock') = TokensAt(name, b, clock')
      BY <2>5 DEF Value
    <3> HIDE DEF b
    <3>3. /\ TokensAt(name, b, clock) = Lesser(Full(name), b.tokens + (clock - b.seen))
          /\ TokensAt(name, b, clock') = Lesser(Full(name), b.tokens + (clock' - b.seen))
      BY <1>1, <3>1, TokensGrow
    <3> QED BY <1>1, <2>1, <2>2, <2>3, <3>1, <3>2, <3>3, Policies DEF Lesser
  <2> QED BY <2>4, <2>5
<1>5. Waits'
  <2>1. 0..clock \subseteq 0..clock'
    BY <1>1
  <2> QED BY <2>1 DEF Inv, Waits
<1>6. owed' \in [AllKeys -> [tokens : Int, at : 0..clock']]
  <2>1. 0..clock \subseteq 0..clock'
    BY <1>1
  <2> QED BY <2>1 DEF Inv, Types
<1>7. \A name \in Tables : \A k \in Keys(name) :
        entries'[name][k] # NoBucket => entries'[name][k].seen <= clock'
  BY <1>3
<1> QED BY <1>2, <1>4, <1>5, <1>6, <1>7
\* What is asked of one table.
Sound(name) ==
  /\ Table(name, entries[name])
  /\ \A k \in Keys(name) :
       /\ entries[name][k] # NoBucket => entries[name][k].seen <= clock
       /\ Value(name, entries[name], k, clock) <= OwedAt(name, k) + late[k]

LEMMA TableChecked ==
  ASSUME Inv, NEW name \in Tables, NEW k \in Keys(name), NEW now \in 0..clock,
         NEW result \in CheckAt(name, k, now),
         entries'[name] = result.table, clock' = clock,
         owed'[k] = Lent(name, k, result.granted), late'[k] = late[k] + clock - now,
         \A j \in Keys(name) : j # k => owed'[j] = owed[j] /\ late'[j] = late[j]
  PROVE  /\ Sound(name)'
         /\ owed'[k] \in [tokens : Int, at : 0..clock] /\ late'[k] \in Nat
         /\ result.granted \in BOOLEAN
<1>1. /\ OwedAt(name, k) \in Int /\ late[k] \in Nat /\ clock \in Nat /\ now \in Nat /\ now <= clock
  BY OwedIsInt DEF Inv
<1> DEFINE held == OwedAt(name, k) + late[k]
<1>2. held \in Int /\ Value(name, entries[name], k, clock) <= held
  BY <1>1 DEF Inv, Covered
<1>3. /\ Table(name, result.table) /\ result.granted \in BOOLEAN
      /\ \A j \in Keys(name) : result.table[j] # NoBucket => result.table[j].seen <= clock
      /\ \A j \in Keys(name) : j # k =>
           Value(name, result.table, j, clock) = Value(name, entries[name], j, clock)
      /\ Value(name, result.table, k, clock)
           <= held - (IF result.granted THEN Refill(name) ELSE 0) + (clock - now)
  <2> HIDE DEF held
  <2> QED BY <1>2, CheckCovered DEF Inv
<1>4. /\ OwedAt(name, k)' = OwedAt(name, k) - (IF result.granted THEN Refill(name) ELSE 0)
      /\ owed'[k] \in [tokens : Int, at : 0..clock]
  BY <1>3, LentNow DEF Inv
<1>5. \A j \in Keys(name) : Value(name, entries[name], j, clock)' = Value(name, result.table, j, clock)
  BY DEF Value
<1>6. ASSUME NEW j \in Keys(name)
      PROVE  Value(name, result.table, j, clock) <= OwedAt(name, j)' + late'[j]
  <2>1. CASE j # k
    <3>1. OwedAt(name, j)' = OwedAt(name, j)
      BY <2>1 DEF OwedAt
    <3>2. Value(name, entries[name], j, clock) <= OwedAt(name, j) + late[j]
      BY DEF Inv, Covered
    <3> QED BY <1>3, <2>1, <3>1, <3>2
  <2>2. CASE j = k
    <3> DEFINE fee == IF result.granted THEN Refill(name) ELSE 0
    <3>1. fee \in Int
      BY <1>3, Policies
    <3>2. /\ Value(name, result.table, k, clock) <= held - fee + (clock - now)
          /\ OwedAt(name, k)' = OwedAt(name, k) - fee
      BY <1>3, <1>4
    <3> HIDE DEF fee
    <3>3. held - fee + (clock - now) = OwedAt(name, k)' + late'[k]
      BY <1>1, <3>1, <3>2
    <3> QED BY <2>2, <3>2, <3>3
  <2> QED BY <2>1, <2>2
<1>7. late'[k] \in Nat
  BY <1>1
<1>8. Table(name, entries[name])'
  BY <1>3 DEF Table, Present
<1>9. Sound(name)'
  BY <1>3, <1>5, <1>6, <1>8 DEF Sound
<1> QED BY <1>3, <1>4, <1>7, <1>9

LEMMA TableKept ==
  ASSUME Inv, NEW name \in Tables, entries'[name] = entries[name], clock' = clock,
         \A j \in Keys(name) : OwedAt(name, j)' = OwedAt(name, j) /\ late'[j] = late[j]
  PROVE  Sound(name)'
<1>1. \A j \in Keys(name) : Value(name, entries[name], j, clock)' = Value(name, entries[name], j, clock)
  BY DEF Value
<1>2. Table(name, entries[name])'
  BY DEF Inv, Types, Table, Present
<1> QED BY <1>1, <1>2 DEF Sound, Inv, Types, Covered

LEMMA AllowInv ==
  ASSUME Inv, NEW h \in Hosts, Allow(h)
  PROVE  Inv'
<1>1. PICK result \in CheckAt("hosts", h, clock) :
        /\ entries' = [entries EXCEPT !["hosts"] = result.table]
        /\ denied' = IF result.granted THEN Granted ELSE Refused("hosts", h, result)
        /\ owed' = [owed EXCEPT ![h] = Lent("hosts", h, result.granted)]
  BY DEF Allow
<1>2. calls' = calls /\ clock' = clock /\ late' = late
  BY DEF Allow
<1>3. "hosts" \in Tables /\ h \in Keys("hosts") /\ h \in AllKeys
  BY DEF Tables, Keys, Of, AllKeys
<1>4. clock \in 0..clock /\ clock \in Nat /\ late[h] = late[h] + clock - clock
  BY <1>3, OwedIsInt DEF Inv
<1>5. /\ entries = [name \in Tables |-> entries[name]]
      /\ owed \in [AllKeys -> [tokens : Int, at : 0..clock]]
  BY DEF Inv, Types
<1>6. /\ entries'["hosts"] = result.table /\ DOMAIN entries = Tables
      /\ \A name \in Tables : name # "hosts" => entries'[name] = entries[name]
      /\ owed'[h] = Lent("hosts", h, result.granted)
      /\ \A k \in AllKeys : k # h => owed'[k] = owed[k]
  BY <1>1, <1>3, <1>5
<1>7. /\ Sound("hosts")' /\ owed'[h] \in [tokens : Int, at : 0..clock]
      /\ result.granted \in BOOLEAN
  <2>1. \A j \in Keys("hosts") : j \in AllKeys
    BY DEF Keys, Of, AllKeys
  <2> QED BY <1>2, <1>3, <1>4, <1>6, <2>1, TableChecked
<1>8. ASSUME NEW name \in Tables, name # "hosts" PROVE Sound(name)'
  <2>1. ASSUME NEW k \in Keys(name) PROVE OwedAt(name, k)' = OwedAt(name, k) /\ late'[k] = late[k]
    <3>1. k \in AllKeys /\ k # h
      BY <1>3, <1>8, TableOfKey
    <3> QED BY <1>2, <1>6, <3>1 DEF OwedAt
  <2> QED BY <1>2, <1>6, <1>8, <2>1, TableKept
<1>9. \A name \in Tables : Sound(name)'
  BY <1>7, <1>8
<1>10. Types'
  <2>1. /\ \A name \in Tables : Table(name, entries'[name])
        /\ \A name \in Tables : \A k \in Keys(name) :
             entries'[name][k] # NoBucket => entries'[name][k].seen <= clock'
    BY <1>9 DEF Sound, Table, Present
  <2>2. owed' \in [AllKeys -> [tokens : Int, at : 0..clock']]
    BY <1>1, <1>2, <1>5, <1>6, <1>7
  <2>3. entries' = [name \in Tables |-> entries'[name]]
    BY <1>1, <1>5
  <2>4. \A name \in Tables : Table(name, entries[name])'
    BY <2>1 DEF Table, Present
  <2> QED BY <1>2, <2>1, <2>2, <2>3, <2>4 DEF Inv, Types
<1>11. Covered'
  BY <1>9 DEF Sound, Covered
<1>12. Waits'
  <2>1. CASE result.granted
    BY <1>1, <2>1 DEF Waits
  <2>2. CASE ~result.granted
    <3>1. /\ denied'.table = "hosts" /\ denied'.key = h /\ denied'.at = clock
          /\ denied'.delay = result.delay
      BY <1>1, <2>2 DEF Refused
    <3>2. result.delay \in Nat /\ Ready("hosts", result.table, h, clock + result.delay)
      BY <1>3, <1>4, <1>7, <2>2, CheckWaits DEF Inv
    <3>3. Ready("hosts", entries'["hosts"], h, clock + result.delay)
      BY <1>6, <3>2
    <3> QED BY <1>2, <1>3, <1>4, <3>1, <3>2, <3>3 DEF Waits, Ready, Present
  <2> QED BY <2>1, <2>2
<1> QED BY <1>10, <1>11, <1>12 DEF Inv
LEMMA CheckInv ==
  ASSUME Inv, NEW t \in Threads, Check(t)
  PROVE  Inv'
<1> DEFINE src == calls[t].source
           id == calls[t].identifier
           now == calls[t].now
<1>1. /\ src \in Sources /\ id \in Identifiers /\ now \in 0..clock /\ clock \in Nat
      /\ clock \in 0..MaxClock
  BY PolicyAssumption DEF Inv, Types, Check
<1>2. PICK source \in CheckAt("sources", src, now) :
      \E identifier \in
           IF source.granted THEN CheckAt("identifiers", id, now)
           ELSE {[table |-> entries["identifiers"], granted |-> FALSE, delay |-> 0]} :
        LET checked == IF source.granted THEN {src, id} ELSE {src}
        IN /\ entries' = [entries EXCEPT !["sources"] = source.table,
                                         !["identifiers"] = identifier.table]
           /\ denied' =
                IF ~source.granted THEN Refused("sources", src, source)
                ELSE IF ~identifier.granted THEN Refused("identifiers", id, identifier)
                ELSE Granted
           /\ owed' = [k \in AllKeys |->
                IF k = src THEN Lent("sources", k, source.granted)
                ELSE IF k = id THEN Lent("identifiers", k, identifier.granted)
                ELSE owed[k]]
           /\ late' = [k \in AllKeys |->
                IF k \in checked THEN late[k] + clock - now ELSE late[k]]
  BY DEF Check
<1>3. PICK identifier \in
           IF source.granted THEN CheckAt("identifiers", id, now)
           ELSE {[table |-> entries["identifiers"], granted |-> FALSE, delay |-> 0]} :
        LET checked == IF source.granted THEN {src, id} ELSE {src}
        IN /\ entries' = [entries EXCEPT !["sources"] = source.table,
                                         !["identifiers"] = identifier.table]
           /\ denied' =
                IF ~source.granted THEN Refused("sources", src, source)
                ELSE IF ~identifier.granted THEN Refused("identifiers", id, identifier)
                ELSE Granted
           /\ owed' = [k \in AllKeys |->
                IF k = src THEN Lent("sources", k, source.granted)
                ELSE IF k = id THEN Lent("identifiers", k, identifier.granted)
                ELSE owed[k]]
           /\ late' = [k \in AllKeys |->
                IF k \in checked THEN late[k] + clock - now ELSE late[k]]
  BY <1>2
<1>4. clock' = clock /\ calls' = [calls EXCEPT ![t] = Idle]
  BY DEF Check
<1> HIDE DEF src, id, now
<1>5. /\ "sources" \in Tables /\ src \in Keys("sources") /\ src \in AllKeys
      /\ "identifiers" \in Tables /\ id \in Keys("identifiers") /\ id \in AllKeys
  BY <1>1 DEF Tables, Keys, Of, AllKeys
<1>6. src # id
  BY <1>5, KeysAssumption
<1>7. /\ \A name \in Tables : \A k \in Keys(name) :
           /\ k \in AllKeys
           /\ k = src => name = "sources"
           /\ k = id => name = "identifiers"
  BY <1>5, TableOfKey
<1>8. /\ entries = [name \in Tables |-> entries[name]] /\ late \in [AllKeys -> Nat]
      /\ owed \in [AllKeys -> [tokens : Int, at : 0..clock]]
  BY DEF Inv, Types
<1>9. /\ entries'["sources"] = source.table /\ entries'["identifiers"] = identifier.table
      /\ entries'["hosts"] = entries["hosts"]
      /\ entries' = [name \in Tables |-> entries'[name]]
  BY <1>3, <1>8 DEF Tables
<1>10. /\ owed'[src] = Lent("sources", src, source.granted)
       /\ owed'[id] = Lent("identifiers", id, identifier.granted)
       /\ \A k \in AllKeys : k # src /\ k # id => owed'[k] = owed[k] /\ late'[k] = late[k]
       /\ late'[src] = late[src] + clock - now
       /\ late'[id] = IF source.granted THEN late[id] + clock - now ELSE late[id]
  BY <1>3, <1>5, <1>6
<1>11. /\ Sound("sources")' /\ owed'[src] \in [tokens : Int, at : 0..clock]
       /\ late'[src] \in Nat /\ source.granted \in BOOLEAN
  <2>1. \A j \in Keys("sources") : j # src => owed'[j] = owed[j] /\ late'[j] = late[j]
    BY <1>5, <1>7, <1>10
  <2> QED BY <1>1, <1>4, <1>5, <1>9, <1>10, <2>1, TableChecked
<1>12. /\ Sound("identifiers")' /\ owed'[id] \in [tokens : Int, at : 0..clock]
       /\ late'[id] \in Nat /\ identifier.granted \in BOOLEAN
  <2>1. \A j \in Keys("identifiers") : j # id => owed'[j] = owed[j] /\ late'[j] = late[j]
    BY <1>5, <1>7, <1>10
  <2>2. CASE source.granted
    <3>1. identifier \in CheckAt("identifiers", id, now) /\ late'[id] = late[id] + clock - now
      BY <1>3, <1>10, <2>2
    <3> QED BY <1>1, <1>4, <1>5, <1>9, <1>10, <2>1, <3>1, TableChecked
  <2>3. CASE ~source.granted
    <3>1. /\ identifier = [table |-> entries["identifiers"], granted |-> FALSE, delay |-> 0]
          /\ late'[id] = late[id]
      BY <1>3, <1>10, <2>3
    <3>2. /\ identifier.granted = FALSE /\ identifier.table = entries["identifiers"]
          /\ owed'[id] = Lent("identifiers", id, FALSE)
      BY <1>10, <3>1
    <3>3. ASSUME NEW j \in Keys("identifiers"), j = id
          PROVE  /\ OwedAt("identifiers", j)' = OwedAt("identifiers", j)
                 /\ owed'[j] \in [tokens : Int, at : 0..clock]
      <4>1. FALSE \in BOOLEAN /\ Types /\ clock' = clock
        BY <1>4 DEF Inv
      <4>2. owed'[j] = Lent("identifiers", j, FALSE)
        BY <3>2, <3>3
      <4>3. /\ OwedAt("identifiers", j)' =
                 OwedAt("identifiers", j) - (IF FALSE THEN Refill("identifiers") ELSE 0)
            /\ owed'[j] \in [tokens : Int, at : 0..clock]
        BY <1>5, <4>1, <4>2, LentNow
      <4>4. OwedAt("identifiers", j) \in Int
        BY <1>5, <4>1, OwedIsInt
      <4>5. OwedAt("identifiers", j) - (IF FALSE THEN Refill("identifiers") ELSE 0)
              = OwedAt("identifiers", j)
        <5> HIDE DEF OwedAt
        <5> QED BY <4>4
      <4> QED BY <4>3, <4>5
    <3>4. ASSUME NEW j \in Keys("identifiers")
          PROVE  OwedAt("identifiers", j)' = OwedAt("identifiers", j) /\ late'[j] = late[j]
      <4>1. CASE j = id
        BY <3>1, <3>3, <4>1
      <4>2. CASE j # id
        BY <1>4, <2>1, <4>2 DEF OwedAt
      <4> QED BY <4>1, <4>2
    <3>5. owed'[id] \in [tokens : Int, at : 0..clock]
      BY <1>5, <3>3
    <3>6. Sound("identifiers")'
      BY <1>4, <1>5, <1>9, <3>2, <3>4, TableKept
    <3> QED BY <1>5, <1>8, <3>1, <3>2, <3>6, <3>5
  <2> QED BY <1>11, <2>2, <2>3
<1>13. Sound("hosts")'
  <2>1. "hosts" \in Tables
    BY DEF Tables
  <2>2. \A j \in Keys("hosts") : OwedAt("hosts", j)' = OwedAt("hosts", j) /\ late'[j] = late[j]
    BY <1>4, <1>7, <1>10, <2>1 DEF OwedAt
  <2> QED BY <1>4, <1>9, <2>1, <2>2, TableKept
<1>14. \A name \in Tables : Sound(name)'
  BY <1>11, <1>12, <1>13 DEF Tables
<1>15. Types'
  <2>1. /\ \A name \in Tables : Table(name, entries[name])'
        /\ \A name \in Tables : \A k \in Keys(name) :
             entries'[name][k] # NoBucket => entries'[name][k].seen <= clock'
    BY <1>14 DEF Sound
  <2>2. owed' \in [AllKeys -> [tokens : Int, at : 0..clock']] /\ late' \in [AllKeys -> Nat]
    <3>1. \A k \in AllKeys : owed'[k] \in [tokens : Int, at : 0..clock] /\ late'[k] \in Nat
      BY <1>8, <1>10, <1>11, <1>12
    <3>2. /\ owed' = [k \in AllKeys |-> owed'[k]]
          /\ late' = [k \in AllKeys |-> late'[k]]
      BY <1>3
    <3> QED BY <1>4, <3>1, <3>2
  <2>3. /\ calls' \in [Threads -> [source : Sources \union {Nil},
                                   identifier : Identifiers \union {Nil}, now : 0..clock']]
        /\ \A u \in Threads :
             calls'[u] # Idle => calls'[u].source \in Sources /\ calls'[u].identifier \in Identifiers
    BY <1>1, <1>4 DEF Inv, Types, Idle
  <2> QED BY <1>1, <1>4, <1>9, <2>1, <2>2, <2>3 DEF Types
<1>16. Covered'
  BY <1>14 DEF Sound, Covered
<1>17. Waits'
  <2>1. clock \in 0..clock
    BY <1>1
  <2>2. CASE ~source.granted
    <3>1. /\ denied'.table = "sources" /\ denied'.key = src /\ denied'.at = clock
          /\ denied'.delay = source.delay
      BY <1>3, <2>2 DEF Refused
    <3>2. source.delay \in Nat /\ Ready("sources", source.table, src, clock + source.delay)
      BY <1>1, <1>5, <1>11, <2>2, CheckWaits DEF Inv
    <3>3. Ready("sources", entries'["sources"], src, clock + source.delay)
      BY <1>9, <3>2
    <3> QED BY <1>4, <1>5, <2>1, <3>1, <3>2, <3>3 DEF Waits, Ready, Present
  <2>3. CASE source.granted /\ ~identifier.granted
    <3>1. /\ denied'.table = "identifiers" /\ denied'.key = id /\ denied'.at = clock
          /\ denied'.delay = identifier.delay
      BY <1>3, <2>3 DEF Refused
    <3>2. identifier \in CheckAt("identifiers", id, now)
      BY <1>3, <2>3
    <3>3. /\ identifier.delay \in Nat
          /\ Ready("identifiers", identifier.table, id, clock + identifier.delay)
      BY <1>1, <1>5, <1>12, <2>3, <3>2, CheckWaits DEF Inv
    <3>4. Ready("identifiers", entries'["identifiers"], id, clock + identifier.delay)
      BY <1>9, <3>3
    <3> QED BY <1>4, <1>5, <2>1, <3>1, <3>3, <3>4 DEF Waits, Ready, Present
  <2>4. CASE source.granted /\ identifier.granted
    BY <1>3, <2>4 DEF Waits
  <2> QED BY <2>2, <2>3, <2>4
<1> QED BY <1>15, <1>16, <1>17 DEF Inv

LEMMA InvStep == ASSUME Inv, [Next]_vars PROVE Inv'
<1>1. ASSUME UNCHANGED <<entries, denied, owed, late>>, clock' \in {clock, clock + 1},
             clock' \in 0..MaxClock,
             calls' \in [Threads -> [source : Sources \union {Nil},
                                     identifier : Identifiers \union {Nil}, now : 0..clock']],
             \A t \in Threads :
               calls'[t] # Idle => calls'[t].source \in Sources /\ calls'[t].identifier \in Identifiers
      PROVE  Inv'
  <2>1. /\ Covered' /\ Waits'
        /\ \A name \in Tables : Table(name, entries'[name])
        /\ \A name \in Tables : \A k \in Keys(name) :
             entries'[name][k] # NoBucket => entries'[name][k].seen <= clock'
        /\ owed' \in [AllKeys -> [tokens : Int, at : 0..clock']]
    BY <1>1, TimePasses
  <2>2. \A name \in Tables : Table(name, entries[name])'
    BY <1>1 DEF Inv, Types, Table, Present
  <2> QED BY <1>1, <2>1, <2>2 DEF Inv, Types
<1>2. clock \in Nat /\ clock \in 0..MaxClock /\ 0..clock \subseteq 0..(clock + 1)
  BY PolicyAssumption DEF Inv, Types
<1>3. ASSUME NEW t \in Threads, NEW source \in Sources, NEW identifier \in Identifiers,
             ReadClock(t, source, identifier)
      PROVE  Inv'
  <2>1. UNCHANGED <<entries, denied, owed, late, clock>>
    BY <1>3 DEF ReadClock
  <2>2. calls' = [calls EXCEPT ![t] = [source |-> source, identifier |-> identifier, now |-> clock]]
    BY <1>3 DEF ReadClock
  <2>3. /\ calls' \in [Threads -> [source : Sources \union {Nil},
                                   identifier : Identifiers \union {Nil}, now : 0..clock]]
        /\ \A u \in Threads :
             calls'[u] # Idle => calls'[u].source \in Sources /\ calls'[u].identifier \in Identifiers
    BY <1>2, <2>2 DEF Inv, Types
  <2> QED BY <1>1, <1>2, <2>1, <2>3
<1>4. CASE Tick
  <2>1. UNCHANGED <<entries, denied, owed, late, calls>> /\ clock' = clock + 1
    BY <1>4 DEF Tick
  <2>2. clock' \in 0..MaxClock
    BY <1>2, <1>4, <2>1, PolicyAssumption DEF Tick
  <2>3. calls' \in [Threads -> [source : Sources \union {Nil},
                                identifier : Identifiers \union {Nil}, now : 0..clock']]
    BY <1>2, <2>1 DEF Inv, Types
  <2> QED BY <1>1, <2>1, <2>2, <2>3 DEF Inv, Types
<1>5. CASE UNCHANGED vars
  <2>1. UNCHANGED <<entries, denied, owed, late, calls, clock>>
    BY <1>5 DEF vars
  <2> QED BY <1>1, <1>2, <2>1 DEF Inv, Types
<1> QED BY <1>3, <1>4, <1>5, CheckInv, AllowInv DEF Next

LEMMA Invariance == Spec => []Inv
BY InvInit, InvStep, PTL DEF Spec

-----------------------------------------------------------------------------
(* What the run checks.                                                    *)

\* The tables are bounded, and so is what a key is granted.
THEOREM RateIsBounded == Spec => []RateBounded
<1>1. ASSUME Inv PROVE RateBounded
  <2>1. TypeOK
    BY <1>1 DEF Inv, Types, Table, TypeOK
  <2>2. ASSUME NEW name \in Tables, NEW k \in Keys(name)
        PROVE  OwedAt(name, k) + late[k] >= 0
    <3>1. Value(name, entries[name], k, clock) <= OwedAt(name, k) + late[k]
      BY <1>1 DEF Inv, Covered
    <3>2. clock \in Nat /\ Table(name, entries[name])
      BY <1>1, PolicyAssumption DEF Inv, Types
    <3>3. Value(name, entries[name], k, clock) \in Nat
      BY <3>2, ValueGrows
    <3>4. OwedAt(name, k) \in Int /\ late[k] \in Nat
      BY <1>1, OwedIsInt DEF Inv
    <3> QED BY <3>1, <3>3, <3>4
  <2> QED BY <2>1, <2>2 DEF RateBounded
<1> QED BY <1>1, Invariance, PTL

\* A key that was refused is granted a token after the delay.
THEOREM RetriesAreGranted == Spec => []RetryAfterSuffices
<1>1. ASSUME Inv PROVE RetryAfterSuffices
  <2> SUFFICES ASSUME denied # Granted, clock >= denied.at + denied.delay,
                      NEW result \in CheckAt(denied.table, denied.key, clock)
               PROVE  result.granted
    BY DEF RetryAfterSuffices
  <2>1. /\ denied.table \in Tables /\ denied.key \in Keys(denied.table)
        /\ denied.at \in 0..clock /\ denied.delay \in Nat
        /\ Ready(denied.table, entries[denied.table], denied.key, denied.at + denied.delay)
    BY <1>1 DEF Inv, Waits
  <2>2. denied.at + denied.delay \in Nat /\ denied.at + denied.delay <= clock
    BY <1>1, <2>1, PolicyAssumption DEF Inv, Types
  <2> QED BY <1>1, <2>1, <2>2, ReadyIsGranted DEF Inv
<1> QED BY <1>1, Invariance, PTL
=============================================================================
