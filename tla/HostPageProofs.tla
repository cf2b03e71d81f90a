--------------------------- MODULE HostPageProofs ---------------------------
(***************************************************************************)
(* Proofs about the page of a host: how it is kept up to date              *)
(* (DetailPolling), and the chart (HistorySeries) and the log (LogDays)    *)
(* that it asks for.                                                       *)
(*                                                                         *)
(* DetailPolling, for any selections and versions: the inductive invariant *)
(* says that one request at most is live, that it is for the current       *)
(* selection, and that its answer, once the server has made it, is no      *)
(* older than what is shown.                                               *)
(*                                                                         *)
(* HistorySeries, for any steps that divide the hour or are multiples of   *)
(* it: the inductive invariant (Searched) says that no step below the one  *)
(* that is tried would do; the arithmetic of what is rounded to a multiple *)
(* (SameSide) says when a step would do.                                   *)
(*                                                                         *)
(* LogDays, for any day, dates and change of the clocks: a date starts at  *)
(* the first instant at which the clocks show it (StartOfDay), which is    *)
(* where the reports that are filed under it begin (FiledFromStart).       *)
(***************************************************************************)
EXTENDS DetailPolling, MCHistorySeries, FiniteSetTheorems, WellFoundedInduction, TLAPS

Effect == [inFlight : BOOLEAN, queued : BOOLEAN, force : BOOLEAN, timer : BOOLEAN]

TypeOK ==
  /\ hidden \in BOOLEAN
  /\ poll \in Effect
  /\ selection \in Selections
  /\ requests \subseteq Request
  /\ version \in 0..MaxVersion
  /\ shown = Nil \/ shown \in [selection : Selections, version : 0..MaxVersion]

LiveFits ==
  \A request \in requests : request.live =>
    /\ poll.inFlight
    /\ request.selection = selection
    /\ request.answer # Nil => request.answer <= version
    /\ request.answer # Nil /\ shown # Nil => shown.version <= request.answer

OneLive ==
  \A request, other \in requests : request.live /\ other.live => request = other

ShownFits == shown # Nil => shown.selection = selection /\ shown.version <= version

Inv == TypeOK /\ LiveFits /\ OneLive /\ ShownFits
USE PollingAssumption

\* A request that starts.
Started(s) == [selection |-> s, answer |-> Nil, live |-> TRUE]

LEMMA StartedType ==
  ASSUME NEW s \in Selections
  PROVE  Started(s) \in Request /\ Started(s).live /\ Started(s).answer = Nil
           /\ Started(s).selection = s
BY DEF Started, Request

LEMMA InitInv == Init => Inv
<1> SUFFICES ASSUME Init PROVE Inv
  OBVIOUS
<1>1. selection \in Selections /\ shown = Nil /\ version = 0
  BY DEF Init
<1>2. hidden \in BOOLEAN /\ poll.inFlight = ~hidden
        /\ requests = IF hidden THEN {} ELSE {Started(selection)}
  BY DEF Init, Idle, Started
<1>3. requests \subseteq Request /\ \A request \in requests :
        request = Started(selection) /\ poll.inFlight
  BY <1>1, <1>2, StartedType
<1>4. poll \in Effect
  BY <1>2 DEF Init, Idle, Effect
<1> QED BY <1>1, <1>2, <1>3, <1>4, StartedType DEF Inv, TypeOK, LiveFits, OneLive, ShownFits

-----------------------------------------------------------------------------
(* A refresh.                                                              *)

\* The requests are left, and an effect that is in flight stays so, or it starts
\* the only one.
LEMMA RefreshStarts ==
  ASSUME NEW effect \in Effect, NEW out, NEW force \in BOOLEAN, Refresh(effect, out, force)
  PROVE  /\ poll' \in Effect
         /\ \/ requests' = out /\ poll'.inFlight = effect.inFlight
            \/ /\ ~effect.inFlight /\ poll'.inFlight
               /\ requests' = out \union {Started(selection')}
<1>1. CASE ~force /\ hidden'
  BY <1>1 DEF Refresh
<1>2. CASE ~(~force /\ hidden') /\ effect.inFlight
  BY <1>2 DEF Refresh, Queued, Effect
<1>3. CASE ~(~force /\ hidden') /\ ~effect.inFlight
  BY <1>3 DEF Refresh, Started, Effect
<1> QED BY <1>1, <1>2, <1>3

\* A refresh of an effect whose requests fit what is shown.
LEMMA RefreshInv ==
  ASSUME Inv, NEW effect \in Effect, NEW out \in SUBSET Request, NEW force \in BOOLEAN,
         Refresh(effect, out, force),
         hidden' \in BOOLEAN, selection' \in Selections, version' = version,
         shown' = Nil \/ shown' \in [selection : Selections, version : 0..MaxVersion],
         \A request \in out : request.live =>
           /\ effect.inFlight
           /\ request.selection = selection'
           /\ request.answer # Nil => request.answer <= version
           /\ request.answer # Nil /\ shown' # Nil => shown'.version <= request.answer,
         \A request, other \in out : request.live /\ other.live => request = other,
         shown' # Nil => shown'.selection = selection' /\ shown'.version <= version
  PROVE  Inv'
<1>1. /\ poll' \in Effect
      /\ \/ requests' = out /\ poll'.inFlight = effect.inFlight
         \/ /\ ~effect.inFlight /\ poll'.inFlight
            /\ requests' = out \union {Started(selection')}
  BY RefreshStarts
<1>2. /\ Started(selection') \in Request /\ Started(selection').answer = Nil
      /\ Started(selection').selection = selection'
  BY StartedType
<1>3. TypeOK'
  BY <1>1, <1>2 DEF Inv, TypeOK
<1>4. LiveFits'
  BY <1>1, <1>2 DEF LiveFits
<1>5. OneLive'
  BY <1>1 DEF OneLive
<1>6. ShownFits'
  BY DEF ShownFits
<1> QED BY <1>3, <1>4, <1>5, <1>6 DEF Inv

\* What Inv says of the requests, in the words of RefreshInv.
LEMMA Fitting ==
  ASSUME Inv
  PROVE  /\ requests \in SUBSET Request /\ poll \in Effect /\ hidden \in BOOLEAN
         /\ selection \in Selections /\ version \in 0..MaxVersion
         /\ shown = Nil \/ shown \in [selection : Selections, version : 0..MaxVersion]
         /\ \A request \in requests : request.live =>
              /\ poll.inFlight
              /\ request.selection = selection
              /\ request.answer # Nil => request.answer <= version
              /\ request.answer # Nil /\ shown # Nil => shown.version <= request.answer
         /\ \A request, other \in requests : request.live /\ other.live => request = other
         /\ shown # Nil => shown.selection = selection /\ shown.version <= version
BY DEF Inv, TypeOK, LiveFits, OneLive, ShownFits

-----------------------------------------------------------------------------
(* The operations.                                                         *)

LEMMA ChangeInv == ASSUME Inv, Change PROVE Inv'
<1>1. version' = version + 1 /\ version < MaxVersion
        /\ UNCHANGED <<selection, hidden, poll, requests, shown>>
  BY DEF Change
<1>2. version \in 0..MaxVersion /\ MaxVersion \in Nat /\ requests \subseteq Request
        /\ \A request \in requests : request.answer # Nil => request.answer \in Nat
  BY DEF Inv, TypeOK, Request
<1>3. TypeOK' /\ OneLive'
  BY <1>1, <1>2 DEF Inv, TypeOK, OneLive
<1>4. LiveFits'
  BY <1>1, <1>2 DEF Inv, LiveFits
<1>5. ShownFits'
  BY <1>1, <1>2 DEF Inv, ShownFits, TypeOK
<1> QED BY <1>3, <1>4, <1>5 DEF Inv

LEMMA ServeInv ==
  ASSUME Inv, NEW request \in requests, Serve(request)
  PROVE  Inv'
<1> DEFINE answered == [request EXCEPT !.answer = version]
<1>1. requests' = (requests \ {request}) \union {answered}
        /\ UNCHANGED <<selection, hidden, poll, shown, version>>
  BY DEF Serve
<1>2. request \in Request /\ version \in 0..MaxVersion
  BY Fitting
<1>3. answered \in Request /\ answered.answer = version /\ answered.live = request.live
        /\ answered.selection = request.selection
  BY <1>2 DEF Request
<1> HIDE DEF answered
<1>4. TypeOK'
  BY <1>1, <1>3, Fitting DEF TypeOK
<1>5. LiveFits'
  BY <1>1, <1>2, <1>3, Fitting DEF LiveFits
<1>6. OneLive'
  BY <1>1, <1>3, Fitting DEF OneLive
<1>7. ShownFits'
  BY <1>1 DEF Inv, ShownFits
<1> QED BY <1>4, <1>5, <1>6, <1>7 DEF Inv

\* The answer of the live request is shown, or none is; after it no request is
\* live, so that the next one may start.
LEMMA SettleInv ==
  ASSUME Inv, NEW request \in requests, Settle(request)
  PROVE  Inv' /\ (shown' # shown => request.live /\ request.answer # Nil
                    /\ shown' = [selection |-> request.selection, version |-> request.answer])
<1> DEFINE out == requests \ {request}
<1>1. /\ UNCHANGED <<selection, hidden, version>>
      /\ \/ /\ request.answer # Nil /\ request.live
            /\ shown' = [selection |-> request.selection, version |-> request.answer]
         \/ shown' = shown
  BY DEF Settle, Applies
<1>2. request \in Request /\ out \in SUBSET Request
  BY Fitting
<1>3. /\ shown' = Nil \/ shown' \in [selection : Selections, version : 0..MaxVersion]
      /\ shown' # Nil => shown'.selection = selection /\ shown'.version <= version
  BY <1>1, <1>2, Fitting DEF Request
<1>4. CASE request.live
  <2>1. \A other \in out : ~other.live
    BY <1>4, Fitting
  <2>2. Finally(out)
    BY <1>4 DEF Settle
  <2>3. CASE poll.queued
    <3> DEFINE effect == [poll EXCEPT !.inFlight = FALSE]
    <3>1. effect \in Effect /\ poll.force \in BOOLEAN
      BY Fitting DEF Effect
    <3>2. Refresh(effect, out, poll.force)
      BY <2>2, <2>3 DEF Finally
    <3> HIDE DEF effect, out
    <3>3. hidden' \in BOOLEAN /\ selection' \in Selections /\ version' = version
            /\ selection' = selection
      BY <1>1, Fitting
    <3> QED BY <3>1, <3>2, <3>3, <2>1, <1>1, <1>2, <1>3, RefreshInv
  <2>4. CASE ~poll.queued
    <3>1. requests' = out /\ poll' = [poll EXCEPT !.inFlight = FALSE, !.timer = ~hidden]
      BY <2>2, <2>4 DEF Finally
    <3>2. poll' \in Effect
      BY <3>1, Fitting DEF Effect
    <3> HIDE DEF out
    <3>3. TypeOK' /\ LiveFits' /\ OneLive' /\ ShownFits'
      BY <3>1, <3>2, <2>1, <1>1, <1>2, <1>3, Fitting DEF TypeOK, LiveFits, OneLive, ShownFits
    <3> QED BY <3>3, <1>1 DEF Inv
  <2> QED BY <2>3, <2>4
<1>5. CASE ~request.live
  <2>1. requests' = out /\ poll' = poll /\ shown' = shown
    BY <1>1, <1>5 DEF Settle, Applies
  <2> QED BY <2>1, <1>1 DEF Inv, TypeOK, LiveFits, OneLive, ShownFits
<1> QED BY <1>4, <1>5

\* A timer, a change of visibility and a request for a refresh.
LEMMA CalledInv ==
  ASSUME Inv, TimerFires \/ VisibilityChange \/ Ask
  PROVE  Inv' /\ selection' = selection /\ shown' = shown
<1> DEFINE effect == [poll EXCEPT !.timer = FALSE]
<1>1. PICK force \in BOOLEAN : Refresh(effect, requests, force)
  BY DEF TimerFires, VisibilityChange, WhenVisible, Ask
<1>2. UNCHANGED <<selection, shown, version>> /\ hidden' \in BOOLEAN
  BY Fitting DEF TimerFires, VisibilityChange, Ask
<1>3. effect \in Effect /\ effect.inFlight = poll.inFlight
  BY Fitting DEF Effect
<1> HIDE DEF effect
<1> QED BY <1>1, <1>2, <1>3, Fitting, RefreshInv

\* The requests of the effect that is gone are not live.
LEMMA SelectInv ==
  ASSUME Inv, Select
  PROVE  Inv' /\ shown' = Nil
<1> DEFINE out == {[request EXCEPT !.live = FALSE] : request \in requests}
<1>1. /\ selection' \in Selections /\ shown' = Nil /\ UNCHANGED <<hidden, version>>
      /\ Refresh(Idle, out, TRUE)
  BY DEF Select
<1>2. Idle \in Effect
  BY DEF Idle, Effect
<1>3. out \in SUBSET Request /\ \A request \in out : ~request.live
  <2> SUFFICES ASSUME NEW request \in requests
               PROVE  LET dead == [request EXCEPT !.live = FALSE]
                      IN  dead \in Request /\ ~dead.live
    OBVIOUS
  <2> QED BY Fitting DEF Request
<1> HIDE DEF out
<1> QED BY <1>1, <1>2, <1>3, Fitting, RefreshInv

LEMMA NextInv == ASSUME Inv, [Next]_vars PROVE Inv'
<1>1. CASE UNCHANGED vars
  BY <1>1 DEF vars, Inv, TypeOK, LiveFits, OneLive, ShownFits
<1> QED BY <1>1, ChangeInv, ServeInv, SettleInv, CalledInv, SelectInv DEF Next

LEMMA Invariance == Spec => []Inv
BY InitInv, NextInv, PTL DEF Spec

-----------------------------------------------------------------------------
(* The property.                                                           *)

\* Late answers to earlier selections are not shown, and no answer overtakes
\* another, for any number of selections and of requests on their way.
THEOREM NeverOlder == Spec => ShownIsCurrent
<1>1. ASSUME Inv, [Next]_vars, shown' # Nil, shown # Nil
      PROVE  shown.version <= shown'.version
  <2>1. shown.version \in Nat
    BY <1>1, Fitting
  <2>2. CASE shown' = shown
    BY <2>1, <2>2
  <2>3. CASE shown' # shown
    <3>1. PICK request \in requests : Settle(request)
      BY <1>1, <2>3, CalledInv, SelectInv DEF Next, vars, Change, Serve
    <3>2. request.live /\ request.answer # Nil
            /\ shown' = [selection |-> request.selection, version |-> request.answer]
      BY <1>1, <2>3, <3>1, SettleInv
    <3> QED BY <1>1, <3>2, Fitting
  <2> QED BY <2>2, <2>3
<1>2. ASSUME Inv, [Next]_vars, shown' # Nil
      PROVE  shown'.selection = selection'
  BY <1>2, NextInv DEF Inv, ShownFits
<1>3. Inv /\ [Next]_vars =>
        [shown' # Nil => /\ shown'.selection = selection'
                         /\ shown # Nil => shown.version <= shown'.version]_vars
  BY <1>1, <1>2
<1> QED BY <1>3, Invariance, PTL DEF Spec, ShownIsCurrent

-----------------------------------------------------------------------------
(* The chart and the log: quotients and multiples.                         *)

HIDE PollingAssumption

\* A quotient is rounded down.
LEMMA DivIsFloor ==
  ASSUME NEW n \in Int, NEW d \in Nat \ {0}
  PROVE  /\ n \div d \in Int
         /\ (n \div d) * d <= n
         /\ n < (n \div d) * d + d
OBVIOUS

LEMMA FloorIsDiv ==
  ASSUME NEW n \in Int, NEW d \in Nat \ {0}, NEW q \in Int, q * d <= n, n < q * d + d
  PROVE  n \div d = q
OBVIOUS

\* Between two multiples of a there is at least a.
LEMMA MultipleGap ==
  ASSUME NEW a \in Nat \ {0}, NEW x \in Int, NEW y \in Int, x * a < y * a
  PROVE  /\ x < y
         /\ x * a + a <= y * a
<1>1. x < y
  OBVIOUS
<1>2. (y - x - 1) * a >= 0
  BY <1>1
<1>3. (y - x - 1) * a = y * a - x * a - a
  OBVIOUS
<1> QED BY <1>1, <1>2, <1>3

Multiple(m, a) == \E k \in Int : m = k * a

LEMMA Rounded ==
  ASSUME NEW n \in Int, NEW a \in Nat \ {0}
  PROVE  /\ Down(n, a) \in Int /\ Multiple(Down(n, a), a)
         /\ Down(n, a) <= n /\ n < Down(n, a) + a
         /\ Up(n, a) \in Int /\ Multiple(Up(n, a), a)
         /\ n <= Up(n, a) /\ Up(n, a) < n + a
<1> DEFINE x == n \div a
           y == (n + a - 1) \div a
<1>1. x \in Int /\ x * a <= n /\ n < x * a + a
  BY DivIsFloor
<1>2. n + a - 1 \in Int
  OBVIOUS
<1>3. y \in Int /\ y * a <= n + a - 1 /\ n + a - 1 < y * a + a
  BY <1>2, DivIsFloor
<1>4. Down(n, a) = x * a /\ Up(n, a) = y * a
  BY DEF Down, Up
<1> HIDE DEF x, y
<1>5. x * a \in Int /\ y * a \in Int
  BY <1>1, <1>3
<1>6. Multiple(x * a, a) /\ Multiple(y * a, a)
  BY <1>1, <1>3 DEF Multiple
<1> QED BY <1>1, <1>3, <1>4, <1>5, <1>6

\* The multiples of a on either side of a number, and of what it is rounded to.
LEMMA SameSide ==
  ASSUME NEW n \in Int, NEW a \in Nat \ {0}, NEW m \in Int, Multiple(m, a)
  PROVE  /\ Down(n, a) < m <=> n < m
         /\ m < Up(n, a) <=> m < n
<1>1. PICK k \in Int : m = k * a
  BY DEF Multiple
<1>2. PICK x \in Int, y \in Int : Down(n, a) = x * a /\ Up(n, a) = y * a
  BY Rounded DEF Multiple
<1>3. Down(n, a) <= n /\ n < Down(n, a) + a /\ n <= Up(n, a) /\ Up(n, a) < n + a
  BY Rounded
<1>4. Down(n, a) < m => Down(n, a) + a <= m
  BY <1>1, <1>2, MultipleGap
<1>5. m < Up(n, a) => m + a <= Up(n, a)
  BY <1>1, <1>2, MultipleGap
<1>6. Down(n, a) \in Int /\ Up(n, a) \in Int
  BY Rounded
<1> QED BY <1>3, <1>4, <1>5, <1>6

LEMMA MultipleOfMultiple ==
  ASSUME NEW m \in Int, NEW a \in Int, NEW b \in Int, Multiple(m, a), Multiple(a, b)
  PROVE  Multiple(m, b)
<1>1. PICK j \in Int, k \in Int : m = j * a /\ a = k * b
  BY DEF Multiple
<1>2. m = (j * k) * b /\ j * k \in Int
  BY <1>1
<1> QED BY <1>2 DEF Multiple

LEMMA NoRemainder ==
  ASSUME NEW n \in Nat, NEW d \in Nat \ {0}, n % d = 0
  PROVE  Multiple(n, d)
<1>1. n = (n \div d) * d /\ n \div d \in Int
  OBVIOUS
<1> QED BY <1>1 DEF Multiple

LEMMA MultipleOfSum ==
  ASSUME NEW m \in Int, NEW n \in Int, NEW a \in Int, Multiple(m, a), Multiple(n, a)
  PROVE  Multiple(m + n, a) /\ Multiple(m - n, a)
<1>1. PICK j \in Int, k \in Int : m = j * a /\ n = k * a
  BY DEF Multiple
<1>2. m + n = (j + k) * a /\ m - n = (j - k) * a /\ j + k \in Int /\ j - k \in Int
  BY <1>1
<1> QED BY <1>2 DEF Multiple

-----------------------------------------------------------------------------
\* Least and greatest elements.

\* Of finite initial segments of Nat, one has no other below it.
LEMMA LeastExists ==
  ASSUME NEW S \in SUBSET Nat, S # {}
  PROVE  \E x \in S : \A y \in S : x <= y
<1> DEFINE upTo == {0..x : x \in S}
<1>1. upTo # {}
  OBVIOUS
<1>2. upTo \subseteq FiniteSubsetsOf(Nat)
  <2>1. ASSUME NEW x \in S PROVE IsFiniteSet(0..x) /\ 0..x \subseteq Nat
    BY FS_Interval
  <2> QED BY <2>1 DEF FiniteSubsetsOf
<1>3. PICK A \in upTo : \A B \in upTo : ~(<<B, A>> \in StrictSubsetOrdering(Nat))
  <2>1. IsWellFoundedOn(StrictSubsetOrdering(Nat), FiniteSubsetsOf(Nat))
    BY FS_StrictSubsetOrderingWellFounded
  <2> HIDE DEF upTo
  <2> QED BY <1>1, <1>2, <2>1, WFMin
<1>4. PICK x \in S : A = 0..x
  BY <1>3
<1>5. ASSUME NEW y \in S PROVE x <= y
  <2> SUFFICES ASSUME y < x PROVE FALSE
    OBVIOUS
  <2>1. 0..y \in upTo
    OBVIOUS
  <2>2. 0..y \subseteq 0..x
    OBVIOUS
  <2>3. x \in 0..x /\ x \notin 0..y
    OBVIOUS
  <2>4. 0..y # 0..x
    BY <2>3
  <2>5. <<0..y, 0..x>> \in StrictSubsetOrdering(Nat)
    BY <2>2, <2>4 DEF StrictSubsetOrdering
  <2> QED BY <1>3, <1>4, <2>1, <2>5
<1> QED BY <1>5

\* Integers that reach up to a bound: the least distance from the bound.
LEMMA GreatestExists ==
  ASSUME NEW S \in SUBSET Int, S # {}, NEW b \in Int, \A x \in S : x <= b
  PROVE  \E x \in S : \A y \in S : y <= x
<1> DEFINE gaps == {b - x : x \in S}
<1>1. gaps \in SUBSET Nat
  <2> SUFFICES ASSUME NEW x \in S PROVE b - x \in Nat
    OBVIOUS
  <2> QED OBVIOUS
<1>0. gaps # {}
  OBVIOUS
<1> HIDE DEF gaps
<1>2. PICK g \in gaps : \A h \in gaps : g <= h
  BY <1>0, <1>1, LeastExists
<1>3. PICK x \in S : g = b - x
  BY DEF gaps
<1>4. ASSUME NEW y \in S PROVE y <= x
  <2>1. b - y \in gaps
    BY DEF gaps
  <2> QED BY <1>2, <1>3, <2>1
<1> QED BY <1>4

\* A finite set of numbers has a bound: of its finite subsets without one, one
\* would have no other below it.
LEMMA FiniteHasBound ==
  ASSUME NEW S \in SUBSET Int, IsFiniteSet(S)
  PROVE  \E b \in Int : \A x \in S : x <= b
<1> DEFINE Bounded(T) == \E b \in Int : \A x \in T : x <= b
           boundless == {T \in SUBSET S : ~Bounded(T)}
<1> SUFFICES ASSUME boundless # {} PROVE FALSE
  OBVIOUS
<1>1. boundless \subseteq FiniteSubsetsOf(S)
  <2>1. ASSUME NEW T \in SUBSET S PROVE IsFiniteSet(T)
    BY FS_Subset
  <2> QED BY <2>1 DEF FiniteSubsetsOf
<1>2. PICK T \in boundless : \A R \in boundless : ~(<<R, T>> \in StrictSubsetOrdering(S))
  <2>1. IsWellFoundedOn(StrictSubsetOrdering(S), FiniteSubsetsOf(S))
    BY FS_StrictSubsetOrderingWellFounded
  <2> HIDE DEF boundless
  <2> QED BY <1>1, <2>1, WFMin
<1>3. T # {}
  <2>1. Bounded({})
    <3>1. \A x \in {} : x <= 0
      OBVIOUS
    <3> QED BY <3>1
  <2> QED BY <1>2, <2>1
<1>4. PICK x : x \in T
  BY <1>3
<1>5. T \ {x} \in SUBSET S /\ T \ {x} # T /\ T \ {x} \subseteq T
  BY <1>4
<1>6. <<T \ {x}, T>> \in StrictSubsetOrdering(S)
  BY <1>5 DEF StrictSubsetOrdering
<1>7. Bounded(T \ {x})
  BY <1>2, <1>5, <1>6
<1>8. PICK b \in Int : \A y \in T \ {x} : y <= b
  BY <1>7
<1>9. x \in Int
  BY <1>4
<1>10. \A y \in T : y <= (IF b < x THEN x ELSE b)
  <2> SUFFICES ASSUME NEW y \in T PROVE y <= (IF b < x THEN x ELSE b)
    OBVIOUS
  <2>1. y \in Int
    OBVIOUS
  <2>2. y = x \/ y <= b
    BY <1>8
  <2> QED BY <1>9, <2>1, <2>2
<1>11. (IF b < x THEN x ELSE b) \in Int
  BY <1>9
<1> QED BY <1>10, <1>11

LEMMA MinIsLeast ==
  ASSUME NEW S \in SUBSET Nat, S # {}
  PROVE  Min(S) \in S /\ \A y \in S : Min(S) <= y
<1>1. \E x \in S : \A y \in S : x <= y
  BY LeastExists
<1> QED BY <1>1 DEF Min

LEMMA MaxIsGreatest ==
  ASSUME NEW S \in SUBSET Int, IsFiniteSet(S), S # {}
  PROVE  Max(S) \in S /\ \A y \in S : Max(S) >= y
<1>1. PICK b \in Int : \A x \in S : x <= b
  BY FiniteHasBound
<1>2. \E x \in S : \A y \in S : x >= y
  BY <1>1, GreatestExists
<1> QED BY <1>2 DEF Max

-----------------------------------------------------------------------------
\* The range of a chart.

Query == {q \in [from : Instants, to : Instants, budget : Budgets] : q.from < q.to}

USE StepsAssumption

\* The seconds of the range, the last one begun.
LEMMA Seconds ==
  ASSUME query \in Query
  PROVE  LET first == Second(query.from)
             last == ToSeconds(query.to) IN
         /\ first \in Int /\ last \in Int /\ first < last
         /\ \A n \in Int : (n <= first <=> n * Ticks <= query.from) /\ (n < last <=> n * Ticks < query.to)
         /\ last - first >= Second(query.to - query.from)
<1> DEFINE from == query.from
           to == query.to
           first == from \div Ticks
           last == (to + Ticks - 1) \div Ticks
           length == (to - from) \div Ticks
<1>1. from \in Int /\ to \in Int /\ from < to
  BY DEF Query, Instants
<1> HIDE DEF from, to
<1>2. first \in Int /\ first * Ticks <= from /\ from < first * Ticks + Ticks
  BY <1>1, DivIsFloor
<1>3. last \in Int /\ last * Ticks <= to + Ticks - 1 /\ to + Ticks - 1 < last * Ticks + Ticks
  <2>1. to + Ticks - 1 \in Int
    BY <1>1
  <2> QED BY <2>1, DivIsFloor
<1>4. length \in Int /\ length * Ticks <= to - from
  <2>1. to - from \in Int
    BY <1>1
  <2> QED BY <2>1, DivIsFloor
<1> HIDE DEF first, last, length
<1>5. ASSUME NEW n \in Int PROVE n <= first <=> n * Ticks <= from
  <2>1. first * Ticks < n * Ticks => first * Ticks + Ticks <= n * Ticks
    BY <1>2, MultipleGap
  <2>2. CASE n <= first
    <3>1. n * Ticks <= first * Ticks
      BY <1>2, <2>2
    <3> QED BY <1>1, <1>2, <2>2, <3>1
  <2>3. CASE n > first
    <3>1. (first + 1) * Ticks <= n * Ticks
      BY <1>2, <2>3
    <3>2. (first + 1) * Ticks = first * Ticks + Ticks
      BY <1>2
    <3> QED BY <1>1, <1>2, <2>3, <3>1, <3>2
  <2> QED BY <1>2, <2>2, <2>3
<1>6. ASSUME NEW n \in Int PROVE n < last <=> n * Ticks < to
  <2>1. CASE n < last
    <3>1. (n + 1) * Ticks <= last * Ticks
      BY <1>3, <2>1
    <3>2. (n + 1) * Ticks = n * Ticks + Ticks
      OBVIOUS
    <3> QED BY <1>1, <1>3, <2>1, <3>1, <3>2
  <2>2. CASE n >= last
    <3>1. last * Ticks <= n * Ticks
      BY <1>3, <2>2
    <3> QED BY <1>1, <1>3, <2>2, <3>1
  <2> QED BY <1>3, <2>1, <2>2
<1>7. first < last
  BY <1>1, <1>2, <1>6
<1>8. last - first >= length
  <2> SUFFICES ASSUME last - first < length PROVE FALSE
    BY <1>2, <1>3, <1>4
  <2>1. (last + 1) * Ticks <= (first + length) * Ticks
    BY <1>2, <1>3, <1>4
  <2>2. (last + 1) * Ticks = last * Ticks + Ticks /\ (first + length) * Ticks = first * Ticks + length * Ticks
    BY <1>2, <1>3, <1>4
  <2> QED BY <1>1, <1>2, <1>3, <1>4, <2>1, <2>2
<1>9. first = Second(query.from) /\ last = ToSeconds(query.to) /\ length = Second(query.to - query.from)
  BY DEF first, last, length, from, to, Second, ToSeconds
<1> QED BY <1>2, <1>3, <1>5, <1>6, <1>7, <1>8, <1>9 DEF from, to

\* The range, aligned to a step: it takes in the seconds of the range, and is
\* as many steps long as there are points.
LEMMA Aligned ==
  ASSUME query \in Query, NEW s \in Steps
  PROVE  /\ FromEpoch(s) \in Int /\ Multiple(FromEpoch(s), s) /\ FromEpoch(s) <= Second(query.from)
         /\ ToEpoch(s) \in Int /\ Multiple(ToEpoch(s), s) /\ ToSeconds(query.to) <= ToEpoch(s)
         /\ Points(s) \in Int /\ ToEpoch(s) - FromEpoch(s) = Points(s) * s
<1> DEFINE first == Second(query.from)
           last == ToSeconds(query.to)
<1>1. first \in Int /\ last \in Int
  BY Seconds
<1>2. FromEpoch(s) = Down(first, s) /\ ToEpoch(s) = Up(last, s)
  BY DEF FromEpoch, ToEpoch
<1> HIDE DEF first, last
<1>3. /\ FromEpoch(s) \in Int /\ Multiple(FromEpoch(s), s) /\ FromEpoch(s) <= first
      /\ ToEpoch(s) \in Int /\ Multiple(ToEpoch(s), s) /\ last <= ToEpoch(s)
  BY <1>1, <1>2, Rounded
<1>4. Multiple(ToEpoch(s) - FromEpoch(s), s)
  BY <1>3, MultipleOfSum
<1>5. PICK k \in Int : ToEpoch(s) - FromEpoch(s) = k * s
  BY <1>4 DEF Multiple
<1>6. Points(s) = k
  <2> DEFINE w == ToEpoch(s) - FromEpoch(s)
  <2>1. w \in Int /\ k * s <= w /\ w < k * s + s
    BY <1>3, <1>5
  <2> HIDE DEF w
  <2>2. w \div s = k
    BY <2>1, FloorIsDiv
  <2> QED BY <2>2 DEF Points, w
<1> QED BY <1>3, <1>5, <1>6 DEF first, last

\* A second of the aligned range is in one of its points.
LEMMA InAPoint ==
  ASSUME query \in Query, step \in Steps, Fits(step),
         NEW t \in Int, FromEpoch(step) <= t, t < ToEpoch(step)
  PROVE  PointOf(t) < query.budget
<1> DEFINE o == t - FromEpoch(step)
           p == o \div step
<1>1. o \in Int /\ o < Points(step) * step /\ Points(step) \in Int
  BY Aligned
<1> HIDE DEF o
<1>2. p \in Int /\ p * step <= o
  BY <1>1, DivIsFloor
<1> HIDE DEF p
<1>3. p * step < Points(step) * step
  BY <1>1, <1>2
<1>4. p < Points(step)
  BY <1>1, <1>2, <1>3, MultipleGap
<1>5. query.budget \in Int
  <2>1. query \in [from : Instants, to : Instants, budget : Budgets]
    BY DEF Query
  <2>2. query.budget \in Budgets
    BY <2>1
  <2>3. \A b \in Budgets : b \in Int
    OBVIOUS
  <2> QED BY <2>2, <2>3
<1> QED BY <1>1, <1>2, <1>4, <1>5 DEF p, o, PointOf, Fits

-----------------------------------------------------------------------------
\* The hours that the range reaches into.

LEMMA Hours == Hour \in Nat \ {0} /\ \A s \in Steps : IF s < Hour THEN Multiple(Hour, s) ELSE Multiple(s, Hour)
<1>1. Hour \in Nat \ {0}
  OBVIOUS
<1>2. ASSUME NEW s \in Steps PROVE IF s < Hour THEN Multiple(Hour, s) ELSE Multiple(s, Hour)
  BY <1>1, NoRemainder
<1> QED BY <1>1, <1>2

LEMMA WholeHour ==
  ASSUME NEW h \in Nat
  PROVE  /\ h * Hour \in Int /\ (h + 1) * Hour \in Int /\ (h + 1) * Hour = h * Hour + Hour
         /\ Multiple(h * Hour, Hour) /\ Multiple((h + 1) * Hour, Hour)
<1>1. Hour \in Nat
  BY Hours
<1> QED BY <1>1 DEF Multiple

\* It is in the range of the chart, between the second of its start and its end.
LEMMA OverlapInSeconds ==
  ASSUME query \in Query, NEW h \in Nat
  PROVE  Overlaps(h) <=> h * Hour < ToSeconds(query.to) /\ Second(query.from) < (h + 1) * Hour
<1> DEFINE a == h * Hour
           b == (h + 1) * Hour
           first == Second(query.from)
           last == ToSeconds(query.to)
<1>1. a \in Int /\ b \in Int
  BY WholeHour
<1>2. /\ first \in Int /\ last \in Int
      /\ \A n \in Int : (n <= first <=> n * Ticks <= query.from) /\ (n < last <=> n * Ticks < query.to)
  BY Seconds
<1>3. Overlaps(h) <=> a * Ticks < query.to /\ query.from < b * Ticks
  BY DEF Overlaps
<1> HIDE DEF a, b, first, last
<1>4. query.from \in Int /\ Ticks \in Int
  BY DEF Query, Instants
<1>5. query.from < b * Ticks <=> ~(b * Ticks <= query.from)
  BY <1>1, <1>4
<1>6. first < b <=> ~(b <= first)
  BY <1>1, <1>2
<1>7. Overlaps(h) <=> a < last /\ first < b
  BY <1>1, <1>2, <1>3, <1>5, <1>6
<1> QED BY <1>7 DEF a, b, first, last

\* What has_hourly asks: of a step of less than an hour, whether the range reaches
\* into a merged hour; of any step, it misses none.
LEMMA HourlyIsOverlap ==
  ASSUME query \in Query, hours \subseteq Nat, NEW s \in Steps
  PROVE  /\ \A h \in hours : Overlaps(h) => HasHourly(s)
         /\ s < Hour /\ HasHourly(s) => \E h \in hours : Overlaps(h)
<1> DEFINE first == Second(query.from)
           last == ToSeconds(query.to)
           Has(h) == Down(FromEpoch(s), Hour) <= h * Hour /\ h * Hour < ToEpoch(s)
<1>1. first \in Int /\ last \in Int /\ Hour \in Nat \ {0}
  BY Seconds, Hours
<1>2. FromEpoch(s) = Down(first, s) /\ ToEpoch(s) = Up(last, s)
  BY DEF FromEpoch, ToEpoch
<1>3. ASSUME NEW h \in hours
      PROVE  Overlaps(h) <=> h * Hour < last /\ first < (h + 1) * Hour
  BY OverlapInSeconds
<1>4. ASSUME NEW h \in hours
      PROVE  Has(h) <=> h * Hour < ToEpoch(s) /\ FromEpoch(s) < (h + 1) * Hour
  <2> DEFINE f == FromEpoch(s)
  <2>1. f \in Int
    BY Aligned
  <2>2. /\ h * Hour \in Int /\ (h + 1) * Hour \in Int /\ (h + 1) * Hour = h * Hour + Hour
        /\ Multiple(h * Hour, Hour) /\ Multiple((h + 1) * Hour, Hour)
    BY WholeHour
  <2>3. Has(h) <=> Down(f, Hour) <= h * Hour /\ h * Hour < ToEpoch(s)
    OBVIOUS
  <2> HIDE DEF f, Has
  <2>4. Down(f, Hour) \in Int /\ Multiple(Down(f, Hour), Hour)
    BY <1>1, <2>1, Rounded
  <2>5. Down(f, Hour) < (h + 1) * Hour <=> f < (h + 1) * Hour
    BY <1>1, <2>1, <2>2, SameSide
  <2>6. Down(f, Hour) < (h + 1) * Hour => Down(f, Hour) <= h * Hour
    <3>1. PICK k \in Int : Down(f, Hour) = k * Hour
      BY <2>4 DEF Multiple
    <3>2. h + 1 \in Int
      OBVIOUS
    <3>3. k * Hour < (h + 1) * Hour => k * Hour + Hour <= (h + 1) * Hour
      BY <1>1, <3>2, MultipleGap
    <3> QED BY <1>1, <2>2, <2>4, <3>1, <3>3
  <2>7. Down(f, Hour) <= h * Hour => Down(f, Hour) < (h + 1) * Hour
    BY <1>1, <2>2, <2>4
  <2> QED BY <2>3, <2>5, <2>6, <2>7 DEF f
<1>5. HasHourly(s) <=> \E h \in hours : Has(h)
  BY DEF HasHourly
<1>6. Down(first, s) <= first /\ last <= Up(last, s) /\ Down(first, s) \in Int /\ Up(last, s) \in Int
  BY <1>1, Rounded
<1> HIDE DEF first, last, Has
<1>7. ASSUME NEW h \in hours, Overlaps(h) PROVE HasHourly(s)
  <2>1. h * Hour \in Int /\ (h + 1) * Hour \in Int
    BY WholeHour
  <2>2. h * Hour < Up(last, s) /\ Down(first, s) < (h + 1) * Hour
    BY <1>1, <1>3, <1>6, <1>7, <2>1
  <2> QED BY <1>2, <1>4, <1>5, <2>2
<1>8. ASSUME s < Hour, HasHourly(s) PROVE \E h \in hours : Overlaps(h)
  <2>1. PICK h \in hours : Has(h)
    BY <1>5, <1>8
  <2>2. /\ h * Hour \in Int /\ (h + 1) * Hour \in Int
        /\ Multiple(h * Hour, Hour) /\ Multiple((h + 1) * Hour, Hour)
    BY WholeHour
  <2>3. Multiple(Hour, s) /\ s \in Int
    BY <1>8, Hours
  <2>4. Multiple(h * Hour, s) /\ Multiple((h + 1) * Hour, s)
    BY <1>1, <2>2, <2>3, MultipleOfMultiple
  <2>5. h * Hour < last /\ first < (h + 1) * Hour
    BY <1>1, <1>2, <1>4, <2>1, <2>2, <2>4, SameSide
  <2> QED BY <1>3, <2>5
<1> QED BY <1>7, <1>8

-----------------------------------------------------------------------------
\* The search.

LEMMA GreaterOfTwo ==
  ASSUME NEW a \in Int, NEW b \in Int
  PROVE  Max({a, b}) \in {a, b} /\ Max({a, b}) >= a /\ Max({a, b}) >= b
<1>1. IsFiniteSet({b}) /\ {a, b} = {b} \union {a}
  BY FS_Singleton
<1>2. IsFiniteSet({a, b})
  BY <1>1, FS_AddElement
<1>3. {a, b} \in SUBSET Int /\ {a, b} # {}
  OBVIOUS
<1> QED BY <1>2, <1>3, MaxIsGreatest

\* No step below the quotient that the search begins with has room for the range.
LEMMA QuotientIsNeeded ==
  ASSUME query \in Query, NEW s \in Steps, Fits(s)
  PROVE  MinimumStep(query) \in Int /\ s >= MinimumStep(query)
<1> DEFINE length == Second(query.to - query.from)
           span == Max({length, 1})
           n == query.budget
           y == Up(span, n) \div n
<1>1. n \in Nat \ {0}
  <2>1. query \in [from : Instants, to : Instants, budget : Budgets]
    BY DEF Query
  <2>2. n \in Budgets
    BY <2>1
  <2> QED BY <2>2
<1>2. s \in Nat \ {0}
  OBVIOUS
<1>3. length \in Int
  <2> DEFINE d == query.to - query.from
  <2>1. d \in Int
    BY DEF Query, Instants
  <2> HIDE DEF d
  <2>2. d \div Ticks \in Int
    BY <2>1, DivIsFloor
  <2> QED BY <2>2 DEF d, Second
<1>4. span \in {length, 1}
  <2> HIDE DEF length
  <2>1. 1 \in Int
    OBVIOUS
  <2> QED BY <1>3, <2>1, GreaterOfTwo, Zenon
<1>5. Points(s) * s >= length /\ Points(s) * s >= 1 /\ Points(s) \in Int
  <2> DEFINE first == Second(query.from)
             last == ToSeconds(query.to)
  <2>1. first \in Int /\ last \in Int /\ first < last /\ last - first >= length
    BY Seconds
  <2> HIDE DEF length
  <2>2. /\ FromEpoch(s) \in Int /\ FromEpoch(s) <= first
        /\ ToEpoch(s) \in Int /\ last <= ToEpoch(s)
        /\ Points(s) \in Int /\ ToEpoch(s) - FromEpoch(s) = Points(s) * s
    BY Aligned
  <2> HIDE DEF first, last
  <2> QED BY <1>3, <2>1, <2>2
<1> HIDE DEF length
<1>6. span \in Int /\ Points(s) * s >= span
  BY <1>3, <1>4, <1>5
<1> HIDE DEF span
<1>7. Up(span, n) \in Int /\ Multiple(Up(span, n), n) /\ Up(span, n) < span + n
  BY <1>1, <1>6, Rounded
<1> DEFINE u == Up(span, n)
<1>8. PICK k \in Int : u = k * n
  BY <1>7 DEF Multiple
<1>9. y = k
  <2>1. u \in Int /\ k * n <= u /\ u < k * n + n
    BY <1>1, <1>7, <1>8
  <2> HIDE DEF u
  <2>2. u \div n = k
    BY <1>1, <2>1, FloorIsDiv
  <2> QED BY <2>2 DEF u
<1>10. s >= k
  <2>1. Points(s) <= n
    BY DEF Fits
  <2> DEFINE p == Points(s)
  <2>2. p \in Int /\ p <= n /\ p * s >= span
    BY <1>5, <1>6, <2>1
  <2> HIDE DEF p, n
  <2>3. p * s <= n * s
    BY <1>1, <1>2, <2>2
  <2>4. k * n < s * n + n
    BY <1>1, <1>2, <1>6, <1>7, <1>8, <2>2, <2>3
  <2>5. s * n + n = (s + 1) * n
    BY <1>1, <1>2
  <2>6. k < s + 1
    BY <1>1, <1>2, <1>8, <2>4, <2>5, MultipleGap
  <2> QED BY <1>2, <1>8, <2>6
<1>11. MinimumStep(query) = Max({y, 1})
  BY DEF MinimumStep, span, length
<1>12. Max({y, 1}) \in {y, 1}
  <2> HIDE DEF y
  <2>1. y \in Int
    BY <1>8, <1>9
  <2>2. 1 \in Int
    OBVIOUS
  <2> QED BY <2>1, <2>2, GreaterOfTwo, Zenon
<1> QED BY <1>2, <1>8, <1>9, <1>10, <1>11, <1>12

LEMMA FirstStepIsBelow ==
  ASSUME query \in Query
  PROVE  /\ FirstStep(query) \in Steps
         /\ \A s \in Steps : s < FirstStep(query) => ~Fits(s)
<1> DEFINE enough == {s \in Steps : s >= MinimumStep(query)}
           first == FirstStep(query)
<1>1. first = IF enough = {} THEN Max(Steps) ELSE Min(enough)
  BY DEF FirstStep
<1>2. Steps \in SUBSET Nat /\ Steps \in SUBSET Int /\ Steps # {} /\ IsFiniteSet(Steps)
  OBVIOUS
<1>3. first \in Steps /\ \A s \in enough : first <= s
  <2>1. CASE enough = {}
    <3>1. Max(Steps) \in Steps
      BY <1>2, MaxIsGreatest
    <3> QED BY <1>1, <2>1, <3>1
  <2>2. CASE enough # {}
    <3>1. enough \in SUBSET Nat
      BY <1>2
    <3>2. Min(enough) \in enough /\ \A s \in enough : Min(enough) <= s
      BY <2>2, <3>1, MinIsLeast
    <3> QED BY <1>1, <2>2, <3>2
  <2> QED BY <2>1, <2>2
<1> HIDE DEF first
<1>4. ASSUME NEW s \in Steps, s < first, Fits(s) PROVE FALSE
  <2>1. s \in enough
    BY <1>4, QuotientIsNeeded
  <2> QED BY <1>2, <1>3, <1>4, <2>1
<1> QED BY <1>3, <1>4 DEF first

\* However far the search has come: it has passed no step that would do.
Searched ==
  /\ query \in Query /\ raw \subseteq Instants /\ hours \subseteq Nat /\ step \in Steps
  /\ \A s \in Steps : s < step => ~Good(s)
  /\ phase = "done" => Good(step)
  /\ phase = "failed" => ~Good(step) /\ \A s \in Steps : s <= step

ChartInv == phase \in {"search", "done", "failed"} => Searched

LEMMA SearchBegins ==
  ASSUME ChartInit
  PROVE  ChartInv
<1>1. query \in Query /\ raw \subseteq Instants /\ step = FirstStep(query) /\ phase = "search"
  BY DEF ChartInit, Query
<1>2. hours \subseteq Nat
  BY DEF ChartInit
<1>3. step \in Steps /\ \A s \in Steps : s < step => ~Fits(s)
  BY <1>1, FirstStepIsBelow
<1> QED BY <1>1, <1>2, <1>3 DEF ChartInv, Searched, Good

\* A step that is accepted does not split a merged hour; if it would, none below an
\* hour does.
LEMMA SearchGoesOn ==
  ASSUME ChartInv, Search
  PROVE  ChartInv'
<1>1. phase = "search" /\ UNCHANGED <<query, raw, hours>>
  BY DEF Search, Coarsen, Fail, UseHours, Accept
<1>2. Searched
  BY <1>1 DEF ChartInv
<1>3. query \in Query /\ raw \subseteq Instants /\ hours \subseteq Nat /\ step \in Steps
      /\ \A s \in Steps : s < step => ~Good(s)
  BY <1>2 DEF Searched
<1>4. query' \in Query /\ raw' \subseteq Instants /\ hours' \subseteq Nat
  BY <1>1, <1>3 DEF Query, Instants
<1>5. ASSUME NEW s \in Steps PROVE Good(s)' <=> Good(s)
  BY <1>1 DEF Good, Fits, Points, FromEpoch, ToEpoch, Up, Down, Second, ToSeconds, Overlaps
<1>6. Steps \in SUBSET Nat /\ Hour \in Steps
  OBVIOUS
<1>7. CASE Coarsen
  <2> DEFINE above == {s \in Steps : s > step}
  <2>1. above # {} /\ above \in SUBSET Nat /\ step' = Min(above) /\ phase' = "search" /\ ~Fits(step)
    BY <1>6, <1>7, <1>1 DEF Coarsen
  <2>2. step' \in above /\ \A s \in above : step' <= s
    BY <2>1, MinIsLeast
  <2>3. ASSUME NEW s \in Steps, s < step' PROVE ~Good(s)
    <3>1. s \notin above /\ step \in Nat /\ s \in Nat /\ step' \in Nat
      BY <1>3, <1>6, <2>2, <2>3
    <3>2. s < step \/ s = step
      BY <3>1
    <3> QED BY <1>3, <2>1, <3>2 DEF Good
  <2> QED BY <1>4, <1>5, <2>1, <2>2, <2>3 DEF ChartInv, Searched
<1>8. CASE Fail
  <2>1. phase' = "failed" /\ step' = step /\ ~Fits(step) /\ \A s \in Steps : s <= step
    BY <1>8 DEF Fail
  <2>2. ~Good(step)
    BY <2>1 DEF Good
  <2> QED BY <1>3, <1>4, <1>5, <2>1, <2>2 DEF ChartInv, Searched
<1>9. CASE UseHours
  <2>1. step' = Hour /\ phase' = "search" /\ HasHourly(step) /\ step < Hour
    BY <1>1, <1>9 DEF UseHours
  <2>2. \E h \in hours : Overlaps(h)
    BY <1>3, <2>1, HourlyIsOverlap
  <2>3. ASSUME NEW s \in Steps, s < Hour PROVE ~Good(s)
    BY <1>6, <2>2, <2>3 DEF Good
  <2> QED BY <1>4, <1>5, <1>6, <2>1, <2>3 DEF ChartInv, Searched
<1>10. CASE Accept
  <2>1. phase' = "done" /\ step' = step /\ Fits(step) /\ (HasHourly(step) => step >= Hour)
    BY <1>10 DEF Accept
  <2>2. Good(step)
    <3>1. CASE step >= Hour
      BY <2>1, <3>1 DEF Good
    <3>2. CASE ~(step >= Hour)
      <4>1. ~HasHourly(step)
        BY <2>1, <3>2
      <4>2. ~\E h \in hours : Overlaps(h)
        BY <1>3, <4>1, HourlyIsOverlap
      <4> QED BY <2>1, <4>2 DEF Good
    <3> QED BY <3>1, <3>2
  <2> QED BY <1>3, <1>4, <1>5, <2>1, <2>2 DEF ChartInv, Searched
<1> QED BY <1>7, <1>8, <1>9, <1>10 DEF Search

\* What the chart shows, of any step that does not split a merged hour.
LEMMA ShownOfGoodStep ==
  ASSUME Searched, Good(step)
  PROVE  /\ \A t \in raw : query.from <= t /\ t < query.to =>
              t \in SelectedRows /\ PointOf(Second(t)) < query.budget
         /\ \A h \in hours : Overlaps(h) =>
              /\ h \in SelectedHours
              /\ PointOf(h * Hour) = PointOf((h + 1) * Hour - 1)
              /\ PointOf(h * Hour) < query.budget
<1> DEFINE first == Second(query.from)
           last == ToSeconds(query.to)
           from == FromEpoch(step)
           to == ToEpoch(step)
<1>1. query \in Query /\ raw \subseteq Instants /\ hours \subseteq Nat /\ step \in Steps /\ Fits(step)
  BY DEF Searched, Good
<1>2. /\ first \in Int /\ last \in Int /\ first < last
      /\ \A n \in Int : (n <= first <=> n * Ticks <= query.from) /\ (n < last <=> n * Ticks < query.to)
  BY <1>1, Seconds
<1>3. /\ from \in Int /\ Multiple(from, step) /\ from <= first
      /\ to \in Int /\ Multiple(to, step) /\ last <= to
      /\ Points(step) \in Int /\ to - from = Points(step) * step
  BY <1>1, Aligned
<1>4. query.from \in Int /\ query.to \in Int /\ Ticks \in Nat \ {0} /\ step \in Nat \ {0}
  BY <1>1 DEF Query, Instants
<1>5. ASSUME NEW t \in raw, query.from <= t, t < query.to
      PROVE  t \in SelectedRows /\ PointOf(Second(t)) < query.budget
  <2> DEFINE second == Second(t)
  <2>1. t \in Int
    BY <1>1 DEF Instants
  <2>2. second \in Int /\ second * Ticks <= t /\ t < second * Ticks + Ticks
    BY <1>4, <2>1, DivIsFloor DEF Second
  <2> HIDE DEF second, first, last, from, to
  <2>3. from * Ticks <= query.from
    <3>1. from * Ticks <= first * Ticks /\ first * Ticks <= query.from
      BY <1>2, <1>3, <1>4
    <3> QED BY <1>2, <1>3, <1>4, <3>1
  <2>4. query.to <= to * Ticks
    <3>1. ~(to < last)
      BY <1>2, <1>3
    <3> QED BY <1>2, <1>3, <1>4, <3>1
  <2>5. from * Ticks <= t /\ t < to * Ticks
    BY <1>3, <1>4, <1>5, <2>1, <2>3, <2>4
  <2>6. from <= second
    <3>1. from * Ticks < second * Ticks + Ticks
      BY <1>3, <1>4, <2>1, <2>2, <2>5
    <3>2. from * Ticks < (second + 1) * Ticks /\ second + 1 \in Int
      BY <1>4, <2>2, <3>1
    <3>3. from < second + 1
      BY <1>3, <1>4, <2>2, <3>2, MultipleGap
    <3> QED BY <1>3, <2>2, <3>3
  <2>7. second < to
    <3>1. second * Ticks < to * Ticks
      BY <1>3, <1>4, <2>1, <2>2, <2>5
    <3> QED BY <1>3, <1>4, <2>2, <3>1, MultipleGap
  <2>8. t \in SelectedRows
    BY <2>5 DEF SelectedRows, from, to
  <2>9. PointOf(second) < query.budget
    BY <1>1, <2>2, <2>6, <2>7, InAPoint DEF from, to
  <2> QED BY <2>8, <2>9 DEF second
<1>6. ASSUME NEW h \in hours, Overlaps(h)
      PROVE  /\ h \in SelectedHours
             /\ PointOf(h * Hour) = PointOf((h + 1) * Hour - 1)
             /\ PointOf(h * Hour) < query.budget
  <2> DEFINE a == h * Hour
             b == (h + 1) * Hour
  <2>1. h \in Nat
    BY <1>1
  <2>2. a \in Int /\ b \in Int /\ b = a + Hour /\ Multiple(a, Hour) /\ Multiple(b, Hour)
    BY <2>1, WholeHour
  <2>3. a < last /\ first < b
    BY <1>1, <1>6, <2>1, OverlapInSeconds
  <2>4. step >= Hour
    BY <1>6 DEF Good
  <2>5. Multiple(step, Hour) /\ Hour \in Nat \ {0} /\ step \in Int
    BY <1>1, <1>4, <2>4, Hours
  <2>6. Multiple(from, Hour)
    BY <1>3, <2>5, MultipleOfMultiple
  <2> HIDE DEF a, b, first, last, from, to
  <2>7. PICK k \in Int, j \in Int, i \in Int : a = k * Hour /\ from = j * Hour /\ step = i * Hour
    BY <2>2, <2>5, <2>6 DEF Multiple
  <2>8. from <= a
    <3>1. from < b
      BY <1>2, <1>3, <2>2, <2>3
    <3>2. b = (k + 1) * Hour /\ k + 1 \in Int
      BY <2>2, <2>5, <2>7
    <3>3. from + Hour <= b
      BY <2>5, <2>7, <3>1, <3>2, MultipleGap
    <3> QED BY <1>3, <2>2, <2>5, <3>3
  <2>9. a < to
    BY <1>2, <1>3, <2>2, <2>3
  <2>10. h \in SelectedHours
    BY <2>8, <2>9 DEF SelectedHours, a, from, to
  <2>11. PointOf(a) < query.budget
    BY <1>1, <2>2, <2>8, <2>9, InAPoint DEF from, to
  <2>12. PointOf(a) = PointOf(b - 1)
    <3> DEFINE o == a - from
               p == o \div step
               e == b - 1 - from
    <3>1. o \in Int /\ e \in Int /\ e = o + Hour - 1
      BY <1>3, <2>2, <2>5
    <3>2. o = (k - j) * Hour /\ k - j \in Int
      BY <2>5, <2>7
    <3> HIDE DEF o, e
    <3>3. p \in Int /\ p * step <= o /\ o < p * step + step
      BY <1>4, <3>1, DivIsFloor
    <3> HIDE DEF p
    <3>4. p * step + step = ((p + 1) * i) * Hour /\ (p + 1) * i \in Int
      BY <2>5, <2>7, <3>3
    <3>5. o + Hour <= p * step + step
      <4> DEFINE x == k - j
                 y == (p + 1) * i
      <4>1. x \in Int /\ y \in Int /\ x * Hour < y * Hour
        BY <3>2, <3>3, <3>4
      <4> HIDE DEF x, y
      <4>2. x * Hour + Hour <= y * Hour
        BY <2>5, <4>1, MultipleGap
      <4> QED BY <3>2, <3>4, <4>2 DEF x, y
    <3>6. p * step <= e /\ e < p * step + step
      BY <1>4, <2>5, <3>1, <3>3, <3>5
    <3>7. e \div step = p
      BY <1>4, <3>1, <3>3, <3>6, FloorIsDiv
    <3> QED BY <3>7 DEF PointOf, p, o, e, from
  <2> QED BY <2>10, <2>11, <2>12 DEF a, b
<1> QED BY <1>5, <1>6

LEMMA ChartInvIsEnough == ChartInv => ChartTrue
<1> SUFFICES ASSUME ChartInv PROVE ChartTrue
  OBVIOUS
<1>1. EverySampleShown
  <2> SUFFICES ASSUME phase = "done" PROVE EverySampleShown
    BY DEF EverySampleShown
  <2>1. Searched /\ Good(step)
    BY DEF ChartInv, Searched
  <2> QED BY <2>1, ShownOfGoodStep DEF EverySampleShown
<1>2. FinestStep
  <2>1. CASE phase = "done"
    <3>1. Searched
      BY <2>1 DEF ChartInv
    <3> QED BY <2>1, <3>1 DEF Searched, FinestStep
  <2>2. CASE phase = "failed"
    <3>1. Searched
      BY <2>2 DEF ChartInv
    <3>2. ASSUME NEW s \in Steps PROVE ~Good(s)
      <4>1. s <= step /\ step \in Steps
        BY <2>2, <3>1 DEF Searched
      <4>2. s < step \/ s = step
        BY <4>1
      <4> QED BY <2>2, <3>1, <4>2 DEF Searched
    <3> QED BY <2>2, <3>2 DEF FinestStep
  <2> QED BY <2>1, <2>2 DEF FinestStep
<1> QED BY <1>1, <1>2 DEF ChartTrue

LEMMA ChartStutters ==
  ASSUME ChartInv, UNCHANGED chart
  PROVE  ChartInv'
BY DEF ChartInv, Searched, chart, Good, Fits, Points, FromEpoch, ToEpoch, Up, Down, Second, ToSeconds, Overlaps, Query, Instants

\* The chart that is drawn shows every sample of the range, each hour in one point, at
\* the finest step that allows it, whatever the steps, the range, the rows, the merged
\* hours and the budget of points: history_series of store.rs.
THEOREM ChartOnItsOwn == ChartSpec => []ChartTrue
<1>1. ChartInit => ChartInv
  BY SearchBegins
<1>2. ChartInv /\ [Search]_chart => ChartInv'
  BY SearchGoesOn, ChartStutters
<1>3. ChartInv => ChartTrue
  BY ChartInvIsEnough
<1> QED BY <1>1, <1>2, <1>3, PTL DEF ChartSpec

\* The same of the chart or the log that is asked for.
THEOREM ChartIsTrue == MCSpec => []ChartTrue
<1>1. ChartAsked \/ LogAsked => ChartInv
  BY SearchBegins DEF ChartAsked, LogAsked, ChartInv
<1>2. ChartInv /\ [MCNext]_<<chart, log>> => ChartInv'
  <2> SUFFICES ASSUME ChartInv, [MCNext]_<<chart, log>> PROVE ChartInv'
    OBVIOUS
  <2>1. Search \/ UNCHANGED chart
    BY DEF MCNext, Search
  <2> QED BY <2>1, SearchGoesOn, ChartStutters
<1>3. ChartInv => ChartTrue
  BY ChartInvIsEnough
<1> QED BY <1>1, <1>2, <1>3, PTL DEF MCSpec

-----------------------------------------------------------------------------
\* The log by days.

USE LogAssumption

LEMMA LeastOfBounded ==
  ASSUME NEW S \in SUBSET Int, S # {}, NEW b \in Int, \A x \in S : b <= x
  PROVE  \E x \in S : \A y \in S : x <= y
<1> DEFINE gaps == {x - b : x \in S}
<1>1. gaps \in SUBSET Nat
  <2> SUFFICES ASSUME NEW x \in S PROVE x - b \in Nat
    OBVIOUS
  <2> QED OBVIOUS
<1>0. gaps # {}
  OBVIOUS
<1> HIDE DEF gaps
<1>2. PICK g \in gaps : \A h \in gaps : g <= h
  BY <1>0, <1>1, LeastExists
<1>3. PICK x \in S : g = x - b
  BY DEF gaps
<1>4. ASSUME NEW y \in S PROVE x <= y
  <2>1. y - b \in gaps
    BY DEF gaps
  <2> QED BY <1>2, <1>3, <2>1
<1> QED BY <1>4

LEMMA Clocks ==
  ASSUME zone \in MCZones
  PROVE  /\ zone.at \in Int /\ zone.before \in (-Day)..Day /\ zone.after \in (-Day)..Day
         /\ zone.after - zone.before \in (-Day)..Day
         /\ \A t \in Int : /\ Log!LocalTime(t) = t + (IF t < zone.at THEN zone.before ELSE zone.after)
                           /\ Log!LocalTime(t) \in Int
                           /\ t - Day <= Log!LocalTime(t) /\ Log!LocalTime(t) <= t + Day
<1>1. /\ zone.at \in Int /\ zone.before \in (-Day)..Day /\ zone.after \in (-Day)..Day
      /\ zone.after - zone.before \in (-Day)..Day
  BY DEF MCZones
<1>2. ASSUME NEW t \in Int
      PROVE  /\ Log!LocalTime(t) = t + (IF t < zone.at THEN zone.before ELSE zone.after)
             /\ Log!LocalTime(t) \in Int
             /\ t - Day <= Log!LocalTime(t) /\ Log!LocalTime(t) <= t + Day
  BY <1>1 DEF Log!LocalTime, Log!Offset
<1> QED BY <1>1, <1>2

\* A date and the next are Day ticks apart, and those of the log are within reach.
LEMMA Dates ==
  ASSUME NEW d \in 1..(LastDate + 1)
  PROVE  /\ d * Day \in Int /\ Day <= d * Day /\ d * Day <= (LastDate + 1) * Day
         /\ (LastDate + 1) * Day \in Int
         /\ (LastDate + 4) * Day = (LastDate + 1) * Day + 3 * Day
<1>1. d \in Nat \ {0} /\ d <= LastDate + 1
  OBVIOUS
<1>2. (LastDate + 1 - d) * Day >= 0 /\ (d - 1) * Day >= 0
  BY <1>1
<1> QED BY <1>1, <1>2

\* However the clocks are changed, a date starts at the first instant at which they
\* show that date or a later one.
LEMMA StartOfDay ==
  ASSUME zone \in MCZones, NEW d \in 1..(LastDate + 1)
  PROVE  /\ Log!HasStart(d)
         /\ Log!LocalDayStart(d) \in Log!Instants
         /\ Log!LocalTime(Log!LocalDayStart(d)) >= d * Day
         /\ \A u \in Log!Instants : u < Log!LocalDayStart(d) => Log!LocalTime(u) < d * Day
<1> DEFINE D == d * Day
           low == -2 * Day
           high == (LastDate + 4) * Day
           reached == {u \in low..high : Log!LocalTime(u) >= D}
<1>1. D \in Int /\ Day <= D /\ low \in Int /\ high \in Int /\ D + 3 * Day <= high /\ Day \in Nat \ {0}
      /\ low = -(2 * Day)
  BY Dates
<1>2. /\ zone.at \in Int /\ zone.before \in (-Day)..Day /\ zone.after \in (-Day)..Day
      /\ zone.after - zone.before \in (-Day)..Day
      /\ \A t \in Int : /\ Log!LocalTime(t) = t + (IF t < zone.at THEN zone.before ELSE zone.after)
                        /\ Log!LocalTime(t) \in Int
                        /\ t - Day <= Log!LocalTime(t) /\ Log!LocalTime(t) <= t + Day
  BY Clocks
<1>3. Log!Instants = low..high
  BY DEF Log!Instants
<1>4. \A k \in Log!Searched : Log!FromLocal(D + k) = {t \in low..high : Log!LocalTime(t) = D + k}
  BY <1>3 DEF Log!FromLocal
<1>5. Log!Searched = 0..Day
  BY DEF Log!Searched
<1> HIDE DEF D, low, high
<1>6. PICK u \in reached : \A t \in reached : u <= t
  <2>1. high \in reached
    BY <1>1, <1>2
  <2>2. reached \in SUBSET Int /\ \A t \in reached : low <= t
    BY <1>1
  <2> HIDE DEF reached
  <2> QED BY <1>1, <2>1, <2>2, LeastOfBounded
<1>7. u \in low..high /\ Log!LocalTime(u) >= D /\ u \in Int
  BY <1>1
<1>8. ASSUME NEW t \in low..high, t < u PROVE Log!LocalTime(t) < D
  <2>1. t \in Int /\ Log!LocalTime(t) \in Int
    BY <1>1, <1>2
  <2> QED BY <1>1, <1>6, <1>7, <1>8, <2>1
<1>9. u - 1 \in low..high /\ Log!LocalTime(u - 1) < D
  <2>1. u # low
    BY <1>1, <1>2, <1>7
  <2>2. u - 1 \in low..high
    BY <1>1, <1>7, <2>1
  <2> QED BY <1>7, <1>8, <2>2
<1> DEFINE now == Log!LocalTime(u)
           then == Log!LocalTime(u - 1)
           c == now - D
<1>0. /\ now \in Int /\ then \in Int /\ then < D /\ D <= now
      /\ now - then <= Day + 1
      /\ now > then + 1 => u = zone.at
  <2>1. u - 1 \in Int
    BY <1>7
  <2>2. now = u + (IF u < zone.at THEN zone.before ELSE zone.after) /\ now \in Int
    BY <1>2, <1>7
  <2>3. then = u - 1 + (IF u - 1 < zone.at THEN zone.before ELSE zone.after) /\ then \in Int
    BY <1>2, <2>1
  <2>4. then < D /\ D <= now
    BY <1>7, <1>9
  <2> DEFINE at == zone.at
             before == zone.before
             after == zone.after
  <2>5. at \in Int /\ before \in Int /\ after \in Int /\ after - before <= Day
    BY <1>2
  <2> HIDE DEF now, then, at, before, after
  <2>6. CASE u < at
    <3>1. now = u + before /\ then = u - 1 + before
      BY <1>7, <2>2, <2>3, <2>5, <2>6 DEF at, before, after
    <3> QED BY <1>1, <1>7, <2>2, <2>3, <2>4, <2>5, <3>1
  <2>7. CASE u = at
    <3>1. now = u + after /\ then = u - 1 + before
      BY <1>7, <2>2, <2>3, <2>5, <2>7 DEF at, before, after
    <3> QED BY <1>1, <1>7, <2>2, <2>3, <2>4, <2>5, <2>7, <3>1 DEF at
  <2>8. CASE u > at
    <3>1. now = u + after /\ then = u - 1 + after
      BY <1>7, <2>2, <2>3, <2>5, <2>8 DEF at, before, after
    <3> QED BY <1>1, <1>7, <2>2, <2>3, <2>4, <2>5, <3>1
  <2> QED BY <1>7, <2>5, <2>6, <2>7, <2>8
<1>10. c \in 0..Day
  <2> HIDE DEF now, then
  <2> QED BY <1>0, <1>1
<1>11. ASSUME NEW k \in 0..Day, k < c PROVE {t \in low..high : Log!LocalTime(t) = D + k} = {}
  <2> SUFFICES ASSUME NEW t \in low..high, Log!LocalTime(t) = D + k PROVE FALSE
    OBVIOUS
  <2>1. t \in Int /\ t >= u
    BY <1>1, <1>7, <1>8
  <2>2. u = zone.at
    <3> HIDE DEF now, then
    <3> QED BY <1>0, <1>1, <1>11
  <2>3. Log!LocalTime(t) = t + zone.after /\ now = u + zone.after
    BY <1>2, <1>7, <2>1, <2>2
  <2> HIDE DEF now, then
  <2> QED BY <1>0, <1>1, <1>2, <1>7, <1>11, <2>1, <2>3
<1> DEFINE exists == {k \in 0..Day : {t \in low..high : Log!LocalTime(t) = D + k} # {}}
           same == {t \in low..high : Log!LocalTime(t) = D + c}
<1>12. D + c = Log!LocalTime(u) /\ u \in same
  BY <1>1, <1>2, <1>7
<1>13. c \in exists /\ \A k \in exists : c <= k
  BY <1>10, <1>11, <1>12
<1>14. Log!Least(exists) = c
  <2> HIDE DEF exists, c
  <2>1. exists \in SUBSET Int
    BY DEF exists
  <2> DEFINE m == Log!Least(exists)
  <2>2. m \in exists /\ \A k \in exists : m <= k
    BY <1>13 DEF Log!Least
  <2> HIDE DEF m
  <2>3. m = c
    BY <1>13, <2>1, <2>2
  <2> QED BY <2>3 DEF m
<1>15. \A t \in same : u <= t
  <2> SUFFICES ASSUME NEW t \in same PROVE u <= t
    OBVIOUS
  <2>1. t \in Int /\ ~(t < u)
    BY <1>1, <1>7, <1>8, <1>10, <1>12
  <2> QED BY <1>7, <2>1
<1>16. Log!Least(same) = u
  <2> HIDE DEF same
  <2>1. same \in SUBSET Int
    BY <1>1 DEF same
  <2> DEFINE m == Log!Least(same)
  <2>2. m \in same /\ \A t \in same : m <= t
    BY <1>12, <1>15 DEF Log!Least
  <2> HIDE DEF m
  <2>3. m = u
    BY <1>7, <1>12, <1>15, <2>1, <2>2
  <2> QED BY <2>3 DEF m
<1>17. Log!HasStart(d)
  <2>1. c \in 0..Day /\ u \in {t \in low..high : Log!LocalTime(t) = D + c}
    BY <1>10, <1>12
  <2> QED BY <1>4, <1>5, <2>1 DEF Log!HasStart, D
<1>18. Log!LocalDayStart(d) = u
  <2>1. {k \in Log!Searched : Log!FromLocal(D + k) # {}} = exists
    BY <1>4, <1>5
  <2>2. Log!FromLocal(D + c) = same
    BY <1>4, <1>5, <1>10
  <2> HIDE DEF exists, same, c
  <2>3. Log!LocalDayStart(d) = Log!Earliest(Log!FromLocal(D + Log!Least(exists)))
    BY <2>1 DEF Log!LocalDayStart, D
  <2> QED BY <1>14, <1>16, <2>2, <2>3 DEF Log!Earliest
<1> QED BY <1>3, <1>7, <1>8, <1>17, <1>18 DEF D

\* A date is filed from its start on.
LEMMA FiledFromStart ==
  ASSUME zone \in MCZones, NEW t \in Log!Instants
  PROVE  /\ Log!FiledUnder(t) \in Int
         /\ \A d \in 1..(LastDate + 1) : Log!LocalDayStart(d) <= t <=> d <= Log!FiledUnder(t)
<1> DEFINE high == (LastDate + 4) * Day
           past == {v \in Log!Instants : v <= t}
           dated == {Log!LocalDate(u) : u \in past}
           f == Log!FiledUnder(t)
<1>1. Log!Instants \in SUBSET Int /\ (\A u \in Log!Instants : u <= high) /\ high \in Int
  BY DEF Log!Instants
<1>2. \A u \in Int : Log!LocalTime(u) \in Int /\ Log!LocalTime(u) <= u + Day
  BY Clocks
<1> HIDE DEF high
<1>3. ASSUME NEW u \in Log!Instants
      PROVE  /\ Log!LocalDate(u) \in Int /\ Log!LocalDate(u) <= LastDate + 5
             /\ Log!LocalDate(u) * Day <= Log!LocalTime(u)
             /\ Log!LocalTime(u) < (Log!LocalDate(u) + 1) * Day
  <2> DEFINE n == Log!LocalTime(u)
             q == n \div Day
  <2>1. n \in Int /\ u \in Int /\ n <= u + Day /\ u <= high
    BY <1>1, <1>2
  <2>2. Log!LocalDate(u) = q
    BY DEF Log!LocalDate
  <2> HIDE DEF n
  <2>3. q \in Int /\ q * Day <= n /\ n < q * Day + Day
    BY <2>1, DivIsFloor
  <2> HIDE DEF q
  <2>4. high + 2 * Day = (LastDate + 6) * Day /\ LastDate + 6 \in Int
    BY DEF high
  <2>5. q * Day < (LastDate + 6) * Day
    BY <1>1, <2>1, <2>3, <2>4
  <2>6. q < LastDate + 6
    BY <2>3, <2>4, <2>5, MultipleGap
  <2>7. (q + 1) * Day = q * Day + Day
    BY <2>3
  <2> QED BY <2>2, <2>3, <2>6, <2>7 DEF n
<1>4. dated \in SUBSET Int /\ dated # {} /\ \A x \in dated : x <= LastDate + 5
  <2>1. t \in past
    BY <1>1
  <2> QED BY <1>3, <2>1
<1>5. f \in dated /\ \A x \in dated : f >= x
  <2> HIDE DEF dated
  <2>1. LastDate + 5 \in Int
    OBVIOUS
  <2>2. \E x \in dated : \A y \in dated : y <= x
    BY <1>4, <2>1, GreatestExists
  <2>3. \E x \in dated : \A y \in dated : x >= y
    BY <1>4, <2>2
  <2>4. f = Log!Greatest(dated)
    BY DEF Log!FiledUnder, dated
  <2> QED BY <2>3, <2>4 DEF Log!Greatest
<1>6. PICK v \in past : f = Log!LocalDate(v)
  BY <1>5
<1>7. \A u \in past : Log!LocalDate(u) <= f
  BY <1>3, <1>4, <1>5
<1>8. f \in Int
  BY <1>4, <1>5
<1> HIDE DEF f, dated
<1>9. ASSUME NEW d \in 1..(LastDate + 1)
      PROVE  Log!LocalDayStart(d) <= t <=> d <= f
  <2> DEFINE u == Log!LocalDayStart(d)
             D == d * Day
  <2>1. /\ u \in Log!Instants /\ Log!LocalTime(u) >= D
        /\ \A w \in Log!Instants : w < u => Log!LocalTime(w) < D
    BY StartOfDay
  <2>2. d \in Int /\ D \in Int /\ u \in Int /\ t \in Int /\ v \in Int /\ v <= t
    <3>1. u \in Int /\ t \in Int /\ v \in Int /\ v <= t
      BY <1>1, <2>1
    <3>2. d \in Int /\ D \in Int
      OBVIOUS
    <3> QED BY <3>1, <3>2
  <2> HIDE DEF u, D
  <2>3. ASSUME u <= t PROVE d <= f
    <3>1. Log!LocalDate(u) <= f /\ Log!LocalDate(u) \in Int
      BY <1>3, <1>7, <2>1, <2>3
    <3> DEFINE q == Log!LocalDate(u)
    <3>2. Log!LocalTime(u) < (q + 1) * Day
      BY <1>3, <2>1
    <3> HIDE DEF q
    <3>3. q \in Int /\ d * Day < (q + 1) * Day
      BY <1>2, <2>1, <2>2, <3>1, <3>2 DEF q, D
    <3>4. d < q + 1
      BY <2>2, <3>3, MultipleGap
    <3> QED BY <1>8, <2>2, <3>1, <3>3, <3>4 DEF q
  <2>4. ASSUME d <= f PROVE u <= t
    <3>1. f * Day <= Log!LocalTime(v)
      BY <1>3, <1>6
    <3>2. d * Day <= f * Day
      BY <1>8, <2>2, <2>4
    <3>3. D <= Log!LocalTime(v)
      BY <1>2, <1>8, <2>2, <3>1, <3>2 DEF D
    <3>4. ~(v < u)
      BY <1>2, <2>1, <2>2, <3>3
    <3> QED BY <2>2, <3>4
  <2> QED BY <2>3, <2>4 DEF u
<1> QED BY <1>8, <1>9 DEF f

Answer ==
  IF Log!Accepted
    THEN [from |-> Log!LocalDayStart(dates.start), to |-> Log!LocalDayStart(dates.end + 1)]
    ELSE Refused

LogInv ==
  range # Unknown =>
    /\ zone \in MCZones
    /\ dates \in [start : 1..LastDate, end : 1..LastDate]
    /\ range = Answer

LogTyped ==
  zone # Unknown =>
    zone \in MCZones /\ dates \in [start : 1..LastDate, end : 1..LastDate]

LEMMA LogInvIsEnough == LogInv => WholeDays
<1> SUFFICES ASSUME LogInv, range # Unknown PROVE WholeDays
  BY DEF WholeDays, Log!WholeDays
<1> DEFINE a == dates.start
           b == dates.end
<1>1. zone \in MCZones /\ dates \in [start : 1..LastDate, end : 1..LastDate] /\ range = Answer
  BY DEF LogInv
<1>2. a \in 1..LastDate /\ b \in 1..LastDate
  BY <1>1
<1>3. \A d \in {a, b} : d \in 1..(LastDate + 1) /\ d + 1 \in 1..(LastDate + 1)
  BY <1>2
<1>4. Log!Accepted <=> a <= b
  BY <1>1, <1>3, StartOfDay DEF Log!Accepted
<1>5. CASE a > b
  <2>1. range = Refused
    BY <1>1, <1>2, <1>4, <1>5 DEF Answer
  <2> QED BY <1>5, <2>1 DEF WholeDays, Log!WholeDays
<1>6. CASE ~(a > b)
  <2> DEFINE from == Log!LocalDayStart(a)
             to == Log!LocalDayStart(b + 1)
  <2>1. range = [from |-> from, to |-> to]
    BY <1>1, <1>2, <1>4, <1>6 DEF Answer
  <2>2. from \in Log!Instants /\ to \in Log!Instants
    BY <1>1, <1>3, StartOfDay
  <2>3. from \in Int /\ to \in Int
    BY <2>2 DEF Log!Instants
  <2> HIDE DEF from, to
  <2>4. range # Refused
    BY <2>1, <2>3
  <2>5. ASSUME NEW t \in Log!Instants
        PROVE  Log!Logged(t) <=> Log!FiledUnder(t) \in a..b
    <3> DEFINE f == Log!FiledUnder(t)
    <3>1. /\ f \in Int
          /\ \A d \in 1..(LastDate + 1) : Log!LocalDayStart(d) <= t <=> d <= f
      BY <1>1, FiledFromStart
    <3> HIDE DEF f
    <3>2. (from <= t <=> a <= f) /\ (to <= t <=> b + 1 <= f)
      BY <1>3, <3>1 DEF from, to
    <3>3. t \in Int
      BY DEF Log!Instants
    <3>4. Log!Logged(t) <=> from <= t /\ t < to
      BY <2>1 DEF Log!Logged
    <3>5. t < to <=> f <= b
      BY <1>2, <2>3, <3>1, <3>2, <3>3
    <3> QED BY <1>2, <3>1, <3>2, <3>4, <3>5 DEF f
  <2> QED BY <1>6, <2>4, <2>5 DEF WholeDays, Log!WholeDays
<1> QED BY <1>5, <1>6

\* A range of dates of the report log holds the reports filed under its dates, all of
\* them and no others, whichever way and how far the clocks are changed, for any
\* length of a day and any dates: server_day_bounds and local_day_start of http.rs.
THEOREM LogDaysAreWhole == MCSpec => []WholeDays
<1>1. ChartAsked \/ LogAsked => LogInv /\ LogTyped
  BY DEF ChartAsked, LogAsked, Log!Init, LogInv, LogTyped
<1>2. LogInv /\ LogTyped /\ [MCNext]_<<chart, log>> => (LogInv /\ LogTyped)'
  <2> SUFFICES ASSUME LogInv, LogTyped, [MCNext]_<<chart, log>> PROVE (LogInv /\ LogTyped)'
    OBVIOUS
  <2>1. UNCHANGED <<zone, dates>>
    BY DEF MCNext, log, Log!HostReports
  <2>2. LogTyped'
    BY <2>1 DEF LogTyped
  <2>3. Answer' = Answer
    BY <2>1 DEF Answer, Log!Accepted, Log!HasStart, Log!LocalDayStart, Log!FromLocal, Log!Searched,
       Log!LocalTime, Log!Offset, Log!Instants, Log!Earliest, Log!Least
  <2>4. CASE UNCHANGED log
    <3>1. range' = range
      BY <2>4 DEF log
    <3>2. range # Unknown => zone \in MCZones /\ dates \in [start : 1..LastDate, end : 1..LastDate] /\ range = Answer
      BY DEF LogInv
    <3>3. range' # Unknown => zone' \in MCZones /\ dates' \in [start : 1..LastDate, end : 1..LastDate] /\ range' = Answer'
      BY <2>1, <2>3, <3>1, <3>2
    <3>4. LogInv'
      BY <3>3 DEF LogInv
    <3> QED BY <2>2, <3>4
  <2>5. CASE zone # Unknown /\ Log!HostReports
    <3>1. range' = Answer
      BY <2>5 DEF Log!HostReports, Answer
    <3> QED BY <2>1, <2>3, <2>5, <3>1 DEF LogInv, LogTyped
  <2> QED BY <2>4, <2>5 DEF MCNext, log
<1>3. LogInv => WholeDays
  BY LogInvIsEnough
<1> QED BY <1>1, <1>2, <1>3, PTL DEF MCSpec
=============================================================================
