------------------------ MODULE ReportHistoryProofs ------------------------
(***************************************************************************)
(* Proofs about ReportHistory, for any hosts, reports, clock and settings. *)
(*                                                                         *)
(* The inductive invariant Inv of the rows and the hosts adds to the       *)
(* checked ones that the report a host points to belongs to its current    *)
(* client, and that no row was received in the future.  HourInv is that of *)
(* the aggregates: each lies in its hour, has a scalar that samples make,  *)
(* and covers the merged rows that are still there and young.              *)
(*                                                                         *)
(* What an hour shows is a matter of folds over sets of reports.  They are *)
(* unfolded step by step first, so that the rest needs no recursion.       *)
(***************************************************************************)
EXTENDS ReportHistory, FiniteSetTheorems, WellFoundedInduction, TLAPS

-----------------------------------------------------------------------------
(* Sets of numbers and of reports.                                         *)

\* Of the intervals up to the members of a set of numbers, one has no other
\* inside it.
LEMMA LeastExists ==
  ASSUME NEW S \in SUBSET Nat, S # {}
  PROVE  \E x \in S : \A y \in S : x <= y
<1> DEFINE upTo == {0..x : x \in S}
<1>1. upTo # {}
  OBVIOUS
<1>2. upTo \subseteq FiniteSubsetsOf(Nat)
  <2>1. ASSUME NEW x \in S PROVE IsFiniteSet(0..x) /\ 0..x \subseteq Nat
    BY FS_Interval
  <2> QED BY <2>1 DEF FiniteSubsetsOf
<1>3. PICK A \in upTo : \A B \in upTo : ~(<<B, A>> \in StrictSubsetOrdering(Nat))
  <2>1. IsWellFoundedOn(StrictSubsetOrdering(Nat), FiniteSubsetsOf(Nat))
    BY FS_StrictSubsetOrderingWellFounded
  <2> HIDE DEF upTo
  <2> QED BY <1>1, <1>2, <2>1, WFMin
<1>4. PICK x \in S : A = 0..x
  BY <1>3
<1>5. ASSUME NEW y \in S PROVE x <= y
  <2> SUFFICES ASSUME y < x PROVE FALSE
    OBVIOUS
  <2>1. 0..y \in upTo
    OBVIOUS
  <2>2. 0..y \subseteq 0..x /\ 0..y # 0..x
    <3>1. x \in 0..x /\ x \notin 0..y
      OBVIOUS
    <3> QED BY <3>1
  <2>3. <<0..y, 0..x>> \in StrictSubsetOrdering(Nat)
    BY <2>2 DEF StrictSubsetOrdering
  <2> QED BY <1>3, <1>4, <2>1, <2>3
<1> QED BY <1>5

\* The least and the greatest of a set of numbers that has a bound.
LEMMA Extremes ==
  ASSUME NEW S \in SUBSET Nat, S # {}, NEW b \in Nat, \A x \in S : x <= b
  PROVE  /\ Min(S) \in S /\ \A x \in S : Min(S) <= x
         /\ Max(S) \in S /\ \A x \in S : x <= Max(S)
<1>1. \E x \in S : \A y \in S : x <= y
  BY LeastExists
<1>2. \E x \in S : \A y \in S : x >= y
  <2> DEFINE gaps == {b - x : x \in S}
  <2>1. gaps \subseteq Nat
    <3>1. ASSUME NEW x \in S PROVE b - x \in Nat
      OBVIOUS
    <3> QED BY <3>1
  <2>2. gaps # {}
    OBVIOUS
  <2> HIDE DEF gaps
  <2>3. PICK g \in gaps : \A h \in gaps : g <= h
    BY <2>1, <2>2, LeastExists
  <2>4. PICK x \in S : g = b - x
    BY DEF gaps
  <2>5. ASSUME NEW y \in S PROVE x >= y
    <3>1. b - y \in gaps
      BY DEF gaps
    <3> QED BY <2>3, <2>4, <3>1
  <2> QED BY <2>5
<1>3. Min(S) \in S /\ \A x \in S : Min(S) <= x
  BY <1>1 DEF Min
<1>4. Max(S) \in S /\ \A x \in S : Max(S) >= x
  BY <1>2 DEF Max
<1>5. ASSUME NEW x \in S PROVE x <= Max(S)
  BY <1>4
<1> QED BY <1>3, <1>4, <1>5

\* There is one least and one greatest.
LEMMA ExtremesAre ==
  ASSUME NEW S \in SUBSET Nat, NEW m \in S
  PROVE  /\ (\A x \in S : m <= x) => Min(S) = m
         /\ (\A x \in S : x <= m) => Max(S) = m
<1>1. ASSUME \A x \in S : m <= x PROVE Min(S) = m
  <2>1. Min(S) \in S /\ \A x \in S : Min(S) <= x
    BY <1>1 DEF Min
  <2> HIDE DEF Min
  <2>2. Min(S) \in Nat /\ Min(S) <= m /\ m <= Min(S)
    BY <1>1, <2>1
  <2> QED BY <2>2
<1>2. ASSUME \A x \in S : x <= m PROVE Max(S) = m
  <2>1. \A x \in S : m >= x
    BY <1>2
  <2>2. Max(S) \in S /\ \A x \in S : Max(S) >= x
    BY <2>1 DEF Max
  <2> HIDE DEF Max
  <2>3. Max(S) \in Nat /\ Max(S) <= m /\ m <= Max(S)
    BY <1>2, <2>2
  <2> QED BY <2>3
<1> QED BY <1>1, <1>2

\* Sets of reports of which all are good if a set is good whose smaller subsets are.
LEMMA AllSubsets ==
  ASSUME NEW good \in SUBSET SUBSET Reports,
         \A S \in SUBSET Reports : (\A T \in SUBSET S : T # S => T \in good) => S \in good
  PROVE  good = SUBSET Reports
<1> DEFINE bad == (SUBSET Reports) \ good
<1> SUFFICES ASSUME bad # {} PROVE FALSE
  OBVIOUS
<1>1. bad \subseteq FiniteSubsetsOf(Reports)
  <2>1. ASSUME NEW T \in SUBSET Reports PROVE IsFiniteSet(T)
    BY ReportsAssumption, FS_Subset
  <2> QED BY <2>1 DEF FiniteSubsetsOf
<1>2. PICK S \in bad : \A T \in bad : ~(<<T, S>> \in StrictSubsetOrdering(Reports))
  <2>1. IsWellFoundedOn(StrictSubsetOrdering(Reports), FiniteSubsetsOf(Reports))
    BY FS_StrictSubsetOrderingWellFounded
  <2> HIDE DEF bad
  <2> QED BY <1>1, <2>1, WFMin
<1>3. ASSUME NEW T \in SUBSET S, T # S PROVE T \in good
  <2>1. <<T, S>> \in StrictSubsetOrdering(Reports)
    BY <1>3 DEF StrictSubsetOrdering
  <2> QED BY <1>2, <2>1
<1> QED BY <1>3

LEMMA Finite ==
  ASSUME NEW S \in SUBSET Reports
  PROVE  IsFiniteSet(S) /\ Cardinality(S) \in Nat
BY ReportsAssumption, FS_Subset, FS_CardinalityType

-----------------------------------------------------------------------------
(* The folds of ReportHistory, step by step.                               *)

Pick(S) == CHOOSE x \in S : TRUE

\* The scalar of a set of reports, as MergedScalars folds it.
Recorded(S) == FoldSet(LAMBDA r, scalar : Record(scalar, Metric[r]), NoScalar, S)
Recording(f, sets) == f = [S \in sets |->
  IF S = {} THEN NoScalar ELSE Record(f[S \ {Pick(S)}], Metric[Pick(S)])]

\* The sum of a set of reports, as Tally adds it.
Sum(S) == MapThenSumSet(LAMBDA r : Metric[r], S)
Summing(f, sets) == f = [S \in sets |->
  IF S = {} THEN 0 ELSE Metric[Pick(S)] + f[S \ {Pick(S)}]]

LEMMA PickIn == ASSUME NEW S, S # {} PROVE Pick(S) \in S
BY DEF Pick

\* The sets of at most so many reports.
Small(n) == {S \in SUBSET Reports : Cardinality(S) <= n}

LEMMA OneLess ==
  ASSUME NEW n \in Nat, NEW S \in Small(n), S # {}
  PROVE  n # 0 /\ S \ {Pick(S)} \in Small(n - 1)
<1>1. Pick(S) \in S /\ S \in SUBSET Reports
  BY PickIn DEF Small
<1>2. IsFiniteSet(S) /\ Cardinality(S) \in Nat /\ Cardinality(S) <= n
  BY <1>1, Finite DEF Small
<1>3. Cardinality(S) # 0
  BY <1>2, FS_EmptySet, Zenon
<1>4. Cardinality(S \ {Pick(S)}) = Cardinality(S) - 1
  BY <1>1, <1>2, FS_RemoveElement
<1> QED BY <1>1, <1>2, <1>3, <1>4 DEF Small

\* A fold of sets up to one size is extended to those with one element more.
LEMMA RecordingGrows ==
  ASSUME NEW n \in Nat \ {0}, NEW g, Recording(g, Small(n - 1))
  PROVE  \E f : Recording(f, Small(n))
<1> DEFINE f == [S \in Small(n) |->
                   IF S = {} THEN NoScalar ELSE Record(g[S \ {Pick(S)}], Metric[Pick(S)])]
<1>1. ASSUME NEW S \in Small(n - 1) PROVE f[S] = g[S]
  <2>1. S \in Small(n)
    BY Finite DEF Small
  <2>2. f[S] = IF S = {} THEN NoScalar ELSE Record(g[S \ {Pick(S)}], Metric[Pick(S)])
    BY <2>1, Zenon
  <2>3. g[S] = IF S = {} THEN NoScalar ELSE Record(g[S \ {Pick(S)}], Metric[Pick(S)])
    BY Zenon DEF Recording
  <2> QED BY <2>2, <2>3, Zenon
<1>2. ASSUME NEW S \in Small(n), S # {} PROVE f[S \ {Pick(S)}] = g[S \ {Pick(S)}]
  BY <1>1, <1>2, OneLess
<1>3. f = [S \in Small(n) |->
             IF S = {} THEN NoScalar ELSE Record(f[S \ {Pick(S)}], Metric[Pick(S)])]
  <2>1. ASSUME NEW S \in Small(n)
        PROVE  (IF S = {} THEN NoScalar ELSE Record(g[S \ {Pick(S)}], Metric[Pick(S)]))
               = (IF S = {} THEN NoScalar ELSE Record(f[S \ {Pick(S)}], Metric[Pick(S)]))
    BY <1>2, Zenon
  <2> QED BY <2>1, Zenon
<1>4. Recording(f, Small(n))
  BY <1>3, Zenon DEF Recording
<1> QED BY <1>4, Zenon

LEMMA RecordingExists == \E f : Recording(f, SUBSET Reports)
<1> DEFINE fails == {n \in Nat : ~\E f : Recording(f, Small(n))}
<1>1. fails = {}
  <2> SUFFICES ASSUME fails # {} PROVE FALSE
    OBVIOUS
  <2>1. PICK n \in fails : \A m \in fails : n <= m
    <3>1. fails \in SUBSET Nat
      OBVIOUS
    <3> HIDE DEF fails
    <3> QED BY <3>1, LeastExists
  <2>2. n # 0
    <3> SUFFICES \E f : Recording(f, Small(0))
      OBVIOUS
    <3> DEFINE f == [S \in Small(0) |-> NoScalar]
    <3>1. ASSUME NEW S \in Small(0) PROVE S = {}
      <4>1. 0 \in Nat
        OBVIOUS
      <4> QED BY <4>1, OneLess, Zenon
    <3>2. f = [S \in Small(0) |->
                IF S = {} THEN NoScalar ELSE Record(f[S \ {Pick(S)}], Metric[Pick(S)])]
      BY <3>1, Zenon
    <3>3. Recording(f, Small(0))
      BY <3>2, Zenon DEF Recording
    <3> QED BY <3>3, Zenon
  <2>3. n \in Nat \ {0} /\ n - 1 \in Nat /\ ~(n <= n - 1)
    BY <2>2
  <2>4. n - 1 \notin fails
    BY <2>1, <2>3
  <2>5. PICK g : Recording(g, Small(n - 1))
    BY <2>3, <2>4
  <2>6. \E f : Recording(f, Small(n))
    BY <2>3, <2>5, RecordingGrows
  <2> QED BY <2>1, <2>6
<1>2. Cardinality(Reports) \in Nat
  BY ReportsAssumption, FS_CardinalityType
<1>3. Small(Cardinality(Reports)) = SUBSET Reports
  BY ReportsAssumption, FS_Subset DEF Small
<1> QED BY <1>1, <1>2, <1>3

\* A fold over one set takes the steps of the fold over all.
LEMMA RecordingIsOne ==
  ASSUME NEW f, Recording(f, SUBSET Reports), NEW S \in SUBSET Reports,
         NEW g, Recording(g, SUBSET S)
  PROVE  g[S] = f[S]
<1> DEFINE good == {T \in SUBSET Reports : T \subseteq S => g[T] = f[T]}
<1>1. ASSUME NEW T \in SUBSET Reports, \A U \in SUBSET T : U # T => U \in good
      PROVE  T \in good
  <2> SUFFICES ASSUME T \subseteq S PROVE g[T] = f[T]
    OBVIOUS
  <2>1. g[T] = IF T = {} THEN NoScalar ELSE Record(g[T \ {Pick(T)}], Metric[Pick(T)])
    BY Zenon DEF Recording
  <2>2. f[T] = IF T = {} THEN NoScalar ELSE Record(f[T \ {Pick(T)}], Metric[Pick(T)])
    BY Zenon DEF Recording
  <2>3. T # {} => g[T \ {Pick(T)}] = f[T \ {Pick(T)}]
    BY <1>1, PickIn
  <2> QED BY <2>1, <2>2, <2>3, Zenon
<1>2. good = SUBSET Reports
  <2>1. good \in SUBSET SUBSET Reports
    OBVIOUS
  <2> HIDE DEF good
  <2> QED BY <1>1, <2>1, AllSubsets
<1> QED BY <1>2

LEMMA RecordedSteps ==
  /\ Recorded({}) = NoScalar
  /\ \A S \in SUBSET Reports : S # {} =>
       Recorded(S) = Record(Recorded(S \ {Pick(S)}), Metric[Pick(S)])
<1>1. PICK f : Recording(f, SUBSET Reports)
  BY RecordingExists
<1>2. ASSUME NEW S \in SUBSET Reports PROVE Recorded(S) = f[S]
  <2> DEFINE chosen == CHOOSE g : Recording(g, SUBSET S)
             part == [T \in SUBSET S |-> f[T]]
  <2>1. part = [T \in SUBSET S |->
                 IF T = {} THEN NoScalar
                 ELSE Record(part[T \ {Pick(T)}], Metric[Pick(T)])]
    <3>1. ASSUME NEW T \in SUBSET S
          PROVE  f[T] = IF T = {} THEN NoScalar
                        ELSE Record(part[T \ {Pick(T)}], Metric[Pick(T)])
      <4>1. f[T] = IF T = {} THEN NoScalar ELSE Record(f[T \ {Pick(T)}], Metric[Pick(T)])
        BY <1>1, Zenon DEF Recording
      <4>2. part[T \ {Pick(T)}] = f[T \ {Pick(T)}]
        OBVIOUS
      <4> QED BY <4>1, <4>2, Zenon
    <3> QED BY <3>1, Zenon
  <2>2. Recording(part, SUBSET S)
    BY <2>1, Zenon DEF Recording
  <2>3. Recording(chosen, SUBSET S)
    BY <2>2, Zenon
  <2>4. Recorded(S) = chosen[S]
    BY Zenon DEF Recorded, FoldSet, MapThenFoldSet, Recording, Pick
  <2> HIDE DEF chosen
  <2> QED BY <1>1, <2>3, <2>4, RecordingIsOne
<1>3. ASSUME NEW S \in SUBSET Reports
      PROVE  f[S] = IF S = {} THEN NoScalar ELSE Record(f[S \ {Pick(S)}], Metric[Pick(S)])
  BY <1>1, Zenon DEF Recording
<1>4. Recorded({}) = NoScalar
  <2>1. {} \in SUBSET Reports
    OBVIOUS
  <2> QED BY <1>2, <1>3, <2>1, Zenon
<1>5. ASSUME NEW S \in SUBSET Reports, S # {}
      PROVE  Recorded(S) = Record(Recorded(S \ {Pick(S)}), Metric[Pick(S)])
  <2>1. S \ {Pick(S)} \in SUBSET Reports
    OBVIOUS
  <2> QED BY <1>2, <1>3, <1>5, <2>1, Zenon
<1> QED BY <1>4, <1>5

\* A fold of sets up to one size is extended to those with one element more.
LEMMA SummingGrows ==
  ASSUME NEW n \in Nat \ {0}, NEW g, Summing(g, Small(n - 1))
  PROVE  \E f : Summing(f, Small(n))
<1> DEFINE f == [S \in Small(n) |->
                   IF S = {} THEN 0 ELSE Metric[Pick(S)] + g[S \ {Pick(S)}]]
<1>1. ASSUME NEW S \in Small(n - 1) PROVE f[S] = g[S]
  <2>1. S \in Small(n)
    BY Finite DEF Small
  <2>2. f[S] = IF S = {} THEN 0 ELSE Metric[Pick(S)] + g[S \ {Pick(S)}]
    BY <2>1, Zenon
  <2>3. g[S] = IF S = {} THEN 0 ELSE Metric[Pick(S)] + g[S \ {Pick(S)}]
    BY Zenon DEF Summing
  <2> QED BY <2>2, <2>3, Zenon
<1>2. ASSUME NEW S \in Small(n), S # {} PROVE f[S \ {Pick(S)}] = g[S \ {Pick(S)}]
  BY <1>1, <1>2, OneLess
<1>3. f = [S \in Small(n) |->
             IF S = {} THEN 0 ELSE Metric[Pick(S)] + f[S \ {Pick(S)}]]
  <2>1. ASSUME NEW S \in Small(n)
        PROVE  (IF S = {} THEN 0 ELSE Metric[Pick(S)] + g[S \ {Pick(S)}])
               = (IF S = {} THEN 0 ELSE Metric[Pick(S)] + f[S \ {Pick(S)}])
    BY <1>2, Zenon
  <2> QED BY <2>1, Zenon
<1>4. Summing(f, Small(n))
  BY <1>3, Zenon DEF Summing
<1> QED BY <1>4, Zenon

LEMMA SummingExists == \E f : Summing(f, SUBSET Reports)
<1> DEFINE fails == {n \in Nat : ~\E f : Summing(f, Small(n))}
<1>1. fails = {}
  <2> SUFFICES ASSUME fails # {} PROVE FALSE
    OBVIOUS
  <2>1. PICK n \in fails : \A m \in fails : n <= m
    <3>1. fails \in SUBSET Nat
      OBVIOUS
    <3> HIDE DEF fails
    <3> QED BY <3>1, LeastExists
  <2>2. n # 0
    <3> SUFFICES \E f : Summing(f, Small(0))
      OBVIOUS
    <3> DEFINE f == [S \in Small(0) |-> 0]
    <3>1. ASSUME NEW S \in Small(0) PROVE S = {}
      <4>1. 0 \in Nat
        OBVIOUS
      <4> QED BY <4>1, OneLess, Zenon
    <3>2. f = [S \in Small(0) |->
                IF S = {} THEN 0 ELSE Metric[Pick(S)] + f[S \ {Pick(S)}]]
      BY <3>1, Zenon
    <3>3. Summing(f, Small(0))
      BY <3>2, Zenon DEF Summing
    <3> QED BY <3>3, Zenon
  <2>3. n \in Nat \ {0} /\ n - 1 \in Nat /\ ~(n <= n - 1)
    BY <2>2
  <2>4. n - 1 \notin fails
    BY <2>1, <2>3
  <2>5. PICK g : Summing(g, Small(n - 1))
    BY <2>3, <2>4
  <2>6. \E f : Summing(f, Small(n))
    BY <2>3, <2>5, SummingGrows
  <2> QED BY <2>1, <2>6
<1>2. Cardinality(Reports) \in Nat
  BY ReportsAssumption, FS_CardinalityType
<1>3. Small(Cardinality(Reports)) = SUBSET Reports
  BY ReportsAssumption, FS_Subset DEF Small
<1> QED BY <1>1, <1>2, <1>3

\* A fold over one set takes the steps of the fold over all.
LEMMA SummingIsOne ==
  ASSUME NEW f, Summing(f, SUBSET Reports), NEW S \in SUBSET Reports,
         NEW g, Summing(g, SUBSET S)
  PROVE  g[S] = f[S]
<1> DEFINE good == {T \in SUBSET Reports : T \subseteq S => g[T] = f[T]}
<1>1. ASSUME NEW T \in SUBSET Reports, \A U \in SUBSET T : U # T => U \in good
      PROVE  T \in good
  <2> SUFFICES ASSUME T \subseteq S PROVE g[T] = f[T]
    OBVIOUS
  <2>1. g[T] = IF T = {} THEN 0 ELSE Metric[Pick(T)] + g[T \ {Pick(T)}]
    BY Zenon DEF Summing
  <2>2. f[T] = IF T = {} THEN 0 ELSE Metric[Pick(T)] + f[T \ {Pick(T)}]
    BY Zenon DEF Summing
  <2>3. T # {} => g[T \ {Pick(T)}] = f[T \ {Pick(T)}]
    BY <1>1, PickIn
  <2> QED BY <2>1, <2>2, <2>3, Zenon
<1>2. good = SUBSET Reports
  <2>1. good \in SUBSET SUBSET Reports
    OBVIOUS
  <2> HIDE DEF good
  <2> QED BY <1>1, <2>1, AllSubsets
<1> QED BY <1>2

LEMMA SumSteps ==
  /\ Sum({}) = 0
  /\ \A S \in SUBSET Reports : S # {} =>
       Sum(S) = Metric[Pick(S)] + Sum(S \ {Pick(S)})
<1>1. PICK f : Summing(f, SUBSET Reports)
  BY SummingExists
<1>2. ASSUME NEW S \in SUBSET Reports PROVE Sum(S) = f[S]
  <2> DEFINE chosen == CHOOSE g : Summing(g, SUBSET S)
             part == [T \in SUBSET S |-> f[T]]
  <2>1. part = [T \in SUBSET S |->
                 IF T = {} THEN 0
                 ELSE Metric[Pick(T)] + part[T \ {Pick(T)}]]
    <3>1. ASSUME NEW T \in SUBSET S
          PROVE  f[T] = IF T = {} THEN 0
                        ELSE Metric[Pick(T)] + part[T \ {Pick(T)}]
      <4>1. f[T] = IF T = {} THEN 0 ELSE Metric[Pick(T)] + f[T \ {Pick(T)}]
        BY <1>1, Zenon DEF Summing
      <4>2. part[T \ {Pick(T)}] = f[T \ {Pick(T)}]
        OBVIOUS
      <4> QED BY <4>1, <4>2, Zenon
    <3> QED BY <3>1, Zenon
  <2>2. Summing(part, SUBSET S)
    BY <2>1, Zenon DEF Summing
  <2>3. Summing(chosen, SUBSET S)
    BY <2>2, Zenon
  <2>4. Sum(S) = chosen[S]
    BY Zenon DEF Sum, MapThenSumSet, MapThenFoldSet, Summing, Pick
  <2> HIDE DEF chosen
  <2> QED BY <1>1, <2>3, <2>4, SummingIsOne
<1>3. ASSUME NEW S \in SUBSET Reports
      PROVE  f[S] = IF S = {} THEN 0 ELSE Metric[Pick(S)] + f[S \ {Pick(S)}]
  BY <1>1, Zenon DEF Summing
<1>4. Sum({}) = 0
  <2>1. {} \in SUBSET Reports
    OBVIOUS
  <2> QED BY <1>2, <1>3, <2>1, Zenon
<1>5. ASSUME NEW S \in SUBSET Reports, S # {}
      PROVE  Sum(S) = Metric[Pick(S)] + Sum(S \ {Pick(S)})
  <2>1. S \ {Pick(S)} \in SUBSET Reports
    OBVIOUS
  <2> QED BY <1>2, <1>3, <1>5, <2>1, Zenon
<1> QED BY <1>4, <1>5

-----------------------------------------------------------------------------
(* Sums and scalars of sets of reports.                                    *)

\* Of a set of reports, those that have the metric.
Having(S) == {r \in S : Metric[r] # Nil}
Known == Having(Reports)

LEMMA MetricOfKnown == \A r \in Known : r \in Reports /\ Metric[r] \in Nat
BY ReportsAssumption DEF Known, Having

LEMMA SumInNat == \A S \in SUBSET Known : Sum(S) \in Nat
<1> DEFINE good == {S \in SUBSET Reports : S \subseteq Known => Sum(S) \in Nat}
<1>1. ASSUME NEW S \in SUBSET Reports, \A T \in SUBSET S : T # S => T \in good
      PROVE  S \in good
  <2> SUFFICES ASSUME S \subseteq Known PROVE Sum(S) \in Nat
    OBVIOUS
  <2>1. CASE S = {}
    BY <2>1, SumSteps
  <2>2. CASE S # {}
    <3>1. Pick(S) \in S
      BY <2>2, PickIn
    <3>2. Sum(S \ {Pick(S)}) \in Nat
      BY <1>1, <3>1
    <3>3. Metric[Pick(S)] \in Nat
      BY <3>1, MetricOfKnown
    <3>4. Sum(S) = Metric[Pick(S)] + Sum(S \ {Pick(S)})
      BY <2>2, SumSteps
    <3> QED BY <3>2, <3>3, <3>4
  <2> QED BY <2>1, <2>2
<1>2. good = SUBSET Reports
  <2>1. good \in SUBSET SUBSET Reports
    OBVIOUS
  <2> HIDE DEF good
  <2> QED BY <1>1, <2>1, AllSubsets
<1> QED BY <1>2, MetricOfKnown

\* The sum does not depend on which member is picked first.
LEMMA SumLess == \A S \in SUBSET Known : \A x \in S : Sum(S) = Sum(S \ {x}) + Metric[x]
<1> DEFINE good == {S \in SUBSET Reports :
              S \subseteq Known => \A x \in S : Sum(S) = Sum(S \ {x}) + Metric[x]}
<1>1. ASSUME NEW S \in SUBSET Reports, \A T \in SUBSET S : T # S => T \in good
      PROVE  S \in good
  <2> SUFFICES ASSUME S \subseteq Known, NEW x \in S PROVE Sum(S) = Sum(S \ {x}) + Metric[x]
    OBVIOUS
  <2> DEFINE y == Pick(S)
  <2>1. y \in S
    BY PickIn
  <2> HIDE DEF y
  <2>2. Sum(S) = Metric[y] + Sum(S \ {y})
    <3>1. S # {}
      OBVIOUS
    <3> QED BY <3>1, SumSteps DEF y
  <2>3. /\ Metric[x] \in Nat /\ Metric[y] \in Nat
        /\ Sum(S \ {x}) \in Nat /\ Sum(S \ {y}) \in Nat /\ Sum((S \ {x}) \ {y}) \in Nat
    <3>1. S \ {x} \in SUBSET Known /\ S \ {y} \in SUBSET Known /\ (S \ {x}) \ {y} \in SUBSET Known
      OBVIOUS
    <3> QED BY <2>1, <3>1, MetricOfKnown, SumInNat
  <2>4. CASE x = y
    BY <2>2, <2>3, <2>4
  <2>5. CASE x # y
    <3>1. S \ {x} \in good /\ S \ {y} \in good
      BY <1>1, <2>1
    <3>2. Sum(S \ {x}) = Sum((S \ {x}) \ {y}) + Metric[y]
      BY <2>1, <2>5, <3>1
    <3>3. Sum(S \ {y}) = Sum((S \ {y}) \ {x}) + Metric[x]
      BY <2>1, <2>5, <3>1
    <3>4. (S \ {y}) \ {x} = (S \ {x}) \ {y}
      OBVIOUS
    <3> DEFINE all == Sum(S)
               lessX == Sum(S \ {x})
               lessY == Sum(S \ {y})
               rest == Sum((S \ {x}) \ {y})
    <3>5. lessY = rest + Metric[x]
      BY <3>3, <3>4, Zenon
    <3>6. all = Metric[y] + lessY /\ lessX = rest + Metric[y]
      BY <2>2, <3>2, Zenon
    <3>7. lessX \in Nat /\ lessY \in Nat /\ rest \in Nat
      BY <2>3, Zenon
    <3>8. all = lessX + Metric[x]
      <4> HIDE DEF all, lessX, lessY, rest
      <4> QED BY <2>3, <3>5, <3>6, <3>7
    <3> QED BY <3>8, Zenon
  <2> QED BY <2>4, <2>5
<1>2. good = SUBSET Reports
  <2>1. good \in SUBSET SUBSET Reports
    OBVIOUS
  <2> HIDE DEF good
  <2> QED BY <1>1, <2>1, AllSubsets
<1> QED BY <1>2, MetricOfKnown

LEMMA SumUnion ==
  ASSUME NEW S \in SUBSET Known, NEW T \in SUBSET Known, S \cap T = {}
  PROVE  Sum(S \union T) = Sum(S) + Sum(T)
<1> DEFINE good == {R \in SUBSET Reports : R \subseteq T => Sum(S \union R) = Sum(S) + Sum(R)}
<1>1. ASSUME NEW R \in SUBSET Reports, \A U \in SUBSET R : U # R => U \in good
      PROVE  R \in good
  <2> SUFFICES ASSUME R \subseteq T PROVE Sum(S \union R) = Sum(S) + Sum(R)
    OBVIOUS
  <2>1. CASE R = {}
    <3>1. S \union R = S
      BY <2>1
    <3>2. Sum(R) = 0
      BY <2>1, SumSteps
    <3> QED BY <3>1, <3>2, SumInNat
  <2>2. CASE R # {}
    <3>1. PICK x : x \in R
      BY <2>2
    <3>2. Sum(S \union (R \ {x})) = Sum(S) + Sum(R \ {x})
      BY <1>1, <3>1
    <3>3. Sum(R) = Sum(R \ {x}) + Metric[x]
      BY <3>1, SumLess
    <3>4. Sum(S \union R) = Sum((S \union R) \ {x}) + Metric[x]
      BY <3>1, SumLess
    <3>5. (S \union R) \ {x} = S \union (R \ {x})
      BY <3>1
    <3>6. Sum(S) \in Nat /\ Sum(R \ {x}) \in Nat /\ Metric[x] \in Nat
      BY <3>1, SumInNat, MetricOfKnown
    <3> DEFINE both == Sum(S \union R)
               lessX == Sum(S \union (R \ {x}))
               left == Sum(S)
               right == Sum(R)
               rest == Sum(R \ {x})
    <3>7. both = lessX + Metric[x] /\ lessX = left + rest /\ right = rest + Metric[x]
      BY <3>2, <3>3, <3>4, <3>5, Zenon
    <3>8. left \in Nat /\ rest \in Nat
      BY <3>6, Zenon
    <3>9. both = left + right
      <4> HIDE DEF both, lessX, left, right, rest
      <4> QED BY <3>6, <3>7, <3>8
    <3> QED BY <3>9, Zenon
  <2> QED BY <2>1, <2>2
<1>2. good = SUBSET Reports
  <2>1. good \in SUBSET SUBSET Reports
    OBVIOUS
  <2> HIDE DEF good
  <2> QED BY <1>1, <2>1, AllSubsets
<1> QED BY <1>2, MetricOfKnown

\* A mean that moves by its share of the difference is a number, and the exact mean
\* where there is a whole one.
Moved(a, b, o, n) == a + ((b - a) * n) \div (o + n)

LEMMA Mean ==
  ASSUME NEW a \in Nat, NEW b \in Nat, NEW o \in Nat, NEW n \in Nat \ {0}
  PROVE  /\ Moved(a, b, o, n) \in Nat
         /\ \A q \in Nat : a * o + b * n = q * (o + n) => Moved(a, b, o, n) = q
<1> DEFINE k == o + n
           d == (b - a) * n
<1>1. k \in Nat \ {0} /\ n <= k /\ d \in Int
  OBVIOUS
<1>2. 0 - a * k <= d
  <2>1. a * n <= a * k
    <3>1. a * k = a * n + a * o /\ a * n \in Nat /\ a * o \in Nat
      OBVIOUS
    <3> QED BY <3>1
  <2>2. d = b * n - a * n /\ b * n \in Nat /\ a * n \in Nat /\ a * k \in Nat
    OBVIOUS
  <2> QED BY <2>1, <2>2
<1>3. ASSUME NEW q \in Nat, a * o + b * n = q * k PROVE d = (q - a) * k
  <2>1. (q - a) * k = q * k - a * k
    BY <1>1
  <2>2. a * k = a * o + a * n /\ d = b * n - a * n
    OBVIOUS
  <2> QED BY <1>3, <2>1, <2>2
<1> HIDE DEF d, k
<1>4. ASSUME NEW x \in Int, NEW y \in Nat \ {0}
      PROVE  x \div y \in Int /\ (x \div y) * y <= x /\ x < (x \div y) * y + y
  OBVIOUS
<1>5. d \div k \in Int /\ d < (d \div k) * k + k
  BY <1>1, <1>4
<1>6. a + d \div k \in Nat
  <2> DEFINE f == d \div k
  <2> HIDE DEF f
  <2>1. f \in Int /\ d < f * k + k
    BY <1>5 DEF f
  <2>2. 0 - a * k < f * k + k
    BY <1>1, <1>2, <2>1
  <2>3. SUFFICES ASSUME a + f < 0 PROVE FALSE
    BY <2>1 DEF f
  <2>4. a + f + 1 <= 0 /\ a + f + 1 \in Int
    BY <2>1, <2>3
  <2>5. (a + f + 1) * k <= 0
    BY <1>1, <2>4
  <2>6. (a + f + 1) * k = a * k + f * k + k
    BY <1>1, <2>1
  <2> QED BY <1>1, <2>1, <2>2, <2>5, <2>6
<1>7. ASSUME NEW q \in Nat, a * o + b * n = q * k PROVE a + d \div k = q
  <2>1. d = (q - a) * k
    BY <1>3, <1>7
  <2>2. ((q - a) * k) \div k = q - a
    <3>1. q - a \in Int
      OBVIOUS
    <3>2. ASSUME NEW x \in Int, NEW y \in Nat \ {0} PROVE (x * y) \div y = x
      OBVIOUS
    <3> QED BY <1>1, <3>1, <3>2
  <2> QED BY <2>1, <2>2
<1> QED BY <1>6, <1>7 DEF d, k, Moved

-----------------------------------------------------------------------------
(* The scalar of a set of reports tells how many of them have the metric, its *)
(* extremes and, where the means are whole, its sum.                       *)

Filled == [count : Nat \ {0}, min : Nat, max : Nat, avg : Nat]
Kept == Filled \union {NoScalar}
Values(S) == {Metric[r] : r \in Having(S)}

LEMMA KeptFacts ==
  ASSUME NEW m \in Kept
  PROVE  /\ m.count \in Nat
         /\ m.count = 0 <=> m = NoScalar
         /\ m.count # 0 <=> m \in Filled
BY DEF Kept, Filled, NoScalar

LEMMA RecordCases ==
  ASSUME NEW m \in Kept, NEW v \in Nat
  PROVE  /\ Record(m, Nil) = m
         /\ Record(m, v) \in Filled
         /\ Record(m, v).count = m.count + 1
         /\ m.count = 0 => Record(m, v) = [count |-> 1, min |-> v, max |-> v, avg |-> v]
         /\ m.count # 0 => /\ Record(m, v).min = Lesser(m.min, v)
                           /\ Record(m, v).max = Greater(m.max, v)
                           /\ Record(m, v).avg = Moved(m.avg, v, m.count, 1)
<1>1. v # Nil
  BY ReportsAssumption
<1>2. Record(m, Nil) = m
  BY DEF Record
<1>3. CASE m.count = 0
  <2>1. Record(m, v) = [count |-> 1, min |-> v, max |-> v, avg |-> v]
    BY <1>1, <1>3 DEF Record
  <2> QED BY <1>2, <1>3, <2>1 DEF Filled
<1>4. CASE m.count # 0
  <2>1. m \in Filled
    BY <1>4, KeptFacts
  <2> DEFINE mean == m.avg + (v - m.avg) \div (m.count + 1)
  <2>2. Record(m, v) = [count |-> m.count + 1, min |-> Lesser(m.min, v),
                        max |-> Greater(m.max, v), avg |-> mean]
    BY <1>1, <1>4, Zenon DEF Record
  <2>3. mean = Moved(m.avg, v, m.count, 1) /\ mean \in Nat
    <3>1. m.avg \in Nat /\ m.count \in Nat /\ 1 \in Nat \ {0}
      BY <2>1 DEF Filled
    <3>2. v - m.avg = (v - m.avg) * 1
      BY <3>1
    <3>3. Moved(m.avg, v, m.count, 1) \in Nat
      BY <3>1, Mean
    <3>4. mean = Moved(m.avg, v, m.count, 1)
      BY <3>2, Zenon DEF Moved
    <3> QED BY <3>3, <3>4
  <2>4. Lesser(m.min, v) \in Nat /\ Greater(m.max, v) \in Nat /\ m.count + 1 \in Nat \ {0}
    BY <2>1 DEF Filled, Lesser, Greater
  <2> HIDE DEF mean
  <2>5. Record(m, v) \in Filled
    BY <2>2, <2>3, <2>4 DEF Filled
  <2> QED BY <1>2, <1>4, <2>2, <2>3, <2>5
<1> QED BY <1>3, <1>4

LEMMA HavingMore ==
  ASSUME NEW S \in SUBSET Reports, NEW x \in S
  PROVE  /\ IsFiniteSet(Having(S)) /\ Cardinality(Having(S)) \in Nat
         /\ Having(S) \in SUBSET Known
         /\ Metric[x] = Nil => Having(S) = Having(S \ {x})
         /\ Metric[x] # Nil => /\ Metric[x] \in Nat
                               /\ x \in Having(S)
                               /\ Having(S) \ {x} = Having(S \ {x})
                               /\ Having(S) = Having(S \ {x}) \union {x}
                               /\ Cardinality(Having(S)) = Cardinality(Having(S \ {x})) + 1
<1>1. Having(S) \in SUBSET Reports /\ Having(S) \in SUBSET Known
  BY DEF Having, Known
<1>2. IsFiniteSet(Having(S)) /\ Cardinality(Having(S)) \in Nat
  BY <1>1, Finite
<1>3. ASSUME Metric[x] = Nil PROVE Having(S) = Having(S \ {x})
  BY <1>3 DEF Having
<1>4. ASSUME Metric[x] # Nil
      PROVE  /\ Metric[x] \in Nat
             /\ x \in Having(S)
             /\ Having(S) \ {x} = Having(S \ {x})
             /\ Having(S) = Having(S \ {x}) \union {x}
             /\ Cardinality(Having(S)) = Cardinality(Having(S \ {x})) + 1
  <2>1. x \in Having(S) /\ Having(S) \ {x} = Having(S \ {x})
          /\ Having(S) = Having(S \ {x}) \union {x}
    BY <1>4 DEF Having
  <2>2. Metric[x] \in Nat
    BY <1>4, ReportsAssumption
  <2>3. Cardinality(Having(S) \ {x}) = Cardinality(Having(S)) - 1
    BY <1>2, <2>1, FS_RemoveElement
  <2>4. Cardinality(Having(S \ {x})) = Cardinality(Having(S)) - 1
    BY <2>1, <2>3, Zenon
  <2>5. Cardinality(Having(S)) = Cardinality(Having(S \ {x})) + 1
    BY <1>2, <2>4
  <2> QED BY <2>1, <2>2, <2>5
<1> QED BY <1>1, <1>2, <1>3, <1>4

\* The parts of a scalar of the members of a set.
Tells(m, S) ==
  /\ m \in Kept
  /\ m.count = Cardinality(Having(S))
  /\ Having(S) # {} =>
       /\ m.min \in Values(S) /\ \A v \in Values(S) : m.min <= v
       /\ m.max \in Values(S) /\ \A v \in Values(S) : v <= m.max

LEMMA RecordedTells == \A S \in SUBSET Reports : Tells(Recorded(S), S)
<1> DEFINE good == {S \in SUBSET Reports : Tells(Recorded(S), S)}
<1>1. ASSUME NEW S \in SUBSET Reports, \A T \in SUBSET S : T # S => T \in good
      PROVE  Tells(Recorded(S), S)
  <2>1. CASE S = {}
    <3>1. Recorded(S) = NoScalar
      BY <2>1, RecordedSteps
    <3>2. Having(S) = {}
      BY <2>1 DEF Having
    <3>3. Cardinality(Having(S)) = 0
      BY <3>2, FS_EmptySet, Zenon
    <3> QED BY <3>1, <3>2, <3>3 DEF Tells, Kept, NoScalar
  <2>2. CASE S # {}
    <3> DEFINE x == Pick(S)
               rest == S \ {x}
               m == Recorded(rest)
    <3>1. x \in S
      BY <2>2, PickIn
    <3>2. Tells(m, rest)
      BY <1>1, <3>1
    <3>3. Recorded(S) = Record(m, Metric[x])
      BY <2>2, RecordedSteps
    <3> HIDE DEF x, m
    <3>4. CASE Metric[x] = Nil
      <4>1. Recorded(S) = m
        BY <3>2, <3>3, <3>4, RecordCases DEF Record
      <4>2. Having(S) = Having(rest)
        BY <3>1, <3>4, HavingMore
      <4> QED BY <3>2, <4>1, <4>2 DEF Tells, Values
    <3>5. CASE Metric[x] # Nil
      <4> DEFINE v == Metric[x]
      <4>1. /\ v \in Nat /\ Having(S) = Having(rest) \union {x}
            /\ Cardinality(Having(S)) = Cardinality(Having(rest)) + 1
        BY <3>1, <3>5, HavingMore
      <4>2. Values(S) = Values(rest) \union {v}
        BY <4>1 DEF Values
      <4>3. Having(S) # {}
        BY <4>1
      <4>4. m \in Kept /\ m.count = Cardinality(Having(rest))
        BY <3>2 DEF Tells
      <4>5. Record(m, v) \in Kept /\ Record(m, v).count = Cardinality(Having(S))
        BY <4>1, <4>4, RecordCases DEF Kept
      <4>6. CASE Having(rest) = {}
        <5>1. m.count = 0
          BY <4>4, <4>6, FS_EmptySet, Zenon
        <5>2. Record(m, v).min = v /\ Record(m, v).max = v
          BY <4>1, <4>4, <5>1, RecordCases
        <5>3. Values(S) = {v}
          BY <4>2, <4>6 DEF Values
        <5> QED BY <3>3, <4>1, <4>5, <5>2, <5>3 DEF Tells
      <4>7. CASE Having(rest) # {}
        <5>1. /\ m.min \in Values(rest) /\ \A w \in Values(rest) : m.min <= w
              /\ m.max \in Values(rest) /\ \A w \in Values(rest) : w <= m.max
          BY <3>2, <4>7 DEF Tells
        <5>2. Values(S) \subseteq Nat
          <6>1. Having(S) \subseteq Known
            BY <3>1, HavingMore
          <6> QED BY <6>1, MetricOfKnown DEF Values
        <5>3. m.count # 0
          <6>1. IsFiniteSet(Having(rest))
            <7>1. Having(rest) \in SUBSET Reports
              BY DEF Having
            <7> QED BY <7>1, Finite
          <6> QED BY <4>4, <4>7, <6>1, FS_EmptySet, Zenon
        <5>4. Record(m, v).min = Lesser(m.min, v) /\ Record(m, v).max = Greater(m.max, v)
          BY <4>1, <4>4, <5>3, RecordCases
        <5>5. Lesser(m.min, v) \in Values(S) /\ Greater(m.max, v) \in Values(S)
          BY <4>2, <5>1 DEF Lesser, Greater
        <5>6. ASSUME NEW w \in Values(S)
              PROVE  Lesser(m.min, v) <= w /\ w <= Greater(m.max, v)
          <6> HIDE DEF v
          <6>1. w \in Nat /\ v \in Nat /\ m.min \in Nat /\ m.max \in Nat
            BY <4>1, <4>2, <5>1, <5>2
          <6>2. w = v \/ (m.min <= w /\ w <= m.max)
            BY <4>2, <5>1
          <6> QED BY <6>1, <6>2 DEF Lesser, Greater
        <5> HIDE DEF v
        <5>7. Recorded(S) = Record(m, v)
          BY <3>3 DEF v
        <5> QED BY <4>5, <5>4, <5>5, <5>6, <5>7, Zenon DEF Tells
      <4> QED BY <4>6, <4>7
    <3> QED BY <3>4, <3>5
  <2> QED BY <2>1, <2>2
<1>2. good = SUBSET Reports
  <2>1. good \in SUBSET SUBSET Reports
    OBVIOUS
  <2>2. ASSUME NEW S \in SUBSET Reports, \A T \in SUBSET S : T # S => T \in good
        PROVE  S \in good
    BY <1>1, <2>2
  <2> HIDE DEF good
  <2> QED BY <2>1, <2>2, AllSubsets
<1> QED BY <1>2

\* A number that each count up to most divides, as a whole mean needs.
Whole(total, most) == \A n \in 1..most : \E q \in Nat : total = q * n
AllWhole(most) == \A r \in Known : Whole(Metric[r], most)
Total(m) == IF m.count = 0 THEN 0 ELSE m.avg * m.count

LEMMA WholeSum ==
  ASSUME NEW a \in Nat, NEW b \in Nat, NEW most \in Nat, Whole(a, most), Whole(b, most)
  PROVE  Whole(a + b, most)
<1> SUFFICES ASSUME NEW n \in 1..most PROVE \E q \in Nat : a + b = q * n
  BY DEF Whole
<1>1. PICK p \in Nat : a = p * n
  BY DEF Whole
<1>2. PICK q \in Nat : b = q * n
  BY DEF Whole
<1>3. a + b = (p + q) * n /\ p + q \in Nat
  BY <1>1, <1>2
<1> QED BY <1>3

\* One more sample moves a whole mean to the next.
LEMMA RecordTotal ==
  ASSUME NEW m \in Kept, NEW v \in Nat, NEW most \in Nat, m.count < most,
         Whole(Total(m), most), Whole(v, most)
  PROVE  /\ Total(Record(m, v)) = Total(m) + v
         /\ Whole(Total(Record(m, v)), most)
<1>1. CASE m.count = 0
  <2>1. Record(m, v) = [count |-> 1, min |-> v, max |-> v, avg |-> v]
    BY <1>1, RecordCases
  <2> QED BY <1>1, <2>1 DEF Total
<1>2. CASE m.count # 0
  <2>1. m \in Filled /\ m.avg \in Nat /\ m.count \in Nat \ {0}
    BY <1>2, KeptFacts DEF Filled
  <2>2. Total(m) = m.avg * m.count /\ Total(m) \in Nat
    BY <1>2, <2>1 DEF Total
  <2>3. Whole(Total(m) + v, most)
    BY <2>2, WholeSum
  <2>4. m.count + 1 \in 1..most
    BY <2>1
  <2>5. PICK q \in Nat : Total(m) + v = q * (m.count + 1)
    BY <2>3, <2>4 DEF Whole
  <2>6. m.avg * m.count + v * 1 = q * (m.count + 1)
    BY <2>2, <2>5
  <2>7. Moved(m.avg, v, m.count, 1) = q
    <3>1. 1 \in Nat \ {0} /\ m.count \in Nat
      BY <2>1
    <3>2. \A p \in Nat : m.avg * m.count + v * 1 = p * (m.count + 1) =>
            Moved(m.avg, v, m.count, 1) = p
      BY <2>1, <3>1, Mean, Zenon
    <3> QED BY <2>6, <3>2, Zenon
  <2>8. Record(m, v).avg = q /\ Record(m, v).count = m.count + 1
    BY <1>2, <2>7, RecordCases
  <2>9. Total(Record(m, v)) = q * (m.count + 1)
    <3>1. m.count + 1 # 0
      BY <2>1
    <3> QED BY <2>8, <3>1, Zenon DEF Total
  <2> QED BY <2>3, <2>5, <2>9
<1> QED BY <1>1, <1>2

\* The mean of a set of reports is that of their values.
LEMMA RecordedTotal ==
  ASSUME NEW most \in Nat, AllWhole(most), NEW set \in SUBSET Reports,
         Cardinality(Having(set)) <= most
  PROVE  Total(Recorded(set)) = Sum(Having(set)) /\ Whole(Sum(Having(set)), most)
<1> DEFINE Fine(S) == /\ Total(Recorded(S)) = Sum(Having(S))
                      /\ Whole(Sum(Having(S)), most)
           good == {S \in SUBSET Reports : Cardinality(Having(S)) <= most => Fine(S)}
<1>1. ASSUME NEW S \in SUBSET Reports, \A T \in SUBSET S : T # S => T \in good,
             Cardinality(Having(S)) <= most
      PROVE  Fine(S)
  <2>1. CASE S = {}
    <3>1. Recorded(S) = NoScalar /\ Having(S) = {}
      BY <2>1, RecordedSteps DEF Having
    <3>2. Total(Recorded(S)) = 0 /\ Sum(Having(S)) = 0
      BY <3>1, SumSteps DEF Total, NoScalar
    <3>3. Whole(0, most)
      <4> SUFFICES ASSUME NEW n \in 1..most PROVE \E q \in Nat : 0 = q * n
        BY DEF Whole
      <4>1. 0 = 0 * n
        OBVIOUS
      <4> QED BY <4>1
    <3> QED BY <3>2, <3>3
  <2>2. CASE S # {}
    <3> DEFINE x == Pick(S)
               rest == S \ {x}
               m == Recorded(rest)
    <3>1. x \in S
      BY <2>2, PickIn
    <3>2. rest \in good /\ rest \in SUBSET Reports
      BY <1>1, <3>1
    <3>3. Recorded(S) = Record(m, Metric[x])
      BY <2>2, RecordedSteps
    <3>4. m \in Kept /\ m.count = Cardinality(Having(rest))
      BY <3>2, RecordedTells DEF Tells
    <3> HIDE DEF x, m
    <3>5. CASE Metric[x] = Nil
      <4>1. Recorded(S) = m
        BY <3>3, <3>4, <3>5, RecordCases DEF Record
      <4>2. Having(S) = Having(rest)
        BY <3>1, <3>5, HavingMore
      <4>3. Fine(rest)
        BY <1>1, <3>2, <4>2
      <4> QED BY <4>1, <4>2, <4>3 DEF m
    <3>6. CASE Metric[x] # Nil
      <4>1. /\ Metric[x] \in Nat /\ x \in Having(S) /\ Having(S) \ {x} = Having(rest)
            /\ Cardinality(Having(S)) = Cardinality(Having(rest)) + 1
            /\ Having(S) \in SUBSET Known
        BY <3>1, <3>6, HavingMore
      <4>2. Cardinality(Having(rest)) \in Nat /\ Having(rest) \in SUBSET Known
        <5>1. Having(rest) \in SUBSET Known
          BY <3>2 DEF Having, Known
        <5>2. Having(rest) \in SUBSET Reports
          BY <5>1, MetricOfKnown
        <5> QED BY <5>1, <5>2, Finite
      <4>3. Cardinality(Having(rest)) < most
        <5> DEFINE c == Cardinality(Having(rest))
        <5> HIDE DEF c
        <5>1. c \in Nat /\ c + 1 <= most
          BY <1>1, <4>1, <4>2 DEF c
        <5>2. c < most
          BY <5>1
        <5> QED BY <5>2 DEF c
      <4>4. Cardinality(Having(rest)) <= most
        BY <4>2, <4>3
      <4>5. Fine(rest)
        BY <3>2, <4>4
      <4>6. Total(m) = Sum(Having(rest)) /\ Whole(Total(m), most)
        BY <4>5 DEF m
      <4>7. Whole(Metric[x], most)
        BY <4>1 DEF AllWhole
      <4>8. /\ Total(Record(m, Metric[x])) = Total(m) + Metric[x]
            /\ Whole(Total(Record(m, Metric[x])), most)
        BY <3>4, <4>1, <4>3, <4>6, <4>7, RecordTotal
      <4>9. Sum(Having(S)) = Sum(Having(rest)) + Metric[x]
        BY <4>1, SumLess
      <4>10. Total(Recorded(S)) = Sum(Having(S))
        BY <3>3, <4>6, <4>8, <4>9, Zenon
      <4> QED BY <3>3, <4>8, <4>10, Zenon
    <3> QED BY <3>5, <3>6
  <2> QED BY <2>1, <2>2
<1>2. good = SUBSET Reports
  <2>1. good \in SUBSET SUBSET Reports
    OBVIOUS
  <2>2. ASSUME NEW S \in SUBSET Reports, \A T \in SUBSET S : T # S => T \in good
        PROVE  S \in good
    BY <1>1, <2>2
  <2> HIDE DEF good
  <2> QED BY <2>1, <2>2, AllSubsets
<1> QED BY <1>2

\* The upsert puts two scalars together.
LEMMA UpsertedIs ==
  ASSUME NEW old \in Kept, NEW new \in Kept
  PROVE  LET both == Upserted(old, new) IN
         /\ both \in Kept
         /\ both.count = old.count + new.count
         /\ old.count = 0 => both = new
         /\ new.count = 0 => both = old
         /\ old.count # 0 /\ new.count # 0 =>
              /\ both.min = Lesser(old.min, new.min)
              /\ both.max = Greater(old.max, new.max)
         /\ \A most \in Nat :
              Whole(Total(old), most) /\ Whole(Total(new), most) /\ both.count <= most =>
                /\ Total(both) = Total(old) + Total(new)
                /\ Whole(Total(both), most)
<1> DEFINE both == Upserted(old, new)
<1>1. CASE old.count = 0
  <2>1. both = new /\ old.count + new.count = new.count
    BY <1>1, KeptFacts DEF Upserted, Columns
  <2>2. new.count = 0 => new = old
    BY <1>1, KeptFacts
  <2>3. Total(old) = 0 /\ Total(new) \in Nat
    BY <1>1, KeptFacts DEF Total, Filled
  <2> HIDE DEF both
  <2> QED BY <1>1, <2>1, <2>2, <2>3 DEF both
<1>2. CASE old.count # 0 /\ new.count = 0
  <2>1. both = old /\ old.count + new.count = old.count
    BY <1>2, KeptFacts DEF Upserted, Columns
  <2>2. Total(new) = 0 /\ Total(old) \in Nat
    BY <1>2, KeptFacts DEF Total, Filled
  <2> HIDE DEF both
  <2> QED BY <1>2, <2>1, <2>2 DEF both
<1>3. CASE old.count # 0 /\ new.count # 0
  <2> DEFINE mean == Moved(old.avg, new.avg, old.count, new.count)
  <2>1. both = [count |-> old.count + new.count, min |-> Lesser(old.min, new.min),
                max |-> Greater(old.max, new.max), avg |-> mean]
    BY <1>3, Zenon DEF Upserted, Columns, Moved
  <2>2. old \in Filled /\ new \in Filled
    BY <1>3, KeptFacts
  <2>3. /\ old.avg \in Nat /\ new.avg \in Nat
        /\ old.count \in Nat /\ new.count \in Nat \ {0} /\ old.count # 0
    BY <2>2 DEF Filled
  <2>4. mean \in Nat
    BY <2>3, Mean
  <2>5. /\ Lesser(old.min, new.min) \in Nat /\ Greater(old.max, new.max) \in Nat
        /\ old.count + new.count \in Nat \ {0}
    BY <2>2 DEF Filled, Lesser, Greater
  <2>6. ASSUME NEW most \in Nat, Whole(Total(old), most), Whole(Total(new), most),
               old.count + new.count <= most
        PROVE  /\ Total(both) = Total(old) + Total(new)
               /\ Whole(Total(both), most)
    <3>1. /\ Total(old) = old.avg * old.count /\ Total(new) = new.avg * new.count
          /\ Total(old) \in Nat /\ Total(new) \in Nat
      BY <1>3, <2>3 DEF Total
    <3>2. Whole(Total(old) + Total(new), most)
      BY <2>6, <3>1, WholeSum
    <3>3. old.count + new.count \in 1..most
      BY <2>3, <2>6
    <3>4. PICK q \in Nat : Total(old) + Total(new) = q * (old.count + new.count)
      BY <3>2, <3>3 DEF Whole
    <3>5. mean = q
      <4>1. old.avg * old.count + new.avg * new.count = q * (old.count + new.count)
        BY <3>1, <3>4
      <4>2. \A p \in Nat : old.avg * old.count + new.avg * new.count
                             = p * (old.count + new.count) => mean = p
        BY <2>3, Mean, Zenon
      <4> QED BY <4>1, <4>2, Zenon
    <3>6. Total(both) = q * (old.count + new.count)
      <4>1. both.avg = q /\ both.count = old.count + new.count
        <5> HIDE DEF both, mean
        <5> QED BY <2>1, <3>5
      <4>2. both.count # 0
        BY <2>5, <4>1
      <4> QED BY <4>1, <4>2, Zenon DEF Total
    <3> QED BY <3>2, <3>4, <3>6
  <2> HIDE DEF mean
  <2>7. both \in Filled
    BY <2>1, <2>4, <2>5 DEF Filled
  <2>8. both.count = old.count + new.count /\ both.min = Lesser(old.min, new.min)
          /\ both.max = Greater(old.max, new.max)
    BY <2>1
  <2> HIDE DEF both
  <2>9. both \in Kept
    BY <2>7 DEF Kept
  <2> QED BY <1>3, <2>6, <2>8, <2>9 DEF both
<1> QED BY <1>1, <1>2, <1>3

-----------------------------------------------------------------------------
(* What is shown of an hour, and what the upsert makes of it.              *)

Lows(m) == IF m.count = 0 THEN {} ELSE {m.min}
Highs(m) == IF m.count = 0 THEN {} ELSE {m.max}
Least(S) == IF S = {} THEN Nil ELSE Min(S)
Greatest(S) == IF S = {} THEN Nil ELSE Max(S)

LEMMA TallyIs ==
  ASSUME NEW raw \in SUBSET Reports, NEW aggregate, aggregate.metric \in Kept
  PROVE  Tally(raw, aggregate) =
           [samples |-> Cardinality(raw) + aggregate.count,
            count |-> Cardinality(Having(raw)) + aggregate.metric.count,
            total |-> Sum(Having(raw)) + Total(aggregate.metric),
            min |-> Least(Values(raw) \union Lows(aggregate.metric)),
            max |-> Greatest(Values(raw) \union Highs(aggregate.metric))]
<1> DEFINE merged == aggregate.metric
           scalars == {Record(NoScalar, Metric[r]) : r \in raw} \union {merged}
           known == {scalar \in scalars : scalar.count > 0}
           one(v) == [count |-> 1, min |-> v, max |-> v, avg |-> v]
<1>1. NoScalar \in Kept /\ NoScalar.count = 0
  BY DEF Kept, NoScalar
<1>2. ASSUME NEW r \in raw
      PROVE  Record(NoScalar, Metric[r]) = IF Metric[r] = Nil THEN NoScalar ELSE one(Metric[r])
  <2>1. CASE Metric[r] = Nil
    BY <2>1, <1>1 DEF Record
  <2>2. CASE Metric[r] # Nil
    <3>1. Metric[r] \in Nat
      BY <2>2, ReportsAssumption
    <3> QED BY <1>1, <2>2, <3>1, RecordCases
  <2> QED BY <2>1, <2>2
<1>3. merged.count \in Nat
  BY KeptFacts
<1>4. ASSUME NEW scalar \in known
      PROVE  \/ scalar = merged /\ merged.count # 0
             \/ \E r \in Having(raw) : scalar = one(Metric[r])
  <2>1. CASE scalar = merged
    BY <1>3, <2>1
  <2>2. CASE scalar # merged
    <3>1. PICK r \in raw : scalar = Record(NoScalar, Metric[r])
      BY <2>2
    <3>2. scalar.count > 0
      OBVIOUS
    <3>3. Metric[r] # Nil
      <4> SUFFICES ASSUME Metric[r] = Nil PROVE FALSE
        OBVIOUS
      <4>1. scalar = NoScalar
        BY <1>2, <3>1
      <4> HIDE DEF known
      <4> QED BY <1>1, <3>2, <4>1
    <3> QED BY <1>2, <3>1, <3>3 DEF Having
  <2> QED BY <2>1, <2>2
<1>5. ASSUME NEW r \in Having(raw) PROVE one(Metric[r]) \in known
  <2>1. r \in raw /\ Metric[r] # Nil
    BY DEF Having
  <2>2. one(Metric[r]) = Record(NoScalar, Metric[r])
    BY <1>2, <2>1
  <2>3. one(Metric[r]) \in scalars
    BY <2>1, <2>2
  <2>4. one(Metric[r]).count > 0
    OBVIOUS
  <2> HIDE DEF scalars, one
  <2> QED BY <2>3, <2>4
<1>6. merged.count # 0 => merged \in known
  BY <1>3
<1> HIDE DEF known, merged
<1>7. {scalar.min : scalar \in known} = Values(raw) \union Lows(merged)
  <2>1. ASSUME NEW scalar \in known PROVE scalar.min \in Values(raw) \union Lows(merged)
    <3>1. CASE scalar = merged /\ merged.count # 0
      BY <3>1 DEF Lows
    <3>2. ASSUME NEW r \in Having(raw), scalar = one(Metric[r])
          PROVE  scalar.min \in Values(raw)
      <4>1. scalar.min = Metric[r]
        BY <3>2
      <4> QED BY <4>1 DEF Values
    <3> QED BY <1>4, <3>1, <3>2
  <2>2. ASSUME NEW v \in Values(raw) PROVE \E scalar \in known : v = scalar.min
    <3>1. PICK r \in Having(raw) : v = Metric[r]
      BY DEF Values
    <3>2. one(v).min = v
      OBVIOUS
    <3> QED BY <1>5, <3>1, <3>2, Zenon
  <2>3. ASSUME NEW v \in Lows(merged) PROVE \E scalar \in known : v = scalar.min
    BY <1>6 DEF Lows
  <2> QED BY <2>1, <2>2, <2>3
<1>8. {scalar.max : scalar \in known} = Values(raw) \union Highs(merged)
  <2>1. ASSUME NEW scalar \in known PROVE scalar.max \in Values(raw) \union Highs(merged)
    <3>1. CASE scalar = merged /\ merged.count # 0
      BY <3>1 DEF Highs
    <3>2. ASSUME NEW r \in Having(raw), scalar = one(Metric[r])
          PROVE  scalar.max \in Values(raw)
      <4>1. scalar.max = Metric[r]
        BY <3>2
      <4> QED BY <4>1 DEF Values
    <3> QED BY <1>4, <3>1, <3>2
  <2>2. ASSUME NEW v \in Values(raw) PROVE \E scalar \in known : v = scalar.max
    <3>1. PICK r \in Having(raw) : v = Metric[r]
      BY DEF Values
    <3>2. one(v).max = v
      OBVIOUS
    <3> QED BY <1>5, <3>1, <3>2, Zenon
  <2>3. ASSUME NEW v \in Highs(merged) PROVE \E scalar \in known : v = scalar.max
    BY <1>6 DEF Highs
  <2> QED BY <2>1, <2>2, <2>3
<1>9. /\ (known = {}) <=> (Values(raw) \union Lows(merged) = {})
      /\ (known = {}) <=> (Values(raw) \union Highs(merged) = {})
  BY <1>7, <1>8
<1>10. Tally(raw, aggregate) =
         [samples |-> Cardinality(raw) + aggregate.count,
          count |-> Cardinality(Having(raw)) + merged.count,
          total |-> Sum(Having(raw)) + Total(merged),
          min |-> IF known = {} THEN Nil ELSE Min({scalar.min : scalar \in known}),
          max |-> IF known = {} THEN Nil ELSE Max({scalar.max : scalar \in known})]
  BY Zenon DEF Tally, Having, Sum, Total, known, merged
<1> QED BY <1>7, <1>8, <1>9, <1>10, Zenon DEF Least, Greatest, merged

LEMMA ValuesInNat == ASSUME NEW S \in SUBSET Reports PROVE Values(S) \subseteq Nat
<1>1. ASSUME NEW r \in Having(S) PROVE Metric[r] \in Nat
  <2>1. r \in Known
    BY DEF Having, Known
  <2> QED BY <2>1, MetricOfKnown
<1> QED BY <1>1 DEF Values

\* The values of a set of reports, with those of an aggregate, have a greatest.
LEMMA HighestExists ==
  ASSUME NEW S \in SUBSET Reports, NEW m \in Kept, Values(S) \union Highs(m) # {}
  PROVE  \E b \in Values(S) \union Highs(m) : \A v \in Values(S) \union Highs(m) : v <= b
<1> DEFINE highs == Values(S) \union Highs(m)
           r == Recorded(S)
<1>1. Tells(r, S)
  BY RecordedTells
<1>2. highs \subseteq Nat
  <2>1. Highs(m) \subseteq Nat
    BY KeptFacts DEF Highs, Filled
  <2> QED BY <2>1, ValuesInNat
<1> HIDE DEF r
<1>3. CASE Having(S) = {}
  <2>1. highs = Highs(m) /\ Highs(m) = {m.max}
    BY <1>3 DEF Values, Highs
  <2>2. m.max \in Nat
    BY <1>2, <2>1
  <2> QED BY <2>1, <2>2
<1>4. CASE Having(S) # {}
  <2>1. r.max \in Values(S) /\ \A v \in Values(S) : v <= r.max
    BY <1>1, <1>4 DEF Tells
  <2>2. CASE m.count = 0
    <3>1. highs = Values(S)
      BY <2>2 DEF Highs
    <3> QED BY <2>1, <3>1
  <2>3. CASE m.count # 0
    <3>1. highs = Values(S) \union {m.max}
      BY <2>3 DEF Highs
    <3> HIDE DEF highs
    <3>2. Greater(r.max, m.max) \in highs
      BY <2>1, <3>1 DEF Greater
    <3>3. ASSUME NEW v \in highs PROVE v <= Greater(r.max, m.max)
      <4>1. v \in Nat /\ r.max \in Nat /\ m.max \in Nat
        BY <1>2, <2>1, <3>1
      <4>2. v <= r.max \/ v = m.max
        BY <2>1, <3>1
      <4> QED BY <4>1, <4>2 DEF Greater
    <3> QED BY <3>2, <3>3 DEF highs
  <2> QED BY <2>2, <2>3
<1> QED BY <1>3, <1>4

\* The extremes of the values and of the aggregate do not change when a part of the
\* values is put into the aggregate.
LEMMA ExtremesMerged ==
  ASSUME NEW raw \in SUBSET Reports, NEW new \in SUBSET raw, NEW m \in Kept
  PROVE  LET both == Upserted(m, Recorded(new)) IN
         /\ Least(Values(raw) \union Lows(m)) = Least(Values(raw \ new) \union Lows(both))
         /\ Greatest(Values(raw) \union Highs(m)) = Greatest(Values(raw \ new) \union Highs(both))
<1> DEFINE n == Recorded(new)
           both == Upserted(m, n)
           rest == raw \ new
<1>1. Tells(n, new)
  BY RecordedTells
<1> HIDE DEF n
<1>2. n \in Kept /\ n.count = Cardinality(Having(new))
  BY <1>1 DEF Tells
<1>3. n.count = 0 <=> Having(new) = {}
  <2>1. IsFiniteSet(Having(new))
    <3>1. Having(new) \in SUBSET Reports
      BY DEF Having
    <3> QED BY <3>1, Finite
  <2> QED BY <1>2, <2>1, FS_EmptySet, Zenon
<1>4. Values(raw) = Values(rest) \union Values(new)
  BY DEF Values, Having
<1>5. /\ both \in Kept /\ both.count = m.count + n.count
      /\ m.count = 0 => both = n
      /\ n.count = 0 => both = m
      /\ m.count # 0 /\ n.count # 0 =>
           both.min = Lesser(m.min, n.min) /\ both.max = Greater(m.max, n.max)
  BY <1>2, UpsertedIs
<1> HIDE DEF both
<1>6. CASE n.count = 0
  <2>1. Values(new) = {} /\ both = m
    BY <1>3, <1>5, <1>6 DEF Values
  <2>2. Values(raw) = Values(rest)
    BY <1>4, <2>1
  <2> QED BY <2>1, <2>2, Zenon DEF both, n
<1>7. CASE n.count # 0
  <2>1. /\ n.min \in Values(new) /\ \A v \in Values(new) : n.min <= v
        /\ n.max \in Values(new) /\ \A v \in Values(new) : v <= n.max
    BY <1>1, <1>3, <1>7 DEF Tells
  <2> DEFINE lows == Values(raw) \union Lows(m)
             lows2 == Values(rest) \union Lows(both)
             highs == Values(raw) \union Highs(m)
             highs2 == Values(rest) \union Highs(both)
  <2>2. m.count \in Nat /\ n.count \in Nat /\ both.count # 0
    BY <1>2, <1>5, <1>7, KeptFacts
  <2>3. m.count # 0 => m.min \in Nat /\ m.max \in Nat
    BY KeptFacts DEF Filled
  <2>4. Values(raw) \subseteq Nat
    BY ValuesInNat
  <2>5. lows \subseteq Nat /\ highs \subseteq Nat
    BY <2>3, <2>4 DEF Lows, Highs
  <2>6. /\ both.min \in lows /\ \A v \in Values(new) \union Lows(m) : both.min <= v
        /\ both.max \in highs /\ \A v \in Values(new) \union Highs(m) : v <= both.max
    <3>1. n.min \in Nat /\ n.max \in Nat
      BY <1>4, <2>1, <2>4
    <3>2. CASE m.count = 0
      <4>1. Lows(m) = {} /\ Highs(m) = {} /\ both = n
        BY <1>5, <3>2 DEF Lows, Highs
      <4> QED BY <1>4, <2>1, <4>1
    <3>3. CASE m.count # 0
      <4>1. m.min \in Nat /\ m.max \in Nat
        BY <2>3, <2>4, <3>3
      <4>2. both.min = Lesser(m.min, n.min) /\ both.max = Greater(m.max, n.max)
        BY <1>5, <1>7, <3>3
      <4>3. Lows(m) = {m.min} /\ Highs(m) = {m.max}
        BY <3>3 DEF Lows, Highs
      <4>4. both.min \in {m.min, n.min} /\ both.max \in {m.max, n.max}
        BY <4>2 DEF Lesser, Greater
      <4>5. both.min \in lows /\ both.max \in highs
        BY <1>4, <2>1, <4>3, <4>4
      <4>6. /\ both.min <= m.min /\ both.min <= n.min /\ both.min \in Nat
            /\ m.max <= both.max /\ n.max <= both.max /\ both.max \in Nat
        BY <3>1, <4>1, <4>2 DEF Lesser, Greater
      <4>7. ASSUME NEW v \in Values(new)
            PROVE  both.min <= v /\ v <= both.max
        <5>1. v \in Nat /\ n.min <= v /\ v <= n.max
          BY <1>4, <2>1, <2>4
        <5> QED BY <3>1, <4>6, <5>1
      <4> QED BY <4>3, <4>5, <4>6, <4>7
    <3> QED BY <3>2, <3>3
  <2>7. Lows(both) = {both.min} /\ Highs(both) = {both.max}
    BY <2>2 DEF Lows, Highs
  <2>8. lows2 \subseteq lows /\ highs2 \subseteq highs /\ both.min \in lows2 /\ both.max \in highs2
    BY <1>4, <2>6, <2>7
  <2>9. \A v \in lows : v \in lows2 \/ both.min <= v
    BY <1>4, <2>6
  <2>10. \A v \in highs : v \in highs2 \/ v <= both.max
    BY <1>4, <2>6
  <2> HIDE DEF lows, lows2, highs, highs2
  <2>11. PICK a \in lows2 : \A v \in lows2 : a <= v
    BY <2>5, <2>8, LeastExists
  <2>12. Min(lows2) = a /\ Min(lows) = a
    <3>1. ASSUME NEW v \in lows PROVE a <= v
      <4>1. a \in Nat /\ both.min \in Nat /\ v \in Nat /\ a <= both.min
        BY <2>5, <2>8, <2>11
      <4> QED BY <2>9, <2>11, <4>1
    <3>2. lows2 \in SUBSET Nat /\ lows \in SUBSET Nat /\ a \in lows
      BY <2>5, <2>8
    <3> QED BY <2>11, <3>1, <3>2, ExtremesAre
  <2>13. PICK b \in highs2 : \A v \in highs2 : v <= b
    <3>1. rest \in SUBSET Reports /\ Values(rest) \union Highs(both) # {}
      BY <2>7
    <3> QED BY <1>5, <3>1, HighestExists DEF highs2
  <2>14. Max(highs2) = b /\ Max(highs) = b
    <3>1. ASSUME NEW v \in highs PROVE v <= b
      <4>1. b \in Nat /\ both.max \in Nat /\ v \in Nat /\ both.max <= b
        BY <2>5, <2>8, <2>13
      <4> QED BY <2>10, <2>13, <4>1
    <3>2. highs2 \in SUBSET Nat /\ highs \in SUBSET Nat /\ b \in highs
      BY <2>5, <2>8
    <3> QED BY <2>13, <3>1, <3>2, ExtremesAre
  <2>15. lows # {} /\ lows2 # {} /\ highs # {} /\ highs2 # {}
    BY <2>6, <2>8
  <2>16. Least(lows) = Least(lows2) /\ Greatest(highs) = Greatest(highs2)
    BY <2>12, <2>14, <2>15, Zenon DEF Least, Greatest
  <2> QED BY <2>16, Zenon DEF lows, lows2, highs, highs2, both, n
<1> QED BY <1>6, <1>7

-----------------------------------------------------------------------------
(* What is shown of an hour, step by step.                                 *)

\* One number more among some that have a least and a greatest.
LEMMA ExtremesGrow ==
  ASSUME NEW S \in SUBSET Nat, NEW v \in Nat
  PROVE  /\ Least(S \union {v}) = Min({Least(S), v} \ {Nil})
         /\ (S = {} \/ \E b \in S : \A x \in S : x <= b) =>
              Greatest(S \union {v}) = Max({Greatest(S), v} \ {Nil})
<1>1. v # Nil
  BY ReportsAssumption
<1>2. CASE S = {}
  <2>1. S \union {v} = {v} /\ S \union {v} # {}
    BY <1>2
  <2>2. Least(S) = Nil /\ Greatest(S) = Nil
    BY <1>2 DEF Least, Greatest
  <2>3. {Nil, v} \ {Nil} = {v}
    BY <1>1
  <2> QED BY <2>1, <2>2, <2>3, Zenon DEF Least, Greatest
<1>3. CASE S # {}
  <2>1. PICK a \in S : \A x \in S : a <= x
    BY <1>3, LeastExists
  <2>2. Min(S) = a /\ Least(S) = a /\ a # Nil
    <3>1. Min(S) = a
      BY <2>1, ExtremesAre
    <3> QED BY <1>3, <2>1, <3>1, ReportsAssumption DEF Least
  <2>3. {Least(S), v} \ {Nil} = {a, v}
    BY <1>1, <2>2
  <2>4. Least(S \union {v}) = Min(S \union {v})
    BY <1>3 DEF Least
  <2>5. Min(S \union {v}) = Lesser(a, v) /\ Min({a, v}) = Lesser(a, v)
    <3>1. /\ Lesser(a, v) \in S \union {v} /\ Lesser(a, v) \in {a, v}
          /\ \A x \in S \union {v} : Lesser(a, v) <= x
          /\ \A x \in {a, v} : Lesser(a, v) <= x
      BY <2>1 DEF Lesser
    <3>2. S \union {v} \in SUBSET Nat /\ {a, v} \in SUBSET Nat
      BY <2>1
    <3> QED BY <3>1, <3>2, ExtremesAre
  <2>6. Least(S \union {v}) = Min({Least(S), v} \ {Nil})
    BY <2>3, <2>4, <2>5
  <2>7. ASSUME NEW b \in S, \A x \in S : x <= b
        PROVE  Greatest(S \union {v}) = Max({Greatest(S), v} \ {Nil})
    <3>1. Greatest(S) = b /\ b # Nil
      <4>1. Max(S) = b
        BY <2>7, ExtremesAre
      <4> QED BY <1>3, <2>7, <4>1, ReportsAssumption DEF Greatest
    <3>2. {Greatest(S), v} \ {Nil} = {b, v}
      BY <1>1, <3>1
    <3>3. Greatest(S \union {v}) = Max(S \union {v})
      BY <1>3 DEF Greatest
    <3>4. Max(S \union {v}) = Greater(b, v) /\ Max({b, v}) = Greater(b, v)
      <4>1. /\ Greater(b, v) \in S \union {v} /\ Greater(b, v) \in {b, v}
            /\ \A x \in S \union {v} : x <= Greater(b, v)
            /\ \A x \in {b, v} : x <= Greater(b, v)
        BY <2>7 DEF Greater
      <4>2. S \union {v} \in SUBSET Nat /\ {b, v} \in SUBSET Nat
        BY <2>7
      <4> QED BY <4>1, <4>2, ExtremesAre
    <3> QED BY <3>2, <3>3, <3>4
  <2> QED BY <1>3, <2>6, <2>7
<1> QED BY <1>2, <1>3

\* A sample more.
LEMMA TallyGrows ==
  ASSUME NEW raw \in SUBSET Reports, NEW r \in Reports \ raw,
         NEW aggregate, aggregate.metric \in Kept, aggregate.count \in Nat
  PROVE  Tally(raw \union {r}, aggregate) = Grown(Tally(raw, aggregate), Metric[r])
<1> DEFINE m == aggregate.metric
           more == raw \union {r}
           tally == Tally(raw, aggregate)
           lows == Values(raw) \union Lows(m)
           highs == Values(raw) \union Highs(m)
<1>1. more \in SUBSET Reports /\ r \in more /\ more \ {r} = raw
  OBVIOUS
<1>2. IsFiniteSet(raw) /\ Cardinality(raw) \in Nat /\ Cardinality(more) = Cardinality(raw) + 1
  BY Finite, FS_AddElement
<1>3. Cardinality(more) + aggregate.count = (Cardinality(raw) + aggregate.count) + 1
  <2> DEFINE c == Cardinality(raw)
             d == Cardinality(more)
  <2> HIDE DEF c, d
  <2>1. c \in Nat /\ d = c + 1
    BY <1>2 DEF c, d
  <2>2. d + aggregate.count = (c + aggregate.count) + 1
    BY <2>1
  <2> QED BY <2>2 DEF c, d
<1>4. tally = [samples |-> Cardinality(raw) + aggregate.count,
               count |-> Cardinality(Having(raw)) + m.count,
               total |-> Sum(Having(raw)) + Total(m),
               min |-> Least(lows), max |-> Greatest(highs)]
  BY TallyIs
<1>5. Tally(more, aggregate) =
        [samples |-> Cardinality(more) + aggregate.count,
         count |-> Cardinality(Having(more)) + m.count,
         total |-> Sum(Having(more)) + Total(m),
         min |-> Least(Values(more) \union Lows(m)),
         max |-> Greatest(Values(more) \union Highs(m))]
  BY <1>1, TallyIs
<1>6. CASE Metric[r] = Nil
  <2>1. Having(more) = Having(raw)
    <3>1. Having(more) = Having(more \ {r})
      BY <1>1, <1>6, HavingMore
    <3> QED BY <1>1, <3>1, Zenon
  <2>2. Values(more) = Values(raw)
    BY <2>1, Zenon DEF Values
  <2>3. Grown(tally, Metric[r]) = [tally EXCEPT !.samples = @ + 1]
    BY <1>6, Zenon DEF Grown
  <2> HIDE DEF tally, lows, highs, m
  <2>4. [tally EXCEPT !.samples = @ + 1] =
          [samples |-> (Cardinality(raw) + aggregate.count) + 1,
           count |-> Cardinality(Having(raw)) + m.count,
           total |-> Sum(Having(raw)) + Total(m),
           min |-> Least(lows), max |-> Greatest(highs)]
    BY <1>4
  <2>5. Tally(more, aggregate) = [tally EXCEPT !.samples = @ + 1]
    BY <1>3, <1>5, <2>1, <2>2, <2>4, Zenon DEF lows, highs
  <2> QED BY <2>3, <2>5, Zenon DEF tally
<1>7. CASE Metric[r] # Nil
  <2> DEFINE v == Metric[r]
  <2>1. /\ v \in Nat /\ r \in Having(more) /\ Having(more) \ {r} = Having(raw)
        /\ Having(more) = Having(raw) \union {r}
        /\ Cardinality(Having(more)) = Cardinality(Having(raw)) + 1
        /\ Having(more) \in SUBSET Known
    <3>1. /\ v \in Nat /\ r \in Having(more) /\ Having(more) \ {r} = Having(more \ {r})
          /\ Having(more) = Having(more \ {r}) \union {r}
          /\ Cardinality(Having(more)) = Cardinality(Having(more \ {r})) + 1
          /\ Having(more) \in SUBSET Known
      BY <1>1, <1>7, HavingMore
    <3> QED BY <1>1, <3>1, Zenon
  <2>2. Sum(Having(more)) = Sum(Having(raw)) + v
    <3>1. Sum(Having(more)) = Sum(Having(more) \ {r}) + v
      BY <2>1, SumLess
    <3> QED BY <2>1, <3>1, Zenon
  <2>3. Having(raw) \in SUBSET Known /\ Having(raw) \in SUBSET Reports
    BY DEF Having, Known
  <2>4. /\ Cardinality(Having(raw)) \in Nat /\ Sum(Having(raw)) \in Nat
        /\ m.count \in Nat /\ Total(m) \in Nat
    BY <2>3, Finite, SumInNat, KeptFacts DEF Total, Filled
  <2>5. /\ Cardinality(Having(more)) + m.count = (Cardinality(Having(raw)) + m.count) + 1
        /\ Sum(Having(more)) + Total(m) = (Sum(Having(raw)) + Total(m)) + v
    <3> DEFINE c == Cardinality(Having(raw))
               d == Cardinality(Having(more))
               s == Sum(Having(raw))
               t == Sum(Having(more))
               n == m.count
               u == Total(m)
    <3>1. d = c + 1 /\ t = s + v /\ c \in Nat /\ s \in Nat /\ n \in Nat /\ u \in Nat /\ v \in Nat
      BY <2>1, <2>2, <2>4, Zenon
    <3> HIDE DEF c, d, s, t, n, u, v
    <3>2. d + n = (c + n) + 1 /\ t + u = (s + u) + v
      BY <3>1
    <3> QED BY <3>2, Zenon DEF c, d, s, t, n, u, v
  <2>6. Values(more) = Values(raw) \union {v}
    BY <2>1 DEF Values
  <2>7. /\ Values(more) \union Lows(m) = lows \union {v}
        /\ Values(more) \union Highs(m) = highs \union {v}
    BY <2>6
  <2>8. lows \in SUBSET Nat /\ highs \in SUBSET Nat
    <3>1. Lows(m) \subseteq Nat /\ Highs(m) \subseteq Nat
      BY KeptFacts DEF Lows, Highs, Filled
    <3> QED BY <3>1, ValuesInNat
  <2>9. highs = {} \/ \E b \in highs : \A x \in highs : x <= b
    BY HighestExists
  <2> HIDE DEF lows, highs
  <2>10. /\ Least(lows \union {v}) = Min({Least(lows), v} \ {Nil})
         /\ Greatest(highs \union {v}) = Max({Greatest(highs), v} \ {Nil})
    BY <2>1, <2>8, <2>9, ExtremesGrow
  <2> HIDE DEF tally, m, v
  <2>11. /\ tally.samples = Cardinality(raw) + aggregate.count
         /\ tally.count = Cardinality(Having(raw)) + m.count
         /\ tally.total = Sum(Having(raw)) + Total(m)
         /\ tally.min = Least(lows) /\ tally.max = Greatest(highs)
    BY <1>4
  <2>12. Grown(tally, v) =
           [samples |-> tally.samples + 1, count |-> tally.count + 1,
            total |-> tally.total + v,
            min |-> Min({tally.min, v} \ {Nil}), max |-> Max({tally.max, v} \ {Nil})]
    BY <1>7, Zenon DEF Grown, v
  <2>13. Tally(more, aggregate) = Grown(tally, v)
    BY <1>3, <1>5, <2>5, <2>7, <2>10, <2>11, <2>12, Zenon
  <2> QED BY <2>13, Zenon DEF tally, v
<1> QED BY <1>6, <1>7

SameButTotal(t, u) ==
  u.samples = t.samples /\ u.count = t.count /\ u.min = t.min /\ u.max = t.max

\* Some of the samples are put into the aggregate.
LEMMA TallyMerges ==
  ASSUME NEW raw \in SUBSET Reports, NEW new \in SUBSET raw,
         NEW old, old.metric \in Kept, old.count \in Nat,
         NEW made, made.metric = Upserted(old.metric, Recorded(new)),
         made.count = old.count + Cardinality(new)
  PROVE  /\ SameButTotal(Tally(raw, old), Tally(raw \ new, made))
         /\ \A most \in Nat :
              AllWhole(most) /\ Whole(Total(old.metric), most) /\ Tally(raw, old).count <= most =>
                /\ Tally(raw \ new, made) = Tally(raw, old)
                /\ Whole(Total(made.metric), most)
<1> DEFINE m == old.metric
           n == Recorded(new)
           both == Upserted(m, n)
           rest == raw \ new
           before == Tally(raw, old)
           after == Tally(rest, made)
<1>1. rest \in SUBSET Reports /\ new \in SUBSET Reports
  OBVIOUS
<1>2. n \in Kept /\ n.count = Cardinality(Having(new))
  BY <1>1, RecordedTells DEF Tells
<1> HIDE DEF n
<1>3. both \in Kept /\ both.count = m.count + n.count
  BY <1>2, UpsertedIs
<1>4. made.metric = both
  BY DEF n
<1>5. before = [samples |-> Cardinality(raw) + old.count,
                count |-> Cardinality(Having(raw)) + m.count,
                total |-> Sum(Having(raw)) + Total(m),
                min |-> Least(Values(raw) \union Lows(m)),
                max |-> Greatest(Values(raw) \union Highs(m))]
  BY TallyIs
<1>6. after = [samples |-> Cardinality(rest) + made.count,
               count |-> Cardinality(Having(rest)) + both.count,
               total |-> Sum(Having(rest)) + Total(both),
               min |-> Least(Values(rest) \union Lows(both)),
               max |-> Greatest(Values(rest) \union Highs(both))]
  BY <1>1, <1>3, <1>4, TallyIs
<1>7. /\ Least(Values(raw) \union Lows(m)) = Least(Values(rest) \union Lows(both))
      /\ Greatest(Values(raw) \union Highs(m)) = Greatest(Values(rest) \union Highs(both))
  BY ExtremesMerged DEF n
<1>8. ASSUME NEW S \in SUBSET Reports, NEW T \in SUBSET S
      PROVE  Cardinality(S) \in Nat /\ Cardinality(T) \in Nat /\ Cardinality(S \ T) \in Nat
               /\ Cardinality(S) = Cardinality(S \ T) + Cardinality(T)
  <2>1. T \in SUBSET Reports /\ S \ T \in SUBSET Reports /\ S \cap T = T
    OBVIOUS
  <2>2. /\ IsFiniteSet(S) /\ Cardinality(S) \in Nat
        /\ Cardinality(T) \in Nat /\ Cardinality(S \ T) \in Nat
    BY <2>1, Finite
  <2>3. Cardinality(S \ T) = Cardinality(S) - Cardinality(S \cap T)
    BY <2>2, FS_Difference
  <2>4. Cardinality(S \ T) = Cardinality(S) - Cardinality(T)
    BY <2>1, <2>3, Zenon
  <2> DEFINE s == Cardinality(S)
             t == Cardinality(T)
             d == Cardinality(S \ T)
  <2>5. s = d + t
    <3>1. d = s - t /\ s \in Nat /\ t \in Nat
      BY <2>2, <2>4, Zenon
    <3> HIDE DEF s, t, d
    <3> QED BY <3>1
  <2> QED BY <2>2, <2>5, Zenon
<1>9. /\ Having(raw) \in SUBSET Reports /\ Having(new) \in SUBSET Having(raw)
      /\ Having(rest) = Having(raw) \ Having(new)
      /\ Having(raw) = Having(rest) \union Having(new) /\ Having(rest) \cap Having(new) = {}
      /\ Having(rest) \in SUBSET Known /\ Having(new) \in SUBSET Known
  BY DEF Having, Known
<1>10. Cardinality(rest) + made.count = Cardinality(raw) + old.count
  <2> DEFINE s == Cardinality(raw)
             t == Cardinality(new)
             d == Cardinality(rest)
  <2>1. s \in Nat /\ t \in Nat /\ d \in Nat /\ s = d + t
    BY <1>8, Zenon
  <2>2. made.count = old.count + t
    OBVIOUS
  <2> HIDE DEF s, t, d
  <2>3. d + made.count = s + old.count
    BY <2>1, <2>2
  <2> QED BY <2>3, Zenon DEF s, d
<1>11. Cardinality(Having(rest)) + both.count = Cardinality(Having(raw)) + m.count
  <2> DEFINE s == Cardinality(Having(raw))
             t == Cardinality(Having(new))
             d == Cardinality(Having(rest))
  <2>1. s \in Nat /\ t \in Nat /\ d \in Nat /\ s = d + t
    BY <1>8, <1>9, Zenon
  <2>2. both.count = m.count + t /\ m.count \in Nat
    BY <1>2, <1>3, KeptFacts
  <2> HIDE DEF s, t, d, both
  <2>3. d + both.count = s + m.count
    BY <2>1, <2>2
  <2> QED BY <2>3, Zenon DEF s, d
<1> HIDE DEF both, m
<1>12. /\ after.samples = before.samples /\ after.count = before.count
       /\ after.min = before.min /\ after.max = before.max
       /\ before.count = Cardinality(Having(raw)) + m.count
       /\ before.total = Sum(Having(raw)) + Total(m)
  <2> HIDE DEF before, after
  <2> QED BY <1>5, <1>6, <1>7, <1>10, <1>11
<1>13. ASSUME NEW most \in Nat, AllWhole(most), Whole(Total(m), most), before.count <= most
       PROVE  after = before /\ Whole(Total(both), most)
  <2> DEFINE s == Cardinality(Having(raw))
             t == Cardinality(Having(new))
             d == Cardinality(Having(rest))
  <2>1. s \in Nat /\ t \in Nat /\ d \in Nat /\ s = d + t
    BY <1>8, <1>9, Zenon
  <2>2. both.count = m.count + t /\ m.count \in Nat /\ s + m.count <= most
    <3>1. m \in Kept
      BY DEF m
    <3> QED BY <1>2, <1>3, <1>12, <1>13, <3>1, KeptFacts
  <2>3. t <= most /\ both.count <= most
    <3> HIDE DEF s, t, d
    <3> QED BY <2>1, <2>2
  <2>4. Total(n) = Sum(Having(new)) /\ Whole(Sum(Having(new)), most)
    BY <1>1, <1>13, <2>3, RecordedTotal DEF n
  <2>5. Total(both) = Total(m) + Total(n) /\ Whole(Total(both), most)
    <3>1. m \in Kept
      BY DEF m
    <3>2. Whole(Total(n), most)
      BY <2>4
    <3> QED BY <1>2, <1>13, <2>3, <3>1, <3>2, UpsertedIs DEF both
  <2>6. Sum(Having(raw)) = Sum(Having(rest)) + Sum(Having(new))
    <3>1. Sum(Having(rest) \union Having(new)) = Sum(Having(rest)) + Sum(Having(new))
      BY <1>9, SumUnion
    <3> QED BY <1>9, <3>1, Zenon
  <2>7. Sum(Having(rest)) + Total(both) = Sum(Having(raw)) + Total(m)
    <3> DEFINE a == Sum(Having(rest))
               b == Sum(Having(new))
               c == Sum(Having(raw))
               x == Total(both)
               y == Total(m)
    <3>1. a \in Nat /\ b \in Nat /\ y \in Nat
      <4>1. m \in Kept
        BY DEF m
      <4>2. a \in Nat /\ b \in Nat
        BY <1>9, SumInNat
      <4>3. y \in Nat
        BY <4>1, KeptFacts DEF Total, Filled
      <4> QED BY <4>2, <4>3
    <3>2. x = y + b /\ c = a + b
      BY <2>4, <2>5, <2>6, Zenon
    <3> HIDE DEF a, b, c, x, y
    <3>3. a + x = c + y
      BY <3>1, <3>2
    <3> QED BY <3>3, Zenon DEF a, c, x, y
  <2>8. after = before
    BY <1>5, <1>6, <1>7, <1>10, <1>11, <2>7, Zenon
  <2> QED BY <2>5, <2>8
<1> QED BY <1>4, <1>12, <1>13, Zenon DEF m, SameButTotal

-----------------------------------------------------------------------------
(* The rows and the hosts.                                                 *)

\* The report that a host points to.
Pointed ==
  \A h \in Hosts : hosts[h].latest # Nil =>
    /\ hosts[h].latest \in since
    /\ rows[hosts[h].latest].host = h
    /\ ~rows[hosts[h].latest].aggregated

Payloads ==
  \A r \in Reports : rows[r] # NoRow =>
    (rows[r].payload <=> hosts[rows[r].host].latest = r)

Received == \A r \in Reports : rows[r].received <= clock

Inv == TypeOK /\ Pointed /\ Payloads /\ Received /\ LatestIsNewest
USE ReportsAssumption, RetentionAssumption DEF ValidConfig

-----------------------------------------------------------------------------
(* The order of the reports.                                               *)

Triple == Nat \X Nat \X Nat

LEMMA NewerTransitive ==
  ASSUME NEW j \in Triple, NEW k \in Triple, NEW l \in Triple, Newer(j, k), Newer(k, l)
  PROVE  Newer(j, l)
BY DEF Newer, Triple

LEMMA NewerTotal ==
  ASSUME NEW k \in Triple, NEW l \in Triple, k[3] # l[3]
  PROVE  Newer(k, l) \/ Newer(l, k)
BY DEF Newer, Triple

LEMMA KeyType ==
  ASSUME NEW r \in Reports, NEW row \in Row
  PROVE  Key(r, row) \in Triple /\ Key(r, row)[3] = r
BY DEF Key, Row, Times, Lesser, Triple

\* Only the two times of a row count.
LEMMA KeySame ==
  ASSUME NEW r, NEW row, NEW other,
         other.collected = row.collected, other.received = row.received
  PROVE  Key(r, other) = Key(r, row)
BY DEF Key

-----------------------------------------------------------------------------
(* The operations.                                                         *)

LEMMA InitInv == Init => Inv
BY DEF Init, Inv, TypeOK, Pointed, Payloads, Received, LatestIsNewest, Row, Host, NoRow,
       NoHost, Times

LEMMA StoreInv ==
  ASSUME Inv, NEW h \in Hosts, NEW r \in Reports, NEW collected \in Times,
         Store(h, r, collected)
  PROVE  Inv'
<1> DEFINE fresh == [host |-> h, collected |-> collected, received |-> clock,
                     payload |-> FALSE, aggregated |-> FALSE]
<1> DEFINE latest == BecomesLatest(h, r, fresh)
<1> DEFINE previous == hosts[h].latest
<1>1. /\ rows[r] = NoRow
      /\ hosts[h].status = "active"
      /\ rows' = [s \in Reports |->
           IF s = r THEN [fresh EXCEPT !.payload = latest]
           ELSE IF latest /\ s = previous THEN [rows[s] EXCEPT !.payload = FALSE]
           ELSE rows[s]]
      /\ hosts' = [hosts EXCEPT ![h].seen = Seen(hosts[h]),
                                ![h].latest = IF latest THEN r ELSE @]
      /\ since' = since \union {r}
      /\ clock' = clock
  BY DEF Store
<1>2. TypeOK
  BY DEF Inv
<1>3. fresh \in Row /\ latest \in BOOLEAN /\ r \notin since /\ r # Nil
  BY <1>2, <1>1 DEF TypeOK, Row, NoRow, BecomesLatest, Newer
<1> HIDE DEF latest, fresh
<1>4. /\ fresh.host = h /\ fresh.collected = collected /\ fresh.received = clock
      /\ fresh.aggregated = FALSE
  BY DEF fresh
<1>5. rows'[r] = [fresh EXCEPT !.payload = latest]
  BY <1>1
<1>6. /\ rows'[r].host = h /\ rows'[r].collected = collected /\ rows'[r].received = clock
      /\ rows'[r].aggregated = FALSE /\ rows'[r].payload = latest /\ rows'[r] \in Row
  BY <1>3, <1>4, <1>5 DEF Row
<1>7. ASSUME NEW s \in Reports, s # r
      PROVE  /\ rows'[s] \in Row
             /\ rows'[s].host = rows[s].host
             /\ rows'[s].collected = rows[s].collected
             /\ rows'[s].received = rows[s].received
             /\ rows'[s].aggregated = rows[s].aggregated
             /\ rows'[s].payload = IF latest /\ s = previous THEN FALSE ELSE rows[s].payload
             /\ ~(latest /\ s = previous) => rows'[s] = rows[s]
  <2>1. rows[s] \in Row
    BY <1>2 DEF TypeOK
  <2>2. rows'[s] = IF latest /\ s = previous THEN [rows[s] EXCEPT !.payload = FALSE]
                   ELSE rows[s]
    BY <1>1, <1>7
  <2> HIDE DEF previous
  <2>3. CASE latest /\ s = previous
    BY <2>1, <2>2, <2>3 DEF Row
  <2>4. CASE ~(latest /\ s = previous)
    BY <2>1, <2>2, <2>4
  <2> QED BY <2>3, <2>4
<1>8. Seen(hosts[h]) \in 0..MaxClock /\ Seen(hosts[h]) >= hosts[h].seen
        /\ Seen(hosts[h]) >= clock
  BY <1>2 DEF TypeOK, Host, Seen
<1>9. /\ hosts' \in [Hosts -> Host]
      /\ hosts'[h].latest = IF latest THEN r ELSE previous
      /\ hosts'[h].seen = Seen(hosts[h])
      /\ hosts'[h].status = "active"
      /\ \A g \in Hosts \ {h} : hosts'[g] = hosts[g]
  <2>1. hosts[h] \in Host
    BY <1>2 DEF TypeOK
  <2>2. hosts'[h] = [hosts[h] EXCEPT !.seen = Seen(hosts[h]),
                                     !.latest = IF latest THEN r ELSE previous]
    BY <1>1, <1>2 DEF TypeOK
  <2>3. \A g \in Hosts \ {h} : hosts'[g] = hosts[g]
    BY <1>1, <1>2 DEF TypeOK
  <2>4. /\ hosts'[h] \in Host
        /\ hosts'[h].latest = IF latest THEN r ELSE previous
        /\ hosts'[h].seen = Seen(hosts[h])
        /\ hosts'[h].status = "active"
    <3> DEFINE pointer == IF latest THEN r ELSE previous
               instant == Seen(hosts[h])
    <3>1. pointer \in Reports \union {Nil} /\ instant \in 0..MaxClock
      BY <1>8, <2>1 DEF Host
    <3>2. /\ hosts'[h] = [hosts[h] EXCEPT !.seen = instant, !.latest = pointer]
          /\ hosts[h].status = "active"
      BY <1>1, <2>2
    <3> HIDE DEF pointer, instant
    <3>3. /\ hosts'[h] \in Host /\ hosts'[h].latest = pointer
          /\ hosts'[h].seen = instant /\ hosts'[h].status = "active"
      BY <2>1, <3>1, <3>2 DEF Host
    <3> QED BY <3>3 DEF pointer, instant
  <2>5. hosts' \in [Hosts -> Host]
    BY <2>3, <2>4, <1>1, <1>2 DEF TypeOK
  <2> QED BY <2>3, <2>4, <2>5
<1>10. previous # Nil => previous \in Reports /\ previous # r /\ previous \in since
                           /\ rows[previous].host = h
  BY <1>1, <1>2 DEF Inv, Pointed, TypeOK, Host, NoRow
<1>11. TypeOK'
  <2>1. rows' \in [Reports -> Row]
    BY <1>1, <1>6, <1>7
  <2>2. since' \subseteq {s \in Reports : rows'[s] # NoRow}
    <3>1. rows'[r] # NoRow
      BY <1>6 DEF NoRow
    <3>2. ASSUME NEW s \in since PROVE s \in Reports /\ rows'[s] # NoRow
      <4>1. s \in Reports /\ s # r /\ rows[s] # NoRow
        BY <3>2, <1>2, <1>3 DEF TypeOK
      <4>2. CASE latest /\ s = previous
        <5>1. rows'[s].host = rows[s].host
          BY <4>1, <1>7
        <5>2. rows[s].host = h
          BY <4>1, <4>2, <1>10
        <5> QED BY <4>1, <5>1, <5>2 DEF NoRow
      <4>3. CASE ~(latest /\ s = previous)
        BY <4>1, <4>3, <1>7
      <4> QED BY <4>1, <4>2, <4>3
    <3> QED BY <3>1, <3>2, <1>1
  <2>3. \A s \in Reports : rows'[s].host = Nil => rows'[s] = NoRow
    <3> SUFFICES ASSUME NEW s \in Reports, rows'[s].host = Nil PROVE rows'[s] = NoRow
      OBVIOUS
    <3>1. s # r
      BY <1>6
    <3>2. rows[s].host = Nil
      BY <3>1, <1>7
    <3>3. s # previous
      BY <3>2, <1>10
    <3> QED BY <3>1, <3>2, <3>3, <1>2, <1>7 DEF TypeOK
  <2>4. \A g \in Hosts : hosts'[g].status = "absent" => hosts'[g] = NoHost
    BY <1>2, <1>9 DEF TypeOK
  <2> QED BY <1>1, <1>2, <1>9, <2>1, <2>2, <2>3, <2>4 DEF TypeOK
<1>12. Pointed'
  <2> SUFFICES ASSUME NEW g \in Hosts, hosts'[g].latest # Nil
               PROVE  /\ hosts'[g].latest \in since'
                      /\ rows'[hosts'[g].latest].host = g
                      /\ ~rows'[hosts'[g].latest].aggregated
    BY DEF Pointed
  <2>1. CASE g = h /\ latest
    <3>1. hosts'[g].latest = r
      BY <2>1, <1>9
    <3> QED BY <3>1, <2>1, <1>1, <1>6
  <2>2. CASE ~(g = h /\ latest)
    <3>1. hosts'[g].latest = hosts[g].latest
      BY <2>2, <1>9
    <3>2. hosts[g].latest \in since /\ rows[hosts[g].latest].host = g
            /\ ~rows[hosts[g].latest].aggregated
      BY <3>1 DEF Inv, Pointed
    <3>3. hosts[g].latest \in Reports /\ hosts[g].latest # r
      BY <3>2, <1>2, <1>3 DEF TypeOK
    <3> QED BY <3>1, <3>2, <3>3, <1>1, <1>7
  <2> QED BY <2>1, <2>2
<1>13. Payloads'
  <2> SUFFICES ASSUME NEW s \in Reports, rows'[s] # NoRow
               PROVE  rows'[s].payload <=> hosts'[rows'[s].host].latest = s
    BY DEF Payloads
  <2>1. CASE s = r
    <3>1. hosts'[h].latest = r <=> latest
      BY <1>9, <1>10, <1>3
    <3> QED BY <2>1, <3>1, <1>6
  <2>2. CASE s # r
    <3>1. rows[s] # NoRow
      <4>1. CASE latest /\ s = previous
        BY <4>1, <1>10, <1>2, <1>3 DEF TypeOK
      <4>2. CASE ~(latest /\ s = previous)
        BY <4>2, <2>2, <1>7
      <4> QED BY <4>1, <4>2
    <3>2. rows[s].host \in Hosts /\ rows'[s].host = rows[s].host
      BY <3>1, <2>2, <1>2, <1>7 DEF TypeOK, Row
    <3>3. rows[s].payload <=> hosts[rows[s].host].latest = s
      BY <3>1 DEF Inv, Payloads
    <3>4. rows[s].payload \in BOOLEAN /\ rows'[s].payload \in BOOLEAN
      BY <2>2, <1>2, <1>7 DEF TypeOK, Row
    <3>5. CASE latest /\ s = previous
      <4>1. ~rows'[s].payload
        BY <3>5, <2>2, <1>7
      <4>2. rows[s].host = h
        BY <3>5, <1>10, <1>2, <1>3 DEF TypeOK
      <4> QED BY <4>1, <4>2, <3>2, <3>5, <2>2, <1>9
    <3>6. CASE ~(latest /\ s = previous)
      <4>1. rows'[s].payload = rows[s].payload
        BY <3>6, <2>2, <1>7
      <4>2. hosts'[rows[s].host].latest = s <=> hosts[rows[s].host].latest = s
        BY <3>2, <3>6, <2>2, <1>9
      <4> QED BY <4>1, <4>2, <3>2, <3>3
    <3> QED BY <3>5, <3>6
  <2> QED BY <2>1, <2>2
<1>14. Received'
  <2> SUFFICES ASSUME NEW s \in Reports PROVE rows'[s].received <= clock
    BY <1>1 DEF Received
  <2>1. CASE s = r
    BY <2>1, <1>2, <1>6 DEF TypeOK
  <2>2. CASE s # r
    BY <2>2, <1>7 DEF Inv, Received
  <2> QED BY <2>1, <2>2
<1>15. \A s \in Reports \ {r} : Key(s, rows'[s]) = Key(s, rows[s])
  BY <1>7 DEF Key
<1>16. Key(r, rows'[r]) = Key(r, fresh)
  BY <1>4, <1>6 DEF Key
<1>17. \A s \in Reports : Key(s, rows'[s]) \in Triple /\ Key(s, rows'[s])[3] = s
  BY <1>6, <1>7, KeyType
<1>18. LatestIsNewest'
  <2> SUFFICES ASSUME NEW g \in Hosts, NEW s \in Reports, s \in since', rows'[s].host = g
               PROVE  /\ rows'[s].received <= hosts'[g].seen
                      /\ hosts'[g].latest # Nil
                      /\ \/ hosts'[g].latest = s
                         \/ Newer(Key(hosts'[g].latest, rows'[hosts'[g].latest]),
                                  Key(s, rows'[s]))
    BY DEF LatestIsNewest
  <2>1. CASE s = r
    <3>1. g = h /\ rows'[s].received <= hosts'[g].seen
      BY <2>1, <1>6, <1>8, <1>9, <1>2 DEF TypeOK
    <3>2. CASE latest
      BY <3>1, <3>2, <2>1, <1>3, <1>9
    <3>3. CASE ~latest
      <4>1. previous # Nil /\ ~Newer(Key(r, fresh), Key(previous, rows[previous]))
        BY <3>3 DEF latest, BecomesLatest
      <4>2. Newer(Key(previous, rows'[previous]), Key(r, rows'[r]))
        BY <4>1, <1>10, <1>15, <1>16, <1>17, NewerTotal
      <4> QED BY <4>1, <4>2, <3>1, <3>3, <2>1, <1>9
    <3> QED BY <3>2, <3>3
  <2>2. CASE s # r
    <3>1. s \in since /\ rows[s].host = g /\ rows'[s].received = rows[s].received
      BY <2>2, <1>1, <1>7
    <3>2. /\ rows[s].received <= hosts[g].seen
          /\ hosts[g].latest # Nil
          /\ \/ hosts[g].latest = s
             \/ Newer(Key(hosts[g].latest, rows[hosts[g].latest]), Key(s, rows[s]))
      BY <3>1 DEF Inv, LatestIsNewest
    <3>3. hosts[g].latest \in Reports \ {r}
      <4>1. hosts[g].latest \in since
        BY <3>2 DEF Inv, Pointed
      <4> QED BY <4>1, <1>2, <1>3 DEF TypeOK
    <3>4. rows'[s].received <= hosts'[g].seen
      <4>1. rows[s].received \in Nat /\ hosts[g].seen \in Nat
        BY <1>2 DEF TypeOK, Row, Host
      <4>2. hosts'[g].seen \in Nat /\ hosts'[g].seen >= hosts[g].seen
        BY <4>1, <1>8, <1>9
      <4> HIDE DEF latest, previous
      <4> QED BY <3>1, <3>2, <4>1, <4>2
    <3>5. hosts[g].latest = s \/ Newer(Key(hosts[g].latest, rows'[hosts[g].latest]), Key(s, rows'[s]))
      BY <3>2, <3>3, <2>2, <1>15
    <3>6. CASE g = h /\ latest
      <4>1. Newer(Key(r, rows'[r]), Key(previous, rows'[previous]))
        BY <3>6, <3>2, <3>3, <1>15, <1>16 DEF latest, BecomesLatest
      <4>2. Newer(Key(r, rows'[r]), Key(s, rows'[s]))
        BY <4>1, <3>3, <3>5, <3>6, <1>17, NewerTransitive
      <4> QED BY <4>2, <3>4, <3>6, <1>3, <1>9
    <3>7. CASE ~(g = h /\ latest)
      <4>1. hosts'[g].latest = hosts[g].latest
        BY <3>7, <1>9
      <4> QED BY <4>1, <3>2, <3>4, <3>5
    <3> QED BY <3>6, <3>7
  <2> QED BY <2>1, <2>2
<1> QED BY <1>11, <1>12, <1>13, <1>14, <1>18 DEF Inv

\* A step that keeps the pointers and what they compare keeps the newest: the
\* reports that count stay as they were.
LEMMA NewestKept ==
  ASSUME Inv,
         since' \subseteq since,
         \A s \in since' : /\ rows'[s].host = rows[s].host
                           /\ rows'[s].collected = rows[s].collected
                           /\ rows'[s].received = rows[s].received,
         \A g \in Hosts : (\E s \in since' : rows[s].host = g) =>
           /\ hosts'[g].latest = hosts[g].latest
           /\ hosts'[g].latest \in since'
           /\ hosts'[g].seen = hosts[g].seen
  PROVE  LatestIsNewest'
<1> SUFFICES ASSUME NEW g \in Hosts, NEW s \in Reports, s \in since', rows'[s].host = g
             PROVE  /\ rows'[s].received <= hosts'[g].seen
                    /\ hosts'[g].latest # Nil
                    /\ \/ hosts'[g].latest = s
                       \/ Newer(Key(hosts'[g].latest, rows'[hosts'[g].latest]),
                                Key(s, rows'[s]))
  BY DEF LatestIsNewest
<1>1. s \in since /\ rows[s].host = g /\ rows'[s].received = rows[s].received
  OBVIOUS
<1>2. /\ hosts'[g].latest = hosts[g].latest
      /\ hosts'[g].latest \in since'
      /\ hosts'[g].seen = hosts[g].seen
  BY <1>1
<1>3. /\ rows[s].received <= hosts[g].seen
      /\ hosts[g].latest # Nil
      /\ \/ hosts[g].latest = s
         \/ Newer(Key(hosts[g].latest, rows[hosts[g].latest]), Key(s, rows[s]))
  BY <1>1 DEF Inv, LatestIsNewest
<1>4. \A r \in since' : Key(r, rows'[r]) = Key(r, rows[r])
  BY KeySame
<1> QED BY <1>1, <1>2, <1>3, <1>4

LEMMA ActivateInv ==
  ASSUME Inv, NEW h \in Hosts, Activate(h)
  PROVE  Inv'
<1>1. /\ rows' = [r \in Reports |->
           IF r = hosts[h].latest THEN [rows[r] EXCEPT !.payload = FALSE] ELSE rows[r]]
      /\ hosts' = [hosts EXCEPT ![h] = [status |-> "active", latest |-> Nil, seen |-> clock]]
      /\ since' = {r \in since : rows[r].host # h}
      /\ clock' = clock
  BY DEF Activate, PayloadReleased
<1>2. TypeOK /\ Pointed
  BY DEF Inv
<1>3. hosts[h].latest # Nil =>
        hosts[h].latest \in Reports /\ rows[hosts[h].latest].host = h
  BY <1>2 DEF TypeOK, Pointed
<1>4. ASSUME NEW r \in Reports
      PROVE  /\ rows'[r] \in Row
             /\ rows'[r].host = rows[r].host
             /\ rows'[r].collected = rows[r].collected
             /\ rows'[r].received = rows[r].received
             /\ rows'[r].aggregated = rows[r].aggregated
             /\ rows'[r].payload = IF r = hosts[h].latest THEN FALSE ELSE rows[r].payload
             /\ r # hosts[h].latest => rows'[r] = rows[r]
  <2>1. rows[r] \in Row
    BY <1>2 DEF TypeOK
  <2>2. rows'[r] = IF r = hosts[h].latest THEN [rows[r] EXCEPT !.payload = FALSE]
                   ELSE rows[r]
    BY <1>1
  <2>3. CASE r = hosts[h].latest
    BY <2>1, <2>2, <2>3 DEF Row
  <2>4. CASE r # hosts[h].latest
    BY <2>1, <2>2, <2>4
  <2> QED BY <2>3, <2>4
<1>5. /\ hosts' \in [Hosts -> Host]
      /\ hosts'[h].latest = Nil /\ hosts'[h].status = "active"
      /\ \A g \in Hosts \ {h} : hosts'[g] = hosts[g]
  BY <1>1, <1>2 DEF TypeOK, Host
<1>6. \A r \in Reports : rows[r].host # h => r # hosts[h].latest
  BY <1>3
<1>7. \A r \in Reports : rows[r] # NoRow <=> rows'[r] # NoRow
  <2> SUFFICES ASSUME NEW r \in Reports PROVE rows[r] # NoRow <=> rows'[r] # NoRow
    OBVIOUS
  <2>1. CASE r = hosts[h].latest
    <3>1. rows[r].host = h /\ rows'[r].host = h
      BY <2>1, <1>3, <1>4
    <3> QED BY <3>1 DEF NoRow
  <2>2. CASE r # hosts[h].latest
    BY <2>2, <1>4
  <2> QED BY <2>1, <2>2
<1>8. TypeOK'
  <2>1. rows' \in [Reports -> Row]
    BY <1>1, <1>4
  <2>2. since' \subseteq {r \in Reports : rows'[r] # NoRow}
    BY <1>1, <1>2, <1>7 DEF TypeOK
  <2>3. \A r \in Reports : rows'[r].host = Nil => rows'[r] = NoRow
    BY <1>2, <1>4, <1>7 DEF TypeOK
  <2>4. \A g \in Hosts : hosts'[g].status = "absent" => hosts'[g] = NoHost
    BY <1>2, <1>5 DEF TypeOK
  <2> QED BY <1>1, <1>2, <1>5, <2>1, <2>2, <2>3, <2>4 DEF TypeOK
<1>9. Pointed'
  <2> SUFFICES ASSUME NEW g \in Hosts, hosts'[g].latest # Nil
               PROVE  /\ hosts'[g].latest \in since'
                      /\ rows'[hosts'[g].latest].host = g
                      /\ ~rows'[hosts'[g].latest].aggregated
    BY DEF Pointed
  <2>1. g # h /\ hosts'[g].latest = hosts[g].latest
    BY <1>5
  <2>2. hosts[g].latest \in since /\ rows[hosts[g].latest].host = g
          /\ ~rows[hosts[g].latest].aggregated
    BY <2>1, <1>2 DEF Pointed
  <2>3. hosts[g].latest \in Reports
    BY <2>2, <1>2 DEF TypeOK
  <2> QED BY <2>1, <2>2, <2>3, <1>1, <1>4
<1>10. Payloads'
  <2> SUFFICES ASSUME NEW r \in Reports, rows'[r] # NoRow
               PROVE  rows'[r].payload <=> hosts'[rows'[r].host].latest = r
    BY DEF Payloads
  <2>1. rows[r] # NoRow /\ rows[r].host \in Hosts /\ rows'[r].host = rows[r].host
    BY <1>2, <1>4, <1>7 DEF TypeOK, Row
  <2>2. rows[r].payload <=> hosts[rows[r].host].latest = r
    BY <2>1 DEF Inv, Payloads
  <2>3. CASE rows[r].host = h
    <3>1. hosts'[h].latest # r
      BY <1>5
    <3>2. ~rows'[r].payload
      BY <2>2, <2>3, <1>4
    <3> QED BY <3>1, <3>2, <2>1, <2>3
  <2>4. CASE rows[r].host # h
    <3>1. rows'[r] = rows[r]
      BY <2>4, <1>4, <1>6
    <3> QED BY <3>1, <2>1, <2>2, <2>4, <1>5
  <2> QED BY <2>3, <2>4
<1>11. Received'
  BY <1>1, <1>4 DEF Inv, Received
<1>12. LatestIsNewest'
  <2>1. since' \subseteq since /\ since \subseteq Reports
    BY <1>1, <1>2 DEF TypeOK
  <2>2. ASSUME NEW g \in Hosts, NEW s \in since', rows[s].host = g
        PROVE  /\ hosts'[g].latest = hosts[g].latest
               /\ hosts'[g].latest \in since'
               /\ hosts'[g].seen = hosts[g].seen
    <3>1. g # h /\ hosts'[g] = hosts[g]
      BY <2>2, <1>1, <1>5
    <3>2. hosts[g].latest # Nil
      BY <2>1, <2>2 DEF Inv, LatestIsNewest
    <3> QED BY <3>1, <3>2, <1>9 DEF Pointed
  <2> QED BY <2>1, <2>2, <1>4, NewestKept
<1> QED BY <1>8, <1>9, <1>10, <1>11, <1>12 DEF Inv

LEMMA RevokeInv ==
  ASSUME Inv, NEW h \in Hosts, Revoke(h)
  PROVE  Inv'
<1>1. /\ hosts' = [hosts EXCEPT ![h].status = "revoked"]
      /\ rows' = rows /\ clock' = clock /\ since' = since
  BY DEF Revoke
<1>2. hosts \in [Hosts -> Host]
  BY DEF Inv, TypeOK
<1>3. ASSUME NEW g \in Hosts
      PROVE  /\ hosts'[g] \in Host
             /\ hosts'[g].latest = hosts[g].latest /\ hosts'[g].seen = hosts[g].seen
             /\ hosts'[g].status = IF g = h THEN "revoked" ELSE hosts[g].status
             /\ g # h => hosts'[g] = hosts[g]
  BY <1>1, <1>2 DEF Host
<1>4. hosts' \in [Hosts -> Host]
  BY <1>1, <1>2, <1>3
<1>5. \A g \in Hosts : hosts'[g].status = "absent" => hosts'[g] = NoHost
  BY <1>3 DEF Inv, TypeOK
<1>6. TypeOK'
  BY <1>1, <1>4, <1>5 DEF Inv, TypeOK
<1>7. Pointed'
  BY <1>1, <1>3 DEF Inv, Pointed
<1>8. \A r \in Reports : rows[r] # NoRow => rows[r].host \in Hosts
  BY DEF Inv, TypeOK, Row
<1>9. Payloads'
  BY <1>1, <1>3, <1>8 DEF Inv, Payloads
<1>10. Received'
  BY <1>1 DEF Inv, Received
<1>11. LatestIsNewest'
  BY <1>1, <1>3 DEF Inv, LatestIsNewest
<1> QED BY <1>6, <1>7, <1>9, <1>10, <1>11 DEF Inv

LEMMA DeleteHostInv ==
  ASSUME Inv, NEW h \in Hosts, DeleteHost(h)
  PROVE  Inv'
<1>1. /\ rows' = [r \in Reports |-> IF rows[r].host = h THEN NoRow ELSE rows[r]]
      /\ hosts' = [hosts EXCEPT ![h] = NoHost]
      /\ since' = {r \in since : rows[r].host # h}
      /\ clock' = clock
  BY DEF DeleteHost
<1>2. TypeOK /\ Pointed
  BY DEF Inv
<1>3. hosts'[h] = NoHost /\ \A g \in Hosts \ {h} : hosts'[g] = hosts[g]
  BY <1>1, <1>2 DEF TypeOK
<1>4. \A r \in Reports : rows'[r] = IF rows[r].host = h THEN NoRow ELSE rows[r]
  BY <1>1
<1>5. NoRow \in Row /\ NoHost \in Host
  BY DEF NoRow, NoHost, Row, Host, Times
<1>6. TypeOK'
  <2>1. rows' \in [Reports -> Row]
    BY <1>1, <1>2, <1>4, <1>5 DEF TypeOK
  <2>2. hosts' \in [Hosts -> Host]
    BY <1>1, <1>2, <1>5 DEF TypeOK
  <2>3. since' \subseteq {r \in Reports : rows'[r] # NoRow}
    BY <1>1, <1>2, <1>4 DEF TypeOK
  <2>4. \A r \in Reports : rows'[r].host = Nil => rows'[r] = NoRow
    BY <1>2, <1>4 DEF TypeOK
  <2>5. \A g \in Hosts : hosts'[g].status = "absent" => hosts'[g] = NoHost
    BY <1>2, <1>3 DEF TypeOK
  <2> QED BY <1>1, <1>2, <2>1, <2>2, <2>3, <2>4, <2>5 DEF TypeOK
<1>7. Pointed'
  <2> SUFFICES ASSUME NEW g \in Hosts, hosts'[g].latest # Nil
               PROVE  /\ hosts'[g].latest \in since'
                      /\ rows'[hosts'[g].latest].host = g
                      /\ ~rows'[hosts'[g].latest].aggregated
    BY DEF Pointed
  <2>1. g # h /\ hosts'[g] = hosts[g]
    BY <1>3 DEF NoHost
  <2>2. hosts[g].latest \in since /\ rows[hosts[g].latest].host = g
          /\ ~rows[hosts[g].latest].aggregated
    BY <2>1, <1>2 DEF Pointed
  <2>3. rows'[hosts[g].latest] = rows[hosts[g].latest]
    BY <2>1, <2>2, <1>2, <1>4 DEF TypeOK
  <2> QED BY <2>1, <2>2, <2>3, <1>1
<1>8. Payloads'
  <2> SUFFICES ASSUME NEW r \in Reports, rows'[r] # NoRow
               PROVE  rows'[r].payload <=> hosts'[rows'[r].host].latest = r
    BY DEF Payloads
  <2>1. rows'[r] = rows[r] /\ rows[r].host # h
    BY <1>4
  <2>2. rows[r].host \in Hosts
    BY <2>1, <1>2 DEF TypeOK, Row
  <2>3. rows[r].payload <=> hosts[rows[r].host].latest = r
    BY <2>1 DEF Inv, Payloads
  <2>4. hosts'[rows[r].host] = hosts[rows[r].host]
    BY <2>1, <2>2, <1>3
  <2> QED BY <2>1, <2>3, <2>4
<1>9. Received'
  BY <1>1, <1>2, <1>4 DEF Inv, Received, NoRow, TypeOK
<1>10. LatestIsNewest'
  <2>1. since' \subseteq since /\ since \subseteq Reports
    BY <1>1, <1>2 DEF TypeOK
  <2>2. \A s \in since' : rows'[s] = rows[s]
    BY <2>1, <1>1, <1>4
  <2>3. ASSUME NEW g \in Hosts, NEW s \in since', rows[s].host = g
        PROVE  /\ hosts'[g].latest = hosts[g].latest
               /\ hosts'[g].latest \in since'
               /\ hosts'[g].seen = hosts[g].seen
    <3>1. g # h /\ hosts'[g] = hosts[g]
      BY <2>3, <1>1, <1>3
    <3>2. hosts[g].latest # Nil
      BY <2>1, <2>3 DEF Inv, LatestIsNewest
    <3> QED BY <3>1, <3>2, <1>7 DEF Pointed
  <2> QED BY <2>1, <2>2, <2>3, NewestKept
<1> QED BY <1>6, <1>7, <1>8, <1>9, <1>10 DEF Inv

-----------------------------------------------------------------------------
(* The batches.                                                            *)

\* The batch takes no report that a host points to.
LEMMA AggregateRawBatchInv ==
  ASSUME Inv, NEW now \in 0..clock, AggregateRawBatch(now)
  PROVE  Inv'
<1>1. PICK batch \in SUBSET Aggregable(now) :
        rows' = [r \in Reports |->
          IF r \in batch THEN [rows[r] EXCEPT !.aggregated = TRUE] ELSE rows[r]]
  BY DEF AggregateRawBatch
<1>2. hosts' = hosts /\ clock' = clock /\ since' = since
  BY DEF AggregateRawBatch
<1>3. TypeOK
  BY DEF Inv
<1>4. \A r \in batch : rows[r] # NoRow /\ \A h \in Hosts : hosts[h].latest # r
  BY DEF Aggregable, NotLatest
<1>5. ASSUME NEW r \in Reports
      PROVE  /\ rows'[r] \in Row
             /\ rows'[r].host = rows[r].host
             /\ rows'[r].collected = rows[r].collected
             /\ rows'[r].received = rows[r].received
             /\ rows'[r].payload = rows[r].payload
             /\ r \notin batch => rows'[r] = rows[r]
  <2>1. rows[r] \in Row
    BY <1>3 DEF TypeOK
  <2>2. rows'[r] = IF r \in batch THEN [rows[r] EXCEPT !.aggregated = TRUE] ELSE rows[r]
    BY <1>1
  <2>3. CASE r \in batch
    BY <2>1, <2>2, <2>3 DEF Row
  <2>4. CASE r \notin batch
    BY <2>1, <2>2, <2>4
  <2> QED BY <2>3, <2>4
<1>6. \A r \in Reports : rows'[r] # NoRow => rows[r] # NoRow
  BY <1>4, <1>5
<1>7. \A r \in batch : r \in Reports /\ rows[r].host # Nil
  BY <1>3, <1>4 DEF TypeOK, Aggregable
<1>8. \A r \in Reports : rows[r] # NoRow => rows'[r] # NoRow
  <2> SUFFICES ASSUME NEW r \in Reports, rows[r] # NoRow PROVE rows'[r] # NoRow
    OBVIOUS
  <2>1. CASE r \in batch
    <3>1. rows'[r].host # Nil
      BY <2>1, <1>5, <1>7
    <3> QED BY <3>1 DEF NoRow
  <2>2. CASE r \notin batch
    BY <2>2, <1>5
  <2> QED BY <2>1, <2>2
<1>9. TypeOK'
  <2>1. rows' \in [Reports -> Row]
    BY <1>1, <1>5
  <2>2. \A r \in Reports : rows'[r].host = Nil => rows'[r] = NoRow
    BY <1>3, <1>5, <1>7 DEF TypeOK
  <2> QED BY <1>2, <1>3, <1>8, <2>1, <2>2 DEF TypeOK
<1>10. Pointed'
  <2> SUFFICES ASSUME NEW g \in Hosts, hosts[g].latest # Nil
               PROVE  /\ hosts[g].latest \in since
                      /\ rows'[hosts[g].latest].host = g
                      /\ ~rows'[hosts[g].latest].aggregated
    BY <1>2 DEF Pointed
  <2>1. /\ hosts[g].latest \in since
        /\ rows[hosts[g].latest].host = g
        /\ ~rows[hosts[g].latest].aggregated
    BY DEF Inv, Pointed
  <2>2. hosts[g].latest \in Reports \ batch
    BY <2>1, <1>3, <1>4 DEF TypeOK
  <2> QED BY <2>1, <2>2, <1>5
<1>11. Payloads'
  BY <1>2, <1>5, <1>6 DEF Inv, Payloads
<1>12. Received'
  BY <1>2, <1>5 DEF Inv, Received
<1>13. LatestIsNewest'
  <2>1. since \subseteq Reports
    BY <1>3 DEF TypeOK
  <2>2. ASSUME NEW g \in Hosts, NEW s \in since, rows[s].host = g
        PROVE  hosts[g].latest \in since
    BY <2>1, <2>2 DEF Inv, LatestIsNewest, Pointed
  <2> QED BY <2>1, <2>2, <1>2, <1>5, NewestKept
<1> QED BY <1>9, <1>10, <1>11, <1>12, <1>13 DEF Inv

LEMMA DeleteAggregatedRawBatchInv ==
  ASSUME Inv, NEW now \in 0..clock, DeleteAggregatedRawBatch(now)
  PROVE  Inv'
<1>1. PICK batch \in SUBSET Deletable(now) :
        /\ rows' = [r \in Reports |-> IF r \in batch THEN NoRow ELSE rows[r]]
        /\ since' = since \ batch
  BY DEF DeleteAggregatedRawBatch
<1>2. hosts' = hosts /\ clock' = clock
  BY DEF DeleteAggregatedRawBatch
<1>3. TypeOK
  BY DEF Inv
<1>4. \A r \in batch, h \in Hosts : hosts[h].latest # r
  BY DEF Deletable, NotLatest
<1>5. \A r \in Reports : rows'[r] = IF r \in batch THEN NoRow ELSE rows[r]
  BY <1>1
<1>6. NoRow \in Row
  BY DEF NoRow, Row, Times
<1>7. TypeOK'
  <2>1. rows' \in [Reports -> Row]
    BY <1>1, <1>3, <1>6 DEF TypeOK
  <2>2. since' \subseteq {r \in Reports : rows'[r] # NoRow}
    BY <1>1, <1>3, <1>5 DEF TypeOK
  <2>3. \A r \in Reports : rows'[r].host = Nil => rows'[r] = NoRow
    BY <1>3, <1>5 DEF TypeOK
  <2> QED BY <1>2, <1>3, <2>1, <2>2, <2>3 DEF TypeOK
<1>8. Pointed'
  <2> SUFFICES ASSUME NEW g \in Hosts, hosts[g].latest # Nil
               PROVE  /\ hosts[g].latest \in since'
                      /\ rows'[hosts[g].latest].host = g
                      /\ ~rows'[hosts[g].latest].aggregated
    BY <1>2 DEF Pointed
  <2>1. /\ hosts[g].latest \in since
        /\ rows[hosts[g].latest].host = g
        /\ ~rows[hosts[g].latest].aggregated
    BY DEF Inv, Pointed
  <2>2. hosts[g].latest \in Reports \ batch
    BY <2>1, <1>3, <1>4 DEF TypeOK
  <2> QED BY <2>1, <2>2, <1>1, <1>5
<1>9. Payloads'
  BY <1>2, <1>5 DEF Inv, Payloads
<1>10. Received'
  <2> SUFFICES ASSUME NEW r \in Reports PROVE rows'[r].received <= clock
    BY <1>2 DEF Received
  <2>1. CASE r \in batch
    BY <2>1, <1>3, <1>5 DEF NoRow, TypeOK
  <2>2. CASE r \notin batch
    BY <2>2, <1>5 DEF Inv, Received
  <2> QED BY <2>1, <2>2
<1>11. LatestIsNewest'
  <2>1. since' \subseteq since /\ since \subseteq Reports
    BY <1>1, <1>3 DEF TypeOK
  <2>2. \A s \in since' : rows'[s] = rows[s]
    BY <2>1, <1>1, <1>5
  <2>3. ASSUME NEW g \in Hosts, NEW s \in since', rows[s].host = g
        PROVE  hosts'[g] = hosts[g] /\ hosts'[g].latest \in since'
    <3>1. hosts[g].latest # Nil
      BY <2>1, <2>3 DEF Inv, LatestIsNewest
    <3> QED BY <3>1, <1>2, <1>8 DEF Pointed
  <2> QED BY <2>1, <2>2, <2>3, NewestKept
<1> QED BY <1>7, <1>8, <1>9, <1>10, <1>11 DEF Inv

LEMMA TickInv == ASSUME Inv, Tick PROVE Inv'
<1>1. clock' = clock + 1 /\ clock < MaxClock /\ UNCHANGED <<rows, hosts, since>>
  BY DEF Tick
<1>2. clock \in 0..MaxClock
  BY DEF Inv, TypeOK
<1>3. TypeOK'
  BY <1>1, <1>2 DEF Inv, TypeOK
<1>4. ASSUME NEW r \in Reports PROVE rows'[r].received <= clock'
  <2>1. rows[r].received \in 0..MaxClock
    BY DEF Inv, TypeOK, Row
  <2>2. rows[r].received <= clock
    BY DEF Inv, Received
  <2> QED BY <1>1, <1>2, <2>1, <2>2
<1>5. Pointed' /\ Payloads' /\ LatestIsNewest'
  BY <1>1 DEF Inv, Pointed, Payloads, LatestIsNewest
<1> QED BY <1>3, <1>4, <1>5 DEF Inv, Received

LEMMA RestInv ==
  ASSUME Inv, UNCHANGED <<rows, hosts, clock, since>> PROVE Inv'
BY DEF Inv, TypeOK, Pointed, Payloads, Received, LatestIsNewest

LEMMA NextInv == ASSUME Inv, [Next]_vars PROVE Inv'
<1>1. ASSUME NEW h \in Hosts, NEW r \in Reports, NEW collected \in Times,
             Store(h, r, collected)
      PROVE  Inv'
  BY <1>1, StoreInv
<1>2. ASSUME NEW h \in Hosts, Activate(h) \/ Revoke(h) \/ DeleteHost(h)
      PROVE  Inv'
  BY <1>2, ActivateInv, RevokeInv, DeleteHostInv
<1>3. ASSUME NEW now \in 0..clock, AggregateRawBatch(now) \/ DeleteAggregatedRawBatch(now)
      PROVE  Inv'
  BY <1>3, AggregateRawBatchInv, DeleteAggregatedRawBatchInv
<1>4. ASSUME NEW now \in 0..clock, DeleteExpiredAggregateBatch(now)
      PROVE  Inv'
  BY <1>4, RestInv DEF DeleteExpiredAggregateBatch
<1>5. CASE Tick
  BY <1>5, TickInv
<1>6. CASE UNCHANGED vars
  BY <1>6, RestInv DEF vars
<1> QED BY <1>1, <1>2, <1>3, <1>4, <1>5, <1>6 DEF Next

LEMMA Invariance == Spec => []Inv
BY InitInv, NextInv, PTL DEF Spec

-----------------------------------------------------------------------------
(* The properties.                                                         *)

\* The latest report of a host is there, is its own and is not merged, and it is
\* the one row whose payload is kept, whatever retention and activation do.
THEOREM LatestIsStored == Spec => []LatestStored
<1>1. Inv => LatestStored
  BY DEF Inv, LatestStored, Pointed, Payloads
<1> QED BY <1>1, Invariance, PTL

\* The latest report of a host is the newest that its current client sent, in
\* whatever order the reports arrive.
THEOREM LatestWins == Spec => []LatestIsNewest
<1>1. Inv => LatestIsNewest
  BY DEF Inv
<1> QED BY <1>1, Invariance, PTL

\* Outside of Store and of the deletions, no row comes, goes or changes hands.
LEMMA RowsStay ==
  ASSUME Inv, [Next]_vars, NEW r \in Reports,
         ~\E h \in Hosts, collected \in Times : Store(h, r, collected),
         ~\E h \in Hosts : DeleteHost(h),
         ~\E now \in 0..clock : DeleteAggregatedRawBatch(now)
  PROVE  rows'[r].host = rows[r].host
<1>1. rows \in [Reports -> Row] /\ rows[r] \in Row
  BY DEF Inv, TypeOK
<1>2. ASSUME NEW h \in Hosts, NEW s \in Reports, NEW collected \in Times, Store(h, s, collected)
      PROVE  rows'[r].host = rows[r].host
  <2>1. s # r
    BY <1>2
  <2>2. rows'[r] = rows[r] \/ rows'[r] = [rows[r] EXCEPT !.payload = FALSE]
    BY <1>1, <1>2, <2>1 DEF Store
  <2> QED BY <1>1, <2>2 DEF Row
<1>3. ASSUME NEW h \in Hosts, Activate(h)
      PROVE  rows'[r].host = rows[r].host
  <2>1. rows'[r] = rows[r] \/ rows'[r] = [rows[r] EXCEPT !.payload = FALSE]
    BY <1>3 DEF Activate, PayloadReleased
  <2> QED BY <1>1, <2>1 DEF Row
<1>4. ASSUME NEW h \in Hosts, Revoke(h)
      PROVE  rows'[r].host = rows[r].host
  BY <1>4 DEF Revoke
<1>5. ASSUME NEW now \in 0..clock, AggregateRawBatch(now)
      PROVE  rows'[r].host = rows[r].host
  <2>1. rows'[r] = rows[r] \/ rows'[r] = [rows[r] EXCEPT !.aggregated = TRUE]
    BY <1>5 DEF AggregateRawBatch
  <2> QED BY <1>1, <2>1 DEF Row
<1>6. ASSUME NEW now \in 0..clock, DeleteExpiredAggregateBatch(now)
      PROVE  rows'[r].host = rows[r].host
  BY <1>6 DEF DeleteExpiredAggregateBatch
<1>7. CASE Tick \/ UNCHANGED vars
  BY <1>7 DEF Tick, vars
<1> QED BY <1>2, <1>3, <1>4, <1>5, <1>6, <1>7 DEF Next

\* A report_id is forgotten only a raw retention after its receipt, and merged, or
\* with its host.
THEOREM IdsRemembered == Spec => IdKeptForWindow
<1>1. ASSUME Inv, [Next]_vars, NEW r \in Reports,
             rows[r] # NoRow, rows'[r] = NoRow, hosts'[rows[r].host] # NoHost
      PROVE  rows[r].received + RawRetention < clock /\ rows[r].aggregated
  <2>1. rows \in [Reports -> Row] /\ rows[r] \in Row /\ rows[r].host # Nil
          /\ hosts \in [Hosts -> Host] /\ clock \in Nat
    BY <1>1 DEF Inv, TypeOK
  <2>2. rows'[r].host # rows[r].host
    BY <1>1, <2>1 DEF NoRow
  <2>3. ASSUME NEW h \in Hosts, NEW collected \in Times, Store(h, r, collected) PROVE FALSE
    BY <1>1, <2>3 DEF Store
  <2>4. ASSUME NEW h \in Hosts, DeleteHost(h) PROVE FALSE
    <3>1. rows[r].host = h
      BY <1>1, <2>1, <2>4 DEF DeleteHost
    <3>2. hosts'[h] = NoHost
      BY <2>1, <2>4 DEF DeleteHost
    <3> QED BY <3>1, <3>2, <1>1
  <2>5. PICK now \in 0..clock : DeleteAggregatedRawBatch(now)
    BY <1>1, <2>2, <2>3, <2>4, RowsStay
  <2>6. r \in Deletable(now)
    BY <1>1, <2>1, <2>5 DEF DeleteAggregatedRawBatch
  <2>7. rows[r].received \in Nat /\ rows[r].received + RawRetention < now /\ rows[r].aggregated
    BY <2>1, <2>6 DEF Deletable, Outdated, Row
  <2> QED BY <2>1, <2>7
<1>2. Inv /\ [Next]_vars =>
        [\A r \in Reports :
           rows[r] # NoRow /\ rows'[r] = NoRow /\ hosts'[rows[r].host] # NoHost =>
             /\ rows[r].received + RawRetention < clock
             /\ rows[r].aggregated]_vars
  BY <1>1
<1> QED BY <1>2, Invariance, PTL DEF Spec, IdKeptForWindow

\* Nothing that an earlier report claimed hides one that arrives in order.
THEOREM InOrderShown == Spec => InOrderReportShown
<1>1. ASSUME Inv, [Next]_vars, NEW h \in Hosts, NEW r \in Reports,
             rows[r] = NoRow, rows'[r].host = h, rows'[r].collected = clock,
             \A s \in since : rows[s].host = h => rows[s].received < clock
      PROVE  hosts'[h].latest = r
  <2>1. /\ rows \in [Reports -> Row] /\ hosts \in [Hosts -> Host] /\ clock \in Nat
        /\ since \subseteq Reports /\ rows[r].host = Nil /\ h # Nil
    BY <1>1 DEF Inv, TypeOK, NoRow
  <2>2. ASSUME NEW g \in Hosts, DeleteHost(g) PROVE FALSE
    <3>1. rows'[r] = NoRow
      BY <1>1, <2>1, <2>2 DEF DeleteHost
    <3> QED BY <3>1, <1>1, <2>1 DEF NoRow
  <2>3. ASSUME NEW now \in 0..clock, DeleteAggregatedRawBatch(now) PROVE FALSE
    <3>1. rows'[r] = NoRow
      BY <1>1, <2>1, <2>3 DEF DeleteAggregatedRawBatch
    <3> QED BY <3>1, <1>1, <2>1 DEF NoRow
  <2>4. PICK g \in Hosts, collected \in Times : Store(g, r, collected)
    BY <1>1, <2>1, <2>2, <2>3, RowsStay
  <2> DEFINE fresh == [host |-> g, collected |-> collected, received |-> clock,
                       payload |-> FALSE, aggregated |-> FALSE]
  <2> DEFINE latest == BecomesLatest(g, r, fresh)
  <2>5. rows'[r] = [fresh EXCEPT !.payload = latest]
    BY <2>4 DEF Store
  <2>6. g = h /\ collected = clock
    <3> HIDE DEF latest
    <3>1. rows'[r].host = g /\ rows'[r].collected = collected
      BY <2>5
    <3> QED BY <3>1, <1>1
  <2>7. latest
    <3>1. SUFFICES ASSUME hosts[h].latest # Nil
                   PROVE  Newer(Key(r, fresh), Key(hosts[h].latest, rows[hosts[h].latest]))
      BY <2>6 DEF BecomesLatest
    <3> DEFINE p == hosts[h].latest
    <3>2. p \in Reports /\ rows[p] \in Row /\ rows[p].received < clock
      BY <3>1, <1>1, <2>1 DEF Inv, Pointed
    <3>3. Lesser(rows[p].collected, rows[p].received) < clock
      BY <3>2, <2>1 DEF Lesser, Row, Times
    <3> HIDE DEF p
    <3>4. Key(r, fresh)[1] = clock /\ Key(p, rows[p])[1] < clock
      BY <3>3, <2>1, <2>6 DEF Key, Lesser
    <3>5. Key(p, rows[p]) \in Triple
      BY <3>2, KeyType
    <3> QED BY <3>4, <3>5, <2>1 DEF Newer, Triple, p
  <2>8. hosts' = [hosts EXCEPT ![h].seen = Seen(hosts[h]), ![h].latest = r]
    BY <2>4, <2>6, <2>7 DEF Store
  <2> QED BY <2>8, <2>1 DEF Host
<1>2. Inv /\ [Next]_vars =>
        [\A h \in Hosts, r \in Reports :
           rows[r] = NoRow /\ rows'[r].host = h /\ rows'[r].collected = clock
             /\ (\A s \in since : rows[s].host = h => rows[s].received < clock)
           => hosts'[h].latest = r]_vars
  BY <1>1
<1> QED BY <1>2, Invariance, PTL DEF Spec, InOrderReportShown

-----------------------------------------------------------------------------
(* How an hour of a host changes.                                          *)

\* The rows of an hour that were merged into its aggregate, or into one before it.
MergedRows(h, b) == {r \in InBucket(Reports, h, b) : rows[r].aggregated}

SameRow(r) ==
  /\ rows'[r].host = rows[r].host
  /\ rows'[r].collected = rows[r].collected
  /\ rows'[r].aggregated = rows[r].aggregated

\* A row comes, some are merged, the aggregate goes, or the hour stays as it is.
Stays(h, b) ==
  /\ Unmerged(h, b)' = Unmerged(h, b)
  /\ MergedRows(h, b)' \subseteq MergedRows(h, b)
  /\ hourly'[h][b] = hourly[h][b]
Receives(h, b, r) ==
  /\ rows[r] = NoRow
  /\ r \notin Unmerged(h, b)
  /\ r \in InBucket(Reports, h, b)'
  /\ Unmerged(h, b)' = Unmerged(h, b) \union {r}
  /\ MergedRows(h, b)' = MergedRows(h, b)
  /\ hourly'[h][b] = hourly[h][b]
Merges(h, b, new) ==
  /\ new # {}
  /\ Unmerged(h, b)' = Unmerged(h, b) \ new
  /\ MergedRows(h, b)' = MergedRows(h, b) \union new
  /\ hourly'[h][b] = Merged(hourly[h][b], new)
Expires(h, b) ==
  /\ Unmerged(h, b)' = Unmerged(h, b)
  /\ MergedRows(h, b)' = MergedRows(h, b)
  /\ hourly[h][b].count > 0
  /\ hourly[h][b].end + AggregateRetention < clock
  /\ hourly'[h][b] = NoAggregate
Vanishes(h, b) ==
  /\ hosts'[h] = NoHost
  /\ hourly'[h][b] = NoAggregate
  /\ MergedRows(h, b)' = {}

Hourly == hourly \in [Hosts -> [Buckets -> Aggregate]]

LEMMA RowsOfHour ==
  ASSUME \A r \in Reports : SameRow(r), NEW h \in Hosts, NEW b \in Buckets
  PROVE  /\ Unmerged(h, b)' = Unmerged(h, b)
         /\ MergedRows(h, b)' = MergedRows(h, b)
BY DEF SameRow, Unmerged, MergedRows, InBucket

HourStep(h, b) ==
  /\ \A r \in MergedRows(h, b)' : rows'[r].collected = rows[r].collected
  /\ \/ Stays(h, b)
     \/ \E r \in Reports : Receives(h, b, r)
     \/ \E new \in SUBSET Unmerged(h, b) : Merges(h, b, new)
     \/ Expires(h, b)
     \/ Vanishes(h, b)

LEMMA HourSteps ==
  ASSUME Inv, Hourly, [Next]_vars, NEW h \in Hosts, NEW b \in Buckets
  PROVE  HourStep(h, b)
<1>1. /\ rows \in [Reports -> Row] /\ hosts \in [Hosts -> Host] /\ clock \in Nat
      /\ hourly \in [Hosts -> [Buckets -> Aggregate]]
      /\ h # Nil
  BY DEF Inv, TypeOK, Hourly
<1>2. ASSUME \A r \in Reports : SameRow(r), hourly'[h][b] = hourly[h][b] PROVE HourStep(h, b)
  <2>1. Stays(h, b)
    BY <1>2, RowsOfHour DEF Stays
  <2>2. \A r \in MergedRows(h, b)' : rows'[r].collected = rows[r].collected
    BY <1>2 DEF SameRow, MergedRows, InBucket
  <2> QED BY <2>1, <2>2 DEF HourStep
<1>3. ASSUME NEW g \in Hosts, NEW s \in Reports, NEW collected \in Times, Store(g, s, collected)
      PROVE  HourStep(h, b)
  <2>1. /\ rows[s] = NoRow /\ hourly' = hourly
        /\ rows'[s].host = g /\ rows'[s].collected = collected /\ rows'[s].aggregated = FALSE
    BY <1>3 DEF Store
  <2>2. ASSUME NEW r \in Reports, r # s PROVE SameRow(r)
    <3>1. rows[r] \in Row
      BY <1>1
    <3>2. rows'[r] = rows[r] \/ rows'[r] = [rows[r] EXCEPT !.payload = FALSE]
      BY <1>3, <2>2 DEF Store
    <3> QED BY <3>1, <3>2 DEF SameRow, Row
  <2>3. rows[s].host # h
    BY <1>1, <2>1 DEF NoRow
  <2>4. s \notin Unmerged(h, b) /\ s \notin MergedRows(h, b) /\ s \notin MergedRows(h, b)'
    BY <2>1, <2>3 DEF Unmerged, MergedRows, InBucket
  <2>5. MergedRows(h, b)' = MergedRows(h, b)
    BY <2>2, <2>4 DEF SameRow, MergedRows, InBucket
  <2>6. \A r \in MergedRows(h, b)' : rows'[r].collected = rows[r].collected
    <3>1. MergedRows(h, b)' \subseteq Reports
      BY DEF MergedRows, InBucket
    <3> QED BY <2>2, <2>4, <3>1 DEF SameRow
  <2>7. CASE g = h /\ Bucket(collected) = b
    <3>1. s \in InBucket(Reports, h, b)'
      BY <2>1, <2>7 DEF InBucket
    <3>2. Unmerged(h, b)' = Unmerged(h, b) \union {s}
      <4>1. s \in Unmerged(h, b)'
        BY <2>1, <3>1 DEF Unmerged
      <4> QED BY <2>2, <4>1 DEF SameRow, Unmerged, InBucket
    <3>3. Receives(h, b, s)
      BY <2>1, <2>4, <2>5, <3>1, <3>2 DEF Receives
    <3> QED BY <2>6, <3>3 DEF HourStep
  <2>8. CASE ~(g = h /\ Bucket(collected) = b)
    <3>1. s \notin InBucket(Reports, h, b)'
      BY <2>1, <2>8 DEF InBucket
    <3>2. Unmerged(h, b)' = Unmerged(h, b)
      <4>1. s \notin Unmerged(h, b)'
        BY <3>1 DEF Unmerged
      <4> QED BY <2>2, <2>4, <4>1 DEF SameRow, Unmerged, InBucket
    <3>3. Stays(h, b)
      BY <2>1, <2>5, <3>2 DEF Stays
    <3> QED BY <2>6, <3>3 DEF HourStep
  <2> QED BY <2>7, <2>8
<1>4. ASSUME NEW g \in Hosts, Activate(g) PROVE HourStep(h, b)
  <2>1. ASSUME NEW r \in Reports PROVE SameRow(r)
    <3>1. rows[r] \in Row
      BY <1>1
    <3>2. rows'[r] = rows[r] \/ rows'[r] = [rows[r] EXCEPT !.payload = FALSE]
      BY <1>4 DEF Activate, PayloadReleased
    <3> QED BY <3>1, <3>2 DEF SameRow, Row
  <2>2. hourly' = hourly
    BY <1>4 DEF Activate
  <2> QED BY <1>2, <2>1, <2>2
<1>5. ASSUME UNCHANGED <<rows, hourly>> PROVE HourStep(h, b)
  <2>1. ASSUME NEW r \in Reports PROVE SameRow(r)
    BY <1>5 DEF SameRow
  <2> QED BY <1>2, <1>5, <2>1
<1>6. ASSUME NEW g \in Hosts, DeleteHost(g) PROVE HourStep(h, b)
  <2>1. /\ rows' = [r \in Reports |-> IF rows[r].host = g THEN NoRow ELSE rows[r]]
        /\ hosts' = [hosts EXCEPT ![g] = NoHost]
        /\ hourly' = [hourly EXCEPT ![g] = [c \in Buckets |-> NoAggregate]]
    BY <1>6 DEF DeleteHost
  <2>2. \A r \in Reports : rows[r].host # g => rows'[r] = rows[r]
    BY <2>1
  <2>3. \A r \in Reports : rows[r].host = g => rows'[r].host = Nil
    BY <2>1 DEF NoRow
  <2>4. CASE g = h
    <3>1. hosts'[h] = NoHost /\ hourly'[h][b] = NoAggregate
      BY <1>1, <2>1, <2>4
    <3>2. MergedRows(h, b)' = {}
      <4> SUFFICES ASSUME NEW r \in Reports PROVE rows'[r].host # h
        BY DEF MergedRows, InBucket
      <4>1. g # Nil
        BY <1>1, <2>4
      <4> QED BY <2>2, <2>3, <2>4, <4>1
    <3>3. \A r \in MergedRows(h, b)' : rows'[r].collected = rows[r].collected
      BY <3>2
    <3> QED BY <3>1, <3>2, <3>3 DEF Vanishes, HourStep
  <2>5. CASE g # h
    <3>1. hourly'[h][b] = hourly[h][b]
      BY <1>1, <2>1, <2>5
    <3>2. ASSUME NEW r \in Reports, rows[r].host = h \/ rows'[r].host = h
          PROVE  rows'[r] = rows[r]
      BY <1>1, <2>2, <2>3, <2>5, <3>2
    <3>3. Unmerged(h, b)' = Unmerged(h, b)
      BY <3>2 DEF Unmerged, InBucket
    <3>4. MergedRows(h, b)' = MergedRows(h, b)
      BY <3>2 DEF MergedRows, InBucket
    <3>5. \A r \in MergedRows(h, b)' : rows'[r].collected = rows[r].collected
      BY <3>2 DEF MergedRows, InBucket
    <3> QED BY <3>1, <3>3, <3>4, <3>5 DEF Stays, HourStep
  <2> QED BY <2>4, <2>5
<1>7. ASSUME NEW now \in 0..clock, AggregateRawBatch(now) PROVE HourStep(h, b)
  <2>1. PICK batch \in SUBSET Aggregable(now) :
          /\ hourly' = [g \in Hosts |-> [c \in Buckets |->
               LET new == InBucket(batch, g, c) IN
               IF new = {} THEN hourly[g][c] ELSE Merged(hourly[g][c], new)]]
          /\ rows' = [r \in Reports |->
               IF r \in batch THEN [rows[r] EXCEPT !.aggregated = TRUE] ELSE rows[r]]
    BY <1>7 DEF AggregateRawBatch
  <2> DEFINE new == InBucket(batch, h, b)
  <2>2. hourly'[h][b] = IF new = {} THEN hourly[h][b] ELSE Merged(hourly[h][b], new)
    <3> DEFINE made(g, c) == IF InBucket(batch, g, c) = {} THEN hourly[g][c]
                             ELSE Merged(hourly[g][c], InBucket(batch, g, c))
    <3>1. hourly' = [g \in Hosts |-> [c \in Buckets |-> made(g, c)]]
      BY <2>1, Zenon
    <3> HIDE DEF made
    <3>2. hourly'[h][b] = made(h, b)
      BY <3>1
    <3> QED BY <3>2, Zenon DEF made
  <2>3. ASSUME NEW r \in Reports
        PROVE  /\ rows'[r].host = rows[r].host
               /\ rows'[r].collected = rows[r].collected
               /\ r \in batch => ~rows[r].aggregated /\ rows'[r].aggregated
               /\ r \notin batch => rows'[r].aggregated = rows[r].aggregated
    <3>1. rows[r] \in Row
      BY <1>1
    <3>2. r \in batch => ~rows[r].aggregated
      BY DEF Aggregable
    <3>3. rows'[r] = IF r \in batch THEN [rows[r] EXCEPT !.aggregated = TRUE] ELSE rows[r]
      BY <2>1
    <3> QED BY <3>1, <3>2, <3>3 DEF Row
  <2>4. batch \subseteq Reports
    BY DEF Aggregable
  <2>5. new \in SUBSET Unmerged(h, b)
    BY <2>3, <2>4 DEF Unmerged, InBucket
  <2>6. Unmerged(h, b)' = Unmerged(h, b) \ new
    BY <2>3, <2>4 DEF Unmerged, InBucket
  <2>7. MergedRows(h, b)' = MergedRows(h, b) \union new
    BY <2>3, <2>4 DEF MergedRows, InBucket
  <2>8. \A r \in MergedRows(h, b)' : rows'[r].collected = rows[r].collected
    BY <2>3 DEF MergedRows, InBucket
  <2> HIDE DEF new
  <2>9. CASE new = {}
    <3>1. Stays(h, b)
      BY <2>2, <2>6, <2>7, <2>9 DEF Stays
    <3> QED BY <2>8, <3>1 DEF HourStep
  <2>10. CASE new # {}
    <3>1. Merges(h, b, new)
      BY <2>2, <2>6, <2>7, <2>10 DEF Merges
    <3> QED BY <2>5, <2>8, <3>1 DEF HourStep
  <2> QED BY <2>9, <2>10
<1>8. ASSUME NEW now \in 0..clock, DeleteAggregatedRawBatch(now) PROVE HourStep(h, b)
  <2>1. PICK batch \in SUBSET Deletable(now) :
          rows' = [r \in Reports |-> IF r \in batch THEN NoRow ELSE rows[r]]
    BY <1>8 DEF DeleteAggregatedRawBatch
  <2>2. hourly' = hourly
    BY <1>8 DEF DeleteAggregatedRawBatch
  <2>3. ASSUME NEW r \in Reports
        PROVE  /\ r \in batch => rows[r].aggregated /\ rows'[r].host = Nil
               /\ r \notin batch => rows'[r] = rows[r]
    BY <2>1 DEF Deletable, NoRow
  <2>4. Unmerged(h, b)' = Unmerged(h, b)
    BY <1>1, <2>3 DEF Unmerged, InBucket
  <2>5. MergedRows(h, b)' \subseteq MergedRows(h, b)
    BY <1>1, <2>3 DEF MergedRows, InBucket
  <2>6. \A r \in MergedRows(h, b)' : rows'[r].collected = rows[r].collected
    BY <1>1, <2>3 DEF MergedRows, InBucket
  <2> QED BY <2>2, <2>4, <2>5, <2>6 DEF Stays, HourStep
<1>9. ASSUME NEW now \in 0..clock, DeleteExpiredAggregateBatch(now) PROVE HourStep(h, b)
  <2>1. PICK batch \in SUBSET Expired(now) :
          hourly' = [g \in Hosts |-> [c \in Buckets |->
            IF <<g, c>> \in batch THEN NoAggregate ELSE hourly[g][c]]]
    BY <1>9 DEF DeleteExpiredAggregateBatch
  <2>2. rows' = rows
    BY <1>9 DEF DeleteExpiredAggregateBatch
  <2>3. ASSUME NEW r \in Reports PROVE SameRow(r)
    BY <2>2 DEF SameRow
  <2>4. CASE <<h, b>> \in batch
    <3>1. hourly'[h][b] = NoAggregate
      BY <2>1, <2>4
    <3>2. hourly[h][b].count > 0 /\ hourly[h][b].end + AggregateRetention < now
      BY <2>4 DEF Expired
    <3>3. hourly[h][b] \in Aggregate /\ hourly[h][b].end \in Nat
      BY <1>1 DEF Aggregate, Times
    <3>4. hourly[h][b].end + AggregateRetention < clock
      BY <1>1, <3>2, <3>3
    <3>5. Expires(h, b)
      BY <2>3, <3>1, <3>2, <3>4, RowsOfHour DEF Expires
    <3>6. \A r \in MergedRows(h, b)' : rows'[r].collected = rows[r].collected
      BY <2>2
    <3> QED BY <3>5, <3>6 DEF HourStep
  <2>5. CASE <<h, b>> \notin batch
    <3>1. hourly'[h][b] = hourly[h][b]
      BY <2>1, <2>5
    <3> QED BY <1>2, <2>3, <3>1
  <2> QED BY <2>4, <2>5
<1>10. ASSUME NEW g \in Hosts, Revoke(g) PROVE HourStep(h, b)
  BY <1>5, <1>10 DEF Revoke
<1>11. CASE Tick \/ UNCHANGED vars
  BY <1>5, <1>11 DEF Tick, vars
<1> QED BY <1>3, <1>4, <1>6, <1>7, <1>8, <1>9, <1>10, <1>11 DEF Next

-----------------------------------------------------------------------------
(* The aggregates.                                                         *)

\* An aggregate lies in its hour and has one of the scalars that samples make.
Sound(aggregate, b) ==
  IF aggregate.count = 0 THEN aggregate = NoAggregate
  ELSE /\ aggregate.start <= aggregate.end
       /\ Bucket(aggregate.start) = b
       /\ Bucket(aggregate.end) = b
       /\ aggregate.metric.count <= aggregate.count
       /\ aggregate.metric \in Kept

\* A merged row that is still there is covered by its aggregate, or so old that
\* the aggregate was dropped with a cutoff after it.
Covered(h, b) ==
  \A r \in MergedRows(h, b) :
    \/ rows[r].collected + AggregateRetention < clock
    \/ /\ hourly[h][b].count # 0
       /\ hourly[h][b].start <= rows[r].collected
       /\ rows[r].collected <= hourly[h][b].end

HourInv ==
  /\ Hourly
  /\ \A h \in Hosts, b \in Buckets : Sound(hourly[h][b], b) /\ Covered(h, b)

LEMMA MetricKept ==
  ASSUME NEW b, NEW aggregate, Sound(aggregate, b)
  PROVE  aggregate.metric \in Kept
BY DEF Sound, NoAggregate, Kept

\* What the upsert makes of an aggregate.
LEMMA MergedIs ==
  ASSUME NEW b, NEW old \in Aggregate, Sound(old, b),
         NEW new \in SUBSET Reports, new # {},
         \A r \in new : rows[r].collected \in Times /\ Bucket(rows[r].collected) = b
  PROVE  LET aggregate == Merged(old, new) IN
         /\ aggregate \in Aggregate
         /\ Sound(aggregate, b)
         /\ aggregate.count = old.count + Cardinality(new) /\ aggregate.count # 0
         /\ aggregate.metric = Upserted(old.metric, Recorded(new))
         /\ \A r \in new : aggregate.start <= rows[r].collected
                             /\ rows[r].collected <= aggregate.end
         /\ old.count # 0 => aggregate.start <= old.start /\ old.end <= aggregate.end
<1> DEFINE times == {rows[r].collected : r \in new}
                      \union IF old.count = 0 THEN {} ELSE {old.start, old.end}
           metric == Upserted(old.metric, Recorded(new))
           made == Merged(old, new)
<1>1. old.count \in Nat /\ old.start \in Times /\ old.end \in Times
  BY DEF Aggregate
<1>2. made = [count |-> old.count + Cardinality(new), start |-> Min(times), end |-> Max(times),
              metric |-> metric]
  BY Zenon DEF Merged, MergedScalars, Recorded
<1>3. /\ times \in SUBSET Times /\ times # {}
      /\ \A t \in times : Bucket(t) = b
      /\ \A r \in new : rows[r].collected \in times
      /\ old.count # 0 => old.start \in times /\ old.end \in times
  <2>1. old.count # 0 => Bucket(old.start) = b /\ Bucket(old.end) = b
    BY DEF Sound
  <2>2. \A t \in times : t \in Times /\ Bucket(t) = b
    BY <1>1, <2>1
  <2>3. times # {}
    <3>1. PICK r \in new : TRUE
      OBVIOUS
    <3>2. rows[r].collected \in times
      BY <3>1
    <3> QED BY <3>2
  <2>4. /\ \A r \in new : rows[r].collected \in times
        /\ old.count # 0 => old.start \in times /\ old.end \in times
    OBVIOUS
  <2> HIDE DEF times
  <2> QED BY <2>2, <2>3, <2>4
<1> HIDE DEF times
<1>4. /\ Min(times) \in times /\ \A t \in times : Min(times) <= t
      /\ Max(times) \in times /\ \A t \in times : t <= Max(times)
  <2>1. MaxClock + Skew \in Nat /\ times \in SUBSET Nat /\ \A t \in times : t <= MaxClock + Skew
    BY <1>3 DEF Times
  <2> QED BY <1>3, <2>1, Extremes
<1>5. IsFiniteSet(new) /\ Cardinality(new) \in Nat /\ Cardinality(new) # 0
  <2>1. IsFiniteSet(new) /\ Cardinality(new) \in Nat
    BY Finite
  <2> QED BY <2>1, FS_EmptySet, Zenon
<1>6. Tells(Recorded(new), new)
  BY RecordedTells
<1>7. old.metric \in Kept /\ Recorded(new) \in Kept
  BY <1>6, MetricKept DEF Tells
<1>8. metric \in Kept /\ metric.count = old.metric.count + Recorded(new).count
  BY <1>7, UpsertedIs
<1>9. Recorded(new).count <= Cardinality(new) /\ Recorded(new).count \in Nat
  <2>1. Having(new) \in SUBSET new
    BY DEF Having
  <2>2. Cardinality(Having(new)) <= Cardinality(new)
    BY <1>5, <2>1, FS_Subset
  <2> QED BY <1>6, <1>7, <2>2, KeptFacts DEF Tells
<1>10. old.metric.count <= old.count /\ old.metric.count \in Nat
  BY <1>1, <1>7, KeptFacts DEF Sound, NoAggregate, NoScalar
<1>11. metric \in Scalar
  BY <1>8 DEF Kept, Filled, NoScalar, Scalar
<1>12. metric.count <= old.count + Cardinality(new)
  BY <1>1, <1>5, <1>8, <1>9, <1>10
<1> DEFINE size == old.count + Cardinality(new)
<1>13. size \in Nat /\ size # 0
  BY <1>1, <1>5
<1>14. Min(times) \in Times /\ Max(times) \in Times /\ Min(times) <= Max(times)
         /\ Bucket(Min(times)) = b /\ Bucket(Max(times)) = b
  BY <1>3, <1>4
<1> HIDE DEF metric, size
<1>15. made = [count |-> size, start |-> Min(times), end |-> Max(times), metric |-> metric]
  BY <1>2 DEF size
<1> HIDE DEF made
<1>16. /\ made.count = size /\ made.start = Min(times) /\ made.end = Max(times)
       /\ made.metric = metric
  BY <1>15
<1>17. made \in Aggregate
  BY <1>11, <1>13, <1>14, <1>15 DEF Aggregate
<1>18. Sound(made, b)
  <2>1. metric.count <= size
    BY <1>12 DEF size
  <2> QED BY <1>8, <1>13, <1>14, <1>16, <2>1 DEF Sound
<1>19. /\ \A r \in new : made.start <= rows[r].collected /\ rows[r].collected <= made.end
       /\ old.count # 0 => made.start <= old.start /\ old.end <= made.end
  BY <1>3, <1>4, <1>16
<1> QED BY <1>13, <1>16, <1>17, <1>18, <1>19 DEF made, metric, size

LEMMA HourInit == Init => HourInv
<1> SUFFICES ASSUME Init PROVE HourInv
  OBVIOUS
<1>1. NoAggregate \in Aggregate
  BY DEF NoAggregate, Aggregate, NoScalar, Scalar, Times
<1>2. hourly = [h \in Hosts |-> [b \in Buckets |-> NoAggregate]]
  BY DEF Init
<1>3. Hourly
  BY <1>1, <1>2 DEF Hourly
<1>4. ASSUME NEW h \in Hosts, NEW b \in Buckets PROVE Sound(hourly[h][b], b) /\ Covered(h, b)
  <2>1. hourly[h][b] = NoAggregate
    BY <1>2
  <2>2. MergedRows(h, b) = {}
    BY DEF Init, NoRow, MergedRows, InBucket
  <2> QED BY <2>1, <2>2 DEF Sound, Covered, NoAggregate
<1> QED BY <1>3, <1>4 DEF HourInv

\* The rows that a step merges are of the hour.
LEMMA NewOfHour ==
  ASSUME Inv, NEW h, NEW b, NEW new \in SUBSET Unmerged(h, b)
  PROVE  /\ new \in SUBSET Reports
         /\ \A r \in new : rows[r].collected \in Times /\ Bucket(rows[r].collected) = b
<1>1. rows \in [Reports -> Row]
  BY DEF Inv, TypeOK
<1> QED BY <1>1 DEF Unmerged, InBucket, Row

LEMMA HourStepInv ==
  ASSUME Inv, HourInv, [Next]_vars, NEW h \in Hosts, NEW b \in Buckets
  PROVE  /\ hourly'[h][b] \in Aggregate
         /\ Sound(hourly'[h][b], b)
         /\ Covered(h, b)'
<1> DEFINE old == hourly[h][b]
           next == hourly'[h][b]
<1>1. old \in Aggregate /\ Sound(old, b) /\ Covered(h, b)
  BY DEF HourInv, Hourly
<1>2. HourStep(h, b)
  BY HourSteps DEF HourInv
<1>3. NoAggregate \in Aggregate /\ Sound(NoAggregate, b)
  BY DEF NoAggregate, Aggregate, NoScalar, Scalar, Times, Sound
<1>4. rows \in [Reports -> Row] /\ rows' \in [Reports -> Row] /\ clock \in Nat /\ clock' \in Nat
  <2>1. Inv'
    BY NextInv
  <2> QED BY <2>1 DEF Inv, TypeOK
<1>5. clock <= clock'
  <2>1. clock' = clock \/ clock' = clock + 1
    BY DEF Next, vars, Store, Activate, Revoke, DeleteHost, AggregateRawBatch,
           DeleteAggregatedRawBatch, DeleteExpiredAggregateBatch, Tick
  <2> QED BY <1>4, <2>1
<1>6. ASSUME NEW r \in MergedRows(h, b)'
      PROVE  /\ r \in Reports /\ rows'[r].collected = rows[r].collected
             /\ rows[r].collected \in Nat
  <2>1. r \in Reports
    BY DEF MergedRows, InBucket
  <2>2. rows'[r].collected = rows[r].collected
    BY <1>2 DEF HourStep
  <2> QED BY <1>4, <2>1, <2>2 DEF Row, Times
\* Rows that were covered stay so.
<1>7. ASSUME NEW r \in MergedRows(h, b)', r \in MergedRows(h, b),
             \/ old.count # 0 /\ old.start <= rows[r].collected /\ rows[r].collected <= old.end
                  => /\ next.count # 0
                     /\ next.start <= rows[r].collected /\ rows[r].collected <= next.end
             \/ old.end + AggregateRetention < clock
      PROVE  \/ rows'[r].collected + AggregateRetention < clock'
             \/ /\ next.count # 0
                /\ next.start <= rows'[r].collected
                /\ rows'[r].collected <= next.end
  <2> DEFINE t == rows[r].collected
  <2>1. \/ t + AggregateRetention < clock
        \/ old.count # 0 /\ old.start <= t /\ t <= old.end
    BY <1>1, <1>7 DEF Covered
  <2>2. rows'[r].collected = t /\ t \in Nat /\ old.end \in Nat
    BY <1>1, <1>6 DEF Aggregate, Times
  <2> HIDE DEF t
  <2>3. CASE t + AggregateRetention < clock
    BY <1>4, <1>5, <2>2, <2>3
  <2>4. CASE old.count # 0 /\ old.start <= t /\ t <= old.end
    <3>1. CASE old.end + AggregateRetention < clock
      <4>1. t + AggregateRetention < clock
        BY <1>4, <2>2, <2>4, <3>1
      <4> QED BY <2>3, <4>1
    <3>2. CASE ~(old.end + AggregateRetention < clock)
      <4>1. next.count # 0 /\ next.start <= t /\ t <= next.end
        BY <1>7, <2>4, <3>2 DEF t
      <4> QED BY <2>2, <4>1
    <3> QED BY <3>1, <3>2
  <2> QED BY <2>1, <2>3, <2>4
<1> HIDE DEF old, next
<1>8. CASE Stays(h, b)
  <2>1. next = old /\ MergedRows(h, b)' \subseteq MergedRows(h, b)
    BY <1>8 DEF Stays, old, next
  <2>2. Covered(h, b)'
    BY <1>7, <2>1 DEF Covered, next
  <2> QED BY <1>1, <2>1, <2>2 DEF next
<1>9. ASSUME NEW r \in Reports, Receives(h, b, r)
      PROVE  next \in Aggregate /\ Sound(next, b) /\ Covered(h, b)'
  <2>1. next = old /\ MergedRows(h, b)' = MergedRows(h, b)
    BY <1>9 DEF Receives, old, next
  <2>2. Covered(h, b)'
    BY <1>7, <2>1 DEF Covered, next
  <2> QED BY <1>1, <2>1, <2>2
<1>10. ASSUME NEW new \in SUBSET Unmerged(h, b), Merges(h, b, new)
       PROVE  next \in Aggregate /\ Sound(next, b) /\ Covered(h, b)'
  <2>1. next = Merged(old, new) /\ new # {} /\ MergedRows(h, b)' = MergedRows(h, b) \union new
    BY <1>10 DEF Merges, old, next
  <2>2. /\ new \in SUBSET Reports
        /\ \A r \in new : rows[r].collected \in Times /\ Bucket(rows[r].collected) = b
    BY NewOfHour
  <2>3. /\ next \in Aggregate /\ Sound(next, b) /\ next.count # 0
        /\ \A r \in new : next.start <= rows[r].collected /\ rows[r].collected <= next.end
        /\ old.count # 0 => next.start <= old.start /\ old.end <= next.end
    BY <1>1, <2>1, <2>2, MergedIs
  <2>4. ASSUME NEW r \in MergedRows(h, b)'
        PROVE  \/ rows'[r].collected + AggregateRetention < clock'
               \/ /\ next.count # 0
                  /\ next.start <= rows'[r].collected
                  /\ rows'[r].collected <= next.end
    <3>1. CASE r \in new
      BY <1>6, <2>3, <3>1
    <3>2. CASE r \in MergedRows(h, b)
      <4>1. /\ old.start \in Nat /\ old.end \in Nat /\ next.start \in Nat /\ next.end \in Nat
            /\ rows[r].collected \in Nat
        BY <1>1, <1>6, <2>3 DEF Aggregate, Times
      <4>2. old.count # 0 /\ old.start <= rows[r].collected /\ rows[r].collected <= old.end
                  => /\ next.count # 0
                     /\ next.start <= rows[r].collected /\ rows[r].collected <= next.end
        BY <2>3, <4>1
      <4> QED BY <1>7, <3>2, <4>2
    <3> QED BY <2>1, <3>1, <3>2
  <2>5. Covered(h, b)'
    BY <2>4 DEF Covered, next
  <2> QED BY <2>3, <2>5
<1>11. CASE Expires(h, b)
  <2>1. /\ next = NoAggregate /\ MergedRows(h, b)' = MergedRows(h, b)
        /\ old.end + AggregateRetention < clock
    BY <1>11 DEF Expires, old, next
  <2>2. Covered(h, b)'
    BY <1>7, <2>1 DEF Covered, next
  <2> QED BY <1>3, <2>1, <2>2 DEF next
<1>12. CASE Vanishes(h, b)
  <2>1. next = NoAggregate /\ MergedRows(h, b)' = {}
    BY <1>12 DEF Vanishes, next
  <2>2. Covered(h, b)'
    BY <2>1 DEF Covered
  <2> QED BY <1>3, <2>1, <2>2 DEF next
<1> QED BY <1>2, <1>8, <1>9, <1>10, <1>11, <1>12 DEF HourStep, next


LEMMA HourlyNext ==
  ASSUME Hourly, [Next]_vars,
         \A h \in Hosts, b \in Buckets : hourly'[h][b] \in Aggregate
  PROVE  Hourly'
<1>1. hourly \in [Hosts -> [Buckets -> Aggregate]]
  BY DEF Hourly
<1>2. CASE hourly' = hourly
  BY <1>1, <1>2 DEF Hourly
<1>3. ASSUME NEW g \in Hosts, DeleteHost(g) PROVE Hourly'
  <2>1. hourly' = [hourly EXCEPT ![g] = [b \in Buckets |-> NoAggregate]]
    BY <1>3 DEF DeleteHost
  <2>2. NoAggregate \in Aggregate
    BY DEF NoAggregate, Aggregate, NoScalar, Scalar, Times
  <2> QED BY <1>1, <2>1, <2>2 DEF Hourly
<1>4. ASSUME NEW now \in 0..clock, AggregateRawBatch(now) PROVE Hourly'
  <2>1. PICK batch \in SUBSET Aggregable(now) :
          hourly' = [h \in Hosts |-> [b \in Buckets |->
               LET new == InBucket(batch, h, b) IN
               IF new = {} THEN hourly[h][b] ELSE Merged(hourly[h][b], new)]]
    BY <1>4 DEF AggregateRawBatch
  <2> DEFINE made(h, b) == IF InBucket(batch, h, b) = {} THEN hourly[h][b]
                           ELSE Merged(hourly[h][b], InBucket(batch, h, b))
  <2>2. hourly' = [h \in Hosts |-> [b \in Buckets |-> made(h, b)]]
    BY <2>1, Zenon
  <2> HIDE DEF made
  <2>3. ASSUME NEW h \in Hosts, NEW b \in Buckets PROVE made(h, b) \in Aggregate
    <3>1. hourly'[h][b] = made(h, b)
      BY <2>2
    <3> QED BY <3>1
  <2> QED BY <2>2, <2>3 DEF Hourly
<1>5. ASSUME NEW now \in 0..clock, DeleteExpiredAggregateBatch(now) PROVE Hourly'
  <2>1. PICK batch \in SUBSET Expired(now) :
          hourly' = [h \in Hosts |-> [b \in Buckets |->
            IF <<h, b>> \in batch THEN NoAggregate ELSE hourly[h][b]]]
    BY <1>5 DEF DeleteExpiredAggregateBatch
  <2> DEFINE made(h, b) == IF <<h, b>> \in batch THEN NoAggregate ELSE hourly[h][b]
  <2>2. hourly' = [h \in Hosts |-> [b \in Buckets |-> made(h, b)]]
    BY <2>1, Zenon
  <2> HIDE DEF made
  <2>3. ASSUME NEW h \in Hosts, NEW b \in Buckets PROVE made(h, b) \in Aggregate
    <3>1. hourly'[h][b] = made(h, b)
      BY <2>2
    <3> QED BY <3>1
  <2> QED BY <2>2, <2>3 DEF Hourly
<1> QED BY <1>2, <1>3, <1>4, <1>5
        DEF Next, vars, Store, Activate, Revoke, DeleteAggregatedRawBatch, Tick

LEMMA HourNext == ASSUME Inv, HourInv, [Next]_vars PROVE HourInv'
<1>1. ASSUME NEW h \in Hosts, NEW b \in Buckets
      PROVE  hourly'[h][b] \in Aggregate /\ Sound(hourly'[h][b], b) /\ Covered(h, b)'
  BY HourStepInv
<1>2. Hourly'
  BY <1>1, HourlyNext DEF HourInv
<1>3. \A h \in Hosts, b \in Buckets : Sound(hourly'[h][b], b) /\ Covered(h, b)'
  BY <1>1
<1> QED BY <1>2, <1>3 DEF HourInv

LEMMA HoursHold == Spec => [](Inv /\ HourInv)
<1>1. Inv /\ HourInv /\ [Next]_vars => (Inv /\ HourInv)'
  BY NextInv, HourNext
<1> QED BY InitInv, HourInit, <1>1, PTL DEF Spec

LEMMA AggregatesFit == ASSUME HourInv PROVE AggregatesOK
<1>1. hourly \in [Hosts -> [Buckets -> Aggregate]]
  BY DEF HourInv, Hourly
<1>2. ASSUME NEW h \in Hosts, NEW b \in Buckets
      PROVE  LET aggregate == hourly[h][b] IN
             IF aggregate.count = 0 THEN aggregate = NoAggregate
             ELSE /\ aggregate.start <= aggregate.end
                  /\ Bucket(aggregate.start) = b
                  /\ Bucket(aggregate.end) = b
                  /\ aggregate.metric.count <= aggregate.count
                  /\ aggregate.metric.count = 0 => aggregate.metric = NoScalar
  <2>1. Sound(hourly[h][b], b)
    BY DEF HourInv
  <2>2. hourly[h][b].metric \in Kept
    BY <2>1, MetricKept
  <2>3. hourly[h][b].metric.count = 0 => hourly[h][b].metric = NoScalar
    BY <2>2, KeptFacts
  <2> QED BY <2>1, <2>3, Zenon DEF Sound
<1> QED BY <1>1, <1>2, Zenon DEF AggregatesOK

\* An aggregate lies in its hour, and goes only when everything merged into it that
\* is still stored is older than the aggregate retention.
THEOREM ExpiredHoursAreOld == Spec => ExpiredHourIsOld
<1>1. ASSUME Inv, HourInv, [Next]_vars, NEW h \in Hosts, NEW b \in Buckets,
             hourly[h][b].count > 0, hourly'[h][b] = NoAggregate, hosts'[h] # NoHost,
             NEW r \in InBucket(Reports, h, b), rows[r].aggregated
      PROVE  rows[r].collected + AggregateRetention < clock
  <2> DEFINE old == hourly[h][b]
  <2>1. /\ r \in MergedRows(h, b) /\ r \in Reports /\ rows[r].collected \in Nat
        /\ clock \in Nat /\ old \in Aggregate /\ old.end \in Nat /\ Sound(old, b)
    BY <1>1 DEF MergedRows, InBucket, Inv, HourInv, Hourly, TypeOK, Row, Times, Aggregate
  <2>2. HourStep(h, b)
    BY <1>1, HourSteps DEF HourInv
  <2>3. NoAggregate.count = 0 /\ old.count # 0
    BY <1>1 DEF NoAggregate
  <2>4. ~Stays(h, b)
    BY <1>1, <2>3 DEF Stays
  <2>5. ASSUME NEW s \in Reports, Receives(h, b, s) PROVE FALSE
    BY <1>1, <2>3, <2>5 DEF Receives
  <2>6. ASSUME NEW new \in SUBSET Unmerged(h, b), Merges(h, b, new) PROVE FALSE
    <3>1. /\ new \in SUBSET Reports
          /\ \A s \in new : rows[s].collected \in Times /\ Bucket(rows[s].collected) = b
      BY <1>1, NewOfHour
    <3>2. hourly'[h][b] = Merged(old, new) /\ new # {}
      BY <2>6 DEF Merges
    <3> HIDE DEF old
    <3>3. Merged(old, new).count # 0
      BY <2>1, <3>1, <3>2, MergedIs
    <3> QED BY <1>1, <2>3, <3>2, <3>3
  <2>7. Expires(h, b)
    BY <1>1, <2>2, <2>4, <2>5, <2>6 DEF HourStep, Vanishes
  <2>8. old.end + AggregateRetention < clock
    BY <2>7 DEF Expires
  <2>9. \/ rows[r].collected + AggregateRetention < clock
        \/ rows[r].collected <= old.end
    BY <1>1, <2>1 DEF HourInv, Covered
  <2> HIDE DEF old
  <2> QED BY <2>1, <2>8, <2>9
<1>2. Inv /\ HourInv /\ [Next]_vars =>
        [\A h \in Hosts, b \in Buckets :
           hourly[h][b].count > 0 /\ hourly'[h][b] = NoAggregate /\ hosts'[h] # NoHost =>
             \A r \in InBucket(Reports, h, b) :
               rows[r].aggregated => rows[r].collected + AggregateRetention < clock]_vars
  BY <1>1
<1>3. HourInv => AggregatesOK
  BY AggregatesFit
<1> QED BY <1>2, <1>3, HoursHold, PTL DEF Spec, ExpiredHourIsOld

-----------------------------------------------------------------------------
(* The samples of an hour.                                                 *)

\* The samples of an hour never become more than so many that have the metric.
FewSamples(most) == \A h \in Hosts, b \in Buckets : Samples(h, b).count <= most

WholeTotals(most) ==
  \A h \in Hosts, b \in Buckets : Whole(Total(hourly[h][b].metric), most)

\* What SamplesConserved says but for the total, which rounding may change: the
\* number of samples, of those with the metric, and the extremes.
Counted(h, b) ==
  \/ UNCHANGED <<Unmerged(h, b), hourly[h][b]>>
  \/ SameButTotal(Samples(h, b), Samples(h, b)')
  \/ \E r \in Reports :
       /\ rows[r] = NoRow
       /\ r \in InBucket(Reports, h, b)'
       /\ Samples(h, b)' = Grown(Samples(h, b), Metric[r])
  \/ /\ hourly[h][b].count > 0
     /\ hourly'[h][b] = NoAggregate
     /\ Samples(h, b)' = Tally(Unmerged(h, b), NoAggregate)
  \/ hosts'[h] = NoHost
SamplesCounted == [][\A h \in Hosts, b \in Buckets : Counted(h, b)]_vars

Conserved(h, b) ==
  \/ UNCHANGED <<Unmerged(h, b), hourly[h][b]>>
  \/ Samples(h, b)' = Samples(h, b)
  \/ \E r \in Reports :
       /\ rows[r] = NoRow
       /\ r \in InBucket(Reports, h, b)'
       /\ Samples(h, b)' = Grown(Samples(h, b), Metric[r])
  \/ /\ hourly[h][b].count > 0
     /\ hourly'[h][b] = NoAggregate
     /\ Samples(h, b)' = Tally(Unmerged(h, b), NoAggregate)
  \/ hosts'[h] = NoHost

LEMMA OfHour ==
  ASSUME Inv, HourInv, NEW h \in Hosts, NEW b \in Buckets
  PROVE  /\ Unmerged(h, b) \in SUBSET Reports
         /\ hourly[h][b] \in Aggregate /\ Sound(hourly[h][b], b)
         /\ hourly[h][b].metric \in Kept /\ hourly[h][b].count \in Nat
<1>1. hourly[h][b] \in Aggregate /\ Sound(hourly[h][b], b)
  BY DEF HourInv, Hourly
<1>2. hourly[h][b].metric \in Kept
  BY <1>1, MetricKept
<1> QED BY <1>1, <1>2 DEF Unmerged, InBucket, Aggregate

LEMMA SamplesStep ==
  ASSUME Inv, HourInv, [Next]_vars, NEW h \in Hosts, NEW b \in Buckets
  PROVE  /\ Counted(h, b)
         /\ \A most \in Nat :
              AllWhole(most) /\ WholeTotals(most) /\ FewSamples(most) =>
                /\ Conserved(h, b)
                /\ Whole(Total(hourly'[h][b].metric), most)
<1> DEFINE raw == Unmerged(h, b)
           old == hourly[h][b]
           made == hourly'[h][b]
           Goal == /\ Counted(h, b)
                   /\ \A most \in Nat :
                        AllWhole(most) /\ WholeTotals(most) /\ FewSamples(most) =>
                          Conserved(h, b) /\ Whole(Total(made.metric), most)
<1>1. raw \in SUBSET Reports /\ old \in Aggregate /\ Sound(old, b) /\ old.metric \in Kept
        /\ old.count \in Nat
  BY OfHour
<1>2. HourStep(h, b)
  BY HourSteps DEF HourInv
<1>3. Samples(h, b) = Tally(raw, old) /\ Samples(h, b)' = Tally(raw', made)
  BY Zenon DEF Samples
<1>4. ASSUME NEW most \in Nat, WholeTotals(most) PROVE Whole(Total(old.metric), most)
  BY <1>4 DEF WholeTotals
<1>5. ASSUME NEW most \in Nat PROVE Whole(Total(NoAggregate.metric), most)
  <2>1. Total(NoAggregate.metric) = 0
    BY DEF Total, NoAggregate, NoScalar
  <2> SUFFICES ASSUME NEW n \in 1..most PROVE \E q \in Nat : 0 = q * n
    BY <2>1 DEF Whole
  <2>2. 0 = 0 * n
    OBVIOUS
  <2> QED BY <2>2
<1>6. CASE Stays(h, b)
  <2>1. raw' = raw /\ made = old
    BY <1>6 DEF Stays
  <2>2. UNCHANGED <<Unmerged(h, b), hourly[h][b]>>
    BY <2>1
  <2> QED BY <1>4, <2>1, <2>2 DEF Counted, Conserved
<1>7. ASSUME NEW r \in Reports, Receives(h, b, r) PROVE Goal
  <2>1. /\ rows[r] = NoRow /\ r \in InBucket(Reports, h, b)' /\ r \notin raw
        /\ raw' = raw \union {r} /\ made = old
    BY <1>7 DEF Receives
  <2>2. Tally(raw \union {r}, old) = Grown(Tally(raw, old), Metric[r])
    BY <1>1, <2>1, TallyGrows
  <2>3. Samples(h, b)' = Grown(Samples(h, b), Metric[r])
    BY <1>3, <2>1, <2>2, Zenon
  <2>4. Counted(h, b) /\ Conserved(h, b)
    BY <2>1, <2>3 DEF Counted, Conserved
  <2> QED BY <1>4, <2>1, <2>4
<1>8. ASSUME NEW new \in SUBSET raw, Merges(h, b, new) PROVE Goal
  <2>1. new # {} /\ raw' = raw \ new /\ made = Merged(old, new)
    BY <1>8 DEF Merges
  <2>2. /\ new \in SUBSET Reports
        /\ \A r \in new : rows[r].collected \in Times /\ Bucket(rows[r].collected) = b
    BY NewOfHour
  <2>3. made.metric = Upserted(old.metric, Recorded(new))
          /\ made.count = old.count + Cardinality(new)
    BY <1>1, <2>1, <2>2, MergedIs
  <2> DEFINE before == Tally(raw, old)
             after == Tally(raw \ new, made)
  <2>4. /\ SameButTotal(before, after)
        /\ \A most \in Nat :
             AllWhole(most) /\ Whole(Total(old.metric), most) /\ before.count <= most =>
               after = before /\ Whole(Total(made.metric), most)
    <3> HIDE DEF raw, old, made
    <3> QED BY <1>1, <2>3, TallyMerges, Zenon
  <2>5. Samples(h, b) = before /\ Samples(h, b)' = after
    BY <1>3, <2>1, Zenon
  <2> HIDE DEF before, after
  <2>6. Counted(h, b)
    BY <2>4, <2>5 DEF Counted
  <2>7. ASSUME NEW most \in Nat, AllWhole(most), WholeTotals(most), FewSamples(most)
        PROVE  Conserved(h, b) /\ Whole(Total(made.metric), most)
    <3>1. before.count <= most
      BY <2>5, <2>7 DEF FewSamples
    <3>2. after = before /\ Whole(Total(made.metric), most)
      BY <1>4, <2>4, <2>7, <3>1
    <3> QED BY <2>5, <3>2 DEF Conserved
  <2> QED BY <2>6, <2>7
<1>9. CASE Expires(h, b)
  <2>1. raw' = raw /\ old.count > 0 /\ made = NoAggregate
    BY <1>9 DEF Expires
  <2>2. Samples(h, b)' = Tally(raw, NoAggregate)
    BY <1>3, <2>1, Zenon
  <2>3. Counted(h, b) /\ Conserved(h, b)
    BY <2>1, <2>2 DEF Counted, Conserved
  <2> QED BY <1>5, <2>1, <2>3
<1>10. CASE Vanishes(h, b)
  <2>1. hosts'[h] = NoHost /\ made = NoAggregate
    BY <1>10 DEF Vanishes
  <2>2. Counted(h, b) /\ Conserved(h, b)
    BY <2>1 DEF Counted, Conserved
  <2> QED BY <1>5, <2>1, <2>2
<1> QED BY <1>2, <1>6, <1>7, <1>8, <1>9, <1>10 DEF HourStep

\* Whatever its averages are rounded to, an hour keeps the number of its samples and
\* their extremes: none is lost and none counts twice, in whatever batches and with
\* whatever late reports it is merged.
THEOREM SamplesAreCounted == Spec => SamplesCounted
<1>1. Inv /\ HourInv /\ [Next]_vars => [\A h \in Hosts, b \in Buckets : Counted(h, b)]_vars
  BY SamplesStep
<1> QED BY <1>1, HoursHold, PTL DEF Spec, SamplesCounted

\* Where nothing is rounded, as the values are multiples of each count that an hour
\* reaches, the mean is kept too.
THEOREM SamplesAreConserved ==
  ASSUME NEW most \in Nat, AllWhole(most)
  PROVE  Spec /\ []FewSamples(most) => SamplesConserved
<1> DEFINE All == Inv /\ HourInv /\ WholeTotals(most)
<1>1. Init => All
  <2> SUFFICES ASSUME Init PROVE WholeTotals(most)
    BY InitInv, HourInit
  <2> SUFFICES ASSUME NEW h \in Hosts, NEW b \in Buckets, NEW n \in 1..most
               PROVE  \E q \in Nat : Total(hourly[h][b].metric) = q * n
    BY DEF WholeTotals, Whole
  <2>1. hourly[h][b] = NoAggregate
    BY DEF Init
  <2>2. Total(hourly[h][b].metric) = 0 * n
    BY <2>1 DEF Total, NoAggregate, NoScalar
  <2> QED BY <2>2
<1>2. All /\ FewSamples(most) /\ [Next]_vars => All'
  BY NextInv, HourNext, SamplesStep DEF WholeTotals
<1>3. All /\ FewSamples(most) /\ [Next]_vars =>
        [\A h \in Hosts, b \in Buckets :
           \/ UNCHANGED <<Unmerged(h, b), hourly[h][b]>>
           \/ Samples(h, b)' = Samples(h, b)
           \/ \E r \in Reports :
                /\ rows[r] = NoRow
                /\ r \in InBucket(Reports, h, b)'
                /\ Samples(h, b)' = Grown(Samples(h, b), Metric[r])
           \/ /\ hourly[h][b].count > 0
              /\ hourly'[h][b] = NoAggregate
              /\ Samples(h, b)' = Tally(Unmerged(h, b), NoAggregate)
           \/ hosts'[h] = NoHost]_vars
  BY SamplesStep, Zenon DEF Conserved
<1> QED BY <1>1, <1>2, <1>3, PTL DEF Spec, SamplesConserved
=============================================================================
