-------------------------- MODULE MaintenanceProofs --------------------------
(***************************************************************************)
(* The proof that the retention task never sleeps for a whole interval on  *)
(* work that was due when its run began, for any work, any batch size and  *)
(* any budget of at least one pass.                                        *)
(*                                                                         *)
(* What is left of such work is in the cutoffs of the run (Selected).  A   *)
(* pass that has done nothing so far found every kind of work before its   *)
(* own phase empty (EmptyPass), and a run that has done nothing is in its  *)
(* first pass (FirstPass): its budget cannot end it before that pass does. *)
(***************************************************************************)
EXTENDS Maintenance, FiniteSetTheorems, TLAPS

Before(task) ==
  CASE task = "merge" -> {} [] task = "delete" -> {"merge"} [] task = "drop" -> {"merge", "delete"}
Place(task) == CASE task = "merge" -> 0 [] task = "delete" -> 1 [] task = "drop" -> 2

Selected == \A w \in begun : due[w] # "young" /\ (due[w] \in Tasks => w \in cutoff)
EmptyPass == phase \in Tasks /\ ~pass => \A w \in begun : due[w] \notin Before(phase)
FirstPass == phase \in Tasks /\ ~moved => ~pass /\ transactions = Place(phase)
Noted == notified => requested
Outside == phase \notin Tasks => ~moved /\ ~pass /\ transactions = 0

Inv ==
  /\ begun \subseteq Work /\ cutoff \subseteq Work
  /\ transactions \in Nat /\ moved \in BOOLEAN /\ pass \in BOOLEAN
  /\ DOMAIN due = Work
  /\ Selected /\ EmptyPass /\ FirstPass /\ Outside /\ Noted
USE ConfigAssumption DEF ValidConfig

LEMMA InvInit == Init => Inv
<1> SUFFICES ASSUME Init PROVE Inv
  OBVIOUS
<1>1. begun = {} /\ cutoff = {} /\ phase = "top" /\ transactions = 0 /\ ~moved /\ ~pass /\ ~notified
  BY DEF Init
<1>2. DOMAIN due = Work /\ moved \in BOOLEAN /\ pass \in BOOLEAN
  BY DEF Init
<1> QED BY <1>1, <1>2 DEF Inv, Selected, EmptyPass, FirstPass, Outside, Noted, Tasks

\* An empty batch means that there is nothing of its kind.
LEMMA EmptyBatch ==
  ASSUME NEW task, Batch(task, {})
  PROVE  Pieces(task) = {}
<1>1. Cardinality({}) = 0
  BY FS_EmptySet
<1>2. Cardinality({}) < BatchSize
  BY <1>1
<1> QED BY <1>2 DEF Batch

\* What a transaction leaves due is what it did not take.
LEMMA OneTransaction ==
  ASSUME Inv, Transaction
  PROVE  \E batch \in SUBSET Pieces(phase) :
           /\ Batch(phase, batch)
           /\ DOMAIN due' = Work
           /\ \A w \in Work \ batch : due'[w] = due[w]
           /\ \A w \in batch : due'[w] \in Results(phase)
           /\ LET spent == transactions + 1
                  some == pass \/ batch # {}
                  done == moved \/ batch # {}
              IN IF CycleEnds(phase, spent, some)
                   THEN Finish(BacklogLeft(spent, done)) /\ CycleGone
                   ELSE /\ phase' = Following(phase)
                        /\ transactions' = spent
                        /\ moved' = done
                        /\ pass' = (some /\ phase # "drop")
                        /\ UNCHANGED <<cutoff, begun, status>>
<1>1. PICK batch \in SUBSET Pieces(phase) :
        /\ Batch(phase, batch)
        /\ \E result \in [batch -> Results(phase)] :
          due' = [w \in Work |-> IF w \in batch THEN result[w] ELSE due[w]]
        /\ LET spent == transactions + 1
               some == pass \/ batch # {}
               done == moved \/ batch # {}
           IN IF CycleEnds(phase, spent, some)
                THEN Finish(BacklogLeft(spent, done)) /\ CycleGone
                ELSE /\ phase' = Following(phase)
                     /\ transactions' = spent
                     /\ moved' = done
                     /\ pass' = (some /\ phase # "drop")
                     /\ UNCHANGED <<cutoff, begun, status>>
  BY DEF Transaction
<1>2. PICK result \in [batch -> Results(phase)] :
        due' = [w \in Work |-> IF w \in batch THEN result[w] ELSE due[w]]
  BY <1>1
<1>3. batch \subseteq Work
  BY DEF Pieces, Inv
<1> QED BY <1>1, <1>2, <1>3

\* A run that ends on a whole interval has ended with a pass that did nothing.
LEMMA PausesWhenDone ==
  ASSUME Inv, Transaction, phase' = "top", delay' = "interval"
  PROVE  \A w \in begun : due'[w] \notin Tasks
<1>1. PICK batch \in SUBSET Pieces(phase) :
        /\ Batch(phase, batch)
        /\ \A w \in Work \ batch : due'[w] = due[w]
        /\ LET spent == transactions + 1
               some == pass \/ batch # {}
               done == moved \/ batch # {}
           IN IF CycleEnds(phase, spent, some)
                THEN Finish(BacklogLeft(spent, done)) /\ CycleGone
                ELSE phase' = Following(phase)
  BY OneTransaction
<1>2. phase \in Tasks
  BY DEF Transaction
<1>3. Following(phase) # "top"
  BY <1>2 DEF Following, Tasks
<1>4. /\ CycleEnds(phase, transactions + 1, pass \/ batch # {})
      /\ ~BacklogLeft(transactions + 1, moved \/ batch # {})
  BY <1>1, <1>3 DEF Finish, Pause
<1>5. phase = "drop" /\ ~pass /\ batch = {}
  <2>1. CASE transactions + 1 >= MaxTransactions
    <3>1. ~moved /\ batch = {}
      BY <1>4, <2>1 DEF BacklogLeft
    <3>2. ~pass /\ transactions = Place(phase)
      BY <1>2, <3>1 DEF Inv, FirstPass
    <3>3. transactions >= 2
      BY <2>1 DEF Inv
    <3> QED BY <1>2, <3>1, <3>2, <3>3 DEF Place, Tasks
  <2>2. CASE ~(transactions + 1 >= MaxTransactions)
    BY <1>4, <2>2 DEF CycleEnds
  <2> QED BY <2>1, <2>2
<1>6. Pieces("drop") = {}
  BY <1>1, <1>5, EmptyBatch
<1>7. ASSUME NEW w \in begun PROVE due[w] \notin Tasks
  <2>1. due[w] \notin {"merge", "delete"}
    BY <1>2, <1>5 DEF Inv, EmptyPass, Before
  <2>2. due[w] # "drop"
    BY <1>6 DEF Inv, Selected, Pieces, Tasks
  <2> QED BY <2>1, <2>2 DEF Tasks
<1> QED BY <1>1, <1>5, <1>7 DEF Inv

LEMMA TransactionInv == ASSUME Inv, Transaction PROVE Inv'
<1>1. PICK batch \in SUBSET Pieces(phase) :
        /\ Batch(phase, batch)
        /\ DOMAIN due' = Work
        /\ \A w \in Work \ batch : due'[w] = due[w]
        /\ \A w \in batch : due'[w] \in Results(phase)
        /\ LET spent == transactions + 1
               some == pass \/ batch # {}
               done == moved \/ batch # {}
           IN IF CycleEnds(phase, spent, some)
                THEN Finish(BacklogLeft(spent, done)) /\ CycleGone
                ELSE /\ phase' = Following(phase)
                     /\ transactions' = spent
                     /\ moved' = done
                     /\ pass' = (some /\ phase # "drop")
                     /\ UNCHANGED <<cutoff, begun, status>>
  BY OneTransaction
<1>2. phase \in Tasks
  BY DEF Transaction
<1>0. Noted'
  BY DEF Transaction, stop, Inv, Noted
<1>3. CASE CycleEnds(phase, transactions + 1, pass \/ batch # {})
  <2>1. phase' = "top" /\ CycleGone
    BY <1>1, <1>3 DEF Finish
  <2> QED BY <1>0, <1>1, <2>1
          DEF CycleGone, Inv, Selected, EmptyPass, FirstPass, Outside, Tasks
<1>4. CASE ~CycleEnds(phase, transactions + 1, pass \/ batch # {})
  <2>1. /\ phase' = Following(phase)
        /\ transactions' = transactions + 1
        /\ moved' = (moved \/ batch # {})
        /\ pass' = ((pass \/ batch # {}) /\ phase # "drop")
        /\ cutoff' = cutoff /\ begun' = begun
    BY <1>1, <1>4
  <2>2. phase' \in Tasks
    BY <1>2, <2>1 DEF Following, Tasks
  <2>3. Selected'
    <3>1. ASSUME NEW w \in begun
          PROVE  due'[w] # "young" /\ (due'[w] \in Tasks => w \in cutoff)
      <4>1. CASE w \in batch
        BY <1>1, <4>1 DEF Pieces, Results
      <4>2. CASE w \notin batch
        BY <1>1, <4>2 DEF Inv, Selected
      <4> QED BY <4>1, <4>2
    <3> QED BY <2>1, <3>1 DEF Selected
  <2>4. EmptyPass'
    <3> SUFFICES ASSUME ~pass', NEW w \in begun PROVE due'[w] \notin Before(phase')
      BY <2>1 DEF EmptyPass
    <3>1. CASE phase = "drop"
      BY <2>1, <3>1 DEF Following, Before
    <3>2. CASE phase # "drop"
      <4>1. ~pass /\ batch = {}
        BY <2>1, <3>2
      <4>2. Pieces(phase) = {}
        BY <1>1, <4>1, EmptyBatch
      <4>3. due'[w] = due[w]
        BY <1>1, <4>1 DEF Inv
      <4>4. due[w] \notin Before(phase) \union {phase}
        BY <1>2, <4>1, <4>2 DEF Inv, EmptyPass, Selected, Pieces
      <4>5. Before(phase') = Before(phase) \union {phase}
        BY <1>2, <2>1, <3>2 DEF Before, Following, Tasks
      <4> QED BY <4>3, <4>4, <4>5
    <3> QED BY <3>1, <3>2
  <2>5. FirstPass'
    <3> SUFFICES ASSUME ~moved' PROVE ~pass' /\ transactions' = Place(phase')
      BY DEF FirstPass
    <3>1. ~moved /\ batch = {}
      BY <2>1
    <3>2. ~pass /\ transactions = Place(phase)
      BY <1>2, <3>1 DEF Inv, FirstPass
    <3>3. phase # "drop"
      BY <1>4, <3>1, <3>2 DEF CycleEnds
    <3> QED BY <1>2, <2>1, <3>1, <3>2, <3>3 DEF Place, Following, Tasks
  <2>6. /\ begun' \subseteq Work /\ cutoff' \subseteq Work /\ transactions' \in Nat
        /\ moved' \in BOOLEAN /\ pass' \in BOOLEAN /\ DOMAIN due' = Work
    BY <1>1, <2>1 DEF Inv
  <2> QED BY <1>0, <2>2, <2>3, <2>4, <2>5, <2>6 DEF Inv, Outside
<1> QED BY <1>3, <1>4

LEMMA InvStep == ASSUME Inv, [Next]_vars PROVE Inv'
<1> USE DEF Inv, Selected, EmptyPass, FirstPass, Outside, Noted, stop
<1>1. CASE Sleep
  BY <1>1 DEF Sleep, run, Tasks
<1>2. CASE Wake
  BY <1>2 DEF Wake, run, Tasks, AllDue
<1>3. CASE Start
  BY <1>3 DEF Start, run, Tasks, Before, Place
<1>4. CASE Notified \/ Fail \/ Abort
  <2>1. CycleGone /\ UNCHANGED due /\ phase' \notin Tasks /\ (notified' => requested')
    BY <1>4 DEF Notified, Fail, Abort, RetriesLater, Tasks
  <2> QED BY <2>1 DEF CycleGone
<1>5. CASE Transaction
  BY <1>5, TransactionInv
<1>6. CASE Shutdown
  BY <1>6 DEF Shutdown, run
<1>7. ASSUME NEW w \in Work, Age(w) \/ ArriveLate(w) PROVE Inv'
  <2>1. /\ UNCHANGED <<phase, transactions, moved, pass, requested, notified>>
        /\ DOMAIN due' = Work
        /\ \A v \in Work \ {w} : due'[v] = due[v]
        /\ \A v \in Work \ {w} : v \in cutoff' <=> v \in cutoff
        /\ cutoff' \subseteq Work /\ begun' \subseteq begun
    BY <1>7 DEF Age, ArriveLate, run
  <2>2. w \notin begun' \/ (due'[w] = "merge" /\ due[w] = "young" /\ w \in cutoff')
    BY <1>7 DEF Age, ArriveLate
  <2> QED BY <2>1, <2>2
<1>8. CASE UNCHANGED vars
  BY <1>8 DEF vars, run
<1> QED BY <1>1, <1>2, <1>3, <1>4, <1>5, <1>6, <1>7, <1>8 DEF Next, Task

LEMMA Invariance == Spec => []Inv
BY InvInit, InvStep, PTL DEF Spec

\* The task sleeps for a whole interval only if all that was due when the run
\* began is done.
THEOREM PausesAreEarned == Spec => PauseMeansDone
<1>1. ASSUME Inv, [Next]_vars, phase' = "top", phase \in Tasks, delay' = "interval"
      PROVE  \A w \in begun : due'[w] \notin Tasks
  <2>1. CASE Transaction
    BY <1>1, <2>1, PausesWhenDone
  <2>2. CASE Fail
    BY <1>1, <2>2 DEF Fail
  <2>3. CASE Notified
    BY <1>1, <2>3 DEF Notified, Inv, Noted
  <2> QED BY <1>1, <2>1, <2>2, <2>3 DEF Next, Task, Sleep, Wake, Start, Shutdown, Abort, Age, ArriveLate,
                                 vars, Tasks
<1>2. Inv /\ [Next]_vars =>
        [phase' = "top" /\ phase \in Tasks /\ delay' = "interval" =>
           \A w \in begun : due'[w] \notin Tasks]_vars
  BY <1>1
<1> QED BY <1>2, Invariance, PTL DEF Spec, PauseMeansDone
=============================================================================
