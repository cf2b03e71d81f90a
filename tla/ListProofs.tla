----------------------------- MODULE ListProofs -----------------------------
(***************************************************************************)
(* Proofs about the lists of the web interface: how many are made at once  *)
(* (ListAdmission) and how they are read page by page (Pages).             *)
(*                                                                         *)
(* ListAdmission, for any number of calls, owners and permits: the         *)
(* inductive invariant says who refers to a semaphore, that the map agrees *)
(* with every reference, that a permit of an owner has one holder, and     *)
(* that the global permits are conserved.                                  *)
(*                                                                         *)
(* Pages, for any rows, sort keys and page size: a page is shown to hold   *)
(* the rows nearest to its cursor (PageIsNearest), by the place of each    *)
(* row in the order (OrderedRows).  The inductive invariant adds to the    *)
(* properties that both cursors lie within what the walk has been shown    *)
(* (Within): a page that begins at one leaves no gap.                      *)
(***************************************************************************)
EXTENDS ListAdmission, Pages, FiniteSetTheorems, SequenceTheorems, TLAPS

References == \A c \in Calls : calls[c].sem # Nil <=> c \in Referring
MapAgrees == \A c \in Referring : owners[calls[c].owner] = calls[c].sem
OneHolder ==
  /\ \A c \in Holding : calls[c].sem \in taken
  /\ \A c, d \in Holding : calls[c].sem = calls[d].sem => c = d
WorkerHeld == \A c \in sql : At(c, {"work"})
Conserved == free + Cardinality(Counted) = Permits

Safe == TypeOK /\ References /\ MapAgrees /\ OneHolder /\ WorkerHeld
Inv == Safe /\ Conserved
USE AdmissionAssumption

-----------------------------------------------------------------------------
(* The references, the map and the holders.                                *)

LEMMA InitSafe == Init => Safe
BY DEF Init, Safe, TypeOK, References, MapAgrees, OneHolder, WorkerHeld, Holding, Referring, At, Call, Stages

\* The lookup: retain drops no entry that a call refers to, so a semaphore that
\* is new replaces none.
LEMMA ReferSafe ==
  ASSUME Safe, NEW c \in Calls, Refer(c)
  PROVE  Safe'
<1> DEFINE o == calls[c].owner
<1> USE DEF At, Stages
<1>1. o \in Owners
  BY DEF Safe, TypeOK, Call
<1>2. PICK s \in Sems :
        /\ IF Kept[o] # Nil THEN s = Kept[o]
           ELSE Strong(s) = {} /\ \A p \in Owners : Kept[p] # s
        /\ owners' = [Kept EXCEPT ![o] = s]
        /\ taken' = IF Kept[o] # Nil THEN taken ELSE taken \ {s}
        /\ calls' = [calls EXCEPT ![c].stage = "referring", ![c].sem = s]
  BY DEF Refer
<1>3. sql' = sql /\ free' = free /\ calls[c].stage = "counted"
  BY DEF Refer
<1>4. Kept \in [Owners -> Sems \union {Nil}]
  BY DEF Kept, Safe, TypeOK
<1>5. \A d \in Referring : Kept[calls[d].owner] = calls[d].sem /\ calls[d].sem # Nil
  BY DEF Safe, TypeOK, Call, References, MapAgrees, Kept, InUse, Strong, Referring, Holding
<1>6. TypeOK'
  <2>1. calls' \in [Calls -> Call]
    <3>1. calls \in [Calls -> Call]
      BY DEF Safe, TypeOK
    <3>2. [calls[c] EXCEPT !.stage = "referring", !.sem = s] \in Call
      BY <3>1 DEF Call
    <3> QED BY <1>2, <3>1, <3>2
  <2>2. owners' \in [Owners -> Sems \union {Nil}] /\ taken' \subseteq Sems
    BY <1>1, <1>2, <1>4 DEF Safe, TypeOK
  <2> QED BY <1>3, <2>1, <2>2 DEF Safe, TypeOK
<1>7. \A d \in Calls \ {c} : calls'[d] = calls[d]
  BY <1>2 DEF Safe, TypeOK
<1>8. calls'[c].stage = "referring" /\ calls'[c].sem = s /\ calls'[c].owner = o
  BY <1>2 DEF Safe, TypeOK, Call
<1>9. References'
  <2> SUFFICES ASSUME NEW d \in Calls PROVE calls'[d].sem # Nil <=> d \in Referring'
    BY DEF References
  <2>1. CASE d = c
    BY <2>1, <1>8 DEF Referring
  <2>2. CASE d # c
    <3>1. calls'[d] = calls[d]
      BY <2>2, <1>7
    <3>2. d \in Referring' <=> d \in Referring
      BY <3>1 DEF Referring, Holding
    <3>3. QED
      BY <3>1, <3>2 DEF Safe, References
  <2>3. QED
    BY <2>1, <2>2
<1>10. MapAgrees'
  <2> SUFFICES ASSUME NEW d \in Referring' PROVE owners'[calls'[d].owner] = calls'[d].sem
    BY DEF MapAgrees
  <2>1. CASE d = c
    BY <2>1, <1>1, <1>2, <1>4, <1>8
  <2>2. CASE d # c
    <3>1. d \in Referring /\ calls'[d] = calls[d] /\ calls[d].owner \in Owners
      BY <2>2, <1>7 DEF Referring, Holding, Safe, TypeOK, Call
    <3>2. Kept[calls[d].owner] = calls[d].sem /\ calls[d].sem # Nil
      BY <3>1, <1>5
    <3>3. QED
      BY <3>1, <3>2, <1>1, <1>2, <1>4
  <2>3. QED
    BY <2>1, <2>2
<1>11. OneHolder'
  <2>1. Holding' = Holding /\ \A d \in Holding : d # c
    BY <1>3, <1>7, <1>8 DEF Holding
  <2>2. \A d \in Holding : calls'[d].sem = calls[d].sem /\ calls[d].sem \in taken
    BY <2>1, <1>7 DEF Safe, OneHolder, Holding
  <2>3. \A d \in Holding : Strong(s) = {} => calls[d].sem # s
    BY DEF Strong, Holding
  <2>4. taken' = taken \/ (Strong(s) = {} /\ taken' = taken \ {s})
    BY <1>2
  <2>5. \A d \in Holding : calls[d].sem \in taken'
    BY <2>2, <2>3, <2>4
  <2>6. QED
    BY <2>1, <2>2, <2>5 DEF Safe, OneHolder
<1>12. WorkerHeld'
  <2> SUFFICES ASSUME NEW d \in sql PROVE calls'[d].stage = "work"
    BY <1>3 DEF WorkerHeld
  <2>1. calls[d].stage = "work" /\ d \in Calls
    BY DEF Safe, TypeOK, WorkerHeld
  <2>2. QED
    BY <2>1, <1>3, <1>7
<1>13. QED
  BY <1>6, <1>9, <1>10, <1>11, <1>12 DEF Safe

\* A step of one call that keeps the map, and takes or returns no semaphore of
\* another, keeps the invariant if it does so for that call.
LEMMA StepOfOne ==
  ASSUME Safe, NEW c \in Calls, TypeOK', owners' = owners,
         \A d \in Calls \ {c} : calls'[d] = calls[d],
         calls'[c].sem # Nil <=> c \in Referring',
         c \in Referring' =>
           c \in Referring /\ calls'[c].owner = calls[c].owner /\ calls'[c].sem = calls[c].sem,
         \A d \in Holding : d # c => calls[d].sem \in taken',
         c \in Holding' =>
           calls[c].sem \in taken' /\ (c \in Holding \/ calls[c].sem \notin taken),
         \A d \in sql' : d \in sql \/ d = c,
         c \in sql' => calls'[c].stage = "work"
  PROVE  Safe'
<1>1. \A d \in Calls \ {c} : d \in Referring' <=> d \in Referring
  BY DEF Referring, Holding, At
<1>2. \A d \in Calls \ {c} : d \in Holding' <=> d \in Holding
  BY DEF Holding, At
<1>3. References'
  BY <1>1 DEF Safe, References
<1>4. MapAgrees'
  <2> SUFFICES ASSUME NEW d \in Referring' PROVE owners[calls'[d].owner] = calls'[d].sem
    BY DEF MapAgrees
  <2>1. d \in Calls /\ d \in Referring /\ calls'[d].owner = calls[d].owner
        /\ calls'[d].sem = calls[d].sem
    BY <1>1 DEF Referring, Holding
  <2>2. QED
    BY <2>1 DEF Safe, MapAgrees
<1>5. OneHolder'
  <2>1. \A d \in Holding' : d \in Calls /\ calls'[d].sem = calls[d].sem
    BY DEF Holding, Referring
  <2>2. \A d \in Holding' : d # c => d \in Holding
    BY <1>2, <2>1
  <2>3. QED
    BY <2>1, <2>2 DEF Safe, OneHolder
<1>6. WorkerHeld'
  <2> SUFFICES ASSUME NEW d \in sql' PROVE calls'[d].stage = "work"
    BY DEF WorkerHeld, At
  <2>1. CASE d # c
    BY <2>1 DEF Safe, TypeOK, WorkerHeld, At
  <2>2. QED
    BY <2>1
<1>7. QED
  BY <1>3, <1>4, <1>5, <1>6 DEF Safe

LEMMA TakeGlobalSafe ==
  ASSUME Safe, NEW c \in Calls, NEW o \in Owners, TakeGlobal(c, o)
  PROVE  Safe'
<1>1. TypeOK'
  <2>1. calls[c] \in Call
    BY DEF Safe, TypeOK
  <2>2. calls' \in [Calls -> Call]
    BY <2>1 DEF Safe, TypeOK, TakeGlobal, Call, Stages
  <2>3. free' \in Nat /\ taken' \subseteq Sems /\ owners' \in [Owners -> Sems \union {Nil}]
        /\ sql' \subseteq Calls
    BY <2>1 DEF Safe, TypeOK, TakeGlobal, OneTaken, Call, At, References, Referring
  <2>4. QED
    BY <2>2, <2>3 DEF TypeOK
<1>2. /\ owners' = owners
      /\ \A d \in Calls \ {c} : calls'[d] = calls[d]
  BY DEF Safe, TypeOK, TakeGlobal
<1>3. calls'[c].sem # Nil <=> c \in Referring'
  BY DEF Safe, TypeOK, References, TakeGlobal, Referring, Holding, At, Call
<1>4. c \in Referring' =>
        c \in Referring /\ calls'[c].owner = calls[c].owner /\ calls'[c].sem = calls[c].sem
  BY DEF Safe, TypeOK, References, TakeGlobal, Referring, Holding, At, Call
<1>5. \A d \in Holding : d # c => calls[d].sem \in taken'
  BY DEF Safe, TypeOK, OneHolder, TakeGlobal, Holding, At
<1>6. c \in Holding' => calls[c].sem \in taken' /\ (c \in Holding \/ calls[c].sem \notin taken)
  BY DEF Safe, TypeOK, OneHolder, TakeGlobal, Holding, At, Call
<1>7. /\ \A d \in sql' : d \in sql \/ d = c
      /\ c \in sql' => calls'[c].stage = "work"
  BY DEF Safe, TypeOK, WorkerHeld, TakeGlobal, At, Call
<1>8. QED
  BY <1>1, <1>2, <1>3, <1>4, <1>5, <1>6, <1>7, StepOfOne

LEMMA AdmitSafe ==
  ASSUME Safe, NEW c \in Calls, Admit(c)
  PROVE  Safe'
<1>1. TypeOK'
  <2>1. calls[c] \in Call
    BY DEF Safe, TypeOK
  <2>2. calls' \in [Calls -> Call]
    BY <2>1 DEF Safe, TypeOK, Admit, Call, Stages
  <2>3. free' \in Nat /\ taken' \subseteq Sems /\ owners' \in [Owners -> Sems \union {Nil}]
        /\ sql' \subseteq Calls
    BY <2>1 DEF Safe, TypeOK, Admit, Call, At, References, Referring
  <2>4. QED
    BY <2>2, <2>3 DEF TypeOK
<1>2. /\ owners' = owners
      /\ \A d \in Calls \ {c} : calls'[d] = calls[d]
  BY DEF Safe, TypeOK, Admit
<1>3. calls'[c].sem # Nil <=> c \in Referring'
  BY DEF Safe, TypeOK, References, Admit, Referring, Holding, At, Call
<1>4. c \in Referring' =>
        c \in Referring /\ calls'[c].owner = calls[c].owner /\ calls'[c].sem = calls[c].sem
  BY DEF Safe, TypeOK, References, Admit, Referring, Holding, At, Call
<1>5. \A d \in Holding : d # c => calls[d].sem \in taken'
  BY DEF Safe, TypeOK, OneHolder, Admit, Holding, At
<1>6. c \in Holding' => calls[c].sem \in taken' /\ (c \in Holding \/ calls[c].sem \notin taken)
  BY DEF Safe, TypeOK, OneHolder, Admit, Holding, At, Call
<1>7. /\ \A d \in sql' : d \in sql \/ d = c
      /\ c \in sql' => calls'[c].stage = "work"
  BY DEF Safe, TypeOK, WorkerHeld, Admit, At, Call
<1>8. QED
  BY <1>1, <1>2, <1>3, <1>4, <1>5, <1>6, <1>7, StepOfOne

LEMMA RefuseSafe ==
  ASSUME Safe, NEW c \in Calls, Refuse(c)
  PROVE  Safe'
<1>1. TypeOK'
  BY DEF Safe, TypeOK, Refuse, At, Call, Stages
<1>2. /\ owners' = owners
      /\ \A d \in Calls \ {c} : calls'[d] = calls[d]
  BY DEF Safe, TypeOK, Refuse
<1>3. calls'[c].sem # Nil <=> c \in Referring'
  BY DEF Safe, TypeOK, References, Refuse, Referring, Holding, At, Call
<1>4. c \in Referring' =>
        c \in Referring /\ calls'[c].owner = calls[c].owner /\ calls'[c].sem = calls[c].sem
  BY DEF Safe, TypeOK, References, Refuse, Referring, Holding, At, Call
<1>5. \A d \in Holding : d # c => calls[d].sem \in taken'
  BY DEF Safe, TypeOK, OneHolder, Refuse, Holding, At
<1>6. c \in Holding' => calls[c].sem \in taken' /\ (c \in Holding \/ calls[c].sem \notin taken)
  BY DEF Safe, TypeOK, OneHolder, Refuse, Holding, At, Call
<1>7. /\ \A d \in sql' : d \in sql \/ d = c
      /\ c \in sql' => calls'[c].stage = "work"
  BY DEF Safe, TypeOK, WorkerHeld, Refuse, At, Call
<1>8. QED
  BY <1>1, <1>2, <1>3, <1>4, <1>5, <1>6, <1>7, StepOfOne

LEMMA ReturnGlobalSafe ==
  ASSUME Safe, NEW c \in Calls, ReturnGlobal(c)
  PROVE  Safe'
<1>1. TypeOK'
  BY DEF Safe, TypeOK, ReturnGlobal, At, Call, Stages
<1>2. /\ owners' = owners
      /\ \A d \in Calls \ {c} : calls'[d] = calls[d]
  BY DEF Safe, TypeOK, ReturnGlobal
<1>3. calls'[c].sem # Nil <=> c \in Referring'
  BY DEF Safe, TypeOK, References, ReturnGlobal, Referring, Holding, At, Call
<1>4. c \in Referring' =>
        c \in Referring /\ calls'[c].owner = calls[c].owner /\ calls'[c].sem = calls[c].sem
  BY DEF Safe, TypeOK, References, ReturnGlobal, Referring, Holding, At, Call
<1>5. \A d \in Holding : d # c => calls[d].sem \in taken'
  BY DEF Safe, TypeOK, OneHolder, ReturnGlobal, Holding, At
<1>6. c \in Holding' => calls[c].sem \in taken' /\ (c \in Holding \/ calls[c].sem \notin taken)
  BY DEF Safe, TypeOK, OneHolder, ReturnGlobal, Holding, At, Call
<1>7. /\ \A d \in sql' : d \in sql \/ d = c
      /\ c \in sql' => calls'[c].stage = "work"
  BY DEF Safe, TypeOK, WorkerHeld, ReturnGlobal, At, Call
<1>8. QED
  BY <1>1, <1>2, <1>3, <1>4, <1>5, <1>6, <1>7, StepOfOne

LEMMA LeaveSafe ==
  ASSUME Safe, NEW c \in Calls, Leave(c)
  PROVE  Safe'
<1>1. TypeOK'
  BY DEF Safe, TypeOK, Leave, At, Call, Stages
<1>2. /\ owners' = owners
      /\ \A d \in Calls \ {c} : calls'[d] = calls[d]
  BY DEF Safe, TypeOK, Leave
<1>3. calls'[c].sem # Nil <=> c \in Referring'
  BY DEF Safe, TypeOK, References, Leave, Referring, Holding, At, Call
<1>4. c \in Referring' =>
        c \in Referring /\ calls'[c].owner = calls[c].owner /\ calls'[c].sem = calls[c].sem
  BY DEF Safe, TypeOK, References, Leave, Referring, Holding, At, Call
<1>5. \A d \in Holding : d # c => calls[d].sem \in taken'
  BY DEF Safe, TypeOK, OneHolder, Leave, Holding, At
<1>6. c \in Holding' => calls[c].sem \in taken' /\ (c \in Holding \/ calls[c].sem \notin taken)
  BY DEF Safe, TypeOK, OneHolder, Leave, Holding, At, Call
<1>7. /\ \A d \in sql' : d \in sql \/ d = c
      /\ c \in sql' => calls'[c].stage = "work"
  BY DEF Safe, TypeOK, WorkerHeld, Leave, At, Call
<1>8. QED
  BY <1>1, <1>2, <1>3, <1>4, <1>5, <1>6, <1>7, StepOfOne

LEMMA CloseWorkerSafe ==
  ASSUME Safe, NEW c \in Calls, CloseWorker(c)
  PROVE  Safe'
<1>1. TypeOK'
  BY DEF Safe, TypeOK, CloseWorker, At, Call, Stages
<1>2. /\ owners' = owners
      /\ \A d \in Calls \ {c} : calls'[d] = calls[d]
  BY DEF Safe, TypeOK, CloseWorker
<1>3. calls'[c].sem # Nil <=> c \in Referring'
  BY DEF Safe, TypeOK, References, CloseWorker, Referring, Holding, At, Call
<1>4. c \in Referring' =>
        c \in Referring /\ calls'[c].owner = calls[c].owner /\ calls'[c].sem = calls[c].sem
  BY DEF Safe, TypeOK, References, CloseWorker, Referring, Holding, At, Call
<1>5. \A d \in Holding : d # c => calls[d].sem \in taken'
  BY DEF Safe, TypeOK, OneHolder, CloseWorker, Holding, At
<1>6. c \in Holding' => calls[c].sem \in taken' /\ (c \in Holding \/ calls[c].sem \notin taken)
  BY DEF Safe, TypeOK, OneHolder, CloseWorker, Holding, At, Call
<1>7. /\ \A d \in sql' : d \in sql \/ d = c
      /\ c \in sql' => calls'[c].stage = "work"
  BY DEF Safe, TypeOK, WorkerHeld, CloseWorker, At, Call
<1>8. QED
  BY <1>1, <1>2, <1>3, <1>4, <1>5, <1>6, <1>7, StepOfOne

LEMMA EndTaskSafe ==
  ASSUME Safe, NEW c \in Calls, EndTask(c)
  PROVE  Safe'
<1>1. TypeOK'
  <2>1. calls[c] \in Call
    BY DEF Safe, TypeOK
  <2>2. calls' \in [Calls -> Call]
    <3>1. PICK next \in {"body", "dropping"} :
            calls' = [calls EXCEPT ![c].stage = next, ![c].awaited = FALSE]
      BY DEF EndTask
    <3>2. [[calls[c] EXCEPT !.stage = next] EXCEPT !.awaited = FALSE] \in Call
      BY <2>1 DEF Call, Stages
    <3>3. QED
      BY <3>1, <3>2 DEF Safe, TypeOK
  <2>3. free' \in Nat /\ taken' \subseteq Sems /\ owners' \in [Owners -> Sems \union {Nil}]
        /\ sql' \subseteq Calls
    BY <2>1 DEF Safe, TypeOK, EndTask, Call, At, References, Referring
  <2>4. QED
    BY <2>2, <2>3 DEF TypeOK
<1>2. /\ owners' = owners
      /\ \A d \in Calls \ {c} : calls'[d] = calls[d]
  BY DEF Safe, TypeOK, EndTask
<1>3. calls'[c].sem # Nil <=> c \in Referring'
  BY DEF Safe, TypeOK, References, EndTask, Referring, Holding, At, Call
<1>4. c \in Referring' =>
        c \in Referring /\ calls'[c].owner = calls[c].owner /\ calls'[c].sem = calls[c].sem
  BY DEF Safe, TypeOK, References, EndTask, Referring, Holding, At, Call
<1>5. \A d \in Holding : d # c => calls[d].sem \in taken'
  BY DEF Safe, TypeOK, OneHolder, EndTask, Holding, At
<1>6. c \in Holding' => calls[c].sem \in taken' /\ (c \in Holding \/ calls[c].sem \notin taken)
  BY DEF Safe, TypeOK, OneHolder, EndTask, Holding, At, Call
<1>7. /\ \A d \in sql' : d \in sql \/ d = c
      /\ c \in sql' => calls'[c].stage = "work"
  BY DEF Safe, TypeOK, WorkerHeld, EndTask, At, Call
<1>8. QED
  BY <1>1, <1>2, <1>3, <1>4, <1>5, <1>6, <1>7, StepOfOne

LEMMA EndBodySafe ==
  ASSUME Safe, NEW c \in Calls, EndBody(c)
  PROVE  Safe'
<1>1. TypeOK'
  BY DEF Safe, TypeOK, EndBody, At, Call, Stages
<1>2. /\ owners' = owners
      /\ \A d \in Calls \ {c} : calls'[d] = calls[d]
  BY DEF Safe, TypeOK, EndBody
<1>3. calls'[c].sem # Nil <=> c \in Referring'
  BY DEF Safe, TypeOK, References, EndBody, Referring, Holding, At, Call
<1>4. c \in Referring' =>
        c \in Referring /\ calls'[c].owner = calls[c].owner /\ calls'[c].sem = calls[c].sem
  BY DEF Safe, TypeOK, References, EndBody, Referring, Holding, At, Call
<1>5. \A d \in Holding : d # c => calls[d].sem \in taken'
  BY DEF Safe, TypeOK, OneHolder, EndBody, Holding, At
<1>6. c \in Holding' => calls[c].sem \in taken' /\ (c \in Holding \/ calls[c].sem \notin taken)
  BY DEF Safe, TypeOK, OneHolder, EndBody, Holding, At, Call
<1>7. /\ \A d \in sql' : d \in sql \/ d = c
      /\ c \in sql' => calls'[c].stage = "work"
  BY DEF Safe, TypeOK, WorkerHeld, EndBody, At, Call
<1>8. QED
  BY <1>1, <1>2, <1>3, <1>4, <1>5, <1>6, <1>7, StepOfOne

LEMMA DropGlobalSafe ==
  ASSUME Safe, NEW c \in Calls, DropGlobal(c)
  PROVE  Safe'
<1>1. TypeOK'
  BY DEF Safe, TypeOK, DropGlobal, At, Call, Stages
<1>2. /\ owners' = owners
      /\ \A d \in Calls \ {c} : calls'[d] = calls[d]
  BY DEF Safe, TypeOK, DropGlobal
<1>3. calls'[c].sem # Nil <=> c \in Referring'
  BY DEF Safe, TypeOK, References, DropGlobal, Referring, Holding, At, Call
<1>4. c \in Referring' =>
        c \in Referring /\ calls'[c].owner = calls[c].owner /\ calls'[c].sem = calls[c].sem
  BY DEF Safe, TypeOK, References, DropGlobal, Referring, Holding, At, Call
<1>5. \A d \in Holding : d # c => calls[d].sem \in taken'
  BY DEF Safe, TypeOK, OneHolder, DropGlobal, Holding, At
<1>6. c \in Holding' => calls[c].sem \in taken' /\ (c \in Holding \/ calls[c].sem \notin taken)
  BY DEF Safe, TypeOK, OneHolder, DropGlobal, Holding, At, Call
<1>7. /\ \A d \in sql' : d \in sql \/ d = c
      /\ c \in sql' => calls'[c].stage = "work"
  BY DEF Safe, TypeOK, WorkerHeld, DropGlobal, At, Call
<1>8. QED
  BY <1>1, <1>2, <1>3, <1>4, <1>5, <1>6, <1>7, StepOfOne

LEMMA DropOwnerSafe ==
  ASSUME Safe, NEW c \in Calls, DropOwner(c)
  PROVE  Safe'
<1>1. TypeOK'
  BY DEF Safe, TypeOK, DropOwner, At, Call, Stages
<1>2. /\ owners' = owners
      /\ \A d \in Calls \ {c} : calls'[d] = calls[d]
  BY DEF Safe, TypeOK, DropOwner
<1>3. calls'[c].sem # Nil <=> c \in Referring'
  BY DEF Safe, TypeOK, References, DropOwner, Referring, Holding, At, Call
<1>4. c \in Referring' =>
        c \in Referring /\ calls'[c].owner = calls[c].owner /\ calls'[c].sem = calls[c].sem
  BY DEF Safe, TypeOK, References, DropOwner, Referring, Holding, At, Call
<1>5. \A d \in Holding : d # c => calls[d].sem \in taken'
  BY DEF Safe, TypeOK, OneHolder, DropOwner, Holding, At
<1>6. c \in Holding' => calls[c].sem \in taken' /\ (c \in Holding \/ calls[c].sem \notin taken)
  BY DEF Safe, TypeOK, OneHolder, DropOwner, Holding, At, Call
<1>7. /\ \A d \in sql' : d \in sql \/ d = c
      /\ c \in sql' => calls'[c].stage = "work"
  BY DEF Safe, TypeOK, WorkerHeld, DropOwner, At, Call
<1>8. QED
  BY <1>1, <1>2, <1>3, <1>4, <1>5, <1>6, <1>7, StepOfOne

LEMMA DropReferenceSafe ==
  ASSUME Safe, NEW c \in Calls, DropReference(c)
  PROVE  Safe'
<1>1. TypeOK'
  <2>1. calls' \in [Calls -> Call]
    <3>1. calls \in [Calls -> Call]
      BY DEF Safe, TypeOK
    <3>2. [calls[c] EXCEPT !.stage = "idle", !.sem = Nil] \in Call
      BY <3>1 DEF Call, Stages
    <3> QED BY <3>1, <3>2 DEF DropReference
  <2> QED BY <2>1 DEF Safe, TypeOK, DropReference
<1>2. /\ owners' = owners
      /\ \A d \in Calls \ {c} : calls'[d] = calls[d]
  BY DEF Safe, TypeOK, DropReference
<1>3. calls'[c].sem # Nil <=> c \in Referring'
  BY DEF Safe, TypeOK, References, DropReference, Referring, Holding, At, Call
<1>4. c \in Referring' =>
        c \in Referring /\ calls'[c].owner = calls[c].owner /\ calls'[c].sem = calls[c].sem
  BY DEF Safe, TypeOK, References, DropReference, Referring, Holding, At, Call
<1>5. \A d \in Holding : d # c => calls[d].sem \in taken'
  BY DEF Safe, TypeOK, OneHolder, DropReference, Holding, At
<1>6. c \in Holding' => calls[c].sem \in taken' /\ (c \in Holding \/ calls[c].sem \notin taken)
  BY DEF Safe, TypeOK, OneHolder, DropReference, Holding, At, Call
<1>7. /\ \A d \in sql' : d \in sql \/ d = c
      /\ c \in sql' => calls'[c].stage = "work"
  BY DEF Safe, TypeOK, WorkerHeld, DropReference, At, Call
<1>8. QED
  BY <1>1, <1>2, <1>3, <1>4, <1>5, <1>6, <1>7, StepOfOne

LEMMA NextSafe == Safe /\ [Next]_vars => Safe'
<1> SUFFICES ASSUME Safe, [Next]_vars PROVE Safe'
  OBVIOUS
<1>1. CASE UNCHANGED vars
  BY <1>1 DEF vars, Safe, TypeOK, References, MapAgrees, OneHolder, WorkerHeld, Holding, Referring, At, Call, Stages
<1>2. CASE Next
  BY <1>2, ReferSafe, TakeGlobalSafe, AdmitSafe, RefuseSafe, ReturnGlobalSafe, LeaveSafe,
     CloseWorkerSafe, EndTaskSafe, EndBodySafe, DropGlobalSafe, DropOwnerSafe, DropReferenceSafe
  DEF Next
<1>3. QED
  BY <1>1, <1>2

LEMMA AlwaysSafe == Spec => []Safe
BY InitSafe, NextSafe, PTL DEF Spec

\* However calls, departures and drops interleave, a resource is listed by one
\* call at a time (Admission::acquire with its map of weak references).
THEOREM Exclusive == Spec => []OneListPerOwner
<1>1. Safe => OneListPerOwner
  BY DEF Safe, TypeOK, References, MapAgrees, OneHolder, WorkerHeld, Holding, Referring, At, Call, Stages, OneListPerOwner, Listing
<1>2. QED
  BY <1>1, AlwaysSafe, PTL

-----------------------------------------------------------------------------
(* The global permits.                                                     *)

LEMMA CountedFinite == IsFiniteSet(Counted) /\ IsFiniteSet(Counted')
BY FS_Subset DEF Counted

LEMMA InitConserved == Init => Conserved
<1> SUFFICES ASSUME Init PROVE Conserved
  OBVIOUS
<1>1. Counted = {}
  BY DEF Init, Counted, At, Call, Stages
<1>2. QED
  BY <1>1, FS_EmptySet DEF Init, Conserved

LEMMA NextConserved == Inv /\ [Next]_vars => Conserved'
<1> SUFFICES ASSUME Inv, [Next]_vars PROVE Conserved'
  OBVIOUS
<1>0. free \in Nat /\ Cardinality(Counted) \in Nat
  BY CountedFinite, FS_CardinalityType DEF Inv, Safe, TypeOK
<1>1. ASSUME NEW c \in Calls, NEW o \in Owners, TakeGlobal(c, o) PROVE Conserved'
  <2>1. Counted' = Counted \union {c} /\ c \notin Counted
    BY <1>1 DEF TakeGlobal, Counted, At, Inv, Safe, TypeOK, Call, Stages
  <2>2. Cardinality(Counted') = Cardinality(Counted) + 1
    BY <2>1, CountedFinite, FS_AddElement
  <2>3. QED
    BY <2>2, <1>0, <1>1 DEF TakeGlobal, OneTaken, Inv, Conserved
<1>2. ASSUME NEW c \in Calls, ReturnGlobal(c) \/ DropGlobal(c) PROVE Conserved'
  <2>1. Counted' = Counted \ {c} /\ c \in Counted
    BY <1>2 DEF ReturnGlobal, DropGlobal, Counted, At, Inv, Safe, TypeOK, Call, Stages
  <2>2. Cardinality(Counted') = Cardinality(Counted) - 1
    BY <2>1, CountedFinite, FS_RemoveElement
  <2>3. free' = free + 1
    BY <1>2 DEF ReturnGlobal, DropGlobal
  <2>4. QED
    BY <2>2, <2>3, <1>0 DEF Inv, Conserved
<1>3. ASSUME NEW c \in Calls,
             \/ Refer(c) \/ Admit(c) \/ Refuse(c) \/ Leave(c) \/ CloseWorker(c) \/ EndTask(c)
             \/ EndBody(c) \/ DropOwner(c) \/ DropReference(c)
      PROVE  Conserved'
  <2>1. Counted' = Counted /\ free' = free
    BY <1>3 DEF Refer, Admit, Refuse, Leave, CloseWorker, EndTask, EndBody, DropOwner,
                DropReference, Counted, At, Inv, Safe, TypeOK, Call, Stages
  <2>2. QED
    BY <2>1 DEF Inv, Conserved
<1>4. CASE UNCHANGED vars
  BY <1>4 DEF vars, Inv, Conserved, Counted, At
<1>5. QED
  BY <1>1, <1>2, <1>3, <1>4 DEF Next

THEOREM Conservation == Spec => []Inv
<1>1. Init => Inv
  BY InitSafe, InitConserved DEF Inv
<1>2. Inv /\ [Next]_vars => Inv'
  BY NextSafe, NextConserved DEF Inv
<1>3. QED
  BY <1>1, <1>2, PTL DEF Spec

\* No more SQL workers and bodies than permits, for any number of permits, also
\* when callers leave (response keeps both permits with the detached task).
THEOREM Bounded == Spec => []ListsBounded
<1>1. Inv => ListsBounded
  <2> SUFFICES ASSUME Inv PROVE ListsBounded
    OBVIOUS
  <2>1. Listing \subseteq Counted
    BY DEF Listing, Counted, Inv, Safe, TypeOK, WorkerHeld, At
  <2>2. Cardinality(Listing) <= Cardinality(Counted) /\ Cardinality(Listing) \in Nat
    BY <2>1, CountedFinite, FS_Subset, FS_CardinalityType
  <2>3. Cardinality(Counted) \in Nat /\ free \in Nat
    BY CountedFinite, FS_CardinalityType DEF Inv, Safe, TypeOK
  <2>4. QED
    BY <2>2, <2>3 DEF ListsBounded, Inv, Conserved
<1>2. QED
  BY <1>1, Conservation, PTL

-----------------------------------------------------------------------------
(* Pages: the order of the rows.                                           *)

HIDE AdmissionAssumption
USE PageAssumption

Places == Nat \X Nat
Table == table \in [Rows -> Sorts \union {None}]

LEMMA BeforeIsOrder ==
  ASSUME NEW p \in Places, NEW q \in Places, NEW r \in Places
  PROVE  /\ ~Before(p, p)
         /\ Before(p, q) /\ Before(q, r) => Before(p, r)
         /\ p # q => Before(p, q) \/ Before(q, p)
         /\ Before(p, q) => ~Before(q, p)
BY DEF Before, Places

LEMMA PlaceOfRow ==
  ASSUME Table, NEW r \in Stored
  PROVE  r \in Rows /\ Position(r) \in Places /\ \A s \in Stored : Position(s) = Position(r) => s = r
BY DEF Table, Stored, Position, Places

LEMMA AheadIsOrder ==
  ASSUME Table, NEW r \in Stored, NEW s \in Stored, NEW t \in Stored, NEW newer \in BOOLEAN
  PROVE  /\ ~Ahead(r, r, newer)
         /\ Ahead(r, s, newer) /\ Ahead(s, t, newer) => Ahead(r, t, newer)
         /\ r # s => Ahead(r, s, newer) \/ Ahead(s, r, newer)
<1>1. Position(r) \in Places /\ Position(s) \in Places /\ Position(t) \in Places
  BY PlaceOfRow
<1>2. r # s => Position(r) # Position(s)
  BY PlaceOfRow
<1>3. newer = TRUE \/ newer = FALSE
  OBVIOUS
<1> QED BY <1>1, <1>2, <1>3, BeforeIsOrder DEF Ahead

\* The rows in their order: each of them once, ahead of those that follow.
LEMMA OrderedRows ==
  ASSUME Table, NEW side \in SUBSET Stored, NEW newer \in BOOLEAN
  PROVE  LET all == Ordered(side, newer)
             n == Cardinality(side) IN
         /\ n \in Nat /\ all \in [1..n -> side]
         /\ \A r \in side : \E i \in 1..n : all[i] = r
         /\ \A i, j \in 1..n : i < j => Ahead(all[i], all[j], newer)
<1> DEFINE n == Cardinality(side)
           ahead(r) == {s \in side : Ahead(s, r, newer)}
           rank == [r \in side |-> Cardinality(ahead(r)) + 1]
           all == Ordered(side, newer)
<1>1. IsFiniteSet(side) /\ n \in Nat
  <2>1. side \in SUBSET Rows
    BY DEF Stored
  <2> QED BY <2>1, FS_Subset, FS_CardinalityType
<1>2. ASSUME NEW r \in side
      PROVE  IsFiniteSet(ahead(r)) /\ Cardinality(ahead(r)) \in 0..(n - 1)
  <2>1. ahead(r) \in SUBSET (side \ {r})
    BY AheadIsOrder
  <2>2. IsFiniteSet(side \ {r}) /\ Cardinality(side \ {r}) = n - 1
    BY <1>1, FS_RemoveElement
  <2>3. IsFiniteSet(ahead(r)) /\ Cardinality(ahead(r)) <= n - 1
    BY <2>1, <2>2, FS_Subset
  <2>4. Cardinality(ahead(r)) \in Nat
    BY <2>3, FS_CardinalityType
  <2> QED BY <1>1, <2>3, <2>4
<1>3. ASSUME NEW r \in side, NEW s \in side, Ahead(r, s, newer)
      PROVE  rank[r] < rank[s]
  <2>1. ahead(r) \in SUBSET ahead(s) /\ r \in ahead(s) /\ r \notin ahead(r)
    BY <1>3, AheadIsOrder
  <2>2. ahead(r) # ahead(s)
    BY <2>1
  <2>3. Cardinality(ahead(r)) <= Cardinality(ahead(s)) /\ Cardinality(ahead(r)) # Cardinality(ahead(s))
    BY <1>2, <2>1, <2>2, FS_Subset
  <2> DEFINE a == Cardinality(ahead(r))
             b == Cardinality(ahead(s))
  <2>4. a \in Int /\ b \in Int /\ a <= b /\ a # b
    <3>1. a \in 0..(n - 1) /\ b \in 0..(n - 1)
      BY <1>2
    <3> HIDE DEF n
    <3>2. a \in Int /\ b \in Int
      BY <3>1
    <3> QED BY <2>3, <3>2
  <2>5. rank[r] = a + 1 /\ rank[s] = b + 1
    OBVIOUS
  <2> HIDE DEF a, b, rank
  <2> QED BY <2>4, <2>5
<1>4. rank \in [side -> 1..n]
  <2> SUFFICES ASSUME NEW r \in side PROVE Cardinality(ahead(r)) + 1 \in 1..n
    OBVIOUS
  <2>1. Cardinality(ahead(r)) \in 0..(n - 1)
    BY <1>2
  <2> HIDE DEF n, ahead
  <2> QED BY <1>1, <2>1
<1>5. rank \in Injection(side, 1..n)
  <2>1. ASSUME NEW r \in side, NEW s \in side, r # s PROVE rank[r] # rank[s]
    <3>1. Ahead(r, s, newer) \/ Ahead(s, r, newer)
      BY <2>1, AheadIsOrder
    <3>2. rank[r] \in Int /\ rank[s] \in Int
      BY <1>4
    <3>3. rank[r] < rank[s] \/ rank[s] < rank[r]
      BY <1>3, <3>1
    <3> HIDE DEF rank
    <3> QED BY <3>2, <3>3
  <2> QED BY <1>4, <2>1 DEF Injection, IsInjective
<1>6. rank \in Surjection(side, 1..n)
  <2>1. IsFiniteSet(1..n) /\ Cardinality(1..n) = n
    BY <1>1, FS_Interval
  <2> QED BY <1>5, <2>1, FS_Injection
<1>7. ASSUME NEW i \in 1..n PROVE all[i] \in side /\ rank[all[i]] = i
  <2>1. PICK r \in side : rank[r] = i
    BY <1>6 DEF Surjection
  <2>2. Cardinality(ahead(r)) = i - 1
    BY <1>2, <2>1
  <2>3. all[i] = CHOOSE s \in side : Cardinality(ahead(s)) = i - 1
    BY DEF Ordered
  <2>4. all[i] \in side /\ Cardinality(ahead(all[i])) = i - 1
    BY <2>2, <2>3
  <2> QED BY <2>4
<1>8. all \in [1..n -> side]
  BY <1>7 DEF Ordered
<1>9. ASSUME NEW r \in side PROVE \E i \in 1..n : all[i] = r
  <2>1. rank[r] \in 1..n
    BY <1>4
  <2>2. all[rank[r]] \in side /\ rank[all[rank[r]]] = rank[r]
    BY <1>7, <2>1
  <2>3. all[rank[r]] = r
    BY <1>5, <2>2 DEF Injection, IsInjective
  <2> QED BY <2>1, <2>3
<1>10. ASSUME NEW i \in 1..n, NEW j \in 1..n, i < j PROVE Ahead(all[i], all[j], newer)
  <2>1. all[i] \in side /\ all[j] \in side /\ rank[all[i]] = i /\ rank[all[j]] = j
    BY <1>7
  <2>2. all[i] # all[j]
    BY <1>10, <2>1
  <2>3. ~Ahead(all[j], all[i], newer)
    <3> SUFFICES ASSUME Ahead(all[j], all[i], newer) PROVE FALSE
      OBVIOUS
    <3>1. rank[all[j]] < rank[all[i]]
      BY <1>3, <2>1
    <3>2. j < i
      BY <2>1, <3>1
    <3> QED BY <1>10, <3>2
  <2> QED BY <2>1, <2>2, <2>3, AheadIsOrder
<1> QED BY <1>1, <1>8, <1>9, <1>10

\* A page holds the rows of one side of the cursor that are nearest to it, in their
\* order; with no row more than it shows, it holds all of them.
LEMMA PageIsNearest ==
  ASSUME Table, NEW cursor, NEW newer \in BOOLEAN,
         NEW count \in Counts(Selected(cursor, newer))
  PROVE  LET side == {r \in Stored : cursor = None \/ Beyond(cursor, Position(r), newer)}
             rows == Selected(cursor, newer)
             page == Shortened(rows, count, newer) IN
         /\ page \in Seq(side)
         /\ side # {} <=> page # << >>
         /\ ~More(rows, count) => side \subseteq ToSet(page)
         /\ page # << >> =>
              LET near == IF newer THEN Last(page) ELSE Head(page)
                  far == IF newer THEN Head(page) ELSE Last(page) IN
              /\ near \in ToSet(page) /\ far \in ToSet(page)
              /\ \A r \in ToSet(page) \ {near} : Ahead(near, r, newer)
              /\ \A r \in ToSet(page) \ {far} : Ahead(r, far, newer)
              /\ \A r \in side \ ToSet(page) : Ahead(far, r, newer)
<1> DEFINE side == {r \in Stored : cursor = None \/ Beyond(cursor, Position(r), newer)}
           all == Ordered(side, newer)
           n == Cardinality(side)
           m == IF n > PageSize + 1 THEN PageSize + 1 ELSE n
           rows == Selected(cursor, newer)
           kept == SubSeq(rows, 1, count)
           page == Shortened(rows, count, newer)
<1>1. /\ n \in Nat /\ all \in [1..n -> side]
      /\ \A r \in side : \E i \in 1..n : all[i] = r
      /\ \A i, j \in 1..n : i < j => Ahead(all[i], all[j], newer)
  <2>1. side \in SUBSET Stored
    OBVIOUS
  <2> HIDE DEF side
  <2> QED BY <2>1, OrderedRows
<1>2. rows = SubSeq(all, 1, m)
  <2>1. Len(all) = n
    BY <1>1
  <2> QED BY <2>1 DEF Selected
<1> HIDE DEF side, all, n
<1>3. m \in Nat /\ m <= n /\ m <= PageSize + 1 /\ (m = n \/ m = PageSize + 1) /\ PageSize \in Nat \ {0}
  BY <1>1
<1> HIDE DEF m
<1>4. rows \in Seq(side) /\ Len(rows) = m /\ \A i \in 1..m : rows[i] = all[i]
  <2>1. \A i \in 1..m : all[i] \in side
    BY <1>1, <1>3
  <2> HIDE DEF rows
  <2> QED BY <1>1, <1>2, <1>3, <2>1, SubSeqProperties
<1>5. /\ count \in Nat /\ count <= m /\ count <= PageSize /\ (count = 0 <=> m = 0)
  <2> HIDE DEF rows
  <2>1. rows = << >> <=> m = 0
    BY <1>4, <1>3
  <2>2. count \in Counts(rows)
    BY DEF rows
  <2>3. CASE rows = << >>
    BY <1>3, <2>1, <2>2, <2>3 DEF Counts
  <2>4. CASE rows # << >>
    BY <1>3, <1>4, <2>1, <2>2, <2>4 DEF Counts
  <2> QED BY <2>3, <2>4
<1> HIDE DEF rows
<1>6. kept \in Seq(side) /\ Len(kept) = count /\ \A i \in 1..count : kept[i] = all[i]
  <2>1. \A i \in 1..count : rows[i] \in side /\ rows[i] = all[i]
    BY <1>1, <1>3, <1>4, <1>5
  <2> QED BY <1>3, <1>5, <2>1, SubSeqProperties
<1>7. page = IF newer THEN Reverse(kept) ELSE kept
  BY DEF Shortened
<1> HIDE DEF kept, page
<1> DEFINE place(i) == IF newer THEN count - i + 1 ELSE i
<1>8. page \in Seq(side) /\ Len(page) = count /\ \A i \in 1..count : page[i] = all[place(i)]
  <2>1. CASE newer
    <3>1. page = [i \in 1..count |-> kept[count - i + 1]]
      BY <1>6, <1>7, <2>1 DEF Reverse
    <3>2. \A i \in 1..count : count - i + 1 \in 1..count
      BY <1>5
    <3>3. \A i \in 1..count : kept[i] \in side
      BY <1>1, <1>3, <1>5, <1>6
    <3>4. page \in [1..count -> side]
      BY <3>1, <3>2, <3>3
    <3>5. page \in Seq(side) /\ Len(page) = count
      BY <1>5, <3>4
    <3> QED BY <1>6, <2>1, <3>1, <3>2, <3>5
  <2>2. CASE ~newer
    BY <1>6, <1>7, <2>2
  <2> QED BY <2>1, <2>2
<1>9. \A i \in 1..count : place(i) \in 1..count /\ place(place(i)) = i
  BY <1>5
<1> HIDE DEF place
<1>10. ToSet(page) = {all[i] : i \in 1..count}
  <2>1. ToSet(page) = {page[i] : i \in 1..count}
    BY <1>5, <1>8 DEF ToSet
  <2>2. \A i \in 1..count : page[i] \in {all[j] : j \in 1..count}
    BY <1>8, <1>9
  <2>3. \A i \in 1..count : all[i] \in {page[j] : j \in 1..count}
    <3> SUFFICES ASSUME NEW i \in 1..count PROVE all[i] = page[place(i)] /\ place(i) \in 1..count
      OBVIOUS
    <3>1. place(i) \in 1..count /\ place(place(i)) = i
      BY <1>9
    <3>2. page[place(i)] = all[place(place(i))]
      BY <1>8, <3>1
    <3> QED BY <3>1, <3>2
  <2> QED BY <2>1, <2>2, <2>3
<1>11. side # {} <=> page # << >>
  <2>1. page # << >> <=> count # 0
    BY <1>5, <1>8
  <2>2. side # {} <=> n # 0
    BY <1>1
  <2> QED BY <1>3, <1>5, <2>1, <2>2
<1>12. ~More(rows, count) => side \subseteq ToSet(page)
  <2> SUFFICES ASSUME ~More(rows, count), NEW r \in side PROVE r \in ToSet(page)
    OBVIOUS
  <2>1. count = m
    BY <1>3, <1>4, <1>5 DEF More
  <2>2. m = n
    BY <1>3, <1>5, <2>1
  <2> QED BY <1>1, <1>10, <2>1, <2>2
<1>13. ASSUME page # << >>
       PROVE  LET near == IF newer THEN Last(page) ELSE Head(page)
                  far == IF newer THEN Head(page) ELSE Last(page) IN
              /\ near \in ToSet(page) /\ far \in ToSet(page)
              /\ \A r \in ToSet(page) \ {near} : Ahead(near, r, newer)
              /\ \A r \in ToSet(page) \ {far} : Ahead(r, far, newer)
              /\ \A r \in side \ ToSet(page) : Ahead(far, r, newer)
  <2> DEFINE near == IF newer THEN Last(page) ELSE Head(page)
             far == IF newer THEN Head(page) ELSE Last(page)
  <2>1. count >= 1
    BY <1>5, <1>8, <1>13
  <2>2. Head(page) = page[1] /\ Last(page) = page[count]
    BY <1>8, <1>13 DEF Last
  <2>3. near = all[1] /\ far = all[count]
    <3>1. 1 \in 1..count /\ count \in 1..count
      BY <1>5, <2>1
    <3>2. page[1] = all[place(1)] /\ page[count] = all[place(count)]
      BY <1>8, <3>1
    <3>3. place(1) = (IF newer THEN count ELSE 1) /\ place(count) = (IF newer THEN 1 ELSE count)
      BY <1>5 DEF place
    <3> QED BY <2>2, <3>2, <3>3
  <2> HIDE DEF near, far
  <2>4. near \in ToSet(page) /\ far \in ToSet(page)
    BY <1>5, <1>10, <2>1, <2>3
  <2>5. ASSUME NEW r \in ToSet(page) \ {near} PROVE Ahead(near, r, newer)
    <3>1. PICK i \in 1..count : r = all[i]
      BY <1>10
    <3>2. i # 1
      BY <2>3, <2>5, <3>1
    <3> QED BY <1>1, <1>3, <1>5, <2>1, <2>3, <3>1, <3>2
  <2>6. ASSUME NEW r \in ToSet(page) \ {far} PROVE Ahead(r, far, newer)
    <3>1. PICK i \in 1..count : r = all[i]
      BY <1>10
    <3>2. i # count
      BY <2>3, <2>6, <3>1
    <3> QED BY <1>1, <1>3, <1>5, <2>1, <2>3, <3>1, <3>2
  <2>7. ASSUME NEW r \in side \ ToSet(page) PROVE Ahead(far, r, newer)
    <3>1. PICK i \in 1..n : r = all[i]
      BY <1>1
    <3>2. i > count
      BY <1>1, <1>5, <1>10, <2>7, <3>1
    <3> QED BY <1>1, <1>3, <1>5, <2>1, <2>3, <3>1, <3>2
  <2> QED BY <2>4, <2>5, <2>6, <2>7 DEF near, far
<1> QED BY <1>8, <1>11, <1>12, <1>13 DEF side, rows, page

LEMMA BeforeChain ==
  ASSUME NEW p \in Places, NEW q \in Places, NEW r \in Places
  PROVE  /\ ~Before(q, p) /\ Before(q, r) => Before(p, r)
         /\ Before(p, q) /\ ~Before(r, q) => Before(p, r)
         /\ ~Before(q, p) /\ ~Before(r, q) => ~Before(r, p)
BY DEF Before, Places

\* A page against the list: what is not on it lies beyond its ends, what is past its
\* cursor beyond the far one.
Past(cursor, newer, r) == cursor = None \/ Beyond(cursor, Position(r), newer)

InList(page, more, cursor, newer) ==
  LET first == Position(Head(page))
      last == Position(Last(page)) IN
  /\ page \in Seq(Stored)
  /\ page # << >> =>
       /\ Head(page) \in ToSet(page) /\ Last(page) \in ToSet(page)
       /\ first \in Places /\ last \in Places /\ ~Before(last, first)
       /\ cursor # None => IF newer THEN Before(last, cursor) ELSE Before(cursor, first)
       /\ \A r \in Stored \ ToSet(page) :
            /\ Before(Position(r), first) \/ Before(last, Position(r))
            /\ Past(cursor, newer, r) => IF newer THEN Before(Position(r), first) ELSE Before(last, Position(r))
            /\ ~more => ~Past(cursor, newer, r)

LEMMA PageInList ==
  ASSUME Table, NEW cursor \in Places \union {None}, NEW newer \in BOOLEAN, newer => cursor # None,
         NEW count \in Counts(Selected(cursor, newer))
  PROVE  LET rows == Selected(cursor, newer) IN
         InList(Shortened(rows, count, newer), More(rows, count), cursor, newer)
<1> DEFINE side == {r \in Stored : cursor = None \/ Beyond(cursor, Position(r), newer)}
           rows == Selected(cursor, newer)
           page == Shortened(rows, count, newer)
           near == IF newer THEN Last(page) ELSE Head(page)
           far == IF newer THEN Head(page) ELSE Last(page)
           past(r) == Past(cursor, newer, r)
<1>1. /\ page \in Seq(side)
      /\ ~More(rows, count) => side \subseteq ToSet(page)
      /\ page # << >> =>
           /\ near \in ToSet(page) /\ far \in ToSet(page)
           /\ \A r \in ToSet(page) \ {near} : Ahead(near, r, newer)
           /\ \A r \in ToSet(page) \ {far} : Ahead(r, far, newer)
           /\ \A r \in side \ ToSet(page) : Ahead(far, r, newer)
  BY PageIsNearest
<1> HIDE DEF rows, page
<1>2. page \in Seq(Stored) /\ ToSet(page) \subseteq side
  <2>1. ToSet(page) \subseteq side
    BY <1>1 DEF ToSet
  <2>2. side \subseteq Stored
    OBVIOUS
  <2> HIDE DEF side
  <2> QED BY <1>1, <2>1, <2>2
<1> DEFINE first == Position(Head(page))
           last == Position(Last(page))
<1>3. SUFFICES ASSUME page # << >>
               PROVE  /\ Head(page) \in ToSet(page) /\ Last(page) \in ToSet(page)
                      /\ first \in Places /\ last \in Places /\ ~Before(last, first)
                      /\ cursor # None => IF newer THEN Before(last, cursor) ELSE Before(cursor, first)
                      /\ \A r \in Stored \ ToSet(page) :
                           /\ Before(Position(r), first) \/ Before(last, Position(r))
                           /\ past(r) => IF newer THEN Before(Position(r), first) ELSE Before(last, Position(r))
                           /\ ~More(rows, count) => ~past(r)
  BY <1>2 DEF rows, page, InList
<1>4. Head(page) \in ToSet(page) /\ Last(page) \in ToSet(page)
  BY <1>1, <1>3
<1>5. Head(page) \in Stored /\ Last(page) \in Stored
  BY <1>2, <1>4
<1>6. first \in Places /\ last \in Places
  BY <1>5, PlaceOfRow
<1>7. cursor # None => IF newer THEN Before(last, cursor) ELSE Before(cursor, first)
  BY <1>2, <1>4 DEF Beyond
<1>8. ~Before(last, first)
  <2> DEFINE h == Head(page)
             l == Last(page)
  <2>1. h = l \/ Ahead(near, far, newer)
    BY <1>1, <1>3
  <2> HIDE DEF h, l
  <2>2. first = last \/ Before(first, last)
    BY <2>1 DEF Ahead, h, l
  <2> HIDE DEF first, last
  <2> QED BY <1>6, <2>2, BeforeIsOrder
<1>9. ASSUME NEW r \in Stored \ ToSet(page)
      PROVE  /\ Before(Position(r), first) \/ Before(last, Position(r))
             /\ past(r) => IF newer THEN Before(Position(r), first) ELSE Before(last, Position(r))
             /\ ~More(rows, count) => ~past(r)
  <2>1. Position(r) \in Places
    BY PlaceOfRow
  <2>2. past(r) <=> r \in side
    BY DEF Past
  <2>3. r \in side => Ahead(far, r, newer)
    BY <1>1, <1>3
  <2> HIDE DEF side, past
  <2>4. past(r) => IF newer THEN Before(Position(r), first) ELSE Before(last, Position(r))
    BY <2>2, <2>3 DEF Ahead
  <2>5. ~More(rows, count) => ~past(r)
    BY <1>1, <2>2
  <2>6. Before(Position(r), first) \/ Before(last, Position(r))
    <3>1. CASE past(r)
      BY <2>4, <3>1
    <3>2. CASE ~past(r)
      <4>1. cursor \in Places /\ ~Beyond(cursor, Position(r), newer)
        BY <3>2 DEF past, Past
      <4>2. cursor # None
        BY <3>2 DEF past, Past
      <4>3. CASE newer
        <5>1. ~Before(Position(r), cursor) /\ Before(last, cursor)
          BY <1>7, <4>1, <4>2, <4>3 DEF Beyond
        <5> HIDE DEF last
        <5> QED BY <1>6, <2>1, <4>1, <5>1, BeforeChain
      <4>4. CASE ~newer
        <5>1. ~Before(cursor, Position(r)) /\ Before(cursor, first)
          BY <1>7, <4>1, <4>2, <4>4 DEF Beyond
        <5> HIDE DEF first
        <5> QED BY <1>6, <2>1, <4>1, <5>1, BeforeChain
      <4> QED BY <4>3, <4>4
    <3> QED BY <3>1, <3>2
  <2> QED BY <2>4, <2>5, <2>6
<1> QED BY <1>4, <1>6, <1>7, <1>8, <1>9

-----------------------------------------------------------------------------
(* Pages: the walk.                                                        *)

\* A cursor is within what the walk has been shown.
Within(cursor) == cursor # None => span # None /\ ~Before(cursor, span[1]) /\ ~Before(span[2], cursor)

PageTyped ==
  /\ Table
  /\ stable \subseteq Stored
  /\ view.rows \in Seq(Rows)
  /\ view.next \in Places \union {None} /\ view.previous \in Places \union {None}
  /\ span \in (Places \X Places) \union {None}

PageInv ==
  /\ PageTyped
  /\ Within(view.next) /\ Within(view.previous)
  /\ NothingSkipped
  /\ EndsTrue

LEMMA WalkBegins ==
  ASSUME WalkInit
  PROVE  PageInv
<1>1. view.rows = << >> /\ view.next = None /\ view.previous = None /\ stable = {} /\ span = None /\ Table
  BY DEF WalkInit, Table
<1>2. PageTyped
  BY <1>1 DEF PageTyped
<1> QED BY <1>1, <1>2 DEF PageInv, Within, NothingSkipped, EndsTrue

\* A row that changes is not among those that stay.
LEMMA ChangeKeeps ==
  ASSUME PageInv, NEW r \in Rows, NEW sort \in Sorts \union {None}, Change(r, sort)
  PROVE  PageInv'
<1>1. table' = [table EXCEPT ![r] = sort] /\ stable' = stable \ {r} /\ view' = view /\ shown' = shown /\ span' = span
  BY DEF Change
<1>2. Table /\ stable \subseteq Stored
  BY DEF PageInv, PageTyped
<1>3. Table'
  BY <1>1, <1>2 DEF Table
<1>4. ASSUME NEW s \in stable' PROVE s \in Stored' /\ Position(s)' = Position(s)
  BY <1>1, <1>2 DEF Table, Stored, Position
<1>5. PageTyped'
  BY <1>1, <1>3, <1>4 DEF PageInv, PageTyped
<1>6. Within(view.next)' /\ Within(view.previous)'
  BY <1>1 DEF PageInv, Within
<1>7. NothingSkipped'
  BY <1>1, <1>4 DEF PageInv, NothingSkipped
<1>8. EndsTrue'
  <2> SUFFICES ASSUME view.rows # << >>, NEW s \in stable' \ ToSet(view.rows),
                      ToSet(view.rows) \subseteq stable'
               PROVE  LET first == Position(Head(view.rows))'
                          last == Position(Last(view.rows))' IN
                      /\ Before(Position(s)', first) \/ Before(last, Position(s)')
                      /\ view.next = None => Before(Position(s)', first)
                      /\ view.previous = None => Before(last, Position(s)')
    BY <1>1 DEF EndsTrue
  <2>1. view.rows \in Seq(Rows)
    BY DEF PageInv, PageTyped
  <2>2. Head(view.rows) \in ToSet(view.rows) /\ Last(view.rows) \in ToSet(view.rows)
    BY <2>1 DEF ToSet, Last
  <2>3. /\ Position(Head(view.rows))' = Position(Head(view.rows))
        /\ Position(Last(view.rows))' = Position(Last(view.rows))
        /\ Position(s)' = Position(s)
    <3>1. Head(view.rows)' = Head(view.rows) /\ Last(view.rows)' = Last(view.rows)
      BY <1>1 DEF Last
    <3> QED BY <1>1, <1>2, <2>2, <3>1 DEF Table, Stored, Position
  <2>4. s \in stable \ ToSet(view.rows) /\ ToSet(view.rows) \subseteq stable
    BY <1>1
  <2> QED BY <2>3, <2>4 DEF PageInv, EndsTrue
<1> QED BY <1>5, <1>6, <1>7, <1>8 DEF PageInv

\* A page that is shown extends what the walk has been shown, without a gap.
LEMMA ShowKeeps ==
  ASSUME PageInv, NEW cursor \in Places \union {None}, NEW newer \in BOOLEAN, NEW anew \in BOOLEAN,
         newer => cursor # None, ~anew => cursor # None /\ Within(cursor),
         Show(cursor, newer, anew)
  PROVE  PageInv'
<1> DEFINE rows == Selected(cursor, newer)
<1>1. PICK count \in Counts(rows) :
        /\ view' = Page(rows, count, cursor, newer)
        /\ shown' = ToSet(view'.rows) \union (IF anew THEN {} ELSE shown)
        /\ stable' = IF anew THEN Stored ELSE stable
        /\ span' = LET old == IF anew THEN None ELSE span IN
                   IF view'.rows = << >> THEN old
                   ELSE LET ends == <<Position(Head(view'.rows)), Position(Last(view'.rows))>> IN
                        IF old = None THEN ends
                        ELSE <<IF Before(old[1], ends[1]) THEN old[1] ELSE ends[1],
                               IF Before(ends[2], old[2]) THEN old[2] ELSE ends[2]>>
        /\ UNCHANGED table
  BY DEF Show
<1> DEFINE page == Shortened(rows, count, newer)
           more == More(rows, count)
           first == Position(Head(page))
           last == Position(Last(page))
           past(r) == Past(cursor, newer, r)
<1>2. /\ view'.rows = page
      /\ view'.previous = IF page # << >> /\ ((newer /\ more) \/ (~newer /\ cursor # None)) THEN first ELSE None
      /\ view'.next = IF page # << >> /\ (newer \/ more) THEN last ELSE None
  BY <1>1 DEF Page
<1>3. /\ Table /\ stable \subseteq Stored /\ span \in (Places \X Places) \union {None}
      /\ NothingSkipped
  BY DEF PageInv, PageTyped
<1>4. InList(page, more, cursor, newer)
  BY <1>3, PageInList
<1> HIDE DEF rows, page, more
<1>5. /\ table' = table /\ Stored' = Stored /\ \A r \in Stored : Position(r)' = Position(r)
      /\ stable' \subseteq Stored /\ (~anew => stable' = stable)
      /\ shown' = ToSet(page) \union (IF anew THEN {} ELSE shown)
  BY <1>1, <1>2, <1>3 DEF Stored, Position
<1>6. ASSUME NEW r \in Stored PROVE Position(r) \in Places
  BY <1>3, PlaceOfRow
<1>7. CASE page = << >>
  <2>1. span' = IF anew THEN None ELSE span
    BY <1>1, <1>2, <1>7
  <2>2. view'.next = None /\ view'.previous = None
    BY <1>2, <1>7
  <2>3. PageTyped'
    <3>1. Table' /\ stable' \subseteq Stored' /\ span' \in (Places \X Places) \union {None}
      BY <1>3, <1>5, <2>1 DEF Table
    <3>2. view'.rows \in Seq(Rows)
      BY <1>2, <1>7
    <3> QED BY <2>2, <3>1, <3>2 DEF PageTyped
  <2>4. Within(view.next)' /\ Within(view.previous)'
    BY <2>2 DEF Within
  <2>5. NothingSkipped'
    <3>1. CASE anew
      BY <2>1, <3>1 DEF NothingSkipped
    <3>2. CASE ~anew
      <4>1. span' = span /\ stable' = stable /\ shown \subseteq shown'
        BY <1>5, <2>1, <3>2
      <4> QED BY <1>3, <1>5, <4>1 DEF NothingSkipped
    <3> QED BY <3>1, <3>2
  <2>6. EndsTrue'
    BY <1>2, <1>7 DEF EndsTrue
  <2> QED BY <2>3, <2>4, <2>5, <2>6 DEF PageInv
<1>8. CASE page # << >>
  <2>1. /\ Head(page) \in ToSet(page) /\ Last(page) \in ToSet(page)
        /\ first \in Places /\ last \in Places /\ ~Before(last, first)
        /\ cursor # None => IF newer THEN Before(last, cursor) ELSE Before(cursor, first)
        /\ \A r \in Stored \ ToSet(page) :
             /\ Before(Position(r), first) \/ Before(last, Position(r))
             /\ past(r) => IF newer THEN Before(Position(r), first) ELSE Before(last, Position(r))
             /\ ~more => ~past(r)
    BY <1>4, <1>8 DEF InList
  <2>2. first # None /\ last # None
    BY <2>1 DEF Places
  <2>3. ToSet(page) \subseteq Stored
    BY <1>4 DEF InList, ToSet
  <2>4. /\ Position(Head(view.rows))' = first /\ Position(Last(view.rows))' = last
        /\ ToSet(view.rows)' = ToSet(page) /\ view'.rows # << >>
    <3>1. Head(view.rows)' = Head(page) /\ Last(view.rows)' = Last(page) /\ ToSet(view.rows)' = ToSet(page)
      BY <1>2 DEF Last, ToSet
    <3> QED BY <1>2, <1>5, <1>8, <3>1 DEF Position
  <2> DEFINE lo == IF ~anew /\ Before(span[1], first) THEN span[1] ELSE first
             hi == IF ~anew /\ Before(last, span[2]) THEN span[2] ELSE last
  <2>5. span' = <<lo, hi>>
    <3>1. CASE anew
      BY <1>1, <1>2, <1>8, <3>1
    <3>2. CASE ~anew
      <4>1. span # None
        BY <3>2 DEF Within
      <4> QED BY <1>1, <1>2, <1>8, <3>2, <4>1
    <3> QED BY <3>1, <3>2
  <2> HIDE DEF first, last
  <2>6. ~anew => /\ span \in Places \X Places /\ span[1] \in Places /\ span[2] \in Places
                 /\ cursor \in Places /\ ~Before(cursor, span[1]) /\ ~Before(span[2], cursor)
    BY <1>3 DEF Within
  <2>7. lo \in Places /\ hi \in Places
    BY <2>1, <2>6
  <2>8. ~Before(first, lo) /\ ~Before(last, lo) /\ ~Before(hi, first) /\ ~Before(hi, last)
    <3>1. ~Before(first, lo)
      <4>1. CASE lo = first
        BY <2>1, <4>1, BeforeIsOrder
      <4>2. CASE ~anew /\ lo = span[1] /\ Before(span[1], first)
        BY <2>1, <2>6, <4>2, BeforeIsOrder
      <4> QED BY <4>1, <4>2
    <3>2. ~Before(hi, last)
      <4>1. CASE hi = last
        BY <2>1, <4>1, BeforeIsOrder
      <4>2. CASE ~anew /\ hi = span[2] /\ Before(last, span[2])
        BY <2>1, <2>6, <4>2, BeforeIsOrder
      <4> QED BY <4>1, <4>2
    <3> HIDE DEF lo, hi
    <3>3. ~Before(last, lo)
      BY <2>1, <2>7, <3>1, BeforeChain
    <3>4. ~Before(hi, first)
      BY <2>1, <2>7, <3>2, BeforeChain
    <3> QED BY <3>1, <3>2, <3>3, <3>4
  <2>9. PageTyped'
    <3>1. Table' /\ stable' \subseteq Stored' /\ span' \in (Places \X Places) \union {None}
      <4> HIDE DEF lo, hi
      <4> QED BY <1>3, <1>5, <2>5, <2>7 DEF Table
    <3>2. view'.rows \in Seq(Rows)
      BY <1>2, <1>4 DEF InList, Stored
    <3>3. view'.next \in Places \union {None} /\ view'.previous \in Places \union {None}
      BY <1>2, <2>1 DEF first, last
    <3> QED BY <3>1, <3>2, <3>3 DEF PageTyped
  <2>10. Within(view.next)' /\ Within(view.previous)'
    <3>1. view'.next \in {last, None} /\ view'.previous \in {first, None}
      BY <1>2 DEF first, last
    <3> HIDE DEF lo, hi
    <3>2. span' # None /\ span'[1] = lo /\ span'[2] = hi
      BY <2>5, <2>7 DEF Places
    <3> QED BY <2>8, <3>1, <3>2 DEF Within
  <2>11. NothingSkipped'
    <3> SUFFICES ASSUME NEW r \in stable', r \notin shown'
                 PROVE  Before(Position(r), lo) \/ Before(hi, Position(r))
      <4> HIDE DEF lo, hi
      <4>1. span'[1] = lo /\ span'[2] = hi
        BY <2>5
      <4> QED BY <1>5, <4>1 DEF NothingSkipped
    <3>1. r \in Stored \ ToSet(page) /\ Position(r) \in Places
      BY <1>5, <1>6
    <3> DEFINE p == Position(r)
    <3>2. /\ Before(p, first) \/ Before(last, p)
          /\ past(r) => IF newer THEN Before(p, first) ELSE Before(last, p)
      BY <2>1, <3>1
    <3>3. CASE anew
      BY <3>2, <3>3
    <3>4. CASE ~anew
      <4>1. Before(p, span[1]) \/ Before(span[2], p)
        <5>1. r \in stable /\ r \notin shown
          BY <1>5, <3>4
        <5>2. span # None
          BY <3>4 DEF Within
        <5> QED BY <1>3, <5>1, <5>2 DEF NothingSkipped
      <4>2. /\ span[1] \in Places /\ span[2] \in Places /\ cursor \in Places /\ p \in Places
            /\ ~Before(cursor, span[1]) /\ ~Before(span[2], cursor)
        BY <2>6, <3>1, <3>4
      <4>3. cursor # None
        BY <3>4
      <4>4. past(r) <=> IF newer THEN Before(p, cursor) ELSE Before(cursor, p)
        BY <4>3 DEF Past, Beyond
      <4> HIDE DEF p, past
      <4>5. CASE newer
        <5>1. Before(last, cursor)
          BY <2>1, <4>3, <4>5
        <5>2. hi = span[2]
          <6>1. Before(last, span[2])
            BY <2>1, <4>2, <5>1, BeforeChain
          <6> QED BY <3>4, <6>1
        <5>3. CASE Before(span[2], p)
          BY <5>2, <5>3 DEF p
        <5>4. CASE Before(p, span[1])
          <6>1. Before(p, cursor)
            BY <4>2, <5>4, BeforeChain
          <6>2. Before(p, first)
            BY <3>2, <4>4, <4>5, <6>1
          <6> QED BY <5>4, <6>2 DEF p
        <5> QED BY <4>1, <5>3, <5>4
      <4>6. CASE ~newer
        <5>1. Before(cursor, first)
          BY <2>1, <4>3, <4>6
        <5>2. lo = span[1]
          <6>1. Before(span[1], first)
            BY <2>1, <4>2, <5>1, BeforeChain
          <6> QED BY <3>4, <6>1
        <5>3. CASE Before(p, span[1])
          BY <5>2, <5>3 DEF p
        <5>4. CASE Before(span[2], p)
          <6>1. Before(cursor, p)
            BY <4>2, <5>4, BeforeChain
          <6>2. Before(last, p)
            BY <3>2, <4>4, <4>6, <6>1
          <6> QED BY <5>4, <6>2 DEF p
        <5> QED BY <4>1, <5>3, <5>4
      <4> QED BY <4>5, <4>6
    <3> QED BY <3>3, <3>4
  <2>12. EndsTrue'
    <3> SUFFICES ASSUME NEW r \in stable', r \notin ToSet(page)
                 PROVE  /\ Before(Position(r), first) \/ Before(last, Position(r))
                        /\ view'.next = None => Before(Position(r), first)
                        /\ view'.previous = None => Before(last, Position(r))
      BY <1>5, <2>4 DEF EndsTrue
    <3>1. r \in Stored \ ToSet(page) /\ Position(r) \in Places
      BY <1>5, <1>6
    <3> DEFINE p == Position(r)
    <3>2. /\ Before(p, first) \/ Before(last, p)
          /\ past(r) => IF newer THEN Before(p, first) ELSE Before(last, p)
          /\ ~more => ~past(r)
      BY <2>1, <3>1
    <3>3. ASSUME view'.next = None PROVE Before(p, first)
      <4>1. ~newer /\ ~more
        BY <1>2, <1>8, <2>2, <3>3 DEF last
      <4>2. cursor \in Places /\ ~Before(cursor, p) /\ Before(cursor, first)
        BY <2>1, <3>2, <4>1 DEF Past, Beyond
      <4> HIDE DEF p
      <4> QED BY <2>1, <3>1, <3>2, <4>2, BeforeChain DEF p
    <3>4. ASSUME view'.previous = None PROVE Before(last, p)
      <4>1. (newer /\ ~more) \/ (~newer /\ cursor = None)
        BY <1>2, <1>8, <2>2, <3>4 DEF first
      <4>2. CASE ~newer /\ cursor = None
        BY <3>2, <4>2 DEF Past
      <4>3. CASE newer /\ ~more
        <5>1. cursor \in Places /\ ~Before(p, cursor) /\ Before(last, cursor)
          BY <2>1, <3>2, <4>3 DEF Past, Beyond
        <5> HIDE DEF p
        <5> QED BY <2>1, <3>1, <3>2, <5>1, BeforeChain DEF p
      <4> QED BY <4>1, <4>2, <4>3
    <3> QED BY <3>2, <3>3, <3>4
  <2> QED BY <2>9, <2>10, <2>11, <2>12 DEF PageInv
<1> QED BY <1>7, <1>8

LEMMA WalkStep ==
  ASSUME PageInv, [WalkNext]_walk
  PROVE  PageInv'
<1>1. CASE FirstPage
  BY <1>1, ShowKeeps DEF FirstPage
<1>2. CASE NextPage
  <2>1. PICK anew \in BOOLEAN : Show(view.next, FALSE, anew)
    BY <1>2 DEF NextPage
  <2>2. view.next \in Places \union {None} /\ view.next # None /\ Within(view.next)
    BY <1>2 DEF NextPage, PageInv, PageTyped
  <2> QED BY <2>1, <2>2, ShowKeeps
<1>3. CASE PreviousPage
  <2>1. PICK anew \in BOOLEAN : Show(view.previous, TRUE, anew)
    BY <1>3 DEF PreviousPage
  <2>2. view.previous \in Places \union {None} /\ view.previous # None /\ Within(view.previous)
    BY <1>3 DEF PreviousPage, PageInv, PageTyped
  <2> QED BY <2>1, <2>2, ShowKeeps
<1>4. ASSUME NEW r \in Rows, NEW sort \in Sorts \union {None}, Change(r, sort) PROVE PageInv'
  BY <1>4, ChangeKeeps
<1>5. CASE UNCHANGED walk
  BY <1>5 DEF walk, PageInv, PageTyped, Table, Stored, Within, NothingSkipped, EndsTrue, Position
<1> QED BY <1>1, <1>2, <1>3, <1>4, <1>5 DEF WalkNext

\* However a client walks through a list, page by page, to and fro, and whatever rows
\* come, move and go meanwhile: it is shown every row that stays, and is told truly
\* where the list ends.  page of pagination.rs, for any rows and page size.
THEOREM PagesAreTrue == WalkSpec => []PagesTrue
<1>1. WalkInit => PageInv
  BY WalkBegins
<1>2. PageInv /\ [WalkNext]_walk => PageInv'
  BY WalkStep
<1>3. PageInv => PagesTrue
  BY DEF PageInv, PagesTrue
<1> QED BY <1>1, <1>2, <1>3, PTL DEF WalkSpec
=============================================================================
