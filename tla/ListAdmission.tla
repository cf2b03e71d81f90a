---------------------------- MODULE ListAdmission ---------------------------
(***************************************************************************)
(* How many lists may be read at once: Admission and response of           *)
(* pagination.rs.  A call takes one of the global permits and the only     *)
(* permit of its resource ("owner": the hosts of an administrator, the     *)
(* reports of a host), gives both to a detached task that runs the SQL,    *)
(* and keeps them until the response body has been sent or dropped.  The   *)
(* map of owners holds weak references to their semaphores.                *)
(*                                                                         *)
(* Abstractions.                                                           *)
(*  - A semaphore is an element of Sems, which is free for another use     *)
(*    when no call and no entry of the map refers to it.                   *)
(*  - The rows, their encoding and the two deadlines are left out: the     *)
(*    task may end, well or badly, at any time after its SQL worker has    *)
(*    been closed (query, at most five seconds), and the caller may go     *)
(*    away or run out of time at any time.                                 *)
(***************************************************************************)
EXTENDS Naturals, FiniteSets

CONSTANTS
  Calls,     \* requests that are handled at the same time
  Owners,    \* resources: "instances:a", "hosts:a", "detail:h", "reports:h"
  Sems,      \* the semaphores of owners
  Nil,       \* no semaphore
  Permits    \* permits of the global semaphore, 4

ASSUME AdmissionAssumption ==
  /\ IsFiniteSet(Calls)
  /\ Nil \notin Sems
  /\ Permits \in Nat

VARIABLES
  calls,   \* the progress of each call, with its owner and its reference to a semaphore
  free,    \* permits left in the global semaphore
  taken,   \* semaphores of owners whose permit is taken
  owners,  \* the map: the weak reference of each owner
  sql      \* calls that occupy an SQL worker

vars == <<calls, free, taken, owners, sql>>

\* A call between two steps of acquire, response, and the drop of its permit.
Stages == {"idle", "counted", "referring", "refused", "work", "body", "dropping", "uncounted", "returned"}
Call == [stage : Stages, owner : Owners, sem : Sems \union {Nil}, awaited : BOOLEAN]

Init ==
  /\ calls \in [Calls -> {c \in Call : c.stage = "idle" /\ c.sem = Nil /\ ~c.awaited}]
  /\ free = Permits
  /\ taken = {}
  /\ owners = [o \in Owners |-> Nil]
  /\ sql = {}

At(c, stages) == calls[c].stage \in stages

\* Weak::strong_count: the calls that refer to a semaphore.
Strong(s) == {c \in Calls : calls[c].sem = s}

-----------------------------------------------------------------------------
(* acquire                                                                 *)

\* One of the global permits, kept with the call, or "busy".
\* (Mutation: it is asked for, but not kept.)
AllLeft == free
OneTaken == free - 1
TakeGlobal(c, o) ==
  /\ At(c, {"idle"})
  /\ free > 0
  /\ free' = OneTaken
  /\ calls' = [calls EXCEPT ![c].stage = "counted", ![c].owner = o]
  /\ UNCHANGED <<taken, owners, sql>>

\* owners.retain(strong_count > 0).  (Mutation: more than one reference.)
ShareOnly(o) == Cardinality(Strong(owners[o])) > 1
InUse(o) == Strong(owners[o]) # {}
Kept == [o \in Owners |-> IF owners[o] # Nil /\ InUse(o) THEN owners[o] ELSE Nil]

\* Under the mutex: the semaphore of the owner, upgraded, or a new one.
Refer(c) ==
  LET o == calls[c].owner IN
  /\ At(c, {"counted"})
  /\ \E s \in Sems :
       /\ IF Kept[o] # Nil THEN s = Kept[o]
          ELSE /\ Strong(s) = {}
               /\ \A p \in Owners : Kept[p] # s
       /\ owners' = [Kept EXCEPT ![o] = s]
       /\ taken' = IF Kept[o] # Nil THEN taken ELSE taken \ {s}
       /\ calls' = [calls EXCEPT ![c].stage = "referring", ![c].sem = s]
  /\ UNCHANGED <<free, sql>>

\* try_acquire_owned after the mutex; then response spawns the task.
Admit(c) ==
  /\ At(c, {"referring"})
  /\ calls[c].sem \notin taken
  /\ taken' = taken \union {calls[c].sem}
  /\ calls' = [calls EXCEPT ![c].stage = "work", ![c].awaited = TRUE]
  /\ sql' = sql \union {c}
  /\ UNCHANGED <<free, owners>>

\* "busy": the reference goes with the failed attempt, the global permit after it.
Refuse(c) ==
  /\ At(c, {"referring"})
  /\ calls[c].sem \in taken
  /\ calls' = [calls EXCEPT ![c].stage = "refused", ![c].sem = Nil]
  /\ UNCHANGED <<free, taken, owners, sql>>

ReturnGlobal(c) ==
  /\ At(c, {"refused"})
  /\ free' = free + 1
  /\ calls' = [calls EXCEPT ![c].stage = "idle"]
  /\ UNCHANGED <<taken, owners, sql>>

-----------------------------------------------------------------------------
(* response                                                                *)

\* The caller goes away or its five seconds end; the task runs on.
Leave(c) ==
  /\ At(c, {"work"})
  /\ calls[c].awaited
  /\ calls' = [calls EXCEPT ![c].awaited = FALSE]
  /\ UNCHANGED <<free, taken, owners, sql>>

\* query closes the leased connection whatever its result.
CloseWorker(c) ==
  /\ c \in sql
  /\ sql' = sql \ {c}
  /\ UNCHANGED <<calls, free, taken, owners>>

\* The task ends after query has.  A result that is awaited becomes the body;
\* another, or an error, is dropped.
EndTask(c) ==
  /\ At(c, {"work"})
  /\ c \notin sql
  /\ \E next \in {"body", "dropping"} :
       /\ next = "body" => calls[c].awaited
       /\ calls' = [calls EXCEPT ![c].stage = next, ![c].awaited = FALSE]
  /\ UNCHANGED <<free, taken, owners, sql>>

\* The body is sent to the end or its connection is lost.
EndBody(c) ==
  /\ At(c, {"body"})
  /\ calls' = [calls EXCEPT ![c].stage = "dropping"]
  /\ UNCHANGED <<free, taken, owners, sql>>

\* Permit is dropped field by field: the global permit first, then the owner's,
\* whose reference to the semaphore goes last.
DropGlobal(c) ==
  /\ At(c, {"dropping"})
  /\ free' = free + 1
  /\ calls' = [calls EXCEPT ![c].stage = "uncounted"]
  /\ UNCHANGED <<taken, owners, sql>>

DropOwner(c) ==
  /\ At(c, {"uncounted"})
  /\ taken' = taken \ {calls[c].sem}
  /\ calls' = [calls EXCEPT ![c].stage = "returned"]
  /\ UNCHANGED <<free, owners, sql>>

DropReference(c) ==
  /\ At(c, {"returned"})
  /\ calls' = [calls EXCEPT ![c].stage = "idle", ![c].sem = Nil]
  /\ UNCHANGED <<free, taken, owners, sql>>

Next ==
  \E c \in Calls :
    \/ \E o \in Owners : TakeGlobal(c, o)
    \/ Refer(c) \/ Admit(c) \/ Refuse(c) \/ ReturnGlobal(c)
    \/ Leave(c) \/ CloseWorker(c) \/ EndTask(c) \/ EndBody(c)
    \/ DropGlobal(c) \/ DropOwner(c) \/ DropReference(c)

Spec == Init /\ [][Next]_vars

-----------------------------------------------------------------------------
(* Properties.                                                             *)

Counted == {c \in Calls : At(c, {"counted", "referring", "refused", "work", "body", "dropping"})}
Holding == {c \in Calls : At(c, {"work", "body", "dropping", "uncounted"})}
Referring == Holding \union {c \in Calls : At(c, {"referring", "returned"})}

\* A list occupies memory or an SQL worker.
Listing == sql \union {c \in Calls : At(c, {"body"})}

TypeOK ==
  /\ calls \in [Calls -> Call]
  /\ free \in Nat
  /\ taken \subseteq Sems
  /\ owners \in [Owners -> Sems \union {Nil}]
  /\ sql \subseteq Calls

\* Whoever leaves, however the drops of one call interleave with the lookups of
\* another, a resource is read and sent by one call at a time: an entry of the
\* map is never replaced while a permit of its semaphore is out.
OneListPerOwner ==
  \A c, d \in Listing : calls[c].owner = calls[d].owner => c = d

\* The SQL workers in use and the bodies in memory never exceed the permits,
\* those of callers that have gone away included: with more resources than permits
\* it is the global permit of each call that bounds them, from before its SQL
\* starts until its body is sent or its abandoned task has ended.
ListsBounded == Cardinality(Listing) <= Permits
=============================================================================
