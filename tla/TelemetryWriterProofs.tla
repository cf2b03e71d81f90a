----------------------- MODULE TelemetryWriterProofs ------------------------
(***************************************************************************)
(* Proofs about TelemetryWriter, for any calls, hosts and report ids, any  *)
(* sizes of the queue, of a batch and of a host's share: what waits is     *)
(* bounded, a graceful stop answers everybody, what a commit writes is     *)
(* authorized, within the limit of its host and never changes hands, and   *)
(* the module implements ReportDelivery.                                   *)
(*                                                                         *)
(* The inductive invariant has four parts: where each report is            *)
(* (Placement), what its handler, the task and the database say of it      *)
(* (Record), what the open transaction has found out (Transaction), and    *)
(* how much there is of everything (Sizes).                                *)
(***************************************************************************)
EXTENDS TelemetryWriter, FiniteSetTheorems, FunctionTheorems, SequenceTheorems, TLAPS

-----------------------------------------------------------------------------
(* Sequences without repetition.                                           *)

Distinct(s) == \A i, j \in DOMAIN s : s[i] = s[j] => i = j

LEMMA EmptyMembers == Members(<< >>) = {} /\ Distinct(<< >>)
BY DEF Members, Distinct

LEMMA MembersType ==
  ASSUME NEW S, NEW s \in Seq(S)
  PROVE  Members(s) \subseteq S /\ (s # << >> => Members(s) # {} /\ Head(s) \in Members(s))
<1>1. s \in [1..Len(s) -> S] /\ DOMAIN s = 1..Len(s) /\ Len(s) \in Nat
  BY LenProperties
<1>2. ASSUME s # << >> PROVE 1 \in DOMAIN s /\ Head(s) = s[1]
  BY <1>1, <1>2, EmptySeq
<1> QED BY <1>1, <1>2 DEF Members

LEMMA AppendMembers ==
  ASSUME NEW S, NEW s \in Seq(S), NEW e \in S, Distinct(s), e \notin Members(s)
  PROVE  /\ Append(s, e) \in Seq(S) /\ Append(s, e) # << >>
         /\ Len(Append(s, e)) = Len(s) + 1
         /\ Members(Append(s, e)) = Members(s) \union {e}
         /\ Distinct(Append(s, e))
<1> DEFINE t == Append(s, e)
<1>1. /\ t \in Seq(S) /\ t # << >> /\ Len(t) = Len(s) + 1
      /\ \A i \in 1..Len(s) : t[i] = s[i]
      /\ t[Len(s) + 1] = e
  BY AppendProperties
<1>2. Len(s) \in Nat /\ DOMAIN s = 1..Len(s) /\ DOMAIN t = 1..(Len(s) + 1)
  BY <1>1, LenProperties
<1> HIDE DEF t
<1>3. DOMAIN t = DOMAIN s \union {Len(s) + 1} /\ Len(s) + 1 \notin DOMAIN s
  BY <1>2
<1>4. \A i \in DOMAIN s : t[i] = s[i] /\ t[i] # e
  BY <1>1, <1>2 DEF Members
<1>5. Members(t) = Members(s) \union {e}
  BY <1>1, <1>3, <1>4 DEF Members
<1>6. Distinct(t)
  BY <1>1, <1>3, <1>4 DEF Distinct
<1> QED BY <1>1, <1>5, <1>6 DEF t

LEMMA TailMembers ==
  ASSUME NEW S, NEW s \in Seq(S), Distinct(s), s # << >>
  PROVE  /\ Head(s) \in Members(s) /\ Head(s) \in S
         /\ Tail(s) \in Seq(S)
         /\ Len(Tail(s)) = Len(s) - 1 /\ Len(s) \in Nat \ {0}
         /\ Members(Tail(s)) = Members(s) \ {Head(s)}
         /\ Distinct(Tail(s))
<1> DEFINE t == Tail(s)
<1>1. /\ Head(s) \in S /\ t \in Seq(S) /\ Len(t) = Len(s) - 1
      /\ \A i \in 1..Len(t) : t[i] = s[i + 1]
  BY HeadTailProperties
<1>2. Len(s) \in Nat \ {0} /\ DOMAIN s = 1..Len(s) /\ DOMAIN t = 1..(Len(s) - 1) /\ Head(s) = s[1]
  BY <1>1, LenProperties, EmptySeq
<1> HIDE DEF t
<1>3. \A i \in DOMAIN t : i + 1 \in DOMAIN s /\ i + 1 # 1 /\ t[i] = s[i + 1]
  BY <1>1, <1>2
<1>4. \A i \in DOMAIN s : i # 1 => i - 1 \in DOMAIN t /\ t[i - 1] = s[i]
  BY <1>1, <1>2
<1>5. 1 \in DOMAIN s
  BY <1>2
<1>6. Members(t) \subseteq Members(s) \ {Head(s)}
  BY <1>2, <1>3, <1>5 DEF Members, Distinct
<1>7. Members(s) \ {Head(s)} \subseteq Members(t)
  BY <1>2, <1>4 DEF Members
<1>8. ASSUME NEW i \in DOMAIN t, NEW j \in DOMAIN t, t[i] = t[j] PROVE i = j
  <2>1. i + 1 = j + 1
    BY <1>3, <1>8 DEF Distinct
  <2> QED BY <2>1, <1>2
<1> QED BY <1>1, <1>2, <1>5, <1>6, <1>7, <1>8 DEF t, Distinct, Members

LEMMA SizeOfMembers ==
  ASSUME NEW S, NEW s \in Seq(S), Distinct(s)
  PROVE  IsFiniteSet(Members(s)) /\ Cardinality(Members(s)) = Len(s)
<1>1. Len(s) \in Nat /\ s \in [1..Len(s) -> S] /\ DOMAIN s = 1..Len(s)
  BY LenProperties
<1>2. s \in Bijection(1..Len(s), Members(s))
  BY <1>1, Fun_IsBij DEF Members, Distinct
<1>3. ExistsBijection(1..Len(s), Members(s))
  BY <1>2, Fun_ExistsBij
<1> QED BY <1>1, <1>3, FS_CountingElements, FS_NatBijection

-----------------------------------------------------------------------------
(* The invariant.                                                          *)

Types ==
  /\ calls \in [Calls -> Call]
  /\ held \subseteq Calls
  /\ queue \in Seq(Calls)
  /\ batch \in Seq(Calls)
  /\ closed \in BOOLEAN /\ requested \in BOOLEAN /\ notified \in BOOLEAN
  /\ phase \in Phases
  /\ results \in [Calls -> Outcomes \union {"none"}]
  /\ response \in [Calls -> Outcomes \union {"none", "dropped"}]
  /\ stored \in [Reports -> Calls \union {Nil}]
  /\ token \in [Hosts -> 0..MaxToken]
  /\ live \in [Hosts -> BOOLEAN]
  /\ fate \in [Calls -> {"open", "kept", "void"}]

\* The phases without a batch, and those after the end of its transaction.
Quiet == {"top", "checked", "select", "drain", "stopped", "aborted"}
Ended == {"committed", "answering"}

\* Where a report is, and who still waits for it.
Placement ==
  /\ Distinct(queue) /\ Distinct(batch) /\ Members(queue) \cap Members(batch) = {}
  /\ batch = << >> <=> phase \in Quiet
  /\ held = Pending \union At("reserving") \union At("reserved")
  /\ \A c \in Pending : calls[c].step \in {"waiting", "done"} /\ response[c] = "none"
  /\ \A c \in Calls :
       /\ response[c] = "dropped" => phase = "aborted"
       /\ calls[c].step = "waiting" /\ response[c] = "none" /\ phase # "aborted" => c \in Pending
  /\ phase = "stopped" => closed /\ queue = << >> /\ At("reserved") = {}

\* What is said of a report agrees with what became of it.
Told(f, said) ==
  /\ said \in {"new", "duplicate"} => f = "kept"
  /\ said \in {"conflict", "unauthorized"} => f = "void"

RecordOf(c) ==
  /\ calls[c].step # "idle" => calls[c].host \in Hosts /\ calls[c].report \in Reports
  /\ calls[c].answer = "none" <=> calls[c].step # "done"
  /\ calls[c].step \in {"idle", "reserving", "reserved"} =>
       fate[c] = "open" /\ response[c] = "none"
  /\ results[c] # "none" => c \in Members(batch) /\ phase \in {"transaction"} \union Ended
  /\ c \in Members(queue) => fate[c] = "open"
  /\ c \in Members(batch) =>
       IF phase \in Ended
         THEN results[c] # "none" /\ fate[c] # "open" /\ Told(fate[c], results[c])
         ELSE fate[c] = "open"
  /\ Told(fate[c], response[c])

Record ==
  /\ \A c \in Calls : RecordOf(c)
  /\ \A r \in Reports : stored[r] # Nil =>
       calls[stored[r]].step # "idle" /\ calls[stored[r]].report = r

\* What the open transaction has found out.
Found(c) ==
  LET row == Row(calls[c].report) IN
  /\ results[c] = "new" => Authorized(c) /\ stored[calls[c].report] = Nil
  /\ results[c] = "duplicate" => row # Nil /\ calls[row].host = calls[c].host
  /\ results[c] = "conflict" => row # Nil /\ calls[row].host # calls[c].host
  /\ results[c] = "exhausted" => stored[calls[c].report] = Nil
  /\ results[c] = "unauthorized" => ~Authorized(c)

Transaction ==
  phase = "transaction" =>
    /\ \A c \in Members(batch) : Found(c)
    /\ \A c, d \in Members(batch) :
         results[c] = "new" /\ results[d] = "new" /\ calls[c].report = calls[d].report => c = d
    /\ \A h \in Hosts : RowsOf(h) <= HostRows

\* How much there is.
Sizes ==
  /\ Slots <= QueueCapacity
  /\ Len(batch) <= BatchSize
  /\ phase = "gather" => Len(batch) < BatchSize
  /\ \A h \in Hosts : Cardinality(OfHost(held, h)) <= MaxPerHost

Inv == Types /\ Placement /\ Record /\ Transaction /\ Sizes /\ CapacityKept
USE DEF ValidConfig

-----------------------------------------------------------------------------
(* The types.                                                              *)

\* Taking a report out of the channel.
LEMMA Taken ==
  ASSUME Types, Distinct(queue), Distinct(batch), Members(queue) \cap Members(batch) = {},
         queue # << >>, Take
  PROVE  /\ queue' \in Seq(Calls) /\ batch' \in Seq(Calls) /\ batch' # << >>
         /\ Distinct(queue') /\ Distinct(batch')
         /\ Head(queue) \in Members(queue) /\ Head(queue) \in Calls
         /\ Members(queue') = Members(queue) \ {Head(queue)}
         /\ Members(batch') = Members(batch) \union {Head(queue)}
         /\ Len(queue') = Len(queue) - 1 /\ Len(queue) \in Nat
         /\ Len(batch') = Len(batch) + 1
<1>1. queue \in Seq(Calls) /\ batch \in Seq(Calls)
  BY DEF Types
<1>2. /\ Head(queue) \in Members(queue) /\ Head(queue) \in Calls
      /\ Tail(queue) \in Seq(Calls) /\ Distinct(Tail(queue))
      /\ Members(Tail(queue)) = Members(queue) \ {Head(queue)}
      /\ Len(Tail(queue)) = Len(queue) - 1 /\ Len(queue) \in Nat
  BY <1>1, TailMembers
<1>3. Head(queue) \notin Members(batch)
  BY <1>2
<1>4. /\ Append(batch, Head(queue)) \in Seq(Calls) /\ Append(batch, Head(queue)) # << >>
      /\ Distinct(Append(batch, Head(queue)))
      /\ Members(Append(batch, Head(queue))) = Members(batch) \union {Head(queue)}
      /\ Len(Append(batch, Head(queue))) = Len(batch) + 1
  BY <1>1, <1>2, <1>3, AppendMembers
<1> QED BY <1>2, <1>4 DEF Take

\* A row of the open transaction is one of its reports' or was there.
LEMMA RowIs ==
  ASSUME NEW r
  PROVE  LET inserted == {c \in Members(batch) : results[c] = "new" /\ calls[c].report = r} IN
         /\ inserted # {} => Row(r) \in inserted
         /\ inserted = {} => Row(r) = stored[r]
BY DEF Row

LEMMA RowType ==
  ASSUME Types, NEW r \in Reports
  PROVE  Row(r) \in Calls \union {Nil}
<1>1. Members(batch) \subseteq Calls
  BY MembersType DEF Types
<1> QED BY <1>1, RowIs DEF Types

LEMMA TypesInit == ASSUME Init PROVE Types
<1>1. calls \in [Calls -> Call]
  BY DEF Init, Call
<1>2. queue \in Seq(Calls) /\ batch \in Seq(Calls)
  BY EmptySeq DEF Init
<1>3. token \in [Hosts -> 0..MaxToken]
  BY ConfigAssumption DEF Init
<1> QED BY <1>1, <1>2, <1>3 DEF Init, Types, Phases

\* A handler goes on, and answers.
Answers == Outcomes \union {"none", "full", "unavailable", "deadline"}
Steps == {"idle", "reserving", "reserved", "waiting", "done"}

LEMMA CallGoesOn ==
  ASSUME Types, NEW c \in Calls, NEW step \in Steps, NEW answer \in Answers
  PROVE  /\ [calls EXCEPT ![c].step = step] \in [Calls -> Call]
         /\ [calls EXCEPT ![c].step = step, ![c].answer = answer] \in [Calls -> Call]
<1>1. calls \in [Calls -> Call]
  BY DEF Types
<1>2. [calls[c] EXCEPT !.step = step] \in Call
  BY <1>1 DEF Call, Steps
<1>3. [calls[c] EXCEPT !.step = step, !.answer = answer] \in Call
  BY <1>1 DEF Call, Steps, Answers
<1> QED BY <1>1, <1>2, <1>3

LEMMA HandlersType ==
  ASSUME Types,
         \/ \E c \in Calls, h \in Hosts, r \in Reports : Submit(c, h, r)
         \/ \E c \in Calls : Handler(c)
  PROVE  Types'
<1>1. CASE \E c \in Calls, h \in Hosts, r \in Reports : Submit(c, h, r)
  <2>1. PICK c \in Calls, h \in Hosts, r \in Reports : Submit(c, h, r)
    BY <1>1
  <2>2. token[h] \in Nat
    BY ConfigAssumption DEF Types
  <2>3. calls' \in [Calls -> Call] /\ held' \subseteq Calls
    BY <2>1, <2>2 DEF Submit, Types, Call
  <2>4. fate' \in [Calls -> {"open", "kept", "void"}]
    BY <2>1 DEF Submit, Voided, Types
  <2> QED BY <2>1, <2>3, <2>4 DEF Submit, Types, task, database
<1>2. ASSUME NEW c \in Calls, Reserve(c) PROVE Types'
  <2>1. calls' \in [Calls -> Call]
    BY <1>2, CallGoesOn DEF Reserve, Steps, Answers
  <2> QED BY <1>2, <2>1 DEF Reserve, Types, task, database
<1>3. ASSUME NEW c \in Calls, Turned(c) PROVE Types'
  <2>1. PICK answer \in {"unavailable", "full"} : Finish(c, answer)
    BY <1>3 DEF Turned
  <2>2. calls' \in [Calls -> Call]
    BY <2>1, CallGoesOn DEF Finish, Answers, Steps
  <2> QED BY <1>3, <2>2 DEF Turned, Voided, Types, task, database
<1>4. ASSUME NEW c \in Calls, Send(c) PROVE Types'
  <2>1. queue' \in Seq(Calls)
    BY <1>4, AppendProperties DEF Send, Types
  <2>2. calls' \in [Calls -> Call]
    BY <1>4, CallGoesOn DEF Send, Steps, Answers
  <2> QED BY <1>4, <2>1, <2>2 DEF Send, Types, task, database
<1>5. ASSUME NEW c \in Calls, Receive(c) PROVE Types'
  <2>1. response[c] \in Outcomes \union {"none", "dropped"}
    BY DEF Types
  <2>2. calls' \in [Calls -> Call]
    BY <1>5, <2>1, CallGoesOn DEF Receive, Finish, Answers, Steps
  <2> QED BY <1>5, <2>2 DEF Receive, Types, task, database
<1>6. ASSUME NEW c \in Calls, Deadline(c) PROVE Types'
  <2>1. calls' \in [Calls -> Call]
    BY <1>6, CallGoesOn DEF Deadline, Finish, Answers, Steps
  <2> QED BY <1>6, <2>1 DEF Deadline, HeldAfterDeadline, Types, task, database
<1> QED BY <1>1, <1>2, <1>3, <1>4, <1>5, <1>6 DEF Handler

LEMMA TaskType ==
  ASSUME Types, Distinct(queue), Distinct(batch), Members(queue) \cap Members(batch) = {},
         Top \/ Select \/ First \/ Notified \/ Stop \/ Collect \/ Gather
  PROVE  Types'
<1>1. CASE Top
  BY <1>1 DEF Top, Goto, Leave, Types, Phases, database
<1>2. CASE Select
  BY <1>2 DEF Select, Goto, Leave, Types, Phases, database
<1>3. CASE First
  BY <1>3, Taken DEF First, Goto, Leave, Types, Phases, database
<1>4. CASE Notified
  BY <1>4 DEF Notified, Leave, Types, Phases, database
<1>5. CASE Stop
  BY <1>5 DEF Stop, Goto, Leave, Types, Phases, database
<1>6. CASE Collect
  BY <1>6, Taken DEF Collect, Goto, Leave, Types, Phases, database
<1>7. CASE Gather
  BY <1>7, Taken DEF Gather, Goto, Leave, Types, Phases, database
<1> QED BY <1>1, <1>2, <1>3, <1>4, <1>5, <1>6, <1>7

LEMMA StoredType ==
  ASSUME NEW c PROVE Stored(c) \subseteq Outcomes
BY DEF Stored, Insert, Outcomes

LEMMA BatchType ==
  ASSUME Types, Distinct(batch), Begin \/ StoreReport \/ Commit \/ Fail \/ Close \/ Answer
  PROVE  Types'
<1>1. CASE Begin
  BY <1>1 DEF Begin, Persist, Types, Phases
<1>2. CASE StoreReport
  BY <1>2, StoredType DEF StoreReport, Persist, Types
<1>3. CASE Commit
  <2>1. stored' \in [Reports -> Calls \union {Nil}]
    BY <1>3, RowType DEF Commit
  <2>2. fate' \in [Calls -> {"open", "kept", "void"}]
    BY <1>3 DEF Commit, Types
  <2> QED BY <1>3, <2>1, <2>2 DEF Commit, Persist, Types, Phases
<1>4. CASE Fail
  BY <1>4 DEF Fail, FailedResults, Voided, Persist, Types, Phases, Outcomes
<1>5. CASE Close
  BY <1>5 DEF Close, Persist, Types, Phases
<1>6. CASE Answer
  <2>1. Tail(batch) \in Seq(Calls) /\ Head(batch) \in Calls
    BY <1>6, TailMembers DEF Answer, Types
  <2> QED BY <1>6, <2>1 DEF Answer, Types, Phases, database
<1> QED BY <1>1, <1>2, <1>3, <1>4, <1>5, <1>6

LEMMA OthersType ==
  ASSUME Types, \/ Shutdown \/ Abort
                \/ \E h \in Hosts : Revoke(h) \/ Reactivate(h)
                \/ \E r \in Reports : Remove(r)
  PROVE  Types'
<1>1. CASE Shutdown
  BY <1>1 DEF Shutdown, NotifyOne, Types, database
<1>2. CASE Abort
  BY <1>2, EmptySeq DEF Abort, Voided, Types, Phases, database
<1>3. ASSUME NEW h \in Hosts, Revoke(h) PROVE Types'
  BY <1>3 DEF Revoke, Types, task
<1>4. ASSUME NEW h \in Hosts, Reactivate(h) PROVE Types'
  <2>1. token' \in [Hosts -> 0..MaxToken]
    BY <1>4, ConfigAssumption DEF Reactivate, Types
  <2> QED BY <1>4, <2>1 DEF Reactivate, Types, task
<1>5. ASSUME NEW r \in Reports, Remove(r) PROVE Types'
  BY <1>5 DEF Remove, Types, task
<1> QED BY <1>1, <1>2, <1>3, <1>4, <1>5

-----------------------------------------------------------------------------
(* Where a report is.                                                      *)

LEMMA PlacementInit == ASSUME Init PROVE Placement
BY EmptyMembers DEF Init, Placement, Pending, At, Quiet

LEMMA HandlersPlaced ==
  ASSUME Types, Placement, \A c \in Calls : RecordOf(c),
         \/ \E c \in Calls, h \in Hosts, r \in Reports : Submit(c, h, r)
         \/ \E c \in Calls : Handler(c)
  PROVE  Placement'
<1>0. Members(queue) \subseteq Calls /\ Members(batch) \subseteq Calls
  BY MembersType DEF Types
<1> USE <1>0 DEF Types, Placement, Pending, At, task, database
<1>1. CASE \E c \in Calls, h \in Hosts, r \in Reports : Submit(c, h, r)
  BY <1>1 DEF Submit
<1>2. ASSUME NEW c \in Calls, Reserve(c) PROVE Placement'
  BY <1>2 DEF Reserve
<1>3. ASSUME NEW c \in Calls, Turned(c) PROVE Placement'
  <2>1. PICK answer : Finish(c, answer)
    BY <1>3 DEF Turned
  <2>2. c \notin Pending
    BY <1>3 DEF Turned
  <2>3. /\ calls'[c].step = "done"
        /\ \A b \in Calls : b # c => calls'[b] = calls[b]
    BY <2>1 DEF Finish
  <2>4. UNCHANGED <<queue, batch, phase, closed, response>>
    BY <1>3 DEF Turned
  <2>5. held' = held \ {c} /\ calls[c].step = "reserving"
    BY <1>3 DEF Turned
  <2>6. /\ At("reserving")' = At("reserving") \ {c} /\ At("reserved")' = At("reserved")
    <3>1. \A b \in Calls \ {c} : calls'[b].step = calls[b].step
      BY ONLY <2>3
    <3> QED BY ONLY <2>3, <2>5, <3>1 DEF At
  <2>7. held' = Pending' \union At("reserving")' \union At("reserved")'
    <3>1. Pending' = Pending
      BY <2>4
    <3>2. c \notin At("reserved") /\ held = Pending \union At("reserving") \union At("reserved")
      BY <2>5
    <3> QED BY ONLY <2>2, <2>5, <2>6, <3>1, <3>2
  <2> QED BY <2>2, <2>3, <2>4, <2>6, <2>7
<1>4. ASSUME NEW c \in Calls, Send(c) PROVE Placement'
  <2>1. c \notin Members(queue) /\ c \notin Members(batch)
    BY <1>4 DEF Send
  <2>2. Members(queue') = Members(queue) \union {c} /\ Distinct(queue') /\ queue' # << >>
    BY <1>4, <2>1, AppendMembers DEF Send
  <2>3. response[c] = "none"
    BY <1>4 DEF Send, RecordOf
  <2> QED BY <1>4, <2>1, <2>2, <2>3 DEF Send
<1>5. ASSUME NEW c \in Calls, Receive(c) PROVE Placement'
  BY <1>5 DEF Receive, Finish
<1>6. ASSUME NEW c \in Calls, Deadline(c) PROVE Placement'
  BY <1>6 DEF Deadline, HeldAfterDeadline, Finish
<1> QED BY <1>1, <1>2, <1>3, <1>4, <1>5, <1>6 DEF Handler

LEMMA TaskPlaced ==
  ASSUME Types, Placement,
         Top \/ Select \/ First \/ Notified \/ Stop \/ Collect \/ Gather
  PROVE  Placement'
<1> USE DEF Types, Placement, Pending, At, Leave, Quiet, Goto
<1>1. CASE Top
  BY <1>1 DEF Top
<1>2. CASE Select
  BY <1>2 DEF Select
<1>3. CASE First
  BY <1>3, Taken DEF First
<1>4. CASE Notified
  BY <1>4 DEF Notified
<1>5. CASE Stop
  BY <1>5, EmptyMembers DEF Stop, Drained, ChannelDone
<1>6. CASE Collect
  BY <1>6, Taken DEF Collect
<1>7. CASE Gather
  BY <1>7, Taken DEF Gather
<1> QED BY <1>1, <1>2, <1>3, <1>4, <1>5, <1>6, <1>7

LEMMA BatchPlaced ==
  ASSUME Types, Placement, \A c \in Calls : RecordOf(c),
         Begin \/ StoreReport \/ Commit \/ Fail \/ Close \/ Answer
  PROVE  Placement'
<1> USE DEF Types, Placement, Pending, At, Persist, Quiet
<1>1. CASE Begin
  BY <1>1 DEF Begin
<1>2. CASE StoreReport
  BY <1>2 DEF StoreReport
<1>3. CASE Commit
  BY <1>3 DEF Commit
<1>4. CASE Fail
  BY <1>4 DEF Fail
<1>5. CASE Close
  BY <1>5 DEF Close
<1>6. CASE Answer
  <2> DEFINE c == Head(batch)
  <2>1. /\ c \in Members(batch) /\ c \in Calls /\ Distinct(batch')
        /\ Members(batch') = Members(batch) \ {c}
    BY <1>6, TailMembers DEF Answer
  <2>2. results[c] \in Outcomes
    BY <1>6, <2>1 DEF Answer, RecordOf, Ended
  <2>3. \A b \in Calls : response'[b] = IF b = c THEN results[c] ELSE response[b]
    BY <1>6 DEF Answer
  <2>4. calls[c].step \in {"waiting", "done"}
    BY <2>1
  <2> HIDE DEF c
  <2> QED BY <1>6, <2>1, <2>2, <2>3, <2>4 DEF Answer, database, c, Outcomes
<1> QED BY <1>1, <1>2, <1>3, <1>4, <1>5, <1>6

LEMMA OthersPlaced ==
  ASSUME Types, Placement,
         \/ Shutdown \/ Abort
         \/ \E h \in Hosts : Revoke(h) \/ Reactivate(h)
         \/ \E r \in Reports : Remove(r)
  PROVE  Placement'
<1>0. Members(queue) \subseteq Calls /\ Members(batch) \subseteq Calls
  BY MembersType DEF Types
<1> USE <1>0 DEF Types, Placement, Pending, At, task, database
<1>1. CASE Shutdown
  BY <1>1 DEF Shutdown
<1>2. CASE Abort
  BY <1>2, EmptyMembers DEF Abort, Running, Quiet
<1>3. ASSUME NEW h \in Hosts, Revoke(h) PROVE Placement'
  BY <1>3 DEF Revoke
<1>4. ASSUME NEW h \in Hosts, Reactivate(h) PROVE Placement'
  BY <1>4 DEF Reactivate
<1>5. ASSUME NEW r \in Reports, Remove(r) PROVE Placement'
  BY <1>5 DEF Remove
<1> QED BY <1>1, <1>2, <1>3, <1>4, <1>5

-----------------------------------------------------------------------------
(* What is said of a report.                                               *)

LEMMA RecordInit == ASSUME Init PROVE Record
BY EmptyMembers, NilAssumption DEF Init, Record, RecordOf, Told, Ended

\* The rows keep their callers' reports while no call begins.
LEMMA RowsKept ==
  ASSUME Types, Record,
         UNCHANGED stored,
         \A c \in Calls : calls[c].step # "idle" =>
           calls'[c].step # "idle" /\ calls'[c].report = calls[c].report
  PROVE  \A r \in Reports : stored'[r] # Nil =>
           calls'[stored'[r]].step # "idle" /\ calls'[stored'[r]].report = r
<1> SUFFICES ASSUME NEW r \in Reports, stored[r] # Nil
             PROVE  calls'[stored[r]].step # "idle" /\ calls'[stored[r]].report = r
  OBVIOUS
<1>1. stored[r] \in Calls /\ calls[stored[r]].step # "idle" /\ calls[stored[r]].report = r
  BY DEF Types, Record
<1> QED BY <1>1

LEMMA HandlersRecorded ==
  ASSUME Types, Placement, Record,
         \/ \E c \in Calls, h \in Hosts, r \in Reports : Submit(c, h, r)
         \/ \E c \in Calls : Handler(c)
  PROVE  Record'
<1>0. Members(queue) \subseteq Calls /\ Members(batch) \subseteq Calls
  BY MembersType DEF Types
<1>1. CASE \E c \in Calls, h \in Hosts, r \in Reports : Submit(c, h, r)
  <2>1. PICK c \in Calls, h \in Hosts, r \in Reports : Submit(c, h, r)
    BY <1>1
  <2>2. \A b \in Calls : b # c => calls'[b] = calls[b] /\ fate'[b] = fate[b]
    BY <2>1 DEF Submit, Voided, Types
  <2>3. c \notin Members(queue) /\ c \notin Members(batch) /\ calls[c].step = "idle"
    BY <2>1 DEF Submit, Placement, Pending
  <2>4. /\ calls'[c].host = h /\ calls'[c].report = r
        /\ \/ calls'[c].step = "reserving" /\ calls'[c].answer = "none" /\ fate'[c] = fate[c]
           \/ calls'[c].step = "done" /\ calls'[c].answer = "full"
    BY <2>1 DEF Submit, Types
  <2>5. UNCHANGED <<queue, batch, phase, results, response, stored>>
    BY <2>1 DEF Submit, task, database
  <2>6. RecordOf(c)'
    BY <2>3, <2>4, <2>5 DEF Record, RecordOf, Told
  <2>7. ASSUME NEW b \in Calls, b # c PROVE RecordOf(b)'
    BY <2>2, <2>5, <2>7 DEF Record, RecordOf
  <2>8. \A q \in Reports : stored'[q] # Nil =>
          calls'[stored'[q]].step # "idle" /\ calls'[stored'[q]].report = q
    BY <2>2, <2>3, <2>5, RowsKept
  <2> QED BY <2>6, <2>7, <2>8 DEF Record
<1>2. ASSUME NEW c \in Calls, Reserve(c) \/ Send(c) PROVE Record'
  <2>1. \A b \in Calls : b # c => calls'[b] = calls[b]
    BY <1>2 DEF Reserve, Send, Types
  <2>2. /\ calls[c].step \in {"reserving", "reserved"} /\ calls'[c].step \in {"reserved", "waiting"}
        /\ calls'[c].host = calls[c].host /\ calls'[c].report = calls[c].report
        /\ calls'[c].answer = calls[c].answer
    BY <1>2 DEF Reserve, Send, Types, Call
  <2>3. UNCHANGED <<batch, phase, results, response, stored, fate>>
    BY <1>2 DEF Reserve, Send, task, database
  <2>4. \A b \in Calls : b \in Members(queue') => b = c \/ b \in Members(queue)
    <3>1. CASE Reserve(c)
      BY <3>1 DEF Reserve
    <3>2. CASE Send(c)
      <4>1. c \notin Members(queue)
        BY <2>2 DEF Placement, Pending
      <4> QED BY <3>2, <4>1, AppendMembers DEF Send, Placement, Types
    <3> QED BY <1>2, <3>1, <3>2
  <2>5. RecordOf(c)'
    BY <2>2, <2>3, <2>4 DEF Record, RecordOf
  <2>6. ASSUME NEW b \in Calls, b # c PROVE RecordOf(b)'
    BY <2>1, <2>3, <2>4, <2>6 DEF Record, RecordOf
  <2>7. \A q \in Reports : stored'[q] # Nil =>
          calls'[stored'[q]].step # "idle" /\ calls'[stored'[q]].report = q
    BY <2>1, <2>2, <2>3, RowsKept
  <2> QED BY <2>5, <2>6, <2>7 DEF Record
<1>3. ASSUME NEW c \in Calls, Turned(c) \/ Receive(c) \/ Deadline(c) PROVE Record'
  <2>1. PICK answer : Finish(c, answer) /\ answer # "none"
    BY <1>3 DEF Turned, Receive, Deadline
  <2>2. /\ \A b \in Calls : b # c => calls'[b] = calls[b]
        /\ calls'[c].step = "done" /\ calls'[c].answer = answer
        /\ calls'[c].host = calls[c].host /\ calls'[c].report = calls[c].report
    BY <2>1 DEF Finish, Types, Call
  <2>3. UNCHANGED <<queue, batch, phase, results, response, stored>>
    BY <1>3 DEF Turned, Receive, Deadline, task, database
  <2>4. /\ \A b \in Calls : b # c => fate'[b] = fate[b]
        /\ \/ fate'[c] = fate[c]
           \/ calls[c].step = "reserving"
    BY <1>3 DEF Turned, Receive, Deadline, Voided, Types
  <2>5. calls[c].step # "idle"
    BY <1>3 DEF Turned, Receive, Deadline
  <2>6. RecordOf(c)'
    <3>1. CASE fate'[c] = fate[c]
      BY <2>1, <2>2, <2>3, <2>5, <3>1 DEF Record, RecordOf
    <3>2. CASE calls[c].step = "reserving"
      <4>1. c \notin Members(queue) /\ c \notin Members(batch) /\ response[c] = "none"
        BY <3>2 DEF Placement, Pending, Record, RecordOf
      <4> QED BY <2>1, <2>2, <2>3, <2>5, <4>1 DEF Record, RecordOf, Told
    <3> QED BY <2>4, <3>1, <3>2
  <2>7. ASSUME NEW b \in Calls, b # c PROVE RecordOf(b)'
    BY <2>2, <2>3, <2>4, <2>7 DEF Record, RecordOf
  <2>8. \A q \in Reports : stored'[q] # Nil =>
          calls'[stored'[q]].step # "idle" /\ calls'[stored'[q]].report = q
    BY <2>2, <2>3, RowsKept
  <2> QED BY <2>6, <2>7, <2>8 DEF Record
<1> QED BY <1>1, <1>2, <1>3 DEF Handler

LEMMA TaskRecorded ==
  ASSUME Types, Placement, Record,
         Top \/ Select \/ First \/ Notified \/ Stop \/ Collect \/ Gather
  PROVE  Record'
<1>1. UNCHANGED <<calls, results, response, stored, fate>>
  BY DEF Top, Select, First, Notified, Stop, Collect, Gather, Leave, database
<1>2. /\ Members(queue') \union Members(batch') = Members(queue) \union Members(batch)
      /\ phase \notin Ended \union {"transaction"} /\ phase' \notin Ended
  <2> USE DEF Ended, Goto
  <2>1. CASE Top \/ Select \/ Notified \/ Stop
    BY <2>1 DEF Top, Select, Notified, Stop
  <2>2. CASE First
    BY <2>2, Taken DEF First, Placement
  <2>3. CASE Collect
    BY <2>3, Taken DEF Collect, Placement
  <2>4. CASE Gather
    BY <2>4, Taken DEF Gather, Placement
  <2> QED BY <2>1, <2>2, <2>3, <2>4
<1>3. ASSUME NEW c \in Calls PROVE RecordOf(c)'
  BY <1>1, <1>2 DEF Record, RecordOf
<1> QED BY <1>1, <1>3 DEF Record

LEMMA BatchRecorded ==
  ASSUME Types, Placement, Record,
         Begin \/ StoreReport \/ Commit \/ Fail \/ Close \/ Answer
  PROVE  Record'
<1>0. Members(queue) \subseteq Calls /\ Members(batch) \subseteq Calls
  BY MembersType DEF Types
<1>a. CASE Begin \/ StoreReport \/ Fail \/ Close
  <2>1. UNCHANGED <<calls, queue, batch, response, stored>>
    BY <1>a DEF Begin, StoreReport, Fail, Close, Persist
  <2>2. \A q \in Reports : stored'[q] # Nil =>
          calls'[stored'[q]].step # "idle" /\ calls'[stored'[q]].report = q
    BY <2>1, RowsKept
  <2>3. CASE Begin
    <3>1. ASSUME NEW c \in Calls PROVE RecordOf(c)'
      BY <2>1, <2>3 DEF Begin, Record, RecordOf, Ended
    <3> QED BY <2>2, <3>1 DEF Record
  <2>4. CASE StoreReport
    <3>1. PICK b \in Members(batch) : \E result : results' = [results EXCEPT ![b] = result]
      BY <2>4 DEF StoreReport, Members
    <3>2. phase = "transaction" /\ phase' = phase /\ fate' = fate
      BY <2>4 DEF StoreReport
    <3>3. ASSUME NEW c \in Calls PROVE RecordOf(c)'
      <4>1. c = b \/ results'[c] = results[c]
        BY <3>1 DEF Types
      <4> QED BY <2>1, <3>1, <3>2, <4>1 DEF Record, RecordOf, Ended
    <3> QED BY <2>2, <3>3 DEF Record
  <2>5. CASE Fail
    <3>1. ASSUME NEW c \in Calls PROVE RecordOf(c)'
      <4>1. phase' = "answering" /\ phase \in {"persist", "transaction", "committed"}
        BY <2>5 DEF Fail
      <4>2. CASE c \in Members(batch)
        <5>1. results'[c] = "error" /\ fate'[c] = IF fate[c] = "open" THEN "void" ELSE fate[c]
          BY <2>5, <4>2 DEF Fail, FailedResults, Voided
        <5>2. response[c] = "none" /\ c \notin Members(queue)
          BY <4>2 DEF Placement, Pending
        <5>3. calls[c].step \in {"waiting", "done"}
          BY <4>2 DEF Placement, Pending
        <5> QED BY <2>1, <4>1, <4>2, <5>1, <5>2, <5>3 DEF Record, RecordOf, Ended, Told
      <4>3. CASE c \notin Members(batch)
        <5>1. results'[c] = results[c] /\ fate'[c] = fate[c]
          BY <2>5, <4>3 DEF Fail, FailedResults, Voided
        <5> QED BY <2>1, <4>1, <4>3, <5>1 DEF Record, RecordOf, Ended
      <4> QED BY <4>2, <4>3
    <3> QED BY <2>2, <3>1 DEF Record
  <2>6. CASE Close
    <3>1. ASSUME NEW c \in Calls PROVE RecordOf(c)'
      BY <2>1, <2>6 DEF Close, Record, RecordOf, Ended
    <3> QED BY <2>2, <3>1 DEF Record
  <2> QED BY <1>a, <2>3, <2>4, <2>5, <2>6
<1>b. CASE Commit
  <2>1. /\ UNCHANGED <<calls, queue, batch, results, response>>
        /\ phase = "transaction" /\ phase' = "committed"
        /\ \A c \in Members(batch) : results[c] # "none"
    BY <1>b DEF Commit, Persist
  <2>2. ASSUME NEW c \in Calls PROVE RecordOf(c)'
    <3>1. fate'[c] = IF c \notin Members(batch) THEN fate[c]
                     ELSE IF results[c] \in {"new", "duplicate"} THEN "kept" ELSE "void"
      BY <1>b DEF Commit
    <3>2. c \in Members(batch) =>
            c \notin Members(queue) /\ response[c] = "none" /\ calls[c].step \in {"waiting", "done"}
      BY DEF Placement, Pending
    <3> QED BY <2>1, <3>1, <3>2 DEF Record, RecordOf, Ended, Told
  <2>3. ASSUME NEW r \in Reports, stored'[r] # Nil
        PROVE  calls[stored'[r]].step # "idle" /\ calls[stored'[r]].report = r
    <3>1. stored'[r] = Row(r)
      BY <1>b DEF Commit
    <3>2. \/ Row(r) = stored[r]
          \/ Row(r) \in Members(batch) /\ calls[Row(r)].report = r
      BY RowIs
    <3>3. \A c \in Members(batch) : calls[c].step # "idle"
      BY DEF Placement, Pending
    <3> QED BY <2>3, <3>1, <3>2, <3>3 DEF Record
  <2> QED BY <2>1, <2>2, <2>3 DEF Record
<1>c. CASE Answer
  <2> DEFINE b == Head(batch)
  <2>1. b \in Members(batch) /\ b \in Calls /\ Members(batch') = Members(batch) \ {b}
    BY <1>c, TailMembers DEF Answer, Types, Placement
  <2>2. /\ UNCHANGED <<calls, queue, stored, fate>> /\ phase = "answering"
        /\ phase' \in {"top", "answering"}
        /\ phase' = "top" => batch' = << >>
        /\ response' = [response EXCEPT ![b] = results[b]]
        /\ results' = [results EXCEPT ![b] = "none"]
    BY <1>c DEF Answer, database
  <2> HIDE DEF b
  <2>3. phase' = "top" => Members(batch') = {}
    BY <2>2, EmptyMembers
  <2>4. ASSUME NEW c \in Calls PROVE RecordOf(c)'
    <3>1. CASE c = b
      <4>1. response'[c] = results[c] /\ results'[c] = "none"
        BY <2>1, <2>2, <3>1 DEF Types
      <4>2. calls[c].step \in {"waiting", "done"} /\ c \notin Members(queue)
        BY <2>1, <3>1 DEF Placement, Pending
      <4> QED BY <2>1, <2>2, <3>1, <4>1, <4>2 DEF Record, RecordOf, Ended, Told
    <3>2. CASE c # b
      <4>1. response'[c] = response[c] /\ results'[c] = results[c]
        BY <2>1, <2>2, <3>2 DEF Types
      <4>2. c \in Members(batch') <=> c \in Members(batch)
        BY <2>1, <3>2
      <4>3. CASE phase' = "answering"
        BY <2>2, <4>1, <4>2, <4>3 DEF Record, RecordOf, Ended
      <4>4. CASE phase' = "top"
        <5>1. c \notin Members(batch) /\ c \notin Members(batch')
          BY <2>3, <4>2, <4>4
        <5> QED BY <2>2, <4>1, <5>1 DEF Record, RecordOf
      <4> QED BY <2>2, <4>3, <4>4
    <3> QED BY <3>1, <3>2
  <2> QED BY <2>2, <2>4, RowsKept DEF Record
<1> QED BY <1>a, <1>b, <1>c

LEMMA OthersRecorded ==
  ASSUME Types, Placement, Record,
         \/ Shutdown \/ Abort
         \/ \E h \in Hosts : Revoke(h) \/ Reactivate(h)
         \/ \E r \in Reports : Remove(r)
  PROVE  Record'
<1>0. Members(queue) \subseteq Calls /\ Members(batch) \subseteq Calls
  BY MembersType DEF Types
<1>1. CASE \/ Shutdown
           \/ \E h \in Hosts : Revoke(h) \/ Reactivate(h)
           \/ \E r \in Reports : Remove(r)
  <2>1. UNCHANGED <<calls, queue, batch, phase, results, response, fate>>
    BY <1>1 DEF Shutdown, Revoke, Reactivate, Remove, task
  <2>2. \A r \in Reports : stored'[r] \in {stored[r], Nil}
    BY <1>1 DEF Shutdown, Revoke, Reactivate, Remove, database, Types
  <2>3. \A c \in Calls : RecordOf(c)'
    BY <2>1 DEF Record, RecordOf
  <2> QED BY <2>1, <2>2, <2>3 DEF Record
<1>2. CASE Abort
  <2>1. /\ UNCHANGED <<calls, stored>> /\ phase' = "aborted"
        /\ Members(queue') = {} /\ Members(batch') = {}
        /\ \A c \in Calls : results'[c] = "none"
    BY <1>2, EmptyMembers DEF Abort, database
  <2>2. ASSUME NEW c \in Calls PROVE RecordOf(c)'
    <3>1. CASE c \in Members(queue) \union Members(batch)
      <4>1. response'[c] = "dropped" /\ calls[c].step \in {"waiting", "done"}
        BY <1>2, <3>1 DEF Abort, Placement, Pending
      <4> QED BY <2>1, <4>1 DEF Record, RecordOf, Told
    <3>2. CASE c \notin Members(queue) \union Members(batch)
      <4>1. response'[c] = response[c] /\ fate'[c] = fate[c]
        BY <1>2, <3>2 DEF Abort, Voided
      <4> QED BY <2>1, <4>1 DEF Record, RecordOf, Told
    <3> QED BY <3>1, <3>2
  <2> QED BY <2>1, <2>2, RowsKept DEF Record
<1> QED BY <1>1, <1>2

-----------------------------------------------------------------------------
(* What the open transaction has found out.                                *)

Inserted(r) == {c \in Members(batch) : results[c] = "new" /\ calls[c].report = r}

LEMMA RowInserted ==
  ASSUME NEW r
  PROVE  /\ Inserted(r) # {} => Row(r) \in Inserted(r)
         /\ Inserted(r) = {} => Row(r) = stored[r]
BY RowIs DEF Inserted

LEMMA RowStays ==
  ASSUME NEW r, UNCHANGED stored, Inserted(r)' = Inserted(r)
  PROVE  Row(r)' = Row(r)
<1>1. Row(r) = IF Inserted(r) # {} THEN CHOOSE c \in Inserted(r) : TRUE ELSE stored[r]
  BY DEF Row, Inserted
<1>2. Row(r)' = IF Inserted(r)' # {} THEN CHOOSE c \in Inserted(r)' : TRUE ELSE stored'[r]
  BY DEF Row, Inserted
<1> QED BY <1>1, <1>2

\* The row of a report that was inserted is its own, and a row that was there
\* before is still seen.
LEMMA RowsSeen ==
  ASSUME Types, Transaction, phase = "transaction"
  PROVE  /\ \A c \in Members(batch) : results[c] = "new" => Row(calls[c].report) = c
         /\ \A r \in Reports : stored[r] # Nil => Row(r) = stored[r]
<1>1. ASSUME NEW c \in Members(batch), results[c] = "new"
      PROVE  Row(calls[c].report) = c
  <2>1. c \in Inserted(calls[c].report)
    BY <1>1 DEF Inserted
  <2>2. Row(calls[c].report) \in Inserted(calls[c].report)
    BY <2>1, RowInserted
  <2> QED BY <1>1, <2>2 DEF Inserted, Transaction
<1>2. ASSUME NEW r \in Reports, stored[r] # Nil
      PROVE  Row(r) = stored[r]
  <2>1. Inserted(r) = {}
    BY <1>2 DEF Inserted, Transaction, Found
  <2> QED BY <2>1, RowInserted
<1> QED BY <1>1, <1>2

\* Nobody but the writer disturbs it.
LEMMA Undisturbed ==
  ASSUME Types, Placement, Record, Transaction,
         UNCHANGED <<phase, batch, results, stored, token, live>>,
         \A c \in Calls : calls[c].step # "idle" =>
           /\ calls'[c].host = calls[c].host
           /\ calls'[c].report = calls[c].report
           /\ calls'[c].token = calls[c].token
  PROVE  Transaction'
<1> SUFFICES ASSUME phase = "transaction" PROVE Transaction'
  BY DEF Transaction
<1>1. \A c \in Members(batch) : c \in Calls /\ calls[c].step # "idle"
  BY MembersType DEF Types, Placement, Pending
<1>2. \A r : Row(r)' = Row(r)
  <2>1. ASSUME NEW r PROVE Inserted(r)' = Inserted(r)
    BY <1>1 DEF Inserted
  <2> QED BY <2>1, RowStays
<1>3. \A r \in Reports : Row(r) # Nil => Row(r) \in Calls /\ calls[Row(r)].step # "idle"
  BY <1>1, RowIs, RowType DEF Record
<1>4. ASSUME NEW c \in Members(batch) PROVE Found(c)'
  <2>1. calls[c].report \in Reports /\ calls'[c].report = calls[c].report
          /\ calls'[c].host = calls[c].host /\ calls'[c].token = calls[c].token
    BY <1>1 DEF Record, RecordOf
  <2>2. Row(calls[c].report)' = Row(calls[c].report)
    BY <1>2, <2>1
  <2>3. Row(calls[c].report) # Nil =>
          calls'[Row(calls[c].report)].host = calls[Row(calls[c].report)].host
    BY <1>3, <2>1
  <2>4. Authorized(c)' = Authorized(c)
    BY <2>1 DEF Authorized
  <2> QED BY <2>1, <2>2, <2>3, <2>4 DEF Found, Transaction
<1>5. ASSUME NEW h \in Hosts PROVE RowsOf(h)' = RowsOf(h)
  <2>1. {r \in Reports : Row(r)' # Nil /\ calls'[Row(r)'].host = h}
          = {r \in Reports : Row(r) # Nil /\ calls[Row(r)].host = h}
    BY <1>2, <1>3
  <2> QED BY <2>1 DEF RowsOf
<1> QED BY <1>1, <1>4, <1>5 DEF Transaction

LEMMA TransactionBegins ==
  ASSUME Types, Placement, Record, CapacityKept, Begin
  PROVE  Transaction'
<1>1. /\ UNCHANGED <<calls, batch, results, stored>> /\ phase = "persist"
  BY DEF Begin, Persist
<1>2. \A c \in Members(batch) : results[c] = "none"
  BY <1>1, MembersType DEF Types, Record, RecordOf, Ended
<1>3. \A r : Row(r)' = stored[r]
  BY <1>1, <1>2 DEF Row
<1>4. \A h \in Hosts : RowsOf(h)' <= HostRows
  <2>1. ASSUME NEW h \in Hosts
        PROVE  RowsOf(h)' = Cardinality({r \in Reports : stored[r] # Nil /\ calls[stored[r]].host = h})
    BY <1>1, <1>3 DEF RowsOf
  <2> QED BY <2>1 DEF CapacityKept
<1> QED BY <1>1, <1>2, <1>4 DEF Transaction, Found

LEMMA ReportStored ==
  ASSUME Types, Placement, Record, Transaction, StoreReport
  PROVE  Transaction'
<1>1. PICK c \in Members(batch) :
        /\ results[c] = "none"
        /\ \E result \in Stored(c) : results' = [results EXCEPT ![c] = result]
  BY DEF StoreReport, Members
<1>2. PICK result \in Stored(c) : results' = [results EXCEPT ![c] = result]
  BY <1>1
<1>3. /\ UNCHANGED <<calls, phase, batch, stored, token, live>> /\ phase = "transaction"
  BY DEF StoreReport, Persist
<1>4. Members(batch) \subseteq Calls
  BY MembersType DEF Types
<1>5. /\ calls[c].report \in Reports /\ calls[c].host \in Hosts
      /\ \A b \in Members(batch) : calls[b].report \in Reports
  BY <1>4 DEF Placement, Pending, Record, RecordOf
<1>6. \A b \in Calls : results'[b] = IF b = c THEN result ELSE results[b]
  BY <1>2 DEF Types
<1> DEFINE q == calls[c].report
<1>7. Inserted(q)' = IF result = "new" THEN Inserted(q) \union {c} ELSE Inserted(q)
  BY <1>1, <1>3, <1>4, <1>6 DEF Inserted
<1>8. \A r : r # q => Inserted(r)' = Inserted(r)
  BY <1>1, <1>3, <1>4, <1>6 DEF Inserted
<1>9. \A b \in Members(batch) : Authorized(b)' = Authorized(b)
  BY <1>3 DEF Authorized
<1>10. \A r \in Reports : stored[r] # Nil => Row(r) = stored[r]
  BY <1>3, RowsSeen
<1>11. ASSUME NEW r, Inserted(r)' = Inserted(r) PROVE Row(r)' = Row(r)
  BY <1>3, <1>11, RowStays
<1>12. CASE result = "new"
  <2>1. Insert(c) = "new" /\ Authorized(c) /\ HasCapacity(c)
    BY <1>2, <1>12 DEF Stored
  <2>2. Row(q) = Nil
    BY <2>1 DEF Insert
  <2>3. Inserted(q) = {} /\ stored[q] = Nil
    BY <1>4, <2>2, RowInserted, NilAssumption DEF Inserted
  <2>4. Row(q)' = c
    <3>1. Row(q)' \in {b \in Members(batch)' : results'[b] = "new" /\ calls'[b].report = q}
      BY <1>3, <1>7, <1>12 DEF Row, Inserted
    <3> QED BY <1>3, <1>7, <1>12, <2>3, <3>1 DEF Inserted
  <2>5. \A r : r # q => Row(r)' = Row(r)
    BY <1>8, <1>11
  <2>6. ASSUME NEW b \in Members(batch) PROVE Found(b)'
    <3>1. CASE b = c
      BY <1>3, <1>4, <1>6, <1>9, <1>12, <2>1, <2>3, <3>1 DEF Found
    <3>2. CASE b # c /\ calls[b].report = q
      <4>1. results'[b] = results[b] /\ Found(b)
        BY <1>3, <1>4, <1>6, <3>2 DEF Transaction
      <4>2. results[b] \notin {"new", "duplicate", "conflict"}
        BY <2>2, <2>3, <3>2, <4>1 DEF Found, Inserted
      <4> QED BY <1>3, <1>9, <4>1, <4>2 DEF Found
    <3>3. CASE calls[b].report # q
      <4>1. results'[b] = results[b] /\ Found(b) /\ Row(calls[b].report)' = Row(calls[b].report)
        BY <1>3, <1>4, <1>6, <2>5, <3>3 DEF Transaction
      <4> QED BY <1>3, <1>9, <4>1 DEF Found
    <3> QED BY <3>1, <3>2, <3>3
  <2>7. ASSUME NEW a \in Members(batch), NEW b \in Members(batch),
               results'[a] = "new", results'[b] = "new", calls[a].report = calls[b].report
        PROVE  a = b
    BY <1>3, <1>4, <1>6, <2>3, <2>7 DEF Transaction, Inserted
  <2>8. ASSUME NEW h \in Hosts PROVE RowsOf(h)' <= HostRows
    <3> DEFINE before == {r \in Reports : Row(r) # Nil /\ calls[Row(r)].host = h}
    <3> DEFINE after == {r \in Reports : Row(r)' # Nil /\ calls[Row(r)'].host = h}
    <3>1. IsFiniteSet(before) /\ Cardinality(before) \in Nat
      BY FiniteAssumption, FS_Subset, FS_CardinalityType
    <3>2. after = IF calls[c].host = h THEN before \union {q} ELSE before
      <4>1. \A r \in Reports : r \in after <=> r \in before \/ (r = q /\ calls[c].host = h)
        BY <1>3, <1>4, <2>2, <2>4, <2>5, NilAssumption
      <4> QED BY <1>5, <4>1
    <3>3. q \notin before
      BY <2>2
    <3>4. Cardinality(before) <= HostRows
      BY <1>3 DEF Transaction, RowsOf
    <3>5. calls[c].host = h => Cardinality(before) < HostRows
      BY <2>1, <2>2 DEF HasCapacity, RowsOf
    <3>6. Cardinality(after) <= HostRows
      <4>1. Cardinality(before \union {q}) = Cardinality(before) + 1
        BY <3>1, <3>3, FS_AddElement
      <4>2. HostRows \in Nat
        BY ConfigAssumption
      <4> HIDE DEF before, after
      <4> QED BY <3>1, <3>2, <3>4, <3>5, <4>1, <4>2
    <3> QED BY <1>3, <3>6 DEF RowsOf
  <2> QED BY <1>3, <2>6, <2>7, <2>8 DEF Transaction
<1>13. CASE result # "new"
  <2>1. \A r : Row(r)' = Row(r)
    <3>1. ASSUME NEW r PROVE Inserted(r)' = Inserted(r)
      BY <1>3, <1>7, <1>8, <1>13
    <3> QED BY <3>1, <1>11
  <2>2. Found(c)'
    <3>1. Authorized(c) => result \in {"error", "exhausted", Insert(c)}
      BY <1>2 DEF Stored
    <3>2. ~Authorized(c) => result = "unauthorized"
      BY <1>2 DEF Stored
    <3>3. result = "exhausted" /\ Authorized(c) => Row(q) = Nil
      BY <1>2 DEF Stored, HasCapacity, Exhaustible, Insert
    <3>4. result = "exhausted" => stored[q] = Nil
      BY <1>5, <1>10, <3>2, <3>3
    <3>5. Insert(c) # "exhausted" /\ Insert(c) # "unauthorized"
      BY DEF Insert
    <3>6. results'[c] = result
      BY <1>4, <1>6
    <3> QED BY <1>3, <1>9, <1>13, <2>1, <3>1, <3>2, <3>4, <3>5, <3>6 DEF Found, Insert
  <2>3. ASSUME NEW b \in Members(batch), b # c PROVE Found(b)'
    <3>1. results'[b] = results[b] /\ Found(b)
      BY <1>3, <1>4, <1>6, <2>3 DEF Transaction
    <3> QED BY <1>3, <1>9, <2>1, <3>1 DEF Found
  <2>4. \A h \in Hosts : RowsOf(h)' = RowsOf(h)
    BY <1>3, <2>1 DEF RowsOf
  <2>5. \A b \in Members(batch) : results'[b] = "new" => results[b] = "new"
    BY <1>4, <1>6, <1>13
  <2> QED BY <1>3, <2>2, <2>3, <2>4, <2>5 DEF Transaction
<1> QED BY <1>12, <1>13

LEMMA TransactionStep ==
  ASSUME Types, Placement, Record, Transaction, CapacityKept, [Next]_vars
  PROVE  Transaction'
<1>1. CASE UNCHANGED vars
  BY <1>1, Undisturbed DEF vars, task, database
<1>2. ASSUME NEW c \in Calls, NEW h \in Hosts, NEW r \in Reports, Submit(c, h, r)
      PROVE  Transaction'
  <2>1. \A b \in Calls : calls[b].step # "idle" => calls'[b] = calls[b]
    BY <1>2 DEF Submit, Types
  <2> QED BY <1>2, <2>1, Undisturbed DEF Submit, task, database
<1>3. ASSUME NEW c \in Calls, Handler(c) PROVE Transaction'
  <2>1. UNCHANGED <<phase, batch, results, stored, token, live>>
    BY <1>3 DEF Handler, Reserve, Turned, Send, Receive, Deadline, task, database
  <2>2. \/ \E step : calls' = [calls EXCEPT ![c].step = step]
        \/ \E answer : Finish(c, answer)
    BY <1>3 DEF Handler, Reserve, Turned, Send, Receive, Deadline
  <2>3. \A b \in Calls : /\ calls'[b].host = calls[b].host
                         /\ calls'[b].report = calls[b].report
                         /\ calls'[b].token = calls[b].token
    <3>1. ASSUME NEW step, calls' = [calls EXCEPT ![c].step = step]
          PROVE  \A b \in Calls : /\ calls'[b].host = calls[b].host
                                  /\ calls'[b].report = calls[b].report
                                  /\ calls'[b].token = calls[b].token
      BY <3>1 DEF Types, Call
    <3>2. ASSUME NEW answer, Finish(c, answer)
          PROVE  \A b \in Calls : /\ calls'[b].host = calls[b].host
                                  /\ calls'[b].report = calls[b].report
                                  /\ calls'[b].token = calls[b].token
      BY <3>2 DEF Finish, Types, Call
    <3> QED BY <2>2, <3>1, <3>2
  <2> QED BY <2>1, <2>3, Undisturbed
<1>4. CASE Top \/ Select \/ First \/ Notified \/ Stop \/ Collect \/ Gather
  <2>1. phase' # "transaction"
    BY <1>4 DEF Top, Select, First, Notified, Stop, Collect, Gather, Goto
  <2> QED BY <2>1 DEF Transaction
<1>5. CASE Begin
  BY <1>5, TransactionBegins
<1>6. CASE StoreReport
  BY <1>6, ReportStored
<1>7. CASE Commit \/ Fail \/ Close \/ Answer \/ Abort
  <2>1. phase' # "transaction"
    BY <1>7 DEF Commit, Fail, Close, Answer, Abort
  <2> QED BY <2>1 DEF Transaction
<1>8. CASE Shutdown
  BY <1>8, Undisturbed DEF Shutdown, database
<1>9. CASE \/ \E h \in Hosts : Revoke(h) \/ Reactivate(h)
           \/ \E r \in Reports : Remove(r)
  <2>1. phase' # "transaction"
    BY <1>9 DEF Revoke, Reactivate, Remove, Unlocked, task
  <2> QED BY <2>1 DEF Transaction
<1> QED BY <1>1, <1>2, <1>3, <1>4, <1>5, <1>6, <1>7, <1>8, <1>9 DEF Next, Writer

-----------------------------------------------------------------------------
(* How much there is.                                                      *)

LEMMA SizesInit == ASSUME Init PROVE Sizes /\ CapacityKept
<1>1. /\ queue = << >> /\ batch = << >> /\ held = {} /\ At("reserved") = {}
      /\ phase # "gather" /\ \A r \in Reports : stored[r] = Nil
  BY DEF Init, At
<1>2. \A h \in Hosts : /\ OfHost(held, h) = {}
                      /\ {r \in Reports : stored[r] # Nil /\ calls[stored[r]].host = h} = {}
  BY <1>1 DEF OfHost
<1>3. Len(queue) = 0 /\ Len(batch) = 0 /\ Cardinality({}) = 0
  BY <1>1, FS_EmptySet
<1>4. MaxPerHost \in Nat /\ HostRows \in Nat /\ BatchSize \in Nat /\ QueueCapacity \in Nat
  BY ConfigAssumption
<1>5. Slots <= QueueCapacity
  <2>1. Cardinality(At("reserved")) = 0
    BY <1>1, FS_EmptySet
  <2> QED BY <1>3, <1>4, <2>1 DEF Slots
<1>6. \A h \in Hosts : Cardinality(OfHost(held, h)) <= MaxPerHost
  BY <1>2, <1>3, <1>4
<1>7. CapacityKept
  <2> DEFINE of(h) == {r \in Reports : stored[r] # Nil /\ calls[stored[r]].host = h}
  <2>1. \A h \in Hosts : of(h) = {}
    BY <1>2
  <2> HIDE DEF of
  <2>2. \A h \in Hosts : Cardinality(of(h)) = 0
    BY <2>1, FS_EmptySet
  <2>3. \A h \in Hosts : Cardinality(of(h)) <= HostRows
    BY <1>4, <2>2
  <2> QED BY <2>3 DEF CapacityKept, of
<1> QED BY <1>1, <1>3, <1>4, <1>5, <1>6, <1>7 DEF Sizes

\* The share of a host, while permits are only given back.
LEMMA ShareShrinks ==
  ASSUME Types, Sizes, held' \subseteq held,
         \A c \in held : calls'[c].host = calls[c].host
  PROVE  \A h \in Hosts : Cardinality(OfHost(held, h)') <= MaxPerHost
<1> SUFFICES ASSUME NEW h \in Hosts PROVE Cardinality(OfHost(held, h)') <= MaxPerHost
  OBVIOUS
<1>1. OfHost(held, h)' \subseteq OfHost(held, h)
  BY DEF OfHost
<1>2. IsFiniteSet(OfHost(held, h))
  BY FiniteAssumption, FS_Subset DEF OfHost, Types
<1>3. /\ Cardinality(OfHost(held, h)') <= Cardinality(OfHost(held, h))
      /\ Cardinality(OfHost(held, h)') \in Nat /\ Cardinality(OfHost(held, h)) \in Nat
  BY <1>1, <1>2, FS_Subset, FS_CardinalityType
<1> QED BY <1>3, ConfigAssumption DEF Sizes

\* The share, the channel and the batch are not touched by most steps.
LEMMA SizesStay ==
  ASSUME Types, Sizes, UNCHANGED <<calls, queue, batch>>, held' \subseteq held,
         phase' # "gather"
  PROVE  Sizes'
<1>1. \A h \in Hosts : Cardinality(OfHost(held, h)') <= MaxPerHost
  BY ShareShrinks
<1> QED BY <1>1 DEF Sizes, Slots, At

LEMMA HandlersSized ==
  ASSUME Types, Placement, Sizes,
         \/ \E c \in Calls, h \in Hosts, r \in Reports : Submit(c, h, r)
         \/ \E c \in Calls : Handler(c)
  PROVE  Sizes'
<1>0. /\ IsFiniteSet(At("reserved")) /\ Cardinality(At("reserved")) \in Nat
      /\ Len(queue) \in Nat /\ QueueCapacity \in Nat
      /\ \A h : IsFiniteSet(OfHost(held, h)) /\ Cardinality(OfHost(held, h)) \in Nat
  <2>1. At("reserved") \subseteq Calls /\ \A h : OfHost(held, h) \subseteq Calls
    BY DEF At, OfHost, Types
  <2>2. IsFiniteSet(At("reserved")) /\ \A h : IsFiniteSet(OfHost(held, h))
    BY <2>1, FiniteAssumption, FS_Subset
  <2> QED BY <2>2, FS_CardinalityType, LenProperties, ConfigAssumption DEF Types
<1>1. CASE \E c \in Calls, h \in Hosts, r \in Reports : Submit(c, h, r)
  <2>1. PICK c \in Calls, h \in Hosts, r \in Reports : Submit(c, h, r)
    BY <1>1
  <2>2. /\ c \notin held /\ calls[c].step = "idle"
        /\ calls'[c].host = h /\ calls'[c].step # "reserved"
        /\ \A b \in Calls : b # c => calls'[b] = calls[b]
        /\ UNCHANGED <<queue, batch, phase>>
    BY <2>1 DEF Submit, Placement, Pending, At, Types, task
  <2>3. At("reserved")' = At("reserved")
    BY <2>2 DEF At
  <2>4. ASSUME NEW g \in Hosts PROVE Cardinality(OfHost(held, g)') <= MaxPerHost
    <3>1. CASE held' = held
      <4>1. OfHost(held, g)' = OfHost(held, g)
        BY <2>2, <3>1 DEF OfHost, Types
      <4> QED BY <4>1 DEF Sizes
    <3>2. CASE held' = held \union {c} /\ Cardinality(OfHost(held, h)) < MaxPerHost
      <4>1. OfHost(held, g)' = IF g = h THEN OfHost(held, g) \union {c} ELSE OfHost(held, g)
        BY <2>2, <3>2 DEF OfHost, Types
      <4>2. CASE g = h
        <5>1. c \notin OfHost(held, h)
          BY <2>2 DEF OfHost
        <5>2. Cardinality(OfHost(held, h) \union {c}) = Cardinality(OfHost(held, h)) + 1
          BY <1>0, <5>1, FS_AddElement
        <5>3. OfHost(held, g)' = OfHost(held, h) \union {c}
          BY <4>1, <4>2
        <5>4. Cardinality(OfHost(held, g)') = Cardinality(OfHost(held, h)) + 1
          BY <5>2, <5>3
        <5>5. MaxPerHost \in Nat /\ Cardinality(OfHost(held, h)) \in Nat
          BY <1>0, ConfigAssumption
        <5> QED BY <3>2, <5>4, <5>5
      <4>3. CASE g # h
        BY <4>1, <4>3 DEF Sizes
      <4> QED BY <4>2, <4>3
    <3> QED BY <2>1, <3>1, <3>2 DEF Submit
  <2> QED BY <2>2, <2>3, <2>4 DEF Sizes, Slots
<1>2. ASSUME NEW c \in Calls, Reserve(c) PROVE Sizes'
  <2>1. At("reserved")' = At("reserved") \union {c} /\ c \notin At("reserved")
    BY <1>2 DEF Reserve, At, Types, Call
  <2>2. Cardinality(At("reserved")') = Cardinality(At("reserved")) + 1
    BY <1>0, <2>1, FS_AddElement
  <2>3. \A b \in held : calls'[b].host = calls[b].host
    BY <1>2 DEF Reserve, Types, Call
  <2>4. \A g \in Hosts : Cardinality(OfHost(held, g)') <= MaxPerHost
    BY <1>2, <2>3, ShareShrinks DEF Reserve
  <2>5. Slots' <= QueueCapacity
    BY <1>0, <1>2, <2>2 DEF Reserve, Slots
  <2> QED BY <1>2, <2>4, <2>5 DEF Sizes, Reserve, task
<1>3. ASSUME NEW c \in Calls, Turned(c) \/ Receive(c) \/ Deadline(c) PROVE Sizes'
  <2>1. PICK answer : Finish(c, answer)
    BY <1>3 DEF Turned, Receive, Deadline
  <2>2. /\ UNCHANGED <<queue, batch, phase>> /\ held' \subseteq held
        /\ calls[c].step # "reserved"
    BY <1>3 DEF Turned, Receive, Deadline, HeldAfterDeadline, task
  <2>3. At("reserved")' = At("reserved")
    BY <2>1, <2>2 DEF Finish, At, Types, Call
  <2>4. \A b \in held : calls'[b].host = calls[b].host
    BY <2>1 DEF Finish, Types, Call
  <2>5. \A g \in Hosts : Cardinality(OfHost(held, g)') <= MaxPerHost
    BY <2>2, <2>4, ShareShrinks
  <2> QED BY <2>2, <2>3, <2>5 DEF Sizes, Slots
<1>4. ASSUME NEW c \in Calls, Send(c) PROVE Sizes'
  <2>1. At("reserved")' = At("reserved") \ {c} /\ c \in At("reserved")
    BY <1>4 DEF Send, At, Types, Call
  <2>2. Cardinality(At("reserved")') = Cardinality(At("reserved")) - 1
    BY <1>0, <2>1, FS_RemoveElement
  <2>3. Len(queue') = Len(queue) + 1
    BY <1>4, AppendProperties DEF Send, Types
  <2>4. \A b \in held : calls'[b].host = calls[b].host
    BY <1>4 DEF Send, Types, Call
  <2>5. \A g \in Hosts : Cardinality(OfHost(held, g)') <= MaxPerHost
    BY <1>4, <2>4, ShareShrinks DEF Send
  <2>6. Slots' <= QueueCapacity
    BY <1>0, <2>2, <2>3 DEF Slots, Sizes
  <2> QED BY <1>4, <2>5, <2>6 DEF Sizes, Send, task
<1> QED BY <1>1, <1>2, <1>3, <1>4 DEF Handler

LEMMA TaskSized ==
  ASSUME Types, Placement, Sizes, Writer
  PROVE  Sizes'
<1>0. /\ QueueCapacity \in Nat /\ BatchSize \in Nat \ {0} /\ Len(batch) \in Nat
      /\ Len(queue) \in Nat /\ Cardinality(At("reserved")) \in Nat
  <2>1. IsFiniteSet(At("reserved"))
    BY FiniteAssumption, FS_Subset DEF At
  <2> QED BY <2>1, FS_CardinalityType, LenProperties, ConfigAssumption DEF Types
<1>1. ASSUME Take, queue # << >>, Len(batch) < BatchSize, UNCHANGED <<calls, held>>,
             phase' # "gather"
      PROVE  Sizes'
  <2>1. Len(queue') = Len(queue) - 1 /\ Len(batch') = Len(batch) + 1
    BY <1>1, Taken DEF Placement
  <2>2. \A h \in Hosts : Cardinality(OfHost(held, h)') <= MaxPerHost
    BY <1>1, ShareShrinks
  <2>3. At("reserved")' = At("reserved")
    BY <1>1 DEF At
  <2> QED BY <1>0, <1>1, <2>1, <2>2, <2>3 DEF Sizes, Slots
<1>2. CASE Top \/ Select \/ Notified \/ Stop \/ Begin \/ StoreReport \/ Commit \/ Fail \/ Close
  <2>1. UNCHANGED <<calls, queue, batch, held>>
    BY <1>2 DEF Top, Select, Notified, Stop, Begin, StoreReport, Commit, Fail, Close, Leave, Persist
  <2>2. phase' # "gather"
    BY <1>2 DEF Top, Select, Notified, Stop, Begin, StoreReport, Commit, Fail, Close, Goto
  <2> QED BY <2>1, <2>2, SizesStay
<1>3. CASE First
  <2>1. batch = << >>
    BY <1>3 DEF First, Placement, Quiet
  <2>2. Len(batch) < BatchSize
    BY <1>0, <2>1, EmptySeq
  <2>3. phase' # "gather"
    BY <1>3 DEF First, Goto
  <2> QED BY <1>1, <1>3, <2>2, <2>3 DEF First, Leave
<1>4. CASE Collect
  <2>1. CASE closed' /\ queue # << >> /\ Room
    <3>1. phase' # "gather"
      BY <1>4, <2>1 DEF Collect, Goto
    <3> QED BY <1>1, <1>4, <2>1, <3>1 DEF Collect, Leave, Room
  <2>2. CASE ~(closed' /\ queue # << >> /\ Room)
    <3>1. UNCHANGED <<calls, queue, batch, held>>
      BY <1>4, <2>2 DEF Collect, Leave
    <3>2. phase' = "gather" => Room
      BY <1>4, <2>2 DEF Collect, Goto
    <3>3. \A h \in Hosts : Cardinality(OfHost(held, h)') <= MaxPerHost
      BY <3>1, ShareShrinks
    <3> QED BY <3>1, <3>2, <3>3 DEF Sizes, Slots, At, Room
  <2> QED BY <2>1, <2>2
<1>5. CASE Gather
  <2>1. Len(batch) < BatchSize /\ phase' # "gather"
    BY <1>5 DEF Gather, Goto, Sizes
  <2>2. CASE queue # << >> /\ Take
    BY <1>1, <1>5, <2>1, <2>2 DEF Gather, Leave
  <2>3. CASE UNCHANGED <<queue, batch>>
    BY <1>5, <2>1, <2>3, SizesStay DEF Gather, Leave
  <2> QED BY <1>5, <2>2, <2>3 DEF Gather
<1>6. CASE Answer
  <2>1. Len(batch') = Len(batch) - 1
    BY <1>6, HeadTailProperties DEF Answer, Types
  <2>2. held' \subseteq held /\ UNCHANGED <<calls, queue>> /\ phase' # "gather"
    BY <1>6 DEF Answer
  <2>3. \A h \in Hosts : Cardinality(OfHost(held, h)') <= MaxPerHost
    BY <2>2, ShareShrinks
  <2>4. At("reserved")' = At("reserved")
    BY <2>2 DEF At
  <2> QED BY <1>0, <2>1, <2>2, <2>3, <2>4 DEF Sizes, Slots
<1> QED BY <1>2, <1>3, <1>4, <1>5, <1>6 DEF Writer

LEMMA OthersSized ==
  ASSUME Types, Placement, Sizes,
         \/ Shutdown \/ Abort
         \/ \E h \in Hosts : Revoke(h) \/ Reactivate(h)
         \/ \E r \in Reports : Remove(r)
  PROVE  Sizes'
<1>1. CASE Abort
  <2>0. /\ QueueCapacity \in Nat /\ BatchSize \in Nat \ {0} /\ Len(queue) \in Nat
        /\ Cardinality(At("reserved")) \in Nat
    <3>1. IsFiniteSet(At("reserved"))
      BY FiniteAssumption, FS_Subset DEF At
    <3> QED BY <3>1, FS_CardinalityType, LenProperties, ConfigAssumption DEF Types
  <2>1. /\ held' \subseteq held /\ UNCHANGED calls /\ phase' = "aborted"
        /\ Len(queue') = 0 /\ Len(batch') = 0
    BY <1>1, EmptySeq DEF Abort
  <2>2. \A h \in Hosts : Cardinality(OfHost(held, h)') <= MaxPerHost
    BY <2>1, ShareShrinks
  <2>3. At("reserved")' = At("reserved")
    BY <2>1 DEF At
  <2> QED BY <2>0, <2>1, <2>2, <2>3 DEF Sizes, Slots
<1>2. CASE \/ Shutdown
           \/ \E h \in Hosts : Revoke(h) \/ Reactivate(h)
           \/ \E r \in Reports : Remove(r)
  <2>1. UNCHANGED <<calls, queue, batch, held, phase>>
    BY <1>2 DEF Shutdown, Revoke, Reactivate, Remove, task
  <2>2. \A h \in Hosts : Cardinality(OfHost(held, h)') <= MaxPerHost
    BY <2>1, ShareShrinks
  <2> QED BY <2>1, <2>2 DEF Sizes, Slots, At
<1> QED BY <1>1, <1>2

\* The rows of a host were counted in the transaction.
LEMMA CapacityStep ==
  ASSUME Inv, [Next]_vars
  PROVE  CapacityKept'
<1> DEFINE of(h) == {r \in Reports : stored[r] # Nil /\ calls[stored[r]].host = h}
<1>1. ASSUME \A r \in Reports : stored'[r] \in {stored[r], Nil},
             \A c \in Calls : calls[c].step # "idle" => calls'[c].host = calls[c].host
      PROVE  CapacityKept'
  <2>1. ASSUME NEW h \in Hosts PROVE Cardinality(of(h)') <= HostRows
    <3>1. of(h)' \subseteq of(h)
      BY <1>1 DEF Inv, Types, Record
    <3>2. IsFiniteSet(of(h))
      BY FiniteAssumption, FS_Subset
    <3>3. Cardinality(of(h)) <= HostRows
      BY DEF Inv, CapacityKept
    <3> HIDE DEF of
    <3>4. /\ Cardinality(of(h)') <= Cardinality(of(h))
          /\ Cardinality(of(h)') \in Nat /\ Cardinality(of(h)) \in Nat
      BY <3>1, <3>2, FS_Subset, FS_CardinalityType
    <3> QED BY <3>3, <3>4, ConfigAssumption
  <2> QED BY <2>1 DEF CapacityKept
<1>2. CASE Commit
  <2>1. \A r \in Reports : stored'[r] = Row(r)
    BY <1>2 DEF Commit
  <2>2. calls' = calls /\ \A h \in Hosts : RowsOf(h) <= HostRows
    BY <1>2 DEF Commit, Persist, Inv, Transaction
  <2>3. ASSUME NEW h \in Hosts
        PROVE  of(h)' = {r \in Reports : Row(r) # Nil /\ calls[Row(r)].host = h}
    BY <2>1, <2>2
  <2> QED BY <2>2, <2>3 DEF CapacityKept, RowsOf
<1>3. CASE UNCHANGED <<calls, stored>>
  BY <1>1, <1>3
<1>4. ASSUME NEW c \in Calls, NEW h \in Hosts, NEW r \in Reports, Submit(c, h, r)
      PROVE  CapacityKept'
  <2>1. /\ UNCHANGED stored
        /\ \A b \in Calls : calls[b].step # "idle" => calls'[b] = calls[b]
    BY <1>4 DEF Submit, database, Inv, Types
  <2> QED BY <1>1, <2>1
<1>5. ASSUME NEW c \in Calls, Handler(c) PROVE CapacityKept'
  <2>1. UNCHANGED stored
    BY <1>5 DEF Handler, Reserve, Turned, Send, Receive, Deadline, database
  <2>2. CASE \E answer : Finish(c, answer)
    BY <1>1, <2>1, <2>2 DEF Finish, Inv, Types, Call
  <2>3. CASE Reserve(c) \/ Send(c)
    <3>0. \E step : calls' = [calls EXCEPT ![c].step = step]
      BY <2>3 DEF Reserve, Send
    <3>1. \A b \in Calls : calls'[b].host = calls[b].host
      BY <3>0 DEF Inv, Types, Call
    <3> QED BY <1>1, <2>1, <3>1
  <2> QED BY <1>5, <2>2, <2>3 DEF Handler, Turned, Receive, Deadline
<1>6. ASSUME NEW r \in Reports, Remove(r) PROVE CapacityKept'
  <2>1. UNCHANGED calls /\ \A q \in Reports : stored'[q] \in {stored[q], Nil}
    BY <1>6 DEF Remove, Inv, Types
  <2> QED BY <1>1, <2>1
<1>7. CASE UNCHANGED vars
  BY <1>3, <1>7 DEF vars, database
<1>8. CASE \/ Top \/ Select \/ First \/ Notified \/ Stop \/ Collect \/ Gather
           \/ Begin \/ StoreReport \/ Fail \/ Close \/ Answer \/ Shutdown \/ Abort
           \/ \E h \in Hosts : Revoke(h) \/ Reactivate(h)
  <2>1. UNCHANGED <<calls, stored>>
    BY <1>8 DEF Top, Select, First, Notified, Stop, Collect, Gather, Begin, StoreReport, Fail,
                Close, Answer, Shutdown, Abort, Revoke, Reactivate, Leave, Persist, database
  <2> QED BY <1>3, <2>1
<1> QED BY <1>2, <1>4, <1>5, <1>6, <1>7, <1>8 DEF Next, Writer

-----------------------------------------------------------------------------
(* The invariant holds.                                                    *)

LEMMA InvInit == ASSUME Init PROVE Inv
<1>1. Transaction
  BY DEF Init, Transaction
<1> QED BY <1>1, TypesInit, PlacementInit, RecordInit, SizesInit DEF Inv

LEMMA Stutter == ASSUME Inv, UNCHANGED vars PROVE Types' /\ Placement' /\ Record' /\ Sizes'
<1>1. /\ UNCHANGED <<calls, held, queue, closed, requested, notified, phase, batch, results,
                     response, stored, token, live, fate>>
  BY DEF vars, task, database
<1>2. Types' BY <1>1 DEF Inv, Types
<1>3. Placement' BY <1>1 DEF Inv, Placement, Pending, At
<1>4. Record' BY <1>1 DEF Inv, Record, RecordOf
<1>5. Sizes' BY <1>1 DEF Inv, Sizes, Slots, At, OfHost
<1> QED BY <1>2, <1>3, <1>4, <1>5

LEMMA InvStep == ASSUME Inv, [Next]_vars PROVE Inv'
<1> USE DEF Inv
<1>1. Transaction' /\ CapacityKept'
  BY TransactionStep, CapacityStep
<1>2. Types' /\ Placement' /\ Record' /\ Sizes'
  <2>1. CASE UNCHANGED vars
    BY <2>1, Stutter
  <2>2. CASE \/ \E c \in Calls, h \in Hosts, r \in Reports : Submit(c, h, r)
             \/ \E c \in Calls : Handler(c)
    <3>1. \A c \in Calls : RecordOf(c)
      BY DEF Record
    <3> QED BY <2>2, <3>1, HandlersType, HandlersPlaced, HandlersRecorded, HandlersSized
  <2>3. CASE Top \/ Select \/ First \/ Notified \/ Stop \/ Collect \/ Gather
    <3>1. Sizes'
      BY <2>3, TaskSized DEF Writer
    <3>2. Types'
      BY <2>3, TaskType DEF Placement
    <3> QED BY <2>3, <3>1, <3>2, TaskPlaced, TaskRecorded
  <2>4. CASE Begin \/ StoreReport \/ Commit \/ Fail \/ Close \/ Answer
    <3>1. Sizes'
      BY <2>4, TaskSized DEF Writer
    <3>2. Types' /\ Placement'
      BY <2>4, BatchType, BatchPlaced DEF Placement, Record
    <3> QED BY <2>4, <3>1, <3>2, BatchRecorded
  <2>5. CASE \/ Shutdown \/ Abort
             \/ \E h \in Hosts : Revoke(h) \/ Reactivate(h)
             \/ \E r \in Reports : Remove(r)
    BY <2>5, OthersType, OthersPlaced, OthersRecorded, OthersSized
  <2> QED BY <2>1, <2>2, <2>3, <2>4, <2>5 DEF Next, Writer
<1> QED BY <1>1, <1>2

LEMMA Invariance == Spec => []Inv
BY InvInit, InvStep, PTL DEF Spec

-----------------------------------------------------------------------------
(* What the runs check.                                                    *)

\* The channel, the batch and the share of every host are within their bounds.
THEOREM QueueIsBounded == Spec => []QueueBounded
<1>1. ASSUME Inv PROVE TypeOK
  <2>1. Cardinality(Pending) = Len(queue) + Len(batch)
    <3>1. /\ IsFiniteSet(Members(queue)) /\ Cardinality(Members(queue)) = Len(queue)
          /\ IsFiniteSet(Members(batch)) /\ Cardinality(Members(batch)) = Len(batch)
      BY <1>1, SizeOfMembers DEF Inv, Types, Placement
    <3>2. Cardinality(Members(queue) \cap Members(batch)) = 0
      BY <1>1, FS_EmptySet DEF Inv, Placement
    <3>3. Cardinality(Members(queue) \union Members(batch)) =
            Cardinality(Members(queue)) + Cardinality(Members(batch))
              - Cardinality(Members(queue) \cap Members(batch))
      BY <3>1, FS_Union
    <3>4. Len(queue) \in Nat /\ Len(batch) \in Nat
      BY <1>1, LenProperties DEF Inv, Types
    <3> QED BY <3>1, <3>2, <3>3, <3>4 DEF Pending
  <2> QED BY <1>1, <2>1 DEF Inv, Types, Sizes, Slots, TypeOK
<1>2. ASSUME Inv PROVE HostShareBounded
  <2>1. ASSUME NEW h \in Hosts
        PROVE  Cardinality(OfHost(Pending \union At("reserved"), h)) <= MaxPerHost
    <3>1. OfHost(Pending \union At("reserved"), h) \subseteq OfHost(held, h)
      BY <1>2 DEF Inv, Placement, OfHost
    <3>2. IsFiniteSet(OfHost(held, h))
      BY <1>2, FiniteAssumption, FS_Subset DEF Inv, Types, OfHost
    <3>3. /\ Cardinality(OfHost(Pending \union At("reserved"), h)) <= Cardinality(OfHost(held, h))
          /\ Cardinality(OfHost(Pending \union At("reserved"), h)) \in Nat
          /\ Cardinality(OfHost(held, h)) \in Nat
      BY <3>1, <3>2, FS_Subset, FS_CardinalityType
    <3> QED BY <1>2, <3>3, ConfigAssumption DEF Inv, Sizes
  <2> QED BY <2>1 DEF HostShareBounded
<1> QED BY <1>1, <1>2, Invariance, PTL DEF QueueBounded

\* When the task has stopped, nothing waits for it and everybody was answered.
THEOREM StopAnswersAll == Spec => []GracefulStopAnswersAll
<1>1. ASSUME Inv PROVE GracefulStopAnswersAll
  <2> SUFFICES ASSUME phase = "stopped"
               PROVE  /\ Pending = {}
                      /\ \A c \in Calls : calls[c].step \in {"reserved", "waiting"} =>
                           response[c] \notin {"none", "dropped"}
    BY DEF GracefulStopAnswersAll
  <2>1. Pending = {}
    BY <1>1, EmptyMembers DEF Inv, Placement, Pending, Quiet
  <2> QED BY <1>1, <2>1 DEF Inv, Placement, At
<1> QED BY <1>1, Invariance, PTL

\* No host has more rows than its limit.
THEOREM CapacityIsKept == Spec => []CapacityKept
<1>1. Inv => CapacityKept
  BY DEF Inv
<1> QED BY <1>1, Invariance, PTL

\* Rows and the fate of reports change in few actions only.
LEMMA ChangesOfRows ==
  ASSUME Inv, [Next]_vars
  PROVE  \/ Commit
         \/ \A r \in Reports : stored'[r] \in {stored[r], Nil}
BY DEF Inv, Types, Next, Submit, Handler, Reserve, Turned, Send, Receive, Deadline, Writer, Top,
       Select, First, Notified, Stop, Collect, Gather, Begin, StoreReport, Fail, Close, Answer,
       Shutdown, Abort, Revoke, Reactivate, Remove, Leave, Persist, vars, database

LEMMA ChangesOfFate ==
  ASSUME Inv, [Next]_vars, NEW c \in Calls, fate[c] = "open", fate'[c] = "kept"
  PROVE  Commit
BY DEF Inv, Types, Next, Submit, Handler, Reserve, Turned, Send, Receive, Deadline, Writer, Top,
       Select, First, Notified, Stop, Collect, Gather, Begin, StoreReport, Fail, Close, Answer,
       Shutdown, Abort, Revoke, Reactivate, Remove, Leave, Persist, vars, Voided

\* What a commit stores is what was there, or what a report of the batch inserted.
LEMMA Committed ==
  ASSUME Inv, Commit, NEW r \in Reports
  PROVE  /\ stored'[r] = Row(r)
         /\ stored[r] # Nil => Row(r) = stored[r]
         /\ \/ Row(r) = stored[r]
            \/ /\ Row(r) \in Members(batch) /\ Row(r) \in Calls
               /\ results[Row(r)] = "new" /\ calls[Row(r)].report = r
<1>1. Members(batch) \subseteq Calls
  BY MembersType DEF Inv, Types
<1>2. phase = "transaction" /\ stored'[r] = Row(r)
  BY DEF Commit
<1> QED BY <1>1, <1>2, RowsSeen, RowInserted DEF Inserted, Inv

\* A row keeps the call that inserted it until it is removed.
THEOREM RowsStayTheirs == Spec => OriginalRowKept
<1>1. ASSUME Inv, [Next]_vars, NEW r \in Reports, stored[r] # Nil
      PROVE  stored'[r] \in {stored[r], Nil}
  BY <1>1, ChangesOfRows, Committed
<1>2. Inv /\ [Next]_vars =>
        [\A r \in Reports : stored[r] # Nil => stored'[r] \in {stored[r], Nil}]_vars
  BY <1>1
<1> QED BY <1>2, Invariance, PTL DEF Spec, OriginalRowKept

\* What is stored was sent under the token that is live at the commit.
THEOREM StoredUnderLive == Spec => StoredUnderLiveToken
<1>1. ASSUME Inv, [Next]_vars, NEW r \in Reports, stored'[r] \notin {stored[r], Nil}
      PROVE  LET call == calls[stored'[r]] IN
             call.report = r /\ live[call.host] /\ token[call.host] = call.token
  <2>1. Commit
    BY <1>1, ChangesOfRows
  <2>2. /\ stored'[r] \in Members(batch) /\ results[stored'[r]] = "new"
        /\ calls[stored'[r]].report = r
    BY <1>1, <2>1, Committed
  <2>3. Authorized(stored'[r])
    BY <1>1, <2>1, <2>2 DEF Commit, Inv, Transaction, Found
  <2> QED BY <2>2, <2>3 DEF Authorized
<1>2. Inv /\ [Next]_vars =>
        [\A r \in Reports : stored'[r] \notin {stored[r], Nil} =>
           LET call == calls[stored'[r]] IN
           call.report = r /\ live[call.host] /\ token[call.host] = call.token]_vars
  BY <1>1
<1> QED BY <1>2, Invariance, PTL DEF Spec, StoredUnderLiveToken

\* A receipt is given for a row of the client's own, and a repeated report gets
\* its receipt at capacity too.
THEOREM ReceiptsAreTrue == Spec => ReceiptsTrue
<1>0. ASSUME NEW c \in Members(batch), Inv PROVE c \in Calls /\ calls[c].report \in Reports
  BY <1>0, MembersType DEF Inv, Types, Placement, Pending, Record, RecordOf
<1>1. ASSUME Inv, [Next]_vars, NEW c \in Calls, fate[c] = "open", fate'[c] = "kept"
      PROVE  LET row == stored'[calls[c].report] IN
             row # Nil /\ calls[row].host = calls[c].host
  <2>1. Commit
    BY <1>1, ChangesOfFate
  <2>2. c \in Members(batch) /\ results[c] \in {"new", "duplicate"}
    BY <1>1, <2>1 DEF Commit
  <2>3. stored'[calls[c].report] = Row(calls[c].report)
    BY <1>0, <1>1, <2>1, <2>2, Committed
  <2>4. phase = "transaction"
    BY <2>1 DEF Commit
  <2>5. CASE results[c] = "new"
    <3>1. Row(calls[c].report) = c
      BY <1>1, <2>2, <2>4, <2>5, RowsSeen DEF Inv
    <3> QED BY <2>3, <3>1, NilAssumption
  <2>6. CASE results[c] = "duplicate"
    BY <1>1, <2>2, <2>3, <2>4, <2>6 DEF Inv, Transaction, Found
  <2> QED BY <2>2, <2>5, <2>6
<1>2. ASSUME Inv, [Next]_vars, phase = "transaction", phase' = "committed",
             NEW c \in Members(batch),
             stored[calls[c].report] # Nil,
             calls[stored[calls[c].report]].host = calls[c].host,
             Authorized(c), results[c] # "error"
      PROVE  fate'[c] = "kept"
  <2>1. Commit
    BY <1>2 DEF Next, Submit, Handler, Reserve, Turned, Send, Receive, Deadline, Writer, Top,
       Select, First, Notified, Stop, Collect, Gather, Begin, StoreReport, Fail, Close, Answer,
       Shutdown, Abort, Revoke, Reactivate, Remove, vars, task, Goto
  <2>2. Row(calls[c].report) = stored[calls[c].report]
    BY <1>0, <1>2, <2>1, Committed
  <2>3. Found(c)
    BY <1>2 DEF Inv, Transaction
  <2>4. results[c] \in Outcomes /\ results[c] # "none"
    BY <1>0, <1>2, <2>1 DEF Inv, Types, Commit
  <2>5. results[c] \in {"new", "duplicate"}
    BY <1>2, <2>2, <2>3, <2>4 DEF Found, Outcomes
  <2> QED BY <1>0, <1>2, <2>1, <2>5 DEF Commit
<1>3. Inv /\ [Next]_vars =>
        [\A c \in Calls : fate[c] = "open" /\ fate'[c] = "kept" =>
           LET row == stored'[calls[c].report] IN
           row # Nil /\ calls[row].host = calls[c].host]_vars
  BY <1>1
<1>4. Spec => KeptIsOwnRow
  BY <1>3, Invariance, PTL DEF Spec, KeptIsOwnRow
<1>5. Inv /\ [Next]_vars =>
        [phase = "transaction" /\ phase' = "committed" =>
           \A c \in Members(batch) :
             LET row == stored[calls[c].report] IN
             row # Nil /\ calls[row].host = calls[c].host /\ Authorized(c) /\ results[c] # "error"
               => fate'[c] = "kept"]_vars
  BY <1>2
<1>6. Spec => ReceiptsUsable
  BY <1>5, Invariance, PTL DEF Spec, ReceiptsUsable
<1> QED BY <1>4, <1>6 DEF ReceiptsTrue
-----------------------------------------------------------------------------
(* The writer implements ReportDelivery.                                   *)

Sayings == [c \in Calls |-> Said(c)]

LEMMA AnswersStay ==
  ASSUME \A c \in Calls : calls'[c].answer = calls[c].answer
  PROVE  UNCHANGED Sayings
BY DEF Sayings, Said

LEMMA AnswerGiven ==
  ASSUME NEW c \in Calls, \A b \in Calls : b # c => calls'[b] = calls[b]
  PROVE  Sayings' = [Sayings EXCEPT ![c] = Said(c)']
BY DEF Sayings, Said

\* A call that ends before its report is in the channel.
LEMMA Refused ==
  ASSUME NEW c \in Calls, fate \in [Calls -> {"open", "kept", "void"}],
         calls[c].answer = "none", fate[c] = "open",
         \A b \in Calls : b # c => calls'[b] = calls[b],
         calls'[c].answer \in {"full", "unavailable"}, fate' = Voided({c})
  PROVE  Delivery!Next
<1>1. Sayings' = [Sayings EXCEPT ![c] = Said(c)'] /\ Sayings[c] = "none"
  BY AnswerGiven DEF Sayings, Said
<1>2. Said(c)' \in {"refused", "unknown"}
  BY DEF Said
<1>3. fate' = [fate EXCEPT ![c] = "void"]
  BY DEF Voided
<1> QED BY <1>1, <1>2, <1>3 DEF Sayings, Delivery!Next, Delivery!Refuse

\* The answer of a call whose report was, or still is, with the writer.
LEMMA Replied ==
  ASSUME NEW c \in Calls, calls[c].answer = "none", UNCHANGED fate,
         \A b \in Calls : b # c => calls'[b] = calls[b],
         calls'[c].answer \in Outcomes \union {"unavailable", "deadline"},
         Told(fate[c], calls'[c].answer)
  PROVE  Delivery!Next
<1>1. Sayings' = [Sayings EXCEPT ![c] = Said(c)'] /\ Sayings[c] = "none"
  BY AnswerGiven DEF Sayings, Said
<1>2. /\ Said(c)' \in {"accepted", "rejected", "unknown"}
      /\ Said(c)' = "accepted" => fate[c] = "kept"
      /\ Said(c)' = "rejected" => fate[c] = "void"
  BY DEF Said, Told, Outcomes
<1> QED BY <1>1, <1>2 DEF Sayings, Delivery!Next, Delivery!Reply

\* Reports that are decided together.
LEMMA Decided ==
  ASSUME UNCHANGED calls, NEW kept \in SUBSET Calls, NEW void \in SUBSET Calls,
         kept \cap void = {}, \A c \in kept \union void : fate[c] = "open",
         fate \in [Calls -> {"open", "kept", "void"}],
         fate' = [c \in Calls |-> IF c \in kept THEN "kept"
                                  ELSE IF c \in void THEN "void" ELSE fate[c]]
  PROVE  [Delivery!Next]_(Delivery!vars)
<1>1. UNCHANGED Sayings
  BY AnswersStay
<1>2. CASE kept \union void = {}
  <2>1. \A c \in Calls : fate'[c] = fate[c]
    BY <1>2
  <2>2. fate' = fate
    BY <2>1
  <2> QED BY <1>1, <2>2 DEF Sayings, Delivery!vars
<1>3. CASE kept \union void # {}
  <2>1. Delivery!Settle(kept, void)
    BY <1>1, <1>3 DEF Sayings, Delivery!Settle
  <2> QED BY <2>1 DEF Delivery!Next
<1> QED BY <1>2, <1>3

LEMMA DeliveryStep ==
  ASSUME Inv, [Next]_vars
  PROVE  [Delivery!Next]_(Delivery!vars)
<1> USE DEF Inv
<1>0. fate \in [Calls -> {"open", "kept", "void"}]
  BY DEF Types
<1>1. ASSUME NEW c \in Calls, NEW h \in Hosts, NEW r \in Reports, Submit(c, h, r)
      PROVE  [Delivery!Next]_(Delivery!vars)
  <2>1. /\ calls[c].step = "idle" /\ calls[c].answer = "none" /\ fate[c] = "open"
        /\ \A b \in Calls : b # c => calls'[b] = calls[b]
    BY <1>1 DEF Submit, Types, Record, RecordOf
  <2>2. CASE calls'[c].answer = "full" /\ fate' = Voided({c})
    BY <1>0, <2>1, <2>2, Refused
  <2>3. CASE calls'[c].answer = "none" /\ fate' = fate
    <3>1. \A b \in Calls : calls'[b].answer = calls[b].answer
      BY <2>1, <2>3
    <3> QED BY <2>3, <3>1, AnswersStay DEF Sayings, Delivery!vars
  <2> QED BY <1>1, <2>2, <2>3 DEF Submit, Types
<1>2. ASSUME NEW c \in Calls, Reserve(c) \/ Send(c)
      PROVE  [Delivery!Next]_(Delivery!vars)
  <2>1. UNCHANGED fate /\ \E step : calls' = [calls EXCEPT ![c].step = step]
    BY <1>2 DEF Reserve, Send
  <2>2. \A b \in Calls : calls'[b].answer = calls[b].answer
    BY <2>1 DEF Types, Call
  <2> QED BY <2>1, <2>2, AnswersStay DEF Sayings, Delivery!vars
<1>3. ASSUME NEW c \in Calls, Turned(c)
      PROVE  [Delivery!Next]_(Delivery!vars)
  <2>1. PICK said \in {"unavailable", "full"} : Finish(c, said)
    BY <1>3 DEF Turned
  <2>2. /\ calls[c].answer = "none" /\ fate[c] = "open" /\ fate' = Voided({c})
    BY <1>3 DEF Turned, Record, RecordOf
  <2>3. calls'[c].answer = said /\ \A b \in Calls : b # c => calls'[b] = calls[b]
    BY <2>1 DEF Finish, Types, Call
  <2> QED BY <1>0, <2>2, <2>3, Refused
<1>4. ASSUME NEW c \in Calls, Receive(c) \/ Deadline(c)
      PROVE  [Delivery!Next]_(Delivery!vars)
  <2>1. PICK said \in Outcomes \union {"unavailable", "deadline"} :
          Finish(c, said) /\ Told(fate[c], said)
    <3>1. CASE Receive(c)
      BY <3>1 DEF Receive, Types, Record, RecordOf, Told
    <3>2. CASE Deadline(c)
      BY <3>2 DEF Deadline, Told
    <3> QED BY <1>4, <3>1, <3>2
  <2>2. calls[c].answer = "none" /\ UNCHANGED fate
    BY <1>4 DEF Receive, Deadline, Record, RecordOf
  <2>3. calls'[c].answer = said /\ \A b \in Calls : b # c => calls'[b] = calls[b]
    BY <2>1 DEF Finish, Types, Call
  <2> QED BY <2>1, <2>2, <2>3, Replied
<1>5. CASE Commit
  <2> DEFINE kept == {c \in Members(batch) : results[c] \in {"new", "duplicate"}}
             void == Members(batch) \ kept
  <2>1. Members(batch) \subseteq Calls
    BY MembersType DEF Types
  <2>2. UNCHANGED calls /\ phase = "transaction"
    BY <1>5 DEF Commit, Persist
  <2>3. \A c \in Members(batch) : fate[c] = "open"
    BY <2>1, <2>2 DEF Record, RecordOf, Ended
  <2>4. fate' = [c \in Calls |-> IF c \in kept THEN "kept"
                                 ELSE IF c \in void THEN "void" ELSE fate[c]]
    BY <1>5, <2>1 DEF Commit
  <2>5. /\ kept \in SUBSET Calls /\ void \in SUBSET Calls /\ kept \cap void = {}
        /\ \A c \in kept \union void : fate[c] = "open"
    BY <2>1, <2>3
  <2> HIDE DEF kept, void
  <2> QED BY <1>0, <2>2, <2>4, <2>5, Decided
<1>6. ASSUME UNCHANGED calls, NEW lost \in SUBSET Calls, fate' = Voided(lost)
      PROVE  [Delivery!Next]_(Delivery!vars)
  <2> DEFINE void == {c \in lost : fate[c] = "open"}
             kept == {}
  <2>1. fate' = [c \in Calls |-> IF c \in kept THEN "kept"
                                 ELSE IF c \in void THEN "void" ELSE fate[c]]
    BY <1>6 DEF Voided
  <2>2. /\ kept \in SUBSET Calls /\ void \in SUBSET Calls /\ kept \cap void = {}
        /\ \A c \in kept \union void : fate[c] = "open"
    OBVIOUS
  <2> HIDE DEF kept, void
  <2> QED BY <1>0, <1>6, <2>1, <2>2, Decided
<1>7. CASE Fail \/ Abort
  <2>1. Members(queue) \union Members(batch) \in SUBSET Calls
    BY MembersType DEF Types
  <2>2. CASE Fail
    BY <1>6, <2>1, <2>2 DEF Fail, Persist
  <2>3. CASE Abort
    BY <1>6, <2>1, <2>3 DEF Abort
  <2> QED BY <1>7, <2>2, <2>3
<1>8. CASE \/ Top \/ Select \/ First \/ Notified \/ Stop \/ Collect \/ Gather
           \/ Begin \/ StoreReport \/ Close \/ Answer \/ Shutdown
           \/ \E h \in Hosts : Revoke(h) \/ Reactivate(h)
           \/ \E r \in Reports : Remove(r)
           \/ UNCHANGED vars
  <2>1. UNCHANGED <<calls, fate>>
    BY <1>8 DEF Top, Select, First, Notified, Stop, Collect, Gather, Begin, StoreReport, Close,
                Answer, Shutdown, Revoke, Reactivate, Remove, Leave, Persist, vars
  <2> QED BY <2>1, AnswersStay DEF Sayings, Delivery!vars
<1> QED BY <1>1, <1>2, <1>3, <1>4, <1>5, <1>7, <1>8 DEF Next, Handler, Writer

\* What the clients are told is what ReportDelivery allows: a receipt only of a
\* report that is kept, a rejection only of one that never will be.
THEOREM WriterDelivers == Spec => DeliveryKept
<1>1. Init => Delivery!Init
  BY DEF Init, Delivery!Init, Said
<1> QED BY <1>1, DeliveryStep, Invariance, PTL DEF Spec, DeliveryKept, Delivery!Spec
=============================================================================
