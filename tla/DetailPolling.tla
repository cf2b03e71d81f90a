---------------------------- MODULE DetailPolling ---------------------------
(***************************************************************************)
(* How the web page of a host keeps its data fresh: the two effects of     *)
(* HostDetails.tsx, for the details and for the chart, which poll while    *)
(* the page is visible and are refreshed on demand.  Both go the same way; *)
(* the chart has a range to select, and a new selection replaces the       *)
(* effect.  (A host that is selected anew replaces the whole component.)   *)
(*                                                                         *)
(* JavaScript runs one callback at a time: a step here is a callback.      *)
(* Requests are answered in any order, successfully or not, and the answer *)
(* to a request whose effect is gone may still be on its way.              *)
(*                                                                         *)
(* Abstractions.  What the server knows is a version that grows; an answer *)
(* holds the version of the moment the server made it.  The messages about *)
(* failures are left out.                                                  *)
(***************************************************************************)
EXTENDS Naturals

CONSTANTS
  Selections,  \* ranges of the chart
  Nil,
  MaxVersion   \* bound of the model: how often the data of the host change

ASSUME PollingAssumption ==
  /\ Nil \notin Selections /\ Nil \notin Nat
  /\ MaxVersion \in Nat

VARIABLES
  selection,
  hidden,    \* document.hidden
  poll,      \* inFlight, refreshQueued, forceQueued and timer of the effect
  requests,  \* requests not yet settled; `live' as long as their effect is
  shown,     \* the answer on the page
  version,   \* what the server knows
  asked      \* auxiliary: a refresh was asked for, and no request has started since

vars == <<selection, hidden, poll, requests, shown, version, asked>>

Request == [selection : Selections, answer : 0..MaxVersion \union {Nil}, live : BOOLEAN]

Idle == [inFlight |-> FALSE, queued |-> FALSE, force |-> FALSE, timer |-> FALSE]

\* refreshQueued = true; forceQueued ||= force.
\* (Mutation: the request that is under way will do.)
QueuedPlainly(effect, force) == [effect EXCEPT !.queued = TRUE]
Queued(effect, force) == [effect EXCEPT !.queued = TRUE, !.force = @ \/ force]

\* refresh and refreshHistory, called in an effect whose requests are `out'.
Refresh(effect, out, force) ==
  IF ~force /\ hidden' THEN
    poll' = effect /\ requests' = out /\ asked' = asked
  ELSE IF effect.inFlight THEN
    poll' = Queued(effect, force) /\ requests' = out /\ asked' = (asked \/ force)
  ELSE
    /\ poll' = [effect EXCEPT !.inFlight = TRUE, !.queued = FALSE, !.force = FALSE]
    /\ requests' = out \union {[selection |-> selection', answer |-> Nil, live |-> TRUE]}
    /\ asked' = FALSE

Init ==
  /\ selection \in Selections
  /\ hidden \in BOOLEAN
  /\ poll = [Idle EXCEPT !.inFlight = ~hidden]
  /\ requests = IF hidden THEN {} ELSE {[selection |-> selection, answer |-> Nil, live |-> TRUE]}
  /\ shown = Nil
  /\ version = 0
  /\ asked = FALSE

-----------------------------------------------------------------------------
(* The server.                                                             *)

Change ==
  /\ version < MaxVersion
  /\ version' = version + 1
  /\ UNCHANGED <<selection, hidden, poll, requests, shown, asked>>

Serve(request) ==
  /\ request.answer = Nil
  /\ requests' = (requests \ {request}) \union {[request EXCEPT !.answer = version]}
  /\ UNCHANGED <<selection, hidden, poll, shown, version, asked>>

-----------------------------------------------------------------------------
(* The page.                                                               *)

\* if (stopped || controller.signal.aborted) return.
\* (Mutation: the answer is of this host, which is enough.)
OfThisHost(request) == TRUE
Applies(request) == request.live

\* The finally clause.
Finally(out) ==
  IF poll.queued THEN Refresh([poll EXCEPT !.inFlight = FALSE], out, poll.force)
  ELSE /\ poll' = [poll EXCEPT !.inFlight = FALSE, !.timer = ~hidden]
       /\ requests' = out /\ asked' = asked

\* A request is settled, with the answer of the server or without.
Settle(request) ==
  /\ \/ request.answer # Nil /\ Applies(request)
          /\ shown' = [selection |-> request.selection, version |-> request.answer]
     \/ shown' = shown
  /\ UNCHANGED <<selection, hidden, version>>
  /\ IF request.live THEN Finally(requests \ {request})
     ELSE requests' = requests \ {request} /\ UNCHANGED <<poll, asked>>

\* setTimeout(refresh, ...)
TimerFires ==
  /\ poll.timer
  /\ UNCHANGED <<selection, hidden, shown, version>>
  /\ Refresh([poll EXCEPT !.timer = FALSE], requests, FALSE)

\* visibilitychange.  (Mutation: the page waits for a timer.)
LeftToTimer(effect) == poll' = effect /\ UNCHANGED <<requests, asked>>
WhenVisible(effect) == Refresh(effect, requests, FALSE)

VisibilityChange ==
  /\ hidden' = ~hidden
  /\ UNCHANGED <<selection, shown, version>>
  /\ WhenVisible([poll EXCEPT !.timer = FALSE])

\* refreshSignal or historyGeneration changes: the header, a retry, a change made
\* elsewhere on the page.
Ask ==
  /\ UNCHANGED <<selection, hidden, shown, version>>
  /\ Refresh([poll EXCEPT !.timer = FALSE], requests, TRUE)

\* Another range is selected: the effect is cleaned up and begun anew.
Select ==
  /\ selection' \in Selections \ {selection}
  /\ shown' = Nil
  /\ UNCHANGED <<hidden, version>>
  /\ Refresh(Idle, {[request EXCEPT !.live = FALSE] : request \in requests}, TRUE)

Next ==
  \/ Change
  \/ \E request \in requests : Serve(request) \/ Settle(request)
  \/ TimerFires \/ VisibilityChange \/ Ask \/ Select

Spec == Init /\ [][Next]_vars

\* Requests end, if only by the error of a lost connection or at the time limit of
\* the (external) client, and timers fire.  Nobody has to look at the page or to ask.
FairSpec ==
  /\ Spec
  /\ WF_vars(\E request \in requests : request.live /\ Settle(request))
  /\ WF_vars(TimerFires)

-----------------------------------------------------------------------------
(* Properties.                                                             *)

\* The chart is that of the range that is selected, whichever answers to earlier
\* selections arrive late, and it never gets older: no answer overtakes another.
ShownIsCurrent ==
  [][shown' # Nil =>
       /\ shown'.selection = selection'
       /\ shown # Nil => shown.version <= shown'.version]_vars

\* An explicit refresh is honoured by a request that starts after it, even if
\* another is under way, fails, or the page is hidden meanwhile.
RefreshHonoured == asked ~> ~asked

\* A page that stays visible never stops polling, whatever became of its timer and
\* its requests when it was hidden and shown again.
KeepsPolling == ~hidden ~> (hidden \/ poll.inFlight)
=============================================================================
