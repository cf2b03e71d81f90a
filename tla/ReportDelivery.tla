--------------------------- MODULE ReportDelivery ---------------------------
(***************************************************************************)
(* What the telemetry writer promises to the clients that submit reports.  *)
(* A submitted report is at some point kept (committed, or found to be     *)
(* stored already) or void (it will never be stored), for good.  The       *)
(* answer a client gets may come before or after that, or never:           *)
(*  - accepted is said only of a report that is kept;                      *)
(*  - rejected (its credential is revoked, its report_id is another        *)
(*    host's, or the storage is exhausted) and refused (no room in the     *)
(*    queue) are said only of one that is void;                            *)
(*  - unknown (deadline passed, writer unavailable, transaction failed)    *)
(*    promises nothing: the client sends the report again.                 *)
(***************************************************************************)
CONSTANT Calls   \* calls of TelemetryWriter::submit

VARIABLES fate, answer

vars == <<fate, answer>>

TypeOK ==
  /\ fate \in [Calls -> {"open", "kept", "void"}]
  /\ answer \in [Calls -> {"none", "accepted", "rejected", "refused", "unknown"}]

Init ==
  /\ fate = [c \in Calls |-> "open"]
  /\ answer = [c \in Calls |-> "none"]

\* Some reports are decided at once, as a transaction commits or is lost.
Settle(kept, void) ==
  /\ kept \union void # {}
  /\ kept \intersect void = {}
  /\ \A c \in kept \union void : fate[c] = "open"
  /\ fate' = [c \in Calls |-> IF c \in kept THEN "kept"
                              ELSE IF c \in void THEN "void" ELSE fate[c]]
  /\ UNCHANGED answer

Reply(c, said) ==
  /\ answer[c] = "none"
  /\ said = "accepted" => fate[c] = "kept"
  /\ said = "rejected" => fate[c] = "void"
  /\ answer' = [answer EXCEPT ![c] = said]
  /\ UNCHANGED fate

\* The call ends before its report reaches the queue.
Refuse(c, said) ==
  /\ answer[c] = "none"
  /\ fate[c] = "open"
  /\ answer' = [answer EXCEPT ![c] = said]
  /\ fate' = [fate EXCEPT ![c] = "void"]

Next ==
  \/ \E kept, void \in SUBSET Calls : Settle(kept, void)
  \/ \E c \in Calls, said \in {"accepted", "rejected", "unknown"} : Reply(c, said)
  \/ \E c \in Calls, said \in {"refused", "unknown"} : Refuse(c, said)

Spec == Init /\ [][Next]_vars
=============================================================================
