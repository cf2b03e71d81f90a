--------------------------- MODULE PairingProofs ---------------------------
(***************************************************************************)
(* Proofs about the instance lifecycle of module Pairing, for any number   *)
(* of invites, instances, requests, tokens and names and any limits.       *)
(***************************************************************************)
EXTENDS Pairing, FiniteSetTheorems, TLAPS

\* client_pairing_requests.token_hash is UNIQUE: what keeps the token of a
\* pending request unissued while another request is activated.
TokensDistinct ==
  \A r, s \in Secrets :
    r # s /\ requests[r].token = requests[s].token => requests[r].status = "absent"

\* The inductive invariant.
IInv ==
  /\ TypeOK
  /\ TokensDistinct
  /\ OneInvitePerInstance
  /\ AuthorityAgrees
  /\ ActiveRequestRetriable
  /\ PendingTokenUnissued
  /\ NamesAgree

USE NilAssumption, LimitAssumption

-----------------------------------------------------------------------------
(* Types.                                                                  *)

LEMMA InitIInv == Init => IInv
BY DEF Init, IInv, TypeOK, TokensDistinct, OneInvitePerInstance, AuthorityAgrees,
       ActiveRequestRetriable, PendingTokenUnissued, NamesAgree, NoInvite, NoRequest,
       NoHost, NoCredential, Stored, Invite, Request, Host, Credential, Modes, LiveCredential,
       TokenLive, TokenIssued

LEMMA CreateInviteType ==
  ASSUME TypeOK, NEW i \in Invites, NEW h \in Instances, NEW name \in Names,
         CreateInvite(i, h, name)
  PROVE  TypeOK'
BY DEF TypeOK, CreateInvite, Invite

LEMMA RotateInviteType ==
  ASSUME TypeOK, NEW i \in Invites, RotateInvite(i)
  PROVE  TypeOK'
<1> DEFINE h == invites[i].instance
<1>1. h \in Instances
  BY DEF TypeOK, RotateInvite, Invite
<1>2. invites' \in [Invites -> Invite]
  BY DEF TypeOK, RotateInvite, Invite
<1>3. credentials' \in [Tokens -> Credential]
  BY DEF TypeOK, RotateInvite, CredentialsRevoked, Credential
<1>4. requests' \in [Secrets -> Request]
  <2>1. \A s \in Secrets : requests'[s] \in Request
    <3> SUFFICES ASSUME NEW s \in Secrets PROVE requests'[s] \in Request
      OBVIOUS
    <3>1. requests[s] \in Request
      BY DEF TypeOK
    <3>2. [requests[s] EXCEPT !.status = "denied"] \in Request
      BY <3>1 DEF Request
    <3>3. requests'[s] \in {requests[s], [requests[s] EXCEPT !.status = "denied"]}
      BY DEF RotateInvite, ActiveDenied
    <3> QED BY <3>1, <3>2, <3>3
  <2> QED BY <2>1 DEF RotateInvite, ActiveDenied
<1>5. hosts' \in [Instances -> Host]
  BY <1>1 DEF TypeOK, RotateInvite, Host
<1>6. QED
  BY <1>1, <1>2, <1>3, <1>4, <1>5
  DEF TypeOK, RotateInvite, CredentialsRevoked, ActiveDenied, Invite, Request, Host,
      Credential, NoRequest, NoHost, Stored

LEMMA DeleteHostRecordsType ==
  ASSUME TypeOK, NEW h \in Instances, DeleteHostRecords(h)
  PROVE  TypeOK'
<1>1. invites' \in [Invites -> Invite]
  BY DEF TypeOK, DeleteHostRecords, Invite, NoInvite
<1>2. credentials' \in [Tokens -> Credential]
  BY DEF TypeOK, DeleteHostRecords, NoCredential, Credential
<1>3. requests' \in [Secrets -> Request]
  BY DEF TypeOK, DeleteHostRecords, NoRequest, Request
<1>4. hosts' \in [Instances -> Host]
  BY DEF TypeOK, DeleteHostRecords, NoHost, Host
<1>5. QED
  BY <1>1, <1>2, <1>3, <1>4
  DEF TypeOK, DeleteHostRecords, NoInvite, NoRequest, NoHost, NoCredential, Stored

\* Marking the due rows changes nothing but the status of pending rows.
LEMMA ExpireDueType ==
  ASSUME TypeOK
  PROVE  /\ ExpireDue \in [Secrets -> Request]
         /\ \A s \in Secrets :
              \/ ExpireDue[s] = requests[s]
              \/ /\ requests[s].status = "pending"
                 /\ ExpireDue[s] = [requests[s] EXCEPT !.status = "expired"]
         /\ \A s \in Secrets : Stored(ExpireDue[s])
BY DEF TypeOK, ExpireDue, Due, Request, Stored

LEMMA ExpireRowType ==
  ASSUME TypeOK, NEW s \in Secrets, ExpireRow(s)
  PROVE  TypeOK'
<1>1. requests' \in [Secrets -> Request]
  BY DEF TypeOK, ExpireRow, Request
<1>2. QED
  BY <1>1 DEF TypeOK, ExpireRow, Due, Request, Stored

LEMMA CreatePairingType ==
  ASSUME TypeOK, NEW s \in Secrets, NEW device \in Instances, NEW mode \in Modes,
         NEW token \in Tokens, CreatePairing(s, device, mode, token)
  PROVE  TypeOK'
<1>1. CASE ExpireRow(s)
  BY <1>1, ExpireRowType
<1>2. ASSUME NEW batch \in SUBSET Removable(ExpireDue),
             requests' = Purge(ExpireDue, batch),
             UNCHANGED <<invites, hosts, credentials, clock>>
      PROVE  TypeOK'
  <2>1. requests' \in [Secrets -> Request]
    BY <1>2, ExpireDueType DEF Purge, Request, NoRequest
  <2>2. QED
    BY <1>2, <2>1, ExpireDueType DEF TypeOK, Purge, Stored, NoRequest
<1>3. ASSUME NEW batch \in SUBSET Removable(ExpireDue),
             requests' = [Purge(ExpireDue, batch) EXCEPT ![s] =
               [status |-> "pending", device |-> device, mode |-> mode, token |-> token,
                expires |-> clock + TTL, invite |-> Nil, instance |-> Nil]],
             UNCHANGED <<invites, hosts, credentials, clock>>
      PROVE  TypeOK'
  <2>1. clock + TTL \in Nat
    BY DEF TypeOK
  <2>2. requests' \in [Secrets -> Request]
    BY <1>3, <2>1, ExpireDueType DEF Purge, Request, NoRequest
  <2>3. Stored(requests'[s])
    BY <1>3, <2>1 DEF Stored, Purge, Modes
  <2>4. ASSUME NEW r \in Secrets, r # s PROVE Stored(requests'[r])
    BY <1>3, <2>4, ExpireDueType DEF Purge, Stored, NoRequest
  <2>5. QED
    BY <1>3, <2>2, <2>3, <2>4 DEF TypeOK
<1>4. QED
  BY <1>1, <1>2, <1>3 DEF CreatePairing

LEMMA TargetType ==
  ASSUME TypeOK, NEW s \in Secrets, NEW i \in Invites, Activatable(s, i)
  PROVE  Target(s, i) \in Instances /\ requests[s].token \in Tokens
<1>1. requests[s] \in Request /\ Stored(requests[s]) /\ invites[i] \in Invite
  BY DEF TypeOK
<1>2. requests[s].device \in Instances /\ requests[s].token \in Tokens
  BY <1>1 DEF Activatable, Request, Stored
<1>3. invites[i].instance \in Instances
  BY <1>1 DEF TypeOK, Activatable, Invite
<1>4. QED
  BY <1>2, <1>3 DEF Target

LEMMA ActivateType ==
  ASSUME TypeOK, NEW s \in Secrets, NEW i \in Invites, Activate(s, i)
  PROVE  TypeOK'
<1>1. Target(s, i) \in Instances /\ requests[s].token \in Tokens
  BY TargetType DEF Activate
<1>2. invites' \in [Invites -> Invite]
  <2>1. [invites[i] EXCEPT !.instance = Target(s, i), !.status = "active"] \in Invite
    BY <1>1 DEF TypeOK, Invite
  <2>2. QED
    BY <2>1 DEF TypeOK, Activate
<1>3. credentials' \in [Tokens -> Credential]
  BY <1>1 DEF TypeOK, Activate, Credential
<1>4. requests' \in [Secrets -> Request]
  <2>1. [requests[s] EXCEPT !.status = "active", !.invite = i, !.instance = Target(s, i)]
          \in Request
    <3>1. requests[s] \in Request
      BY DEF TypeOK
    <3>2. QED
      BY <1>1, <3>1 DEF Request
  <2>2. QED
    BY <2>1 DEF TypeOK, Activate
<1>5. hosts' \in [Instances -> Host]
  BY <1>1 DEF TypeOK, Activate, Host, Invite
<1>6. QED
  BY <1>1, <1>2, <1>3, <1>4, <1>5
  DEF TypeOK, Activate, Activatable, Invite, Request, Stored

\* Every step keeps the types.
LEMMA NextType == TypeOK /\ [Next]_vars => TypeOK'
<1> SUFFICES ASSUME TypeOK, [Next]_vars PROVE TypeOK'
  OBVIOUS
<1>1. ASSUME NEW i \in Invites, NEW h \in Instances, NEW name \in Names,
             CreateInvite(i, h, name)
      PROVE  TypeOK'
  BY <1>1, CreateInviteType
<1>2. ASSUME NEW i \in Invites, RotateInvite(i) PROVE TypeOK'
  BY <1>2, RotateInviteType
<1>3. ASSUME NEW i \in Invites, CancelInvite(i) \/ DeleteInvite(i) PROVE TypeOK'
  <2>1. CASE invites[i].status = "pending" /\ invites' = [invites EXCEPT ![i].status = "cancelled"]
             /\ UNCHANGED <<requests, hosts, credentials, clock>>
    BY <2>1 DEF TypeOK, Invite, NoHost
  <2>2. CASE invites[i].status # "absent" /\ DeleteHostRecords(invites[i].instance)
    <3>1. invites[i].instance \in Instances
      BY <2>2 DEF TypeOK, Invite
    <3>2. QED
      BY <2>2, <3>1, DeleteHostRecordsType
  <2>3. QED
    BY <1>3, <2>1, <2>2 DEF CancelInvite, DeleteInvite
<1>4. ASSUME NEW h \in Instances, DeleteHost(h) PROVE TypeOK'
  BY <1>4, DeleteHostRecordsType DEF DeleteHost
<1>5. ASSUME NEW i \in Invites, NEW name \in Names, UpdateInstanceName(i, name)
      PROVE  TypeOK'
  <2>1. invites[i].instance \in Instances
    BY <1>5 DEF TypeOK, UpdateInstanceName, Invite
  <2>2. QED
    BY <1>5, <2>1 DEF TypeOK, UpdateInstanceName, HostRenamed, Invite, Host, NoHost
<1>6. ASSUME NEW s \in Secrets, NEW device \in Instances, NEW mode \in Modes,
             NEW token \in Tokens, CreatePairing(s, device, mode, token)
      PROVE  TypeOK'
  BY <1>6, CreatePairingType
<1>7. ASSUME NEW s \in Secrets, PollPairing(s) PROVE TypeOK'
  BY <1>7, ExpireRowType DEF PollPairing
<1>8. ASSUME NEW s \in Secrets, NEW i \in Invites, Activate(s, i) PROVE TypeOK'
  BY <1>8, ActivateType
<1>9. CASE SetClock
  BY <1>9 DEF TypeOK, SetClock
<1>10. CASE UNCHANGED vars
  BY <1>10 DEF TypeOK, vars
<1>11. QED
  BY <1>1, <1>2, <1>3, <1>4, <1>5, <1>6, <1>7, <1>8, <1>9, <1>10 DEF Next

-----------------------------------------------------------------------------
(* The relations between the tables, one lemma per operation.              *)

\* What the steps preserve besides the types.
Relations ==
  /\ TokensDistinct
  /\ OneInvitePerInstance
  /\ AuthorityAgrees
  /\ ActiveRequestRetriable
  /\ PendingTokenUnissued
  /\ NamesAgree

LEMMA CreateInviteRelations ==
  ASSUME IInv, NEW i \in Invites, NEW h \in Instances, NEW name \in Names,
         CreateInvite(i, h, name)
  PROVE  Relations'
<1> USE DEF CreateInvite, UnusedInstance
<1>1. TokensDistinct'
  BY DEF IInv, TokensDistinct
<1>2. OneInvitePerInstance'
  BY DEF IInv, TypeOK, OneInvitePerInstance
<1>3. AuthorityAgrees'
  BY DEF IInv, TypeOK, AuthorityAgrees, LiveCredential, TokenLive, NoHost
<1>4. ActiveRequestRetriable'
  BY DEF IInv, TypeOK, ActiveRequestRetriable, RetryAnswersActive, Target
<1>5. PendingTokenUnissued'
  BY DEF IInv, PendingTokenUnissued
<1>6. NamesAgree'
  BY DEF IInv, TypeOK, NamesAgree, NoHost
<1>7. QED
  BY <1>1, <1>2, <1>3, <1>4, <1>5, <1>6 DEF Relations

\* Rotation revokes in three tables what activation had granted in them.
LEMMA RotateInviteRelations ==
  ASSUME IInv, NEW i \in Invites, RotateInvite(i)
  PROVE  Relations'
<1> DEFINE h == invites[i].instance
<1>0. h \in Instances
  BY DEF IInv, TypeOK, RotateInvite, Invite
<1>a. \A j \in Invites :
        /\ invites'[j].instance = invites[j].instance
        /\ invites'[j].name = invites[j].name
        /\ invites'[j].status = IF j = i THEN "pending" ELSE invites[j].status
  BY DEF IInv, TypeOK, RotateInvite, Invite
<1>b. \A s \in Secrets :
        /\ requests'[s].instance = requests[s].instance
        /\ requests'[s].invite = requests[s].invite
        /\ requests'[s].device = requests[s].device
        /\ requests'[s].mode = requests[s].mode
        /\ requests'[s].token = requests[s].token
        /\ requests'[s].status = IF requests[s].status = "active" /\ requests[s].instance = h
                                   THEN "denied" ELSE requests[s].status
  BY DEF IInv, TypeOK, RotateInvite, ActiveDenied, Request
<1>c. \A t \in Tokens :
        /\ credentials'[t].host = credentials[t].host
        /\ credentials'[t].status =
             IF credentials[t].status = "live" /\ credentials[t].host = h
               THEN "revoked" ELSE credentials[t].status
  BY DEF IInv, TypeOK, RotateInvite, CredentialsRevoked, Credential
<1>d. \A g \in Instances :
        /\ hosts'[g].name = hosts[g].name
        /\ hosts'[g].status = IF g = h /\ hosts[g].status # "absent" THEN "revoked"
                                                                   ELSE hosts[g].status
  BY <1>0 DEF IInv, TypeOK, RotateInvite, Host
<1>1. TokensDistinct'
  BY <1>b DEF IInv, TokensDistinct
<1>2. OneInvitePerInstance'
  BY <1>a DEF IInv, TypeOK, OneInvitePerInstance, RotateInvite
<1>3. AuthorityAgrees'
  BY <1>0, <1>a, <1>c, <1>d
  DEF IInv, TypeOK, AuthorityAgrees, LiveCredential, TokenLive, OneInvitePerInstance,
      RotateInvite
<1>4. ActiveRequestRetriable'
  <2> SUFFICES ASSUME NEW s \in Secrets, requests'[s].status = "active"
               PROVE  /\ RetryAnswersActive(s, requests[s].invite)'
                      /\ invites'[requests'[s].invite].status = "active"
                      /\ invites'[requests'[s].invite].instance = requests'[s].instance
    BY DEF ActiveRequestRetriable
  <2> DEFINE j == requests[s].invite
  <2>1. /\ requests[s].status = "active" /\ requests[s].instance # h
        /\ requests[s] \in Request /\ Stored(requests[s])
    BY <1>b DEF IInv, TypeOK
  <2>2. j \in Invites /\ requests[s].token \in Tokens
    BY <2>1 DEF Request, Stored
  <2>3. /\ RetryAnswersActive(s, j)
        /\ invites[j].status = "active" /\ invites[j].instance = requests[s].instance
    BY <2>1 DEF IInv, ActiveRequestRetriable
  <2>4. j # i /\ Target(s, j)' = Target(s, j)
    BY <1>a, <1>b, <2>1, <2>2, <2>3 DEF Target
  <2>5. credentials'[requests[s].token] = credentials[requests[s].token]
    BY <2>1, <2>2, <2>3 DEF RotateInvite, CredentialsRevoked, RetryAnswersActive
  <2>6. QED
    BY <1>a, <1>b, <2>2, <2>3, <2>4, <2>5 DEF RetryAnswersActive
<1>5. PendingTokenUnissued'
  BY <1>b, <1>c DEF IInv, TypeOK, Request, Stored, PendingTokenUnissued
<1>6. NamesAgree'
  BY <1>a, <1>d DEF IInv, TypeOK, Invite, NamesAgree, RotateInvite
<1>7. QED
  BY <1>1, <1>2, <1>3, <1>4, <1>5, <1>6 DEF Relations

\* Deleting an instance removes every row that names it and no other half.
LEMMA DeleteHostRecordsRelations ==
  ASSUME IInv, NEW h \in Instances, DeleteHostRecords(h)
  PROVE  Relations'
<1> USE DEF DeleteHostRecords
<1>1. TokensDistinct'
  BY DEF IInv, TypeOK, Stored, Request, TokensDistinct, NoRequest
<1>2. OneInvitePerInstance'
  BY DEF IInv, TypeOK, OneInvitePerInstance, NoInvite
<1>3. AuthorityAgrees'
  BY DEF IInv, TypeOK, AuthorityAgrees, LiveCredential, TokenLive, NoInvite, NoHost,
         NoCredential
<1>4. ActiveRequestRetriable'
  <2> SUFFICES ASSUME NEW s \in Secrets, requests'[s].status = "active"
               PROVE  /\ RetryAnswersActive(s, requests[s].invite)'
                      /\ invites'[requests'[s].invite].status = "active"
                      /\ invites'[requests'[s].invite].instance = requests'[s].instance
    BY DEF ActiveRequestRetriable
  <2> DEFINE j == requests[s].invite
  <2>1. /\ requests'[s] = requests[s]
        /\ requests[s].status = "active" /\ requests[s].instance # h
        /\ requests[s] \in Request /\ Stored(requests[s])
    BY DEF IInv, TypeOK, NoRequest
  <2>2. j \in Invites /\ requests[s].token \in Tokens
    BY <2>1 DEF Request, Stored
  <2>3. /\ RetryAnswersActive(s, j)
        /\ invites[j].status = "active" /\ invites[j].instance = requests[s].instance
    BY <2>1 DEF IInv, ActiveRequestRetriable
  <2>4. invites'[j] = invites[j] /\ Target(s, j)' = Target(s, j)
    BY <2>1, <2>2, <2>3 DEF Target
  <2>5. credentials'[requests[s].token] = credentials[requests[s].token]
    BY <2>1, <2>2, <2>3 DEF RetryAnswersActive
  <2>6. QED
    BY <2>1, <2>2, <2>3, <2>4, <2>5 DEF RetryAnswersActive
<1>5. PendingTokenUnissued'
  BY DEF IInv, TypeOK, Stored, Request, PendingTokenUnissued, NoRequest, NoCredential
<1>6. NamesAgree'
  BY DEF IInv, TypeOK, Invite, NamesAgree, NoInvite, NoHost
<1>7. QED
  BY <1>1, <1>2, <1>3, <1>4, <1>5, <1>6 DEF Relations

\* Only a pending invite is cancelled, so no host loses its active owner.
LEMMA CancelPendingRelations ==
  ASSUME IInv, NEW i \in Invites, invites[i].status = "pending",
         invites' = [invites EXCEPT ![i].status = "cancelled"],
         UNCHANGED <<requests, hosts, credentials, clock>>
  PROVE  Relations'
<1>a. \A j \in Invites :
        /\ invites'[j].instance = invites[j].instance
        /\ invites'[j].name = invites[j].name
        /\ invites'[j].status = IF j = i THEN "cancelled" ELSE invites[j].status
  BY DEF IInv, TypeOK, Invite
<1>1. TokensDistinct'
  BY DEF IInv, TokensDistinct
<1>2. OneInvitePerInstance'
  BY <1>a DEF IInv, TypeOK, OneInvitePerInstance
<1>3. AuthorityAgrees'
  BY <1>a DEF IInv, AuthorityAgrees, LiveCredential, TokenLive
<1>4. ActiveRequestRetriable'
  BY <1>a DEF IInv, TypeOK, Request, Stored, ActiveRequestRetriable, RetryAnswersActive,
              Target
<1>5. PendingTokenUnissued'
  BY DEF IInv, PendingTokenUnissued
<1>6. NamesAgree'
  BY <1>a DEF IInv, TypeOK, Invite, NamesAgree
<1>7. QED
  BY <1>1, <1>2, <1>3, <1>4, <1>5, <1>6 DEF Relations

LEMMA UpdateInstanceNameRelations ==
  ASSUME IInv, NEW i \in Invites, NEW name \in Names, UpdateInstanceName(i, name)
  PROVE  Relations'
<1> DEFINE h == invites[i].instance
<1>0. h \in Instances
  BY DEF IInv, TypeOK, UpdateInstanceName, Invite
<1>a. \A j \in Invites :
        /\ invites'[j].instance = invites[j].instance
        /\ invites'[j].status = invites[j].status
        /\ invites'[j].name = IF j = i THEN name ELSE invites[j].name
  BY DEF IInv, TypeOK, UpdateInstanceName, Invite
<1>b. \A g \in Instances :
        /\ hosts'[g].status = hosts[g].status
        /\ hosts'[g].name = IF g = h /\ hosts[g].status # "absent" THEN name
                                                                 ELSE hosts[g].name
  BY <1>0 DEF IInv, TypeOK, UpdateInstanceName, HostRenamed, Host
<1> USE DEF UpdateInstanceName
<1>1. TokensDistinct'
  BY DEF IInv, TokensDistinct
<1>2. OneInvitePerInstance'
  BY <1>a DEF IInv, OneInvitePerInstance
<1>3. AuthorityAgrees'
  BY <1>a, <1>b DEF IInv, AuthorityAgrees, LiveCredential, TokenLive
<1>4. ActiveRequestRetriable'
  BY <1>a DEF IInv, TypeOK, Request, Stored, ActiveRequestRetriable, RetryAnswersActive,
              Target
<1>5. PendingTokenUnissued'
  BY DEF IInv, PendingTokenUnissued
<1>6. NamesAgree'
  BY <1>0, <1>a, <1>b DEF IInv, TypeOK, Invite, NoHost, NamesAgree, OneInvitePerInstance
<1>7. QED
  BY <1>1, <1>2, <1>3, <1>4, <1>5, <1>6 DEF Relations

\* row is what expiry and purging may leave of a pairing row old.
Shrunk(row, old) ==
  \/ row = old
  \/ row = NoRequest
  \/ row = [old EXCEPT !.status = "expired"] /\ old.status = "pending"

LEMMA ShrunkRow ==
  ASSUME NEW old \in Request, Stored(old), NEW row, Shrunk(row, old)
  PROVE  /\ row.status # "absent" => old.status # "absent"
         /\ row.status \in {"active", "pending"} => row = old
         /\ row.token # Nil => row.token = old.token
         /\ row.status # "absent" => row.token = old.token /\ row.token # Nil
         /\ row.status = "absent" => row.token = Nil
<1>1. CASE row = old
  BY <1>1 DEF Stored, NoRequest
<1>2. CASE row = NoRequest
  BY <1>2 DEF NoRequest
<1>3. CASE row = [old EXCEPT !.status = "expired"] /\ old.status = "pending"
  <2>1. row.status = "expired" /\ row.token = old.token
    BY <1>3 DEF Request
  <2>2. QED
    BY <1>3, <2>1 DEF Stored
<1>4. QED
  BY <1>1, <1>2, <1>3 DEF Shrunk

\* Shrinking keeps the tokens distinct.
LEMMA ShrunkTokens ==
  ASSUME IInv, NEW rows, \A s \in Secrets : Shrunk(rows[s], requests[s]),
         NEW r \in Secrets, NEW s \in Secrets, r # s,
         rows[r].token = rows[s].token
  PROVE  rows[r].status = "absent"
<1> SUFFICES ASSUME rows[r].status # "absent" PROVE FALSE
  OBVIOUS
<1>1. \A q \in {r, s} : requests[q] \in Request /\ Stored(requests[q])
  BY DEF IInv, TypeOK
<1>2. rows[r].token = requests[r].token /\ rows[r].token # Nil
      /\ requests[r].status # "absent"
  BY <1>1, ShrunkRow
<1>3. rows[s].token = requests[s].token
  BY <1>1, <1>2, ShrunkRow
<1>4. QED
  BY <1>2, <1>3 DEF IInv, TokensDistinct

\* A step that only removes pairing rows, or marks pending ones expired.
LEMMA ShrinkRelations ==
  ASSUME IInv, UNCHANGED <<invites, hosts, credentials>>,
         \A s \in Secrets : Shrunk(requests'[s], requests[s])
  PROVE  Relations'
<1>1. \A s \in Secrets :
        requests'[s].status \in {"active", "pending"} => requests'[s] = requests[s]
  BY ShrunkRow DEF IInv, TypeOK
<1>2. TokensDistinct'
  BY ShrunkTokens DEF TokensDistinct
<1>3. OneInvitePerInstance' /\ AuthorityAgrees' /\ NamesAgree'
  BY DEF IInv, OneInvitePerInstance, AuthorityAgrees, NamesAgree, LiveCredential, TokenLive
<1>4. ActiveRequestRetriable'
  BY <1>1 DEF IInv, ActiveRequestRetriable, RetryAnswersActive, Target
<1>5. PendingTokenUnissued'
  BY <1>1 DEF IInv, PendingTokenUnissued
<1>6. QED
  BY <1>2, <1>3, <1>4, <1>5 DEF Relations

LEMMA CreatePairingRelations ==
  ASSUME IInv, NEW s \in Secrets, NEW device \in Instances, NEW mode \in Modes,
         NEW token \in Tokens, CreatePairing(s, device, mode, token)
  PROVE  Relations'
<1>1. CASE ExpireRow(s)
  BY <1>1, ShrinkRelations DEF ExpireRow, Due, IInv, TypeOK, Shrunk
<1>2. ASSUME NEW batch \in SUBSET Removable(ExpireDue),
             requests' = Purge(ExpireDue, batch),
             UNCHANGED <<invites, hosts, credentials, clock>>
      PROVE  Relations'
  BY <1>2, ExpireDueType, ShrinkRelations DEF Purge, IInv, Shrunk
<1>3. ASSUME NEW batch \in SUBSET Removable(ExpireDue),
             \A r \in Secrets : Purge(ExpireDue, batch)[r].token # token,
             ~TokenIssued(token),
             requests' = [Purge(ExpireDue, batch) EXCEPT ![s] =
               [status |-> "pending", device |-> device, mode |-> mode, token |-> token,
                expires |-> clock + TTL, invite |-> Nil, instance |-> Nil]],
             UNCHANGED <<invites, hosts, credentials, clock>>
      PROVE  Relations'
  <2> DEFINE rows == Purge(ExpireDue, batch)
  <2>1. requests'[s].status = "pending" /\ requests'[s].token = token
    BY <1>3 DEF Purge
  <2>2. \A r \in Secrets \ {s} : requests'[r] = rows[r] /\ rows[r].token # token
    BY <1>3 DEF Purge
  <2>3. \A r \in Secrets : Shrunk(rows[r], requests[r])
    BY ExpireDueType DEF Purge, IInv, Shrunk
  <2>4. TokensDistinct'
    BY <2>1, <2>2, <2>3, ShrunkTokens DEF TokensDistinct
  <2>5. OneInvitePerInstance' /\ AuthorityAgrees' /\ NamesAgree'
    BY <1>3
    DEF IInv, OneInvitePerInstance, AuthorityAgrees, NamesAgree, LiveCredential, TokenLive
  <2>6. \A r \in Secrets \ {s} : requests'[r].status \in {"active", "pending"} =>
          requests'[r] = requests[r]
    BY <2>2, <2>3, ShrunkRow DEF IInv, TypeOK
  <2>7. ActiveRequestRetriable'
    BY <1>3, <2>1, <2>6 DEF IInv, ActiveRequestRetriable, RetryAnswersActive, Target
  <2>8. PendingTokenUnissued'
    BY <1>3, <2>1, <2>6 DEF IInv, PendingTokenUnissued, TokenIssued
  <2>9. QED
    BY <2>4, <2>5, <2>7, <2>8 DEF Relations
<1>4. QED
  BY <1>1, <1>2, <1>3 DEF CreatePairing

\* The target of an activation has no owner but the invite, no credential and no
\* active host: for a fresh pairing because the invite that owns it is pending,
\* for a recovery because activate looks.
LEMMA TargetFree ==
  ASSUME IInv, NEW s \in Secrets, NEW i \in Invites, Activatable(s, i)
  PROVE  /\ \A j \in Invites \ {i} : invites[j].instance # Target(s, i)
         /\ ~LiveCredential(Target(s, i))
         /\ hosts[Target(s, i)].status # "active"
<1>1. Target(s, i) \in Instances
  BY TargetType DEF IInv
<1>2. CASE requests[s].mode = "fresh"
  <2>1. Target(s, i) = invites[i].instance /\ invites[i].status = "pending"
    BY <1>2 DEF Target, Activatable
  <2>2. \A j \in Invites \ {i} : invites[j].instance # Target(s, i)
    BY <1>1, <2>1 DEF IInv, TypeOK, OneInvitePerInstance
  <2>3. QED
    BY <1>1, <2>1, <2>2 DEF IInv, AuthorityAgrees
<1>3. CASE requests[s].mode = "recover_identity"
  BY <1>1, <1>3 DEF IInv, AuthorityAgrees, Target, Activatable, MayClaim
<1>4. requests[s].mode \in Modes
  BY DEF IInv, TypeOK, Request, Stored, Activatable
<1>5. QED
  BY <1>2, <1>3, <1>4 DEF Modes

LEMMA ActivateRelations ==
  ASSUME IInv, NEW s \in Secrets, NEW i \in Invites, Activate(s, i)
  PROVE  Relations'
<1> DEFINE h == Target(s, i)
           token == requests[s].token
<1>0. h \in Instances /\ token \in Tokens /\ Activatable(s, i)
  BY TargetType DEF Activate, IInv
<1>a. /\ \A j \in Invites \ {i} : invites'[j] = invites[j]
      /\ invites'[i].status = "active" /\ invites'[i].instance = h
      /\ invites'[i].name = invites[i].name
  BY DEF IInv, TypeOK, Activate, Invite
<1>b. /\ \A r \in Secrets \ {s} : requests'[r] = requests[r]
      /\ requests'[s].status = "active" /\ requests'[s].invite = i
      /\ requests'[s].instance = h
      /\ requests'[s].token = token
      /\ requests'[s].mode = requests[s].mode
      /\ requests'[s].device = requests[s].device
  <2>1. requests[s] \in Request
    BY DEF IInv, TypeOK
  <2>2. requests' = [requests EXCEPT ![s] =
          [requests[s] EXCEPT !.status = "active", !.invite = i, !.instance = h]]
    BY DEF Activate
  <2>3. requests'[s] =
          [requests[s] EXCEPT !.status = "active", !.invite = i, !.instance = h]
    BY <2>2 DEF IInv, TypeOK
  <2>4. \A r \in Secrets \ {s} : requests'[r] = requests[r]
    BY <2>2 DEF IInv, TypeOK
  <2>5. QED
    BY <2>1, <2>3, <2>4 DEF Request
<1>c. /\ \A t \in Tokens \ {token} : credentials'[t] = credentials[t]
      /\ credentials'[token] = [status |-> "live", host |-> h]
      /\ credentials[token].status = "absent"
  BY <1>0 DEF IInv, TypeOK, Activate, TokenIssued
<1>d. /\ \A g \in Instances \ {h} : hosts'[g] = hosts[g]
      /\ hosts'[h] = [status |-> "active", name |-> invites[i].name]
  BY <1>0 DEF IInv, TypeOK, Activate
<1>e. /\ \A j \in Invites \ {i} : invites[j].instance # h
      /\ ~LiveCredential(h)
      /\ hosts[h].status # "active"
  BY <1>0, TargetFree
<1>f. invites[i].status = "pending" /\ requests[s].status = "pending"
  BY <1>0 DEF Activatable
<1>1. TokensDistinct'
  <2>1. requests[s].status # "absent" /\ \A r \in Secrets : requests'[r].token = requests[r].token
    BY <1>b, <1>f
  <2>2. QED
    BY <1>b, <2>1 DEF IInv, TokensDistinct
<1>2. OneInvitePerInstance'
  BY <1>a, <1>e DEF IInv, OneInvitePerInstance
<1>3. AuthorityAgrees'
  <2>1. ASSUME NEW g \in Instances
        PROVE  hosts'[g].status = "active" <=> LiveCredential(g)'
    <3>1. CASE g = h
      BY <1>0, <1>c, <1>d, <3>1 DEF LiveCredential
    <3>2. CASE g # h
      BY <1>0, <1>c, <1>d, <3>2 DEF IInv, AuthorityAgrees, LiveCredential
    <3>3. QED
      BY <3>1, <3>2
  <2>2. ASSUME NEW g \in Instances
        PROVE  hosts'[g].status = "active" <=>
                 \E j \in Invites : invites'[j].status = "active" /\ invites'[j].instance = g
    <3>1. CASE g = h
      BY <1>a, <1>d, <3>1
    <3>2. CASE g # h
      BY <1>a, <1>d, <1>f, <3>2 DEF IInv, AuthorityAgrees
    <3>3. QED
      BY <3>1, <3>2
  <2>3. ASSUME NEW t \in Tokens, NEW u \in Tokens, TokenLive(t)', TokenLive(u)',
               credentials'[t].host = credentials'[u].host
        PROVE  t = u
    BY <1>c, <1>e, <2>3 DEF IInv, AuthorityAgrees, TokenLive, LiveCredential
  <2>4. QED
    BY <2>1, <2>2, <2>3 DEF AuthorityAgrees
<1>4. ActiveRequestRetriable'
  <2>1. Target(s, i)' = h
    BY <1>a, <1>b DEF Target
  <2>2. RetryAnswersActive(s, i)'
    BY <1>a, <1>b, <1>c, <2>1 DEF RetryAnswersActive
  <2>3. ASSUME NEW r \in Secrets \ {s}, requests[r].status = "active"
        PROVE  /\ RetryAnswersActive(r, requests[r].invite)'
               /\ invites'[requests[r].invite].status = "active"
               /\ invites'[requests[r].invite].instance = requests[r].instance
    <3> DEFINE j == requests[r].invite
    <3>1. requests[r] \in Request /\ Stored(requests[r])
      BY DEF IInv, TypeOK
    <3>2. j \in Invites /\ requests[r].token \in Tokens
      BY <2>3, <3>1 DEF Request, Stored
    <3>3. /\ RetryAnswersActive(r, j)
          /\ invites[j].status = "active" /\ invites[j].instance = requests[r].instance
      BY <2>3 DEF IInv, ActiveRequestRetriable
    <3>4. j # i /\ requests[r].token # token
      BY <1>c, <1>f, <3>3 DEF RetryAnswersActive
    <3>5. invites'[j] = invites[j] /\ requests'[r] = requests[r]
          /\ credentials'[requests[r].token] = credentials[requests[r].token]
      BY <1>a, <1>b, <1>c, <3>2, <3>4
    <3>6. QED
      BY <3>3, <3>5 DEF RetryAnswersActive, Target
  <2>4. QED
    BY <1>a, <1>b, <2>2, <2>3 DEF ActiveRequestRetriable
<1>5. PendingTokenUnissued'
  <2>1. ASSUME NEW r \in Secrets \ {s}, requests[r].status = "pending"
        PROVE  credentials'[requests[r].token].status = "absent"
    <3>1. requests[r].token # token
      BY <1>f, <2>1 DEF IInv, TokensDistinct
    <3>2. requests[r].token \in Tokens
      BY <2>1 DEF IInv, TypeOK, Request, Stored
    <3>3. QED
      BY <1>b, <1>c, <2>1, <3>1, <3>2 DEF IInv, PendingTokenUnissued
  <2>2. QED
    BY <1>b, <2>1 DEF PendingTokenUnissued
<1>6. NamesAgree'
  <2>1. \A j \in Invites : invites[j].status # "absent" => invites[j].instance \in Instances
    BY DEF IInv, TypeOK, Invite
  <2>2. QED
    BY <1>0, <1>a, <1>d, <1>e, <2>1 DEF IInv, NamesAgree
<1>7. QED
  BY <1>1, <1>2, <1>3, <1>4, <1>5, <1>6 DEF Relations

-----------------------------------------------------------------------------
(* The invariant and what follows from it.                                 *)

LEMMA NextRelations == IInv /\ [Next]_vars => Relations'
<1> SUFFICES ASSUME IInv, [Next]_vars PROVE Relations'
  OBVIOUS
<1>1. ASSUME NEW i \in Invites, NEW h \in Instances, NEW name \in Names,
             CreateInvite(i, h, name)
      PROVE  Relations'
  BY <1>1, CreateInviteRelations
<1>2. ASSUME NEW i \in Invites, RotateInvite(i) PROVE Relations'
  BY <1>2, RotateInviteRelations
<1>3. ASSUME NEW i \in Invites, CancelInvite(i) \/ DeleteInvite(i) PROVE Relations'
  <2>1. CASE invites[i].status = "pending" /\ invites' = [invites EXCEPT ![i].status = "cancelled"]
             /\ UNCHANGED <<requests, hosts, credentials, clock>>
    BY <2>1, CancelPendingRelations
  <2>2. CASE invites[i].status # "absent" /\ DeleteHostRecords(invites[i].instance)
    <3>1. invites[i].instance \in Instances
      BY <2>2 DEF IInv, TypeOK, Invite
    <3>2. QED
      BY <2>2, <3>1, DeleteHostRecordsRelations
  <2>3. QED
    BY <1>3, <2>1, <2>2 DEF CancelInvite, DeleteInvite
<1>4. ASSUME NEW h \in Instances, DeleteHost(h) PROVE Relations'
  BY <1>4, DeleteHostRecordsRelations DEF DeleteHost
<1>5. ASSUME NEW i \in Invites, NEW name \in Names, UpdateInstanceName(i, name)
      PROVE  Relations'
  BY <1>5, UpdateInstanceNameRelations
<1>6. ASSUME NEW s \in Secrets, NEW device \in Instances, NEW mode \in Modes,
             NEW token \in Tokens, CreatePairing(s, device, mode, token)
      PROVE  Relations'
  BY <1>6, CreatePairingRelations
<1>7. ASSUME NEW s \in Secrets, PollPairing(s) PROVE Relations'
  BY <1>7, ShrinkRelations DEF PollPairing, ExpireRow, Due, IInv, TypeOK, Shrunk
<1>8. ASSUME NEW s \in Secrets, NEW i \in Invites, Activate(s, i) PROVE Relations'
  BY <1>8, ActivateRelations
<1>9. CASE SetClock \/ UNCHANGED vars
  BY <1>9, ShrinkRelations DEF SetClock, vars, Shrunk
<1>10. QED
  BY <1>1, <1>2, <1>3, <1>4, <1>5, <1>6, <1>7, <1>8, <1>9 DEF Next

LEMMA InvariantHolds == Spec => []IInv
<1>1. Init => IInv
  BY InitIInv
<1>2. IInv /\ [Next]_vars => IInv'
  BY NextType, NextRelations DEF IInv, Relations
<1>3. QED
  BY <1>1, <1>2, PTL DEF Spec

\* The tables keep their types through every sequence of operations.
THEOREM Typing == Spec => []TypeOK
<1>1. IInv => TypeOK
  BY DEF IInv
<1>2. QED
  BY <1>1, InvariantHolds, PTL

\* No two invites, of whatever status, ever own one instance.
THEOREM Ownership == Spec => []OneInvitePerInstance
<1>1. IInv => OneInvitePerInstance
  BY DEF IInv
<1>2. QED
  BY <1>1, InvariantHolds, PTL

\* Invites, hosts and credentials always agree on who may report.
THEOREM Authority == Spec => []AuthorityAgrees
<1>1. IInv => AuthorityAgrees
  BY DEF IInv
<1>2. QED
  BY <1>1, InvariantHolds, PTL

\* An active request can always be activated again with the same answer.
THEOREM Idempotence == Spec => []ActiveRequestRetriable
<1>1. IInv => ActiveRequestRetriable
  BY DEF IInv
<1>2. QED
  BY <1>1, InvariantHolds, PTL

\* The UNIQUE constraint on token_hash never fails an activation.
THEOREM TokenFresh == Spec => []PendingTokenUnissued
<1>1. IInv => PendingTokenUnissued
  BY DEF IInv
<1>2. QED
  BY <1>1, InvariantHolds, PTL

\* An invite and its host always show one name.
THEOREM Naming == Spec => []NamesAgree
<1>1. IInv => NamesAgree
  BY DEF IInv
<1>2. QED
  BY <1>1, InvariantHolds, PTL

\* Only an activation makes a host active, and only the invite that already owned
\* a revoked host may.
LEMMA StepReactivates ==
  ASSUME IInv, Next, NEW h \in Instances,
         hosts[h].status = "revoked", hosts'[h].status = "active"
  PROVE  \E i \in Invites : /\ invites[i].status = "pending" /\ invites[i].instance = h
                            /\ invites'[i].status = "active"
<1>1. ASSUME NEW s \in Secrets, NEW i \in Invites, Activate(s, i)
      PROVE  /\ invites[i].status = "pending" /\ invites[i].instance = h
             /\ invites'[i].status = "active"
  <2>1. Target(s, i) \in Instances /\ Activatable(s, i)
    BY <1>1, TargetType DEF IInv, Activate
  <2>2. Target(s, i) = h
    BY <1>1, <2>1 DEF IInv, TypeOK, Activate
  <2>3. requests[s].mode \in Modes
    BY <2>1 DEF IInv, TypeOK, Request, Stored, Activatable
  <2>4. invites[i].status = "pending" /\ invites[i].instance = h
    BY <2>1, <2>2, <2>3 DEF Activatable, MayClaim, Target, Modes
  <2>5. invites'[i].status = "active"
    BY <1>1 DEF IInv, TypeOK, Activate, Invite
  <2>6. QED
    BY <2>4, <2>5
<1>2. ASSUME NEW i \in Invites, RotateInvite(i) PROVE FALSE
  <2>1. invites[i].instance \in Instances
    BY <1>2 DEF IInv, TypeOK, RotateInvite, Invite
  <2>2. QED
    BY <1>2, <2>1 DEF IInv, TypeOK, RotateInvite, Host
<1>3. ASSUME NEW g \in Instances, DeleteHostRecords(g) PROVE FALSE
  BY <1>3 DEF IInv, TypeOK, DeleteHostRecords, NoHost
<1>4. ASSUME NEW i \in Invites, CancelInvite(i) \/ DeleteInvite(i) PROVE FALSE
  <2>1. CASE UNCHANGED hosts
    BY <2>1
  <2>2. CASE invites[i].status # "absent" /\ DeleteHostRecords(invites[i].instance)
    <3>1. invites[i].instance \in Instances
      BY <2>2 DEF IInv, TypeOK, Invite
    <3>2. QED
      BY <2>2, <3>1, <1>3
  <2>3. QED
    BY <1>4, <2>1, <2>2 DEF CancelInvite, DeleteInvite
<1>5. ASSUME NEW i \in Invites, NEW name \in Names, UpdateInstanceName(i, name)
      PROVE  FALSE
  <2>1. invites[i].instance \in Instances
    BY <1>5 DEF IInv, TypeOK, UpdateInstanceName, Invite
  <2>2. QED
    BY <1>5, <2>1 DEF IInv, TypeOK, UpdateInstanceName, HostRenamed, Host
<1>6. ASSUME UNCHANGED hosts PROVE FALSE
  BY <1>6
<1>7. QED
  BY <1>1, <1>2, <1>3, <1>4, <1>5, <1>6
  DEF Next, CreateInvite, DeleteHost, CreatePairing, PollPairing, ExpireRow, SetClock

\* A revoked host is reactivated only through the pending invite that owns it.
THEOREM Reactivation == Spec => ReactivatedByOwnInvite
<1>1. IInv /\ [Next]_vars =>
        [\A h \in Instances : hosts[h].status = "revoked" /\ hosts'[h].status = "active" =>
           \E i \in Invites : /\ invites[i].status = "pending" /\ invites[i].instance = h
                              /\ invites'[i].status = "active"]_vars
  BY StepReactivates
<1>2. QED
  BY <1>1, InvariantHolds, PTL DEF Spec, ReactivatedByOwnInvite

\* What a step may do to a request whose outcome is decided.
DecidedRowKept(s) ==
  /\ requests[s].status \in {"denied", "expired"} =>
       requests'[s] \in {requests[s], NoRequest}
  /\ requests[s].status = "active" =>
       requests'[s] \in {requests[s], [requests[s] EXCEPT !.status = "denied"], NoRequest}

LEMMA StepKeepsOutcome ==
  ASSUME IInv, Next, NEW s \in Secrets
  PROVE  DecidedRowKept(s)
<1>1. ASSUME NEW i \in Invites, RotateInvite(i) PROVE DecidedRowKept(s)
  BY <1>1 DEF IInv, TypeOK, RotateInvite, ActiveDenied, DecidedRowKept
<1>2. ASSUME NEW g, DeleteHostRecords(g) PROVE DecidedRowKept(s)
  BY <1>2 DEF DeleteHostRecords, DecidedRowKept
<1>3. ASSUME NEW i \in Invites, CancelInvite(i) \/ DeleteInvite(i) PROVE DecidedRowKept(s)
  BY <1>2, <1>3 DEF CancelInvite, DeleteInvite, DecidedRowKept
<1>4. ASSUME NEW r \in Secrets, ExpireRow(r) PROVE DecidedRowKept(s)
  BY <1>4 DEF IInv, TypeOK, ExpireRow, Due, DecidedRowKept
<1>5. ASSUME NEW r \in Secrets, NEW device \in Instances, NEW mode \in Modes,
             NEW token \in Tokens, CreatePairing(r, device, mode, token)
      PROVE  DecidedRowKept(s)
  <2>1. ASSUME NEW batch \in SUBSET Removable(ExpireDue),
               requests'[s] = Purge(ExpireDue, batch)[s]
        PROVE  DecidedRowKept(s)
    BY <2>1, ExpireDueType DEF IInv, Purge, DecidedRowKept
  <2>2. ASSUME requests[r].status = "absent", NEW batch \in SUBSET Removable(ExpireDue),
               NEW row, requests' = [Purge(ExpireDue, batch) EXCEPT ![r] = row]
        PROVE  DecidedRowKept(s)
    <3>1. CASE s = r
      BY <2>2, <3>1 DEF DecidedRowKept
    <3>2. CASE s # r
      BY <2>1, <2>2, <3>2 DEF Purge
    <3>3. QED
      BY <3>1, <3>2
  <2>3. QED
    BY <1>4, <1>5, <2>1, <2>2 DEF CreatePairing
<1>6. ASSUME NEW r \in Secrets, NEW i \in Invites, Activate(r, i) PROVE DecidedRowKept(s)
  BY <1>6 DEF IInv, TypeOK, Activate, Activatable, DecidedRowKept
<1>7. ASSUME UNCHANGED requests PROVE DecidedRowKept(s)
  BY <1>7 DEF DecidedRowKept
<1>8. QED
  BY <1>1, <1>2, <1>3, <1>4, <1>5, <1>6, <1>7
  DEF Next, CreateInvite, DeleteHost, UpdateInstanceName, PollPairing, SetClock

\* A denied or expired request stays so; an active one can only be denied.
THEOREM Outcomes == Spec => RequestOutcomeFinal
<1>1. IInv /\ [Next]_vars => [\A s \in Secrets : DecidedRowKept(s)]_vars
  BY StepKeepsOutcome
<1>2. QED
  BY <1>1, InvariantHolds, PTL DEF Spec, RequestOutcomeFinal, DecidedRowKept

-----------------------------------------------------------------------------
(* The limits on pending requests.                                         *)

PendingRows == {s \in Secrets : requests[s].status = "pending"}
PendingOf(device) == {s \in PendingRows : requests[s].device = device}

LEMMA PendingFinite ==
  /\ IsFiniteSet(PendingRows) /\ Cardinality(PendingRows) \in Nat
  /\ \A device \in Instances :
       IsFiniteSet(PendingOf(device)) /\ Cardinality(PendingOf(device)) \in Nat
BY FS_Subset, FS_CardinalityType DEF PendingRows, PendingOf

LEMMA PendingSetsBound ==
  PendingBounded <=> /\ Cardinality(PendingRows) <= MaxPending
                     /\ \A device \in Instances :
                          Cardinality(PendingOf(device)) <= MaxPerDevice
BY DEF PendingBounded, PendingRows, PendingOf

\* A step that adds no pending row keeps the bounds.
LEMMA FewerPending ==
  ASSUME PendingBounded,
         \A s \in Secrets : requests'[s].status = "pending" => requests'[s] = requests[s]
  PROVE  PendingBounded'
<1>1. PendingRows' \subseteq PendingRows
  BY DEF PendingRows
<1>2. \A device \in Instances : PendingOf(device)' \subseteq PendingOf(device)
  BY DEF PendingRows, PendingOf
<1>3. Cardinality(PendingRows') <= Cardinality(PendingRows) /\ Cardinality(PendingRows') \in Nat
  BY <1>1, PendingFinite, FS_Subset, FS_CardinalityType
<1>4. \A device \in Instances :
        /\ Cardinality(PendingOf(device)') <= Cardinality(PendingOf(device))
        /\ Cardinality(PendingOf(device)') \in Nat
  BY <1>2, PendingFinite, FS_Subset, FS_CardinalityType
<1>5. Cardinality(PendingRows') <= MaxPending
  BY <1>3, PendingFinite, PendingSetsBound
<1>6. \A device \in Instances : Cardinality(PendingOf(device)') <= MaxPerDevice
  BY <1>4, PendingFinite, PendingSetsBound
<1>7. QED
  BY <1>5, <1>6 DEF PendingBounded, PendingRows, PendingOf

\* A new row: once the due rows are marked, every other pending row is counted.
LEMMA OneMorePending ==
  ASSUME PendingBounded, TypeOK,
         NEW s \in Secrets, NEW device \in Instances,
         NEW batch \in SUBSET Removable(ExpireDue),
         NEW row, row.device = device,
         HasRoom(Purge(ExpireDue, batch), device),
         requests' = [Purge(ExpireDue, batch) EXCEPT ![s] = row]
  PROVE  PendingBounded'
<1> DEFINE rows == Purge(ExpireDue, batch)
           mine == {r \in LivePending(rows) : rows[r].device = device}
<1>1. \A r \in Secrets : rows[r].status = "pending" =>
        rows[r] = requests[r] /\ r \in LivePending(rows)
  BY DEF Purge, ExpireDue, Due, LivePending, NoRequest, TypeOK, Request, Stored
<1>2. \A r \in Secrets \ {s} : requests'[r] = rows[r]
  BY DEF Purge
<1>3. requests'[s] = row
  BY DEF Purge
<1>4. IsFiniteSet(LivePending(rows)) /\ IsFiniteSet(mine)
  BY FS_Subset DEF LivePending
<1>5. /\ IsFiniteSet(LivePending(rows) \union {s})
      /\ Cardinality(LivePending(rows) \union {s}) <= Cardinality(LivePending(rows)) + 1
      /\ Cardinality(LivePending(rows)) \in Nat
  <2>1. Cardinality(LivePending(rows)) \in Nat
    BY <1>4, FS_CardinalityType
  <2>2. /\ IsFiniteSet(LivePending(rows) \union {s})
        /\ Cardinality(LivePending(rows) \union {s}) =
             IF s \in LivePending(rows) THEN Cardinality(LivePending(rows))
                                       ELSE Cardinality(LivePending(rows)) + 1
    BY <1>4, FS_AddElement
  <2>3. QED
    BY <2>1, <2>2
<1>6. /\ IsFiniteSet(mine \union {s})
      /\ Cardinality(mine \union {s}) <= Cardinality(mine) + 1
      /\ Cardinality(mine) \in Nat
  <2>1. Cardinality(mine) \in Nat
    BY <1>4, FS_CardinalityType
  <2>2. /\ IsFiniteSet(mine \union {s})
        /\ Cardinality(mine \union {s}) =
             IF s \in mine THEN Cardinality(mine) ELSE Cardinality(mine) + 1
    BY <1>4, FS_AddElement
  <2>3. QED
    BY <2>1, <2>2
<1>7. Cardinality(PendingRows') <= MaxPending
  <2>1. PendingRows' \subseteq LivePending(rows) \union {s}
    BY <1>1, <1>2 DEF PendingRows
  <2>2. Cardinality(PendingRows') <= Cardinality(LivePending(rows) \union {s})
    BY <1>5, <2>1, FS_Subset
  <2>3. Cardinality(LivePending(rows)) < MaxPending
    BY DEF HasRoom
  <2>4. Cardinality(PendingRows') \in Nat /\ Cardinality(LivePending(rows) \union {s}) \in Nat
    BY <1>5, <2>1, FS_Subset, FS_CardinalityType
  <2>5. QED
    BY <1>5, <2>2, <2>3, <2>4
<1>8. Cardinality(PendingOf(device)') <= MaxPerDevice
  <2>1. PendingOf(device)' \subseteq mine \union {s}
    BY <1>1, <1>2 DEF PendingRows, PendingOf
  <2>2. Cardinality(PendingOf(device)') <= Cardinality(mine \union {s})
    BY <1>6, <2>1, FS_Subset
  <2>3. Cardinality(mine) < MaxPerDevice
    BY DEF HasRoom
  <2>4. Cardinality(PendingOf(device)') \in Nat /\ Cardinality(mine \union {s}) \in Nat
    BY <1>6, <2>1, FS_Subset, FS_CardinalityType
  <2>5. QED
    BY <1>6, <2>2, <2>3, <2>4
<1>9. ASSUME NEW other \in Instances, other # device
      PROVE  Cardinality(PendingOf(other)') <= MaxPerDevice
  <2>1. PendingOf(other)' \subseteq PendingOf(other)
    BY <1>1, <1>2, <1>3, <1>9 DEF PendingRows, PendingOf
  <2>2. Cardinality(PendingOf(other)') <= Cardinality(PendingOf(other))
        /\ Cardinality(PendingOf(other)') \in Nat
    BY <2>1, PendingFinite, FS_Subset, FS_CardinalityType
  <2>3. QED
    BY <2>2, PendingFinite, PendingSetsBound
<1>10. QED
  BY <1>7, <1>8, <1>9 DEF PendingBounded, PendingRows, PendingOf

LEMMA StepKeepsBounds == IInv /\ PendingBounded /\ [Next]_vars => PendingBounded'
<1> SUFFICES ASSUME IInv, PendingBounded, [Next]_vars PROVE PendingBounded'
  OBVIOUS
<1>1. ASSUME NEW s \in Secrets, NEW device \in Instances, NEW mode \in Modes,
             NEW token \in Tokens, CreatePairing(s, device, mode, token)
      PROVE  PendingBounded'
  <2>1. CASE ExpireRow(s)
    BY <2>1, FewerPending DEF ExpireRow, IInv, TypeOK, Request
  <2>2. ASSUME NEW batch \in SUBSET Removable(ExpireDue), requests' = Purge(ExpireDue, batch)
        PROVE  PendingBounded'
    BY <2>2, ExpireDueType, FewerPending DEF Purge, NoRequest, IInv, TypeOK, Request
  <2>3. ASSUME NEW batch \in SUBSET Removable(ExpireDue),
               HasRoom(Purge(ExpireDue, batch), device),
               requests' = [Purge(ExpireDue, batch) EXCEPT ![s] =
                 [status |-> "pending", device |-> device, mode |-> mode, token |-> token,
                  expires |-> clock + TTL, invite |-> Nil, instance |-> Nil]]
        PROVE  PendingBounded'
    <3> DEFINE row == [status |-> "pending", device |-> device, mode |-> mode,
                       token |-> token, expires |-> clock + TTL,
                       invite |-> Nil, instance |-> Nil]
    <3>1. row.device = device /\ requests' = [Purge(ExpireDue, batch) EXCEPT ![s] = row]
      BY <2>3
    <3> HIDE DEF row
    <3>2. QED
      BY <2>3, <3>1, OneMorePending DEF IInv
  <2>4. QED
    BY <1>1, <2>1, <2>2, <2>3 DEF CreatePairing
<1>2. ASSUME NEW s \in Secrets, PollPairing(s) PROVE PendingBounded'
  BY <1>2, FewerPending DEF PollPairing, ExpireRow, IInv, TypeOK, Request
<1>3. ASSUME NEW s \in Secrets, NEW i \in Invites, Activate(s, i) PROVE PendingBounded'
  <2>1. requests' = [requests EXCEPT ![s] =
          [requests[s] EXCEPT !.status = "active", !.invite = i, !.instance = Target(s, i)]]
    BY <1>3 DEF Activate
  <2>2. requests'[s].status = "active"
    BY <2>1 DEF IInv, TypeOK, Request
  <2>3. \A r \in Secrets : requests'[r].status = "pending" => requests'[r] = requests[r]
    BY <2>1, <2>2 DEF IInv, TypeOK
  <2>4. QED
    BY <2>3, FewerPending
<1>4. ASSUME NEW g, DeleteHostRecords(g) PROVE PendingBounded'
  BY <1>4, FewerPending DEF DeleteHostRecords, NoRequest
<1>5. ASSUME NEW i \in Invites, RotateInvite(i) PROVE PendingBounded'
  BY <1>5, FewerPending DEF RotateInvite, ActiveDenied, IInv, TypeOK, Request
<1>6. CASE UNCHANGED requests
  BY <1>6, FewerPending
<1>7. QED
  BY <1>1, <1>2, <1>3, <1>4, <1>5, <1>6
  DEF Next, CreateInvite, CancelInvite, DeleteInvite, DeleteHost, UpdateInstanceName,
      SetClock, vars

\* The limits hold of the stored rows, due or not, however the clock is set.
THEOREM Bounds == Spec => []PendingBounded
<1>1. Init => PendingBounded
  BY FS_EmptySet DEF Init, PendingBounded, NoRequest
<1>2. IInv /\ PendingBounded /\ [Next]_vars => PendingBounded'
  BY StepKeepsBounds
<1>3. QED
  BY <1>1, <1>2, InvariantHolds, PTL DEF Spec

=============================================================================
