------------------------------ MODULE Pairing ------------------------------
(***************************************************************************)
(* The instance lifecycle of crates/server/src/store.rs: invites, pairing  *)
(* requests, monitored hosts and client credentials, the four tables of    *)
(* schema/product.sql that decide which client may report as which host.   *)
(*                                                                         *)
(* Every operation of the code runs in one BEGIN IMMEDIATE transaction, so *)
(* each is one action: the interleavings are those of whole transactions,  *)
(* and a crash leaves the tables between two of them.  An operation that   *)
(* rolls back or returns early without writing is a step that changes      *)
(* nothing and is not written down.                                        *)
(*                                                                         *)
(* Abstractions.                                                           *)
(*  - An authorization code is identified with the invite that holds it:   *)
(*    activation_code_hash is UNIQUE, so a presented code selects at most  *)
(*    one invite, and a code that was replaced selects none.               *)
(*  - A pairing row is identified with its polling secret, UNIQUE as well. *)
(*    A request_id whose row is gone answers NotFound and changes nothing. *)
(*  - An absent row is a row of status "absent" whose fields are Nil.      *)
(*  - The device facts of a request (os, arch, versions) are left out.     *)
(***************************************************************************)
EXTENDS Naturals, FiniteSets

CONSTANTS
  Invites,          \* invite_id values
  Instances,        \* UUIDs that name an instance, a host or a device
  Secrets,          \* hashes of polling secrets, one pairing row each
  Tokens,           \* hashes of client tokens
  Names,            \* display names
  Nil,              \* a NULL column, or a field of an absent row
  MaxClock,         \* bound of the model: last instant of the wall clock
  TTL,              \* life of a pairing request (15 minutes)
  ExpiredRetention, \* an expired row is kept this long (24 hours)
  DeniedRetention,  \* a denied row is kept this long (30 days)
  CleanupBatch,     \* rows removed by one creation (LIMIT 512)
  MaxInvites,       \* Limits::PRODUCTION.instance_rows (4096)
  MaxRetained,      \* pairing rows of every status (8192)
  MaxPending,       \* live pending rows (4096)
  MaxPerDevice      \* live pending rows of one device (4)

\* ClientPairingMode
Modes == {"fresh", "recover_identity"}

ASSUME NilAssumption ==
  /\ Nil \notin Invites
  /\ Nil \notin Instances
  /\ Nil \notin Tokens
  /\ Nil \notin Names
  /\ Nil \notin Modes
  /\ Nil \notin Nat

ASSUME LimitAssumption ==
  /\ IsFiniteSet(Secrets)
  /\ \A bound \in {MaxClock, TTL, ExpiredRetention, DeniedRetention, CleanupBatch,
                   MaxInvites, MaxRetained, MaxPending, MaxPerDevice} : bound \in Nat

VARIABLES
  invites,      \* client_instance_invites
  requests,     \* client_pairing_requests
  hosts,        \* monitored_hosts
  credentials,  \* client_credentials
  clock         \* Utc::now()

vars == <<invites, requests, hosts, credentials, clock>>

-----------------------------------------------------------------------------
(* The rows.                                                               *)

Invite ==
  [status : {"absent", "pending", "active", "cancelled"},
   instance : Instances \union {Nil}, name : Names \union {Nil}]

Request ==
  [status : {"absent", "pending", "active", "denied", "expired"},
   device : Instances \union {Nil}, mode : Modes \union {Nil},
   token : Tokens \union {Nil}, expires : Nat \union {Nil},
   invite : Invites \union {Nil}, instance : Instances \union {Nil}]

Host == [status : {"absent", "active", "revoked"}, name : Names \union {Nil}]

Credential == [status : {"absent", "live", "revoked"}, host : Instances \union {Nil}]

NoInvite == [status |-> "absent", instance |-> Nil, name |-> Nil]
NoRequest ==
  [status |-> "absent", device |-> Nil, mode |-> Nil, token |-> Nil,
   expires |-> Nil, invite |-> Nil, instance |-> Nil]
NoHost == [status |-> "absent", name |-> Nil]
NoCredential == [status |-> "absent", host |-> Nil]

Init ==
  /\ invites = [i \in Invites |-> NoInvite]
  /\ requests = [s \in Secrets |-> NoRequest]
  /\ hosts = [h \in Instances |-> NoHost]
  /\ credentials = [t \in Tokens |-> NoCredential]
  /\ clock = 0

-----------------------------------------------------------------------------
(* The administrator's operations.                                         *)

\* Uuid::new_v4 does not collide: nothing in the database names the value.
UnusedInstance(h) ==
  /\ \A i \in Invites : invites[i].instance # h
  /\ \A s \in Secrets : h \notin {requests[s].device, requests[s].instance}
  /\ \A t \in Tokens : credentials[t].host # h
  /\ hosts[h] = NoHost

\* create_invite, with the row limit of capacity::instance.  Exhausted storage
\* rolls back and changes nothing.
CreateInvite(i, h, name) ==
  /\ Cardinality({j \in Invites : invites[j].status # "absent"}) < MaxInvites
  /\ invites[i].status = "absent"
  /\ \A s \in Secrets : requests[s].invite # i
  /\ UnusedInstance(h)
  /\ invites' = [invites EXCEPT ![i] =
                   [status |-> "pending", instance |-> h, name |-> name]]
  /\ UNCHANGED <<requests, hosts, credentials, clock>>

\* UPDATE client_credentials SET revoked_at=? WHERE host_id=? AND revoked_at IS NULL
\* (Mutation: rotation forgets them.)
CredentialsKept(h) == credentials
CredentialsRevoked(h) == [t \in Tokens |->
  IF credentials[t].status = "live" /\ credentials[t].host = h
    THEN [credentials[t] EXCEPT !.status = "revoked"] ELSE credentials[t]]

\* UPDATE client_pairing_requests SET status='denied' WHERE instance_id=? AND
\* status='active'
\* (Mutation: they go on advertising "active".)
ActiveKept(h) == requests
ActiveDenied(h) == [s \in Secrets |->
  IF requests[s].status = "active" /\ requests[s].instance = h
    THEN [requests[s] EXCEPT !.status = "denied"] ELSE requests[s]]

\* rotate_invite_authorization.  A code that another invite holds already
\* breaks activation_code_hash UNIQUE and rolls back.
RotateInvite(i) ==
  LET h == invites[i].instance IN
  /\ invites[i].status \in {"pending", "active"}
  /\ invites' = [invites EXCEPT ![i].status = "pending"]
  /\ credentials' = CredentialsRevoked(h)
  /\ requests' = ActiveDenied(h)
  /\ hosts' = [hosts EXCEPT ![h].status = IF @ = "absent" THEN @ ELSE "revoked"]
  /\ UNCHANGED clock

\* delete_host_records: the cascade of monitored_hosts takes the credentials.
DeleteHostRecords(h) ==
  /\ requests' = [s \in Secrets |->
       IF h \in {requests[s].instance, requests[s].device} THEN NoRequest
                                                           ELSE requests[s]]
  /\ invites' = [i \in Invites |->
       IF invites[i].instance = h THEN NoInvite ELSE invites[i]]
  /\ hosts' = [hosts EXCEPT ![h] = NoHost]
  /\ credentials' = [t \in Tokens |->
       IF credentials[t].host = h THEN NoCredential ELSE credentials[t]]
  /\ UNCHANGED clock

\* cancel_invite: a pending invite is cancelled, a cancelled one deleted.
CancelInvite(i) ==
  \/ /\ invites[i].status = "pending"
     /\ invites' = [invites EXCEPT ![i].status = "cancelled"]
     /\ UNCHANGED <<requests, hosts, credentials, clock>>
  \/ /\ invites[i].status = "cancelled"
     /\ DeleteHostRecords(invites[i].instance)

\* delete_invite
DeleteInvite(i) ==
  /\ invites[i].status # "absent"
  /\ DeleteHostRecords(invites[i].instance)

\* delete_host
DeleteHost(h) ==
  /\ hosts[h].status # "absent"
  /\ DeleteHostRecords(h)

\* UPDATE monitored_hosts SET name=? WHERE host_id=?
\* (Mutation: only the invite is renamed.)
HostNotRenamed(h, name) == hosts[h]
HostRenamed(h, name) ==
  IF hosts[h].status = "absent" THEN hosts[h] ELSE [hosts[h] EXCEPT !.name = name]

\* update_instance_name
UpdateInstanceName(i, name) ==
  LET h == invites[i].instance IN
  /\ invites[i].status # "absent"
  /\ invites' = [invites EXCEPT ![i].name = name]
  /\ hosts' = [hosts EXCEPT ![h] = HostRenamed(h, name)]
  /\ UNCHANGED <<requests, credentials, clock>>

-----------------------------------------------------------------------------
(* A client asks to be paired, and polls.                                  *)

Due(row) == row.status = "pending" /\ row.expires <= clock

\* UPDATE client_pairing_requests SET status='expired' WHERE ... expires_at<=now
\* (Mutation: the count of live rows is trusted to be enough.)
DueKept == requests
ExpireDue == [s \in Secrets |->
  IF Due(requests[s]) THEN [requests[s] EXCEPT !.status = "expired"] ELSE requests[s]]

ExpireRow(s) ==
  /\ Due(requests[s])
  /\ requests' = [requests EXCEPT ![s].status = "expired"]
  /\ UNCHANGED <<invites, hosts, credentials, clock>>

\* persist_pairing_expiration, the first statement of pairing_public and of
\* pairing_status; what they read afterwards changes nothing.
PollPairing(s) == ExpireRow(s)

\* The rows whose retention is over, and a batch of the oldest of them
\* (created_at is expires_at - TTL).
Removable(rows) == {s \in Secrets :
  \/ rows[s].status = "expired" /\ rows[s].expires + ExpiredRetention <= clock
  \/ rows[s].status = "denied" /\ rows[s].expires + DeniedRetention < clock + TTL}

EldestBatch(rows, batch) ==
  LET due == Removable(rows) IN
  /\ batch \subseteq due
  /\ Cardinality(batch) <= CleanupBatch
  /\ Cardinality(batch) < CleanupBatch => batch = due
  /\ \A s \in batch, r \in due \ batch : rows[s].expires <= rows[r].expires

Purge(rows, batch) == [s \in Secrets |-> IF s \in batch THEN NoRequest ELSE rows[s]]

Retained(rows) == {s \in Secrets : rows[s].status # "absent"}
LivePending(rows) == {s \in Secrets : rows[s].status = "pending" /\ rows[s].expires > clock}

HasRoom(rows, device) ==
  /\ Cardinality(Retained(rows)) < MaxRetained
  /\ Cardinality(LivePending(rows)) < MaxPending
  /\ Cardinality({s \in LivePending(rows) : rows[s].device = device}) < MaxPerDevice

\* client_credentials holds the token, live or revoked.
\* (Mutation: a revoked token is taken for a new one.)
TokenLive(t) == credentials[t].status = "live"
TokenIssued(t) == credentials[t].status # "absent"

\* create_pairing.  A request that is sent again finds its row: the answer is
\* Ready, Conflict or Expired, and a due row is marked.  A new request first
\* expires and purges rows and commits that even when it is then refused:
\* for want of room, or because capacity::pairing finds the storage exhausted,
\* which may be any time.  A token of another row rolls everything back.
CreatePairing(s, device, mode, token) ==
  /\ ~TokenIssued(token)
  /\ \/ /\ requests[s].device = device
        /\ requests[s].mode = mode
        /\ requests[s].token = token
        /\ ExpireRow(s)
     \/ /\ requests[s].status = "absent"
        /\ \E batch \in SUBSET Removable(ExpireDue) :
             LET rows == Purge(ExpireDue, batch) IN
             /\ EldestBatch(ExpireDue, batch)
             /\ \/ requests' = rows
                \/ /\ HasRoom(rows, device)
                   /\ \A r \in Secrets : rows[r].token # token
                   /\ requests' = [rows EXCEPT ![s] =
                        [status |-> "pending", device |-> device, mode |-> mode,
                         token |-> token, expires |-> clock + TTL,
                         invite |-> Nil, instance |-> Nil]]
        /\ UNCHANGED <<invites, hosts, credentials, clock>>

-----------------------------------------------------------------------------
(* The user activates a request with an invite's code.                     *)

Target(s, i) ==
  IF requests[s].mode = "fresh" THEN invites[i].instance ELSE requests[s].device

LiveCredential(h) ==
  \E t \in Tokens : credentials[t].status = "live" /\ credentials[t].host = h

\* The host identity h may be recovered through invite i.
\* (Mutations: other invites are not looked at; a revoked host is anybody's.)
MayClaimOwned(i, h) ==
  /\ ~LiveCredential(h)
  /\ \/ hosts[h].status = "absent"
     \/ hosts[h].status = "revoked" /\ invites[i].instance = h
MayClaimRevoked(i, h) ==
  /\ \A j \in Invites \ {i} : invites[j].instance # h
  /\ ~LiveCredential(h)
  /\ hosts[h].status # "active"
MayClaim(i, h) ==
  /\ \A j \in Invites \ {i} : invites[j].instance # h
  /\ ~LiveCredential(h)
  /\ \/ hosts[h].status = "absent"
     \/ hosts[h].status = "revoked" /\ invites[i].instance = h

\* The early returns of activate.  (Mutation: only its time ends a request.)
ActivatableByTime(s, i) ==
  /\ requests[s].status \notin {"absent", "active"}
  /\ invites[i].status = "pending"
  /\ requests[s].expires > clock
  /\ requests[s].mode = "recover_identity" => MayClaim(i, requests[s].device)
Activatable(s, i) ==
  /\ requests[s].status = "pending"
  /\ invites[i].status = "pending"
  /\ requests[s].expires > clock
  /\ requests[s].mode = "recover_identity" => MayClaim(i, requests[s].device)

\* activate, the branch that commits.  Recovering another identity rebinds the
\* invite.  INSERT INTO client_credentials rolls back on a token_hash that was
\* issued before.  (The reports of the host are modelled elsewhere.)
Activate(s, i) ==
  LET h == Target(s, i)
      token == requests[s].token
  IN /\ Activatable(s, i)
     /\ ~TokenIssued(token)
     /\ invites' = [invites EXCEPT ![i] = [@ EXCEPT !.instance = h, !.status = "active"]]
     /\ hosts' = [hosts EXCEPT ![h] = [status |-> "active", name |-> invites[i].name]]
     /\ credentials' = [credentials EXCEPT ![token] = [status |-> "live", host |-> h]]
     /\ requests' = [requests EXCEPT ![s] =
          [@ EXCEPT !.status = "active", !.invite = i, !.instance = h]]
     /\ UNCHANGED clock

\* activate on a request that is active already, the answer lost or the form
\* sent twice: it writes nothing and answers Active exactly in this case.
RetryAnswersActive(s, i) ==
  /\ invites[i].status # "absent"
  /\ requests[s].invite = i
  /\ requests[s].instance = Target(s, i)
  /\ credentials[requests[s].token] = [status |-> "live", host |-> Target(s, i)]

-----------------------------------------------------------------------------

\* The wall clock, which may also be set back.
SetClock ==
  /\ clock' \in (0..MaxClock) \ {clock}
  /\ UNCHANGED <<invites, requests, hosts, credentials>>

Next ==
  \/ \E i \in Invites, h \in Instances, name \in Names : CreateInvite(i, h, name)
  \/ \E i \in Invites : RotateInvite(i)
  \/ \E i \in Invites : CancelInvite(i)
  \/ \E i \in Invites : DeleteInvite(i)
  \/ \E h \in Instances : DeleteHost(h)
  \/ \E i \in Invites, name \in Names : UpdateInstanceName(i, name)
  \/ \E s \in Secrets, device \in Instances, mode \in Modes, token \in Tokens :
       CreatePairing(s, device, mode, token)
  \/ \E s \in Secrets : PollPairing(s)
  \/ \E s \in Secrets, i \in Invites : Activate(s, i)
  \/ SetClock

Spec == Init /\ [][Next]_vars

-----------------------------------------------------------------------------
(* Properties.                                                             *)

Stored(row) ==
  /\ row.status = "absent" => row = NoRequest
  /\ row.status # "absent" => Nil \notin {row.device, row.mode, row.token, row.expires}
  /\ row.status = "active" => Nil \notin {row.invite, row.instance}

\* The rows have the types of the schema: the columns that are NOT NULL are
\* present in every stored row, and an absent row is empty.
TypeOK ==
  /\ invites \in [Invites -> Invite]
  /\ requests \in [Secrets -> Request]
  /\ hosts \in [Instances -> Host]
  /\ credentials \in [Tokens -> Credential]
  /\ clock \in 0..MaxClock
  /\ \A i \in Invites : invites[i].status = "absent" <=> invites[i].instance = Nil
  /\ \A s \in Secrets : Stored(requests[s])
  /\ \A h \in Instances : hosts[h].status = "absent" => hosts[h] = NoHost
  /\ \A t \in Tokens : credentials[t].status = "absent" <=> credentials[t].host = Nil

\* An instance belongs to one invite, whatever its status: the schema's unique
\* index covers pending invites only, and recovery rebinds instance ids.
OneInvitePerInstance ==
  \A i, j \in Invites :
    i # j /\ invites[i].instance = invites[j].instance => invites[i].status = "absent"

\* The three tables agree on who may report: a host is active exactly when an
\* active invite owns it and exactly when it has a live credential, of which
\* there is at most one.  Rotation, cancellation, deletion and recovery change
\* the tables one statement at a time; a pending or cancelled invite never
\* leaves a client that can still report.
AuthorityAgrees ==
  /\ \A h \in Instances :
       /\ hosts[h].status = "active" <=> LiveCredential(h)
       /\ hosts[h].status = "active" <=>
            \E i \in Invites : invites[i].status = "active" /\ invites[i].instance = h
  /\ \A t, u \in Tokens :
       TokenLive(t) /\ TokenLive(u) /\ credentials[t].host = credentials[u].host => t = u

\* A request that is advertised as active is backed by everything its client
\* relies on: activating it again answers Active with the same instance, its
\* token is that instance's live credential, and the invite is still the one
\* it consumed ("that request must no longer advertise active").
ActiveRequestRetriable ==
  \A s \in Secrets : requests[s].status = "active" =>
    /\ RetryAnswersActive(s, requests[s].invite)
    /\ invites[requests[s].invite].status = "active"
    /\ invites[requests[s].invite].instance = requests[s].instance

\* A pending request holds a token that was never issued, so that activating it
\* cannot fail on client_credentials.token_hash: rows of paired requests are
\* purged and deleted while the credential, live or revoked, remains.
PendingTokenUnissued ==
  \A s \in Secrets : requests[s].status = "pending" =>
    credentials[requests[s].token].status = "absent"

\* An invite and its host show one display name.
NamesAgree ==
  \A i \in Invites : invites[i].status # "absent" =>
    hosts[invites[i].instance].name \in {invites[i].name, Nil}

\* The table never holds more than MaxPerDevice pending rows of a device nor
\* MaxPending in all, although a creation counts only those that are not due.
PendingBounded ==
  LET Pending == {s \in Secrets : requests[s].status = "pending"} IN
  /\ Cardinality(Pending) <= MaxPending
  /\ \A device \in Instances :
       Cardinality({s \in Pending : requests[s].device = device}) <= MaxPerDevice

\* A revoked host becomes active again only through the pending invite that owns
\* it ("a new invite must never claim an existing Host"), which is consumed.
ReactivatedByOwnInvite ==
  [][\A h \in Instances : hosts[h].status = "revoked" /\ hosts'[h].status = "active" =>
       \E i \in Invites : /\ invites[i].status = "pending" /\ invites[i].instance = h
                          /\ invites'[i].status = "active"]_vars

\* A denied or expired request is never revived, and an active one only becomes
\* denied: a client whose access was revoked has to ask again.
RequestOutcomeFinal ==
  [][\A s \in Secrets :
       /\ requests[s].status \in {"denied", "expired"} =>
            requests'[s] \in {requests[s], NoRequest}
       /\ requests[s].status = "active" =>
            requests'[s] \in {requests[s], [requests[s] EXCEPT !.status = "denied"],
                              NoRequest}]_vars

\* "A rotated instance keeps its Host UUID": an invite whose revoked host is
\* still stored keeps that host for as long as both exist.
RotatedInstanceKeepsHost ==
  [][\A i \in Invites :
       /\ invites[i].status = "pending"
       /\ hosts[invites[i].instance].status = "revoked"
       /\ invites'[i].status # "absent"
       => invites'[i].instance = invites[i].instance]_vars

=============================================================================
