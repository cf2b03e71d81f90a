------------------------------ MODULE Bootstrap -----------------------------
(***************************************************************************)
(* The commands of the server binary that open the database, as processes  *)
(* that run beside each other: init, run, doctor and admin-reset-password  *)
(* of main.rs, the locks of database_lock.rs and the creation of the       *)
(* database in database_schema.rs.                                         *)
(*                                                                         *)
(* A process takes two kinds of locks, none of which it waits for: the     *)
(* common lock of the state directory (xcss, external: held by one process *)
(* at a time, as tests/database_locking.rs has it), and, but for init, the *)
(* locks of the database, which lie beside it.  A step that meets a lock   *)
(* held, or a database that is not as it should be, is not enabled: the    *)
(* process ends, as it may at any moment, with its locks and its pool.     *)
(*                                                                         *)
(* Directories have an identity.  The configured path names one of them,   *)
(* and the operator may put another in its place (an older copy, say);     *)
(* what a process has opened or locked stays what it was.                  *)
(*                                                                         *)
(* Abstractions.                                                           *)
(*  - A database is told by how far it has been created, and by the keys   *)
(*    that the stored authorization codes are encrypted with.              *)
(*  - What doctor and the reset of a password do with the database once it *)
(*    is theirs does not change either.                                    *)
(*  - A process that is killed loses nothing it has written; a power       *)
(*    failure, and with it the calls of sync_all, is left out.             *)
(***************************************************************************)
EXTENDS Release

CONSTANTS
  Procs,  \* processes that may run at one time
  Dirs,   \* directories that the configured path may name
  Keys,   \* client_authorization_key of a configuration
  Nil

ASSUME NilNoDirectory == Nil \notin Dirs

VARIABLES
  here,  \* the directory that the configured path names
  dirs,  \* what is in each directory
  proc   \* what each process runs, how far it is and what it holds; `created', which
         \* is auxiliary, is where it has begun the database

vars == <<here, dirs, proc>>

Commands == {"init", "run", "doctor", "reset"}

\* The database: no file, an empty file, the schema without an administrator, or
\* all that a server needs.
Databases == {"none", "empty", "schema", "ready"}
Directory == [used : BOOLEAN, db : Databases, sealed : SUBSET Keys]

Off == [command |-> "none", at |-> "off", key |-> Nil, release |-> Nil,
        common |-> Nil, instance |-> Nil, maintenance |-> Nil, pool |-> Nil,
        created |-> Nil]

Init ==
  /\ here \in Dirs
  /\ dirs = [d \in Dirs |-> [used |-> FALSE, db |-> "none", sealed |-> {}]]
  /\ proc = [p \in Procs |-> Off]

Is(p, command, at) == proc[p].command = command /\ proc[p].at = at
Go(p, at) == proc' = [proc EXCEPT ![p].at = at]

-----------------------------------------------------------------------------
(* The locks.                                                              *)

\* try_instance_lock and try_maintenance_lock of the directory.
CommonFree(d) == \A q \in Procs : proc[q].common # d

\* flock of .xsos.instance.lock and .xsos.maintenance.lock.
InstanceFree(d) == \A q \in Procs : proc[q].instance # d
NoMaintenance(d) == \A q \in Procs : proc[q].maintenance = d => proc[q].command = "run"
Unmaintained(d) == \A q \in Procs : proc[q].maintenance # d

TakeCommon(p, at) ==
  /\ CommonFree(here)
  /\ proc' = [proc EXCEPT ![p].common = here, ![p].at = at]
  /\ UNCHANGED <<here, dirs>>

-----------------------------------------------------------------------------
(* run                                                                     *)

Start(p, command, key) ==
  /\ proc[p].at = "off"
  /\ proc' = [proc EXCEPT ![p] =
       [Off EXCEPT !.command = command, !.at = "start", !.key = key]]
  /\ UNCHANGED <<here, dirs>>

\* validate_pool and open_validated_location: the schema is there.
Current(d) == dirs[d].db \in {"schema", "ready"}

\* require_administrator and validate_invite_authorizations.
\* (Mutation: the key is not tried.)
AdministratorOnly(d, key) == dirs[d].db = "ready"
Fit(d, key) == dirs[d].db = "ready" /\ dirs[d].sealed \subseteq {key}

\* The release is verified, then validate_existing_configuration looks at a
\* snapshot of the database.
Check(p) ==
  /\ Is(p, "run", "start")
  /\ Fit(here, proc[p].key)
  /\ \E release \in Releases :
       MayRun(release) /\ proc' = [proc EXCEPT ![p].release = release, ![p].at = "checked"]
  /\ UNCHANGED <<here, dirs>>

TakeInstance(p) == Is(p, "run", "checked") /\ TakeCommon(p, "common")

\* ApplicationLock::acquire resolves the directory anew, and takes two locks.
LockInstance(p) ==
  /\ Is(p, "run", "common")
  /\ InstanceFree(here)
  /\ proc' = [proc EXCEPT ![p].instance = here, ![p].at = "instance"]
  /\ UNCHANGED <<here, dirs>>

LockShared(p) ==
  /\ Is(p, "run", "instance")
  /\ NoMaintenance(proc[p].instance)
  /\ proc' = [proc EXCEPT ![p].maintenance = proc[p].instance, ![p].at = "locked"]
  /\ UNCHANGED <<here, dirs>>

\* validate_existing_configuration once more, by path.
Recheck(p) ==
  /\ Is(p, "run", "locked")
  /\ Fit(here, proc[p].key)
  /\ Go(p, "rechecked")
  /\ UNCHANGED <<here, dirs>>

\* application_lock.database_url(), which names the database through the
\* descriptor of the locked directory.  (Mutation: the configured one.)
ByPath(p) == here
Anchored(p) == proc[p].maintenance

Open(p) ==
  /\ \/ Is(p, "run", "rechecked")
     \/ proc[p].command \in {"doctor", "reset"} /\ proc[p].at = "locked"
  /\ Current(Anchored(p))
  /\ proc' = [proc EXCEPT ![p].pool = Anchored(p), ![p].at = "open"]
  /\ UNCHANGED <<here, dirs>>

Serve(p) ==
  /\ Is(p, "run", "open")
  /\ Fit(proc[p].pool, proc[p].key)
  /\ Go(p, "serving")
  /\ UNCHANGED <<here, dirs>>

\* Invitations are created, whose codes are encrypted with the server's key, and
\* deleted.
ChangeInvites(p) ==
  /\ Is(p, "run", "serving")
  /\ \E sealed \in {dirs[proc[p].pool].sealed \union {proc[p].key}, {}} :
       dirs' = [dirs EXCEPT ![proc[p].pool].sealed = sealed]
  /\ UNCHANGED <<here, proc>>

-----------------------------------------------------------------------------
(* doctor and admin-reset-password                                         *)

TakeMaintenance(p) ==
  /\ \/ proc[p].command \in {"doctor", "reset"} /\ proc[p].at = "start"
     \/ Is(p, "init", "claimed")
  /\ TakeCommon(p, "common")

\* validate_configuration_database
Look(p) ==
  /\ proc[p].command \in {"doctor", "reset"} /\ proc[p].at = "common"
  /\ Current(here)
  /\ Go(p, "looked")
  /\ UNCHANGED <<here, dirs>>

\* MaintenanceLock::exclusive
LockExclusive(p) ==
  /\ proc[p].command \in {"doctor", "reset"} /\ proc[p].at = "looked"
  /\ Unmaintained(here)
  /\ proc' = [proc EXCEPT ![p].maintenance = here, ![p].at = "locked"]
  /\ UNCHANGED <<here, dirs>>

-----------------------------------------------------------------------------
(* init                                                                    *)

\* create_empty_private_directory
Claim(p) ==
  /\ Is(p, "init", "start")
  /\ ~dirs[here].used
  /\ Go(p, "claimed")
  /\ UNCHANGED <<here, dirs>>

\* create_runtime_log_directory
MakeLogs(p) ==
  /\ Is(p, "init", "common")
  /\ dirs' = [dirs EXCEPT ![here].used = TRUE]
  /\ Go(p, "logs")
  /\ UNCHANGED here

\* database.try_exists(): the directory was empty a while ago.
\* (Mutation: that is enough.)
TrustEmptiness(d) == TRUE
NoDatabase(d) == dirs[d].db = "none"

SeeNoDatabase(p) ==
  /\ Is(p, "init", "logs")
  /\ NoDatabase(here)
  /\ Go(p, "absent")
  /\ UNCHANGED <<here, dirs>>

\* open_or_initialize: create_new, or open_existing.
CreateDatabase(p) ==
  /\ Is(p, "init", "absent")
  /\ dirs[here].db = "none" \/ Current(here)
  /\ LET new == dirs[here].db = "none" IN
     /\ dirs' = [dirs EXCEPT ![here].db = IF new THEN "empty" ELSE @]
     /\ proc' = [proc EXCEPT ![p].pool = here, ![p].created = IF new THEN here ELSE Nil,
                             ![p].at = IF new THEN "created" ELSE "opened"]
  /\ UNCHANGED here

\* initialize_empty commits.
InitializeEmpty(p) ==
  /\ Is(p, "init", "created")
  /\ dirs' = [dirs EXCEPT ![here].db = "schema"]
  /\ Go(p, "schema")
  /\ UNCHANGED here

\* checkpoint_and_sync
Checkpoint(p) ==
  /\ Is(p, "init", "schema")
  /\ Go(p, "opened")
  /\ UNCHANGED <<here, dirs>>

\* fail_initialization: the files are removed.
FailInitialization(p) ==
  /\ Is(p, "init", "created") \/ Is(p, "init", "schema")
  /\ dirs' = [dirs EXCEPT ![here].db = "none"]
  /\ proc' = [proc EXCEPT ![p] = Off]
  /\ UNCHANGED here

\* ensure_admin_user.  What follows changes nothing.
EnsureAdmin(p) ==
  /\ Is(p, "init", "opened")
  /\ dirs' = [dirs EXCEPT ![here].db = "ready"]
  /\ Go(p, "initialized")
  /\ UNCHANGED here

-----------------------------------------------------------------------------

\* A process has finished, gives up or is killed.
End(p) ==
  /\ proc[p].at # "off"
  /\ proc' = [proc EXCEPT ![p] = Off]
  /\ UNCHANGED <<here, dirs>>

\* The operator puts another directory in place, but not while init, which goes
\* by the path throughout, is creating a database.
Move ==
  /\ \A p \in Procs : proc[p].command # "init"
  /\ here' \in Dirs \ {here}
  /\ UNCHANGED <<dirs, proc>>

Next ==
  \/ \E p \in Procs, command \in Commands, key \in Keys : Start(p, command, key)
  \/ \E p \in Procs :
       \/ Check(p) \/ TakeInstance(p) \/ LockInstance(p) \/ LockShared(p) \/ Recheck(p)
       \/ Open(p) \/ Serve(p) \/ ChangeInvites(p)
       \/ TakeMaintenance(p) \/ Look(p) \/ LockExclusive(p)
       \/ Claim(p) \/ MakeLogs(p) \/ SeeNoDatabase(p) \/ CreateDatabase(p)
       \/ InitializeEmpty(p) \/ Checkpoint(p) \/ FailInitialization(p) \/ EnsureAdmin(p)
       \/ End(p)
  \/ Move

Spec == Init /\ [][Next]_vars

-----------------------------------------------------------------------------
(* Properties.                                                             *)

HasOpen(p, d) == proc[p].command # "init" /\ proc[p].pool = d

\* The server, the doctor and the reset of a password have a database to
\* themselves, also when the directory is replaced between their checks, their
\* locks and the opening of the database.
DatabaseAlone ==
  \A d \in Dirs, p, q \in Procs : HasOpen(p, d) /\ HasOpen(q, d) => p = q

\* As long as a server runs, its database is complete, has an administrator, and
\* every stored authorization code can be decrypted with the server's key: no
\* other server adds codes under another key, and no failed init removes it.
ServesFitDatabase ==
  \A p \in Procs : proc[p].at = "serving" =>
    dirs[proc[p].pool].db = "ready" /\ dirs[proc[p].pool].sealed \subseteq {proc[p].key}

\* A database is completed or removed only by the init that began it, as long as
\* that runs.  What an interrupted init leaves is left alone: no command completes
\* it under another password or removes it, as init asks for an empty directory and
\* the others for a finished database.  And one that has an administrator stays,
\* whatever inits fail or are started beside each other.
CreatorOnly ==
  [][\A d \in Dirs : dirs'[d].db # dirs[d].db =>
       \/ dirs[d].db = "none"
       \/ dirs[d].db # "ready" /\ \E p \in Procs : proc[p].created = d]_vars

\* A server that was started with a release root runs the exact release of its
\* version: all of the layout and nothing else, in the modes that make it
\* read-only, with the contents the manifest lists and the web interface of the
\* binary; and nobody but the owner of the installation could have put it there
\* through the pointer.
RunsExactRelease ==
  \A p \in Procs : proc[p].release # Nil /\ proc[p].release.bound =>
    LET tree == proc[p].release.tree
        root == proc[p].release.root
        pointer == proc[p].release.pointer
    IN
    /\ root.version = Version /\ root.mode = "0555"
    /\ proc[p].release.named = "current" =>
         pointer.owners = {root.owner} /\ pointer.modes = {"0755"} /\ pointer.target = Version
    /\ DOMAIN tree = DOMAIN Layout
    /\ \A name \in DOMAIN Layout :
         /\ tree[name].kind = Layout[name]
         /\ tree[name].mode = IF name = Server \/ Layout[name] = "directory" THEN "0555" ELSE "0444"
         /\ tree[name] = proc[p].release.entries[name]
    /\ tree[Assets].content = Compiled
=============================================================================
