--------------------------- MODULE BootstrapProofs --------------------------
(***************************************************************************)
(* Proofs about Bootstrap, for any number of processes, directories, keys  *)
(* and releases.  The inductive invariant says which locks a process has   *)
(* at each stage, that they exclude each other, how far the database is at *)
(* each stage of the init that creates it, and that the database of a      *)
(* server fits it.                                                         *)
(***************************************************************************)
EXTENDS Bootstrap, FiniteSetTheorems, TLAPS

-----------------------------------------------------------------------------
(* Releases.                                                               *)

\* Of two finite sets, one in the other and as large, both are the same.
LEMMA SameSize ==
  ASSUME NEW S, NEW T, IsFiniteSet(T), S \subseteq T, Cardinality(S) = Cardinality(T)
  PROVE  S = T
BY FS_Subset

\* What may run and is bound is exactly the layout.
ExactRelease(release) ==
  LET tree == release.tree IN
  /\ release.root.version = Version /\ release.root.mode = "0555"
  /\ release.named = "current" =>
       /\ release.pointer.owners = {release.root.owner}
       /\ release.pointer.modes = {"0755"}
       /\ release.pointer.target = Version
  /\ DOMAIN tree = DOMAIN Layout
  /\ \A name \in DOMAIN Layout :
       /\ tree[name].kind = Layout[name]
       /\ tree[name].mode = IF name = Server \/ Layout[name] = "directory" THEN "0555" ELSE "0444"
       /\ tree[name] = release.entries[name]
  /\ tree[Assets].content = Compiled

LEMMA VerifiedExactly ==
  ASSUME NEW release \in Releases, MayRun(release), release.bound
  PROVE  ExactRelease(release)
<1> DEFINE tree == release.tree
<1> DEFINE entries == release.entries
<1>1. ResolvedRoot(release) /\ Verified(release)
  BY DEF MayRun
<1>2. IsFiniteSet(DOMAIN entries) /\ IsFiniteSet(DOMAIN Layout)
  BY FiniteAssumption
<1>3. DOMAIN Layout = DOMAIN entries
  <2>1. DOMAIN Layout \subseteq DOMAIN entries
          /\ Cardinality(DOMAIN Layout) = Cardinality(DOMAIN entries)
    BY <1>1 DEF Verified, ExactLayout
  <2> QED BY <1>2, <2>1, SameSize
<1>4. DOMAIN tree = DOMAIN entries
  <2>1. DOMAIN tree \subseteq DOMAIN entries
          /\ Cardinality(DOMAIN tree) = Cardinality(DOMAIN entries)
    BY <1>1 DEF Verified, WalkAgrees, SeenAll
  <2> QED BY <1>2, <2>1, SameSize
<1>5. ASSUME NEW name \in DOMAIN Layout
      PROVE  /\ tree[name].kind = Layout[name]
             /\ tree[name].mode = IF name = Server \/ Layout[name] = "directory" THEN "0555" ELSE "0444"
             /\ tree[name] = entries[name]
  <2>1. tree[name] = entries[name]
    BY <1>1, <1>3, <1>4 DEF Verified, WalkAgrees
  <2>2. entries[name].kind = Layout[name]
    BY <1>1 DEF Verified, ExactLayout
  <2>3. entries[name].mode = RequiredMode(name, entries[name].kind)
    BY <1>1, <1>3 DEF Verified, ParsedEntries
  <2> QED BY <2>1, <2>2, <2>3 DEF RequiredMode
<1>6. tree[Assets].content = Compiled
  BY <1>1 DEF Verified
<1>7. /\ release.root.version = Version /\ release.root.mode = "0555"
      /\ release.named = "current" =>
           /\ release.pointer.owners = {release.root.owner}
           /\ release.pointer.modes = {"0755"}
           /\ release.pointer.target = Version
  BY <1>1 DEF ResolvedRoot, ReleaseRoot
<1> QED BY <1>3, <1>4, <1>5, <1>6, <1>7 DEF ExactRelease

-----------------------------------------------------------------------------
(* The invariant.                                                          *)

Stages == {"off", "start", "checked", "common", "instance", "locked", "rechecked", "open",
           "serving", "looked", "claimed", "logs", "absent", "created", "schema", "opened",
           "initialized"}
Process ==
  [command : Commands \union {"none"}, at : Stages, key : Keys \union {Nil},
   release : Releases \union {Nil}, common : Dirs \union {Nil},
   instance : Dirs \union {Nil}, maintenance : Dirs \union {Nil},
   pool : Dirs \union {Nil}, created : Dirs \union {Nil}]

TypeOK ==
  /\ here \in Dirs
  /\ dirs \in [Dirs -> Directory]
  /\ proc \in [Procs -> Process]

\* The stages of each command, and the locks that it has there.
Unlocked(q) == q.instance = Nil /\ q.maintenance = Nil
Shape(q) ==
  /\ q.command = "none" => q = Off
  /\ q.command # "none" => q.key \in Keys /\ q.at # "off"
  /\ q.command = "init" => Unlocked(q)
  /\ q.at \in {"start", "checked", "claimed"} =>
       Unlocked(q) /\ q.common = Nil /\ q.pool = Nil
  /\ q.at \in {"common", "looked"} => Unlocked(q) /\ q.pool = Nil
  /\ q.at = "instance" =>
       q.command = "run" /\ q.instance # Nil /\ q.maintenance = Nil /\ q.pool = Nil
  /\ q.command = "run" /\ q.at \in {"locked", "rechecked"} =>
       q.maintenance # Nil /\ q.instance = q.maintenance /\ q.pool = Nil
  /\ q.command = "run" /\ q.at \in {"open", "serving"} =>
       q.pool # Nil /\ q.instance = q.pool /\ q.maintenance = q.pool
  /\ q.command \in {"doctor", "reset"} /\ q.at = "locked" =>
       q.maintenance # Nil /\ q.pool = Nil
  /\ q.command \in {"doctor", "reset"} /\ q.at = "open" =>
       q.pool # Nil /\ q.maintenance = q.pool
  /\ q.command = "run" => q.at \in {"start", "checked", "common", "instance", "locked",
                                    "rechecked", "open", "serving"}
  /\ q.command \in {"doctor", "reset"} => q.at \in {"start", "common", "looked", "locked", "open"}
  /\ q.command = "init" => q.at \in {"start", "claimed", "common", "logs", "absent", "created",
                                     "schema", "opened", "initialized"}
Shapes == \A p \in Procs : Shape(proc[p])

\* The locks exclude each other.
Alone ==
  /\ \A p, q \in Procs : proc[p].common # Nil /\ proc[p].common = proc[q].common => p = q
  /\ \A p, q \in Procs : proc[p].instance # Nil /\ proc[p].instance = proc[q].instance => p = q
  /\ \A p, q \in Procs :
       proc[p].maintenance # Nil /\ proc[p].maintenance = proc[q].maintenance =>
         p = q \/ (proc[p].command = "run" /\ proc[q].command = "run")

\* An init that holds its lock, in directory d, finds the database as it left it.
InitAt(q, d, db) ==
  q.command = "init" /\ q.at \notin {"start", "claimed"} =>
    /\ q.common = d
    /\ q.at = "absent" => db = "none"
    /\ q.at = "created" => db = "empty" /\ q.created = d
    /\ q.at \in {"schema", "opened"} => db = "schema" /\ q.created = d
Inits == \A p \in Procs : InitAt(proc[p], here, dirs[here].db)

FitAt(q, ds) ==
  q.at = "serving" => ds[q.pool].db = "ready" /\ ds[q.pool].sealed \subseteq {q.key}
Fits == \A p \in Procs : FitAt(proc[p], dirs)

ReleaseAt(q) == q.release # Nil /\ q.release.bound => ExactRelease(q.release)
Exact == \A p \in Procs : ReleaseAt(proc[p])

Inv == TypeOK /\ Shapes /\ Alone /\ Inits /\ Fits /\ Exact
USE NilNoDirectory

LEMMA OffFacts ==
  /\ Off \in Process /\ Shape(Off)
  /\ Off.common = Nil /\ Off.instance = Nil /\ Off.maintenance = Nil /\ Off.release = Nil
  /\ Off.command = "none" /\ Off.at = "off" /\ Off.pool = Nil
BY DEF Off, Process, Shape, Unlocked, Stages, Commands

LEMMA InitInv == Init => Inv
<1> SUFFICES ASSUME Init PROVE Inv
  OBVIOUS
<1>1. \A p \in Procs : proc[p] = Off
  BY DEF Init
<1>2. TypeOK
  BY OffFacts DEF Init, TypeOK, Directory, Databases
<1> QED BY <1>1, <1>2, OffFacts
        DEF Inv, Shapes, Alone, Inits, InitAt, Fits, FitAt, Exact, ReleaseAt

-----------------------------------------------------------------------------
(* Steps of one process.                                                   *)

\* A process p becomes new: the locks that are new to it were free, and what is
\* changed in the directories is the database that it creates, or the codes of the
\* one that it serves.
LEMMA StepInv ==
  ASSUME Inv, NEW p \in Procs, NEW new \in Process, Shape(new),
         here' = here, proc' = [proc EXCEPT ![p] = new],
         dirs' \in [Dirs -> Directory],
         new.common = Nil \/ new.common = proc[p].common \/ CommonFree(new.common),
         new.instance = Nil \/ new.instance = proc[p].instance \/ InstanceFree(new.instance),
         \/ new.maintenance = Nil
         \/ new.maintenance = proc[p].maintenance /\ new.command = proc[p].command
         \/ Unmaintained(new.maintenance)
         \/ new.command = "run" /\ NoMaintenance(new.maintenance),
         \A d \in Dirs :
           \/ dirs'[d] = dirs[d]
           \/ /\ d = here /\ proc[p].command = "init" /\ proc[p].at \notin {"start", "claimed"}
              /\ dirs'[d].sealed = dirs[d].sealed
              /\ dirs'[d].db = dirs[d].db \/ dirs[d].db # "ready"
           \/ /\ proc[p].command = "run" /\ proc[p].at = "serving" /\ proc[p].pool = d
              /\ dirs'[d].db = dirs[d].db,
         InitAt(new, here, dirs'[here].db),
         FitAt(new, dirs'), ReleaseAt(new)
  PROVE  Inv'
<1> USE DEF Inv
<1>1. proc \in [Procs -> Process] /\ proc'[p] = new
        /\ \A q \in Procs \ {p} : proc'[q] = proc[q]
  BY DEF TypeOK
<1>2. TypeOK'
  BY <1>1 DEF TypeOK
<1>3. Shapes'
  BY <1>1 DEF Shapes
<1>4. Alone'
  <2>1. ASSUME NEW q \in Procs, NEW r \in Procs,
               proc'[q].common # Nil, proc'[q].common = proc'[r].common
        PROVE  q = r
    BY <1>1, <2>1 DEF Alone, CommonFree
  <2>2. ASSUME NEW q \in Procs, NEW r \in Procs,
               proc'[q].instance # Nil, proc'[q].instance = proc'[r].instance
        PROVE  q = r
    BY <1>1, <2>2 DEF Alone, InstanceFree
  <2>3. ASSUME NEW q \in Procs \ {p},
               new.maintenance # Nil, new.maintenance = proc[q].maintenance
        PROVE  new.command = "run" /\ proc[q].command = "run"
    BY <1>1, <2>3 DEF Alone, NoMaintenance, Unmaintained
  <2>4. ASSUME NEW q \in Procs, NEW r \in Procs,
               proc'[q].maintenance # Nil, proc'[q].maintenance = proc'[r].maintenance, q # r
        PROVE  proc'[q].command = "run" /\ proc'[r].command = "run"
    BY <1>1, <2>3, <2>4 DEF Alone
  <2>5. \A q, r \in Procs :
          proc'[q].maintenance # Nil /\ proc'[q].maintenance = proc'[r].maintenance =>
            q = r \/ (proc'[q].command = "run" /\ proc'[r].command = "run")
    BY <2>4
  <2>6. \A q, r \in Procs : proc'[q].common # Nil /\ proc'[q].common = proc'[r].common => q = r
    BY <2>1
  <2>7. \A q, r \in Procs :
          proc'[q].instance # Nil /\ proc'[q].instance = proc'[r].instance => q = r
    BY <2>2
  <2> QED BY <2>5, <2>6, <2>7 DEF Alone
<1>5. Inits'
  <2> SUFFICES ASSUME NEW q \in Procs, q # p
               PROVE  InitAt(proc[q], here, dirs'[here].db)
    BY <1>1 DEF Inits
  <2>1. InitAt(proc[q], here, dirs[here].db) /\ here \in Dirs
    BY DEF Inits, TypeOK
  <2>2. CASE dirs'[here].db = dirs[here].db
    BY <2>1, <2>2
  <2>3. CASE dirs'[here].db # dirs[here].db
    <3>1. proc[p].command = "init" /\ proc[p].at \notin {"start", "claimed"}
      BY <2>1, <2>3
    <3>2. proc[p].common = here /\ here # Nil
      BY <3>1, <2>1 DEF Inits, InitAt
    <3>3. proc[q].common # here
      BY <3>2 DEF Alone
    <3> QED BY <3>3, <2>1 DEF InitAt
  <2> QED BY <2>2, <2>3
<1>6. Fits'
  <2> SUFFICES ASSUME NEW q \in Procs, q # p, proc[q].at = "serving"
               PROVE  /\ dirs'[proc[q].pool].db = "ready"
                      /\ dirs'[proc[q].pool].sealed \subseteq {proc[q].key}
    BY <1>1 DEF Fits, FitAt
  <2> DEFINE d == proc[q].pool
  <2>1. dirs[d].db = "ready" /\ dirs[d].sealed \subseteq {proc[q].key}
    BY DEF Fits, FitAt
  <2>2. Shape(proc[q]) /\ Shape(proc[p]) /\ proc[q] \in Process
    BY <1>1 DEF Shapes
  <2>3. proc[q].command = "run" /\ d \in Dirs /\ proc[q].instance = d
    BY <2>2 DEF Shape, Process, Commands, Off
  <2>4. ~(proc[p].command = "run" /\ proc[p].at = "serving" /\ proc[p].pool = d)
    BY <2>2, <2>3 DEF Shape, Alone
  <2> HIDE DEF d
  <2>5. \/ dirs'[d] = dirs[d]
        \/ dirs'[d].sealed = dirs[d].sealed /\ dirs'[d].db = dirs[d].db
    BY <2>1, <2>3, <2>4
  <2> QED BY <2>1, <2>5 DEF d
<1>7. Exact'
  BY <1>1 DEF Exact
<1> QED BY <1>2, <1>3, <1>4, <1>5, <1>6, <1>7

\* A step that only goes on, with the locks and the pool it has.
LEMMA Stays ==
  ASSUME Inv, NEW p \in Procs, NEW at \in Stages,
         NEW new, new = [proc[p] EXCEPT !.at = at]
  PROVE  /\ proc[p] \in Process /\ Shape(proc[p])
         /\ InitAt(proc[p], here, dirs[here].db) /\ FitAt(proc[p], dirs) /\ ReleaseAt(proc[p])
         /\ new \in Process /\ new.at = at /\ new.command = proc[p].command
         /\ new.key = proc[p].key /\ new.release = proc[p].release
         /\ new.common = proc[p].common /\ new.instance = proc[p].instance
         /\ new.maintenance = proc[p].maintenance /\ new.pool = proc[p].pool
         /\ new.created = proc[p].created
BY DEF Inv, TypeOK, Process, Shapes, Inits, Fits, Exact

LEMMA StartInv ==
  ASSUME Inv, NEW p \in Procs, NEW command \in Commands, NEW key \in Keys,
         Start(p, command, key)
  PROVE  Inv'
<1> DEFINE new == [Off EXCEPT !.command = command, !.at = "start", !.key = key]
<1>1. proc' = [proc EXCEPT ![p] = new] /\ UNCHANGED <<here, dirs>>
  BY DEF Start
<1>2. /\ new \in Process /\ new.command = command /\ new.at = "start" /\ new.key = key
      /\ new.common = Nil /\ new.instance = Nil /\ new.maintenance = Nil /\ new.pool = Nil
      /\ new.release = Nil
  BY DEF Off, Process, Commands, Stages
<1> HIDE DEF new
<1>3. Shape(new)
  BY <1>2 DEF Shape, Unlocked, Commands
<1>4. InitAt(new, here, dirs'[here].db) /\ FitAt(new, dirs') /\ ReleaseAt(new)
  BY <1>2 DEF InitAt, FitAt, ReleaseAt
<1>5. dirs' \in [Dirs -> Directory]
  BY <1>1 DEF Inv, TypeOK
<1> QED BY <1>1, <1>2, <1>3, <1>4, <1>5, StepInv

LEMMA EndInv ==
  ASSUME Inv, NEW p \in Procs, End(p)
  PROVE  Inv'
<1>1. proc' = [proc EXCEPT ![p] = Off] /\ UNCHANGED <<here, dirs>>
  BY DEF End
<1>2. InitAt(Off, here, dirs'[here].db) /\ FitAt(Off, dirs') /\ ReleaseAt(Off)
  BY OffFacts DEF InitAt, FitAt, ReleaseAt
<1>3. dirs' \in [Dirs -> Directory]
  BY <1>1 DEF Inv, TypeOK
<1> QED BY <1>1, <1>2, <1>3, OffFacts, StepInv

\* The step of a process that changes no directory.
LEMMA QuietInv ==
  ASSUME Inv, NEW p \in Procs, NEW new \in Process, Shape(new),
         proc' = [proc EXCEPT ![p] = new], UNCHANGED <<here, dirs>>,
         new.common = proc[p].common \/ CommonFree(new.common),
         new.instance = proc[p].instance \/ InstanceFree(new.instance),
         new.command = proc[p].command,
         \/ new.maintenance = proc[p].maintenance
         \/ Unmaintained(new.maintenance)
         \/ new.command = "run" /\ NoMaintenance(new.maintenance),
         InitAt(new, here, dirs[here].db), FitAt(new, dirs), ReleaseAt(new)
  PROVE  Inv'
<1>1. dirs' \in [Dirs -> Directory]
  BY DEF Inv, TypeOK
<1> QED BY <1>1, StepInv

LEMMA CheckInv ==
  ASSUME Inv, NEW p \in Procs, Check(p)
  PROVE  Inv'
<1>1. PICK release \in Releases :
        MayRun(release) /\ proc' = [proc EXCEPT ![p].release = release, ![p].at = "checked"]
  BY DEF Check
<1> DEFINE new == [proc[p] EXCEPT !.release = release, !.at = "checked"]
<1>2. proc[p] \in Process /\ Shape(proc[p]) /\ proc[p].command = "run"
        /\ proc[p].at = "start" /\ proc' = [proc EXCEPT ![p] = new]
        /\ UNCHANGED <<here, dirs>>
  BY <1>1 DEF Check, Is, Inv, TypeOK, Shapes
<1>3. /\ new \in Process /\ new.at = "checked" /\ new.command = "run" /\ new.key = proc[p].key
      /\ new.release = release /\ new.common = proc[p].common
      /\ new.instance = proc[p].instance /\ new.maintenance = proc[p].maintenance
      /\ new.pool = proc[p].pool
  BY <1>2 DEF Process, Stages
<1> HIDE DEF new
<1>4. Shape(new)
  BY <1>2, <1>3 DEF Shape, Unlocked
<1>5. InitAt(new, here, dirs[here].db) /\ FitAt(new, dirs) /\ ReleaseAt(new)
  BY <1>1, <1>3, VerifiedExactly DEF InitAt, FitAt, ReleaseAt
<1> QED BY <1>2, <1>3, <1>4, <1>5, QuietInv

\* TakeInstance and TakeMaintenance.
LEMMA TakeCommonInv ==
  ASSUME Inv, NEW p \in Procs, TakeCommon(p, "common"),
         \/ Is(p, "run", "checked")
         \/ proc[p].command \in {"doctor", "reset"} /\ proc[p].at = "start"
         \/ Is(p, "init", "claimed")
  PROVE  Inv'
<1> DEFINE new == [proc[p] EXCEPT !.common = here, !.at = "common"]
<1>1. /\ proc[p] \in Process /\ Shape(proc[p]) /\ ReleaseAt(proc[p])
      /\ here \in Dirs /\ CommonFree(here)
      /\ proc' = [proc EXCEPT ![p] = new]
      /\ UNCHANGED <<here, dirs>>
  BY DEF TakeCommon, Inv, TypeOK, Shapes, Exact
<1>2. proc[p].at \in {"start", "checked", "claimed"}
        /\ proc[p].command \in {"run", "doctor", "reset", "init"}
  BY DEF Is
<1>3. /\ new \in Process /\ new.at = "common" /\ new.command = proc[p].command
      /\ new.key = proc[p].key /\ new.release = proc[p].release /\ new.common = here
      /\ new.instance = proc[p].instance /\ new.maintenance = proc[p].maintenance
      /\ new.pool = proc[p].pool
  BY <1>1 DEF Process, Stages
<1> HIDE DEF new
<1>4. Shape(new)
  BY <1>1, <1>2, <1>3 DEF Shape, Unlocked
<1>5. InitAt(new, here, dirs[here].db) /\ FitAt(new, dirs) /\ ReleaseAt(new)
  BY <1>1, <1>3 DEF InitAt, FitAt, ReleaseAt
<1> QED BY <1>1, <1>3, <1>4, <1>5, QuietInv

\* LockInstance, LockShared and LockExclusive.
LEMMA LockInv ==
  ASSUME Inv, NEW p \in Procs, LockInstance(p) \/ LockShared(p) \/ LockExclusive(p)
  PROVE  Inv'
<1>1. /\ proc \in [Procs -> Process] /\ proc[p] \in Process /\ Shape(proc[p])
      /\ ReleaseAt(proc[p]) /\ here \in Dirs /\ here # Nil
  BY DEF Inv, TypeOK, Shapes, Exact
<1>2. CASE LockInstance(p)
  <2> DEFINE new == [proc[p] EXCEPT !.instance = here, !.at = "instance"]
  <2>1. /\ proc' = [proc EXCEPT ![p] = new] /\ UNCHANGED <<here, dirs>>
        /\ proc[p].command = "run" /\ proc[p].at = "common" /\ InstanceFree(here)
    BY <1>1, <1>2 DEF LockInstance, Is
  <2>2. /\ new \in Process /\ new.at = "instance" /\ new.command = "run"
        /\ new.key = proc[p].key /\ new.release = proc[p].release
        /\ new.common = proc[p].common /\ new.instance = here
        /\ new.maintenance = proc[p].maintenance /\ new.pool = proc[p].pool
    BY <1>1, <2>1 DEF Process, Stages
  <2> HIDE DEF new
  <2>3. Shape(new)
    BY <1>1, <2>1, <2>2 DEF Shape, Unlocked
  <2>4. InitAt(new, here, dirs[here].db) /\ FitAt(new, dirs) /\ ReleaseAt(new)
    BY <1>1, <2>2 DEF InitAt, FitAt, ReleaseAt
  <2> QED BY <2>1, <2>2, <2>3, <2>4, QuietInv
<1>3. CASE LockShared(p)
  <2> DEFINE new == [proc[p] EXCEPT !.maintenance = proc[p].instance, !.at = "locked"]
  <2>1. /\ proc' = [proc EXCEPT ![p] = new] /\ UNCHANGED <<here, dirs>>
        /\ proc[p].command = "run" /\ proc[p].at = "instance"
        /\ NoMaintenance(proc[p].instance)
    BY <1>1, <1>3 DEF LockShared, Is
  <2>2. /\ new \in Process /\ new.at = "locked" /\ new.command = "run"
        /\ new.key = proc[p].key /\ new.release = proc[p].release
        /\ new.common = proc[p].common /\ new.instance = proc[p].instance
        /\ new.maintenance = proc[p].instance /\ new.pool = proc[p].pool
    BY <1>1, <2>1 DEF Process, Stages
  <2> HIDE DEF new
  <2>3. Shape(new)
    BY <1>1, <2>1, <2>2 DEF Shape, Unlocked
  <2>4. InitAt(new, here, dirs[here].db) /\ FitAt(new, dirs) /\ ReleaseAt(new)
    BY <1>1, <2>2 DEF InitAt, FitAt, ReleaseAt
  <2> QED BY <2>1, <2>2, <2>3, <2>4, QuietInv
<1>4. CASE LockExclusive(p)
  <2> DEFINE new == [proc[p] EXCEPT !.maintenance = here, !.at = "locked"]
  <2>1. /\ proc' = [proc EXCEPT ![p] = new] /\ UNCHANGED <<here, dirs>>
        /\ proc[p].command \in {"doctor", "reset"} /\ proc[p].at = "looked"
        /\ Unmaintained(here)
    BY <1>1, <1>4 DEF LockExclusive
  <2>2. /\ new \in Process /\ new.at = "locked" /\ new.command = proc[p].command
        /\ new.key = proc[p].key /\ new.release = proc[p].release
        /\ new.common = proc[p].common /\ new.instance = proc[p].instance
        /\ new.maintenance = here /\ new.pool = proc[p].pool
    BY <1>1, <2>1 DEF Process, Stages
  <2> HIDE DEF new
  <2>3. Shape(new)
    BY <1>1, <2>1, <2>2 DEF Shape, Unlocked
  <2>4. InitAt(new, here, dirs[here].db) /\ FitAt(new, dirs) /\ ReleaseAt(new)
    BY <1>1, <2>1, <2>2 DEF InitAt, FitAt, ReleaseAt
  <2> QED BY <2>1, <2>2, <2>3, <2>4, QuietInv
<1> QED BY <1>2, <1>3, <1>4

\* The steps that only look.
LEMMA GoInv ==
  ASSUME Inv, NEW p \in Procs,
         Recheck(p) \/ Serve(p) \/ Look(p) \/ Claim(p) \/ SeeNoDatabase(p) \/ Checkpoint(p)
  PROVE  Inv'
<1>1. PICK at \in {"rechecked", "serving", "looked", "claimed", "absent", "opened"} :
        /\ Go(p, at) /\ UNCHANGED <<here, dirs>>
        /\ at = "rechecked" => proc[p].command = "run" /\ proc[p].at = "locked"
        /\ at = "serving" => /\ proc[p].command = "run" /\ proc[p].at = "open"
                             /\ Fit(proc[p].pool, proc[p].key)
        /\ at = "looked" => proc[p].command \in {"doctor", "reset"} /\ proc[p].at = "common"
        /\ at = "claimed" => proc[p].command = "init" /\ proc[p].at = "start"
        /\ at = "absent" => /\ proc[p].command = "init" /\ proc[p].at = "logs"
                            /\ dirs[here].db = "none"
        /\ at = "opened" => proc[p].command = "init" /\ proc[p].at = "schema"
  BY DEF Recheck, Serve, Look, Claim, SeeNoDatabase, NoDatabase, Checkpoint, Is
<1> DEFINE new == [proc[p] EXCEPT !.at = at]
<1>2. at \in Stages
  BY DEF Stages
<1>3. proc' = [proc EXCEPT ![p] = new]
  BY <1>1 DEF Go, Inv, TypeOK
<1>4. /\ Shape(proc[p]) /\ ReleaseAt(proc[p]) /\ InitAt(proc[p], here, dirs[here].db)
      /\ new \in Process /\ new.at = at /\ new.command = proc[p].command
      /\ new.key = proc[p].key /\ new.release = proc[p].release
      /\ new.common = proc[p].common /\ new.instance = proc[p].instance
      /\ new.maintenance = proc[p].maintenance /\ new.pool = proc[p].pool
      /\ new.created = proc[p].created
  BY <1>2, Stays
<1> HIDE DEF new
<1>5. Shape(new)
  BY <1>1, <1>4 DEF Shape, Unlocked
<1>6. InitAt(new, here, dirs[here].db)
  BY <1>1, <1>4 DEF InitAt
<1>7. FitAt(new, dirs)
  BY <1>1, <1>4 DEF FitAt, Fit
<1>8. ReleaseAt(new)
  BY <1>4 DEF ReleaseAt
<1> QED BY <1>1, <1>3, <1>4, <1>5, <1>6, <1>7, <1>8, QuietInv

LEMMA OpenInv ==
  ASSUME Inv, NEW p \in Procs, Open(p)
  PROVE  Inv'
<1> DEFINE new == [proc[p] EXCEPT !.pool = proc[p].maintenance, !.at = "open"]
<1>1. /\ proc[p] \in Process /\ Shape(proc[p]) /\ ReleaseAt(proc[p])
      /\ proc' = [proc EXCEPT ![p] = new]
      /\ UNCHANGED <<here, dirs>>
      /\ \/ proc[p].command = "run" /\ proc[p].at = "rechecked"
         \/ proc[p].command \in {"doctor", "reset"} /\ proc[p].at = "locked"
  BY DEF Open, Anchored, Is, Inv, TypeOK, Shapes, Exact
<1>2. /\ new \in Process /\ new.at = "open" /\ new.command = proc[p].command
      /\ new.key = proc[p].key /\ new.release = proc[p].release
      /\ new.common = proc[p].common /\ new.instance = proc[p].instance
      /\ new.maintenance = proc[p].maintenance /\ new.pool = proc[p].maintenance
  BY <1>1 DEF Process, Stages
<1> HIDE DEF new
<1>3. Shape(new)
  BY <1>1, <1>2 DEF Shape, Unlocked
<1>4. InitAt(new, here, dirs[here].db) /\ FitAt(new, dirs) /\ ReleaseAt(new)
  BY <1>1, <1>2 DEF InitAt, FitAt, ReleaseAt
<1> QED BY <1>1, <1>2, <1>3, <1>4, QuietInv

\* The server changes the codes of the database that it has to itself.
LEMMA ChangeInvitesInv ==
  ASSUME Inv, NEW p \in Procs, ChangeInvites(p)
  PROVE  Inv'
<1> DEFINE d == proc[p].pool
<1>1. proc[p].command = "run" /\ proc[p].at = "serving" /\ UNCHANGED <<here, proc>>
  BY DEF ChangeInvites, Is
<1>2. PICK sealed \in {dirs[d].sealed \union {proc[p].key}, {}} :
        dirs' = [dirs EXCEPT ![d].sealed = sealed]
  BY DEF ChangeInvites
<1>3. /\ proc \in [Procs -> Process] /\ proc[p] \in Process /\ Shape(proc[p])
      /\ ReleaseAt(proc[p]) /\ InitAt(proc[p], here, dirs[here].db) /\ FitAt(proc[p], dirs)
      /\ dirs \in [Dirs -> Directory]
  BY DEF Inv, TypeOK, Shapes, Exact, Inits, Fits
<1>4. d \in Dirs /\ proc[p].key \in Keys
  BY <1>1, <1>3 DEF Shape, Process
<1> HIDE DEF d
<1>5. sealed \subseteq {proc[p].key} /\ sealed \subseteq Keys
  BY <1>1, <1>3, <1>4 DEF FitAt, d
<1>6. /\ dirs'[d] \in Directory /\ dirs'[d].db = dirs[d].db /\ dirs'[d].sealed = sealed
      /\ \A e \in Dirs \ {d} : dirs'[e] = dirs[e]
  BY <1>2, <1>3, <1>4, <1>5 DEF Directory
<1>7. dirs' \in [Dirs -> Directory]
  BY <1>2, <1>3, <1>4, <1>6
<1>8. FitAt(proc[p], dirs')
  BY <1>1, <1>3, <1>5, <1>6 DEF FitAt, d
<1>9. InitAt(proc[p], here, dirs'[here].db)
  BY <1>1 DEF InitAt
<1>10. proc' = [proc EXCEPT ![p] = proc[p]]
  BY <1>1, <1>3
<1>11. \A e \in Dirs :
         \/ dirs'[e] = dirs[e]
         \/ /\ proc[p].command = "run" /\ proc[p].at = "serving" /\ proc[p].pool = e
            /\ dirs'[e].db = dirs[e].db
  BY <1>1, <1>6 DEF d
<1> QED BY <1>1, <1>3, <1>7, <1>8, <1>9, <1>10, <1>11, StepInv

\* The steps of an init that change its directory.
LEMMA BuildInv ==
  ASSUME Inv, NEW p \in Procs, NEW new \in Process, Shape(new),
         proc[p].command = "init", proc[p].at \notin {"start", "claimed"},
         proc' = [proc EXCEPT ![p] = new], here' = here,
         NEW entry \in Directory, dirs' = [dirs EXCEPT ![here] = entry],
         entry.sealed = dirs[here].sealed,
         entry.db = dirs[here].db \/ dirs[here].db # "ready",
         new.common \in {Nil, proc[p].common}, new.instance = Nil, new.maintenance = Nil,
         InitAt(new, here, entry.db), new.at # "serving", ReleaseAt(new)
  PROVE  Inv'
<1>1. here \in Dirs /\ dirs \in [Dirs -> Directory]
  BY DEF Inv, TypeOK
<1>2. dirs' \in [Dirs -> Directory] /\ dirs'[here] = entry
        /\ \A d \in Dirs \ {here} : dirs'[d] = dirs[d]
  BY <1>1
<1>3. FitAt(new, dirs')
  BY DEF FitAt
<1> QED BY <1>2, <1>3, StepInv

LEMMA InitStepInv ==
  ASSUME Inv, NEW p \in Procs,
         MakeLogs(p) \/ InitializeEmpty(p) \/ EnsureAdmin(p)
  PROVE  Inv'
<1>1. here \in Dirs /\ dirs[here] \in Directory /\ dirs \in [Dirs -> Directory]
  BY DEF Inv, TypeOK
<1>2. PICK at \in {"logs", "schema", "initialized"}, entry \in Directory :
        /\ proc[p].command = "init" /\ proc[p].at \in {"common", "created", "opened"}
        /\ Go(p, at) /\ here' = here
        /\ dirs' = [dirs EXCEPT ![here] = entry] /\ entry.sealed = dirs[here].sealed
        /\ at = "logs" => proc[p].at = "common" /\ entry.db = dirs[here].db
        /\ at = "schema" => proc[p].at = "created" /\ entry.db = "schema"
        /\ at = "initialized" => proc[p].at = "opened" /\ entry.db = "ready"
  <2>1. CASE MakeLogs(p)
    <3> DEFINE entry == [dirs[here] EXCEPT !.used = TRUE]
    <3>1. entry \in Directory /\ entry.sealed = dirs[here].sealed /\ entry.db = dirs[here].db
      BY <1>1 DEF Directory
    <3>2. dirs' = [dirs EXCEPT ![here] = entry]
      BY <2>1, <1>1 DEF MakeLogs
    <3> HIDE DEF entry
    <3> QED BY <2>1, <3>1, <3>2 DEF MakeLogs, Is
  <2>2. CASE InitializeEmpty(p)
    <3> DEFINE entry == [dirs[here] EXCEPT !.db = "schema"]
    <3>1. entry \in Directory /\ entry.sealed = dirs[here].sealed /\ entry.db = "schema"
      BY <1>1 DEF Directory, Databases
    <3>2. dirs' = [dirs EXCEPT ![here] = entry]
      BY <2>2, <1>1 DEF InitializeEmpty
    <3> HIDE DEF entry
    <3> QED BY <2>2, <3>1, <3>2 DEF InitializeEmpty, Is
  <2>3. CASE EnsureAdmin(p)
    <3> DEFINE entry == [dirs[here] EXCEPT !.db = "ready"]
    <3>1. entry \in Directory /\ entry.sealed = dirs[here].sealed /\ entry.db = "ready"
      BY <1>1 DEF Directory, Databases
    <3>2. dirs' = [dirs EXCEPT ![here] = entry]
      BY <2>3, <1>1 DEF EnsureAdmin
    <3> HIDE DEF entry
    <3> QED BY <2>3, <3>1, <3>2 DEF EnsureAdmin, Is
  <2> QED BY <2>1, <2>2, <2>3
<1> DEFINE new == [proc[p] EXCEPT !.at = at]
<1>3. at \in Stages
  BY DEF Stages
<1>4. proc' = [proc EXCEPT ![p] = new]
  BY <1>2 DEF Go, Inv, TypeOK
<1>5. /\ Shape(proc[p]) /\ ReleaseAt(proc[p]) /\ InitAt(proc[p], here, dirs[here].db)
      /\ new \in Process /\ new.at = at /\ new.command = proc[p].command
      /\ new.key = proc[p].key /\ new.release = proc[p].release
      /\ new.common = proc[p].common /\ new.instance = proc[p].instance
      /\ new.maintenance = proc[p].maintenance /\ new.pool = proc[p].pool
      /\ new.created = proc[p].created
  BY <1>3, Stays
<1> HIDE DEF new
<1>6. Shape(new) /\ new.instance = Nil /\ new.maintenance = Nil
  BY <1>2, <1>5 DEF Shape, Unlocked
<1>7. InitAt(new, here, entry.db) /\ ReleaseAt(new) /\ new.at # "serving"
  BY <1>2, <1>5 DEF InitAt, ReleaseAt
<1>8. entry.db = dirs[here].db \/ dirs[here].db # "ready"
  BY <1>2, <1>5 DEF InitAt
<1> QED BY <1>2, <1>4, <1>5, <1>6, <1>7, <1>8, BuildInv

\* The database is not there yet, as nobody else could have created it.
LEMMA CreateDatabaseInv ==
  ASSUME Inv, NEW p \in Procs, CreateDatabase(p)
  PROVE  Inv'
<1> DEFINE new == [proc[p] EXCEPT !.pool = here, !.created = here, !.at = "created"]
<1> DEFINE entry == [dirs[here] EXCEPT !.db = "empty"]
<1>1. /\ here \in Dirs /\ dirs[here] \in Directory /\ dirs \in [Dirs -> Directory]
      /\ proc[p] \in Process /\ Shape(proc[p]) /\ ReleaseAt(proc[p])
      /\ InitAt(proc[p], here, dirs[here].db)
  BY DEF Inv, TypeOK, Shapes, Exact, Inits
<1>2. proc[p].command = "init" /\ proc[p].at = "absent" /\ here' = here
  BY DEF CreateDatabase, Is
<1>3. dirs[here].db = "none" /\ proc[p].common = here
  BY <1>1, <1>2 DEF InitAt
<1>4. proc' = [proc EXCEPT ![p] = new] /\ dirs' = [dirs EXCEPT ![here] = entry]
  BY <1>1, <1>3 DEF CreateDatabase, Inv, TypeOK
<1>5. entry \in Directory /\ entry.sealed = dirs[here].sealed /\ entry.db = "empty"
  BY <1>1 DEF Directory, Databases
<1>6. /\ new \in Process /\ new.at = "created" /\ new.command = "init"
      /\ new.key = proc[p].key /\ new.release = proc[p].release
      /\ new.common = proc[p].common /\ new.instance = proc[p].instance
      /\ new.maintenance = proc[p].maintenance /\ new.created = here
  BY <1>1, <1>2 DEF Process, Stages
<1> HIDE DEF new, entry
<1>7. Shape(new) /\ new.instance = Nil /\ new.maintenance = Nil
  BY <1>1, <1>2, <1>6 DEF Shape, Unlocked
<1>8. InitAt(new, here, entry.db) /\ ReleaseAt(new)
  BY <1>1, <1>3, <1>5, <1>6 DEF InitAt, ReleaseAt
<1> QED BY <1>2, <1>3, <1>4, <1>5, <1>6, <1>7, <1>8, BuildInv

LEMMA FailInitializationInv ==
  ASSUME Inv, NEW p \in Procs, FailInitialization(p)
  PROVE  Inv'
<1> DEFINE entry == [dirs[here] EXCEPT !.db = "none"]
<1>1. /\ here \in Dirs /\ dirs[here] \in Directory /\ dirs \in [Dirs -> Directory]
      /\ InitAt(proc[p], here, dirs[here].db)
  BY DEF Inv, TypeOK, Inits
<1>2. proc[p].command = "init" /\ proc[p].at \in {"created", "schema"} /\ here' = here
  BY DEF FailInitialization, Is
<1>3. dirs[here].db # "ready"
  BY <1>1, <1>2 DEF InitAt
<1>4. proc' = [proc EXCEPT ![p] = Off] /\ dirs' = [dirs EXCEPT ![here] = entry]
  BY <1>1 DEF FailInitialization
<1>5. entry \in Directory /\ entry.sealed = dirs[here].sealed /\ entry.db = "none"
  BY <1>1 DEF Directory, Databases
<1> HIDE DEF entry
<1>6. InitAt(Off, here, entry.db) /\ ReleaseAt(Off) /\ Off.at # "serving"
  BY OffFacts DEF InitAt, ReleaseAt
<1> QED BY <1>2, <1>3, <1>4, <1>5, <1>6, OffFacts, BuildInv

\* No init is there to be misled.
LEMMA MoveInv == ASSUME Inv, Move PROVE Inv'
<1>1. here' \in Dirs /\ UNCHANGED <<dirs, proc>> /\ \A p \in Procs : proc[p].command # "init"
  BY DEF Move
<1> QED BY <1>1 DEF Inv, TypeOK, Shapes, Alone, Inits, InitAt, Fits, Exact

LEMMA RestInv == ASSUME Inv, UNCHANGED vars PROVE Inv'
BY DEF vars, Inv, TypeOK, Shapes, Alone, Inits, Fits, Exact

LEMMA NextInv == ASSUME Inv, [Next]_vars PROVE Inv'
<1>1. ASSUME NEW p \in Procs, NEW command \in Commands, NEW key \in Keys,
             Start(p, command, key)
      PROVE  Inv'
  BY <1>1, StartInv
<1>2. ASSUME NEW p \in Procs, Check(p) PROVE Inv'
  BY <1>2, CheckInv
<1>3. ASSUME NEW p \in Procs, TakeInstance(p) \/ TakeMaintenance(p) PROVE Inv'
  BY <1>3, TakeCommonInv DEF TakeInstance, TakeMaintenance
<1>4. ASSUME NEW p \in Procs, LockInstance(p) \/ LockShared(p) \/ LockExclusive(p) PROVE Inv'
  BY <1>4, LockInv
<1>5. ASSUME NEW p \in Procs,
             Recheck(p) \/ Serve(p) \/ Look(p) \/ Claim(p) \/ SeeNoDatabase(p) \/ Checkpoint(p)
      PROVE  Inv'
  BY <1>5, GoInv
<1>6. ASSUME NEW p \in Procs, Open(p) \/ ChangeInvites(p) PROVE Inv'
  BY <1>6, OpenInv, ChangeInvitesInv
<1>7. ASSUME NEW p \in Procs, MakeLogs(p) \/ InitializeEmpty(p) \/ EnsureAdmin(p) PROVE Inv'
  BY <1>7, InitStepInv
<1>8. ASSUME NEW p \in Procs, CreateDatabase(p) \/ FailInitialization(p) \/ End(p) PROVE Inv'
  BY <1>8, CreateDatabaseInv, FailInitializationInv, EndInv
<1>9. CASE Move
  BY <1>9, MoveInv
<1>10. CASE UNCHANGED vars
  BY <1>10, RestInv
<1> QED BY <1>1, <1>2, <1>3, <1>4, <1>5, <1>6, <1>7, <1>8, <1>9, <1>10 DEF Next

LEMMA Invariance == Spec => []Inv
BY InitInv, NextInv, PTL DEF Spec

-----------------------------------------------------------------------------
(* The properties.                                                         *)

\* A server, a doctor and a reset of a password never have one database open
\* together, whatever is put in the place of its directory.
THEOREM DatabaseIsAlone == Spec => []DatabaseAlone
<1>1. Inv => DatabaseAlone
  <2> SUFFICES ASSUME Inv, NEW d \in Dirs, NEW p \in Procs, NEW q \in Procs,
                      HasOpen(p, d), HasOpen(q, d)
               PROVE  p = q
    BY DEF DatabaseAlone
  <2>1. Shape(proc[p]) /\ Shape(proc[q]) /\ proc[p] \in Process /\ proc[q] \in Process
    BY DEF Inv, Shapes, TypeOK
  <2>2. ASSUME NEW r \in {p, q}
        PROVE  /\ proc[r].maintenance = d
               /\ proc[r].command = "run" => proc[r].instance = d
    BY <2>1, <2>2 DEF HasOpen, Shape, Process, Commands, Off
  <2>3. d # Nil
    OBVIOUS
  <2>4. p = q \/ (proc[p].command = "run" /\ proc[q].command = "run")
    BY <2>2, <2>3 DEF Inv, Alone
  <2> QED BY <2>2, <2>3, <2>4 DEF Inv, Alone
<1> QED BY <1>1, Invariance, PTL

\* The database of a running server is complete and all its codes are encrypted
\* with the server's key.
THEOREM ServersFit == Spec => []ServesFitDatabase
<1>1. Inv => ServesFitDatabase
  BY DEF Inv, Fits, FitAt, ServesFitDatabase
<1> QED BY <1>1, Invariance, PTL

\* What runs as a release is exactly the release that the binary was built with.
THEOREM ReleasesExact == Spec => []RunsExactRelease
<1>1. Inv => RunsExactRelease
  BY DEF Inv, Exact, ReleaseAt, ExactRelease, RunsExactRelease
<1> QED BY <1>1, Invariance, PTL

\* No init touches a database that it did not begin, and none that is ready.
THEOREM CreatorsOnly == Spec => CreatorOnly
<1>1. ASSUME Inv, [Next]_vars, NEW d \in Dirs, dirs'[d].db # dirs[d].db
      PROVE  \/ dirs[d].db = "none"
             \/ dirs[d].db # "ready" /\ \E p \in Procs : proc[p].created = d
  <2>1. here \in Dirs /\ dirs \in [Dirs -> Directory]
    BY <1>1 DEF Inv, TypeOK
  <2>2. dirs' # dirs
    BY <1>1
  <2>3. ASSUME NEW p \in Procs, MakeLogs(p) \/ ChangeInvites(p) PROVE FALSE
    <3>1. CASE MakeLogs(p)
      BY <3>1, <2>1, <1>1 DEF MakeLogs, Directory
    <3>2. CASE ChangeInvites(p)
      BY <3>2, <2>1, <1>1 DEF ChangeInvites, Directory
    <3> QED BY <2>3, <3>1, <3>2
  <2>4. PICK p \in Procs : \/ CreateDatabase(p) \/ InitializeEmpty(p)
                           \/ FailInitialization(p) \/ EnsureAdmin(p)
    BY <1>1, <2>2, <2>3
       DEF Next, vars, Start, Check, TakeInstance, TakeMaintenance, TakeCommon, LockInstance,
           LockShared, LockExclusive, Recheck, Open, Serve, Look, Claim, SeeNoDatabase,
           Checkpoint, End, Move
  <2>5. d = here
    BY <1>1, <2>1, <2>4 DEF CreateDatabase, InitializeEmpty, FailInitialization, EnsureAdmin
  <2>6. InitAt(proc[p], here, dirs[here].db)
    BY <1>1 DEF Inv, Inits
  <2>7. CASE CreateDatabase(p)
    BY <2>5, <2>6, <2>7 DEF CreateDatabase, Is, InitAt
  <2>8. CASE InitializeEmpty(p) \/ FailInitialization(p) \/ EnsureAdmin(p)
    BY <2>5, <2>6, <2>8 DEF InitializeEmpty, FailInitialization, EnsureAdmin, Is, InitAt
  <2> QED BY <2>4, <2>7, <2>8
<1>2. Inv /\ [Next]_vars =>
        [\A d \in Dirs : dirs'[d].db # dirs[d].db =>
           \/ dirs[d].db = "none"
           \/ dirs[d].db # "ready" /\ \E p \in Procs : proc[p].created = d]_vars
  BY <1>1
<1> QED BY <1>2, Invariance, PTL DEF Spec, CreatorOnly
=============================================================================
