-------------------------------- MODULE Pages -------------------------------
(***************************************************************************)
(* Lists in pages: page of pagination.rs and the queries of store.rs       *)
(* around it (list_invites_page, list_hosts_page, report_log), which read  *)
(* one row more than a page on one side of a cursor.  A client goes from   *)
(* page to page while rows are added, renamed and deleted.                 *)
(*                                                                         *)
(* Abstractions.                                                           *)
(*  - A row is ordered by its sort key and its id, in ascending order; the *)
(*    report log descends by the time of receipt, which is the same.       *)
(*  - A cursor is a position and a direction.  Its encoding, its scope and *)
(*    the filters of a query (one host, a range of time) are left out, as  *)
(*    they do not change during a walk.                                    *)
(*  - The byte budget of a page may cut it after any row but before the    *)
(*    first.                                                               *)
(***************************************************************************)
EXTENDS Naturals, Sequences, SequencesExt

CONSTANTS
  Rows,      \* ids
  Sorts,     \* values of the sort key
  None,      \* no cursor, or no row
  PageSize   \* PAGE_SIZE, 50

ASSUME PageAssumption ==
  /\ Rows \subseteq Nat /\ IsFiniteSet(Rows)
  /\ Sorts \subseteq Nat
  /\ None \notin Nat \union (Nat \X Nat) \union ((Nat \X Nat) \X (Nat \X Nat))
  /\ PageSize \in Nat \ {0}

VARIABLES
  table,   \* the sort key of each row that is there
  view,    \* the page the client has: its rows and cursors
  stable,  \* auxiliary: rows that have been there, unchanged, since the walk began
  shown,   \* auxiliary: rows shown since the walk began
  span     \* auxiliary: the first and the last position shown since then

walk == <<table, view, stable, shown, span>>

Position(r) == <<table[r], r>>
Before(p, q) == p[1] < q[1] \/ (p[1] = q[1] /\ p[2] < q[2])
Stored == {r \in Rows : table[r] # None}

WalkInit ==
  /\ table \in [Rows -> Sorts \union {None}]
  /\ view = [rows |-> << >>, next |-> None, previous |-> None]
  /\ stable = {}
  /\ shown = {}
  /\ span = None

-----------------------------------------------------------------------------
(* Reading a page.                                                         *)

\* WHERE (sort, id) > cursor ORDER BY sort, id, or < and DESC, LIMIT 51.
\* (sort, id) < cursor, or > cursor.
Beyond(cursor, p, newer) == IF newer THEN Before(p, cursor) ELSE Before(cursor, p)

\* ORDER BY: the place of a row tells how many rows are ahead of it.
Ahead(r, s, newer) ==
  IF newer THEN Before(Position(s), Position(r)) ELSE Before(Position(r), Position(s))
Ordered(side, newer) ==
  [i \in 1..Cardinality(side) |->
     CHOOSE r \in side : Cardinality({s \in side : Ahead(s, r, newer)}) = i - 1]

Selected(cursor, newer) ==
  LET side == {r \in Stored : cursor = None \/ Beyond(cursor, Position(r), newer)}
      all == Ordered(side, newer)
  IN SubSeq(all, 1, IF Len(all) > PageSize + 1 THEN PageSize + 1 ELSE Len(all))

\* How many rows fit in a page: all, or what the byte budget leaves.
Counts(rows) ==
  IF rows = << >> THEN {0} ELSE 1..(IF Len(rows) > PageSize THEN PageSize ELSE Len(rows))

\* rows.truncate(count), then rows.reverse().  (Mutation: the other way round.)
ReversedFirst(rows, count, newer) ==
  SubSeq(IF newer THEN Reverse(rows) ELSE rows, 1, count)
Shortened(rows, count, newer) ==
  LET kept == SubSeq(rows, 1, count) IN IF newer THEN Reverse(kept) ELSE kept

\* rows.len() > count
More(rows, count) == Len(rows) > count

\* page
Page(rows, count, cursor, newer) ==
  LET kept == Shortened(rows, count, newer)
      more == More(rows, count)
  IN [rows |-> kept,
      previous |-> IF kept # << >> /\ ((newer /\ more) \/ (~newer /\ cursor # None))
                   THEN Position(Head(kept)) ELSE None,
      next |-> IF kept # << >> /\ (newer \/ more) THEN Position(Last(kept)) ELSE None]

\* The client asks for a page.  A walk that is looked at may begin with any page.
Show(cursor, newer, anew) ==
  \E count \in Counts(Selected(cursor, newer)) :
    /\ view' = Page(Selected(cursor, newer), count, cursor, newer)
    /\ shown' = ToSet(view'.rows) \union (IF anew THEN {} ELSE shown)
    /\ stable' = IF anew THEN Stored ELSE stable
    /\ span' = LET old == IF anew THEN None ELSE span IN
               IF view'.rows = << >> THEN old
               ELSE LET ends == <<Position(Head(view'.rows)), Position(Last(view'.rows))>> IN
                    IF old = None THEN ends
                    ELSE <<IF Before(old[1], ends[1]) THEN old[1] ELSE ends[1],
                           IF Before(ends[2], old[2]) THEN old[2] ELSE ends[2]>>
    /\ UNCHANGED table

FirstPage == Show(None, FALSE, TRUE)

NextPage ==
  /\ view.next # None
  /\ \E anew \in BOOLEAN : Show(view.next, FALSE, anew)

PreviousPage ==
  /\ view.previous # None
  /\ \E anew \in BOOLEAN : Show(view.previous, TRUE, anew)

-----------------------------------------------------------------------------
(* Meanwhile a row is added, renamed or deleted.                           *)

Change(r, sort) ==
  /\ table[r] # sort
  /\ table' = [table EXCEPT ![r] = sort]
  /\ stable' = stable \ {r}
  /\ UNCHANGED <<view, shown, span>>

WalkNext ==
  \/ FirstPage \/ NextPage \/ PreviousPage
  \/ \E r \in Rows, sort \in Sorts \union {None} : Change(r, sort)

WalkSpec == WalkInit /\ [][WalkNext]_walk

-----------------------------------------------------------------------------
(* Properties.                                                             *)

\* However the client walks to and fro, wherever it began and whatever the byte
\* budget cuts, it skips no row that was there all along: all of them between the
\* first and the last position it was shown have been shown.
NothingSkipped ==
  span # None =>
    \A r \in stable :
      \/ r \in shown
      \/ Before(Position(r), span[1])
      \/ Before(span[2], Position(r))

\* A page is an unbroken piece of the list, each end of which says truly whether
\* there is more: without a cursor no row that was there all along lies beyond.
\* (A page that has become empty has no cursors either way.)
EndsTrue ==
  view.rows # << >> =>
    \A r \in stable \ ToSet(view.rows) :
      LET first == Position(Head(view.rows))
          last == Position(Last(view.rows))
      IN ToSet(view.rows) \subseteq stable =>
           /\ Before(Position(r), first) \/ Before(last, Position(r))
           /\ view.next = None => Before(Position(r), first)
           /\ view.previous = None => Before(last, Position(r))

\* What a client may rely on while rows come, move and go between its requests and
\* the byte budget cuts its pages: nothing that stays is missed.
PagesTrue == NothingSkipped /\ EndsTrue
=============================================================================
