--------------------------- MODULE MCTokenBuckets ----------------------------
(* A small instance of TokenBuckets for TLC.  The limits of the pairing     *)
(* routes and of the reports share nothing but the clock, so that a         *)
(* behaviour uses one of them only.                                         *)
EXTENDS TokenBuckets, TLC

VARIABLE limited

MCInit == Init /\ limited \in {"pairing", "reports"}

Uses(limiter) == limited = limiter /\ UNCHANGED limited

MCNext ==
  \/ Uses("pairing") /\ \E t \in Threads, source \in Sources, identifier \in Identifiers :
                          ReadClock(t, source, identifier)
  \/ Uses("pairing") /\ \E t \in Threads : Check(t)
  \/ Uses("reports") /\ \E h \in Hosts : Allow(h)
  \/ Uses(limited) /\ Tick

MCSpec == MCInit /\ [][MCNext]_<<vars, limited>>

Symmetry ==
  Permutations(Sources) \union Permutations(Identifiers) \union Permutations(Hosts)
    \union Permutations(Threads)
=============================================================================
