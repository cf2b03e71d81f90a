------------------------- MODULE MCTelemetryWriter --------------------------
(* Small instances of TelemetryWriter for TLC.                             *)
EXTENDS TelemetryWriter, TLC

\* Sound for the runs without liveness properties only.
Symmetry == Permutations(Calls) \union Permutations(Hosts) \union Permutations(Reports)
=============================================================================
