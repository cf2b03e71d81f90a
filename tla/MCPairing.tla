----------------------------- MODULE MCPairing -----------------------------
(* Small instances of Pairing for TLC.                                     *)
EXTENDS Pairing, TLC

\* No definition tells one invite, instance, secret, token or name from
\* another, so the sets of model values may be permuted.
Symmetry ==
  Permutations(Invites) \union Permutations(Instances) \union
  Permutations(Secrets) \union Permutations(Tokens) \union Permutations(Names)
=============================================================================
