--------------------------- MODULE MCDetailPolling --------------------------
(* A small instance of DetailPolling for TLC.                              *)
EXTENDS DetailPolling
=============================================================================
