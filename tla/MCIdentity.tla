----------------------------- MODULE MCIdentity -----------------------------
(***************************************************************************)
(* The instance of Identity for TLC.  Visitors and requests each play the  *)
(* same part, so TLC may permute them.                                     *)
(***************************************************************************)
EXTENDS Identity, TLC

Interchangeable == Permutations(Browsers) \cup Permutations(Requests)
=============================================================================
