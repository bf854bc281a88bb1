--------------------------- MODULE MCLoginThrottle ---------------------------
(***************************************************************************)
(* One key: the throttle's buckets have nothing in common.                 *)
(***************************************************************************)
EXTENDS LoginThrottle, TLC

Symmetric == Permutations(Attempts)
=============================================================================
