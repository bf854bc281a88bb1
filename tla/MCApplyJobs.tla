---------------------------- MODULE MCApplyJobs ----------------------------
(***************************************************************************)
(* Symmetry for model checking ApplyJobs (safety only): job ids, sites and *)
(* sessions of one role are interchangeable model values.                  *)
(***************************************************************************)
EXTENDS ApplyJobs, TLC

Symmetric == UNION {Permutations(S) : S \in {Jobs, Sites, Clients, Sweepers}}
=============================================================================
