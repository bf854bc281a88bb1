---- MODULE MCTelemetry ----
(***************************************************************************)
(* One end of a link, covered by a group whose window is shorter than a    *)
(* sweep may take (schemas/policy.py takes one minute, the queue allows    *)
(* ten) or by none, and two jobs of the queue.                             *)
(***************************************************************************)
EXTENDS Telemetry, TLC

OneSite == "e1" :> "hq"
Covered == "e1" :> {"g1"}
Limits == "g1" :> [loss |-> 50, latency |-> 1, window |-> 0] @@ None :> [loss |-> 0, latency |-> 1, window |-> 2]
Symmetric == Permutations(Sweeps)
=============================================================================
