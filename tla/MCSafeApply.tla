---------------------------- MODULE MCSafeApply ----------------------------
(***************************************************************************)
(* Fault sets for model checking SafeApply.                                *)
(***************************************************************************)
EXTENDS SafeApply

\* What the two mechanisms are built to survive, and the failures of the
\* controller itself.
Survivable == {"refuse", "lostRequest", "lostReply", "transport",
               "crash", "cancel", "lateClose"}

Everything == AllFaults
=============================================================================
