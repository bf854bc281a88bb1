--------------------------- MODULE ApplyContract ---------------------------
(***************************************************************************)
(* What both transaction mechanisms of safe_apply promise ("two            *)
(* transaction mechanisms, one contract", reconcile/apply.py): operations  *)
(* only take effect behind a restore point, the restore point is either    *)
(* dropped or returned to, and success means that the whole plan is in     *)
(* effect with no restore point left.                                      *)
(***************************************************************************)
EXTENDS Naturals

CONSTANTS Ops,      \* every operation a plan may consist of
          NoPoint   \* no restore point: not a set of operations

VARIABLES
    plan,      \* the operations to apply
    config,    \* the operations in effect
    restore,   \* the configuration the router will return to, or NoPoint
    verdict    \* what the caller has been told

avars == <<plan, config, restore, verdict>>

Verdicts == {"pending", "success", "failure", "lost"}

Init ==
    /\ plan \in SUBSET Ops
    /\ config = {} /\ restore = NoPoint /\ verdict = "pending"

Protect ==
    /\ verdict = "pending" /\ restore = NoPoint
    /\ restore' = config
    /\ UNCHANGED <<plan, config, verdict>>

Write(op) ==
    /\ verdict = "pending" /\ restore # NoPoint /\ op \notin config
    /\ config' = config \cup {op}
    /\ verdict' \in {"pending", "lost"}
    /\ UNCHANGED <<plan, restore>>

\* The last steps may come together with a failure verdict, never with
\* success: that is a step of its own.
Keep ==
    /\ verdict = "pending" /\ restore # NoPoint
    /\ restore' = NoPoint
    /\ verdict' \in Verdicts \ {"success"}
    /\ UNCHANGED <<plan, config>>

\* The only thing that still happens once the verdict is out.
Return ==
    /\ restore # NoPoint
    /\ config' = restore /\ restore' = NoPoint
    /\ verdict' \in IF verdict = "pending" THEN Verdicts \ {"success"}
                                           ELSE {verdict}
    /\ UNCHANGED plan

Conclude ==
    /\ verdict = "pending"
    /\ verdict' \in Verdicts \ {"pending"}
    /\ verdict' = "success" => config = plan /\ restore = NoPoint
    /\ UNCHANGED <<plan, config, restore>>

\* A restore point set in the step that loses the verdict.
ProtectAndLose ==
    /\ verdict = "pending" /\ restore = NoPoint
    /\ restore' = config /\ verdict' = "lost"
    /\ UNCHANGED <<plan, config>>

Next ==
    \/ Protect \/ ProtectAndLose \/ Keep \/ Return \/ Conclude
    \/ \E op \in plan : Write(op)

Spec == Init /\ [][Next]_avars
=============================================================================
