-------------------------- MODULE SafeApplyProofs --------------------------
(***************************************************************************)
(* Proofs about SafeApply, for every plan length, chunk size and fault set.*)
(***************************************************************************)
EXTENDS SafeApply, TLAPS

LEMMA BatchEndType ==
    ASSUME TypeOK
    PROVE  BatchEnd \in 0..MaxOps
BY BoundsAssumption DEF TypeOK, BatchEnd, Chunk

\* Every variable keeps the type the code gives it; the counters applied and
\* committed never run past the plan.
THEOREM TypeCorrect == Spec => []TypeOK
<1>1. Init => TypeOK
  <2> SUFFICES ASSUME Init PROVE TypeOK
    OBVIOUS
  <2>1. /\ nops \in 0..MaxOps /\ cut \in 0..MaxOps /\ offered \in BOOLEAN
        /\ pc \in PCs /\ flow \in {"none", "safe", "legacy"}
        /\ applied \in 0..MaxOps /\ committed \in 0..MaxOps
    BY BoundsAssumption DEF Init, PCs
  <2>2. /\ bad \in BOOLEAN /\ holding \in BOOLEAN /\ out \subseteq Outcome
        /\ run \subseteq Ops /\ sched \in BOOLEAN /\ backed \in BOOLEAN
        /\ older \in 0..MaxOlder /\ up \in BOOLEAN
        /\ hold \in {"none", "ours", "other"}
    BY DEF Init
  <2>3. /\ steps \in [Ops -> {"none", "applied", "failed", "skipped", "lost"}]
        /\ mark \in [Ops -> {"none", "commit", "abort"}]
    BY DEF Init
  <2>4. point \in [run: SUBSET Ops, sched: BOOLEAN]
    BY DEF Init
  <2> QED
    BY <2>1, <2>2, <2>3, <2>4 DEF TypeOK
<1>2. TypeOK /\ [Next]_vars => TypeOK'
  <2> SUFFICES ASSUME TypeOK, [Next]_vars PROVE TypeOK'
    OBVIOUS
  <2> USE DEF TypeOK
  <2>0. BatchEnd \in 0..MaxOps
    BY BatchEndType
  <2>1. CASE NothingToApply
    BY <2>1 DEF NothingToApply, Outcome, PCs, Return, call, dev
  <2>2. CASE Backup
    <3>1. out' \subseteq Outcome /\ pc' \in PCs /\ backed' \in BOOLEAN
      BY <2>2 DEF Backup, Outcome, PCs, Return, Failure
    <3> QED
      BY <2>2, <3>1 DEF Backup, call
  <2>3. CASE EnterGranted
    BY <2>3 DEF EnterGranted, PCs, call
  <2>4. CASE EnterRefused
    <3>1. out' \subseteq Outcome /\ pc' \in PCs
      BY <2>4 DEF EnterRefused, Outcome, PCs, Return, FailureAfterCommits, Failure
    <3>2. hold' \in {"none", "ours", "other"} /\ point' \in [run: SUBSET Ops, sched: BOOLEAN]
      BY <2>4 DEF EnterRefused
    <3> QED
      BY <2>4, <3>1, <3>2 DEF EnterRefused, call
  <2>5. CASE Arm
    BY <2>5 DEF Arm, Outcome, PCs, call
  <2>6. CASE PushOp
    BY <2>6, <2>0, BoundsAssumption DEF PushOp, Ops, PCs, call
  <2>7. CASE PushFails
    <3>1. run' \subseteq Ops
      <4>1. applied + 1 \in Ops
        BY <2>7, <2>0, BoundsAssumption DEF PushFails, Ops
      <4> QED
        BY <2>7, <4>1 DEF PushFails
    <3> QED
      BY <2>7, <3>1 DEF PushFails, call
  <2>8. CASE RecordSteps
    BY <2>8 DEF RecordSteps, StepState, Ops, PCs, call, dev
  <2>9. CASE Verify
    <3>1. out' \subseteq Outcome /\ pc' \in PCs
      BY <2>9 DEF Verify, Outcome, PCs, Return, Failure
    <3> QED
      BY <2>9, <3>1 DEF Verify, call, dev
  <2>10. CASE Abort
    <3>1. out' \subseteq Outcome /\ pc' \in PCs
      BY <2>10 DEF Abort, Outcome, PCs, Return, FailureAfterCommits, Failure
    <3> QED
      BY <2>10, <3>1 DEF Abort, RecordEvent, CloseSession, Unwind, call
  <2>11. CASE CommitConfirmed
    BY <2>11, <2>0 DEF CommitConfirmed, RecordEvent, PCs, call
  <2>12. CASE CommitUnconfirmed
    <3>1. out' \subseteq Outcome /\ pc' \in PCs
      BY <2>12 DEF CommitUnconfirmed, Outcome, PCs, Return, FailureAfterCommits, Failure
    <3> QED
      BY <2>12, <3>1 DEF CommitUnconfirmed, RecordEvent, CloseSession, Unwind, call
  <2>13. CASE DisarmRead
    <3>1. out' \subseteq Outcome /\ pc' \in PCs
      BY <2>13 DEF DisarmRead, Outcome, PCs, Return, Failure
    <3> QED
      BY <2>13, <3>1 DEF DisarmRead, call, dev
  <2>14. CASE DisarmRemove
    <3>1. out' \subseteq Outcome /\ pc' \in PCs
      BY <2>14 DEF DisarmRemove, Outcome, PCs, Return, Failure
    <3> QED
      BY <2>14, <3>1 DEF DisarmRemove, call
  <2>15. CASE PruneAndReturn
    <3>1. out' \subseteq Outcome /\ pc' \in PCs
      BY <2>15 DEF PruneAndReturn, Outcome, PCs, Return, Failure
    <3> QED
      BY <2>15, <3>1, BoundsAssumption DEF PruneAndReturn, call
  <2>16. CASE Raise
    <3>1. run' \subseteq Ops
      <4>1. ASSUME pc = "push" PROVE applied + 1 \in Ops
        BY <2>16, <4>1, <2>0, BoundsAssumption DEF Raise, Requesting, Ops
      <4> QED
        BY <2>16, <4>1 DEF Raise, CloseSession, Unwind
    <3>2. /\ sched' \in BOOLEAN /\ backed' \in BOOLEAN /\ holding' \in BOOLEAN
          /\ hold' \in {"none", "ours", "other"} /\ pc' \in PCs
      BY <2>16 DEF Raise, CloseSession, Unwind, PCs
    <3> QED
      BY <2>16, <3>1, <3>2 DEF Raise, call
  <2>17. CASE Interrupted
    BY <2>17 DEF Interrupted, PCs, CloseSession, Unwind, call
  <2>18. CASE NoticeClosedSession
    BY <2>18 DEF NoticeClosedSession, Unwind, call, ctl
  <2>19. CASE SessionDies
    BY <2>19 DEF SessionDies, Unwind, call, ctl
  <2>20. CASE HumanHoldEnds
    BY <2>20 DEF HumanHoldEnds, Unwind, call, ctl
  <2>21. CASE DeadManFires
    BY <2>21 DEF DeadManFires, call, ctl
  <2>22. CASE Boot
    BY <2>22 DEF Boot, call, ctl
  <2>23. CASE UNCHANGED vars
    BY <2>23 DEF vars, call, ctl, dev
  <2> QED
    BY <2>1, <2>2, <2>3, <2>4, <2>5, <2>6, <2>7, <2>8, <2>9, <2>10, <2>11, <2>12,
       <2>13, <2>14, <2>15, <2>16, <2>17, <2>18, <2>19, <2>20, <2>21, <2>22, <2>23
       DEF Next, Controller, Router, Done
<1> QED
  BY <1>1, <1>2, PTL DEF Spec

-----------------------------------------------------------------------------
(* Unless a fault can put a change outside every restore point, a broken   *)
(* management path is always about to be undone by the router.             *)

Protected == Faults \cap (Unprotecting \cup {"slowPush"}) = {}

LEMMA NoUnprotectingFault ==
    ASSUME Protected
    PROVE  /\ "armFails" \notin Faults /\ "sessionDies" \notin Faults
           /\ "lostGrant" \notin Faults /\ "humanHold" \notin Faults
           /\ "slowPush" \notin Faults
BY DEF Protected, Unprotecting

LEMMA RestorePointInit ==
    ASSUME Protected, Init PROVE RestorePointInv
BY NoUnprotectingFault DEF Init, RestorePointInv, LockoutIsTemporary, CutOff, Ended

LEMMA RestorePointStep ==
    ASSUME Protected, TypeOK, RestorePointInv, [Next]_vars
    PROVE  RestorePointInv'
<1> USE NoUnprotectingFault DEF RestorePointInv, LockoutIsTemporary, CutOff, Ended
<1>0. flow \in {"none", "safe", "legacy"} /\ pc \in PCs
  BY DEF TypeOK
<1>1. CASE NothingToApply
  BY <1>1 DEF NothingToApply, Return, call, dev
<1>2. CASE Backup
  BY <1>2 DEF Backup, Return, call
<1>3. CASE EnterGranted
  BY <1>3 DEF EnterGranted, call
<1>4. CASE EnterRefused
  BY <1>4 DEF EnterRefused, Return, call
<1>5. CASE Arm
  BY <1>5 DEF Arm, call
<1>6. CASE PushOp
  BY <1>6, <1>0 DEF PushOp, call
<1>7. CASE PushFails
  BY <1>7, <1>0 DEF PushFails, call
<1>8. CASE RecordSteps
  BY <1>8, <1>0 DEF RecordSteps, call, dev
<1>9. CASE Verify
  BY <1>9, <1>0 DEF Verify, Return, call, dev
<1>10. CASE Abort
  BY <1>10 DEF Abort, CloseSession, Unwind, Return, call
<1>11. CASE CommitConfirmed
  BY <1>11 DEF CommitConfirmed, call
<1>12. CASE CommitUnconfirmed
  BY <1>12 DEF CommitUnconfirmed, CloseSession, Unwind, Return, call
<1>13. CASE DisarmRead
  BY <1>13 DEF DisarmRead, Return, call, dev
<1>14. CASE DisarmRemove
  BY <1>14 DEF DisarmRemove, Return, call
<1>15. CASE PruneAndReturn
  BY <1>15 DEF PruneAndReturn, Return, call
<1>16. CASE Raise
  BY <1>16, <1>0 DEF Raise, CloseSession, Unwind, Requesting, call
<1>17. CASE Interrupted
  BY <1>17 DEF Interrupted, CloseSession, Unwind, call
<1>18. CASE NoticeClosedSession
  BY <1>18 DEF NoticeClosedSession, Unwind, call, ctl
<1>19. CASE SessionDies
  BY <1>19 DEF SessionDies, Unwind, call, ctl
<1>20. CASE HumanHoldEnds
  BY <1>20 DEF HumanHoldEnds, Unwind, call, ctl
<1>21. CASE DeadManFires
  BY <1>21 DEF DeadManFires, call, ctl
<1>22. CASE Boot
  BY <1>22 DEF Boot, call, ctl
<1>23. CASE UNCHANGED vars
  BY <1>23 DEF vars, call, ctl, dev
<1> QED
  BY <1>1, <1>2, <1>3, <1>4, <1>5, <1>6, <1>7, <1>8, <1>9, <1>10, <1>11, <1>12,
     <1>13, <1>14, <1>15, <1>16, <1>17, <1>18, <1>19, <1>20, <1>21, <1>22, <1>23
     DEF Next, Controller, Router, Done

\* Wherever the call is, the restore point that place relies on is there.
THEOREM RestorePoint ==
    ASSUME Protected PROVE Spec => []RestorePointInv
<1>1. Init => RestorePointInv
  BY RestorePointInit
<1>2. TypeOK /\ RestorePointInv /\ [Next]_vars => RestorePointInv'
  BY RestorePointStep
<1> QED
  BY <1>1, <1>2, TypeCorrect, PTL DEF Spec

\* While the push has broken management access, the router itself holds a
\* restore point that will bring it back.
THEOREM LockoutTemporary ==
    ASSUME Protected PROVE Spec => []LockoutIsTemporary
<1>1. RestorePointInv => LockoutIsTemporary
  BY DEF RestorePointInv
<1> QED
  BY <1>1, RestorePoint, PTL

\* No operation takes effect on the router unless the entry is armed or our
\* Safe Mode is held before it does.
THEOREM PushProtected ==
    ASSUME Protected PROVE Spec => PushOnlyProtected
<1>1. ASSUME TypeOK, RestorePointInv, [Next]_vars, ~(run' \subseteq run)
      PROVE  sched \/ hold = "ours"
  <2> USE <1>1
  <2>1. pc = "push" => sched \/ hold = "ours"
    BY DEF RestorePointInv, TypeOK
  <2>2. hold # "other"
    BY DEF RestorePointInv
  <2>3. CASE Controller
    BY <2>1, <2>3
       DEF Controller, NothingToApply, Backup, EnterGranted, EnterRefused, Arm,
           PushOp, PushFails, RecordSteps, Verify, Abort, CommitConfirmed,
           CommitUnconfirmed, DisarmRead, DisarmRemove, PruneAndReturn, Raise,
           Interrupted, CloseSession, Unwind, Return, dev
  <2>4. CASE Router
    BY <2>2, <2>4
       DEF Router, NoticeClosedSession, SessionDies, HumanHoldEnds, DeadManFires,
           Boot, Unwind
  <2> QED
    BY <2>3, <2>4 DEF Next, Done, vars, dev
<1>2. TypeOK /\ RestorePointInv /\ [Next]_vars => [~(run' \subseteq run) => sched \/ hold = "ours"]_vars
  BY <1>1
<1> QED
  BY <1>2, TypeCorrect, RestorePoint, PTL DEF Spec, PushOnlyProtected

-----------------------------------------------------------------------------
(* Under every fault, the outcome and the journal account for what is on   *)
(* the router.                                                             *)

LEMMA BatchEndBounds ==
    ASSUME TypeOK
    PROVE  /\ BatchEnd \in Nat /\ BatchEnd <= nops /\ nops <= MaxOps
           /\ committed < nops => committed < BatchEnd
BY BoundsAssumption DEF TypeOK, BatchEnd, Chunk

LEMMA UnwindAccount ==
    ASSUME TypeOK, AccountInv, Unwind, UNCHANGED <<call, ctl, backed, older, point, up>>
    PROVE  AccountInv'
<1> USE DEF AccountInv, Ended
<1>1. /\ run' = point.run /\ point' = point /\ UNCHANGED <<nops, pc, flow, applied>>
      /\ UNCHANGED <<committed, bad, steps, out>>
  BY DEF Unwind, call, ctl
<1>2. /\ applied \in Nat /\ committed \in Nat /\ point.run \subseteq Ops /\ Ops \subseteq Nat
      /\ flow \in {"none", "safe", "legacy"}
  BY BoundsAssumption DEF TypeOK, Ops
<1>3. \A i \in run' : i <= committed /\ i <= applied /\ steps[i] \in {"applied", "lost"}
  <2> TAKE i \in run'
  <2>1. i \in Ops /\ i \in Nat /\ i <= committed
    BY <1>1, <1>2
  <2>2. committed <= applied /\ steps[i] \in {"applied", "lost"}
    BY <2>1
  <2> QED
    BY <1>2, <2>1, <2>2
<1>4. FailureIsAccountedFor' /\ JournalCoversRouter'
  BY <1>1, <1>2, <1>3 DEF FailureIsAccountedFor, JournalCoversRouter
<1>5. BatchEnd' = BatchEnd
  BY <1>1 DEF BatchEnd
<1> QED
  BY <1>1, <1>2, <1>3, <1>4, <1>5

LEMMA AccountStep ==
    ASSUME TypeOK, AccountInv, [Next]_vars
    PROVE  AccountInv'
<1> USE DEF AccountInv, FailureIsAccountedFor, JournalCoversRouter, Ended
<1>0. /\ flow \in {"none", "safe", "legacy"} /\ pc \in PCs /\ bad \in BOOLEAN
      /\ applied \in Nat /\ committed \in Nat /\ nops \in Nat
      /\ run \subseteq Ops /\ point.run \subseteq Ops /\ Ops \subseteq Nat \ {0}
  BY BoundsAssumption DEF TypeOK, Ops
<1>1. CASE NothingToApply
  BY <1>1, <1>0 DEF NothingToApply, Return, call, dev, BatchEnd
<1>2. CASE Backup
  BY <1>2, <1>0 DEF Backup, Return, Failure, call, BatchEnd
<1>3. CASE EnterGranted
  <2>1. point'.run = run /\ run' = run /\ flow' = "safe" /\ pc' = "push" /\ ~bad'
    BY <1>3 DEF EnterGranted
  <2>2. applied = committed /\ UNCHANGED <<nops, applied, committed, steps, out>>
    BY <1>3 DEF EnterGranted, call
  <2>3. \A i \in run : i <= committed
    BY <1>3, <2>2, <1>0 DEF EnterGranted
  <2>4. applied' <= BatchEnd'
    <3>1. Chunk \in Nat
      BY BoundsAssumption DEF Chunk
    <3>2. committed <= nops
      OBVIOUS
    <3> HIDE DEF AccountInv
    <3>3. committed <= BatchEnd'
      BY <1>0, <2>2, <3>1, <3>2 DEF BatchEnd
    <3> QED
      BY <2>2, <3>3
  <2>5. \A i \in point'.run : i <= committed'
    BY <2>1, <2>2, <2>3
  <2>6. \A i \in run' : i <= applied'
    BY <2>1, <2>2, <2>3
  <2>7. "ok" \notin out' /\ ~Ended'
    BY <1>3, <2>1, <2>2 DEF EnterGranted
  <2>8. \A i \in Ops : i <= committed' => steps'[i] \in {"applied", "lost"}
    BY <2>2
  <2>9. committed' <= applied' /\ committed' <= nops'
    BY <2>2
  <2> QED
    BY <2>1, <2>2, <2>4, <2>5, <2>6, <2>7, <2>8, <2>9
<1>4. CASE EnterRefused
  <2>1. UNCHANGED <<nops, flow, applied, committed, bad, steps, run>>
    BY <1>4 DEF EnterRefused, call
  <2>2. point' = point \/ point'.run = run
    BY <1>4 DEF EnterRefused
  <2>3. \A i \in run : i <= committed
    BY <1>4, <1>0 DEF EnterRefused
  <2>4. CASE pc = "enter"
    <3>1. pc' = "arm" /\ out' = out /\ run = {} /\ out = {} /\ point'.run = {}
      BY <1>4, <2>2, <2>4 DEF EnterRefused
    <3>2. flow = "none" /\ applied = 0 /\ committed = 0 /\ ~bad
      BY <2>4
    <3> QED
      BY <1>0, <2>1, <2>4, <3>1, <3>2
  <2>5. CASE pc = "reenter"
    <3>1. pc' = "returned" /\ "quarantine" \in out' /\ flow = "safe"
      BY <1>4, <2>5 DEF EnterRefused, Return, FailureAfterCommits
    <3> QED
      BY <1>0, <2>1, <2>2, <2>3, <2>5, <3>1
  <2> QED
    BY <1>4, <2>4, <2>5 DEF EnterRefused
<1>5. CASE Arm
  BY <1>5, <1>0 DEF Arm, call, BatchEnd
<1>6. CASE PushOp
  <2>1. UNCHANGED <<nops, flow, pc, committed, bad, steps, out, point>>
    BY <1>6 DEF PushOp, call
  <2>2. /\ pc = "push" /\ ~bad /\ applied < BatchEnd
        /\ run' = run \cup {applied + 1} /\ applied' = applied + 1
    BY <1>6 DEF PushOp
  <2>3. BatchEnd' = BatchEnd /\ BatchEnd \in Nat
    BY <2>1, BatchEndBounds DEF BatchEnd
  <2>4. \A i \in run' : i <= applied'
    BY <1>0, <2>2
  <2>5. applied' <= BatchEnd' /\ committed <= applied' /\ committed <= nops
    BY <1>0, <2>2, <2>3
  <2> QED
    BY <2>1, <2>2, <2>4, <2>5
<1>7. CASE PushFails
  BY <1>7, <1>0 DEF PushFails, call, BatchEnd
<1>8. CASE RecordSteps
  <2>1. UNCHANGED <<nops, flow, applied, committed, bad, out, run, point>>
    BY <1>8 DEF RecordSteps, call, dev
  <2>2. pc = "push" /\ (bad \/ applied = BatchEnd) /\ pc' \in {"verify", "abort"}
    BY <1>8 DEF RecordSteps
  <2>3. PICK lost \in SUBSET (IF "journalFails" \in Faults THEN Batch ELSE {}) :
           steps' = [i \in Ops |-> IF i \in lost THEN "lost"
                                  ELSE IF i \in Batch THEN StepState(i) ELSE steps[i]]
    BY <1>8 DEF RecordSteps
  <2>4. \A i \in Ops : i <= applied => steps'[i] \in {"applied", "lost"}
    <3> TAKE i \in Ops
    <3>1. i \in Batch => steps'[i] \in {"applied", "lost"} \/ ~(i <= applied)
      BY <2>3 DEF StepState
    <3>2. i \notin Batch /\ i <= applied => i <= committed
      BY <1>0, <2>2, BatchEndBounds DEF Batch
    <3>3. i \notin Batch => steps'[i] = steps[i]
      BY <2>3
    <3> QED
      BY <3>1, <3>2, <3>3
  <2>5. \A i \in Ops : bad /\ i = applied + 1 => steps'[i] \in {"failed", "lost"}
    <3> TAKE i \in Ops
    <3>1. bad /\ i = applied + 1 => i \in Batch
      BY <1>0, <2>2, BatchEndBounds DEF Batch
    <3>2. bad /\ i = applied + 1 => StepState(i) = "failed"
      BY <1>0 DEF StepState
    <3> QED
      BY <2>3, <3>1, <3>2
  <2>6. BatchEnd' = BatchEnd
    BY <2>1 DEF BatchEnd
  <2>7. \A i \in Ops : i <= committed => i <= applied
    BY <1>0
  <2>8. (pc' = "abort" => flow = "safe") /\ (pc' = "verify" /\ flow = "safe" => ~bad)
    BY <1>8, <2>2 DEF RecordSteps
  <2> QED
    BY <1>0, <2>1, <2>2, <2>4, <2>5, <2>6, <2>7, <2>8
<1>9. CASE Verify
  BY <1>9, <1>0 DEF Verify, Return, Failure, call, dev, BatchEnd
<1>10. CASE Abort
  BY <1>10, <1>0 DEF Abort, CloseSession, Unwind, Return, Failure, FailureAfterCommits, call, BatchEnd
<1>11. CASE CommitConfirmed
  <2>1. UNCHANGED <<nops, flow, applied, bad, steps, out, run, point>>
    BY <1>11 DEF CommitConfirmed, call
  <2>2. /\ pc = "commit" /\ committed' = BatchEnd /\ pc' \in {"reenter", "prune"}
    BY <1>11 DEF CommitConfirmed
  <2>3. flow = "safe" /\ ~bad /\ applied = BatchEnd /\ BatchEnd \in Nat /\ BatchEnd <= nops
    BY <2>2, BatchEndBounds
  <2>4. \A i \in Ops : i <= applied => steps[i] \in {"applied", "lost"}
    BY <2>2
  <2>5. \A i \in point.run : i <= committed'
    <3> TAKE i \in point.run
    <3>1. i \in Nat /\ i <= committed /\ committed <= applied
      BY <1>0
    <3> QED
      BY <1>0, <2>2, <2>3, <3>1
  <2>6. \A i \in run : i <= applied
    BY <2>2, <2>3
  <2>7. "ok" \notin out
    BY <2>2
  <2> QED
    BY <1>0, <2>1, <2>2, <2>3, <2>4, <2>5, <2>6, <2>7
<1>12. CASE CommitUnconfirmed
  BY <1>12, <1>0 DEF CommitUnconfirmed, CloseSession, Unwind, Return, Failure, FailureAfterCommits, call, BatchEnd
<1>13. CASE DisarmRead
  BY <1>13, <1>0 DEF DisarmRead, Return, Failure, call, dev, BatchEnd
<1>14. CASE DisarmRemove
  BY <1>14, <1>0 DEF DisarmRemove, Return, Failure, call, BatchEnd
<1>15. CASE PruneAndReturn
  BY <1>15, <1>0 DEF PruneAndReturn, Return, Failure, call, BatchEnd
<1>16. CASE Raise
  BY <1>16, <1>0 DEF Raise, CloseSession, Unwind, Requesting, call, BatchEnd
<1>17. CASE Interrupted
  BY <1>17, <1>0 DEF Interrupted, CloseSession, Unwind, call, BatchEnd
<1>18. CASE NoticeClosedSession
  BY <1>18, UnwindAccount DEF NoticeClosedSession
<1>19. CASE SessionDies
  BY <1>19, UnwindAccount DEF SessionDies
<1>20. CASE HumanHoldEnds
  <2>1. CASE Unwind
    BY <1>20, <2>1, UnwindAccount DEF HumanHoldEnds
  <2>2. CASE UNCHANGED <<run, sched>>
    BY <1>20, <2>2, <1>0 DEF HumanHoldEnds, call, ctl, BatchEnd
  <2> QED
    BY <1>20, <2>1, <2>2 DEF HumanHoldEnds
<1>21. CASE DeadManFires
  BY <1>21, <1>0 DEF DeadManFires, call, ctl, BatchEnd
<1>22. CASE Boot
  BY <1>22, <1>0 DEF Boot, call, ctl, BatchEnd
<1>23. CASE UNCHANGED vars
  BY <1>23 DEF vars, call, ctl, dev, BatchEnd, Ops
<1> QED
  BY <1>1, <1>2, <1>3, <1>4, <1>5, <1>6, <1>7, <1>8, <1>9, <1>10, <1>11, <1>12,
     <1>13, <1>14, <1>15, <1>16, <1>17, <1>18, <1>19, <1>20, <1>21, <1>22, <1>23
     DEF Next, Controller, Router, Done

\* The counters, the router and the journal agree wherever the call is.
THEOREM Account == Spec => []AccountInv
<1>1. Init => AccountInv
  <2> SUFFICES ASSUME Init PROVE AccountInv
    OBVIOUS
  <2>1. \A i \in Ops : ~(i <= 0)
    BY BoundsAssumption DEF Ops
  <2>2. /\ pc = "start" /\ flow = "none" /\ applied = 0 /\ committed = 0 /\ ~bad
        /\ out = {} /\ run = {} /\ point.run = {} /\ nops \in Nat
    BY BoundsAssumption DEF Init
  <2> QED
    BY <2>1, <2>2 DEF AccountInv, Ended, FailureIsAccountedFor, JournalCoversRouter
<1>2. TypeOK /\ AccountInv /\ [Next]_vars => AccountInv'
  BY AccountStep
<1> QED
  BY <1>1, <1>2, TypeCorrect, PTL DEF Spec

\* A failure that is neither armed nor quarantined changed nothing but,
\* perhaps, what the failed operation did before its answer was lost.
THEOREM FailureAccounted == Spec => []FailureIsAccountedFor
<1>1. AccountInv => FailureIsAccountedFor
  BY DEF AccountInv
<1> QED
  BY <1>1, Account, PTL

\* Whatever writes of the journal fail, no change on the router is journalled
\* as skipped or missing without a word in the log once the call has returned.
THEOREM JournalCovers == Spec => []JournalCoversRouter
<1>1. AccountInv => JournalCoversRouter
  BY DEF AccountInv
<1> QED
  BY <1>1, Account, PTL

-----------------------------------------------------------------------------
(* What is committed stays.                                                *)

LEMMA CommitStep ==
    ASSUME TypeOK, AccountInv, CommitInv, [Next]_vars
    PROVE  CommitInv'
<1> USE DEF CommitInv
<1>0. /\ flow \in {"none", "safe", "legacy"} /\ hold \in {"none", "ours", "other"}
      /\ applied \in Nat /\ committed \in Nat /\ committed <= applied
      /\ run \subseteq Ops /\ point.run \subseteq Ops /\ Ops \subseteq Nat \ {0}
  BY BoundsAssumption DEF TypeOK, AccountInv, Ops
<1>1. CASE NothingToApply
  BY <1>1 DEF NothingToApply, Return, call, dev
<1>2. CASE Backup
  BY <1>2 DEF Backup, Return, call
<1>3. CASE EnterGranted
  <2>1. pc = "reenter" => applied = committed
    BY DEF AccountInv
  <2>2. pc = "enter" => applied = 0 /\ committed = 0
    BY DEF AccountInv
  <2> QED
    BY <1>3, <1>0, <2>1, <2>2, BoundsAssumption DEF EnterGranted, call, Ops
<1>4. CASE EnterRefused
  BY <1>4, <1>0 DEF EnterRefused, Return, call
<1>5. CASE Arm
  BY <1>5 DEF Arm, call
<1>6. CASE PushOp
  BY <1>6, <1>0 DEF PushOp, call
<1>7. CASE PushFails
  BY <1>7, <1>0 DEF PushFails, call
<1>8. CASE RecordSteps
  BY <1>8 DEF RecordSteps, call, dev
<1>9. CASE Verify
  BY <1>9 DEF Verify, Return, call, dev
<1>10. CASE Abort
  BY <1>10, <1>0 DEF Abort, RecordEvent, CloseSession, Unwind, Return, call
<1>11. CASE CommitConfirmed
  <2>1. flow = "safe" /\ applied = BatchEnd
    BY <1>11 DEF CommitConfirmed, AccountInv
  <2> QED
    BY <1>11, <1>0, <2>1 DEF CommitConfirmed, RecordEvent, Batch, call
<1>12. CASE CommitUnconfirmed
  BY <1>12, <1>0 DEF CommitUnconfirmed, RecordEvent, CloseSession, Unwind, Return, call
<1>13. CASE DisarmRead
  BY <1>13 DEF DisarmRead, Return, call, dev
<1>14. CASE DisarmRemove
  BY <1>14 DEF DisarmRemove, Return, call
<1>15. CASE PruneAndReturn
  BY <1>15 DEF PruneAndReturn, Return, call
<1>16. CASE Raise
  <2>1. UNCHANGED <<flow, committed, mark, point>> /\ pc' = "raised"
    BY <1>16 DEF Raise
  <2>2. flow = "safe" => pc \notin {"arm", "remove"}
    BY DEF AccountInv
  <2>3. flow = "safe" => ~sched' /\ hold' # "other"
    BY <1>16, <2>2 DEF Raise, CloseSession, Unwind
  <2>4. \/ run \subseteq run' /\ hold' \in {hold, "none"}
        \/ run' = point.run /\ hold = "ours" /\ hold' = "none"
    BY <1>16 DEF Raise, CloseSession, Unwind
  <2> QED
    BY <1>0, <2>1, <2>3, <2>4
<1>17. CASE Interrupted
  <2>1. UNCHANGED <<flow, committed, mark, point>> /\ pc' \in {"raised", "crashed"}
    BY <1>17 DEF Interrupted
  <2>2. flow = "safe" => ~sched' /\ hold' # "other"
    BY <1>17 DEF Interrupted, CloseSession, Unwind
  <2>3. \/ run' = run /\ hold' = hold
        \/ run' = point.run /\ hold = "ours" /\ hold' = "none"
    BY <1>17 DEF Interrupted, CloseSession, Unwind
  <2> QED
    BY <1>0, <2>1, <2>2, <2>3
<1>18. CASE Router
  <2>1. UNCHANGED <<pc, flow, applied, committed, mark, point>>
    BY <1>18 DEF Router, NoticeClosedSession, SessionDies, HumanHoldEnds,
       DeadManFires, Boot, call, ctl
  <2>2. (sched' => sched) /\ hold' \in {"none", hold}
    BY <1>18 DEF Router, NoticeClosedSession, SessionDies, HumanHoldEnds,
       DeadManFires, Boot, Unwind
  <2>3. flow = "safe" => \/ run' = run
                         \/ run' = point.run /\ hold = "ours" /\ hold' = "none"
    BY <1>18 DEF Router, NoticeClosedSession, SessionDies, HumanHoldEnds,
       DeadManFires, Boot, Unwind
  <2>4. CASE flow # "safe"
    BY <1>0, <2>1, <2>2, <2>4
  <2>5. CASE flow = "safe"
    BY <1>0, <2>1, <2>2, <2>3, <2>5
  <2> QED
    BY <2>4, <2>5
<1>19. CASE UNCHANGED vars
  BY <1>19 DEF vars, call, ctl, dev
<1> QED
  BY <1>1, <1>2, <1>3, <1>4, <1>5, <1>6, <1>7, <1>8, <1>9, <1>10, <1>11, <1>12,
     <1>13, <1>14, <1>15, <1>16, <1>17, <1>18, <1>19 DEF Next, Controller, Done

\* A chunk the journal marks committed is on the router, whatever fails later.
THEOREM CommitRows == Spec => []CommitRowsAreTrue
<1>1. Init => CommitInv
  BY BoundsAssumption DEF Init, CommitInv, Ops
<1>2. TypeOK /\ AccountInv /\ CommitInv /\ [Next]_vars => CommitInv'
  BY CommitStep
<1>3. CommitInv => CommitRowsAreTrue
  BY DEF CommitInv, CommitRowsAreTrue
<1> QED
  BY <1>1, <1>2, <1>3, TypeCorrect, Account, PTL DEF Spec

-----------------------------------------------------------------------------
(* Both flows implement the contract, unless a fault puts a change outside *)
(* every restore point.                                                    *)

ApplyInv == TypeOK /\ RestorePointInv /\ AccountInv /\ CommitInv /\ FinishInv

LEMMA FinishStep ==
    ASSUME Protected, TypeOK, RestorePointInv, AccountInv, FinishInv, [Next]_vars
    PROVE  FinishInv'
<1> USE NoUnprotectingFault DEF FinishInv
<1>0. /\ flow \in {"none", "safe", "legacy"} /\ pc \in PCs
      /\ applied \in Nat /\ committed \in Nat /\ nops \in Nat
      /\ BatchEnd \in Nat /\ BatchEnd <= nops /\ Ops \subseteq Nat
  BY BoundsAssumption, BatchEndBounds DEF TypeOK, Ops
<1>1. CASE pc' \in {"enter", "arm", "abort", "commit", "reenter", "returned", "raised", "crashed"}
  BY <1>1
<1>2. CASE Arm
  BY <1>2, <1>0 DEF Arm, AccountInv, call, Ops
<1>3. CASE EnterGranted
  BY <1>3 DEF EnterGranted
<1>4. CASE PushOp
  BY <1>4, <1>0 DEF PushOp, call
<1>5. CASE PushFails
  BY <1>5 DEF PushFails, call
<1>6. CASE RecordSteps
  <2>1. flow = "legacy" => BatchEnd = nops
    BY DEF BatchEnd
  <2> QED
    BY <1>6, <1>0, <2>1 DEF RecordSteps, call, dev
<1>7. CASE Verify
  BY <1>7 DEF Verify, Return, call, dev
<1>8. CASE CommitConfirmed
  <2>1. flow = "safe" /\ ~bad /\ applied = BatchEnd /\ ~sched
    BY <1>8 DEF CommitConfirmed, AccountInv, RestorePointInv
  <2> QED
    BY <1>8, <1>0, <2>1 DEF CommitConfirmed, call
<1>9. CASE DisarmRead
  BY <1>9 DEF DisarmRead, Return, RestorePointInv, call, dev
<1>10. CASE DisarmRemove
  BY <1>10 DEF DisarmRemove, Return, RestorePointInv, call
<1>11. CASE Router
  <2>1. UNCHANGED <<nops, pc, flow, applied, committed, bad>>
    BY <1>11 DEF Router, NoticeClosedSession, SessionDies, HumanHoldEnds, DeadManFires, Boot, call, ctl
  <2>2. (sched' => sched) /\ hold' \in {"none", hold}
    BY <1>11 DEF Router, NoticeClosedSession, SessionDies, HumanHoldEnds, DeadManFires, Boot, Unwind,
       RestorePointInv
  <2>3. flow = "legacy" /\ pc \in {"push", "verify", "disarm", "remove", "prune"} => run' = run
    BY <1>11 DEF Router, NoticeClosedSession, SessionDies, HumanHoldEnds, DeadManFires, Boot,
       RestorePointInv, Ended
  <2> QED
    BY <2>1, <2>2, <2>3
<1>12. CASE UNCHANGED vars
  BY <1>12 DEF vars, call, ctl, dev
<1>13. CASE NothingToApply \/ Backup \/ EnterRefused \/ Abort \/ CommitUnconfirmed \/ PruneAndReturn \/ Raise \/ Interrupted
  BY <1>1, <1>13 DEF NothingToApply, Backup, EnterRefused, Abort, CommitUnconfirmed, PruneAndReturn,
     Raise, Interrupted, Return
<1> QED
  BY <1>2, <1>3, <1>4, <1>5, <1>6, <1>7, <1>8, <1>9, <1>10, <1>11, <1>12, <1>13 DEF Next, Controller, Done

\* Everything the refinement needs to know of a state holds in every state.
THEOREM ApplyKeepsInv == ASSUME Protected PROVE Spec => []ApplyInv
<1>1. Init => CommitInv /\ FinishInv
  BY BoundsAssumption DEF Init, CommitInv, FinishInv, Ops
<1>2. TypeOK /\ AccountInv /\ CommitInv /\ [Next]_vars => CommitInv'
  BY CommitStep
<1>3. TypeOK /\ RestorePointInv /\ AccountInv /\ FinishInv /\ [Next]_vars => FinishInv'
  BY FinishStep
<1> QED
  BY <1>1, <1>2, <1>3, TypeCorrect, RestorePoint, Account, PTL DEF Spec, ApplyInv

\* One step of the contract each, in terms of what the apply is seen to do.
LEMMA ContractProtects ==
    ASSUME Verdict = "pending", Restore = NoPoint, Restore' = run, Verdict' \in {"pending", "lost"},
           UNCHANGED <<nops, run>>
    PROVE  Contract!Next
BY DEF Contract!Next, Contract!Protect, Contract!ProtectAndLose, AllOps

LEMMA ContractWrites ==
    ASSUME NEW op \in AllOps, op \notin run, run' = run \cup {op},
           Verdict = "pending", Verdict' \in {"pending", "lost"}, Restore # NoPoint,
           UNCHANGED <<nops, Restore>>
    PROVE  Contract!Next
BY DEF Contract!Next, Contract!Write, AllOps

LEMMA ContractKeeps ==
    ASSUME Verdict = "pending", Verdict' \in {"pending", "failure", "lost"},
           Restore # NoPoint, Restore' = NoPoint, UNCHANGED <<nops, run>>
    PROVE  Contract!Next
BY DEF Contract!Next, Contract!Keep, Contract!Verdicts, AllOps

LEMMA ContractReturns ==
    ASSUME Restore # NoPoint, run' = Restore, Restore' = NoPoint, UNCHANGED nops,
           Verdict' = Verdict \/ (Verdict = "pending" /\ Verdict' \in {"failure", "lost"})
    PROVE  Contract!Next
BY DEF Contract!Next, Contract!Return, Contract!Verdicts, AllOps, Verdict

LEMMA ContractConcludes ==
    ASSUME Verdict = "pending", Verdict' \in {"failure", "lost"} \/ (Verdict' = "success" /\ run = AllOps /\ Restore = NoPoint),
           UNCHANGED <<nops, run, Restore>>
    PROVE  Contract!Next
BY DEF Contract!Next, Contract!Conclude, Contract!Verdicts, AllOps

LEMMA ContractStutters ==
    ASSUME UNCHANGED <<nops, run, Restore, Verdict>>
    PROVE  UNCHANGED Contract!avars
BY DEF Contract!avars, AllOps

\* Where the apply stands, and the restore point and the verdict that go with it.
LEMMA Reading ==
    ASSUME TypeOK
    PROVE  /\ ~Ended => Verdict = "pending"
           /\ hold = "ours" => Restore = point.run /\ Restore # NoPoint
           /\ hold # "ours" /\ sched => Restore = {} /\ Restore # NoPoint
           /\ hold # "ours" /\ ~sched => Restore = NoPoint
<1>1. point.run # {0}
  BY BoundsAssumption DEF TypeOK, Ops
<1> QED
  BY <1>1 DEF Verdict, Restore, NoPoint, Ended

\* The call ends and its session is closed: the router unwinds at once, or has
\* nothing to unwind, or has not noticed yet.
LEMMA ClosingImplements ==
    ASSUME ApplyInv, CloseSession, ~Ended, UNCHANGED <<nops, point>>,
           Verdict' \in {"failure", "lost"}
    PROVE  Contract!Next
<1>1. Verdict = "pending"
  BY Reading DEF ApplyInv
<1>2. CASE hold = "ours" /\ Unwind
  <2>1. Restore = point.run /\ Restore # NoPoint /\ ~point.sched
    BY <1>2, Reading DEF ApplyInv, RestorePointInv
  <2>2. run' = Restore /\ Restore' = NoPoint
    BY <1>2, <2>1 DEF Unwind, Restore
  <2> QED
    BY <1>1, <2>1, <2>2, ContractReturns
<1>3. CASE UNCHANGED <<run, sched, hold>>
  BY <1>1, <1>3, ContractConcludes DEF Restore
<1> QED
  BY <1>2, <1>3 DEF CloseSession

LEMMA RaiseImplements ==
    ASSUME Protected, ApplyInv, Raise
    PROVE  Contract!Next
<1> USE NoUnprotectingFault
<1>1. Verdict = "pending" /\ ~Ended
  BY Reading DEF ApplyInv, Raise, Requesting, Ended
<1>2. Verdict' = "lost" /\ UNCHANGED <<nops, point>>
  BY DEF Raise, Verdict, call
<1>3. CASE CloseSession
  BY <1>1, <1>2, <1>3, ClosingImplements
<1>4. CASE UNCHANGED <<run, sched, hold>>
  BY <1>1, <1>2, <1>4, ContractConcludes DEF Restore
<1>5. CASE pc = "arm" /\ sched' = TRUE /\ UNCHANGED <<run, hold>>
  <2>1. run = {} /\ hold # "ours" /\ ~sched
    BY <1>5 DEF ApplyInv, AccountInv, RestorePointInv, Ended
  <2>2. Restore = NoPoint /\ Restore' = run
    BY <1>5, <2>1 DEF Restore
  <2> QED
    BY <1>1, <1>2, <1>5, <2>2, ContractProtects
<1>6. CASE pc = "remove" /\ sched' = FALSE /\ UNCHANGED <<run, hold>>
  <2>1. hold # "ours" /\ sched
    BY <1>6 DEF ApplyInv, RestorePointInv, Ended
  <2>2. Restore # NoPoint /\ Restore' = NoPoint
    BY <1>6, <2>1, Reading DEF Restore, ApplyInv
  <2> QED
    BY <1>1, <1>2, <1>6, <2>2, ContractKeeps
<1>7. CASE pc = "push" /\ run' = run \cup {applied + 1} /\ UNCHANGED <<sched, hold>>
  <2>1. Restore # NoPoint /\ UNCHANGED Restore
    BY <1>2, <1>7, Reading DEF ApplyInv, RestorePointInv, Restore, TypeOK
  <2>2. applied + 1 \in AllOps
    BY <1>7, BatchEndBounds DEF Raise, Requesting, ApplyInv, AllOps, TypeOK
  <2>3. CASE applied + 1 \in run
    BY <1>1, <1>2, <1>7, <2>1, <2>3, ContractConcludes
  <2>4. CASE applied + 1 \notin run
    BY <1>1, <1>2, <1>7, <2>1, <2>2, <2>4, ContractWrites
  <2> QED
    BY <2>3, <2>4
<1>8. CASE pc = "commit" /\ hold = "ours" /\ hold' = "none" /\ UNCHANGED <<run, sched>>
  <2>1. ~sched
    BY <1>8 DEF ApplyInv, RestorePointInv
  <2>2. Restore # NoPoint /\ Restore' = NoPoint
    BY <1>8, <2>1, Reading DEF Restore, ApplyInv
  <2> QED
    BY <1>1, <1>2, <1>8, <2>2, ContractKeeps
<1> QED
  BY <1>3, <1>4, <1>5, <1>6, <1>7, <1>8 DEF Raise

LEMMA PushImplements ==
    ASSUME ApplyInv, PushOp \/ PushFails
    PROVE  Contract!Next \/ UNCHANGED Contract!avars
<1>1. Verdict = "pending" /\ UNCHANGED <<nops, Restore, Verdict>>
  BY Reading DEF ApplyInv, PushOp, PushFails, Ended, Restore, Verdict, call
<1>2. Restore # NoPoint
  BY Reading DEF ApplyInv, RestorePointInv, TypeOK, PushOp, PushFails
<1>3. applied + 1 \in AllOps
  BY BatchEndBounds DEF ApplyInv, PushOp, PushFails, AllOps, TypeOK
<1>4. CASE run' = run
  BY <1>1, <1>4, ContractStutters
<1>5. CASE applied + 1 \notin run /\ run' = run \cup {applied + 1}
  BY <1>1, <1>2, <1>3, <1>5, ContractWrites
<1> QED
  BY <1>4, <1>5 DEF PushOp, PushFails

\* The whole plan is on the router when an apply that was not cut short ends.
LEMMA WholePlan ==
    ASSUME ApplyInv, pc = "prune", ~bad
    PROVE  run = AllOps /\ Restore = NoPoint
<1>1. flow # "none" => applied = nops /\ \A i \in Ops : i <= applied => i \in run
  BY DEF ApplyInv, TypeOK, FinishInv, CommitInv
<1>2. \A i \in run : i <= applied
  BY DEF ApplyInv, AccountInv, Ended
<1>3. flow # "none"
  BY DEF ApplyInv, FinishInv
<1>4. AllOps \subseteq Ops /\ run \subseteq Ops /\ Ops \subseteq Nat \ {0}
  BY BoundsAssumption DEF ApplyInv, TypeOK, AllOps, Ops
<1>5. Restore = NoPoint
  BY DEF Restore, FinishInv, ApplyInv
<1>6. nops \in Nat /\ AllOps = {i \in Nat : 1 <= i /\ i <= nops}
  BY BoundsAssumption DEF ApplyInv, TypeOK, AllOps
<1>7. \A i \in AllOps : i \in run
  BY <1>1, <1>3, <1>4, <1>6
<1>8. \A i \in run : i \in AllOps
  BY <1>1, <1>2, <1>3, <1>4, <1>6
<1> QED
  BY <1>5, <1>7, <1>8

LEMMA ApplyStepImplements ==
    ASSUME Protected, ApplyInv, [Next]_vars
    PROVE  Contract!Next \/ UNCHANGED Contract!avars
<1> USE NoUnprotectingFault
<1>1. CASE NothingToApply
  <2>1. run = {} /\ AllOps = {} /\ Restore = NoPoint
    BY <1>1 DEF NothingToApply, ApplyInv, AccountInv, RestorePointInv, Restore, AllOps, Ended
  <2>2. Verdict = "pending" /\ Verdict' = "success" /\ UNCHANGED <<nops, run, Restore>>
    BY <1>1 DEF NothingToApply, Return, Verdict, Restore, call, dev
  <2> QED
    BY <2>1, <2>2, ContractConcludes
<1>2. CASE Backup \/ Verify \/ DisarmRead
  <2>1. Verdict = "pending" /\ UNCHANGED <<nops, run, Restore>>
    BY <1>2, Reading DEF Backup, Verify, DisarmRead, ApplyInv, Ended, Restore, call, dev
  <2>2. Verdict' \in {"pending", "failure"}
    BY <1>2 DEF Backup, Verify, DisarmRead, Return, Failure, Verdict
  <2> QED
    BY <2>1, <2>2, ContractConcludes, ContractStutters
<1>3. CASE EnterGranted
  <2>1. Restore = NoPoint /\ Restore' = run
    BY <1>3 DEF EnterGranted, ApplyInv, RestorePointInv, Restore, Ended
  <2>2. Verdict = "pending" /\ Verdict' = "pending" /\ UNCHANGED <<nops, run>>
    BY <1>3 DEF EnterGranted, Verdict, call
  <2> QED
    BY <2>1, <2>2, ContractProtects
<1>4. CASE EnterRefused
  <2>1. Verdict = "pending" /\ UNCHANGED <<nops, run, Restore>>
    BY <1>4 DEF EnterRefused, Verdict, Restore, call
  <2>2. Verdict' \in {"pending", "failure"}
    BY <1>4 DEF EnterRefused, Return, FailureAfterCommits, Failure, Verdict
  <2> QED
    BY <2>1, <2>2, ContractConcludes, ContractStutters
<1>5. CASE Arm
  <2>1. Restore = NoPoint /\ Restore' = run
    BY <1>5 DEF Arm, ApplyInv, AccountInv, RestorePointInv, Restore, Ended
  <2>2. Verdict = "pending" /\ Verdict' = "pending" /\ UNCHANGED <<nops, run>>
    BY <1>5 DEF Arm, Verdict, call
  <2> QED
    BY <2>1, <2>2, ContractProtects
<1>6. CASE PushOp \/ PushFails
  BY <1>6, PushImplements
<1>7. CASE RecordSteps
  BY <1>7, ContractStutters DEF RecordSteps, Verdict, Restore, call, dev
<1>8. CASE Abort
  <2>1. Verdict' = "failure"
    BY <1>8 DEF Abort, Return, FailureAfterCommits, Failure, Verdict
  <2> QED
    BY <1>8, <2>1, ClosingImplements DEF Abort, Ended, call
<1>9. CASE CommitConfirmed
  <2>1. Restore # NoPoint /\ Restore' = NoPoint
    BY <1>9, Reading DEF CommitConfirmed, ApplyInv, RestorePointInv, Restore
  <2>2. Verdict = "pending" /\ Verdict' = "pending" /\ UNCHANGED <<nops, run>>
    BY <1>9 DEF CommitConfirmed, Verdict, call
  <2> QED
    BY <2>1, <2>2, ContractKeeps
<1>10. CASE CommitUnconfirmed
  <2>1. Verdict = "pending" /\ Verdict' = "failure" /\ UNCHANGED <<nops, point>>
    BY <1>10 DEF CommitUnconfirmed, Return, FailureAfterCommits, Failure, Verdict, call
  <2>2. CASE CloseSession
    BY <1>10, <2>1, <2>2, ClosingImplements DEF CommitUnconfirmed, Ended
  <2>3. CASE hold = "ours" /\ hold' = "none" /\ UNCHANGED <<run, sched>>
    <3>1. Restore # NoPoint /\ Restore' = NoPoint
      BY <2>3, Reading DEF ApplyInv, RestorePointInv, Restore
    <3> QED
      BY <2>1, <2>3, <3>1, ContractKeeps
  <2> QED
    BY <1>10, <2>2, <2>3 DEF CommitUnconfirmed
<1>11. CASE DisarmRemove
  <2>1. Verdict = "pending" /\ UNCHANGED <<nops, run, hold>> /\ hold # "ours" /\ sched
    BY <1>11 DEF DisarmRemove, Verdict, ApplyInv, RestorePointInv, Ended, call
  <2>2. Verdict' \in {"pending", "failure"} /\ (sched' => Verdict' = "failure")
    BY <1>11, <2>1 DEF DisarmRemove, Return, Failure, Verdict
  <2>3. Restore # NoPoint /\ Restore' = IF sched' THEN Restore ELSE NoPoint
    BY <2>1, Reading DEF ApplyInv, Restore
  <2> QED
    BY <2>1, <2>2, <2>3, ContractKeeps, ContractConcludes
<1>12. CASE PruneAndReturn
  <2>1. Verdict = "pending" /\ UNCHANGED <<nops, run, Restore>>
    BY <1>12 DEF PruneAndReturn, Verdict, Restore, call
  <2>2. Verdict' = IF bad THEN "failure" ELSE "success"
    BY <1>12 DEF PruneAndReturn, Return, Failure, Verdict, ApplyInv, TypeOK
  <2> QED
    BY <1>12, <2>1, <2>2, WholePlan, ContractConcludes DEF PruneAndReturn
<1>13. CASE Raise
  BY <1>13, RaiseImplements
<1>14. CASE Interrupted
  <2>1. Verdict' = "lost"
    BY <1>14 DEF Interrupted, Verdict
  <2> QED
    BY <1>14, <2>1, ClosingImplements DEF Interrupted, call
<1>15. CASE NoticeClosedSession \/ SessionDies
  <2>1. hold = "ours" /\ Unwind /\ UNCHANGED <<nops, Verdict>>
    BY <1>15 DEF NoticeClosedSession, SessionDies, Verdict, call, ctl
  <2>2. Restore # NoPoint /\ run' = Restore /\ Restore' = NoPoint
    BY <2>1, Reading DEF ApplyInv, RestorePointInv, Restore, Unwind
  <2> QED
    BY <2>1, <2>2, ContractReturns
<1>16. CASE DeadManFires
  <2>1. hold # "ours" /\ sched
    BY <1>16 DEF DeadManFires, ApplyInv, RestorePointInv
  <2>2. Restore # NoPoint /\ run' = Restore /\ Restore' = NoPoint
    BY <1>16, <2>1, Reading DEF ApplyInv, Restore, DeadManFires
  <2>3. UNCHANGED <<nops, Verdict>>
    BY <1>16 DEF DeadManFires, Verdict, call, ctl
  <2> QED
    BY <2>2, <2>3, ContractReturns
<1>17. CASE HumanHoldEnds
  BY <1>17 DEF HumanHoldEnds, ApplyInv, RestorePointInv
<1>18. CASE Boot
  BY <1>18, ContractStutters DEF Boot, Verdict, Restore, call, ctl
<1>19. CASE UNCHANGED vars
  BY <1>19, ContractStutters DEF vars, call, ctl, dev, Verdict, Restore
<1> QED
  BY <1>1, <1>2, <1>3, <1>4, <1>5, <1>6, <1>7, <1>8, <1>9, <1>10, <1>11, <1>12, <1>13, <1>14,
     <1>15, <1>16, <1>17, <1>18, <1>19 DEF Next, Controller, Router, Done

\* Both flows implement one contract (ApplyContract): operations take effect behind
\* a restore point only, the point is dropped or returned to, and success means the
\* whole plan with nothing left to undo it.
THEOREM RefinesContract == ASSUME Protected PROVE Spec => ImplementsContract
<1>1. Init => Contract!Init
  <2> SUFFICES ASSUME Init PROVE Contract!Init
    OBVIOUS
  <2>1. AllOps \in SUBSET Ops
    BY BoundsAssumption DEF Init, AllOps, Ops
  <2>2. run = {} /\ Restore = NoPoint /\ Verdict = "pending"
    BY NoUnprotectingFault DEF Init, Restore, Verdict
  <2> QED
    BY <2>1, <2>2 DEF Contract!Init
<1>2. ApplyInv /\ [Next]_vars => [Contract!Next]_(Contract!avars)
  BY ApplyStepImplements
<1> QED
  BY <1>1, <1>2, ApplyKeepsInv, PTL DEF Spec, ImplementsContract, Contract!Spec
=============================================================================
