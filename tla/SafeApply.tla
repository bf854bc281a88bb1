----------------------------- MODULE SafeApply -----------------------------
(***************************************************************************)
(* One call of safe_apply (backend/app/reconcile/apply.py) against one     *)
(* device: pre-apply backup, then either the Safe Mode flow (chunks pushed *)
(* under a held console session, verified and released one by one) or the  *)
(* legacy flow (a scheduler entry on the router restores the backup unless *)
(* it is disarmed in time), the router itself, and the network between.    *)
(*                                                                         *)
(* The configuration is abstracted to the set of this apply's operations   *)
(* that are in effect on the router: {} is the pre-apply configuration.    *)
(***************************************************************************)
EXTENDS Integers

CONSTANTS
    MaxOps,      \* bound on the number of operations of one plan
    ChunkSize,   \* settings.safe_mode_chunk_size
    MaxOlder,    \* bound on the backups earlier applies left on the router
    Faults       \* which faults this instance of the model may exhibit

AllFaults ==
    { "refuse",       \* the router answers an operation with an error
      "lostRequest",  \* a request times out before the router acted on it
      "lostReply",    \* the router acted, the answer timed out
      "transport",    \* an error outside DriverError, e.g. httpx.ReadError
      "crash",        \* the controller process dies
      "cancel",       \* the awaiting task is cancelled (arq job_timeout)
      "armFails",     \* the scheduler entry is refused or its request lost
      "sessionDies",  \* the router drops the SSH session holding Safe Mode
      "lateClose",    \* the router notices a closed session only later
      "lostGrant",    \* Safe Mode granted, the <SAFE> prompt never seen
      "humanHold",    \* an operator already holds Safe Mode
      "slowPush",     \* the dead-man timer can run out during the push
      "journalFails" } \* a write of the journal fails, and is only logged

ASSUME BoundsAssumption ==
    MaxOps \in Nat /\ ChunkSize \in Nat /\ MaxOlder \in Nat
ASSUME FaultsAssumption == Faults \subseteq AllFaults

VARIABLES
    nops, cut, offered,          \* the call: plan length, the operation that
                                 \* breaks management (0: none), whether the
                                 \* caller passed a Safe Mode session
    pc, flow, applied, committed, bad, holding,  \* the controller's locals
    out,                         \* ApplyOutcome
    steps, mark,                 \* the journal: op rows ("lost": the write
                                 \* failed and the log names the operation),
                                 \* chunk boundary rows
    run, sched, backed, older, hold, point, up   \* the router

call == <<nops, cut, offered>>
ctl  == <<pc, flow, applied, committed, bad, holding, out, steps, mark>>
dev  == <<run, sched, backed, older, hold, point, up>>
vars == <<call, ctl, dev>>

-----------------------------------------------------------------------------
Ops == 1..MaxOps
AllOps == 1..nops
Chunk == IF ChunkSize < 1 THEN 1 ELSE ChunkSize

PCs == {"start", "enter", "arm", "push", "verify", "abort", "commit",
        "reenter", "disarm", "remove", "prune",
        "returned", "raised", "crashed"}

\* ApplyOutcome: the flags that are set.
Outcome == {"ok", "armed", "rolledBack", "partial", "quarantine"}

Ended == pc \in {"returned", "raised", "crashed"}

\* The last operation of the batch handed to driver.apply: the whole plan in
\* the legacy flow, one chunk in the Safe Mode flow.
BatchEnd == IF flow = "safe" /\ committed + Chunk < nops
            THEN committed + Chunk ELSE nops
Batch == {i \in Ops : committed < i /\ i <= BatchEnd}

CutOff == cut \in run                      \* new connections fail
Fails  == ~up \/ CutOff \/ Faults \cap {"refuse", "lostRequest"} # {}
Mute   == up /\ (CutOff \/ "lostReply" \in Faults)

TypeOK ==
    /\ nops \in 0..MaxOps /\ cut \in 0..MaxOps /\ offered \in BOOLEAN
    /\ pc \in PCs /\ flow \in {"none", "safe", "legacy"}
    /\ applied \in 0..MaxOps /\ committed \in 0..MaxOps
    /\ bad \in BOOLEAN /\ holding \in BOOLEAN
    /\ out \subseteq Outcome
    /\ steps \in [Ops -> {"none", "applied", "failed", "skipped", "lost"}]
    /\ mark \in [Ops -> {"none", "commit", "abort"}]
    /\ run \subseteq Ops /\ sched \in BOOLEAN /\ backed \in BOOLEAN
    /\ older \in 0..MaxOlder
    /\ hold \in {"none", "ours", "other"}
    /\ point \in [run: SUBSET Ops, sched: BOOLEAN] /\ up \in BOOLEAN

Init ==
    /\ nops \in 0..MaxOps /\ cut \in 0..nops /\ offered \in BOOLEAN
    /\ pc = "start" /\ flow = "none" /\ applied = 0 /\ committed = 0
    /\ bad = FALSE /\ holding = FALSE
    /\ out = {}
    /\ steps = [i \in Ops |-> "none"] /\ mark = [i \in Ops |-> "none"]
    /\ run = {} /\ sched = FALSE /\ backed = FALSE /\ older \in 0..MaxOlder
    /\ hold \in IF "humanHold" \in Faults THEN {"none", "other"} ELSE {"none"}
    /\ point = [run |-> {}, sched |-> FALSE] /\ up = TRUE

-----------------------------------------------------------------------------
(* The router's half of Safe Mode and of the dead-man switch.              *)

\* Safe Mode ends without a release: everything since it was taken goes.
Unwind == /\ run' = point.run /\ sched' = point.sched /\ hold' = "none"

\* The controller closes its SSH socket (close, abort, the end of the
\* process): the router unwinds now, or once it notices.
CloseSession ==
    /\ holding' = FALSE
    /\ \/ /\ hold = "ours" /\ holding /\ Unwind
       \/ /\ hold = "ours" /\ holding /\ "lateClose" \in Faults
          /\ UNCHANGED <<run, sched, hold>>
       \/ /\ ~(hold = "ours" /\ holding) /\ UNCHANGED <<run, sched, hold>>

NoticeClosedSession ==
    /\ hold = "ours" /\ ~holding /\ Unwind
    /\ UNCHANGED <<call, ctl, backed, older, point, up>>

SessionDies ==
    /\ "sessionDies" \in Faults
    /\ hold = "ours" /\ holding /\ Unwind
    /\ UNCHANGED <<call, ctl, backed, older, point, up>>

\* The operator's own Safe Mode ends, by releasing it or by losing it.
HumanHoldEnds ==
    /\ hold = "other"
    /\ Unwind \/ (hold' = "none" /\ UNCHANGED <<run, sched>>)
    /\ UNCHANGED <<call, ctl, backed, older, point, up>>

\* The scheduler loads the backup: it was taken before the scheduler entry
\* was added, so the restore removes the entry, and it reboots the router.
DeadManFires ==
    /\ sched /\ backed /\ up
    /\ Ended \/ "slowPush" \in Faults
    /\ run' = {} /\ sched' = FALSE /\ hold' = "none" /\ up' = FALSE
    /\ UNCHANGED <<call, ctl, backed, older, point>>

Boot ==
    /\ ~up /\ up' = TRUE
    /\ UNCHANGED <<call, ctl, run, sched, backed, older, hold, point>>

-----------------------------------------------------------------------------
(* The controller.                                                         *)

Return(o) == pc' = "returned" /\ out' = o
Failure == out \ {"ok"}
FailureAfterCommits ==
    Failure \cup {"quarantine"} \cup (IF committed > 0 THEN {"partial"} ELSE {})

NothingToApply ==
    /\ pc = "start" /\ nops = 0
    /\ Return(out \cup {"ok"})
    /\ UNCHANGED <<call, dev, flow, applied, committed, bad, holding, steps, mark>>

Backup ==
    /\ pc = "start" /\ nops > 0
    /\ \/ /\ up /\ backed' = TRUE
          /\ pc' = IF offered THEN "enter" ELSE "arm"
          /\ UNCHANGED out
       \/ Fails /\ Return(Failure) /\ UNCHANGED backed
       \/ Mute /\ Return(Failure) /\ backed' = TRUE
    /\ UNCHANGED <<call, flow, applied, committed, bad, holding, steps, mark,
                   run, sched, older, hold, point, up>>

\* SshSafeModeSession.enter, called for the first chunk (pc = "enter") and
\* again after each released chunk (pc = "reenter").
EnterGranted ==
    /\ pc \in {"enter", "reenter"} /\ hold = "none" /\ up
    /\ hold' = "ours" /\ point' = [run |-> run, sched |-> sched]
    /\ holding' = TRUE /\ flow' = "safe" /\ pc' = "push" /\ bad' = FALSE
    /\ UNCHANGED <<call, applied, committed, out, steps, mark,
                   run, sched, backed, older, up>>

\* Mutant of EnterRefused: falls back to the legacy push without arming it.
EnterRefusedUnarmed ==
    /\ pc \in {"enter", "reenter"} /\ UNCHANGED <<hold, point>>
    /\ \/ pc = "enter" /\ pc' = "push" /\ UNCHANGED out
       \/ pc = "reenter" /\ Return(FailureAfterCommits)
    /\ UNCHANGED <<call, flow, applied, committed, bad, holding, steps, mark,
                   run, sched, backed, older, up>>

EnterRefused ==
    /\ pc \in {"enter", "reenter"}
    /\ \/ UNCHANGED <<hold, point>>
       \/ /\ "lostGrant" \in Faults /\ hold = "none" /\ up
          /\ hold' = "ours" /\ point' = [run |-> run, sched |-> sched]
    /\ \/ pc = "enter" /\ pc' = "arm" /\ UNCHANGED out
       \/ pc = "reenter" /\ Return(FailureAfterCommits)
    /\ UNCHANGED <<call, flow, applied, committed, bad, holding, steps, mark,
                   run, sched, backed, older, up>>

\* _arm: the ApplyResult of the scheduler add is not looked at.
Arm ==
    /\ pc = "arm"
    /\ \/ up /\ sched' = TRUE
       \/ "armFails" \in Faults /\ UNCHANGED sched
    /\ flow' = "legacy" /\ pc' = "push"
    /\ out' = out \cup {"armed"}
    /\ UNCHANGED <<call, applied, committed, bad, holding, steps, mark,
                   run, backed, older, hold, point, up>>

\* driver.apply, one operation at a time, in order.
PushOp ==
    /\ pc = "push" /\ ~bad /\ applied < BatchEnd /\ up
    /\ run' = run \cup {applied + 1} /\ applied' = applied + 1
    /\ UNCHANGED <<call, pc, flow, committed, bad, holding, out, steps, mark,
                   sched, backed, older, hold, point, up>>

\* It stops at the first failure, which the router may have acted on: an
\* answer is lost too when the operation itself breaks management.
PushFails ==
    /\ pc = "push" /\ ~bad /\ applied < BatchEnd
    /\ \/ Fails /\ UNCHANGED run
       \/ /\ Mute \/ (up /\ applied + 1 = cut)
          /\ run' = run \cup {applied + 1}
    /\ bad' = TRUE
    /\ UNCHANGED <<call, pc, flow, applied, committed, holding, out, steps, mark,
                   sched, backed, older, hold, point, up>>

\* Mutant of StepState: counts the failed operation among the applied.
StepStateOffByOne(i) ==
    IF i < applied \/ ~bad THEN "applied" ELSE IF i = applied THEN "failed" ELSE "skipped"

\* The state an operation of the batch is journalled with: it falls out of
\* its place, since the driver stops at the first failure.
StepState(i) ==
    IF i <= applied THEN "applied" ELSE IF i = applied + 1 THEN "failed" ELSE "skipped"

\* driver.apply returned: _record_steps journals the batch, one row at a time.
\* A row that cannot be written is logged and the push goes on without it.
RecordSteps ==
    /\ pc = "push" /\ (bad \/ applied = BatchEnd)
    /\ \E lost \in SUBSET (IF "journalFails" \in Faults THEN Batch ELSE {}) :
          steps' = [i \in Ops |-> IF i \in lost THEN "lost"
                                 ELSE IF i \in Batch THEN StepState(i) ELSE steps[i]]
    /\ pc' = IF bad /\ flow = "safe" THEN "abort" ELSE "verify"
    /\ UNCHANGED <<call, dev, flow, applied, committed, bad, holding, out, mark>>

\* _record_event: the row of a chunk's boundary, which may be lost as well.
RecordEvent(event) ==
    \/ mark' = [i \in Ops |-> IF i \in Batch THEN event ELSE mark[i]]
    \/ "journalFails" \in Faults /\ UNCHANGED mark

\* Mutant of Verify: asks over the connection that was already open.
VerifyOldConnection ==
    /\ pc = "verify"
    /\ \/ up /\ pc' = (IF flow = "safe" THEN "commit" ELSE "disarm") /\ UNCHANGED out
       \/ /\ Fails
          /\ \/ flow = "safe" /\ pc' = "abort" /\ UNCHANGED out
             \/ flow = "legacy" /\ Return(Failure)
    /\ UNCHANGED <<call, dev, flow, applied, committed, bad, holding, steps, mark>>

\* _verify closes the driver's connection and proves a new one works.
Verify ==
    /\ pc = "verify"
    /\ \/ /\ up /\ ~CutOff
          /\ pc' = IF flow = "safe" THEN "commit" ELSE "disarm"
          /\ UNCHANGED out
       \/ /\ Fails \/ Mute
          /\ \/ flow = "safe" /\ pc' = "abort" /\ UNCHANGED out
             \/ flow = "legacy" /\ Return(Failure)
    /\ UNCHANGED <<call, dev, flow, applied, committed, bad, holding, steps, mark>>

\* Mutant of Abort: reports the rollback but never closes the session.
AbortLeavesSession ==
    /\ pc = "abort"
    /\ RecordEvent("abort")
    /\ Return(FailureAfterCommits \cup {"rolledBack"})
    /\ UNCHANGED <<call, dev, flow, applied, committed, bad, holding, steps>>

\* -- Safe Mode flow
Abort ==
    /\ pc = "abort" /\ CloseSession
    /\ RecordEvent("abort")
    /\ Return(FailureAfterCommits \cup {"rolledBack"})
    /\ UNCHANGED <<call, flow, applied, committed, bad, steps,
                   backed, older, point, up>>

\* Mutant of CommitConfirmed: counts whole chunks, the last one too.
CommitConfirmedWholeChunk ==
    /\ pc = "commit" /\ hold = "ours" /\ up
    /\ hold' = "none" /\ holding' = FALSE
    /\ RecordEvent("commit")
    /\ committed' = committed + Chunk
    /\ pc' = IF BatchEnd < nops THEN "reenter" ELSE "prune"
    /\ UNCHANGED <<call, flow, applied, bad, out, steps,
                   run, sched, backed, older, point, up>>

CommitConfirmed ==
    /\ pc = "commit" /\ hold = "ours" /\ up
    /\ hold' = "none" /\ holding' = FALSE
    /\ RecordEvent("commit")
    /\ committed' = BatchEnd
    /\ pc' = IF BatchEnd < nops THEN "reenter" ELSE "prune"
    /\ UNCHANGED <<call, flow, applied, bad, out, steps,
                   run, sched, backed, older, point, up>>

\* Mutant of CommitUnconfirmed: journals the commit before it is confirmed.
CommitUnconfirmedJournalled ==
    /\ pc = "commit" /\ CloseSession
    /\ RecordEvent("commit")
    /\ Return(FailureAfterCommits)
    /\ UNCHANGED <<call, flow, applied, committed, bad, steps,
                   backed, older, point, up>>

\* The release is not confirmed (always so once the session is dead): the
\* router may have released the chunk or not before the session is closed.
CommitUnconfirmed ==
    /\ pc = "commit"
    /\ \/ CloseSession
       \/ /\ hold = "ours" /\ hold' = "none" /\ holding' = FALSE
          /\ UNCHANGED <<run, sched>>
    /\ RecordEvent("abort")
    /\ Return(FailureAfterCommits)
    /\ UNCHANGED <<call, flow, applied, committed, bad, steps,
                   backed, older, point, up>>

\* -- Legacy flow
\* _disarm reads the scheduler rows of this token, and removes each.
DisarmRead ==
    /\ pc = "disarm"
    /\ \/ /\ up /\ ~CutOff
          /\ \/ sched /\ pc' = "remove" /\ UNCHANGED out
             \/ ~sched /\ pc' = "prune" /\ out' = out \ {"armed"}
       \/ (Fails \/ Mute) /\ Return(Failure)
    /\ UNCHANGED <<call, dev, flow, applied, committed, bad, holding, steps, mark>>

\* Mutant of DisarmRemove: a refused removal counts as a disarm.
DisarmRemoveUnchecked ==
    /\ pc = "remove" /\ up /\ ~CutOff
    /\ sched' = FALSE \/ (Fails /\ UNCHANGED sched)
    /\ pc' = "prune" /\ out' = out \ {"armed"}
    /\ UNCHANGED <<call, flow, applied, committed, bad, holding, steps, mark,
                   run, backed, older, hold, point, up>>

DisarmRemove ==
    /\ pc = "remove"
    /\ \/ /\ up /\ ~CutOff /\ sched /\ sched' = FALSE
          /\ pc' = "prune" /\ out' = out \ {"armed"}
       \/ /\ Fails \/ ~sched
          /\ Return(Failure) /\ UNCHANGED sched
       \/ Mute /\ Return(Failure) /\ sched' = FALSE
    /\ UNCHANGED <<call, flow, applied, committed, bad, holding, steps, mark,
                   run, backed, older, hold, point, up>>

\* Mutant of PruneAndReturn: a single applied operation is no prefix.
PruneAndReturnOffByOne ==
    /\ pc = "prune" /\ UNCHANGED older
    /\ Return(IF ~bad THEN out \cup {"ok"}
              ELSE IF applied > 1 THEN Failure \cup {"partial", "quarantine"}
              ELSE Failure)
    /\ UNCHANGED <<call, flow, applied, committed, bad, holding, steps, mark,
                   run, sched, backed, hold, point, up>>

\* _prune_backups keeps the two newest pre-apply backups and never fails;
\* then safe_apply returns.
PruneAndReturn ==
    /\ pc = "prune"
    /\ older' \in {k \in 0..older : k = older \/ k >= 1}
    /\ Return(IF ~bad THEN out \cup {"ok"}
              ELSE IF applied > 0 THEN Failure \cup {"partial", "quarantine"}
              ELSE Failure)
    /\ UNCHANGED <<call, flow, applied, committed, bad, holding, steps, mark,
                   run, sched, backed, hold, point, up>>

-----------------------------------------------------------------------------
(* Ways out that no except clause of safe_apply catches.                   *)

\* A request is outstanding whose error the code would see.
Requesting ==
    \/ pc = "start" /\ nops > 0
    \/ pc = "push" /\ ~bad /\ applied < BatchEnd
    \/ pc \in {"arm", "commit", "disarm", "remove"}

\* An error that is not a DriverError, raised by a request the router may
\* have acted on; it leaves through the finally, which closes the session.
Raise ==
    /\ "transport" \in Faults /\ Requesting
    /\ \/ CloseSession /\ UNCHANGED backed
       \/ /\ up /\ pc = "start" /\ backed' = TRUE
          /\ UNCHANGED <<run, sched, hold, holding>>
       \/ /\ up /\ pc \in {"arm", "remove"} /\ sched' = (pc = "arm")
          /\ UNCHANGED <<run, hold, holding, backed>>
       \/ /\ up /\ pc = "push" /\ run' = run \cup {applied + 1}
          /\ (hold = "ours" /\ holding) => "lateClose" \in Faults
          /\ holding' = FALSE /\ UNCHANGED <<sched, hold, backed>>
       \/ /\ pc = "commit" /\ hold = "ours" /\ hold' = "none"
          /\ holding' = FALSE /\ UNCHANGED <<run, sched, backed>>
    /\ pc' = "raised"
    /\ UNCHANGED <<call, flow, applied, committed, bad, out, steps, mark,
                   older, point, up>>

\* Cancellation and the death of the process both close the SSH socket.
Interrupted ==
    /\ ~Ended
    /\ \/ "cancel" \in Faults /\ pc' = "raised"
       \/ "crash" \in Faults /\ pc' = "crashed"
    /\ CloseSession
    /\ UNCHANGED <<call, flow, applied, committed, bad, out, steps, mark,
                   backed, older, point, up>>

-----------------------------------------------------------------------------
Controller ==
    \/ NothingToApply \/ Backup \/ EnterGranted \/ EnterRefused \/ Arm
    \/ PushOp \/ PushFails \/ RecordSteps \/ Verify
    \/ Abort \/ CommitConfirmed \/ CommitUnconfirmed
    \/ DisarmRead \/ DisarmRemove \/ PruneAndReturn
    \/ Raise \/ Interrupted

Router ==
    \/ NoticeClosedSession \/ SessionDies \/ HumanHoldEnds
    \/ DeadManFires \/ Boot

\* A call that has ended and left nothing pending on the router is over.
Settled == Ended /\ ~sched /\ hold = "none" /\ up
Done == Settled /\ UNCHANGED vars

Next == Controller \/ Router \/ Done

Spec == Init /\ [][Next]_vars

\* The controller's coroutine and the router's timers keep running.
Fairness ==
    /\ WF_vars(Controller)
    /\ WF_vars(NoticeClosedSession) /\ WF_vars(HumanHoldEnds)
    /\ WF_vars(DeadManFires) /\ WF_vars(Boot)
FairSpec == Spec /\ Fairness

-----------------------------------------------------------------------------
(* Properties.  Each names the faults under which the code keeps it; the   *)
(* configurations choose Faults accordingly, and README.md says why.       *)

\* Faults that put a change on the router outside any restore point.
Unprotecting == {"armFails", "sessionDies", "lostGrant", "humanHold"}

\* While the push has broken management access, the router itself holds
\* something that will restore it: the entry, or our Safe Mode session. This
\* is why verification uses a fresh connection and precedes disarm/release.
LockoutIsTemporary == CutOff => sched \/ hold = "ours"

\* The inductive form of LockoutIsTemporary: what each control point knows of
\* the restore point. It holds unless Unprotecting or slowPush faults occur.
RestorePointInv ==
    /\ hold # "other"
    /\ holding => hold = "ours"
    /\ hold = "ours" => ~sched /\ ~point.sched /\ cut \notin point.run
    /\ pc \in {"start", "enter", "arm", "reenter"} \/ flow = "legacy" => hold = "none"
    /\ pc \in {"start", "enter", "arm"} => flow = "none"
    /\ pc \in {"push", "verify"} => flow # "none"
    /\ sched => flow = "legacy" \/ Ended
    /\ pc \in {"abort", "commit", "reenter"} => flow = "safe"
    /\ pc \in {"disarm", "remove"} => flow = "legacy"
    /\ pc \in {"push", "verify", "abort", "commit"} /\ flow = "safe" => holding
    /\ pc \in {"push", "verify", "disarm", "remove"} /\ flow = "legacy" => sched
    /\ pc \notin {"push", "verify", "abort"} /\ ~Ended => ~CutOff
    /\ LockoutIsTemporary

\* A failure that neither leaves the rollback armed nor asks for quarantine
\* left the router unchanged, except perhaps for the very operation that
\* failed (its answer may have been lost).
FailureIsAccountedFor ==
    pc = "returned" /\ out \cap {"ok", "armed", "quarantine"} = {}
        => run \subseteq {applied + 1}

\* No change survives on the router, once the call has returned, that the
\* journal calls skipped or passes over in silence: its row says applied or
\* failed, or the row could not be written and the log says which one.
JournalCoversRouter ==
    pc = "returned" => \A i \in run : steps[i] \in {"applied", "failed", "lost"}

\* The inductive form of the two above, under every fault: where the counters
\* of the call stand between the router and the journal.
AccountInv ==
    /\ pc \in {"start", "enter", "arm"}
          => /\ flow = "none" /\ run = {} /\ out = {}
             /\ applied = 0 /\ committed = 0 /\ ~bad
    /\ pc = "reenter" => flow = "safe" /\ ~bad /\ committed = applied
    /\ pc \in {"push", "verify"} => flow # "none"
    /\ pc \in {"abort", "commit"} => flow = "safe"
    /\ pc \in {"disarm", "remove"} => flow = "legacy"
    /\ flow # "safe" => point.run = {} /\ committed = 0
    /\ pc \in {"push", "verify", "disarm", "remove"} /\ flow = "legacy"
          => "armed" \in out
    /\ ~Ended => "ok" \notin out
    /\ committed <= applied /\ committed <= nops
    /\ pc = "push" => applied <= BatchEnd /\ (bad => applied < BatchEnd)
    /\ pc \in {"verify", "commit"} /\ flow = "safe" => ~bad /\ applied = BatchEnd
    /\ pc = "prune" /\ bad => flow = "legacy"
    /\ \A i \in point.run : i <= committed
    /\ ~Ended => \A i \in run : i <= applied \/ (bad /\ i = applied + 1)
    /\ \A i \in Ops : i <= committed => steps[i] \in {"applied", "lost"}
    /\ pc \notin {"push", "raised", "crashed"}
          => \A i \in Ops : i <= applied => steps[i] \in {"applied", "lost"}
    /\ pc \in {"verify", "abort", "disarm", "remove", "prune"} /\ bad
          => \A i \in Ops : i = applied + 1 => steps[i] \in {"failed", "lost"}
    /\ pc = "returned" /\ flow = "safe" => out \cap {"ok", "quarantine"} # {}
    /\ FailureIsAccountedFor
    /\ JournalCoversRouter

\* A chunk the journal marks committed is wholly on the router, now and
\* after whatever becomes of the later chunks.
CommitRowsAreTrue == {i \in Ops : mark[i] = "commit"} \subseteq run

\* Its inductive form: no restore point predates a committed chunk.
CommitInv ==
    /\ ~point.sched /\ (pc \in {"start", "enter"} \/ flow = "safe" => ~sched)
    /\ pc \in {"start", "enter", "arm"} => flow = "none"
    /\ pc = "reenter" => flow = "safe"
    /\ flow # "safe" => committed = 0
    /\ flow = "safe" => hold # "other"
    /\ pc \in {"push", "verify", "commit"} /\ flow = "safe" /\ hold = "ours"
          => \A i \in Ops : i <= applied => i \in run
    /\ \A i \in Ops :
          /\ mark[i] = "commit" => i <= committed
          /\ i <= committed => i \in run /\ (hold = "ours" => i \in point.run)

\* No operation takes effect without a restore point on the router that
\* precedes it.
PushOnlyProtected == [][~(run' \subseteq run) => sched \/ hold = "ours"]_vars

\* Whatever happens, the router is left with nothing pending.
EventuallySettled == <>[]Settled

\* A push that broke management is undone without anyone reaching the router.
LockoutHeals == CutOff ~> ~CutOff

\* What the contract's success rests on: a plan that was not cut short is wholly
\* on the router when the apply finishes, and nothing is left to undo it.
FinishInv ==
    /\ pc = "prune" => flow # "none" /\ ~sched /\ hold = "none"
    /\ flow = "legacy" /\ pc \in {"push", "verify", "disarm", "remove", "prune"}
          => \A i \in Ops : i <= applied => i \in run
    /\ pc \in {"verify", "disarm", "remove", "prune"} /\ flow = "legacy" /\ ~bad
          => applied = nops
    /\ pc = "prune" /\ flow = "safe" => ~bad /\ committed = nops /\ applied = nops

\* The contract both flows implement. Releasing Safe Mode or removing the
\* entry drops the restore point; unwinding or restoring returns to it.
NoPoint == {0}
Restore == IF hold = "ours" THEN point.run ELSE IF sched THEN {} ELSE NoPoint
Verdict == CASE pc = "returned" /\ "ok" \in out    -> "success"
             [] pc = "returned" /\ "ok" \notin out -> "failure"
             [] pc \in {"raised", "crashed"} -> "lost"
             [] OTHER -> "pending"
Contract == INSTANCE ApplyContract WITH
    plan <- AllOps, config <- run, restore <- Restore, verdict <- Verdict
ImplementsContract == Contract!Spec

-----------------------------------------------------------------------------
(* What the source says of itself and does not keep (see the README).      *)

\* "a mid-apply failure marks the outcome partial and recommends quarantine"
\* (reconcile/apply.py, module docstring, of the Safe Mode flow).
MidApplyFailureQuarantines ==
    /\ pc \in {"returned", "raised"} /\ "ok" \notin out
    /\ committed > 0 /\ committed < nops
    => "quarantine" \in out

=============================================================================
