----------------------------- MODULE ApplyJobs -----------------------------
(***************************************************************************)
(* Who may push to a device, and what is recorded of it: the apply jobs of *)
(* the database (models/job.py) and the sessions that work on them, the    *)
(* API's apply, cancel, quarantine and release requests, the sweep over    *)
(* due maintenance windows and the drift sweep (backend/app/api/v1,        *)
(* services/reconcile.py, services/drift.py, tasks/worker.py).             *)
(*                                                                         *)
(* A session's flushed changes are invisible to the others until it        *)
(* commits, and lock their rows (PostgreSQL, READ COMMITTED); one partial  *)
(* unique index allows one queued or running apply per site.               *)
(***************************************************************************)
EXTENDS Integers, FiniteSets

CONSTANTS
    Sites, Jobs,
    Clients,       \* POST /sites/{id}/apply requests
    Sweepers,      \* runs of run_scheduled_applies that may overlap
    Drifters,      \* runs of drift_sweep that may overlap
    Cancellers,    \* POST /jobs/{id}/cancel requests
    Benchers,      \* POST /sites/{id}/quarantine and .../release requests
    Dues,          \* the kinds of scheduled_for a client may ask for
    Faults,        \* "crash": a session's process dies; "dbDrop": its
                   \* connection to the database does, during a push
    NoJob, NoSite

Sessions == Clients \cup Sweepers \cup Drifters \cup Cancellers \cup Benchers

\* scheduled_for and window_closes_at against the clock: absent, in the
\* future, passed with the window open, passed with the window closed.
Phases == {"never", "before", "open", "closed"}

ASSUME NameAssumption == NoJob \notin Jobs /\ NoSite \notin Sites
ASSUME RoleAssumption == Sweepers \cap Drifters = {}
ASSUME BoundAssumption ==
    Dues \subseteq Phases /\ Faults \subseteq {"crash", "dbDrop"}

VARIABLES
    jobs, siteOf, due,   \* the jobs table, as committed; "none": no such row
    quar,                \* sites.quarantined, as committed
    pushes,              \* history: pushes started for a job (2: several)
    disputed,            \* history: jobs two sessions had in hand at once, or
                         \* pushed ones that a session lost its record of
    pc, at, cur,         \* each session: position, site and job in hand
    todo, late,          \* the sweep's list, and what was past its window
    seen,                \* sites.quarantined of the site rows it has loaded
    wrote,               \* job rows it has changed and not committed
    locks, benched       \* site rows it has changed; those it quarantines

db      == <<jobs, siteOf, due, quar>>
history == <<pushes>>
mine    == <<at, cur, todo, late, seen>>
txn     == <<wrote, locks, benched>>
vars    == <<db, history, disputed, pc, mine, txn>>

-----------------------------------------------------------------------------
\* JobState: "finished" is whatever verdict apply_site reached (succeeded,
\* failed, rolled_back), "missed" the sweep's refusal to call it (failed).
Active == {"queued", "running"}
States == Active \cup {"finished", "missed", "cancelled"}

PCs == {"idle", "claim", "mark", "plan", "bump", "push", "lost", "next",
        "refuse", "check", "remedy", "insert", "cancel", "release", "conflict"}

NoWrites == [j \in Jobs |-> "-"]
Unread   == [s \in Sites |-> "unread"]
Benched  == {"clear", "quarantined"}

Fields ==
    /\ jobs \in [Jobs -> States \cup {"none"}]
    /\ siteOf \in [Jobs -> Sites \cup {NoSite}] /\ due \in [Jobs -> Phases]
    /\ quar \in [Sites -> Benched]
    /\ pushes \in [Jobs -> 0..2]
    /\ pc \in [Sessions -> PCs]
    /\ at \in [Sessions -> Sites \cup {NoSite}]
    /\ cur \in [Sessions -> Jobs \cup {NoJob}]
    /\ todo \in [Sessions -> SUBSET (Jobs \cup Sites)]
    /\ late \in [Sessions -> SUBSET Jobs]
    /\ seen \in [Sessions -> [Sites -> Benched \cup {"unread"}]]
    /\ wrote \in [Sessions -> [Jobs -> States \cup {"-"}]]
    /\ locks \in [Sessions -> SUBSET Sites]
    /\ benched \in [Sessions -> SUBSET Sites]

\* Every row that a session can read has its site: jobs.site_id may be NULL,
\* and a row without a site would escape the unique index.
RowsPlaced ==
    \A j \in Jobs : (jobs[j] # "none" \/ \E p \in Sessions : wrote[p][j] # "-")
        => siteOf[j] \in Sites

TypeOK == Fields /\ disputed \subseteq Jobs /\ RowsPlaced

Init ==
    /\ jobs = [j \in Jobs |-> "none"] /\ siteOf = [j \in Jobs |-> NoSite]
    /\ due = [j \in Jobs |-> "never"] /\ quar = [s \in Sites |-> "clear"]
    /\ pushes = [j \in Jobs |-> 0] /\ disputed = {}
    /\ pc = [p \in Sessions |-> "idle"]
    /\ at = [p \in Sessions |-> NoSite] /\ cur = [p \in Sessions |-> NoJob]
    /\ todo = [p \in Sessions |-> {}] /\ late = [p \in Sessions |-> {}]
    /\ seen = [p \in Sessions |-> Unread]
    /\ wrote = [p \in Sessions |-> NoWrites]
    /\ locks = [p \in Sessions |-> {}] /\ benched = [p \in Sessions |-> {}]

-----------------------------------------------------------------------------
(* The database.                                                           *)

\* What session p reads: its own changes over the committed rows.
State(p, j) == IF wrote[p][j] = "-" THEN jobs[j] ELSE wrote[p][j]

ActiveApplyJob(p, s, exclude) ==
    \E j \in Jobs \ {exclude} : siteOf[j] = s /\ State(p, j) \in Active

\* Sessions whose end p waits for, to write row j, to write site row s, and to
\* make j the active apply of s: the index waits for any change that adds or
\* removes an active row.
RowBlockers(p, j) == {q \in Sessions \ {p} : wrote[q][j] # "-"}
SiteBlockers(p, s) == {q \in Sessions \ {p} : s \in locks[q]}
SlotBlockers(p, j, s) ==
    {q \in Sessions \ {p} : \E i \in Jobs \ {j} :
        /\ siteOf[i] = s /\ wrote[q][i] # "-"
        /\ jobs[i] \in Active \/ wrote[q][i] \in Active}

\* Mutant of SlotTaken: the table without its partial unique index.
NoIndex(p, j, s) == FALSE

\* uq_jobs_one_active_apply_per_site would refuse j as active, once no
\* blocker is left.
SlotTaken(p, j, s) == ActiveApplyJob(p, s, j)

\* Mutant of WaitsFor: only job rows are locked, and only by their writers.
WaitsForRowsOnly(p) ==
    IF pc[p] \in {"mark", "refuse", "cancel"} THEN RowBlockers(p, cur[p]) ELSE {}

\* The statement p is at waits for these.
WaitsFor(p) ==
    CASE pc[p] \in {"claim", "insert"} -> SlotBlockers(p, NoJob, at[p])
      [] pc[p] = "mark" ->
            RowBlockers(p, cur[p]) \cup SlotBlockers(p, cur[p], at[p])
      [] pc[p] \in {"refuse", "cancel"} -> RowBlockers(p, cur[p])
      [] pc[p] \in {"bump", "check", "release"} -> SiteBlockers(p, at[p])
      [] OTHER -> {}
Proceeds(p) == WaitsFor(p) = {}

\* The session is over: its locks go, and what it holds in memory.
EndSession(p) ==
    /\ wrote' = [wrote EXCEPT ![p] = NoWrites]
    /\ locks' = [locks EXCEPT ![p] = {}]
    /\ benched' = [benched EXCEPT ![p] = {}]
    /\ todo' = [todo EXCEPT ![p] = {}] /\ late' = [late EXCEPT ![p] = {}]
    /\ seen' = [seen EXCEPT ![p] = Unread]
    /\ at' = [at EXCEPT ![p] = NoSite] /\ cur' = [cur EXCEPT ![p] = NoJob]

Goto(p, where) == pc' = [pc EXCEPT ![p] = where]

\* A row that p inserted is gone with the rest.
Rollback(p) ==
    /\ siteOf' = [j \in Jobs |-> IF wrote[p][j] # "-" /\ jobs[j] = "none"
                                  THEN NoSite ELSE siteOf[j]]
    /\ EndSession(p) /\ Goto(p, "idle")
    /\ UNCHANGED <<jobs, due, quar, history>>

Commit(p) ==
    /\ pc[p] = "next" /\ todo[p] = {}
    /\ jobs' = [j \in Jobs |-> State(p, j)]
    /\ quar' = [s \in Sites |-> IF s \in benched[p] THEN "quarantined" ELSE quar[s]]
    /\ EndSession(p) /\ Goto(p, "idle")
    /\ UNCHANGED <<siteOf, due, history>>

Write(p, state) == wrote' = [wrote EXCEPT ![p][cur[p]] = state]

\* The job in hand is dealt with, as far as this session can tell.
Conclude(p, state) ==
    /\ Write(p, state) /\ Goto(p, "next")
    /\ cur' = [cur EXCEPT ![p] = NoJob] /\ at' = [at EXCEPT ![p] = NoSite]

\* Row ids new_job may come up with.
Fresh == {j \in Jobs : jobs[j] = "none" /\ \A q \in Sessions : wrote[q][j] = "-"}

-----------------------------------------------------------------------------
(* POST /sites/{id}/apply                                                  *)

\* Loads the site, and refuses (409) if it sees an active apply.
ApiCheck(p) ==
    /\ p \in Clients /\ pc[p] = "idle"
    /\ \E s \in Sites : /\ ~ActiveApplyJob(p, s, NoJob)
                        /\ at' = [at EXCEPT ![p] = s]
                        /\ seen' = [seen EXCEPT ![p][s] = quar[s]]
    /\ Goto(p, "claim")
    /\ UNCHANGED <<db, history, cur, todo, late, txn>>

\* flush and commit of the claim; a future scheduled_for ends the request.
ApiClaim(p) ==
    /\ pc[p] = "claim" /\ Proceeds(p) /\ ~SlotTaken(p, NoJob, at[p])
    /\ \E j \in Fresh, d \in Dues :
          /\ jobs' = [jobs EXCEPT ![j] = "queued"]
          /\ siteOf' = [siteOf EXCEPT ![j] = at[p]] /\ due' = [due EXCEPT ![j] = d]
          /\ IF d = "before"
             THEN EndSession(p) /\ Goto(p, "idle")
             ELSE /\ Goto(p, "mark") /\ cur' = [cur EXCEPT ![p] = j]
                  /\ UNCHANGED <<at, todo, late, seen, txn>>
    /\ UNCHANGED <<quar, history>>

\* The insert violates the index: session.flush() raises.
ApiConflict(p) ==
    /\ pc[p] = "claim" /\ Proceeds(p) /\ SlotTaken(p, NoJob, at[p])
    /\ EndSession(p) /\ Goto(p, "conflict")
    /\ UNCHANGED <<db, history>>

ApiAnswered(p) ==
    /\ pc[p] = "conflict" /\ Goto(p, "idle")
    /\ UNCHANGED <<db, history, mine, txn>>

-----------------------------------------------------------------------------
(* apply_site, the same for every caller                                   *)

\* state = running, flushed; then the quarantine guard, on the loaded row.
MarkRunning(p) ==
    /\ pc[p] = "mark" /\ Proceeds(p) /\ ~SlotTaken(p, cur[p], at[p])
    /\ \/ /\ seen[p][at[p]] = "clear"
          /\ Write(p, "running") /\ Goto(p, "plan") /\ UNCHANGED <<cur, at>>
       \/ seen[p][at[p]] = "quarantined" /\ Conclude(p, "finished")
    /\ UNCHANGED <<db, history, todo, late, seen, locks, benched>>

\* The flush of running violates the index: it leaves apply_site, and the
\* caller loses its whole transaction.
MarkConflict(p) ==
    /\ pc[p] = "mark" /\ Proceeds(p) /\ SlotTaken(p, cur[p], at[p])
    /\ Rollback(p)

\* The plan: nothing to do, an error, an unreachable device, or a push.
Plan(p) ==
    /\ pc[p] = "plan"
    /\ \/ Conclude(p, "finished") /\ UNCHANGED locks
       \/ /\ SiteBlockers(p, at[p]) = {} /\ Conclude(p, "finished")
          /\ locks' = [locks EXCEPT ![p] = @ \cup {at[p]}]
       \/ Goto(p, "bump") /\ UNCHANGED <<wrote, locks, cur, at>>
    /\ UNCHANGED <<db, history, todo, late, seen, benched>>

\* apply_generation is written to the site row, and safe_apply starts.
StartPush(p) ==
    /\ pc[p] = "bump" /\ Proceeds(p)
    /\ locks' = [locks EXCEPT ![p] = @ \cup {at[p]}]
    /\ pushes' = [pushes EXCEPT ![cur[p]] = IF @ = 0 THEN 1 ELSE 2]
    /\ Goto(p, "push")
    /\ UNCHANGED <<db, mine, wrote, benched>>

EndPush(p) ==
    /\ pc[p] = "push" /\ Conclude(p, "finished")
    /\ UNCHANGED <<db, history, todo, late, seen, locks, benched>>

\* The outcome recommends quarantine: quarantine_site.
EndPushQuarantining(p) ==
    /\ pc[p] = "push" /\ Conclude(p, "finished")
    /\ seen' = [seen EXCEPT ![p][at[p]] = "quarantined"]
    /\ benched' = [benched EXCEPT ![p] = @ \cup {at[p]}]
    /\ UNCHANGED <<db, history, todo, late, locks>>

\* The connection to the database breaks during the push. PostgreSQL rolls
\* back and unlocks; journal writes fail, which is logged, and the push goes on
\* until its result cannot be flushed.
DbDrops(p) ==
    /\ "dbDrop" \in Faults /\ pc[p] = "push"
    /\ wrote' = [wrote EXCEPT ![p] = NoWrites]
    /\ locks' = [locks EXCEPT ![p] = {}] /\ benched' = [benched EXCEPT ![p] = {}]
    /\ Goto(p, "lost")
    /\ UNCHANGED <<db, history, mine>>

LostPushEnds(p) == pc[p] = "lost" /\ Rollback(p)

-----------------------------------------------------------------------------
(* run_scheduled_applies                                                   *)

Sweep(p, dueNow) ==
    /\ p \in Sweepers /\ pc[p] = "idle" /\ dueNow # {}
    /\ todo' = [todo EXCEPT ![p] = dueNow]
    /\ late' = [late EXCEPT ![p] = {j \in dueNow : due[j] = "closed"}]
    /\ Goto(p, "next")
    /\ UNCHANGED <<db, history, at, cur, seen, txn>>

\* Mutant of SweepStart: the select without its condition on the state.
SweepStartAnyState(p) ==
    Sweep(p, {j \in Jobs : jobs[j] # "none" /\ due[j] \in {"open", "closed"}})
SweepStart(p) ==
    Sweep(p, {j \in Jobs : jobs[j] = "queued" /\ due[j] \in {"open", "closed"}})

\* Mutant of SweepTake: passes over a job whose window had closed, and leaves
\* it in the queue.
SweepTakeSkipping(p) ==
    /\ p \in Sweepers /\ pc[p] = "next"
    /\ \E j \in todo[p] :
          /\ todo' = [todo EXCEPT ![p] = @ \ {j}]
          /\ IF j \in late[p]
             THEN UNCHANGED <<pc, cur, at, seen>>
             ELSE /\ cur' = [cur EXCEPT ![p] = j]
                  /\ at' = [at EXCEPT ![p] = siteOf[j]]
                  /\ seen' = [seen EXCEPT ![p][siteOf[j]] = IF @ = "unread" THEN quar[siteOf[j]] ELSE @]
                  /\ Goto(p, IF ActiveApplyJob(p, siteOf[j], j) THEN "refuse" ELSE "mark")
    /\ UNCHANGED <<db, history, late, txn>>

\* One due job is refused (its window had closed when the sweep began, or
\* another apply is active) or handed to apply_site.
SweepTake(p) ==
    /\ p \in Sweepers /\ pc[p] = "next"
    /\ \E j \in todo[p] :
          /\ todo' = [todo EXCEPT ![p] = @ \ {j}]
          /\ cur' = [cur EXCEPT ![p] = j]
          /\ at' = [at EXCEPT ![p] = siteOf[j]]
          /\ IF j \in late[p]
             THEN Goto(p, "refuse") /\ UNCHANGED seen
             ELSE /\ seen' = [seen EXCEPT ![p][siteOf[j]] = IF @ = "unread" THEN quar[siteOf[j]] ELSE @]
                  /\ Goto(p, IF ActiveApplyJob(p, siteOf[j], j) THEN "refuse" ELSE "mark")
    /\ UNCHANGED <<db, history, late, txn>>

SweepRefuse(p) ==
    /\ pc[p] = "refuse" /\ Proceeds(p)
    /\ Conclude(p, "missed")
    /\ UNCHANGED <<db, history, todo, late, seen, locks, benched>>

-----------------------------------------------------------------------------
(* drift_sweep: check_all and check_site                                   *)

\* Every site row is loaded before the first device is checked.
DriftStart(p) ==
    /\ p \in Drifters /\ pc[p] = "idle"
    /\ todo' = [todo EXCEPT ![p] = Sites] /\ seen' = [seen EXCEPT ![p] = quar]
    /\ Goto(p, "next")
    /\ UNCHANGED <<db, history, at, cur, late, txn>>

DriftTake(p) ==
    /\ p \in Drifters /\ pc[p] = "next"
    /\ \E s \in todo[p] : /\ todo' = [todo EXCEPT ![p] = @ \ {s}]
                          /\ at' = [at EXCEPT ![p] = s]
    /\ Goto(p, "check")
    /\ UNCHANGED <<db, history, cur, late, seen, txn>>

\* The outcome is written to the site row; a drifted site that remediates by
\* itself goes on.
DriftCheck(p) ==
    /\ pc[p] = "check" /\ Proceeds(p)
    /\ locks' = [locks EXCEPT ![p] = @ \cup {at[p]}]
    /\ \/ Goto(p, "next") /\ at' = [at EXCEPT ![p] = NoSite]
       \/ Goto(p, "remedy") /\ UNCHANGED at
    /\ UNCHANGED <<db, history, cur, todo, late, seen, wrote, benched>>

DriftRemedy(p) ==
    /\ pc[p] = "remedy"
    /\ \/ /\ ActiveApplyJob(p, at[p], NoJob)
          /\ Goto(p, "next") /\ at' = [at EXCEPT ![p] = NoSite]
       \/ /\ ~ActiveApplyJob(p, at[p], NoJob)
          /\ Goto(p, "insert") /\ UNCHANGED at
    /\ UNCHANGED <<db, history, cur, todo, late, seen, txn>>

\* Mutant of DriftInsert: files the remedy without its site.
DriftInsertSiteless(p) ==
    /\ pc[p] = "insert" /\ Proceeds(p) /\ ~SlotTaken(p, NoJob, at[p])
    /\ \E j \in Fresh :
          /\ due' = [due EXCEPT ![j] = "never"]
          /\ cur' = [cur EXCEPT ![p] = j] /\ wrote' = [wrote EXCEPT ![p][j] = "queued"]
    /\ Goto(p, "mark")
    /\ UNCHANGED <<jobs, siteOf, quar, history, at, todo, late, seen, locks, benched>>

DriftInsert(p) ==
    /\ pc[p] = "insert" /\ Proceeds(p) /\ ~SlotTaken(p, NoJob, at[p])
    /\ \E j \in Fresh :
          /\ siteOf' = [siteOf EXCEPT ![j] = at[p]] /\ due' = [due EXCEPT ![j] = "never"]
          /\ cur' = [cur EXCEPT ![p] = j] /\ wrote' = [wrote EXCEPT ![p][j] = "queued"]
    /\ Goto(p, "mark")
    /\ UNCHANGED <<jobs, quar, history, at, todo, late, seen, locks, benched>>

\* The failed flush leaves the sweep's session unusable up to its commit.
DriftConflict(p) ==
    /\ pc[p] = "insert" /\ Proceeds(p) /\ SlotTaken(p, NoJob, at[p])
    /\ Rollback(p)

-----------------------------------------------------------------------------
(* Operators                                                               *)

\* cancel_job reads the state it checks, then writes without checking again.
CancelRead(p) ==
    /\ p \in Cancellers /\ pc[p] = "idle"
    /\ \E j \in Jobs : jobs[j] = "queued" /\ cur' = [cur EXCEPT ![p] = j]
    /\ Goto(p, "cancel")
    /\ UNCHANGED <<db, history, at, todo, late, seen, txn>>

CancelWrite(p) ==
    /\ pc[p] = "cancel" /\ Proceeds(p)
    /\ jobs' = [jobs EXCEPT ![cur[p]] = "cancelled"]
    /\ EndSession(p) /\ Goto(p, "idle")
    /\ UNCHANGED <<siteOf, due, quar, history>>

Quarantine(p) ==
    /\ p \in Benchers /\ pc[p] = "idle"
    /\ \E s \in Sites : /\ SiteBlockers(p, s) = {}
                        /\ quar' = [quar EXCEPT ![s] = "quarantined"]
    /\ UNCHANGED <<jobs, siteOf, due, history, pc, mine, txn>>

\* A release that loads the site clear changes nothing on its row.
ReleaseRead(p) ==
    /\ p \in Benchers /\ pc[p] = "idle"
    /\ \E s \in Sites : /\ quar[s] = "quarantined" /\ at' = [at EXCEPT ![p] = s]
                        /\ seen' = [seen EXCEPT ![p][s] = quar[s]]
    /\ Goto(p, "release")
    /\ UNCHANGED <<db, history, cur, todo, late, txn>>

ReleaseWrite(p) ==
    /\ pc[p] = "release" /\ Proceeds(p)
    /\ quar' = [quar EXCEPT ![at[p]] = "clear"]
    /\ EndSession(p) /\ Goto(p, "idle")
    /\ UNCHANGED <<jobs, siteOf, due, history>>

-----------------------------------------------------------------------------
(* The clock, PostgreSQL's deadlock detector, and crashes                  *)

WindowMoves ==
    /\ \E j \in Jobs : \/ due[j] = "before" /\ due' = [due EXCEPT ![j] = "open"]
                       \/ due[j] = "open" /\ due' = [due EXCEPT ![j] = "closed"]
    /\ UNCHANGED <<jobs, siteOf, quar, history, pc, mine, txn>>

\* Sessions waiting on each other in a circle: one of them is made to fail.
DeadlockVictim(p) ==
    /\ \E S \in SUBSET Sessions :
          /\ p \in S
          /\ \A q \in S : WaitsFor(q) \cap S # {} /\ \E r \in S : q \in WaitsFor(r)
    /\ Rollback(p)

Crash(p) ==
    /\ "crash" \in Faults /\ pc[p] # "idle" /\ Rollback(p)

-----------------------------------------------------------------------------
Step(p) ==
    \/ ApiClaim(p) \/ ApiConflict(p) \/ ApiAnswered(p)
    \/ MarkRunning(p) \/ MarkConflict(p) \/ Plan(p)
    \/ StartPush(p) \/ EndPush(p) \/ EndPushQuarantining(p) \/ LostPushEnds(p)
    \/ SweepStart(p) \/ SweepTake(p) \/ SweepRefuse(p)
    \/ DriftTake(p) \/ DriftCheck(p) \/ DriftRemedy(p)
    \/ DriftInsert(p) \/ DriftConflict(p)
    \/ CancelWrite(p) \/ ReleaseWrite(p) \/ DeadlockVictim(p) \/ Commit(p)

Arrival(p) ==
    \/ ApiCheck(p) \/ DriftStart(p)
    \/ CancelRead(p) \/ Quarantine(p) \/ ReleaseRead(p)

\* Session p works on j, or means to: a cancel only writes over what is queued.
Holds(p, j) ==
    \/ wrote[p][j] # "-"
    \/ cur[p] = j /\ pc[p] # "cancel"
    \/ p \in Sweepers /\ j \in todo[p]

\* What p had changed of j, a pushed job, is gone without having been committed.
Loses(p, j) == pushes[j] # 0 /\ wrote[p][j] # "-" /\ wrote'[p][j] = "-" /\ jobs'[j] # wrote[p][j]

RecordDisputes ==
    disputed' = disputed \cup {j \in Jobs \ disputed :
        \E p \in Sessions : \/ Loses(p, j)
                            \/ Holds(p, j)' /\ \E q \in Sessions \ {p} : Holds(q, j)'}

\* The bound on row ids is reached: nothing more need happen.
Exhausted == Fresh = {} /\ UNCHANGED vars

Next ==
    /\ \/ \E p \in Sessions : Step(p) \/ Arrival(p) \/ DbDrops(p) \/ Crash(p)
       \/ WindowMoves \/ Exhausted
    /\ RecordDisputes

Spec == Init /\ [][Next]_vars

\* Sessions run, the sweep runs every minute, windows open.
Fairness ==
    /\ WF_vars(WindowMoves /\ RecordDisputes)
    /\ \A p \in Sessions : WF_vars(Step(p) /\ RecordDisputes)
FairSpec == Spec /\ Fairness

-----------------------------------------------------------------------------
\* At most one session pushes to a device at a time, as long as each keeps its
\* connection to the database: the claim, the index and the row locks together
\* are the mutual exclusion, none of the checks in the code is.
OnePushPerDevice ==
    \A p, q \in Sessions :
        pc[p] = "push" /\ pc[q] = "push" /\ at[p] = at[q] => p = q

\* A job is pushed once, unless two sessions had it in hand at once (sweeps
\* that overlap, a sweep and the request that claimed it) or a session lost what
\* it had recorded of it: what a session commits is enough to keep every later
\* one off the job.
PushedOnceUndisputed == \A j \in Jobs \ disputed : pushes[j] < 2

\* The slot: one queued or running apply per site, whatever fails.
OneActiveApply ==
    \A i, j \in Jobs :
        jobs[i] \in Active /\ jobs[j] \in Active /\ siteOf[i] = siteOf[j] => i = j

\* Every claimed apply whose time has come leaves the queue.
EveryJobIsDecided ==
    \A j \in Jobs :
        jobs[j] = "queued" /\ due[j] # "before" ~> jobs[j] # "queued"

-----------------------------------------------------------------------------
(* What the source says of itself and does not keep (see the README).      *)

\* "Everything here is idempotent and safe to run twice" (tasks/worker.py,
\* module docstring): no job is pushed twice.
PushedOnce == \A j \in Jobs : pushes[j] < 2

=============================================================================
