-------------------------- MODULE ApplyJobsProofs --------------------------
(***************************************************************************)
(* Proofs about ApplyJobs, for any number of sites, jobs and sessions and  *)
(* every fault set: what the index and the row locks together guarantee,   *)
(* and when a job can be pushed twice.                                     *)
(***************************************************************************)
EXTENDS ApplyJobs, TLAPS

-----------------------------------------------------------------------------
(* The inductive invariant.                                                *)

Known(p, j) == jobs[j] # "none" \/ wrote[p][j] # "-"

\* What session p has in hand, by its position.
InHand(p) ==
    /\ pc[p] \in {"claim", "mark", "plan", "bump", "push", "check", "remedy", "insert"}
          => at[p] \in Sites
    /\ pc[p] \in {"mark", "plan", "bump", "push", "refuse", "cancel"}
          => cur[p] \in Jobs /\ Known(p, cur[p])
    /\ pc[p] \in {"mark", "plan", "bump", "push"} => siteOf[cur[p]] = at[p]
    /\ pc[p] \in {"plan", "bump", "push"} => wrote[p][cur[p]] # "-"
    /\ pc[p] \in {"idle", "claim", "conflict"}
          => wrote[p] = NoWrites /\ benched[p] = {}
    /\ p \in Sweepers => \A j \in todo[p] : j \in Jobs /\ jobs[j] # "none"
    /\ p \in Drifters => todo[p] \subseteq Sites

\* The row locks: one session at a time has changed a job row.
RowsOwned ==
    \A p, q \in Sessions, j \in Jobs :
        wrote[p][j] # "-" /\ wrote[q][j] # "-" => p = q

\* The index, as each session sees the table.
OneActiveSeen ==
    \A p \in Sessions, i, j \in Jobs :
        /\ State(p, i) \in Active /\ State(p, j) \in Active
        /\ siteOf[i] = siteOf[j]
        => i = j

\* The index across sessions: no two of them are about to fill one slot.
SlotOwned ==
    \A p, q \in Sessions, i, j \in Jobs :
        /\ wrote[p][i] \in Active /\ wrote[q][j] \in Active
        /\ siteOf[i] = siteOf[j]
        => p = q

Table == RowsPlaced /\ RowsOwned /\ OneActiveApply /\ OneActiveSeen /\ SlotOwned

\* The site rows' locks: one holder each, and a pushing session is one.
LocksOwned ==
    /\ \A p \in Sessions : pc[p] = "push" => at[p] \in locks[p]
    /\ \A p, q \in Sessions : p # q => locks[p] \cap locks[q] = {}

IInv == Fields /\ disputed \subseteq Jobs /\ Table /\ LocksOwned /\ \A p \in Sessions : InHand(p)

-----------------------------------------------------------------------------
(* What a step does to the jobs, as the sessions see them.                 *)

Quiet == UNCHANGED <<jobs, siteOf, wrote>>

\* What p changed is lost; a row of its own may lose its site.
Drops(p) ==
    /\ jobs' = jobs /\ wrote' = [wrote EXCEPT ![p] = NoWrites]
    /\ \A j \in Jobs : siteOf'[j] = siteOf[j] \/ (wrote[p][j] # "-" /\ jobs[j] = "none")

Publishes(p) ==
    /\ jobs' = [j \in Jobs |-> State(p, j)] /\ siteOf' = siteOf
    /\ wrote' = [wrote EXCEPT ![p] = NoWrites]

\* p changes row j, which nobody else has, and takes the slot only if free.
Overwrites(p, j, state) ==
    /\ jobs' = jobs /\ siteOf' = siteOf /\ wrote' = [wrote EXCEPT ![p][j] = state]
    /\ state \in States /\ Known(p, j)
    /\ \A q \in Sessions \ {p} : wrote[q][j] = "-"
    /\ state \in Active =>
          ~SlotTaken(p, j, siteOf[j]) /\ SlotBlockers(p, j, siteOf[j]) = {}

\* p adds row j for site s, committed at once or not.
Inserts(p, j, s) ==
    /\ j \in Fresh /\ s \in Sites /\ siteOf' = [siteOf EXCEPT ![j] = s]
    /\ ~SlotTaken(p, NoJob, s) /\ SlotBlockers(p, NoJob, s) = {}
    /\ \/ jobs' = jobs /\ wrote' = [wrote EXCEPT ![p][j] = "queued"]
       \/ /\ jobs' = [jobs EXCEPT ![j] = "queued"]
          /\ wrote[p] = NoWrites /\ wrote' = wrote

Cancels(p, j) ==
    /\ jobs' = [jobs EXCEPT ![j] = "cancelled"] /\ siteOf' = siteOf
    /\ wrote' = [wrote EXCEPT ![p] = NoWrites] /\ Known(p, j)
    /\ \A q \in Sessions \ {p} : wrote[q][j] = "-"

LEMMA QuietTable == ASSUME Table, Quiet PROVE Table'
BY DEF Table, Quiet, RowsPlaced, RowsOwned, OneActiveApply, OneActiveSeen,
       SlotOwned, Known, State

LEMMA DropsTable ==
    ASSUME Fields, Table, NEW p \in Sessions, Drops(p)
    PROVE  Table'
<1> USE DEF Fields, Drops
<1>1. /\ jobs' = jobs
      /\ \A q \in Sessions, j \in Jobs :
            wrote'[q][j] = IF q = p THEN "-" ELSE wrote[q][j]
  BY DEF NoWrites
<1>2. \A q \in Sessions, j \in Jobs : Known(q, j)' =>
         siteOf'[j] = siteOf[j] /\ (Known(q, j) \/ Known(p, j))
  BY <1>1 DEF Table, RowsOwned, Known
<1>3. RowsPlaced'
  BY <1>2 DEF Table, RowsPlaced, Known
<1>4. RowsOwned'
  BY <1>1 DEF Table, RowsOwned
<1>5. \A q \in Sessions, j \in Jobs : State(q, j)' \in Active =>
         /\ State(q, j)' = IF q = p THEN jobs[j] ELSE State(q, j)
         /\ siteOf'[j] = siteOf[j]
  BY <1>1, <1>2 DEF State, Known, Active
<1>6. OneActiveApply'
  <2>1. \A j \in Jobs : jobs[j] \in Active => siteOf'[j] = siteOf[j]
    BY DEF Active
  <2> QED
    BY <1>1, <2>1 DEF Table, OneActiveApply
<1>7. OneActiveSeen'
  <2> SUFFICES ASSUME NEW q \in Sessions, NEW i \in Jobs, NEW j \in Jobs,
                      State(q, i)' \in Active, State(q, j)' \in Active,
                      siteOf'[i] = siteOf'[j]
               PROVE  i = j
    BY DEF OneActiveSeen
  <2>1. siteOf[i] = siteOf[j]
    BY <1>5
  <2>2. CASE q = p
    BY <2>1, <2>2, <1>5 DEF Table, OneActiveApply
  <2>3. CASE q # p
    BY <2>1, <2>3, <1>5 DEF Table, OneActiveSeen
  <2> QED
    BY <2>2, <2>3
<1>8. SlotOwned'
  BY <1>1, <1>2 DEF Table, SlotOwned, Known, Active
<1> QED
  BY <1>3, <1>4, <1>6, <1>7, <1>8 DEF Table

LEMMA PublishesTable ==
    ASSUME Fields, Table, NEW p \in Sessions, Publishes(p)
    PROVE  Table'
<1> USE DEF Fields, Publishes
<1>1. /\ \A j \in Jobs : jobs'[j] = State(p, j)
      /\ siteOf' = siteOf
      /\ \A q \in Sessions, j \in Jobs :
            wrote'[q][j] = IF q = p THEN "-" ELSE wrote[q][j]
  BY DEF NoWrites
<1>2. RowsPlaced'
  BY <1>1 DEF Table, RowsPlaced, Known, State
<1>3. RowsOwned'
  BY <1>1 DEF Table, RowsOwned
<1>4. OneActiveApply'
  BY <1>1 DEF Table, OneActiveApply, OneActiveSeen
<1>5. SlotOwned'
  BY <1>1 DEF Table, SlotOwned, Active
<1>6. OneActiveSeen'
  <2> SUFFICES ASSUME NEW q \in Sessions, NEW i \in Jobs, NEW j \in Jobs, i # j,
                      State(q, i)' \in Active, State(q, j)' \in Active,
                      siteOf[i] = siteOf[j]
               PROVE  FALSE
    BY <1>1 DEF OneActiveSeen
  <2>1. CASE \A k \in {i, j} : State(q, k)' = State(p, k)
    BY <2>1 DEF Table, OneActiveSeen
  <2>2. CASE \A k \in {i, j} : State(q, k)' = State(q, k)
    BY <2>2 DEF Table, OneActiveSeen
  <2>3. \A k \in {i, j} : \/ State(q, k)' = State(q, k)
                          \/ State(q, k)' = State(p, k) /\ wrote[p][k] # "-"
    BY <1>1 DEF State
  <2>4. \A k \in {i, j} : State(q, k)' = State(p, k) \/ (wrote[q][k] # "-" /\ q # p /\ wrote[q][k] = State(q, k)')
    BY <1>1 DEF State
  <2>5. PICK a \in {i, j}, b \in {i, j} :
           /\ State(q, a)' = State(p, a) /\ wrote[p][a] # "-"
           /\ wrote[q][b] = State(q, b)' /\ q # p
    BY <2>1, <2>2, <2>3, <2>4
  <2>6. wrote[p][a] \in Active /\ wrote[q][b] \in Active
    BY <2>5 DEF State
  <2> QED
    BY <2>5, <2>6 DEF Table, SlotOwned
<1> QED
  BY <1>2, <1>3, <1>4, <1>5, <1>6 DEF Table

LEMMA OverwritesTable ==
    ASSUME Fields, Table, NEW p \in Sessions, NEW j \in Jobs,
           NEW state, Overwrites(p, j, state)
    PROVE  Table'
<1> USE DEF Fields, Overwrites
<1>1. /\ jobs' = jobs /\ siteOf' = siteOf
      /\ \A q \in Sessions, i \in Jobs :
            wrote'[q][i] = IF q = p /\ i = j THEN state ELSE wrote[q][i]
  OBVIOUS
<1>2. state # "-"
  BY DEF States, Active
<1>3. RowsPlaced'
  BY <1>1 DEF Table, RowsPlaced, Known
<1>4. RowsOwned'
  BY <1>1 DEF Table, RowsOwned
<1>5. OneActiveApply'
  BY <1>1 DEF Table, OneActiveApply
<1>6. \A q \in Sessions, i \in Jobs :
         State(q, i)' = IF q = p /\ i = j THEN state ELSE State(q, i)
  BY <1>1, <1>2 DEF State
<1>7. state \in Active => \A i \in Jobs \ {j} :
         siteOf[i] = siteOf[j] => State(p, i) \notin Active
  BY DEF SlotTaken, ActiveApplyJob
<1>8. OneActiveSeen'
  <2> SUFFICES ASSUME NEW q \in Sessions, NEW i \in Jobs, NEW k \in Jobs,
                      State(q, i)' \in Active, State(q, k)' \in Active,
                      siteOf[i] = siteOf[k]
               PROVE  i = k
    BY <1>1 DEF OneActiveSeen
  <2>1. CASE q # p \/ (i # j /\ k # j)
    BY <2>1, <1>6 DEF Table, OneActiveSeen
  <2>2. CASE q = p /\ (i = j \/ k = j)
    BY <2>2, <1>6, <1>7
  <2> QED
    BY <2>1, <2>2
<1>9. state \in Active => \A q \in Sessions \ {p}, i \in Jobs :
         siteOf[i] = siteOf[j] => wrote[q][i] \notin Active
  BY DEF SlotBlockers, Active
<1>10. SlotOwned'
  BY <1>1, <1>9 DEF Table, SlotOwned
<1> QED
  BY <1>3, <1>4, <1>5, <1>8, <1>10 DEF Table

LEMMA InsertsTable ==
    ASSUME Fields, Table, NEW p \in Sessions, NEW j \in Jobs,
           NEW s, Inserts(p, j, s)
    PROVE  Table'
<1> USE DEF Fields, Inserts
<1>1. /\ jobs[j] = "none" /\ (\A q \in Sessions : wrote[q][j] = "-")
      /\ s \in Sites
      /\ \A i \in Jobs : siteOf'[i] = IF i = j THEN s ELSE siteOf[i]
  BY DEF Fresh
<1>2. NoJob \notin Jobs
  BY NameAssumption
<1>3. \A q \in Sessions, i \in Jobs : i # j =>
         /\ wrote'[q][i] = wrote[q][i] /\ jobs'[i] = jobs[i]
         /\ State(q, i)' = State(q, i) /\ (Known(q, i)' => Known(q, i))
  <2> SUFFICES ASSUME NEW q \in Sessions, NEW i \in Jobs, i # j
               PROVE  wrote'[q][i] = wrote[q][i] /\ jobs'[i] = jobs[i]
    BY DEF State, Known
  <2>1. CASE jobs' = jobs /\ wrote' = [wrote EXCEPT ![p][j] = "queued"]
    BY <2>1
  <2>2. CASE jobs' = [jobs EXCEPT ![j] = "queued"] /\ wrote' = wrote
    BY <2>2
  <2> QED
    BY <2>1, <2>2
<1>4. /\ jobs'[j] \in {"none", "queued"}
      /\ \A q \in Sessions : /\ wrote'[q][j] \in {"-", "queued"}
                             /\ wrote'[q][j] = "queued" => q = p
  BY <1>1
<1>5. \A i \in Jobs \ {j} : siteOf[i] = s =>
         /\ State(p, i) \notin Active
         /\ \A q \in Sessions \ {p} : wrote[q][i] \notin Active
  BY <1>2 DEF SlotTaken, ActiveApplyJob, SlotBlockers, Active
<1>6. jobs'[j] = "queued" => \A i \in Jobs \ {j} : siteOf[i] = s =>
         /\ jobs[i] \notin Active
         /\ \A q \in Sessions : wrote[q][i] \notin Active
  BY <1>1, <1>5 DEF State, NoWrites, Active
<1>7. RowsPlaced'
  BY <1>1, <1>3 DEF Table, RowsPlaced
<1>8. RowsOwned'
  <2> SUFFICES ASSUME NEW q \in Sessions, NEW r \in Sessions, NEW i \in Jobs,
                      wrote'[q][i] # "-", wrote'[r][i] # "-"
               PROVE  q = r
    BY DEF RowsOwned
  <2>1. CASE i = j
    BY <2>1, <1>4
  <2>2. CASE i # j
    BY <2>2, <1>3 DEF Table, RowsOwned
  <2> QED
    BY <2>1, <2>2
<1>9. OneActiveApply'
  BY <1>1, <1>3, <1>4, <1>6 DEF Table, OneActiveApply, Active
<1>10. \A q \in Sessions : State(q, j)' \in Active =>
          \A i \in Jobs \ {j} : siteOf[i] = s => State(q, i) \notin Active
  BY <1>1, <1>4, <1>5, <1>6 DEF State, Active
<1>11. OneActiveSeen'
  <2> SUFFICES ASSUME NEW q \in Sessions, NEW i \in Jobs, NEW k \in Jobs,
                      State(q, i)' \in Active, State(q, k)' \in Active,
                      siteOf'[i] = siteOf'[k], i # k
               PROVE  FALSE
    BY DEF OneActiveSeen
  <2>1. CASE i # j /\ k # j
    BY <2>1, <1>1, <1>3 DEF Table, OneActiveSeen
  <2>2. CASE i = j
    BY <2>2, <1>1, <1>3, <1>10
  <2>3. CASE k = j
    BY <2>3, <1>1, <1>3, <1>10
  <2> QED
    BY <2>1, <2>2, <2>3
<1>12. SlotOwned'
  BY <1>1, <1>3, <1>4, <1>5 DEF Table, SlotOwned, Active
<1> QED
  BY <1>7, <1>8, <1>9, <1>11, <1>12 DEF Table

LEMMA CancelsTable ==
    ASSUME Fields, Table, NEW p \in Sessions, NEW j \in Jobs, Cancels(p, j)
    PROVE  Table'
<1> USE DEF Fields, Cancels
<1>1. /\ \A i \in Jobs : jobs'[i] = IF i = j THEN "cancelled" ELSE jobs[i]
      /\ siteOf' = siteOf
      /\ \A q \in Sessions, i \in Jobs :
            wrote'[q][i] = IF q = p THEN "-" ELSE wrote[q][i]
  BY DEF NoWrites
<1>2. RowsPlaced'
  BY <1>1 DEF Table, RowsPlaced, Known
<1>3. RowsOwned'
  BY <1>1 DEF Table, RowsOwned
<1>4. OneActiveApply'
  BY <1>1 DEF Table, OneActiveApply, Active
<1>5. \A q \in Sessions, i \in Jobs : State(q, i)' \in Active =>
         State(q, i)' = IF q = p THEN jobs[i] ELSE State(q, i)
  BY <1>1 DEF State, Active
<1>6. OneActiveSeen'
  <2> SUFFICES ASSUME NEW q \in Sessions, NEW i \in Jobs, NEW k \in Jobs,
                      State(q, i)' \in Active, State(q, k)' \in Active,
                      siteOf[i] = siteOf[k]
               PROVE  i = k
    BY <1>1 DEF OneActiveSeen
  <2>1. CASE q = p
    BY <2>1, <1>5 DEF Table, OneActiveApply
  <2>2. CASE q # p
    BY <2>2, <1>5 DEF Table, OneActiveSeen
  <2> QED
    BY <2>1, <2>2
<1>7. SlotOwned'
  BY <1>1 DEF Table, SlotOwned, Active
<1> QED
  BY <1>2, <1>3, <1>4, <1>6, <1>7 DEF Table

\* What one session's step does to the table.
TableStep(p) ==
    \/ Quiet \/ Drops(p) \/ Publishes(p)
    \/ \E j \in Jobs : \/ Cancels(p, j) \/ \E s \in Sites : Inserts(p, j, s)
                       \/ \E state \in States : Overwrites(p, j, state)

SessionStep(p) == Step(p) \/ Arrival(p) \/ DbDrops(p) \/ Crash(p)

LEMMA TableKept ==
    ASSUME Fields, Table, NEW p \in Sessions, TableStep(p)
    PROVE  Table'
BY QuietTable, DropsTable, PublishesTable, OverwritesTable, InsertsTable,
   CancelsTable DEF TableStep

\* Whatever p does, a row that another session can read stays where it is.
LEMMA RowsStay ==
    ASSUME Fields, Table, NEW p \in Sessions, TableStep(p),
           NEW q \in Sessions \ {p}
    PROVE  /\ wrote'[q] = wrote[q]
           /\ \A j \in Jobs : Known(q, j) => Known(q, j)' /\ siteOf'[j] = siteOf[j]
           /\ \A j \in Jobs : jobs[j] # "none" => jobs'[j] # "none"
<1> USE DEF Fields
<1>1. wrote'[q] = wrote[q]
  BY DEF TableStep, Quiet, Drops, Publishes, Cancels, Inserts, Overwrites
<1>2. ASSUME NEW j \in Jobs, Known(q, j)
      PROVE  siteOf'[j] = siteOf[j]
  <2>1. CASE Drops(p)
    BY <2>1, <1>2 DEF Drops, Known, Table, RowsOwned
  <2>2. CASE \E i \in Jobs, s \in Sites : Inserts(p, i, s)
    BY <2>2, <1>2 DEF Inserts, Known, Fresh
  <2> QED
    BY <2>1, <2>2 DEF TableStep, Quiet, Publishes, Cancels, Overwrites
<1>3. ASSUME NEW j \in Jobs, jobs[j] # "none"
      PROVE  jobs'[j] # "none"
  <2>1. CASE Publishes(p)
    BY <2>1, <1>3 DEF Publishes, State, States, Active
  <2>2. CASE \E i \in Jobs, s \in Sites : Inserts(p, i, s)
    BY <2>2, <1>3 DEF Inserts
  <2>3. CASE \E i \in Jobs : Cancels(p, i)
    BY <2>3, <1>3 DEF Cancels
  <2> QED
    BY <2>1, <2>2, <2>3, <1>3 DEF TableStep, Quiet, Drops, Overwrites
<1> QED
  BY <1>1, <1>2, <1>3 DEF Known

LEMMA RollbackDrops ==
    ASSUME Fields, NEW p \in Sessions, Rollback(p)
    PROVE  Drops(p)
BY DEF Fields, Rollback, EndSession, Drops

\* Session p concluding the row it holds or may write.
LEMMA ConcludeOverwrites ==
    ASSUME Fields, Table, NEW p \in Sessions, InHand(p), cur[p] \in Jobs,
           Known(p, cur[p]), RowBlockers(p, cur[p]) = {} \/ wrote[p][cur[p]] # "-",
           NEW state \in {"finished", "missed"}, Conclude(p, state),
           jobs' = jobs, siteOf' = siteOf
    PROVE  Overwrites(p, cur[p], state)
<1>1. \A q \in Sessions \ {p} : wrote[q][cur[p]] = "-"
  BY DEF RowBlockers, Table, RowsOwned
<1> QED
  BY <1>1 DEF Conclude, Write, Overwrites, States, Active

LEMMA StepOnTable ==
    ASSUME Fields, Table, NEW p \in Sessions, InHand(p), SessionStep(p)
    PROVE  TableStep(p)
<1> USE DEF Fields, TableStep
<1>1. CASE \/ ApiAnswered(p) \/ StartPush(p) \/ SweepStart(p) \/ SweepTake(p)
           \/ DriftTake(p) \/ DriftCheck(p) \/ DriftRemedy(p) \/ Arrival(p)
  BY <1>1 DEF ApiAnswered, StartPush, SweepStart, Sweep, SweepTake, DriftTake,
       DriftCheck, DriftRemedy, Arrival, ApiCheck, DriftStart, CancelRead,
       Quarantine, ReleaseRead, Quiet, db, history, mine, txn
<1>2. CASE \/ MarkConflict(p) \/ LostPushEnds(p) \/ DriftConflict(p)
           \/ DeadlockVictim(p) \/ Crash(p)
  BY <1>2, RollbackDrops DEF MarkConflict, LostPushEnds, DriftConflict,
       DeadlockVictim, Crash
<1>3. CASE ApiConflict(p) \/ DbDrops(p) \/ ReleaseWrite(p)
  BY <1>3 DEF ApiConflict, DbDrops, ReleaseWrite, EndSession, Drops, db
<1>4. CASE Commit(p)
  BY <1>4 DEF Commit, EndSession, Publishes
<1>5. CASE ApiClaim(p)
  <2>1. at[p] \in Sites /\ wrote[p] = NoWrites
    BY <1>5 DEF ApiClaim, InHand
  <2>2. PICK j \in Fresh : /\ jobs' = [jobs EXCEPT ![j] = "queued"]
                           /\ siteOf' = [siteOf EXCEPT ![j] = at[p]]
                           /\ EndSession(p) \/ wrote' = wrote
    BY <1>5 DEF ApiClaim, txn
  <2>3. wrote' = wrote
    BY <2>1, <2>2 DEF EndSession
  <2>4. SlotBlockers(p, NoJob, at[p]) = {} /\ ~SlotTaken(p, NoJob, at[p])
    BY <1>5 DEF ApiClaim, Proceeds, WaitsFor
  <2> QED
    BY <2>1, <2>2, <2>3, <2>4 DEF Inserts, Fresh
<1>6. CASE MarkRunning(p)
  <2>1. /\ cur[p] \in Jobs /\ Known(p, cur[p]) /\ siteOf[cur[p]] = at[p]
        /\ jobs' = jobs /\ siteOf' = siteOf
    BY <1>6 DEF MarkRunning, InHand, db
  <2>2. /\ RowBlockers(p, cur[p]) = {} /\ SlotBlockers(p, cur[p], at[p]) = {}
        /\ ~SlotTaken(p, cur[p], at[p])
    BY <1>6 DEF MarkRunning, Proceeds, WaitsFor
  <2>3. CASE Write(p, "running")
    BY <2>1, <2>2, <2>3 DEF Write, RowBlockers, Overwrites, States, Active
  <2>4. CASE Conclude(p, "finished")
    BY <2>1, <2>2, <2>4, ConcludeOverwrites DEF States
  <2> QED
    BY <1>6, <2>3, <2>4 DEF MarkRunning
<1>7. CASE Plan(p) \/ EndPush(p) \/ EndPushQuarantining(p)
  <2>1. /\ cur[p] \in Jobs /\ Known(p, cur[p]) /\ wrote[p][cur[p]] # "-"
        /\ jobs' = jobs /\ siteOf' = siteOf
    BY <1>7 DEF Plan, EndPush, EndPushQuarantining, InHand, db
  <2>2. CASE Conclude(p, "finished")
    BY <2>1, <2>2, ConcludeOverwrites DEF States
  <2>3. CASE wrote' = wrote
    BY <2>1, <2>3 DEF Quiet
  <2> QED
    BY <1>7, <2>2, <2>3 DEF Plan, EndPush, EndPushQuarantining
<1>8. CASE SweepRefuse(p)
  <2>1. /\ cur[p] \in Jobs /\ Known(p, cur[p]) /\ RowBlockers(p, cur[p]) = {}
        /\ jobs' = jobs /\ siteOf' = siteOf
    BY <1>8 DEF SweepRefuse, InHand, Proceeds, WaitsFor, db
  <2> QED
    BY <1>8, <2>1, ConcludeOverwrites DEF SweepRefuse, States
<1>9. CASE DriftInsert(p)
  <2>1. at[p] \in Sites
    BY <1>9 DEF DriftInsert, InHand
  <2>2. SlotBlockers(p, NoJob, at[p]) = {} /\ ~SlotTaken(p, NoJob, at[p])
    BY <1>9 DEF DriftInsert, Proceeds, WaitsFor
  <2> QED
    BY <1>9, <2>1, <2>2 DEF DriftInsert, Inserts, Fresh
<1>10. CASE CancelWrite(p)
  BY <1>10 DEF CancelWrite, Proceeds, WaitsFor, RowBlockers, InHand, EndSession, Cancels
<1> QED
  BY <1>1, <1>2, <1>3, <1>4, <1>5, <1>6, <1>7, <1>8, <1>9, <1>10
     DEF SessionStep, Step

-----------------------------------------------------------------------------
(* The sessions.                                                           *)

\* A step of p leaves the other sessions where they are.
LEMMA OthersStay ==
    ASSUME Fields, NEW p \in Sessions, SessionStep(p), NEW q \in Sessions \ {p}
    PROVE  /\ pc'[q] = pc[q] /\ at'[q] = at[q] /\ cur'[q] = cur[q]
           /\ todo'[q] = todo[q] /\ seen'[q] = seen[q]
           /\ locks'[q] = locks[q] /\ benched'[q] = benched[q]
<1> USE DEF Fields, mine, txn, Goto, EndSession, Conclude, Rollback
<1>1. CASE \/ ApiCheck(p) \/ ApiClaim(p) \/ ApiConflict(p) \/ ApiAnswered(p)
  BY <1>1 DEF ApiCheck, ApiClaim, ApiConflict, ApiAnswered
<1>2. CASE MarkRunning(p) \/ MarkConflict(p) \/ Plan(p) \/ StartPush(p)
  BY <1>2 DEF MarkRunning, MarkConflict, Plan, StartPush
<1>3. CASE \/ EndPush(p) \/ EndPushQuarantining(p) \/ LostPushEnds(p)
           \/ DbDrops(p) \/ DeadlockVictim(p) \/ Crash(p) \/ Commit(p)
  BY <1>3 DEF EndPush, EndPushQuarantining, LostPushEnds, DbDrops,
       DeadlockVictim, Crash, Commit
<1>4. CASE SweepStart(p) \/ SweepTake(p) \/ SweepRefuse(p)
  BY <1>4 DEF SweepStart, Sweep, SweepTake, SweepRefuse
<1>5. CASE \/ DriftStart(p) \/ DriftTake(p) \/ DriftCheck(p) \/ DriftRemedy(p)
           \/ DriftInsert(p) \/ DriftConflict(p)
  BY <1>5 DEF DriftStart, DriftTake, DriftCheck, DriftRemedy, DriftInsert, DriftConflict
<1>6. CASE CancelRead(p) \/ CancelWrite(p) \/ Quarantine(p) \/ ReleaseRead(p) \/ ReleaseWrite(p)
  BY <1>6 DEF CancelRead, CancelWrite, Quarantine, ReleaseRead, ReleaseWrite
<1> QED
  BY <1>1, <1>2, <1>3, <1>4, <1>5, <1>6 DEF SessionStep, Step, Arrival

LEMMA OthersInHand ==
    ASSUME Fields, Table, NEW p \in Sessions, InHand(p), SessionStep(p),
           NEW q \in Sessions \ {p}, InHand(q)
    PROVE  InHand(q)'
<1>1. /\ pc'[q] = pc[q] /\ at'[q] = at[q] /\ cur'[q] = cur[q]
      /\ todo'[q] = todo[q] /\ seen'[q] = seen[q] /\ benched'[q] = benched[q]
  BY OthersStay
<1>2. TableStep(p)
  BY StepOnTable
<1>3. wrote'[q] = wrote[q]
  BY <1>2, RowsStay
<1>4. \A j \in Jobs : Known(q, j) => Known(q, j)' /\ siteOf'[j] = siteOf[j]
  BY <1>2, RowsStay
<1>5. \A j \in Jobs : jobs[j] # "none" => jobs'[j] # "none"
  BY <1>2, RowsStay
<1> QED
  BY <1>1, <1>3, <1>4, <1>5 DEF InHand, NoWrites

\* What p itself has in hand after each of its steps.
LEMMA OwnInHand ==
    ASSUME Fields, Table, NEW p \in Sessions, InHand(p), SessionStep(p)
    PROVE  InHand(p)'
<1> USE DEF Fields, Goto, mine, txn, db, history
<1>1. CASE wrote'[p] = NoWrites /\ todo'[p] = {} /\ benched'[p] = {} /\ pc'[p] = "idle"
  BY <1>1 DEF InHand
<1>2. CASE \/ MarkConflict(p) \/ LostPushEnds(p) \/ DriftConflict(p) \/ Commit(p)
           \/ DeadlockVictim(p) \/ Crash(p) \/ CancelWrite(p) \/ ReleaseWrite(p)
  BY <1>1, <1>2 DEF MarkConflict, LostPushEnds, DriftConflict, Commit,
       DeadlockVictim, Crash, CancelWrite, ReleaseWrite, Rollback, EndSession
<1>3. CASE ApiCheck(p)
  BY <1>3 DEF ApiCheck, InHand
<1>4. CASE ApiClaim(p)
  <2>1. CASE EndSession(p) /\ Goto(p, "idle")
    BY <1>1, <2>1 DEF EndSession
  <2>2. PICK j \in Fresh :
           /\ jobs' = [jobs EXCEPT ![j] = "queued"]
           /\ siteOf' = [siteOf EXCEPT ![j] = at[p]]
           /\ \/ EndSession(p) /\ Goto(p, "idle")
              \/ /\ Goto(p, "mark") /\ cur' = [cur EXCEPT ![p] = j]
                 /\ UNCHANGED <<at, todo, late, seen, txn>>
    BY <1>4 DEF ApiClaim
  <2>3. CASE Goto(p, "mark") /\ cur' = [cur EXCEPT ![p] = j]
             /\ UNCHANGED <<at, todo, late, seen, txn>>
    BY <1>4, <2>2, <2>3 DEF ApiClaim, InHand, Known, Fresh
  <2> QED
    BY <2>1, <2>2, <2>3
<1>5. CASE ApiConflict(p) \/ ApiAnswered(p)
  BY <1>5 DEF ApiConflict, ApiAnswered, EndSession, InHand
<1>6. CASE MarkRunning(p)
  <2>1. CASE Write(p, "running") /\ Goto(p, "plan") /\ UNCHANGED <<cur, at>>
    BY <1>6, <2>1 DEF MarkRunning, Write, InHand, Known
  <2>2. CASE Conclude(p, "finished")
    BY <1>6, <2>2 DEF MarkRunning, Conclude, Write, InHand
  <2> QED
    BY <1>6, <2>1, <2>2 DEF MarkRunning
<1>7. CASE Plan(p)
  <2>1. CASE Conclude(p, "finished")
    BY <1>7, <2>1 DEF Plan, Conclude, Write, InHand
  <2>2. CASE Goto(p, "bump") /\ UNCHANGED <<wrote, locks, cur, at>>
    BY <1>7, <2>2 DEF Plan, InHand, Known
  <2> QED
    BY <1>7, <2>1, <2>2 DEF Plan
<1>8. CASE StartPush(p)
  BY <1>8 DEF StartPush, InHand, Known
<1>9. CASE EndPush(p)
  BY <1>9 DEF EndPush, Conclude, Write, InHand
<1>10. CASE EndPushQuarantining(p)
  BY <1>10 DEF EndPushQuarantining, Conclude, Write, InHand
<1>11. CASE DbDrops(p)
  BY <1>11 DEF DbDrops, InHand
<1>12. CASE SweepStart(p)
  BY <1>12, RoleAssumption DEF SweepStart, Sweep, InHand
<1>13. CASE SweepTake(p)
  <2>1. PICK j \in todo[p] :
           /\ todo' = [todo EXCEPT ![p] = @ \ {j}]
           /\ cur' = [cur EXCEPT ![p] = j] /\ at' = [at EXCEPT ![p] = siteOf[j]]
           /\ \/ Goto(p, "refuse") /\ UNCHANGED seen
              \/ /\ seen' = [seen EXCEPT ![p][siteOf[j]] = IF @ = "unread" THEN quar[siteOf[j]] ELSE @]
                 /\ Goto(p, "refuse") \/ Goto(p, "mark")
    BY <1>13 DEF SweepTake
  <2>2. j \in Jobs /\ jobs[j] # "none" /\ siteOf[j] \in Sites
    BY <1>13, <2>1 DEF SweepTake, InHand, Table, RowsPlaced, Known
  <2> QED
    BY <1>13, <2>1, <2>2, RoleAssumption DEF SweepTake, InHand, Known
<1>14. CASE SweepRefuse(p)
  BY <1>14 DEF SweepRefuse, Conclude, Write, InHand
<1>15. CASE DriftStart(p) \/ DriftTake(p)
  BY <1>15, RoleAssumption DEF DriftStart, DriftTake, InHand
<1>16. CASE DriftCheck(p) \/ DriftRemedy(p)
  BY <1>16 DEF DriftCheck, DriftRemedy, InHand
<1>17. CASE DriftInsert(p)
  <2>1. PICK j \in Fresh :
           /\ siteOf' = [siteOf EXCEPT ![j] = at[p]]
           /\ cur' = [cur EXCEPT ![p] = j]
           /\ wrote' = [wrote EXCEPT ![p][j] = "queued"]
    BY <1>17 DEF DriftInsert
  <2> QED
    BY <1>17, <2>1 DEF DriftInsert, InHand, Known, Fresh
<1>18. CASE CancelRead(p) \/ Quarantine(p) \/ ReleaseRead(p)
  BY <1>18 DEF CancelRead, Quarantine, ReleaseRead, InHand, Known
<1> QED
  BY <1>2, <1>3, <1>4, <1>5, <1>6, <1>7, <1>8, <1>9, <1>10, <1>11, <1>12, <1>13,
     <1>14, <1>15, <1>16, <1>17, <1>18 DEF SessionStep, Step, Arrival

\* A session takes a site row's lock only when nobody has it, and pushes only
\* with it.
LEMMA LocksKept ==
    ASSUME Fields, NEW p \in Sessions, InHand(p), LocksOwned, SessionStep(p)
    PROVE  LocksOwned'
<1> USE DEF Fields
<1>1. \A q \in Sessions \ {p} : pc'[q] = pc[q] /\ at'[q] = at[q] /\ locks'[q] = locks[q]
  BY OthersStay
<1>2. \/ locks'[p] \subseteq locks[p]
      \/ SiteBlockers(p, at[p]) = {} /\ locks'[p] = locks[p] \cup {at[p]}
  <2>1. CASE Plan(p) \/ StartPush(p) \/ DriftCheck(p)
    BY <2>1 DEF Plan, StartPush, DriftCheck, Proceeds, WaitsFor
  <2>2. CASE \/ ApiClaim(p) \/ ApiConflict(p) \/ ApiAnswered(p) \/ MarkRunning(p)
             \/ EndPush(p) \/ EndPushQuarantining(p) \/ DbDrops(p)
    BY <2>2 DEF ApiClaim, ApiConflict, ApiAnswered, MarkRunning, EndPush,
         EndPushQuarantining, DbDrops, EndSession, txn
  <2>3. CASE \/ SweepStart(p) \/ SweepTake(p) \/ SweepRefuse(p) \/ DriftTake(p)
             \/ DriftRemedy(p) \/ DriftInsert(p) \/ Arrival(p)
    BY <2>3 DEF SweepStart, Sweep, SweepTake, SweepRefuse, DriftTake, DriftRemedy,
         DriftInsert, Arrival, ApiCheck, DriftStart, CancelRead, Quarantine,
         ReleaseRead, txn
  <2>4. CASE \/ MarkConflict(p) \/ LostPushEnds(p) \/ DriftConflict(p) \/ Commit(p)
             \/ DeadlockVictim(p) \/ Crash(p) \/ CancelWrite(p) \/ ReleaseWrite(p)
    BY <2>4 DEF MarkConflict, LostPushEnds, DriftConflict, Commit, DeadlockVictim,
         Crash, CancelWrite, ReleaseWrite, Rollback, EndSession
  <2> QED
    BY <2>1, <2>2, <2>3, <2>4 DEF SessionStep, Step
<1>3. pc'[p] = "push" => at'[p] \in locks'[p]
  <2>1. CASE StartPush(p)
    BY <2>1 DEF StartPush, mine
  <2>2. CASE Quarantine(p)
    BY <2>2 DEF Quarantine, LocksOwned, mine, txn
  <2> QED
    BY <2>1, <2>2 DEF SessionStep, Step, Arrival, Goto, Conclude, Rollback, ApiCheck,
       ApiClaim, ApiConflict, ApiAnswered, MarkRunning, MarkConflict, Plan, EndPush,
       EndPushQuarantining, LostPushEnds, DbDrops, SweepStart, Sweep, SweepTake,
       SweepRefuse, DriftStart, DriftTake, DriftCheck, DriftRemedy, DriftInsert,
       DriftConflict, CancelRead, CancelWrite, ReleaseRead, ReleaseWrite,
       DeadlockVictim, Commit, Crash
<1>4. \A q \in Sessions \ {p} : locks'[p] \cap locks[q] = {}
  BY <1>2 DEF LocksOwned, SiteBlockers
<1> QED
  BY <1>1, <1>3, <1>4 DEF LocksOwned

LEMMA Positions ==
    \A x \in {"idle", "claim", "mark", "plan", "bump", "push", "lost", "next",
              "refuse", "check", "remedy", "insert", "cancel", "release", "conflict"} :
        x \in PCs
BY DEF PCs

LEMMA Names ==
    /\ \A x \in {"queued", "running", "finished", "missed", "cancelled"} : x \in States
    /\ \A d \in Dues \cup {"never", "before", "open", "closed"} : d \in Phases
    /\ NoWrites \in [Jobs -> States \cup {"-"}]
    /\ Unread \in [Sites -> Benched \cup {"unread"}]
    /\ "clear" \in Benched /\ "quarantined" \in Benched
BY BoundAssumption DEF States, Active, Phases, NoWrites, Unread, Benched

LEMMA EndSessionTypes ==
    ASSUME Fields, NEW p \in Sessions, EndSession(p)
    PROVE  /\ at' \in [Sessions -> Sites \cup {NoSite}]
           /\ cur' \in [Sessions -> Jobs \cup {NoJob}]
           /\ todo' \in [Sessions -> SUBSET (Jobs \cup Sites)]
           /\ late' \in [Sessions -> SUBSET Jobs]
           /\ seen' \in [Sessions -> [Sites -> Benched \cup {"unread"}]]
           /\ wrote' \in [Sessions -> [Jobs -> States \cup {"-"}]]
           /\ locks' \in [Sessions -> SUBSET Sites]
           /\ benched' \in [Sessions -> SUBSET Sites]
BY Names DEF Fields, EndSession

LEMMA ConcludeTypes ==
    ASSUME Fields, NEW p \in Sessions, NEW state \in {"finished", "missed"},
           Conclude(p, state)
    PROVE  /\ wrote' \in [Sessions -> [Jobs -> States \cup {"-"}]]
           /\ pc' \in [Sessions -> PCs]
           /\ at' \in [Sessions -> Sites \cup {NoSite}]
           /\ cur' \in [Sessions -> Jobs \cup {NoJob}]
BY Names, Positions DEF Fields, Conclude, Write, Goto

LEMMA TypeKept ==
    ASSUME Fields, Table, NEW p \in Sessions, InHand(p), SessionStep(p)
    PROVE  Fields'
<1> USE Positions, Names, BoundAssumption DEF Fields, Goto, mine, txn, db, history
<1>1. CASE Rollback(p)
  BY <1>1, EndSessionTypes DEF Rollback
<1>2. CASE ApiCheck(p)
  BY <1>2 DEF ApiCheck
<1>3. CASE ApiClaim(p)
  <2>1. PICK j \in Fresh, d \in Dues :
           /\ jobs' = [jobs EXCEPT ![j] = "queued"]
           /\ siteOf' = [siteOf EXCEPT ![j] = at[p]] /\ due' = [due EXCEPT ![j] = d]
           /\ \/ EndSession(p) /\ Goto(p, "idle")
              \/ /\ Goto(p, "mark") /\ cur' = [cur EXCEPT ![p] = j]
                 /\ UNCHANGED <<at, todo, late, seen, txn>>
    BY <1>3 DEF ApiClaim
  <2>2. j \in Jobs
    BY DEF Fresh
  <2>3. CASE EndSession(p) /\ Goto(p, "idle")
    BY <1>3, <2>1, <2>3, EndSessionTypes DEF ApiClaim
  <2>4. CASE Goto(p, "mark") /\ cur' = [cur EXCEPT ![p] = j]
             /\ UNCHANGED <<at, todo, late, seen, txn>>
    BY <1>3, <2>1, <2>2, <2>4 DEF ApiClaim
  <2> QED
    BY <2>1, <2>3, <2>4
<1>4. CASE ApiConflict(p)
  BY <1>4, EndSessionTypes DEF ApiConflict
<1>5. CASE ApiAnswered(p)
  BY <1>5 DEF ApiAnswered
<1>6. CASE MarkRunning(p)
  <2>1. CASE Write(p, "running") /\ Goto(p, "plan") /\ UNCHANGED <<cur, at>>
    BY <1>6, <2>1 DEF MarkRunning, Write
  <2>2. CASE Conclude(p, "finished")
    BY <1>6, <2>2, ConcludeTypes DEF MarkRunning
  <2> QED
    BY <1>6, <2>1, <2>2 DEF MarkRunning
<1>7. CASE Plan(p)
  <2>1. locks' \in [Sessions -> SUBSET Sites]
    <3>1. locks' = locks \/ locks' = [locks EXCEPT ![p] = @ \cup {at[p]}]
      BY <1>7 DEF Plan
    <3>2. at[p] \in Sites
      BY <1>7 DEF Plan, InHand
    <3>3. locks[p] \cup {at[p]} \in SUBSET Sites
      BY <3>2
    <3> QED
      BY <3>1, <3>3
  <2>2. CASE Conclude(p, "finished")
    BY <1>7, <2>1, <2>2, ConcludeTypes DEF Plan
  <2>3. CASE Goto(p, "bump") /\ UNCHANGED <<wrote, locks, cur, at>>
    BY <1>7, <2>3 DEF Plan
  <2> QED
    BY <1>7, <2>2, <2>3 DEF Plan
<1>8. CASE StartPush(p)
  BY <1>8 DEF StartPush, InHand
<1>9. CASE EndPush(p)
  BY <1>9, ConcludeTypes DEF EndPush
<1>10. CASE EndPushQuarantining(p)
  BY <1>10, ConcludeTypes DEF EndPushQuarantining, InHand
<1>11. CASE DbDrops(p)
  BY <1>11 DEF DbDrops
<1>12. CASE SweepStart(p)
  BY <1>12 DEF SweepStart, Sweep
<1>13. CASE SweepTake(p)
  <2>1. PICK j \in todo[p] :
           /\ todo' = [todo EXCEPT ![p] = @ \ {j}]
           /\ cur' = [cur EXCEPT ![p] = j] /\ at' = [at EXCEPT ![p] = siteOf[j]]
           /\ \/ seen' = seen
              \/ seen' = [seen EXCEPT ![p][siteOf[j]] = IF @ = "unread" THEN quar[siteOf[j]] ELSE @]
           /\ Goto(p, "refuse") \/ Goto(p, "mark")
    BY <1>13 DEF SweepTake
  <2>2. j \in Jobs /\ siteOf[j] \in Sites
    BY <1>13, <2>1 DEF SweepTake, InHand, Table, RowsPlaced, Known
  <2>3. (IF seen[p][siteOf[j]] = "unread" THEN quar[siteOf[j]] ELSE seen[p][siteOf[j]])
           \in Benched \cup {"unread"}
    BY <2>2
  <2>4. seen' \in [Sessions -> [Sites -> Benched \cup {"unread"}]]
    <3> DEFINE v == IF seen[p][siteOf[j]] = "unread" THEN quar[siteOf[j]] ELSE seen[p][siteOf[j]]
    <3>1. seen' = seen \/ seen' = [seen EXCEPT ![p][siteOf[j]] = v]
      BY <2>1
    <3>2. v \in Benched \cup {"unread"}
      BY <2>3
    <3> HIDE DEF v
    <3>3. [seen[p] EXCEPT ![siteOf[j]] = v] \in [Sites -> Benched \cup {"unread"}]
      BY <3>2
    <3>4. seen' = seen \/ seen' = [seen EXCEPT ![p] = [seen[p] EXCEPT ![siteOf[j]] = v]]
      BY <3>1
    <3> QED
      BY <3>3, <3>4
  <2>5. pc' \in [Sessions -> PCs]
    BY <2>1
  <2>6. /\ todo' \in [Sessions -> SUBSET (Jobs \cup Sites)]
        /\ cur' \in [Sessions -> Jobs \cup {NoJob}]
        /\ at' \in [Sessions -> Sites \cup {NoSite}]
    BY <2>1, <2>2
  <2> QED
    BY <1>13, <2>4, <2>5, <2>6 DEF SweepTake
<1>14. CASE SweepRefuse(p)
  BY <1>14, ConcludeTypes DEF SweepRefuse
<1>15. CASE DriftStart(p)
  BY <1>15 DEF DriftStart
<1>16. CASE DriftTake(p)
  BY <1>16 DEF DriftTake, InHand
<1>17. CASE DriftCheck(p)
  <2>1. locks' \in [Sessions -> SUBSET Sites]
    BY <1>17 DEF DriftCheck, InHand
  <2>2. CASE Goto(p, "next") /\ at' = [at EXCEPT ![p] = NoSite]
    BY <1>17, <2>1, <2>2 DEF DriftCheck
  <2>3. CASE Goto(p, "remedy") /\ UNCHANGED at
    BY <1>17, <2>1, <2>3 DEF DriftCheck
  <2> QED
    BY <1>17, <2>2, <2>3 DEF DriftCheck
<1>18. CASE DriftRemedy(p)
  <2>1. CASE Goto(p, "next") /\ at' = [at EXCEPT ![p] = NoSite]
    BY <1>18, <2>1 DEF DriftRemedy
  <2>2. CASE Goto(p, "insert") /\ UNCHANGED at
    BY <1>18, <2>2 DEF DriftRemedy
  <2> QED
    BY <1>18, <2>1, <2>2 DEF DriftRemedy
<1>19. CASE DriftInsert(p)
  BY <1>19 DEF DriftInsert, Fresh
<1>20. CASE CancelRead(p)
  BY <1>20 DEF CancelRead
<1>21. CASE CancelWrite(p)
  BY <1>21, EndSessionTypes DEF CancelWrite
<1>22. CASE Quarantine(p)
  BY <1>22 DEF Quarantine
<1>23. CASE ReleaseRead(p)
  BY <1>23 DEF ReleaseRead
<1>24. CASE ReleaseWrite(p)
  <2>1. quar' \in [Sites -> Benched]
    BY <1>24 DEF ReleaseWrite, Benched
  <2> QED
    BY <1>24, <2>1, EndSessionTypes DEF ReleaseWrite
<1>25. CASE Commit(p)
  BY <1>25, EndSessionTypes DEF Commit, State, InHand
<1>26. CASE MarkConflict(p) \/ LostPushEnds(p) \/ DriftConflict(p) \/ DeadlockVictim(p) \/ Crash(p)
  BY <1>1, <1>26 DEF MarkConflict, LostPushEnds, DriftConflict, DeadlockVictim, Crash
<1> QED
  BY <1>2, <1>3, <1>4, <1>5, <1>6, <1>7, <1>8, <1>9, <1>10, <1>11, <1>12, <1>13, <1>14, <1>15, <1>16, <1>17, <1>18, <1>19, <1>20, <1>21, <1>22, <1>23, <1>24, <1>25, <1>26
     DEF SessionStep, Step, Arrival

-----------------------------------------------------------------------------
(* The theorems.                                                           *)

LEMMA InitIInv == Init => IInv
<1> SUFFICES ASSUME Init PROVE IInv
  OBVIOUS
<1>1. Fields
  BY BoundAssumption DEF Init, Fields, PCs, States, Phases, NoWrites, Unread, Benched
<1>2. Table
  BY DEF Init, Table, RowsPlaced, RowsOwned, OneActiveApply, OneActiveSeen,
     SlotOwned, Known, State, Active, NoWrites
<1>3. LocksOwned /\ \A p \in Sessions : InHand(p)
  BY DEF Init, LocksOwned, InHand, NoWrites
<1> QED
  BY <1>1, <1>2, <1>3 DEF IInv, Init

LEMMA IInvKept == IInv /\ [Next]_vars => IInv'
<1> SUFFICES ASSUME IInv, [Next]_vars PROVE IInv'
  OBVIOUS
<1> USE DEF IInv
<1>0. disputed' \subseteq Jobs
  BY DEF Next, RecordDisputes, vars
<1>1. CASE \E p \in Sessions : SessionStep(p)
  <2>1. PICK p \in Sessions : SessionStep(p)
    BY <1>1
  <2>2. Fields'
    BY <2>1, TypeKept
  <2>3. Table'
    BY <2>1, StepOnTable, TableKept
  <2>4. LocksOwned'
    BY <2>1, LocksKept
  <2>5. \A q \in Sessions : InHand(q)'
    BY <2>1, OwnInHand, OthersInHand
  <2> QED
    BY <1>0, <2>2, <2>3, <2>4, <2>5
<1>2. CASE WindowMoves
  <2>1. /\ UNCHANGED <<jobs, siteOf, quar, history, pc, mine, txn>>
        /\ due' \in [Jobs -> Phases]
    BY <1>2 DEF WindowMoves, Fields, Phases
  <2> QED
    BY <1>0, <2>1 DEF Fields, Table, RowsPlaced, RowsOwned, OneActiveApply, OneActiveSeen,
       SlotOwned, Known, State, LocksOwned, InHand, history, mine, txn
<1>3. CASE UNCHANGED vars
  BY <1>3 DEF vars, db, Fields, Table, RowsPlaced, RowsOwned, OneActiveApply,
     OneActiveSeen, SlotOwned, Known, State, LocksOwned, InHand, history, mine, txn
<1> QED
  BY <1>1, <1>2, <1>3 DEF Next, SessionStep, Exhausted

LEMMA Inductive == Spec => []IInv
BY InitIInv, IInvKept, PTL DEF Spec

\* Every variable keeps its type: what a session has in hand is a job and a
\* site, never a leftover.
THEOREM TypeCorrect == Spec => []TypeOK
<1>1. IInv => TypeOK
  BY DEF IInv, Table, TypeOK
<1> QED
  BY <1>1, Inductive, PTL

\* The site row's lock, taken before a push and kept to its end, makes pushes
\* to one device exclude each other, however many sessions of whatever kind.
THEOREM PushesExclusive == Spec => []OnePushPerDevice
<1>1. IInv => OnePushPerDevice
  BY DEF IInv, LocksOwned, OnePushPerDevice
<1> QED
  BY <1>1, Inductive, PTL

\* With the index and the row locks, no interleaving of claims, sweeps, drift
\* remedies, cancels, crashes and rollbacks leaves two active applies on a site.
THEOREM SlotExclusive == Spec => []OneActiveApply
<1>1. IInv => OneActiveApply
  BY DEF IInv, Table
<1> QED
  BY <1>1, Inductive, PTL

-----------------------------------------------------------------------------
(* A job is pushed again only where two sessions had it at once, or one    *)
(* lost what it had recorded of it.                                        *)

\* Session p has the job still to push: it is listed, or in hand and not there.
Ahead(p, j) ==
    \/ p \in Sweepers /\ j \in todo[p]
    \/ cur[p] = j /\ pc[p] \in {"mark", "plan", "bump", "refuse"}

\* The table or a session yet to commit has more of the job than its claim.
Recorded(j) == jobs[j] \notin {"none", "queued"} \/ \E p \in Sessions : wrote[p][j] # "-"

\* A pushed job is on record, and nobody is about to push it.
PushKnown(j) ==
    /\ pushes[j] < 2
    /\ pushes[j] # 0 => Recorded(j)
    /\ \A p \in Sessions : Ahead(p, j) => pushes[j] = 0

\* Where a session can be with a row it has filed, and with a list.
Orderly(p) ==
    /\ \A j \in Jobs : wrote[p][j] = "queued" => pc[p] = "mark" /\ cur[p] = j
    /\ p \in Sweepers => cur[p] \notin todo[p]
    /\ pc[p] \in {"idle", "claim", "conflict"} => todo[p] = {} /\ cur[p] = NoJob
    /\ pc[p] \in {"check", "remedy", "insert"} => p \in Drifters

PushInv ==
    /\ \A p \in Sessions : Orderly(p)
    /\ \A j \in Jobs \ disputed : PushKnown(j)

\* What p may have ahead of it after a step: what it had, a row nobody has, or
\* a queued row it has just selected.
Grows(p) ==
    \A j \in Jobs : Ahead(p, j)' =>
        \/ Ahead(p, j)
        \/ j \in Fresh
        \/ jobs[j] = "queued" /\ wrote[p] = NoWrites /\ wrote' = wrote /\ Holds(p, j)'

\* A step keeps a session orderly, counts no push but its own, and puts nothing
\* ahead of it that has been pushed.
LEMMA OwnSteps ==
    ASSUME Fields, NEW p \in Sessions, InHand(p), Orderly(p), SessionStep(p)
    PROVE  /\ Orderly(p)' /\ Grows(p)
           /\ pushes' = pushes \/ StartPush(p)
<1> USE DEF Fields, Goto, mine, txn, db, history, Orderly, Grows, Ahead
<1>1. CASE /\ EndSession(p) /\ pc'[p] \in {"idle", "conflict"} /\ pushes' = pushes
           /\ NoJob \notin Jobs
  <2>1. /\ wrote'[p] = NoWrites /\ todo'[p] = {} /\ cur'[p] = NoJob
    BY <1>1 DEF EndSession
  <2> QED
    BY <1>1, <2>1 DEF NoWrites
<1>2. CASE \/ MarkConflict(p) \/ LostPushEnds(p) \/ DriftConflict(p) \/ Commit(p)
           \/ DeadlockVictim(p) \/ Crash(p) \/ CancelWrite(p) \/ ReleaseWrite(p) \/ ApiConflict(p)
  BY <1>1, <1>2, NameAssumption DEF MarkConflict, LostPushEnds, DriftConflict, Commit,
       DeadlockVictim, Crash, CancelWrite, ReleaseWrite, ApiConflict, Rollback
<1>3. CASE ApiCheck(p) \/ ApiAnswered(p) \/ Quarantine(p)
  BY <1>3 DEF ApiCheck, ApiAnswered, Quarantine
<1>4. CASE ApiClaim(p)
  <2>1. pushes' = pushes /\ todo[p] = {} /\ wrote[p] = NoWrites
    BY <1>4 DEF ApiClaim, InHand
  <2>2. CASE EndSession(p) /\ Goto(p, "idle")
    BY <1>1, <2>1, <2>2, NameAssumption
  <2>3. CASE \E j \in Fresh : Goto(p, "mark") /\ cur' = [cur EXCEPT ![p] = j]
                              /\ UNCHANGED <<at, todo, late, seen, txn>>
    BY <2>1, <2>3 DEF NoWrites
  <2> QED
    BY <1>4, <2>2, <2>3 DEF ApiClaim
<1>5. CASE \E state \in {"finished", "missed"} :
              Conclude(p, state) /\ todo' = todo /\ pushes' = pushes
  <2>1. pc'[p] = "next" /\ cur'[p] = NoJob /\ todo'[p] = todo[p]
    BY <1>5 DEF Conclude
  <2>2. \A j \in Jobs : wrote'[p][j] = "queued" => wrote[p][j] = "queued" /\ j # cur[p]
    BY <1>5 DEF Conclude, Write
  <2>3. p \in Sweepers => NoJob \notin todo[p]
    BY NameAssumption DEF InHand
  <2> QED
    BY <1>5, <2>1, <2>2, <2>3, NameAssumption
<1>6. CASE EndPush(p) \/ EndPushQuarantining(p) \/ SweepRefuse(p)
  BY <1>5, <1>6 DEF EndPush, EndPushQuarantining, SweepRefuse
<1>7. CASE MarkRunning(p)
  <2>1. CASE Write(p, "running") /\ Goto(p, "plan") /\ UNCHANGED <<cur, at>>
    <3>1. \A j \in Jobs : wrote'[p][j] = "queued" => wrote[p][j] = "queued" /\ j # cur[p]
      BY <2>1 DEF Write
    <3> QED
      BY <1>7, <2>1, <3>1 DEF MarkRunning
  <2>2. CASE Conclude(p, "finished")
    BY <1>5, <1>7, <2>2 DEF MarkRunning
  <2> QED
    BY <1>7, <2>1, <2>2 DEF MarkRunning
<1>8. CASE Plan(p)
  <2>1. CASE Conclude(p, "finished")
    BY <1>5, <1>8, <2>1 DEF Plan
  <2>2. CASE Goto(p, "bump") /\ UNCHANGED <<wrote, locks, cur, at>>
    BY <1>8, <2>2 DEF Plan
  <2> QED
    BY <1>8, <2>1, <2>2 DEF Plan
<1>9. CASE StartPush(p)
  BY <1>9 DEF StartPush
<1>10. CASE DbDrops(p)
  BY <1>10 DEF DbDrops, NoWrites
<1>11. CASE SweepStart(p)
  <2>1. PICK dueNow \in SUBSET {j \in Jobs : jobs[j] = "queued"} : Sweep(p, dueNow)
    BY <1>11 DEF SweepStart
  <2>2. /\ wrote[p] = NoWrites /\ wrote' = wrote /\ todo'[p] = dueNow /\ p \in Sweepers
        /\ pc'[p] = "next" /\ pushes' = pushes
    BY <2>1 DEF Sweep, InHand
  <2>3. cur'[p] = cur[p]
    BY <2>1 DEF Sweep
  <2>4. cur[p] = NoJob /\ NoJob \notin Jobs
    BY <2>1, NameAssumption DEF Sweep
  <2> QED
    BY <2>1, <2>2, <2>3, <2>4 DEF Holds, NoWrites, Sweep
<1>12. CASE SweepTake(p)
  <2>1. PICK j \in todo[p] : /\ todo' = [todo EXCEPT ![p] = @ \ {j}]
                             /\ cur' = [cur EXCEPT ![p] = j]
                             /\ Goto(p, "refuse") \/ Goto(p, "mark")
    BY <1>12 DEF SweepTake
  <2>2. p \in Sweepers /\ pc[p] = "next" /\ wrote' = wrote /\ pushes' = pushes
    BY <1>12 DEF SweepTake
  <2> QED
    BY <2>1, <2>2
<1>13. CASE DriftStart(p) \/ DriftTake(p)
  BY <1>13, RoleAssumption DEF DriftStart, DriftTake
<1>14. CASE DriftCheck(p) \/ DriftRemedy(p)
  BY <1>14 DEF DriftCheck, DriftRemedy
<1>15. CASE DriftInsert(p)
  <2>1. PICK j \in Fresh : /\ cur' = [cur EXCEPT ![p] = j]
                           /\ wrote' = [wrote EXCEPT ![p][j] = "queued"]
    BY <1>15 DEF DriftInsert
  <2>2. \A i \in Jobs : wrote[p][i] # "queued"
    BY <1>15 DEF DriftInsert
  <2>3. p \in Drifters /\ p \notin Sweepers
    BY <1>15, RoleAssumption DEF DriftInsert
  <2> QED
    BY <1>15, <2>1, <2>2, <2>3 DEF DriftInsert
<1>16. CASE CancelRead(p) \/ ReleaseRead(p)
  BY <1>16 DEF CancelRead, ReleaseRead, InHand, NoWrites
<1> QED
  BY <1>2, <1>3, <1>4, <1>6, <1>7, <1>8, <1>9, <1>10, <1>11, <1>12, <1>13, <1>14, <1>15, <1>16
     DEF SessionStep, Step, Arrival

\* What is on record of a job that is not ahead of anyone stays there, unless
\* the session that has it loses it.
LEMMA RecordStays ==
    ASSUME Fields, Table, NEW p \in Sessions, Orderly(p), TableStep(p),
           NEW j \in Jobs, pushes[j] # 0, Recorded(j), ~Ahead(p, j)
    PROVE  Recorded(j)' \/ Loses(p, j)
<1> USE DEF Fields, Recorded
<1>1. \A q \in Sessions \ {p} : wrote'[q] = wrote[q]
  BY RowsStay
<1>2. wrote[p][j] # "queued"
  BY DEF Orderly, Ahead
<1>5. wrote[p][j] \in States \cup {"-"} /\ "none" \notin States /\ "-" \notin States
  BY DEF States, Active
<1>3. CASE \E q \in Sessions \ {p} : wrote[q][j] # "-"
  BY <1>1, <1>3
<1>4. CASE \A q \in Sessions \ {p} : wrote[q][j] = "-"
  <2>0. jobs[j] \notin {"none", "queued"} \/ wrote[p][j] \notin {"-", "none", "queued"}
    BY <1>2, <1>4, <1>5
  <2>1. CASE Quiet
    BY <2>1 DEF Quiet
  <2>2. CASE Drops(p)
    <3>1. jobs'[j] = jobs[j] /\ wrote'[p][j] = "-"
      BY <2>2 DEF Drops, NoWrites
    <3> QED
      BY <2>0, <3>1 DEF Loses
  <2>3. CASE Publishes(p)
    <3>1. jobs'[j] = IF wrote[p][j] = "-" THEN jobs[j] ELSE wrote[p][j]
      BY <2>3 DEF Publishes, State
    <3> QED
      BY <1>2, <1>5, <2>0, <3>1
  <2>4. CASE \E i \in Jobs : Cancels(p, i)
    <3>1. wrote'[p][j] = "-" /\ jobs'[j] \in {jobs[j], "cancelled"}
      BY <2>4 DEF Cancels, NoWrites
    <3> QED
      BY <2>0, <3>1 DEF Loses
  <2>5. CASE \E i \in Jobs, s \in Sites : Inserts(p, i, s)
    <3>1. PICK i \in Jobs, s \in Sites : Inserts(p, i, s)
      BY <2>5
    <3>2. i # j
      BY <3>1 DEF Inserts, Fresh
    <3> QED
      BY <1>4, <3>1, <3>2 DEF Inserts
  <2>6. CASE \E i \in Jobs, state \in States : Overwrites(p, i, state)
    BY <1>4, <2>6 DEF Overwrites, States, Active
  <2> QED
    BY <2>1, <2>2, <2>3, <2>4, <2>5, <2>6 DEF TableStep
<1> QED
  BY <1>3, <1>4

LEMMA PushKnownKept ==
    ASSUME IInv, PushInv, NEW p \in Sessions, SessionStep(p), RecordDisputes,
           NEW j \in Jobs \ disputed'
    PROVE  PushKnown(j)'
<1> USE DEF IInv
<1>1. /\ j \notin disputed /\ ~Loses(p, j)
      /\ \A q, r \in Sessions : Holds(q, j)' /\ Holds(r, j)' => q = r
  BY DEF RecordDisputes
<1>2. PushKnown(j) /\ Orderly(p)
  BY <1>1 DEF PushInv
<1>3. TableStep(p)
  BY StepOnTable
<1>4. \A q \in Sessions \ {p} : wrote'[q] = wrote[q] /\ (Ahead(q, j)' <=> Ahead(q, j))
  BY <1>3, RowsStay, OthersStay DEF Ahead
<1>5. Grows(p) /\ Orderly(p)' /\ (pushes' = pushes \/ StartPush(p))
  BY <1>2, OwnSteps
<1>6. pushes[j] # 0 => Recorded(j)'
  BY <1>1, <1>2, <1>3, RecordStays DEF PushKnown
<1>7. pushes[j] # 0 => ~Ahead(p, j)'
  <2> SUFFICES ASSUME pushes[j] # 0, Ahead(p, j)' PROVE FALSE
    OBVIOUS
  <2>1. Recorded(j) /\ ~Ahead(p, j)
    BY <1>2 DEF PushKnown
  <2>2. j \notin Fresh
    BY <2>1 DEF Fresh, Recorded
  <2>3. jobs[j] = "queued" /\ wrote[p] = NoWrites /\ wrote' = wrote /\ Holds(p, j)'
    BY <1>5, <2>1, <2>2 DEF Grows
  <2>4. PICK q \in Sessions \ {p} : wrote'[q][j] # "-"
    BY <2>1, <2>3 DEF Recorded, NoWrites
  <2>5. Holds(q, j)'
    BY <2>4 DEF Holds
  <2> QED
    BY <1>1, <2>3, <2>4, <2>5
<1>8. CASE pushes' = pushes
  BY <1>2, <1>4, <1>6, <1>7, <1>8 DEF PushKnown
<1>9. CASE StartPush(p)
  <2>1. /\ cur[p] \in Jobs /\ wrote[p][cur[p]] # "-" /\ Ahead(p, cur[p])
        /\ wrote' = wrote /\ cur' = cur /\ todo' = todo /\ pc'[p] = "push"
        /\ \A i \in Jobs : i # cur[p] => pushes'[i] = pushes[i]
    BY <1>9 DEF StartPush, InHand, Ahead, Fields, Goto, mine
  <2>2. CASE j # cur[p]
    BY <1>2, <1>4, <1>6, <1>7, <2>1, <2>2 DEF PushKnown
  <2>3. CASE j = cur[p]
    <3>1. pushes[j] = 0 /\ pushes'[j] = 1
      BY <1>2, <1>9, <2>1, <2>3 DEF PushKnown, StartPush, Fields
    <3>2. Recorded(j)'
      BY <2>1, <2>3 DEF Recorded
    <3>3. ~Ahead(p, j)'
      BY <1>5, <2>1, <2>3 DEF Ahead, Orderly
    <3>4. Holds(p, j)'
      BY <2>1, <2>3 DEF Holds
    <3>5. \A q \in Sessions : Ahead(q, j)' => Holds(q, j)'
      BY DEF Ahead, Holds
    <3>6. \A q \in Sessions : ~Ahead(q, j)'
      BY <1>1, <3>3, <3>4, <3>5
    <3> QED
      BY <3>1, <3>2, <3>6 DEF PushKnown
  <2> QED
    BY <2>2, <2>3
<1> QED
  BY <1>5, <1>8, <1>9

LEMMA PushInvKept == IInv /\ PushInv /\ [Next]_vars => PushInv'
<1> SUFFICES ASSUME IInv, PushInv, [Next]_vars PROVE PushInv'
  OBVIOUS
<1>1. CASE \E p \in Sessions : SessionStep(p) /\ RecordDisputes
  <2>1. PICK p \in Sessions : SessionStep(p) /\ RecordDisputes
    BY <1>1
  <2>2. \A j \in Jobs \ disputed' : PushKnown(j)'
    BY <2>1, PushKnownKept
  <2>3. Orderly(p)'
    BY <2>1, OwnSteps DEF IInv, PushInv
  <2>4. \A q \in Sessions \ {p} : Orderly(q)'
    <3> TAKE q \in Sessions \ {p}
    <3>1. wrote'[q] = wrote[q]
      BY <2>1, StepOnTable, RowsStay DEF IInv
    <3>2. pc'[q] = pc[q] /\ cur'[q] = cur[q] /\ todo'[q] = todo[q]
      BY <2>1, OthersStay DEF IInv
    <3> QED
      BY <3>1, <3>2 DEF PushInv, Orderly
  <2> QED
    BY <2>2, <2>3, <2>4 DEF PushInv
<1>2. CASE /\ UNCHANGED <<jobs, history, pc, mine, txn>>
           /\ disputed \subseteq disputed'
  BY <1>2 DEF PushInv, Orderly, PushKnown, Recorded, Ahead, history, mine, txn
<1>3. CASE WindowMoves /\ RecordDisputes
  BY <1>2, <1>3 DEF WindowMoves, RecordDisputes
<1>4. CASE UNCHANGED vars
  BY <1>2, <1>4 DEF vars, db
<1> QED
  BY <1>1, <1>3, <1>4 DEF Next, SessionStep, Exhausted

\* However many sweeps overlap, and whatever fails, a job is pushed again only
\* where two sessions had it in hand at once or one lost what it had recorded.
THEOREM PushesOnce == Spec => []PushedOnceUndisputed
<1>1. Init => PushInv
  BY NameAssumption DEF Init, PushInv, Orderly, PushKnown, Recorded, Ahead, NoWrites
<1>2. PushInv => PushedOnceUndisputed
  BY DEF PushInv, PushKnown, PushedOnceUndisputed
<1> QED
  BY <1>1, <1>2, Inductive, PushInvKept, PTL DEF Spec

=============================================================================
