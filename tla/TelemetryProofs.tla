--------------------------- MODULE TelemetryProofs ---------------------------
(***************************************************************************)
(* Proofs about Telemetry, for any number of links, groups, sites and      *)
(* sweeps, any thresholds, and any history of restarts, timeouts and edits.*)
(***************************************************************************)
EXTENDS Telemetry, TLAPS

\* The bucket of a time is not later than the time.
LEMMA BucketType ==
    ASSUME now \in 0..MaxTime
    PROVE  BucketOf(now) \in 0..MaxTime
<1>1. CASE Bucket = 1
  BY <1>1, TelemetryAssumption DEF BucketOf
<1>2. CASE Bucket = 2
  BY <1>2, TelemetryAssumption DEF BucketOf
<1>3. CASE Bucket = 3
  BY <1>3, TelemetryAssumption DEF BucketOf
<1>4. CASE Bucket = 4
  BY <1>4, TelemetryAssumption DEF BucketOf
<1> QED
  BY <1>1, <1>2, <1>3, <1>4, TelemetryAssumption

LEMMA OffType == Off \in Sweep /\ Off.op = "off"
BY TelemetryAssumption DEF Off, Sweep

LEMMA QueuedType ==
    ASSUME NEW t \in 0..MaxTime + 1
    PROVE  Queued(t) \in Sweep /\ Queued(t).op = "queued" /\ Queued(t).since = t
BY TelemetryAssumption DEF Queued, Off, Sweep

LEMMA MishapType ==
    ASSUME TypeOK, NEW kind \in Kinds, Mishap(kind)
    PROVE  mishaps' \in [Kinds -> Nat]
BY DEF TypeOK, Mishap

\* What a sweep reads from the routers of a site.
LEMMA SampledType ==
    ASSUME TypeOK, NEW x
    PROVE  Sampled(x) \subseteq Sample
BY TelemetryAssumption DEF TypeOK, Sampled, Sample

\* Whatever row is picked, what a sweep decides for a path is a verdict.
LEMMA DecidedType ==
    ASSUME TypeOK, NEW s \in Sweeps, NEW x \in Sites, NEW p \in Judged(s, x), NEW b \in 0..MaxTime,
           NEW picked \in evals \cup {None}
    PROVE  /\ NewRow(s, p, ClassOf(s, p), picked, b) \in Verdict
           /\ picked \in evals => [picked EXCEPT !.class = ClassOf(s, p), !.until = now] \in Verdict
<1>1. p.end \in Ends /\ p.group \in Groups \cup {None}
  BY DEF TypeOK, Judged, PathsOf, Path
<1>2. ClassOf(s, p) \in Classes
  BY DEF Judged, ClassOf, Classify, Classes
<1>3. picked \in evals => picked \in Verdict /\ picked.class \in Classes
  BY DEF TypeOK, Verdict
<1>4. now \in 0..MaxTime
  BY DEF TypeOK
<1>5. (IF picked = None THEN None ELSE picked.class) \in Classes \cup {None}
  BY <1>3
<1>6. NewRow(s, p, ClassOf(s, p), picked, b) \in Verdict
  BY <1>1, <1>2, <1>4, <1>5 DEF NewRow, Verdict
<1> QED
  BY <1>2, <1>3, <1>4, <1>6 DEF Verdict

\* An update keeps the path and the bucket of a row, and a verdict a verdict.
LEMMA UpdatedType ==
    ASSUME NEW r \in Verdict, NEW changed \in SUBSET Verdict
    PROVE  /\ Updated(r, changed) \in Verdict
           /\ Updated(r, changed).end = r.end
           /\ Updated(r, changed).group = r.group
           /\ Updated(r, changed).bucket = r.bucket
<1>1. CASE ~IsIn(r, changed)
  BY <1>1 DEF Updated
<1>2. CASE IsIn(r, changed)
  <2> DEFINE q == CHOOSE u \in changed : SameRow(u, r)
  <2>1. q \in Verdict
    BY <1>2 DEF IsIn
  <2>2. Updated(r, changed) = [r EXCEPT !.class = q.class, !.until = q.until]
    BY <1>2 DEF Updated
  <2> HIDE DEF q
  <2> QED
    BY <2>1, <2>2 DEF Verdict
<1> QED
  BY <1>1, <1>2

LEMMA TypeInit == Init => TypeOK
<1> SUFFICES ASSUME Init PROVE TypeOK
  OBVIOUS
<1>1. sweep \in [Sweeps -> Sweep] /\ \A s \in Sweeps : sweep[s] \in {Off, Queued(0)}
  BY OffType, QueuedType, TelemetryAssumption DEF Init
<1>2. \A s \in Sweeps : sweep[s] \in {Off, Queued(sweep[s].since)}
  BY <1>1, QueuedType, TelemetryAssumption
<1> QED
  BY <1>1, <1>2, TelemetryAssumption DEF Init, TypeOK

LEMMA TypeStep == TypeOK /\ [Next]_vars => TypeOK'
<1> SUFFICES ASSUME TypeOK, [Next]_vars PROVE TypeOK'
  OBVIOUS
<1> USE DEF TypeOK
<1>1. ASSUME NEW s \in Sweeps, StartSweep(s) PROVE TypeOK'
  <2>1. now \in 0..MaxTime + 1
    BY TelemetryAssumption
  <2>2. [sweep[s] EXCEPT !.op = "polling", !.since = now, !.todo = Sites] \in Sweep
    BY <2>1 DEF Sweep
  <2>3. sweep' = [sweep EXCEPT ![s] = [sweep[s] EXCEPT !.op = "polling", !.since = now, !.todo = Sites]]
    BY <1>1 DEF StartSweep
  <2>4. sweep'[s].op = "polling"
    BY <2>3 DEF Sweep
  <2> QED
    BY <1>1, <2>2, <2>3, <2>4 DEF StartSweep, world, intent
<1>2. ASSUME NEW s \in Sweeps, NEW x \in Sites, PollSite(s, x) PROVE TypeOK'
  <2>1. PICK got \in {{}, Sampled(x)} :
           /\ sweep' = [sweep EXCEPT ![s].own = @ \cup got,
                           ![s].op = IF sweep[s].todo \ {x} = {} THEN "judging" ELSE @,
                           ![s].todo = IF sweep[s].todo \ {x} = {} THEN Sites ELSE sweep[s].todo \ {x}]
           /\ IF got = Sampled(x) THEN UNCHANGED mishaps ELSE Mishap("unread")
    BY <1>2 DEF PollSite
  <2>2. got \subseteq Sample
    BY <2>1, SampledType
  <2>3. mishaps' \in [Kinds -> Nat]
    BY <2>1, MishapType DEF Kinds
  <2>4. sweep' \in [Sweeps -> Sweep]
    <3>1. PICK op, todo : /\ op \in {"polling", "judging"} /\ todo \in SUBSET Sites
                          /\ sweep' = [sweep EXCEPT ![s].own = @ \cup got, ![s].op = op, ![s].todo = todo]
      BY <2>1, <1>2 DEF PollSite, Sweep
    <3>2. [sweep[s] EXCEPT !.own = @ \cup got, !.op = op, !.todo = todo] \in Sweep
      BY <3>1, <2>2 DEF Sweep
    <3> QED
      BY <3>1, <3>2
  <2>5. sweep[s].op = "polling"
    BY <1>2 DEF PollSite
  <2>6. \A t \in Sweeps : sweep'[t].op \in {"off", "queued"} => t # s
    BY <2>1, <2>5 DEF Sweep
  <2>7. \A t \in Sweeps \ {s} : sweep'[t] = sweep[t]
    BY <2>1
  <2> QED
    BY <1>2, <2>3, <2>4, <2>6, <2>7 DEF PollSite, world, intent
<1>3. ASSUME NEW s \in Sweeps, NEW x \in Sites, EvaluateSite(s, x) PROVE TypeOK'
  <2> DEFINE b == BucketOf(now)
             P == Judged(s, x)
             known == {p \in P : ExistingRows(p, b) # {}}
  <2>1. b \in 0..MaxTime
    BY BucketType
  <2>2. PICK pick \in Picks(P, b) :
           sweep' = [sweep EXCEPT ![s].op = "judged", ![s].todo = @ \ {x},
             ![s].sets = {[pick[p] EXCEPT !.class = ClassOf(s, p), !.until = now] : p \in known},
             ![s].adds = {NewRow(s, p, ClassOf(s, p), pick[p], b) : p \in P \ known}]
    BY <1>3 DEF EvaluateSite
  <2>3. \A p \in P : pick[p] \in evals \cup {None}
    BY DEF Picks
  <2>4. \A p \in known : pick[p] \in evals
    BY DEF Picks, ExistingRows, RowsOf
  <2>5. {NewRow(s, p, ClassOf(s, p), pick[p], b) : p \in P \ known} \subseteq Verdict
    <3> SUFFICES ASSUME NEW p \in P \ known PROVE NewRow(s, p, ClassOf(s, p), pick[p], b) \in Verdict
      OBVIOUS
    <3> QED
      BY <2>1, <2>3, DecidedType
  <2>6. {[pick[p] EXCEPT !.class = ClassOf(s, p), !.until = now] : p \in known} \subseteq Verdict
    <3> SUFFICES ASSUME NEW p \in known
                 PROVE [pick[p] EXCEPT !.class = ClassOf(s, p), !.until = now] \in Verdict
      OBVIOUS
    <3>1. p \in P
      OBVIOUS
    <3> QED
      BY <3>1, <2>1, <2>4, DecidedType
  <2> HIDE DEF b, P, known
  <2>7. sweep' \in [Sweeps -> Sweep]
    <3>1. ASSUME NEW adds \in SUBSET Verdict, NEW sets \in SUBSET Verdict
          PROVE  [sweep[s] EXCEPT !.op = "judged", !.todo = @ \ {x}, !.sets = sets, !.adds = adds] \in Sweep
      BY DEF Sweep
    <3> QED
      BY <2>2, <2>5, <2>6, <3>1
  <2>8. \A t \in Sweeps : sweep'[t].op \in {"off", "queued"} => t # s
    BY <2>2 DEF Sweep
  <2>9. \A t \in Sweeps \ {s} : sweep'[t] = sweep[t]
    BY <2>2
  <2>10. lapsed' \subseteq Sample
    BY <1>3 DEF EvaluateSite, Lapsing, Sweep
  <2> QED
    BY <1>3, <2>7, <2>8, <2>9, <2>10 DEF EvaluateSite, world, intent
<1>4. ASSUME NEW s \in Sweeps, FlushSite(s) PROVE TypeOK'
  <2>1. [sweep[s] EXCEPT !.op = "judging", !.adds = {}, !.sets = {},
            !.added = @ \cup sweep[s].adds, !.changed = @ \cup sweep[s].sets] \in Sweep
    BY DEF Sweep
  <2>2. sweep' = [sweep EXCEPT ![s] = [sweep[s] EXCEPT !.op = "judging", !.adds = {}, !.sets = {},
            !.added = @ \cup sweep[s].adds, !.changed = @ \cup sweep[s].sets]]
    BY <1>4 DEF FlushSite
  <2>3. sweep'[s].op = "judging"
    BY <2>2 DEF Sweep
  <2> QED
    BY <1>4, <2>1, <2>2, <2>3 DEF FlushSite, world, intent
<1>5. ASSUME NEW s \in Sweeps, SweepFails(s) PROVE TypeOK'
  BY <1>5, OffType DEF SweepFails, world, intent
<1>6. ASSUME NEW s \in Sweeps, SweepTimesOut(s) PROVE TypeOK'
  <2>1. mishaps' \in [Kinds -> Nat]
    BY <1>6, MishapType DEF SweepTimesOut, Kinds
  <2> QED
    BY <1>6, <2>1, OffType DEF SweepTimesOut, world, intent
<1>7. ASSUME NEW s \in Sweeps, CommitSweep(s) PROVE TypeOK'
  <2>1. now + 1 \in 0..MaxTime + 1
    BY TelemetryAssumption
  <2>2. Queued(now + 1) \in Sweep /\ Queued(now + 1).since = now + 1
    BY <2>1, QueuedType
  <2>3. samples' \subseteq Sample /\ sweep[s].added \subseteq Verdict /\ sweep[s].changed \subseteq Verdict
    BY <1>7 DEF CommitSweep, Sweep
  <2>4. evals' \subseteq Verdict
    BY <1>7, <2>3, UpdatedType DEF CommitSweep
  <2> QED
    BY <1>7, <2>2, <2>3, <2>4 DEF CommitSweep, world, intent
<1>8. CASE RestartWorker
  <2>1. mishaps' \in [Kinds -> Nat]
    BY <1>8, MishapType DEF RestartWorker, Kinds
  <2>2. Queued(now) \in Sweep /\ Queued(now).since = now
    BY QueuedType, TelemetryAssumption
  <2> QED
    BY <1>8, <2>1, <2>2 DEF RestartWorker, world, intent
<1>9. CASE ReapSlaEvaluations
  BY <1>9 DEF ReapSlaEvaluations, world, intent
<1>10. CASE Tick
  <2>1. PICK test \in [Ends -> Latencies \cup {None}], reset \in {{}} \cup {{e} : e \in Ends} :
           /\ IF reset = {} THEN UNCHANGED mishaps ELSE Mishap("reset")
           /\ probe' = [e \in Ends |->
                [sent |-> 1 + IF e \in reset THEN 0 ELSE probe[e].sent,
                 resp |-> (IF test[e] = None THEN 0 ELSE 1) + IF e \in reset THEN 0 ELSE probe[e].resp,
                 lost |-> test[e] = None, latency |-> test[e]]]
    BY <1>10 DEF Tick
  <2>2. mishaps' \in [Kinds -> Nat]
    BY <2>1, MishapType DEF Kinds
  <2>3. now' = now + 1 /\ now' \in 0..MaxTime
    BY <1>10, TelemetryAssumption DEF Tick
  <2>4. ASSUME NEW e \in Ends
        PROVE  /\ 1 + (IF e \in reset THEN 0 ELSE probe[e].sent) \in 0..now + 1
               /\ (IF test[e] = None THEN 0 ELSE 1) + (IF e \in reset THEN 0 ELSE probe[e].resp) \in 0..now + 1
    <3>1. probe[e].sent \in 0..now /\ probe[e].resp \in 0..now
      OBVIOUS
    <3>2. now \in Nat
      BY TelemetryAssumption
    <3> QED
      BY <3>1, <3>2
  <2>5. probe' \in [Ends -> [sent : 0..now', resp : 0..now', lost : BOOLEAN, latency : Latencies \cup {None}]]
    BY <2>1, <2>3, <2>4
  <2> QED
    BY <1>10, <2>2, <2>3, <2>5 DEF Tick, intent
<1>11. ASSUME NEW e \in Ends, NEW gs \in SUBSET Groups, ChangePolicies(e, gs) PROVE TypeOK'
  <2>1. mishaps' \in [Kinds -> Nat]
    BY <1>11, MishapType DEF ChangePolicies, Kinds
  <2> QED
    BY <1>11, <2>1 DEF ChangePolicies, world
<1>12. ASSUME NEW g \in Groups, DeleteGroup(g) PROVE TypeOK'
  <2>1. mishaps' \in [Kinds -> Nat]
    BY <1>12, MishapType DEF DeleteGroup, Kinds
  <2>2. evals' \subseteq Verdict
    BY <1>12 DEF DeleteGroup, Verdict
  <2> QED
    BY <1>12, <2>1, <2>2 DEF DeleteGroup, world
<1>13. CASE UNCHANGED vars
  BY <1>13 DEF vars
<1> QED
  BY <1>1, <1>2, <1>3, <1>4, <1>5, <1>6, <1>7, <1>8, <1>9, <1>10, <1>11, <1>12, <1>13 DEF Next, Sweeping

\* Every variable keeps the type the code gives it: every verdict is of a path,
\* a bucket and a class, whatever rows the sweeps found and however they overlap.
THEOREM TypeCorrect == Spec => []TypeOK
BY TypeInit, TypeStep, PTL DEF Spec

-----------------------------------------------------------------------------
(* One verdict per path and bucket. *)

Key(r) == <<r.end, r.group, r.bucket>>

\* A sweep writes for one site at a time, and for no site twice.
SiteBySite ==
    \A s \in Sweeps :
        /\ sweep[s].op \in {"off", "queued", "polling"} => sweep[s].added = {}
        /\ sweep[s].op # "judged" => sweep[s].adds = {}
        /\ \A r \in sweep[s].adds \cup sweep[s].added : SiteOf[r.end] \notin sweep[s].todo
        /\ \A r \in sweep[s].adds, q \in sweep[s].added : SiteOf[r.end] # SiteOf[q.end]

\* The new rows of a sweep are of different paths or buckets.
OwnDiffer ==
    \A s \in Sweeps : \A r, q \in sweep[s].adds \cup sweep[s].added : Key(r) = Key(q) => r = q

\* What is flushed clashes neither with what is committed nor with what another
\* sweep has flushed.
FlushedFit ==
    /\ \A s \in Sweeps : \A r \in sweep[s].added, q \in evals : ~Clash(r, q)
    /\ \A s, t \in Sweeps : s # t => \A r \in sweep[s].added, q \in sweep[t].added : ~Clash(r, q)

GroupedOnce == \A r, q \in evals : r.group # None /\ Key(r) = Key(q) => r = q

\* One sweep alone looks before it writes, where no constraint would stop it.
AloneOnce ==
    Undisturbed =>
        /\ \A s, t \in Sweeps : sweep[s].op # "off" /\ sweep[t].op # "off" => s = t
        /\ \A r, q \in evals : Key(r) = Key(q) => r = q
        /\ \A s \in Sweeps : \A r \in sweep[s].adds \cup sweep[s].added, q \in evals : Key(r) # Key(q)

RowsInv == TypeOK /\ SiteBySite /\ OwnDiffer /\ FlushedFit /\ GroupedOnce /\ AloneOnce

LEMMA ClashIsKey ==
    ASSUME NEW r, NEW q
    PROVE  Clash(r, q) <=> r.group # None /\ Key(r) = Key(q)
BY DEF Clash, Key

\* Nothing undoes a disturbance.
LEMMA StillUndisturbed ==
    ASSUME TypeOK, NEW kind \in Kinds, Mishap(kind), groups' \subseteq groups, Undisturbed'
    PROVE  Undisturbed /\ groups' = groups /\ kind # "restart"
BY DEF TypeOK, Mishap, Undisturbed, Kinds

\* Rows that leave the table, and sweeps that stop or begin, disturb nothing.
LEMMA Fewer ==
    ASSUME RowsInv, TypeOK', Undisturbed' => Undisturbed, evals' \subseteq evals,
           \A s \in Sweeps :
              \/ /\ sweep'[s].adds = {} /\ sweep'[s].added = {}
                 /\ sweep'[s].op \in {"off", "queued", "polling", "judging"}
                 /\ Undisturbed' /\ sweep[s].op = "off" => sweep'[s].op = "off"
              \/ /\ sweep'[s].op = sweep[s].op /\ sweep'[s].todo = sweep[s].todo
                 /\ sweep'[s].adds = sweep[s].adds /\ sweep'[s].added = sweep[s].added
    PROVE  RowsInv'
<1> USE DEF RowsInv
<1>1. \A s \in Sweeps : sweep'[s].adds \subseteq sweep[s].adds /\ sweep'[s].added \subseteq sweep[s].added
  OBVIOUS
<1>2. SiteBySite'
  BY DEF SiteBySite
<1>3. OwnDiffer'
  BY <1>1 DEF OwnDiffer, Key
<1>4. FlushedFit'
  BY <1>1 DEF FlushedFit, Clash
<1>5. GroupedOnce'
  BY DEF GroupedOnce, Key
<1>6. AloneOnce'
  BY <1>1 DEF AloneOnce, Key
<1> QED
  BY <1>2, <1>3, <1>4, <1>5, <1>6

\* What a sweep adds for a path, it adds for a path that has no row of the
\* bucket, and for no path of another site.
LEMMA EvaluateKeeps ==
    ASSUME RowsInv, TypeOK', NEW s \in Sweeps, NEW x \in Sites, EvaluateSite(s, x)
    PROVE  RowsInv'
<1> DEFINE b == BucketOf(now)
           P == Judged(s, x)
           known == {p \in P : ExistingRows(p, b) # {}}
           new == sweep'[s].adds
<1> USE DEF RowsInv
<1>1. PICK pick \in Picks(P, b) :
         sweep' = [sweep EXCEPT ![s].op = "judged", ![s].todo = @ \ {x},
           ![s].sets = {[pick[p] EXCEPT !.class = ClassOf(s, p), !.until = now] : p \in known},
           ![s].adds = {NewRow(s, p, ClassOf(s, p), pick[p], b) : p \in P \ known}]
  BY DEF EvaluateSite
<1>2. sweep[s].op = "judging" /\ x \in sweep[s].todo /\ sweep[s].adds = {} /\ evals' = evals
      /\ UNCHANGED <<groups, mishaps>>
  BY DEF EvaluateSite, SiteBySite, intent
<1>3. /\ sweep'[s].op = "judged" /\ sweep'[s].todo = sweep[s].todo \ {x} /\ sweep'[s].added = sweep[s].added
      /\ new = {NewRow(s, p, ClassOf(s, p), pick[p], b) : p \in P \ known}
      /\ \A t \in Sweeps \ {s} : sweep'[t] = sweep[t]
  BY <1>1 DEF TypeOK, Sweep
<1>4. \A r \in new : \E p \in P \ known :
         r = NewRow(s, p, ClassOf(s, p), pick[p], b) /\ Key(r) = <<p.end, p.group, b>> /\ SiteOf[p.end] = x /\ r.end = p.end
  BY <1>3 DEF NewRow, Key, Judged, PathsOf, Path
<1>5. \A p, q \in P : p.end = q.end /\ p.group = q.group => p = q
  BY DEF Judged, PathsOf, Path
<1>6. \A r \in new : SiteOf[r.end] = x
  BY <1>4
<1>7. \A r, q \in new : Key(r) = Key(q) => r = q
  BY <1>4, <1>5
<1>8. \A r \in new, q \in evals : Key(r) # Key(q)
  <2> SUFFICES ASSUME NEW r \in new, NEW q \in evals, Key(r) = Key(q) PROVE FALSE
    OBVIOUS
  <2>1. PICK p \in P \ known : Key(r) = <<p.end, p.group, b>>
    BY <1>4
  <2>2. q \in ExistingRows(p, b)
    BY <2>1 DEF ExistingRows, RowsOf, Key
  <2> QED
    BY <2>1, <2>2
<1> HIDE DEF b, P, known, new
<1>9. SiteBySite'
  <2>1. \A r \in new : SiteOf[r.end] \notin sweep'[s].todo
    BY <1>3, <1>6
  <2>2. \A q \in sweep[s].added : SiteOf[q.end] # x /\ SiteOf[q.end] \notin sweep'[s].todo
    BY <1>2, <1>3 DEF SiteBySite
  <2> QED
    BY <1>2, <1>3, <1>6, <2>1, <2>2 DEF SiteBySite, new
<1>10. OwnDiffer'
  <2>1. \A r \in new, q \in sweep[s].added : Key(r) # Key(q)
    BY <1>2, <1>6 DEF SiteBySite, Key
  <2> QED
    BY <1>3, <1>7, <2>1 DEF OwnDiffer, Key, new
<1>11. FlushedFit' /\ GroupedOnce'
  BY <1>2, <1>3 DEF FlushedFit, GroupedOnce, Clash, Key
<1>12. AloneOnce'
  BY <1>2, <1>3, <1>8 DEF AloneOnce, Undisturbed, Key, new
<1> QED
  BY <1>9, <1>10, <1>11, <1>12

\* The constraint and the waiting at it let through what fits only.
LEMMA FlushKeeps ==
    ASSUME RowsInv, TypeOK', NEW s \in Sweeps, FlushSite(s)
    PROVE  RowsInv'
<1> USE DEF RowsInv
<1>1. /\ sweep'[s].op = "judging" /\ sweep'[s].todo = sweep[s].todo /\ sweep'[s].adds = {}
      /\ sweep'[s].added = sweep[s].added \cup sweep[s].adds
      /\ \A t \in Sweeps \ {s} : sweep'[t] = sweep[t]
  BY DEF FlushSite, TypeOK, Sweep
<1>2. sweep[s].op = "judged" /\ evals' = evals /\ UNCHANGED <<groups, mishaps>>
  BY DEF FlushSite, intent
<1>3. SiteBySite'
  BY <1>1 DEF SiteBySite
<1>4. OwnDiffer'
  BY <1>1 DEF OwnDiffer, Key
<1>5. \A r \in sweep[s].adds, q \in evals : ~Clash(r, q)
  BY DEF FlushSite, FlushFails
<1>6. \A t \in Sweeps \ {s} : \A r \in sweep[s].adds, q \in sweep[t].added : ~Clash(r, q)
  BY DEF FlushSite, MayFlush
<1>7. \A t \in Sweeps \ {s} : \A r \in sweep[t].added, q \in sweep[s].adds : ~Clash(r, q)
  BY <1>6 DEF Clash
<1>8. FlushedFit' /\ GroupedOnce'
  BY <1>1, <1>2, <1>5, <1>6, <1>7 DEF FlushedFit, GroupedOnce, Clash, Key
<1>9. AloneOnce'
  BY <1>1, <1>2 DEF AloneOnce, Undisturbed, Key
<1> QED
  BY <1>3, <1>4, <1>8, <1>9

LEMMA CommitKeeps ==
    ASSUME RowsInv, TypeOK', NEW s \in Sweeps, CommitSweep(s)
    PROVE  RowsInv'
<1> USE DEF RowsInv
<1>1. /\ sweep'[s].op = "queued" /\ sweep'[s].adds = {} /\ sweep'[s].added = {}
      /\ \A t \in Sweeps \ {s} : sweep'[t] = sweep[t]
  BY DEF CommitSweep, TypeOK, Queued, Off
<1>2. sweep[s].op = "judging" /\ UNCHANGED <<groups, mishaps>>
  BY DEF CommitSweep, intent
<1>3. evals \subseteq Verdict /\ sweep[s].changed \in SUBSET Verdict
  BY DEF TypeOK, Sweep
<1>4. \A r \in evals' : \/ r \in sweep[s].added
                       \/ \E q \in evals : r = Updated(q, sweep[s].changed) /\ Key(r) = Key(q) /\ r.group = q.group
  <2> SUFFICES ASSUME NEW r \in evals', r \notin sweep[s].added
               PROVE  \E q \in evals : r = Updated(q, sweep[s].changed) /\ Key(r) = Key(q) /\ r.group = q.group
    OBVIOUS
  <2>1. PICK q \in evals : r = Updated(q, sweep[s].changed)
    BY DEF CommitSweep
  <2> QED
    BY <2>1, <1>3, UpdatedType DEF Key
<1>5. SiteBySite'
  BY <1>1 DEF SiteBySite
<1>6. OwnDiffer'
  BY <1>1 DEF OwnDiffer, Key
<1>7. FlushedFit'
  <2>1. ASSUME NEW t \in Sweeps, NEW r \in sweep'[t].added, NEW q \in evals' PROVE ~Clash(r, q)
    <3>1. t # s /\ r \in sweep[t].added
      BY <1>1, <2>1
    <3>2. CASE q \in sweep[s].added
      BY <3>1, <3>2 DEF FlushedFit
    <3>3. CASE q \notin sweep[s].added
      <4>1. PICK o \in evals : Key(q) = Key(o)
        BY <1>4, <3>3
      <4>2. ~Clash(r, o)
        BY <3>1 DEF FlushedFit
      <4> QED
        BY <4>1, <4>2, ClashIsKey
    <3> QED
      BY <3>2, <3>3
  <2>2. ASSUME NEW t \in Sweeps, NEW u \in Sweeps, t # u, NEW r \in sweep'[t].added, NEW q \in sweep'[u].added
        PROVE  ~Clash(r, q)
    BY <1>1, <2>2 DEF FlushedFit
  <2> QED
    BY <2>1, <2>2 DEF FlushedFit, Clash
<1>8. GroupedOnce'
  <2> SUFFICES ASSUME NEW r \in evals', NEW q \in evals', r.group # None, Key(r) = Key(q) PROVE r = q
    BY DEF GroupedOnce, Key
  <2>1. q.group = r.group
    BY DEF Key
  <2>2. \A o \in sweep[s].added, p \in evals : o.group # None => Key(o) # Key(p)
    BY ClashIsKey DEF FlushedFit
  <2> QED
    BY <1>4, <2>1, <2>2 DEF GroupedOnce, OwnDiffer
<1>9. AloneOnce'
  <2> SUFFICES ASSUME Undisturbed'
               PROVE  /\ \A t, u \in Sweeps : sweep'[t].op # "off" /\ sweep'[u].op # "off" => t = u
                      /\ \A r, q \in evals' : Key(r) = Key(q) => r = q
                      /\ \A t \in Sweeps : \A r \in sweep'[t].adds \cup sweep'[t].added, q \in evals' : Key(r) # Key(q)
    BY DEF AloneOnce, Key
  <2>1. Undisturbed
    BY <1>2 DEF Undisturbed
  <2>2. \A t \in Sweeps \ {s} : sweep[t].op = "off"
    BY <1>2, <2>1 DEF AloneOnce
  <2>3. \A t \in Sweeps : sweep'[t].adds = {} /\ sweep'[t].added = {}
    BY <1>1, <2>2 DEF SiteBySite
  <2>4. \A r, q \in evals' : Key(r) = Key(q) => r = q
    <3>1. \A o \in sweep[s].added, p \in evals : Key(o) # Key(p)
      BY <2>1 DEF AloneOnce
    <3> QED
      BY <1>4, <2>1, <3>1 DEF AloneOnce, OwnDiffer
  <2> QED
    BY <1>1, <2>2, <2>3, <2>4
<1> QED
  BY <1>5, <1>6, <1>7, <1>8, <1>9

\* A verdict that loses its group leaves the constraint.
LEMMA DeleteKeeps ==
    ASSUME RowsInv, TypeOK', NEW g \in Groups, DeleteGroup(g)
    PROVE  RowsInv'
<1> USE DEF RowsInv
<1>1. UNCHANGED sweep /\ ~Undisturbed'
  BY DEF DeleteGroup, Undisturbed, TypeOK
<1>2. \A r \in evals' : r.group # None => r \in evals
  BY DEF DeleteGroup, TypeOK, Verdict
<1>3. FlushedFit'
  BY <1>1, <1>2 DEF FlushedFit, Clash
<1>4. GroupedOnce'
  BY <1>2 DEF GroupedOnce, Key
<1> QED
  BY <1>1, <1>3, <1>4 DEF SiteBySite, OwnDiffer, AloneOnce, Key

LEMMA RowsInit == Init => RowsInv
<1> SUFFICES ASSUME Init PROVE RowsInv
  OBVIOUS
<1>1. TypeOK
  BY TypeInit
<1>2. PICK t \in Sweeps : sweep = [u \in Sweeps |-> IF u = t THEN Queued(0) ELSE Off]
  BY DEF Init
<1>3. \A s \in Sweeps : sweep[s].adds = {} /\ sweep[s].added = {} /\ (s # t => sweep[s].op = "off")
  BY <1>2 DEF Queued, Off
<1> QED
  BY <1>1, <1>3 DEF Init, RowsInv, SiteBySite, OwnDiffer, FlushedFit, GroupedOnce, AloneOnce

LEMMA RowsStep == RowsInv /\ [Next]_vars => RowsInv'
<1> SUFFICES ASSUME RowsInv, [Next]_vars PROVE RowsInv'
  OBVIOUS
<1>0. TypeOK /\ TypeOK'
  BY TypeStep DEF RowsInv
<1>1. ASSUME NEW s \in Sweeps, StartSweep(s) PROVE RowsInv'
  BY <1>0, <1>1, Fewer DEF StartSweep, world, intent, RowsInv, SiteBySite, TypeOK, Sweep, Undisturbed
<1>2. ASSUME NEW s \in Sweeps, NEW x \in Sites, PollSite(s, x) PROVE RowsInv'
  <2>1. /\ sweep'[s].adds = {} /\ sweep'[s].added = {} /\ sweep'[s].op \in {"polling", "judging"}
        /\ sweep[s].op = "polling" /\ \A t \in Sweeps \ {s} : sweep'[t] = sweep[t]
    <3>1. sweep[s].op = "polling" /\ sweep[s].adds = {} /\ sweep[s].added = {}
      BY <1>2 DEF PollSite, RowsInv, SiteBySite
    <3>2. PICK got :
             sweep' = [sweep EXCEPT ![s].own = @ \cup got,
                          ![s].op = IF sweep[s].todo \ {x} = {} THEN "judging" ELSE @,
                          ![s].todo = IF sweep[s].todo \ {x} = {} THEN Sites ELSE sweep[s].todo \ {x}]
      BY <1>2 DEF PollSite
    <3>3. /\ sweep'[s].adds = sweep[s].adds /\ sweep'[s].added = sweep[s].added
          /\ \A t \in Sweeps \ {s} : sweep'[t] = sweep[t]
      BY <1>0, <3>2 DEF TypeOK, Sweep
    <3>4. sweep'[s].op = IF sweep[s].todo \ {x} = {} THEN "judging" ELSE sweep[s].op
      BY <1>0, <3>2 DEF TypeOK, Sweep
    <3> QED
      BY <3>1, <3>3, <3>4
  <2>2. Undisturbed' => Undisturbed
    BY <1>0, <1>2, StillUndisturbed DEF PollSite, intent, Undisturbed, Kinds
  <2> QED
    BY <1>0, <1>2, <2>1, <2>2, Fewer DEF PollSite
<1>3. ASSUME NEW s \in Sweeps, NEW x \in Sites, EvaluateSite(s, x) PROVE RowsInv'
  BY <1>0, <1>3, EvaluateKeeps
<1>4. ASSUME NEW s \in Sweeps, FlushSite(s) PROVE RowsInv'
  BY <1>0, <1>4, FlushKeeps
<1>5. ASSUME NEW s \in Sweeps, SweepFails(s) PROVE RowsInv'
  BY <1>0, <1>5, Fewer DEF SweepFails, world, intent, TypeOK, Off, Undisturbed
<1>6. ASSUME NEW s \in Sweeps, SweepTimesOut(s) PROVE RowsInv'
  <2>1. Undisturbed' => Undisturbed
    BY <1>0, <1>6, StillUndisturbed DEF SweepTimesOut, intent, Kinds
  <2> QED
    BY <1>0, <1>6, <2>1, Fewer DEF SweepTimesOut, TypeOK, Off
<1>7. ASSUME NEW s \in Sweeps, CommitSweep(s) PROVE RowsInv'
  BY <1>0, <1>7, CommitKeeps
<1>8. CASE RestartWorker
  <2>1. ~Undisturbed'
    BY <1>0, <1>8, StillUndisturbed DEF RestartWorker, intent, Kinds
  <2>2. \A s \in Sweeps : \/ sweep'[s] = Queued(now)
                         \/ sweep'[s] = sweep[s]
    BY <1>8 DEF RestartWorker
  <2> QED
    BY <1>0, <1>8, <2>1, <2>2, Fewer DEF RestartWorker, Queued, Off
<1>9. CASE ReapSlaEvaluations
  BY <1>0, <1>9, Fewer DEF ReapSlaEvaluations, intent, Undisturbed
<1>10. CASE Tick
  <2>1. Undisturbed' => Undisturbed
    BY <1>0, <1>10, StillUndisturbed DEF Tick, intent, Undisturbed, Kinds
  <2> QED
    BY <1>0, <1>10, <2>1, Fewer DEF Tick
<1>11. ASSUME NEW e \in Ends, NEW gs \in SUBSET Groups, ChangePolicies(e, gs) PROVE RowsInv'
  <2>1. Undisturbed' => Undisturbed
    BY <1>0, <1>11, StillUndisturbed DEF ChangePolicies, Kinds
  <2> QED
    BY <1>0, <1>11, <2>1, Fewer DEF ChangePolicies
<1>12. ASSUME NEW g \in Groups, DeleteGroup(g) PROVE RowsInv'
  BY <1>0, <1>12, DeleteKeeps
<1>13. CASE UNCHANGED vars
  BY <1>0, <1>13, Fewer DEF vars, Undisturbed
<1> QED
  BY <1>1, <1>2, <1>3, <1>4, <1>5, <1>6, <1>7, <1>8, <1>9, <1>10, <1>11, <1>12, <1>13 DEF Next, Sweeping

\* A path has one verdict per bucket: by the unique constraint and the waits at
\* it however many sweeps overlap, and for the ends no group covers, and rows
\* whose group is gone, as long as sweeps do not overlap and no group goes.
THEOREM OneRow == Spec => []OneRowPerBucket
<1>1. RowsInv => OneRowPerBucket
  BY DEF RowsInv, GroupedOnce, AloneOnce, OneRowPerBucket, Key
<1> QED
  BY RowsInit, RowsStep, <1>1, PTL DEF Spec
-----------------------------------------------------------------------------
(* The rows a sweep has in hand. *)

Written(s) == sweep[s].adds \cup sweep[s].added
Rewritten(s) == sweep[s].sets \cup sweep[s].changed
Hand(s) == Written(s) \cup Rewritten(s)
SamePath(r, q) == r.end = q.end /\ r.group = q.group

HandsFilled ==
    \A s \in Sweeps :
        /\ sweep[s].op \in {"off", "queued", "polling"} => Hand(s) = {}
        /\ sweep[s].op # "judged" => sweep[s].adds = {} /\ sweep[s].sets = {}

\* What is decided for a site is flushed before the next one is judged.
HandsBySite ==
    \A s \in Sweeps :
        /\ \A v \in Hand(s) : SiteOf[v.end] \notin sweep[s].todo
        /\ \A v \in sweep[s].adds \cup sweep[s].sets, w \in sweep[s].added \cup sweep[s].changed :
              SiteOf[v.end] # SiteOf[w.end]

\* A sweep adds one row of a path, or changes the one there is.
PathsOnce ==
    \A s \in Sweeps :
        /\ \A v, w \in Written(s) : SamePath(v, w) => v = w
        /\ \A v \in Written(s), w \in Rewritten(s) : ~SamePath(v, w)

\* A row was last judged in its bucket.
Dated(r) == r.bucket = BucketOf(r.until) /\ r.until <= now
RowsDated ==
    /\ \A r \in evals : Dated(r)
    /\ \A s \in Sweeps : \A v \in Hand(s) : Dated(v) /\ sweep[s].since <= v.until

\* A sweep and what it read are no older than the queue lets them be.
Prompt ==
    \A s \in Running :
        /\ sweep[s].since <= now /\ now <= sweep[s].since + JobTimeout
        /\ \A p \in sweep[s].own : sweep[s].since <= p.at /\ p.at <= now

\* An end is judged after it was read.
OwnBefore == \A s \in Sweeps : \A v \in Hand(s), p \in sweep[s].own : v.end = p.end => p.at <= v.until

HandsInv == RowsInv /\ HandsFilled /\ HandsBySite /\ PathsOnce /\ RowsDated /\ Prompt /\ OwnBefore

\* A bucket begins no later than the times in it, and the next one after them.
LEMMA BucketSpan ==
    ASSUME NEW t \in Nat
    PROVE  BucketOf(t) \in Nat /\ BucketOf(t) * Bucket <= t /\ t <= BucketOf(t) * Bucket + Bucket - 1
<1>1. CASE Bucket = 1
  BY <1>1 DEF BucketOf
<1>2. CASE Bucket = 2
  BY <1>2 DEF BucketOf
<1>3. CASE Bucket = 3
  BY <1>3 DEF BucketOf
<1>4. CASE Bucket = 4
  BY <1>4 DEF BucketOf
<1> QED
  BY <1>1, <1>2, <1>3, <1>4, TelemetryAssumption

LEMMA BucketOrder ==
    ASSUME NEW t \in Nat, NEW u \in Nat
    PROVE  /\ t <= u => BucketOf(t) <= BucketOf(u)
           /\ t <= u => t * Bucket <= u * Bucket
<1>1. CASE Bucket = 1
  BY <1>1 DEF BucketOf
<1>2. CASE Bucket = 2
  BY <1>2 DEF BucketOf
<1>3. CASE Bucket = 3
  BY <1>3 DEF BucketOf
<1>4. CASE Bucket = 4
  BY <1>4 DEF BucketOf
<1> QED
  BY <1>1, <1>2, <1>3, <1>4, TelemetryAssumption

\* A sweep that has just begun, is being read, or has stopped.
Begins(s) ==
    /\ sweep'[s].adds = {} /\ sweep'[s].sets = {} /\ sweep'[s].added = {} /\ sweep'[s].changed = {}
    /\ \/ sweep'[s].op \in {"off", "queued"}
       \/ sweep'[s].op = "polling" /\ sweep'[s].since = now /\ sweep'[s].own = {}
       \/ /\ sweep[s].op = "polling" /\ sweep'[s].op \in {"polling", "judging"}
          /\ sweep'[s].since = sweep[s].since /\ \A p \in sweep'[s].own \ sweep[s].own : p.at = now
          /\ sweep'[s].op = "judging" => sweep'[s].todo = Sites

\* A step that decides nothing: time passes, sweeps begin, are read or stop, old
\* rows go.
Quiet ==
    /\ samples' = samples /\ lapsed' = lapsed /\ groups' = groups /\ (Undisturbed' => Undisturbed)
    /\ evals' \subseteq evals
    /\ \A r \in evals : r.bucket * Bucket >= now - Retention => r \in evals'
    /\ \A r \in evals', q \in evals : r.bucket <= q.bucket => q \in evals'
    /\ \/ now' = now
       \/ now' = now + 1 /\ UNCHANGED <<sweep, evals>> /\ \A s \in Running : now - sweep[s].since < JobTimeout
    /\ \A s \in Sweeps : sweep'[s] = sweep[s] \/ Begins(s)

LEMMA QueuedEmpty ==
    ASSUME NEW t
    PROVE  /\ Queued(t).op = "queued" /\ Queued(t).since = t /\ Queued(t).own = {}
           /\ Queued(t).adds = {} /\ Queued(t).sets = {} /\ Queued(t).added = {} /\ Queued(t).changed = {}
BY DEF Queued, Off

\* A step that stops sweeps or has them wait loses nothing that was written.
LEMMA BeginsOff ==
    ASSUME NEW s \in Sweeps, NEW t, sweep'[s] = Off \/ sweep'[s] = Queued(t)
    PROVE  Begins(s)
<1>1. CASE sweep'[s] = Off
  BY <1>1 DEF Begins, Off
<1>2. CASE sweep'[s] = Queued(t)
  BY <1>2, QueuedEmpty DEF Begins
<1> QED
  BY <1>1, <1>2

LEMMA PollEffect ==
    ASSUME TypeOK, HandsFilled, NEW s \in Sweeps, NEW x \in Sites, PollSite(s, x)
    PROVE  Begins(s) /\ (\A t \in Sweeps \ {s} : sweep'[t] = sweep[t]) /\ (Undisturbed' => Undisturbed)
<1>1. PICK got \in {{}, Sampled(x)} :
         sweep' = [sweep EXCEPT ![s].own = @ \cup got,
                      ![s].op = IF sweep[s].todo \ {x} = {} THEN "judging" ELSE @,
                      ![s].todo = IF sweep[s].todo \ {x} = {} THEN Sites ELSE sweep[s].todo \ {x}]
  BY DEF PollSite
<1>2. sweep[s].op = "polling" /\ Hand(s) = {}
  BY DEF PollSite, HandsFilled
<1>3. PICK op, todo, own :
         /\ op = IF sweep[s].todo \ {x} = {} THEN "judging" ELSE sweep[s].op
         /\ todo = IF sweep[s].todo \ {x} = {} THEN Sites ELSE sweep[s].todo \ {x}
         /\ own = sweep[s].own \cup got
         /\ sweep' = [sweep EXCEPT ![s].own = own, ![s].op = op, ![s].todo = todo]
  BY <1>1
<1>4. /\ sweep'[s] = [sweep[s] EXCEPT !.own = own, !.op = op, !.todo = todo]
      /\ \A t \in Sweeps \ {s} : sweep'[t] = sweep[t]
  BY <1>3 DEF TypeOK
<1>5. /\ sweep'[s].adds = sweep[s].adds /\ sweep'[s].added = sweep[s].added /\ sweep'[s].sets = sweep[s].sets
      /\ sweep'[s].changed = sweep[s].changed /\ sweep'[s].since = sweep[s].since
      /\ sweep'[s].own = own /\ sweep'[s].op = op /\ sweep'[s].todo = todo
  BY <1>4 DEF TypeOK, Sweep
<1>6. \A p \in got : p.at = now
  BY DEF Sampled
<1>7. Undisturbed' => Undisturbed
  BY StillUndisturbed DEF PollSite, intent, Undisturbed, Kinds
<1>8. Begins(s)
  BY <1>2, <1>3, <1>5, <1>6 DEF Begins, Hand, Written, Rewritten
<1> QED
  BY <1>4, <1>7, <1>8

\* Every step is quiet, ends a group, or judges, flushes or commits.
LEMMA StepIsQuiet ==
    ASSUME TypeOK, HandsFilled, [Next]_vars
    PROVE  \/ Quiet \/ \E g \in Groups : DeleteGroup(g)
           \/ \E s \in Sweeps : FlushSite(s) \/ CommitSweep(s) \/ \E x \in Sites : EvaluateSite(s, x)
<1> USE DEF Quiet
<1>0. now \in Nat /\ \A r \in evals : r.bucket \in Nat
  BY TelemetryAssumption DEF TypeOK, Verdict
<1>1. ASSUME NEW s \in Sweeps, StartSweep(s) PROVE Quiet
  <2>1. sweep'[s].op = "polling" /\ sweep'[s].since = now /\ \A t \in Sweeps \ {s} : sweep'[t] = sweep[t]
    BY <1>1 DEF StartSweep, TypeOK, Sweep
  <2>2. /\ sweep'[s].adds = sweep[s].adds /\ sweep'[s].sets = sweep[s].sets
        /\ sweep'[s].added = sweep[s].added /\ sweep'[s].changed = sweep[s].changed
        /\ sweep'[s].own = sweep[s].own
    BY <1>1 DEF StartSweep, TypeOK, Sweep
  <2>3. Hand(s) = {} /\ sweep[s].own = {}
    <3>1. sweep[s].op = "queued" /\ sweep[s] \in {Off, Queued(sweep[s].since)}
      BY <1>1 DEF StartSweep, TypeOK
    <3> QED
      BY <3>1, QueuedEmpty, OffType DEF HandsFilled
  <2>4. Begins(s)
    BY <2>1, <2>2, <2>3 DEF Begins, Hand, Written, Rewritten
  <2> QED
    BY <1>1, <2>1, <2>4 DEF StartSweep, world, intent, Undisturbed
<1>2. ASSUME NEW s \in Sweeps, NEW x \in Sites, PollSite(s, x) PROVE Quiet
  BY <1>2, PollEffect DEF PollSite, world, intent
<1>3. ASSUME NEW s \in Sweeps, SweepFails(s) PROVE Quiet
  <2>1. \A t \in Sweeps \ {s} : sweep'[t] = sweep[t]
    BY <1>3 DEF SweepFails
  <2>2. Begins(s)
    BY <1>3, BeginsOff DEF SweepFails, TypeOK
  <2> QED
    BY <1>3, <2>1, <2>2 DEF SweepFails, world, intent, Undisturbed
<1>4. ASSUME NEW s \in Sweeps, SweepTimesOut(s) PROVE Quiet
  <2>1. \A t \in Sweeps \ {s} : sweep'[t] = sweep[t]
    BY <1>4 DEF SweepTimesOut
  <2>2. Begins(s)
    BY <1>4, BeginsOff DEF SweepTimesOut, TypeOK
  <2>3. Undisturbed' => Undisturbed
    BY <1>4, StillUndisturbed DEF SweepTimesOut, intent, Kinds
  <2> QED
    BY <1>4, <2>1, <2>2, <2>3 DEF SweepTimesOut, world, intent
<1>5. CASE RestartWorker
  <2>1. \A t \in Sweeps : sweep'[t] = sweep[t] \/ Begins(t)
    BY <1>5, BeginsOff DEF RestartWorker
  <2>2. ~Undisturbed'
    BY <1>5, StillUndisturbed DEF RestartWorker, intent, Kinds
  <2> QED
    BY <1>5, <2>1, <2>2 DEF RestartWorker, world, intent
<1>6. CASE ReapSlaEvaluations
  <2> SUFFICES ASSUME NEW r \in evals', NEW q \in evals, r.bucket <= q.bucket PROVE q \in evals'
    BY <1>6 DEF ReapSlaEvaluations, world, intent, Undisturbed
  <2>1. r \in evals /\ r.bucket * Bucket >= now - Retention
    BY <1>6 DEF ReapSlaEvaluations
  <2>2. r.bucket * Bucket <= q.bucket * Bucket
    BY <1>0, <2>1, BucketOrder
  <2>3. q.bucket * Bucket >= now - Retention
    BY <1>0, <2>1, <2>2, TelemetryAssumption
  <2> QED
    BY <1>6, <2>3 DEF ReapSlaEvaluations
<1>7. CASE Tick
  <2>1. Undisturbed' => Undisturbed
    BY <1>7, StillUndisturbed DEF Tick, intent, Undisturbed, Kinds
  <2> QED
    BY <1>7, <2>1 DEF Tick, intent
<1>8. ASSUME NEW e \in Ends, NEW gs \in SUBSET Groups, ChangePolicies(e, gs) PROVE Quiet
  <2>1. Undisturbed' => Undisturbed
    BY <1>8, StillUndisturbed DEF ChangePolicies, Kinds
  <2> QED
    BY <1>8, <2>1 DEF ChangePolicies, world
<1>9. CASE UNCHANGED vars
  BY <1>9 DEF vars, Undisturbed
<1> QED
  BY <1>1, <1>2, <1>3, <1>4, <1>5, <1>6, <1>7, <1>8, <1>9 DEF Next, Sweeping

\* What an evaluation decides, and for what.
Earlier(r, rows) == {q \in rows : SamePath(q, r) /\ q.bucket < r.bucket}
IsLast(q, rows) == q \in rows /\ \A o \in rows : o.bucket <= q.bucket

Decides(s, x) ==
    /\ sweep[s].op = "judging" /\ x \in sweep[s].todo /\ sweep[s].adds = {} /\ sweep[s].sets = {}
    /\ sweep'[s].op = "judged" /\ sweep'[s].todo = sweep[s].todo \ {x}
    /\ sweep'[s].own = sweep[s].own /\ sweep'[s].since = sweep[s].since
    /\ sweep'[s].added = sweep[s].added /\ sweep'[s].changed = sweep[s].changed
    /\ \A t \in Sweeps \ {s} : sweep'[t] = sweep[t]
    /\ lapsed' = lapsed \cup Lapsing(s, x) /\ UNCHANGED <<now, groups, samples, evals, mishaps>>

\* The new and the changed rows are of this site, bucket and time; a new one is
\* the only one of its path, and takes its previous class from the last before it.
LEMMA Decided ==
    ASSUME TypeOK, HandsFilled, NEW s \in Sweeps, NEW x \in Sites, EvaluateSite(s, x)
    PROVE  /\ Decides(s, x)
           /\ \A v \in sweep'[s].adds \cup sweep'[s].sets :
                 v.bucket = BucketOf(now) /\ v.until = now /\ SiteOf[v.end] = x
           /\ \A v \in sweep'[s].adds :
                 /\ v.of = v.group
                 /\ \A q \in evals : SamePath(q, v) => q.bucket # v.bucket
                 /\ (\E q \in evals : IsLast(q, Earlier(v, evals)))
                       => \E q \in evals : IsLast(q, Earlier(v, evals)) /\ v.prev = q.class
           /\ \A v \in sweep'[s].sets : \E q \in evals : SameRow(q, v) /\ q.group = v.group
           /\ \A v, w \in sweep'[s].adds : SamePath(v, w) => v = w
           /\ \A v \in sweep'[s].adds, w \in sweep'[s].sets : ~SamePath(v, w)
           /\ \A p \in Judged(s, x) : \E v \in sweep'[s].adds \cup sweep'[s].sets : v.end = p.end
<1> DEFINE b == BucketOf(now)
           P == Judged(s, x)
           known == {p \in P : ExistingRows(p, b) # {}}
<1>1. PICK pick \in Picks(P, b) :
         sweep' = [sweep EXCEPT ![s].op = "judged", ![s].todo = @ \ {x},
           ![s].sets = {[pick[p] EXCEPT !.class = ClassOf(s, p), !.until = now] : p \in known},
           ![s].adds = {NewRow(s, p, ClassOf(s, p), pick[p], b) : p \in P \ known}]
  BY DEF EvaluateSite
<1> DEFINE changed(p) == [pick[p] EXCEPT !.class = ClassOf(s, p), !.until = now]
           new(p) == NewRow(s, p, ClassOf(s, p), pick[p], b)
<1>2. /\ sweep'[s].adds = {new(p) : p \in P \ known} /\ sweep'[s].sets = {changed(p) : p \in known}
      /\ sweep'[s].op = "judged" /\ sweep'[s].todo = sweep[s].todo \ {x}
      /\ sweep'[s].own = sweep[s].own /\ sweep'[s].since = sweep[s].since
      /\ sweep'[s].added = sweep[s].added /\ sweep'[s].changed = sweep[s].changed
      /\ \A t \in Sweeps \ {s} : sweep'[t] = sweep[t]
  <2>1. PICK sets, adds :
           /\ sets = {changed(p) : p \in known} /\ adds = {new(p) : p \in P \ known}
           /\ sweep' = [sweep EXCEPT ![s].op = "judged", ![s].todo = @ \ {x}, ![s].sets = sets, ![s].adds = adds]
    BY <1>1
  <2> HIDE DEF changed, new, P, known, b
  <2>2. /\ sweep'[s] = [sweep[s] EXCEPT !.op = "judged", !.todo = @ \ {x}, !.sets = sets, !.adds = adds]
        /\ \A t \in Sweeps \ {s} : sweep'[t] = sweep[t]
    BY <2>1 DEF TypeOK
  <2>3. /\ sweep'[s].adds = adds /\ sweep'[s].sets = sets
        /\ sweep'[s].op = "judged" /\ sweep'[s].todo = sweep[s].todo \ {x}
        /\ sweep'[s].own = sweep[s].own /\ sweep'[s].since = sweep[s].since
        /\ sweep'[s].added = sweep[s].added /\ sweep'[s].changed = sweep[s].changed
    BY <2>2 DEF TypeOK, Sweep
  <2> QED
    BY <2>1, <2>2, <2>3
<1>3. Decides(s, x)
  BY <1>2 DEF Decides, EvaluateSite, HandsFilled, world, intent
<1>4. \A p \in P : p.end \in Ends /\ SiteOf[p.end] = x /\ p = Path(p.end, p.group)
  BY DEF Judged, PathsOf, Path
<1>5. ASSUME NEW p \in known
      PROVE  /\ pick[p] \in evals /\ pick[p] \in Verdict /\ pick[p].bucket = b /\ pick[p].end = p.end /\ pick[p].group = p.group
             /\ SameRow(pick[p], changed(p)) /\ changed(p).bucket = b /\ changed(p).until = now
             /\ changed(p).end = p.end /\ changed(p).group = p.group
  <2>1. pick[p] \in ExistingRows(p, b)
    BY DEF Picks
  <2>2. pick[p] \in evals /\ pick[p] \in Verdict /\ pick[p].bucket = b /\ pick[p].end = p.end /\ pick[p].group = p.group
    BY <2>1 DEF ExistingRows, RowsOf, TypeOK
  <2> HIDE DEF b, P, known
  <2> QED
    BY <2>2 DEF Verdict, SameRow
<1>6. ASSUME NEW p \in P \ known
      PROVE  /\ new(p).end = p.end /\ new(p).group = p.group /\ new(p).of = p.group /\ new(p).bucket = b /\ new(p).until = now
             /\ \A q \in evals : q.end = p.end /\ q.group = p.group => q.bucket # b
  <2>1. \A q \in evals : q.end = p.end /\ q.group = p.group => q.bucket # b
    BY DEF ExistingRows, RowsOf
  <2> HIDE DEF b, P, known
  <2> QED
    BY <2>1 DEF NewRow
<1>7. ASSUME NEW p \in P \ known, NEW q \in evals, IsLast(q, Earlier(new(p), evals))
      PROVE  \E o \in evals : IsLast(o, Earlier(new(p), evals)) /\ new(p).prev = o.class
  <2>1. Earlier(new(p), evals) = {o \in RowsOf(evals, p) : o.bucket < b}
    BY <1>6 DEF Earlier, RowsOf, SamePath
  <2>2. PreviousRows(p, b) = {o \in evals : IsLast(o, Earlier(new(p), evals))}
    BY <2>1 DEF PreviousRows, IsLast, RowsOf
  <2>3. pick[p] \in PreviousRows(p, b)
    BY <1>7, <2>2 DEF Picks
  <2>4. pick[p] \in evals /\ pick[p] # None
    BY <2>3, NoneAssumption DEF PreviousRows, RowsOf, TypeOK
  <2>5. new(p).prev = pick[p].class
    BY <2>4 DEF NewRow
  <2> QED
    BY <2>2, <2>3, <2>4, <2>5
<1> HIDE DEF b, P, known, changed, new
<1>8. \A v \in sweep'[s].adds : \E p \in P \ known : v = new(p)
  BY <1>2
<1>9. \A v \in sweep'[s].sets : \E p \in known : v = changed(p)
  BY <1>2
<1>10. known \subseteq P
  BY DEF known
<1>11. \A v, w \in sweep'[s].adds : SamePath(v, w) => v = w
  BY <1>4, <1>6, <1>8 DEF SamePath, Path
<1>12. \A v \in sweep'[s].adds, w \in sweep'[s].sets : ~SamePath(v, w)
  BY <1>4, <1>5, <1>6, <1>8, <1>9, <1>10 DEF SamePath, Path
<1>13. \A v \in sweep'[s].adds \cup sweep'[s].sets : v.bucket = b /\ v.until = now /\ SiteOf[v.end] = x
  BY <1>4, <1>5, <1>6, <1>8, <1>9, <1>10
<1>14. \A v \in sweep'[s].adds :
         /\ v.of = v.group
         /\ \A q \in evals : SamePath(q, v) => q.bucket # v.bucket
         /\ (\E q \in evals : IsLast(q, Earlier(v, evals)))
               => \E q \in evals : IsLast(q, Earlier(v, evals)) /\ v.prev = q.class
  <2>1. \A v \in sweep'[s].adds : v.of = v.group /\ \A q \in evals : SamePath(q, v) => q.bucket # v.bucket
    BY <1>6, <1>8 DEF SamePath
  <2> QED
    BY <2>1, <1>7, <1>8
<1>15. \A v \in sweep'[s].sets : \E q \in evals : SameRow(q, v) /\ q.group = v.group
  BY <1>5, <1>9
<1>16. \A p \in P : \E v \in sweep'[s].adds \cup sweep'[s].sets : v.end = p.end
  BY <1>2, <1>5, <1>6
<1> QED
  BY <1>3, <1>11, <1>12, <1>13, <1>14, <1>15, <1>16 DEF b, P

LEMMA FlushEffect ==
    ASSUME TypeOK, NEW s \in Sweeps, FlushSite(s)
    PROVE  /\ sweep[s].op = "judged" /\ sweep'[s].op = "judging" /\ sweep'[s].adds = {} /\ sweep'[s].sets = {}
           /\ sweep'[s].added = sweep[s].added \cup sweep[s].adds
           /\ sweep'[s].changed = sweep[s].changed \cup sweep[s].sets
           /\ sweep'[s].todo = sweep[s].todo /\ sweep'[s].own = sweep[s].own /\ sweep'[s].since = sweep[s].since
           /\ \A t \in Sweeps \ {s} : sweep'[t] = sweep[t]
           /\ UNCHANGED <<now, groups, samples, evals, lapsed, mishaps>>
<1>1. /\ sweep'[s] = [sweep[s] EXCEPT !.op = "judging", !.adds = {}, !.sets = {},
                          !.added = @ \cup sweep[s].adds, !.changed = @ \cup sweep[s].sets]
      /\ \A t \in Sweeps \ {s} : sweep'[t] = sweep[t]
  BY DEF FlushSite, TypeOK
<1>2. /\ sweep'[s].op = "judging" /\ sweep'[s].adds = {} /\ sweep'[s].sets = {}
      /\ sweep'[s].added = sweep[s].added \cup sweep[s].adds
      /\ sweep'[s].changed = sweep[s].changed \cup sweep[s].sets
      /\ sweep'[s].todo = sweep[s].todo /\ sweep'[s].own = sweep[s].own /\ sweep'[s].since = sweep[s].since
  BY <1>1 DEF TypeOK, Sweep
<1> QED
  BY <1>1, <1>2 DEF FlushSite, world, intent

LEMMA CommitEffect ==
    ASSUME TypeOK, NEW s \in Sweeps, CommitSweep(s)
    PROVE  /\ sweep[s].op = "judging" /\ sweep[s].todo = {} /\ sweep'[s].op = "queued" /\ Begins(s)
           /\ \A t \in Sweeps \ {s} : sweep'[t] = sweep[t]
           /\ samples' = samples \cup sweep[s].own
           /\ evals' = {Updated(r, sweep[s].changed) : r \in evals} \cup sweep[s].added
           /\ UNCHANGED <<now, groups, lapsed, mishaps>>
<1>1. sweep'[s] = Queued(now + 1) /\ \A t \in Sweeps \ {s} : sweep'[t] = sweep[t]
  BY DEF CommitSweep, TypeOK
<1>2. Begins(s) /\ sweep'[s].op = "queued"
  BY <1>1, BeginsOff, QueuedEmpty
<1> QED
  BY <1>1, <1>2 DEF CommitSweep, world, intent

\* An update keeps a row the row it is, and takes the class and the time of one
\* of the changes of that row, if there is one.
LEMMA UpdatedRow ==
    ASSUME NEW r \in Verdict, NEW changed \in SUBSET Verdict
    PROVE  /\ SameRow(Updated(r, changed), r) /\ SamePath(Updated(r, changed), r)
           /\ Updated(r, changed).prev = r.prev
           /\ \/ Updated(r, changed) = r /\ ~IsIn(r, changed)
              \/ \E v \in changed : /\ SameRow(v, r)
                                    /\ Updated(r, changed).class = v.class /\ Updated(r, changed).until = v.until
<1>1. CASE ~IsIn(r, changed)
  BY <1>1 DEF Updated, SameRow, SamePath
<1>2. CASE IsIn(r, changed)
  <2> DEFINE q == CHOOSE u \in changed : SameRow(u, r)
  <2>1. q \in changed /\ SameRow(q, r)
    BY <1>2 DEF IsIn
  <2>2. Updated(r, changed) = [r EXCEPT !.class = q.class, !.until = q.until]
    BY <1>2 DEF Updated
  <2> HIDE DEF q
  <2>3. /\ Updated(r, changed).class = q.class /\ Updated(r, changed).until = q.until
        /\ Updated(r, changed).prev = r.prev /\ Updated(r, changed).end = r.end /\ Updated(r, changed).of = r.of
        /\ Updated(r, changed).by = r.by /\ Updated(r, changed).bucket = r.bucket /\ Updated(r, changed).group = r.group
    BY <2>2 DEF Verdict
  <2>4. SameRow(Updated(r, changed), r) /\ SamePath(Updated(r, changed), r)
    BY <2>3 DEF SameRow, SamePath
  <2> QED
    BY <2>1, <2>3, <2>4
<1> QED
  BY <1>1, <1>2

\* Nothing of a sweep that did not move is disturbed by a quiet step.
LEMMA QuietKeepsHands ==
    ASSUME HandsInv, TypeOK', RowsInv', Quiet
    PROVE  HandsInv'
<1> USE DEF HandsInv
<1>1. now \in Nat /\ now' \in Nat /\ now <= now' /\ JobTimeout \in Nat
  BY TelemetryAssumption DEF Quiet, RowsInv, TypeOK
<1>2. \A s \in Sweeps : sweep'[s] = sweep[s] \/ Hand(s)' = {}
  BY DEF Quiet, Begins, Hand, Written, Rewritten
<1>3. HandsFilled'
  BY DEF Quiet, Begins, HandsFilled, Hand, Written, Rewritten
<1>4. HandsBySite'
  BY <1>2 DEF Quiet, HandsBySite, Hand, Written, Rewritten
<1>5. PathsOnce'
  BY <1>2 DEF Quiet, PathsOnce, Hand, Written, Rewritten, SamePath
<1>6. RowsDated'
  <2>1. \A r : Dated(r) /\ r.until \in Nat => Dated(r)'
    BY <1>1 DEF Dated
  <2>2. \A r \in Verdict : r.until \in Nat
    BY TelemetryAssumption DEF Verdict
  <2>3. evals' \subseteq evals /\ evals \subseteq Verdict
    BY DEF Quiet, RowsInv, TypeOK
  <2>4. \A r \in evals' : Dated(r)'
    BY <2>1, <2>2, <2>3 DEF RowsDated
  <2>5. ASSUME NEW s \in Sweeps, NEW v \in Hand(s)' PROVE Dated(v)' /\ sweep'[s].since <= v.until
    <3>1. sweep'[s] = sweep[s] /\ v \in Hand(s)
      BY <1>2, <2>5 DEF Hand, Written, Rewritten
    <3>2. v \in Verdict
      BY <3>1 DEF RowsInv, TypeOK, Sweep, Hand, Written, Rewritten
    <3>3. Dated(v) /\ sweep[s].since <= v.until
      BY <3>1 DEF RowsDated
    <3> QED
      BY <3>1, <3>2, <3>3, <2>1, <2>2
  <2> QED
    BY <2>4, <2>5 DEF RowsDated
<1>7. Prompt'
  <2> SUFFICES ASSUME NEW s \in Sweeps, sweep'[s].op \notin {"off", "queued"}
               PROVE  /\ sweep'[s].since <= now' /\ now' <= sweep'[s].since + JobTimeout
                      /\ \A p \in sweep'[s].own : sweep'[s].since <= p.at /\ p.at <= now'
    BY DEF Prompt, Running
  <2>1. sweep[s].since \in Int /\ sweep'[s].since \in Int
    BY TelemetryAssumption DEF RowsInv, TypeOK, Sweep
  <2>2. \A p \in sweep[s].own \cup sweep'[s].own : p.at \in Int
    BY TelemetryAssumption DEF RowsInv, TypeOK, Sweep, Sample
  <2>3. sweep[s].op \notin {"off", "queued"} =>
           /\ sweep[s].since <= now /\ now <= sweep[s].since + JobTimeout
           /\ \A p \in sweep[s].own : sweep[s].since <= p.at /\ p.at <= now
    BY DEF Prompt, Running
  <2>4. CASE now' = now
    <3>1. CASE sweep'[s] = sweep[s]
      BY <2>3, <2>4, <3>1
    <3>2. CASE Begins(s)
      <4>1. CASE sweep'[s].since = now /\ sweep'[s].own = {}
        BY <1>1, <2>4, <4>1
      <4>2. CASE /\ sweep[s].op = "polling" /\ sweep'[s].since = sweep[s].since
                 /\ \A p \in sweep'[s].own \ sweep[s].own : p.at = now
        <5>1. sweep[s].since <= now /\ now <= sweep[s].since + JobTimeout
          BY <2>3, <4>2
        <5>2. ASSUME NEW p \in sweep'[s].own PROVE sweep[s].since <= p.at /\ p.at <= now
          <6>1. CASE p \in sweep[s].own
            BY <2>3, <4>2, <6>1
          <6>2. CASE p \notin sweep[s].own
            BY <1>1, <4>2, <5>1, <6>2
          <6> QED
            BY <6>1, <6>2
        <5> QED
          BY <2>4, <4>2, <5>1, <5>2
      <4> QED
        BY <3>2, <4>1, <4>2 DEF Begins
    <3> QED
      BY <3>1, <3>2 DEF Quiet
  <2>5. CASE now' = now + 1 /\ UNCHANGED <<sweep, evals>> /\ \A t \in Running : now - sweep[t].since < JobTimeout
    <3>1. now - sweep[s].since < JobTimeout
      BY <2>5 DEF Running
    <3> QED
      BY <1>1, <2>1, <2>2, <2>3, <2>5, <3>1
  <2> QED
    BY <2>4, <2>5 DEF Quiet
<1>8. OwnBefore'
  BY <1>2 DEF Quiet, OwnBefore, Hand, Written, Rewritten
<1> QED
  BY <1>3, <1>4, <1>5, <1>6, <1>7, <1>8

LEMMA EvaluateKeepsHands ==
    ASSUME HandsInv, TypeOK', RowsInv', NEW s \in Sweeps, NEW x \in Sites, EvaluateSite(s, x)
    PROVE  HandsInv'
<1> DEFINE new == sweep'[s].adds \cup sweep'[s].sets
           old == sweep[s].added \cup sweep[s].changed
<1> USE DEF HandsInv
<1>0. TypeOK /\ now \in Nat
  BY TelemetryAssumption DEF RowsInv, TypeOK
<1>1. Decides(s, x)
  BY <1>0, Decided
<1>2. \A v \in new : v.bucket = BucketOf(now) /\ v.until = now /\ SiteOf[v.end] = x
  BY <1>0, Decided
<1>3. /\ \A v, w \in sweep'[s].adds : SamePath(v, w) => v = w
      /\ \A v \in sweep'[s].adds, w \in sweep'[s].sets : ~SamePath(v, w)
  BY <1>0, Decided
<1>4. Hand(s)' = new \cup old /\ Hand(s) = old /\ \A t \in Sweeps \ {s} : Hand(t)' = Hand(t)
  BY <1>1 DEF Decides, Hand, Written, Rewritten
<1>5. \A v \in old : SiteOf[v.end] # x /\ SiteOf[v.end] \notin sweep[s].todo
  BY <1>1, <1>4 DEF Decides, HandsBySite
<1>6. HandsFilled'
  BY <1>1 DEF Decides, HandsFilled, Hand, Written, Rewritten
<1>7. HandsBySite'
  <2>1. \A v \in Hand(s)' : SiteOf[v.end] \notin sweep'[s].todo
    BY <1>1, <1>2, <1>4, <1>5 DEF Decides
  <2>2. \A v \in new, w \in old : SiteOf[v.end] # SiteOf[w.end]
    BY <1>2, <1>5
  <2> QED
    BY <1>1, <1>4, <2>1, <2>2 DEF Decides, HandsBySite
<1>8. PathsOnce'
  <2>1. \A v \in new, w \in old : ~SamePath(v, w) /\ ~SamePath(w, v)
    BY <1>2, <1>5 DEF SamePath
  <2>2. /\ \A v, w \in sweep[s].added : SamePath(v, w) => v = w
        /\ \A v \in sweep[s].added, w \in sweep[s].changed : ~SamePath(v, w)
    BY DEF PathsOnce, Written, Rewritten
  <2>3. /\ \A v, w \in Written(s)' : SamePath(v, w) => v = w
        /\ \A v \in Written(s)', w \in Rewritten(s)' : ~SamePath(v, w)
    BY <1>1, <1>3, <2>1, <2>2 DEF Decides, Written, Rewritten
  <2>4. \A t \in Sweeps \ {s} : Written(t)' = Written(t) /\ Rewritten(t)' = Rewritten(t)
    BY <1>1 DEF Decides, Written, Rewritten
  <2> QED
    BY <2>3, <2>4 DEF PathsOnce, SamePath
<1>9. RowsDated'
  <2>1. sweep[s].since <= now
    BY <1>1 DEF Decides, Prompt, Running
  <2>2. \A v \in new : Dated(v)' /\ sweep'[s].since <= v.until
    BY <1>0, <1>1, <1>2, <2>1 DEF Decides, Dated
  <2>3. \A r : Dated(r)' <=> Dated(r)
    BY <1>1 DEF Decides, Dated
  <2>4. \A v \in old : Dated(v) /\ sweep'[s].since <= v.until
    BY <1>1, <1>4 DEF Decides, RowsDated
  <2> QED
    BY <1>1, <1>4, <2>2, <2>3, <2>4 DEF Decides, RowsDated
<1>10. Prompt'
  <2>1. now' = now /\ \A t \in Sweeps : sweep'[t].since = sweep[t].since /\ sweep'[t].own = sweep[t].own
    BY <1>1 DEF Decides
  <2>2. \A t \in Running' : t \in Running
    BY <1>1 DEF Decides, Running
  <2> QED
    BY <2>1, <2>2 DEF Prompt, Running
<1>11. OwnBefore'
  <2>1. \A p \in sweep[s].own : p.at <= now
    BY <1>1 DEF Decides, Prompt, Running
  <2> QED
    BY <1>1, <1>2, <1>4, <2>1 DEF Decides, OwnBefore
<1> QED
  BY <1>6, <1>7, <1>8, <1>9, <1>10, <1>11

LEMMA FlushKeepsHands ==
    ASSUME HandsInv, TypeOK', RowsInv', NEW s \in Sweeps, FlushSite(s)
    PROVE  HandsInv'
<1> USE DEF HandsInv
<1>1. /\ sweep[s].op = "judged" /\ sweep'[s].op = "judging" /\ sweep'[s].adds = {} /\ sweep'[s].sets = {}
      /\ sweep'[s].todo = sweep[s].todo /\ sweep'[s].own = sweep[s].own /\ sweep'[s].since = sweep[s].since
      /\ \A t \in Sweeps \ {s} : sweep'[t] = sweep[t]
      /\ UNCHANGED <<now, groups, samples, evals, mishaps>>
  BY FlushEffect DEF RowsInv
<1>2. \A t \in Sweeps : Written(t)' = Written(t) /\ Rewritten(t)' = Rewritten(t) /\ Hand(t)' = Hand(t)
  BY FlushEffect DEF RowsInv, Hand, Written, Rewritten
<1>3. HandsFilled'
  BY <1>1, <1>2 DEF HandsFilled
<1>4. HandsBySite'
  BY <1>1, <1>2 DEF HandsBySite
<1>5. PathsOnce'
  BY <1>2 DEF PathsOnce, SamePath
<1>6. RowsDated'
  BY <1>1, <1>2 DEF RowsDated, Dated
<1>7. Prompt'
  <2>1. now' = now /\ \A t \in Sweeps : sweep'[t].since = sweep[t].since /\ sweep'[t].own = sweep[t].own
    BY <1>1
  <2>2. \A t \in Running' : t \in Running
    BY <1>1 DEF Running
  <2> QED
    BY <2>1, <2>2 DEF Prompt, Running
<1>8. OwnBefore'
  BY <1>1, <1>2 DEF OwnBefore
<1> QED
  BY <1>3, <1>4, <1>5, <1>6, <1>7, <1>8

\* What is committed was in hand, or is a row that was there.
LEMMA CommitKeepsHands ==
    ASSUME HandsInv, TypeOK', RowsInv', NEW s \in Sweeps, CommitSweep(s)
    PROVE  HandsInv'
<1> USE DEF HandsInv
<1>1. /\ sweep'[s].op = "queued" /\ Begins(s) /\ (\A t \in Sweeps \ {s} : sweep'[t] = sweep[t]) /\ now' = now
      /\ evals' = {Updated(r, sweep[s].changed) : r \in evals} \cup sweep[s].added
  BY CommitEffect DEF RowsInv
<1>2. \A t \in Sweeps : Hand(t)' = {} \/ sweep'[t] = sweep[t]
  BY <1>1 DEF Begins, Hand, Written, Rewritten
<1>3. HandsFilled'
  BY <1>1 DEF Begins, HandsFilled, Hand, Written, Rewritten
<1>4. HandsBySite'
  BY <1>2 DEF HandsBySite, Hand, Written, Rewritten
<1>5. PathsOnce'
  BY <1>2 DEF PathsOnce, Hand, Written, Rewritten, SamePath
<1>6. RowsDated'
  <2>1. \A r : Dated(r)' <=> Dated(r)
    BY <1>1 DEF Dated
  <2>2. \A v \in sweep[s].added \cup sweep[s].changed : Dated(v)
    BY DEF RowsDated, Hand, Written, Rewritten
  <2>3. ASSUME NEW r \in evals PROVE Dated(Updated(r, sweep[s].changed))
    <3>1. r \in Verdict /\ sweep[s].changed \in SUBSET Verdict /\ Dated(r)
      BY DEF RowsInv, TypeOK, Sweep, RowsDated
    <3>2. Updated(r, sweep[s].changed).bucket = r.bucket
      BY <3>1, UpdatedRow DEF SameRow
    <3>3. CASE Updated(r, sweep[s].changed) = r
      BY <3>1, <3>3
    <3>4. CASE \E v \in sweep[s].changed : SameRow(v, r) /\ Updated(r, sweep[s].changed).until = v.until
      BY <2>2, <3>2, <3>4 DEF Dated, SameRow
    <3> QED
      BY <3>1, <3>3, <3>4, UpdatedRow
  <2>4. \A r \in evals' : Dated(r)'
    BY <1>1, <2>1, <2>2, <2>3
  <2>5. \A t \in Sweeps : \A v \in Hand(t)' : Dated(v)' /\ sweep'[t].since <= v.until
    BY <1>2, <2>1 DEF RowsDated, Hand, Written, Rewritten
  <2> QED
    BY <2>4, <2>5 DEF RowsDated
<1>7. Prompt'
  BY <1>1 DEF Prompt, Running
<1>8. OwnBefore'
  BY <1>2 DEF OwnBefore, Hand, Written, Rewritten
<1> QED
  BY <1>3, <1>4, <1>5, <1>6, <1>7, <1>8

\* What is done to a row when its group goes leaves it the row it is.
LEMMA DeleteEffect ==
    ASSUME TypeOK, NEW g \in Groups, DeleteGroup(g)
    PROVE  /\ UNCHANGED <<now, samples, sweep>> /\ groups' # Groups
           /\ \A r \in evals' : \E q \in evals : SameRow(q, r) /\ r.until = q.until
           /\ \A q \in evals : \E r \in evals' : SameRow(q, r)
<1>1. UNCHANGED <<now, samples, sweep>> /\ groups' # Groups
  BY DEF DeleteGroup, world, TypeOK
<1>2. \A r \in Verdict : [r EXCEPT !.group = None].until = r.until /\ SameRow(r, [r EXCEPT !.group = None])
  BY DEF Verdict, SameRow
<1> DEFINE left(r) == IF r.group = g THEN [r EXCEPT !.group = None] ELSE r
<1>3. \A r \in evals : SameRow(r, left(r)) /\ left(r).until = r.until
  BY <1>2 DEF TypeOK, SameRow
<1>4. evals' = {left(r) : r \in evals}
  BY DEF DeleteGroup
<1> HIDE DEF left
<1> QED
  BY <1>1, <1>3, <1>4

LEMMA DeleteKeepsHands ==
    ASSUME HandsInv, TypeOK', RowsInv', NEW g \in Groups, DeleteGroup(g)
    PROVE  HandsInv'
<1> USE DEF HandsInv
<1>1. /\ UNCHANGED <<now, samples, sweep>>
      /\ \A r \in evals' : \E q \in evals : SameRow(q, r) /\ r.until = q.until
  BY DeleteEffect DEF RowsInv
<1>2. HandsFilled' /\ HandsBySite' /\ PathsOnce' /\ OwnBefore' /\ Prompt'
  BY <1>1 DEF HandsFilled, HandsBySite, PathsOnce, SamePath, OwnBefore, Prompt, Running, Hand, Written, Rewritten
<1>3. RowsDated'
  BY <1>1 DEF RowsDated, Dated, SameRow, Hand, Written, Rewritten
<1> QED
  BY <1>2, <1>3

LEMMA HandsInit == Init => HandsInv
<1> SUFFICES ASSUME Init PROVE HandsInv
  OBVIOUS
<1>1. PICK t \in Sweeps : sweep = [u \in Sweeps |-> IF u = t THEN Queued(0) ELSE Off]
  BY DEF Init
<1>2. \A s \in Sweeps : sweep[s] \in {Queued(0), Off}
  BY <1>1
<1>3. \A s \in Sweeps : Hand(s) = {} /\ sweep[s].op \in {"off", "queued"}
  <2>1. ASSUME NEW s \in Sweeps PROVE Hand(s) = {} /\ sweep[s].op \in {"off", "queued"}
    <3>1. CASE sweep[s] = Off
      BY <3>1 DEF Off, Hand, Written, Rewritten
    <3>2. CASE sweep[s] = Queued(0)
      BY <3>2, QueuedEmpty DEF Hand, Written, Rewritten
    <3> QED
      BY <1>2, <3>1, <3>2
  <2> QED
    BY <2>1
<1>4. evals = {} /\ Running = {}
  BY <1>3 DEF Init, Running
<1>5. \A s \in Sweeps : Written(s) = {} /\ Rewritten(s) = {} /\ sweep[s].adds = {} /\ sweep[s].sets = {}
  BY <1>3 DEF Hand, Written, Rewritten
<1>6. HandsFilled /\ HandsBySite /\ PathsOnce
  BY <1>3, <1>5 DEF HandsFilled, HandsBySite, PathsOnce
<1>7. RowsDated /\ Prompt /\ OwnBefore
  BY <1>3, <1>4 DEF RowsDated, Prompt, OwnBefore
<1> QED
  BY <1>6, <1>7, RowsInit DEF HandsInv

LEMMA HandsStep == HandsInv /\ [Next]_vars => HandsInv'
<1> SUFFICES ASSUME HandsInv, [Next]_vars PROVE HandsInv'
  OBVIOUS
<1>1. RowsInv' /\ TypeOK' /\ TypeOK /\ HandsFilled
  BY RowsStep DEF HandsInv, RowsInv
<1> QED
  BY <1>1, StepIsQuiet, QuietKeepsHands, EvaluateKeepsHands, FlushKeepsHands, CommitKeepsHands, DeleteKeepsHands

-----------------------------------------------------------------------------
(* The chain of sweeps. *)

\* The table keeps a verdict for longer than a sweep may take: 90 days by
\* default, and ten minutes.
KeptLonger == Retention >= JobTimeout + Bucket - 1

\* A sweep that would lose a new row to one that is committed.
Doomed(s) == \E r \in sweep[s].adds, q \in evals : Clash(r, q)

\* A row a sweep means to change is still there when it writes.
SetsFound == \A s \in Sweeps : \A v \in sweep[s].sets : IsIn(v, evals)

\* Whoever committed last is not doomed.
SomeoneGoesOn == mishaps["timeout"] = 0 /\ groups = Groups => \E s \in Sweeps : sweep[s].op # "off" /\ ~Doomed(s)

GoesOnInv == HandsInv /\ SetsFound /\ SomeoneGoesOn

\* The reaper leaves what was judged within the retention.
LEMMA StaysInTable ==
    ASSUME HandsInv, Quiet, NEW q \in evals, NEW u \in Nat, q.bucket = BucketOf(u),
           u >= now' - Retention + Bucket - 1
    PROVE  q \in evals'
<1>1. now \in Nat /\ Retention \in Nat /\ Bucket \in Nat
  BY TelemetryAssumption DEF HandsInv, RowsInv, TypeOK
<1>2. CASE now' = now
  <2>1. q.bucket * Bucket >= now - Retention
    <3> DEFINE m == BucketOf(u) * Bucket
    <3>1. m \in Int /\ u <= m + Bucket - 1
      BY <1>1, BucketSpan
    <3> HIDE DEF m
    <3>2. m >= now - Retention
      BY <1>1, <1>2, <3>1
    <3> QED
      BY <3>2 DEF m
  <2> QED
    BY <2>1 DEF Quiet
<1>3. CASE evals' = evals
  BY <1>3
<1> QED
  BY <1>2, <1>3 DEF Quiet

LEMMA SetsFoundStep ==
    ASSUME KeptLonger, HandsInv, SetsFound, [Next]_vars
    PROVE  SetsFound'
<1>1. TypeOK /\ HandsFilled
  BY DEF HandsInv, RowsInv
<1>2. ASSUME NEW s \in Sweeps, NEW v \in sweep[s].sets
      PROVE  v.until \in Nat /\ v.bucket = BucketOf(v.until) /\ v.until >= now - JobTimeout
  <2>1. v \in Hand(s) /\ sweep[s].op = "judged"
    BY <1>1 DEF Hand, Rewritten, HandsFilled
  <2>2. v.until \in Nat /\ now \in Nat /\ JobTimeout \in Nat /\ sweep[s].since \in Nat
    BY <1>1, TelemetryAssumption DEF TypeOK, Sweep, Verdict
  <2>3. v.bucket = BucketOf(v.until) /\ sweep[s].since <= v.until /\ now <= sweep[s].since + JobTimeout
    BY <2>1 DEF HandsInv, RowsDated, Dated, Prompt, Running
  <2> QED
    BY <2>2, <2>3
<1>3. CASE Quiet
  <2> SUFFICES ASSUME NEW s \in Sweeps, NEW v \in sweep'[s].sets PROVE IsIn(v, evals')
    BY DEF SetsFound, IsIn
  <2>1. sweep'[s] = sweep[s] /\ v \in sweep[s].sets
    BY <1>3 DEF Quiet, Begins
  <2>2. PICK q \in evals : SameRow(q, v)
    BY <2>1 DEF SetsFound, IsIn
  <2>3. v.until \in Nat /\ q.bucket = BucketOf(v.until) /\ v.until >= now - JobTimeout
    BY <1>2, <2>1, <2>2 DEF SameRow
  <2>4. q \in evals'
    <3>1. CASE now' = now
      <4>1. v.until >= now' - Retention + Bucket - 1
        BY <2>3, <3>1, <1>1, TelemetryAssumption DEF KeptLonger, TypeOK
      <4> QED
        BY <1>3, <2>3, <4>1, StaysInTable
    <3> QED
      BY <1>3, <3>1 DEF Quiet
  <2> QED
    BY <2>2, <2>4 DEF IsIn
<1>4. ASSUME NEW s \in Sweeps, NEW x \in Sites, EvaluateSite(s, x) PROVE SetsFound'
  BY <1>1, <1>4, Decided DEF Decides, SetsFound, IsIn
<1>5. ASSUME NEW s \in Sweeps, FlushSite(s) PROVE SetsFound'
  BY <1>1, <1>5, FlushEffect DEF SetsFound, IsIn
<1>6. ASSUME NEW s \in Sweeps, CommitSweep(s) PROVE SetsFound'
  <2>1. \A t \in Sweeps : sweep'[t].sets \subseteq sweep[t].sets
    BY <1>1, <1>6, CommitEffect DEF Begins
  <2>2. \A q \in evals : \E r \in evals' : SameRow(r, q)
    <3> SUFFICES ASSUME NEW q \in evals PROVE SameRow(Updated(q, sweep[s].changed), q)
      BY <1>1, <1>6, CommitEffect
    <3> QED
      BY <1>1, UpdatedRow DEF TypeOK, Sweep
  <2> QED
    BY <2>1, <2>2 DEF SetsFound, IsIn, SameRow
<1>7. ASSUME NEW g \in Groups, DeleteGroup(g) PROVE SetsFound'
  BY <1>1, <1>7, DeleteEffect DEF SetsFound, IsIn, SameRow
<1> QED
  BY <1>1, <1>3, <1>4, <1>5, <1>6, <1>7, StepIsQuiet

LEMMA NoTimeoutYet ==
    ASSUME TypeOK, NEW kind \in Kinds, Mishap(kind), mishaps'["timeout"] = 0
    PROVE  mishaps["timeout"] = 0 /\ kind # "timeout"
BY DEF TypeOK, Mishap, Kinds

\* A sweep that goes on and has no more new rows than it had, nor the table, is
\* as safe as it was.
LEMMA StillSafe ==
    ASSUME SomeoneGoesOn, mishaps["timeout"] = 0, groups = Groups, evals' \subseteq evals,
           \A t \in Sweeps : sweep[t].op # "off" =>
              sweep'[t].op # "off" /\ sweep'[t].adds \subseteq sweep[t].adds
    PROVE  SomeoneGoesOn'
BY DEF SomeoneGoesOn, Doomed, Clash

LEMMA SomeoneStep ==
    ASSUME GoesOnInv, [Next]_vars
    PROVE  SomeoneGoesOn'
<1> SUFFICES ASSUME mishaps'["timeout"] = 0, groups' = Groups PROVE SomeoneGoesOn'
  BY DEF SomeoneGoesOn
<1> USE DEF GoesOnInv, HandsInv, RowsInv
<1>1. TypeOK /\ HandsFilled
  OBVIOUS
<1>2. ASSUME NEW s \in Sweeps, StartSweep(s) PROVE SomeoneGoesOn'
  <2>1. /\ sweep'[s].op = "polling" /\ sweep'[s].adds = sweep[s].adds
        /\ \A t \in Sweeps \ {s} : sweep'[t] = sweep[t]
    BY <1>1, <1>2 DEF StartSweep, TypeOK, Sweep
  <2> QED
    BY <1>2, <2>1, StillSafe DEF StartSweep, intent
<1>3. ASSUME NEW s \in Sweeps, NEW x \in Sites, PollSite(s, x) PROVE SomeoneGoesOn'
  <2>1. Begins(s) /\ sweep[s].op = "polling" /\ \A t \in Sweeps \ {s} : sweep'[t] = sweep[t]
    BY <1>1, <1>3, PollEffect DEF PollSite
  <2>2. sweep'[s].op # "off"
    <3>1. PICK got : sweep' = [sweep EXCEPT ![s].own = @ \cup got,
                          ![s].op = IF sweep[s].todo \ {x} = {} THEN "judging" ELSE @,
                          ![s].todo = IF sweep[s].todo \ {x} = {} THEN Sites ELSE sweep[s].todo \ {x}]
      BY <1>3 DEF PollSite
    <3> QED
      BY <1>1, <2>1, <3>1 DEF TypeOK, Sweep
  <2>3. mishaps["timeout"] = 0
    BY <1>1, <1>3, NoTimeoutYet DEF PollSite, Kinds
  <2> QED
    BY <1>3, <2>1, <2>2, <2>3, StillSafe DEF PollSite, Begins, intent
<1>4. ASSUME NEW s \in Sweeps, NEW x \in Sites, EvaluateSite(s, x) PROVE SomeoneGoesOn'
  <2>1. Decides(s, x)
    BY <1>1, <1>4, Decided
  <2>2. \A v \in sweep'[s].adds, q \in evals : ~Clash(v, q)
    BY <1>1, <1>4, Decided DEF Clash, SamePath
  <2> QED
    BY <2>1, <2>2 DEF Decides, SomeoneGoesOn, Doomed
<1>5. ASSUME NEW s \in Sweeps, FlushSite(s) PROVE SomeoneGoesOn'
  <2>1. /\ sweep'[s].op = "judging" /\ sweep'[s].adds = {} /\ \A t \in Sweeps \ {s} : sweep'[t] = sweep[t]
        /\ UNCHANGED <<groups, evals, mishaps>>
    BY <1>1, <1>5, FlushEffect
  <2> QED
    BY <2>1, StillSafe
<1>6. ASSUME NEW s \in Sweeps, SweepFails(s) PROVE SomeoneGoesOn'
  <2>1. UNCHANGED <<groups, evals, mishaps>> /\ \A t \in Sweeps \ {s} : sweep'[t] = sweep[t]
    BY <1>6 DEF SweepFails, intent
  <2>2. \A r \in sweep[s].adds : r.group \in groups \cup {None}
    BY <1>1, <2>1 DEF TypeOK, Sweep, Verdict
  <2>3. Doomed(s)
    BY <1>6, <2>2 DEF SweepFails, FlushFails, SetsFound, Doomed
  <2> QED
    BY <2>1, <2>3 DEF SomeoneGoesOn, Doomed
<1>7. ASSUME NEW s \in Sweeps, CommitSweep(s) PROVE SomeoneGoesOn'
  BY <1>1, <1>7, CommitEffect DEF Begins, SomeoneGoesOn, Doomed
<1>8. CASE RestartWorker
  <2>1. mishaps["timeout"] = 0
    BY <1>1, <1>8, NoTimeoutYet DEF RestartWorker, Kinds
  <2>2. \A t \in Sweeps : sweep'[t] = sweep[t] \/ (sweep'[t].op = "queued" /\ sweep'[t].adds = {})
    BY <1>8, QueuedEmpty DEF RestartWorker
  <2> QED
    BY <1>8, <2>1, <2>2, StillSafe DEF RestartWorker, intent
<1>9. CASE ReapSlaEvaluations
  BY <1>9, StillSafe DEF ReapSlaEvaluations, intent
<1>10. CASE Tick
  <2>1. mishaps["timeout"] = 0
    BY <1>1, <1>10, NoTimeoutYet DEF Tick, Kinds
  <2> QED
    BY <1>10, <2>1, StillSafe DEF Tick, intent
<1>11. ASSUME NEW e \in Ends, NEW gs \in SUBSET Groups, ChangePolicies(e, gs) PROVE SomeoneGoesOn'
  <2>1. mishaps["timeout"] = 0
    BY <1>1, <1>11, NoTimeoutYet DEF ChangePolicies, Kinds
  <2> QED
    BY <1>11, <2>1, StillSafe DEF ChangePolicies
<1>12. CASE UNCHANGED vars
  BY <1>12, StillSafe DEF vars
<1>13. ASSUME NEW s \in Sweeps PROVE ~SweepTimesOut(s)
  BY <1>1, NoTimeoutYet DEF SweepTimesOut, Kinds
<1>14. ASSUME NEW g \in Groups PROVE ~DeleteGroup(g)
  BY <1>1, DeleteEffect
<1> QED
  BY <1>2, <1>3, <1>4, <1>5, <1>6, <1>7, <1>8, <1>9, <1>10, <1>11, <1>12, <1>13, <1>14 DEF Next, Sweeping

\* Telemetry goes on: a sweep that loses at the constraint loses to another that
\* is still there, a row it changes was not reaped since it was found, and a
\* restart loses no sweep. Only the queue's timeout and a group deleted under a
\* sweep end the chain.
THEOREM GoesOn ==
    ASSUME KeptLonger
    PROVE  Spec => []TelemetryGoesOn
<1>1. Init => GoesOnInv
  <2> SUFFICES ASSUME Init PROVE GoesOnInv
    OBVIOUS
  <2>1. HandsInv /\ evals = {}
    BY HandsInit DEF Init
  <2>2. PICK t \in Sweeps : sweep[t].op = "queued"
    BY QueuedEmpty DEF Init
  <2>3. \A s \in Sweeps : sweep[s].sets = {}
    BY <2>1, QueuedEmpty DEF Init, Off
  <2> QED
    BY <2>1, <2>2, <2>3 DEF GoesOnInv, SetsFound, SomeoneGoesOn, Doomed
<1>2. GoesOnInv /\ [Next]_vars => GoesOnInv'
  BY HandsStep, SetsFoundStep, SomeoneStep DEF GoesOnInv
<1>3. GoesOnInv => TelemetryGoesOn
  BY DEF GoesOnInv, SomeoneGoesOn, TelemetryGoesOn
<1> QED
  BY <1>1, <1>2, <1>3, PTL DEF Spec

-----------------------------------------------------------------------------
(* What is kept was judged. *)

\* What one sweep alone has in hand is later than what is in the table.
LaterInHand == Undisturbed => \A s \in Sweeps : \A v \in Hand(s), r \in evals : r.until <= v.until

Recent(p) == p.at >= now - Retention + Bucket - 1

\* The rows a commit will leave as the sweep has them in hand.
Kept(s) == Written(s) \cup {v \in Rewritten(s) : IsIn(v, evals)}

\* What one sweep alone has read of the sites it is done with, it has judged,
\* unless it came too late for it.
OwnJudged ==
    Undisturbed => \A s \in Sweeps : sweep[s].op \in {"judging", "judged"} =>
       \A p \in sweep[s].own \ lapsed :
          SiteOf[p.end] \notin sweep[s].todo /\ Recent(p) => \E v \in Kept(s) : v.end = p.end

JudgedInv == HandsInv /\ LaterInHand /\ OwnJudged /\ SamplesAreJudged

LEMMA LaterInHandStep ==
    ASSUME HandsInv, LaterInHand, [Next]_vars
    PROVE  LaterInHand'
<1>1. TypeOK /\ HandsFilled
  BY DEF HandsInv, RowsInv
<1>2. CASE Quiet
  BY <1>2 DEF Quiet, Begins, LaterInHand, Hand, Written, Rewritten
<1>3. ASSUME NEW s \in Sweeps, NEW x \in Sites, EvaluateSite(s, x) PROVE LaterInHand'
  <2>1. Decides(s, x) /\ \A v \in sweep'[s].adds \cup sweep'[s].sets : v.until = now
    BY <1>1, <1>3, Decided
  <2>2. \A r \in evals : r.until <= now
    BY DEF HandsInv, RowsDated, Dated
  <2>3. Undisturbed' => Undisturbed
    BY <2>1 DEF Decides, Undisturbed
  <2> QED
    BY <2>1, <2>2, <2>3 DEF Decides, LaterInHand, Hand, Written, Rewritten
<1>4. ASSUME NEW s \in Sweeps, FlushSite(s) PROVE LaterInHand'
  <2>1. \A t \in Sweeps : Hand(t)' = Hand(t)
    BY <1>1, <1>4, FlushEffect DEF Hand, Written, Rewritten
  <2> QED
    BY <1>1, <1>4, <2>1, FlushEffect DEF LaterInHand, Undisturbed
<1>5. ASSUME NEW s \in Sweeps, CommitSweep(s) PROVE LaterInHand'
  <2> SUFFICES ASSUME Undisturbed' PROVE \A t \in Sweeps : Hand(t)' = {}
    BY DEF LaterInHand
  <2>1. Undisturbed /\ sweep[s].op = "judging"
    BY <1>1, <1>5, CommitEffect DEF Undisturbed
  <2>2. \A t \in Sweeps \ {s} : sweep[t].op = "off"
    BY <2>1 DEF HandsInv, RowsInv, AloneOnce
  <2>3. \A t \in Sweeps \ {s} : Hand(t) = {}
    BY <1>1, <2>2 DEF HandsFilled
  <2> QED
    BY <1>1, <1>5, <2>3, CommitEffect DEF Begins, Hand, Written, Rewritten
<1>6. ASSUME NEW g \in Groups, DeleteGroup(g) PROVE LaterInHand'
  BY <1>1, <1>6, DeleteEffect DEF LaterInHand, Undisturbed
<1> QED
  BY <1>1, <1>2, <1>3, <1>4, <1>5, <1>6, StepIsQuiet

\* An end that was read has a path to be judged, unless the sample has lapsed.
LEMMA EndIsJudged ==
    ASSUME HandsInv, NEW s \in Sweeps, NEW x \in Sites, sweep[s].op = "judging",
           NEW p \in sweep[s].own, SiteOf[p.end] = x, p \notin Lapsing(s, x)
    PROVE  \E q \in Judged(s, x) : q.end = p.end
<1>1. TypeOK /\ s \in Running
  BY DEF HandsInv, RowsInv, Running
<1>2. p.at \in Nat /\ now \in Nat /\ p.at <= now
  BY <1>1, TelemetryAssumption DEF HandsInv, Prompt, TypeOK, Sweep, Sample
<1>3. PICK q \in PathsOf(x) : q.end = p.end /\ ~(p.at < now - Sla[q.group].window)
  BY DEF Lapsing
<1>4. q.group \in Groups \cup {None}
  BY <1>1, <1>3 DEF PathsOf, Path, TypeOK
<1>5. now - Sla[q.group].window <= p.at
  <2>1. Sla[q.group].window \in Nat
    BY <1>4, TelemetryAssumption
  <2> QED
    BY <1>2, <1>3, <2>1
<1>6. InWindow(q.end, q.group, Seen(s), now) # {}
  BY <1>2, <1>3, <1>5 DEF InWindow, Seen
<1>7. ClassOf(s, q) # None
  BY <1>6, TelemetryAssumption DEF ClassOf, Classify, Classes
<1> QED
  BY <1>3, <1>7 DEF Judged

\* A sample's verdict outlives it.
LEMMA RecentVerdictStays ==
    ASSUME HandsInv, TypeOK', Quiet, NEW p \in Sample, Recent(p)', NEW q \in evals, NEW u \in Nat,
           q.bucket = BucketOf(u), p.at <= u
    PROVE  q \in evals'
<1>1. u >= now' - Retention + Bucket - 1
  BY TelemetryAssumption DEF Recent, Sample, TypeOK
<1> QED
  BY <1>1, StaysInTable

LEMMA StillRecent ==
    ASSUME TypeOK, TypeOK', Quiet, NEW p \in Sample, Recent(p)'
    PROVE  Recent(p)
BY TelemetryAssumption DEF Quiet, TypeOK, Sample, Recent

LEMMA OwnJudgedStep ==
    ASSUME HandsInv, OwnJudged, TypeOK', [Next]_vars
    PROVE  OwnJudged'
<1>1. TypeOK /\ HandsFilled
  BY DEF HandsInv, RowsInv
<1>2. CASE Quiet
  <2> SUFFICES ASSUME Undisturbed', NEW s \in Sweeps, sweep'[s].op \in {"judging", "judged"},
                      NEW p \in sweep'[s].own \ lapsed', SiteOf[p.end] \notin sweep'[s].todo, Recent(p)'
               PROVE  \E v \in Kept(s)' : v.end = p.end
    BY DEF OwnJudged
  <2>1. p \in Sample /\ p.end \in Ends
    BY DEF TypeOK, Sweep, Sample
  <2>2. CASE Begins(s)
    BY <2>1, <2>2 DEF Begins, Sites
  <2>3. CASE sweep'[s] = sweep[s]
    <3>1. PICK v \in Kept(s) : v.end = p.end
      BY <1>1, <1>2, <2>1, <2>3, StillRecent DEF OwnJudged, Quiet
    <3>2. CASE v \in Written(s)
      BY <2>3, <3>1, <3>2 DEF Kept, Written
    <3>3. CASE v \in Rewritten(s) /\ IsIn(v, evals)
      <4>1. PICK q \in evals : SameRow(q, v)
        BY <3>3 DEF IsIn
      <4>2. p.at <= v.until /\ v.until \in Nat
        BY <1>1, <2>3, <3>1, <3>3, TelemetryAssumption DEF HandsInv, OwnBefore, Hand, Rewritten, TypeOK, Sweep, Verdict
      <4>3. q.bucket = BucketOf(v.until)
        BY <3>3, <4>1 DEF HandsInv, RowsDated, Dated, Hand, SameRow
      <4>4. q \in evals'
        BY <1>2, <2>1, <4>2, <4>3, RecentVerdictStays
      <4>5. IsIn(v, evals')
        BY <4>1, <4>4 DEF IsIn
      <4> QED
        BY <2>3, <3>1, <3>3, <4>5 DEF Kept, Rewritten
    <3> QED
      BY <3>2, <3>3 DEF Kept
  <2> QED
    BY <1>2, <2>2, <2>3 DEF Quiet
<1>3. ASSUME NEW s \in Sweeps, NEW x \in Sites, EvaluateSite(s, x) PROVE OwnJudged'
  <2>1. Decides(s, x)
    BY <1>1, <1>3, Decided
  <2>2. /\ \A q \in Judged(s, x) : \E v \in sweep'[s].adds \cup sweep'[s].sets : v.end = q.end
        /\ \A v \in sweep'[s].sets : IsIn(v, evals)
    BY <1>1, <1>3, Decided DEF IsIn
  <2>3. \A t \in Sweeps : Kept(t) \subseteq Kept(t)' /\ \A v \in sweep'[s].adds \cup sweep'[s].sets : v \in Kept(s)'
    BY <2>1, <2>2 DEF Decides, Kept, Written, Rewritten
  <2>4. \A p \in sweep[s].own \ Lapsing(s, x) : SiteOf[p.end] = x => \E v \in Kept(s)' : v.end = p.end
    BY <2>1, <2>2, <2>3, EndIsJudged DEF Decides
  <2> SUFFICES ASSUME Undisturbed', NEW t \in Sweeps, sweep'[t].op \in {"judging", "judged"},
                      NEW p \in sweep'[t].own \ lapsed', SiteOf[p.end] \notin sweep'[t].todo, Recent(p)'
               PROVE  \E v \in Kept(t)' : v.end = p.end
    BY DEF OwnJudged
  <2>5. Undisturbed /\ Recent(p) /\ p \in sweep[t].own \ (lapsed \cup Lapsing(s, x)) /\ sweep[t].op \in {"judging", "judged"}
    BY <2>1 DEF Decides, Undisturbed, Recent
  <2>6. CASE SiteOf[p.end] \notin sweep[t].todo
    BY <2>3, <2>5, <2>6 DEF OwnJudged
  <2>7. CASE SiteOf[p.end] \in sweep[t].todo
    BY <2>1, <2>4, <2>5, <2>7 DEF Decides
  <2> QED
    BY <2>6, <2>7
<1>4. ASSUME NEW s \in Sweeps, FlushSite(s) PROVE OwnJudged'
  <2>1. \A t \in Sweeps : Kept(t)' = Kept(t)
    BY <1>1, <1>4, FlushEffect DEF Kept, Written, Rewritten
  <2>2. \A t \in Sweeps : /\ sweep'[t].own = sweep[t].own /\ sweep'[t].todo = sweep[t].todo
                          /\ sweep'[t].op \in {"judging", "judged"} => sweep[t].op \in {"judging", "judged"}
    BY <1>1, <1>4, FlushEffect
  <2>3. UNCHANGED <<now, groups, lapsed, mishaps>>
    BY <1>1, <1>4, FlushEffect
  <2> QED
    BY <2>1, <2>2, <2>3 DEF OwnJudged, Undisturbed, Recent
<1>5. ASSUME NEW s \in Sweeps, CommitSweep(s) PROVE OwnJudged'
  <2> SUFFICES ASSUME Undisturbed' PROVE \A t \in Sweeps : sweep'[t].op \notin {"judging", "judged"}
    BY DEF OwnJudged
  <2>1. Undisturbed /\ sweep[s].op = "judging"
    BY <1>1, <1>5, CommitEffect DEF Undisturbed
  <2>2. \A t \in Sweeps \ {s} : sweep[t].op = "off"
    BY <2>1 DEF HandsInv, RowsInv, AloneOnce
  <2> QED
    BY <1>1, <1>5, <2>2, CommitEffect
<1>6. ASSUME NEW g \in Groups, DeleteGroup(g) PROVE OwnJudged'
  BY <1>1, <1>6, DeleteEffect DEF OwnJudged, Undisturbed
<1> QED
  BY <1>1, <1>2, <1>3, <1>4, <1>5, <1>6, StepIsQuiet

LEMMA SamplesStep ==
    ASSUME JudgedInv, TypeOK', [Next]_vars
    PROVE  SamplesAreJudged'
<1> SUFFICES ASSUME Undisturbed', NEW p \in samples' \ lapsed', Recent(p)'
             PROVE  \E r \in evals' : r.end = p.end /\ r.until >= p.at
  BY DEF SamplesAreJudged, Recent
<1>1. TypeOK /\ HandsFilled /\ HandsInv
  BY DEF JudgedInv, HandsInv, RowsInv
<1>2. p \in Sample /\ p.at \in Nat /\ p.end \in Ends
  BY TelemetryAssumption DEF TypeOK, Sample
<1>3. ASSUME Undisturbed, p \in samples \ lapsed, Recent(p) PROVE \E r \in evals : r.end = p.end /\ r.until >= p.at
  BY <1>3 DEF JudgedInv, SamplesAreJudged, Recent
<1>4. CASE Quiet
  <2>1. PICK r \in evals : r.end = p.end /\ r.until >= p.at
    BY <1>1, <1>2, <1>3, <1>4, StillRecent DEF Quiet
  <2>2. r.until \in Nat /\ r.bucket = BucketOf(r.until)
    BY <1>1, TelemetryAssumption DEF TypeOK, Verdict, HandsInv, RowsDated, Dated
  <2>3. p.at <= r.until
    BY <1>2, <2>1, <2>2
  <2> QED
    BY <1>1, <1>2, <1>4, <2>1, <2>2, <2>3, RecentVerdictStays
<1>5. ASSUME NEW s \in Sweeps, NEW x \in Sites, EvaluateSite(s, x)
      PROVE  \E r \in evals' : r.end = p.end /\ r.until >= p.at
  BY <1>1, <1>3, <1>5, Decided DEF Decides, Undisturbed, Recent
<1>6. ASSUME NEW s \in Sweeps, FlushSite(s) PROVE \E r \in evals' : r.end = p.end /\ r.until >= p.at
  BY <1>1, <1>3, <1>6, FlushEffect DEF Undisturbed, Recent
<1>7. ASSUME NEW s \in Sweeps, CommitSweep(s) PROVE \E r \in evals' : r.end = p.end /\ r.until >= p.at
  <2>1. /\ Undisturbed /\ Recent(p) /\ sweep[s].op = "judging" /\ sweep[s].todo = {}
        /\ samples' = samples \cup sweep[s].own /\ p \notin lapsed
        /\ evals' = {Updated(r, sweep[s].changed) : r \in evals} \cup sweep[s].added
    BY <1>1, <1>7, CommitEffect DEF Undisturbed, Recent
  <2>2. \A r \in evals : r \in Verdict /\ r.until \in Nat
    BY <1>1, TelemetryAssumption DEF TypeOK, Verdict
  <2>3. sweep[s].changed \in SUBSET Verdict /\ (\A v \in sweep[s].changed : v.until \in Nat /\ v \in Hand(s))
    BY <1>1, TelemetryAssumption DEF TypeOK, Sweep, Verdict, Hand, Rewritten
  <2>4. CASE p \in samples
    <3>1. PICK r \in evals : r.end = p.end /\ r.until >= p.at
      BY <1>3, <2>1, <2>4
    <3>2. Updated(r, sweep[s].changed).end = p.end
      BY <2>2, <2>3, <3>1, UpdatedRow DEF SamePath
    <3>3. Updated(r, sweep[s].changed).until >= p.at
      <4>1. CASE Updated(r, sweep[s].changed) = r
        BY <3>1, <4>1
      <4>2. CASE \E v \in sweep[s].changed : Updated(r, sweep[s].changed).until = v.until
        <5>1. PICK v \in sweep[s].changed : Updated(r, sweep[s].changed).until = v.until
          BY <4>2
        <5>2. r.until <= v.until
          BY <2>1, <2>3, <5>1 DEF JudgedInv, LaterInHand
        <5> QED
          BY <1>2, <2>2, <2>3, <3>1, <5>1, <5>2
      <4> QED
        BY <2>2, <2>3, <4>1, <4>2, UpdatedRow
    <3> QED
      BY <2>1, <3>2, <3>3
  <2>5. CASE p \in sweep[s].own
    <3>1. PICK v \in Kept(s) : v.end = p.end
      BY <2>1, <2>5 DEF JudgedInv, OwnJudged
    <3>2. \A w \in Hand(s) : w.end = p.end => p.at <= w.until /\ w.until >= p.at
      <4>1. \A w \in Hand(s) : w.until \in Nat
        BY <1>1, TelemetryAssumption DEF TypeOK, Sweep, Verdict, Hand, Written, Rewritten
      <4> QED
        BY <1>1, <1>2, <2>5, <4>1 DEF HandsInv, OwnBefore
    <3>3. sweep[s].adds = {} /\ sweep[s].sets = {}
      BY <1>1, <2>1 DEF HandsFilled
    <3>4. CASE v \in Written(s)
      BY <2>1, <3>1, <3>2, <3>3, <3>4 DEF Hand, Written
    <3>5. CASE v \in Rewritten(s) /\ IsIn(v, evals)
      <4>1. PICK r \in evals : SameRow(r, v)
        BY <3>5 DEF IsIn
      <4>2. IsIn(r, sweep[s].changed) /\ r.end = p.end
        BY <3>1, <3>3, <3>5, <4>1 DEF IsIn, SameRow, Rewritten
      <4>3. PICK w \in sweep[s].changed : SameRow(w, r) /\ Updated(r, sweep[s].changed).until = w.until
        BY <2>2, <2>3, <4>2, UpdatedRow DEF IsIn
      <4>4. w.end = p.end /\ Updated(r, sweep[s].changed).end = p.end
        BY <2>2, <2>3, <4>2, <4>3, UpdatedRow DEF SameRow, SamePath
      <4>5. Updated(r, sweep[s].changed).until >= p.at
        BY <2>3, <3>2, <4>3, <4>4
      <4> QED
        BY <2>1, <4>4, <4>5
    <3> QED
      BY <3>4, <3>5 DEF Kept
  <2> QED
    BY <2>1, <2>4, <2>5
<1>8. ASSUME NEW g \in Groups PROVE ~DeleteGroup(g)
  BY <1>1, DeleteEffect DEF Undisturbed
<1> QED
  BY <1>1, <1>4, <1>5, <1>6, <1>7, <1>8, StepIsQuiet

LEMMA NothingAtFirst == Init => evals = {} /\ samples = {} /\ \A s \in Sweeps : Hand(s) = {} /\ sweep[s].op \in {"off", "queued"}
<1> SUFFICES ASSUME Init, NEW s \in Sweeps PROVE Hand(s) = {} /\ sweep[s].op \in {"off", "queued"}
  BY DEF Init
<1>1. sweep[s] = Queued(0) \/ sweep[s] = Off
  BY DEF Init
<1>2. sweep[s].op \in {"off", "queued"}
  BY <1>1, QueuedEmpty, OffType
<1> QED
  BY <1>2, HandsInit DEF HandsInv, HandsFilled

\* No sample is kept that was not judged: what a sweep reads of an end it judges
\* in the same transaction, unless every window has passed by it by then, and the
\* verdict stays in the table as long as the retention says.
THEOREM SamplesJudged == Spec => []SamplesAreJudged
<1>1. Init => JudgedInv
  BY HandsInit, NothingAtFirst DEF JudgedInv, LaterInHand, OwnJudged, SamplesAreJudged
<1>2. JudgedInv /\ [Next]_vars => JudgedInv'
  <2> SUFFICES ASSUME JudgedInv, [Next]_vars PROVE JudgedInv'
    OBVIOUS
  <2>1. HandsInv' /\ TypeOK'
    BY HandsStep DEF JudgedInv, HandsInv, RowsInv
  <2> QED
    BY <2>1, LaterInHandStep, OwnJudgedStep, SamplesStep DEF JudgedInv
<1>3. JudgedInv => SamplesAreJudged
  BY DEF JudgedInv
<1> QED
  BY <1>1, <1>2, <1>3, PTL DEF Spec

-----------------------------------------------------------------------------
(* What the compliance page counts. *)

\* While no group is deleted a row's group is the one it was written for.
OwnGroups == groups = Groups => \A r \in evals \cup UNION {Hand(s) : s \in Sweeps} : r.of = r.group

Rows(r) == {o \in evals : SamePath(o, r)}
Latest == Undisturbed => \A r \in evals : \E q \in evals : IsLast(q, Rows(r))

\* A row's previous class is that of the row before it as it is now, unless the
\* rows before it are gone.
Follows(r) ==
    Earlier(r, evals) # {} => \E q \in evals : IsLast(q, Earlier(r, evals)) /\ r.prev = q.class
Spells == Undisturbed => \A r \in evals \cup UNION {Written(s) : s \in Sweeps} : Follows(r)

SpellsInv == HandsInv /\ LaterInHand /\ OwnGroups /\ Latest /\ Spells

LEMMA OwnGroupsStep ==
    ASSUME HandsInv, OwnGroups, [Next]_vars
    PROVE  OwnGroups'
<1>1. TypeOK /\ HandsFilled
  BY DEF HandsInv, RowsInv
<1>2. CASE Quiet
  <2>1. \A s \in Sweeps : Hand(s)' \subseteq Hand(s)
    BY <1>2 DEF Quiet, Begins, Hand, Written, Rewritten
  <2>2. \A r \in evals' \cup UNION {Hand(s)' : s \in Sweeps} : r \in evals \cup UNION {Hand(s) : s \in Sweeps}
    BY <1>2, <2>1 DEF Quiet
  <2>3. groups' = groups
    BY <1>2 DEF Quiet
  <2> QED
    BY <2>2, <2>3 DEF OwnGroups
<1>3. ASSUME NEW s \in Sweeps, NEW x \in Sites, EvaluateSite(s, x) PROVE OwnGroups'
  <2> SUFFICES ASSUME groups' = Groups, NEW r \in evals' \cup UNION {Hand(t)' : t \in Sweeps} PROVE r.of = r.group
    BY DEF OwnGroups
  <2>1. Decides(s, x)
    BY <1>1, <1>3, Decided
  <2>2. \A q \in evals \cup UNION {Hand(t) : t \in Sweeps} : q.of = q.group
    BY <2>1 DEF Decides, OwnGroups
  <2>3. CASE r \in sweep'[s].adds
    BY <1>1, <1>3, <2>3, Decided
  <2>4. CASE r \in sweep'[s].sets
    <3>1. PICK q \in evals : SameRow(q, r) /\ q.group = r.group
      BY <1>1, <1>3, <2>4, Decided
    <3> QED
      BY <2>2, <3>1 DEF SameRow
  <2>5. CASE r \in evals \/ \E t \in Sweeps : r \in Hand(t)
    BY <2>2, <2>5
  <2>6. \A t \in Sweeps : Hand(t)' \subseteq Hand(t) \cup sweep'[s].adds \cup sweep'[s].sets
    BY <2>1 DEF Decides, Hand, Written, Rewritten
  <2>7. evals' = evals
    BY <2>1 DEF Decides
  <2> QED
    BY <2>3, <2>4, <2>5, <2>6, <2>7
<1>4. ASSUME NEW s \in Sweeps, FlushSite(s) PROVE OwnGroups'
  <2>1. /\ \A t \in Sweeps : Hand(t)' = Hand(t)
        /\ UNCHANGED <<groups, evals>>
    BY <1>1, <1>4, FlushEffect DEF Hand, Written, Rewritten
  <2>2. UNION {Hand(t)' : t \in Sweeps} = UNION {Hand(t) : t \in Sweeps}
    BY <2>1
  <2> QED
    BY <2>1, <2>2 DEF OwnGroups
<1>5. ASSUME NEW s \in Sweeps, CommitSweep(s) PROVE OwnGroups'
  <2> SUFFICES ASSUME groups' = Groups, NEW r \in evals' \cup UNION {Hand(t)' : t \in Sweeps} PROVE r.of = r.group
    BY DEF OwnGroups
  <2>1. \A q \in evals \cup UNION {Hand(t) : t \in Sweeps} : q.of = q.group
    BY <1>1, <1>5, CommitEffect DEF OwnGroups
  <2>2. \A t \in Sweeps : Hand(t)' \subseteq Hand(t)
    BY <1>1, <1>5, CommitEffect DEF Begins, Hand, Written, Rewritten
  <2>3. ASSUME NEW t \in Sweeps, r \in Hand(t)' PROVE r.of = r.group
    BY <2>1, <2>2, <2>3
  <2>4. CASE r \in sweep[s].added
    <3>1. r \in Hand(s)
      BY <2>4 DEF Hand, Written
    <3> QED
      BY <2>1, <3>1
  <2>5. ASSUME NEW q \in evals, r = Updated(q, sweep[s].changed) PROVE r.of = r.group
    <3>1. SameRow(r, q) /\ SamePath(r, q)
      BY <1>1, <2>5, UpdatedRow DEF TypeOK, Sweep
    <3> QED
      BY <2>1, <3>1 DEF SameRow, SamePath
  <2>6. evals' = {Updated(q, sweep[s].changed) : q \in evals} \cup sweep[s].added
    BY <1>1, <1>5, CommitEffect
  <2> QED
    BY <2>3, <2>4, <2>5, <2>6
<1>6. ASSUME NEW g \in Groups, DeleteGroup(g) PROVE OwnGroups'
  BY <1>1, <1>6, DeleteEffect DEF OwnGroups
<1> QED
  BY <1>1, <1>2, <1>3, <1>4, <1>5, <1>6, StepIsQuiet

\* The reaper takes the oldest rows first.
LEMMA QuietKeepsSpells ==
    ASSUME SpellsInv, Quiet
    PROVE  Latest' /\ Spells'
<1> SUFFICES ASSUME Undisturbed'
             PROVE  /\ \A r \in evals' : \E q \in evals' : IsLast(q, Rows(r)')
                    /\ \A r \in evals' \cup UNION {Written(s)' : s \in Sweeps} : Follows(r)'
  BY DEF Latest, Spells
<1>1. /\ \A r \in evals : \E q \in evals : IsLast(q, Rows(r))
      /\ \A r \in evals \cup UNION {Written(s) : s \in Sweeps} : Follows(r)
  BY DEF Quiet, SpellsInv, Latest, Spells
<1>2. evals' \subseteq evals /\ \A r \in evals', q \in evals : r.bucket <= q.bucket => q \in evals'
  BY DEF Quiet
<1>3. \A s \in Sweeps : Written(s)' \subseteq Written(s)
  BY DEF Quiet, Begins, Written
<1>4. ASSUME NEW r \in evals' PROVE \E q \in evals' : IsLast(q, Rows(r)')
  <2>1. PICK q \in evals : IsLast(q, Rows(r))
    BY <1>1, <1>2
  <2>2. r \in Rows(r) /\ Rows(r)' \subseteq Rows(r)
    BY <1>2 DEF Rows, SamePath
  <2>3. q \in evals'
    BY <1>2, <2>1, <2>2 DEF IsLast
  <2> QED
    BY <2>1, <2>2, <2>3 DEF IsLast, Rows, SamePath
<1>5. ASSUME NEW r \in evals' \cup UNION {Written(s)' : s \in Sweeps} PROVE Follows(r)'
  <2> SUFFICES ASSUME NEW o \in Earlier(r, evals')
               PROVE  \E q \in evals' : IsLast(q, Earlier(r, evals')) /\ r.prev = q.class
    BY DEF Follows, Earlier, SamePath, IsLast
  <2>1. o \in Earlier(r, evals) /\ o \in evals' /\ Earlier(r, evals') \subseteq Earlier(r, evals)
    BY <1>2 DEF Earlier
  <2>2. PICK q \in evals : IsLast(q, Earlier(r, evals)) /\ r.prev = q.class
    BY <1>1, <1>2, <1>3, <2>1 DEF Follows
  <2>3. q \in evals'
    BY <1>2, <2>1, <2>2 DEF IsLast
  <2> QED
    BY <2>1, <2>2, <2>3 DEF IsLast, Earlier
<1> QED
  BY <1>4, <1>5

\* A new row comes after every row of its path, and the last of them is before it.
LEMMA EvaluateKeepsSpells ==
    ASSUME SpellsInv, NEW s \in Sweeps, NEW x \in Sites, EvaluateSite(s, x)
    PROVE  Latest' /\ Spells'
<1>1. TypeOK /\ HandsFilled /\ HandsInv
  BY DEF SpellsInv, HandsInv, RowsInv
<1>2. Decides(s, x)
  BY <1>1, Decided
<1>3. evals' = evals /\ (Undisturbed' => Undisturbed)
  BY <1>2 DEF Decides, Undisturbed
<1>4. Latest'
  BY <1>3 DEF SpellsInv, Latest, Rows, SamePath, IsLast
<1>5. \A r : Follows(r)' <=> Follows(r)
  BY <1>3 DEF Follows, Earlier, SamePath, IsLast
<1>6. ASSUME Undisturbed, NEW v \in sweep'[s].adds PROVE Follows(v)
  <2> SUFFICES ASSUME NEW o \in Earlier(v, evals)
               PROVE  \E q \in evals : IsLast(q, Earlier(v, evals))
    BY <1>1, Decided DEF Follows
  <2>1. o \in evals /\ SamePath(o, v)
    BY DEF Earlier
  <2>2. PICK q \in evals : IsLast(q, Rows(o))
    BY <1>6, <2>1 DEF SpellsInv, Latest
  <2>3. q \in Rows(o) /\ Rows(o) = Rows(v)
    BY <2>1, <2>2 DEF IsLast, Rows, SamePath
  <2>4. q.bucket < v.bucket
    <3>1. v.bucket = BucketOf(now) /\ q.bucket # v.bucket
      BY <1>1, <2>3, Decided DEF Rows, SamePath
    <3>2. q.bucket = BucketOf(q.until) /\ q.until <= now /\ q.until \in Nat /\ now \in Nat
      BY <1>1, TelemetryAssumption DEF HandsInv, RowsDated, Dated, TypeOK, Verdict
    <3>3. BucketOf(q.until) \in Nat /\ BucketOf(now) \in Nat /\ BucketOf(q.until) <= BucketOf(now)
      BY <3>2, BucketSpan, BucketOrder
    <3> QED
      BY <3>1, <3>2, <3>3
  <2>5. q \in Earlier(v, evals) /\ Earlier(v, evals) \subseteq Rows(o)
    BY <2>3, <2>4 DEF Earlier, Rows
  <2> QED
    BY <2>2, <2>5 DEF IsLast
<1>7. \A t \in Sweeps : Written(t)' \subseteq Written(t) \cup sweep'[s].adds
  BY <1>2 DEF Decides, Written
<1>8. Spells'
  <2> SUFFICES ASSUME Undisturbed', NEW r \in evals' \cup UNION {Written(t)' : t \in Sweeps} PROVE Follows(r)'
    BY DEF Spells
  <2>1. CASE r \in sweep'[s].adds
    BY <1>3, <1>5, <1>6, <2>1
  <2>2. CASE r \notin sweep'[s].adds
    <3>1. r \in evals \cup UNION {Written(t) : t \in Sweeps}
      BY <1>3, <1>7, <2>2
    <3> QED
      BY <1>3, <1>5, <3>1 DEF SpellsInv, Spells
  <2> QED
    BY <2>1, <2>2
<1> QED
  BY <1>4, <1>8

LEMMA FlushKeepsSpells ==
    ASSUME SpellsInv, NEW s \in Sweeps, FlushSite(s)
    PROVE  Latest' /\ Spells'
<1>1. UNCHANGED <<groups, evals, mishaps>> /\ \A t \in Sweeps : Written(t)' = Written(t)
  BY FlushEffect DEF SpellsInv, HandsInv, RowsInv, Written
<1>2. UNION {Written(t)' : t \in Sweeps} = UNION {Written(t) : t \in Sweeps}
  BY <1>1
<1>3. \A r : (Follows(r)' <=> Follows(r)) /\ Rows(r)' = Rows(r)
  BY <1>1 DEF Follows, Rows, Earlier, SamePath, IsLast
<1>4. Undisturbed' <=> Undisturbed
  BY <1>1 DEF Undisturbed
<1>5. Latest'
  BY <1>1, <1>3, <1>4 DEF SpellsInv, Latest
<1>6. Spells'
  BY <1>1, <1>2, <1>3, <1>4 DEF SpellsInv, Spells
<1> QED
  BY <1>5, <1>6

\* A commit changes the class of no row that another follows, and adds after the
\* last row of a path, which it does not change.
LEMMA CommitKeepsSpells ==
    ASSUME SpellsInv, NEW s \in Sweeps, CommitSweep(s)
    PROVE  Latest' /\ Spells'
<1> DEFINE changed == sweep[s].changed
           added == sweep[s].added
           up(r) == Updated(r, changed)
<1>1. TypeOK /\ HandsFilled /\ HandsInv
  BY DEF SpellsInv, HandsInv, RowsInv
<1>2. /\ sweep[s].op = "judging" /\ Begins(s) /\ (\A t \in Sweeps \ {s} : sweep'[t] = sweep[t])
      /\ evals' = {up(r) : r \in evals} \cup added /\ UNCHANGED <<groups, mishaps>>
  BY <1>1, CommitEffect
<1> SUFFICES ASSUME Undisturbed'
             PROVE  /\ \A r \in evals' : \E q \in evals' : IsLast(q, Rows(r)')
                    /\ \A r \in evals' : Follows(r)'
  <2>1. \A t \in Sweeps : Undisturbed' => Written(t)' = {}
    <3> SUFFICES ASSUME Undisturbed', NEW t \in Sweeps PROVE Written(t)' = {}
      OBVIOUS
    <3>1. CASE t = s
      BY <1>2, <3>1 DEF Begins, Written
    <3>2. CASE t # s
      <4>1. Undisturbed
        BY <1>2 DEF Undisturbed
      <4>2. sweep[t].op = "off"
        BY <1>1, <1>2, <3>2, <4>1 DEF HandsInv, RowsInv, AloneOnce
      <4> QED
        BY <1>1, <1>2, <3>2, <4>2 DEF HandsFilled, Hand, Written
    <3> QED
      BY <3>1, <3>2
  <2> QED
    BY <2>1 DEF Latest, Spells
<1>3. Undisturbed /\ groups = Groups
  BY <1>2 DEF Undisturbed
<1>4. /\ \A r \in evals : r \in Verdict
      /\ changed \in SUBSET Verdict /\ added \in SUBSET Verdict /\ changed \subseteq Hand(s) /\ added \subseteq Written(s)
  BY <1>1 DEF TypeOK, Sweep, Hand, Written, Rewritten
<1>5. ASSUME NEW r \in evals
      PROVE  /\ SamePath(up(r), r) /\ up(r).bucket = r.bucket /\ up(r).prev = r.prev
             /\ up(r).class = r.class \/ \E v \in changed : SameRow(v, r)
  <2>1. up(r) = r \/ \E v \in changed : SameRow(v, r)
    BY <1>4, UpdatedRow
  <2> QED
    BY <1>4, <2>1, UpdatedRow DEF SameRow
<1> HIDE DEF up
\* A changed row is the last of its path.
<1>6. ASSUME NEW q \in evals, NEW v \in changed, SameRow(v, q)
      PROVE  SamePath(v, q) /\ \A r \in evals : ~(q.bucket < r.bucket)
  <2>1. SamePath(v, q)
    BY <1>3, <1>4, <1>6 DEF SpellsInv, OwnGroups, SameRow, SamePath
  <2>2. ASSUME NEW r \in evals PROVE ~(q.bucket < r.bucket)
    <3>1. r.until <= v.until
      BY <1>3, <1>4 DEF SpellsInv, LaterInHand
    <3>2. v.until \in Nat /\ r.until \in Nat /\ v.bucket = BucketOf(v.until) /\ r.bucket = BucketOf(r.until)
      BY <1>1, <1>4, TelemetryAssumption DEF Verdict, HandsInv, RowsDated, Dated
    <3>3. r.bucket <= v.bucket /\ v.bucket = q.bucket /\ v.bucket \in Nat /\ r.bucket \in Nat
      BY <1>6, <3>1, <3>2, BucketSpan, BucketOrder DEF SameRow
    <3> QED
      BY <3>3
  <2> QED
    BY <2>1, <2>2
\* A new row comes after the rows of its path, and is the only new one.
<1>7. ASSUME NEW u \in added, NEW r \in evals, SamePath(r, u)
      PROVE  r.bucket < u.bucket
  <2>1. r.until <= u.until
    BY <1>3, <1>4 DEF SpellsInv, LaterInHand, Hand
  <2>2. u.until \in Nat /\ r.until \in Nat /\ u.bucket = BucketOf(u.until) /\ r.bucket = BucketOf(r.until)
    BY <1>1, <1>4, TelemetryAssumption DEF Verdict, HandsInv, RowsDated, Dated, Hand
  <2>3. r.bucket <= u.bucket /\ u.bucket \in Nat /\ r.bucket \in Nat
    BY <2>1, <2>2, BucketSpan, BucketOrder
  <2>4. r.bucket # u.bucket
    BY <1>1, <1>3, <1>7 DEF HandsInv, RowsInv, AloneOnce, Key, SamePath
  <2> QED
    BY <2>3, <2>4
<1>8. ASSUME NEW u \in added, NEW w \in added, SamePath(w, u) PROVE w = u
  BY <1>1, <1>4, <1>8 DEF HandsInv, PathsOnce
<1>9. ASSUME NEW u \in added, NEW q \in evals, SamePath(q, u) PROVE up(q).class = q.class
  <2>1. ASSUME NEW v \in changed, SameRow(v, q) PROVE FALSE
    <3>1. SamePath(v, q)
      BY <1>6, <2>1
    <3>2. SamePath(u, v) /\ u \in Written(s) /\ v \in Rewritten(s)
      BY <1>4, <1>9, <3>1 DEF SamePath, Rewritten
    <3> QED
      BY <1>1, <3>2 DEF HandsInv, PathsOnce
  <2> QED
    BY <1>5, <2>1
<1>10. \A r \in evals : r.bucket \in Nat
  BY <1>4, TelemetryAssumption DEF Verdict
<1>11. \A u \in added : u.bucket \in Nat
  BY <1>4, TelemetryAssumption DEF Verdict
<1> HIDE DEF changed, added
<1>12. ASSUME NEW r \in evals' PROVE \E q \in evals' : IsLast(q, Rows(r)')
  <2>1. Rows(r)' = {o \in evals' : SamePath(o, r)}
    BY DEF Rows, SamePath
  <2>2. CASE \E u \in added : SamePath(u, r)
    <3>1. PICK u \in added : SamePath(u, r)
      BY <2>2
    <3>2. ASSUME NEW o \in evals', SamePath(o, r) PROVE o.bucket <= u.bucket
      <4>1. CASE o \in added
        BY <1>8, <1>11, <3>1, <3>2, <4>1 DEF SamePath
      <4>2. CASE \E q \in evals : o = up(q)
        BY <1>5, <1>7, <1>10, <1>11, <3>1, <3>2, <4>2 DEF SamePath
      <4> QED
        BY <1>2, <4>1, <4>2
    <3> QED
      BY <1>2, <2>1, <3>1, <3>2 DEF IsLast
  <2>3. CASE ~\E u \in added : SamePath(u, r)
    <3>1. PICK o \in evals : r = up(o)
      BY <1>2, <2>3 DEF SamePath
    <3>2. PICK q \in evals : IsLast(q, Rows(o))
      BY <1>3 DEF SpellsInv, Latest
    <3>3. SamePath(up(q), r) /\ up(q).bucket = q.bucket /\ up(q) \in evals'
      BY <1>2, <1>5, <3>1, <3>2 DEF IsLast, Rows, SamePath
    <3>4. ASSUME NEW p \in evals', SamePath(p, r) PROVE p.bucket <= q.bucket
      <4>1. PICK a \in evals : p = up(a)
        BY <1>2, <2>3, <3>4
      <4>2. a \in Rows(o) /\ p.bucket = a.bucket
        BY <1>5, <3>1, <3>4, <4>1 DEF Rows, SamePath
      <4> QED
        BY <3>2, <4>2 DEF IsLast
    <3> QED
      BY <2>1, <3>3, <3>4 DEF IsLast
  <2> QED
    BY <2>2, <2>3
<1>13. ASSUME NEW r \in evals, NEW o \in Earlier(up(r), evals')
       PROVE  \E q \in evals' : IsLast(q, Earlier(up(r), evals')) /\ up(r).prev = q.class
  <2>1. \A a \in Earlier(up(r), evals') : \E b \in Earlier(r, evals) : a = up(b) /\ a.bucket = b.bucket
    <3> SUFFICES ASSUME NEW a \in Earlier(up(r), evals') PROVE \E b \in Earlier(r, evals) : a = up(b) /\ a.bucket = b.bucket
      OBVIOUS
    <3>1. a \in evals' /\ SamePath(a, r) /\ a.bucket < r.bucket
      BY <1>5 DEF Earlier, SamePath
    <3>2. a \notin added
      BY <1>7, <1>10, <1>11, <3>1 DEF SamePath
    <3>3. PICK b \in evals : a = up(b)
      BY <1>2, <3>1, <3>2
    <3> QED
      BY <1>5, <3>1, <3>3 DEF Earlier, SamePath
  <2>2. Earlier(r, evals) # {}
    BY <2>1
  <2>3. PICK q \in evals : IsLast(q, Earlier(r, evals)) /\ r.prev = q.class
    BY <1>3, <2>2 DEF SpellsInv, Spells, Follows
  <2>4. q.bucket < r.bucket /\ SamePath(q, r)
    BY <2>3 DEF IsLast, Earlier
  <2>5. up(q).class = q.class
    BY <1>5, <1>6, <2>4
  <2>6. up(q) \in Earlier(up(r), evals') /\ up(q).bucket = q.bucket
    BY <1>2, <1>5, <2>4 DEF Earlier, SamePath
  <2>7. IsLast(up(q), Earlier(up(r), evals'))
    BY <2>1, <2>3, <2>6 DEF IsLast
  <2> QED
    BY <1>2, <1>5, <2>3, <2>5, <2>7
<1>14. ASSUME NEW u \in added, NEW o \in Earlier(u, evals')
       PROVE  \E q \in evals' : IsLast(q, Earlier(u, evals')) /\ u.prev = q.class
  <2>1. \A a \in Earlier(u, evals') : \E b \in Earlier(u, evals) : a = up(b) /\ a.bucket = b.bucket
    <3> SUFFICES ASSUME NEW a \in Earlier(u, evals') PROVE \E b \in Earlier(u, evals) : a = up(b) /\ a.bucket = b.bucket
      OBVIOUS
    <3>1. a \in evals' /\ SamePath(a, u) /\ a.bucket < u.bucket
      BY DEF Earlier
    <3>2. a \notin added
      BY <1>8, <1>11, <3>1
    <3>3. PICK b \in evals : a = up(b)
      BY <1>2, <3>1, <3>2
    <3> QED
      BY <1>5, <3>1, <3>3 DEF Earlier, SamePath
  <2>2. Earlier(u, evals) # {}
    BY <2>1
  <2>3. PICK q \in evals : IsLast(q, Earlier(u, evals)) /\ u.prev = q.class
    BY <1>3, <1>4, <2>2 DEF SpellsInv, Spells, Follows, added
  <2>4. SamePath(q, u) /\ q.bucket < u.bucket
    BY <2>3 DEF IsLast, Earlier
  <2>5. up(q).class = q.class
    BY <1>9, <2>4
  <2>6. up(q) \in Earlier(u, evals') /\ up(q).bucket = q.bucket
    BY <1>2, <1>5, <2>4 DEF Earlier, SamePath
  <2>7. IsLast(up(q), Earlier(u, evals'))
    BY <2>1, <2>3, <2>6 DEF IsLast
  <2> QED
    BY <1>2, <2>3, <2>5, <2>7
<1>15. \A r \in evals' : Follows(r)'
  <2> SUFFICES ASSUME NEW r \in evals', NEW o \in Earlier(r, evals')
               PROVE  \E q \in evals' : IsLast(q, Earlier(r, evals')) /\ r.prev = q.class
    BY DEF Follows, Earlier, SamePath, IsLast
  <2> QED
    BY <1>2, <1>13, <1>14
<1> QED
  BY <1>12, <1>15

LEMMA SpellsStep == SpellsInv /\ [Next]_vars => SpellsInv'
<1> SUFFICES ASSUME SpellsInv, [Next]_vars PROVE SpellsInv'
  OBVIOUS
<1>1. HandsInv' /\ LaterInHand' /\ OwnGroups'
  BY HandsStep, LaterInHandStep, OwnGroupsStep DEF SpellsInv
<1>2. TypeOK /\ HandsFilled
  BY DEF SpellsInv, HandsInv, RowsInv
<1>3. ASSUME NEW g \in Groups, DeleteGroup(g) PROVE Latest' /\ Spells'
  BY <1>2, <1>3, DeleteEffect DEF Latest, Spells, Undisturbed
<1>4. Latest' /\ Spells'
  BY <1>2, <1>3, StepIsQuiet, QuietKeepsSpells, EvaluateKeepsSpells, FlushKeepsSpells, CommitKeepsSpells
<1> QED
  BY <1>1, <1>4 DEF SpellsInv

\* Where every row follows the one before it, the transitions that were recorded
\* are those the rows show.
LEMMA SpellsCount == SpellsInv => EpisodesCountedOnce
<1> SUFFICES ASSUME SpellsInv, Undisturbed, NEW e \in Ends, NEW g \in Groups \cup {None}
             PROVE  LET rows == RowsOf(evals, Path(e, g))
                        before(r) == {q \in rows : q.bucket < r.bucket}
                        fine(r) == IF before(r) = {} THEN r.prev \in {None, "in_sla"}
                                   ELSE \E q \in before(r) : q.class = "in_sla" /\ \A o \in before(r) : o.bucket <= q.bucket
                    IN ViolationEpisodes(rows) = {r \in rows : r.class # "in_sla" /\ fine(r)}
  BY DEF EpisodesCountedOnce
<1> DEFINE rows == RowsOf(evals, Path(e, g))
           before(r) == {q \in rows : q.bucket < r.bucket}
           fine(r) == IF before(r) = {} THEN r.prev \in {None, "in_sla"}
                      ELSE \E q \in before(r) : q.class = "in_sla" /\ \A o \in before(r) : o.bucket <= q.bucket
<1>1. \A r \in rows : r \in evals /\ before(r) = Earlier(r, evals)
  BY DEF RowsOf, Path, Earlier, SamePath
<1>2. ASSUME NEW r \in rows PROVE fine(r) <=> r.prev \in {None, "in_sla"}
  <2>1. CASE before(r) = {}
    BY <2>1
  <2>2. CASE before(r) # {}
    <3>1. PICK q \in evals : IsLast(q, before(r)) /\ r.prev = q.class
      BY <1>1, <2>2 DEF SpellsInv, Spells, Follows
    <3>2. q \in Verdict /\ q.class # None
      BY <3>1, TelemetryAssumption DEF SpellsInv, HandsInv, RowsInv, TypeOK, Verdict
    <3>3. \A p \in before(r) : (\A o \in before(r) : o.bucket <= p.bucket) => p = q
      <4> SUFFICES ASSUME NEW p \in before(r), \A o \in before(r) : o.bucket <= p.bucket PROVE p = q
        OBVIOUS
      <4>1. p \in evals /\ q \in before(r) /\ q.bucket <= p.bucket /\ p.bucket <= q.bucket
        BY <1>1, <3>1 DEF IsLast, Earlier
      <4>2. p.bucket \in Nat /\ q.bucket \in Nat
        BY <3>2, <4>1, TelemetryAssumption DEF SpellsInv, HandsInv, RowsInv, TypeOK, Verdict
      <4>3. p.bucket = q.bucket /\ p.end = q.end /\ p.group = q.group
        BY <4>1, <4>2 DEF RowsOf
      <4> QED
        BY <4>1, <4>3 DEF SpellsInv, HandsInv, RowsInv, AloneOnce, Key
    <3>4. q \in before(r) /\ \A o \in before(r) : o.bucket <= q.bucket
      BY <3>1 DEF IsLast
    <3>5. fine(r) <=> q.class = "in_sla"
      BY <2>2, <3>3, <3>4
    <3> QED
      BY <3>1, <3>2, <3>5
  <2> QED
    BY <2>1, <2>2
<1> HIDE DEF fine
<1>3. ViolationEpisodes(rows) = {r \in rows : r.class # "in_sla" /\ fine(r)}
  BY <1>2 DEF ViolationEpisodes
<1> QED
  BY <1>3 DEF fine

\* Every spell outside the SLA is counted once, as long as sweeps do not overlap
\* and no group is deleted: a row's previous class, fixed when it is first
\* written, stays the class of the row before it.
THEOREM CountedOnce == Spec => []EpisodesCountedOnce
<1>1. Init => SpellsInv
  <2> SUFFICES ASSUME Init PROVE SpellsInv
    OBVIOUS
  <2>1. evals = {} /\ \A s \in Sweeps : Hand(s) = {} /\ Written(s) = {}
    BY NothingAtFirst DEF Hand
  <2> QED
    BY <2>1, HandsInit DEF SpellsInv, LaterInHand, OwnGroups, Latest, Spells
<1> QED
  BY <1>1, SpellsStep, SpellsCount, PTL DEF Spec

=============================================================================
