------------------------------ MODULE Telemetry ------------------------------
(***************************************************************************)
(* The telemetry sweep: reading the probes of every router, judging every  *)
(* path over its window, and keeping both (telemetry/poller.py,            *)
(* telemetry/evaluator.py, tasks/worker.py, api/v1/telemetry.py).          *)
(*                                                                         *)
(* A sweep is one job of the queue and one transaction: it polls every     *)
(* site, judges every site on the samples it sees, commits, and enqueues   *)
(* its successor.  An end is one site's end of a link.  A tick is a test   *)
(* of every probe; a latency stands for jitter as well, whose treatment is *)
(* the same.                                                               *)
(***************************************************************************)
EXTENDS Integers, FiniteSets, FiniteSetsExt

CONSTANTS
    Ends,           \* a site's ends of links
    SiteOf,         \* the site an end is at
    Groups,         \* SD-WAN groups
    CoverAtStart,   \* end -> the groups whose policies cover it
    Sla,            \* group or None -> loss and latency thresholds, window in ticks
    Latencies,      \* latencies a test may show
    Bucket,         \* ticks in a bucket
    Retention,      \* ticks a verdict is kept
    Sweeps,         \* jobs of the queue at once
    MaxTime,        \* bound on the clock
    JobTimeout,     \* ticks a sweep may take before the queue gives it up
    MaxMishaps,     \* bound on everything that goes wrong or is edited
    None

VARIABLES
    now,
    probe,      \* what the router's probe of an end has counted and last seen
    cover,      \* end -> the groups that cover it
    groups,     \* the groups that exist
    samples,    \* the samples table
    evals,      \* the sla_evaluations table
    sweep,      \* what each job of the queue has in hand
    lapsed,     \* history: samples that were out of every window when judged
    mishaps     \* how often what went wrong

vars == <<now, probe, cover, groups, samples, evals, sweep, lapsed, mishaps>>
world == <<now, probe>>
intent == <<cover, groups>>

Sites == {SiteOf[e] : e \in Ends}
Classes == {"in_sla", "degraded", "down"}
BucketOf(t) == t \div Bucket
Kinds == {"restart", "timeout", "unread", "reset", "edit"}
Mishap(kind) ==
    /\ MapThenSumSet(LAMBDA k : mishaps[k], Kinds) < MaxMishaps
    /\ mishaps' = [mishaps EXCEPT ![kind] = @ + 1]

ASSUME TelemetryAssumption ==
    /\ Bucket \in 1..4 /\ Latencies \subseteq Nat /\ None \notin Nat \cup Groups \cup Classes
    /\ \A g \in Groups \cup {None} : Sla[g].loss \in 0..100 /\ Sla[g].latency \in Nat /\ Sla[g].window \in Nat
    /\ {MaxTime, MaxMishaps, Retention, JobTimeout} \subseteq Nat
    /\ CoverAtStart \in [Ends -> SUBSET Groups]

-----------------------------------------------------------------------------
(* classify: one path's samples over one window. *)

InWindow(e, g, seen, t) == {p \in seen : p.end = e /\ t - Sla[g].window <= p.at /\ p.at <= t}

\* The mean of the buckets' means, in twelfths: each bucket has one vote.
BucketedMean(points, value(_)) ==
    LET at(b) == {p \in points : BucketOf(p.at) = b}
        used == {BucketOf(p.at) : p \in points}
        mean(b) == (12 * MapThenSumSet(value, at(b))) \div Cardinality(at(b))
    IN MapThenSumSet(mean, used) \div Cardinality(used)

\* Consecutive samples; a pair whose counters fall straddles a reset.
CounterPairs(points) ==
    {pq \in points \X points :
        /\ pq[1].at < pq[2].at
        /\ ~\E r \in points : pq[1].at < r.at /\ r.at < pq[2].at
        /\ pq[1].sent <= pq[2].sent /\ pq[1].resp <= pq[2].resp}
DeltaSent(points) == MapThenSumSet(LAMBDA pq : pq[2].sent - pq[1].sent, CounterPairs(points))
DeltaResp(points) == MapThenSumSet(LAMBDA pq : pq[2].resp - pq[1].resp, CounterPairs(points))

\* The counters decide on the loss if they can speak, the tests' own loss if not.
LossBreached(points, limit) ==
    LET sent == DeltaSent(points) resp == DeltaResp(points) IN
    IF sent > 0 THEN 100 * (sent - resp) > limit * sent
    ELSE BucketedMean(points, LAMBDA p : IF p.lost THEN 100 ELSE 0) > 12 * limit
LatencyBreached(points, limit) ==
    LET timed == {p \in points : ~p.lost} IN
    timed # {} /\ BucketedMean(timed, LAMBDA p : p.latency) > 12 * limit
IsDown(points) ==
    \/ \E p \in points : p.lost /\ \A q \in points : q.at <= p.at
    \/ DeltaSent(points) > 0 /\ DeltaResp(points) = 0

Classify(points, limits) ==
    IF points = {} THEN None
    ELSE IF IsDown(points) THEN "down"
    ELSE IF LossBreached(points, limits.loss) \/ LatencyBreached(points, limits.latency)
         THEN "degraded" ELSE "in_sla"

-----------------------------------------------------------------------------
(* What a sweep decides for a site. *)

Path(e, g) == [end |-> e, group |-> g]
\* An end no group covers is judged against the default.
PathsOf(x) ==
    UNION {{Path(e, g) : g \in IF cover[e] = {} THEN {None} ELSE cover[e]}
             : e \in {f \in Ends : SiteOf[f] = x}}
\* Mutant of Seen: the samples of the sweep itself are not looked at.
SeenCommitted(s) == samples

\* A transaction sees its own writes and what others have committed.
Seen(s) == samples \cup sweep[s].own

ClassOf(s, p) == Classify(InWindow(p.end, p.group, Seen(s), now), Sla[p.group])

\* What the sweep has read of the site itself, longer ago than any window of its end.
Lapsing(s, x) ==
    {p \in sweep[s].own : /\ SiteOf[p.end] = x
                          /\ \A q \in PathsOf(x) : q.end = p.end => p.at < now - Sla[q.group].window}

\* Mutant of Judged: a path without a sample in its window is recorded too.
JudgedAll(s, x) == PathsOf(x)

\* No evidence, no row.
Judged(s, x) == {p \in PathsOf(x) : ClassOf(s, p) # None}

RowsOf(rows, p) == {r \in rows : r.end = p.end /\ r.group = p.group}

\* Mutant of ExistingRows: SQL's = finds no row whose group is NULL.
ExistingRowsSqlEqual(p, b) == IF p.group = None THEN {} ELSE {r \in RowsOf(evals, p) : r.bucket = b}

ExistingRows(p, b) == {r \in RowsOf(evals, p) : r.bucket = b}
PreviousRows(p, b) ==
    {r \in RowsOf(evals, p) : r.bucket < b /\ \A q \in RowsOf(evals, p) : q.bucket < b => q.bucket <= r.bucket}

\* One row is picked where a query that expects one finds more.
Picks(P, b) ==
    {pick \in [P -> evals \cup {None}] :
        \A p \in P : IF ExistingRows(p, b) # {} THEN pick[p] \in ExistingRows(p, b)
                     ELSE IF PreviousRows(p, b) # {} THEN pick[p] \in PreviousRows(p, b)
                     ELSE pick[p] = None}

\* A new row takes its previous_class from the latest earlier row of the path.
NewRow(s, p, class, picked, b) ==
    [end |-> p.end, of |-> p.group, by |-> s, bucket |-> b, group |-> p.group,
     class |-> class, prev |-> IF picked = None THEN None ELSE picked.class, until |-> now]

SameRow(r, q) == <<r.end, r.of, r.by, r.bucket>> = <<q.end, q.of, q.by, q.bucket>>
IsIn(r, rows) == \E q \in rows : SameRow(q, r)
\* The unique constraint, which never binds rows whose group is NULL.
Clash(r, q) == r.group # None /\ <<r.end, r.group, r.bucket>> = <<q.end, q.group, q.bucket>>

\* Mutant of Updated: the transition is recorded again on every update.
UpdatedAgain(r, changed) ==
    IF ~IsIn(r, changed) THEN r
    ELSE LET q == CHOOSE u \in changed : SameRow(u, r) IN
         [r EXCEPT !.prev = r.class, !.class = q.class, !.until = q.until]

\* An update in place leaves previous_class as it was.
Updated(r, changed) ==
    IF ~IsIn(r, changed) THEN r
    ELSE LET q == CHOOSE u \in changed : SameRow(u, r) IN
         [r EXCEPT !.class = q.class, !.until = q.until]

-----------------------------------------------------------------------------
(* The worker. *)

\* since: when it began, or may begin; adds and sets: decided for the site at
\* hand; added and changed: flushed.
Off == [op |-> "off", since |-> 0, todo |-> {}, own |-> {},
        adds |-> {}, sets |-> {}, added |-> {}, changed |-> {}]
Queued(t) == [Off EXCEPT !.op = "queued", !.since = t]
Running == {s \in Sweeps : sweep[s].op \notin {"off", "queued"}}

StartSweep(s) ==
    /\ sweep[s].op = "queued" /\ sweep[s].since <= now
    /\ sweep' = [sweep EXCEPT ![s].op = "polling", ![s].since = now, ![s].todo = Sites]
    /\ UNCHANGED <<world, intent, samples, evals, lapsed, mishaps>>

\* A probe not tested yet shows nothing to judge.
Sampled(x) ==
    {[end |-> e, at |-> now, sent |-> probe[e].sent, resp |-> probe[e].resp,
      lost |-> probe[e].lost, latency |-> probe[e].latency]
       : e \in {f \in Ends : SiteOf[f] = x /\ probe[f].sent > 0}}

\* A router that cannot be read is a missing point.
PollSite(s, x) ==
    /\ sweep[s].op = "polling" /\ x \in sweep[s].todo
    /\ \E got \in {{}, Sampled(x)} : LET left == sweep[s].todo \ {x} IN
         /\ sweep' = [sweep EXCEPT ![s].own = @ \cup got,
                          ![s].op = IF left = {} THEN "judging" ELSE @,
                          ![s].todo = IF left = {} THEN Sites ELSE left]
         /\ IF got = Sampled(x) THEN UNCHANGED mishaps ELSE Mishap("unread")
    /\ UNCHANGED <<world, intent, samples, evals, lapsed>>

EvaluateSite(s, x) ==
    LET b == BucketOf(now)
        P == Judged(s, x)
        known == {p \in P : ExistingRows(p, b) # {}}
    IN
    /\ sweep[s].op = "judging" /\ x \in sweep[s].todo
    /\ \E pick \in Picks(P, b) :
         sweep' = [sweep EXCEPT ![s].op = "judged", ![s].todo = @ \ {x},
             ![s].sets = {[pick[p] EXCEPT !.class = ClassOf(s, p), !.until = now] : p \in known},
             ![s].adds = {NewRow(s, p, ClassOf(s, p), pick[p], b) : p \in P \ known}]
    /\ lapsed' = lapsed \cup Lapsing(s, x)
    /\ UNCHANGED <<world, intent, samples, evals, mishaps>>

\* A write waits for the uncommitted one it clashes with.
MayFlush(s) ==
    \A t \in Sweeps \ {s} :
        /\ \A r \in sweep[s].sets : ~IsIn(r, sweep[t].changed)
        /\ \A r \in sweep[s].adds, q \in sweep[t].added : ~Clash(r, q)
\* A group is gone, a row was reaped, or another sweep got there first.
FlushFails(s) ==
    \/ \E r \in sweep[s].adds : r.group \notin groups \cup {None} \/ \E q \in evals : Clash(r, q)
    \/ \E r \in sweep[s].sets : ~IsIn(r, evals)

FlushSite(s) ==
    /\ sweep[s].op = "judged" /\ MayFlush(s) /\ ~FlushFails(s)
    /\ sweep' = [sweep EXCEPT ![s].op = "judging", ![s].adds = {}, ![s].sets = {},
                     ![s].added = @ \cup sweep[s].adds, ![s].changed = @ \cup sweep[s].sets]
    /\ UNCHANGED <<world, intent, samples, evals, lapsed, mishaps>>

\* The failed flush is logged and swallowed, every later statement of the
\* session fails, and so does the commit: nothing is kept or enqueued.
SweepFails(s) ==
    /\ sweep[s].op = "judged" /\ MayFlush(s) /\ FlushFails(s)
    /\ sweep' = [sweep EXCEPT ![s] = Off]
    /\ UNCHANGED <<world, intent, samples, evals, lapsed, mishaps>>

\* Nor does the queue run a job again that took too long.
SweepTimesOut(s) ==
    /\ s \in Running /\ now - sweep[s].since = JobTimeout /\ Mishap("timeout")
    /\ sweep' = [sweep EXCEPT ![s] = Off]
    /\ UNCHANGED <<world, intent, samples, evals, lapsed>>

\* Mutant of CommitSweep: a sweep that read nothing does not enqueue the next.
CommitSweepIfAny(s) ==
    /\ sweep[s].op = "judging" /\ sweep[s].todo = {}
    /\ sweep' = [sweep EXCEPT ![s] = IF sweep[s].own = {} THEN Off ELSE Queued(now + 1)]
    /\ samples' = samples \cup sweep[s].own
    /\ evals' = {Updated(r, sweep[s].changed) : r \in evals} \cup sweep[s].added
    /\ UNCHANGED <<world, intent, lapsed, mishaps>>

\* The commit, then the next sweep is enqueued.
CommitSweep(s) ==
    /\ sweep[s].op = "judging" /\ sweep[s].todo = {}
    /\ sweep' = [sweep EXCEPT ![s] = Queued(now + 1)]
    /\ samples' = samples \cup sweep[s].own
    /\ evals' = {Updated(r, sweep[s].changed) : r \in evals} \cup sweep[s].added
    /\ UNCHANGED <<world, intent, lapsed, mishaps>>

\* The queue outlives the worker: what it was running is run again, and starting
\* up enqueues one more sweep.
RestartWorker ==
    /\ Mishap("restart")
    /\ \E new \in {s \in Sweeps : sweep[s] = Off} :
         sweep' = [s \in Sweeps |-> IF s = new \/ s \in Running THEN Queued(now) ELSE sweep[s]]
    /\ UNCHANGED <<world, intent, samples, evals, lapsed>>

ReapSlaEvaluations ==
    /\ evals' = {r \in evals : r.bucket * Bucket >= now - Retention} /\ evals' # evals
    /\ UNCHANGED <<world, intent, samples, sweep, lapsed, mishaps>>

-----------------------------------------------------------------------------
(* Everything else. *)

\* A sweep is over, or given up, when its time is.
Tick ==
    /\ now < MaxTime /\ now' = now + 1
    /\ \A s \in Running : now - sweep[s].since < JobTimeout
    /\ \E test \in [Ends -> Latencies \cup {None}], reset \in {{}} \cup {{e} : e \in Ends} :
         /\ IF reset = {} THEN UNCHANGED mishaps ELSE Mishap("reset")
         /\ probe' = [e \in Ends |->
              [sent |-> 1 + IF e \in reset THEN 0 ELSE probe[e].sent,
               resp |-> (IF test[e] = None THEN 0 ELSE 1) + IF e \in reset THEN 0 ELSE probe[e].resp,
               lost |-> test[e] = None, latency |-> test[e]]]
    /\ UNCHANGED <<intent, samples, evals, sweep, lapsed>>

ChangePolicies(e, gs) ==
    /\ Mishap("edit") /\ gs \subseteq groups
    /\ cover' = [cover EXCEPT ![e] = gs] /\ cover' # cover
    /\ UNCHANGED <<world, groups, samples, evals, sweep, lapsed>>

\* Refused while a policy uses the group; its verdicts stay, without a group.
\* It waits for a sweep that has written one.
DeleteGroup(g) ==
    /\ Mishap("edit")
    /\ g \in groups /\ \A e \in Ends : g \notin cover[e]
    /\ \A s \in Sweeps : \A r \in sweep[s].added \cup sweep[s].changed : r.group # g
    /\ groups' = groups \ {g}
    /\ evals' = {IF r.group = g THEN [r EXCEPT !.group = None] ELSE r : r \in evals}
    /\ UNCHANGED <<world, cover, samples, sweep, lapsed>>

-----------------------------------------------------------------------------
Init ==
    /\ now = 0 /\ mishaps = [k \in Kinds |-> 0]
    /\ probe = [e \in Ends |-> [sent |-> 0, resp |-> 0, lost |-> FALSE, latency |-> None]]
    /\ cover = CoverAtStart /\ groups = Groups
    /\ samples = {} /\ evals = {} /\ lapsed = {}
    /\ sweep \in {[s \in Sweeps |-> IF s = t THEN Queued(0) ELSE Off] : t \in Sweeps}

Sweeping(s) ==
    \/ StartSweep(s) \/ FlushSite(s) \/ SweepFails(s)
    \/ SweepTimesOut(s) \/ CommitSweep(s)
    \/ \E x \in Sites : PollSite(s, x) \/ EvaluateSite(s, x)

Next ==
    \/ \E s \in Sweeps : Sweeping(s)
    \/ RestartWorker \/ ReapSlaEvaluations \/ Tick
    \/ \E e \in Ends, gs \in SUBSET Groups : ChangePolicies(e, gs)
    \/ \E g \in Groups : DeleteGroup(g)

Spec == Init /\ [][Next]_vars

-----------------------------------------------------------------------------
(* What the compliance page reads out of the table. *)

ViolationEpisodes(rows) == {r \in rows : r.class # "in_sla" /\ r.prev \in {None, "in_sla"}}

(* Properties. *)

Sample == [end : Ends, at : 0..MaxTime, sent : 1..MaxTime, resp : 0..MaxTime, lost : BOOLEAN,
           latency : Latencies \cup {None}]
Verdict == [end : Ends, of : Groups \cup {None}, by : Sweeps, bucket : 0..MaxTime, group : Groups \cup {None},
            class : Classes, prev : Classes \cup {None}, until : 0..MaxTime]
ASSUME NoneAssumption == None \notin Verdict

Sweep == [op : {"off", "queued", "polling", "judging", "judged"}, since : 0..MaxTime + 1,
          todo : SUBSET Sites, own : SUBSET Sample, adds : SUBSET Verdict, sets : SUBSET Verdict,
          added : SUBSET Verdict, changed : SUBSET Verdict]
TypeOK ==
    /\ now \in 0..MaxTime /\ mishaps \in [Kinds -> Nat]
    /\ probe \in [Ends -> [sent : 0..now, resp : 0..now, lost : BOOLEAN, latency : Latencies \cup {None}]]
    /\ cover \in [Ends -> SUBSET Groups] /\ groups \subseteq Groups
    /\ samples \cup lapsed \subseteq Sample /\ evals \subseteq Verdict
    /\ sweep \in [Sweeps -> Sweep]
    /\ \A s \in Sweeps : sweep[s].op \in {"off", "queued"} => sweep[s] \in {Off, Queued(sweep[s].since)}

\* Sweeps do not overlap and groups are not deleted.
Undisturbed == mishaps["restart"] = 0 /\ groups = Groups

\* A path has one verdict per bucket (models/telemetry.py: "One row per (site,
\* link, group, bucket)"), by the constraint alone when sweeps overlap, and for
\* the ends no group covers as long as they do not.
OneRowPerBucket ==
    \A r, q \in evals :
        /\ <<r.end, r.group, r.bucket>> = <<q.end, q.group, q.bucket>>
        /\ r.group # None \/ Undisturbed
        => r = q

\* The compliance page counts every spell outside the SLA once: the transitions
\* recorded when rows are first written are those the kept rows show, though the
\* row before may have changed its class after it was written, rows are updated,
\* policies come and go and old rows are reaped.
EpisodesCountedOnce ==
    Undisturbed => \A e \in Ends, g \in Groups \cup {None} :
        LET rows == RowsOf(evals, Path(e, g))
            before(r) == {q \in rows : q.bucket < r.bucket}
            fine(r) == IF before(r) = {} THEN r.prev \in {None, "in_sla"}
                       ELSE \E q \in before(r) : q.class = "in_sla" /\ \A o \in before(r) : o.bucket <= q.bucket
        IN ViolationEpisodes(rows) = {r \in rows : r.class # "in_sla" /\ fine(r)}

\* No sample is kept that was not judged: the verdict is of the same commit, and
\* no later one of its bucket judges less (telemetry_poll) -- but for those a
\* slow poll had read so long before that no window reached back to them.
SamplesAreJudged ==
    Undisturbed => \A p \in samples \ lapsed :
        p.at >= now - Retention + Bucket - 1 => \E r \in evals : r.end = p.end /\ r.until >= p.at

\* Telemetry goes on: unless a sweep takes too long or a group is deleted under
\* it, one that loses to another at the constraint leaves that other to go on,
\* and a restart loses none.
TelemetryGoesOn ==
    mishaps["timeout"] = 0 /\ groups = Groups => \E s \in Sweeps : sweep[s].op # "off"

\* One sweep runs at a time: tasks/worker.py says a slow poll "pushes the next
\* one back instead of overlapping it".  The code breaks it (README, section 5).
OneSweepAtATime == Cardinality(Running) <= 1
=============================================================================
