------------------------------ MODULE Steering ------------------------------
(***************************************************************************)
(* Steering at one site: what the operators' policies, groups and SLA      *)
(* profiles render to (render/policy.py, api/v1/policies.py, policy_view   *)
(* of services/fabric.py), and what the router then does with it: probes   *)
(* whose scripts demote and restore the routes of the policies' tables.    *)
(*                                                                         *)
(* The controller's push is one step here (SafeApply and Planner take it   *)
(* apart).  Netwatch and /ip/route are RouterOS, modelled from what the    *)
(* rendered rows ask of them: a script's statements after its delay take   *)
(* no time against an interval between tests, and the delay is as long as  *)
(* it pleases.                                                             *)
(***************************************************************************)
EXTENDS Integers, Sequences, FiniteSets, SequencesExt

CONSTANTS
    ByName,         \* the policies, in the order of their names
    MarkOf,         \* policy -> its mark: the name's slug, cut to 31 characters
    BucketMark,     \* mark -> the names of its buckets, cut to 31 characters too
    PolicyChoices,  \* policy -> what an operator may make of it
    Groups,
    GroupChoices,   \* group -> what an operator may make of it
    Profiles,       \* SLA profiles
    ProfileChoices, \* profile -> what an operator may make of it
    Wans,           \* 1..n: the site's enabled uplinks, as listed
    NamesOf,        \* uplink -> its tags and its name
    NameOf,         \* uplink -> its name
    Cost,           \* uplink -> its cost
    HopChoices,     \* uplink -> sets of far tunnel addresses: its links
    Starts,         \* what the intent may be at first
    Conditions,     \* what a path may be like: a round trip time, packets lost per test
    MaxEdits,       \* bound on the operators' edits
    MaxChanges,     \* bound on the changes of the paths and the router's reboots
    None

VARIABLES
    policies,   \* policy -> its row or None
    groups,     \* group -> its row or None
    profiles,   \* SLA profile -> its row or None
    hops,       \* uplink -> the far ends of its links
    chain,      \* mangle, in the order of the router
    routes,     \* the routes of the policies' tables
    rules,      \* the tables with a routing rule
    probes,     \* netwatch: probe -> the (table, distance) pairs of its scripts
    verdict,    \* netwatch: probe -> its status
    waiting,    \* up-scripts in their delay
    wrote,      \* history: the probes whose scripts wrote after all else
    path,       \* hop -> its condition or None
    unapplied,  \* whether the intent was edited since the last push
    edits, changes

intent == <<policies, groups, profiles, hops, unapplied, edits>>
config == <<chain, routes, rules, probes>>
runtime == <<verdict, waiting, wrote>>
world == <<path, changes>>
vars == <<intent, config, runtime, world>>

\* Mutant of SLA_PENALTY: a breached first preference is the last but one.
SLA_PENALTY_ONE == 1

SLA_PENALTY == 100
MAX_BUCKETS == 16
MAX_PACKET_COUNT == 100
DEFAULT_SLA == [loss |-> 20, latency |-> 300, interval |-> 10, count |-> 10, recovery |-> 60]

Policies == ToSet(ByName)
AllHops == UNION {UNION HopChoices[w] : w \in Wans}

\* The rows the API and the tables accept.
PolicyRow == [priority : Int, enabled : BOOLEAN, group : Groups \cup {None}, sni : BOOLEAN,
              fallback : {"any", "drop"}]
Member == [uplink : STRING, weight : 1..100]
GroupRow == [members : Seq(Member), strategy : {"failover", "load_balance"}, sla : Profiles \cup {None}]

ASSUME SteeringAssumption ==
    /\ Wans = 1..Cardinality(Wans) /\ IsFiniteSet(Wans) /\ MaxEdits \in Nat /\ MaxChanges \in Nat
    /\ ByName \in Seq(Policies) /\ Cost \in [Wans -> Int]
    /\ None \notin Policies \cup Groups \cup Profiles /\ None \notin Conditions
    /\ \A p \in Policies : \A n, m \in Wans : BucketMark[MarkOf[p]][n] = BucketMark[MarkOf[p]][m] => n = m
    /\ \A p \in Policies : PolicyChoices[p] \subseteq PolicyRow
    /\ \A g \in Groups : GroupChoices[g] \subseteq GroupRow
    /\ \A s \in Starts : /\ s.policies \in [Policies -> PolicyRow \cup {None}]
                          /\ s.groups \in [Groups -> GroupRow \cup {None}]
                          /\ s.hops \in [Wans -> SUBSET AllHops]
                          /\ \A w \in Wans : s.hops[w] \in HopChoices[w]
    /\ \A w, v \in Wans : w # v => (UNION HopChoices[w]) \cap (UNION HopChoices[v]) = {}

\* The members of a set in an order of theirs: the n-th has n - 1 before it.
InOrder(S, Before(_, _)) ==
    [n \in 1..Cardinality(S) |-> CHOOSE x \in S : Cardinality({y \in S : Before(y, x)}) = n - 1]

-----------------------------------------------------------------------------
(* What a policy may steer onto. *)

GroupOf(p) == IF policies[p].group = None THEN None ELSE groups[policies[p].group]
Sla(p) == IF GroupOf(p) = None \/ GroupOf(p).sla = None THEN DEFAULT_SLA ELSE profiles[GroupOf(p).sla]
Members(p) == IF GroupOf(p) = None THEN <<>> ELSE GroupOf(p).members
Uplink(p, n) == Members(p)[n].uplink

\* The first member that names an uplink decides its place.
Chosen(p) == {w \in Wans : hops[w] # {} /\ \E n \in DOMAIN Members(p) : Uplink(p, n) \in NamesOf[w]}
Place(p, w) == CHOOSE n \in DOMAIN Members(p) :
                  /\ Uplink(p, n) \in NamesOf[w]
                  /\ \A m \in 1..n - 1 : Uplink(p, m) \notin NamesOf[w]
Preferred(p, v, w) ==
    \/ Place(p, v) < Place(p, w)
    \/ Place(p, v) = Place(p, w) /\ (Cost[v] < Cost[w] \/ (Cost[v] = Cost[w] /\ v < w))
PathsFor(p) == InOrder(Chosen(p), LAMBDA v, w : Preferred(p, v, w))

Enabled(p) == policies[p] # None /\ policies[p].enabled

\* The others are skipped: marking their traffic would lead it nowhere.
Rendered == {p \in Policies : Enabled(p) /\ Chosen(p) # {}}

Balanced(p) == GroupOf(p) # None /\ GroupOf(p).strategy = "load_balance" /\ Len(PathsFor(p)) > 1

\* Priority, then name.
Precedes(p, q) ==
    LET At(x) == CHOOSE n \in DOMAIN ByName : ByName[n] = x IN
    \/ policies[p].priority < policies[q].priority
    \/ policies[p].priority = policies[q].priority /\ At(p) < At(q)

\* Of the policies with one mark, the first has the tables.
Owners ==
    LET rendered == Rendered IN
    {p \in rendered : ~\E q \in rendered : MarkOf[q] = MarkOf[p] /\ Precedes(q, p)}

\* A table is named for the mark, under load_balance for the mark's bucket.  The
\* mark is cut to make room, so two marks may have a bucket of one name, and a
\* bucket may have the name of another policy's mark.
Table(m, n) == IF n = 0 THEN m ELSE BucketMark[m][n]
Slots(p) == IF Balanced(p) THEN DOMAIN PathsFor(p) ELSE {0}
TablesOf(p) == {Table(MarkOf[p], n) : n \in Slots(p)}

\* Two rows of one identity are refused.
TablesApart == \A p, q \in Owners : p # q => TablesOf(p) \cap TablesOf(q) = {}

\* A policy that matches SNI cannot be balanced: rendering the site fails.
Renders == TablesApart /\ \A p \in Rendered : ~(policies[p].sni /\ Balanced(p))

-----------------------------------------------------------------------------
(* Load balancing: a bucket for every share. *)

\* A weight is found by the uplink's own name, not by the tag that chose it.
Weights(p) ==
    [n \in DOMAIN PathsFor(p) |->
        LET named == {m \in DOMAIN Members(p) : Uplink(p, m) = NameOf[PathsFor(p)[n]]}
        IN IF named = {} THEN 1 ELSE Members(p)[CHOOSE m \in named : TRUE].weight]

\* Python's round: a half goes to the even side.
Rounded(a, b) ==
    LET whole == a \div b IN
    whole + IF 2 * (a % b) > b \/ (2 * (a % b) = b /\ whole % 2 = 1) THEN 1 ELSE 0
Sum(s) == LET sum[n \in 0..Len(s)] == IF n = 0 THEN 0 ELSE sum[n - 1] + s[n] IN sum[Len(s)]
Largest(s) == CHOOSE n \in DOMAIN s : /\ \A m \in DOMAIN s : s[m] <= s[n]
                                      /\ \A m \in 1..n - 1 : s[m] < s[n]
\* What overshoots is taken from the largest, one at a time, down to one each.
Trimmed(counts) ==
    LET over == Sum(counts) - MAX_BUCKETS
        trim[n \in 0..over] ==
          IF n = 0 THEN counts
          ELSE LET c == trim[n - 1] IN
               IF c[Largest(c)] = 1 THEN c ELSE [c EXCEPT ![Largest(c)] = @ - 1]
    IN IF over > 0 THEN trim[over] ELSE counts
\* Every path keeps a bucket.
Scaled(weights) ==
    IF Sum(weights) <= MAX_BUCKETS THEN weights
    ELSE Trimmed([n \in DOMAIN weights |->
                    IF Rounded(weights[n] * MAX_BUCKETS, Sum(weights)) = 0 THEN 1
                    ELSE Rounded(weights[n] * MAX_BUCKETS, Sum(weights))])
\* The path of every bucket.
Buckets(p) ==
    LET counts == Scaled(Weights(p)) IN FlattenSeq([n \in DOMAIN counts |-> [b \in 1..counts[n] |-> n]])

-----------------------------------------------------------------------------
(* Mangle. *)

Row(p, kind, n, table) == [of |-> p, kind |-> kind, n |-> n, table |-> table]
GuardKinds == <<"local", "lan", "lan_output", "infra">>
Guards == [n \in DOMAIN GuardKinds |-> Row(None, GuardKinds[n], 0, None)]

\* A classifier's table is the one its connections are routed by in the end.
MangleOf(p) ==
    LET m == MarkOf[p] plain == Table(m, 0)
        buckets == Buckets(p)
        classify == [n \in DOMAIN buckets |-> Row(p, "pcc", n, Table(m, buckets[n]))]
        route == [n \in DOMAIN PathsFor(p) |-> Row(p, "route", n, Table(m, n))]
    IN IF policies[p].sni THEN <<Row(p, "sni", 0, plain), Row(p, "mark", 0, plain)>>
       ELSE IF Balanced(p) THEN classify \o route
       ELSE <<Row(p, "mark", 0, plain), Row(p, "mark_output", 0, plain)>>

\* The guards come first, and only where something is steered.
Mangle ==
    LET inOrder == InOrder(Rendered, Precedes) IN
    IF inOrder = <<>> THEN <<>>
    ELSE Guards \o FlattenSeq([n \in DOMAIN inOrder |-> MangleOf(inOrder[n])])

-----------------------------------------------------------------------------
(* Routes, rules. *)

\* The place in the group; under load_balance a bucket's own path, then the others.
Distance(b, n) == IF b = 0 THEN n ELSE IF b = n THEN 1 ELSE 2

RoutesOf(p) ==
    LET paths == PathsFor(p) m == MarkOf[p] IN
    UNION {{[table |-> Table(m, b), hop |-> h, distance |-> Distance(b, n)] : b \in Slots(p), h \in hops[paths[n]]}
             : n \in DOMAIN paths}
RoutesWanted == UNION {RoutesOf(p) : p \in Owners}

\* fallback "any": a table without a live route falls through to main.
RulesWanted == UNION {TablesOf(p) : p \in {q \in Owners : policies[q].fallback = "any"}}

-----------------------------------------------------------------------------
(* Probes, one for each hop and standard. *)

Least(a, b) == IF a < b THEN a ELSE b
Most(a, b) == IF a < b THEN b ELSE a

\* Enough packets that one lost does not breach, if there is time for them.
EffectivePacketCount(sla) ==
    LET floor == (100 + sla.loss - 1) \div sla.loss
        cap == Least(MAX_PACKET_COUNT, Most(1, 16 * sla.interval))
    IN IF sla.loss = 0 THEN sla.count ELSE Most(sla.count, Least(floor, cap))
Fingerprint(sla) == [sla EXCEPT !.count = EffectivePacketCount(sla)]

ProbesOf(p) == {[hop |-> h, sla |-> Fingerprint(Sla(p))] : h \in UNION {hops[w] : w \in Chosen(p)}}

\* Mutant of Shares: the scripts of a probe name every table that has its hop.
SharesAll(p, k) == k.hop \in UNION {hops[w] : w \in Chosen(p)}

\* Policies share a probe if hop and standard are theirs.
Shares(p, k) == k \in ProbesOf(p)

Sharing(k) == {p \in Owners : Shares(p, k)}

\* Its scripts name the tables of all of them.
ProbesWanted ==
    [k \in UNION {ProbesOf(p) : p \in Owners} |->
        LET asked == UNION {RoutesOf(p) : p \in Sharing(k)} IN
        {[table |-> r.table, distance |-> r.distance] : r \in {q \in asked : q.hop = k.hop}}]

-----------------------------------------------------------------------------
(* The push. *)

SameComment(r, q) == <<r.of, r.kind, r.n>> = <<q.of, q.kind, q.n>>
SameRoute(r, q) == r.table = q.table /\ r.hop = q.hop

\* Rows keep their places, new ones go to the end.
ChainPushed(rows) ==
    LET wanted == ToSet(rows) there == ToSet(chain)
        kept == InOrder({n \in DOMAIN chain : \E q \in wanted : SameComment(chain[n], q)}, LAMBDA i, j : i < j)
        new == InOrder({n \in DOMAIN rows : ~\E r \in there : SameComment(r, rows[n])}, LAMBDA i, j : i < j)
    IN [n \in DOMAIN kept |-> CHOOSE q \in wanted : SameComment(chain[kept[n]], q)]
         \o [n \in DOMAIN new |-> rows[new[n]]]

\* The distance of a route that is there is the scripts' and left alone.
RoutesPushed(asked) ==
    {r \in routes : \E q \in asked : SameRoute(r, q)}
      \cup {q \in asked : ~\E r \in routes : SameRoute(r, q)}

\* A script in its delay that is no longer what its probe would run.
Stale(scripts, now) == {s \in scripts : s.probe \notin DOMAIN now \/ s.targets # now[s.probe]}

\* Netwatch may or may not start an entry afresh when its scripts change.
Push ==
    /\ unapplied /\ Renders /\ unapplied' = FALSE
    /\ chain' = ChainPushed(Mangle) /\ routes' = RoutesPushed(RoutesWanted)
    /\ rules' = RulesWanted /\ probes' = ProbesWanted
    /\ LET same == {k \in DOMAIN probes \cap DOMAIN probes' : probes[k] = probes'[k]}
           there == DOMAIN probes \cap DOMAIN probes'
       IN /\ \E going \in {same, there} :
               verdict' = [k \in DOMAIN probes' |-> IF k \in going THEN verdict[k] ELSE "unknown"]
          /\ wrote' = IF Stale(waiting, probes') = {} THEN wrote \cap same ELSE {}
    /\ UNCHANGED <<policies, groups, profiles, hops, edits, waiting, world>>

-----------------------------------------------------------------------------
(* The router. *)

Passes(k) ==
    LET c == path[k.hop] IN
    c # None /\ c.rtt <= k.sla.latency /\ 100 * c.lost <= k.sla.loss * k.sla.count

\* Mutant of Write: a route is looked for at the distance it was rendered with.
WriteAtPlace(k, targets, penalty) ==
    LET To(r) == {t \in targets : t.table = r.table /\ t.distance = r.distance} IN
    routes' = {IF r.hop = k.hop /\ To(r) # {}
               THEN [r EXCEPT !.distance = penalty + (CHOOSE t \in To(r) : TRUE).distance]
               ELSE r : r \in routes}

\* Distances are absolute, so a script may run twice.
Write(k, targets, penalty) ==
    LET To(r) == {t \in targets : t.table = r.table} IN
    routes' = {IF r.hop = k.hop /\ To(r) # {}
               THEN [r EXCEPT !.distance = penalty + (CHOOSE t \in To(r) : TRUE).distance]
               ELSE r : r \in routes}
LastWord(k) == wrote' = IF Stale(waiting, probes) = {} THEN wrote \cup {k} ELSE wrote

\* The first test decides the status and runs no script.
FirstTest(k) ==
    /\ k \in DOMAIN probes /\ verdict[k] = "unknown"
    /\ verdict' = [verdict EXCEPT ![k] = IF Passes(k) THEN "up" ELSE "down"]
    /\ UNCHANGED <<intent, config, waiting, wrote, world>>

GoesDown(k) ==
    /\ k \in DOMAIN probes /\ verdict[k] = "up" /\ ~Passes(k)
    /\ verdict' = [verdict EXCEPT ![k] = "down"]
    /\ Write(k, probes[k], SLA_PENALTY) /\ LastWord(k)
    /\ UNCHANGED <<intent, chain, rules, probes, waiting, world>>

\* Up must stay up for recovery seconds, or none at all.
GoesUp(k) ==
    /\ k \in DOMAIN probes /\ verdict[k] = "down" /\ Passes(k)
    /\ verdict' = [verdict EXCEPT ![k] = "up"]
    /\ IF k.sla.recovery = 0
       THEN Write(k, probes[k], 0) /\ LastWord(k) /\ UNCHANGED waiting
       ELSE waiting' = waiting \cup {[probe |-> k, targets |-> probes[k]]} /\ UNCHANGED <<routes, wrote>>
    /\ UNCHANGED <<intent, chain, rules, probes, world>>

\* The script reads its own entry again; if that is gone it fails.
StillUp(s) == s.probe \in DOMAIN probes /\ verdict[s.probe] = "up"

DelayEnds(s) ==
    /\ s \in waiting /\ waiting' = waiting \ {s}
    /\ IF StillUp(s) THEN Write(s.probe, s.targets, 0) /\ LastWord(s.probe)
       ELSE UNCHANGED <<routes, wrote>>
    /\ UNCHANGED <<intent, chain, rules, probes, verdict, world>>

\* The configuration survives; what netwatch knew and ran does not.
Reboot ==
    /\ changes < MaxChanges /\ changes' = changes + 1
    /\ verdict' = [k \in DOMAIN probes |-> "unknown"] /\ waiting' = {} /\ wrote' = {}
    /\ UNCHANGED <<intent, config, path>>

PathChanges(h) ==
    /\ changes < MaxChanges /\ changes' = changes + 1
    /\ \E c \in Conditions \cup {None} : c # path[h] /\ path' = [path EXCEPT ![h] = c]
    /\ UNCHANGED <<intent, config, runtime>>

-----------------------------------------------------------------------------
(* The operators. *)

Edit ==
    /\ edits < MaxEdits /\ edits' = edits + 1 /\ unapplied' = TRUE
    /\ UNCHANGED <<config, runtime, world>>

\* _check_references and _check_sni_load_balance_conflict
Accepts(row) ==
    row.group # None =>
        groups[row.group] # None /\ ~(row.sni /\ groups[row.group].strategy = "load_balance")
CreatePolicy(p) ==
    /\ Edit /\ policies[p] = None
    /\ \E row \in PolicyChoices[p] : Accepts(row) /\ policies' = [policies EXCEPT ![p] = row]
    /\ UNCHANGED <<groups, profiles, hops>>
UpdatePolicy(p) ==
    /\ Edit /\ policies[p] # None
    /\ \E row \in PolicyChoices[p] \ {policies[p]} :
         Accepts(row) /\ policies' = [policies EXCEPT ![p] = row]
    /\ UNCHANGED <<groups, profiles, hops>>
\* Its rows stay on the router until the next push.
DeletePolicy(p) ==
    /\ Edit /\ policies[p] # None /\ policies' = [policies EXCEPT ![p] = None]
    /\ UNCHANGED <<groups, profiles, hops>>

SlaExists(row) == row.sla # None => profiles[row.sla] # None
CreateGroup(g) ==
    /\ Edit /\ groups[g] = None
    /\ \E row \in GroupChoices[g] : SlaExists(row) /\ groups' = [groups EXCEPT ![g] = row]
    /\ UNCHANGED <<policies, profiles, hops>>
\* Nothing is asked of the policies that use it.
UpdateGroup(g) ==
    /\ Edit /\ groups[g] # None
    /\ \E row \in GroupChoices[g] \ {groups[g]} : SlaExists(row) /\ groups' = [groups EXCEPT ![g] = row]
    /\ UNCHANGED <<policies, profiles, hops>>
DeleteGroup(g) ==
    /\ Edit /\ groups[g] # None /\ \A p \in Policies : policies[p] # None => policies[p].group # g
    /\ groups' = [groups EXCEPT ![g] = None]
    /\ UNCHANGED <<policies, profiles, hops>>

CreateSla(x) ==
    /\ Edit /\ profiles[x] = None
    /\ \E row \in ProfileChoices[x] : profiles' = [profiles EXCEPT ![x] = row]
    /\ UNCHANGED <<policies, groups, hops>>
UpdateSla(x) ==
    /\ Edit /\ profiles[x] # None
    /\ \E row \in ProfileChoices[x] \ {profiles[x]} : profiles' = [profiles EXCEPT ![x] = row]
    /\ UNCHANGED <<policies, groups, hops>>
DeleteSla(x) ==
    /\ Edit /\ profiles[x] # None /\ \A g \in Groups : groups[g] # None => groups[g].sla # x
    /\ profiles' = [profiles EXCEPT ![x] = None]
    /\ UNCHANGED <<policies, groups, hops>>

\* The fabric links an uplink or unlinks it.
Relink(w) ==
    /\ Edit /\ \E hs \in HopChoices[w] \ {hops[w]} : hops' = [hops EXCEPT ![w] = hs]
    /\ UNCHANGED <<policies, groups, profiles>>

-----------------------------------------------------------------------------
Init ==
    /\ \E s \in Starts : /\ policies = s.policies /\ groups = s.groups
                          /\ profiles = s.profiles /\ hops = s.hops
    /\ chain = <<>> /\ routes = {} /\ rules = {} /\ probes = <<>>
    /\ verdict = <<>> /\ waiting = {} /\ wrote = {}
    /\ path \in {[h \in AllHops |-> c] : c \in Conditions}
    /\ unapplied = TRUE /\ edits = 0 /\ changes = 0

Netwatch ==
    \/ \E k \in DOMAIN probes : FirstTest(k) \/ GoesDown(k) \/ GoesUp(k)
    \/ \E s \in waiting : DelayEnds(s)

Operators ==
    \/ \E p \in Policies : CreatePolicy(p) \/ UpdatePolicy(p) \/ DeletePolicy(p)
    \/ \E g \in Groups : CreateGroup(g) \/ UpdateGroup(g) \/ DeleteGroup(g)
    \/ \E x \in Profiles : CreateSla(x) \/ UpdateSla(x) \/ DeleteSla(x)
    \/ \E w \in Wans : Relink(w)

Next == Push \/ Netwatch \/ Reboot \/ (\E h \in AllHops : PathChanges(h)) \/ Operators

Spec == Init /\ [][Next]_vars

\* Netwatch goes on testing and its scripts run; nobody need push or edit.
FairSpec == Spec /\ WF_vars(Netwatch)

-----------------------------------------------------------------------------
(* Properties. *)

Waits(k) == \E s \in waiting : s.probe = k
RouteTo(t, h) == CHOOSE r \in routes : r.table = t /\ r.hop = h
Healthy(k) == \A t \in probes[k] : RouteTo(t.table, k.hop).distance = t.distance
Demoted(k) == \A t \in probes[k] : RouteTo(t.table, k.hop).distance = t.distance + SLA_PENALTY

\* A policy's routes are demoted while their own standard is breached and only
\* then, also where policies of other standards use the same hop, policies share
\* a probe, and groups, standards and links change under the scripts ("a shared
\* probe cannot rewrite another policy's distances", _health_script): once a
\* probe's scripts have written, every table they name has the hop where the
\* probe's status puts it, or the script that will put it there is waiting.
SteeredByOwnStandard ==
    \A k \in wrote : \/ verdict[k] = "down" /\ Demoted(k)
                     \/ verdict[k] = "up" /\ (Healthy(k) \/ Waits(k))

\* What a table's traffic takes: of the routes whose gateway answers, a nearest.
Live(t) == {r \in routes : r.table = t /\ path[r.hop] # None}
Taken(t) == {r \in Live(t) : \A q \in Live(t) : r.distance <= q.distance}

\* The probes that put a table's routes where they are, and the place that they
\* put theirs at while they are up.
Deciding(t) == {k \in wrote : ~Waits(k) /\ \E x \in probes[k] : x.table = t}
Preference(k, t) == (CHOOSE x \in probes[k] : x.table = t).distance

\* Of the policies whose rules the chain has, none other has this one's mark.
OwnMark(x) == \A y \in ToSet(chain) : y.of \notin {None, x.of} => MarkOf[y.of] # MarkOf[x.of]

\* Every mark leads somewhere ("marking traffic into an empty routing table
\* blackholes it", docs/architecture.md) unless two policies share it, and then
\* to a path within its SLA while one is left, to the most preferred of those,
\* and to a breached one rather than nowhere ("a fully degraded site still
\* forwards").
TrafficTakesBestPath ==
    /\ \A x \in ToSet(chain) : x.table # None /\ OwnMark(x) => \E r \in routes : r.table = x.table
    /\ \A t \in {r.table : r \in routes} : \A k, l \in Deciding(t) :
         (\E r \in Taken(t) : r.hop = k.hop) /\ (\E r \in Live(t) : r.hop = l.hop) /\ verdict[l] = "up"
         => verdict[k] = "up" /\ Preference(k, t) <= Preference(l, t)

AllProbes == {[hop |-> h, sla |-> Fingerprint(s)] :
                h \in AllHops, s \in {DEFAULT_SLA} \cup UNION {ProfileChoices[x] : x \in Profiles}}

\* Netwatch has begun a probe afresh, or scripts of before the last push wait.
Afresh(k) == k \notin DOMAIN probes \/ verdict[k] = "unknown" \/ Stale(waiting, probes) # {}

\* "The route stays in the table so the path can be re-preferred once it has
\* recovered" (_merge_probes): a path that its probe has seen fail is preferred
\* again, or goes on failing, if netwatch does not begin the probe afresh before.
\* After that it may stay demoted for good (README, section 5).
Recovers ==
    \A k \in AllProbes :
        k \in DOMAIN probes /\ verdict[k] = "down" ~> \/ k \in DOMAIN probes /\ Healthy(k)
                                                      \/ Afresh(k) \/ []~Passes(k)

\* "The section is marked ``ordered`` so the reconciler preserves it": after a
\* push the rules stand in the order of priority, the guards before all.  The code
\* breaks it (README, section 5).
ChainInOrder == [][Push => chain' = Mangle]_vars
=============================================================================
