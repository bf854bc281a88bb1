------------------------------ MODULE Planner ------------------------------
(***************************************************************************)
(* The reconciler of one router: an apply renders the intent, reads the    *)
(* router's menus, diffs the two into a plan (reconcile/diff.py, plan.py)  *)
(* and pushes its operations one at a time until one is refused or lost    *)
(* (drivers/ros7_rest.py), while operators change the intent in the        *)
(* controller and people change the router by hand.                        *)
(***************************************************************************)
EXTENDS Sections

CONSTANTS
    Intents,     \* what the controller may be asked for
    MaxTroubles  \* bound on changes of the intent, edits of the router by
                 \* hand, failed reads and operations that fail by chance

ASSUME BoundAssumption == MaxTroubles \in Nat

\* An intent is of a known transport, over links of the site.
IsIntent(i) == i.transport \in Transports /\ i.links \subseteq ToSet(Links) /\ i.params \in Int

ASSUME IntentAssumption == \A i \in Intents : IsIntent(i)

\* The router stays the same site's: nothing changes a site's slug (SiteUpdate
\* has no such field).
ASSUME SiteAssumption == \A i, j \in Intents : i.site = j.site

VARIABLES
    intent,    \* the fabric, links and site in the controller's database
    menus,     \* the router: the rows of each menu, from the top
    goal,      \* the intent that the apply at hand has rendered
    skipped,   \* the menus its plan was made without reading
    ops,       \* the operations not yet sent
    base,      \* the router as the push found it
    pc,        \* "idle", "read", "planned", "push"; "done": the last apply
               \* went through
    edited,    \* the last edit by hand, against the plan and the last push
               \* that went through: "no", "before" (the plan), "since"
    troubles   \* how many of these there were

vars == <<intent, menus, goal, skipped, ops, base, pc, edited, troubles>>

-----------------------------------------------------------------------------
\* Mutant of Owns: every row with a comment of the menu's section.
OwnsAll(s, row) == s.comment_capable \/ \E n \in DOMAIN s.items : s.items[n].name = row.name

\* ConfigSection.owns: by comment, or by name where there is no comment.
Owns(s, row) ==
    IF s.comment_capable THEN IsPrefix(s.owner, row.tag)
    ELSE \E n \in DOMAIN s.items : s.items[n].name = row.name

\* Mutant of Differs: the properties that name another row are not compared.
DiffersInValue(item, row) == item.val # row.val \/ item.tag # row.tag

Differs(item, row) == item # row

Op(kind, path, row) == [kind |-> kind, path |-> path, row |-> row]

\* diff_section: what is missing or different in the order of the intent,
\* and what is owned and no longer wanted in the order of the router.
Creates(s, live) ==
    LET OwnedAs(item) == {n \in DOMAIN live : Owns(s, live[n]) /\ live[n].name = item.name}
        ToOp(item) == Op(IF OwnedAs(item) = {} THEN "add" ELSE "set", s.path, item)
        items == Only(s.items, {item \in ToSet(s.items) : \A n \in OwnedAs(item) : Differs(item, live[n])})
    IN [n \in DOMAIN items |-> ToOp(items[n])]

Deletes(s, live) ==
    LET wanted == {item.name : item \in ToSet(s.items)}
        rows   == Only(live, {row \in ToSet(live) : Owns(s, row) /\ row.name \notin wanted})
    IN [n \in DOMAIN rows |-> Op("remove", s.path, rows[n])]

AllCreates(secs, m) == FlattenSeq([n \in DOMAIN secs |-> Creates(secs[n], m[secs[n].path])])
AllDeletes(secs, m) == FlattenSeq([n \in DOMAIN secs |-> Deletes(secs[n], m[secs[n].path])])

\* Mutant of PlanOps: tears down first.
PlanOpsDeletesFirst(secs, m) == Reverse(AllDeletes(secs, m)) \o AllCreates(secs, m)

\* Plan.ops: additions in section order, removals in reverse.
PlanOps(secs, m) == AllCreates(secs, m) \o Reverse(AllDeletes(secs, m))

-----------------------------------------------------------------------------
(* The router.                                                             *)

At(m, path, name) == {n \in DOMAIN m[path] : m[path][n].name = name}

\* Every row that row names is there.
Resolved(m, row) == \A r \in row.refs : At(m, r[1], r[2]) # {}

\* RouterOS refuses a row that names one it does not have ("input does not
\* match any value of ..."), a second row of the same identity, and an
\* operation on a row that is gone.
Accepts(m, op) ==
    LET there == At(m, op.path, op.row.name)
    IN CASE op.kind = "add"    -> there = {} /\ Resolved(m, op.row)
         [] op.kind = "set"    -> there # {} /\ Resolved(m, op.row)
         [] op.kind = "remove" -> there # {}

\* New rows go to the end of their menu.
Effect(m, op) ==
    LET live  == m[op.path]
        there == At(m, op.path, op.row.name)
    IN [m EXCEPT ![op.path] =
          CASE op.kind = "add"    -> Append(live, op.row)
            [] op.kind = "set"    -> [n \in DOMAIN live |-> IF n \in there THEN op.row
                                                                          ELSE live[n]]
            [] op.kind = "remove" -> Only(live, {r \in ToSet(live) : r.name # op.row.name})]

\* What people wrote carries no tag, and has names of its own.
ByHand == Row(<<"by hand">>, {}, 0, <<>>)
Foreign(m) == [p \in Paths |-> Only(m[p], {r \in ToSet(m[p]) : r.name = ByHand.name})]

\* A router with an operator's masquerade rule, and nothing of the controller.
Factory == [p \in Paths |-> IF p = "/ip/firewall/nat" THEN <<ByHand>> ELSE <<>>]

-----------------------------------------------------------------------------
Init ==
    /\ intent \in Intents /\ goal = intent
    /\ menus = Factory /\ base = Factory
    /\ skipped = {} /\ ops = <<>> /\ pc = "idle" /\ edited = "no"
    /\ troubles = 0

Trouble == troubles < MaxTroubles /\ troubles' = troubles + 1

\* What render_device returns for each intent.
Rendering == [i \in Intents |-> render_device(i)]

\* An apply begins by rendering the intent of the moment.
Render ==
    /\ pc \in {"idle", "done"}
    /\ pc' = "read" /\ goal' = intent
    /\ UNCHANGED <<intent, menus, skipped, ops, base, edited, troubles>>

\* build_plan without the menus in lost; an empty plan ends the apply.
PlanWithout(lost) ==
    LET sections == Only(Rendering[goal], {s \in ToSet(Rendering[goal]) : s.path \notin lost})
        plan     == PlanOps(sections, menus)
    IN /\ skipped' = lost /\ ops' = plan
       /\ pc' = IF plan = <<>> THEN "done" ELSE "planned"
       /\ edited' = CASE plan = <<>>      -> "no"
                      [] edited = "since" -> "before"
                      [] OTHER            -> edited
       /\ UNCHANGED <<intent, menus, goal, base>>

Plan == pc = "read" /\ PlanWithout({}) /\ UNCHANGED troubles

\* One menu cannot be read. The apply is refused if it has rows to write;
\* a section that is there to clean up is left out.
PlanUnread ==
    /\ pc = "read" /\ Trouble
    /\ \E s \in ToSet(Rendering[goal]) :
          IF s.items = <<>> THEN PlanWithout({s.path})
          ELSE /\ pc' = "idle"
               /\ UNCHANGED <<intent, menus, goal, skipped, ops, base, edited>>

\* The backup, then the push.
StartPush ==
    /\ pc = "planned" /\ pc' = "push" /\ base' = menus
    /\ UNCHANGED <<intent, menus, goal, skipped, ops, edited, troubles>>

PushOp ==
    /\ pc = "push" /\ Accepts(menus, Head(ops))
    /\ menus' = Effect(menus, Head(ops)) /\ ops' = Tail(ops)
    /\ pc' = IF Len(ops) = 1 THEN "done" ELSE "push"
    /\ edited' = IF Len(ops) = 1 /\ edited = "before" THEN "no" ELSE edited
    /\ UNCHANGED <<intent, goal, skipped, base, troubles>>

\* An operation is refused, or fails by chance having taken effect or not,
\* and apply stops. What was pushed stays, or the restore point brings back
\* what was there.
PushFails ==
    /\ pc = "push"
    /\ \/ Accepts(menus, Head(ops)) /\ Trouble
             /\ menus' \in {menus, Effect(menus, Head(ops)), base}
       \/ ~Accepts(menus, Head(ops)) /\ UNCHANGED troubles /\ menus' \in {menus, base}
    /\ ops' = <<>> /\ pc' = "idle"
    /\ UNCHANGED <<intent, goal, skipped, base, edited>>

\* The controller's API: links enabled or disabled, parameters changed, the
\* fabric moved to another transport. A plan in hand does not notice.
ChangeIntent ==
    /\ Trouble
    /\ intent' \in Intents \ {intent}
    /\ UNCHANGED <<menus, goal, skipped, ops, base, pc, edited>>

\* What somebody may leave of a menu: a row of their own added at its end, a
\* row of the controller's changed or removed.
Edits(live) ==
    {Append(live, ByHand)}
        \cup {[live EXCEPT ![n].val = 1 - @] : n \in DOMAIN live}
        \cup {RemoveAt(live, n) : n \in DOMAIN live}

EditByHand ==
    /\ pc # "push" /\ Trouble
    /\ \E p \in Paths : \E live \in Edits(menus[p]) : menus' = [menus EXCEPT ![p] = live]
    /\ edited' = "since" /\ pc' = IF pc = "done" THEN "idle" ELSE pc
    /\ UNCHANGED <<intent, goal, skipped, ops, base>>

Next ==
    \/ Render \/ Plan \/ PlanUnread \/ StartPush \/ PushOp \/ PushFails
    \/ ChangeIntent \/ EditByHand

Spec == Init /\ [][Next]_vars

\* The site keeps being applied, by its operators or by the drift sweep, and
\* an apply does not stand still. (Plan is possible whenever the pc is "read",
\* so that is its weak fairness.)
FairSpec ==
    /\ Spec
    /\ WF_vars(Render) /\ WF_vars(StartPush) /\ WF_vars(PushOp \/ PushFails)
    /\ []<>(pc # "read")

-----------------------------------------------------------------------------
\* The rows of a menu that intent i asks for, before any merging; those of
\* ipsec profiles without their tag.
Asked == [i \in Intents |-> [p \in Paths |->
    UNION {{[r EXCEPT !.tag = IF s.comment_capable THEN @ ELSE <<>>] : r \in ToSet(s.items)} :
              s \in {t \in ToSet(Rendered(i)) : t.path = p}}]]

\* The module's promise ("hand-built configuration on the same device is
\* neither read as drift nor removed as unmanaged", diff.py): no push and no
\* failed push changes, removes or reorders a row that people wrote.
ForeignUntouched == [][pc = "push" => Foreign(menus') = Foreign(menus)]_vars

\* "Every mutation, in a safe order" (Plan.ops): unless the router was edited
\* after it was read, no operation of a plan is refused, whatever intents,
\* failed pushes and edits the router went through before.
NothingRefused == pc = "push" /\ edited # "since" => Accepts(menus, Head(ops))

\* "The new row must exist before the old one goes away" (SectionDiff.ops): no
\* operation takes from a row that stays what the row refers to, as when a
\* fabric moves its addresses and routes from one transport to another.
MakeBeforeBreak ==
    [][pc = "push" /\ menus' = Effect(menus, Head(ops)) =>
          \A p \in Paths : \A n \in DOMAIN menus'[p] :
             LET row == menus'[p][n]
             IN row \in ToSet(menus[p]) /\ Resolved(menus, row)
                   /\ (\E r \in Asked[goal][p] : r.name = row.name)
                   => Resolved(menus', row)]_vars

\* The router holds of the controller's rows in these menus what the intent
\* asks for and nothing else. (Profiles are never swept.)
Clean(i, m, paths) ==
    \A p \in paths :
       IF p = "/ip/ipsec/profile" THEN Asked[i][p] \subseteq ToSet(m[p])
       ELSE {r \in ToSet(m[p]) : r.tag # <<>>} = Asked[i][p]

\* A push that goes through, or a plan that finds nothing to do, leaves
\* exactly what was asked for, in particular nothing of the links, transports
\* and parameters that the router had before, in every menu that was read.
CleanAfterPush == pc = "done" /\ edited = "no" => Clean(goal, menus, Paths \ skipped)

\* ConfigSection.before: "every row this section owns must appear -- in section
\* order -- before the first device row matching this predicate".  Merging loses
\* it, so the code does not keep this (see the README).
Placed ==
    pc = "done" /\ edited = "no" =>
       \A s \in {t \in ToSet(Rendered(goal)) : t.before} :
          \A m, n \in DOMAIN menus[s.path] :
             menus[s.path][m] = ByHand /\ menus[s.path][n] \in ToSet(s.items) => n < m

\* Whatever was changed, edited, refused or lost on the way, a site that keeps
\* being applied ends up with its intent on the router.
EventuallyConverged == <>[]Clean(intent, menus, Paths)
=============================================================================
