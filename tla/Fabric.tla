------------------------------- MODULE Fabric -------------------------------
(***************************************************************************)
(* Fabrics, their members and the links expansion derives from them, with  *)
(* the sites and uplinks underneath (services/fabric.py, fabric/expand.py, *)
(* fabric/allocate.py, api/v1/fabrics.py, api/v1/sites.py).                *)
(*                                                                         *)
(* Every request is one database transaction at READ COMMITTED.  The short *)
(* ones are one action.  Expanding and updating a fabric read first and    *)
(* write what they worked out from that reading at their end, so they are  *)
(* sessions of several steps, and anything may commit in between.          *)
(*                                                                         *)
(* A /31 is a number, a pool a set of them.  An uplink is a number too:    *)
(* the order of the numbers is the order of (site name, uplink name).      *)
(***************************************************************************)
EXTENDS Integers, FiniteSets

CONSTANTS
    Fabrics,        \* names of fabrics
    Sites,          \* names of sites
    Wans,           \* uplinks, in name order
    SiteOf,         \* the site an uplink is on
    Legacy,         \* sites that run RouterOS 6
    Addresses,      \* public addresses
    Transports,     \* the registered transports in use
    Pools,          \* the tunnel pools operators choose from
    Loopbacks,      \* the loopback pool, shared by default
    SiteLoopback,   \* a site's own loopback, if the operator gave it one
    Ports,          \* listen ports from the transport's base upwards
    Sessions,       \* requests that expand or update a fabric at once
    WanRows,        \* the rows operators give an uplink
    FabricRows,     \* the rows operators give a fabric
    Rosters,        \* the member lists operators submit
    Documents,      \* the exports of other installs they import
    SitesAtStart,   \* sites already onboarded, with their roles
    WansAtStart,    \* their uplinks
    FabricsAtStart, \* fabrics already created over those sites
    MaxEdits,       \* bound on the operators' edits
    None

VARIABLES
    role,       \* the sites that exist, and their role
    wan,        \* the uplinks that exist, and their row
    fab,        \* the fabrics that exist, and their row
    mem,        \* fabric -> its members, each with role_override and loopback
    links,      \* the links table
    session,    \* what each expanding or updating request has in hand
    history,    \* fabric -> what befell it that nothing in the code prevents
    edits

vars == <<role, wan, fab, mem, links, session, history, edits>>

Roles == {"hub", "spoke"}
Topologies == {"full_mesh", "hub_spoke"}
FabricRow == [transport : Transports, topology : Topologies, pool : Pools, enabled : BOOLEAN]
WanRow == [ip : Addresses \cup {None}, nat : BOOLEAN, up : BOOLEAN]
Member == [role : Roles \cup {None}, lo : Loopbacks \cup {None}]
Link == [fab : Fabrics, a : Wans, b : Wans, subnet : Nat, port : Ports \cup {None},
         dial : {"a", "b"}, key : Transports]
IsPartial(g, S, T) == DOMAIN g \subseteq S /\ g \in [DOMAIN g -> T]

ASSUME FabricAssumption ==
    /\ Wans \subseteq Nat /\ Ports \subseteq Nat /\ Loopbacks \subseteq Nat
    /\ \A p \in Pools : p \subseteq Nat
    /\ SiteOf \in [Wans -> Sites] /\ Legacy \subseteq Sites
    /\ SiteLoopback \in [Sites -> Loopbacks \cup {None}]
    /\ None \notin Nat /\ None \notin Addresses
    /\ WanRows \subseteq WanRow /\ FabricRows \subseteq FabricRow /\ Rosters \subseteq SUBSET Sites
    /\ IsPartial(SitesAtStart, Sites, Roles) /\ IsPartial(WansAtStart, Wans, WanRow)
    /\ IsPartial(FabricsAtStart, Fabrics, FabricRow)
    /\ \A d \in Documents :
         /\ IsPartial(d.sites, Sites, Roles) /\ IsPartial(d.fabrics, Fabrics, FabricRows)
         /\ IsPartial(d.wans, {w \in Wans : SiteOf[w] \in DOMAIN d.sites}, WanRow)
         /\ IsPartial(d.members, Fabrics, SUBSET Sites) /\ DOMAIN d.members = DOMAIN d.fabrics
    /\ MaxEdits \in Nat

Override(g, h) == [x \in DOMAIN g \cup DOMAIN h |-> IF x \in DOMAIN h THEN h[x] ELSE g[x]]
Without(g, xs) == [x \in DOMAIN g \ xs |-> g[x]]
Overlaps(p, q) == p \cap q # {}
LinksOf(f) == {l \in links : l.fab = f}
Touches(l, ws) == l.a \in ws \/ l.b \in ws
WansOf(xs) == {w \in DOMAIN wan : SiteOf[w] \in xs}

-----------------------------------------------------------------------------
(* What a transport can do with a pair of uplinks. *)

Listens(t) == t = "wireguard"
Runs(t, x) == t = "wireguard" => x \notin Legacy
DialOutOnly(w) == w.ip = None \/ w.nat

\* Could a tunnel between these two ever establish?
ValidatePair(t, a, b) ==
    /\ ~(DialOutOnly(a.row) /\ DialOutOnly(b.row))
    /\ t # "wireguard" =>
         \A r \in {a.row, b.row} : r.ip # None /\ (r.nat => t = "ipsec_gre")
    /\ Runs(t, a.site) /\ Runs(t, b.site)

\* The end nothing can reach dials; between equals the first by name.
ChooseInitiator(a, b) ==
    IF DialOutOnly(b.row) /\ ~DialOutOnly(a.row) THEN "b" ELSE "a"

-----------------------------------------------------------------------------
(* Expansion as a function of what the session has read. *)

\* Mutant of MembersToWans: only the membership's own role counts.
MembersToWansOverride(f) ==
    {[wan |-> w, site |-> SiteOf[w], row |-> wan[w], role |-> mem[f][SiteOf[w]].role]
       : w \in {u \in WansOf(DOMAIN mem[f]) : wan[u].up}}

\* The enabled uplinks of the members, each with the role it has here.
MembersToWans(f) ==
    {[wan |-> w, site |-> SiteOf[w], row |-> wan[w],
      role |-> IF mem[f][SiteOf[w]].role # None THEN mem[f][SiteOf[w]].role
                                                ELSE role[SiteOf[w]]]
       : w \in {u \in WansOf(DOMAIN mem[f]) : wan[u].up}}

WantedPairs(v) ==
    {p \in [a : v.refs, b : v.refs] :
        /\ p.a.wan < p.b.wan /\ p.a.site # p.b.site
        /\ v.row.topology = "full_mesh" \/ "hub" \in {p.a.role, p.b.role}}

\* Mutant of Joins: the pair is looked up the other way round only.
JoinsReversed(l, p) == l.a = p.b.wan /\ l.b = p.a.wan

Joins(l, p) == {l.a, l.b} = {p.a.wan, p.b.wan}
Created(v) == {p \in WantedPairs(v) :
                 /\ \A l \in v.links : ~Joins(l, p)
                 /\ ValidatePair(v.row.transport, p.a, p.b)}
Removed(v) == {l \in v.links : \A p \in WantedPairs(v) : ~Joins(l, p)}
\* Links from before their transport listened get a port now.
Unported(v) == IF Listens(v.row.transport) THEN {l \in v.links : l.port = None} ELSE {}
Loopback(v, x) == IF v.mem[x].lo # None THEN v.mem[x].lo ELSE SiteLoopback[x]
Lacking(v) == {x \in DOMAIN v.mem : Loopback(v, x) = None}

\* Lowest-first allocation: distinct free values, none passed over.
Allocations(want, free) ==
    {g \in [want -> free] :
        /\ \A p, q \in want : g[p] = g[q] => p = q
        /\ \A p \in want, x \in free : x < g[p] => \E q \in want : g[q] = x}

\* Mutant of PortsHeldElsewhere: only a link's first end is looked at.
PortsHeldAtFirstEnds(v) ==
    {l.port : l \in {k \in links : /\ k.fab # v.fab /\ k.port # None
                                   /\ Touches([k EXCEPT !.b = k.a], WansOf(DOMAIN v.mem))}}

PortsHeldElsewhere(v) ==
    {l.port : l \in {k \in links : /\ k.fab # v.fab /\ k.port # None
                                   /\ Touches(k, WansOf(DOMAIN v.mem))}}
\* Mutant of SubnetsHeldElsewhere: only fabrics on the very same pool count.
SubnetsOfSamePool(v) ==
    {l.subnet : l \in {k \in links : k.fab # v.fab /\ fab[k.fab].pool = v.row.pool}}

SubnetsHeldElsewhere(v) ==
    {l.subnet : l \in {k \in links : k.fab # v.fab /\ Overlaps(fab[k.fab].pool, v.row.pool)}}

FreeSubnets(v) == v.row.pool \ (v.subnets \cup {l.subnet : l \in v.links})
FreePorts(v) == Ports \ (v.ports \cup {l.port : l \in v.links})
\* Mutant of FreeLoopbacks: what a site had of its own hides what it was given.
FreeLoopbacksOwnOnly(v) == Loopbacks \ {SiteLoopback[x] : x \in DOMAIN v.mem}

FreeLoopbacks(v) == Loopbacks \ {Loopback(v, x) : x \in DOMAIN v.mem}
NeedPorts(v) == IF Listens(v.row.transport) THEN v.unported \cup v.created ELSE {}

\* Pairs are linked in name order, after the links that only lacked a port.
Precedes(p, q) == p.a.wan < q.a.wan \/ (p.a.wan = q.a.wan /\ p.b.wan < q.b.wan)
InOrder(v, subnet, port) ==
    \A p \in v.created :
        /\ \A q \in v.created : Precedes(p, q) =>
             subnet[p] < subnet[q] /\ (Listens(v.row.transport) => port[p] < port[q])
        /\ \A l \in v.unported : port[l] < port[p]

\* Rows the flush will update or refer to; one of them gone fails the flush.
Needs(v) ==
    {<<"fabric", v.fab>>} \cup {<<"member", v.fab, x>> : x \in v.lacking}
      \cup {<<"link", v.fab, l.a, l.b>> : l \in v.unported}
      \cup {<<"wan", p.a.wan>> : p \in v.created}
      \cup {<<"wan", p.b.wan>> : p \in v.created}

-----------------------------------------------------------------------------
(* The requests that read first and write later. *)

Idle == [op |-> "idle"]
Edit == edits < MaxEdits /\ edits' = edits + 1

\* Rows deleted now are missing for the sessions that are still to write.
Lose(rows) ==
    session' = [s \in Sessions |->
                 IF session[s] = Idle THEN Idle
                 ELSE [session[s] EXCEPT !.lost = @ \cup rows]]
\* The columns of a fabric its links are made for, and those new rows change
\* under links that are there.
Columns == {"transport", "pool"}
Moved(f, rows) ==
    {c \in Columns : f \in DOMAIN fab /\ LinksOf(f) # {} /\ rows[f][c] # fab[f][c]}
CascadeLinks(gone) == {<<"link", l.fab, l.a, l.b>> : l \in gone}

View(f) ==
    [op |-> "loaded", fab |-> f, row |-> fab[f], mem |-> mem[f], links |-> LinksOf(f),
     refs |-> MembersToWans(f), ports |-> {}, subnets |-> {}, lost |-> {}, raced |-> FALSE,
     created |-> {}, removed |-> {}, unported |-> {}, lacking |-> {}]

\* MaxEdits also bounds the expansions that begin while another is under way.
LoadFabric(s, f) ==
    /\ session[s] = Idle /\ f \in DOMAIN fab
    /\ session' = [session EXCEPT ![s] = View(f)]
    /\ IF \A r \in Sessions : session[r] = Idle THEN UNCHANGED edits ELSE Edit
    /\ UNCHANGED <<role, wan, fab, mem, links, history>>

\* Read what other fabrics hold, then work out what should change.
Expand(s) ==
    LET v == session[s] IN
    /\ v.op = "loaded"
    /\ session' = [session EXCEPT ![s] =
         [v EXCEPT !.op = "expanded",
                   !.ports = PortsHeldElsewhere(v), !.subnets = SubnetsHeldElsewhere(v),
                   !.created = Created(v), !.removed = Removed(v),
                   !.unported = Unported(v), !.lacking = Lacking(v)]]
    /\ UNCHANGED <<role, wan, fab, mem, links, history, edits>>

Flushes(v) ==
    /\ Needs(v) \cap v.lost = {}
    /\ \A p \in v.created, l \in LinksOf(v.fab) : <<l.a, l.b>> # <<p.a.wan, p.b.wan>>

SameRow(k, l) == <<k.fab, k.a, k.b>> = <<l.fab, l.a, l.b>>
Kept(v) == {l \in links : \A r \in v.removed : ~SameRow(r, l)}
WithPort(fill, port, l) ==
    IF \A u \in fill : ~SameRow(u, l) THEN l
    ELSE [l EXCEPT !.port = port[CHOOSE u \in fill : SameRow(u, l)]]
WithLoopbacks(members, f, lo) ==
    [members EXCEPT ![f] = [x \in DOMAIN @ |-> IF x \in DOMAIN lo THEN [@[x] EXCEPT !.lo = lo[x]]
                                                                ELSE @[x]]]
NewLink(v, subnet, port, p) ==
    [fab |-> v.fab, a |-> p.a.wan, b |-> p.b.wan, subnet |-> subnet[p],
     port |-> IF Listens(v.row.transport) THEN port[p] ELSE None,
     dial |-> ChooseInitiator(p.a, p.b), key |-> v.row.transport]

Flushed(v, members) ==
    \E subnet \in Allocations(v.created, FreeSubnets(v)),
       port \in Allocations(NeedPorts(v), FreePorts(v)),
       lo \in Allocations(v.lacking, FreeLoopbacks(v)) :
         /\ InOrder(v, subnet, port)
         /\ links' = {WithPort(v.unported, port, l) : l \in Kept(v)}
                        \cup {NewLink(v, subnet, port, p) : p \in v.created}
         /\ mem' = WithLoopbacks(members, v.fab, lo)
\* No lock keeps a session from writing what another has read, or will not see.
Finish(s, gone) ==
    session' = [r \in Sessions |->
         IF r = s \/ session[r] = Idle THEN Idle
         ELSE [session[r] EXCEPT !.lost = @ \cup CascadeLinks(gone),
                  !.raced = @ \/ session[r].op = "expanded" \/ session[r].fab = session[s].fab]]
Outlived(v) == {c \in Columns : v.created # {} /\ v.row[c] # fab[v.fab][c]}
Recorded(v) ==
    history' = [history EXCEPT ![v.fab] = @ \cup Outlived(v) \cup IF v.raced THEN {"raced"} ELSE {}]

ExpandFabric(s) ==
    /\ session[s].op = "expanded" /\ Flushes(session[s])
    /\ Flushed(session[s], mem) /\ Finish(s, session[s].removed) /\ Recorded(session[s])
    /\ UNCHANGED <<role, wan, fab, edits>>

Exhausted(v) ==
    \/ Allocations(v.created, FreeSubnets(v)) = {}
    \/ Allocations(NeedPorts(v), FreePorts(v)) = {}
    \/ Allocations(v.lacking, FreeLoopbacks(v)) = {}

\* A pool is exhausted, or the flush failed: the transaction is rolled back.
ExpandFails(s) ==
    /\ session[s].op = "expanded" /\ (~Flushes(session[s]) \/ Exhausted(session[s]))
    /\ session' = [session EXCEPT ![s] = Idle]
    /\ UNCHANGED <<role, wan, fab, mem, links, history, edits>>

\* PATCH: the checks, on what is read now.
LoadUpdate(s, f, new) ==
    /\ session[s] = Idle /\ f \in DOMAIN fab /\ edits < MaxEdits /\ new # fab[f]
    /\ new.transport # fab[f].transport => \A x \in DOMAIN mem[f] : Runs(new.transport, x)
    /\ new.pool # fab[f].pool => LinksOf(f) = {}
    /\ session' = [session EXCEPT ![s] =
         [op |-> "update", fab |-> f, row |-> fab[f], new |-> new, lost |-> {}, raced |-> FALSE]]
    /\ edits' = edits + 1
    /\ UNCHANGED <<role, wan, fab, mem, links, history>>

\* Mutant of ReallocateSecrets: only links that already had a port are re-keyed.
ReallocatePorted(f, t) ==
    {IF l.fab = f /\ l.port # None THEN [l EXCEPT !.key = t] ELSE l : l \in links}

\* Mutant of ReallocateSecrets: a re-keyed link gives its port back.
ReallocateAll(f, t) ==
    {IF l.fab = f THEN [l EXCEPT !.key = t, !.port = None] ELSE l : l \in links}

ReallocateSecrets(f, t) == {IF l.fab = f THEN [l EXCEPT !.key = t] ELSE l : l \in links}

\* PATCH: the changed columns are written and a new transport re-keys every link.
UpdateFabric(s) ==
    LET v == session[s]
        rekey == v.new.transport # v.row.transport
    IN
    /\ v.op = "update" /\ session' = [session EXCEPT ![s] = Idle]
    /\ IF v.fab \in DOMAIN fab /\ <<"fabric", v.fab>> \notin v.lost
       THEN /\ fab' = [fab EXCEPT ![v.fab] =
                 [c \in DOMAIN @ |-> IF v.new[c] # v.row[c] THEN v.new[c] ELSE @[c]]]
            /\ links' = IF rekey THEN ReallocateSecrets(v.fab, v.new.transport) ELSE links
            /\ history' = [history EXCEPT ![v.fab] =
                 (@ \cup Moved(v.fab, fab')) \ IF rekey THEN {"transport"} ELSE {}]
       ELSE UNCHANGED <<fab, links, history>>
    /\ UNCHANGED <<role, wan, mem, edits>>

-----------------------------------------------------------------------------
(* The requests that are over in one step. *)

NewMembers(xs, r) == [x \in xs |-> [role |-> r, lo |-> None]]

CreateFabric(f, row, xs) ==
    /\ Edit /\ f \notin DOMAIN fab /\ xs \subseteq DOMAIN role
    /\ fab' = Override(fab, [g \in {f} |-> row])
    /\ mem' = [mem EXCEPT ![f] = NewMembers(xs, None)]
    /\ UNCHANGED <<role, wan, links, session, history>>

DeleteFabric(f) ==
    /\ Edit /\ f \in DOMAIN fab
    /\ fab' = Without(fab, {f})
    /\ mem' = [mem EXCEPT ![f] = << >>]
    /\ links' = links \ LinksOf(f)
    /\ Lose({<<"fabric", f>>}) /\ UNCHANGED <<role, wan, history>>

AddMember(f, x, r) ==
    /\ Edit /\ f \in DOMAIN fab /\ x \in DOMAIN role \ DOMAIN mem[f]
    /\ mem' = [mem EXCEPT ![f] = Override(@, NewMembers({x}, r))]
    /\ UNCHANGED <<role, wan, fab, links, session, history>>

\* The tunnels stay until the next expansion.
RemoveMember(f, x) ==
    /\ Edit /\ f \in DOMAIN fab /\ x \in DOMAIN mem[f]
    /\ mem' = [mem EXCEPT ![f] = Without(@, {x})]
    /\ Lose({<<"member", f, x>>}) /\ UNCHANGED <<role, wan, fab, links, history>>

CreateSite(x, r) ==
    /\ Edit /\ x \notin DOMAIN role
    /\ role' = Override(role, [y \in {x} |-> r])
    /\ UNCHANGED <<wan, fab, mem, links, session, history>>

UpdateSite(x, r) ==
    /\ Edit /\ x \in DOMAIN role /\ role[x] # r
    /\ role' = [role EXCEPT ![x] = r]
    /\ UNCHANGED <<wan, fab, mem, links, session, history>>

DropWans(ws) ==
    LET gone == {l \in links : Touches(l, ws)} IN
    /\ wan' = Without(wan, ws)
    /\ links' = links \ gone
    /\ Lose({<<"wan", w>> : w \in ws} \cup CascadeLinks(gone))

DeleteSite(x) ==
    /\ Edit /\ x \in DOMAIN role /\ \A f \in Fabrics : x \notin DOMAIN mem[f]
    /\ role' = Without(role, {x})
    /\ DropWans(WansOf({x})) /\ UNCHANGED <<fab, mem, history>>

RejectDuplicatePublicIp(w, ip) ==
    ip # None => \A u \in DOMAIN wan \ {w} : wan[u].up => wan[u].ip # ip

AddWan(w, row) ==
    /\ Edit /\ w \notin DOMAIN wan /\ SiteOf[w] \in DOMAIN role
    /\ RejectDuplicatePublicIp(w, row.ip)
    /\ wan' = Override(wan, [u \in {w} |-> row])
    /\ UNCHANGED <<role, fab, mem, links, session, history>>

\* The address is looked up only when the request carries one.
UpdateWan(w, row) ==
    /\ Edit /\ w \in DOMAIN wan /\ row # wan[w]
    /\ row.ip # wan[w].ip => RejectDuplicatePublicIp(w, row.ip)
    /\ wan' = [wan EXCEPT ![w] = row]
    /\ UNCHANGED <<role, fab, mem, links, session, history>>

DeleteWan(w) ==
    /\ Edit /\ w \in DOMAIN wan /\ DropWans({w}) /\ UNCHANGED <<role, fab, mem, history>>

\* An imported document overwrites the sites, uplinks and fabrics it names,
\* whatever the links were made for, and adds the members it lists.
ImportIntent(d) ==
    /\ Edit
    /\ role' = Override(role, d.sites)
    /\ wan' = Override(wan, d.wans)
    /\ fab' = Override(fab, d.fabrics)
    /\ mem' = [f \in Fabrics |->
         IF f \in DOMAIN d.fabrics
         THEN Override(NewMembers(d.members[f] \cap DOMAIN role', None), mem[f]) ELSE mem[f]]
    /\ history' = [f \in Fabrics |-> history[f] \cup Moved(f, fab')]
    /\ UNCHANGED <<links, session>>

-----------------------------------------------------------------------------
(* What a device is asked to run. *)

LinksForSite(x) == {l \in links : x \in {SiteOf[l.a], SiteOf[l.b]}}
\* The tunnels rendered for a site, each with the port its listener gets there:
\* one without a port of its own falls back to the transport's base.
SiteFabricView(x) ==
    {[link |-> l, initiator |-> (l.dial = "a") = (SiteOf[l.a] = x),
      port |-> IF ~Listens(fab[l.fab].transport) THEN None
               ELSE IF l.port # None THEN l.port ELSE CHOOSE p \in Ports : \A q \in Ports : p <= q]
       : l \in {k \in LinksForSite(x) : fab[k.fab].enabled}}

-----------------------------------------------------------------------------
Init ==
    /\ role = SitesAtStart
    /\ wan = WansAtStart
    /\ fab = FabricsAtStart /\ links = {}
    /\ mem = [f \in Fabrics |-> IF f \in DOMAIN fab
         THEN NewMembers(DOMAIN role, None) ELSE << >>]
    /\ session = [s \in Sessions |-> Idle] /\ history = [f \in Fabrics |-> {}] /\ edits = 0

DesigningIn(s) ==
    \/ \E f \in Fabrics : LoadFabric(s, f) \/ \E new \in FabricRows : LoadUpdate(s, f, new)
    \/ Expand(s) \/ ExpandFabric(s) \/ ExpandFails(s) \/ UpdateFabric(s)

Editing ==
    \/ \E f \in Fabrics :
         \/ \E row \in FabricRows, xs \in Rosters : CreateFabric(f, row, xs)
         \/ DeleteFabric(f)
         \/ \E x \in Sites : RemoveMember(f, x) \/ \E r \in {"hub", None} : AddMember(f, x, r)
    \/ \E x \in Sites : DeleteSite(x) \/ \E r \in Roles : CreateSite(x, r) \/ UpdateSite(x, r)
    \/ \E d \in Documents : ImportIntent(d)
    \/ \E w \in Wans : DeleteWan(w) \/ \E row \in WanRows : AddWan(w, row) \/ UpdateWan(w, row)

Next == Editing \/ \E s \in Sessions : DesigningIn(s)

Spec == Init /\ [][Next]_vars

-----------------------------------------------------------------------------
(* Properties. *)

Ref == [wan : Wans, site : Sites, row : WanRow, role : Roles]
TypeOK ==
    /\ IsPartial(role, Sites, Roles) /\ IsPartial(wan, Wans, WanRow)
    /\ IsPartial(fab, Fabrics, FabricRow)
    /\ DOMAIN mem = Fabrics /\ \A f \in Fabrics : IsPartial(mem[f], Sites, Member)
    /\ links \subseteq Link /\ edits \in 0..MaxEdits
    /\ history \in [Fabrics -> SUBSET (Columns \cup {"raced"})] /\ DOMAIN session = Sessions
    /\ \A s \in Sessions : session[s] # Idle =>
         /\ session[s].fab \in Fabrics /\ session[s].row \in FabricRow
         /\ session[s].op = "update" => session[s].new \in FabricRow
         /\ session[s].op # "update" =>
              /\ IsPartial(session[s].mem, Sites, Member) /\ session[s].links \subseteq Link
              /\ session[s].refs \subseteq Ref

\* No two links whose fabrics draw on overlapping pools have the same /31:
\* expansion steers new links around its own and every other fabric's, read
\* before it writes (_subnets_held_elsewhere).  The two ways a clash comes about:
\* an expansion wrote although another had since it read, or a pool was moved
\* from under links.
SubnetsDisjoint ==
    \A k, l \in links : k # l /\ k.subnet = l.subnet =>
        \/ {"raced", "pool"} \cap (history[k.fab] \cup history[l.fab]) # {}
        \/ k.fab # l.fab /\ ~Overlaps(fab[k.fab].pool, fab[l.fab].pool)

\* No two links that meet on a router were given the same listen port, of one
\* fabric or of two (_ports_held_elsewhere): the second would never run.  Only
\* expansions that overtake each other break it.
PortsDisjoint ==
    \A k, l \in links : k # l /\ k.port = l.port /\ k.port # None =>
        \/ "raced" \in history[k.fab] \cup history[l.fab]
        \/ {SiteOf[k.a], SiteOf[k.b]} \cap {SiteOf[l.a], SiteOf[l.b]} = {}

\* No two tunnel interfaces of a device listen on one port: models/fabric.py says
\* of the port "two interfaces cannot share" one.  The code breaks it (README,
\* section 5).
RenderedPortsDistinct ==
    \A x \in Sites : \A t, u \in SiteFabricView(x) :
        t # u /\ t.port = u.port => t.port = None

\* Two members of a fabric are never given one loopback, however members come
\* and go while an expansion is under way (_assign_loopbacks), unless one
\* expansion of it overtakes another.
LoopbacksDistinct ==
    \A f \in Fabrics : \A x, y \in DOMAIN mem[f] :
        x # y /\ mem[f][x].lo # None => "raced" \in history[f] \/ mem[f][x].lo # mem[f][y].lo

\* Every link holds the key material of its fabric's transport, whatever came
\* between the transport's last change and the expansion that created the link
\* (reallocate_secrets).  The two ways a link is left with the wrong keys: an
\* import sets another transport, or a PATCH does while an expansion is under way.
KeysMatchTransport ==
    \A l \in links : "transport" \in history[l.fab] \/ l.key = fab[l.fab].transport

\* Addressing is stable: as long as a link or a membership lives, no expansion,
\* edit or import moves its /31, its dialling side, a port or a loopback it has
\* (fabric/allocate.py: "an existing assignment is never moved"); a port or a
\* loopback only when two expansions both found it lacking.
AssignmentsStable ==
    [][/\ \A k \in links, l \in links' : SameRow(k, l) =>
            /\ k.subnet = l.subnet /\ k.dial = l.dial
            /\ k.port \in {None, l.port} \/ "raced" \in history'[l.fab]
       /\ \A f \in Fabrics : \A x \in DOMAIN mem[f] \cap DOMAIN mem'[f] :
            mem[f][x].lo \in {None, mem'[f][x].lo} \/ "raced" \in history'[f]]_vars

\* Expansion converges: when nothing it read has changed by the time it writes,
\* a second one would create, remove, number and address nothing (expand is
\* "convergent, not generative").
Current(v) == \A c \in {"row", "mem", "links", "refs"} : v[c] = View(v.fab)[c]
NothingLeft(v) == Created(v) = {} /\ Removed(v) = {} /\ Unported(v) = {} /\ Lacking(v) = {}
ExpansionConverges ==
    [][\A s \in Sessions, f \in DOMAIN fab :
         ExpandFabric(s) /\ session[s].fab = f /\ Current(session[s])
           => NothingLeft(View(f))']_vars
=============================================================================
