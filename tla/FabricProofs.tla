---------------------------- MODULE FabricProofs ----------------------------
(***************************************************************************)
(* Proofs about Fabric, for any sites, uplinks, pools and fabrics, any     *)
(* number of sessions and edits, and any documents.  Then about            *)
(* Enrollment, on top of it, for any number of tokens and calls and any    *)
(* routers.                                                                *)
(***************************************************************************)
EXTENDS Enrollment, TLAPS

-----------------------------------------------------------------------------
(* Types. *)

UpdateFields == {"op", "fab", "row", "new", "lost", "raced"}
ViewFields == {"op", "fab", "row", "mem", "links", "refs", "ports", "subnets", "lost",
               "raced", "created", "removed", "unported", "lacking"}
IsUpdate(v) ==
    /\ v = [k \in UpdateFields |-> v[k]] /\ v.op = "update"
    /\ v.fab \in Fabrics /\ v.row \in FabricRow /\ v.new \in FabricRow /\ v.raced \in BOOLEAN
IsView(v) ==
    /\ v = [k \in ViewFields |-> v[k]] /\ v.op \in {"loaded", "expanded"}
    /\ v.fab \in Fabrics /\ v.row \in FabricRow /\ v.raced \in BOOLEAN
    /\ IsPartial(v.mem, Sites, Member) /\ v.links \subseteq Link /\ v.refs \subseteq Ref

\* What an expansion means to do follows from what its session has read.
IsWorkedOut(v) ==
    v.op = "expanded" => /\ v.created = Created(v) /\ v.removed = Removed(v)
                         /\ v.unported = Unported(v) /\ v.lacking = Lacking(v)

TypedRows(r, w, f, m) ==
    /\ IsPartial(r, Sites, Roles) /\ IsPartial(w, Wans, WanRow) /\ IsPartial(f, Fabrics, FabricRow)
    /\ m = [g \in Fabrics |-> m[g]]
    /\ \A g \in Fabrics : IsPartial(m[g], Sites, Member) /\ DOMAIN m[g] \subseteq DOMAIN r
    /\ \A g \in Fabrics : DOMAIN m[g] # {} => g \in DOMAIN f
Histories == [Fabrics -> SUBSET (Columns \cup {"raced"})]
TypeInv ==
    /\ TypedRows(role, wan, fab, mem) /\ links \subseteq Link /\ edits \in 0..MaxEdits
    /\ history \in Histories
    /\ session = [s \in Sessions |-> session[s]]
    /\ \A s \in Sessions :
         \/ session[s] = Idle
         \/ IsUpdate(session[s])
         \/ IsView(session[s]) /\ IsWorkedOut(session[s])

LEMMA IdleFacts == Idle.op = "idle"
BY DEF Idle

LEMMA TypeInvType == TypeInv => TypeOK
<1> SUFFICES ASSUME TypeInv
             PROVE  TypeOK
  OBVIOUS
<1>1. ASSUME NEW s \in Sessions, session[s] # Idle
      PROVE  /\ session[s].fab \in Fabrics /\ session[s].row \in FabricRow
             /\ session[s].op = "update" => session[s].new \in FabricRow
             /\ session[s].op # "update" =>
                  /\ IsPartial(session[s].mem, Sites, Member) /\ session[s].links \subseteq Link
                  /\ session[s].refs \subseteq Ref
  BY <1>1 DEF TypeInv, IsUpdate, IsView
<1>2. DOMAIN session = Sessions /\ DOMAIN mem = Fabrics
  BY DEF TypeInv, TypedRows
<1> QED
  BY <1>1, <1>2 DEF TypeInv, TypeOK, TypedRows, Histories

LEMMA MembersType ==
    ASSUME NEW xs \in SUBSET Sites, NEW r \in Roles \cup {None}
    PROVE  IsPartial(NewMembers(xs, r), Sites, Member) /\ DOMAIN NewMembers(xs, r) = xs
           /\ \A x \in xs : NewMembers(xs, r)[x].lo = None
BY DEF IsPartial, NewMembers, Member

LEMMA SingleType ==
    ASSUME NEW S, NEW T, NEW x \in S, NEW row \in T
    PROVE  IsPartial([y \in {x} |-> row], S, T)
BY DEF IsPartial

LEMMA InitType == Init => TypeInv
<1> SUFFICES ASSUME Init
             PROVE  TypeInv
  OBVIOUS
<1>1. IsPartial(NewMembers(DOMAIN role, None), Sites, Member) /\ DOMAIN NewMembers(DOMAIN role, None) = DOMAIN role
  BY FabricAssumption, MembersType DEF Init, IsPartial
<1>2. IsPartial(<< >>, Sites, Member) /\ DOMAIN << >> = {}
  BY DEF IsPartial
<1>3. mem = [g \in Fabrics |-> mem[g]]
  BY DEF Init
<1>4. \A g \in Fabrics : IsPartial(mem[g], Sites, Member) /\ DOMAIN mem[g] \subseteq DOMAIN role
  BY <1>1, <1>2 DEF Init
<1>5. TypedRows(role, wan, fab, mem)
  BY <1>3, <1>4, FabricAssumption DEF Init, TypedRows
<1> QED
  BY <1>5, FabricAssumption DEF Init, TypeInv, Histories

-----------------------------------------------------------------------------
(* What an edit can do, whatever it is. *)

Marked(rows) ==
    session' = [s \in Sessions |->
                 IF session[s] = Idle THEN Idle
                 ELSE [session[s] EXCEPT !.lost = @ \cup rows]]

HistoryGrows == history' \in Histories /\ \A f \in Fabrics : history[f] \subseteq history'[f]

\* Links only go; a fabric that goes is marked, and when one that stays is given
\* another transport or pool under its links that goes down in its history; an
\* uplink that goes is marked; loopbacks only go, with their members.
EditEffect(rows) ==
    /\ Marked(rows) /\ TypedRows(role, wan, fab, mem)' /\ edits' \in 0..MaxEdits
    /\ HistoryGrows /\ links' \subseteq links
    /\ \A f \in DOMAIN fab :
         \/ /\ f \in DOMAIN fab'
            /\ \A c \in Columns : fab'[f][c] = fab[f][c] \/ LinksOf(f) = {} \/ c \in history'[f]
         \/ <<"fabric", f>> \in rows /\ f \notin DOMAIN fab' /\ \A l \in links' : l.fab # f
    /\ \A w \in DOMAIN wan :
         \/ w \in DOMAIN wan'
         \/ <<"wan", w>> \in rows /\ \A l \in links' : w \notin {l.a, l.b}
    /\ \A f \in Fabrics : \A x \in DOMAIN mem'[f] :
         mem'[f][x].lo # None => x \in DOMAIN mem[f] /\ mem[f][x].lo = mem'[f][x].lo
    /\ \A f \in Fabrics : \A x \in DOMAIN mem[f] \cap DOMAIN mem'[f] :
         mem[f][x].lo \in {None, mem'[f][x].lo}

LEMMA MarkedNothing ==
    ASSUME TypeInv, UNCHANGED session
    PROVE  Marked({})
<1>1. ASSUME NEW s \in Sessions, session[s] # Idle
      PROVE  session[s] = [session[s] EXCEPT !.lost = @ \cup {}]
  <2>1. \/ session[s] = [k \in UpdateFields |-> session[s][k]]
        \/ session[s] = [k \in ViewFields |-> session[s][k]]
    BY <1>1 DEF TypeInv, IsUpdate, IsView
  <2>2. session[s].lost = session[s].lost \cup {}
    OBVIOUS
  <2> QED
    BY <2>1, <2>2 DEF UpdateFields, ViewFields
<1> QED
  BY <1>1 DEF TypeInv, Marked

LEMMA EditCounted ==
    ASSUME TypeInv, Edit
    PROVE  edits' \in 0..MaxEdits
BY FabricAssumption DEF TypeInv, Edit

LEMMA HistoryKept ==
    ASSUME TypeInv, UNCHANGED history
    PROVE  HistoryGrows
BY DEF TypeInv, HistoryGrows

LEMMA CreateFabricEffect ==
    ASSUME TypeInv, NEW f \in Fabrics, NEW row \in FabricRows, NEW xs \in Rosters, CreateFabric(f, row, xs)
    PROVE  EditEffect({})
<1>1. IsPartial([g \in {f} |-> row], Fabrics, FabricRow)
  BY FabricAssumption DEF IsPartial
<1>2. /\ IsPartial(fab', Fabrics, FabricRow) /\ DOMAIN fab' = DOMAIN fab \cup {f}
      /\ \A g \in DOMAIN fab : fab'[g] = fab[g]
  BY <1>1 DEF CreateFabric, TypeInv, TypedRows, IsPartial, Override
<1>3. /\ IsPartial(NewMembers(xs, None), Sites, Member) /\ DOMAIN NewMembers(xs, None) = xs
      /\ \A x \in xs : NewMembers(xs, None)[x].lo = None
  BY FabricAssumption, MembersType
<1>4. xs \subseteq DOMAIN role /\ mem' = [mem EXCEPT ![f] = NewMembers(xs, None)]
  BY DEF CreateFabric
<1>5. /\ mem' = [g \in Fabrics |-> mem'[g]] /\ mem'[f] = NewMembers(xs, None)
      /\ \A g \in Fabrics \ {f} : mem'[g] = mem[g]
  BY <1>4 DEF TypeInv, TypedRows
<1>6. TypedRows(role, wan, fab, mem)'
  BY <1>2, <1>3, <1>4, <1>5 DEF TypeInv, TypedRows, CreateFabric
<1>7. \A g \in Fabrics : \A x \in DOMAIN mem'[g] :
        mem'[g][x].lo # None => x \in DOMAIN mem[g] /\ mem[g][x].lo = mem'[g][x].lo
  BY <1>3, <1>5
<1>8. \A g \in Fabrics : \A x \in DOMAIN mem[g] \cap DOMAIN mem'[g] : mem'[g][x] = mem[g][x]
  BY <1>5 DEF TypeInv, TypedRows, CreateFabric
<1> QED
  BY <1>2, <1>6, <1>7, <1>8, MarkedNothing, EditCounted, HistoryKept DEF EditEffect, CreateFabric

LEMMA DeleteFabricEffect ==
    ASSUME TypeInv, NEW f \in Fabrics, DeleteFabric(f)
    PROVE  EditEffect({<<"fabric", f>>})
<1>1. /\ IsPartial(fab', Fabrics, FabricRow) /\ DOMAIN fab' = DOMAIN fab \ {f}
      /\ \A g \in DOMAIN fab \ {f} : fab'[g] = fab[g]
  BY DEF DeleteFabric, TypeInv, TypedRows, IsPartial, Without
<1>2. IsPartial(<< >>, Sites, Member) /\ DOMAIN << >> = {}
  BY DEF IsPartial
<1>3. /\ mem' = [g \in Fabrics |-> mem'[g]] /\ mem'[f] = << >>
      /\ \A g \in Fabrics \ {f} : mem'[g] = mem[g]
  BY DEF TypeInv, TypedRows, DeleteFabric
<1>4. TypedRows(role, wan, fab, mem)'
  BY <1>1, <1>2, <1>3 DEF TypeInv, TypedRows, DeleteFabric
<1>5. \A g \in Fabrics : \A x \in DOMAIN mem'[g] :
        mem'[g][x].lo # None => x \in DOMAIN mem[g] /\ mem[g][x].lo = mem'[g][x].lo
  BY <1>2, <1>3
<1>6. links' \subseteq links /\ \A l \in links' : l.fab # f
  BY DEF DeleteFabric, LinksOf
<1>7. \A g \in Fabrics : \A x \in DOMAIN mem[g] \cap DOMAIN mem'[g] : mem'[g][x] = mem[g][x]
  BY <1>2, <1>3
<1> QED
  BY <1>1, <1>4, <1>5, <1>6, <1>7, EditCounted, HistoryKept DEF EditEffect, DeleteFabric, Lose, Marked

LEMMA AddMemberEffect ==
    ASSUME TypeInv, NEW f \in Fabrics, NEW x \in Sites, NEW r \in {"hub", None}, AddMember(f, x, r)
    PROVE  EditEffect({})
<1>1. /\ IsPartial(NewMembers({x}, r), Sites, Member) /\ DOMAIN NewMembers({x}, r) = {x}
      /\ NewMembers({x}, r)[x].lo = None
  BY MembersType DEF Roles
<1>2. /\ mem' = [g \in Fabrics |-> mem'[g]] /\ mem'[f] = Override(mem[f], NewMembers({x}, r))
      /\ \A g \in Fabrics \ {f} : mem'[g] = mem[g]
  BY DEF TypeInv, TypedRows, AddMember
<1>3. IsPartial(mem[f], Sites, Member)
  BY DEF TypeInv, TypedRows
<1>4. /\ IsPartial(mem'[f], Sites, Member) /\ DOMAIN mem'[f] = DOMAIN mem[f] \cup {x}
      /\ mem'[f][x].lo = None /\ \A y \in DOMAIN mem[f] \ {x} : mem'[f][y] = mem[f][y]
  <2> DEFINE new == NewMembers({x}, r)
  <2>1. /\ DOMAIN mem'[f] = DOMAIN mem[f] \cup {x} /\ mem'[f][x] = new[x]
        /\ \A y \in DOMAIN mem[f] \ {x} : mem'[f][y] = mem[f][y]
        /\ mem'[f] = [y \in DOMAIN mem'[f] |-> mem'[f][y]]
    <3> HIDE DEF new
    <3>1. mem'[f] = Override(mem[f], new) /\ DOMAIN new = {x}
      BY <1>1, <1>2 DEF new
    <3> QED
      BY <3>1 DEF Override
  <2>2. new[x] \in Member /\ \A y \in DOMAIN mem[f] : mem[f][y] \in Member
    BY <1>1, <1>3 DEF IsPartial
  <2> QED
    BY <1>1, <1>3, <2>1, <2>2 DEF IsPartial
<1>5. TypedRows(role, wan, fab, mem)'
  BY <1>2, <1>4 DEF TypeInv, TypedRows, AddMember
<1>6. \A g \in Fabrics : \A y \in DOMAIN mem'[g] :
        mem'[g][y].lo # None => y \in DOMAIN mem[g] /\ mem[g][y].lo = mem'[g][y].lo
  BY <1>2, <1>4
<1>7. \A g \in Fabrics : \A y \in DOMAIN mem[g] \cap DOMAIN mem'[g] : mem'[g][y] = mem[g][y]
  BY <1>2, <1>4 DEF AddMember
<1> QED
  BY <1>5, <1>6, <1>7, MarkedNothing, EditCounted, HistoryKept DEF EditEffect, AddMember

LEMMA RemoveMemberEffect ==
    ASSUME TypeInv, NEW f \in Fabrics, NEW x \in Sites, RemoveMember(f, x)
    PROVE  EditEffect({<<"member", f, x>>})
<1>1. /\ mem' = [g \in Fabrics |-> mem'[g]] /\ mem'[f] = Without(mem[f], {x})
      /\ \A g \in Fabrics \ {f} : mem'[g] = mem[g]
  BY DEF TypeInv, TypedRows, RemoveMember
<1>2. /\ IsPartial(mem'[f], Sites, Member) /\ DOMAIN mem'[f] = DOMAIN mem[f] \ {x}
      /\ \A y \in DOMAIN mem'[f] : mem'[f][y] = mem[f][y]
  BY <1>1 DEF TypeInv, TypedRows, IsPartial, Without
<1>3. TypedRows(role, wan, fab, mem)'
  BY <1>1, <1>2 DEF TypeInv, TypedRows, RemoveMember
<1>4. \A g \in Fabrics : \A y \in DOMAIN mem'[g] :
        mem'[g][y].lo # None => y \in DOMAIN mem[g] /\ mem[g][y].lo = mem'[g][y].lo
  BY <1>1, <1>2
<1>5. \A g \in Fabrics : \A y \in DOMAIN mem[g] \cap DOMAIN mem'[g] : mem'[g][y] = mem[g][y]
  BY <1>1, <1>2
<1> QED
  BY <1>3, <1>4, <1>5, EditCounted, HistoryKept DEF EditEffect, RemoveMember, Lose, Marked

\* Edits of sites leave the fabrics, members and links as they are.
LEMMA SiteEffect ==
    ASSUME TypeInv, NEW x \in Sites, NEW r \in Roles, CreateSite(x, r) \/ UpdateSite(x, r)
    PROVE  EditEffect({})
<1>1. IsPartial(role', Sites, Roles) /\ DOMAIN role \subseteq DOMAIN role'
  <2>1. CASE CreateSite(x, r)
    <3>1. IsPartial([y \in {x} |-> r], Sites, Roles)
      BY SingleType
    <3> QED
      BY <2>1, <3>1 DEF CreateSite, TypeInv, TypedRows, IsPartial, Override
  <2>2. CASE UpdateSite(x, r)
    BY <2>2 DEF UpdateSite, TypeInv, TypedRows, IsPartial
  <2> QED
    BY <2>1, <2>2
<1>2. UNCHANGED <<wan, fab, mem, links, session, history>> /\ Edit
  BY DEF CreateSite, UpdateSite
<1>3. TypedRows(role, wan, fab, mem)'
  BY <1>1, <1>2 DEF TypeInv, TypedRows
<1> QED
  BY <1>2, <1>3, MarkedNothing, EditCounted, HistoryKept DEF EditEffect

\* Uplinks that go take their links with them.
LEMMA DropEffect ==
    ASSUME TypeInv, NEW ws, DropWans(ws), Edit, UNCHANGED <<fab, mem, history>>, IsPartial(role', Sites, Roles),
           \A f \in Fabrics : DOMAIN mem[f] \subseteq DOMAIN role'
    PROVE  \E rows : EditEffect(rows)
<1> DEFINE gone == {l \in links : Touches(l, ws)}
           rows == {<<"wan", w>> : w \in ws} \cup CascadeLinks(gone)
<1>1. /\ IsPartial(wan', Wans, WanRow) /\ DOMAIN wan' = DOMAIN wan \ ws
  BY DEF DropWans, TypeInv, TypedRows, IsPartial, Without
<1>2. TypedRows(role, wan, fab, mem)'
  BY <1>1 DEF TypeInv, TypedRows
<1>3. Marked(rows)
  BY DEF DropWans, Lose, Marked
<1>4. links' \subseteq links /\ \A l \in links', w \in ws : w \notin {l.a, l.b}
  BY DEF DropWans, Touches
<1>5. \A w \in ws : <<"wan", w>> \in rows
  OBVIOUS
<1> HIDE DEF rows
<1> QED
  BY <1>1, <1>2, <1>3, <1>4, <1>5, EditCounted, HistoryKept DEF EditEffect

LEMMA WanEffect ==
    ASSUME TypeInv, NEW w \in Wans, NEW row \in WanRows, AddWan(w, row) \/ UpdateWan(w, row)
    PROVE  EditEffect({})
<1>1. IsPartial(wan', Wans, WanRow) /\ DOMAIN wan \subseteq DOMAIN wan'
  <2>0. row \in WanRow
    BY FabricAssumption
  <2>1. CASE AddWan(w, row)
    <3>1. IsPartial([u \in {w} |-> row], Wans, WanRow)
      BY <2>0, SingleType
    <3> QED
      BY <2>1, <3>1 DEF AddWan, TypeInv, TypedRows, IsPartial, Override
  <2>2. CASE UpdateWan(w, row)
    BY <2>0, <2>2 DEF UpdateWan, TypeInv, TypedRows, IsPartial
  <2> QED
    BY <2>1, <2>2
<1>2. UNCHANGED <<role, fab, mem, links, session, history>> /\ Edit
  BY DEF AddWan, UpdateWan
<1>3. TypedRows(role, wan, fab, mem)'
  BY <1>1, <1>2 DEF TypeInv, TypedRows
<1> QED
  BY <1>1, <1>2, <1>3, MarkedNothing, EditCounted, HistoryKept DEF EditEffect

LEMMA ImportEffect ==
    ASSUME TypeInv, NEW d \in Documents, ImportIntent(d)
    PROVE  EditEffect({})
<1>1. /\ IsPartial(d.sites, Sites, Roles) /\ IsPartial(d.fabrics, Fabrics, FabricRow)
      /\ IsPartial(d.wans, Wans, WanRow) /\ DOMAIN d.members = DOMAIN d.fabrics
      /\ \A f \in DOMAIN d.members : d.members[f] \subseteq Sites
  BY FabricAssumption DEF IsPartial
<1>2. IsPartial(role', Sites, Roles) /\ DOMAIN role \subseteq DOMAIN role'
  BY <1>1 DEF ImportIntent, TypeInv, TypedRows, IsPartial, Override
<1>3. IsPartial(wan', Wans, WanRow) /\ DOMAIN wan \subseteq DOMAIN wan'
  BY <1>1 DEF ImportIntent, TypeInv, TypedRows, IsPartial, Override
<1>4. /\ IsPartial(fab', Fabrics, FabricRow) /\ DOMAIN fab \subseteq DOMAIN fab'
      /\ \A f \in DOMAIN d.fabrics : fab'[f] = d.fabrics[f]
      /\ \A f \in DOMAIN fab \ DOMAIN d.fabrics : fab'[f] = fab[f]
  BY <1>1 DEF ImportIntent, TypeInv, TypedRows, IsPartial, Override
<1>5. /\ HistoryGrows
      /\ \A f \in DOMAIN fab : \A c \in Columns :
           fab'[f][c] = fab[f][c] \/ LinksOf(f) = {} \/ c \in history'[f]
  <2>1. history' = [f \in Fabrics |-> history[f] \cup Moved(f, fab')]
    BY DEF ImportIntent
  <2>2. DOMAIN fab \subseteq Fabrics
    BY DEF TypeInv, TypedRows, IsPartial
  <2>3. \A f \in Fabrics : Moved(f, fab') \subseteq Columns
    BY DEF Moved
  <2>4. HistoryGrows
    BY <2>1, <2>3 DEF HistoryGrows, Histories, TypeInv
  <2>5. \A f \in DOMAIN fab : \A c \in Columns :
          fab'[f][c] = fab[f][c] \/ LinksOf(f) = {} \/ c \in history'[f]
    BY <2>1, <2>2 DEF Moved
  <2> QED
    BY <2>4, <2>5
<1>6. mem' = [f \in Fabrics |-> mem'[f]]
  BY DEF ImportIntent
<1>7. ASSUME NEW f \in Fabrics
      PROVE  /\ IsPartial(mem'[f], Sites, Member) /\ DOMAIN mem'[f] \subseteq DOMAIN role'
             /\ \A x \in DOMAIN mem'[f] :
                  mem'[f][x].lo # None => x \in DOMAIN mem[f] /\ mem[f][x].lo = mem'[f][x].lo
             /\ \A x \in DOMAIN mem[f] \cap DOMAIN mem'[f] : mem'[f][x] = mem[f][x]
             /\ DOMAIN mem'[f] # {} => f \in DOMAIN fab'
  <2>0. /\ IsPartial(mem[f], Sites, Member) /\ DOMAIN mem[f] \subseteq DOMAIN role'
        /\ DOMAIN mem[f] # {} => f \in DOMAIN fab'
    BY <1>2, <1>4 DEF TypeInv, TypedRows
  <2>1. CASE f \notin DOMAIN d.fabrics
    BY <2>0, <2>1 DEF ImportIntent
  <2>2. CASE f \in DOMAIN d.fabrics
    <3> DEFINE xs == d.members[f] \cap DOMAIN role'
    <3>1. /\ IsPartial(NewMembers(xs, None), Sites, Member) /\ DOMAIN NewMembers(xs, None) = xs
          /\ \A x \in xs : NewMembers(xs, None)[x].lo = None
      BY <1>1, <2>2, MembersType
    <3>2. mem'[f] = Override(NewMembers(xs, None), mem[f])
      BY <2>2 DEF ImportIntent
    <3>3. /\ IsPartial(mem'[f], Sites, Member) /\ DOMAIN mem'[f] = xs \cup DOMAIN mem[f]
          /\ \A x \in DOMAIN mem[f] : mem'[f][x] = mem[f][x]
          /\ \A x \in xs \ DOMAIN mem[f] : mem'[f][x] = NewMembers(xs, None)[x]
      BY <2>0, <3>1, <3>2 DEF IsPartial, Override
    <3>4. f \in DOMAIN fab'
      BY <1>1, <2>2 DEF ImportIntent, TypeInv, TypedRows, Override
    <3> QED
      BY <2>0, <3>1, <3>3, <3>4
  <2> QED
    BY <2>1, <2>2
<1>8. TypedRows(role, wan, fab, mem)'
  BY <1>2, <1>3, <1>4, <1>6, <1>7 DEF TypedRows
<1> QED
  BY <1>3, <1>4, <1>5, <1>7, <1>8, MarkedNothing, EditCounted DEF EditEffect, ImportIntent

LEMMA EditsHaveEffects ==
    ASSUME TypeInv, Editing
    PROVE  \E rows : EditEffect(rows)
<1>1. ASSUME NEW x \in Sites, DeleteSite(x)
      PROVE  \E rows : EditEffect(rows)
  <2>1. IsPartial(role', Sites, Roles) /\ DOMAIN role' = DOMAIN role \ {x}
    BY <1>1 DEF DeleteSite, TypeInv, TypedRows, IsPartial, Without
  <2>2. \A f \in Fabrics : DOMAIN mem[f] \subseteq DOMAIN role'
    BY <1>1, <2>1 DEF DeleteSite, TypeInv, TypedRows
  <2> QED
    BY <1>1, <2>1, <2>2, DropEffect DEF DeleteSite
<1>2. ASSUME NEW w \in Wans, DeleteWan(w)
      PROVE  \E rows : EditEffect(rows)
  <2>1. IsPartial(role', Sites, Roles) /\ \A f \in Fabrics : DOMAIN mem[f] \subseteq DOMAIN role'
    BY <1>2 DEF DeleteWan, TypeInv, TypedRows
  <2> QED
    BY <1>2, <2>1, DropEffect DEF DeleteWan
<1> QED
  BY <1>1, <1>2, CreateFabricEffect, DeleteFabricEffect, AddMemberEffect, RemoveMemberEffect,
     SiteEffect, WanEffect, ImportEffect DEF Editing

-----------------------------------------------------------------------------
(* The sessions' steps keep the types. *)

\* What is worked out depends on what was read alone.
LEMMA SameReading ==
    ASSUME NEW u, NEW v, u.row = v.row, u.mem = v.mem, u.links = v.links, u.refs = v.refs
    PROVE  /\ Created(u) = Created(v) /\ Removed(u) = Removed(v)
           /\ Unported(u) = Unported(v) /\ Lacking(u) = Lacking(v)
<1>1. WantedPairs(u) = WantedPairs(v)
  BY DEF WantedPairs
<1>2. Lacking(u) = Lacking(v)
  BY DEF Lacking, Loopback
<1> QED
  BY <1>1, <1>2 DEF Created, Removed, Unported

SessionTyped(v) == v = Idle \/ IsUpdate(v) \/ (IsView(v) /\ IsWorkedOut(v))

\* A session keeps what it has in hand when rows are marked as lost and when
\* another overtakes it.
Touched(v, lost, raced) == [v EXCEPT !.lost = lost, !.raced = raced]
LEMMA MarkingType ==
    ASSUME NEW v, SessionTyped(v), v # Idle, NEW lost, NEW raced \in BOOLEAN
    PROVE  LET u == Touched(v, lost, raced) IN
           /\ SessionTyped(u) /\ u # Idle /\ u.lost = lost /\ u.raced = raced
           /\ IsUpdate(u) <=> IsUpdate(v)
           /\ IsView(u) <=> IsView(v)
           /\ u.op = v.op /\ u.fab = v.fab /\ u.row = v.row
           /\ IsView(v) => \A k \in ViewFields \ {"lost", "raced"} : u[k] = v[k]
<1> DEFINE u == Touched(v, lost, raced)
<1>1. CASE IsUpdate(v)
  <2>1. /\ u = [k \in UpdateFields |-> u[k]] /\ u.lost = lost /\ u.raced = raced
        /\ u.op = v.op /\ u.fab = v.fab /\ u.row = v.row /\ u.new = v.new
    BY <1>1 DEF IsUpdate, UpdateFields, Touched
  <2> HIDE DEF u
  <2>2. IsUpdate(u) /\ u # Idle /\ ~IsView(v) /\ ~IsView(u)
    BY <1>1, <2>1 DEF IsUpdate, IsView, Idle
  <2> QED
    BY <1>1, <2>1, <2>2 DEF SessionTyped, u
<1>2. CASE IsView(v) /\ IsWorkedOut(v)
  <2>1. /\ u = [k \in ViewFields |-> u[k]] /\ u.lost = lost /\ u.raced = raced
        /\ \A k \in ViewFields \ {"lost", "raced"} : u[k] = v[k]
    BY <1>2 DEF IsView, ViewFields, Touched
  <2> HIDE DEF u
  <2>2. /\ u.op = v.op /\ u.fab = v.fab /\ u.row = v.row /\ u.mem = v.mem
        /\ u.links = v.links /\ u.refs = v.refs /\ u.created = v.created
        /\ u.removed = v.removed /\ u.unported = v.unported /\ u.lacking = v.lacking
    BY <2>1 DEF ViewFields
  <2>3. IsView(u) /\ u # Idle /\ ~IsUpdate(v) /\ ~IsUpdate(u)
    BY <1>2, <2>1, <2>2 DEF IsView, IsUpdate, Idle
  <2>4. IsWorkedOut(u)
    BY <1>2, <2>2, SameReading DEF IsWorkedOut
  <2> QED
    BY <1>2, <2>1, <2>2, <2>3, <2>4 DEF SessionTyped, u
<1> QED
  BY <1>1, <1>2 DEF SessionTyped

\* Rows marked as lost are a touch that leaves "raced" as it was.
LEMMA MarkingTouches ==
    ASSUME NEW v, SessionTyped(v), v # Idle, NEW lost
    PROVE  [v EXCEPT !.lost = lost] = Touched(v, lost, v.raced) /\ v.raced \in BOOLEAN
<1>1. CASE IsUpdate(v)
  BY <1>1 DEF IsUpdate, UpdateFields, Touched
<1>2. CASE IsView(v)
  BY <1>2 DEF IsView, ViewFields, Touched
<1> QED
  BY <1>1, <1>2 DEF SessionTyped

LEMMA TypeInvSplit ==
    TypeInv <=> /\ TypedRows(role, wan, fab, mem) /\ links \subseteq Link /\ edits \in 0..MaxEdits
                /\ history \in Histories
                /\ session = [s \in Sessions |-> session[s]]
                /\ \A s \in Sessions : SessionTyped(session[s])
BY DEF TypeInv, SessionTyped

LEMMA EffectType ==
    ASSUME TypeInv, NEW rows, EditEffect(rows)
    PROVE  TypeInv'
<1>1. session' = [s \in Sessions |-> session'[s]]
  BY DEF EditEffect, Marked
<1>2. ASSUME NEW s \in Sessions
      PROVE  SessionTyped(session'[s])
  <2>1. CASE session[s] = Idle
    BY <2>1 DEF EditEffect, Marked, SessionTyped
  <2>2. CASE session[s] # Idle
    <3>1. session'[s] = [session[s] EXCEPT !.lost = session[s].lost \cup rows]
      BY <2>2 DEF EditEffect, Marked
    <3>2. SessionTyped(session[s])
      BY TypeInvSplit
    <3>3. session[s].raced \in BOOLEAN
          /\ session'[s] = Touched(session[s], session[s].lost \cup rows, session[s].raced)
      BY <2>2, <3>1, <3>2, MarkingTouches
    <3> QED
      BY <2>2, <3>2, <3>3, MarkingType
  <2> QED
    BY <2>1, <2>2
<1> QED
  BY <1>1, <1>2 DEF TypeInv, EditEffect, SessionTyped, HistoryGrows

\* A step of one session that edits no row.
LEMMA SessionStepType ==
    ASSUME TypeInv, NEW s \in Sessions, NEW v, session' = [session EXCEPT ![s] = v], SessionTyped(v),
           UNCHANGED <<role, wan, fab, mem, links, history>>, edits' \in 0..MaxEdits
    PROVE  TypeInv'
<1>1. session' = [r \in Sessions |-> session'[r]] /\ \A r \in Sessions : SessionTyped(session'[r])
  BY TypeInvSplit
<1>2. TypedRows(role, wan, fab, mem)' /\ links' \subseteq Link
  BY DEF TypeInv
<1> QED
  BY <1>1, <1>2 DEF TypeInv, SessionTyped

LEMMA ViewType ==
    ASSUME TypeInv, NEW f \in DOMAIN fab
    PROVE  SessionTyped(View(f)) /\ View(f).op = "loaded"
<1>1. f \in Fabrics /\ fab[f] \in FabricRow /\ IsPartial(mem[f], Sites, Member)
  BY DEF TypeInv, TypedRows, IsPartial
<1>2. LinksOf(f) \subseteq Link
  BY DEF TypeInv, LinksOf
<1>3. MembersToWans(f) \subseteq Ref
  <2>1. ASSUME NEW w \in WansOf(DOMAIN mem[f])
        PROVE  [wan |-> w, site |-> SiteOf[w], row |-> wan[w],
                role |-> IF mem[f][SiteOf[w]].role # None THEN mem[f][SiteOf[w]].role
                                                          ELSE role[SiteOf[w]]] \in Ref
    <3>1. w \in Wans /\ wan[w] \in WanRow /\ SiteOf[w] \in DOMAIN mem[f]
      BY <2>1 DEF WansOf, TypeInv, TypedRows, IsPartial
    <3>2. SiteOf[w] \in Sites /\ role[SiteOf[w]] \in Roles
      BY <1>1, <3>1 DEF TypeInv, TypedRows, IsPartial
    <3>3. mem[f][SiteOf[w]] \in Member
      BY <1>1, <3>1 DEF IsPartial
    <3> QED
      BY <3>1, <3>2, <3>3 DEF Ref, Member
  <2> QED
    BY <2>1 DEF MembersToWans
<1>4. View(f) = [k \in ViewFields |-> View(f)[k]]
  BY DEF View, ViewFields
<1>5. /\ View(f).op = "loaded" /\ View(f).raced = FALSE /\ View(f).fab = f /\ View(f).row = fab[f] /\ View(f).mem = mem[f]
      /\ View(f).links = LinksOf(f) /\ View(f).refs = MembersToWans(f)
  BY DEF View
<1> QED
  BY <1>1, <1>2, <1>3, <1>4, <1>5 DEF SessionTyped, IsView, IsWorkedOut

\* What Expand makes of a session.
Worked(v) == [v EXCEPT !.op = "expanded",
                   !.ports = PortsHeldElsewhere(v), !.subnets = SubnetsHeldElsewhere(v),
                   !.created = Created(v), !.removed = Removed(v),
                   !.unported = Unported(v), !.lacking = Lacking(v)]
LEMMA WorkedType ==
    ASSUME NEW v, IsView(v)
    PROVE  /\ SessionTyped(Worked(v)) /\ Worked(v).op = "expanded"
           /\ \A k \in {"fab", "row", "mem", "links", "refs", "lost", "raced"} : Worked(v)[k] = v[k]
           /\ Worked(v).ports = PortsHeldElsewhere(v) /\ Worked(v).subnets = SubnetsHeldElsewhere(v)
           /\ IsView(Worked(v)) /\ IsWorkedOut(Worked(v))
<1>1. Worked(v) = [k \in ViewFields |-> Worked(v)[k]]
  BY DEF IsView, Worked, ViewFields
<1>2. /\ Worked(v).op = "expanded" /\ Worked(v).created = Created(v) /\ Worked(v).removed = Removed(v)
      /\ Worked(v).unported = Unported(v) /\ Worked(v).lacking = Lacking(v)
      /\ Worked(v).ports = PortsHeldElsewhere(v) /\ Worked(v).subnets = SubnetsHeldElsewhere(v)
  BY DEF IsView, Worked, ViewFields
<1>3. /\ Worked(v).fab = v.fab /\ Worked(v).row = v.row /\ Worked(v).mem = v.mem
      /\ Worked(v).links = v.links /\ Worked(v).refs = v.refs /\ Worked(v).lost = v.lost
      /\ Worked(v).raced = v.raced
  BY DEF IsView, Worked, ViewFields
<1> HIDE DEF Worked
<1>4. IsWorkedOut(Worked(v))
  BY <1>2, <1>3, SameReading DEF IsWorkedOut
<1>5. IsView(Worked(v))
  BY <1>1, <1>2, <1>3 DEF IsView
<1> QED
  BY <1>2, <1>3, <1>4, <1>5 DEF SessionTyped
\* A pair to be linked is of two uplinks the session read.
LEMMA CreatedPairs ==
    ASSUME NEW v, IsView(v), IsWorkedOut(v), v.op = "expanded", NEW p \in v.created
    PROVE  p.a \in v.refs /\ p.b \in v.refs /\ p.a \in Ref /\ p.b \in Ref /\ p = [a |-> p.a, b |-> p.b]
<1>1. p \in [a : v.refs, b : v.refs]
  BY DEF IsWorkedOut, Created, WantedPairs
<1> QED
  BY <1>1 DEF IsView

\* Links that get a port now are among those read, and only a listener's.
LEMMA UnportedLinks ==
    ASSUME NEW v, IsView(v), IsWorkedOut(v), v.op = "expanded"
    PROVE  /\ v.unported \subseteq v.links /\ v.unported \subseteq Link
           /\ v.unported # {} => Listens(v.row.transport)
           /\ v.lacking \subseteq DOMAIN v.mem
BY DEF IsView, IsWorkedOut, Unported, Lacking

LEMMA NewLinkType ==
    ASSUME NEW v, IsView(v), IsWorkedOut(v), v.op = "expanded", NEW p \in v.created,
           NEW subnet \in [v.created -> FreeSubnets(v)], NEW port \in [NeedPorts(v) -> FreePorts(v)]
    PROVE  /\ NewLink(v, subnet, port, p) \in Link
           /\ NewLink(v, subnet, port, p).fab = v.fab
           /\ NewLink(v, subnet, port, p).a = p.a.wan /\ NewLink(v, subnet, port, p).b = p.b.wan
           /\ NewLink(v, subnet, port, p).subnet = subnet[p]
           /\ NewLink(v, subnet, port, p).key = v.row.transport
           /\ NewLink(v, subnet, port, p).port = IF Listens(v.row.transport) THEN port[p] ELSE None
<1>1. p.a.wan \in Wans /\ p.b.wan \in Wans
  BY CreatedPairs DEF Ref
<1>2. v.fab \in Fabrics /\ v.row.transport \in Transports /\ v.row.pool \subseteq Nat
  BY FabricAssumption DEF IsView, FabricRow
<1>3. subnet[p] \in Nat
  BY <1>2 DEF FreeSubnets
<1>4. Listens(v.row.transport) => port[p] \in Ports
  BY DEF NeedPorts, FreePorts
<1>5. ChooseInitiator(p.a, p.b) \in {"a", "b"}
  BY DEF ChooseInitiator
<1> QED
  BY <1>1, <1>2, <1>3, <1>4, <1>5 DEF NewLink, Link

\* A link that is kept changes at most its port, and that only if it had none.
LEMMA WithPortType ==
    ASSUME NEW v, IsView(v), IsWorkedOut(v), v.op = "expanded", NEW l \in Link,
           NEW port \in [NeedPorts(v) -> FreePorts(v)]
    PROVE  LET k == WithPort(v.unported, port, l) IN
           /\ k \in Link /\ SameRow(k, l)
           /\ k.fab = l.fab /\ k.a = l.a /\ k.b = l.b /\ k.subnet = l.subnet /\ k.key = l.key
           /\ k.dial = l.dial
           /\ \/ k = l
              \/ \E u \in v.unported : SameRow(u, l) /\ k.port = port[u]
<1>1. CASE \A u \in v.unported : ~SameRow(u, l)
  BY <1>1 DEF WithPort, SameRow
<1>2. CASE ~(\A u \in v.unported : ~SameRow(u, l))
  <2> DEFINE u == CHOOSE u \in v.unported : SameRow(u, l)
  <2>1. u \in v.unported /\ SameRow(u, l)
    BY <1>2
  <2> HIDE DEF u
  <2>2. port[u] \in Ports
    BY <2>1, UnportedLinks DEF NeedPorts, FreePorts
  <2>3. WithPort(v.unported, port, l) = [l EXCEPT !.port = port[u]]
    BY <1>2 DEF WithPort, u
  <2> QED
    BY <2>1, <2>2, <2>3 DEF Link, SameRow
<1> QED
  BY <1>1, <1>2

\* What a flush of an expansion writes.
Written(v, members, subnet, port, lo) ==
    /\ subnet \in [v.created -> FreeSubnets(v)]
    /\ \A p, q \in v.created : subnet[p] = subnet[q] => p = q
    /\ port \in [NeedPorts(v) -> FreePorts(v)]
    /\ \A p, q \in NeedPorts(v) : port[p] = port[q] => p = q
    /\ lo \in [v.lacking -> FreeLoopbacks(v)]
    /\ \A x, y \in v.lacking : lo[x] = lo[y] => x = y
    /\ InOrder(v, subnet, port)
    /\ links' = {WithPort(v.unported, port, l) : l \in Kept(v)}
                   \cup {NewLink(v, subnet, port, p) : p \in v.created}
    /\ mem' = WithLoopbacks(members, v.fab, lo)
LEMMA FlushWrites ==
    ASSUME NEW v, NEW members, Flushed(v, members)
    PROVE  \E subnet, port, lo : Written(v, members, subnet, port, lo)
BY DEF Flushed, Allocations, Written

LEMMA WithLoopbacksType ==
    ASSUME TypeInv, NEW v, IsView(v), NEW lo \in [v.lacking -> FreeLoopbacks(v)],
           mem' = WithLoopbacks(mem, v.fab, lo)
    PROVE  /\ mem' = [f \in Fabrics |-> mem'[f]]
           /\ \A f \in Fabrics : IsPartial(mem'[f], Sites, Member) /\ DOMAIN mem'[f] = DOMAIN mem[f]
           /\ \A f \in Fabrics \ {v.fab} : mem'[f] = mem[f]
           /\ \A x \in DOMAIN mem[v.fab] :
                mem'[v.fab][x].lo = IF x \in v.lacking THEN lo[x] ELSE mem[v.fab][x].lo
<1>1. v.fab \in Fabrics /\ IsPartial(mem[v.fab], Sites, Member)
  BY DEF IsView, TypeInv, TypedRows
<1>2. /\ mem' = [f \in Fabrics |-> mem'[f]] /\ \A f \in Fabrics \ {v.fab} : mem'[f] = mem[f]
      /\ mem'[v.fab] = [x \in DOMAIN mem[v.fab] |->
            IF x \in v.lacking THEN [mem[v.fab][x] EXCEPT !.lo = lo[x]] ELSE mem[v.fab][x]]
  BY <1>1 DEF WithLoopbacks, TypeInv, TypedRows
<1>3. ASSUME NEW x \in DOMAIN mem[v.fab]
      PROVE  mem'[v.fab][x] \in Member
             /\ mem'[v.fab][x].lo = IF x \in v.lacking THEN lo[x] ELSE mem[v.fab][x].lo
  <2>1. mem[v.fab][x] \in Member
    BY <1>1 DEF IsPartial
  <2>2. x \in v.lacking => lo[x] \in Loopbacks
    BY DEF FreeLoopbacks
  <2> QED
    BY <1>2, <2>1, <2>2 DEF Member
<1>4. IsPartial(mem'[v.fab], Sites, Member) /\ DOMAIN mem'[v.fab] = DOMAIN mem[v.fab]
  BY <1>1, <1>2, <1>3 DEF IsPartial
<1> QED
  BY <1>2, <1>3, <1>4 DEF TypeInv, TypedRows

\* Those under way when another finishes.
Overtaken(v, w) == v.raced \/ v.op = "expanded" \/ v.fab = w.fab
LEMMA FinishTouches ==
    ASSUME TypeInv, NEW s \in Sessions, NEW gone, Finish(s, gone),
           NEW r \in Sessions, r # s, session[r] # Idle
    PROVE  /\ SessionTyped(session[r])
           /\ session'[r] = Touched(session[r], session[r].lost \cup CascadeLinks(gone),
                                    Overtaken(session[r], session[s]))
           /\ Overtaken(session[r], session[s]) \in BOOLEAN
<1>1. SessionTyped(session[r])
  BY TypeInvSplit
<1>2. session'[r] = [session[r] EXCEPT !.lost = session[r].lost \cup CascadeLinks(gone),
                        !.raced = session[r].raced \/ session[r].op = "expanded"
                                    \/ session[r].fab = session[s].fab]
  BY DEF Finish
<1>3. Overtaken(session[r], session[s]) \in BOOLEAN
  BY DEF Overtaken
<1> QED
  BY <1>1, <1>2, <1>3 DEF Touched, Overtaken

LEMMA RecordedType ==
    ASSUME TypeInv, NEW v, v.fab \in Fabrics, Recorded(v)
    PROVE  HistoryGrows /\ history'[v.fab] = history[v.fab] \cup Outlived(v)
                                                \cup IF v.raced THEN {"raced"} ELSE {}
<1>1. Outlived(v) \subseteq Columns
  BY DEF Outlived
<1> QED
  BY <1>1 DEF Recorded, HistoryGrows, TypeInv, Histories

LEMMA ExpandFabricType ==
    ASSUME TypeInv, NEW s \in Sessions, ExpandFabric(s)
    PROVE  TypeInv'
<1> DEFINE v == session[s]
<1>1. IsView(v) /\ IsWorkedOut(v) /\ v.op = "expanded"
  BY DEF ExpandFabric, TypeInv, IsUpdate, Idle
<1>2. PICK subnet, port, lo : Written(v, mem, subnet, port, lo)
  BY FlushWrites DEF ExpandFabric
<1>3. links' \subseteq Link
  <2>1. Kept(v) \subseteq Link
    BY DEF Kept, TypeInv
  <2> HIDE DEF v
  <2> QED
    BY <1>1, <1>2, <2>1, WithPortType, NewLinkType DEF Written
<1>4. TypedRows(role, wan, fab, mem)'
  <2>1. UNCHANGED <<role, wan, fab>>
    BY DEF ExpandFabric
  <2> HIDE DEF v
  <2> QED
    BY <1>1, <1>2, <2>1, WithLoopbacksType DEF Written, TypeInv, TypedRows
<1>5. /\ session' = [r \in Sessions |-> session'[r]]
      /\ \A r \in Sessions : SessionTyped(session'[r])
  <2>1. ASSUME NEW r \in Sessions
        PROVE  SessionTyped(session'[r])
    <3>1. CASE r = s \/ session[r] = Idle
      BY <3>1 DEF ExpandFabric, Finish, SessionTyped
    <3>2. CASE ~(r = s \/ session[r] = Idle)
      <4>1. Finish(s, session[s].removed) /\ r # s /\ session[r] # Idle
        BY <3>2 DEF ExpandFabric
      <4>2. /\ SessionTyped(session[r]) /\ Overtaken(session[r], session[s]) \in BOOLEAN
            /\ session'[r] = Touched(session[r],
                  session[r].lost \cup CascadeLinks(session[s].removed), Overtaken(session[r], session[s]))
        BY <4>1, FinishTouches
      <4> QED
        BY <4>1, <4>2, MarkingType
    <3> QED
      BY <3>1, <3>2
  <2> QED
    BY <2>1 DEF ExpandFabric, Finish
<1>6. edits' \in 0..MaxEdits
  BY DEF ExpandFabric, TypeInv
<1>7. history' \in Histories
  BY <1>1, RecordedType DEF ExpandFabric, IsView, HistoryGrows
<1> QED
  BY <1>3, <1>4, <1>5, <1>6, <1>7 DEF TypeInv, SessionTyped

LEMMA UpdateFabricType ==
    ASSUME TypeInv, NEW s \in Sessions, UpdateFabric(s)
    PROVE  TypeInv'
<1> DEFINE v == session[s]
<1>1. IsUpdate(v)
  BY DEF UpdateFabric, TypeInv, IsView, Idle
<1>2. IsPartial(fab', Fabrics, FabricRow) /\ links' \subseteq Link
  <2>1. CASE UNCHANGED <<fab, links>>
    BY <2>1 DEF TypeInv, TypedRows
  <2>2. CASE /\ v.fab \in DOMAIN fab
             /\ fab' = [fab EXCEPT ![v.fab] =
                   [c \in DOMAIN @ |-> IF v.new[c] # v.row[c] THEN v.new[c] ELSE @[c]]]
             /\ links' = IF v.new.transport # v.row.transport
                         THEN ReallocateSecrets(v.fab, v.new.transport) ELSE links
    <3>1. fab[v.fab] \in FabricRow
      BY <2>2 DEF TypeInv, TypedRows, IsPartial
    <3>2. [c \in DOMAIN fab[v.fab] |-> IF v.new[c] # v.row[c] THEN v.new[c] ELSE fab[v.fab][c]] \in FabricRow
      BY <1>1, <3>1 DEF IsUpdate, FabricRow
    <3>3. IsPartial(fab', Fabrics, FabricRow)
      BY <2>2, <3>2 DEF TypeInv, TypedRows, IsPartial
    <3>4. v.new.transport \in Transports
      BY <1>1 DEF IsUpdate, FabricRow
    <3>5. ReallocateSecrets(v.fab, v.new.transport) \subseteq Link
      BY <3>4 DEF ReallocateSecrets, TypeInv, Link
    <3> QED
      BY <2>2, <3>3, <3>5 DEF TypeInv
  <2> QED
    BY <2>1, <2>2 DEF UpdateFabric
<1>3. /\ session' = [r \in Sessions |-> session'[r]]
      /\ \A r \in Sessions : SessionTyped(session'[r])
  BY TypeInvSplit DEF UpdateFabric, SessionTyped
<1>4. history' \in Histories
  <2>1. Moved(v.fab, fab') \subseteq Columns
    BY DEF Moved
  <2> QED
    BY <1>1, <2>1 DEF UpdateFabric, TypeInv, Histories
<1> QED
  BY <1>2, <1>3, <1>4 DEF UpdateFabric, TypeInv, TypedRows, SessionTyped

LEMMA DesigningType ==
    ASSUME TypeInv, NEW s \in Sessions, DesigningIn(s)
    PROVE  TypeInv'
<1>0. edits \in 0..MaxEdits
  BY DEF TypeInv
<1>1. ASSUME NEW f \in Fabrics, LoadFabric(s, f)
      PROVE  TypeInv'
  BY <1>0, <1>1, ViewType, SessionStepType, EditCounted DEF LoadFabric
<1>2. CASE Expand(s)
  <2>1. IsView(session[s])
    BY <1>2 DEF Expand, TypeInv, IsUpdate, Idle
  <2>2. session' = [session EXCEPT ![s] = Worked(session[s])]
    BY <1>2 DEF Expand, Worked
  <2> QED
    BY <1>0, <1>2, <2>1, <2>2, WorkedType, SessionStepType DEF Expand
<1>3. CASE ExpandFails(s)
  BY <1>0, <1>3, SessionStepType DEF ExpandFails, SessionTyped
<1>4. ASSUME NEW f \in Fabrics, NEW new \in FabricRows, LoadUpdate(s, f, new)
      PROVE  TypeInv'
  <2> DEFINE v == [op |-> "update", fab |-> f, row |-> fab[f], new |-> new, lost |-> {},
                  raced |-> FALSE]
  <2>1. fab[f] \in FabricRow /\ new \in FabricRow
    BY <1>4, FabricAssumption DEF LoadUpdate, TypeInv, TypedRows, IsPartial
  <2>2. SessionTyped(v)
    BY <2>1 DEF SessionTyped, IsUpdate, UpdateFields
  <2>3. session' = [session EXCEPT ![s] = v] /\ UNCHANGED <<role, wan, fab, mem, links, history>>
    BY <1>4 DEF LoadUpdate
  <2>4. edits' \in 0..MaxEdits
    BY <1>0, <1>4, FabricAssumption DEF LoadUpdate
  <2> HIDE DEF v
  <2> QED
    BY <2>2, <2>3, <2>4, SessionStepType
<1> QED
  BY <1>1, <1>2, <1>3, <1>4, ExpandFabricType, UpdateFabricType DEF DesigningIn

LEMMA NextType ==
    ASSUME TypeInv, [Next]_vars
    PROVE  TypeInv'
<1>1. CASE UNCHANGED vars
  <2>1. UNCHANGED <<role, wan, fab, mem, links, session, history, edits>>
    BY <1>1 DEF vars
  <2>2. TypedRows(role, wan, fab, mem)'
    BY <2>1 DEF TypeInv
  <2> QED
    BY <2>1, <2>2 DEF TypeInv
<1> QED
  BY <1>1, EditsHaveEffects, EffectType, DesigningType DEF Next

\* Every table and every session keeps its type, for any number of sessions.
THEOREM TypeCorrect == Spec => []TypeOK
<1> QED
  BY InitType, NextType, TypeInvType, PTL DEF Spec
-----------------------------------------------------------------------------
(* What is given out is given out once, for any number of sessions and any *)
(* imports, but for the fabrics whose history says what went wrong.        *)

Ends(l) == {SiteOf[l.a], SiteOf[l.b]}
Live(v) == <<"fabric", v.fab>> \notin v.lost

LinksRooted == \A l \in links : l.fab \in DOMAIN fab /\ l.a \in DOMAIN wan /\ l.b \in DOMAIN wan
RowsUnique(ls) == \A k, l \in ls : SameRow(k, l) => k = l

\* What a session has read is one row per uplink and per link (w, f, m, ls, h:
\* the tables and histories it is compared with).
ReadOnce(v, w) ==
    /\ \A r, q \in v.refs : r.wan = q.wan => r = q
    /\ \A r \in v.refs :
         /\ r.site = SiteOf[r.wan] /\ r.site \in DOMAIN v.mem
         /\ <<"wan", r.wan>> \notin v.lost => r.wan \in DOMAIN w
    /\ RowsUnique(v.links) /\ \A l \in v.links : l.fab = v.fab

\* The same link but for its keys.
Alike(k, l) == SameRow(k, l) /\ k.subnet = l.subnet /\ k.port = l.port /\ k.dial = l.dial

\* No link or loopback of the fabric is news to the session.
NothingNew(v, m, ls) ==
    /\ \A l \in ls : l.fab = v.fab => \E o \in v.links : Alike(o, l)
    /\ \A x \in DOMAIN m[v.fab] :
         m[v.fab][x].lo # None => x \in DOMAIN v.mem /\ v.mem[x].lo = m[v.fab][x].lo

\* Nor is what the other fabrics hold.
HeldIsKnown(v, f, ls, h) ==
    \A l \in ls : l.fab # v.fab =>
        /\ "pool" \notin h[l.fab] /\ Overlaps(f[l.fab].pool, v.row.pool) => l.subnet \in v.subnets
        /\ l.port # None /\ Ends(l) \cap DOMAIN v.mem # {} => l.port \in v.ports

\* What a session knows whose fabric is still there and that nobody overtook.
Ahead(v, f, m, ls, h) ==
    NothingNew(v, m, ls) /\ (v.op = "expanded" => HeldIsKnown(v, f, ls, h))
Knows(v, w, f, m, ls, h) ==
    IsView(v) => /\ ReadOnce(v, w)
                 /\ Live(v) => v.fab \in DOMAIN f /\ (~v.raced => Ahead(v, f, m, ls, h))

TablesInv ==
    /\ SubnetsDisjoint /\ PortsDisjoint /\ LoopbacksDistinct /\ KeysMatchTransport
    /\ LinksRooted /\ RowsUnique(links)
SessionsKnow ==
    \A s \in Sessions : session[s] = Idle \/ Knows(session[s], wan, fab, mem, links, history)
NumbersInv == TablesInv /\ SessionsKnow

LEMMA InitNumbers == Init => NumbersInv
<1> SUFFICES ASSUME Init
             PROVE  NumbersInv
  OBVIOUS
<1>1. \A s \in Sessions : session[s] = Idle
  BY DEF Init
<1>2. links = {}
  BY DEF Init
<1>3. LoopbacksDistinct
  <2>1. ASSUME NEW f \in Fabrics, NEW x \in DOMAIN mem[f]
        PROVE  mem[f][x].lo = None
    BY <2>1 DEF Init, NewMembers
  <2> QED
    BY <2>1 DEF LoopbacksDistinct
<1> QED
  BY <1>1, <1>2, <1>3 DEF NumbersInv, SessionsKnow, TablesInv, SubnetsDisjoint, PortsDisjoint,
                          KeysMatchTransport, LinksRooted, RowsUnique

LEMMA OldPairs ==
    ASSUME TablesInv, NEW k \in links, NEW l \in links, k # l
    PROVE  /\ k.subnet = l.subnet =>
                \/ {"raced", "pool"} \cap (history[k.fab] \cup history[l.fab]) # {}
                \/ k.fab # l.fab /\ ~Overlaps(fab[k.fab].pool, fab[l.fab].pool)
           /\ k.port = l.port /\ k.port # None =>
                "raced" \in history[k.fab] \cup history[l.fab] \/ Ends(k) \cap Ends(l) = {}
BY DEF TablesInv, SubnetsDisjoint, PortsDisjoint, Ends

\* Edits only take away, and what they change a session notices when it writes.
LEMMA EffectTables ==
    ASSUME TypeInv, NumbersInv, NEW rows, EditEffect(rows)
    PROVE  TablesInv'
<1>1. \A l \in links' : /\ l \in links /\ l.fab \in DOMAIN fab /\ l.fab \in DOMAIN fab'
                        /\ fab'[l.fab].transport = fab[l.fab].transport \/ "transport" \in history'[l.fab]
                        /\ fab'[l.fab].pool = fab[l.fab].pool \/ "pool" \in history'[l.fab]
                        /\ history[l.fab] \subseteq history'[l.fab]
                        /\ l.a \in DOMAIN wan' /\ l.b \in DOMAIN wan'
  <2> SUFFICES ASSUME NEW l \in links'
               PROVE  /\ l \in links /\ l.fab \in DOMAIN fab /\ l.fab \in DOMAIN fab'
                      /\ fab'[l.fab].transport = fab[l.fab].transport \/ "transport" \in history'[l.fab]
                      /\ fab'[l.fab].pool = fab[l.fab].pool \/ "pool" \in history'[l.fab]
                      /\ history[l.fab] \subseteq history'[l.fab]
                      /\ l.a \in DOMAIN wan' /\ l.b \in DOMAIN wan'
    OBVIOUS
  <2>1. /\ l \in links /\ l.fab \in DOMAIN fab /\ l.fab \in DOMAIN fab'
        /\ l.a \in DOMAIN wan' /\ l.b \in DOMAIN wan'
    BY DEF EditEffect, NumbersInv, TablesInv, LinksRooted
  <2>2. LinksOf(l.fab) # {} /\ l.fab \in Fabrics
    BY <2>1 DEF LinksOf, TypeInv, TypedRows, IsPartial
  <2>3. \A c \in Columns : fab'[l.fab][c] = fab[l.fab][c] \/ c \in history'[l.fab]
    BY <2>1, <2>2 DEF EditEffect
  <2>4. history[l.fab] \subseteq history'[l.fab]
    BY <2>2 DEF EditEffect, HistoryGrows
  <2> QED
    BY <2>1, <2>3, <2>4 DEF Columns
<1>2. SubnetsDisjoint'
  <2> SUFFICES ASSUME NEW k \in links', NEW l \in links', k # l, k.subnet = l.subnet
               PROVE  \/ {"raced", "pool"} \cap (history'[k.fab] \cup history'[l.fab]) # {}
                      \/ k.fab # l.fab /\ ~Overlaps(fab'[k.fab].pool, fab'[l.fab].pool)
    BY DEF SubnetsDisjoint
  <2>1. \/ {"raced", "pool"} \cap (history[k.fab] \cup history[l.fab]) # {}
        \/ k.fab # l.fab /\ ~Overlaps(fab[k.fab].pool, fab[l.fab].pool)
    BY <1>1, OldPairs DEF NumbersInv
  <2> QED
    BY <1>1, <2>1
<1>3. PortsDisjoint'
  <2> SUFFICES ASSUME NEW k \in links', NEW l \in links', k # l, k.port = l.port, k.port # None
               PROVE  "raced" \in history'[k.fab] \cup history'[l.fab] \/ Ends(k) \cap Ends(l) = {}
    BY DEF PortsDisjoint, Ends
  <2> QED
    BY <1>1, OldPairs DEF NumbersInv
<1>4. RowsUnique(links)' /\ LinksRooted' /\ KeysMatchTransport'
  BY <1>1 DEF NumbersInv, TablesInv, RowsUnique, LinksRooted, KeysMatchTransport
<1>5. LoopbacksDistinct'
  <2>1. ASSUME NEW f \in Fabrics, NEW x \in DOMAIN mem'[f], NEW y \in DOMAIN mem'[f], x # y,
               mem'[f][x].lo # None, mem'[f][x].lo = mem'[f][y].lo
        PROVE  "raced" \in history'[f]
    <3>1. /\ x \in DOMAIN mem[f] /\ mem[f][x].lo = mem'[f][x].lo
          /\ y \in DOMAIN mem[f] /\ mem[f][y].lo = mem'[f][y].lo
      BY <2>1 DEF EditEffect
    <3>2. "raced" \in history[f]
      BY <2>1, <3>1 DEF NumbersInv, TablesInv, LoopbacksDistinct
    <3> QED
      BY <3>2 DEF EditEffect, HistoryGrows
  <2> QED
    BY <2>1 DEF LoopbacksDistinct
<1> QED
  BY <1>2, <1>3, <1>4, <1>5 DEF TablesInv

\* A session that is touched knows no less, if what it relies on still holds.
LEMMA TouchedKnows ==
    ASSUME NEW v, SessionTyped(v), v # Idle, NEW lost, v.lost \subseteq lost,
           NEW raced \in BOOLEAN, v.raced => raced,
           NEW w, NEW f, NEW m, NEW ls, NEW h, Knows(v, w, f, m, ls, h),
           NEW w2, NEW f2, NEW m2, NEW ls2, NEW h2,
           \A x \in DOMAIN w : x \in DOMAIN w2 \/ <<"wan", x>> \in lost,
           v.fab \in DOMAIN f => v.fab \in DOMAIN f2 \/ <<"fabric", v.fab>> \in lost,
           IsView(v) /\ Ahead(v, f, m, ls, h) /\ v.fab \in DOMAIN f
             => Ahead(v, f2, m2, ls2, h2) \/ raced \/ <<"fabric", v.fab>> \in lost
    PROVE  Knows(Touched(v, lost, raced), w2, f2, m2, ls2, h2)
<1>1. PICK u : u = Touched(v, lost, raced)
  OBVIOUS
<1>2. /\ u.lost = lost /\ u.raced = raced /\ (IsView(u) <=> IsView(v))
      /\ IsView(v) => \A k \in ViewFields \ {"lost", "raced"} : u[k] = v[k]
  BY <1>1, MarkingType
<1> SUFFICES ASSUME IsView(v)
             PROVE  /\ ReadOnce(u, w2)
                    /\ Live(u) => v.fab \in DOMAIN f2 /\ (~raced => Ahead(u, f2, m2, ls2, h2))
                    /\ u.fab = v.fab
  BY <1>1, <1>2 DEF Knows
<1>3. /\ u.op = v.op /\ u.fab = v.fab /\ u.row = v.row /\ u.mem = v.mem /\ u.links = v.links
      /\ u.refs = v.refs /\ u.ports = v.ports /\ u.subnets = v.subnets
  BY <1>2 DEF ViewFields
<1>4. ReadOnce(v, w)
  BY DEF Knows
<1>5. \A r \in v.refs : <<"wan", r.wan>> \notin lost => r.wan \in DOMAIN w2
  BY <1>4 DEF ReadOnce
<1>6. ReadOnce(u, w2)
  BY <1>2, <1>3, <1>4, <1>5 DEF ReadOnce
<1>7. Ahead(v, f2, m2, ls2, h2) => Ahead(u, f2, m2, ls2, h2)
  BY <1>3 DEF Ahead, NothingNew, HeldIsKnown
<1>8. Live(u) => Live(v) /\ <<"fabric", v.fab>> \notin lost
  BY <1>2, <1>3 DEF Live
<1>9. v.raced \in BOOLEAN
  BY DEF IsView
<1> QED
  BY <1>3, <1>6, <1>7, <1>8, <1>9 DEF Knows

LEMMA EffectKnown ==
    ASSUME TypeInv, NumbersInv, NEW rows, EditEffect(rows),
           NEW s \in Sessions, session[s] # Idle
    PROVE  Knows(session'[s], wan', fab', mem', links', history')
<1>1. PICK v : v = session[s]
  OBVIOUS
<1>2. SessionTyped(v) /\ v # Idle /\ Knows(v, wan, fab, mem, links, history)
  BY <1>1, TypeInvSplit DEF NumbersInv, SessionsKnow
<1>3. session'[s] = Touched(v, v.lost \cup rows, v.raced) /\ v.raced \in BOOLEAN
  <2>1. session'[s] = [v EXCEPT !.lost = v.lost \cup rows]
    BY <1>1, <1>2 DEF EditEffect, Marked
  <2> QED
    BY <1>2, <2>1, MarkingTouches
<1>4. \A x \in DOMAIN wan : x \in DOMAIN wan' \/ <<"wan", x>> \in v.lost \cup rows
  BY DEF EditEffect
<1>5. v.fab \in DOMAIN fab => v.fab \in DOMAIN fab' \/ <<"fabric", v.fab>> \in v.lost \cup rows
  BY DEF EditEffect
<1>6. ASSUME IsView(v), Ahead(v, fab, mem, links, history)
      PROVE  Ahead(v, fab', mem', links', history')
  <2>1. v.fab \in Fabrics
    BY <1>6 DEF IsView
  <2>2. NothingNew(v, mem', links')
    BY <1>6, <2>1 DEF Ahead, NothingNew, EditEffect
  <2>3. ASSUME v.op = "expanded", NEW l \in links', l.fab # v.fab
        PROVE  /\ "pool" \notin history'[l.fab] /\ Overlaps(fab'[l.fab].pool, v.row.pool)
                    => l.subnet \in v.subnets
               /\ l.port # None /\ Ends(l) \cap DOMAIN v.mem # {} => l.port \in v.ports
    <3>1. l \in links /\ l.fab \in DOMAIN fab /\ l.fab \in Fabrics /\ LinksOf(l.fab) # {}
      BY DEF EditEffect, NumbersInv, TablesInv, LinksRooted, LinksOf, TypeInv, TypedRows, IsPartial
    <3>2. fab'[l.fab].pool = fab[l.fab].pool \/ "pool" \in history'[l.fab]
      <4>1. \A c \in Columns : fab'[l.fab][c] = fab[l.fab][c] \/ c \in history'[l.fab]
        BY <3>1 DEF EditEffect
      <4> QED
        BY <4>1 DEF Columns
    <3>3. history[l.fab] \subseteq history'[l.fab]
      BY <3>1 DEF EditEffect, HistoryGrows
    <3> QED
      BY <1>6, <2>3, <3>1, <3>2, <3>3 DEF Ahead, HeldIsKnown
  <2> QED
    BY <2>2, <2>3 DEF Ahead, HeldIsKnown
<1> QED
  BY <1>2, <1>3, <1>4, <1>5, <1>6, TouchedKnows

LEMMA EffectNumbers ==
    ASSUME TypeInv, NumbersInv, NEW rows, EditEffect(rows)
    PROVE  NumbersInv'
<1>1. \A s \in Sessions : session[s] = Idle => session'[s] = Idle
  BY DEF EditEffect, Marked
<1> QED
  BY <1>1, EffectTables, EffectKnown DEF NumbersInv, SessionsKnow

\* A session's step that leaves the tables alone.
LEMMA LookingNumbers ==
    ASSUME NumbersInv, TypeInv, NEW s \in Sessions, NEW v, session' = [session EXCEPT ![s] = v],
           v = Idle \/ Knows(v, wan, fab, mem, links, history),
           UNCHANGED <<role, wan, fab, mem, links, history>>
    PROVE  NumbersInv'
<1>1. \A r \in Sessions : session'[r] = Idle \/ Knows(session'[r], wan, fab, mem, links, history)
  BY DEF NumbersInv, SessionsKnow, TypeInv
<1>2. TablesInv'
  BY DEF NumbersInv, TablesInv, SubnetsDisjoint, PortsDisjoint, LoopbacksDistinct, KeysMatchTransport,
         LinksRooted
<1> QED
  BY <1>1, <1>2 DEF NumbersInv, SessionsKnow

LEMMA ViewKnows ==
    ASSUME TypeInv, NumbersInv, NEW f \in DOMAIN fab
    PROVE  Knows(View(f), wan, fab, mem, links, history)
<1> DEFINE v == View(f)
<1>1. /\ v.op = "loaded" /\ v.fab = f /\ v.row = fab[f] /\ v.mem = mem[f]
      /\ v.links = LinksOf(f) /\ v.refs = MembersToWans(f)
  BY DEF View
<1> HIDE DEF v
<1>2. ReadOnce(v, wan)
  BY <1>1 DEF ReadOnce, MembersToWans, WansOf, LinksOf, NumbersInv, TablesInv, RowsUnique
<1>3. Ahead(v, fab, mem, links, history)
  BY <1>1 DEF Ahead, NothingNew, LinksOf, Alike, SameRow
<1> QED
  BY <1>1, <1>2, <1>3 DEF Knows, v

LEMMA WorkedKnows ==
    ASSUME TypeInv, NumbersInv, NEW v, IsView(v), Knows(v, wan, fab, mem, links, history)
    PROVE  Knows(Worked(v), wan, fab, mem, links, history)
<1>1. PICK u : u = Worked(v)
  OBVIOUS
<1>2. /\ u.fab = v.fab /\ u.row = v.row /\ u.mem = v.mem /\ u.links = v.links /\ u.refs = v.refs
      /\ u.lost = v.lost /\ u.raced = v.raced
      /\ u.ports = PortsHeldElsewhere(v) /\ u.subnets = SubnetsHeldElsewhere(v)
  BY <1>1, WorkedType
<1>3. ReadOnce(u, wan) /\ (Live(u) => Live(v)) /\ (NothingNew(v, mem, links) => NothingNew(u, mem, links))
  BY <1>2 DEF Knows, ReadOnce, Live, NothingNew
<1>4. HeldIsKnown(u, fab, links, history)
  <2> SUFFICES ASSUME NEW l \in links, l.fab # u.fab
               PROVE  /\ Overlaps(fab[l.fab].pool, u.row.pool) => l.subnet \in u.subnets
                      /\ l.port # None /\ Ends(l) \cap DOMAIN u.mem # {} => l.port \in u.ports
    BY DEF HeldIsKnown
  <2>1. Overlaps(fab[l.fab].pool, u.row.pool) => l.subnet \in u.subnets
    BY <1>2 DEF SubnetsHeldElsewhere
  <2>2. l.port # None /\ Ends(l) \cap DOMAIN u.mem # {} => l.port \in u.ports
    BY <1>2 DEF PortsHeldElsewhere, Ends, Touches, WansOf, NumbersInv, TablesInv, LinksRooted
  <2> QED
    BY <2>1, <2>2
<1> QED
  BY <1>1, <1>2, <1>3, <1>4 DEF Knows, Ahead

\* What an update does to the tables.
Updating(v) ==
    /\ v.fab \in DOMAIN fab
    /\ fab' = [fab EXCEPT ![v.fab] =
          [c \in DOMAIN @ |-> IF v.new[c] # v.row[c] THEN v.new[c] ELSE @[c]]]
    /\ links' = IF v.new.transport # v.row.transport
                THEN ReallocateSecrets(v.fab, v.new.transport) ELSE links
    /\ history' = [history EXCEPT ![v.fab] =
          (@ \cup Moved(v.fab, fab')) \ IF v.new.transport # v.row.transport THEN {"transport"} ELSE {}]

Rekeyed(v, l) ==
    IF v.new.transport # v.row.transport /\ l.fab = v.fab THEN [l EXCEPT !.key = v.new.transport] ELSE l

\* A re-keyed link is the old one but for its keys; a pool moved from under links
\* goes down in the history, and only new keys for every link take away from it.
LEMMA UpdatingEffect ==
    ASSUME TypeInv, NumbersInv, NEW v, IsUpdate(v), Updating(v)
    PROVE  /\ DOMAIN fab' = DOMAIN fab
           /\ links' = {Rekeyed(v, l) : l \in links}
           /\ \A l \in links :
                /\ Alike(l, Rekeyed(v, l)) /\ l.fab = Rekeyed(v, l).fab
                /\ l.a = Rekeyed(v, l).a /\ l.b = Rekeyed(v, l).b
                /\ l.port = Rekeyed(v, l).port /\ l.subnet = Rekeyed(v, l).subnet
                /\ fab'[l.fab].pool = fab[l.fab].pool \/ "pool" \in history'[l.fab]
                /\ history[l.fab] \cap {"raced", "pool"} \subseteq history'[l.fab]
                /\ \/ Rekeyed(v, l).key = fab'[l.fab].transport
                   \/ /\ Rekeyed(v, l) = l /\ fab'[l.fab].transport = fab[l.fab].transport
                      /\ history[l.fab] \subseteq history'[l.fab]
           /\ \A f \in Fabrics : "raced" \in history[f] => "raced" \in history'[f]
<1> DEFINE rekey == v.new.transport # v.row.transport
<1>1. fab[v.fab] \in FabricRow /\ fab = [f \in DOMAIN fab |-> fab[f]] /\ DOMAIN fab \subseteq Fabrics
      /\ history \in Histories
  BY DEF Updating, TypeInv, TypedRows, IsPartial
<1>2. /\ DOMAIN fab' = DOMAIN fab /\ \A f \in DOMAIN fab \ {v.fab} : fab'[f] = fab[f]
      /\ fab'[v.fab].transport = IF rekey THEN v.new.transport ELSE fab[v.fab].transport
  BY <1>1 DEF FabricRow, Updating
<1>3. \A l \in links : /\ Rekeyed(v, l).fab = l.fab /\ Rekeyed(v, l).a = l.a /\ Rekeyed(v, l).b = l.b
                       /\ Rekeyed(v, l).subnet = l.subnet /\ Rekeyed(v, l).port = l.port
                       /\ Rekeyed(v, l).dial = l.dial
                       /\ rekey /\ l.fab = v.fab => Rekeyed(v, l).key = v.new.transport
                       /\ ~(rekey /\ l.fab = v.fab) => Rekeyed(v, l) = l
  BY DEF TypeInv, Link, Rekeyed
<1>4. links' = {Rekeyed(v, l) : l \in links}
  BY DEF ReallocateSecrets, Updating, Rekeyed
<1>5. /\ history'[v.fab] = (history[v.fab] \cup Moved(v.fab, fab')) \ IF rekey THEN {"transport"} ELSE {}
      /\ \A f \in Fabrics \ {v.fab} : history'[f] = history[f]
  BY <1>1 DEF Updating, Histories
<1>6. \A l \in links : l.fab \in DOMAIN fab
  BY DEF NumbersInv, TablesInv, LinksRooted
<1>7. \A l \in links : fab'[l.fab].pool = fab[l.fab].pool \/ "pool" \in history'[l.fab]
  <2> SUFFICES ASSUME NEW l \in links, fab'[l.fab].pool # fab[l.fab].pool
               PROVE  "pool" \in history'[l.fab]
    OBVIOUS
  <2>1. l.fab = v.fab
    BY <1>2, <1>6
  <2>2. "pool" \in Moved(v.fab, fab')
    BY <2>1 DEF Moved, Columns, LinksOf, Updating
  <2> QED
    BY <1>5, <2>1, <2>2
<1>8. \A f \in Fabrics : /\ history[f] \cap {"raced", "pool"} \subseteq history'[f]
                         /\ ~(rekey /\ f = v.fab) => history[f] \subseteq history'[f]
  BY <1>5
<1>9. ASSUME NEW l \in links
      PROVE  \/ Rekeyed(v, l).key = fab'[l.fab].transport
             \/ /\ Rekeyed(v, l) = l /\ fab'[l.fab].transport = fab[l.fab].transport
                /\ history[l.fab] \subseteq history'[l.fab]
  <2>1. CASE rekey /\ l.fab = v.fab
    BY <1>2, <1>3, <2>1
  <2>2. CASE ~(rekey /\ l.fab = v.fab)
    BY <1>1, <1>2, <1>3, <1>6, <1>8, <2>2
  <2> QED
    BY <2>1, <2>2
<1>10. \A l \in links : Alike(l, Rekeyed(v, l)) /\ l.fab \in Fabrics
  BY <1>1, <1>3, <1>6 DEF Alike, SameRow
<1> QED
  BY <1>2, <1>3, <1>4, <1>7, <1>8, <1>9, <1>10

LEMMA UpdatingTables ==
    ASSUME TypeInv, NumbersInv, NEW v, IsUpdate(v), Updating(v), UNCHANGED <<wan, mem>>
    PROVE  TablesInv'
<1>1. ASSUME NEW k \in links', NEW l \in links', k # l
      PROVE  \E o \in links, n \in links : o # n /\ k = Rekeyed(v, o) /\ l = Rekeyed(v, n)
  BY <1>1, UpdatingEffect
<1>2. SubnetsDisjoint'
  <2> SUFFICES ASSUME NEW k \in links', NEW l \in links', k # l, k.subnet = l.subnet
               PROVE  \/ {"raced", "pool"} \cap (history'[k.fab] \cup history'[l.fab]) # {}
                      \/ k.fab # l.fab /\ ~Overlaps(fab'[k.fab].pool, fab'[l.fab].pool)
    BY DEF SubnetsDisjoint
  <2>1. PICK o \in links, n \in links : o # n /\ k = Rekeyed(v, o) /\ l = Rekeyed(v, n)
    BY <1>1
  <2>2. o.subnet = k.subnet /\ n.subnet = l.subnet /\ o.fab = k.fab /\ n.fab = l.fab
    BY <2>1, UpdatingEffect
  <2>3. \/ {"raced", "pool"} \cap (history[o.fab] \cup history[n.fab]) # {}
        \/ o.fab # n.fab /\ ~Overlaps(fab[o.fab].pool, fab[n.fab].pool)
    BY <2>1, <2>2, OldPairs DEF NumbersInv
  <2>4. \A i \in {o, n} : /\ fab'[i.fab].pool = fab[i.fab].pool \/ "pool" \in history'[i.fab]
                          /\ history[i.fab] \cap {"raced", "pool"} \subseteq history'[i.fab]
    BY UpdatingEffect
  <2> QED
    BY <2>2, <2>3, <2>4
<1>3. PortsDisjoint'
  <2> SUFFICES ASSUME NEW k \in links', NEW l \in links', k # l, k.port = l.port, k.port # None
               PROVE  "raced" \in history'[k.fab] \cup history'[l.fab] \/ Ends(k) \cap Ends(l) = {}
    BY DEF PortsDisjoint, Ends
  <2>1. PICK o \in links, n \in links : o # n /\ k = Rekeyed(v, o) /\ l = Rekeyed(v, n)
    BY <1>1
  <2>2. \A i \in {o, n} : /\ i.port = Rekeyed(v, i).port /\ i.fab = Rekeyed(v, i).fab
                          /\ i.a = Rekeyed(v, i).a /\ i.b = Rekeyed(v, i).b
                          /\ history[i.fab] \cap {"raced", "pool"} \subseteq history'[i.fab]
    BY UpdatingEffect
  <2>3. "raced" \in history[o.fab] \cup history[n.fab] \/ Ends(o) \cap Ends(n) = {}
    BY <2>1, <2>2, OldPairs DEF NumbersInv
  <2> QED
    BY <2>1, <2>2, <2>3 DEF Ends
<1>4. KeysMatchTransport'
  <2>1. ASSUME NEW l \in links
        PROVE  \/ "transport" \in history'[Rekeyed(v, l).fab]
               \/ Rekeyed(v, l).key = fab'[Rekeyed(v, l).fab].transport
    <3>1. l.fab = Rekeyed(v, l).fab
          /\ \/ Rekeyed(v, l).key = fab'[l.fab].transport
             \/ /\ Rekeyed(v, l) = l /\ fab'[l.fab].transport = fab[l.fab].transport
                /\ history[l.fab] \subseteq history'[l.fab]
      BY UpdatingEffect
    <3> QED
      BY <3>1 DEF NumbersInv, TablesInv, KeysMatchTransport
  <2> QED
    BY <2>1, UpdatingEffect DEF KeysMatchTransport
<1>5. LinksRooted' /\ RowsUnique(links)'
  BY UpdatingEffect DEF NumbersInv, TablesInv, LinksRooted, RowsUnique, SameRow
<1>6. LoopbacksDistinct'
  BY UpdatingEffect DEF NumbersInv, TablesInv, LoopbacksDistinct
<1> QED
  BY <1>2, <1>3, <1>4, <1>5, <1>6 DEF TablesInv

LEMMA UpdateFabricNumbers ==
    ASSUME TypeInv, NumbersInv, NEW s \in Sessions, UpdateFabric(s)
    PROVE  NumbersInv'
<1>1. PICK v : v = session[s]
  OBVIOUS
<1>2. IsUpdate(v) /\ UNCHANGED <<role, wan, mem>>
  BY <1>1 DEF UpdateFabric, TypeInv, IsView, Idle
<1>3. session'[s] = Idle /\ \A r \in Sessions \ {s} : session'[r] = session[r]
  BY DEF UpdateFabric, TypeInv
<1>4. CASE UNCHANGED <<fab, links, history>>
  <2>1. TablesInv'
    BY <1>2, <1>4 DEF NumbersInv, TablesInv, SubnetsDisjoint, PortsDisjoint, LoopbacksDistinct,
                      KeysMatchTransport, LinksRooted
  <2>2. \A r \in Sessions \ {s} : session[r] = Idle \/ Knows(session[r], wan, fab, mem, links, history)
    BY DEF NumbersInv, SessionsKnow
  <2> QED
    BY <1>2, <1>3, <1>4, <2>1, <2>2 DEF NumbersInv, SessionsKnow
<1>5. CASE Updating(v)
  <2>1. TablesInv'
    BY <1>2, <1>5, UpdatingTables
  <2>2. ASSUME NEW u, Knows(u, wan, fab, mem, links, history)
        PROVE  Knows(u, wan', fab', mem', links', history')
    <3>1. NothingNew(u, mem, links) => NothingNew(u, mem', links')
      <4>1. ASSUME NEW l \in links, NEW o, Alike(o, l)
            PROVE  Alike(o, Rekeyed(v, l))
        BY <1>2, <1>5, <4>1, UpdatingEffect DEF Alike, SameRow
      <4> QED
        BY <1>2, <1>5, <4>1, UpdatingEffect DEF NothingNew
    <3>2. HeldIsKnown(u, fab, links, history) => HeldIsKnown(u, fab', links', history')
      <4> SUFFICES ASSUME HeldIsKnown(u, fab, links, history), NEW l \in links, l.fab # u.fab
                   PROVE  LET k == Rekeyed(v, l) IN
                          /\ "pool" \notin history'[k.fab] /\ Overlaps(fab'[k.fab].pool, u.row.pool)
                               => k.subnet \in u.subnets
                          /\ k.port # None /\ Ends(k) \cap DOMAIN u.mem # {} => k.port \in u.ports
        BY <1>2, <1>5, UpdatingEffect DEF HeldIsKnown
      <4>1. PICK k : k = Rekeyed(v, l)
        OBVIOUS
      <4>2. /\ k.fab = l.fab /\ k.port = l.port /\ k.subnet = l.subnet /\ Ends(k) = Ends(l)
            /\ fab'[l.fab].pool = fab[l.fab].pool \/ "pool" \in history'[l.fab]
            /\ "pool" \in history[l.fab] => "pool" \in history'[l.fab]
        BY <1>2, <1>5, <4>1, UpdatingEffect DEF Ends
      <4> QED
        BY <4>1, <4>2 DEF HeldIsKnown
    <3>3. DOMAIN fab' = DOMAIN fab
      BY <1>2, <1>5, UpdatingEffect
    <3> QED
      BY <1>2, <2>2, <3>1, <3>2, <3>3 DEF Knows, Ahead
  <2> QED
    BY <1>3, <2>1, <2>2 DEF NumbersInv, SessionsKnow
<1> QED
  BY <1>1, <1>4, <1>5 DEF UpdateFabric, Updating

\* What the flush of one expansion relies on.
Flushing(v, subnet, port, lo) ==
    /\ IsView(v) /\ IsWorkedOut(v) /\ v.op = "expanded" /\ Flushes(v)
    /\ ReadOnce(v, wan) /\ v.fab \in DOMAIN fab
    /\ ~v.raced => NothingNew(v, mem, links) /\ HeldIsKnown(v, fab, links, history)
    /\ Written(v, mem, subnet, port, lo) /\ Recorded(v)

\* A link that is there after a flush is an old one, which got its port now if
\* it was read without one, or a new one.
LEMMA LinksAfterFlush ==
    ASSUME TypeInv, NumbersInv, NEW v, NEW subnet, NEW port, NEW lo, Flushing(v, subnet, port, lo),
           NEW k \in links'
    PROVE  \/ \E o \in links \cap Link :
                /\ o \in Kept(v) /\ k = WithPort(v.unported, port, o) /\ SameRow(k, o)
                /\ k.fab = o.fab /\ k.a = o.a /\ k.b = o.b /\ k.subnet = o.subnet /\ k.key = o.key /\ k.dial = o.dial
                /\ k = o \/ \E u \in v.unported : /\ SameRow(u, o) /\ o.fab = v.fab /\ k.port = port[u]
                                                  /\ ~v.raced => Alike(u, o)
           \/ \E p \in v.created :
                /\ k = NewLink(v, subnet, port, p) /\ k.fab = v.fab /\ k.a = p.a.wan /\ k.b = p.b.wan
                /\ k.subnet = subnet[p] /\ k.key = v.row.transport
                /\ k.port = IF Listens(v.row.transport) THEN port[p] ELSE None
<1>1. \/ \E o \in Kept(v) : k = WithPort(v.unported, port, o)
      \/ \E p \in v.created : k = NewLink(v, subnet, port, p)
  BY DEF Flushing, Written
<1>2. ASSUME NEW o \in Kept(v), k = WithPort(v.unported, port, o)
      PROVE  /\ o \in links \cap Link /\ SameRow(k, o)
             /\ k.fab = o.fab /\ k.a = o.a /\ k.b = o.b /\ k.subnet = o.subnet /\ k.key = o.key /\ k.dial = o.dial
             /\ k = o \/ \E u \in v.unported : /\ SameRow(u, o) /\ o.fab = v.fab /\ k.port = port[u]
                                               /\ ~v.raced => Alike(u, o)
  <2>1. o \in links \cap Link
    BY DEF Kept, TypeInv
  <2>2. /\ SameRow(k, o)
        /\ k.fab = o.fab /\ k.a = o.a /\ k.b = o.b /\ k.subnet = o.subnet /\ k.key = o.key /\ k.dial = o.dial
        /\ k = o \/ \E u \in v.unported : SameRow(u, o) /\ k.port = port[u]
    BY <1>2, <2>1, WithPortType DEF Flushing, Written
  <2>3. ASSUME NEW u \in v.unported, SameRow(u, o)
        PROVE  o.fab = v.fab /\ (~v.raced => Alike(u, o))
    <3>1. u \in v.links /\ u.fab = v.fab
      BY UnportedLinks DEF Flushing, ReadOnce
    <3>2. o.fab = v.fab
      BY <2>3, <3>1 DEF SameRow
    <3>3. ASSUME ~v.raced
          PROVE  Alike(u, o)
      <4>1. PICK n \in v.links : Alike(n, o)
        BY <2>1, <3>2, <3>3 DEF Flushing, NothingNew
      <4>2. n = u
        BY <2>3, <3>1, <4>1 DEF Flushing, ReadOnce, RowsUnique, Alike, SameRow
      <4> QED
        BY <4>1, <4>2
    <3> QED
      BY <3>2, <3>3
  <2> QED
    BY <2>1, <2>2, <2>3
<1>3. ASSUME NEW p \in v.created, k = NewLink(v, subnet, port, p)
      PROVE  /\ k.fab = v.fab /\ k.a = p.a.wan /\ k.b = p.b.wan
             /\ k.subnet = subnet[p] /\ k.key = v.row.transport
             /\ k.port = IF Listens(v.row.transport) THEN port[p] ELSE None
  BY <1>3, NewLinkType DEF Flushing, Written
<1> QED
  BY <1>1, <1>2, <1>3

\* What a flush adds to the fabric's history.
LEMMA HistoryAfterFlush ==
    ASSUME TypeInv, NEW v, NEW subnet, NEW port, NEW lo, Flushing(v, subnet, port, lo)
    PROVE  /\ \A f \in Fabrics : history[f] \subseteq history'[f]
           /\ v.fab \in Fabrics /\ v.raced \in BOOLEAN
           /\ v.raced => "raced" \in history'[v.fab]
           /\ v.created # {} =>
                /\ v.row.pool = fab[v.fab].pool \/ "pool" \in history'[v.fab]
                /\ v.row.transport = fab[v.fab].transport \/ "transport" \in history'[v.fab]
<1>1. v.fab \in Fabrics /\ v.raced \in BOOLEAN /\ Recorded(v)
  BY DEF Flushing, IsView
<1>2. HistoryGrows /\ history'[v.fab] = history[v.fab] \cup Outlived(v)
                                          \cup IF v.raced THEN {"raced"} ELSE {}
  BY <1>1, RecordedType
<1>3. v.created # {} =>
        /\ v.row.pool = fab[v.fab].pool \/ "pool" \in Outlived(v)
        /\ v.row.transport = fab[v.fab].transport \/ "transport" \in Outlived(v)
  BY DEF Outlived, Columns
<1> QED
  BY <1>1, <1>2, <1>3 DEF HistoryGrows

\* No new link has a /31 another has, unless their pools are apart.
LEMMA FlushSubnets ==
    ASSUME TypeInv, NumbersInv, NEW v, NEW subnet, NEW port, NEW lo, Flushing(v, subnet, port, lo),
           UNCHANGED fab
    PROVE  SubnetsDisjoint'
<1>0. ASSUME NEW l \in links'
      PROVE  l.fab \in Fabrics
  <2>1. \A o \in links : o.fab \in Fabrics
    BY DEF TypeInv, Link
  <2>2. v.fab \in Fabrics
    BY DEF Flushing, IsView
  <2> QED
    BY <2>1, <2>2, LinksAfterFlush
<1>1. ASSUME NEW p \in v.created, NEW o \in links, o.subnet = subnet[p], ~v.raced
      PROVE  \/ "pool" \in history'[v.fab] \cup history'[o.fab]
             \/ o.fab # v.fab /\ ~Overlaps(fab[o.fab].pool, fab[v.fab].pool)
  <2>1. subnet[p] \in v.row.pool \ (v.subnets \cup {l.subnet : l \in v.links})
    BY DEF Flushing, Written, FreeSubnets
  <2>2. o.fab # v.fab
    BY <1>1, <2>1 DEF Flushing, NothingNew, Alike
  <2>3. "pool" \in history[o.fab] \/ ~Overlaps(fab[o.fab].pool, v.row.pool)
    BY <1>1, <2>1, <2>2 DEF Flushing, HeldIsKnown
  <2>4. o.fab \in Fabrics
    BY DEF TypeInv, Link
  <2>5. history[o.fab] \subseteq history'[o.fab]
    BY <2>4, HistoryAfterFlush
  <2>6. v.row.pool = fab[v.fab].pool \/ "pool" \in history'[v.fab]
    BY HistoryAfterFlush
  <2> QED
    BY <2>2, <2>3, <2>5, <2>6
<1>2. \A p, q : Overlaps(p, q) <=> Overlaps(q, p)
  BY DEF Overlaps
<1>3. ASSUME NEW k \in links', NEW l \in links', k # l, k.subnet = l.subnet, ~v.raced
      PROVE  \/ {"raced", "pool"} \cap (history'[k.fab] \cup history'[l.fab]) # {}
             \/ k.fab # l.fab /\ ~Overlaps(fab[k.fab].pool, fab[l.fab].pool)
  <2>1. CASE \E o \in links : k = WithPort(v.unported, port, o) /\ k.fab = o.fab /\ k.subnet = o.subnet
    <3>1. PICK o \in links : k = WithPort(v.unported, port, o) /\ k.fab = o.fab /\ k.subnet = o.subnet
      BY <2>1
    <3>2. CASE \E n \in links : l = WithPort(v.unported, port, n) /\ l.fab = n.fab /\ l.subnet = n.subnet
      <4>1. PICK n \in links : l = WithPort(v.unported, port, n) /\ l.fab = n.fab /\ l.subnet = n.subnet
        BY <3>2
      <4>2. o # n
        BY <1>3, <3>1, <4>1
      <4>3. \/ {"raced", "pool"} \cap (history[o.fab] \cup history[n.fab]) # {}
            \/ o.fab # n.fab /\ ~Overlaps(fab[o.fab].pool, fab[n.fab].pool)
        BY <1>3, <3>1, <4>1, <4>2, OldPairs DEF NumbersInv
      <4>4. history[o.fab] \subseteq history'[o.fab] /\ history[n.fab] \subseteq history'[n.fab]
        BY <1>0, <3>1, <4>1, HistoryAfterFlush
      <4> QED
        BY <3>1, <4>1, <4>3, <4>4
    <3>3. CASE \E p \in v.created : l.fab = v.fab /\ l.subnet = subnet[p]
      BY <1>1, <1>3, <3>1, <3>3
    <3> QED
      BY <3>2, <3>3, LinksAfterFlush
  <2>2. CASE \E p \in v.created : /\ k = NewLink(v, subnet, port, p)
                                  /\ k.fab = v.fab /\ k.subnet = subnet[p]
    <3>1. PICK p \in v.created : /\ k = NewLink(v, subnet, port, p)
                                 /\ k.fab = v.fab /\ k.subnet = subnet[p]
      BY <2>2
    <3>2. CASE \E n \in links : l.fab = n.fab /\ l.subnet = n.subnet
      BY <1>1, <1>2, <1>3, <3>1, <3>2
    <3>3. CASE \E q \in v.created : l = NewLink(v, subnet, port, q) /\ l.subnet = subnet[q]
      <4>1. PICK q \in v.created : l = NewLink(v, subnet, port, q) /\ l.subnet = subnet[q]
        BY <3>3
      <4>2. p = q
        BY <1>3, <3>1, <4>1 DEF Flushing, Written
      <4> QED
        BY <1>3, <3>1, <4>1, <4>2
    <3> QED
      BY <3>2, <3>3, LinksAfterFlush
  <2> QED
    BY <2>1, <2>2, LinksAfterFlush
<1>4. ASSUME NEW k \in links', NEW l \in links', k # l, k.subnet = l.subnet, v.raced
      PROVE  \/ {"raced", "pool"} \cap (history'[k.fab] \cup history'[l.fab]) # {}
             \/ k.fab # l.fab /\ ~Overlaps(fab[k.fab].pool, fab[l.fab].pool)
  <2>1. CASE k.fab = v.fab \/ l.fab = v.fab
    BY <1>4, <2>1, HistoryAfterFlush
  <2>2. CASE k.fab # v.fab /\ l.fab # v.fab
    <3>1. k \in links /\ l \in links
      BY <2>2, LinksAfterFlush
    <3>2. \/ {"raced", "pool"} \cap (history[k.fab] \cup history[l.fab]) # {}
          \/ k.fab # l.fab /\ ~Overlaps(fab[k.fab].pool, fab[l.fab].pool)
      BY <1>4, <3>1, OldPairs DEF NumbersInv
    <3>3. history[k.fab] \subseteq history'[k.fab] /\ history[l.fab] \subseteq history'[l.fab]
      BY <1>0, HistoryAfterFlush
    <3> QED
      BY <3>2, <3>3
  <2> QED
    BY <2>1, <2>2
<1>5. v.raced \in BOOLEAN
  BY HistoryAfterFlush
<1> QED
  BY <1>3, <1>4, <1>5 DEF SubnetsDisjoint

\* A link that was numbered in this flush.
Numbered(v, port, k, n) ==
    /\ n \in NeedPorts(v) /\ k.port = port[n] /\ k.fab = v.fab /\ Ends(k) \subseteq DOMAIN v.mem

LEMMA PortsAfterFlush ==
    ASSUME TypeInv, NumbersInv, NEW v, NEW subnet, NEW port, NEW lo, Flushing(v, subnet, port, lo),
           NEW k \in links', k.port # None
    PROVE  \/ k \in links
           \/ \E o \in links, u \in v.unported :
                k = WithPort(v.unported, port, o) /\ SameRow(u, o) /\ Numbered(v, port, k, u)
           \/ \E p \in v.created : k = NewLink(v, subnet, port, p) /\ Numbered(v, port, k, p)
<1>1. \A r \in v.refs : SiteOf[r.wan] \in DOMAIN v.mem
  BY DEF Flushing, ReadOnce
<1>2. ASSUME NEW o \in links, o \in Kept(v), k.fab = o.fab, k.a = o.a, k.b = o.b,
             NEW u \in v.unported, SameRow(u, o), o.fab = v.fab, k.port = port[u]
      PROVE  Numbered(v, port, k, u)
  <2>1. u \in v.links
    BY UnportedLinks DEF Flushing
  <2>2. u \notin v.removed
    BY <1>2 DEF Kept
  <2>3. PICK p \in WantedPairs(v) : Joins(u, p)
    BY <2>1, <2>2 DEF Flushing, IsWorkedOut, Removed
  <2>4. p.a \in v.refs /\ p.b \in v.refs
    BY DEF WantedPairs
  <2>5. {k.a, k.b} = {p.a.wan, p.b.wan}
    BY <1>2, <2>3 DEF Joins, SameRow
  <2>6. Ends(k) \subseteq DOMAIN v.mem
    BY <1>1, <2>4, <2>5 DEF Ends
  <2>7. u \in NeedPorts(v)
    BY <1>2, UnportedLinks DEF Flushing, NeedPorts
  <2> QED
    BY <1>2, <2>6, <2>7 DEF Numbered
<1>3. ASSUME NEW p \in v.created, k.fab = v.fab, k.a = p.a.wan, k.b = p.b.wan,
             k.port = IF Listens(v.row.transport) THEN port[p] ELSE None
      PROVE  Numbered(v, port, k, p)
  <2>1. p.a \in v.refs /\ p.b \in v.refs
    BY CreatedPairs DEF Flushing
  <2>2. Listens(v.row.transport) /\ p \in NeedPorts(v)
    BY <1>3 DEF NeedPorts
  <2> QED
    BY <1>1, <1>3, <2>1, <2>2 DEF Numbered, Ends
<1> QED
  BY <1>2, <1>3, LinksAfterFlush

\* No numbered link meets another link with its port.
LEMMA FlushPorts ==
    ASSUME TypeInv, NumbersInv, NEW v, NEW subnet, NEW port, NEW lo, Flushing(v, subnet, port, lo)
    PROVE  PortsDisjoint'
<1>1. ASSUME NEW k, NEW n, Numbered(v, port, k, n), NEW o \in links, o.port = k.port, o.port # None,
             ~v.raced
      PROVE  Ends(o) \cap Ends(k) = {}
  <2>1. o.port \in Ports \ (v.ports \cup {l.port : l \in v.links})
    BY <1>1 DEF Numbered, Flushing, Written, FreePorts
  <2>2. o.fab # v.fab
    BY <1>1, <2>1 DEF Flushing, NothingNew, Alike
  <2>3. Ends(o) \cap DOMAIN v.mem = {}
    BY <1>1, <2>1, <2>2 DEF Flushing, HeldIsKnown
  <2> QED
    BY <1>1, <2>3 DEF Numbered
<1>2. ASSUME NEW n \in NeedPorts(v), NEW m \in NeedPorts(v), port[n] = port[m]
      PROVE  n = m
  BY <1>2 DEF Flushing, Written
<1>3. ASSUME NEW o \in v.unported, NEW p \in v.created, o \in NeedPorts(v), p \in NeedPorts(v)
      PROVE  port[o] # port[p]
  <2>1. port[o] \in Nat /\ port[p] \in Nat
    BY <1>3, FabricAssumption DEF Flushing, Written, FreePorts
  <2>2. port[o] < port[p]
    BY DEF Flushing, Written, InOrder
  <2> QED
    BY <2>1, <2>2
<1>4. ASSUME NEW k \in links', NEW l \in links', k # l, k.port = l.port, k.port # None, ~v.raced
      PROVE  "raced" \in history'[k.fab] \cup history'[l.fab] \/ Ends(k) \cap Ends(l) = {}
  <2>1. CASE k \in links /\ l \in links
    <3>1. "raced" \in history[k.fab] \cup history[l.fab] \/ Ends(k) \cap Ends(l) = {}
      BY <1>4, <2>1, OldPairs DEF NumbersInv
    <3>2. history[k.fab] \subseteq history'[k.fab] /\ history[l.fab] \subseteq history'[l.fab]
      BY <2>1, HistoryAfterFlush DEF TypeInv, Link
    <3> QED
      BY <3>1, <3>2
  <2>2. CASE k \in links /\ \E n : Numbered(v, port, l, n)
    BY <1>1, <1>4, <2>2
  <2>3. CASE l \in links /\ \E n : Numbered(v, port, k, n)
    BY <1>1, <1>4, <2>3
  <2>4. ASSUME NEW o \in links, NEW u \in v.unported, k = WithPort(v.unported, port, o), SameRow(u, o),
               Numbered(v, port, k, u)
        PROVE  l \in links
    <3>1. ASSUME NEW n \in links, NEW w \in v.unported, l = WithPort(v.unported, port, n), SameRow(w, n),
                 Numbered(v, port, l, w)
          PROVE  FALSE
      <4>1. u = w
        BY <1>2, <1>4, <2>4, <3>1 DEF Numbered
      <4>2. o = n
        BY <2>4, <3>1, <4>1 DEF NumbersInv, TablesInv, RowsUnique, SameRow
      <4> QED
        BY <1>4, <2>4, <3>1, <4>2
    <3>2. ASSUME NEW p \in v.created, Numbered(v, port, l, p)
          PROVE  FALSE
      BY <1>3, <1>4, <2>4, <3>2 DEF Numbered
    <3> QED
      BY <1>4, <3>1, <3>2, PortsAfterFlush
  <2>5. ASSUME NEW p \in v.created, k = NewLink(v, subnet, port, p), Numbered(v, port, k, p)
        PROVE  l \in links
    <3>1. ASSUME NEW n \in v.unported, Numbered(v, port, l, n)
          PROVE  FALSE
      BY <1>3, <1>4, <2>5, <3>1 DEF Numbered
    <3>2. ASSUME NEW q \in v.created, l = NewLink(v, subnet, port, q), Numbered(v, port, l, q)
          PROVE  FALSE
      <4>1. p = q
        BY <1>2, <1>4, <2>5, <3>2 DEF Numbered
      <4> QED
        BY <1>4, <2>5, <3>2, <4>1
    <3> QED
      BY <1>4, <3>1, <3>2, PortsAfterFlush
  <2>6. k \in links \/ l \in links
    BY <1>4, <2>4, <2>5, PortsAfterFlush
  <2>7. (k \in links \/ \E n : Numbered(v, port, k, n)) /\ (l \in links \/ \E n : Numbered(v, port, l, n))
    BY <1>4, PortsAfterFlush
  <2> QED
    BY <2>1, <2>2, <2>3, <2>6, <2>7
<1>5. ASSUME NEW k \in links', NEW l \in links', k # l, k.port = l.port, k.port # None, v.raced
      PROVE  "raced" \in history'[k.fab] \cup history'[l.fab] \/ Ends(k) \cap Ends(l) = {}
  <2>1. CASE k.fab = v.fab \/ l.fab = v.fab
    BY <1>5, <2>1, HistoryAfterFlush
  <2>2. CASE k.fab # v.fab /\ l.fab # v.fab
    <3>1. k \in links /\ l \in links
      BY <2>2, LinksAfterFlush
    <3>2. "raced" \in history[k.fab] \cup history[l.fab] \/ Ends(k) \cap Ends(l) = {}
      BY <1>5, <3>1, OldPairs DEF NumbersInv
    <3>3. history[k.fab] \subseteq history'[k.fab] /\ history[l.fab] \subseteq history'[l.fab]
      BY <3>1, HistoryAfterFlush DEF TypeInv, Link
    <3> QED
      BY <3>2, <3>3
  <2> QED
    BY <2>1, <2>2
<1>6. v.raced \in BOOLEAN
  BY HistoryAfterFlush
<1> QED
  BY <1>4, <1>5, <1>6 DEF PortsDisjoint, Ends

\* A member that lacked a loopback gets one no other member has.
LEMMA FlushLoopbacks ==
    ASSUME TypeInv, NumbersInv, NEW v, NEW subnet, NEW port, NEW lo, Flushing(v, subnet, port, lo)
    PROVE  LoopbacksDistinct'
<1> DEFINE g == v.fab
<1>1. /\ \A f \in Fabrics : DOMAIN mem'[f] = DOMAIN mem[f]
      /\ \A f \in Fabrics \ {g} : mem'[f] = mem[f]
      /\ \A x \in DOMAIN mem[g] : mem'[g][x].lo = IF x \in v.lacking THEN lo[x] ELSE mem[g][x].lo
      /\ g \in Fabrics
  BY WithLoopbacksType DEF Flushing, Written, IsView
<1>2. \A x \in v.lacking : lo[x] \in Loopbacks /\ lo[x] # None
                           /\ \A y \in DOMAIN v.mem : lo[x] # Loopback(v, y)
  <2>1. \A x \in v.lacking : lo[x] \in Loopbacks \ {Loopback(v, y) : y \in DOMAIN v.mem}
    BY DEF Flushing, Written, FreeLoopbacks
  <2>2. None \notin Loopbacks
    BY FabricAssumption
  <2> QED
    BY <2>1, <2>2
<1>3. \A x, y \in v.lacking : lo[x] = lo[y] => x = y
  BY DEF Flushing, Written
<1>4. ~v.raced => \A y \in DOMAIN mem[g] : mem[g][y].lo # None =>
        y \in DOMAIN v.mem /\ Loopback(v, y) = mem[g][y].lo
  BY DEF Flushing, NothingNew, Loopback
<1>5. ASSUME NEW x \in DOMAIN mem[g], NEW y \in DOMAIN mem[g], x # y, mem'[g][x].lo # None,
             mem'[g][x].lo = mem'[g][y].lo
      PROVE  "raced" \in history'[g]
  <2>0. v.raced \in BOOLEAN /\ (v.raced => "raced" \in history'[g]) /\ history[g] \subseteq history'[g]
    BY <1>1, HistoryAfterFlush
  <2>1. CASE x \in v.lacking /\ y \in v.lacking
    BY <1>1, <1>3, <1>5, <2>1
  <2>2. CASE x \in v.lacking /\ y \notin v.lacking
    BY <1>1, <1>2, <1>4, <1>5, <2>0, <2>2
  <2>3. CASE x \notin v.lacking /\ y \in v.lacking
    BY <1>1, <1>2, <1>4, <1>5, <2>0, <2>3
  <2>4. CASE x \notin v.lacking /\ y \notin v.lacking
    BY <1>1, <1>5, <2>0, <2>4 DEF NumbersInv, TablesInv, LoopbacksDistinct
  <2> QED
    BY <2>1, <2>2, <2>3, <2>4
<1>6. ASSUME NEW f \in Fabrics, NEW x \in DOMAIN mem'[f], NEW y \in DOMAIN mem'[f], x # y,
             mem'[f][x].lo # None
      PROVE  "raced" \in history'[f] \/ mem'[f][x].lo # mem'[f][y].lo
  <2>1. history[f] \subseteq history'[f]
    BY HistoryAfterFlush
  <2> QED
    BY <1>1, <1>5, <1>6, <2>1 DEF NumbersInv, TablesInv, LoopbacksDistinct
<1> QED
  BY <1>6 DEF LoopbacksDistinct

LEMMA FlushRest ==
    ASSUME TypeInv, NumbersInv, NEW v, NEW subnet, NEW port, NEW lo, Flushing(v, subnet, port, lo),
           UNCHANGED <<fab, wan>>
    PROVE  KeysMatchTransport' /\ LinksRooted' /\ RowsUnique(links)'
<1>1. ASSUME NEW p \in v.created
      PROVE  p.a.wan \in DOMAIN wan /\ p.b.wan \in DOMAIN wan
  <2>1. p.a \in v.refs /\ p.b \in v.refs
    BY CreatedPairs DEF Flushing
  <2>2. <<"wan", p.a.wan>> \notin v.lost /\ <<"wan", p.b.wan>> \notin v.lost
    BY DEF Flushing, Flushes, Needs
  <2> QED
    BY <2>1, <2>2 DEF Flushing, ReadOnce
<1>2. LinksRooted'
  BY <1>1, LinksAfterFlush DEF NumbersInv, TablesInv, LinksRooted, Flushing
<1>6. KeysMatchTransport'
  <2> SUFFICES ASSUME NEW k \in links'
               PROVE  "transport" \in history'[k.fab] \/ k.key = fab[k.fab].transport
    BY DEF KeysMatchTransport
  <2>1. CASE \E o \in links \cap Link : k.fab = o.fab /\ k.key = o.key
    <3>1. PICK o \in links \cap Link : k.fab = o.fab /\ k.key = o.key
      BY <2>1
    <3>2. history[o.fab] \subseteq history'[o.fab]
      BY HistoryAfterFlush DEF Link
    <3> QED
      BY <3>1, <3>2 DEF NumbersInv, TablesInv, KeysMatchTransport
  <2>2. CASE \E p \in v.created : k.fab = v.fab /\ k.key = v.row.transport
    BY <2>2, HistoryAfterFlush
  <2> QED
    BY <2>1, <2>2, LinksAfterFlush
<1>3. ASSUME NEW p \in v.created, NEW o \in links, o.fab = v.fab
      PROVE  <<o.a, o.b>> # <<p.a.wan, p.b.wan>>
  BY <1>3 DEF Flushing, Flushes, LinksOf
<1>4. ASSUME NEW p \in v.created, NEW q \in v.created, p.a.wan = q.a.wan, p.b.wan = q.b.wan
      PROVE  p = q
  <2>1. /\ p = [a |-> p.a, b |-> p.b] /\ q = [a |-> q.a, b |-> q.b]
        /\ {p.a, p.b, q.a, q.b} \subseteq v.refs
    BY CreatedPairs DEF Flushing
  <2>2. p.a = q.a /\ p.b = q.b
    BY <1>4, <2>1 DEF Flushing, ReadOnce
  <2> QED
    BY <2>1, <2>2
<1>5. ASSUME NEW k \in links', NEW l \in links', k.fab = l.fab, k.a = l.a, k.b = l.b
      PROVE  k = l
  <2>1. CASE \E o \in links : k = WithPort(v.unported, port, o) /\ SameRow(k, o)
    <3>1. PICK o \in links : k = WithPort(v.unported, port, o) /\ SameRow(k, o)
      BY <2>1
    <3>2. CASE \E n \in links : l = WithPort(v.unported, port, n) /\ SameRow(l, n)
      <4>1. PICK n \in links : l = WithPort(v.unported, port, n) /\ SameRow(l, n)
        BY <3>2
      <4>2. o = n
        BY <1>5, <3>1, <4>1 DEF SameRow, NumbersInv, TablesInv, RowsUnique
      <4> QED
        BY <3>1, <4>1, <4>2
    <3>3. CASE \E p \in v.created : l.fab = v.fab /\ l.a = p.a.wan /\ l.b = p.b.wan
      BY <1>3, <1>5, <3>1, <3>3 DEF SameRow
    <3> QED
      BY <3>2, <3>3, LinksAfterFlush
  <2>2. CASE \E p \in v.created : /\ k = NewLink(v, subnet, port, p)
                                  /\ k.fab = v.fab /\ k.a = p.a.wan /\ k.b = p.b.wan
    <3>1. PICK p \in v.created : /\ k = NewLink(v, subnet, port, p)
                                 /\ k.fab = v.fab /\ k.a = p.a.wan /\ k.b = p.b.wan
      BY <2>2
    <3>2. CASE \E n \in links : l.fab = n.fab /\ l.a = n.a /\ l.b = n.b
      BY <1>3, <1>5, <3>1, <3>2
    <3>3. CASE \E q \in v.created : l = NewLink(v, subnet, port, q) /\ l.a = q.a.wan /\ l.b = q.b.wan
      <4>1. PICK q \in v.created : l = NewLink(v, subnet, port, q) /\ l.a = q.a.wan /\ l.b = q.b.wan
        BY <3>3
      <4>2. p = q
        BY <1>4, <1>5, <3>1, <4>1
      <4> QED
        BY <3>1, <4>1, <4>2
    <3> QED
      BY <3>2, <3>3, LinksAfterFlush
  <2> QED
    BY <2>1, <2>2, LinksAfterFlush
<1> QED
  BY <1>2, <1>5, <1>6 DEF RowsUnique, SameRow

\* The sessions an expansion leaves behind unovertaken know what they knew.
LEMMA FlushKnown ==
    ASSUME TypeInv, NumbersInv, NEW s \in Sessions, Finish(s, session[s].removed),
           NEW v, v = session[s], NEW subnet, NEW port, NEW lo, Flushing(v, subnet, port, lo),
           UNCHANGED <<fab, wan>>, NEW r \in Sessions, r # s, session[r] # Idle
    PROVE  Knows(session'[r], wan', fab', mem', links', history')
<1>1. PICK u : u = session[r]
  OBVIOUS
<1> DEFINE lost == u.lost \cup CascadeLinks(session[s].removed)
           raced == Overtaken(u, v)
<1>2. /\ SessionTyped(u) /\ u # Idle /\ Knows(u, wan, fab, mem, links, history)
      /\ session'[r] = Touched(u, lost, raced) /\ raced \in BOOLEAN
  BY <1>1, FinishTouches DEF NumbersInv, SessionsKnow
<1>3. ASSUME IsView(u), Ahead(u, fab, mem, links, history), ~raced
      PROVE  Ahead(u, fab', mem', links', history')
  <2>1. u.op # "expanded" /\ u.fab # v.fab /\ u.fab \in Fabrics
    BY <1>3 DEF Overtaken, IsView
  <2>2. \A l \in links' : l.fab = u.fab => l \in links
    BY <2>1, LinksAfterFlush
  <2>3. mem'[u.fab] = mem[u.fab]
    <3>1. /\ IsView(v) /\ lo \in [v.lacking -> FreeLoopbacks(v)]
          /\ mem' = WithLoopbacks(mem, v.fab, lo)
      BY DEF Flushing, Written
    <3> QED
      BY <2>1, <3>1, WithLoopbacksType
  <2> QED
    BY <1>3, <2>1, <2>2, <2>3 DEF Ahead, NothingNew
<1>4. u.raced => raced
  BY DEF Overtaken
<1> HIDE DEF raced
<1>5. u.lost \subseteq lost
  OBVIOUS
<1> HIDE DEF lost
<1>6. /\ \A x \in DOMAIN wan : x \in DOMAIN wan' \/ <<"wan", x>> \in lost
      /\ u.fab \in DOMAIN fab => u.fab \in DOMAIN fab' \/ <<"fabric", u.fab>> \in lost
      /\ IsView(u) /\ Ahead(u, fab, mem, links, history) /\ u.fab \in DOMAIN fab
           => Ahead(u, fab', mem', links', history') \/ raced \/ <<"fabric", u.fab>> \in lost
  BY <1>3
<1>7. Knows(Touched(u, lost, raced), wan', fab', mem', links', history')
  BY <1>2, <1>4, <1>5, <1>6, TouchedKnows
<1> QED
  BY <1>2, <1>7

LEMMA ExpandFabricNumbers ==
    ASSUME TypeInv, NumbersInv, NEW s \in Sessions, ExpandFabric(s)
    PROVE  NumbersInv'
<1>0. PICK v : v = session[s]
  OBVIOUS
<1>1. IsView(v) /\ IsWorkedOut(v) /\ v.op = "expanded" /\ Knows(v, wan, fab, mem, links, history) /\ Flushes(v)
  BY <1>0 DEF ExpandFabric, TypeInv, IsUpdate, Idle, NumbersInv, SessionsKnow
<1>2. PICK subnet, port, lo : Written(v, mem, subnet, port, lo)
  BY <1>0, FlushWrites DEF ExpandFabric
<1>3. UNCHANGED <<fab, wan>> /\ Finish(s, session[s].removed) /\ Recorded(v)
  BY <1>0 DEF ExpandFabric
<1>4. Live(v)
  BY <1>1 DEF Flushes, Needs, Live
<1>5. Flushing(v, subnet, port, lo)
  BY <1>1, <1>2, <1>3, <1>4 DEF Flushing, Knows, Ahead
<1>6. TablesInv'
  BY <1>3, <1>5, FlushSubnets, FlushPorts, FlushLoopbacks, FlushRest DEF TablesInv
<1>7. \A r \in Sessions : r = s \/ session[r] = Idle => session'[r] = Idle
  BY <1>3 DEF Finish
<1>8. SessionsKnow'
  BY <1>0, <1>3, <1>5, <1>7, FlushKnown DEF SessionsKnow
<1> QED
  BY <1>6, <1>8 DEF NumbersInv

LEMMA NextNumbers ==
    ASSUME TypeInv, NumbersInv, [Next]_vars
    PROVE  NumbersInv'
<1>1. CASE UNCHANGED vars
  BY <1>1 DEF vars, NumbersInv, SessionsKnow, TablesInv, SubnetsDisjoint, PortsDisjoint,
              LoopbacksDistinct, KeysMatchTransport, LinksRooted
<1>2. CASE Editing
  BY <1>2, EditsHaveEffects, EffectNumbers
<1>3. ASSUME NEW s \in Sessions, DesigningIn(s)
      PROVE  NumbersInv'
  <2>1. ASSUME NEW f \in Fabrics, LoadFabric(s, f)
        PROVE  NumbersInv'
    BY <2>1, ViewKnows, LookingNumbers DEF LoadFabric
  <2>2. CASE Expand(s)
    <3>1. IsView(session[s]) /\ Knows(session[s], wan, fab, mem, links, history)
      BY <2>2 DEF Expand, TypeInv, IsUpdate, Idle, NumbersInv, SessionsKnow
    <3>2. session' = [session EXCEPT ![s] = Worked(session[s])]
      BY <2>2 DEF Expand, Worked
    <3> QED
      BY <2>2, <3>1, <3>2, WorkedKnows, LookingNumbers DEF Expand
  <2>3. CASE ExpandFails(s)
    BY <2>3, LookingNumbers DEF ExpandFails
  <2>4. ASSUME NEW f \in Fabrics, NEW new \in FabricRows, LoadUpdate(s, f, new)
        PROVE  NumbersInv'
    <3>1. PICK v : v = [op |-> "update", fab |-> f, row |-> fab[f], new |-> new, lost |-> {},
                  raced |-> FALSE]
      OBVIOUS
    <3>2. ~IsView(v)
      BY <3>1 DEF IsView
    <3>3. Knows(v, wan, fab, mem, links, history)
      BY <3>2 DEF Knows
    <3> QED
      BY <2>4, <3>1, <3>3, LookingNumbers DEF LoadUpdate
  <2> QED
    BY <1>3, <2>1, <2>2, <2>3, <2>4, ExpandFabricNumbers, UpdateFabricNumbers DEF DesigningIn
<1> QED
  BY <1>1, <1>2, <1>3 DEF Next

LEMMA Numbers == Spec => []NumbersInv
<1>1. TypeInv /\ NumbersInv /\ [Next]_vars => TypeInv' /\ NumbersInv'
  BY NextType, NextNumbers
<1> QED
  BY <1>1, InitType, InitNumbers, PTL DEF Spec

\* No two links of overlapping pools have one /31 (_subnets_held_elsewhere),
\* unless an expansion wrote although another had since it read, or a pool was
\* moved from under links.
THEOREM SubnetsApart == Spec => []SubnetsDisjoint
<1>1. NumbersInv => SubnetsDisjoint
  BY DEF NumbersInv, TablesInv
<1> QED
  BY <1>1, Numbers, PTL

\* No two links that meet on a router have one listen port
\* (_ports_held_elsewhere), unless expansions overtook each other.
THEOREM PortsApart == Spec => []PortsDisjoint
<1>1. NumbersInv => PortsDisjoint
  BY DEF NumbersInv, TablesInv
<1> QED
  BY <1>1, Numbers, PTL

\* No two members of a fabric have one loopback (_assign_loopbacks), unless
\* expansions of it overtook each other.
THEOREM LoopbacksApart == Spec => []LoopbacksDistinct
<1>1. NumbersInv => LoopbacksDistinct
  BY DEF NumbersInv, TablesInv
<1> QED
  BY <1>1, Numbers, PTL

\* Every link has the keys of its fabric's transport (reallocate_secrets), unless
\* an import set another transport, or a PATCH did under an expansion.
THEOREM KeysFollow == Spec => []KeysMatchTransport
<1>1. NumbersInv => KeysMatchTransport
  BY DEF NumbersInv, TablesInv
<1> QED
  BY <1>1, Numbers, PTL

LEMMA StableStep ==
    ASSUME TypeInv, NumbersInv, [Next]_vars
    PROVE  /\ \A k \in links, l \in links' : SameRow(k, l) =>
                /\ k.subnet = l.subnet /\ k.dial = l.dial
                /\ k.port \in {None, l.port} \/ "raced" \in history'[l.fab]
           /\ \A f \in Fabrics : \A x \in DOMAIN mem[f] \cap DOMAIN mem'[f] :
                mem[f][x].lo \in {None, mem'[f][x].lo} \/ "raced" \in history'[f]
<1> DEFINE LinksStable == \A k \in links, l \in links' : SameRow(k, l) =>
                             /\ k.subnet = l.subnet /\ k.dial = l.dial
                             /\ k.port \in {None, l.port} \/ "raced" \in history'[l.fab]
           MembersStable == \A f \in Fabrics : \A x \in DOMAIN mem[f] \cap DOMAIN mem'[f] :
                               mem[f][x].lo \in {None, mem'[f][x].lo} \/ "raced" \in history'[f]
<1>1. links' \subseteq links => LinksStable
  BY DEF NumbersInv, TablesInv, RowsUnique
<1>2. UNCHANGED mem => MembersStable
  OBVIOUS
<1>3. ASSUME NEW s \in Sessions, UpdateFabric(s)
      PROVE  LinksStable
  <2>1. CASE UNCHANGED links
    BY <1>1, <2>1
  <2>2. CASE links' = ReallocateSecrets(session[s].fab, session[s].new.transport)
    <3>1. ASSUME NEW l \in links'
          PROVE  \E o \in links : /\ SameRow(o, l) /\ o.subnet = l.subnet
                                  /\ o.dial = l.dial /\ o.port = l.port
      BY <2>2 DEF ReallocateSecrets, TypeInv, Link, SameRow
    <3> QED
      BY <3>1 DEF NumbersInv, TablesInv, RowsUnique, SameRow
  <2> QED
    BY <1>3, <2>1, <2>2 DEF UpdateFabric
<1>4. ASSUME NEW s \in Sessions, ExpandFabric(s)
      PROVE  LinksStable /\ MembersStable
  <2>1. PICK v : v = session[s]
    OBVIOUS
  <2>2. /\ IsView(v) /\ IsWorkedOut(v) /\ v.op = "expanded" /\ Knows(v, wan, fab, mem, links, history)
        /\ Flushes(v) /\ Recorded(v)
    BY <1>4, <2>1 DEF ExpandFabric, TypeInv, IsUpdate, Idle, NumbersInv, SessionsKnow
  <2>3. PICK subnet, port, lo : Written(v, mem, subnet, port, lo)
    BY <1>4, <2>1, FlushWrites DEF ExpandFabric
  <2>4. Flushing(v, subnet, port, lo)
    BY <2>2, <2>3 DEF Flushing, Knows, Ahead, Flushes, Needs, Live
  <2>5. v.raced \in BOOLEAN /\ (v.raced => "raced" \in history'[v.fab])
    BY <2>4, HistoryAfterFlush
  <2>6. ASSUME NEW k \in links, NEW l \in links', SameRow(k, l)
        PROVE  /\ k.subnet = l.subnet /\ k.dial = l.dial
               /\ k.port \in {None, l.port} \/ "raced" \in history'[l.fab]
    <3>1. \A p \in v.created : ~(l.fab = v.fab /\ l.a = p.a.wan /\ l.b = p.b.wan)
      BY <2>2, <2>6 DEF Flushes, LinksOf, SameRow
    <3>2. PICK o \in links : /\ SameRow(l, o) /\ l.subnet = o.subnet /\ l.dial = o.dial
                             /\ l = o \/ \E u \in v.unported : l.fab = v.fab /\ (~v.raced => Alike(u, o))
      BY <2>4, <3>1, LinksAfterFlush
    <3>3. k = o
      BY <2>6, <3>2 DEF NumbersInv, TablesInv, RowsUnique, SameRow
    <3>4. \A u \in v.unported : u.port = None
      BY <2>2 DEF IsWorkedOut, Unported
    <3> QED
      BY <2>5, <3>2, <3>3, <3>4 DEF Alike
  <2>7. MembersStable
    <3>1. ~v.raced => \A x \in DOMAIN mem[v.fab] : x \in v.lacking => mem[v.fab][x].lo = None
      BY <2>2, <2>4 DEF Flushing, NothingNew, IsWorkedOut, Lacking, Loopback
    <3>2. /\ \A f \in Fabrics : DOMAIN mem'[f] = DOMAIN mem[f]
          /\ \A f \in Fabrics \ {v.fab} : mem'[f] = mem[f]
          /\ \A x \in DOMAIN mem[v.fab] :
               mem'[v.fab][x].lo = IF x \in v.lacking THEN lo[x] ELSE mem[v.fab][x].lo
      BY <2>2, <2>3, WithLoopbacksType DEF Written
    <3> QED
      BY <2>5, <3>1, <3>2
  <2> QED
    BY <2>6, <2>7
<1>5. CASE Editing
  BY <1>1, <1>5, EditsHaveEffects DEF EditEffect
<1>6. CASE UNCHANGED vars
  BY <1>1, <1>2, <1>6 DEF vars
<1>7. ASSUME NEW s \in Sessions, DesigningIn(s)
      PROVE  LinksStable /\ MembersStable
  <2>1. ExpandFabric(s) \/ UpdateFabric(s) \/ UNCHANGED <<mem, links>>
    BY <1>7 DEF DesigningIn, LoadFabric, LoadUpdate, Expand, ExpandFails
  <2>2. UpdateFabric(s) => UNCHANGED mem
    BY DEF UpdateFabric
  <2> QED
    BY <1>1, <1>2, <1>3, <1>4, <2>1, <2>2
<1> QED
  BY <1>5, <1>6, <1>7 DEF Next

\* Addressing is stable (fabric/allocate.py): no step moves the /31 or the dialling
\* side of a link that lives, nor a port or a loopback it or a membership has,
\* those unless an expansion overtook another.
THEOREM Stable == Spec => AssignmentsStable
<1> DEFINE Step ==
      /\ \A k \in links, l \in links' : SameRow(k, l) =>
            /\ k.subnet = l.subnet /\ k.dial = l.dial
            /\ k.port \in {None, l.port} \/ "raced" \in history'[l.fab]
      /\ \A f \in Fabrics : \A x \in DOMAIN mem[f] \cap DOMAIN mem'[f] :
            mem[f][x].lo \in {None, mem'[f][x].lo} \/ "raced" \in history'[f]
<1>1. TypeInv /\ NumbersInv /\ [Next]_vars => TypeInv' /\ NumbersInv' /\ [Step]_vars
  BY NextType, NextNumbers, StableStep
<1>2. Init => TypeInv /\ NumbersInv
  BY InitType, InitNumbers
<1>3. AssignmentsStable <=> [][Step]_vars
  BY DEF AssignmentsStable
<1> HIDE DEF Step
<1> QED
  BY <1>1, <1>2, <1>3, PTL DEF Spec

-----------------------------------------------------------------------------
(* Enrollment: a token is spent once.                                     *)

Pending(c) == call[c].op \in {"inserted", "probed", "joining"}
SiteFor(c) == token[call[c].token].site

TokenShape == [site : Sites, role : Roles, fab : Fabrics \cup {None}, revoked : BOOLEAN,
               expired : BOOLEAN, spent : Int]
CallFields == {"op", "token", "rows", "reachable", "via"}

\* What the calls and tokens look like.
Shape ==
    /\ token \in [DOMAIN token -> TokenShape] /\ call = [c \in Calls |-> call[c]]
    /\ \A c \in Calls : call[c] # Hung =>
         /\ DOMAIN call[c] = CallFields /\ call[c] = [k \in CallFields |-> call[c][k]]
         /\ call[c].token \in DOMAIN token

\* A call that has inserted its site is the only one that has, and nobody has
\* committed a site of that name: it holds the name until it ends.
NameHeld ==
    \A c \in Calls : Pending(c) =>
        /\ SiteFor(c) \notin DOMAIN role
        /\ \A d \in Calls : Pending(d) /\ SiteFor(d) = SiteFor(c) => d = c

NameInv == Shape /\ NameHeld

LEMMA InitHolds == EnrollmentInit => NameInv
<1> SUFFICES ASSUME EnrollmentInit
             PROVE  NameInv
  OBVIOUS
<1>1. token \in [DOMAIN token -> TokenShape]
  BY DEF EnrollmentInit
<1>2. \A c \in Calls : call[c] = Hung /\ ~Pending(c)
  BY DEF EnrollmentInit, Hung, Pending
<1> QED
  BY <1>1, <1>2 DEF EnrollmentInit, NameInv, Shape, NameHeld

\* A domain of an overridden function.
LEMMA OverrideDomain ==
    ASSUME NEW g, NEW h
    PROVE  DOMAIN Override(g, h) = DOMAIN g \cup DOMAIN h
BY DEF Override

\* A step of one call that takes neither a name nor a token keeps the invariant
\* if it hangs up, or goes on with a name it holds or takes now.
LEMMA CallMoves ==
    ASSUME NameInv, NEW c \in Calls, NEW r, call' = [call EXCEPT ![c] = r],
           UNCHANGED <<role, token>>,
           \/ r = Hung
           \/ /\ DOMAIN r = CallFields /\ r = [k \in CallFields |-> r[k]]
              /\ r.token \in DOMAIN token
              /\ \/ r.op = "valid"
                 \/ Pending(c) /\ r.token = call[c].token
                 \/ InFlight(token[r.token].site) = {} /\ token[r.token].site \notin DOMAIN role
    PROVE  NameInv'
<1>1. /\ call'[c] = r /\ call' = [d \in Calls |-> call'[d]]
      /\ \A d \in Calls \ {c} : call'[d] = call[d]
  BY DEF NameInv, Shape
<1>2. Shape'
  BY <1>1 DEF NameInv, Shape
<1>3. \A d \in Calls \ {c} : (Pending(d)' <=> Pending(d)) /\ SiteFor(d)' = SiteFor(d)
  BY <1>1 DEF Pending, SiteFor
<1>4. ASSUME Pending(c)'
      PROVE  /\ SiteFor(c)' \notin DOMAIN role
             /\ \A d \in Calls \ {c} : Pending(d) => SiteFor(d) # SiteFor(c)'
  <2>1. r # Hung /\ r.op # "valid" /\ SiteFor(c)' = token[r.token].site
    BY <1>1, <1>4 DEF Pending, Hung, SiteFor
  <2>2. CASE Pending(c) /\ r.token = call[c].token
    BY <2>1, <2>2 DEF NameInv, NameHeld, SiteFor
  <2>3. CASE InFlight(token[r.token].site) = {} /\ token[r.token].site \notin DOMAIN role
    BY <2>1, <2>3 DEF InFlight, Pending, SiteFor
  <2> QED
    BY <2>1, <2>2, <2>3
<1>5. NameHeld'
  BY <1>3, <1>4 DEF NameInv, NameHeld
<1> QED
  BY <1>2, <1>5 DEF NameInv

\* A call that ends onboards the site whose name it holds, and hangs up.
LEMMA OnboardingKeeps ==
    ASSUME NameInv, NEW c \in Calls, Pending(c), Onboarded(c)
    PROVE  /\ NameInv'
           /\ \A t \in DOMAIN token : token[t].site \in DOMAIN role => token'[t].spent = token[t].spent
<1> DEFINE t == call[c].token
<1>1. call[c] # Hung /\ t \in DOMAIN token
  BY DEF Pending, Hung, NameInv, Shape
<1>2. /\ token' = [token EXCEPT ![t] = [token[t] EXCEPT !.spent = @ + 1]]
      /\ token[t] \in TokenShape
  BY <1>1 DEF Onboarded, NameInv, Shape
<1>3. /\ DOMAIN token' = DOMAIN token
      /\ token' \in [DOMAIN token' -> TokenShape]
      /\ \A u \in DOMAIN token : token'[u].site = token[u].site
      /\ \A u \in DOMAIN token \ {t} : token'[u] = token[u]
  BY <1>1, <1>2 DEF NameInv, Shape, TokenShape
<1>4. /\ call'[c] = Hung /\ call' = [d \in Calls |-> call'[d]]
      /\ \A d \in Calls \ {c} : call'[d] = call[d]
  BY DEF NameInv, Shape, Onboarded
<1>5. Shape'
  BY <1>3, <1>4 DEF NameInv, Shape
<1>6. DOMAIN role' = DOMAIN role \cup {SiteFor(c)}
  BY OverrideDomain DEF Onboarded, SiteFor
<1>7. ~Pending(c)'
  BY <1>4 DEF Pending, Hung
<1>8. \A d \in Calls \ {c} : (Pending(d)' <=> Pending(d)) /\ (Pending(d) => SiteFor(d)' = SiteFor(d))
  BY <1>3, <1>4 DEF Pending, SiteFor, NameInv, Shape, Hung
<1>9. NameHeld'
  BY <1>6, <1>7, <1>8 DEF NameInv, NameHeld
<1>10. token[t].site \notin DOMAIN role
  BY DEF NameInv, NameHeld, SiteFor
<1> QED
  BY <1>3, <1>5, <1>9, <1>10 DEF NameInv

Spending == \A t \in DOMAIN token : token[t].spent > 0 /\ token[t].site \in DOMAIN role
               => token'[t].spent = token[t].spent
LEMMA ConfirmingKeeps ==
    ASSUME NameInv, Confirming
    PROVE  NameInv' /\ Spending
<1>1. ASSUME NEW c \in Calls, NEW t \in Tokens, LoadValidToken(c, t)
      PROVE  NameInv' /\ Spending
  <2> DEFINE r == [op |-> "valid", token |-> t, rows |-> << >>, reachable |-> FALSE, via |-> None]
  <2>1. /\ DOMAIN r = CallFields /\ r = [k \in CallFields |-> r[k]] /\ r.op = "valid" /\ r.token = t
    BY DEF CallFields
  <2>2. call' = [call EXCEPT ![c] = r] /\ t \in DOMAIN token /\ UNCHANGED <<role, token>>
    BY <1>1 DEF LoadValidToken, vars
  <2> HIDE DEF r
  <2> QED
    BY <2>1, <2>2, CallMoves DEF Spending
<1>2. ASSUME NEW c \in Calls, InsertSite(c)
      PROVE  NameInv' /\ Spending
  <2> DEFINE x == token[call[c].token].site
             r == [call[c] EXCEPT !.op = "inserted"]
  <2>1. call[c].op = "valid" /\ InFlight(x) = {} /\ UNCHANGED <<role, token>>
    BY <1>2 DEF InsertSite, vars
  <2>2. /\ DOMAIN call[c] = CallFields /\ call[c] = [k \in CallFields |-> call[c][k]]
        /\ call[c].token \in DOMAIN token
    BY <2>1 DEF NameInv, Shape, Hung
  <2>3. DOMAIN r = CallFields /\ r = [k \in CallFields |-> r[k]] /\ r.token = call[c].token
    BY <2>2 DEF CallFields
  <2>4. CASE x \in DOMAIN role
    <3>1. call' = [call EXCEPT ![c] = Hung]
      BY <1>2, <2>4 DEF InsertSite
    <3> QED
      BY <2>1, <3>1, CallMoves DEF Spending
  <2>5. CASE x \notin DOMAIN role
    <3>1. call' = [call EXCEPT ![c] = r]
      BY <1>2, <2>5 DEF InsertSite
    <3>2. r.token \in DOMAIN token /\ token[r.token].site = x
      BY <2>2, <2>3
    <3> HIDE DEF r
    <3> QED
      BY <2>1, <2>3, <2>5, <3>1, <3>2, CallMoves DEF Spending
  <2> QED
    BY <2>4, <2>5
<1>3. ASSUME NEW c \in Calls, Pending(c), NEW r,
             call' = [call EXCEPT ![c] = r], UNCHANGED <<role, token>>,
             DOMAIN r = CallFields, r = [k \in CallFields |-> r[k]], r.token = call[c].token
      PROVE  NameInv' /\ Spending
  <2>1. r.token \in DOMAIN token
    BY <1>3 DEF NameInv, Shape, Pending, Hung
  <2> QED
    BY <1>3, <2>1, CallMoves DEF Spending
<1>4. \A c \in Calls : Pending(c) =>
        DOMAIN call[c] = CallFields /\ call[c] = [k \in CallFields |-> call[c][k]]
  BY DEF NameInv, Shape, Pending, Hung
<1>5. ASSUME NEW c \in Calls, ProbeSite(c)
      PROVE  NameInv' /\ Spending
  <2>1. Pending(c) /\ UNCHANGED <<role, token>>
    BY <1>5 DEF ProbeSite, Pending, vars
  <2>2. CASE \E device \in Devices, unread \in Unread :
            call' = [call EXCEPT ![c].op = "probed", ![c].reachable = TRUE,
                 ![c].rows = Suggested(token[call[c].token].site, SafeRead(device, unread))]
    <3>1. PICK rows : call' = [call EXCEPT ![c].op = "probed", ![c].reachable = TRUE, ![c].rows = rows]
      BY <2>2
    <3> DEFINE r == [call[c] EXCEPT !.op = "probed", !.reachable = TRUE, !.rows = rows]
    <3>2. call' = [call EXCEPT ![c] = r]
      BY <3>1 DEF NameInv, Shape
    <3>3. DOMAIN r = CallFields /\ r = [k \in CallFields |-> r[k]] /\ r.token = call[c].token
      BY <2>1, <1>4 DEF CallFields
    <3> HIDE DEF r
    <3> QED
      BY <1>3, <2>1, <3>2, <3>3
  <2>3. CASE call' = [call EXCEPT ![c].op = "probed"]
    <3> DEFINE r == [call[c] EXCEPT !.op = "probed"]
    <3>1. call' = [call EXCEPT ![c] = r]
      BY <2>3
    <3>2. DOMAIN r = CallFields /\ r = [k \in CallFields |-> r[k]] /\ r.token = call[c].token
      BY <2>1, <1>4 DEF CallFields
    <3> HIDE DEF r
    <3> QED
      BY <1>3, <2>1, <3>1, <3>2
  <2> QED
    BY <1>5, <2>2, <2>3 DEF ProbeSite
<1>6. ASSUME NEW c \in Calls, NEW s \in Sessions, LoadJoined(c, s)
      PROVE  NameInv' /\ Spending
  <2> DEFINE r == [call[c] EXCEPT !.op = "joining", !.via = s]
  <2>1. /\ Pending(c) /\ UNCHANGED <<role, token>>
        /\ call' = [call EXCEPT ![c].op = "joining", ![c].via = s]
    BY <1>6 DEF LoadJoined, Joining, LoadFabric, Pending
  <2>2. call' = [call EXCEPT ![c] = r]
    BY <2>1 DEF NameInv, Shape
  <2>3. DOMAIN r = CallFields /\ r = [k \in CallFields |-> r[k]] /\ r.token = call[c].token
    BY <2>1, <1>4 DEF CallFields
  <2> HIDE DEF r
  <2> QED
    BY <1>3, <2>1, <2>2, <2>3
<1>7. ASSUME NEW c \in Calls, ConfirmAlone(c) \/ ConfirmJoined(c) \/ ConfirmUnexpanded(c)
      PROVE  NameInv' /\ Spending
  <2>1. Pending(c) /\ Onboarded(c)
    BY <1>7 DEF ConfirmAlone, ConfirmJoined, ConfirmUnexpanded, Pending
  <2> QED
    BY <2>1, OnboardingKeeps DEF Spending
<1>8. ASSUME NEW c \in Calls, ConfirmFails(c)
      PROVE  NameInv' /\ Spending
  <2>1. call' = [call EXCEPT ![c] = Hung] /\ UNCHANGED <<role, token>>
    BY <1>8 DEF ConfirmFails
  <2> QED
    BY <2>1, CallMoves DEF Spending
<1>9. ASSUME NEW s \in Sessions, Expand(s), UNCHANGED <<token, call>>
      PROVE  NameInv' /\ Spending
  <2>1. UNCHANGED <<role, token, call>>
    BY <1>9 DEF Expand
  <2> QED
    BY <2>1 DEF NameInv, Shape, NameHeld, Pending, SiteFor, Spending
<1> QED
  BY <1>1, <1>2, <1>5, <1>6, <1>7, <1>8, <1>9 DEF Confirming

\* Tokens of a step that mints or changes one keep their site and count.
LEMMA AdministeringKeeps ==
    ASSUME NameInv, Administering
    PROVE  NameInv' /\ Spending
<1> DEFINE TokensKept == /\ token' \in [DOMAIN token' -> TokenShape] /\ DOMAIN token \subseteq DOMAIN token'
                   /\ \A t \in DOMAIN token : token'[t].site = token[t].site
                                              /\ token'[t].spent = token[t].spent
<1>1. UNCHANGED <<role, call>>
  BY DEF Administering, MintEnrollmentToken, RevokeEnrollmentToken, Expire
<1>2. ASSUME NEW t \in Tokens, NEW x \in Sites, NEW f \in Fabrics \cup {None},
             MintEnrollmentToken(t, x, "spoke", f)
      PROVE  TokensKept
  <2> DEFINE row == [site |-> x, role |-> "spoke", fab |-> f,
                     revoked |-> FALSE, expired |-> FALSE, spent |-> 0]
  <2>1. row \in TokenShape
    BY DEF TokenShape, Roles
  <2>2. token' = Override(token, [u \in {t} |-> row]) /\ t \notin DOMAIN token
    BY <1>2 DEF MintEnrollmentToken
  <2> HIDE DEF row
  <2> QED
    BY <2>1, <2>2 DEF Override, NameInv, Shape
<1>3. ASSUME NEW t \in DOMAIN token,
             \/ token' = [token EXCEPT ![t].revoked = TRUE]
             \/ token' = [token EXCEPT ![t].expired = TRUE]
      PROVE  TokensKept
  <2>1. token[t] \in TokenShape
    BY DEF NameInv, Shape
  <2>2. PICK row \in TokenShape : /\ token' = [token EXCEPT ![t] = row]
                                  /\ row.site = token[t].site /\ row.spent = token[t].spent
    <3>1. CASE token' = [token EXCEPT ![t].revoked = TRUE]
      <4> DEFINE row == [token[t] EXCEPT !.revoked = TRUE]
      <4>1. token' = [token EXCEPT ![t] = row]
        BY <3>1
      <4>2. row \in TokenShape /\ row.site = token[t].site /\ row.spent = token[t].spent
        BY <2>1 DEF TokenShape
      <4> HIDE DEF row
      <4> QED
        BY <4>1, <4>2
    <3>2. CASE token' = [token EXCEPT ![t].expired = TRUE]
      <4> DEFINE row == [token[t] EXCEPT !.expired = TRUE]
      <4>1. token' = [token EXCEPT ![t] = row]
        BY <3>2
      <4>2. row \in TokenShape /\ row.site = token[t].site /\ row.spent = token[t].spent
        BY <2>1 DEF TokenShape
      <4> HIDE DEF row
      <4> QED
        BY <4>1, <4>2
    <3> QED
      BY <1>3, <3>1, <3>2
  <2> QED
    BY <2>2 DEF NameInv, Shape
<1>4. TokensKept
  BY <1>2, <1>3 DEF Administering, RevokeEnrollmentToken, Expire
<1> HIDE DEF TokensKept
<1>5. Shape'
  BY <1>1, <1>4 DEF NameInv, Shape, TokensKept
<1>6. \A c \in Calls : Pending(c) => SiteFor(c)' = SiteFor(c)
  BY <1>1, <1>4 DEF NameInv, Shape, Pending, SiteFor, Hung, TokensKept
<1>7. NameHeld'
  BY <1>1, <1>6 DEF NameInv, NameHeld, Pending
<1> QED
  BY <1>4, <1>5, <1>7 DEF NameInv, Spending, TokensKept

\* Edits elsewhere bring in no site whose name a call holds, and leave a token
\* its site and count.
LEMMA ElsewhereKeeps ==
    ASSUME NameInv, Elsewhere
    PROVE  NameInv' /\ Spending
<1>1. /\ call' = call
      /\ \A x \in DOMAIN role' \ DOMAIN role : InFlight(x) = {}
      /\ token' = [t \in DOMAIN token |->
            IF token[t].fab \in DOMAIN fab' THEN token[t] ELSE [token[t] EXCEPT !.fab = None]]
  BY DEF Elsewhere
<1>2. /\ DOMAIN token' = DOMAIN token /\ token' \in [DOMAIN token' -> TokenShape]
      /\ \A t \in DOMAIN token : token'[t].site = token[t].site /\ token'[t].spent = token[t].spent
  BY <1>1 DEF NameInv, Shape, TokenShape
<1>3. \A c \in Calls : Pending(c) => SiteFor(c)' = SiteFor(c) /\ SiteFor(c) \notin DOMAIN role'
  <2> SUFFICES ASSUME NEW c \in Calls, Pending(c)
               PROVE  SiteFor(c)' = SiteFor(c) /\ SiteFor(c) \notin DOMAIN role'
    OBVIOUS
  <2>1. call[c].token \in DOMAIN token
    BY DEF NameInv, Shape, Pending, Hung
  <2>2. SiteFor(c)' = SiteFor(c)
    BY <1>1, <1>2, <2>1 DEF SiteFor
  <2>3. c \in InFlight(SiteFor(c))
    BY DEF InFlight, Pending, SiteFor
  <2>4. SiteFor(c) \notin DOMAIN role
    BY DEF NameInv, NameHeld
  <2> QED
    BY <1>1, <2>2, <2>3, <2>4
<1>4. Shape' /\ NameHeld'
  BY <1>1, <1>2, <1>3 DEF NameInv, NameHeld, Shape, Pending
<1> QED
  BY <1>2, <1>4 DEF NameInv, Spending

\* A token onboards one router, for any number of calls that present it at once
\* (_load_valid_token and the unique name of a site).
THEOREM TokenSpentOnce == EnrollmentSpec => SpentOnce
<1>1. ASSUME NameInv, [Confirming \/ Administering \/ Elsewhere]_allVars
      PROVE  NameInv' /\ Spending
  <2>1. CASE UNCHANGED allVars
    BY <1>1, <2>1 DEF allVars, vars, NameInv, Shape, NameHeld, Pending, SiteFor, Spending
  <2> QED
    BY <1>1, <2>1, ConfirmingKeeps, AdministeringKeeps, ElsewhereKeeps
<1>2. NameInv /\ [Confirming \/ Administering \/ Elsewhere]_allVars => [Spending]_allVars
  BY <1>1
<1> QED
  BY InitHolds, <1>1, <1>2, PTL DEF EnrollmentSpec, SpentOnce, Spending
=============================================================================
