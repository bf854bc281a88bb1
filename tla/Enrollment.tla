----------------------------- MODULE Enrollment -----------------------------
(***************************************************************************)
(* One-touch enrollment on top of the fabrics (services/enrollment.py,     *)
(* api/v1/enrollment.py).  A router's confirm call is one transaction that *)
(* lasts as long as the probe of the router: it checks the token, inserts  *)
(* the site, spends the token, probes, and joins and expands the fabric    *)
(* the token names.  Expanding, it takes up one of Fabric's sessions.      *)
(***************************************************************************)
EXTENDS Fabric, Uplinks

CONSTANTS
    Tokens,         \* enrollment tokens
    Calls,          \* confirm calls at once
    Devices,        \* what the routers that enroll have in the menus a probe reads
    Unread          \* the sets of menus a probe may fail to read

VARIABLES
    token,      \* the tokens minted, with what became of them
    call        \* what each confirm call has in hand

allVars == <<vars, token, call>>

\* The n-th uplink of its site.
Nth(w) == Cardinality({u \in Wans : SiteOf[u] = SiteOf[w] /\ u <= w})

ASSUME EnrollmentAssumption ==
    /\ Unread \subseteq SUBSET Menus
    /\ \A d \in Devices, u \in Unread, x \in Sites :
         DOMAIN SuggestWans(SafeRead(d, u), None) \subseteq {Nth(w) : w \in {v \in Wans : SiteOf[v] = x}}

Hung == [op |-> "none"]
InFlight(x) == {c \in Calls : call[c].op \in {"inserted", "probed", "joining"}
                              /\ token[call[c].token].site = x}

-----------------------------------------------------------------------------
(* The administrator's side. *)

MintEnrollmentToken(t, x, r, f) ==
    /\ Edit /\ t \notin DOMAIN token /\ f \in DOMAIN fab \cup {None}
    /\ token' = Override(token, [u \in {t} |-> [site |-> x, role |-> r, fab |-> f,
                                  revoked |-> FALSE, expired |-> FALSE, spent |-> 0]])
    /\ UNCHANGED <<role, wan, fab, mem, links, session, history, call>>

RevokeEnrollmentToken(t) ==
    /\ Edit /\ t \in DOMAIN token /\ ~token[t].revoked
    /\ token' = [token EXCEPT ![t].revoked = TRUE]
    /\ UNCHANGED <<role, wan, fab, mem, links, session, history, call>>

Expire(t) ==
    /\ Edit /\ t \in DOMAIN token /\ ~token[t].expired
    /\ token' = [token EXCEPT ![t].expired = TRUE]
    /\ UNCHANGED <<role, wan, fab, mem, links, session, history, call>>

-----------------------------------------------------------------------------
(* The router's side: one confirm call. *)

Valid(t) == ~token[t].revoked /\ token[t].spent = 0 /\ ~token[t].expired

LoadValidToken(c, t) ==
    /\ call[c] = Hung /\ t \in DOMAIN token /\ Valid(t)
    /\ call' = [call EXCEPT ![c] = [op |-> "valid", token |-> t, rows |-> << >>, reachable |-> FALSE, via |-> None]]
    /\ UNCHANGED <<vars, token>>

\* Mutant of InsertSite: a site of that name is taken for the router's own.
InsertSiteAgain(c) ==
    /\ call[c].op = "valid" /\ InFlight(token[call[c].token].site) = {}
    /\ call' = [call EXCEPT ![c].op = "inserted"]
    /\ UNCHANGED <<vars, token>>

\* The name is unique: an insert waits for one that has not committed and is
\* refused by one that has.
InsertSite(c) ==
    LET x == token[call[c].token].site IN
    /\ call[c].op = "valid" /\ InFlight(x) = {}
    /\ call' = [call EXCEPT ![c] = IF x \in DOMAIN role THEN Hung ELSE [@ EXCEPT !.op = "inserted"]]
    /\ UNCHANGED <<vars, token>>

\* A reachable router's suggested uplinks are taken as they are, duplicates of
\* another router's public address included.
Suggested(x, d) ==
    [w \in {u \in Wans : SiteOf[u] = x /\ Nth(u) \in DOMAIN SuggestWans(d, None)}
        |-> SuggestWans(d, None)[Nth(w)]]
ProbeSite(c) ==
    /\ call[c].op = "inserted"
    /\ \/ \E device \in Devices, unread \in Unread :
            call' = [call EXCEPT ![c].op = "probed", ![c].reachable = TRUE,
                 ![c].rows = Suggested(token[call[c].token].site, SafeRead(device, unread))]
       \/ call' = [call EXCEPT ![c].op = "probed"]
    /\ UNCHANGED <<vars, token>>

Joining(c) == /\ call[c].op = "probed" /\ call[c].reachable
              /\ token[call[c].token].fab \in DOMAIN fab

\* The fabric is loaded before the newcomer's membership is added, and
\* expansion works on the members loaded here.
LoadJoined(c, s) ==
    /\ Joining(c) /\ LoadFabric(s, token[call[c].token].fab)
    /\ call' = [call EXCEPT ![c].op = "joining", ![c].via = s]
    /\ UNCHANGED token

Onboarded(c) ==
    LET t == call[c].token IN
    /\ role' = Override(role, [y \in {token[t].site} |-> token[t].role])
    /\ wan' = Override(call[c].rows, wan)
    /\ token' = [token EXCEPT ![t].spent = @ + 1]
    /\ call' = [call EXCEPT ![c] = Hung]
    /\ UNCHANGED <<fab, edits>>

\* No fabric to join, or the router did not answer.
ConfirmAlone(c) ==
    /\ call[c].op = "probed" /\ ~Joining(c)
    /\ Onboarded(c) /\ UNCHANGED <<mem, links, session, history>>

Joined(c) == session[call[c].via]
WithNewcomer(c) ==
    [mem EXCEPT ![Joined(c).fab] = Override(NewMembers({token[call[c].token].site}, None), @)]

ConfirmJoined(c) ==
    /\ call[c].op = "joining" /\ Joined(c).op = "expanded" /\ Flushes(Joined(c))
    /\ Flushed(Joined(c), WithNewcomer(c)) /\ Finish(call[c].via, Joined(c).removed)
    /\ Recorded(Joined(c)) /\ Onboarded(c)

\* An exhausted pool is swallowed: the membership stands, with the loopbacks
\* and ports handed out before the pool ran dry.
Fitting(want, free) ==
    {D \in SUBSET want : Cardinality(D) <= Cardinality(free)
                         /\ (D = want \/ Cardinality(D) = Cardinality(free))}
ConfirmUnexpanded(c) ==
    LET v == Joined(c) IN
    /\ call[c].op = "joining" /\ v.op = "expanded" /\ Flushes(v) /\ Exhausted(v)
    /\ \E D \in Fitting(v.lacking, FreeLoopbacks(v)) :
       \E E \in IF D = v.lacking THEN Fitting(v.unported, FreePorts(v)) ELSE {{}} :
       \E lo \in Allocations(D, FreeLoopbacks(v)), port \in Allocations(E, FreePorts(v)) :
         /\ mem' = WithLoopbacks(WithNewcomer(c), v.fab, lo)
         /\ links' = {WithPort(E, port, l) : l \in links}
    /\ Finish(call[c].via, {}) /\ Recorded(v) /\ Onboarded(c)

\* A flush that fails, the fabric being gone among others, undoes the site and
\* the spending of the token too.
ConfirmFails(c) ==
    /\ call[c].op = "joining" /\ Joined(c).op = "expanded" /\ ~Flushes(Joined(c))
    /\ session' = [session EXCEPT ![call[c].via] = Idle] /\ call' = [call EXCEPT ![c] = Hung]
    /\ UNCHANGED <<role, wan, fab, mem, links, history, edits, token>>

Using(s) == \E c \in Calls : call[c].op = "joining" /\ call[c].via = s

Confirming ==
    \/ \E c \in Calls :
         \/ \E t \in Tokens : LoadValidToken(c, t)
         \/ InsertSite(c) \/ ConfirmAlone(c) \/ ConfirmJoined(c)
         \/ ConfirmUnexpanded(c) \/ ConfirmFails(c)
         \/ ProbeSite(c)
         \/ \E s \in Sessions : LoadJoined(c, s)
    \/ \E s \in Sessions : Using(s) /\ Expand(s) /\ UNCHANGED <<token, call>>

Administering ==
    \E t \in Tokens :
      \/ \E x \in Sites, f \in Fabrics \cup {None} : MintEnrollmentToken(t, x, "spoke", f)
      \/ RevokeEnrollmentToken(t) \/ Expire(t)

\* An operator's insert of a name a call has inserted waits for that call; a
\* deleted fabric is taken out of the tokens that named it.
Elsewhere ==
    /\ Editing \/ \E s \in Sessions : ~Using(s) /\ DesigningIn(s)
    /\ \A x \in DOMAIN role' \ DOMAIN role : InFlight(x) = {}
    /\ token' = [t \in DOMAIN token |->
         IF token[t].fab \in DOMAIN fab' THEN token[t] ELSE [token[t] EXCEPT !.fab = None]]
    /\ UNCHANGED call

EnrollmentInit == Init /\ token = << >> /\ call = [c \in Calls |-> Hung]
EnrollmentSpec == EnrollmentInit /\ [][Confirming \/ Administering \/ Elsewhere]_allVars

-----------------------------------------------------------------------------
(* Properties. *)

\* A token onboards one router: as long as the site it created is there no
\* other confirm call spends it, though two calls may both have found it unused
\* and only the site's unique name stops the second (_load_valid_token).
SpentOnce ==
    [][\A t \in DOMAIN token : token[t].spent > 0 /\ token[t].site \in DOMAIN role
         => token'[t].spent = token[t].spent]_allVars

\* A router that enrolls into a fabric is linked into it: docs/plan-v2.md promises
\* a "fabric-joined site with tunnels up -- with no other human input".  The code
\* breaks it (README, section 5).
NewcomerIsLinked ==
    [][\A c \in Calls, f \in DOMAIN fab, x \in Sites :
         ConfirmJoined(c) /\ Joined(c).fab = f /\ token[call[c].token].site = x
           => (\A p \in Created(View(f)) : x \notin {p.a.site, p.b.site})']_allVars
=============================================================================
