------------------------------ MODULE Accounts ------------------------------
(***************************************************************************)
(* Accounts, the sessions signed in to them and the API tokens that act    *)
(* for them (deps.py, api/v1/auth.py, api/v1/tokens.py).                   *)
(*                                                                         *)
(* A request is one transaction at READ COMMITTED.  It reads the account   *)
(* it acts for when it is authenticated, and from then on has that row in  *)
(* hand; what it writes it commits at its end.  Time is counted in ticks;  *)
(* a JWT knows only whole seconds.                                         *)
(***************************************************************************)
EXTENDS Integers, FiniteSets

CONSTANTS
    Users,          \* accounts
    AtStart,        \* accounts that exist, with their roles
    Tokens,         \* API tokens
    Requests,       \* requests at once
    Changes,        \* the bodies administrators PATCH an account with
    Lives,          \* ticks an API token may live, or None
    Second,         \* ticks in a second
    Ttl,            \* seconds a session lives
    MaxTime,        \* bound on the clock
    MaxEdits,       \* bound on what is signed in, created, changed and revoked
    None

VARIABLES
    now,
    user,           \* account -> its committed row
    jwts,           \* sessions signed in
    token,          \* the API tokens minted
    request,        \* what each request has in hand
    revoked,        \* history: account -> the latest revocation of its sessions
    edits

vars == <<now, user, jwts, token, request, revoked, edits>>
tables == <<user, jwts, token>>

Rank == [viewer |-> 0, operator |-> 1, admin |-> 2]
Roles == DOMAIN Rank
Columns == {"role", "active", "after"}
NewAccount(r) == [role |-> r, active |-> TRUE, after |-> None]

ASSUME AccountsAssumption ==
    /\ Second \in Nat \ {0} /\ {Ttl, MaxTime, MaxEdits} \subseteq Nat /\ None \notin Nat
    /\ DOMAIN AtStart \subseteq Users /\ AtStart \in [DOMAIN AtStart -> Roles]
    /\ Changes \subseteq [role : Roles \cup {None}, active : BOOLEAN \cup {None}, revoke : BOOLEAN]
    /\ Lives \subseteq 1..MaxTime \cup {None}

Idle == [op |-> "idle"]
Edit == edits < MaxEdits /\ edits' = edits + 1
Override(g, h) == [x \in DOMAIN g \cup DOMAIN h |-> IF x \in DOMAIN h THEN h[x] ELSE g[x]]
Ended(r) == request' = [request EXCEPT ![r] = Idle]

-----------------------------------------------------------------------------
(* Credentials. *)

SecondOf(t) == t \div Second
Expired(j) == (SecondOf(j.issued) + Ttl) * Second <= now

\* Mutant of IsRevoked: the session's second against the revocation's moment.
IsRevokedExactly(j, row) == row.after # None /\ SecondOf(j.issued) * Second < row.after

\* Both are cut to the second.
IsRevoked(j, row) == row.after # None /\ SecondOf(j.issued) < SecondOf(row.after)

Valid(t) == ~t.revoked /\ (t.expires # None => t.expires > now)

\* The lesser of the token's role and its owner's.
Effective(t, row) == IF Rank[t.role] < Rank[row.role] THEN t.role ELSE row.role

Admitted(u, role, byToken) ==
    [op |-> "admitted", by |-> u, role |-> role, byToken |-> byToken, row |-> user[u]]

AuthenticateSession(r, j) ==
    /\ request[r] = Idle /\ j \in jwts
    /\ user[j.user].active /\ ~Expired(j) /\ ~IsRevoked(j, user[j.user])
    /\ request' = [request EXCEPT ![r] = Admitted(j.user, user[j.user].role, FALSE)]
    /\ UNCHANGED <<now, tables, revoked, edits>>

AuthenticateToken(r, t) ==
    LET u == token[t].owner IN
    /\ request[r] = Idle /\ t \in DOMAIN token /\ Valid(token[t]) /\ user[u].active
    /\ request' = [request EXCEPT ![r] = Admitted(u, Effective(token[t], user[u]), TRUE)]
    /\ UNCHANGED <<now, tables, revoked, edits>>

-----------------------------------------------------------------------------
(* Signing in. *)

CheckPassword(r, u) ==
    /\ Edit /\ request[r] = Idle /\ u \in DOMAIN user /\ user[u].active
    /\ request' = [request EXCEPT ![r] = [op |-> "known", by |-> u]]
    /\ UNCHANGED <<now, tables, revoked>>

\* The audit trail is written before the token is made.
CreateAccessToken(r) ==
    /\ request[r].op = "known"
    /\ jwts' = jwts \cup {[user |-> request[r].by, issued |-> now]}
    /\ Ended(r) /\ UNCHANGED <<now, user, token, revoked, edits>>

-----------------------------------------------------------------------------
(* Accounts. *)

Admin(r) == request[r].op = "admitted" /\ request[r].role = "admin"

\* The row is locked from the flush to the commit.  What is assigned, and the
\* moment a revocation names, belong to the same step as the flush.
Free(u) == \A q \in Requests : request[q].op = "flushed" => request[q].target # u
Flushing(u, columns) == [op |-> "flushed", target |-> u, columns |-> columns]

LogoutEverywhere(r) ==
    /\ Edit /\ request[r].op = "admitted" /\ Free(request[r].by)
    /\ request' = [request EXCEPT ![r] = Flushing(request[r].by, [c \in {"after"} |-> now])]
    /\ UNCHANGED <<now, tables, revoked>>

CreateUser(r, u, role) ==
    /\ Edit /\ Admin(r) /\ u \notin DOMAIN user
    /\ user' = Override(user, [v \in {u} |-> NewAccount(role)])
    /\ Ended(r) /\ UNCHANGED <<now, jwts, token, revoked>>

\* The row a request acts for is the one it was authenticated with; another is read
\* as it is now.
Loaded(r, u) == IF u = request[r].by THEN request[r].row ELSE user[u]
GetOwned(r, u) ==
    /\ Edit /\ Admin(r) /\ u \in DOMAIN user
    /\ request' = [request EXCEPT ![r] =
         [op |-> "changing", by |-> request[r].by, target |-> u, row |-> Loaded(r, u)]]
    /\ UNCHANGED <<now, tables, revoked>>

Assigned(row, change) ==
    [role |-> IF change.role # None THEN change.role ELSE row.role,
     active |-> IF change.active # None THEN change.active ELSE row.active,
     after |-> IF change.revoke THEN now ELSE row.after]

\* Mutant of Changed: every column is written.
ChangedAll(row, new) == new

\* What is written: the columns that differ from what was loaded.
Changed(row, new) == [c \in {d \in Columns : new[d] # row[d]} |-> new[c]]

OtherAdmins(u) == {v \in DOMAIN user \ {u} : user[v].role = "admin" /\ user[v].active}
\* The administrator's own role is compared after it has been assigned: the
\* account acted for and the account changed are one object.
LocksOut(v, change) ==
    /\ v.target = v.by
    /\ change.active = FALSE \/ change.role # Assigned(v.row, change).role
    /\ OtherAdmins(v.target) = {}
Changing(r) == request[r].op = "changing" /\ Free(request[r].target)
UpdateUser(r, change) ==
    LET v == request[r] IN
    /\ Changing(r) /\ ~LocksOut(v, change)
    /\ request' = [request EXCEPT ![r] = Flushing(v.target, Changed(v.row, Assigned(v.row, change)))]
    /\ UNCHANGED <<now, tables, revoked, edits>>

Refuse(r, change) ==
    /\ Changing(r) /\ LocksOut(request[r], change)
    /\ Ended(r) /\ UNCHANGED <<now, tables, revoked, edits>>

Commit(r) ==
    LET v == request[r] IN
    /\ v.op = "flushed"
    /\ user' = [user EXCEPT ![v.target] = Override(@, v.columns)]
    /\ revoked' = IF "after" \in DOMAIN v.columns /\ v.columns.after # None
                  THEN [revoked EXCEPT ![v.target] = v.columns.after] ELSE revoked
    /\ Ended(r) /\ UNCHANGED <<now, jwts, token, edits>>

-----------------------------------------------------------------------------
(* API tokens. *)

\* Minting stays something a person does.
CreateToken(r, t, role, life) ==
    /\ Edit /\ Admin(r) /\ ~request[r].byToken /\ t \notin DOMAIN token
    /\ token' = Override(token, [s \in {t} |->
         [owner |-> request[r].by, role |-> role, revoked |-> FALSE,
          expires |-> IF life = None \/ now + life > MaxTime THEN None ELSE now + life]])
    /\ Ended(r) /\ UNCHANGED <<now, user, jwts, revoked>>

RevokeToken(r, t) ==
    /\ Edit /\ Admin(r) /\ t \in DOMAIN token
    /\ token' = [token EXCEPT ![t].revoked = TRUE]
    /\ Ended(r) /\ UNCHANGED <<now, user, jwts, revoked>>

\* Any other request, or one that fails: nothing of this is changed.
Done(r) ==
    /\ request[r] # Idle /\ Ended(r)
    /\ UNCHANGED <<now, tables, revoked, edits>>

Tick == now < MaxTime /\ now' = now + 1 /\ UNCHANGED <<tables, request, revoked, edits>>

-----------------------------------------------------------------------------
Init ==
    /\ now = 0 /\ user = [u \in DOMAIN AtStart |-> NewAccount(AtStart[u])]
    /\ jwts = {} /\ token = << >> /\ request = [r \in Requests |-> Idle]
    /\ revoked = [u \in Users |-> None] /\ edits = 0

Requesting(r) ==
    \/ \E j \in jwts : AuthenticateSession(r, j)
    \/ \E t \in Tokens : \/ AuthenticateToken(r, t) \/ RevokeToken(r, t)
                         \/ \E role \in Roles, life \in Lives : CreateToken(r, t, role, life)
    \/ \E u \in Users : \/ CheckPassword(r, u) \/ \E role \in Roles : CreateUser(r, u, role)
                        \/ GetOwned(r, u)
    \/ \E change \in Changes : UpdateUser(r, change) \/ Refuse(r, change)
    \/ CreateAccessToken(r) \/ LogoutEverywhere(r) \/ Commit(r) \/ Done(r)

Next == Tick \/ \E r \in Requests : Requesting(r)

Spec == Init /\ [][Next]_vars

-----------------------------------------------------------------------------
(* Properties. *)

\* A session signed in after the latest revocation is not taken for revoked, in
\* the same second neither (deps.py: "rejecting a token that was, in fact, issued
\* after the revocation").
SignedInStaysIn ==
    \A j \in jwts : revoked[j.user] # None /\ j.issued >= revoked[j.user] => ~IsRevoked(j, user[j.user])

\* A revocation is not lost: a session of an earlier second stays revoked, whatever
\* requests that loaded the account before then write to it (models/user.py:
\* "nothing issued before this instant is valid any more").
RevokedStaysOut ==
    \A j \in jwts : revoked[j.user] # None /\ SecondOf(j.issued) < SecondOf(revoked[j.user])
                      => IsRevoked(j, user[j.user])

\* "Do not let the last active admin lock everyone out" (api/v1/auth.py).  The code
\* breaks this and the next two (README, section 5).
AnAdminIsLeft == \E u \in DOMAIN user : user[u].role = "admin" /\ user[u].active

\* "Signing out everywhere, forcing a stolen laptop's session to die now [...], and
\* disabling a user all set this to now()" (models/user.py).
DisablingRevokes ==
    [][\A u \in DOMAIN user : user[u].active /\ ~user'[u].active => user'[u].after # None]_vars

\* A change is refused to "the only active admin" only where it would leave none
\* (api/v1/auth.py).
RefusedForCause ==
    [][\A r \in Requests, change \in Changes :
         Refuse(r, change) => LET new == Assigned(request[r].row, change) IN
                              new.role # "admin" \/ ~new.active]_vars
=============================================================================
