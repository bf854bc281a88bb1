---------------------------- MODULE AccountsProofs ----------------------------
(***************************************************************************)
(* Proofs about Accounts, for any accounts, requests, bodies and clock.    *)
(* Both properties compare a session with the latest revocation; they      *)
(* follow once every committed row is known to name exactly that           *)
(* revocation, whatever the requests under way have in hand.               *)
(***************************************************************************)
EXTENDS Accounts, TLAPS

Ticks == 0..MaxTime
Row == [role : Roles, active : BOOLEAN, after : Ticks \cup {None}]
Moments == Ticks \cup {None}

\* What a request may have flushed into a row: part of the columns, and a moment
\* only of a revocation.
IsWrite(columns) ==
    /\ DOMAIN columns \subseteq Columns /\ columns = [c \in DOMAIN columns |-> columns[c]]
    /\ "role" \in DOMAIN columns => columns.role \in Roles
    /\ "active" \in DOMAIN columns => columns.active \in BOOLEAN
    /\ "after" \in DOMAIN columns => columns.after \in Ticks

\* What a request has in hand, the accounts being these.
InHand(v, accounts) ==
    \/ v = Idle
    \/ v.op = "known" /\ v.by \in accounts
    \/ v.op = "admitted" /\ v.by \in accounts /\ v.row \in Row
    \/ v.op = "changing" /\ v.target \in accounts /\ v.row \in Row
    \/ v.op = "flushed" /\ v.target \in accounts /\ IsWrite(v.columns)

\* A committed row names the latest revocation of the account's sessions.
RowsInv ==
    /\ now \in Ticks /\ DOMAIN user \subseteq Users /\ user \in [DOMAIN user -> Row]
    /\ jwts \subseteq [user : DOMAIN user, issued : Ticks]
    /\ revoked \in [Users -> Moments]
    /\ \A u \in DOMAIN user : user[u].after = revoked[u]
    /\ \A u \in Users \ DOMAIN user : revoked[u] = None
    /\ DOMAIN request = Requests /\ \A r \in Requests : InHand(request[r], DOMAIN user)
    /\ \A t \in DOMAIN token : token[t].owner \in DOMAIN user


LEMMA HandsStay ==
    ASSUME NEW v, NEW accounts, NEW more, accounts \subseteq more, InHand(v, accounts)
    PROVE  InHand(v, more)
BY DEF InHand

LEMMA RowsInit == ASSUME Init PROVE RowsInv
<1>1. now \in Ticks
  BY AccountsAssumption DEF Init, Ticks
<1>2. DOMAIN user = DOMAIN AtStart /\ \A u \in DOMAIN AtStart : user[u] = NewAccount(AtStart[u])
  BY DEF Init
<1>3. \A u \in DOMAIN AtStart : NewAccount(AtStart[u]) \in Row /\ NewAccount(AtStart[u]).after = None
  BY AccountsAssumption DEF NewAccount, Row
<1>4. DOMAIN user \subseteq Users /\ user \in [DOMAIN user -> Row]
  BY <1>2, <1>3, AccountsAssumption DEF Init
<1>5. revoked \in [Users -> Moments] /\ \A u \in Users : revoked[u] = None
  BY DEF Init, Moments
<1>6. \A u \in DOMAIN user : user[u].after = revoked[u]
  BY <1>2, <1>3, <1>4, <1>5
<1>7. DOMAIN request = Requests /\ \A r \in Requests : InHand(request[r], DOMAIN user)
  BY DEF Init, InHand
<1> QED
  BY <1>1, <1>4, <1>5, <1>6, <1>7 DEF RowsInv, Init

\* A step of one request that leaves the accounts alone.
LEMMA OnlyInHand ==
    ASSUME RowsInv, NEW r \in Requests, NEW v, InHand(v, DOMAIN user),
           request' = [request EXCEPT ![r] = v], UNCHANGED <<now, user, revoked>>,
           jwts' \subseteq [user : DOMAIN user, issued : Ticks],
           \A t \in DOMAIN token' : token'[t].owner \in DOMAIN user
    PROVE  RowsInv'
BY DEF RowsInv

LEMMA Authenticating ==
    ASSUME RowsInv, NEW r \in Requests,
           \/ \E j \in jwts : AuthenticateSession(r, j)
           \/ \E t \in Tokens : AuthenticateToken(r, t)
    PROVE  RowsInv'
<1>1. \E u \in DOMAIN user : \E role, byToken :
        request' = [request EXCEPT ![r] = Admitted(u, role, byToken)]
  <2>1. ASSUME NEW j \in jwts, AuthenticateSession(r, j)
        PROVE  \E u \in DOMAIN user : \E role, byToken :
                 request' = [request EXCEPT ![r] = Admitted(u, role, byToken)]
    <3>1. j.user \in DOMAIN user
      BY DEF RowsInv
    <3> QED
      BY <2>1, <3>1 DEF AuthenticateSession
  <2>2. ASSUME NEW t \in Tokens, AuthenticateToken(r, t)
        PROVE  \E u \in DOMAIN user : \E role, byToken :
                 request' = [request EXCEPT ![r] = Admitted(u, role, byToken)]
    <3>1. token[t].owner \in DOMAIN user
      BY <2>2 DEF RowsInv, AuthenticateToken
    <3> QED
      BY <2>2, <3>1 DEF AuthenticateToken
  <2> QED
    BY <2>1, <2>2
<1> PICK u \in DOMAIN user : \E role, byToken : request' = [request EXCEPT ![r] = Admitted(u, role, byToken)]
  BY <1>1
<1>5. PICK role, byToken : request' = [request EXCEPT ![r] = Admitted(u, role, byToken)]
  OBVIOUS
<1>2. InHand(Admitted(u, role, byToken), DOMAIN user)
  BY DEF Admitted, InHand, RowsInv
<1>3. UNCHANGED <<now, user, jwts, token, revoked>>
  BY DEF AuthenticateSession, AuthenticateToken, tables
<1> QED
  BY <1>5, <1>2, <1>3, OnlyInHand DEF RowsInv

LEMMA SigningIn ==
    ASSUME RowsInv, NEW r \in Requests,
           CreateAccessToken(r) \/ \E u \in Users : CheckPassword(r, u)
    PROVE  RowsInv'
<1>1. CASE \E u \in Users : CheckPassword(r, u)
  <2>1. PICK u \in DOMAIN user : request' = [request EXCEPT ![r] = [op |-> "known", by |-> u]]
    BY <1>1 DEF CheckPassword
  <2>2. InHand([op |-> "known", by |-> u], DOMAIN user)
    BY DEF InHand
  <2> QED
    BY <1>1, <2>1, <2>2, OnlyInHand DEF CheckPassword, tables, RowsInv
<1>2. CASE CreateAccessToken(r)
  <2>1. request[r].by \in DOMAIN user
    BY <1>2 DEF CreateAccessToken, RowsInv, InHand, Idle
  <2>2. jwts' \subseteq [user : DOMAIN user, issued : Ticks]
    BY <1>2, <2>1 DEF CreateAccessToken, RowsInv
  <2> QED
    BY <1>2, <2>2, OnlyInHand DEF CreateAccessToken, Ended, InHand, RowsInv
<1> QED
  BY <1>1, <1>2

\* What a change of an account flushes: its role, its state, a moment only if it
\* revokes, and then the present one.
LEMMA ChangesAreWrites ==
    ASSUME RowsInv, NEW row \in Row, NEW change \in Changes
    PROVE  IsWrite(Changed(row, Assigned(row, change)))
<1> DEFINE new == Assigned(row, change)
           columns == Changed(row, new)
<1>1. /\ change.role \in Roles \cup {None} /\ change.active \in BOOLEAN \cup {None}
      /\ change.revoke \in BOOLEAN /\ now \in Ticks
  BY AccountsAssumption DEF RowsInv
<1>2. /\ new.role \in Roles /\ new.active \in BOOLEAN
      /\ new.after \in Ticks \/ new.after = row.after
  BY <1>1 DEF Assigned, Row
<1> HIDE DEF new
<1>3. /\ DOMAIN columns = {d \in Columns : new[d] # row[d]}
      /\ \A d \in DOMAIN columns : columns[d] = new[d]
      /\ columns = [c \in DOMAIN columns |-> columns[c]]
  BY DEF Changed
<1>4. "after" \in DOMAIN columns => new.after # row.after
  BY <1>3
<1>5. IsWrite(columns)
  <2> HIDE DEF columns
  <2>1. DOMAIN columns \subseteq Columns
    BY <1>3
  <2>2. "active" \in DOMAIN columns => columns["active"] \in BOOLEAN
    BY <1>2, <1>3
  <2>3. "role" \in DOMAIN columns => columns["role"] \in Roles
    BY <1>2, <1>3
  <2>4. "after" \in DOMAIN columns => columns["after"] \in Ticks
    BY <1>2, <1>3, <1>4
  <2> QED
    BY <1>3, <2>1, <2>2, <2>3, <2>4 DEF IsWrite
<1> QED
  BY <1>5 DEF new

LEMMA ChangingAccounts ==
    ASSUME RowsInv, NEW r \in Requests,
           \/ LogoutEverywhere(r)
           \/ \E u \in Users : GetOwned(r, u)
           \/ \E change \in Changes : UpdateUser(r, change) \/ Refuse(r, change)
    PROVE  RowsInv'
<1>0. request[r].op = "admitted" => request[r].by \in DOMAIN user /\ request[r].row \in Row
  BY DEF RowsInv, InHand, Idle
<1>1. CASE LogoutEverywhere(r)
  <2> DEFINE moment == [c \in {"after"} |-> now]
  <2>1. IsWrite(moment)
    BY DEF IsWrite, Columns, RowsInv
  <2>2. InHand(Flushing(request[r].by, moment), DOMAIN user)
    BY <1>0, <1>1, <2>1 DEF LogoutEverywhere, Flushing, InHand
  <2> QED
    BY <1>1, <2>2, OnlyInHand DEF LogoutEverywhere, tables, RowsInv
<1>2. ASSUME NEW u \in Users, GetOwned(r, u)
      PROVE  RowsInv'
  <2> DEFINE v == [op |-> "changing", by |-> request[r].by, target |-> u, row |-> Loaded(r, u)]
  <2>1. u \in DOMAIN user /\ Loaded(r, u) \in Row
    BY <1>0, <1>2 DEF GetOwned, Admin, Loaded, RowsInv
  <2>2. InHand(v, DOMAIN user)
    BY <2>1 DEF InHand
  <2>3. request' = [request EXCEPT ![r] = v] /\ UNCHANGED <<now, user, jwts, token, revoked>>
    BY <1>2 DEF GetOwned, tables
  <2> QED
    BY <2>2, <2>3, OnlyInHand DEF RowsInv
<1>3. ASSUME NEW change \in Changes, UpdateUser(r, change)
      PROVE  RowsInv'
  <2> DEFINE row == request[r].row
             v == Flushing(request[r].target, Changed(row, Assigned(row, change)))
  <2>1. request[r].target \in DOMAIN user /\ row \in Row
    BY <1>3 DEF UpdateUser, Changing, RowsInv, InHand, Idle
  <2>2. InHand(v, DOMAIN user)
    BY <2>1, ChangesAreWrites DEF Flushing, InHand
  <2> HIDE DEF v
  <2>3. request' = [request EXCEPT ![r] = v] /\ UNCHANGED <<now, user, jwts, token, revoked>>
    BY <1>3 DEF UpdateUser, tables, v
  <2> QED
    BY <2>2, <2>3, OnlyInHand DEF RowsInv
<1>4. ASSUME NEW change \in Changes, Refuse(r, change)
      PROVE  RowsInv'
  BY <1>4, OnlyInHand DEF Refuse, Ended, InHand, tables, RowsInv
<1> QED
  BY <1>1, <1>2, <1>3, <1>4

LEMMA Creating ==
    ASSUME RowsInv, NEW r \in Requests, NEW u \in Users, NEW role \in Roles, CreateUser(r, u, role)
    PROVE  RowsInv'
<1>1. /\ DOMAIN user' = DOMAIN user \cup {u} /\ user'[u] = NewAccount(role) /\ u \notin DOMAIN user
      /\ \A v \in DOMAIN user : user'[v] = user[v]
      /\ user' = [v \in DOMAIN user' |-> user'[v]]
  BY DEF CreateUser, Override
<1>2. NewAccount(role) \in Row /\ NewAccount(role).after = None
  BY DEF NewAccount, Row
<1>3. /\ request' = [request EXCEPT ![r] = Idle] /\ UNCHANGED <<now, jwts, token, revoked>>
  BY DEF CreateUser, Ended
<1>4. DOMAIN request' = Requests /\ \A q \in Requests : InHand(request'[q], DOMAIN user')
  <2>1. InHand(Idle, DOMAIN user')
    BY DEF InHand
  <2> QED
    BY <1>1, <1>3, <2>1, HandsStay DEF RowsInv
<1> QED
  BY <1>1, <1>2, <1>3, <1>4 DEF RowsInv

\* The row and the history take the same moment, or neither takes one.
LEMMA Committing ==
    ASSUME RowsInv, NEW r \in Requests, Commit(r)
    PROVE  RowsInv'
<1> DEFINE target == request[r].target
           columns == request[r].columns
<1>1. target \in DOMAIN user /\ IsWrite(columns) /\ user[target] \in Row /\ target \in Users
  BY DEF Commit, RowsInv, InHand, Idle
<1>2. user' = [user EXCEPT ![target] = Override(user[target], columns)]
  BY DEF Commit
<1>3. revoked' = IF "after" \in DOMAIN columns THEN [revoked EXCEPT ![target] = columns.after] ELSE revoked
  BY <1>1, AccountsAssumption DEF Commit, IsWrite, Ticks
<1>4. request' = [request EXCEPT ![r] = Idle] /\ UNCHANGED <<now, jwts, token>>
  BY DEF Commit, Ended
<1> HIDE DEF target, columns
<1> DEFINE row == Override(user[target], columns)
<1>5. /\ row \in Row
      /\ row.after = IF "after" \in DOMAIN columns THEN columns.after ELSE user[target].after
  <2>1. DOMAIN user[target] = Columns
    BY <1>1 DEF Row, Columns
  <2>2. row = [x \in Columns |-> IF x \in DOMAIN columns THEN columns[x] ELSE user[target][x]]
    BY <1>1, <2>1 DEF Override, IsWrite
  <2>3. row = [role |-> row.role, active |-> row.active, after |-> row.after]
    BY <2>2 DEF Columns
  <2>4. /\ row.role = IF "role" \in DOMAIN columns THEN columns.role ELSE user[target].role
        /\ row.active = IF "active" \in DOMAIN columns THEN columns.active ELSE user[target].active
        /\ row.after = IF "after" \in DOMAIN columns THEN columns.after ELSE user[target].after
    BY <2>2 DEF Columns
  <2> HIDE DEF row
  <2> QED
    BY <1>1, <2>3, <2>4 DEF Row, IsWrite
<1> HIDE DEF row
<1>6. /\ DOMAIN user' = DOMAIN user /\ user' \in [DOMAIN user -> Row] /\ user'[target] = row
      /\ \A u \in DOMAIN user \ {target} : user'[u] = user[u]
  BY <1>1, <1>2, <1>5 DEF RowsInv, row
<1>7. revoked' \in [Users -> Moments] /\ \A u \in Users \ {target} : revoked'[u] = revoked[u]
  BY <1>1, <1>3 DEF RowsInv, Moments, IsWrite
<1>8. revoked'[target] = row.after
  BY <1>1, <1>3, <1>5 DEF RowsInv
<1>9. DOMAIN request' = Requests /\ \A q \in Requests : InHand(request'[q], DOMAIN user')
  BY <1>4, <1>6 DEF RowsInv, InHand
<1> QED
  BY <1>1, <1>4, <1>6, <1>7, <1>8, <1>9 DEF RowsInv

LEMMA HandlingTokens ==
    ASSUME RowsInv, NEW r \in Requests, NEW t \in Tokens,
           \/ RevokeToken(r, t)
           \/ \E role \in Roles, life \in Lives : CreateToken(r, t, role, life)
    PROVE  RowsInv'
<1>1. \A s \in DOMAIN token' : token'[s].owner \in DOMAIN user
  <2>1. CASE RevokeToken(r, t)
    BY <2>1 DEF RevokeToken, RowsInv
  <2>2. ASSUME NEW role \in Roles, NEW life \in Lives, CreateToken(r, t, role, life)
        PROVE  \A s \in DOMAIN token' : token'[s].owner \in DOMAIN user
    <3>1. request[r].by \in DOMAIN user
      BY <2>2 DEF CreateToken, Admin, RowsInv, InHand, Idle
    <3>2. PICK expires : token' = Override(token, [s \in {t} |-> [owner |-> request[r].by, role |-> role,
                                     revoked |-> FALSE, expires |-> expires]])
      BY <2>2 DEF CreateToken
    <3> QED
      BY <3>1, <3>2 DEF Override, RowsInv
  <2> QED
    BY <2>1, <2>2
<1>2. request' = [request EXCEPT ![r] = Idle] /\ UNCHANGED <<now, user, jwts, revoked>>
  BY DEF RevokeToken, CreateToken, Ended
<1> QED
  BY <1>1, <1>2, OnlyInHand DEF RowsInv, InHand

LEMMA RowsStep == ASSUME RowsInv, [Next]_vars PROVE RowsInv'
<1>1. ASSUME NEW r \in Requests, Done(r) PROVE RowsInv'
  BY <1>1, OnlyInHand DEF Done, Ended, tables, InHand, RowsInv
<1>2. CASE Tick
  BY <1>2, AccountsAssumption DEF Tick, tables, RowsInv, Ticks
<1>3. CASE UNCHANGED vars
  BY <1>3 DEF vars, RowsInv
<1>4. ASSUME NEW r \in Requests, Requesting(r) PROVE RowsInv'
  BY <1>1, <1>4, Authenticating, SigningIn, ChangingAccounts, Creating, Committing, HandlingTokens
     DEF Requesting
<1> QED
  BY <1>2, <1>3, <1>4 DEF Next

\* Whatever requests interleave, every committed row names the latest revocation of
\* the account's sessions, and no request has a moment in hand but that of its own.
THEOREM RowsKeep == Spec => []RowsInv
<1>1. Init => RowsInv
  BY RowsInit
<1>2. RowsInv /\ [Next]_vars => RowsInv'
  BY RowsStep
<1> QED
  BY <1>1, <1>2, PTL DEF Spec

\* Cutting to seconds keeps the order of two moments.
LEMMA SecondsKeepOrder ==
    ASSUME NEW a \in Nat, NEW b \in Nat, a >= b
    PROVE  ~(SecondOf(a) < SecondOf(b))
BY AccountsAssumption DEF SecondOf

\* No session signed in after the latest revocation is taken for revoked.
THEOREM SignedInStays == Spec => []SignedInStaysIn
<1>1. RowsInv => SignedInStaysIn
  <2> SUFFICES ASSUME RowsInv, NEW j \in jwts, revoked[j.user] # None, j.issued >= revoked[j.user]
               PROVE  ~IsRevoked(j, user[j.user])
    BY DEF SignedInStaysIn
  <2>1. j.user \in DOMAIN user /\ j.user \in Users /\ j.issued \in Nat /\ revoked[j.user] \in Nat
    BY DEF RowsInv, Moments, Ticks
  <2> QED
    BY <2>1, SecondsKeepOrder DEF RowsInv, IsRevoked
<1> QED
  BY <1>1, RowsKeep, PTL

\* No revocation is lost to a request that loaded the account before it.
THEOREM RevokedStays == Spec => []RevokedStaysOut
<1>1. RowsInv => RevokedStaysOut
  BY DEF RowsInv, RevokedStaysOut, IsRevoked
<1> QED
  BY <1>1, RowsKeep, PTL
=============================================================================
