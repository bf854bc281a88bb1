------------------------- MODULE LoginThrottleProofs -------------------------
(***************************************************************************)
(* Proofs about LoginThrottle, for any keys, requests, limits and times.   *)
(***************************************************************************)
EXTENDS LoginThrottle, FiniteSetTheorems, TLAPS

TypeOK ==
    /\ now \in Nat
    /\ bucket \in [Keys -> Bucket \cup {None}]
    /\ attempt \in [Attempts -> {Idle} \cup [key : Keys, since : Nat]]
    /\ mistakes \in [Keys -> Seq(Nat)]
    /\ lockouts \in [Keys -> SUBSET [from : Nat, until : Nat]]

\* The requests of a key that were let through and have not been counted.
Under(k) == {a \in Attempts : attempt[a] # Idle /\ attempt[a].key = k}

\* Nothing is later than now, and no request outlives its patience.
InTime(k) ==
    /\ \A n \in DOMAIN mistakes[k] : mistakes[k][n] <= now
    /\ \A s \in lockouts[k] : s.from <= now /\ s.until = s.from + Lockout
    /\ bucket[k] # None => bucket[k].first <= now
    /\ \A a \in Under(k) : attempt[a].since <= now /\ now <= attempt[a].since + Patience

\* What a bucket knows of the lockouts imposed: without a bucket they are over,
\* with one that is free they were over when its window began, and one that is
\* not has the latest of them.
OverOrKnown(k) ==
    \A s \in lockouts[k] :
        IF bucket[k] = None THEN s.until <= now
        ELSE IF bucket[k].until = None THEN s.until <= bucket[k].first
        ELSE s.until <= bucket[k].until

\* A request that was let through before a lockout ends before the lockout does;
\* what was over when it was let through, was over when the window began.
LetThrough(k) ==
    \A a \in Under(k), s \in lockouts[k] :
        /\ s.until <= attempt[a].since \/ attempt[a].since + Patience < s.until
        /\ s.until <= attempt[a].since /\ bucket[k] # None => s.until <= bucket[k].first

\* The failures of a key from some time on.
Since(k, t) == {n \in DOMAIN mistakes[k] : mistakes[k][n] >= t}

\* Every failure a bucket has counted was one, in its window.
CountIsReal(k) == bucket[k] # None => bucket[k].failures <= Cardinality(Since(k, bucket[k].first))

\* LockedOnlyForCause, of one key.
Caused(k) == \A s \in lockouts[k] : Cardinality(Counted(k, s.from)) >= MaxAttempts

KeyInv(k) == InTime(k) /\ OverOrKnown(k) /\ LetThrough(k) /\ CountIsReal(k) /\ Caused(k)
CauseInv == TypeOK /\ \A k \in Keys : KeyInv(k)

-----------------------------------------------------------------------------
LEMMA IdleType == Idle.key \notin Keys /\ Idle.key = None /\ Idle.since = 0
BY ThrottleAssumption DEF Idle

\* A bucket with other counts and times is a bucket with those.
LEMMA BucketRestarted ==
    ASSUME NEW b \in Bucket, NEW t \in Nat
    PROVE  LET r == [b EXCEPT !.failures = 0, !.first = t]
           IN  r \in Bucket /\ r.failures = 0 /\ r.until = b.until /\ r.first = t
BY DEF Bucket

LEMMA BucketCounted ==
    ASSUME NEW b \in Bucket, NEW u \in Nat \cup {None}
    PROVE  LET r == [b EXCEPT !.failures = b.failures + 1, !.until = u]
           IN  r \in Bucket /\ r.failures = b.failures + 1 /\ r.until = u /\ r.first = b.first
<1> DEFINE r == [b EXCEPT !.failures = b.failures + 1, !.until = u]
<1>1. r \in Bucket
  <2>1. \A f \in Nat : [b EXCEPT !.failures = f, !.until = u] \in Bucket
    BY DEF Bucket
  <2>2. b.failures + 1 \in Nat
    BY DEF Bucket
  <2> QED
    BY <2>1, <2>2
<1>2. r.failures = b.failures + 1 /\ r.until = u /\ r.first = b.first
  BY DEF Bucket
<1> QED
  BY <1>1, <1>2

LEMMA FreshType == ASSUME now \in Nat PROVE Fresh \in Bucket /\ Fresh.failures = 0 /\ Fresh.until = None /\ Fresh.first = now
BY DEF Fresh, Bucket

\* A bucket after a failure of request a was counted.
Counting(a) == Restarted(IF bucket[attempt[a].key] = None THEN Fresh ELSE bucket[attempt[a].key])

\* The bucket a failure is counted in: it is of now, or the one there was, whose
\* window has not passed.
LEMMA CountingBucket ==
    ASSUME TypeOK, NEW a \in Attempts, attempt[a] # Idle
    PROVE  LET k == attempt[a].key
               b == Counting(a)
           IN  /\ k \in Keys /\ b \in Bucket
               /\ b.until = (IF bucket[k] = None THEN None ELSE bucket[k].until)
               /\ \/ /\ b.first = now /\ b.failures = 0
                     /\ bucket[k] # None => now - bucket[k].first > Window
                  \/ bucket[k] # None /\ b = bucket[k] /\ now - b.first <= Window
<1> DEFINE k == attempt[a].key
           b0 == IF bucket[k] = None THEN Fresh ELSE bucket[k]
<1>1. k \in Keys /\ now \in Nat
  BY DEF TypeOK
<1>2. b0 \in Bucket /\ (bucket[k] = None => b0.until = None /\ b0.failures = 0 /\ b0.first = now)
  BY <1>1, FreshType DEF TypeOK
<1>3. bucket[k] # None => b0 = bucket[k]
  OBVIOUS
<1>4. Counting(a) = IF now - b0.first > Window THEN [b0 EXCEPT !.failures = 0, !.first = now] ELSE b0
  BY DEF Counting, Restarted
<1> HIDE DEF b0
<1>5. b0.until = (IF bucket[k] = None THEN None ELSE bucket[k].until)
  BY <1>2, <1>3
<1>6. CASE now - b0.first > Window
  <2>1. Counting(a) = [b0 EXCEPT !.failures = 0, !.first = now]
    BY <1>4, <1>6
  <2>2. Counting(a) \in Bucket /\ Counting(a).first = now /\ Counting(a).failures = 0 /\ Counting(a).until = b0.until
    <3>1. \A c \in Bucket : LET r == [c EXCEPT !.failures = 0, !.first = now]
                            IN  r \in Bucket /\ r.failures = 0 /\ r.until = c.until /\ r.first = now
      BY <1>1, BucketRestarted
    <3> QED
      BY <1>2, <2>1, <3>1
  <2> QED
    BY <1>1, <1>3, <1>5, <1>6, <2>2
<1>7. CASE ~(now - b0.first > Window)
  <2>1. Counting(a) = b0
    BY <1>4, <1>7
  <2>2. now - b0.first <= Window
    BY <1>1, <1>2, <1>7, ThrottleAssumption DEF Bucket
  <2> QED
    BY <1>1, <1>2, <1>3, <1>5, <2>1, <2>2
<1> QED
  BY <1>6, <1>7

\* What counting a failure does to the state.
LEMMA FailureEffect ==
    ASSUME TypeOK, NEW a \in Attempts, RecordFailure(a)
    PROVE  LET k == attempt[a].key
               b == Counting(a)
               locks == b.failures + 1 >= MaxAttempts
           IN  /\ attempt[a] # Idle /\ k \in Keys /\ b \in Bucket
               /\ bucket'[k] \in Bucket /\ bucket'[k] # None
               /\ bucket'[k].failures = b.failures + 1 /\ bucket'[k].first = b.first
               /\ bucket'[k].until = (IF locks THEN now + Lockout ELSE b.until)
               /\ lockouts'[k] = (IF locks THEN lockouts[k] \cup {Span(now)} ELSE lockouts[k])
               /\ mistakes'[k] = Append(mistakes[k], now)
               /\ \A l \in Keys \ {k} : /\ bucket'[l] = bucket[l] /\ lockouts'[l] = lockouts[l]
                                        /\ mistakes'[l] = mistakes[l]
               /\ attempt' = [attempt EXCEPT ![a] = Idle] /\ now' = now
               /\ TypeOK'
<1> DEFINE k == attempt[a].key
           b == Counting(a)
           locks == b.failures + 1 >= MaxAttempts
<1>1. attempt[a] # Idle
  BY DEF RecordFailure
<1>2. k \in Keys /\ b \in Bucket
  BY <1>1, CountingBucket
<1>3. /\ bucket' = [bucket EXCEPT ![k] = [b EXCEPT !.failures = @ + 1, !.until = IF locks THEN now + Lockout ELSE @]]
      /\ attempt' = [attempt EXCEPT ![a] = Idle] /\ now' = now
      /\ mistakes' = [mistakes EXCEPT ![k] = Append(@, now)]
      /\ lockouts' = IF locks THEN [lockouts EXCEPT ![k] = @ \cup {Span(now)}] ELSE lockouts
  BY DEF RecordFailure, Counting, Reaches
<1> HIDE DEF b
<1>4. now \in Nat /\ now + Lockout \in Nat /\ Span(now) \in [from : Nat, until : Nat]
  BY ThrottleAssumption DEF TypeOK, Span
<1> DEFINE u == IF locks THEN now + Lockout ELSE b.until
           nb == [b EXCEPT !.failures = b.failures + 1, !.until = u]
<1>5. nb \in Bucket /\ nb.failures = b.failures + 1 /\ nb.first = b.first /\ nb.until = u
  <2>1. u \in Nat \cup {None}
    BY <1>2, <1>4 DEF Bucket
  <2>2. b.failures + 1 \in Nat
    BY <1>2 DEF Bucket
  <2> HIDE DEF u
  <2> QED
    BY <1>2, <2>1, BucketCounted
<1>6. bucket' = [bucket EXCEPT ![k] = nb]
  BY <1>3
<1> HIDE DEF nb, u, locks
<1>7. bucket'[k] = nb /\ \A l \in Keys \ {k} : bucket'[l] = bucket[l]
  BY <1>2, <1>6 DEF TypeOK
<1>8. /\ mistakes'[k] = Append(mistakes[k], now)
      /\ \A l \in Keys \ {k} : mistakes'[l] = mistakes[l]
      /\ lockouts'[k] = (IF locks THEN lockouts[k] \cup {Span(now)} ELSE lockouts[k])
      /\ \A l \in Keys \ {k} : lockouts'[l] = lockouts[l]
  BY <1>2, <1>3 DEF TypeOK
<1>9. TypeOK'
  <2>1. bucket' \in [Keys -> Bucket \cup {None}]
    BY <1>2, <1>5, <1>6 DEF TypeOK
  <2>2. attempt' \in [Attempts -> {Idle} \cup [key : Keys, since : Nat]] /\ now' \in Nat
    BY <1>3, <1>4 DEF TypeOK
  <2>3. mistakes' \in [Keys -> Seq(Nat)]
    BY <1>2, <1>3, <1>4 DEF TypeOK
  <2>4. lockouts' \in [Keys -> SUBSET [from : Nat, until : Nat]]
    BY <1>2, <1>3, <1>4 DEF TypeOK
  <2> QED
    BY <2>1, <2>2, <2>3, <2>4 DEF TypeOK
<1> QED
  BY <1>1, <1>2, <1>3, <1>5, <1>7, <1>8, <1>9, NoneAssumption DEF u, locks, b

\* Requests that are still under way were before, and nothing of them changed.
LEMMA UnderLess ==
    ASSUME TypeOK, NEW a \in Attempts, attempt' = [attempt EXCEPT ![a] = Idle], NEW k \in Keys
    PROVE  \A o \in Under(k)' : o # a /\ o \in Under(k) /\ attempt'[o] = attempt[o]
BY DEF TypeOK, Under

\* One more failure is one more in every set of failures it belongs to.
LEMMA AppendCounts ==
    ASSUME TypeOK, NEW k \in Keys, NEW t \in Nat, mistakes'[k] = Append(mistakes[k], now), t <= now
    PROVE  /\ IsFiniteSet(Since(k, t)) /\ Cardinality(Since(k, t)) \in Nat
           /\ Cardinality(Since(k, t)') = Cardinality(Since(k, t)) + 1
           /\ DOMAIN mistakes[k] \subseteq DOMAIN mistakes'[k]
           /\ \A n \in DOMAIN mistakes[k] : mistakes'[k][n] = mistakes[k][n]
           /\ \A n \in DOMAIN mistakes'[k] : n \in DOMAIN mistakes[k] \/ mistakes'[k][n] = now
<1> DEFINE m == mistakes[k]
           end == Len(m) + 1
<1>1. m \in Seq(Nat) /\ now \in Nat /\ Len(m) \in Nat /\ DOMAIN m = 1..Len(m)
  BY DEF TypeOK
<1>2. /\ DOMAIN mistakes'[k] = 1..end /\ mistakes'[k][end] = now
      /\ \A n \in 1..Len(m) : mistakes'[k][n] = m[n]
  BY <1>1
<1>3. end \notin Since(k, t) /\ Since(k, t) \subseteq 1..Len(m)
  BY <1>1 DEF Since
<1>4. Since(k, t)' = Since(k, t) \cup {end}
  <2>1. Since(k, t)' = {n \in 1..end : mistakes'[k][n] >= t}
    BY <1>2 DEF Since
  <2>2. Since(k, t) = {n \in 1..Len(m) : m[n] >= t}
    BY <1>1 DEF Since
  <2>3. 1..end = 1..Len(m) \cup {end} /\ now >= t
    BY <1>1
  <2> HIDE DEF m, end
  <2> QED
    BY <1>2, <2>1, <2>2, <2>3
<1>5. IsFiniteSet(Since(k, t))
  <2>1. IsFiniteSet(1..Len(m))
    BY <1>1, FS_Interval
  <2> QED
    BY <1>3, <2>1, FS_Subset
<1>6. Cardinality(Since(k, t)) \in Nat /\ Cardinality(Since(k, t)') = Cardinality(Since(k, t)) + 1
  BY <1>3, <1>4, <1>5, FS_CardinalityType, FS_AddElement
<1> QED
  BY <1>1, <1>2, <1>5, <1>6

\* More failures and no lockout the less give no lockout less cause.
LEMMA CauseStays ==
    ASSUME TypeOK, TypeOK', NEW k \in Keys, NEW t \in Nat, t <= now, Lockout > 0,
           \/ lockouts'[k] = lockouts[k]
           \/ lockouts'[k] = lockouts[k] \cup {Span(now)},
           \/ mistakes'[k] = mistakes[k]
           \/ mistakes'[k] = Append(mistakes[k], now)
    PROVE  /\ Counted(k, t) \subseteq Counted(k, t)'
           /\ IsFiniteSet(Counted(k, t)') /\ Cardinality(Counted(k, t)) <= Cardinality(Counted(k, t)')
           /\ Cardinality(Counted(k, t)) \in Nat /\ Cardinality(Counted(k, t)') \in Nat
<1>1. \A n \in DOMAIN mistakes[k] : n \in DOMAIN mistakes'[k] /\ mistakes'[k][n] = mistakes[k][n]
  BY AppendCounts
<1>2. \A s \in lockouts'[k] : s.until <= t => s \in lockouts[k]
  <2>1. ~(Span(now).until <= t)
    BY ThrottleAssumption DEF TypeOK, Span
  <2> QED
    BY <2>1
<1>3. Counted(k, t) \subseteq Counted(k, t)'
  BY <1>1, <1>2 DEF Counted
<1>4. IsFiniteSet(Counted(k, t)')
  <2>1. Counted(k, t)' \subseteq 1..Len(mistakes'[k]) /\ Len(mistakes'[k]) \in Int
    BY DEF Counted, TypeOK
  <2> QED
    <3>1. IsFiniteSet(1..Len(mistakes'[k]))
      BY <2>1, FS_Interval
    <3> QED
      BY <2>1, <3>1, FS_Subset
<1>5. IsFiniteSet(Counted(k, t)) /\ Cardinality(Counted(k, t)) <= Cardinality(Counted(k, t)')
  BY <1>3, <1>4, FS_Subset
<1> QED
  BY <1>3, <1>4, <1>5, FS_CardinalityType

-----------------------------------------------------------------------------
\* A key nothing happens to, but for requests of it that end.
LEMMA Untouched ==
    ASSUME NEW k \in Keys, KeyInv(k), now' = now, bucket'[k] = bucket[k],
           mistakes'[k] = mistakes[k], lockouts'[k] = lockouts[k],
           \A o \in Under(k)' : o \in Under(k) /\ attempt'[o] = attempt[o]
    PROVE  KeyInv(k)'
<1>1. InTime(k)'
  BY DEF KeyInv, InTime
<1>2. OverOrKnown(k)'
  BY DEF KeyInv, OverOrKnown
<1>3. LetThrough(k)'
  BY DEF KeyInv, LetThrough
<1>4. CountIsReal(k)'
  <2>1. Since(k, bucket[k].first)' = Since(k, bucket[k].first)
    BY DEF Since
  <2> QED
    BY <2>1 DEF KeyInv, CountIsReal
<1>5. Caused(k)'
  <2>1. \A s : Counted(k, s.from)' = Counted(k, s.from)
    BY DEF Counted
  <2> QED
    BY <2>1 DEF KeyInv, Caused
<1> QED
  BY <1>1, <1>2, <1>3, <1>4, <1>5 DEF KeyInv

\* A key whose bucket and history are forgotten.
LEMMA Cleared ==
    ASSUME NEW k \in Keys, InTime(k), now' = now, bucket'[k] = None,
           mistakes'[k] = << >>, lockouts'[k] = {},
           \A o \in Under(k)' : o \in Under(k) /\ attempt'[o] = attempt[o]
    PROVE  KeyInv(k)'
BY DEF KeyInv, InTime, OverOrKnown, LetThrough, CountIsReal, Caused

LEMMA CauseInit == Init => CauseInv
<1> SUFFICES ASSUME Init PROVE CauseInv
  OBVIOUS
<1>1. TypeOK
  BY DEF Init, TypeOK
<1>2. ASSUME NEW k \in Keys PROVE KeyInv(k)
  <2>1. Under(k) = {} /\ bucket[k] = None /\ mistakes[k] = << >> /\ lockouts[k] = {}
    BY DEF Init, Under
  <2> QED
    BY <2>1 DEF KeyInv, InTime, OverOrKnown, LetThrough, CountIsReal, Caused
<1> QED
  BY <1>1, <1>2 DEF CauseInv

LEMMA TickStep == ASSUME CauseInv, Tick PROVE CauseInv'
<1>1. now \in Nat /\ now' = now + 1 /\ UNCHANGED <<bucket, attempt, mistakes, lockouts>>
  BY DEF CauseInv, TypeOK, Tick
<1>2. TypeOK'
  BY <1>1 DEF CauseInv, TypeOK
<1>3. ASSUME NEW k \in Keys PROVE KeyInv(k)'
  <2>1. KeyInv(k) /\ Under(k)' = Under(k)
    BY <1>1 DEF CauseInv, Under
  <2>2. /\ \A n \in DOMAIN mistakes[k] : mistakes[k][n] \in Nat
        /\ \A s \in lockouts[k] : s.from \in Nat /\ s.until \in Nat
        /\ bucket[k] # None => bucket[k].first \in Nat
        /\ \A a \in Under(k) : attempt[a].since \in Nat
    BY IdleType DEF CauseInv, TypeOK, Bucket, Under
  <2>3. \A a \in Under(k) : now + 1 <= attempt[a].since + Patience
    <3> SUFFICES ASSUME NEW a \in Under(k) PROVE now + 1 <= attempt[a].since + Patience
      OBVIOUS
    <3>1. now - attempt[a].since < Patience /\ attempt[a].since \in Nat
      BY <2>2 DEF Tick, Under
    <3> QED
      BY <1>1, <3>1, ThrottleAssumption
  <2>4. InTime(k)'
    BY <1>1, <2>1, <2>2, <2>3 DEF KeyInv, InTime
  <2>5. OverOrKnown(k)'
    <3> SUFFICES ASSUME NEW s \in lockouts[k], bucket[k] = None PROVE s.until <= now + 1
      BY <1>1, <2>1 DEF KeyInv, OverOrKnown
    <3> QED
      BY <1>1, <2>1, <2>2 DEF KeyInv, OverOrKnown
  <2>6. LetThrough(k)'
    BY <1>1, <2>1 DEF KeyInv, LetThrough
  <2>7. CountIsReal(k)'
    <3>1. Since(k, bucket[k].first)' = Since(k, bucket[k].first)
      BY <1>1 DEF Since
    <3> QED
      BY <1>1, <2>1, <3>1 DEF KeyInv, CountIsReal
  <2>8. Caused(k)'
    <3>1. \A s : Counted(k, s.from)' = Counted(k, s.from)
      BY <1>1 DEF Counted
    <3> QED
      BY <1>1, <2>1, <3>1 DEF KeyInv, Caused
  <2> QED
    BY <2>4, <2>5, <2>6, <2>7, <2>8 DEF KeyInv
<1> QED
  BY <1>2, <1>3 DEF CauseInv

\* A request is let through: every lockout is over, and a bucket that had one is
\* gone.
LEMMA CheckStep == ASSUME CauseInv, NEW a \in Attempts, NEW k \in Keys, Check(a, k) PROVE CauseInv'
<1> DEFINE gone == bucket[k] # None /\ bucket[k].until # None
<1>1. /\ attempt[a] = Idle /\ ~LockedOut(k) /\ now' = now /\ mistakes' = mistakes /\ lockouts' = lockouts
      /\ bucket' = IF gone THEN [bucket EXCEPT ![k] = None] ELSE bucket
      /\ attempt' = [attempt EXCEPT ![a] = [key |-> k, since |-> now]]
      /\ now \in Nat
  BY DEF Check, CauseInv, TypeOK
<1>2. attempt'[a].key = k /\ attempt'[a].since = now /\ \A o \in Attempts \ {a} : attempt'[o] = attempt[o]
  BY <1>1 DEF CauseInv, TypeOK
<1>3. TypeOK'
  <2>1. bucket' \in [Keys -> Bucket \cup {None}]
    BY <1>1 DEF CauseInv, TypeOK
  <2>2. attempt' \in [Attempts -> {Idle} \cup [key : Keys, since : Nat]]
    BY <1>1 DEF CauseInv, TypeOK
  <2> QED
    BY <1>1, <2>1, <2>2 DEF CauseInv, TypeOK
<1>4. ASSUME NEW l \in Keys \ {k} PROVE KeyInv(l)'
  <2>1. bucket'[l] = bucket[l] /\ mistakes'[l] = mistakes[l] /\ lockouts'[l] = lockouts[l] /\ KeyInv(l)
    BY <1>1 DEF CauseInv, TypeOK
  <2>2. \A o \in Under(l)' : o \in Under(l) /\ attempt'[o] = attempt[o]
    BY <1>2 DEF Under
  <2> QED
    BY <1>1, <2>1, <2>2, Untouched
<1>5. KeyInv(k)'
  <2>1. KeyInv(k) /\ mistakes'[k] = mistakes[k] /\ lockouts'[k] = lockouts[k]
    BY <1>1 DEF CauseInv
  <2>2. \A o \in Under(k)' : IF o = a THEN attempt'[o].since = now ELSE o \in Under(k) /\ attempt'[o] = attempt[o]
    BY <1>2 DEF Under
  <2>3. IF gone THEN bucket'[k] = None ELSE bucket'[k] = bucket[k]
    BY <1>1 DEF CauseInv, TypeOK
  <2>4. /\ \A s \in lockouts[k] : s.from \in Nat /\ s.until \in Nat
        /\ bucket[k] # None => bucket[k].first \in Nat /\ bucket[k].until \in Nat \cup {None}
    BY DEF CauseInv, TypeOK, Bucket
  <2>5. \A s \in lockouts[k] : /\ s.until <= now
                               /\ bucket'[k] # None => s.until <= bucket'[k].first
    <3> SUFFICES ASSUME NEW s \in lockouts[k]
                 PROVE  /\ s.until <= now
                        /\ bucket'[k] # None => s.until <= bucket'[k].first
      OBVIOUS
    <3>1. CASE bucket[k] = None
      BY <2>1, <2>3, <3>1 DEF KeyInv, OverOrKnown
    <3>2. CASE gone
      <4>1. s.until <= bucket[k].until /\ bucket[k].until <= now
        BY <1>1, <2>1, <2>4, <3>2 DEF KeyInv, OverOrKnown, LockedOut
      <4> QED
        BY <1>1, <2>3, <2>4, <3>2, <4>1
    <3>3. CASE bucket[k] # None /\ ~gone
      <4>1. s.until <= bucket[k].first /\ bucket[k].first <= now
        BY <2>1, <3>3 DEF KeyInv, OverOrKnown, InTime
      <4> QED
        BY <1>1, <2>3, <2>4, <3>3, <4>1
    <3> QED
      BY <3>1, <3>2, <3>3
  <2>6. InTime(k)'
    <3>1. \A o \in Under(k)' : attempt'[o].since <= now /\ now <= attempt'[o].since + Patience
      BY <1>1, <2>1, <2>2, ThrottleAssumption DEF KeyInv, InTime
    <3> QED
      BY <1>1, <2>1, <2>3, <3>1 DEF KeyInv, InTime
  <2>7. OverOrKnown(k)'
    <3>1. bucket'[k] # None => bucket'[k].until = None
      BY <2>3
    <3> QED
      BY <1>1, <2>5, <3>1 DEF OverOrKnown
  <2>8. LetThrough(k)'
    <3>1. \A o \in Under(k)', s \in lockouts[k] : s.until <= attempt'[o].since \/ attempt'[o].since + Patience < s.until
      BY <2>1, <2>2, <2>5 DEF KeyInv, LetThrough
    <3> QED
      BY <1>1, <2>5, <3>1 DEF LetThrough
  <2>9. CountIsReal(k)'
    <3>1. \A t : Since(k, t)' = Since(k, t)
      BY <1>1 DEF Since
    <3> QED
      BY <2>1, <2>3, <3>1 DEF KeyInv, CountIsReal
  <2>10. Caused(k)'
    <3>1. \A s : Counted(k, s.from)' = Counted(k, s.from)
      BY <1>1 DEF Counted
    <3> QED
      BY <2>1, <3>1 DEF KeyInv, Caused
  <2> QED
    BY <2>6, <2>7, <2>8, <2>9, <2>10 DEF KeyInv
<1> QED
  BY <1>3, <1>4, <1>5 DEF CauseInv

\* A failure is counted.  The lockouts that are over were over when the request
\* was let through, so the bucket's window began after them; if the count reaches
\* the limit, the failures of that window are the cause of the new lockout.
LEMMA FailureStep == ASSUME CauseInv, NEW a \in Attempts, RecordFailure(a) PROVE CauseInv'
<1>1. TypeOK /\ TypeOK' /\ now' = now /\ now \in Nat /\ Lockout \in Nat /\ Lockout > 0 /\ Window \in Nat
      /\ MaxAttempts \in Nat /\ Patience \in Nat /\ Patience < Lockout
  <2>1. TypeOK
    BY DEF CauseInv
  <2>2. TypeOK' /\ now' = now
    BY <2>1, FailureEffect
  <2> QED
    BY <2>1, <2>2, ThrottleAssumption DEF TypeOK
<1>0. attempt[a] # Idle /\ attempt[a].key \in Keys /\ Counting(a) \in Bucket
  BY <1>1, FailureEffect
<1> PICK k \in Keys, b \in Bucket : k = attempt[a].key /\ b = Counting(a)
  BY <1>0
<1> DEFINE locks == b.failures + 1 >= MaxAttempts
<1>2. attempt[a] # Idle /\ k \in Keys /\ b \in Bucket /\ attempt' = [attempt EXCEPT ![a] = Idle]
  BY <1>1, <1>0, FailureEffect
<1>3. /\ bucket'[k] # None /\ bucket'[k].failures = b.failures + 1 /\ bucket'[k].first = b.first
      /\ bucket'[k].until = (IF locks THEN now + Lockout ELSE b.until)
      /\ lockouts'[k] = (IF locks THEN lockouts[k] \cup {Span(now)} ELSE lockouts[k])
      /\ mistakes'[k] = Append(mistakes[k], now)
  BY <1>1, FailureEffect
<1>4. \A l \in Keys \ {k} : bucket'[l] = bucket[l] /\ lockouts'[l] = lockouts[l] /\ mistakes'[l] = mistakes[l]
  BY FailureEffect DEF CauseInv
<1>5. /\ b.until = (IF bucket[k] = None THEN None ELSE bucket[k].until)
      /\ \/ b.first = now /\ b.failures = 0
         \/ bucket[k] # None /\ b = bucket[k] /\ now - b.first <= Window
  BY <1>2, CountingBucket DEF CauseInv
<1>6. ASSUME NEW l \in Keys \ {k} PROVE KeyInv(l)'
  BY <1>1, <1>2, <1>4, Untouched, UnderLess DEF CauseInv
<1>7. KeyInv(k) /\ a \in Under(k) /\ b.first \in Nat /\ b.failures \in Nat
  BY <1>2 DEF CauseInv, Bucket, Under
<1>8. \A o \in Under(k)' : o \in Under(k) /\ attempt'[o] = attempt[o] /\ attempt[o].since \in Nat
  <2>1. \A o \in Under(k) : attempt[o].since \in Nat
    BY <1>1, IdleType DEF TypeOK, Under
  <2> QED
    BY <1>1, <1>2, <2>1, UnderLess
<1>9. /\ \A s \in lockouts[k] : s.from \in Nat /\ s.until \in Nat /\ s.from <= now /\ s.until = s.from + Lockout
      /\ bucket[k] # None => bucket[k].first \in Nat /\ bucket[k].first <= now /\ bucket[k].until \in Nat \cup {None}
      /\ \A n \in DOMAIN mistakes[k] : mistakes[k][n] \in Nat /\ mistakes[k][n] <= now
  BY <1>1, <1>2, <1>7 DEF TypeOK, Bucket, KeyInv, InTime
<1>10. b.first <= now
  BY <1>1, <1>5, <1>9
<1>11. \A s \in lockouts[k] : s.until <= now => s.until <= b.first
  <2> SUFFICES ASSUME NEW s \in lockouts[k], s.until <= now PROVE s.until <= b.first
    OBVIOUS
  <2>1. now <= attempt[a].since + Patience /\ attempt[a].since \in Nat
    BY <1>1, <1>2, <1>7, IdleType DEF TypeOK, KeyInv, InTime
  <2>2. s.until <= attempt[a].since
    <3>1. s.until <= attempt[a].since \/ attempt[a].since + Patience < s.until
      BY <1>7 DEF KeyInv, LetThrough
    <3> QED
      BY <1>1, <1>9, <2>1, <3>1
  <2>3. bucket[k] # None => s.until <= bucket[k].first
    BY <1>7, <2>2 DEF KeyInv, LetThrough
  <2> QED
    BY <1>5, <2>3
<1>12. Span(now) = [from |-> now, until |-> now + Lockout]
  BY DEF Span
<1>13. /\ Cardinality(Since(k, b.first)) \in Nat /\ Cardinality(Since(k, b.first)') = Cardinality(Since(k, b.first)) + 1
       /\ \A n \in DOMAIN mistakes[k] : mistakes'[k][n] = mistakes[k][n]
       /\ \A n \in DOMAIN mistakes'[k] : n \in DOMAIN mistakes[k] \/ mistakes'[k][n] = now
  BY <1>1, <1>2, <1>3, <1>7, <1>10, AppendCounts
<1>14. \A n \in DOMAIN mistakes'[k] : mistakes'[k][n] \in Nat /\ mistakes'[k][n] <= now
  BY <1>1, <1>9, <1>13
<1>15. Cardinality(Since(k, b.first)') >= b.failures + 1
  <2>1. b.failures <= Cardinality(Since(k, b.first))
    BY <1>5, <1>7, <1>13 DEF KeyInv, CountIsReal
  <2> QED
    BY <1>7, <1>13, <2>1
<1>16. InTime(k)'
  <2>1. \A s \in lockouts'[k] : s.from <= now /\ s.until = s.from + Lockout
    BY <1>1, <1>3, <1>9, <1>12
  <2>2. \A o \in Under(k)' : attempt'[o].since <= now /\ now <= attempt'[o].since + Patience
    BY <1>7, <1>8 DEF KeyInv, InTime
  <2> QED
    BY <1>1, <1>3, <1>10, <1>14, <2>1, <2>2 DEF InTime
<1>17. OverOrKnown(k)'
  <2> SUFFICES ASSUME NEW s \in lockouts'[k]
               PROVE  IF bucket'[k].until = None THEN s.until <= b.first ELSE s.until <= bucket'[k].until
    BY <1>3 DEF OverOrKnown
  <2>1. CASE locks
    <3>1. bucket'[k].until = now + Lockout /\ now + Lockout # None
      BY <1>1, <1>3, <2>1, ThrottleAssumption
    <3>2. s.until <= now + Lockout
      BY <1>1, <1>3, <1>9, <1>12
    <3> QED
      BY <3>1, <3>2
  <2>2. CASE ~locks
    <3>1. s \in lockouts[k] /\ bucket'[k].until = b.until
      BY <1>3, <2>2
    <3>2. IF bucket[k] = None THEN s.until <= now
          ELSE IF bucket[k].until = None THEN s.until <= bucket[k].first
          ELSE s.until <= bucket[k].until
      BY <1>7, <3>1 DEF KeyInv, OverOrKnown
    <3>3. CASE b.until = None
      <4>1. s.until <= now
        BY <1>1, <1>5, <1>9, <3>1, <3>2, <3>3
      <4> QED
        BY <1>11, <3>1, <3>3, <4>1
    <3>4. CASE b.until # None
      BY <1>5, <3>1, <3>2, <3>4
    <3> QED
      BY <3>3, <3>4
  <2> QED
    BY <2>1, <2>2
<1>18. LetThrough(k)'
  <2> SUFFICES ASSUME NEW o \in Under(k)', NEW s \in lockouts'[k]
               PROVE  /\ s.until <= attempt[o].since \/ attempt[o].since + Patience < s.until
                      /\ s.until <= attempt[o].since => s.until <= b.first
    BY <1>3, <1>8 DEF LetThrough
  <2>1. attempt[o].since \in Nat /\ attempt[o].since <= now
    BY <1>7, <1>8 DEF KeyInv, InTime
  <2>2. CASE s \in lockouts[k]
    <3>1. s.until <= attempt[o].since \/ attempt[o].since + Patience < s.until
      BY <1>7, <1>8, <2>2 DEF KeyInv, LetThrough
    <3>2. s.until <= attempt[o].since => s.until <= b.first
      BY <1>1, <1>9, <1>11, <2>1, <2>2
    <3> QED
      BY <3>1, <3>2
  <2>3. CASE s = Span(now)
    BY <1>1, <1>12, <2>1, <2>3
  <2> QED
    BY <1>3, <2>2, <2>3
<1>19. CountIsReal(k)'
  BY <1>3, <1>15 DEF CountIsReal
<1>20. Caused(k)'
  <2> SUFFICES ASSUME NEW s \in lockouts'[k] PROVE Cardinality(Counted(k, s.from)') >= MaxAttempts
    BY DEF Caused
  <2>1. CASE s \in lockouts[k]
    <3>1. Cardinality(Counted(k, s.from)) >= MaxAttempts
      BY <1>7, <2>1 DEF KeyInv, Caused
    <3>2. /\ Cardinality(Counted(k, s.from)) <= Cardinality(Counted(k, s.from)')
          /\ Cardinality(Counted(k, s.from)) \in Nat /\ Cardinality(Counted(k, s.from)') \in Nat
      BY <1>1, <1>2, <1>3, <1>9, <2>1, CauseStays
    <3> QED
      BY <1>1, <3>1, <3>2
  <2>2. CASE locks /\ s = Span(now)
    <3>1. Since(k, b.first)' \subseteq Counted(k, now)'
      <4> SUFFICES ASSUME NEW n \in DOMAIN mistakes'[k], mistakes'[k][n] >= b.first
                   PROVE  /\ now - Window <= mistakes'[k][n] /\ mistakes'[k][n] <= now
                          /\ \A z \in lockouts'[k] : z.until <= now => z.until <= mistakes'[k][n]
        BY <1>1, <1>3 DEF Since, Counted
      <4>1. now - b.first <= Window
        BY <1>1, <1>5
      <4>2. now - Window <= mistakes'[k][n] /\ mistakes'[k][n] <= now
        BY <1>1, <1>7, <1>14, <4>1
      <4>3. ASSUME NEW z \in lockouts'[k], z.until <= now PROVE z.until <= mistakes'[k][n]
        <5>1. z \in lockouts[k]
          BY <1>1, <1>3, <1>12, <4>3
        <5> QED
          BY <1>7, <1>9, <1>11, <1>14, <4>3, <5>1
      <4> QED
        BY <4>2, <4>3
    <3>2. /\ IsFiniteSet(Counted(k, now)') /\ Cardinality(Counted(k, now)') \in Nat
      BY <1>1, <1>2, <1>3, CauseStays
    <3>3. Cardinality(Since(k, b.first)') <= Cardinality(Counted(k, now)')
      BY <3>1, <3>2, FS_Subset
    <3>4. s.from = now
      BY <1>12, <2>2
    <3> QED
      BY <1>1, <1>7, <1>13, <1>15, <2>2, <3>2, <3>3, <3>4
  <2> QED
    BY <1>3, <2>1, <2>2
<1>21. KeyInv(k)'
  BY <1>16, <1>17, <1>18, <1>19, <1>20 DEF KeyInv
<1> QED
  BY <1>1, <1>6, <1>21 DEF CauseInv

\* A success forgets the key; an abandoned request changes nothing of it.
LEMMA EndStep ==
    ASSUME CauseInv, NEW a \in Attempts, RecordSuccess(a) \/ Abandoned(a) PROVE CauseInv'
<1> DEFINE k == attempt[a].key
<1>1. attempt[a] # Idle /\ k \in Keys /\ attempt' = [attempt EXCEPT ![a] = Idle] /\ now' = now
  BY DEF RecordSuccess, Abandoned, CauseInv, TypeOK
<1>2. ASSUME NEW l \in Keys
      PROVE  \/ bucket'[l] = bucket[l] /\ mistakes'[l] = mistakes[l] /\ lockouts'[l] = lockouts[l]
             \/ bucket'[l] = None /\ mistakes'[l] = << >> /\ lockouts'[l] = {}
  BY <1>1 DEF RecordSuccess, Abandoned, CauseInv, TypeOK
<1>3. TypeOK'
  <2>1. attempt' \in [Attempts -> {Idle} \cup [key : Keys, since : Nat]] /\ now' \in Nat
    BY <1>1 DEF CauseInv, TypeOK
  <2>2. CASE RecordSuccess(a)
    <3>1. bucket' \in [Keys -> Bucket \cup {None}]
      BY <1>1, <2>2 DEF RecordSuccess, CauseInv, TypeOK
    <3>2. mistakes' \in [Keys -> Seq(Nat)]
      BY <1>1, <2>2 DEF RecordSuccess, CauseInv, TypeOK
    <3>3. lockouts' \in [Keys -> SUBSET [from : Nat, until : Nat]]
      BY <1>1, <2>2 DEF RecordSuccess, CauseInv, TypeOK
    <3> QED
      BY <2>1, <3>1, <3>2, <3>3 DEF TypeOK
  <2>3. CASE Abandoned(a)
    BY <2>1, <2>3 DEF Abandoned, CauseInv, TypeOK
  <2> QED
    BY <2>2, <2>3
<1>4. ASSUME NEW l \in Keys PROVE KeyInv(l)'
  <2>1. KeyInv(l) /\ InTime(l)
    BY DEF CauseInv, KeyInv
  <2>2. \A o \in Under(l)' : o \in Under(l) /\ attempt'[o] = attempt[o]
    BY <1>1, UnderLess DEF CauseInv
  <2> QED
    BY <1>1, <1>2, <2>1, <2>2, Untouched, Cleared
<1> QED
  BY <1>3, <1>4 DEF CauseInv

LEMMA RestartStep == ASSUME CauseInv, Restart PROVE CauseInv'
<1>1. TypeOK'
  BY DEF Restart, CauseInv, TypeOK
<1>2. ASSUME NEW k \in Keys PROVE KeyInv(k)'
  <2>1. /\ InTime(k) /\ now' = now /\ bucket'[k] = None /\ mistakes'[k] = << >> /\ lockouts'[k] = {}
        /\ Under(k)' = {}
    BY DEF Restart, CauseInv, KeyInv, Under
  <2> QED
    BY <2>1, Cleared
<1> QED
  BY <1>1, <1>2 DEF CauseInv

LEMMA CauseStep == ASSUME CauseInv, [Next]_vars PROVE CauseInv'
<1>1. ASSUME NEW a \in Attempts, RecordFailure(a) PROVE CauseInv'
  BY <1>1, FailureStep
<1>2. ASSUME NEW a \in Attempts, RecordSuccess(a) \/ Abandoned(a) PROVE CauseInv'
  BY <1>2, EndStep
<1>3. ASSUME NEW a \in Attempts, NEW k \in Keys, Check(a, k) PROVE CauseInv'
  BY <1>3, CheckStep
<1>4. CASE Restart
  BY <1>4, RestartStep
<1>5. CASE Tick
  BY <1>5, TickStep
<1>6. CASE UNCHANGED vars
  <2>1. TypeOK'
    BY <1>6 DEF vars, CauseInv, TypeOK
  <2>2. ASSUME NEW k \in Keys PROVE KeyInv(k)'
    <3>1. Under(k)' = Under(k)
      BY <1>6 DEF vars, Under
    <3> QED
      BY <1>6, <3>1, Untouched DEF vars, CauseInv
  <2> QED
    BY <2>1, <2>2 DEF CauseInv
<1> QED
  BY <1>1, <1>2, <1>3, <1>4, <1>5, <1>6 DEF Next

\* Whatever requests of a key are under way, and for any limits with a lockout no
\* longer than the window: nobody is locked out but for MaxAttempts failures
\* within the window, since the last success and after the last lockout.
THEOREM LockedForCause == Spec => []LockedOnlyForCause
<1>1. CauseInv => LockedOnlyForCause
  BY DEF CauseInv, KeyInv, Caused, LockedOnlyForCause
<1> QED
  BY <1>1, CauseInit, CauseStep, PTL DEF Spec

LEMMA CauseAlways == Spec => []CauseInv
BY CauseInit, CauseStep, PTL DEF Spec

-----------------------------------------------------------------------------
(* A key fails a bounded number of times within a lockout's time.          *)

Failures(k, t) == Cardinality(Since(k, t))
Recent(k) == Failures(k, now - Lockout + 1)
Waiting(k) == Cardinality(Under(k))

\* What a key may have failed recently before its bucket began to count.
Before == IF MaxAttempts - 2 >= Others THEN MaxAttempts - 2 ELSE Others

\* Without a bucket, recent failures are of requests let through before a lockout.
ForgottenFew(k) == bucket[k] = None => Recent(k) <= Others

\* A free bucket has counted all recent ones but those, and all but the first of
\* its window, which is not recent when the window is over.
FreeFew(k) ==
    bucket[k] # None /\ bucket[k].until = None =>
        /\ bucket[k].failures \in 1..MaxAttempts - 1
        /\ Recent(k) <= Before + bucket[k].failures
        /\ Failures(k, bucket[k].first + 1) <= bucket[k].failures - 1

\* Of a locked key only requests let through before the lockout fail, each once.
LockedFew(k) ==
    bucket[k] # None /\ bucket[k].until # None =>
        /\ Failures(k, bucket[k].until - Lockout + 1) + Waiting(k) <= Others
        /\ Recent(k) + Waiting(k) <= Before + MaxAttempts + Others

BoundInv == \A k \in Keys : ForgottenFew(k) /\ FreeFew(k) /\ LockedFew(k)

LEMMA SomeOthers == Others \in Nat /\ Before \in Nat /\ Before >= Others /\ Before >= MaxAttempts - 2
<1>1. Cardinality(Attempts) \in Nat
  BY ThrottleAssumption, FS_CardinalityType
<1>2. Cardinality(Attempts) # 0
  BY ThrottleAssumption, FS_EmptySet
<1> QED
  BY <1>1, <1>2, ThrottleAssumption DEF Others, Before

\* Failures are counted in numbers; the later one begins, the fewer there are.
LEMMA FailuresType ==
    ASSUME TypeOK, NEW k \in Keys
    PROVE  /\ \A t \in Int : IsFiniteSet(Since(k, t)) /\ Failures(k, t) \in Nat
           /\ \A t, u \in Int : t <= u => Failures(k, u) <= Failures(k, t)
           /\ \A t \in Int : (\A n \in DOMAIN mistakes[k] : mistakes[k][n] < t) => Failures(k, t) = 0
<1>1. /\ mistakes[k] \in Seq(Nat) /\ Len(mistakes[k]) \in Nat /\ DOMAIN mistakes[k] = 1..Len(mistakes[k])
      /\ \A n \in DOMAIN mistakes[k] : mistakes[k][n] \in Nat
  BY DEF TypeOK
<1>2. IsFiniteSet(1..Len(mistakes[k]))
  BY <1>1, FS_Interval
<1>3. ASSUME NEW t \in Int PROVE IsFiniteSet(Since(k, t)) /\ Failures(k, t) \in Nat
  <2>1. Since(k, t) \subseteq 1..Len(mistakes[k])
    BY <1>1 DEF Since
  <2>2. IsFiniteSet(Since(k, t))
    BY <1>2, <2>1, FS_Subset
  <2> QED
    BY <2>2, FS_CardinalityType DEF Failures
<1>4. ASSUME NEW t \in Int, NEW u \in Int, t <= u PROVE Failures(k, u) <= Failures(k, t)
  <2>1. Since(k, u) \subseteq Since(k, t)
    BY <1>1, <1>4 DEF Since
  <2> QED
    BY <1>3, <2>1, FS_Subset DEF Failures
<1>5. ASSUME NEW t \in Int, \A n \in DOMAIN mistakes[k] : mistakes[k][n] < t PROVE Failures(k, t) = 0
  <2>1. Since(k, t) = {}
    BY <1>1, <1>5 DEF Since
  <2> QED
    BY <2>1, FS_EmptySet DEF Failures
<1> QED
  BY <1>3, <1>4, <1>5

LEMMA AddAtMostOne ==
    ASSUME NEW S, IsFiniteSet(S), NEW x
    PROVE  IsFiniteSet(S \cup {x}) /\ Cardinality(S \cup {x}) <= Cardinality(S) + 1
<1>1. Cardinality(S) \in Nat
  BY FS_CardinalityType
<1>2. IsFiniteSet(S \cup {x})
  BY FS_AddElement
<1>3. Cardinality(S \cup {x}) = IF x \in S THEN Cardinality(S) ELSE Cardinality(S) + 1
  BY FS_AddElement
<1>4. CASE x \in S
  BY <1>1, <1>2, <1>3, <1>4
<1>5. CASE x \notin S
  BY <1>1, <1>2, <1>3, <1>5
<1> QED
  BY <1>4, <1>5

\* One more failure is at most one more since any time.
LEMMA OneMore ==
    ASSUME TypeOK, TypeOK', NEW k \in Keys, mistakes'[k] = Append(mistakes[k], now), NEW t \in Int
    PROVE  Failures(k, t)' \in Nat /\ Failures(k, t)' <= Failures(k, t) + 1
<1> DEFINE end == Len(mistakes[k]) + 1
<1>1. /\ mistakes[k] \in Seq(Nat) /\ now \in Nat /\ Len(mistakes[k]) \in Nat
      /\ DOMAIN mistakes[k] = 1..Len(mistakes[k])
  BY DEF TypeOK
<1>2. DOMAIN mistakes'[k] = 1..end /\ \A n \in 1..Len(mistakes[k]) : mistakes'[k][n] = mistakes[k][n]
  BY <1>1
<1>3. 1..end = 1..Len(mistakes[k]) \cup {end}
  BY <1>1
<1> HIDE DEF end
<1>4. Since(k, t)' \subseteq Since(k, t) \cup {end}
  BY <1>1, <1>2, <1>3 DEF Since
<1>5. IsFiniteSet(Since(k, t)) /\ Cardinality(Since(k, t)) \in Nat
  BY FailuresType DEF Failures
<1>6. IsFiniteSet(Since(k, t) \cup {end}) /\ Cardinality(Since(k, t) \cup {end}) <= Cardinality(Since(k, t)) + 1
  BY <1>5, AddAtMostOne
<1>7. IsFiniteSet(Since(k, t)') /\ Cardinality(Since(k, t)') <= Cardinality(Since(k, t) \cup {end})
  BY <1>4, <1>6, FS_Subset
<1>8. Cardinality(Since(k, t)') \in Nat /\ Cardinality(Since(k, t) \cup {end}) \in Nat
  BY <1>6, <1>7, FS_CardinalityType
<1> QED
  BY <1>5, <1>6, <1>7, <1>8 DEF Failures

LEMMA WaitingType ==
    ASSUME NEW k \in Keys
    PROVE  IsFiniteSet(Under(k)) /\ Waiting(k) \in Nat /\ IsFiniteSet(Under(k)') /\ Waiting(k)' \in Nat
<1>1. Under(k) \subseteq Attempts /\ Under(k)' \subseteq Attempts
  BY DEF Under
<1>2. IsFiniteSet(Under(k)) /\ IsFiniteSet(Under(k)')
  BY <1>1, ThrottleAssumption, FS_Subset
<1> QED
  BY <1>2, FS_CardinalityType DEF Waiting

\* A request that ends is one less, and all the others are at most Others.
LEMMA OneLess ==
    ASSUME TypeOK, NEW a \in Attempts, attempt' = [attempt EXCEPT ![a] = Idle], NEW k \in Keys
    PROVE  /\ Waiting(k)' <= Waiting(k) /\ Waiting(k)' <= Others
           /\ a \in Under(k) => Waiting(k)' <= Waiting(k) - 1
<1>1. Under(k)' \subseteq Under(k) \ {a} /\ Under(k)' \subseteq Attempts \ {a}
  BY UnderLess DEF Under
<1>2. IsFiniteSet(Under(k)) /\ Waiting(k) \in Nat /\ Waiting(k)' \in Nat /\ Under(k)' \subseteq Under(k)
  BY <1>1, WaitingType
<1>3. Waiting(k)' <= Waiting(k)
  BY <1>2, FS_Subset DEF Waiting
<1>4. IsFiniteSet(Attempts \ {a}) /\ Cardinality(Attempts \ {a}) = Others
  BY ThrottleAssumption, FS_RemoveElement DEF Others
<1>5. Waiting(k)' <= Others
  BY <1>1, <1>4, FS_Subset DEF Waiting
<1>6. ASSUME a \in Under(k) PROVE Waiting(k)' <= Waiting(k) - 1
  <2>1. IsFiniteSet(Under(k) \ {a}) /\ Cardinality(Under(k) \ {a}) = Cardinality(Under(k)) - 1
    BY <1>2, <1>6, FS_RemoveElement
  <2> QED
    BY <1>1, <2>1, FS_Subset DEF Waiting
<1> QED
  BY <1>3, <1>5, <1>6

\* A key nothing happens to, but for requests of it that end.
LEMMA FewUntouched ==
    ASSUME TypeOK, NEW k \in Keys, ForgottenFew(k), FreeFew(k), LockedFew(k), now' = now,
           bucket'[k] = bucket[k], mistakes'[k] = mistakes[k], Waiting(k)' <= Waiting(k)
    PROVE  ForgottenFew(k)' /\ FreeFew(k)' /\ LockedFew(k)'
<1>1. Recent(k)' = Recent(k) /\ \A t : Failures(k, t)' = Failures(k, t)
  BY DEF Recent, Failures, Since
<1>2. ForgottenFew(k)'
  BY <1>1 DEF ForgottenFew
<1>3. FreeFew(k)'
  <2>1. Failures(k, bucket[k].first + 1)' = Failures(k, bucket[k].first + 1)
    BY DEF Failures, Since
  <2> QED
    BY <1>1, <2>1 DEF FreeFew
<1>4. LockedFew(k)'
  <2> SUFFICES ASSUME bucket[k] # None, bucket[k].until # None
               PROVE  /\ Failures(k, bucket[k].until - Lockout + 1)' + Waiting(k)' <= Others
                      /\ Recent(k)' + Waiting(k)' <= Before + MaxAttempts + Others
    BY DEF LockedFew
  <2>1. Failures(k, bucket[k].until - Lockout + 1)' = Failures(k, bucket[k].until - Lockout + 1)
    BY DEF Failures, Since
  <2>2. bucket[k].until \in Nat /\ Lockout \in Nat /\ now \in Nat /\ MaxAttempts \in Nat
    BY ThrottleAssumption DEF TypeOK, Bucket
  <2>3. Failures(k, bucket[k].until - Lockout + 1) \in Nat /\ Recent(k) \in Nat
    BY <2>2, FailuresType DEF Recent
  <2> QED
    BY <1>1, <2>1, <2>2, <2>3, WaitingType, SomeOthers DEF LockedFew
<1> QED
  BY <1>2, <1>3, <1>4

\* A key whose bucket and history are forgotten.
LEMMA FewCleared ==
    ASSUME TypeOK', NEW k \in Keys, bucket'[k] = None, mistakes'[k] = << >>
    PROVE  ForgottenFew(k)' /\ FreeFew(k)' /\ LockedFew(k)'
<1>1. Since(k, now - Lockout + 1)' = {}
  BY DEF Since
<1>2. Recent(k)' = 0
  BY <1>1, FS_EmptySet DEF Recent, Failures
<1> QED
  BY <1>2, SomeOthers DEF ForgottenFew, FreeFew, LockedFew

LEMMA FewTick == ASSUME TypeOK, NEW k \in Keys, ForgottenFew(k), FreeFew(k), LockedFew(k), Tick
                 PROVE  ForgottenFew(k)' /\ FreeFew(k)' /\ LockedFew(k)'
<1>1. now \in Nat /\ now' = now + 1 /\ UNCHANGED <<bucket, attempt, mistakes>> /\ Lockout \in Nat /\ MaxAttempts \in Nat
  BY ThrottleAssumption DEF Tick, TypeOK
<1>2. Waiting(k)' = Waiting(k) /\ \A t : Failures(k, t)' = Failures(k, t)
  BY <1>1 DEF Waiting, Under, Failures, Since
<1>3. Recent(k)' <= Recent(k) /\ Recent(k)' \in Nat /\ Recent(k) \in Nat
  <2>1. Recent(k)' = Failures(k, now' - Lockout + 1)
    BY <1>1 DEF Recent, Failures, Since
  <2>2. now' - Lockout + 1 \in Int /\ now - Lockout + 1 \in Int /\ now - Lockout + 1 <= now' - Lockout + 1
    BY <1>1
  <2> QED
    BY <2>1, <2>2, FailuresType DEF Recent
<1>4. ForgottenFew(k)'
  BY <1>1, <1>3, SomeOthers DEF ForgottenFew
<1>5. FreeFew(k)'
  <2>1. Failures(k, bucket[k].first + 1)' = Failures(k, bucket[k].first + 1)
    BY <1>1 DEF Failures, Since
  <2> QED
    BY <1>1, <1>3, <2>1, SomeOthers DEF FreeFew
<1>6. LockedFew(k)'
  <2>1. Failures(k, bucket[k].until - Lockout + 1)' = Failures(k, bucket[k].until - Lockout + 1)
    BY <1>1 DEF Failures, Since
  <2> QED
    BY <1>1, <1>2, <1>3, <2>1, SomeOthers, WaitingType DEF LockedFew
<1> QED
  BY <1>4, <1>5, <1>6

\* A lockout that is over leaves the failures after it, which are few.
LEMMA FewCheck ==
    ASSUME TypeOK, NEW k \in Keys, ForgottenFew(k), FreeFew(k), LockedFew(k), NEW a \in Attempts, Check(a, k)
    PROVE  ForgottenFew(k)' /\ FreeFew(k)' /\ LockedFew(k)'
<1>1. now \in Nat /\ now' = now /\ mistakes' = mistakes /\ Lockout \in Nat /\ ~LockedOut(k)
  BY ThrottleAssumption DEF TypeOK, Check
<1>2. Recent(k)' = Recent(k)
  BY <1>1 DEF Recent, Failures, Since
<1>3. CASE bucket[k] # None /\ bucket[k].until # None
  <2>1. bucket'[k] = None
    BY <1>3 DEF Check, TypeOK
  <2>2. bucket[k].until \in Nat /\ bucket[k].until <= now
    BY <1>1, <1>3 DEF LockedOut, TypeOK, Bucket
  <2>3. Recent(k) <= Failures(k, bucket[k].until - Lockout + 1)
    <3>1. /\ bucket[k].until - Lockout + 1 \in Int /\ now - Lockout + 1 \in Int
          /\ bucket[k].until - Lockout + 1 <= now - Lockout + 1
      BY <1>1, <2>2
    <3> QED
      BY <3>1, FailuresType DEF Recent
  <2>4. Failures(k, bucket[k].until - Lockout + 1) \in Nat /\ Recent(k) \in Nat
    <3>1. bucket[k].until - Lockout + 1 \in Int /\ now - Lockout + 1 \in Int
      BY <1>1, <2>2
    <3> QED
      BY <3>1, FailuresType DEF Recent
  <2>5. Recent(k) <= Others
    BY <1>3, <2>3, <2>4, WaitingType, SomeOthers DEF LockedFew
  <2> QED
    BY <1>2, <2>1, <2>5 DEF ForgottenFew, FreeFew, LockedFew
<1>4. CASE ~(bucket[k] # None /\ bucket[k].until # None)
  <2>1. bucket'[k] = bucket[k]
    BY <1>4 DEF Check
  <2>2. Failures(k, bucket[k].first + 1)' = Failures(k, bucket[k].first + 1)
    BY <1>1, <2>1 DEF Failures, Since
  <2> QED
    BY <1>2, <1>4, <2>1, <2>2 DEF ForgottenFew, FreeFew, LockedFew
<1> QED
  BY <1>3, <1>4

\* A failure is counted: a bucket that starts over does so when only the first of
\* its failures is old enough not to be recent, or all of them are.
LEMMA FewFailure ==
    ASSUME CauseInv, CauseInv', NEW a \in Attempts, RecordFailure(a), NEW k \in Keys, k = attempt[a].key,
           ForgottenFew(k), FreeFew(k), LockedFew(k)
    PROVE  ForgottenFew(k)' /\ FreeFew(k)' /\ LockedFew(k)'
<1>1. TypeOK /\ TypeOK' /\ now' = now /\ now \in Nat /\ Lockout \in Nat /\ Window \in Nat /\ Lockout <= Window
      /\ MaxAttempts \in Nat /\ MaxAttempts >= 1
  <2>1. TypeOK /\ TypeOK'
    BY DEF CauseInv
  <2>2. now' = now
    BY <2>1, FailureEffect
  <2> QED
    BY <2>1, <2>2, ThrottleAssumption DEF TypeOK
<1>2. attempt[a] # Idle /\ Counting(a) \in Bucket
  BY <1>1, FailureEffect
<1> PICK b \in Bucket : b = Counting(a)
  BY <1>2
<1> PICK T \in Int : T = now - Lockout + 1
  BY <1>1
<1> DEFINE locks == b.failures + 1 >= MaxAttempts
<1>3. /\ bucket'[k] # None /\ bucket'[k].failures = b.failures + 1 /\ bucket'[k].first = b.first
      /\ bucket'[k].until = (IF locks THEN now + Lockout ELSE b.until)
      /\ mistakes'[k] = Append(mistakes[k], now) /\ attempt' = [attempt EXCEPT ![a] = Idle]
  BY <1>1, FailureEffect
<1>4. /\ b.until = (IF bucket[k] = None THEN None ELSE bucket[k].until)
      /\ \/ /\ b.first = now /\ b.failures = 0
            /\ bucket[k] # None => now - bucket[k].first > Window
         \/ bucket[k] # None /\ b = bucket[k]
  BY <1>1, <1>2, CountingBucket
<1>5. b.first \in Nat /\ b.failures \in Nat /\ b.until \in Nat \cup {None}
  BY DEF Bucket
<1>6. Recent(k) = Failures(k, T) /\ Recent(k)' = Failures(k, T)'
  BY <1>1 DEF Recent, Failures, Since
<1>7. Recent(k) \in Nat /\ Recent(k)' \in Nat /\ Recent(k)' <= Recent(k) + 1
  BY <1>1, <1>3, <1>6, FailuresType, OneMore
<1>8. /\ Waiting(k) \in Nat /\ Waiting(k)' \in Nat /\ Waiting(k)' <= Waiting(k) - 1 /\ Waiting(k)' <= Others
  <2>1. a \in Under(k)
    BY <1>2 DEF Under
  <2> QED
    BY <1>1, <1>3, <2>1, OneLess, WaitingType
\* Nothing is later than now.
<1>9. \A t \in Int : t = now + 1 => Failures(k, t)' = 0
  <2>1. \A n \in DOMAIN mistakes'[k] : mistakes'[k][n] \in Nat /\ mistakes'[k][n] <= now
    BY <1>1 DEF CauseInv, KeyInv, InTime, TypeOK
  <2> SUFFICES ASSUME NEW t \in Int, t = now + 1 PROVE Failures(k, t)' = 0
    OBVIOUS
  <2>2. Since(k, t)' = {}
    BY <1>1, <2>1 DEF Since
  <2> QED
    BY <2>2, FS_EmptySet DEF Failures
<1>10. Others \in Nat /\ Before \in Nat /\ Before >= Others /\ Before >= MaxAttempts - 2
  BY SomeOthers
<1>11. now + Lockout # None /\ now + Lockout \in Nat
  BY <1>1, ThrottleAssumption
<1>12. ForgottenFew(k)'
  BY <1>3 DEF ForgottenFew
<1>13. ASSUME locks, Recent(k)' + Waiting(k)' <= Before + MaxAttempts + Others
       PROVE  FreeFew(k)' /\ LockedFew(k)'
  <2>1. bucket'[k].until = now + Lockout
    BY <1>3, <1>13
  <2>2. Failures(k, bucket[k].until - Lockout + 1)' = 0
    <3>1. bucket'[k].until - Lockout + 1 = now + 1
      BY <1>1, <2>1
    <3>2. Since(k, bucket[k].until - Lockout + 1)' = {n \in DOMAIN mistakes'[k] : mistakes'[k][n] >= now + 1}
      BY <3>1 DEF Since
    <3>3. PICK t \in Int : t = now + 1
      BY <1>1
    <3>4. Since(k, bucket[k].until - Lockout + 1)' = Since(k, t)'
      BY <3>2, <3>3 DEF Since
    <3> QED
      BY <1>9, <3>3, <3>4 DEF Failures
  <2>3. FreeFew(k)'
    BY <1>11, <2>1 DEF FreeFew
  <2>4. LockedFew(k)'
    <3> SUFFICES /\ Failures(k, bucket[k].until - Lockout + 1)' + Waiting(k)' <= Others
                 /\ Recent(k)' + Waiting(k)' <= Before + MaxAttempts + Others
      BY SomeOthers DEF LockedFew, Before, Others
    <3> QED
      BY <1>8, <1>10, <1>13, <2>2
  <2> QED
    BY <2>3, <2>4
<1>14. CASE bucket[k] = None \/ bucket[k].until = None
  <2>1. b.until = None
    BY <1>4, <1>14
  <2>2. /\ Recent(k)' <= Before + b.failures + 1 /\ b.failures + 1 <= MaxAttempts
        /\ \A t \in Int : t = b.first + 1 => Failures(k, t)' <= b.failures
    <3>1. CASE bucket[k] = None
      <4>1. b.first = now /\ b.failures = 0 /\ Recent(k) <= Others
        BY <1>4, <3>1 DEF ForgottenFew
      <4> QED
        BY <1>1, <1>7, <1>9, <1>10, <4>1
    <3>2. CASE bucket[k] # None
      <4>1. /\ bucket[k].failures \in 1..MaxAttempts - 1 /\ Recent(k) <= Before + bucket[k].failures
            /\ Failures(k, bucket[k].first + 1) <= bucket[k].failures - 1
        BY <1>14, <3>2 DEF FreeFew
      <4>2. CASE b = bucket[k]
        <5>1. ASSUME NEW t \in Int, t = b.first + 1 PROVE Failures(k, t)' <= b.failures
          <6>1. Failures(k, t) \in Nat /\ Failures(k, t)' \in Nat /\ Failures(k, t)' <= Failures(k, t) + 1
            BY <1>1, <1>3, FailuresType, OneMore
          <6>2. Failures(k, t) <= b.failures - 1
            BY <4>1, <4>2, <5>1
          <6> QED
            BY <1>5, <6>1, <6>2
        <5> QED
          BY <1>1, <1>5, <1>7, <1>10, <4>1, <4>2, <5>1
      <4>3. CASE b.first = now /\ b.failures = 0 /\ now - bucket[k].first > Window
        <5>1. bucket[k].first \in Nat
          BY <1>1, <3>2 DEF TypeOK, Bucket
        <5>2. bucket[k].first + 1 \in Int /\ bucket[k].first + 1 <= T
          BY <1>1, <4>3, <5>1
        <5>3. Recent(k) <= Failures(k, bucket[k].first + 1) /\ Failures(k, bucket[k].first + 1) \in Nat
          BY <1>1, <1>6, <5>2, FailuresType
        <5>4. Recent(k) <= MaxAttempts - 2
          BY <1>1, <1>7, <4>1, <5>3
        <5> QED
          BY <1>1, <1>7, <1>9, <1>10, <4>3, <5>4
      <4> QED
        BY <1>4, <3>2, <4>2, <4>3
    <3> QED
      BY <3>1, <3>2
  <2>3. CASE locks
    <3>1. Recent(k)' + Waiting(k)' <= Before + MaxAttempts + Others
      BY <1>1, <1>5, <1>7, <1>8, <1>10, <2>2
    <3> QED
      BY <1>12, <1>13, <2>3, <3>1
  <2>4. CASE ~locks
    <3>1. bucket'[k].until = None
      BY <1>3, <2>1, <2>4
    <3>2. Failures(k, bucket[k].first + 1)' <= b.failures
      <4>1. PICK t \in Int : t = b.first + 1
        BY <1>5
      <4>2. Since(k, bucket[k].first + 1)' = Since(k, t)'
        BY <1>3, <4>1 DEF Since
      <4> QED
        BY <2>2, <4>1, <4>2 DEF Failures
    <3>3. b.failures + 1 \in 1..MaxAttempts - 1 /\ b.failures = bucket'[k].failures - 1
      BY <1>1, <1>3, <1>5, <2>4
    <3>4. Recent(k)' <= Before + bucket'[k].failures
      BY <1>3, <1>5, <1>7, <1>10, <2>2
    <3>5. FreeFew(k)'
      BY <1>3, <3>2, <3>3, <3>4 DEF FreeFew, Before, Others
    <3> QED
      BY <1>12, <3>1, <3>5 DEF LockedFew
  <2> QED
    BY <2>3, <2>4
<1>15. CASE bucket[k] # None /\ bucket[k].until # None
  <2>1. /\ Failures(k, bucket[k].until - Lockout + 1) + Waiting(k) <= Others
        /\ Recent(k) + Waiting(k) <= Before + MaxAttempts + Others
    BY <1>15 DEF LockedFew
  <2>2. Recent(k)' + Waiting(k)' <= Before + MaxAttempts + Others
    BY <1>1, <1>7, <1>8, <1>10, <2>1
  <2>3. CASE locks
    BY <1>12, <1>13, <2>2, <2>3
  <2>4. CASE ~locks
    <3>1. b.until = bucket[k].until /\ bucket[k].until \in Nat /\ bucket'[k].until = bucket[k].until
      BY <1>3, <1>4, <1>5, <1>15, <2>4
    <3>2. PICK t \in Int : t = bucket[k].until - Lockout + 1
      BY <1>1, <3>1
    <3>3. Since(k, bucket[k].until - Lockout + 1)' = Since(k, t)'
      BY <3>1, <3>2 DEF Since
    <3>4. Failures(k, t) \in Nat /\ Failures(k, t)' \in Nat /\ Failures(k, t)' <= Failures(k, t) + 1
      BY <1>1, <1>3, FailuresType, OneMore
    <3>5. Failures(k, bucket[k].until - Lockout + 1)' + Waiting(k)' <= Others
      <4>1. Failures(k, bucket[k].until - Lockout + 1)' = Failures(k, t)'
        BY <3>3 DEF Failures
      <4>2. Failures(k, t) + Waiting(k) <= Others
        BY <2>1, <3>2
      <4> QED
        BY <1>8, <1>10, <3>4, <4>1, <4>2
    <3>6. LockedFew(k)'
      BY <2>2, <3>5 DEF LockedFew, Before, Others
    <3>7. FreeFew(k)'
      BY <1>15, <3>1 DEF FreeFew
    <3> QED
      BY <1>12, <3>6, <3>7
  <2> QED
    BY <2>3, <2>4
<1> QED
  BY <1>14, <1>15

LEMMA BoundStep == ASSUME CauseInv, CauseInv', BoundInv, [Next]_vars PROVE BoundInv'
<1> SUFFICES ASSUME NEW k \in Keys PROVE ForgottenFew(k)' /\ FreeFew(k)' /\ LockedFew(k)'
  BY DEF BoundInv
<1>1. TypeOK /\ TypeOK' /\ ForgottenFew(k) /\ FreeFew(k) /\ LockedFew(k)
  BY DEF CauseInv, BoundInv
<1>2. ASSUME NEW a \in Attempts, RecordFailure(a) PROVE ForgottenFew(k)' /\ FreeFew(k)' /\ LockedFew(k)'
  <2>1. CASE k = attempt[a].key
    BY <1>1, <1>2, <2>1, FewFailure
  <2>2. CASE k # attempt[a].key
    <3>1. bucket'[k] = bucket[k] /\ mistakes'[k] = mistakes[k] /\ now' = now
      BY <1>1, <1>2, <2>2, FailureEffect
    <3>2. Waiting(k)' <= Waiting(k)
      BY <1>1, <1>2, OneLess DEF RecordFailure
    <3> QED
      BY <1>1, <3>1, <3>2, FewUntouched
  <2> QED
    BY <2>1, <2>2
<1>3. ASSUME NEW a \in Attempts, RecordSuccess(a) \/ Abandoned(a)
      PROVE  ForgottenFew(k)' /\ FreeFew(k)' /\ LockedFew(k)'
  <2>1. now' = now /\ attempt' = [attempt EXCEPT ![a] = Idle]
    BY <1>3 DEF RecordSuccess, Abandoned
  <2>2. \/ bucket'[k] = bucket[k] /\ mistakes'[k] = mistakes[k]
        \/ bucket'[k] = None /\ mistakes'[k] = << >>
    BY <1>1, <1>3 DEF RecordSuccess, Abandoned, TypeOK
  <2>3. Waiting(k)' <= Waiting(k)
    BY <1>1, <2>1, OneLess
  <2> QED
    BY <1>1, <2>1, <2>2, <2>3, FewUntouched, FewCleared
<1>4. ASSUME NEW a \in Attempts, NEW l \in Keys, Check(a, l)
      PROVE  ForgottenFew(k)' /\ FreeFew(k)' /\ LockedFew(k)'
  <2>1. CASE k = l
    BY <1>1, <1>4, <2>1, FewCheck
  <2>2. CASE k # l
    <3>1. bucket'[k] = bucket[k] /\ mistakes'[k] = mistakes[k] /\ now' = now
      BY <1>4, <2>2 DEF Check
    <3>2. Under(k)' = Under(k)
      BY <1>1, <1>4, <2>2 DEF Check, Under, TypeOK
    <3>3. Waiting(k)' <= Waiting(k)
      BY <3>2, WaitingType DEF Waiting
    <3> QED
      BY <1>1, <3>1, <3>3, FewUntouched
  <2> QED
    BY <2>1, <2>2
<1>5. CASE Restart
  <2>1. bucket'[k] = None /\ mistakes'[k] = << >>
    BY <1>5 DEF Restart
  <2> QED
    BY <1>1, <2>1, FewCleared
<1>6. CASE Tick
  BY <1>1, <1>6, FewTick
<1>7. CASE UNCHANGED vars
  <2>1. Under(k)' = Under(k)
    BY <1>7 DEF vars, Under
  <2>2. Waiting(k)' <= Waiting(k)
    BY <2>1, WaitingType DEF Waiting
  <2> QED
    BY <1>1, <1>7, <2>2, FewUntouched DEF vars
<1> QED
  BY <1>2, <1>3, <1>4, <1>5, <1>6, <1>7 DEF Next

\* However many requests of a key are under way, and however its windows and
\* lockouts follow one another, the failures within a lockout's time stay bounded.
THEOREM FailuresStayBounded == Spec => []FailuresBounded
<1>1. Init => BoundInv
  <2> SUFFICES ASSUME Init, NEW k \in Keys PROVE ForgottenFew(k) /\ FreeFew(k) /\ LockedFew(k)
    BY DEF BoundInv
  <2>1. bucket[k] = None /\ Since(k, now - Lockout + 1) = {}
    BY DEF Init, Since
  <2>2. Recent(k) = 0
    BY <2>1, FS_EmptySet DEF Recent, Failures
  <2> QED
    BY <2>1, <2>2, SomeOthers DEF ForgottenFew, FreeFew, LockedFew
<1>2. CauseInv /\ BoundInv => FailuresBounded
  <2> SUFFICES ASSUME CauseInv, BoundInv PROVE FailuresBounded
    OBVIOUS
  <2>0. ASSUME NEW k \in Keys
        PROVE  {n \in DOMAIN mistakes[k] : mistakes[k][n] > now - Lockout} = Since(k, now - Lockout + 1)
    <3>1. \A n \in DOMAIN mistakes[k] : mistakes[k][n] \in Nat
      BY DEF CauseInv, TypeOK
    <3>2. now \in Nat /\ Lockout \in Nat
      BY ThrottleAssumption DEF CauseInv, TypeOK
    <3>3. \A n \in DOMAIN mistakes[k] : mistakes[k][n] > now - Lockout <=> mistakes[k][n] >= now - Lockout + 1
      BY <3>1, <3>2
    <3> QED
      BY <3>3 DEF Since
  <2> SUFFICES ASSUME NEW k \in Keys
               PROVE  \E before \in {MaxAttempts - 2, Others} : Recent(k) <= before + MaxAttempts + Others
    BY <2>0 DEF FailuresBounded, Recent, Failures
  <2>1. TypeOK /\ ForgottenFew(k) /\ FreeFew(k) /\ LockedFew(k) /\ MaxAttempts \in Nat /\ MaxAttempts >= 1
    BY ThrottleAssumption DEF CauseInv, BoundInv
  <2>2. Recent(k) \in Nat /\ Waiting(k) \in Nat
    <3>1. now - Lockout + 1 \in Int
      BY <2>1, ThrottleAssumption DEF TypeOK
    <3> QED
      BY <2>1, <3>1, FailuresType, WaitingType DEF Recent
  <2>3. Recent(k) <= Before + MaxAttempts + Others
    <3>1. CASE bucket[k] = None
      BY <2>1, <2>2, <3>1, SomeOthers DEF ForgottenFew
    <3>2. CASE bucket[k] # None /\ bucket[k].until = None
      BY <2>1, <2>2, <3>2, SomeOthers DEF FreeFew
    <3>3. CASE bucket[k] # None /\ bucket[k].until # None
      BY <2>1, <2>2, <3>3, SomeOthers DEF LockedFew
    <3> QED
      BY <3>1, <3>2, <3>3
  <2>4. Before \in {MaxAttempts - 2, Others}
    BY DEF Before
  <2> QED
    BY <2>3, <2>4
<1>3. CauseInv /\ CauseInv' /\ BoundInv /\ [Next]_vars => BoundInv'
  BY BoundStep
<1> QED
  BY <1>1, <1>2, <1>3, CauseAlways, PTL DEF Spec

=============================================================================
