---------------------------- MODULE LoginThrottle ----------------------------
(***************************************************************************)
(* The login throttle of one process (services/throttle.py) under the      *)
(* login requests that use it (api/v1/auth.py).  A request looks at its    *)
(* bucket, waits for the database, and only then counts what came of it,   *)
(* so several requests of one key may be between the two.                  *)
(***************************************************************************)
EXTENDS Integers, Sequences, FiniteSets

CONSTANTS
    Keys,           \* account and source
    Attempts,       \* login requests at once
    MaxAttempts,
    Lockout,        \* lockout_seconds, in ticks
    Window,         \* window_seconds
    Patience,       \* ticks a request may take
    MaxTime,        \* bound on the clock
    MaxMistakes,    \* bound on the failures of a key
    None

VARIABLES
    now,
    bucket,         \* key -> its bucket, or None
    attempt,        \* what each request has in hand
    mistakes,       \* history: key -> the times of the failures since it last succeeded
    lockouts        \* history: key -> the lockouts imposed since

vars == <<now, bucket, attempt, mistakes, lockouts>>

\* A request ends, by its timeouts, before a lockout it did not see would.
ASSUME ThrottleAssumption ==
    /\ MaxAttempts \in Nat \ {0} /\ {Window, MaxTime, MaxMistakes} \subseteq Nat
    /\ Lockout \in 1..Window /\ Patience \in 0..Lockout - 1 /\ None \notin Nat \cup Keys
    /\ IsFiniteSet(Attempts) /\ Attempts # {}

Bucket == [failures : Nat, until : Nat \cup {None}, first : Nat]
ASSUME NoneAssumption == None \notin Bucket

Idle == [key |-> None, since |-> 0]
Fresh == [failures |-> 0, until |-> None, first |-> now]
Span(from) == [from |-> from, until |-> from + Lockout]

-----------------------------------------------------------------------------
Reaches(failures) == failures >= MaxAttempts

\* Mutant of LockedOut: the count decides, which may have started over.
LockedOutByCount(k) ==
    bucket[k] # None /\ bucket[k].until # None /\ bucket[k].until > now /\ Reaches(bucket[k].failures)

LockedOut(k) == bucket[k] # None /\ bucket[k].until # None /\ bucket[k].until > now

\* Mutant of Check: a lockout that is over leaves the count as it was.
CheckKeeping(a, k) ==
    /\ attempt[a] = Idle /\ ~LockedOut(k)
    /\ attempt' = [attempt EXCEPT ![a] = [key |-> k, since |-> now]]
    /\ UNCHANGED <<now, bucket, mistakes, lockouts>>

\* A lockout that is over is forgotten; one that is not turns the request away,
\* which changes nothing.
Check(a, k) ==
    /\ attempt[a] = Idle /\ ~LockedOut(k)
    /\ bucket' = IF bucket[k] # None /\ bucket[k].until # None
                 THEN [bucket EXCEPT ![k] = None] ELSE bucket
    /\ attempt' = [attempt EXCEPT ![a] = [key |-> k, since |-> now]]
    /\ UNCHANGED <<now, mistakes, lockouts>>

\* The window starts over with the first failure after it.
Restarted(b) == IF now - b.first > Window THEN [b EXCEPT !.failures = 0, !.first = now] ELSE b
RecordFailure(a) ==
    LET k == attempt[a].key
        b == Restarted(IF bucket[k] = None THEN Fresh ELSE bucket[k])
        locks == Reaches(b.failures + 1)
    IN
    /\ attempt[a] # Idle /\ Len(mistakes[k]) < MaxMistakes
    /\ bucket' = [bucket EXCEPT ![k] = [b EXCEPT !.failures = @ + 1,
                                                 !.until = IF locks THEN now + Lockout ELSE @]]
    /\ attempt' = [attempt EXCEPT ![a] = Idle]
    /\ mistakes' = [mistakes EXCEPT ![k] = Append(@, now)]
    /\ lockouts' = IF locks THEN [lockouts EXCEPT ![k] = @ \cup {Span(now)}] ELSE lockouts
    /\ UNCHANGED now

\* Also of a request that was let through before a lockout began.
RecordSuccess(a) ==
    LET k == attempt[a].key IN
    /\ attempt[a] # Idle
    /\ bucket' = [bucket EXCEPT ![k] = None]
    /\ attempt' = [attempt EXCEPT ![a] = Idle]
    /\ mistakes' = [mistakes EXCEPT ![k] = << >>] /\ lockouts' = [lockouts EXCEPT ![k] = {}]
    /\ UNCHANGED now

\* The database fails, or the client goes away: nothing is counted.
Abandoned(a) ==
    /\ attempt[a] # Idle /\ attempt' = [attempt EXCEPT ![a] = Idle]
    /\ UNCHANGED <<now, bucket, mistakes, lockouts>>

\* The counters live in memory: a restart forgives.
Restart ==
    /\ bucket # [k \in Keys |-> None]
    /\ bucket' = [k \in Keys |-> None] /\ attempt' = [a \in Attempts |-> Idle]
    /\ mistakes' = [k \in Keys |-> << >>] /\ lockouts' = [k \in Keys |-> {}]
    /\ UNCHANGED now

Tick ==
    /\ now < MaxTime /\ \A a \in Attempts : attempt[a] # Idle => now - attempt[a].since < Patience
    /\ now' = now + 1 /\ UNCHANGED <<bucket, attempt, mistakes, lockouts>>

Init ==
    /\ now = 0 /\ bucket = [k \in Keys |-> None] /\ attempt = [a \in Attempts |-> Idle]
    /\ mistakes = [k \in Keys |-> << >>] /\ lockouts = [k \in Keys |-> {}]

Next ==
    \/ \E a \in Attempts : RecordFailure(a) \/ RecordSuccess(a) \/ Abandoned(a) \/ \E k \in Keys : Check(a, k)
    \/ Restart \/ Tick

Spec == Init /\ [][Next]_vars

-----------------------------------------------------------------------------
(* Properties. *)

Others == Cardinality(Attempts) - 1

\* The failures that count against a key at a time: in the window, and after
\* every lockout that was over by then.
Counted(k, t) ==
    {n \in DOMAIN mistakes[k] :
        /\ t - Window <= mistakes[k][n] /\ mistakes[k][n] <= t
        /\ \A s \in lockouts[k] : s.until <= t => s.until <= mistakes[k][n]}

\* Nobody is locked out but for MaxAttempts failures within the window, since
\* the last success and since the last lockout was over: a lockout that has ended
\* "start[s] clean rather than locking again on the next single mistake", and
\* failures "older than this stop counting" (services/throttle.py), whatever other
\* requests of the key are under way.
LockedOnlyForCause ==
    \A k \in Keys : \A s \in lockouts[k] : Cardinality(Counted(k, s.from)) >= MaxAttempts

\* Within the time a lockout lasts a key fails at most MaxAttempts times and once
\* for every other request under way, after what was left of a window about to
\* start over or of the requests let through before the last lockout.
FailuresBounded ==
    \A k \in Keys :
        LET recent == Cardinality({n \in DOMAIN mistakes[k] : mistakes[k][n] > now - Lockout}) IN
        \E before \in {MaxAttempts - 2, Others} : recent <= before + MaxAttempts + Others
=============================================================================
