---------------------------- MODULE PlannerProofs ----------------------------
(***************************************************************************)
(* Proofs about Planner, for any intents, links and number of troubles.    *)
(* What render_device makes of an intent is worked out first (one section  *)
(* for each menu, in their order, with the rows that are asked for in it,  *)
(* each under a name of its own), then what a plan is for the router that  *)
(* it was made for, then that the steps of a push, the edits and the       *)
(* changes of the intent keep what the four properties need.               *)
(***************************************************************************)
EXTENDS Planner, FiniteSetTheorems, SequenceTheorems, TLAPS

-----------------------------------------------------------------------------
(* Sequences.                                                              *)

\* What is before a member is before all that follow it, so a total order of a
\* finite set has one member at every rank.
LEMMA OneAtEveryRank ==
  ASSUME NEW S, IsFiniteSet(S), NEW before \in [S -> SUBSET S],
         \A x \in S : x \notin before[x],
         \A x, y \in S : y \in before[x] => before[y] \subseteq before[x],
         \A x, y \in S : x # y => x \in before[y] \/ y \in before[x]
  PROVE  /\ Cardinality(S) \in Nat
         /\ \A n \in 1..Cardinality(S) : \E x \in S : Cardinality(before[x]) = n - 1
         /\ \A x, y \in S : Cardinality(before[x]) = Cardinality(before[y]) => x = y
         /\ \A x, y \in S : x \in before[y] => Cardinality(before[x]) < Cardinality(before[y])
         /\ \A x \in S : Cardinality(before[x]) \in 0..(Cardinality(S) - 1)
<1>1. Cardinality(S) \in Nat
  BY FS_CardinalityType
<1>2. \A x \in S : IsFiniteSet(before[x]) /\ Cardinality(before[x]) \in Nat
  BY FS_Subset, FS_CardinalityType
<1>3. ASSUME NEW x \in S PROVE Cardinality(before[x]) \in 0..(Cardinality(S) - 1)
  <2>1. IsFiniteSet(S \ {x}) /\ Cardinality(S \ {x}) = Cardinality(S) - 1
    BY FS_RemoveElement
  <2>2. before[x] \in SUBSET (S \ {x})
    OBVIOUS
  <2>3. Cardinality(before[x]) <= Cardinality(S \ {x})
    BY <2>1, <2>2, FS_Subset
  <2> QED BY <1>1, <1>2, <2>1, <2>3
<1>4. ASSUME NEW x \in S, NEW y \in S, x \in before[y]
      PROVE  Cardinality(before[x]) < Cardinality(before[y])
  <2>1. before[x] \in SUBSET before[y] /\ before[x] # before[y]
    BY <1>4
  <2>2. Cardinality(before[x]) <= Cardinality(before[y]) /\ Cardinality(before[y]) # Cardinality(before[x])
    BY <1>2, <2>1, FS_Subset
  <2> QED BY <1>2, <2>2
<1>5. ASSUME NEW x \in S, NEW y \in S, Cardinality(before[x]) = Cardinality(before[y]) PROVE x = y
  BY <1>2, <1>4, <1>5
<1> DEFINE rank == [x \in S |-> Cardinality(before[x])]
           ranks == 0..(Cardinality(S) - 1)
<1>6. rank \in Injection(S, ranks)
  BY <1>3, <1>5 DEF Injection, IsInjective
<1>7. IsFiniteSet(ranks) /\ Cardinality(ranks) = Cardinality(S)
  BY <1>1, FS_Interval
<1>8. rank \in Surjection(S, ranks)
  <2> HIDE DEF rank, ranks
  <2> QED BY <1>6, <1>7, FS_Injection
<1>9. ASSUME NEW n \in 1..Cardinality(S) PROVE \E x \in S : Cardinality(before[x]) = n - 1
  <2>1. n - 1 \in ranks
    BY <1>1
  <2> QED BY <1>8, <2>1 DEF Surjection
<1> QED BY <1>1, <1>3, <1>4, <1>5, <1>9

\* Induction over the numbers, for a set of them.
LEMMA Inductive ==
  ASSUME NEW T, 0 \in T, \A n \in Nat : n \in T => n + 1 \in T
  PROVE  \A n \in Nat : n \in T
<1> SUFFICES ASSUME Nat \ T # {} PROVE FALSE
  OBVIOUS
<1> DEFINE R == OpToRel(<, Nat)
<1>1. PICK m \in Nat \ T : \A n \in Nat \ T : ~ (<<n, m>> \in R)
  <2> HIDE DEF R
  <2>1. IsWellFoundedOn(R, Nat)
    BY NatLessThanWellFounded DEF R
  <2> QED BY <2>1, WFMin
<1>2. m # 0 /\ m - 1 \in Nat /\ <<m - 1, m>> \in R
  BY DEF OpToRel
<1>3. m - 1 \in T
  BY <1>1, <1>2
<1>4. (m - 1) + 1 \in T
  BY <1>2, <1>3
<1> QED BY <1>4

\* A set of numbers with a member has a least one.
LEMMA LeastNumber ==
  ASSUME NEW T, T \subseteq Nat, T # {}
  PROVE  \E m \in T : \A n \in T : m <= n
<1> DEFINE R == OpToRel(<, Nat)
<1>1. PICK m \in T : \A n \in T : ~ (<<n, m>> \in R)
  <2> HIDE DEF R
  <2>1. IsWellFoundedOn(R, Nat)
    BY NatLessThanWellFounded DEF R
  <2> QED BY <2>1, WFMin
<1>2. \A n \in T : ~ (n < m)
  BY <1>1 DEF OpToRel
<1> QED BY <1>2

Follows(f, origin, step, N) == f[0] = origin /\ \A n \in 1..N : f[n] = step[<<n, f[n - 1]>>]

\* A recursive definition up to a number has a function, in the set its steps
\* stay in.
LEMMA Recursion ==
  ASSUME NEW N \in Nat, NEW D, NEW origin \in D, NEW step \in [(1..N) \X D -> D]
  PROVE  \E f \in [0..N -> D] : Follows(f, origin, step, N)
<1> DEFINE T == {m \in Nat : m <= N => \E f \in [0..m -> D] : Follows(f, origin, step, m)}
<1> USE DEF Follows
<1>1. 0 \in T
  <2>1. [n \in 0..0 |-> origin] \in [0..0 -> D] /\ Follows([n \in 0..0 |-> origin], origin, step, 0)
    OBVIOUS
  <2> QED BY <2>1
<1>2. ASSUME NEW m \in Nat, m \in T PROVE m + 1 \in T
  <2> SUFFICES ASSUME m + 1 <= N PROVE \E f \in [0..m + 1 -> D] : Follows(f, origin, step, m + 1)
    OBVIOUS
  <2>1. PICK f \in [0..m -> D] : Follows(f, origin, step, m)
    BY <1>2
  <2> DEFINE last == step[<<m + 1, f[m]>>]
             g == [n \in 0..m + 1 |-> IF n = m + 1 THEN last ELSE f[n]]
  <2>2. <<m + 1, f[m]>> \in (1..N) \X D
    BY <2>1
  <2>3. last \in D
    BY <2>2
  <2> HIDE DEF last
  <2>4. g \in [0..m + 1 -> D] /\ g[0] = origin /\ g[m + 1] = last /\ \A n \in 0..m : g[n] = f[n]
    BY <2>1, <2>3
  <2> HIDE DEF g
  <2>5. ASSUME NEW n \in 1..m + 1 PROVE g[n] = step[<<n, g[n - 1]>>]
    <3>1. n - 1 \in 0..m /\ g[n - 1] = f[n - 1]
      BY <2>4
    <3>2. CASE n = m + 1
      <4>1. n - 1 = m
        BY <3>2
      <4> QED BY <2>4, <3>1, <3>2, <4>1 DEF last
    <3>3. CASE n # m + 1
      <4>1. n \in 1..m /\ n \in 0..m
        BY <3>3
      <4> QED BY <2>1, <2>4, <3>1, <4>1
    <3> QED BY <3>2, <3>3
  <2> QED BY <2>4, <2>5
<1>3. N \in T
  <2> HIDE DEF T
  <2> QED BY <1>1, <1>2, Inductive
<1> QED BY <1>3

\* A recursion that keeps to a set stays in it.
LEMMA RecursionStays ==
  ASSUME NEW N \in Nat, NEW D, NEW f, f[0] \in D,
         \A n \in 1..N : f[n - 1] \in D => f[n] \in D
  PROVE  \A n \in 0..N : f[n] \in D
<1> DEFINE T == {n \in Nat : n <= N => f[n] \in D}
<1>1. 0 \in T
  OBVIOUS
<1>2. ASSUME NEW n \in Nat, n \in T PROVE n + 1 \in T
  <2> SUFFICES ASSUME n + 1 <= N PROVE f[n + 1] \in D
    OBVIOUS
  <2>1. f[(n + 1) - 1] \in D /\ n + 1 \in 1..N
    BY <1>2
  <2> QED BY <2>1
<1>3. \A n \in Nat : n \in T
  <2> HIDE DEF T
  <2> QED BY <1>1, <1>2, Inductive
<1> QED BY <1>3

\* Two recursions with the same steps agree.
Stepwise(f, g, N) == f[0] = g[0] /\ \A n \in 1..N : f[n - 1] = g[n - 1] => f[n] = g[n]

\* Two recursions of the same beginning and the same steps agree.
LEMMA Agree ==
  ASSUME NEW N \in Nat, NEW f, NEW g, Stepwise(f, g, N)
  PROVE  \A n \in 0..N : f[n] = g[n]
<1> USE DEF Stepwise
<1> DEFINE T == {n \in Nat : n <= N => f[n] = g[n]}
<1>1. 0 \in T
  OBVIOUS
<1>2. ASSUME NEW n \in Nat, n \in T PROVE n + 1 \in T
  <2> SUFFICES ASSUME n + 1 <= N PROVE f[n + 1] = g[n + 1]
    OBVIOUS
  <2>1. f[(n + 1) - 1] = g[(n + 1) - 1] /\ n + 1 \in 1..N
    BY <1>2
  <2> QED BY <2>1
<1>3. \A n \in Nat : n \in T
  <2> HIDE DEF T
  <2> QED BY <1>1, <1>2, Inductive
<1> QED BY <1>3

\* A set of sequences with the empty one and, with a sequence, all that are one
\* longer.
LEMMA ByAppending ==
  ASSUME NEW D, NEW U, <<>> \in U, \A s \in Seq(D), x \in D : s \in U => Append(s, x) \in U
  PROVE  \A s \in Seq(D) : s \in U
<1> DEFINE T == {n \in Nat : \A s \in Seq(D) : Len(s) = n => s \in U}
<1>1. 0 \in T
  <2>1. \A s \in Seq(D) : Len(s) = 0 => s = <<>>
    OBVIOUS
  <2> QED BY <2>1
<1>2. ASSUME NEW n \in Nat, n \in T PROVE n + 1 \in T
  <2> SUFFICES ASSUME NEW s \in Seq(D), Len(s) = n + 1 PROVE s \in U
    OBVIOUS
  <2> DEFINE q == SubSeq(s, 1, n) x == s[n + 1]
  <2>1. q \in Seq(D) /\ Len(q) = n /\ x \in D
    OBVIOUS
  <2>2. s = Append(q, x)
    OBVIOUS
  <2> HIDE DEF q, x
  <2> QED BY <1>2, <2>1, <2>2
<1>3. \A n \in Nat : n \in T
  <2> HIDE DEF T
  <2> QED BY <1>1, <1>2, Inductive
<1> QED BY <1>3

-----------------------------------------------------------------------------
(* Only.                                                                   *)

Picked(q, x, S) == IF x \in S THEN Append(q, x) ELSE q
Choosing(f, s, S) == f[0] = <<>> /\ \A n \in 1..Len(s) : f[n] = Picked(f[n - 1], s[n], S)

\* The recursion that defines Only, by its steps.
LEMMA OnlyRecursion ==
  ASSUME NEW D, NEW s \in Seq(D), NEW S
  PROVE  \E f \in [0..Len(s) -> Seq(D)] : Choosing(f, s, S) /\ Only(s, S) = f[Len(s)]
<1> DEFINE N == Len(s)
           Q == Seq(D)
           origin == <<>>
           step == [x \in (1..N) \X Q |-> Picked(x[2], s[x[1]], S)]
           upto == CHOOSE f : f = [n \in 0..N |-> IF n = 0 THEN <<>>
                                   ELSE IF s[n] \in S THEN Append(f[n - 1], s[n]) ELSE f[n - 1]]
<1>1. N \in Nat /\ origin \in Q /\ \A n \in 1..N : s[n] \in D
  OBVIOUS
<1>2. step \in [(1..N) \X Q -> Q]
  <2>1. \A r \in Q, x \in D : Picked(r, x, S) \in Q
    BY DEF Picked
  <2> HIDE DEF N, Q
  <2> QED BY <1>1, <2>1
<1>3. PICK f \in [0..N -> Q] : Follows(f, origin, step, N)
  <2> HIDE DEF N, Q, step, origin
  <2> QED BY <1>1, <1>2, Recursion
<1>0. N \in Nat /\ \A n \in 1..N : n - 1 \in 0..N /\ n \in 0..N /\ n # 0
  OBVIOUS
<1>4. \A n \in 1..N : f[n] = Picked(f[n - 1], s[n], S)
  <2> SUFFICES ASSUME NEW n \in 1..N PROVE f[n] = Picked(f[n - 1], s[n], S)
    OBVIOUS
  <2> HIDE DEF N, Q
  <2>1. f[n] = step[<<n, f[n - 1]>>]
    <3> HIDE DEF step
    <3> QED BY <1>3 DEF Follows
  <2>2. f[n - 1] \in Q
    BY <1>0, <1>3
  <2>3. step[<<n, f[n - 1]>>] = Picked(f[n - 1], s[n], S)
    BY <2>2
  <2> QED BY <2>1, <2>3
<1>5. f[0] = <<>>
  BY <1>3 DEF Follows
<1>6. upto = [n \in 0..N |-> IF n = 0 THEN <<>>
                ELSE IF s[n] \in S THEN Append(upto[n - 1], s[n]) ELSE upto[n - 1]]
  <2>1. f = [n \in 0..N |-> f[n]]
    <3> HIDE DEF Q
    <3> QED BY <1>3
  <2> HIDE DEF N, Q
  <2>2. ASSUME NEW n \in 0..N
        PROVE f[n] = IF n = 0 THEN <<>> ELSE IF s[n] \in S THEN Append(f[n - 1], s[n]) ELSE f[n - 1]
    <3>1. CASE n = 0
      BY <1>5, <3>1
    <3>2. CASE n # 0
      <4>1. n \in 1..N
        BY <1>0, <3>2
      <4> QED BY <1>4, <3>2, <4>1 DEF Picked
    <3> QED BY <3>1, <3>2
  <2>3. f = [n \in 0..N |-> IF n = 0 THEN <<>> ELSE IF s[n] \in S THEN Append(f[n - 1], s[n]) ELSE f[n - 1]]
    BY <2>1, <2>2, Zenon
  <2> QED BY <2>3
<1> HIDE DEF upto, N
<1>7. \A n \in 0..N : f[n] = upto[n]
  <2>1. f[0] = upto[0]
    BY <1>0, <1>5, <1>6
  <2>2. ASSUME NEW n \in 1..N, f[n - 1] = upto[n - 1] PROVE f[n] = upto[n]
    <3>1. upto[n] = IF s[n] \in S THEN Append(upto[n - 1], s[n]) ELSE upto[n - 1]
      <4>1. n \in 0..N /\ n # 0
        BY <1>0
      <4> QED BY <1>6, <4>1
    <3> QED BY <1>4, <2>2, <3>1 DEF Picked
  <2>3. \A n \in 1..N : f[n - 1] = upto[n - 1] => f[n] = upto[n]
    BY <2>2
  <2>4. N \in Nat /\ Stepwise(f, upto, N)
    BY <1>0, <2>1, <2>3 DEF Stepwise
  <2> QED BY <2>4, Agree
<1>8. Only(s, S) = upto[N]
  BY DEF Only, upto, N
<1>9. f \in [0..N -> Q] /\ N \in 0..N
  BY <1>0, <1>3
<1> QED BY <1>4, <1>5, <1>7, <1>8, <1>9 DEF Choosing, N

\* One more member, and whether it is taken.
LEMMA OnlyAppend ==
  ASSUME NEW D, NEW s \in Seq(D), NEW x \in D, NEW S
  PROVE  /\ Only(s, S) \in Seq(D)
         /\ Only(Append(s, x), S) = IF x \in S THEN Append(Only(s, S), x) ELSE Only(s, S)
<1> DEFINE t == Append(s, x) N == Len(s)
<1>2. t \in Seq(D) /\ Len(t) = N + 1 /\ N \in Nat /\ t[N + 1] = x /\ \A n \in 1..N : t[n] = s[n]
  OBVIOUS
<1>0. N + 1 \in 1..N + 1 /\ (N + 1) - 1 = N /\ N \in 0..N /\ N + 1 \in Nat /\ \A n \in 1..N : n \in 1..N + 1
  OBVIOUS
<1> HIDE DEF t
<1>3. PICK f \in [0..N -> Seq(D)] : Choosing(f, s, S) /\ Only(s, S) = f[N]
  BY OnlyRecursion
<1>4. PICK g \in [0..Len(t) -> Seq(D)] : Choosing(g, t, S) /\ Only(t, S) = g[Len(t)]
  BY <1>2, OnlyRecursion
<1>5. \A n \in 0..N : f[n] = g[n]
  <2>1. f[0] = g[0]
    BY <1>3, <1>4 DEF Choosing
  <2>2. ASSUME NEW n \in 1..N, f[n - 1] = g[n - 1] PROVE f[n] = g[n]
    <3>1. n \in 1..Len(t) /\ t[n] = s[n]
      BY <1>0, <1>2
    <3>2. f[n] = Picked(f[n - 1], s[n], S)
      BY <1>3 DEF Choosing
    <3>3. g[n] = Picked(g[n - 1], t[n], S)
      BY <1>4, <3>1 DEF Choosing
    <3> QED BY <2>2, <3>1, <3>2, <3>3
  <2> HIDE DEF N
  <2>3. \A n \in 1..N : f[n - 1] = g[n - 1] => f[n] = g[n]
    BY <2>2
  <2>4. N \in Nat /\ Stepwise(f, g, N)
    BY <1>2, <2>1, <2>3 DEF Stepwise
  <2> HIDE DEF Stepwise
  <2>5. \A h, k : N \in Nat /\ Stepwise(h, k, N) => \A n \in 0..N : h[n] = k[n]
    BY Agree
  <2> QED BY <2>4, <2>5
<1>6. f[N] = g[N] /\ N + 1 \in 1..Len(t)
  BY <1>0, <1>2, <1>5
<1>7. g[N + 1] = Picked(g[N], x, S)
  BY <1>0, <1>2, <1>4, <1>6 DEF Choosing
<1>8. Only(t, S) = Picked(Only(s, S), x, S)
  BY <1>2, <1>3, <1>4, <1>6, <1>7
<1>9. Only(s, S) \in Seq(D)
  BY <1>0, <1>3
<1> QED BY <1>8, <1>9 DEF t, Picked

\* Nothing is taken from nothing.
LEMMA OnlyEmpty == \A S : Only(<<>>, S) = <<>>
<1> SUFFICES ASSUME NEW S PROVE Only(<<>>, S) = <<>>
  OBVIOUS
<1>1. <<>> \in Seq({}) /\ Len(<<>>) = 0
  OBVIOUS
<1>2. \E f : Choosing(f, <<>>, S) /\ Only(<<>>, S) = f[0]
  BY <1>1, OnlyRecursion
<1> QED BY <1>2 DEF Choosing

\* The members of a sequence with one appended.
LEMMA AppendMembers ==
  ASSUME NEW D, NEW s \in Seq(D), NEW x \in D
  PROVE  ToSet(Append(s, x)) = ToSet(s) \cup {x}
<1> DEFINE t == Append(s, x)
<1>1. DOMAIN t = 1..Len(s) + 1 /\ DOMAIN s = 1..Len(s) /\ Len(s) \in Nat
  OBVIOUS
<1>2. t[Len(s) + 1] = x /\ \A n \in DOMAIN s : t[n] = s[n]
  OBVIOUS
<1> HIDE DEF t
<1>3. ASSUME NEW y \in ToSet(s) \cup {x} PROVE y \in ToSet(t)
  BY <1>1, <1>2 DEF ToSet
<1>4. ASSUME NEW n \in DOMAIN t PROVE t[n] \in ToSet(s) \cup {x}
  <2>1. CASE n = Len(s) + 1
    BY <1>2, <2>1
  <2>2. CASE n # Len(s) + 1
    <3>1. n \in DOMAIN s
      BY <1>1, <1>4, <2>2
    <3> QED BY <1>2, <3>1 DEF ToSet
  <2> QED BY <2>1, <2>2
<1>5. ToSet(t) \subseteq ToSet(s) \cup {x}
  BY <1>4 DEF ToSet
<1> QED BY <1>3, <1>5 DEF t

\* The members of two sequences joined.
LEMMA ConcatMembers ==
  ASSUME NEW D, NEW s \in Seq(D), NEW t \in Seq(D)
  PROVE  s \o t \in Seq(D) /\ ToSet(s \o t) = ToSet(s) \cup ToSet(t)
<1> DEFINE u == s \o t
<1>1. Len(s) \in Nat /\ Len(t) \in Nat /\ DOMAIN s = 1..Len(s) /\ DOMAIN t = 1..Len(t)
      /\ DOMAIN u = 1..Len(s) + Len(t) /\ u \in Seq(D)
  OBVIOUS
<1>2. \A n \in 1..Len(s) + Len(t) : u[n] = IF n <= Len(s) THEN s[n] ELSE t[n - Len(s)]
  OBVIOUS
<1> HIDE DEF u
<1>3. ASSUME NEW n \in DOMAIN u PROVE u[n] \in ToSet(s) \cup ToSet(t)
  <2>1. CASE n <= Len(s)
    BY <1>1, <1>2, <2>1 DEF ToSet
  <2>2. CASE ~ (n <= Len(s))
    <3>1. n - Len(s) \in DOMAIN t /\ u[n] = t[n - Len(s)]
      BY <1>1, <1>2, <2>2
    <3> QED BY <3>1 DEF ToSet
  <2> QED BY <2>1, <2>2
<1>4. ASSUME NEW n \in DOMAIN s PROVE s[n] \in ToSet(u)
  <2>1. n \in DOMAIN u /\ u[n] = s[n]
    BY <1>1, <1>2
  <2> QED BY <2>1 DEF ToSet
<1>5. ASSUME NEW n \in DOMAIN t PROVE t[n] \in ToSet(u)
  <2>1. n + Len(s) \in DOMAIN u /\ u[n + Len(s)] = t[n]
    BY <1>1, <1>2
  <2> QED BY <2>1 DEF ToSet
<1>6. ToSet(u) \subseteq ToSet(s) \cup ToSet(t)
  BY <1>3 DEF ToSet
<1>7. ToSet(s) \subseteq ToSet(u) /\ ToSet(t) \subseteq ToSet(u)
  BY <1>4, <1>5 DEF ToSet
<1> QED BY <1>1, <1>6, <1>7 DEF u

\* The empty sequence has no members.
LEMMA EmptyMembers == ToSet(<<>>) = {}
BY DEF ToSet

\* What Only takes keeps its type.
LEMMA OnlyTyped == ASSUME NEW D, NEW s \in Seq(D), NEW S PROVE Only(s, S) \in Seq(D)
<1>1. PICK f \in [0..Len(s) -> Seq(D)] : Only(s, S) = f[Len(s)]
  BY OnlyRecursion
<1> QED BY <1>1

\* Only takes the members that are in the set, and no other.
LEMMA OnlyMembers ==
  ASSUME NEW D, NEW s \in Seq(D), NEW S
  PROVE  ToSet(Only(s, S)) = ToSet(s) \cap S
<1> DEFINE U == {q \in Seq(D) : ToSet(Only(q, S)) = ToSet(q) \cap S}
<1>1. <<>> \in U
  BY OnlyEmpty, EmptyMembers
<1>2. ASSUME NEW q \in Seq(D), NEW x \in D, q \in U PROVE Append(q, x) \in U
  <2>1. Only(q, S) \in Seq(D)
    BY OnlyTyped
  <2>2. ToSet(Append(q, x)) = ToSet(q) \cup {x}
    BY AppendMembers
  <2>3. ToSet(Append(Only(q, S), x)) = ToSet(Only(q, S)) \cup {x}
    BY <2>1, AppendMembers
  <2>4. Only(Append(q, x), S) = IF x \in S THEN Append(Only(q, S), x) ELSE Only(q, S)
    BY OnlyAppend
  <2>5. Append(q, x) \in Seq(D)
    OBVIOUS
  <2>6. ToSet(Only(Append(q, x), S)) = ToSet(Append(q, x)) \cap S
    <3>1. CASE x \in S
      BY <1>2, <2>2, <2>3, <2>4, <3>1
    <3>2. CASE x \notin S
      BY <1>2, <2>2, <2>4, <3>2
    <3> QED BY <3>1, <3>2
  <2> QED BY <2>5, <2>6
<1> HIDE DEF U
<1>3. \A q \in Seq(D) : q \in U
  BY <1>1, <1>2, ByAppending
<1> QED BY <1>3 DEF U

\* The rows that are picked depend on those that are there.
LEMMA OnlyReplaced ==
  ASSUME NEW D, NEW s \in Seq(D), NEW t \in Seq(D), NEW S, NEW T, Len(s) = Len(t),
         \A n \in 1..Len(s) : \/ s[n] = t[n] /\ (s[n] \in S <=> t[n] \in T)
                              \/ s[n] \notin S /\ t[n] \notin T
  PROVE  Only(s, S) = Only(t, T)
<1> DEFINE N == Len(s)
<1>1. PICK f \in [0..N -> Seq(D)] : Choosing(f, s, S) /\ Only(s, S) = f[N]
  BY OnlyRecursion
<1>2. PICK g \in [0..Len(t) -> Seq(D)] : Choosing(g, t, T) /\ Only(t, T) = g[Len(t)]
  BY OnlyRecursion
<1>3. N \in Nat
  OBVIOUS
<1>4. f[0] = g[0]
  BY <1>1, <1>2 DEF Choosing
<1>5. ASSUME NEW n \in 1..N, f[n - 1] = g[n - 1] PROVE f[n] = g[n]
  <2>1. f[n] = Picked(f[n - 1], s[n], S)
    BY <1>1 DEF Choosing
  <2>2. g[n] = Picked(g[n - 1], t[n], T)
    BY <1>2 DEF Choosing
  <2> QED BY <1>5, <2>1, <2>2 DEF Picked
<1>6. \A n \in 1..N : f[n - 1] = g[n - 1] => f[n] = g[n]
  BY <1>5
<1>7. N \in Nat /\ Stepwise(f, g, N)
  BY <1>3, <1>4, <1>6 DEF Stepwise
<1>8. \A h, k : N \in Nat /\ Stepwise(h, k, N) => \A n \in 0..N : h[n] = k[n]
  BY Agree
<1>9. f[N] = g[N]
  <2> HIDE DEF N, Stepwise
  <2>1. \A n \in 0..N : f[n] = g[n]
    BY <1>7, <1>8
  <2> QED BY <1>3, <2>1
<1> QED BY <1>1, <1>2, <1>9

\* Taking twice is taking once.
LEMMA OnlyOfOnly ==
  ASSUME NEW D, NEW s \in Seq(D), NEW A, NEW S
  PROVE  Only(Only(s, A), S) = Only(s, A \cap S)
<1> DEFINE B == A \cap S
<1>0. \A x : x \in B <=> x \in A /\ x \in S
  OBVIOUS
<1> HIDE DEF B
<1> DEFINE U == {q \in Seq(D) : Only(Only(q, A), S) = Only(q, B)}
<1>1. <<>> \in U
  BY OnlyEmpty
<1>2. ASSUME NEW q \in Seq(D), NEW x \in D, q \in U PROVE Append(q, x) \in U
  <2>1. Only(q, A) \in Seq(D)
    BY OnlyTyped
  <2>2. Only(Append(q, x), A) = IF x \in A THEN Append(Only(q, A), x) ELSE Only(q, A)
    BY OnlyAppend
  <2>3. Only(Append(Only(q, A), x), S)
          = IF x \in S THEN Append(Only(Only(q, A), S), x) ELSE Only(Only(q, A), S)
    BY <2>1, OnlyAppend
  <2>4. Only(Append(q, x), B) = IF x \in B THEN Append(Only(q, B), x) ELSE Only(q, B)
    BY OnlyAppend
  <2>5. Append(q, x) \in Seq(D)
    OBVIOUS
  <2>7. Only(Only(q, A), S) = Only(q, B)
    BY <1>2
  <2>6. Only(Only(Append(q, x), A), S) = Only(Append(q, x), B)
    <3>1. CASE x \in A
      <4>1. Only(Append(q, x), A) = Append(Only(q, A), x)
        BY <2>2, <3>1
      <4>2. Only(Only(Append(q, x), A), S)
              = IF x \in S THEN Append(Only(q, B), x) ELSE Only(q, B)
        BY <2>3, <2>7, <4>1, Zenon
      <4>3. x \in S <=> x \in B
        BY <1>0, <3>1
      <4> QED BY <2>4, <4>2, <4>3
    <3>2. CASE x \notin A
      BY <1>0, <2>7, <2>2, <2>4, <3>2, Zenon
    <3> QED BY <3>1, <3>2
  <2> QED BY <2>5, <2>6
<1> HIDE DEF U
<1>3. \A q \in Seq(D) : q \in U
  BY <1>1, <1>2, ByAppending
<1> QED BY <1>3 DEF U, B

\* No two of a sequence are in a relation.
Clashless(s, R) == \A m, n \in DOMAIN s : m # n => <<s[m], s[n]>> \notin R

\* A sequence without clashes stays so with a member that clashes with none.
LEMMA ClashlessAppend ==
  ASSUME NEW D, NEW s \in Seq(D), NEW x \in D, NEW R
  PROVE  Clashless(Append(s, x), R)
           <=> Clashless(s, R) /\ \A y \in ToSet(s) : <<x, y>> \notin R /\ <<y, x>> \notin R
<1> DEFINE t == Append(s, x) N == Len(s)
<1>1. N \in Nat /\ DOMAIN t = 1..N + 1 /\ DOMAIN s = 1..N /\ t[N + 1] = x /\ \A n \in 1..N : t[n] = s[n]
  OBVIOUS
<1>2. N + 1 \in 1..N + 1 /\ (\A n \in 1..N : n \in 1..N + 1 /\ n # N + 1)
      /\ \A n \in 1..N + 1 : n \in 1..N \/ n = N + 1
  OBVIOUS
<1> HIDE DEF t, N
<1>3. ASSUME Clashless(t, R)
      PROVE  Clashless(s, R) /\ \A y \in ToSet(s) : <<x, y>> \notin R /\ <<y, x>> \notin R
  <2>1. ASSUME NEW m \in DOMAIN s, NEW n \in DOMAIN s, m # n PROVE <<s[m], s[n]>> \notin R
    <3>1. m \in DOMAIN t /\ n \in DOMAIN t /\ t[m] = s[m] /\ t[n] = s[n]
      BY <1>1, <1>2
    <3> QED BY <1>3, <2>1, <3>1 DEF Clashless
  <2>2. ASSUME NEW n \in DOMAIN s PROVE <<x, s[n]>> \notin R /\ <<s[n], x>> \notin R
    <3>1. n \in DOMAIN t /\ t[n] = s[n] /\ N + 1 \in DOMAIN t /\ n # N + 1 /\ t[N + 1] = x
      BY <1>1, <1>2
    <3>2. <<t[N + 1], t[n]>> \notin R /\ <<t[n], t[N + 1]>> \notin R
      BY <1>3, <3>1 DEF Clashless
    <3> QED BY <3>1, <3>2
  <2> QED BY <2>1, <2>2 DEF Clashless, ToSet
<1>4. ASSUME Clashless(s, R), \A y \in ToSet(s) : <<x, y>> \notin R /\ <<y, x>> \notin R
      PROVE  Clashless(t, R)
  <2> SUFFICES ASSUME NEW m \in DOMAIN t, NEW n \in DOMAIN t, m # n PROVE <<t[m], t[n]>> \notin R
    BY DEF Clashless
  <2>1. CASE m = N + 1
    <3>1. n \in DOMAIN s /\ t[n] = s[n] /\ t[m] = x
      BY <1>1, <1>2, <2>1
    <3> QED BY <1>4, <3>1 DEF ToSet
  <2>2. CASE n = N + 1
    <3>1. m \in DOMAIN s /\ t[m] = s[m] /\ t[n] = x
      BY <1>1, <1>2, <2>2
    <3> QED BY <1>4, <3>1 DEF ToSet
  <2>3. CASE m # N + 1 /\ n # N + 1
    <3>1. m \in DOMAIN s /\ t[m] = s[m] /\ n \in DOMAIN s /\ t[n] = s[n]
      BY <1>1, <1>2, <2>3
    <3> QED BY <1>4, <3>1 DEF Clashless
  <2> QED BY <2>1, <2>2, <2>3
<1> QED BY <1>3, <1>4 DEF t

\* What is taken of a sequence without clashes has none.
LEMMA OnlyClashless ==
  ASSUME NEW D, NEW s \in Seq(D), NEW S, NEW R, Clashless(s, R)
  PROVE  Clashless(Only(s, S), R)
<1> DEFINE U == {q \in Seq(D) : Clashless(q, R) => Clashless(Only(q, S), R)}
<1>1. <<>> \in U
  BY OnlyEmpty
<1>2. ASSUME NEW q \in Seq(D), NEW x \in D, q \in U PROVE Append(q, x) \in U
  <2>0. Append(q, x) \in Seq(D)
    OBVIOUS
  <2> SUFFICES ASSUME Clashless(Append(q, x), R) PROVE Clashless(Only(Append(q, x), S), R)
    BY <2>0
  <2>1. Clashless(q, R) /\ \A y \in ToSet(q) : <<x, y>> \notin R /\ <<y, x>> \notin R
    BY ClashlessAppend
  <2>2. Clashless(Only(q, S), R)
    BY <1>2, <2>1
  <2>3. Only(q, S) \in Seq(D) /\ ToSet(Only(q, S)) \subseteq ToSet(q)
    BY OnlyTyped, OnlyMembers
  <2>4. Only(Append(q, x), S) = IF x \in S THEN Append(Only(q, S), x) ELSE Only(q, S)
    BY OnlyAppend
  <2>5. CASE x \in S
    <3>1. Clashless(Append(Only(q, S), x), R)
      BY <2>1, <2>2, <2>3, ClashlessAppend
    <3> QED BY <2>4, <2>5, <3>1
  <2>6. CASE x \notin S
    BY <2>2, <2>4, <2>6
  <2> QED BY <2>5, <2>6
<1> HIDE DEF U
<1>3. \A q \in Seq(D) : q \in U
  BY <1>1, <1>2, ByAppending
<1> QED BY <1>3 DEF U

Joining(f, ss) == f[0] = <<>> /\ \A n \in 1..Len(ss) : f[n] = f[n - 1] \o ss[n]

\* The recursion that defines FlattenSeq, by its steps.
LEMMA FlattenRecursion ==
  ASSUME NEW D, NEW ss \in Seq(Seq(D))
  PROVE  \E f \in [0..Len(ss) -> Seq(D)] : Joining(f, ss) /\ FlattenSeq(ss) = f[Len(ss)]
<1> DEFINE N == Len(ss)
           Q == Seq(D)
           origin == <<>>
           step == [x \in (1..N) \X Q |-> x[2] \o ss[x[1]]]
           flatten == CHOOSE f : f = [n \in 1..N |-> IF n = 1 THEN ss[n] ELSE f[n - 1] \o ss[n]]
<1>1. N \in Nat /\ origin \in Q /\ \A n \in 1..N : ss[n] \in Q
  OBVIOUS
<1>0. \A n \in 1..N : n - 1 \in 0..N /\ n \in 0..N /\ n # 0 /\ (n # 1 => n - 1 \in 1..N) /\ (n = 1 => n - 1 = 0)
  OBVIOUS
<1>2. step \in [(1..N) \X Q -> Q]
  <2>1. \A r, t \in Q : r \o t \in Q
    OBVIOUS
  <2> HIDE DEF N, Q
  <2> QED BY <1>1, <2>1
<1>3. PICK f \in [0..N -> Q] : Follows(f, origin, step, N)
  <2> HIDE DEF N, Q, step, origin
  <2> QED BY <1>1, <1>2, Recursion
<1>4. \A n \in 1..N : f[n] = f[n - 1] \o ss[n]
  <2> SUFFICES ASSUME NEW n \in 1..N PROVE f[n] = f[n - 1] \o ss[n]
    OBVIOUS
  <2> HIDE DEF N, Q
  <2>1. f[n] = step[<<n, f[n - 1]>>]
    <3> HIDE DEF step
    <3> QED BY <1>3 DEF Follows
  <2>2. f[n - 1] \in Q
    BY <1>0, <1>3
  <2> QED BY <2>1, <2>2
<1>5. f[0] = <<>>
  BY <1>3 DEF Follows
<1>51. \A s \in Q : <<>> \o s = s
  OBVIOUS
<1>6. flatten = [n \in 1..N |-> IF n = 1 THEN ss[n] ELSE flatten[n - 1] \o ss[n]]
  <2> HIDE DEF Q, N
  <2> DEFINE g == [n \in 1..N |-> f[n]]
  <2>1. \A n \in 1..N : g[n] = f[n]
    OBVIOUS
  <2> HIDE DEF g
  <2>2. ASSUME NEW n \in 1..N PROVE f[n] = IF n = 1 THEN ss[n] ELSE g[n - 1] \o ss[n]
    <3>1. CASE n = 1
      BY <1>0, <1>1, <1>4, <1>5, <1>51, <3>1
    <3>2. CASE n # 1
      BY <1>0, <1>4, <2>1, <3>2
    <3> QED BY <3>1, <3>2
  <2>3. g = [n \in 1..N |-> IF n = 1 THEN ss[n] ELSE g[n - 1] \o ss[n]]
    <3>1. g = [n \in 1..N |-> f[n]]
      BY DEF g
    <3> QED BY <2>2, <3>1, Zenon
  <2> QED BY <2>3
<1> HIDE DEF flatten, N
<1>7. \A n \in 1..N : f[n] = flatten[n]
  <2> DEFINE g == [n \in 0..N |-> IF n = 0 THEN <<>> ELSE flatten[n]]
  <2>1. f[0] = g[0] /\ \A n \in 1..N : g[n] = flatten[n]
    BY <1>0, <1>1, <1>5
  <2> HIDE DEF g
  <2>2. ASSUME NEW n \in 1..N, f[n - 1] = g[n - 1] PROVE f[n] = g[n]
    <3>1. flatten[n] = IF n = 1 THEN ss[n] ELSE flatten[n - 1] \o ss[n]
      BY <1>6
    <3>2. CASE n = 1
      <4>1. f[n] = <<>> \o ss[n]
        BY <1>0, <1>4, <1>5, <3>2
      <4> HIDE DEF Q
      <4> QED BY <1>1, <1>51, <2>1, <3>1, <3>2, <4>1
    <3>3. CASE n # 1
      BY <1>0, <1>4, <2>1, <2>2, <3>1, <3>3
    <3> QED BY <3>2, <3>3
  <2>3. \A n \in 1..N : f[n - 1] = g[n - 1] => f[n] = g[n]
    BY <2>2
  <2>4. N \in Nat /\ Stepwise(f, g, N)
    BY <1>1, <2>1, <2>3 DEF Stepwise
  <2>5. \A h, k : N \in Nat /\ Stepwise(h, k, N) => \A n \in 0..N : h[n] = k[n]
    BY Agree
  <2>6. \A n \in 0..N : f[n] = g[n]
    <3> HIDE DEF Stepwise
    <3> QED BY <2>4, <2>5
  <2> QED BY <1>0, <2>1, <2>6
<1>8. FlattenSeq(ss) = IF N = 0 THEN ss ELSE flatten[N]
  BY DEF FlattenSeq, flatten, N
<1>9. FlattenSeq(ss) = f[N]
  <2>1. CASE N = 0
    <3>1. ss = <<>>
      BY <2>1 DEF N
    <3> QED BY <1>5, <1>8, <2>1, <3>1
  <2>2. CASE N # 0
    <3>1. N \in 1..N
      BY <1>1, <2>2
    <3> QED BY <1>7, <1>8, <2>2, <3>1
  <2> QED BY <2>1, <2>2
<1> QED BY <1>3, <1>4, <1>5, <1>9 DEF Joining, N

\* The members of the sequences joined by FlattenSeq.
LEMMA FlattenMembers ==
  ASSUME NEW D, NEW ss \in Seq(Seq(D))
  PROVE  /\ FlattenSeq(ss) \in Seq(D)
         /\ ToSet(FlattenSeq(ss)) = UNION {ToSet(ss[n]) : n \in DOMAIN ss}
<1> DEFINE N == Len(ss)
           All(n) == UNION {ToSet(ss[k]) : k \in 1..n}
<1>1. PICK f \in [0..N -> Seq(D)] : Joining(f, ss) /\ FlattenSeq(ss) = f[N]
  BY FlattenRecursion
<1>0. N \in Nat /\ DOMAIN ss = 1..N
  OBVIOUS
<1> DEFINE T == {n \in Nat : n <= N => ToSet(f[n]) = All(n)}
<1>2. 0 \in T
  <2>1. f[0] = <<>> /\ 1..0 = {}
    BY <1>1 DEF Joining
  <2> QED BY <2>1, EmptyMembers
<1>3. ASSUME NEW n \in Nat, n \in T PROVE n + 1 \in T
  <2> SUFFICES ASSUME n + 1 <= N PROVE ToSet(f[n + 1]) = All(n + 1)
    OBVIOUS
  <2>1. n + 1 \in 1..N /\ (n + 1) - 1 = n /\ n \in 0..N
    BY <1>0
  <2>7. f[n + 1] = f[(n + 1) - 1] \o ss[n + 1]
    <3> HIDE DEF N
    <3> QED BY <1>1, <2>1 DEF Joining, N
  <2>8. ss[n + 1] \in Seq(D)
    BY <2>1
  <2>9. f[n] \in Seq(D)
    <3> HIDE DEF N
    <3> QED BY <1>1, <2>1
  <2>2. f[n + 1] = f[n] \o ss[n + 1] /\ f[n] \in Seq(D) /\ ss[n + 1] \in Seq(D)
    BY <2>1, <2>7, <2>8, <2>9
  <2>3. ToSet(f[n + 1]) = ToSet(f[n]) \cup ToSet(ss[n + 1])
    BY <2>2, ConcatMembers
  <2>4. ToSet(f[n]) = All(n)
    BY <1>3, <2>1
  <2>5. 1..n + 1 = (1..n) \cup {n + 1}
    BY <1>3
  <2>6. All(n + 1) = All(n) \cup ToSet(ss[n + 1])
    BY <2>5
  <2> QED BY <2>3, <2>4, <2>6
<1>4. N \in T
  <2> HIDE DEF T, N
  <2> QED BY <1>0, <1>2, <1>3, Inductive
<1>5. N \in 0..N /\ N <= N
  BY <1>0
<1> QED BY <1>0, <1>1, <1>4, <1>5

IsSeq(s) == s \in Seq(ToSet(s))

\* A sequence over a set is one over its own members.
LEMMA SeqOfMembers == ASSUME NEW D, NEW s \in Seq(D) PROVE IsSeq(s) /\ ToSet(s) \subseteq D
<1>1. s = [n \in 1..Len(s) |-> s[n]] /\ Len(s) \in Nat /\ DOMAIN s = 1..Len(s)
  OBVIOUS
<1>2. \A n \in 1..Len(s) : s[n] \in ToSet(s)
  BY <1>1 DEF ToSet
<1>3. s \in Seq(ToSet(s))
  BY <1>1, <1>2
<1> QED BY <1>1, <1>3 DEF IsSeq, ToSet

\* Two sequences joined, without naming a set that holds both.
LEMMA Joined ==
  ASSUME NEW s, NEW t, IsSeq(s), IsSeq(t)
  PROVE  IsSeq(s \o t) /\ ToSet(s \o t) = ToSet(s) \cup ToSet(t)
<1> DEFINE D == ToSet(s) \cup ToSet(t)
<1>1. s \in Seq(D) /\ t \in Seq(D)
  <2>1. ToSet(s) \subseteq D /\ ToSet(t) \subseteq D
    OBVIOUS
  <2> HIDE DEF D
  <2> QED BY <2>1, SeqMonotonic DEF IsSeq
<1> HIDE DEF D
<1>2. s \o t \in Seq(D) /\ ToSet(s \o t) = ToSet(s) \cup ToSet(t)
  BY <1>1, ConcatMembers
<1> QED BY <1>2, SeqOfMembers

\* A family of sequences joined, without naming a set that holds them.
LEMMA Flattened ==
  ASSUME NEW N \in Nat, NEW ss, ss = [n \in 1..N |-> ss[n]], \A n \in 1..N : IsSeq(ss[n])
  PROVE  IsSeq(FlattenSeq(ss)) /\ ToSet(FlattenSeq(ss)) = UNION {ToSet(ss[n]) : n \in 1..N}
<1> DEFINE D == UNION {ToSet(ss[n]) : n \in 1..N}
<1>1. \A n \in 1..N : ss[n] \in Seq(D)
  <2> SUFFICES ASSUME NEW n \in 1..N PROVE ss[n] \in Seq(D)
    OBVIOUS
  <2>1. ToSet(ss[n]) \subseteq D /\ ss[n] \in Seq(ToSet(ss[n]))
    BY DEF IsSeq
  <2> HIDE DEF D
  <2> QED BY <2>1, SeqMonotonic
<1>2. ss \in Seq(Seq(D)) /\ DOMAIN ss = 1..N
  <2> HIDE DEF D
  <2> QED BY <1>1
<1> HIDE DEF D
<1>3. FlattenSeq(ss) \in Seq(D) /\ ToSet(FlattenSeq(ss)) = UNION {ToSet(ss[n]) : n \in 1..N}
  BY <1>2, FlattenMembers
<1> QED BY <1>3, SeqOfMembers

-----------------------------------------------------------------------------
(* Prefixes.                                                               *)

Begins(s, t) == Len(s) <= Len(t) /\ \A n \in 1..Len(s) : s[n] = t[n]

\* IsPrefix of the library, by positions.
LEMMA PrefixBegins ==
  ASSUME NEW s, NEW t, IsSeq(s), IsSeq(t)
  PROVE  IsPrefix(s, t) <=> Begins(s, t)
<1> USE DEF IsSeq
<1>1. Len(s) \in Nat /\ Len(t) \in Nat /\ \A n \in 1..Len(t) : t[n] \in ToSet(t)
  OBVIOUS
<1>2. SubSeq(s, 1, Len(s)) = s
  BY SubSeqFull
<1> SUFFICES ASSUME Len(s) <= Len(t)
             PROVE  s = SubSeq(t, 1, Len(s)) <=> \A n \in 1..Len(s) : s[n] = t[n]
  BY <1>2 DEF IsPrefix, Begins
<1> DEFINE u == SubSeq(t, 1, Len(s))
<1>3. u = [n \in 1..Len(s) |-> t[n]]
  BY <1>1
<1>4. s = [n \in 1..Len(s) |-> s[n]]
  OBVIOUS
<1> HIDE DEF u
<1> QED BY <1>3, <1>4 DEF u

\* A prefix of a prefix is a prefix.
LEMMA PrefixTransitive ==
  ASSUME NEW s, NEW t, NEW u, IsSeq(s), IsSeq(t), IsSeq(u), IsPrefix(s, t), IsPrefix(t, u)
  PROVE  IsPrefix(s, u)
<1>1. Begins(s, t) /\ Begins(t, u)
  BY PrefixBegins
<1>2. Len(s) \in Nat /\ Len(t) \in Nat /\ Len(u) \in Nat
  BY DEF IsSeq
<1>3. Begins(s, u)
  BY <1>1, <1>2 DEF Begins
<1> QED BY <1>3, PrefixBegins

\* What begins with the same word have a common prefix that is not empty.
LEMMA CommonPrefix ==
  ASSUME NEW S, NEW w, NEW some \in S, \A s \in S : IsSeq(s) /\ Len(s) >= 1 /\ s[1] = w
  PROVE  LET q == LongestCommonPrefix(S)
         IN IsSeq(q) /\ Len(q) >= 1 /\ \A s \in S : IsPrefix(q, s)
<1> DEFINE C == CommonPrefixes(S)
<1>1. ASSUME NEW q \in C PROVE IsSeq(q) /\ \A s \in S : IsPrefix(q, s)
  <2>1. (\A s \in S : IsPrefix(q, s)) /\ \E s \in S : q \in Prefixes(s)
    BY <1>1 DEF CommonPrefixes
  <2>2. PICK s \in S : q \in Prefixes(s)
    BY <2>1
  <2>3. s \in Seq(ToSet(s)) /\ Len(s) \in Nat /\ \A n \in 1..Len(s) : s[n] \in ToSet(s)
    BY DEF IsSeq
  <2>4. q \in Seq(ToSet(s))
    <3>1. CASE q = <<>>
      BY <3>1
    <3>2. CASE \E l \in 1..Len(s) : q = SubSeq(s, 1, l)
      <4>1. PICK l \in 1..Len(s) : q = SubSeq(s, 1, l)
        BY <3>2
      <4> QED BY <2>3, <4>1
    <3> QED BY <2>2, <3>1, <3>2 DEF Prefixes
  <2> QED BY <2>1, <2>4, SeqOfMembers
<1>2. <<w>> \in C
  <2>1. Len(some) \in Nat /\ some \in Seq(ToSet(some)) /\ some[1] = w /\ 1 \in 1..Len(some) /\ some[1] \in ToSet(some)
    BY DEF IsSeq
  <2>2. SubSeq(some, 1, 1) = <<w>>
    <3>1. SubSeq(some, 1, 1) \in Seq(ToSet(some)) /\ Len(SubSeq(some, 1, 1)) = 1 /\ SubSeq(some, 1, 1)[1] = some[1]
      BY <2>1, SubSeqProperties
    <3>2. <<w>> \in Seq(ToSet(some)) /\ Len(<<w>>) = 1 /\ <<w>>[1] = w
      BY <2>1
    <3>3. \A i \in 1..1 : SubSeq(some, 1, 1)[i] = <<w>>[i]
      BY <2>1, <3>1, <3>2
    <3> QED BY <3>1, <3>2, <3>3, SeqEqual
  <2>3. <<w>> \in Prefixes(some)
    BY <2>1, <2>2 DEF Prefixes
  <2>4. ASSUME NEW s \in S PROVE IsPrefix(<<w>>, s)
    <3>1. <<w>> \in Seq({w}) /\ Len(<<w>>) = 1 /\ <<w>>[1] = w
      OBVIOUS
    <3>2. IsSeq(<<w>>)
      BY <3>1, SeqOfMembers
    <3>3. Len(s) \in Nat
      BY DEF IsSeq
    <3>4. Begins(<<w>>, s)
      BY <3>1, <3>3 DEF Begins
    <3> QED BY <3>2, <3>4, PrefixBegins
  <2> QED BY <2>3, <2>4 DEF CommonPrefixes
<1>3. \A q \in C : Len(q) \in Nat /\ Len(q) <= Len(some)
  <2> SUFFICES ASSUME NEW q \in C PROVE Len(q) \in Nat /\ Len(q) <= Len(some)
    OBVIOUS
  <2>1. IsSeq(q) /\ IsPrefix(q, some)
    BY <1>1
  <2> QED BY <2>1 DEF IsSeq, IsPrefix
<1> HIDE DEF C
<1> DEFINE T == {Len(some) - Len(q) : q \in C}
<1>4. \E q \in C : \A r \in C : Len(r) <= Len(q)
  <2>1. Len(some) \in Nat
    BY DEF IsSeq
  <2>2. T \subseteq Nat /\ T # {}
    BY <1>2, <1>3, <2>1
  <2>3. PICK m \in T : \A n \in T : m <= n
    <3> HIDE DEF T
    <3> QED BY <2>2, LeastNumber
  <2>4. PICK q \in C : m = Len(some) - Len(q)
    OBVIOUS
  <2>5. ASSUME NEW r \in C PROVE Len(r) <= Len(q)
    <3>1. m <= Len(some) - Len(r)
      BY <2>3
    <3> QED BY <1>3, <2>1, <2>4, <3>1
  <2> QED BY <2>5
<1> DEFINE q == LongestCommonPrefix(S)
<1>5. q = CHOOSE x \in C : \A r \in C : Len(r) <= Len(x)
  BY DEF LongestCommonPrefix, C
<1>6. q \in C /\ \A r \in C : Len(r) <= Len(q)
  <2> HIDE DEF q
  <2> QED BY <1>4, <1>5
<1>7. Len(<<w>>) <= Len(q)
  BY <1>2, <1>6
<1>8. Len(<<w>>) = 1
  OBVIOUS
<1> QED BY <1>1, <1>6, <1>7, <1>8

-----------------------------------------------------------------------------
(* The menus, and the sections of a router.                                *)

\* Short tuples are sequences, and their members are those written.
LEMMA Tuples ==
  /\ IsSeq(<<>>) /\ ToSet(<<>>) = {}
  /\ \A a : IsSeq(<<a>>) /\ ToSet(<<a>>) = {a}
  /\ \A a, b : IsSeq(<<a, b>>) /\ ToSet(<<a, b>>) = {a, b}
  /\ \A a, b, c : IsSeq(<<a, b, c>>) /\ ToSet(<<a, b, c>>) = {a, b, c}
  /\ \A a, b, c, d : IsSeq(<<a, b, c, d>>) /\ ToSet(<<a, b, c, d>>) = {a, b, c, d}
  /\ \A a, b, c, d, e : IsSeq(<<a, b, c, d, e>>) /\ ToSet(<<a, b, c, d, e>>) = {a, b, c, d, e}
  /\ \A a, b, c, d, e, f :
       IsSeq(<<a, b, c, d, e, f>>) /\ ToSet(<<a, b, c, d, e, f>>) = {a, b, c, d, e, f}
  /\ \A a, b, c, d, e, f, g :
       IsSeq(<<a, b, c, d, e, f, g>>) /\ ToSet(<<a, b, c, d, e, f, g>>) = {a, b, c, d, e, f, g}
<1>1. IsSeq(<<>>) /\ ToSet(<<>>) = {}
  BY DEF IsSeq, ToSet
<1>2. ASSUME NEW a PROVE IsSeq(<<a>>) /\ ToSet(<<a>>) = {a}
  <2>1. <<a>> \in Seq({a}) /\ DOMAIN <<a>> = 1..1 /\ <<a>>[1] = a
    OBVIOUS
  <2>2. ToSet(<<a>>) = {a}
    BY <2>1 DEF ToSet
  <2> QED BY <2>1, <2>2, SeqOfMembers
<1>3. ASSUME NEW a, NEW b PROVE IsSeq(<<a, b>>) /\ ToSet(<<a, b>>) = {a, b}
  <2>1. <<a, b>> \in Seq({a, b}) /\ DOMAIN <<a, b>> = 1..2 /\ <<a, b>>[1] = a /\ <<a, b>>[2] = b
    OBVIOUS
  <2>2. ToSet(<<a, b>>) = {a, b}
    BY <2>1 DEF ToSet
  <2> QED BY <2>1, <2>2, SeqOfMembers
<1>4. ASSUME NEW a, NEW b, NEW c PROVE IsSeq(<<a, b, c>>) /\ ToSet(<<a, b, c>>) = {a, b, c}
  <2> DEFINE t == <<a, b, c>>
  <2>1. t \in Seq({a, b, c}) /\ DOMAIN t = 1..3 /\ t[1] = a /\ t[2] = b /\ t[3] = c
    OBVIOUS
  <2> HIDE DEF t
  <2>2. ToSet(t) = {a, b, c}
    BY <2>1 DEF ToSet
  <2> QED BY <2>1, <2>2, SeqOfMembers DEF t
<1>5. ASSUME NEW a, NEW b, NEW c, NEW d PROVE IsSeq(<<a, b, c, d>>) /\ ToSet(<<a, b, c, d>>) = {a, b, c, d}
  <2> DEFINE t == <<a, b, c, d>>
  <2>1. t \in Seq({a, b, c, d}) /\ DOMAIN t = 1..4 /\ t[1] = a /\ t[2] = b /\ t[3] = c /\ t[4] = d
    OBVIOUS
  <2> HIDE DEF t
  <2>2. ToSet(t) = {a, b, c, d}
    BY <2>1 DEF ToSet
  <2> QED BY <2>1, <2>2, SeqOfMembers DEF t
<1>6. ASSUME NEW a, NEW b, NEW c, NEW d, NEW e
      PROVE  IsSeq(<<a, b, c, d, e>>) /\ ToSet(<<a, b, c, d, e>>) = {a, b, c, d, e}
  <2> DEFINE t == <<a, b, c, d, e>>
  <2>1. t \in Seq({a, b, c, d, e}) /\ DOMAIN t = 1..5 /\ t[1] = a /\ t[2] = b /\ t[3] = c /\ t[4] = d /\ t[5] = e
    OBVIOUS
  <2> HIDE DEF t
  <2>2. ToSet(t) = {a, b, c, d, e}
    BY <2>1 DEF ToSet
  <2> QED BY <2>1, <2>2, SeqOfMembers DEF t
<1>7. ASSUME NEW a, NEW b, NEW c, NEW d, NEW e, NEW f
      PROVE  IsSeq(<<a, b, c, d, e, f>>) /\ ToSet(<<a, b, c, d, e, f>>) = {a, b, c, d, e, f}
  <2> DEFINE t == <<a, b, c, d, e, f>>
  <2>1. t \in Seq({a, b, c, d, e, f}) /\ DOMAIN t = 1..6 /\ t[1] = a /\ t[2] = b /\ t[3] = c /\ t[4] = d /\ t[5] = e
        /\ t[6] = f
    OBVIOUS
  <2> HIDE DEF t
  <2>2. ToSet(t) = {a, b, c, d, e, f}
    BY <2>1 DEF ToSet
  <2> QED BY <2>1, <2>2, SeqOfMembers DEF t
<1>8. ASSUME NEW a, NEW b, NEW c, NEW d, NEW e, NEW f, NEW g
      PROVE  IsSeq(<<a, b, c, d, e, f, g>>) /\ ToSet(<<a, b, c, d, e, f, g>>) = {a, b, c, d, e, f, g}
  <2> DEFINE t == <<a, b, c, d, e, f, g>>
  <2>1. t \in Seq({a, b, c, d, e, f, g}) /\ DOMAIN t = 1..7 /\ t[1] = a /\ t[2] = b /\ t[3] = c /\ t[4] = d /\ t[5] = e
        /\ t[6] = f /\ t[7] = g
    OBVIOUS
  <2> HIDE DEF t
  <2>2. ToSet(t) = {a, b, c, d, e, f, g}
    BY <2>1 DEF ToSet
  <2> QED BY <2>1, <2>2, SeqOfMembers DEF t
<1> QED BY <1>1, <1>2, <1>3, <1>4, <1>5, <1>6, <1>7, <1>8

-----------------------------------------------------------------------------
(* Menus.                                                                  *)

Index(p) ==
  CASE p = "/interface/bridge" -> 1 [] p = "/interface/bridge/port" -> 2
    [] p = "/interface/eoip" -> 3 [] p = "/interface/gre" -> 4
    [] p = "/interface/vxlan" -> 5 [] p = "/interface/vxlan/vteps" -> 6
    [] p = "/interface/wireguard" -> 7 [] p = "/interface/wireguard/peers" -> 8
    [] p = "/ip/address" -> 9 [] p = "/ip/firewall/address-list" -> 10
    [] p = "/ip/firewall/filter" -> 11 [] p = "/ip/firewall/mangle" -> 12
    [] p = "/ip/firewall/nat" -> 13 [] p = "/ip/ipsec/identity" -> 14
    [] p = "/ip/ipsec/peer" -> 15 [] p = "/ip/ipsec/policy" -> 16
    [] p = "/ip/ipsec/profile" -> 17 [] p = "/ip/ipsec/proposal" -> 18
    [] p = "/ip/route" -> 19 [] p = "/routing/bgp/connection" -> 20
    [] p = "/routing/bgp/instance" -> 21 [] p = "/routing/bgp/template" -> 22

\* The list of menus has each once, at its index.
LEMMA MenusTyped ==
  /\ IsSeq(Menus) /\ Len(Menus) = 22 /\ DOMAIN Menus = 1..22
  /\ \A n \in 1..22 : Index(Menus[n]) = n
<1>11. Len(Menus) = 22
  BY DEF Menus
<1>12. DOMAIN Menus = 1..22
  BY DEF Menus
<1>13. Menus = [n \in 1..22 |-> Menus[n]]
  BY DEF Menus
<1>1. Menus \in Seq({Menus[n] : n \in 1..22}) /\ Len(Menus) = 22 /\ DOMAIN Menus = 1..22
  BY <1>11, <1>12, <1>13
<1>2. ASSUME NEW n \in 1..22 PROVE Index(Menus[n]) = n
  <2>1. CASE n = 1  BY <2>1 DEF Menus, Index
  <2>2. CASE n = 2  BY <2>2 DEF Menus, Index
  <2>3. CASE n = 3  BY <2>3 DEF Menus, Index
  <2>4. CASE n = 4  BY <2>4 DEF Menus, Index
  <2>5. CASE n = 5  BY <2>5 DEF Menus, Index
  <2>6. CASE n = 6  BY <2>6 DEF Menus, Index
  <2>7. CASE n = 7  BY <2>7 DEF Menus, Index
  <2>8. CASE n = 8  BY <2>8 DEF Menus, Index
  <2>9. CASE n = 9  BY <2>9 DEF Menus, Index
  <2>10. CASE n = 10  BY <2>10 DEF Menus, Index
  <2>11. CASE n = 11  BY <2>11 DEF Menus, Index
  <2>12. CASE n = 12  BY <2>12 DEF Menus, Index
  <2>13. CASE n = 13  BY <2>13 DEF Menus, Index
  <2>14. CASE n = 14  BY <2>14 DEF Menus, Index
  <2>15. CASE n = 15  BY <2>15 DEF Menus, Index
  <2>16. CASE n = 16  BY <2>16 DEF Menus, Index
  <2>17. CASE n = 17  BY <2>17 DEF Menus, Index
  <2>18. CASE n = 18  BY <2>18 DEF Menus, Index
  <2>19. CASE n = 19  BY <2>19 DEF Menus, Index
  <2>20. CASE n = 20  BY <2>20 DEF Menus, Index
  <2>21. CASE n = 21  BY <2>21 DEF Menus, Index
  <2>22. CASE n = 22  BY <2>22 DEF Menus, Index
  <2> QED BY <2>1, <2>2, <2>3, <2>4, <2>5, <2>6, <2>7, <2>8, <2>9, <2>10, <2>11, <2>12, <2>13,
             <2>14, <2>15, <2>16, <2>17, <2>18, <2>19, <2>20, <2>21, <2>22
<1> QED BY <1>1, <1>2, SeqOfMembers

\* The menus by name.
LEMMA PathsListed ==
  /\ Paths = {"/interface/bridge", "/interface/bridge/port", "/interface/eoip",
           "/interface/gre", "/interface/vxlan", "/interface/vxlan/vteps",
           "/interface/wireguard", "/interface/wireguard/peers", "/ip/address",
           "/ip/firewall/address-list", "/ip/firewall/filter",
           "/ip/firewall/mangle", "/ip/firewall/nat", "/ip/ipsec/identity",
           "/ip/ipsec/peer", "/ip/ipsec/policy", "/ip/ipsec/profile",
           "/ip/ipsec/proposal", "/ip/route", "/routing/bgp/connection",
           "/routing/bgp/instance", "/routing/bgp/template"}
<1>1. Paths = {Menus[n] : n \in 1..22}
  BY MenusTyped DEF Paths, ToSet
<1>2. 1..22 = {1, 2, 3, 4, 5, 6, 7, 8, 9, 10, 11, 12, 13, 14, 15, 16, 17, 18, 19, 20, 21, 22}
  OBVIOUS
<1> QED BY <1>1, <1>2 DEF Menus

\* PathIndex of merge_sections is the index in the list.
LEMMA PathsIndexed ==
  /\ IsFiniteSet(Paths)
  /\ \A p \in Paths : PathIndex(p) = Index(p) /\ Index(p) \in 1..22
  /\ \A p, q \in Paths : Index(p) = Index(q) => p = q
<1>1. Paths = {Menus[n] : n \in 1..22}
  BY MenusTyped DEF Paths, ToSet
<1>2. ASSUME NEW p \in Paths PROVE PathIndex(p) = Index(p) /\ Index(p) \in 1..22 /\ Menus[Index(p)] = p
  <2>1. PICK n \in 1..22 : Menus[n] = p
    BY <1>1
  <2>2. n = Index(p)
    BY <2>1, MenusTyped
  <2>3. \A m \in DOMAIN Menus : Menus[m] = p => m = n
    BY <2>1, MenusTyped
  <2>4. PathIndex(p) = n
    BY <2>1, <2>3, MenusTyped DEF PathIndex
  <2> QED BY <2>1, <2>2, <2>4
<1>3. IsFiniteSet(Paths)
  <2>1. IsFiniteSet(1..22)
    BY FS_Interval, 1 \in Int, 22 \in Int
  <2> DEFINE f == [n \in 1..22 |-> Menus[n]]
  <2>2. f \in Surjection(1..22, Paths)
    BY <1>1 DEF Surjection
  <2> HIDE DEF f
  <2> QED BY <2>1, <2>2, FS_Surjection
<1> QED BY <1>2, <1>3

-----------------------------------------------------------------------------
\* The links of an intent, in order, are its links.
LEMMA LinksInOrder ==
  ASSUME NEW ls, ls \subseteq ToSet(Links)
  PROVE  IsSeq(InOrder(ls)) /\ ToSet(InOrder(ls)) = ls
<1>1. InOrder(ls) \in Seq(ToSet(Links)) /\ ToSet(InOrder(ls)) = ls
  <2>1. Only(Links, ls) \in Seq(ToSet(Links))
    BY LinksAssumption, OnlyTyped
  <2>2. ToSet(Only(Links, ls)) = ToSet(Links) \cap ls
    BY LinksAssumption, OnlyMembers
  <2> QED BY <2>1, <2>2 DEF InOrder
<1> QED BY <1>1, SeqOfMembers

\* One of something for each member of a sequence.
LEMMA OneEach ==
  ASSUME NEW q, IsSeq(q), NEW t, t = [n \in 1..Len(q) |-> t[n]]
  PROVE  /\ IsSeq(t) /\ Len(t) = Len(q) /\ DOMAIN t = 1..Len(q)
         /\ ToSet(t) = {t[n] : n \in 1..Len(q)}
         /\ Len(q) \in Nat /\ ToSet(q) = {q[n] : n \in 1..Len(q)}
<1>1. Len(q) \in Nat /\ DOMAIN q = 1..Len(q)
  BY DEF IsSeq
<1>2. DOMAIN t = 1..Len(q) /\ t \in Seq({t[n] : n \in 1..Len(q)})
  BY <1>1
<1>3. Len(t) = Len(q)
  BY <1>1, <1>2
<1>4. ToSet(t) = {t[n] : n \in 1..Len(q)} /\ ToSet(q) = {q[n] : n \in 1..Len(q)}
  BY <1>1, <1>2 DEF ToSet
<1> QED BY <1>1, <1>2, <1>3, <1>4 DEF IsSeq

Parts(i) == ToSet(Rendered(i))

FabricParts(i) ==
  (UNION {ToSet(RenderLink(i, l)) : l \in i.links}) \cup ToSet(Bgp(i)) \cup {UnderlayRoutes(i), MssClamp(i)}

\* Every transport renders a sequence of sections.
LEMMA LinkSections == \A i, l : IsIntent(i) => IsSeq(RenderLink(i, l))
<1> SUFFICES ASSUME NEW i, NEW l, IsIntent(i) PROVE IsSeq(RenderLink(i, l))
  OBVIOUS
<1>1. IsSeq(IpsecGre(i, l))
  BY Tuples DEF IpsecGre
<1>2. IsSeq(Plain(i, l))
  BY Tuples DEF Plain
<1>3. IsSeq(WireGuard(i, l))
  BY Tuples DEF WireGuard
<1>4. IsSeq(Vxlan(i, l))
  BY Tuples DEF Vxlan
<1>5. IsSeq(Eoip(i, l))
  BY Tuples DEF Eoip
<1>6. i.transport \in Transports
  BY DEF IsIntent
<1> QED BY <1>1, <1>2, <1>3, <1>4, <1>5, <1>6 DEF RenderLink, Transports

\* The sections that RenderFabric joins.
LEMMA FabricOf ==
  ASSUME NEW i, IsIntent(i)
  PROVE  IsSeq(RenderFabric(i)) /\ ToSet(RenderFabric(i)) = FabricParts(i)
<1> DEFINE q == InOrder(i.links)
           ss == [n \in 1..Len(q) |-> RenderLink(i, q[n])]
<1>1. IsSeq(q) /\ ToSet(q) = i.links
  BY LinksInOrder DEF IsIntent
<1>2. Len(q) \in Nat /\ ToSet(q) = {q[n] : n \in 1..Len(q)}
  <2> HIDE DEF q
  <2>1. q = [n \in 1..Len(q) |-> q[n]]
    BY <1>1 DEF IsSeq
  <2> QED BY <1>1, <2>1, OneEach
<1>3. PerLink(i, LAMBDA l : RenderLink(i, l)) = ss
  BY DEF PerLink
<1>4. IsSeq(FlattenSeq(ss)) /\ ToSet(FlattenSeq(ss)) = UNION {ToSet(RenderLink(i, l)) : l \in i.links}
  <2> HIDE DEF q
  <2>1. ss = [n \in 1..Len(q) |-> ss[n]] /\ \A n \in 1..Len(q) : ss[n] = RenderLink(i, q[n])
    OBVIOUS
  <2> HIDE DEF ss
  <2>2. \A n \in 1..Len(q) : IsSeq(ss[n])
    BY <2>1, LinkSections
  <2>3. IsSeq(FlattenSeq(ss)) /\ ToSet(FlattenSeq(ss)) = UNION {ToSet(ss[n]) : n \in 1..Len(q)}
    BY <1>2, <2>1, <2>2, Flattened
  <2>4. UNION {ToSet(ss[n]) : n \in 1..Len(q)} = UNION {ToSet(RenderLink(i, l)) : l \in i.links}
    <3>1. \A x : (\E n \in 1..Len(q) : x \in ToSet(ss[n])) <=> \E l \in i.links : x \in ToSet(RenderLink(i, l))
      BY <1>1, <1>2, <2>1
    <3> QED BY <3>1
  <2> QED BY <2>3, <2>4
<1>5. IsSeq(Bgp(i))
  BY Tuples DEF Bgp
<1>6. IsSeq(<<UnderlayRoutes(i), MssClamp(i)>>) /\ ToSet(<<UnderlayRoutes(i), MssClamp(i)>>) = {UnderlayRoutes(i), MssClamp(i)}
  BY Tuples
<1>7. RenderFabric(i) = FlattenSeq(ss) \o Bgp(i) \o <<UnderlayRoutes(i), MssClamp(i)>>
  BY <1>3 DEF RenderFabric
<1> DEFINE a == FlattenSeq(ss) b == Bgp(i) c == <<UnderlayRoutes(i), MssClamp(i)>>
<1> HIDE DEF a, b, c
<1>8. IsSeq(a) /\ IsSeq(b) /\ IsSeq(c)
  BY <1>4, <1>5, <1>6 DEF a, b, c
<1>9. IsSeq(a \o b) /\ ToSet(a \o b) = ToSet(a) \cup ToSet(b)
  BY <1>8, Joined
<1>10. IsSeq((a \o b) \o c) /\ ToSet((a \o b) \o c) = ToSet(a \o b) \cup ToSet(c)
  BY <1>8, <1>9, Joined
<1>11. RenderFabric(i) = (a \o b) \o c
  BY <1>7 DEF a, b, c
<1>13. c = <<UnderlayRoutes(i), MssClamp(i)>> /\ a = FlattenSeq(ss) /\ b = Bgp(i)
  BY DEF a, b, c
<1>12. ToSet(a) = UNION {ToSet(RenderLink(i, l)) : l \in i.links} /\ ToSet(c) = {UnderlayRoutes(i), MssClamp(i)}
  BY <1>4, <1>6, <1>13, Zenon
<1> QED BY <1>9, <1>10, <1>11, <1>12, <1>13 DEF FabricParts

Sweep(p) == section(p, "tunnel", <<"sdwan", "fabric">>, <<>>)

\* The sections that are there to clean up.
LEMMA CleanupOf == IsSeq(CleanupSections) /\ ToSet(CleanupSections) = {Sweep(p) : p \in Swept}
<1> DEFINE q == Only(Menus, Swept)
           t == [n \in 1..Len(q) |-> Sweep(q[n])]
<1>1. IsSeq(q) /\ ToSet(q) = Swept
  <2>1. Menus \in Seq(Paths)
    BY MenusTyped DEF IsSeq, Paths
  <2>2. q \in Seq(Paths) /\ ToSet(q) = Paths \cap Swept
    BY <2>1, OnlyTyped, OnlyMembers DEF Paths
  <2>3. Paths \cap Swept = Swept
    BY DEF Swept
  <2> QED BY <2>2, <2>3, SeqOfMembers
<1>2. CleanupSections = t
  BY DEF CleanupSections, Sweep
<1> HIDE DEF q
<1>3. t = [n \in 1..Len(q) |-> t[n]] /\ \A n \in 1..Len(q) : t[n] = Sweep(q[n])
  OBVIOUS
<1> HIDE DEF t
<1>4. IsSeq(t) /\ ToSet(t) = {t[n] : n \in 1..Len(q)} /\ ToSet(q) = {q[n] : n \in 1..Len(q)}
  BY <1>1, <1>3, OneEach
<1>5. ToSet(t) = {Sweep(p) : p \in Swept}
  BY <1>1, <1>3, <1>4
<1> QED BY <1>2, <1>4, <1>5

\* All the sections of a router before they are merged.
LEMMA PartsOf ==
  ASSUME NEW i, IsIntent(i)
  PROVE  /\ IsSeq(Rendered(i))
         /\ Parts(i) = ToSet(RenderSite(i)) \cup {Sweep(p) : p \in Swept}
                         \cup (IF i.links = {} THEN {} ELSE FabricParts(i)) \cup ToSet(RenderFirewall(i))
<1> DEFINE a == RenderSite(i) b == CleanupSections
           c == IF i.links = {} THEN <<>> ELSE RenderFabric(i)
           d == RenderFirewall(i)
<1>1. Rendered(i) = ((a \o b) \o c) \o d
  BY DEF Rendered
<1>2. IsSeq(a)
  BY Tuples DEF RenderSite
<1>3. IsSeq(b) /\ ToSet(b) = {Sweep(p) : p \in Swept}
  BY CleanupOf
<1>4. IsSeq(c) /\ ToSet(c) = IF i.links = {} THEN {} ELSE FabricParts(i)
  <2>1. CASE i.links = {}
    BY <2>1, Tuples
  <2>2. CASE i.links # {}
    BY <2>2, FabricOf
  <2> QED BY <2>1, <2>2
<1>5. IsSeq(d)
  BY Tuples DEF RenderFirewall
<1> DEFINE e == IF i.links = {} THEN {} ELSE FabricParts(i)
<1> HIDE DEF a, b, c, d, e
<1>6. IsSeq(a \o b) /\ ToSet(a \o b) = ToSet(a) \cup ToSet(b)
  BY <1>2, <1>3, Joined
<1>7. IsSeq((a \o b) \o c) /\ ToSet((a \o b) \o c) = ToSet(a \o b) \cup ToSet(c)
  BY <1>4, <1>6, Joined
<1>8. IsSeq(((a \o b) \o c) \o d) /\ ToSet(((a \o b) \o c) \o d) = ToSet((a \o b) \o c) \cup ToSet(d)
  BY <1>5, <1>7, Joined
<1>9. ToSet(c) = e
  BY <1>4 DEF e
<1>10. Parts(i) = ToSet(a) \cup {Sweep(p) : p \in Swept} \cup e \cup ToSet(d)
  BY <1>1, <1>3, <1>6, <1>7, <1>8, <1>9 DEF Parts
<1> QED BY <1>1, <1>8, <1>10 DEF a, d, e

-----------------------------------------------------------------------------
(* Every section asks for good rows: the one row its name stands for, in   *)
(* the scope of its tag.                                                   *)

Low(p) ==
  CASE p = "/ip/firewall/address-list" -> 10 [] p = "/routing/bgp/instance" -> 14
    [] p = "/routing/bgp/template" -> 16 [] p = "/interface/bridge" -> 20
    [] p = "/ip/ipsec/profile" -> 30 [] p = "/ip/ipsec/proposal" -> 31
    [] p = "/ip/ipsec/peer" -> 32 [] p = "/ip/ipsec/identity" -> 33
    [] p = "/ip/ipsec/policy" -> 34
    [] p \in {"/ip/firewall/nat", "/ip/firewall/filter"} -> 70
    [] OTHER -> 40

\* What the tags of a menu's rows may begin with.
Scopes(i, p) ==
  CASE p = "/ip/firewall/nat" -> {<<"sdwan", "firewall", i.site, "nat">>}
    [] p = "/ip/firewall/filter" -> {<<"sdwan", "firewall", i.site, "input">>}
    [] p \in {"/interface/bridge", "/ip/address", "/ip/firewall/address-list"} ->
         {<<"sdwan", "fabric">>, <<"sdwan", "site">>}
    [] OTHER -> {<<"sdwan", "fabric">>}

\* The row that its menu and its name stand for.
Canon(i, p, n) ==
  CASE p = "/interface/bridge" ->
         IF n = <<"sdwan-lo">> THEN Row(n, {}, 0, <<"sdwan", "site", i.site, "loopback">>)
                               ELSE Row(n, {}, 0, <<"sdwan", "fabric", "core", i.site, "l2-bridge">>)
    [] p = "/interface/bridge/port" ->
         Row(n, {Iface(i, n[2]), <<"/interface/bridge", <<"sdwan-l2">>>>}, 0, LinkTag(n[2], "l2-port"))
    [] p = "/interface/eoip" -> Row(n, {}, i.params, LinkTag(n[2], "eoip"))
    [] p = "/interface/gre" -> Row(n, {}, i.params, LinkTag(n[2], "gre"))
    [] p = "/interface/vxlan" -> Row(n, {}, i.params, LinkTag(n[2], "vxlan"))
    [] p = "/interface/vxlan/vteps" -> Row(n, {Iface(i, n[2])}, 0, LinkTag(n[2], "vxlan-peer"))
    [] p = "/interface/wireguard" -> Row(n, {}, i.params, LinkTag(n[2], "wg"))
    [] p = "/interface/wireguard/peers" -> Row(n, {Iface(i, n[2])}, 0, LinkTag(n[2], "wg-peer"))
    [] p = "/ip/address" ->
         IF n = <<"loopback">>
         THEN Row(n, {<<"/interface/bridge", <<"sdwan-lo">>>>}, 0, <<"sdwan", "site", i.site, "loopback-address">>)
         ELSE Row(n, {Iface(i, n[2])}, 0, LinkTag(n[2], "address"))
    [] p = "/ip/firewall/address-list" ->
         IF n = <<"adv">> THEN Row(n, {}, 0, SiteTag(i, <<"bgp-network">>))
                          ELSE Row(n, {}, 0, <<"sdwan", "site", i.site, "local">>)
    [] p \in {"/ip/firewall/filter", "/ip/firewall/nat"} -> Row(n, {}, 0, n)
    [] p = "/ip/firewall/mangle" -> Row(n, {Iface(i, n[6])}, 0, n)
    [] p = "/ip/ipsec/identity" -> Row(n, {<<"/ip/ipsec/peer", n>>}, 0, LinkTag(n[2], "identity"))
    [] p = "/ip/ipsec/peer" ->
         Row(n, {<<"/ip/ipsec/profile", <<"prof", n[2]>>>>}, 0, LinkTag(n[2], "peer"))
    [] p = "/ip/ipsec/policy" ->
         Row(n, {<<"/ip/ipsec/peer", <<"peer", n[2]>>>>, <<"/ip/ipsec/proposal", <<"prop", n[2]>>>>}, 0,
             LinkTag(n[2], "policy"))
    [] p = "/ip/ipsec/profile" -> Row(n, {}, i.params, LinkTag(n[2], "profile"))
    [] p = "/ip/ipsec/proposal" -> Row(n, {}, i.params, LinkTag(n[2], "proposal"))
    [] p = "/ip/route" -> Row(n, {}, 0, SiteTag(i, <<"underlay", n[2]>>))
    [] p = "/routing/bgp/connection" ->
         Row(n, {<<"/routing/bgp/instance", <<"bgp">>>>, <<"/routing/bgp/template", <<"bgp">>>>}, 0,
             SiteTag(i, <<"bgp", n[2]>>))
    [] p = "/routing/bgp/instance" -> Row(n, {}, 0, SiteTag(i, <<"bgp-instance">>))
    [] p = "/routing/bgp/template" -> Row(n, {}, 0, SiteTag(i, <<"bgp-template">>))

\* The transports whose sections are in an order that a first apply can follow.
Layer3(i) == i.transport \in {"ipsec_gre", "gre", "wireguard"}

\* Menu q is applied before menu p.
Ahead(q, p) == Low(q) < Low(p) \/ (Low(q) = Low(p) /\ Index(q) < Index(p))

\* A row of menu p may name x: it is there, and earlier.
Target(i, p, x) ==
  /\ x[1] \in Paths
  /\ \E t \in Parts(i) : t.path = x[1] /\ t.order = Low(x[1]) /\ \E r \in ToSet(t.items) : r.name = x[2]
  /\ Layer3(i) => Ahead(x[1], p)

GoodRow(i, p, r) ==
  /\ r = Canon(i, p, r.name) /\ r.name # <<"by hand">> /\ r.val \in Int
  /\ r = Row(r.name, r.refs, r.val, r.tag)
  /\ IsSeq(r.tag) /\ \E x \in Scopes(i, p) : IsPrefix(x, r.tag)
  /\ \A x \in r.refs : Target(i, p, x)

Profile == "/ip/ipsec/profile"

Good(i, s) ==
  /\ s.path \in Paths /\ s.order \in Int /\ Low(s.path) <= s.order
  /\ IsSeq(s.owner) /\ Len(s.owner) >= 1 /\ s.owner[1] = "sdwan"
  /\ IsSeq(s.items) /\ \A r \in ToSet(s.items) : GoodRow(i, s.path, r)
  /\ s.comment_capable = (s.path # Profile \/ s.items = <<>>)

\* (Written once: the provers want it by name.)
LEMMA Zero == 0 \in Int
OBVIOUS

\* The orders of the menus that the proofs compare.
LEMMA Lows ==
  /\ Low("/ip/firewall/address-list") = 10 /\ Low("/routing/bgp/instance") = 14
  /\ Low("/routing/bgp/template") = 16 /\ Low("/interface/bridge") = 20
  /\ Low("/ip/ipsec/profile") = 30 /\ Low("/ip/ipsec/proposal") = 31
  /\ Low("/ip/ipsec/peer") = 32 /\ Low("/ip/ipsec/identity") = 33
  /\ Low("/ip/ipsec/policy") = 34 /\ Low("/ip/firewall/nat") = 70 /\ Low("/ip/firewall/filter") = 70
  /\ Low("/routing/bgp/connection") = 40 /\ Low("/ip/address") = 40
BY DEF Low

\* A tag of the fabric is in the scope of the fabric.
LEMMA FabricTag ==
  \A a, b, c : /\ IsSeq(<<"sdwan", "fabric", a, b, c>>)
               /\ IsPrefix(<<"sdwan", "fabric">>, <<"sdwan", "fabric", a, b, c>>)
<1> SUFFICES ASSUME NEW a, NEW b, NEW c
             PROVE  /\ IsSeq(<<"sdwan", "fabric", a, b, c>>)
                    /\ IsPrefix(<<"sdwan", "fabric">>, <<"sdwan", "fabric", a, b, c>>)
  OBVIOUS
<1> DEFINE s == <<"sdwan", "fabric">> t == <<"sdwan", "fabric", a, b, c>>
<1>1. IsSeq(s) /\ IsSeq(t)
  BY Tuples
<1>2. Len(s) = 2 /\ Len(t) = 5 /\ s[1] = t[1] /\ s[2] = t[2]
  OBVIOUS
<1> HIDE DEF s, t
<1>3. Begins(s, t)
  BY <1>2 DEF Begins
<1> QED BY <1>1, <1>3, PrefixBegins DEF s, t

\* A tag of a link begins with "sdwan".
LEMMA TagOfLink == \A l, part : Len(LinkTag(l, part)) >= 1 /\ LinkTag(l, part)[1] = "sdwan"
<1> SUFFICES ASSUME NEW l, NEW part PROVE Len(LinkTag(l, part)) >= 1 /\ LinkTag(l, part)[1] = "sdwan"
  OBVIOUS
<1>1. Len(LinkTag(l, part)) = 5
  BY DEF LinkTag
<1>2. LinkTag(l, part)[1] = "sdwan"
  BY DEF LinkTag
<1>3. Len(LinkTag(l, part)) >= 1
  BY <1>1
<1> QED BY <1>2, <1>3

\* The one-row section of a link is good if its row is the one that its name
\* stands for.
LEMMA OneGood ==
  ASSUME NEW i, NEW l, NEW part, NEW path \in Paths \ {"/ip/firewall/nat", "/ip/firewall/filter", Profile},
         NEW kind, ORDER[kind] \in Int, Low(path) <= ORDER[kind],
         NEW name, name # <<"by hand">>, NEW refs, \A x \in refs : Target(i, path, x), NEW val \in Int,
         Row(name, refs, val, LinkTag(l, part)) = Canon(i, path, name)
  PROVE  Good(i, One(l, part, path, kind, name, refs, val))
<1> DEFINE s == One(l, part, path, kind, name, refs, val)
           r == Row(name, refs, val, LinkTag(l, part))
<1>1. s.path = path /\ s.order = ORDER[kind] /\ s.owner = LinkTag(l, part) /\ s.items = <<r>> /\ s.comment_capable = TRUE
  BY DEF One, section
<1>2. IsSeq(<<r>>) /\ ToSet(<<r>>) = {r}
  BY Tuples
<1>3. r.name = name /\ r.refs = refs /\ r.val = val /\ r.tag = LinkTag(l, part)
  BY DEF Row
<1> HIDE DEF s, r
<1>4. IsSeq(LinkTag(l, part)) /\ IsPrefix(<<"sdwan", "fabric">>, LinkTag(l, part))
  BY FabricTag DEF LinkTag
<1>5. Len(LinkTag(l, part)) >= 1 /\ LinkTag(l, part)[1] = "sdwan"
  BY TagOfLink
<1>6. <<"sdwan", "fabric">> \in Scopes(i, path)
  BY DEF Scopes
<1>7. GoodRow(i, path, r)
  <2>1. r = Canon(i, path, r.name)
    BY <1>3 DEF r
  <2>2. r = Row(r.name, r.refs, r.val, r.tag)
    BY <1>3 DEF r
  <2>3. IsSeq(r.tag) /\ \E x \in Scopes(i, path) : IsPrefix(x, r.tag)
    BY <1>3, <1>4, <1>6
  <2>4. \A x \in r.refs : Target(i, path, x)
    BY <1>3
  <2>5. r.name # <<"by hand">> /\ r.val \in Int
    BY <1>3
  <2> QED BY <2>1, <2>2, <2>3, <2>4, <2>5 DEF GoodRow
<1>8. IsSeq(s.items) /\ \A x \in ToSet(s.items) : GoodRow(i, s.path, x)
  BY <1>1, <1>2, <1>7
<1>9. IsSeq(s.owner) /\ Len(s.owner) >= 1 /\ s.owner[1] = "sdwan"
  BY <1>1, <1>4, <1>5
<1>10. s.comment_capable = (s.path # Profile \/ s.items = <<>>)
  BY <1>1
<1> QED BY <1>1, <1>8, <1>9, <1>10 DEF Good, s

\* What a link and its fabric render is rendered.
LEMMA InFabric ==
  ASSUME NEW i, IsIntent(i), NEW l \in i.links
  PROVE  /\ ToSet(RenderLink(i, l)) \subseteq Parts(i)
         /\ ToSet(Bgp(i)) \subseteq Parts(i) /\ UnderlayRoutes(i) \in Parts(i) /\ MssClamp(i) \in Parts(i)
<1>1. FabricParts(i) \subseteq Parts(i)
  BY PartsOf
<1> QED BY <1>1 DEF FabricParts

\* The row of a one-row section may be referred to by the menus after it.
LEMMA OneHas ==
  ASSUME NEW i, NEW l, NEW part, NEW path \in Paths, NEW kind, NEW name, NEW refs, NEW val,
         One(l, part, path, kind, name, refs, val) \in Parts(i), ORDER[kind] = Low(path),
         NEW p, Layer3(i) => Ahead(path, p)
  PROVE  Target(i, p, <<path, name>>)
<1> DEFINE s == One(l, part, path, kind, name, refs, val)
           r == Row(name, refs, val, LinkTag(l, part))
           x == <<path, name>>
<1>1. s.path = path /\ s.order = ORDER[kind] /\ s.items = <<r>> /\ r.name = name
  BY DEF One, section, Row
<1>2. r \in ToSet(<<r>>)
  BY Tuples
<1>3. x[1] = path /\ x[2] = name
  OBVIOUS
<1> HIDE DEF s, r, x
<1>4. s \in Parts(i)
  BY DEF s
<1> QED BY <1>1, <1>2, <1>3, <1>4 DEF Target, x

\* So may the interface of a link.
LEMMA TunnelHas ==
  ASSUME NEW i, IsIntent(i), NEW l, NEW part, Tunnel(i, l, part) \in Parts(i),
         NEW p, Layer3(i) => Ahead(Iface(i, l)[1], p)
  PROVE  Target(i, p, Iface(i, l))
<1> DEFINE path == Iface(i, l)[1] name == Iface(i, l)[2]
<1>1. path \in Paths /\ ORDER["tunnel"] = Low(path) /\ Iface(i, l) = <<path, name>>
  <2>1. i.transport \in Transports
    BY DEF IsIntent
  <2>2. CASE i.transport \in {"ipsec_gre", "gre"}
    <3>1. Iface(i, l) = <<"/interface/gre", <<"gre", l>>>>
      BY <2>2 DEF Iface
    <3> QED BY <3>1, PathsListed DEF Low, ORDER
  <2>3. CASE i.transport = "wireguard"
    <3>1. Iface(i, l) = <<"/interface/wireguard", <<"wg", l>>>>
      BY <2>3 DEF Iface
    <3> QED BY <3>1, PathsListed DEF Low, ORDER
  <2>4. CASE i.transport = "vxlan"
    <3>1. Iface(i, l) = <<"/interface/vxlan", <<"vxl", l>>>>
      BY <2>4 DEF Iface
    <3> QED BY <3>1, PathsListed DEF Low, ORDER
  <2>5. CASE i.transport = "eoip"
    <3>1. Iface(i, l) = <<"/interface/eoip", <<"eoip", l>>>>
      BY <2>5 DEF Iface
    <3> QED BY <3>1, PathsListed DEF Low, ORDER
  <2> QED BY <2>1, <2>2, <2>3, <2>4, <2>5 DEF Transports
<1>2. Tunnel(i, l, part) = One(l, part, path, "tunnel", name, {}, i.params)
  BY DEF Tunnel
<1> HIDE DEF path, name
<1>3. Target(i, p, <<path, name>>)
  <2>1. Layer3(i) => Ahead(path, p)
    BY DEF path
  <2> QED BY <1>1, <1>2, <2>1, OneHas
<1> QED BY <1>1, <1>3

\* The interface of a link, for each transport that has one.
LEMMA TunnelGood ==
  ASSUME NEW i, IsIntent(i), NEW l, NEW part, NEW path, NEW name, Iface(i, l) = <<path, name>>,
         <<path, name, part>> \in {<<"/interface/gre", <<"gre", l>>, "gre">>, <<"/interface/wireguard", <<"wg", l>>, "wg">>,
                                   <<"/interface/vxlan", <<"vxl", l>>, "vxlan">>, <<"/interface/eoip", <<"eoip", l>>, "eoip">>}
  PROVE  Good(i, Tunnel(i, l, part))
<1>1. Tunnel(i, l, part) = One(l, part, path, "tunnel", name, {}, i.params)
  BY DEF Tunnel
<1>2. path \in Paths \ {"/ip/firewall/nat", "/ip/firewall/filter", Profile}
  BY PathsListed DEF Profile
<1>3. ORDER["tunnel"] \in Int /\ Low(path) <= ORDER["tunnel"]
  BY DEF ORDER, Low
<1>4. name # <<"by hand">>
  <2>1. name \in {<<"gre", l>>, <<"wg", l>>, <<"vxl", l>>, <<"eoip", l>>}
    OBVIOUS
  <2>2. \A a : <<a, l>> # <<"by hand">>
    OBVIOUS
  <2> QED BY <2>1, <2>2
<1>5. Row(name, {}, i.params, LinkTag(l, part)) = Canon(i, path, name)
  <2>1. name[2] = l
    OBVIOUS
  <2> QED BY <2>1 DEF Canon
<1>6. i.params \in Int
  BY DEF IsIntent
<1>7. \A x \in {} : Target(i, path, x)
  OBVIOUS
<1> QED BY <1>1, <1>2, <1>3, <1>4, <1>5, <1>6, <1>7, OneGood

\* Its address refers to it.
LEMMA TunnelAddressGood ==
  ASSUME NEW i, IsIntent(i), NEW l, NEW part, Tunnel(i, l, part) \in Parts(i)
  PROVE  Good(i, TunnelAddress(i, l))
<1> DEFINE path == "/ip/address" name == <<"tunnel", l>>
<1>1. TunnelAddress(i, l) = One(l, "address", path, "address", name, {Iface(i, l)}, 0)
  BY DEF TunnelAddress
<1>2. path \in Paths \ {"/ip/firewall/nat", "/ip/firewall/filter", Profile}
  BY PathsListed DEF Profile
<1>3. ORDER["address"] \in Int /\ Low(path) <= ORDER["address"]
  BY DEF ORDER, Low
<1>4. name # <<"by hand">>
  OBVIOUS
<1>5. Row(name, {Iface(i, l)}, 0, LinkTag(l, "address")) = Canon(i, path, name)
  <2>1. name[2] = l /\ name # <<"loopback">>
    OBVIOUS
  <2> HIDE DEF name
  <2> QED BY <2>1 DEF Canon
<1>6. Layer3(i) => Ahead(Iface(i, l)[1], path)
  BY DEF Layer3, Ahead, Iface, Low, Index
<1>7. \A x \in {Iface(i, l)} : Target(i, path, x)
  BY <1>6, TunnelHas
<1> HIDE DEF path, name
<1>8. 0 \in Int
  OBVIOUS
<1> QED BY <1>1, <1>2, <1>3, <1>4, <1>5, <1>7, <1>8, OneGood

ProfileOf(i, l) ==
  [One(l, "profile", Profile, "crypto_profile", <<"prof", l>>, {}, i.params) EXCEPT !.comment_capable = FALSE]

\* The ipsec profile, whose menu takes no comment.
LEMMA ProfileGood ==
  ASSUME NEW i, IsIntent(i), NEW l
  PROVE  Good(i, ProfileOf(i, l))
<1> DEFINE s == ProfileOf(i, l)
           r == Row(<<"prof", l>>, {}, i.params, LinkTag(l, "profile"))
<1>1. s.path = Profile /\ s.order = 30 /\ s.owner = LinkTag(l, "profile") /\ s.items = <<r>> /\ s.comment_capable = FALSE
  BY DEF ProfileOf, One, section, ORDER
<1>2. IsSeq(<<r>>) /\ ToSet(<<r>>) = {r} /\ <<r>> # <<>>
  BY Tuples
<1>3. IsSeq(LinkTag(l, "profile")) /\ IsPrefix(<<"sdwan", "fabric">>, LinkTag(l, "profile"))
  BY FabricTag DEF LinkTag
<1>4. r.name = <<"prof", l>> /\ r.refs = {} /\ r.val = i.params /\ r.tag = LinkTag(l, "profile")
  BY DEF Row
<1>5. Canon(i, Profile, <<"prof", l>>) = r
  BY DEF Canon, Profile
<1>6. r = Row(r.name, r.refs, r.val, r.tag)
  BY <1>4 DEF r
<1> HIDE DEF s, r
<1>7. GoodRow(i, Profile, r)
  <2>1. <<"sdwan", "fabric">> \in Scopes(i, Profile)
    BY DEF Scopes, Profile
  <2>2. IsSeq(r.tag) /\ \E x \in Scopes(i, Profile) : IsPrefix(x, r.tag)
    BY <1>3, <1>4, <2>1
  <2>3. \A x \in r.refs : Target(i, Profile, x)
    BY <1>4
  <2>4. r.name # <<"by hand">>
    <3>1. <<"prof", l>> # <<"by hand">>
      OBVIOUS
    <3> QED BY <1>4, <3>1
  <2>5. r.val \in Int
    BY <1>4 DEF IsIntent
  <2>6. r = Canon(i, Profile, r.name)
    BY <1>4, <1>5
  <2> QED BY <1>6, <2>2, <2>3, <2>4, <2>5, <2>6 DEF GoodRow
<1>8. Profile \in Paths /\ Low(Profile) = 30
  BY PathsListed DEF Profile, Low
<1>9. IsSeq(s.owner) /\ Len(s.owner) >= 1 /\ s.owner[1] = "sdwan"
  BY <1>1, <1>3, TagOfLink
<1>10. s.order \in Int /\ Low(s.path) <= s.order
  BY <1>1, <1>8
<1>11. s.path \in Paths /\ IsSeq(s.items) /\ \A x \in ToSet(s.items) : GoodRow(i, s.path, x)
  BY <1>1, <1>2, <1>7, <1>8
<1>12. s.comment_capable = (s.path # Profile \/ s.items = <<>>)
  BY <1>1, <1>2
<1> QED BY <1>9, <1>10, <1>11, <1>12 DEF Good, s

\* It may be referred to by the menus after it.
LEMMA ProfileHas ==
  ASSUME NEW i, NEW l, ProfileOf(i, l) \in Parts(i), NEW p, Ahead(Profile, p)
  PROVE  Target(i, p, <<Profile, <<"prof", l>>>>)
<1> DEFINE s == ProfileOf(i, l)
           r == Row(<<"prof", l>>, {}, i.params, LinkTag(l, "profile"))
           x == <<Profile, <<"prof", l>>>>
<1>1. s.path = Profile /\ s.order = 30 /\ s.items = <<r>> /\ r.name = <<"prof", l>>
  BY DEF ProfileOf, One, section, ORDER, Row
<1>2. r \in ToSet(<<r>>)
  BY Tuples
<1>3. x[1] = Profile /\ x[2] = <<"prof", l>>
  OBVIOUS
<1>4. Profile \in Paths /\ Low(Profile) = 30
  BY PathsListed DEF Profile, Low
<1> HIDE DEF s, r, x
<1>5. s \in Parts(i)
  BY DEF s
<1> QED BY <1>1, <1>2, <1>3, <1>4, <1>5 DEF Target, x

\* The sections of GRE over IPsec.
LEMMA IpsecGood ==
  ASSUME NEW i, IsIntent(i), i.transport = "ipsec_gre", NEW l \in i.links, NEW s \in ToSet(RenderLink(i, l))
  PROVE  Good(i, s)
<1> DEFINE PR == "/ip/ipsec/proposal" PE == "/ip/ipsec/peer"
           proposal == One(l, "proposal", PR, "crypto_proposal", <<"prop", l>>, {}, i.params)
           peer == One(l, "peer", PE, "crypto_peer", <<"peer", l>>, {<<Profile, <<"prof", l>>>>}, 0)
           identity == One(l, "identity", "/ip/ipsec/identity", "crypto_identity", <<"peer", l>>,
                           {<<PE, <<"peer", l>>>>}, 0)
           policy == One(l, "policy", "/ip/ipsec/policy", "crypto_policy", <<"sa", l>>,
                         {<<PE, <<"peer", l>>>>, <<PR, <<"prop", l>>>>}, 0)
<1>1. RenderLink(i, l) = <<ProfileOf(i, l), proposal, peer, identity, policy, Tunnel(i, l, "gre"), TunnelAddress(i, l)>>
  BY DEF RenderLink, IpsecGre, ProfileOf, Profile
<1>2. ToSet(RenderLink(i, l)) = {ProfileOf(i, l), proposal, peer, identity, policy, Tunnel(i, l, "gre"), TunnelAddress(i, l)}
  <2> HIDE DEF proposal, peer, identity, policy
  <2> QED BY <1>1, Tuples
<1>3. ProfileOf(i, l) \in Parts(i) /\ proposal \in Parts(i) /\ peer \in Parts(i) /\ Tunnel(i, l, "gre") \in Parts(i)
  <2> HIDE DEF proposal, peer, identity, policy
  <2> QED BY <1>2, InFabric
<1>4. 0 \in Int /\ i.params \in Int
  BY DEF IsIntent
<1>5. Good(i, proposal)
  <2> DEFINE p == PR name == <<"prop", l>>
  <2>1. p \in Paths \ {"/ip/firewall/nat", "/ip/firewall/filter", Profile}
    BY PathsListed DEF Profile
  <2>2. ORDER["crypto_proposal"] \in Int /\ Low(p) <= ORDER["crypto_proposal"]
    BY DEF ORDER, Low
  <2>3. name # <<"by hand">> /\ name[2] = l
    OBVIOUS
  <2>4. Row(name, {}, i.params, LinkTag(l, "proposal")) = Canon(i, p, name)
    BY <2>3 DEF Canon
  <2>5. \A x \in {} : Target(i, p, x)
    OBVIOUS
  <2> HIDE DEF p, name
  <2>6. Good(i, One(l, "proposal", p, "crypto_proposal", name, {}, i.params))
    BY <1>4, <2>1, <2>2, <2>3, <2>4, <2>5, OneGood
  <2> QED BY <2>6 DEF p, name
<1>6. Good(i, peer)
  <2> DEFINE p == PE name == <<"peer", l>> refs == {<<Profile, <<"prof", l>>>>}
  <2>1. p \in Paths \ {"/ip/firewall/nat", "/ip/firewall/filter", Profile}
    BY PathsListed DEF Profile
  <2>2. ORDER["crypto_peer"] \in Int /\ Low(p) <= ORDER["crypto_peer"]
    BY DEF ORDER, Low
  <2>3. name # <<"by hand">> /\ name[2] = l
    OBVIOUS
  <2>4. Row(name, refs, 0, LinkTag(l, "peer")) = Canon(i, p, name)
    BY <2>3 DEF Canon, Profile
  <2>5. \A x \in refs : Target(i, p, x)
    <3>1. Ahead(Profile, p)
      BY Lows DEF Ahead, Profile
    <3> QED BY <1>3, <3>1, ProfileHas
  <2> HIDE DEF p, name, refs
  <2>6. Good(i, One(l, "peer", p, "crypto_peer", name, refs, 0))
    BY <1>4, <2>1, <2>2, <2>3, <2>4, <2>5, OneGood
  <2> QED BY <2>6 DEF p, name, refs
<1>7. \A p : Ahead(PE, p) => Target(i, p, <<PE, <<"peer", l>>>>)
  <2> SUFFICES ASSUME NEW p, Ahead(PE, p) PROVE Target(i, p, <<PE, <<"peer", l>>>>)
    OBVIOUS
  <2> DEFINE refs == {<<Profile, <<"prof", l>>>>} path == PE name == <<"peer", l>>
  <2>1. path \in Paths /\ ORDER["crypto_peer"] = Low(path)
    BY PathsListed DEF ORDER, Low
  <2>2. One(l, "peer", path, "crypto_peer", name, refs, 0) \in Parts(i) /\ Ahead(path, p)
    BY <1>3
  <2> HIDE DEF refs, path, name
  <2>3. Target(i, p, <<path, name>>)
    BY <2>1, <2>2, OneHas
  <2> QED BY <2>3 DEF path, name
<1>8. \A p : Ahead(PR, p) => Target(i, p, <<PR, <<"prop", l>>>>)
  <2> SUFFICES ASSUME NEW p, Ahead(PR, p) PROVE Target(i, p, <<PR, <<"prop", l>>>>)
    OBVIOUS
  <2> DEFINE refs == {} path == PR name == <<"prop", l>>
  <2>1. path \in Paths /\ ORDER["crypto_proposal"] = Low(path)
    BY PathsListed DEF ORDER, Low
  <2>2. One(l, "proposal", path, "crypto_proposal", name, refs, i.params) \in Parts(i) /\ Ahead(path, p)
    BY <1>3
  <2> HIDE DEF refs, path, name
  <2>3. Target(i, p, <<path, name>>)
    BY <2>1, <2>2, OneHas
  <2> QED BY <2>3 DEF path, name
<1>9. Good(i, identity)
  <2> DEFINE p == "/ip/ipsec/identity" name == <<"peer", l>> refs == {<<PE, <<"peer", l>>>>}
  <2>1. p \in Paths \ {"/ip/firewall/nat", "/ip/firewall/filter", Profile}
    BY PathsListed DEF Profile
  <2>2. ORDER["crypto_identity"] \in Int /\ Low(p) <= ORDER["crypto_identity"]
    BY DEF ORDER, Low
  <2>3. name # <<"by hand">> /\ name[2] = l
    OBVIOUS
  <2>4. Row(name, refs, 0, LinkTag(l, "identity")) = Canon(i, p, name)
    BY <2>3 DEF Canon
  <2>5. \A x \in refs : Target(i, p, x)
    <3>1. Ahead(PE, p)
      BY Lows DEF Ahead
    <3> QED BY <1>7, <3>1
  <2> HIDE DEF p, name, refs
  <2>6. Good(i, One(l, "identity", p, "crypto_identity", name, refs, 0))
    BY <1>4, <2>1, <2>2, <2>3, <2>4, <2>5, OneGood
  <2> QED BY <2>6 DEF p, name, refs
<1>10. Good(i, policy)
  <2> DEFINE p == "/ip/ipsec/policy" name == <<"sa", l>> refs == {<<PE, <<"peer", l>>>>, <<PR, <<"prop", l>>>>}
  <2>1. p \in Paths \ {"/ip/firewall/nat", "/ip/firewall/filter", Profile}
    BY PathsListed DEF Profile
  <2>2. ORDER["crypto_policy"] \in Int /\ Low(p) <= ORDER["crypto_policy"]
    BY DEF ORDER, Low
  <2>3. name # <<"by hand">> /\ name[2] = l
    OBVIOUS
  <2>4. Row(name, refs, 0, LinkTag(l, "policy")) = Canon(i, p, name)
    BY <2>3 DEF Canon
  <2>5. \A x \in refs : Target(i, p, x)
    <3>1. Ahead(PE, p) /\ Ahead(PR, p)
      BY Lows DEF Ahead
    <3> QED BY <1>7, <1>8, <3>1
  <2> HIDE DEF p, name, refs
  <2>6. Good(i, One(l, "policy", p, "crypto_policy", name, refs, 0))
    BY <1>4, <2>1, <2>2, <2>3, <2>4, <2>5, OneGood
  <2> QED BY <2>6 DEF p, name, refs
<1>11. Good(i, Tunnel(i, l, "gre"))
  <2>1. Iface(i, l) = <<"/interface/gre", <<"gre", l>>>>
    BY DEF Iface
  <2> QED BY <2>1, TunnelGood
<1>12. Good(i, TunnelAddress(i, l))
  BY <1>3, TunnelAddressGood
<1> HIDE DEF proposal, peer, identity, policy
<1> QED BY <1>2, <1>5, <1>6, <1>9, <1>10, <1>11, <1>12, ProfileGood

\* A row is good if it is the one that its name stands for, tagged in scope.
LEMMA RowGood ==
  ASSUME NEW i, NEW p, NEW name, name # <<"by hand">>, NEW refs, \A x \in refs : Target(i, p, x), NEW val \in Int,
         NEW tag, IsSeq(tag), NEW scope \in Scopes(i, p), IsPrefix(scope, tag),
         Row(name, refs, val, tag) = Canon(i, p, name)
  PROVE  GoodRow(i, p, Row(name, refs, val, tag))
<1> DEFINE r == Row(name, refs, val, tag)
<1>1. r.name = name /\ r.refs = refs /\ r.val = val /\ r.tag = tag
  BY DEF Row
<1>2. r = Row(r.name, r.refs, r.val, r.tag) /\ r = Canon(i, p, r.name)
  BY <1>1
<1> HIDE DEF r
<1>3. GoodRow(i, p, r)
  BY <1>1, <1>2 DEF GoodRow
<1> QED BY <1>3 DEF r

\* A section is good if its rows are, and its place is not before the menu's
\* first.
LEMMA SectionGood ==
  ASSUME NEW i, NEW path \in Paths \ {Profile}, NEW kind, ORDER[kind] \in Int, Low(path) <= ORDER[kind],
         NEW owner, IsSeq(owner), Len(owner) >= 1, owner[1] = "sdwan",
         NEW items, IsSeq(items), \A r \in ToSet(items) : GoodRow(i, path, r)
  PROVE  /\ Good(i, section(path, kind, owner, items))
         /\ Good(i, [section(path, kind, owner, items) EXCEPT !.before = TRUE])
BY DEF Good, section

\* The tags that sections write, against their scopes.
LEMMA TupleTags ==
  \A a, b, c, d :
    /\ IsSeq(<<"sdwan", "site", a, b>>) /\ IsPrefix(<<"sdwan", "site">>, <<"sdwan", "site", a, b>>)
    /\ IsSeq(<<"sdwan", "fabric", a, b, c, d>>)
    /\ IsPrefix(<<"sdwan", "fabric">>, <<"sdwan", "fabric", a, b, c, d>>)
    /\ IsSeq(<<"sdwan", "firewall", a, b, c>>)
    /\ IsPrefix(<<"sdwan", "firewall", a, b>>, <<"sdwan", "firewall", a, b, c>>)
    /\ IsSeq(<<"sdwan", "firewall", a, b, c, d>>)
    /\ IsPrefix(<<"sdwan", "firewall", a, b>>, <<"sdwan", "firewall", a, b, c, d>>)
<1> SUFFICES ASSUME NEW a, NEW b, NEW c, NEW d
    PROVE  /\ IsSeq(<<"sdwan", "site", a, b>>) /\ IsPrefix(<<"sdwan", "site">>, <<"sdwan", "site", a, b>>)
           /\ IsSeq(<<"sdwan", "fabric", a, b, c, d>>)
           /\ IsPrefix(<<"sdwan", "fabric">>, <<"sdwan", "fabric", a, b, c, d>>)
           /\ IsSeq(<<"sdwan", "firewall", a, b, c>>)
           /\ IsPrefix(<<"sdwan", "firewall", a, b>>, <<"sdwan", "firewall", a, b, c>>)
           /\ IsSeq(<<"sdwan", "firewall", a, b, c, d>>)
           /\ IsPrefix(<<"sdwan", "firewall", a, b>>, <<"sdwan", "firewall", a, b, c, d>>)
  OBVIOUS
<1>1. IsPrefix(<<"sdwan", "site">>, <<"sdwan", "site", a, b>>)
  <2> DEFINE s == <<"sdwan", "site">> t == <<"sdwan", "site", a, b>>
  <2>1. Len(s) = 2 /\ Len(t) = 4 /\ s[1] = t[1] /\ s[2] = t[2]
    OBVIOUS
  <2>2. IsSeq(s) /\ IsSeq(t)
    BY Tuples
  <2> HIDE DEF s, t
  <2>3. Begins(s, t)
    BY <2>1 DEF Begins
  <2> QED BY <2>2, <2>3, PrefixBegins DEF s, t
<1>2. IsPrefix(<<"sdwan", "fabric">>, <<"sdwan", "fabric", a, b, c, d>>)
  <2> DEFINE s == <<"sdwan", "fabric">> t == <<"sdwan", "fabric", a, b, c, d>>
  <2>1. Len(s) = 2 /\ Len(t) = 6 /\ s[1] = t[1] /\ s[2] = t[2]
    OBVIOUS
  <2>2. IsSeq(s) /\ IsSeq(t)
    BY Tuples
  <2> HIDE DEF s, t
  <2>3. Begins(s, t)
    BY <2>1 DEF Begins
  <2> QED BY <2>2, <2>3, PrefixBegins DEF s, t
<1>3. IsPrefix(<<"sdwan", "firewall", a, b>>, <<"sdwan", "firewall", a, b, c>>)
  <2> DEFINE s == <<"sdwan", "firewall", a, b>> t == <<"sdwan", "firewall", a, b, c>>
  <2>1. Len(s) = 4 /\ Len(t) = 5 /\ s[1] = t[1] /\ s[2] = t[2] /\ s[3] = t[3] /\ s[4] = t[4]
    OBVIOUS
  <2>2. IsSeq(s) /\ IsSeq(t)
    BY Tuples
  <2> HIDE DEF s, t
  <2>3. Begins(s, t)
    BY <2>1 DEF Begins
  <2> QED BY <2>2, <2>3, PrefixBegins DEF s, t
<1>4. IsPrefix(<<"sdwan", "firewall", a, b>>, <<"sdwan", "firewall", a, b, c, d>>)
  <2> DEFINE s == <<"sdwan", "firewall", a, b>> t == <<"sdwan", "firewall", a, b, c, d>>
  <2>1. Len(s) = 4 /\ Len(t) = 6 /\ s[1] = t[1] /\ s[2] = t[2] /\ s[3] = t[3] /\ s[4] = t[4]
    OBVIOUS
  <2>2. IsSeq(s) /\ IsSeq(t)
    BY Tuples
  <2> HIDE DEF s, t
  <2>3. Begins(s, t)
    BY <2>1 DEF Begins
  <2> QED BY <2>2, <2>3, PrefixBegins DEF s, t
<1> QED BY <1>1, <1>2, <1>3, <1>4, Tuples

\* They begin with "sdwan".
LEMMA FirstWords ==
  \A a, b, c, d :
    /\ Len(<<"sdwan", a>>) >= 1 /\ <<"sdwan", a>>[1] = "sdwan"
    /\ Len(<<"sdwan", a, b, c>>) >= 1 /\ <<"sdwan", a, b, c>>[1] = "sdwan"
    /\ Len(<<"sdwan", a, b, c, d>>) >= 1 /\ <<"sdwan", a, b, c, d>>[1] = "sdwan"
<1> SUFFICES ASSUME NEW a, NEW b, NEW c, NEW d
    PROVE  /\ Len(<<"sdwan", a>>) >= 1 /\ <<"sdwan", a>>[1] = "sdwan"
           /\ Len(<<"sdwan", a, b, c>>) >= 1 /\ <<"sdwan", a, b, c>>[1] = "sdwan"
           /\ Len(<<"sdwan", a, b, c, d>>) >= 1 /\ <<"sdwan", a, b, c, d>>[1] = "sdwan"
  OBVIOUS
<1>1. Len(<<"sdwan", a>>) = 2 /\ Len(<<"sdwan", a, b, c>>) = 4 /\ Len(<<"sdwan", a, b, c, d>>) = 5
  OBVIOUS
<1>2. <<"sdwan", a>>[1] = "sdwan" /\ <<"sdwan", a, b, c>>[1] = "sdwan" /\ <<"sdwan", a, b, c, d>>[1] = "sdwan"
  OBVIOUS
<1>3. Len(<<"sdwan", a>>) >= 1 /\ Len(<<"sdwan", a, b, c>>) >= 1 /\ Len(<<"sdwan", a, b, c, d>>) >= 1
  BY <1>1
<1> QED BY <1>2, <1>3

\* The tags of a site's part in the fabric, written out.
LEMMA SiteTags ==
  \A i, a, b : /\ SiteTag(i, <<a>>) = <<"sdwan", "fabric", "core", i.site, a>>
               /\ SiteTag(i, <<a, b>>) = <<"sdwan", "fabric", "core", i.site, a, b>>
<1> SUFFICES ASSUME NEW i, NEW a, NEW b
             PROVE  /\ SiteTag(i, <<a>>) = <<"sdwan", "fabric", "core", i.site, a>>
                    /\ SiteTag(i, <<a, b>>) = <<"sdwan", "fabric", "core", i.site, a, b>>
  OBVIOUS
<1> DEFINE s == <<"sdwan", "fabric", "core", i.site>>
           D == {"sdwan", "fabric", "core", i.site, a, b}
<1>1. s \in Seq(D) /\ Len(s) = 4 /\ s[1] = "sdwan" /\ s[2] = "fabric" /\ s[3] = "core" /\ s[4] = i.site
  OBVIOUS
<1>2. SiteTag(i, <<a>>) = s \o <<a>> /\ SiteTag(i, <<a, b>>) = s \o <<a, b>>
  BY DEF SiteTag
<1> HIDE DEF s
<1>3. s \o <<a>> = <<"sdwan", "fabric", "core", i.site, a>>
  <2> DEFINE t == <<a>> u == <<"sdwan", "fabric", "core", i.site, a>> v == s \o t
  <2>1. t \in Seq(D) /\ Len(t) = 1 /\ t[1] = a
    OBVIOUS
  <2>2. u \in Seq(D) /\ Len(u) = 5 /\ u[1] = "sdwan" /\ u[2] = "fabric" /\ u[3] = "core" /\ u[4] = i.site /\ u[5] = a
    OBVIOUS
  <2> HIDE DEF t, u, D
  <2>7. /\ v \in Seq(D) /\ Len(v) = Len(s) + Len(t)
        /\ \A n \in 1..Len(s) + Len(t) : v[n] = IF n <= Len(s) THEN s[n] ELSE t[n - Len(s)]
    BY <1>1, <2>1, ConcatProperties
  <2> HIDE DEF v
  <2>3. v \in Seq(D) /\ Len(v) = 5 /\ \A n \in 1..5 : v[n] = IF n <= 4 THEN s[n] ELSE t[n - 4]
    <3>1. Len(s) + Len(t) = 5
      BY <1>1, <2>1
    <3> QED BY <1>1, <2>7, <3>1
  <2>4. v[1] = u[1] /\ v[2] = u[2] /\ v[3] = u[3] /\ v[4] = u[4] /\ v[5] = u[5]
    BY <1>1, <2>1, <2>2, <2>3
  <2>5. \A n \in 1..5 : v[n] = u[n]
    <3>1. 1..5 = {1, 2, 3, 4, 5}
      OBVIOUS
    <3> QED BY <2>4, <3>1
  <2>6. v = u
    BY <2>2, <2>3, <2>5, SeqEqual
  <2> QED BY <2>6 DEF t, u, v
<1>4. s \o <<a, b>> = <<"sdwan", "fabric", "core", i.site, a, b>>
  <2> DEFINE t == <<a, b>> u == <<"sdwan", "fabric", "core", i.site, a, b>> v == s \o t
  <2>1. t \in Seq(D) /\ Len(t) = 2 /\ t[1] = a /\ t[2] = b
    OBVIOUS
  <2>2. u \in Seq(D) /\ Len(u) = 6 /\ u[1] = "sdwan" /\ u[2] = "fabric" /\ u[3] = "core" /\ u[4] = i.site
        /\ u[5] = a /\ u[6] = b
    OBVIOUS
  <2> HIDE DEF t, u, D
  <2>7. /\ v \in Seq(D) /\ Len(v) = Len(s) + Len(t)
        /\ \A n \in 1..Len(s) + Len(t) : v[n] = IF n <= Len(s) THEN s[n] ELSE t[n - Len(s)]
    BY <1>1, <2>1, ConcatProperties
  <2> HIDE DEF v
  <2>3. v \in Seq(D) /\ Len(v) = 6 /\ \A n \in 1..6 : v[n] = IF n <= 4 THEN s[n] ELSE t[n - 4]
    <3>1. Len(s) + Len(t) = 6
      BY <1>1, <2>1
    <3> QED BY <1>1, <2>7, <3>1
  <2>4. v[1] = u[1] /\ v[2] = u[2] /\ v[3] = u[3] /\ v[4] = u[4] /\ v[5] = u[5] /\ v[6] = u[6]
    BY <1>1, <2>1, <2>2, <2>3
  <2>5. \A n \in 1..6 : v[n] = u[n]
    <3>1. 1..6 = {1, 2, 3, 4, 5, 6}
      OBVIOUS
    <3> QED BY <2>4, <3>1
  <2>6. v = u
    BY <2>2, <2>3, <2>5, SeqEqual
  <2> QED BY <2>6 DEF t, u, v
<1> QED BY <1>2, <1>3, <1>4

-----------------------------------------------------------------------------
\* The sections of plain GRE.
LEMMA PlainGood ==
  ASSUME NEW i, IsIntent(i), i.transport = "gre", NEW l \in i.links, NEW s \in ToSet(RenderLink(i, l))
  PROVE  Good(i, s)
<1>1. RenderLink(i, l) = <<Tunnel(i, l, "gre"), TunnelAddress(i, l)>>
  BY DEF RenderLink, Plain
<1>2. ToSet(RenderLink(i, l)) = {Tunnel(i, l, "gre"), TunnelAddress(i, l)}
  BY <1>1, Tuples
<1>3. Tunnel(i, l, "gre") \in Parts(i)
  BY <1>2, InFabric
<1>4. Good(i, Tunnel(i, l, "gre"))
  <2>1. Iface(i, l) = <<"/interface/gre", <<"gre", l>>>>
    BY DEF Iface
  <2> QED BY <2>1, TunnelGood
<1>5. Good(i, TunnelAddress(i, l))
  BY <1>3, TunnelAddressGood
<1> QED BY <1>2, <1>4, <1>5

\* The sections of WireGuard.
LEMMA WireGuardGood ==
  ASSUME NEW i, IsIntent(i), i.transport = "wireguard", NEW l \in i.links, NEW s \in ToSet(RenderLink(i, l))
  PROVE  Good(i, s)
<1> DEFINE peer == One(l, "wg-peer", "/interface/wireguard/peers", "tunnel", <<"key", l>>, {Iface(i, l)}, 0)
<1>1. RenderLink(i, l) = <<Tunnel(i, l, "wg"), peer, TunnelAddress(i, l)>>
  BY DEF RenderLink, WireGuard
<1>2. ToSet(RenderLink(i, l)) = {Tunnel(i, l, "wg"), peer, TunnelAddress(i, l)}
  <2> HIDE DEF peer
  <2> QED BY <1>1, Tuples
<1>3. Tunnel(i, l, "wg") \in Parts(i)
  <2> HIDE DEF peer
  <2> QED BY <1>2, InFabric
<1>6. Iface(i, l) = <<"/interface/wireguard", <<"wg", l>>>>
  BY DEF Iface
<1>4. Good(i, Tunnel(i, l, "wg"))
  BY <1>6, TunnelGood
<1>5. Good(i, TunnelAddress(i, l))
  BY <1>3, TunnelAddressGood
<1>7. Good(i, peer)
  <2> DEFINE p == "/interface/wireguard/peers" name == <<"key", l>> refs == {Iface(i, l)}
  <2>1. p \in Paths \ {"/ip/firewall/nat", "/ip/firewall/filter", Profile}
    BY PathsListed DEF Profile
  <2>2. ORDER["tunnel"] \in Int /\ Low(p) <= ORDER["tunnel"]
    BY DEF ORDER, Low
  <2>3. name # <<"by hand">> /\ name[2] = l
    OBVIOUS
  <2>4. Row(name, refs, 0, LinkTag(l, "wg-peer")) = Canon(i, p, name)
    BY <2>3 DEF Canon
  <2>5. \A x \in refs : Target(i, p, x)
    <3>1. Ahead(Iface(i, l)[1], p)
      BY <1>6 DEF Ahead, Low, Index
    <3> QED BY <1>3, <3>1, TunnelHas
  <2> HIDE DEF p, name, refs
  <2>6. Good(i, One(l, "wg-peer", p, "tunnel", name, refs, 0))
    BY Zero, <2>1, <2>2, <2>3, <2>4, <2>5, OneGood
  <2> QED BY <2>6 DEF p, name, refs
<1> HIDE DEF peer
<1> QED BY <1>2, <1>4, <1>5, <1>7

L2Tag(i) == <<"sdwan", "fabric", "core", i.site, "l2-bridge">>

\* The bridge of the layer 2 transports.
LEMMA BridgeGood ==
  ASSUME NEW i, IsIntent(i)
  PROVE  Good(i, L2Bridge(i))
<1> DEFINE r == Row(<<"sdwan-l2">>, {}, 0, L2Tag(i)) p == "/interface/bridge"
<1>1. L2Bridge(i) = section(p, "interface", L2Tag(i), <<r>>)
  BY DEF L2Bridge, L2Tag
<1>2. IsSeq(L2Tag(i)) /\ IsPrefix(<<"sdwan", "fabric">>, L2Tag(i))
  BY FabricTag DEF L2Tag
<1>3. <<"sdwan-l2">> # <<"by hand">> /\ <<"sdwan-l2">> # <<"sdwan-lo">>
  OBVIOUS
<1>4. r = Canon(i, p, <<"sdwan-l2">>)
  BY <1>3 DEF Canon, L2Tag
<1>5. <<"sdwan", "fabric">> \in Scopes(i, p)
  BY DEF Scopes
<1>6. GoodRow(i, p, r)
  <2> DEFINE name == <<"sdwan-l2">> refs == {}
  <2> HIDE DEF name, refs, p
  <2>1. \A x \in refs : Target(i, p, x)
    BY DEF refs
  <2>2. GoodRow(i, p, Row(name, refs, 0, L2Tag(i)))
    BY Zero, <1>2, <1>3, <1>4, <1>5, <2>1, RowGood DEF name, refs
  <2> QED BY <2>2 DEF name, refs
<1>7. IsSeq(<<r>>) /\ ToSet(<<r>>) = {r}
  BY Tuples
<1>8. p \in Paths \ {Profile} /\ ORDER["interface"] \in Int /\ Low(p) <= ORDER["interface"]
  BY PathsListed, Lows DEF Profile, ORDER
<1>9. Len(L2Tag(i)) >= 1 /\ L2Tag(i)[1] = "sdwan"
  BY FirstWords DEF L2Tag
<1> DEFINE items == <<r>> kind == "interface" owner == L2Tag(i)
<1>10. IsSeq(items) /\ \A x \in ToSet(items) : GoodRow(i, p, x)
  <2> HIDE DEF r
  <2> QED BY <1>6, <1>7
<1> HIDE DEF r, p, items, kind, owner
<1>11. Good(i, section(p, kind, owner, items))
  BY <1>2, <1>8, <1>9, <1>10, SectionGood DEF kind, owner
<1> QED BY <1>1, <1>11 DEF items, kind, owner

L2Bridged == <<"/interface/bridge", <<"sdwan-l2">>>>

\* It may be referred to: of layer 2 no order is promised (run planner_l2).
LEMMA BridgeHas ==
  ASSUME NEW i, ~ Layer3(i), L2Bridge(i) \in Parts(i), NEW p
  PROVE  Target(i, p, L2Bridged)
<1> DEFINE s == L2Bridge(i) r == Row(<<"sdwan-l2">>, {}, 0, L2Tag(i)) x == L2Bridged
<1>1. s.path = "/interface/bridge" /\ s.order = 20 /\ s.items = <<r>> /\ r.name = <<"sdwan-l2">>
  BY DEF L2Bridge, L2Tag, section, ORDER, Row
<1>2. r \in ToSet(<<r>>)
  BY Tuples
<1>3. x[1] = "/interface/bridge" /\ x[2] = <<"sdwan-l2">>
  BY DEF L2Bridged
<1>4. "/interface/bridge" \in Paths /\ Low("/interface/bridge") = 20
  BY PathsListed, Lows
<1> HIDE DEF s, r, x
<1>5. s \in Parts(i)
  BY DEF s
<1> QED BY <1>1, <1>2, <1>3, <1>4, <1>5 DEF Target, x

\* The bridge port of a link.
LEMMA PortGood ==
  ASSUME NEW i, IsIntent(i), ~ Layer3(i), NEW l, NEW part, Tunnel(i, l, part) \in Parts(i), L2Bridge(i) \in Parts(i)
  PROVE  Good(i, L2Port(i, l))
<1> DEFINE p == "/interface/bridge/port" name == <<"port", l>> refs == {Iface(i, l), L2Bridged}
<1>1. p \in Paths \ {"/ip/firewall/nat", "/ip/firewall/filter", Profile}
  BY PathsListed DEF Profile
<1>2. ORDER["l2_port"] \in Int /\ Low(p) <= ORDER["l2_port"]
  BY DEF ORDER, Low
<1>3. name # <<"by hand">> /\ name[2] = l
  OBVIOUS
<1>4. Row(name, refs, 0, LinkTag(l, "l2-port")) = Canon(i, p, name)
  BY <1>3 DEF Canon, L2Bridged
<1>5. \A x \in refs : Target(i, p, x)
  BY TunnelHas, BridgeHas
<1>6. L2Port(i, l) = One(l, "l2-port", p, "l2_port", name, refs, 0)
  BY DEF L2Port, L2Bridged
<1> HIDE DEF p, name, refs
<1> QED BY Zero, <1>1, <1>2, <1>3, <1>4, <1>5, <1>6, OneGood

\* The sections of VXLAN.
LEMMA VxlanGood ==
  ASSUME NEW i, IsIntent(i), i.transport = "vxlan", NEW l \in i.links, NEW s \in ToSet(RenderLink(i, l))
  PROVE  Good(i, s)
<1> DEFINE vtep == One(l, "vxlan-peer", "/interface/vxlan/vteps", "tunnel", <<"vtep", l>>, {Iface(i, l)}, 0)
<1>0. ~ Layer3(i)
  BY DEF Layer3
<1>1. RenderLink(i, l) = <<Tunnel(i, l, "vxlan"), vtep, L2Bridge(i), L2Port(i, l)>>
  BY DEF RenderLink, Vxlan
<1>2. ToSet(RenderLink(i, l)) = {Tunnel(i, l, "vxlan"), vtep, L2Bridge(i), L2Port(i, l)}
  <2> HIDE DEF vtep
  <2> QED BY <1>1, Tuples
<1>3. Tunnel(i, l, "vxlan") \in Parts(i) /\ L2Bridge(i) \in Parts(i)
  <2> HIDE DEF vtep
  <2> QED BY <1>2, InFabric
<1>6. Iface(i, l) = <<"/interface/vxlan", <<"vxl", l>>>>
  BY DEF Iface
<1>4. Good(i, Tunnel(i, l, "vxlan"))
  BY <1>6, TunnelGood
<1>5. Good(i, L2Port(i, l)) /\ Good(i, L2Bridge(i))
  BY <1>0, <1>3, PortGood, BridgeGood
<1>7. Good(i, vtep)
  <2> DEFINE p == "/interface/vxlan/vteps" name == <<"vtep", l>> refs == {Iface(i, l)}
  <2>1. p \in Paths \ {"/ip/firewall/nat", "/ip/firewall/filter", Profile}
    BY PathsListed DEF Profile
  <2>2. ORDER["tunnel"] \in Int /\ Low(p) <= ORDER["tunnel"]
    BY DEF ORDER, Low
  <2>3. name # <<"by hand">> /\ name[2] = l
    OBVIOUS
  <2>4. Row(name, refs, 0, LinkTag(l, "vxlan-peer")) = Canon(i, p, name)
    BY <2>3 DEF Canon
  <2>5. \A x \in refs : Target(i, p, x)
    BY <1>0, <1>3, TunnelHas
  <2> HIDE DEF p, name, refs
  <2>6. Good(i, One(l, "vxlan-peer", p, "tunnel", name, refs, 0))
    BY Zero, <2>1, <2>2, <2>3, <2>4, <2>5, OneGood
  <2> QED BY <2>6 DEF p, name, refs
<1> HIDE DEF vtep
<1> QED BY <1>2, <1>4, <1>5, <1>7

\* The sections of EoIP.
LEMMA EoipGood ==
  ASSUME NEW i, IsIntent(i), i.transport = "eoip", NEW l \in i.links, NEW s \in ToSet(RenderLink(i, l))
  PROVE  Good(i, s)
<1>0. ~ Layer3(i)
  BY DEF Layer3
<1>1. RenderLink(i, l) = <<Tunnel(i, l, "eoip"), L2Bridge(i), L2Port(i, l)>>
  BY DEF RenderLink, Eoip
<1>2. ToSet(RenderLink(i, l)) = {Tunnel(i, l, "eoip"), L2Bridge(i), L2Port(i, l)}
  BY <1>1, Tuples
<1>3. Tunnel(i, l, "eoip") \in Parts(i) /\ L2Bridge(i) \in Parts(i)
  BY <1>2, InFabric
<1>6. Iface(i, l) = <<"/interface/eoip", <<"eoip", l>>>>
  BY DEF Iface
<1>4. Good(i, Tunnel(i, l, "eoip"))
  BY <1>6, TunnelGood
<1>5. Good(i, L2Port(i, l)) /\ Good(i, L2Bridge(i))
  BY <1>0, <1>3, PortGood, BridgeGood
<1> QED BY <1>2, <1>4, <1>5

\* Every link has a tunnel, in one section.
LEMMA LinkGood ==
  ASSUME NEW i, IsIntent(i), NEW l \in i.links
  PROVE  /\ \A s \in ToSet(RenderLink(i, l)) : Good(i, s)
         /\ \E part : Tunnel(i, l, part) \in Parts(i)
<1>1. i.transport \in Transports
  BY DEF IsIntent
<1>2. \A s \in ToSet(RenderLink(i, l)) : Good(i, s)
  BY <1>1, IpsecGood, PlainGood, WireGuardGood, VxlanGood, EoipGood DEF Transports
<1>3. ToSet(RenderLink(i, l)) \subseteq Parts(i)
  BY InFabric
<1>4. \E part : Tunnel(i, l, part) \in ToSet(RenderLink(i, l))
  <2>1. CASE i.transport = "ipsec_gre"
    <3>1. \E a, b, c, d, e, g : RenderLink(i, l) = <<a, b, c, d, e, Tunnel(i, l, "gre"), g>>
      BY <2>1 DEF RenderLink, IpsecGre
    <3>2. PICK a, b, c, d, e, g : RenderLink(i, l) = <<a, b, c, d, e, Tunnel(i, l, "gre"), g>>
      BY <3>1
    <3> QED BY <3>2, Tuples
  <2>2. CASE i.transport = "gre"
    <3>1. RenderLink(i, l) = <<Tunnel(i, l, "gre"), TunnelAddress(i, l)>>
      BY <2>2 DEF RenderLink, Plain
    <3> QED BY <3>1, Tuples
  <2>3. CASE i.transport = "wireguard"
    <3>1. \E a : RenderLink(i, l) = <<Tunnel(i, l, "wg"), a, TunnelAddress(i, l)>>
      BY <2>3 DEF RenderLink, WireGuard
    <3> QED BY <3>1, Tuples
  <2>4. CASE i.transport = "vxlan"
    <3>1. \E a : RenderLink(i, l) = <<Tunnel(i, l, "vxlan"), a, L2Bridge(i), L2Port(i, l)>>
      BY <2>4 DEF RenderLink, Vxlan
    <3> QED BY <3>1, Tuples
  <2>5. CASE i.transport = "eoip"
    <3>1. RenderLink(i, l) = <<Tunnel(i, l, "eoip"), L2Bridge(i), L2Port(i, l)>>
      BY <2>5 DEF RenderLink, Eoip
    <3> QED BY <3>1, Tuples
  <2> QED BY <1>1, <2>1, <2>2, <2>3, <2>4, <2>5 DEF Transports
<1> QED BY <1>2, <1>3, <1>4

\* A section with one row for each link of the site.
LEMMA RowPerLink ==
  ASSUME NEW i, IsIntent(i), NEW t, NEW rowOf,
         t = [n \in 1..Len(InOrder(i.links)) |-> rowOf[InOrder(i.links)[n]]]
  PROVE  IsSeq(t) /\ ToSet(t) = {rowOf[l] : l \in i.links}
<1> DEFINE q == InOrder(i.links)
<1>1. IsSeq(q) /\ ToSet(q) = i.links
  BY LinksInOrder DEF IsIntent
<1> HIDE DEF q
<1>2. t = [n \in 1..Len(q) |-> t[n]] /\ \A n \in 1..Len(q) : t[n] = rowOf[q[n]]
  BY DEF q
<1>3. IsSeq(t) /\ ToSet(t) = {t[n] : n \in 1..Len(q)} /\ ToSet(q) = {q[n] : n \in 1..Len(q)}
  BY <1>1, <1>2, OneEach
<1>4. ToSet(t) = {rowOf[l] : l \in i.links}
  BY <1>1, <1>2, <1>3
<1> QED BY <1>3, <1>4

\* Each of the links in order is one of the intent's.
LEMMA LinksOfOrder == ASSUME NEW i, IsIntent(i), NEW n \in 1..Len(InOrder(i.links)) PROVE InOrder(i.links)[n] \in i.links
<1>1. IsSeq(InOrder(i.links)) /\ ToSet(InOrder(i.links)) = i.links
  BY LinksInOrder DEF IsIntent
<1> QED BY <1>1, ElementOfSeq DEF IsSeq

Instance == <<"/routing/bgp/instance", <<"bgp">>>>
Template == <<"/routing/bgp/template", <<"bgp">>>>

\* The one-row sections of the site's own.
SiteSection(i, path, kind, word, name) ==
  section(path, kind, SiteTag(i, <<word>>), <<Row(name, {}, 0, SiteTag(i, <<word>>))>>)

\* A one-row section of the site's part in the fabric.
LEMMA SiteSectionGood ==
  ASSUME NEW i, NEW path \in Paths \ {Profile}, <<"sdwan", "fabric">> \in Scopes(i, path),
         NEW kind, ORDER[kind] \in Int, Low(path) <= ORDER[kind], NEW word, NEW name, name # <<"by hand">>,
         Row(name, {}, 0, SiteTag(i, <<word>>)) = Canon(i, path, name)
  PROVE  /\ Good(i, SiteSection(i, path, kind, word, name))
         /\ SiteSection(i, path, kind, word, name) \in Parts(i) /\ ORDER[kind] = Low(path) =>
              \A p : (Layer3(i) => Ahead(path, p)) => Target(i, p, <<path, name>>)
<1> DEFINE tag == SiteTag(i, <<word>>) r == Row(name, {}, 0, tag) s == SiteSection(i, path, kind, word, name)
           items == <<r>>
<1>1. tag = <<"sdwan", "fabric", "core", i.site, word>>
  BY SiteTags
<1>2. IsSeq(tag) /\ IsPrefix(<<"sdwan", "fabric">>, tag) /\ Len(tag) >= 1 /\ tag[1] = "sdwan"
  <2> HIDE DEF tag
  <2> QED BY <1>1, FabricTag, FirstWords
<1>3. s = section(path, kind, tag, items)
  BY DEF SiteSection
<1>4. IsSeq(items) /\ ToSet(items) = {r}
  BY Tuples
<1>5. GoodRow(i, path, r)
  <2> DEFINE refs == {}
  <2> HIDE DEF tag, refs
  <2>1. \A x \in refs : Target(i, path, x)
    BY DEF refs
  <2>2. Row(name, refs, 0, tag) = Canon(i, path, name)
    BY DEF refs, tag
  <2>3. GoodRow(i, path, Row(name, refs, 0, tag))
    BY Zero, <1>2, <2>1, <2>2, RowGood
  <2> QED BY <2>3 DEF refs
<1>6. \A x \in ToSet(items) : GoodRow(i, path, x)
  BY <1>4, <1>5
<1>10. s.path = path /\ s.order = ORDER[kind] /\ s.items = items
  <2> HIDE DEF s, items
  <2> QED BY <1>3 DEF section
<1>11. r.name = name
  BY DEF Row
<1>7. s.path = path /\ s.order = ORDER[kind] /\ s.items = items /\ r.name = name
  BY <1>10, <1>11
<1> HIDE DEF tag, r, items, s
<1>8. Good(i, s)
  BY <1>2, <1>3, <1>4, <1>6, SectionGood
<1>9. ASSUME s \in Parts(i), ORDER[kind] = Low(path), NEW p, Layer3(i) => Ahead(path, p)
      PROVE  Target(i, p, <<path, name>>)
  <2>1. r \in ToSet(s.items)
    BY <1>4, <1>7
  <2> DEFINE x == <<path, name>>
  <2>2. x[1] = path /\ x[2] = name
    OBVIOUS
  <2> HIDE DEF x
  <2>3. \E t \in Parts(i) : t.path = x[1] /\ t.order = Low(x[1]) /\ \E y \in ToSet(t.items) : y.name = x[2]
    BY <1>7, <1>9, <2>1, <2>2
  <2>4. Target(i, p, x)
    BY <1>9, <2>2, <2>3 DEF Target
  <2> QED BY <2>4 DEF x
<1> QED BY <1>8, <1>9 DEF s

\* The sections of BGP.
LEMMA BgpGood ==
  ASSUME NEW i, IsIntent(i), i.links # {}, NEW s \in ToSet(Bgp(i))
  PROVE  Good(i, s)
<1> DEFINE q == InOrder(i.links)
           rowOf == [l \in i.links |-> Row(<<"bgp", l>>, {Instance, Template}, 0, SiteTag(i, <<"bgp", l>>))]
           t == [n \in 1..Len(q) |-> Row(<<"bgp", q[n]>>, {Instance, Template}, 0, SiteTag(i, <<"bgp", q[n]>>))]
           a == SiteSection(i, Instance[1], "bgp_instance", "bgp-instance", Instance[2])
           b == SiteSection(i, Template[1], "bgp_template", "bgp-template", Template[2])
           c == section("/routing/bgp/connection", "routing", SiteTag(i, <<"bgp">>), t)
           d == SiteSection(i, "/ip/firewall/address-list", "address_list", "bgp-network", <<"adv">>)
<1>1. Bgp(i) = <<a, b, c, d>>
  BY DEF Bgp, PerLink, SiteSection, Instance, Template
<1>0. Instance[1] = "/routing/bgp/instance" /\ Instance[2] = <<"bgp">>
      /\ Template[1] = "/routing/bgp/template" /\ Template[2] = <<"bgp">>
      /\ Instance = <<Instance[1], Instance[2]>> /\ Template = <<Template[1], Template[2]>>
  BY DEF Instance, Template
<1>2. ToSet(Bgp(i)) = {a, b, c, d}
  <2> HIDE DEF a, b, c, d
  <2> QED BY <1>1, Tuples
<1>3. a \in Parts(i) /\ b \in Parts(i)
  <2> HIDE DEF a, b, c, d
  <2> QED BY <1>2, InFabric
<1>4. <<"bgp">> # <<"by hand">> /\ <<"adv">> # <<"by hand">>
  OBVIOUS
<1>5. Good(i, a) /\ \A p : (Layer3(i) => Ahead(Instance[1], p)) => Target(i, p, Instance)
  <2> DEFINE path == Instance[1] name == Instance[2] kind == "bgp_instance" word == "bgp-instance"
  <2>1. path \in Paths \ {Profile} /\ <<"sdwan", "fabric">> \in Scopes(i, path)
    BY <1>0, PathsListed DEF Profile, Scopes
  <2>2. ORDER[kind] \in Int /\ Low(path) <= ORDER[kind] /\ ORDER[kind] = Low(path)
    BY <1>0, Lows DEF ORDER
  <2>3. Row(name, {}, 0, SiteTag(i, <<word>>)) = Canon(i, path, name)
    BY <1>0 DEF Canon
  <2>4. name # <<"by hand">>
    BY <1>0, <1>4
  <2>6. SiteSection(i, path, kind, word, name) \in Parts(i)
    BY <1>3
  <2> HIDE DEF path, name, kind, word
  <2>5. /\ Good(i, SiteSection(i, path, kind, word, name))
        /\ \A p : (Layer3(i) => Ahead(path, p)) => Target(i, p, <<path, name>>)
    BY <2>1, <2>2, <2>3, <2>4, <2>6, SiteSectionGood
  <2> QED BY <1>0, <2>5 DEF path, name, kind, word
<1>6. Good(i, b) /\ \A p : (Layer3(i) => Ahead(Template[1], p)) => Target(i, p, Template)
  <2> DEFINE path == Template[1] name == Template[2] kind == "bgp_template" word == "bgp-template"
  <2>1. path \in Paths \ {Profile} /\ <<"sdwan", "fabric">> \in Scopes(i, path)
    BY <1>0, PathsListed DEF Profile, Scopes
  <2>2. ORDER[kind] \in Int /\ Low(path) <= ORDER[kind] /\ ORDER[kind] = Low(path)
    BY <1>0, Lows DEF ORDER
  <2>3. Row(name, {}, 0, SiteTag(i, <<word>>)) = Canon(i, path, name)
    BY <1>0 DEF Canon
  <2>4. name # <<"by hand">>
    BY <1>0, <1>4
  <2>6. SiteSection(i, path, kind, word, name) \in Parts(i)
    BY <1>3
  <2> HIDE DEF path, name, kind, word
  <2>5. /\ Good(i, SiteSection(i, path, kind, word, name))
        /\ \A p : (Layer3(i) => Ahead(path, p)) => Target(i, p, <<path, name>>)
    BY <2>1, <2>2, <2>3, <2>4, <2>6, SiteSectionGood
  <2> QED BY <1>0, <2>5 DEF path, name, kind, word
<1>7. Good(i, d)
  <2> DEFINE path == "/ip/firewall/address-list" name == <<"adv">> kind == "address_list" word == "bgp-network"
  <2>1. path \in Paths \ {Profile} /\ <<"sdwan", "fabric">> \in Scopes(i, path)
    BY PathsListed DEF Profile, Scopes
  <2>2. ORDER[kind] \in Int /\ Low(path) <= ORDER[kind]
    BY Lows DEF ORDER
  <2>3. Row(name, {}, 0, SiteTag(i, <<word>>)) = Canon(i, path, name)
    BY DEF Canon
  <2>4. name # <<"by hand">>
    BY <1>4
  <2> HIDE DEF path, name, kind, word
  <2>5. Good(i, SiteSection(i, path, kind, word, name))
    BY <2>1, <2>2, <2>3, <2>4, SiteSectionGood
  <2> QED BY <2>5 DEF path, name, kind, word
<1>8. Good(i, c)
  <2> DEFINE path == "/routing/bgp/connection" owner == SiteTag(i, <<"bgp">>) kind == "routing"
  <2>1. path \in Paths \ {Profile} /\ <<"sdwan", "fabric">> \in Scopes(i, path)
    BY PathsListed DEF Profile, Scopes
  <2>2. ORDER[kind] \in Int /\ Low(path) <= ORDER[kind]
    BY Lows DEF ORDER
  <2>3. IsSeq(owner) /\ Len(owner) >= 1 /\ owner[1] = "sdwan"
    <3>1. owner = <<"sdwan", "fabric", "core", i.site, "bgp">>
      BY SiteTags
    <3> HIDE DEF owner
    <3> QED BY <3>1, Tuples, FirstWords
  <2>4. IsSeq(t) /\ ToSet(t) = {rowOf[l] : l \in i.links}
    <3>1. t = [n \in 1..Len(InOrder(i.links)) |-> rowOf[InOrder(i.links)[n]]]
      BY LinksOfOrder
    <3> HIDE DEF t, rowOf, q
    <3> QED BY <3>1, RowPerLink
  <2>5. ASSUME NEW l \in i.links PROVE GoodRow(i, path, rowOf[l])
    <3> DEFINE name == <<"bgp", l>> refs == {Instance, Template} tag == SiteTag(i, <<"bgp", l>>)
    <3>1. rowOf[l] = Row(name, refs, 0, tag)
      OBVIOUS
    <3>2. name # <<"by hand">> /\ name[2] = l
      OBVIOUS
    <3>3. Row(name, refs, 0, tag) = Canon(i, path, name)
      BY <3>2 DEF Canon, Instance, Template
    <3>4. \A x \in refs : Target(i, path, x)
      <4>1. Ahead(Instance[1], path) /\ Ahead(Template[1], path)
        BY <1>0, Lows DEF Ahead
      <4> QED BY <1>5, <1>6, <4>1
    <3>5. tag = <<"sdwan", "fabric", "core", i.site, "bgp", l>>
      BY SiteTags
    <3> HIDE DEF name, refs, tag, path, rowOf
    <3>6. IsSeq(tag) /\ IsPrefix(<<"sdwan", "fabric">>, tag)
      BY <3>5, TupleTags
    <3> QED BY Zero, <2>1, <3>1, <3>2, <3>3, <3>4, <3>6, RowGood
  <2> HIDE DEF path, owner, kind, t, rowOf
  <2>6. \A r \in ToSet(t) : GoodRow(i, path, r)
    BY <2>4, <2>5
  <2>7. Good(i, section(path, kind, owner, t))
    BY <2>1, <2>2, <2>3, <2>4, <2>6, SectionGood
  <2> QED BY <2>7 DEF path, owner, kind
<1> HIDE DEF a, b, c, d
<1> QED BY <1>2, <1>5, <1>6, <1>7, <1>8

\* The underlay routes.
LEMMA RoutesGood ==
  ASSUME NEW i, IsIntent(i)
  PROVE  Good(i, UnderlayRoutes(i))
<1> DEFINE q == InOrder(i.links)
           rowOf == [l \in i.links |-> Row(<<"pin", l>>, {}, 0, SiteTag(i, <<"underlay", l>>))]
           t == [n \in 1..Len(q) |-> Row(<<"pin", q[n]>>, {}, 0, SiteTag(i, <<"underlay", q[n]>>))]
           path == "/ip/route" owner == SiteTag(i, <<"underlay">>) kind == "underlay_route"
<1>1. UnderlayRoutes(i) = section(path, kind, owner, t)
  BY DEF UnderlayRoutes, PerLink
<1>2. path \in Paths \ {Profile} /\ <<"sdwan", "fabric">> \in Scopes(i, path)
  BY PathsListed DEF Profile, Scopes
<1>3. ORDER[kind] \in Int /\ Low(path) <= ORDER[kind]
  BY DEF ORDER, Low
<1>4. IsSeq(owner) /\ Len(owner) >= 1 /\ owner[1] = "sdwan"
  <2>1. owner = <<"sdwan", "fabric", "core", i.site, "underlay">>
    BY SiteTags
  <2> HIDE DEF owner
  <2> QED BY <2>1, Tuples, FirstWords
<1>5. IsSeq(t) /\ ToSet(t) = {rowOf[l] : l \in i.links}
  <2>1. t = [n \in 1..Len(InOrder(i.links)) |-> rowOf[InOrder(i.links)[n]]]
    BY LinksOfOrder
  <2> HIDE DEF t, rowOf, q
  <2> QED BY <2>1, RowPerLink
<1>6. ASSUME NEW l \in i.links PROVE GoodRow(i, path, rowOf[l])
  <2> DEFINE name == <<"pin", l>> refs == {} tag == SiteTag(i, <<"underlay", l>>)
  <2>1. rowOf[l] = Row(name, refs, 0, tag)
    OBVIOUS
  <2>2. name # <<"by hand">> /\ name[2] = l
    OBVIOUS
  <2>3. Row(name, refs, 0, tag) = Canon(i, path, name)
    BY <2>2 DEF Canon
  <2>4. \A x \in refs : Target(i, path, x)
    OBVIOUS
  <2>5. tag = <<"sdwan", "fabric", "core", i.site, "underlay", l>>
    BY SiteTags
  <2> HIDE DEF name, refs, tag, path, rowOf
  <2>6. IsSeq(tag) /\ IsPrefix(<<"sdwan", "fabric">>, tag)
    BY <2>5, TupleTags
  <2> QED BY Zero, <1>2, <2>1, <2>2, <2>3, <2>4, <2>6, RowGood
<1> HIDE DEF path, owner, kind, t, rowOf
<1>7. \A r \in ToSet(t) : GoodRow(i, path, r)
  BY <1>5, <1>6
<1>8. Good(i, section(path, kind, owner, t))
  BY <1>2, <1>3, <1>4, <1>5, <1>7, SectionGood
<1> QED BY <1>1, <1>8

\* The MSS clamps refer to the interfaces of their links.
LEMMA ClampGood ==
  ASSUME NEW i, IsIntent(i)
  PROVE  Good(i, MssClamp(i))
<1> DEFINE q == InOrder(i.links)
           rowOf == [l \in i.links |-> Row(SiteTag(i, <<"mss", l>>), {Iface(i, l)}, 0, SiteTag(i, <<"mss", l>>))]
           t == [n \in 1..Len(q) |-> Row(SiteTag(i, <<"mss", q[n]>>), {Iface(i, q[n])}, 0, SiteTag(i, <<"mss", q[n]>>))]
           path == "/ip/firewall/mangle" owner == SiteTag(i, <<"mss">>) kind == "firewall"
<1>1. MssClamp(i) = section(path, kind, owner, t)
  BY DEF MssClamp, PerLink
<1>2. path \in Paths \ {Profile} /\ <<"sdwan", "fabric">> \in Scopes(i, path)
  BY PathsListed DEF Profile, Scopes
<1>3. ORDER[kind] \in Int /\ Low(path) <= ORDER[kind]
  BY DEF ORDER, Low
<1>4. IsSeq(owner) /\ Len(owner) >= 1 /\ owner[1] = "sdwan"
  <2>1. owner = <<"sdwan", "fabric", "core", i.site, "mss">>
    BY SiteTags
  <2> HIDE DEF owner
  <2> QED BY <2>1, Tuples, FirstWords
<1>5. IsSeq(t) /\ ToSet(t) = {rowOf[l] : l \in i.links}
  <2>1. t = [n \in 1..Len(InOrder(i.links)) |-> rowOf[InOrder(i.links)[n]]]
    BY LinksOfOrder
  <2> HIDE DEF t, rowOf, q
  <2> QED BY <2>1, RowPerLink
<1>6. ASSUME NEW l \in i.links PROVE GoodRow(i, path, rowOf[l])
  <2> DEFINE refs == {Iface(i, l)} tag == SiteTag(i, <<"mss", l>>)
  <2>1. rowOf[l] = Row(tag, refs, 0, tag)
    OBVIOUS
  <2>2. tag = <<"sdwan", "fabric", "core", i.site, "mss", l>>
    BY SiteTags
  <2> HIDE DEF rowOf
  <2>3. tag # <<"by hand">> /\ tag[6] = l
    <3> HIDE DEF tag
    <3> QED BY <2>2
  <2>4. Row(tag, refs, 0, tag) = Canon(i, path, tag)
    <3> HIDE DEF tag
    <3> QED BY <2>3 DEF Canon
  <2>5. \A x \in refs : Target(i, path, x)
    <3>1. PICK part : Tunnel(i, l, part) \in Parts(i)
      BY LinkGood
    <3>2. Layer3(i) => Ahead(Iface(i, l)[1], path)
      BY DEF Layer3, Ahead, Iface, Low, Index
    <3> QED BY <3>1, <3>2, TunnelHas
  <2> HIDE DEF refs, tag, path
  <2>6. IsSeq(tag) /\ IsPrefix(<<"sdwan", "fabric">>, tag)
    BY <2>2, TupleTags
  <2> QED BY Zero, <1>2, <2>1, <2>3, <2>4, <2>5, <2>6, RowGood
<1> HIDE DEF path, owner, kind, t, rowOf
<1>7. \A r \in ToSet(t) : GoodRow(i, path, r)
  BY <1>5, <1>6
<1>8. Good(i, section(path, kind, owner, t))
  BY <1>2, <1>3, <1>4, <1>5, <1>7, SectionGood
<1> QED BY <1>1, <1>8

\* A section that is there to clean up.
LEMMA SweepGood == \A i, p : p \in Swept => Good(i, Sweep(p))
<1> SUFFICES ASSUME NEW i, NEW p \in Swept PROVE Good(i, Sweep(p))
  OBVIOUS
<1> DEFINE s == Sweep(p) owner == <<"sdwan", "fabric">>
<1>1. s.path = p /\ s.order = 40 /\ s.owner = owner /\ s.items = <<>> /\ s.comment_capable = TRUE
  BY DEF Sweep, section, ORDER
<1>2. p \in Paths /\ Low(p) <= 40 /\ Low(p) \in Int
  BY PathsListed DEF Swept, Low
<1>3. IsSeq(owner) /\ Len(owner) >= 1 /\ owner[1] = "sdwan"
  BY Tuples, FirstWords
<1>4. IsSeq(<<>>) /\ ToSet(<<>>) = {}
  BY Tuples
<1> HIDE DEF s, owner
<1>5. s.path \in Paths /\ s.order \in Int /\ Low(s.path) <= s.order
  BY <1>1, <1>2
<1> QED BY <1>1, <1>3, <1>4, <1>5 DEF Good, s

\* The one-row sections of the baseline.
BaseSection(i, path, kind, word, name, refs) ==
  section(path, kind, <<"sdwan", "site">>, <<Row(name, refs, 0, <<"sdwan", "site", i.site, word>>)>>)

\* A one-row section of the site baseline.
LEMMA BaseSectionGood ==
  ASSUME NEW i, NEW path \in Paths \ {Profile}, <<"sdwan", "site">> \in Scopes(i, path),
         NEW kind, ORDER[kind] \in Int, Low(path) <= ORDER[kind], NEW word, NEW name, name # <<"by hand">>,
         NEW refs, \A x \in refs : Target(i, path, x),
         Row(name, refs, 0, <<"sdwan", "site", i.site, word>>) = Canon(i, path, name)
  PROVE  Good(i, BaseSection(i, path, kind, word, name, refs))
<1> DEFINE tag == <<"sdwan", "site", i.site, word>> r == Row(name, refs, 0, tag)
           items == <<r>> owner == <<"sdwan", "site">>
<1>1. IsSeq(tag) /\ IsPrefix(<<"sdwan", "site">>, tag)
  BY TupleTags
<1>2. IsSeq(owner) /\ Len(owner) >= 1 /\ owner[1] = "sdwan"
  BY Tuples, FirstWords
<1>3. BaseSection(i, path, kind, word, name, refs) = section(path, kind, owner, items)
  BY DEF BaseSection
<1>4. IsSeq(items) /\ ToSet(items) = {r}
  BY Tuples
<1>5. GoodRow(i, path, r)
  <2> HIDE DEF tag
  <2>2. Row(name, refs, 0, tag) = Canon(i, path, name)
    BY DEF tag
  <2> QED BY Zero, <1>1, <2>2, RowGood
<1> HIDE DEF tag, r, items, owner
<1>6. \A x \in ToSet(items) : GoodRow(i, path, x)
  BY <1>4, <1>5
<1>7. Good(i, section(path, kind, owner, items))
  BY <1>2, <1>4, <1>6, SectionGood
<1> QED BY <1>3, <1>7

Loopback == <<"/interface/bridge", <<"sdwan-lo">>>>

SiteParts(i) ==
  {BaseSection(i, "/interface/bridge", "interface", "loopback", <<"sdwan-lo">>, {}),
   BaseSection(i, "/ip/address", "address", "loopback-address", <<"loopback">>, {Loopback}),
   BaseSection(i, "/ip/firewall/address-list", "address_list", "local", <<"local", i.site>>, {})}

\* The sections of the site baseline.
LEMMA SiteOf == \A i : ToSet(RenderSite(i)) = SiteParts(i)
<1> SUFFICES ASSUME NEW i PROVE ToSet(RenderSite(i)) = SiteParts(i)
  OBVIOUS
<1> DEFINE a == BaseSection(i, "/interface/bridge", "interface", "loopback", <<"sdwan-lo">>, {})
           b == BaseSection(i, "/ip/address", "address", "loopback-address", <<"loopback">>, {Loopback})
           c == BaseSection(i, "/ip/firewall/address-list", "address_list", "local", <<"local", i.site>>, {})
<1>1. <<"sdwan", "site">> \o <<i.site, "loopback">> = <<"sdwan", "site", i.site, "loopback">>
      /\ <<"sdwan", "site">> \o <<i.site, "loopback-address">> = <<"sdwan", "site", i.site, "loopback-address">>
      /\ <<"sdwan", "site">> \o <<i.site, "local">> = <<"sdwan", "site", i.site, "local">>
  <2>1. ASSUME NEW w PROVE <<"sdwan", "site">> \o <<i.site, w>> = <<"sdwan", "site", i.site, w>>
    <3> DEFINE s == <<"sdwan", "site">> t == <<i.site, w>> u == <<"sdwan", "site", i.site, w>> v == s \o t
               D == {"sdwan", "site", i.site, w}
    <3>1. s \in Seq(D) /\ Len(s) = 2 /\ s[1] = "sdwan" /\ s[2] = "site"
      OBVIOUS
    <3>2. t \in Seq(D) /\ Len(t) = 2 /\ t[1] = i.site /\ t[2] = w
      OBVIOUS
    <3>3. u \in Seq(D) /\ Len(u) = 4 /\ u[1] = "sdwan" /\ u[2] = "site" /\ u[3] = i.site /\ u[4] = w
      OBVIOUS
    <3> HIDE DEF s, t, u, D
    <3>4. /\ v \in Seq(D) /\ Len(v) = Len(s) + Len(t)
          /\ \A n \in 1..Len(s) + Len(t) : v[n] = IF n <= Len(s) THEN s[n] ELSE t[n - Len(s)]
      BY <3>1, <3>2, ConcatProperties
    <3> HIDE DEF v
    <3>5. Len(v) = 4 /\ v[1] = u[1] /\ v[2] = u[2] /\ v[3] = u[3] /\ v[4] = u[4]
      BY <3>1, <3>2, <3>3, <3>4
    <3>6. \A n \in 1..4 : v[n] = u[n]
      <4>1. 1..4 = {1, 2, 3, 4}
        OBVIOUS
      <4> QED BY <3>5, <4>1
    <3>7. v = u
      BY <3>3, <3>4, <3>5, <3>6, SeqEqual
    <3> QED BY <3>7 DEF s, t, u, v
  <2> QED BY <2>1
<1>2. RenderSite(i) = <<a, b, c>>
  BY <1>1 DEF RenderSite, BaseSection, Loopback
<1> HIDE DEF a, b, c
<1>3. ToSet(<<a, b, c>>) = {a, b, c}
  BY Tuples
<1> QED BY <1>2, <1>3 DEF SiteParts, a, b, c

\* They are good.
LEMMA SiteGood ==
  ASSUME NEW i, IsIntent(i), NEW s \in SiteParts(i)
  PROVE  Good(i, s)
<1>1. Good(i, BaseSection(i, "/interface/bridge", "interface", "loopback", <<"sdwan-lo">>, {}))
  <2> DEFINE path == "/interface/bridge" kind == "interface" word == "loopback" name == <<"sdwan-lo">> refs == {}
  <2>1. path \in Paths \ {Profile} /\ <<"sdwan", "site">> \in Scopes(i, path)
    BY PathsListed DEF Profile, Scopes
  <2>2. ORDER[kind] \in Int /\ Low(path) <= ORDER[kind]
    BY DEF ORDER, Low
  <2>3. Row(name, refs, 0, <<"sdwan", "site", i.site, word>>) = Canon(i, path, name)
    BY DEF Canon
  <2>4. name # <<"by hand">>
    OBVIOUS
  <2>5. \A x \in refs : Target(i, path, x)
    OBVIOUS
  <2> HIDE DEF path, kind, word, name, refs
  <2>6. Good(i, BaseSection(i, path, kind, word, name, refs))
    BY <2>1, <2>2, <2>3, <2>4, <2>5, BaseSectionGood
  <2> QED BY <2>6 DEF path, kind, word, name, refs
<1>2. Good(i, BaseSection(i, "/ip/address", "address", "loopback-address", <<"loopback">>, {Loopback}))
  <2> DEFINE path == "/ip/address" kind == "address" word == "loopback-address" name == <<"loopback">>
             refs == {Loopback}
  <2>1. path \in Paths \ {Profile} /\ <<"sdwan", "site">> \in Scopes(i, path)
    BY PathsListed DEF Profile, Scopes
  <2>2. ORDER[kind] \in Int /\ Low(path) <= ORDER[kind]
    BY DEF ORDER, Low
  <2>3. Row(name, refs, 0, <<"sdwan", "site", i.site, word>>) = Canon(i, path, name)
    BY DEF Canon, Loopback
  <2>4. name # <<"by hand">>
    OBVIOUS
  <2>5. \A x \in refs : Target(i, path, x)
    <3> DEFINE s1 == BaseSection(i, "/interface/bridge", "interface", "loopback", <<"sdwan-lo">>, {})
               r1 == Row(<<"sdwan-lo">>, {}, 0, <<"sdwan", "site", i.site, "loopback">>)
    <3>1. s1 \in Parts(i)
      BY PartsOf, SiteOf DEF SiteParts
    <3>2. s1.path = "/interface/bridge" /\ s1.order = 20 /\ s1.items = <<r1>> /\ r1.name = <<"sdwan-lo">>
      BY DEF BaseSection, section, ORDER, Row
    <3>3. r1 \in ToSet(<<r1>>)
      BY Tuples
    <3>4. Loopback[1] = "/interface/bridge" /\ Loopback[2] = <<"sdwan-lo">>
      BY DEF Loopback
    <3>5. "/interface/bridge" \in Paths /\ Low("/interface/bridge") = 20 /\ Ahead("/interface/bridge", path)
      BY PathsListed, Lows DEF Ahead
    <3> HIDE DEF s1, r1, path
    <3>6. \E y \in ToSet(s1.items) : y.name = Loopback[2]
      BY <3>2, <3>3, <3>4
    <3> QED BY <3>1, <3>2, <3>4, <3>5, <3>6 DEF Target
  <2> HIDE DEF path, kind, word, name, refs
  <2>6. Good(i, BaseSection(i, path, kind, word, name, refs))
    BY <2>1, <2>2, <2>3, <2>4, <2>5, BaseSectionGood
  <2> QED BY <2>6 DEF path, kind, word, name, refs
<1>3. Good(i, BaseSection(i, "/ip/firewall/address-list", "address_list", "local", <<"local", i.site>>, {}))
  <2> DEFINE path == "/ip/firewall/address-list" kind == "address_list" word == "local" name == <<"local", i.site>>
             refs == {}
  <2>1. path \in Paths \ {Profile} /\ <<"sdwan", "site">> \in Scopes(i, path)
    BY PathsListed DEF Profile, Scopes
  <2>2. ORDER[kind] \in Int /\ Low(path) <= ORDER[kind]
    BY DEF ORDER, Low
  <2>4. name # <<"by hand">> /\ name # <<"adv">>
    OBVIOUS
  <2>3. Row(name, refs, 0, <<"sdwan", "site", i.site, word>>) = Canon(i, path, name)
    BY <2>4 DEF Canon
  <2>5. \A x \in refs : Target(i, path, x)
    OBVIOUS
  <2> HIDE DEF path, kind, word, name, refs
  <2>6. Good(i, BaseSection(i, path, kind, word, name, refs))
    BY <2>1, <2>2, <2>3, <2>4, <2>5, BaseSectionGood
  <2> QED BY <2>6 DEF path, kind, word, name, refs
<1> QED BY <1>1, <1>2, <1>3 DEF SiteParts

FireTag(i, part) == <<"sdwan", "firewall", i.site>> \o part

\* The tags of the firewall, written out.
LEMMA FireTags ==
  \A i, a, b, c : /\ FireTag(i, <<a>>) = <<"sdwan", "firewall", i.site, a>>
                  /\ FireTag(i, <<a, b>>) = <<"sdwan", "firewall", i.site, a, b>>
                  /\ FireTag(i, <<a, b, c>>) = <<"sdwan", "firewall", i.site, a, b, c>>
<1> SUFFICES ASSUME NEW i, NEW a, NEW b, NEW c
             PROVE  /\ FireTag(i, <<a>>) = <<"sdwan", "firewall", i.site, a>>
                    /\ FireTag(i, <<a, b>>) = <<"sdwan", "firewall", i.site, a, b>>
                    /\ FireTag(i, <<a, b, c>>) = <<"sdwan", "firewall", i.site, a, b, c>>
  OBVIOUS
<1> DEFINE s == <<"sdwan", "firewall", i.site>> D == {"sdwan", "firewall", i.site, a, b, c}
<1>1. s \in Seq(D) /\ Len(s) = 3 /\ s[1] = "sdwan" /\ s[2] = "firewall" /\ s[3] = i.site
  OBVIOUS
<1>2. FireTag(i, <<a>>) = s \o <<a>> /\ FireTag(i, <<a, b>>) = s \o <<a, b>> /\ FireTag(i, <<a, b, c>>) = s \o <<a, b, c>>
  BY DEF FireTag
<1> HIDE DEF s
<1>3. s \o <<a>> = <<"sdwan", "firewall", i.site, a>>
  <2> DEFINE t == <<a>> u == <<"sdwan", "firewall", i.site, a>> v == s \o t
  <2>1. t \in Seq(D) /\ Len(t) = 1 /\ t[1] = a
    OBVIOUS
  <2>2. u \in Seq(D) /\ Len(u) = 4 /\ u[1] = "sdwan" /\ u[2] = "firewall" /\ u[3] = i.site /\ u[4] = a
    OBVIOUS
  <2> HIDE DEF t, u, D
  <2>3. /\ v \in Seq(D) /\ Len(v) = Len(s) + Len(t)
        /\ \A n \in 1..Len(s) + Len(t) : v[n] = IF n <= Len(s) THEN s[n] ELSE t[n - Len(s)]
    BY <1>1, <2>1, ConcatProperties
  <2> HIDE DEF v
  <2>4. Len(v) = 4 /\ v[1] = u[1] /\ v[2] = u[2] /\ v[3] = u[3] /\ v[4] = u[4]
    BY <1>1, <2>1, <2>2, <2>3
  <2>5. \A n \in 1..4 : v[n] = u[n]
    <3>1. 1..4 = {1, 2, 3, 4}
      OBVIOUS
    <3> QED BY <2>4, <3>1
  <2>6. v = u
    BY <2>2, <2>3, <2>4, <2>5, SeqEqual
  <2> QED BY <2>6 DEF t, u, v
<1>4. s \o <<a, b>> = <<"sdwan", "firewall", i.site, a, b>>
  <2> DEFINE t == <<a, b>> u == <<"sdwan", "firewall", i.site, a, b>> v == s \o t
  <2>1. t \in Seq(D) /\ Len(t) = 2 /\ t[1] = a /\ t[2] = b
    OBVIOUS
  <2>2. u \in Seq(D) /\ Len(u) = 5 /\ u[1] = "sdwan" /\ u[2] = "firewall" /\ u[3] = i.site /\ u[4] = a /\ u[5] = b
    OBVIOUS
  <2> HIDE DEF t, u, D
  <2>3. /\ v \in Seq(D) /\ Len(v) = Len(s) + Len(t)
        /\ \A n \in 1..Len(s) + Len(t) : v[n] = IF n <= Len(s) THEN s[n] ELSE t[n - Len(s)]
    BY <1>1, <2>1, ConcatProperties
  <2> HIDE DEF v
  <2>4. Len(v) = 5 /\ v[1] = u[1] /\ v[2] = u[2] /\ v[3] = u[3] /\ v[4] = u[4] /\ v[5] = u[5]
    BY <1>1, <2>1, <2>2, <2>3
  <2>5. \A n \in 1..5 : v[n] = u[n]
    <3>1. 1..5 = {1, 2, 3, 4, 5}
      OBVIOUS
    <3> QED BY <2>4, <3>1
  <2>6. v = u
    BY <2>2, <2>3, <2>4, <2>5, SeqEqual
  <2> QED BY <2>6 DEF t, u, v
<1>5. s \o <<a, b, c>> = <<"sdwan", "firewall", i.site, a, b, c>>
  <2> DEFINE t == <<a, b, c>> u == <<"sdwan", "firewall", i.site, a, b, c>> v == s \o t
  <2>1. t \in Seq(D) /\ Len(t) = 3 /\ t[1] = a /\ t[2] = b /\ t[3] = c
    OBVIOUS
  <2>2. u \in Seq(D) /\ Len(u) = 6 /\ u[1] = "sdwan" /\ u[2] = "firewall" /\ u[3] = i.site /\ u[4] = a /\ u[5] = b
        /\ u[6] = c
    OBVIOUS
  <2> HIDE DEF t, u, D
  <2>3. /\ v \in Seq(D) /\ Len(v) = Len(s) + Len(t)
        /\ \A n \in 1..Len(s) + Len(t) : v[n] = IF n <= Len(s) THEN s[n] ELSE t[n - Len(s)]
    BY <1>1, <2>1, ConcatProperties
  <2> HIDE DEF v
  <2>4. Len(v) = 6 /\ v[1] = u[1] /\ v[2] = u[2] /\ v[3] = u[3] /\ v[4] = u[4] /\ v[5] = u[5] /\ v[6] = u[6]
    BY <1>1, <2>1, <2>2, <2>3
  <2>5. \A n \in 1..6 : v[n] = u[n]
    <3>1. 1..6 = {1, 2, 3, 4, 5, 6}
      OBVIOUS
    <3> QED BY <2>4, <3>1
  <2>6. v = u
    BY <2>2, <2>3, <2>4, <2>5, SeqEqual
  <2> QED BY <2>6 DEF t, u, v
<1> QED BY <1>2, <1>3, <1>4, <1>5

NatRows(i) ==
  [n \in 1..Len(InOrder(i.links)) |->
     Row(FireTag(i, <<"nat", "bypass", InOrder(i.links)[n]>>), {}, 0, FireTag(i, <<"nat", "bypass", InOrder(i.links)[n]>>))]
    \o <<Row(FireTag(i, <<"nat", "masq">>), {}, 0, FireTag(i, <<"nat", "masq">>))>>
FilterRows(i) ==
  [n \in 1..Len(InOrder(i.links)) |->
     Row(FireTag(i, <<"input", i.transport, InOrder(i.links)[n]>>), {}, 0,
         FireTag(i, <<"input", i.transport, InOrder(i.links)[n]>>))]
NatSection(i) == [section("/ip/firewall/nat", "firewall", FireTag(i, <<"nat">>), NatRows(i)) EXCEPT !.before = TRUE]
FilterSection(i) == [section("/ip/firewall/filter", "firewall", FireTag(i, <<"input">>), FilterRows(i)) EXCEPT !.before = TRUE]

\* The sections of the firewall.
LEMMA FirewallOf == \A i : ToSet(RenderFirewall(i)) = {NatSection(i), FilterSection(i)}
<1> SUFFICES ASSUME NEW i PROVE ToSet(RenderFirewall(i)) = {NatSection(i), FilterSection(i)}
  OBVIOUS
<1>1. RenderFirewall(i) = <<NatSection(i), FilterSection(i)>>
  BY DEF RenderFirewall, NatSection, FilterSection, NatRows, FilterRows, FireTag, PerLink
<1> QED BY <1>1, Tuples

\* A row of the firewall is keyed by its comment.
LEMMA FireRowGood ==
  ASSUME NEW i, NEW p \in {"/ip/firewall/nat", "/ip/firewall/filter"}, NEW tag, NEW scope \in Scopes(i, p), IsSeq(tag),
         IsPrefix(scope, tag), tag # <<"by hand">>
  PROVE  GoodRow(i, p, Row(tag, {}, 0, tag))
<1> DEFINE refs == {}
<1>1. Row(tag, refs, 0, tag) = Canon(i, p, tag)
  BY DEF Canon
<1>2. \A x \in refs : Target(i, p, x)
  OBVIOUS
<1> HIDE DEF refs
<1>3. GoodRow(i, p, Row(tag, refs, 0, tag))
  BY Zero, <1>1, <1>2, RowGood
<1> QED BY <1>3 DEF refs

\* The NAT rules.
LEMMA NatGood ==
  ASSUME NEW i, IsIntent(i)
  PROVE  Good(i, NatSection(i))
<1> DEFINE p == "/ip/firewall/nat" scope == <<"sdwan", "firewall", i.site, "nat">> kind == "firewall"
           tagOf == [l \in i.links |-> FireTag(i, <<"nat", "bypass", l>>)]
           rowOf == [l \in i.links |-> Row(tagOf[l], {}, 0, tagOf[l])]
           q == InOrder(i.links)
           t == [n \in 1..Len(q) |-> Row(FireTag(i, <<"nat", "bypass", q[n]>>), {}, 0, FireTag(i, <<"nat", "bypass", q[n]>>))]
           masq == FireTag(i, <<"nat", "masq">>)
           last == Row(masq, {}, 0, masq)
           owner == FireTag(i, <<"nat">>)
<1>1. scope \in Scopes(i, p) /\ p \in Paths \ {Profile}
  BY PathsListed DEF Scopes, Profile
<1>2. IsSeq(t) /\ ToSet(t) = {rowOf[l] : l \in i.links}
  <2>1. t = [n \in 1..Len(InOrder(i.links)) |-> rowOf[InOrder(i.links)[n]]]
    BY LinksOfOrder
  <2> HIDE DEF t, rowOf, q
  <2> QED BY <2>1, RowPerLink
<1>3. ASSUME NEW l \in i.links PROVE GoodRow(i, p, rowOf[l])
  <2> DEFINE tag == tagOf[l]
  <2>1. tag = <<"sdwan", "firewall", i.site, "nat", "bypass", l>>
    BY FireTags
  <2>2. rowOf[l] = Row(tag, {}, 0, tag)
    OBVIOUS
  <2> HIDE DEF tag, rowOf
  <2>3. tag # <<"by hand">>
    BY <2>1
  <2>4. IsSeq(tag) /\ IsPrefix(scope, tag)
    BY <2>1, TupleTags
  <2> HIDE DEF scope
  <2>5. GoodRow(i, p, Row(tag, {}, 0, tag))
    BY <1>1, <2>3, <2>4, FireRowGood
  <2> QED BY <2>2, <2>5
<1>4. GoodRow(i, p, last)
  <2>1. masq = <<"sdwan", "firewall", i.site, "nat", "masq">>
    BY FireTags
  <2> HIDE DEF masq
  <2>2. masq # <<"by hand">>
    BY <2>1
  <2>3. IsSeq(masq) /\ IsPrefix(scope, masq)
    BY <2>1, TupleTags
  <2> HIDE DEF scope
  <2>4. GoodRow(i, p, Row(masq, {}, 0, masq))
    BY <1>1, <2>2, <2>3, FireRowGood
  <2> QED BY <2>4
<1>5. NatRows(i) = t \o <<last>>
  BY DEF NatRows
<1>6. IsSeq(owner) /\ Len(owner) >= 1 /\ owner[1] = "sdwan"
  <2>1. owner = <<"sdwan", "firewall", i.site, "nat">>
    BY FireTags
  <2> HIDE DEF owner
  <2> QED BY <2>1, Tuples, FirstWords
<1>7. ORDER[kind] \in Int /\ Low(p) <= ORDER[kind]
  BY Lows DEF ORDER
<1> HIDE DEF p, t, last, rowOf, owner, kind
<1>8. IsSeq(<<last>>) /\ ToSet(<<last>>) = {last}
  BY Tuples
<1>9. IsSeq(NatRows(i)) /\ ToSet(NatRows(i)) = {rowOf[l] : l \in i.links} \cup {last}
  BY <1>2, <1>5, <1>8, Joined
<1>10. \A r \in ToSet(NatRows(i)) : GoodRow(i, p, r)
  BY <1>3, <1>4, <1>9
<1>11. Good(i, [section(p, kind, owner, NatRows(i)) EXCEPT !.before = TRUE])
  BY <1>1, <1>6, <1>7, <1>9, <1>10, SectionGood
<1> QED BY <1>11 DEF NatSection, p, kind, owner

\* The filter rules.
LEMMA FilterGood ==
  ASSUME NEW i, IsIntent(i)
  PROVE  Good(i, FilterSection(i))
<1> DEFINE p == "/ip/firewall/filter" scope == <<"sdwan", "firewall", i.site, "input">> kind == "firewall"
           tagOf == [l \in i.links |-> FireTag(i, <<"input", i.transport, l>>)]
           rowOf == [l \in i.links |-> Row(tagOf[l], {}, 0, tagOf[l])]
           q == InOrder(i.links)
           t == FilterRows(i)
           owner == FireTag(i, <<"input">>)
<1>1. scope \in Scopes(i, p) /\ p \in Paths \ {Profile}
  BY PathsListed DEF Scopes, Profile
<1>2. IsSeq(t) /\ ToSet(t) = {rowOf[l] : l \in i.links}
  <2>1. t = [n \in 1..Len(InOrder(i.links)) |-> rowOf[InOrder(i.links)[n]]]
    BY LinksOfOrder DEF FilterRows
  <2> HIDE DEF t, rowOf, q
  <2> QED BY <2>1, RowPerLink
<1>3. ASSUME NEW l \in i.links PROVE GoodRow(i, p, rowOf[l])
  <2> DEFINE tag == tagOf[l]
  <2>1. tag = <<"sdwan", "firewall", i.site, "input", i.transport, l>>
    BY FireTags
  <2>2. rowOf[l] = Row(tag, {}, 0, tag)
    OBVIOUS
  <2> HIDE DEF tag, rowOf
  <2>3. tag # <<"by hand">>
    BY <2>1
  <2>4. IsSeq(tag) /\ IsPrefix(scope, tag)
    BY <2>1, TupleTags
  <2> HIDE DEF scope
  <2>5. GoodRow(i, p, Row(tag, {}, 0, tag))
    BY <1>1, <2>3, <2>4, FireRowGood
  <2> QED BY <2>2, <2>5
<1>6. IsSeq(owner) /\ Len(owner) >= 1 /\ owner[1] = "sdwan"
  <2>1. owner = <<"sdwan", "firewall", i.site, "input">>
    BY FireTags
  <2> HIDE DEF owner
  <2> QED BY <2>1, Tuples, FirstWords
<1>7. ORDER[kind] \in Int /\ Low(p) <= ORDER[kind]
  BY Lows DEF ORDER
<1> HIDE DEF p, t, rowOf, owner, kind
<1>10. \A r \in ToSet(t) : GoodRow(i, p, r)
  BY <1>2, <1>3
<1>11. Good(i, [section(p, kind, owner, t) EXCEPT !.before = TRUE])
  BY <1>1, <1>2, <1>6, <1>7, <1>10, SectionGood
<1> QED BY <1>11 DEF FilterSection, p, kind, owner, t

\* Every section that is rendered for a router is good.
LEMMA PartsGood ==
  ASSUME NEW i, IsIntent(i)
  PROVE  \A s \in Parts(i) : Good(i, s)
<1>1. Parts(i) = SiteParts(i) \cup {Sweep(p) : p \in Swept}
                   \cup (IF i.links = {} THEN {} ELSE FabricParts(i)) \cup {NatSection(i), FilterSection(i)}
  BY PartsOf, SiteOf, FirewallOf
<1>2. ASSUME i.links # {}, NEW s \in FabricParts(i) PROVE Good(i, s)
  <2>1. CASE \E l \in i.links : s \in ToSet(RenderLink(i, l))
    BY <2>1, LinkGood
  <2>2. CASE s \in ToSet(Bgp(i))
    BY <1>2, <2>2, BgpGood
  <2>3. CASE s = UnderlayRoutes(i) \/ s = MssClamp(i)
    BY <2>3, RoutesGood, ClampGood
  <2> QED BY <1>2, <2>1, <2>2, <2>3 DEF FabricParts
<1>3. \A s \in SiteParts(i) : Good(i, s)
  BY SiteGood
<1>4. \A p \in Swept : Good(i, Sweep(p))
  BY SweepGood
<1>5. Good(i, NatSection(i)) /\ Good(i, FilterSection(i))
  BY NatGood, FilterGood
<1> QED BY <1>1, <1>2, <1>3, <1>4, <1>5

\* Of whatever a row's tag may begin with, some section says so.
LEMMA ScopesOwned ==
  ASSUME NEW i, IsIntent(i), NEW p \in Paths
  PROVE  /\ \A x \in Scopes(i, p) : IsSeq(x) /\ \E s \in Parts(i) : s.path = p /\ s.owner = x
         /\ Scopes(i, p) # {}
<1>1. Parts(i) = SiteParts(i) \cup {Sweep(q) : q \in Swept}
                   \cup (IF i.links = {} THEN {} ELSE FabricParts(i)) \cup {NatSection(i), FilterSection(i)}
  BY PartsOf, SiteOf, FirewallOf
<1>2. CASE p = "/ip/firewall/nat"
  <2>1. Scopes(i, p) = {<<"sdwan", "firewall", i.site, "nat">>}
    BY <1>2 DEF Scopes
  <2>2. NatSection(i).path = p /\ NatSection(i).owner = FireTag(i, <<"nat">>)
    BY <1>2 DEF NatSection, section
  <2>3. IsSeq(<<"sdwan", "firewall", i.site, "nat">>)
    BY Tuples
  <2> QED BY <1>1, <2>1, <2>2, <2>3, FireTags
<1>3. CASE p = "/ip/firewall/filter"
  <2>1. Scopes(i, p) = {<<"sdwan", "firewall", i.site, "input">>}
    BY <1>3 DEF Scopes
  <2>2. FilterSection(i).path = p /\ FilterSection(i).owner = FireTag(i, <<"input">>)
    BY <1>3 DEF FilterSection, section
  <2>3. IsSeq(<<"sdwan", "firewall", i.site, "input">>)
    BY Tuples
  <2> QED BY <1>1, <2>1, <2>2, <2>3, FireTags
<1>4. ASSUME p \notin {"/ip/firewall/nat", "/ip/firewall/filter"}
      PROVE  IsSeq(<<"sdwan", "fabric">>) /\ \E s \in Parts(i) : s.path = p /\ s.owner = <<"sdwan", "fabric">>
  <2>1. Sweep(p) \in Parts(i)
    BY <1>1, <1>4 DEF Swept
  <2>2. Sweep(p).path = p /\ Sweep(p).owner = <<"sdwan", "fabric">>
    BY DEF Sweep, section
  <2> QED BY <2>1, <2>2, Tuples
<1>5. ASSUME p \in {"/interface/bridge", "/ip/address", "/ip/firewall/address-list"}
      PROVE  IsSeq(<<"sdwan", "site">>) /\ \E s \in Parts(i) : s.path = p /\ s.owner = <<"sdwan", "site">>
  <2>1. \A path, kind, word, name, refs :
          LET s == BaseSection(i, path, kind, word, name, refs) IN s.path = path /\ s.owner = <<"sdwan", "site">>
    BY DEF BaseSection, section
  <2>2. \E kind, word, name, refs : BaseSection(i, p, kind, word, name, refs) \in Parts(i)
    BY <1>1, <1>5 DEF SiteParts
  <2> QED BY <2>1, <2>2, Tuples
<1>6. CASE p \in {"/interface/bridge", "/ip/address", "/ip/firewall/address-list"}
  <2>1. Scopes(i, p) = {<<"sdwan", "fabric">>, <<"sdwan", "site">>}
    BY <1>6 DEF Scopes
  <2>2. p \notin {"/ip/firewall/nat", "/ip/firewall/filter"}
    BY <1>6
  <2> QED BY <1>4, <1>5, <1>6, <2>1, <2>2
<1>7. CASE p \notin {"/interface/bridge", "/ip/address", "/ip/firewall/address-list",
                     "/ip/firewall/nat", "/ip/firewall/filter"}
  <2>1. Scopes(i, p) = {<<"sdwan", "fabric">>}
    BY <1>7 DEF Scopes
  <2> QED BY <1>4, <1>7, <2>1
<1> QED BY <1>2, <1>3, <1>6, <1>7

-----------------------------------------------------------------------------
(* Merging the sections of a menu.                                         *)

AskedOf(i, p) ==
  UNION {{[r EXCEPT !.tag = IF s.comment_capable THEN @ ELSE <<>>] : r \in ToSet(s.items)} :
            s \in {t \in Parts(i) : t.path = p}}

\* A good row without the tag that its menu does not store.
Stored(p, r) == Row(r.name, r.refs, r.val, IF p = Profile THEN <<>> ELSE r.tag)

\* A row that is asked for is a good row, as its menu stores it.
LEMMA AskedRow ==
  ASSUME NEW i, IsIntent(i), NEW p
  PROVE  /\ AskedOf(i, p) = {Stored(p, r) : r \in UNION {ToSet(s.items) : s \in {t \in Parts(i) : t.path = p}}}
         /\ \A a \in AskedOf(i, p) : \E r : GoodRow(i, p, r) /\ a = Stored(p, r)
<1> DEFINE P == {t \in Parts(i) : t.path = p}
           Strip(s, r) == [r EXCEPT !.tag = IF s.comment_capable THEN @ ELSE <<>>]
<1>1. ASSUME NEW s \in P, NEW r \in ToSet(s.items)
      PROVE  GoodRow(i, p, r) /\ Strip(s, r) = Stored(p, r)
  <2>1. Good(i, s) /\ s.path = p
    BY PartsGood
  <2>2. GoodRow(i, p, r)
    BY <2>1 DEF Good
  <2>3. r = Row(r.name, r.refs, r.val, r.tag)
    BY <2>2 DEF GoodRow
  <2>4. s.items # <<>>
    BY EmptyMembers
  <2>5. s.comment_capable = (p # Profile)
    BY <2>1, <2>4 DEF Good
  <2>6. \A n, f, v, t, u : [Row(n, f, v, t) EXCEPT !.tag = u] = Row(n, f, v, u)
    BY DEF Row
  <2>7. Strip(s, r) = Row(r.name, r.refs, r.val, IF s.comment_capable THEN r.tag ELSE <<>>)
    BY <2>3, <2>6
  <2> QED BY <2>2, <2>5, <2>7 DEF Stored
<1>2. AskedOf(i, p) = UNION {{Strip(s, r) : r \in ToSet(s.items)} : s \in P}
  BY DEF AskedOf
<1> HIDE DEF P, Strip
<1>3. AskedOf(i, p) = {Stored(p, r) : r \in UNION {ToSet(s.items) : s \in P}}
  BY <1>1, <1>2
<1>4. \A a \in AskedOf(i, p) : \E r : GoodRow(i, p, r) /\ a = Stored(p, r)
  BY <1>1, <1>3
<1> QED BY <1>3, <1>4 DEF P

\* No two rows that are asked for in a menu have the same name.
LEMMA AskedNames ==
  ASSUME NEW i, IsIntent(i), NEW p, NEW a \in AskedOf(i, p), NEW b \in AskedOf(i, p), a.name = b.name
  PROVE  a = b
<1>1. PICK r : GoodRow(i, p, r) /\ a = Stored(p, r)
  BY AskedRow
<1>2. PICK q : GoodRow(i, p, q) /\ b = Stored(p, q)
  BY AskedRow
<1>3. a.name = r.name /\ b.name = q.name
  BY <1>1, <1>2 DEF Stored, Row
<1>4. r = Canon(i, p, r.name) /\ q = Canon(i, p, q.name)
  BY <1>1, <1>2 DEF GoodRow
<1>5. r.name = q.name
  BY <1>3
<1>6. r = q
  <2> HIDE DEF Canon
  <2> QED BY <1>4, <1>5
<1> QED BY <1>1, <1>2, <1>6

\* What a row that is asked for refers to is asked for too, and on layer 3 in
\* a menu that comes earlier.
LEMMA AskedTarget ==
  ASSUME NEW i, IsIntent(i), NEW p, NEW a \in AskedOf(i, p), NEW x \in a.refs
  PROVE  /\ x[1] \in Paths /\ \E b \in AskedOf(i, x[1]) : b.name = x[2]
         /\ \E t \in Parts(i) : t.path = x[1] /\ t.order = Low(x[1])
         /\ Layer3(i) => Ahead(x[1], p)
<1>1. PICK r : GoodRow(i, p, r) /\ a = Stored(p, r)
  BY AskedRow
<1>2. x \in r.refs
  BY <1>1 DEF Stored, Row
<1>3. Target(i, p, x)
  BY <1>1, <1>2 DEF GoodRow
<1>4. PICK t \in Parts(i) : t.path = x[1] /\ t.order = Low(x[1]) /\ \E q \in ToSet(t.items) : q.name = x[2]
  BY <1>3 DEF Target
<1>5. PICK q \in ToSet(t.items) : q.name = x[2]
  BY <1>4
<1>6. Stored(x[1], q) \in AskedOf(i, x[1])
  BY <1>4, AskedRow
<1>7. Stored(x[1], q).name = x[2]
  BY <1>5 DEF Stored, Row
<1> QED BY <1>3, <1>4, <1>6, <1>7 DEF Target


\* The parts of a menu.
PartsAt(i, p) == Only(Rendered(i), {s \in ToSet(Rendered(i)) : s.path = p})

\* (The order of a menu is a number.)
LEMMA LowTyped == \A p : Low(p) \in Nat
BY DEF Low

\* The sections of one menu, in their order: there is at least one, and each
\* is good.
LEMMA OfMenu ==
  ASSUME NEW i, IsIntent(i), NEW p \in Paths,
         NEW parts, parts = PartsAt(i, p)
  PROVE  /\ IsSeq(parts) /\ Len(parts) \in Nat /\ DOMAIN parts = 1..Len(parts)
         /\ ToSet(parts) = {s \in Parts(i) : s.path = p} /\ ToSet(parts) # {}
         /\ \A n \in DOMAIN parts : parts[n] \in Parts(i) /\ parts[n].path = p /\ Good(i, parts[n])
<1> DEFINE S == {s \in ToSet(Rendered(i)) : s.path = p}
<1>1. Rendered(i) \in Seq(ToSet(Rendered(i)))
  BY PartsOf DEF IsSeq
<1>2. parts \in Seq(ToSet(Rendered(i))) /\ ToSet(parts) = ToSet(Rendered(i)) \cap S
  <2> DEFINE rd == Rendered(i) D == ToSet(Rendered(i))
  <2>1. parts = Only(rd, S)
    BY DEF PartsAt
  <2>2. rd \in Seq(D)
    BY <1>1
  <2> HIDE DEF S, rd, D
  <2>3. Only(rd, S) \in Seq(D) /\ ToSet(Only(rd, S)) = ToSet(rd) \cap S
    BY <2>2, OnlyTyped, OnlyMembers
  <2> QED BY <2>1, <2>3 DEF rd, D
<1>3. IsSeq(parts)
  BY <1>2, SeqOfMembers
<1>4. ToSet(parts) = {s \in Parts(i) : s.path = p}
  BY <1>2 DEF Parts
<1>5. Len(parts) \in Nat /\ DOMAIN parts = 1..Len(parts) /\ \A n \in DOMAIN parts : parts[n] \in ToSet(parts)
  BY <1>3 DEF IsSeq, ToSet
<1>6. ToSet(parts) # {}
  BY <1>4, ScopesOwned
<1> QED BY <1>3, <1>4, <1>5, <1>6, PartsGood

\* MergeOrder finds the least order of a menu's sections.
LEMMA MergedOrder ==
  ASSUME NEW i, IsIntent(i), NEW p \in Paths,
         NEW parts, parts = PartsAt(i, p)
  PROVE  /\ MergeOrder(parts) \in Nat /\ Low(p) <= MergeOrder(parts)
         /\ (\E t \in Parts(i) : t.path = p /\ t.order = Low(p)) => MergeOrder(parts) = Low(p)
<1> DEFINE T == {parts[n].order : n \in DOMAIN parts}
<1>0. /\ IsSeq(parts) /\ Len(parts) \in Nat /\ DOMAIN parts = 1..Len(parts)
      /\ ToSet(parts) = {s \in Parts(i) : s.path = p} /\ ToSet(parts) # {}
      /\ \A n \in DOMAIN parts : parts[n] \in Parts(i) /\ parts[n].path = p /\ Good(i, parts[n])
  BY OfMenu
<1>1. \A n \in DOMAIN parts : parts[n].order \in Nat /\ Low(p) <= parts[n].order
  <2> SUFFICES ASSUME NEW n \in DOMAIN parts PROVE parts[n].order \in Nat /\ Low(p) <= parts[n].order
    OBVIOUS
  <2>1. parts[n].order \in Int /\ Low(p) <= parts[n].order
    BY <1>0 DEF Good
  <2> QED BY <2>1, LowTyped
<1>2. T \subseteq Nat /\ T # {}
  <2>1. T \subseteq Nat
    BY <1>1
  <2>2. T # {}
    <3>1. \E n \in DOMAIN parts : TRUE
      <4> HIDE DEF T
      <4> QED BY <1>0 DEF ToSet
    <3> QED BY <3>1
  <2> QED BY <2>1, <2>2
<1>3. \E m \in T : \A n \in T : m <= n
  <2> HIDE DEF T
  <2> QED BY <1>2, LeastNumber
<1>4. MergeOrder(parts) = CHOOSE m \in T : \A n \in T : m <= n
  BY DEF MergeOrder, Min
<1> DEFINE o == MergeOrder(parts)
<1> HIDE DEF o
<1>5. o \in T /\ \A n \in T : o <= n
  <2> HIDE DEF T
  <2> QED BY <1>3, <1>4 DEF o
<1>6. o \in Nat /\ Low(p) <= o
  BY <1>1, <1>2, <1>5
<1>7. ASSUME NEW t \in Parts(i), t.path = p, t.order = Low(p) PROVE o = Low(p)
  <2>1. t \in ToSet(parts)
    BY <1>0, <1>7
  <2>2. PICK n \in DOMAIN parts : parts[n] = t
    BY <2>1 DEF ToSet
  <2>3. o <= Low(p)
    BY <1>5, <1>7, <2>2
  <2> QED BY <1>6, <2>3, LowTyped
<1> QED BY <1>6, <1>7 DEF o

\* MergeScope finds a prefix of every scope in which the menu's rows are
\* tagged.
LEMMA MergedOwner ==
  ASSUME NEW i, IsIntent(i), NEW p \in Paths,
         NEW parts, parts = PartsAt(i, p)
  PROVE  LET q == MergeScope(parts)
         IN IsSeq(q) /\ Len(q) >= 1 /\ \A x \in Scopes(i, p) : IsPrefix(q, x)
<1> DEFINE S == {parts[n].owner : n \in DOMAIN parts} q == MergeScope(parts)
<1>0. /\ IsSeq(parts) /\ Len(parts) \in Nat /\ DOMAIN parts = 1..Len(parts)
      /\ ToSet(parts) = {s \in Parts(i) : s.path = p} /\ ToSet(parts) # {}
      /\ \A n \in DOMAIN parts : parts[n] \in Parts(i) /\ parts[n].path = p /\ Good(i, parts[n])
  BY OfMenu
<1>1. \A s \in S : IsSeq(s) /\ Len(s) >= 1 /\ s[1] = "sdwan"
  BY <1>0 DEF Good
<1>2. q = LongestCommonPrefix(S)
  BY DEF MergeScope
<1>3. S # {}
  <2>1. \E n \in DOMAIN parts : TRUE
    <3> HIDE DEF S
    <3> QED BY <1>0 DEF ToSet
  <2> QED BY <2>1
<1>4. IsSeq(q) /\ Len(q) >= 1 /\ \A s \in S : IsPrefix(q, s)
  <2> DEFINE w == "sdwan"
  <2>1. PICK some \in S : TRUE
    BY <1>3
  <2>2. \A s \in S : IsSeq(s) /\ Len(s) >= 1 /\ s[1] = w
    BY <1>1
  <2> HIDE DEF S, q, w
  <2> QED BY <1>2, <2>1, <2>2, CommonPrefix
<1>5. ASSUME NEW x \in Scopes(i, p) PROVE IsPrefix(q, x)
  <2>1. PICK s \in Parts(i) : s.path = p /\ s.owner = x
    BY ScopesOwned
  <2>2. s \in ToSet(parts)
    BY <1>0, <2>1
  <2>3. x \in S
    BY <2>1, <2>2 DEF ToSet
  <2> HIDE DEF S, q
  <2> QED BY <1>4, <2>3
<1> QED BY <1>4, <1>5

FirstOf(rows, M) == {n \in 1..M : \A m \in 1..(n - 1) : rows[m] # rows[n]}

\* Each row of a sequence, where it is first.
LEMMA EachOnce ==
  ASSUME NEW M \in Nat, NEW rows,
         NEW kept, kept = Only([n \in 1..M |-> n], FirstOf(rows, M)),
         NEW items, items = [n \in DOMAIN kept |-> rows[kept[n]]]
  PROVE  /\ IsSeq(items) /\ ToSet(items) = {rows[n] : n \in 1..M}
         /\ \A m, n \in DOMAIN items : m # n => items[m] # items[n]
<1> DEFINE id == [n \in 1..M |-> n] S == FirstOf(rows, M) D == 1..M
           R == {z \in D \X D : rows[z[1]] = rows[z[2]] /\ z[1] \in S /\ z[2] \in S}
<1>1. id \in Seq(D) /\ Len(id) = M /\ DOMAIN id = D /\ \A n \in D : id[n] = n
  OBVIOUS
<1>2. ToSet(id) = D
  BY <1>1 DEF ToSet
<1>3. S \subseteq D /\ D \subseteq Nat
  BY DEF FirstOf
<1>4. \A m, n \in S : m < n => rows[m] # rows[n]
  BY DEF FirstOf
<1>5. \A m, n \in S : rows[m] = rows[n] => m = n
  BY <1>3, <1>4
<1>6. Clashless(id, R)
  BY <1>1, <1>5 DEF Clashless
<1> HIDE DEF id, S, D, R
<1>7. kept = Only(id, S)
  BY DEF id, S
<1>8. kept \in Seq(D) /\ ToSet(kept) = ToSet(id) \cap S /\ Clashless(kept, R)
  <2>1. id \in Seq(D)
    BY <1>1
  <2>2. Only(id, S) \in Seq(D)
    BY <2>1, OnlyTyped
  <2>3. ToSet(Only(id, S)) = ToSet(id) \cap S
    BY <2>1, OnlyMembers
  <2>4. Clashless(Only(id, S), R)
    BY <1>6, <2>1, OnlyClashless
  <2> QED BY <1>7, <2>2, <2>3, <2>4
<1>9. ToSet(kept) = S
  BY <1>2, <1>3, <1>8
<1>10. /\ Len(kept) \in Nat /\ DOMAIN kept = 1..Len(kept)
       /\ \A n \in DOMAIN kept : kept[n] \in S
       /\ \A k \in S : \E n \in DOMAIN kept : kept[n] = k
  <2>1. Len(kept) \in Nat /\ DOMAIN kept = 1..Len(kept)
    BY <1>8
  <2>2. S = {kept[n] : n \in DOMAIN kept}
    BY <1>9 DEF ToSet
  <2> QED BY <2>1, <2>2
<1>11. DOMAIN items = 1..Len(kept) /\ \A n \in 1..Len(kept) : items[n] = rows[kept[n]]
  BY <1>10
<1>13. IsSeq(items)
  <2>1. IsSeq(kept)
    BY <1>8, SeqOfMembers
  <2>2. items = [n \in 1..Len(kept) |-> items[n]]
    BY <1>10
  <2> QED BY <2>1, <2>2, OneEach
<1>14. ToSet(items) \subseteq {rows[n] : n \in D}
  BY <1>3, <1>10, <1>11 DEF ToSet
<1>15. ASSUME NEW n \in D PROVE rows[n] \in ToSet(items)
  <2> DEFINE T == {m \in D : rows[m] = rows[n]}
  <2>1. T \subseteq Nat /\ n \in T
    BY <1>3
  <2>2. PICK m \in T : \A k \in T : m <= k
    <3> HIDE DEF T
    <3> QED BY <2>1, LeastNumber
  <2>3. \A k \in 1..(m - 1) : rows[k] # rows[m]
    BY <2>2 DEF D
  <2>4. m \in S /\ rows[m] = rows[n]
    BY <2>2, <2>3 DEF S, FirstOf, D
  <2>5. PICK k \in DOMAIN kept : kept[k] = m
    BY <1>10, <2>4
  <2>6. items[k] = rows[m] /\ k \in DOMAIN items
    BY <1>10, <1>11, <2>5
  <2> QED BY <2>4, <2>6 DEF ToSet
<1>16. ASSUME NEW m \in DOMAIN items, NEW n \in DOMAIN items, m # n PROVE items[m] # items[n]
  <2>1. kept[m] \in S /\ kept[n] \in S /\ items[m] = rows[kept[m]] /\ items[n] = rows[kept[n]]
    BY <1>10, <1>11
  <2>2. <<kept[m], kept[n]>> \notin R
    BY <1>8, <1>10, <1>11, <1>16 DEF Clashless
  <2>3. <<kept[m], kept[n]>> \in D \X D
    BY <1>3, <2>1
  <2> QED BY <2>1, <2>2, <2>3 DEF R
<1>17. ToSet(items) = {rows[n] : n \in D}
  BY <1>14, <1>15
<1> QED BY <1>13, <1>16, <1>17 DEF D

\* A sequence is empty if it has no members.
LEMMA NoMembers ==
  ASSUME NEW s, IsSeq(s)
  PROVE  /\ (s = <<>> => ToSet(s) = {})
         /\ (ToSet(s) = {} => s = <<>>)
<1>1. s = <<>> => ToSet(s) = {}
  BY EmptyMembers
<1>2. ToSet(s) = {} => s = <<>>
  BY DEF IsSeq
<1> QED BY <1>1, <1>2

\* The merged section of a menu has every row that is asked for in it, once.
LEMMA MergedItems ==
  ASSUME NEW i, IsIntent(i), NEW p \in Paths, NEW parts, parts = PartsAt(i, p), NEW s, s = Merged(parts)
  PROVE  /\ s.path = p /\ s.order = MergeOrder(parts) /\ s.owner = MergeScope(parts)
         /\ s.comment_capable = (p # Profile \/ AskedOf(i, p) = {})
         /\ IsSeq(s.items) /\ ToSet(s.items) = AskedOf(i, p)
         /\ \A m, n \in DOMAIN s.items : m # n => s.items[m].name # s.items[n].name
<1> DEFINE N == Len(parts)
           capable == \A n \in DOMAIN parts : parts[n].comment_capable
           ss == [n \in DOMAIN parts |-> parts[n].items]
           all == FlattenSeq(ss)
           M == Len(all)
           rows == [n \in DOMAIN all |-> IF capable THEN all[n] ELSE [all[n] EXCEPT !.tag = <<>>]]
           first == {n \in DOMAIN rows : \A m \in 1..(n - 1) : rows[m] # rows[n]}
           kept == Only([n \in DOMAIN rows |-> n], first)
           items == [n \in DOMAIN kept |-> rows[kept[n]]]
<1>0. /\ IsSeq(parts) /\ N \in Nat /\ DOMAIN parts = 1..N
      /\ ToSet(parts) = {t \in Parts(i) : t.path = p} /\ ToSet(parts) # {}
      /\ \A n \in DOMAIN parts : parts[n] \in Parts(i) /\ parts[n].path = p /\ Good(i, parts[n])
  BY OfMenu
<1>1. s = [path |-> parts[1].path, order |-> MergeOrder(parts), owner |-> MergeScope(parts),
           comment_capable |-> capable, items |-> items]
  BY DEF Merged
<1>2. parts[1].path = p
  <2>1. 1 \in DOMAIN parts
    BY <1>0, EmptyMembers DEF IsSeq
  <2> QED BY <1>0, <2>1
<1>3. \A n \in 1..N : IsSeq(parts[n].items) /\ \A r \in ToSet(parts[n].items) : GoodRow(i, p, r)
  BY <1>0 DEF Good
<1>4. IsSeq(all) /\ ToSet(all) = UNION {ToSet(parts[n].items) : n \in 1..N}
  <2>1. ss = [n \in 1..N |-> ss[n]] /\ \A n \in 1..N : ss[n] = parts[n].items
    BY <1>0
  <2>2. \A n \in 1..N : IsSeq(ss[n])
    BY <1>3, <2>1
  <2>3. IsSeq(all) /\ ToSet(all) = UNION {ToSet(ss[n]) : n \in 1..N}
    <3> HIDE DEF ss, N
    <3> QED BY <1>0, <2>1, <2>2, Flattened
  <2> QED BY <2>1, <2>3
<1>5. ToSet(all) = UNION {ToSet(t.items) : t \in {u \in Parts(i) : u.path = p}}
  <2>1. ToSet(parts) = {parts[n] : n \in 1..N}
    BY <1>0 DEF ToSet
  <2> HIDE DEF all, N
  <2> QED BY <1>0, <1>4, <2>1
<1>6. AskedOf(i, p) = {Stored(p, r) : r \in ToSet(all)}
  <2> HIDE DEF all
  <2> QED BY <1>5, AskedRow
<1>7. \A r \in ToSet(all) : GoodRow(i, p, r)
  <2> HIDE DEF all, N
  <2> QED BY <1>3, <1>4
<1>8. capable = (p # Profile \/ ToSet(all) = {})
  <2>1. ASSUME NEW n \in 1..N
        PROVE  parts[n].comment_capable = (p # Profile \/ ToSet(parts[n].items) = {})
    <3>1. parts[n].comment_capable = (p # Profile \/ parts[n].items = <<>>)
      BY <1>0 DEF Good
    <3>2. parts[n].items = <<>> => ToSet(parts[n].items) = {}
      BY EmptyMembers
    <3>3. ToSet(parts[n].items) = {} => parts[n].items = <<>>
      BY <1>3, NoMembers
    <3> QED BY <3>1, <3>2, <3>3
  <2>2. capable <=> \A n \in 1..N : parts[n].comment_capable
    BY <1>0
  <2>3. capable \in BOOLEAN
    OBVIOUS
  <2>4. (ToSet(all) = {}) <=> (\A n \in 1..N : ToSet(parts[n].items) = {})
    <3> DEFINE A == ToSet(all) I(n) == ToSet(parts[n].items)
    <3>1. A = UNION {I(n) : n \in 1..N}
      BY <1>4
    <3> HIDE DEF all, N, A, I
    <3>2. (A = {}) <=> (\A n \in 1..N : I(n) = {})
      BY <3>1
    <3> QED BY <3>2 DEF A, I
  <2> HIDE DEF capable, all
  <2>5. capable <=> (p # Profile \/ ToSet(all) = {})
    BY <1>0, <2>1, <2>2, <2>4, EmptyMembers DEF IsSeq
  <2> QED BY <2>3, <2>5
<1>9. M \in Nat /\ DOMAIN all = 1..M /\ \A n \in 1..M : all[n] \in ToSet(all)
  <2> HIDE DEF all
  <2> QED BY <1>4 DEF IsSeq, ToSet
<1>10. DOMAIN rows = 1..M /\ \A n \in 1..M : rows[n] = Stored(p, all[n])
  <2>1. DOMAIN rows = 1..M
    BY <1>9
  <2>2. ASSUME NEW n \in 1..M PROVE rows[n] = Stored(p, all[n])
    <3>1. all[n] = Row(all[n].name, all[n].refs, all[n].val, all[n].tag)
      BY <1>7, <1>9 DEF GoodRow
    <3>2. \A a, b, c, d, u : [Row(a, b, c, d) EXCEPT !.tag = u] = Row(a, b, c, u)
      BY DEF Row
    <3>3. [all[n] EXCEPT !.tag = <<>>] = Row(all[n].name, all[n].refs, all[n].val, <<>>)
      <4> HIDE DEF all
      <4> QED BY <3>1, <3>2
    <3>4. capable <=> p # Profile
      <4>1. ToSet(all) # {}
        BY <1>9
      <4> QED BY <1>8, <4>1
    <3>5. rows[n] = IF capable THEN all[n] ELSE [all[n] EXCEPT !.tag = <<>>]
      BY <1>9
    <3> HIDE DEF rows, all, capable
    <3> QED BY <3>1, <3>3, <3>4, <3>5 DEF Stored
  <2> QED BY <2>1, <2>2
<1>11. {rows[n] : n \in 1..M} = AskedOf(i, p)
  <2>1. ToSet(all) = {all[n] : n \in 1..M}
    <3> HIDE DEF all, M
    <3> QED BY <1>9 DEF ToSet
  <2> HIDE DEF all, M, rows
  <2> QED BY <1>6, <1>10, <2>1
<1>12. /\ IsSeq(items) /\ ToSet(items) = {rows[n] : n \in 1..M}
       /\ \A m, n \in DOMAIN items : m # n => items[m] # items[n]
  <2>1. kept = Only([n \in 1..M |-> n], FirstOf(rows, M))
    <3>1. first = FirstOf(rows, M)
      <4> HIDE DEF rows, M
      <4> QED BY <1>10 DEF FirstOf
    <3> HIDE DEF rows, M, first
    <3> QED BY <1>10, <3>1
  <2>2. items = [n \in DOMAIN kept |-> rows[kept[n]]]
    OBVIOUS
  <2> HIDE DEF items, kept, rows, M
  <2> QED BY <1>9, <2>1, <2>2, EachOnce
<1>13. (ToSet(all) = {}) <=> (AskedOf(i, p) = {})
  BY <1>6
<1> HIDE DEF items, capable, all, M, rows
<1>14. \A m, n \in DOMAIN items : m # n => items[m].name # items[n].name
  <2> SUFFICES ASSUME NEW m \in DOMAIN items, NEW n \in DOMAIN items, m # n, items[m].name = items[n].name PROVE FALSE
    OBVIOUS
  <2>1. items[m] \in AskedOf(i, p) /\ items[n] \in AskedOf(i, p)
    BY <1>11, <1>12 DEF ToSet
  <2> QED BY <1>12, <2>1, AskedNames
<1>15. s.path = p /\ s.order = MergeOrder(parts) /\ s.owner = MergeScope(parts) /\ s.comment_capable = capable /\ s.items = items
  BY <1>1, <1>2
<1>16. capable = (p # Profile \/ AskedOf(i, p) = {})
  BY <1>8, <1>13
<1>17. IsSeq(items) /\ ToSet(items) = AskedOf(i, p)
  BY <1>11, <1>12
<1> QED BY <1>14, <1>15, <1>16, <1>17

SectionOf(i, p) == Merged(PartsAt(i, p))
Sooner(i, p, q) ==
  \/ SectionOf(i, p).order < SectionOf(i, q).order
  \/ (SectionOf(i, p).order = SectionOf(i, q).order /\ PathIndex(p) < PathIndex(q))

\* The section of a menu: where it comes, whom it owns, what it asks for.
LEMMA SectionTyped ==
  ASSUME NEW i, IsIntent(i), NEW p \in Paths
  PROVE  LET s == SectionOf(i, p)
         IN /\ s.path = p /\ s.order \in Nat /\ Low(p) <= s.order
            /\ ((\E t \in Parts(i) : t.path = p /\ t.order = Low(p)) => s.order = Low(p))
            /\ IsSeq(s.owner) /\ Len(s.owner) >= 1 /\ \A x \in Scopes(i, p) : IsPrefix(s.owner, x)
            /\ s.comment_capable = (p # Profile \/ AskedOf(i, p) = {})
            /\ IsSeq(s.items) /\ ToSet(s.items) = AskedOf(i, p)
            /\ \A m, n \in DOMAIN s.items : m # n => s.items[m].name # s.items[n].name
<1> DEFINE parts == PartsAt(i, p) s == SectionOf(i, p)
<1>1. s = Merged(parts) /\ parts = PartsAt(i, p)
  BY DEF SectionOf
<1> HIDE DEF parts, s
<1>2. /\ s.path = p /\ s.order = MergeOrder(parts) /\ s.owner = MergeScope(parts)
      /\ s.comment_capable = (p # Profile \/ AskedOf(i, p) = {})
      /\ IsSeq(s.items) /\ ToSet(s.items) = AskedOf(i, p)
      /\ \A m, n \in DOMAIN s.items : m # n => s.items[m].name # s.items[n].name
  BY <1>1, MergedItems
<1>3. /\ MergeOrder(parts) \in Nat /\ Low(p) <= MergeOrder(parts)
      /\ ((\E t \in Parts(i) : t.path = p /\ t.order = Low(p)) => MergeOrder(parts) = Low(p))
  BY <1>1, MergedOrder
<1>4. IsSeq(MergeScope(parts)) /\ Len(MergeScope(parts)) >= 1
      /\ \A x \in Scopes(i, p) : IsPrefix(MergeScope(parts), x)
  BY <1>1, MergedOwner
<1> QED BY <1>2, <1>3, <1>4 DEF s

\* The sections of a router: one for each menu, in their order.
Device(i, secs) ==
  /\ IsSeq(secs) /\ Len(secs) \in Nat /\ DOMAIN secs = 1..Len(secs)
  /\ \A n \in DOMAIN secs : secs[n].path \in Paths /\ secs[n] = SectionOf(i, secs[n].path)
  /\ \A p \in Paths : \E n \in DOMAIN secs : secs[n] = SectionOf(i, p)
  /\ \A m, n \in DOMAIN secs : secs[m].path = secs[n].path => m = n
  /\ \A m, n \in DOMAIN secs : Sooner(i, secs[m].path, secs[n].path) => m < n

\* render_device makes one section for each menu, in their order.
LEMMA DeviceRendered ==
  ASSUME NEW i, IsIntent(i), NEW secs, secs = render_device(i)
  PROVE  Device(i, secs)
<1> DEFINE rd == Rendered(i)
           rendered == {s.path : s \in ToSet(rd)}
           OfPath(p) == Only(rd, {s \in ToSet(rd) : s.path = p})
           merged == [p \in rendered |-> Merged(OfPath(p))]
           Earlier(p, q) == \/ merged[p].order < merged[q].order
                            \/ merged[p].order = merged[q].order /\ PathIndex(p) < PathIndex(q)
           AtRank(n) == CHOOSE p \in rendered : Cardinality({q \in rendered : Earlier(q, p)}) = n - 1
           before == [p \in Paths |-> {q \in Paths : Sooner(i, q, p)}]
           N == Cardinality(Paths)
           at == [n \in 1..N |-> CHOOSE p \in Paths : Cardinality(before[p]) = n - 1]
<1>1. secs = [n \in 1..Cardinality(rendered) |-> merged[AtRank(n)]]
  BY DEF render_device, merge_sections
<1>2. rendered = Paths
  <2>1. rendered \subseteq Paths
    BY PartsGood DEF Good, Parts
  <2>2. \A p \in Paths : \E s \in Parts(i) : s.path = p
    BY ScopesOwned
  <2> QED BY <2>1, <2>2 DEF Parts
<1>3. \A p \in Paths : OfPath(p) = PartsAt(i, p)
  BY DEF PartsAt
<1>4. \A p \in Paths : merged[p] = SectionOf(i, p)
  BY <1>2, <1>3 DEF SectionOf
<1>5. \A p, q \in Paths : Earlier(p, q) <=> Sooner(i, p, q)
  <2> HIDE DEF merged
  <2> QED BY <1>4 DEF Sooner
<1>6. \A n \in 1..N : AtRank(n) = at[n]
  <2> SUFFICES ASSUME NEW n \in 1..N PROVE AtRank(n) = at[n]
    OBVIOUS
  <2>1. \A p \in Paths : {q \in rendered : Earlier(q, p)} = before[p]
    <3> HIDE DEF Earlier
    <3> QED BY <1>2, <1>5
  <2>2. AtRank(n) = CHOOSE p \in Paths : Cardinality({q \in rendered : Earlier(q, p)}) = n - 1
    BY <1>2
  <2>3. at[n] = CHOOSE p \in Paths : Cardinality(before[p]) = n - 1
    OBVIOUS
  <2>4. \A p \in Paths : (Cardinality({q \in rendered : Earlier(q, p)}) = n - 1) <=> (Cardinality(before[p]) = n - 1)
    <3> HIDE DEF Earlier, rendered, before
    <3> QED BY <2>1
  <2> HIDE DEF Earlier, rendered, before, at
  <2>5. (CHOOSE p \in Paths : Cardinality({q \in rendered : Earlier(q, p)}) = n - 1)
          = (CHOOSE p \in Paths : Cardinality(before[p]) = n - 1)
    BY <2>4
  <2> QED BY <2>2, <2>3, <2>5
<1>7. \A p \in Paths : SectionOf(i, p).order \in Nat /\ PathIndex(p) \in Nat /\ SectionOf(i, p).path = p
  <2> SUFFICES ASSUME NEW p \in Paths
               PROVE  SectionOf(i, p).order \in Nat /\ PathIndex(p) \in Nat /\ SectionOf(i, p).path = p
    OBVIOUS
  <2>1. PathIndex(p) \in Nat
    BY PathsIndexed
  <2>2. SectionOf(i, p).order \in Nat /\ SectionOf(i, p).path = p
    BY SectionTyped
  <2> QED BY <2>1, <2>2
<1>8. \A p, q \in Paths : PathIndex(p) = PathIndex(q) => p = q
  BY PathsIndexed
<1>9. \A p \in Paths : before[p] = {q \in Paths : Sooner(i, q, p)}
  OBVIOUS
<1>10. before \in [Paths -> SUBSET Paths]
  OBVIOUS
<1> HIDE DEF before
<1>11. /\ \A p \in Paths : p \notin before[p]
       /\ \A p, q \in Paths : q \in before[p] => before[q] \subseteq before[p]
       /\ \A p, q \in Paths : p # q => p \in before[q] \/ q \in before[p]
  <2>1. \A p \in Paths : ~ Sooner(i, p, p)
    BY <1>7 DEF Sooner
  <2>2. \A p, q, r \in Paths : Sooner(i, p, q) /\ Sooner(i, q, r) => Sooner(i, p, r)
    BY <1>7 DEF Sooner
  <2>3. \A p, q \in Paths : p # q => Sooner(i, p, q) \/ Sooner(i, q, p)
    BY <1>7, <1>8 DEF Sooner
  <2>4. \A p \in Paths : p \notin before[p]
    BY <1>9, <2>1
  <2>5. \A p, q \in Paths : q \in before[p] => before[q] \subseteq before[p]
    BY <1>9, <2>2
  <2>6. \A p, q \in Paths : p # q => p \in before[q] \/ q \in before[p]
    BY <1>9, <2>3
  <2> QED BY <2>4, <2>5, <2>6
<1>12. /\ N \in Nat
       /\ \A n \in 1..N : \E p \in Paths : Cardinality(before[p]) = n - 1
       /\ \A p, q \in Paths : Cardinality(before[p]) = Cardinality(before[q]) => p = q
       /\ \A p, q \in Paths : p \in before[q] => Cardinality(before[p]) < Cardinality(before[q])
       /\ \A p \in Paths : Cardinality(before[p]) \in 0..(N - 1)
  <2>1. IsFiniteSet(Paths)
    BY PathsIndexed
  <2> DEFINE S == Paths
  <2> HIDE DEF S
  <2>2. /\ IsFiniteSet(S) /\ before \in [S -> SUBSET S] /\ \A x \in S : x \notin before[x]
        /\ \A x, y \in S : y \in before[x] => before[y] \subseteq before[x]
        /\ \A x, y \in S : x # y => x \in before[y] \/ y \in before[x]
    BY <1>10, <1>11, <2>1 DEF S
  <2>3. /\ Cardinality(S) \in Nat
        /\ \A n \in 1..Cardinality(S) : \E x \in S : Cardinality(before[x]) = n - 1
        /\ \A x, y \in S : Cardinality(before[x]) = Cardinality(before[y]) => x = y
        /\ \A x, y \in S : x \in before[y] => Cardinality(before[x]) < Cardinality(before[y])
        /\ \A x \in S : Cardinality(before[x]) \in 0..(Cardinality(S) - 1)
    BY <2>2, OneAtEveryRank
  <2> QED BY <2>3 DEF S
<1>13. \A n \in 1..N : at[n] \in Paths /\ Cardinality(before[at[n]]) = n - 1
  <2> SUFFICES ASSUME NEW n \in 1..N PROVE at[n] \in Paths /\ Cardinality(before[at[n]]) = n - 1
    OBVIOUS
  <2>1. at[n] = CHOOSE p \in Paths : Cardinality(before[p]) = n - 1
    OBVIOUS
  <2>2. \E p \in Paths : Cardinality(before[p]) = n - 1
    BY <1>12
  <2> HIDE DEF at, N
  <2> QED BY <2>1, <2>2
<1>14. secs = [n \in 1..N |-> SectionOf(i, at[n])]
  <2>1. \A n \in 1..N : merged[AtRank(n)] = SectionOf(i, at[n])
    <3> HIDE DEF merged, AtRank, at
    <3> QED BY <1>4, <1>6, <1>13
  <2> HIDE DEF merged, AtRank, at, rendered
  <2> QED BY <1>1, <1>2, <2>1
<1> HIDE DEF at, N
<1>15. DOMAIN secs = 1..N /\ \A n \in 1..N : secs[n] = SectionOf(i, at[n])
  BY <1>14
<1>16. \A n \in 1..N : secs[n].path = at[n]
  BY <1>7, <1>13, <1>15
<1>17. IsSeq(secs) /\ Len(secs) = N
  <2>1. secs \in [1..N -> ToSet(secs)]
    BY <1>14, <1>15 DEF ToSet
  <2> QED BY <1>12, <2>1 DEF IsSeq
<1>18. ASSUME NEW p \in Paths PROVE \E n \in 1..N : at[n] = p
  <2> DEFINE n == Cardinality(before[p]) + 1
  <2>1. n \in 1..N /\ Cardinality(before[p]) = n - 1
    BY <1>12
  <2> HIDE DEF n
  <2>2. at[n] = p
    BY <1>12, <1>13, <2>1
  <2> QED BY <2>1, <2>2
<1>19. ASSUME NEW m \in 1..N, NEW n \in 1..N, Sooner(i, at[m], at[n]) PROVE m < n
  <2>1. at[m] \in before[at[n]]
    BY <1>9, <1>13, <1>19
  <2>2. m - 1 < n - 1
    BY <1>12, <1>13, <2>1
  <2> QED BY <1>12, <2>2
<1>20. ASSUME NEW m \in 1..N, NEW n \in 1..N, at[m] = at[n] PROVE m = n
  <2>1. m - 1 = n - 1
    BY <1>13, <1>20
  <2> QED BY <1>12, <2>1
<1>21. \A n \in DOMAIN secs : secs[n].path \in Paths /\ secs[n] = SectionOf(i, secs[n].path)
  BY <1>13, <1>15, <1>16
<1>22. \A p \in Paths : \E n \in DOMAIN secs : secs[n] = SectionOf(i, p)
  BY <1>15, <1>18
<1>23. \A m, n \in DOMAIN secs : secs[m].path = secs[n].path => m = n
  BY <1>15, <1>16, <1>20
<1>24. \A m, n \in DOMAIN secs : Sooner(i, secs[m].path, secs[n].path) => m < n
  BY <1>15, <1>16, <1>19
<1> QED BY <1>12, <1>15, <1>17, <1>21, <1>22, <1>23, <1>24 DEF Device

-----------------------------------------------------------------------------
(* From the sections to a plan.                                            *)

\* Asked, without its index.
LEMMA AskedIs == ASSUME NEW i \in Intents, NEW p \in Paths PROVE Asked[i][p] = AskedOf(i, p)
BY DEF Asked, AskedOf, Parts

\* The sections of a plan that leaves some menus out.
Planned(i, lost, secs) ==
  /\ IsSeq(secs) /\ Len(secs) \in Nat /\ DOMAIN secs = 1..Len(secs)
  /\ \A n \in DOMAIN secs : secs[n].path \in Paths \ lost /\ secs[n] = SectionOf(i, secs[n].path)
  /\ \A p \in Paths \ lost : \E n \in DOMAIN secs : secs[n] = SectionOf(i, p)
  /\ \A m, n \in DOMAIN secs : secs[m].path = secs[n].path => m = n
  /\ \A m, n \in DOMAIN secs : Sooner(i, secs[m].path, secs[n].path) => m < n

\* No member of a sequence is to come before one that precedes it.
Sorted(s, R) == \A m, n \in DOMAIN s : m < n => <<s[n], s[m]>> \notin R

\* A sorted sequence stays so with a member that belongs after all.
LEMMA SortedAppend ==
  ASSUME NEW D, NEW s \in Seq(D), NEW x \in D, NEW R
  PROVE  Sorted(Append(s, x), R) <=> (Sorted(s, R) /\ \A y \in ToSet(s) : <<x, y>> \notin R)
<1> DEFINE N == Len(s) t == Append(s, x)
<1>1. N \in Nat /\ DOMAIN s = 1..N /\ DOMAIN t = 1..N + 1 /\ t[N + 1] = x /\ \A n \in 1..N : t[n] = s[n]
  OBVIOUS
<1>2. ToSet(s) = {s[n] : n \in 1..N}
  BY <1>1 DEF ToSet
<1> HIDE DEF N, t
<1>3. ASSUME Sorted(t, R) PROVE Sorted(s, R) /\ \A y \in ToSet(s) : <<x, y>> \notin R
  <2>1. ASSUME NEW m \in 1..N, NEW n \in 1..N, m < n PROVE <<s[n], s[m]>> \notin R
    <3>1. m \in 1..N + 1 /\ n \in 1..N + 1
      BY <1>1
    <3> QED BY <1>1, <1>3, <2>1, <3>1 DEF Sorted
  <2>2. ASSUME NEW m \in 1..N PROVE <<x, s[m]>> \notin R
    <3>1. m \in 1..N + 1 /\ N + 1 \in 1..N + 1 /\ m < N + 1
      BY <1>1
    <3>2. <<t[N + 1], t[m]>> \notin R
      BY <1>1, <1>3, <3>1 DEF Sorted
    <3> QED BY <1>1, <3>2
  <2> QED BY <1>1, <1>2, <2>1, <2>2 DEF Sorted
<1>4. ASSUME Sorted(s, R), \A y \in ToSet(s) : <<x, y>> \notin R PROVE Sorted(t, R)
  <2> SUFFICES ASSUME NEW m \in 1..N + 1, NEW n \in 1..N + 1, m < n PROVE <<t[n], t[m]>> \notin R
    BY <1>1 DEF Sorted
  <2>1. m \in 1..N
    BY <1>1
  <2>2. CASE n \in 1..N
    BY <1>1, <1>4, <2>1, <2>2 DEF Sorted
  <2>3. CASE n = N + 1
    BY <1>1, <1>2, <1>4, <2>1, <2>3
  <2> QED BY <1>1, <2>2, <2>3
<1> QED BY <1>3, <1>4 DEF t

\* What is taken of a sorted sequence is sorted.
LEMMA OnlySorted ==
  ASSUME NEW D, NEW s \in Seq(D), NEW S, NEW R, Sorted(s, R)
  PROVE  Sorted(Only(s, S), R)
<1> DEFINE U == {q \in Seq(D) : Sorted(q, R) => Sorted(Only(q, S), R)}
<1>1. <<>> \in U
  BY OnlyEmpty
<1>2. ASSUME NEW q \in Seq(D), NEW x \in D, q \in U PROVE Append(q, x) \in U
  <2> SUFFICES ASSUME Sorted(Append(q, x), R) PROVE Sorted(Only(Append(q, x), S), R)
    OBVIOUS
  <2>1. Sorted(q, R) /\ \A y \in ToSet(q) : <<x, y>> \notin R
    BY SortedAppend
  <2>2. Sorted(Only(q, S), R)
    BY <1>2, <2>1
  <2>3. Only(q, S) \in Seq(D) /\ ToSet(Only(q, S)) \subseteq ToSet(q)
    BY OnlyTyped, OnlyMembers
  <2>4. Only(Append(q, x), S) = IF x \in S THEN Append(Only(q, S), x) ELSE Only(q, S)
    BY OnlyAppend
  <2>5. CASE x \in S
    <3>1. Sorted(Append(Only(q, S), x), R)
      BY <2>1, <2>2, <2>3, SortedAppend
    <3> QED BY <2>4, <2>5, <3>1
  <2>6. CASE x \notin S
    BY <2>2, <2>4, <2>6
  <2> QED BY <2>5, <2>6
<1> HIDE DEF U
<1>3. s \in U
  BY <1>1, <1>2, ByAppending
<1> QED BY <1>3 DEF U

\* What is left of the sections of a router without the menus that were not
\* read.
LEMMA PlannedSections ==
  ASSUME NEW i, IsIntent(i), NEW dev, dev = render_device(i), NEW lost,
         NEW secs, secs = Only(dev, {s \in ToSet(dev) : s.path \notin lost})
  PROVE  Planned(i, lost, secs)
<1> DEFINE D == ToSet(dev) S == {s \in ToSet(dev) : s.path \notin lost}
           E == {z \in D \X D : z[1].path = z[2].path}
           R == {z \in D \X D : Sooner(i, z[1].path, z[2].path)}
<1>1. Device(i, dev)
  BY DeviceRendered
<1>2. /\ dev \in Seq(D) /\ DOMAIN dev = 1..Len(dev) /\ Len(dev) \in Nat
      /\ \A n \in DOMAIN dev : dev[n].path \in Paths /\ dev[n] = SectionOf(i, dev[n].path)
      /\ \A p \in Paths : \E n \in DOMAIN dev : dev[n] = SectionOf(i, p)
      /\ \A m, n \in DOMAIN dev : dev[m].path = dev[n].path => m = n
      /\ \A m, n \in DOMAIN dev : Sooner(i, dev[m].path, dev[n].path) => m < n
  BY <1>1 DEF Device, IsSeq
<1>3. D = {dev[n] : n \in DOMAIN dev}
  BY DEF ToSet
<1>4. Clashless(dev, E)
  BY <1>2, <1>3 DEF Clashless
<1>5. Sorted(dev, R)
  BY <1>2, <1>3 DEF Sorted
<1>6. \A p \in Paths : SectionOf(i, p).path = p
  <2> SUFFICES ASSUME NEW p \in Paths PROVE SectionOf(i, p).path = p
    OBVIOUS
  <2> QED BY SectionTyped
<1>7. secs = Only(dev, S) /\ S \subseteq D /\ \A s \in D : s \in S <=> s.path \notin lost
  OBVIOUS
<1> HIDE DEF D, S, E, R
<1>8. secs \in Seq(D)
  BY <1>2, <1>7, OnlyTyped
<1>9. ToSet(secs) = D \cap S
  BY <1>2, <1>7, OnlyMembers DEF D
<1>10. Clashless(secs, E)
  BY <1>2, <1>4, <1>7, OnlyClashless
<1>11. Sorted(secs, R)
  BY <1>2, <1>5, <1>7, OnlySorted
<1>12. IsSeq(secs)
  BY <1>8, SeqOfMembers
<1>13. Len(secs) \in Nat /\ DOMAIN secs = 1..Len(secs)
  BY <1>8
<1>14. S = {secs[n] : n \in DOMAIN secs}
  BY <1>7, <1>9 DEF ToSet
<1>15. \A n \in DOMAIN secs : secs[n].path \in Paths \ lost /\ secs[n] = SectionOf(i, secs[n].path) /\ secs[n] \in D
  <2> SUFFICES ASSUME NEW n \in DOMAIN secs
               PROVE  secs[n].path \in Paths \ lost /\ secs[n] = SectionOf(i, secs[n].path) /\ secs[n] \in D
    OBVIOUS
  <2>1. secs[n] \in S
    BY <1>14
  <2>2. secs[n] \in D /\ secs[n].path \notin lost
    BY <1>7, <2>1
  <2>3. PICK k \in DOMAIN dev : secs[n] = dev[k]
    BY <1>3, <2>2
  <2> QED BY <1>2, <2>2, <2>3
<1>16. ASSUME NEW p \in Paths \ lost PROVE \E n \in DOMAIN secs : secs[n] = SectionOf(i, p)
  <2>1. SectionOf(i, p) \in D
    BY <1>2, <1>3
  <2>2. SectionOf(i, p) \in S
    BY <1>6, <1>7, <2>1
  <2> QED BY <1>14, <2>2
<1>17. ASSUME NEW m \in DOMAIN secs, NEW n \in DOMAIN secs, secs[m].path = secs[n].path PROVE m = n
  <2>1. <<secs[m], secs[n]>> \in E
    BY <1>15, <1>17 DEF E
  <2> QED BY <1>10, <2>1 DEF Clashless
<1>18. ASSUME NEW m \in DOMAIN secs, NEW n \in DOMAIN secs, Sooner(i, secs[m].path, secs[n].path) PROVE m < n
  <2>1. <<secs[m], secs[n]>> \in R
    BY <1>15, <1>18 DEF R
  <2>2. ~ (n < m)
    BY <1>11, <2>1 DEF Sorted
  <2>3. m # n
    <3>1. SectionOf(i, secs[m].path).order \in Nat /\ PathIndex(secs[m].path) \in Nat
      <4>1. secs[m].path \in Paths
        BY <1>15
      <4> DEFINE p == secs[m].path
      <4> HIDE DEF p
      <4>2. SectionOf(i, p).order \in Nat
        BY <4>1, SectionTyped DEF p
      <4>3. PathIndex(p) \in Nat
        BY <4>1, PathsIndexed DEF p
      <4> QED BY <4>2, <4>3 DEF p
    <3> QED BY <1>18, <3>1 DEF Sooner
  <2> QED BY <1>13, <2>2, <2>3
<1> QED BY <1>12, <1>13, <1>15, <1>16, <1>17, <1>18 DEF Planned

Hand == <<"by hand">>
HandRow(r) == r.name = Hand /\ r.tag = <<>> /\ r.val \in Int /\ r = Row(r.name, r.refs, r.val, r.tag)

\* A row of menu p that was asked for, but for its value.
OfController(p, r) ==
  \E i \in Intents : \E a \in AskedOf(i, p) : \E v \in Int : r = Row(a.name, a.refs, v, a.tag)

\* A menu of the router.
LiveMenu(p, live) ==
  /\ IsSeq(live)
  /\ \A r \in ToSet(live) : HandRow(r) \/ OfController(p, r)
  /\ \A m, n \in DOMAIN live : m # n /\ live[m].name = live[n].name => live[n].name = Hand

Names(i, p) == {a.name : a \in AskedOf(i, p)}

\* The shape of a row that is asked for: it is no row that people wrote, and
\* its tag is in scope.
LEMMA AskedIsGood ==
  ASSUME NEW i, IsIntent(i), NEW p, NEW a \in AskedOf(i, p)
  PROVE  /\ a = Row(a.name, a.refs, a.val, a.tag) /\ a.name # Hand /\ a.val \in Int
         /\ (p = Profile => a.tag = <<>>)
         /\ (p # Profile => IsSeq(a.tag) /\ \E x \in Scopes(i, p) : IsPrefix(x, a.tag))
<1>1. PICK r : GoodRow(i, p, r) /\ a = Stored(p, r)
  BY AskedRow
<1>2. \A n, f, v, t : LET q == Row(n, f, v, t) IN q.name = n /\ q.refs = f /\ q.val = v /\ q.tag = t
  BY DEF Row
<1>3. a.name = r.name /\ a.refs = r.refs /\ a.val = r.val /\ a.tag = (IF p = Profile THEN <<>> ELSE r.tag)
  BY <1>1, <1>2 DEF Stored
<1>4. a = Row(a.name, a.refs, a.val, a.tag)
  BY <1>1, <1>3 DEF Stored
<1>5. r.name # Hand /\ r.val \in Int /\ IsSeq(r.tag) /\ \E x \in Scopes(i, p) : IsPrefix(x, r.tag)
  BY <1>1 DEF GoodRow, Hand
<1> QED BY <1>3, <1>4, <1>5

\* The shape of a row that some intent asked for, whatever was made of its
\* value since.
LEMMA ControllerRow ==
  ASSUME NEW p \in Paths, NEW r, OfController(p, r)
  PROVE  /\ r = Row(r.name, r.refs, r.val, r.tag) /\ r.name # Hand /\ r.val \in Int
         /\ (p = Profile => r.tag = <<>>)
         /\ (p # Profile => \A i \in Intents : IsSeq(r.tag) /\ \E x \in Scopes(i, p) : IsPrefix(x, r.tag))
<1>0. PICK i \in Intents : \E b \in AskedOf(i, p) : \E v \in Int : r = Row(b.name, b.refs, v, b.tag)
  BY DEF OfController
<1>9. PICK a \in AskedOf(i, p) : \E v \in Int : r = Row(a.name, a.refs, v, a.tag)
  BY <1>0
<1>1. PICK v \in Int : r = Row(a.name, a.refs, v, a.tag)
  BY <1>9
<1>2. r.name = a.name /\ r.refs = a.refs /\ r.val = v /\ r.tag = a.tag
  BY <1>1 DEF Row
<1>3. /\ a.name # Hand
      /\ (p = Profile => a.tag = <<>>)
      /\ (p # Profile => IsSeq(a.tag) /\ \E x \in Scopes(i, p) : IsPrefix(x, a.tag))
  BY AskedIsGood, IntentAssumption
<1>4. \A j \in Intents : Scopes(j, p) = Scopes(i, p)
  BY SiteAssumption DEF Scopes
<1> QED BY <1>1, <1>2, <1>3, <1>4

\* What has no tag is in no scope.
LEMMA EmptyTag ==
  ASSUME NEW q, IsSeq(q), Len(q) >= 1
  PROVE  ~ IsPrefix(q, <<>>)
<1>1. IsSeq(<<>>) /\ Len(<<>>) = 0
  BY Tuples
<1>2. Len(q) \in Nat
  BY DEF IsSeq
<1>3. ~ Begins(q, <<>>)
  BY <1>1, <1>2 DEF Begins
<1> QED BY <1>1, <1>3, PrefixBegins

\* Whom the section of a menu takes for its own.
LEMMA OwnRows ==
  ASSUME NEW i \in Intents, NEW p \in Paths, NEW s, s = SectionOf(i, p)
  PROVE  /\ \A r : HandRow(r) => ~ Owns(s, r)
         /\ \A r : OfController(p, r) => (Owns(s, r) <=> (p # Profile \/ r.name \in Names(i, p)))
         /\ \A r : OfController(p, r) => (p # Profile <=> r.tag # <<>>)
<1>1. /\ IsSeq(s.owner) /\ Len(s.owner) >= 1 /\ \A x \in Scopes(i, p) : IsPrefix(s.owner, x)
      /\ s.comment_capable = (p # Profile \/ AskedOf(i, p) = {})
      /\ IsSeq(s.items) /\ ToSet(s.items) = AskedOf(i, p)
  BY SectionTyped, IntentAssumption
<1>2. Names(i, p) = {s.items[n].name : n \in DOMAIN s.items}
  BY <1>1 DEF Names, ToSet
<1>3. ASSUME NEW r, HandRow(r) PROVE ~ Owns(s, r)
  <2>1. ~ IsPrefix(s.owner, r.tag)
    BY <1>1, <1>3, EmptyTag DEF HandRow
  <2>2. r.name \notin Names(i, p)
    BY <1>3, AskedIsGood, IntentAssumption DEF HandRow, Names
  <2> QED BY <1>2, <2>1, <2>2 DEF Owns
<1>4. ASSUME NEW r, OfController(p, r) PROVE /\ (Owns(s, r) <=> (p # Profile \/ r.name \in Names(i, p)))
                                            /\ (p # Profile <=> r.tag # <<>>)
  <2>1. CASE p = Profile
    <3>1. r.tag = <<>>
      BY <1>4, <2>1, ControllerRow
    <3>2. CASE AskedOf(i, p) = {}
      <4>1. ~ IsPrefix(s.owner, r.tag)
        BY <1>1, <3>1, EmptyTag
      <4>2. Names(i, p) = {}
        BY <3>2 DEF Names
      <4> QED BY <1>1, <2>1, <3>1, <3>2, <4>1, <4>2 DEF Owns
    <3>3. CASE AskedOf(i, p) # {}
      <4>1. ~ s.comment_capable
        BY <1>1, <2>1, <3>3
      <4> QED BY <1>2, <2>1, <3>1, <4>1 DEF Owns
    <3> QED BY <3>2, <3>3
  <2>2. CASE p # Profile
    <3>1. PICK x \in Scopes(i, p) : IsSeq(r.tag) /\ IsPrefix(x, r.tag)
      BY <1>4, <2>2, ControllerRow
    <3>2. IsSeq(x)
      BY ScopesOwned, IntentAssumption
    <3>3. IsPrefix(s.owner, r.tag)
      BY <1>1, <3>1, <3>2, PrefixTransitive
    <3>4. r.tag # <<>>
      BY <1>1, <3>3, EmptyTag
    <3>5. s.comment_capable
      BY <1>1, <2>2
    <3> QED BY <2>2, <3>3, <3>4, <3>5 DEF Owns
  <2> QED BY <2>1, <2>2
<1> QED BY <1>3, <1>4

\* The fields of an operation.
LEMMA OpFields == \A k, p, r : LET o == Op(k, p, r) IN o.kind = k /\ o.path = p /\ o.row = r
BY DEF Op

HasNamed(live, name) == \E n \in DOMAIN live : live[n].name = name

\* The operations that write the rows of a menu.
WritesOf(i, p, live, c) ==
  /\ IsSeq(c)
  /\ \A o \in ToSet(c) : /\ o.path = p /\ o.row \in AskedOf(i, p)
                         /\ o.kind = IF HasNamed(live, o.row.name) THEN "set" ELSE "add"
  /\ \A a \in AskedOf(i, p) : a \in ToSet(live) \/ \E o \in ToSet(c) : o.row = a
  /\ \A r \in ToSet(live) : r.name \in Names(i, p) => r \in AskedOf(i, p) \/ \E o \in ToSet(c) : o.row.name = r.name
  /\ \A m, n \in DOMAIN c : m # n => c[m].row.name # c[n].row.name

\* Creates of a section, against its menu of the router.
LEMMA Writes ==
  ASSUME NEW i \in Intents, NEW p \in Paths, NEW s, s = SectionOf(i, p), NEW live, LiveMenu(p, live)
  PROVE  WritesOf(i, p, live, Creates(s, live))
<1> DEFINE OwnedAs(item) == {n \in DOMAIN live : Owns(s, live[n]) /\ live[n].name = item.name}
           ToOp(item) == Op(IF OwnedAs(item) = {} THEN "add" ELSE "set", s.path, item)
           S == {item \in ToSet(s.items) : \A n \in OwnedAs(item) : Differs(item, live[n])}
           items == Only(s.items, S)
           c == [n \in DOMAIN items |-> ToOp(items[n])]
           K == {z \in ToSet(s.items) \X ToSet(s.items) : z[1].name = z[2].name}
<1>1. /\ s.path = p /\ s.items \in Seq(ToSet(s.items)) /\ ToSet(s.items) = AskedOf(i, p)
      /\ \A m, n \in DOMAIN s.items : m # n => s.items[m].name # s.items[n].name
  BY SectionTyped, IntentAssumption DEF IsSeq
<1>2. Creates(s, live) = c
  BY DEF Creates
<1>3. ASSUME NEW a \in AskedOf(i, p), NEW n \in DOMAIN live, live[n].name = a.name
      PROVE  Owns(s, live[n]) /\ OfController(p, live[n])
  <2>1. live[n] \in ToSet(live)
    BY DEF ToSet
  <2>2. a.name # Hand
    BY AskedIsGood, IntentAssumption
  <2>3. OfController(p, live[n])
    BY <1>3, <2>1, <2>2 DEF LiveMenu, HandRow
  <2>4. live[n].name \in Names(i, p)
    BY <1>3 DEF Names
  <2> QED BY <2>3, <2>4, OwnRows
<1>4. \A a \in AskedOf(i, p) : OwnedAs(a) = {n \in DOMAIN live : live[n].name = a.name}
  BY <1>3
<1>5. \A a \in AskedOf(i, p) : (OwnedAs(a) = {}) <=> ~ HasNamed(live, a.name)
  BY <1>4 DEF HasNamed
<1>6. \A a \in AskedOf(i, p) : a \in S <=> \A n \in DOMAIN live : live[n].name = a.name => a # live[n]
  BY <1>1, <1>4 DEF Differs
<1>7. \A a \in AskedOf(i, p) : /\ ToOp(a).path = p /\ ToOp(a).row = a
                               /\ ToOp(a).kind = IF HasNamed(live, a.name) THEN "set" ELSE "add"
  <2> SUFFICES ASSUME NEW a \in AskedOf(i, p)
               PROVE  /\ ToOp(a).path = p /\ ToOp(a).row = a
                      /\ ToOp(a).kind = IF HasNamed(live, a.name) THEN "set" ELSE "add"
    OBVIOUS
  <2>1. (OwnedAs(a) = {}) <=> ~ HasNamed(live, a.name)
    BY <1>5
  <2> HIDE DEF OwnedAs
  <2> QED BY <1>1, <2>1, OpFields
<1>8. S \subseteq ToSet(s.items)
  OBVIOUS
<1>9. Clashless(s.items, K)
  BY <1>1 DEF Clashless
<1> HIDE DEF OwnedAs, ToOp, S, K
<1>10. items \in Seq(ToSet(s.items)) /\ ToSet(items) = S
  <2>1. items \in Seq(ToSet(s.items))
    BY <1>1, OnlyTyped
  <2>2. ToSet(items) = ToSet(s.items) \cap S
    BY <1>1, OnlyMembers
  <2> QED BY <1>8, <2>1, <2>2
<1>11. Clashless(items, K)
  BY <1>1, <1>9, OnlyClashless
<1> HIDE DEF items
<1>12. IsSeq(items) /\ Len(items) \in Nat /\ DOMAIN items = 1..Len(items)
  BY <1>10, SeqOfMembers
<1>13. /\ IsSeq(c) /\ DOMAIN c = 1..Len(items) /\ ToSet(c) = {c[n] : n \in 1..Len(items)}
       /\ S = {items[n] : n \in 1..Len(items)}
  <2>1. c = [n \in 1..Len(items) |-> c[n]]
    BY <1>12
  <2> HIDE DEF c
  <2> QED BY <1>10, <1>12, <2>1, OneEach
<1>14. \A n \in 1..Len(items) : c[n] = ToOp(items[n]) /\ items[n] \in S /\ items[n] \in AskedOf(i, p)
  BY <1>1, <1>8, <1>12, <1>13
<1> HIDE DEF c
<1>15. ToSet(c) = {ToOp(a) : a \in S}
  BY <1>13, <1>14
<1>16. \A o \in ToSet(c) : /\ o.path = p /\ o.row \in AskedOf(i, p)
                           /\ o.kind = IF HasNamed(live, o.row.name) THEN "set" ELSE "add"
  BY <1>1, <1>7, <1>8, <1>15
<1>17. ASSUME NEW a \in AskedOf(i, p), a \notin ToSet(live) PROVE \E o \in ToSet(c) : o.row = a
  <2>1. a \in S
    BY <1>6, <1>17 DEF ToSet
  <2> QED BY <1>7, <1>15, <2>1
<1>18. ASSUME NEW r \in ToSet(live), r.name \in Names(i, p), r \notin AskedOf(i, p)
       PROVE  \E o \in ToSet(c) : o.row.name = r.name
  <2>1. PICK a \in AskedOf(i, p) : a.name = r.name
    BY <1>18 DEF Names
  <2>2. PICK k \in DOMAIN live : live[k] = r
    BY DEF ToSet
  <2>3. \A n \in DOMAIN live : live[n].name = a.name => n = k
    <3>1. a.name # Hand
      BY AskedIsGood, IntentAssumption
    <3> QED BY <2>1, <2>2, <3>1 DEF LiveMenu
  <2>4. a \in S
    BY <1>6, <1>18, <2>2, <2>3
  <2> QED BY <1>7, <1>15, <2>1, <2>4
<1>19. ASSUME NEW m \in DOMAIN c, NEW n \in DOMAIN c, m # n PROVE c[m].row.name # c[n].row.name
  <2>1. m \in 1..Len(items) /\ n \in 1..Len(items)
    BY <1>13
  <2>2. <<items[m], items[n]>> \notin K
    BY <1>11, <1>12, <1>19, <2>1 DEF Clashless
  <2>3. items[m].name # items[n].name
    BY <1>1, <1>14, <2>1, <2>2 DEF K
  <2> QED BY <1>7, <1>14, <2>1, <2>3
<1> QED BY <1>2, <1>13, <1>16, <1>17, <1>18, <1>19 DEF WritesOf

\* The operations that remove rows from it.
RemovalsOf(i, p, live, d) ==
  /\ IsSeq(d)
  /\ \A o \in ToSet(d) : /\ o.path = p /\ o.kind = "remove"
                         /\ o.row \in ToSet(live) /\ o.row.name # Hand /\ o.row.name \notin Names(i, p)
  /\ \A r \in ToSet(live) : p # Profile /\ r.tag # <<>> /\ r.name \notin Names(i, p)
                              => \E o \in ToSet(d) : o.row.name = r.name
  /\ \A m, n \in DOMAIN d : m # n => d[m].row.name # d[n].row.name

\* Deletes of a section, against its menu of the router.
LEMMA Removals ==
  ASSUME NEW i \in Intents, NEW p \in Paths, NEW s, s = SectionOf(i, p), NEW live, LiveMenu(p, live)
  PROVE  RemovalsOf(i, p, live, Deletes(s, live))
<1> DEFINE wanted == {item.name : item \in ToSet(s.items)}
           S == {row \in ToSet(live) : Owns(s, row) /\ row.name \notin wanted}
           rows == Only(live, S)
           d == [n \in DOMAIN rows |-> Op("remove", s.path, rows[n])]
           K == {z \in ToSet(live) \X ToSet(live) : z[1].name = z[2].name /\ z[1].name # Hand}
<1>1. s.path = p /\ ToSet(s.items) = AskedOf(i, p)
  BY SectionTyped, IntentAssumption
<1>2. wanted = Names(i, p)
  BY <1>1 DEF Names
<1>3. Deletes(s, live) = d
  BY DEF Deletes
<1>4. live \in Seq(ToSet(live)) /\ \A r \in ToSet(live) : HandRow(r) \/ OfController(p, r)
  BY DEF LiveMenu, IsSeq
<1>5. \A r \in S : r \in ToSet(live) /\ r.name # Hand /\ r.name \notin Names(i, p)
  <2> SUFFICES ASSUME NEW r \in S PROVE r.name # Hand
    BY <1>2
  <2>1. ~ HandRow(r)
    BY OwnRows
  <2>2. OfController(p, r)
    BY <1>4, <2>1
  <2> QED BY <2>2, ControllerRow
<1>6. \A r \in ToSet(live) : p # Profile /\ r.tag # <<>> /\ r.name \notin Names(i, p) => r \in S
  <2> SUFFICES ASSUME NEW r \in ToSet(live), p # Profile, r.tag # <<>>, r.name \notin Names(i, p) PROVE r \in S
    OBVIOUS
  <2>1. OfController(p, r)
    BY <1>4 DEF HandRow
  <2>2. Owns(s, r)
    BY <2>1, OwnRows
  <2> QED BY <1>2, <2>2
<1>7. Clashless(live, K)
  BY DEF Clashless, LiveMenu
<1> HIDE DEF S, K, wanted
<1>8. rows \in Seq(ToSet(live)) /\ ToSet(rows) = S
  <2>1. rows \in Seq(ToSet(live))
    BY <1>4, OnlyTyped
  <2>2. ToSet(rows) = ToSet(live) \cap S
    BY <1>4, OnlyMembers
  <2> QED BY <1>5, <2>1, <2>2
<1>9. Clashless(rows, K)
  BY <1>4, <1>7, OnlyClashless
<1> HIDE DEF rows
<1>10. IsSeq(rows) /\ Len(rows) \in Nat /\ DOMAIN rows = 1..Len(rows)
  BY <1>8, SeqOfMembers
<1>11. /\ IsSeq(d) /\ DOMAIN d = 1..Len(rows) /\ ToSet(d) = {d[n] : n \in 1..Len(rows)}
       /\ S = {rows[n] : n \in 1..Len(rows)}
  <2>1. d = [n \in 1..Len(rows) |-> d[n]]
    BY <1>10
  <2> HIDE DEF d
  <2> QED BY <1>8, <1>10, <2>1, OneEach
<1>12. \A n \in 1..Len(rows) : d[n] = Op("remove", p, rows[n]) /\ rows[n] \in S
  BY <1>1, <1>10, <1>11
<1> HIDE DEF d
<1>13. ToSet(d) = {Op("remove", p, r) : r \in S}
  BY <1>11, <1>12
<1>14. \A o \in ToSet(d) : /\ o.path = p /\ o.kind = "remove"
                           /\ o.row \in ToSet(live) /\ o.row.name # Hand /\ o.row.name \notin Names(i, p)
  BY <1>5, <1>13, OpFields
<1>15. \A r \in ToSet(live) : p # Profile /\ r.tag # <<>> /\ r.name \notin Names(i, p)
                              => \E o \in ToSet(d) : o.row.name = r.name
  BY <1>6, <1>13, OpFields
<1>16. ASSUME NEW m \in DOMAIN d, NEW n \in DOMAIN d, m # n PROVE d[m].row.name # d[n].row.name
  <2>1. m \in 1..Len(rows) /\ n \in 1..Len(rows)
    BY <1>11
  <2>2. <<rows[m], rows[n]>> \notin K
    BY <1>9, <1>10, <1>16, <2>1 DEF Clashless
  <2>3. rows[m].name # rows[n].name
    BY <1>5, <1>12, <2>1, <2>2 DEF K
  <2> QED BY <1>12, <2>1, <2>3, OpFields
<1> QED BY <1>3, <1>11, <1>14, <1>15, <1>16 DEF RemovalsOf

\* Two sorted sequences joined, nothing of the second belonging before the
\* first.
LEMMA SortedConcat ==
  ASSUME NEW s, NEW t, IsSeq(s), IsSeq(t), NEW R, Sorted(s, R), Sorted(t, R),
         \A x \in ToSet(s), y \in ToSet(t) : <<y, x>> \notin R
  PROVE  Sorted(s \o t, R)
<1> DEFINE u == s \o t M == Len(s) N == Len(t)
<1>1. M \in Nat /\ N \in Nat /\ DOMAIN s = 1..M /\ DOMAIN t = 1..N /\ DOMAIN u = 1..M + N
  BY DEF IsSeq
<1>2. \A n \in 1..M + N : u[n] = IF n <= M THEN s[n] ELSE t[n - M]
  BY DEF IsSeq
<1>3. \A n \in 1..M : s[n] \in ToSet(s)
  BY <1>1 DEF ToSet
<1>4. \A n \in 1..N : t[n] \in ToSet(t)
  BY <1>1 DEF ToSet
<1> SUFFICES ASSUME NEW k \in 1..M + N, NEW n \in 1..M + N, k < n PROVE <<u[n], u[k]>> \notin R
  BY <1>1 DEF Sorted
<1> HIDE DEF u, M, N
<1>5. CASE n <= M
  <2>1. k \in 1..M /\ n \in 1..M /\ u[k] = s[k] /\ u[n] = s[n]
    BY <1>1, <1>2, <1>5
  <2> QED BY <1>1, <2>1 DEF Sorted
<1>6. CASE ~ (k <= M)
  <2>1. k - M \in 1..N /\ n - M \in 1..N /\ k - M < n - M /\ u[k] = t[k - M] /\ u[n] = t[n - M]
    BY <1>1, <1>2, <1>6
  <2> QED BY <1>1, <2>1 DEF Sorted
<1>7. CASE k <= M /\ ~ (n <= M)
  <2>1. k \in 1..M /\ n - M \in 1..N /\ u[k] = s[k] /\ u[n] = t[n - M]
    BY <1>1, <1>2, <1>7
  <2> QED BY <1>3, <1>4, <2>1
<1> QED BY <1>5, <1>6, <1>7

\* A family of sorted sequences joined, nothing belonging before an earlier
\* one.
LEMMA FlattenSorted ==
  ASSUME NEW N \in Nat, NEW ss, ss = [n \in 1..N |-> ss[n]], \A n \in 1..N : IsSeq(ss[n]),
         NEW R, \A n \in 1..N : Sorted(ss[n], R),
         \A m, n \in 1..N : m < n => \A x \in ToSet(ss[m]), y \in ToSet(ss[n]) : <<y, x>> \notin R
  PROVE  Sorted(FlattenSeq(ss), R)
<1> DEFINE D == UNION {ToSet(ss[n]) : n \in 1..N}
           All(n) == UNION {ToSet(ss[k]) : k \in 1..n}
<1>1. \A n \in 1..N : ss[n] \in Seq(D)
  <2> SUFFICES ASSUME NEW n \in 1..N PROVE ss[n] \in Seq(D)
    OBVIOUS
  <2>1. ToSet(ss[n]) \subseteq D /\ ss[n] \in Seq(ToSet(ss[n]))
    BY DEF IsSeq
  <2> HIDE DEF D
  <2> QED BY <2>1, SeqMonotonic
<1>2. ss \in Seq(Seq(D)) /\ DOMAIN ss = 1..N /\ Len(ss) = N
  <2> HIDE DEF D
  <2> QED BY <1>1
<1> HIDE DEF D
<1>3. PICK f \in [0..N -> Seq(D)] : Joining(f, ss) /\ FlattenSeq(ss) = f[N]
  BY <1>2, FlattenRecursion
<1>4. f[0] = <<>> /\ \A n \in 1..N : f[n] = f[n - 1] \o ss[n]
  BY <1>2, <1>3 DEF Joining
<1> DEFINE T == {n \in Nat : n <= N => ToSet(f[n]) = All(n) /\ Sorted(f[n], R)}
<1>5. 0 \in T
  <2>1. 1..0 = {}
    OBVIOUS
  <2>2. Sorted(<<>>, R)
    BY DEF Sorted
  <2> QED BY <1>4, <2>1, <2>2, EmptyMembers
<1>6. ASSUME NEW n \in Nat, n \in T PROVE n + 1 \in T
  <2> SUFFICES ASSUME n + 1 <= N PROVE ToSet(f[n + 1]) = All(n + 1) /\ Sorted(f[n + 1], R)
    OBVIOUS
  <2>1. n + 1 \in 1..N /\ (n + 1) - 1 = n /\ n \in 0..N /\ n <= N
    BY <1>2
  <2>2. f[n + 1] = f[n] \o ss[n + 1]
    BY <1>4, <2>1
  <2>3. f[n] \in Seq(D) /\ ss[n + 1] \in Seq(D)
    BY <1>1, <1>3, <2>1
  <2>4. ToSet(f[n]) = All(n) /\ Sorted(f[n], R)
    BY <1>6, <2>1
  <2>5. ToSet(f[n + 1]) = ToSet(f[n]) \cup ToSet(ss[n + 1])
    BY <2>2, <2>3, ConcatMembers
  <2>6. 1..n + 1 = (1..n) \cup {n + 1}
    BY <1>6
  <2>7. All(n + 1) = All(n) \cup ToSet(ss[n + 1])
    BY <2>6
  <2>8. \A x \in ToSet(f[n]), y \in ToSet(ss[n + 1]) : <<y, x>> \notin R
    <3>1. \A k \in 1..n : k \in 1..N /\ k < n + 1
      BY <2>1
    <3> QED BY <2>1, <2>4, <3>1
  <2>9. IsSeq(f[n]) /\ IsSeq(ss[n + 1])
    BY <2>3, SeqOfMembers
  <2>10. Sorted(ss[n + 1], R)
    BY <2>1
  <2> HIDE DEF All
  <2>11. Sorted(f[n] \o ss[n + 1], R)
    BY <2>4, <2>8, <2>9, <2>10, SortedConcat
  <2> QED BY <2>2, <2>4, <2>5, <2>7, <2>11
<1>7. N \in T
  <2> HIDE DEF T
  <2> QED BY <1>5, <1>6, Inductive
<1> QED BY <1>3, <1>7

\* A sequence reversed: its members, and any order that none of them is in.
LEMMA Reversed ==
  ASSUME NEW s, IsSeq(s)
  PROVE  /\ IsSeq(Reverse(s)) /\ ToSet(Reverse(s)) = ToSet(s)
         /\ \A R : (\A m, n \in DOMAIN s : m # n => <<s[m], s[n]>> \notin R) => Sorted(Reverse(s), R)
<1> DEFINE N == Len(s) t == Reverse(s)
<1>1. N \in Nat /\ DOMAIN s = 1..N
  BY DEF IsSeq
<1>2. t = [n \in 1..N |-> s[(N - n) + 1]]
  BY DEF Reverse
<1>3. ToSet(s) = {s[n] : n \in 1..N}
  BY <1>1 DEF ToSet
<1> HIDE DEF t, N
<1>4. DOMAIN t = 1..N /\ \A n \in 1..N : (N - n) + 1 \in 1..N /\ t[n] = s[(N - n) + 1]
  BY <1>1, <1>2
<1>5. \A n \in 1..N : s[n] = t[(N - n) + 1]
  <2> SUFFICES ASSUME NEW n \in 1..N PROVE s[n] = t[(N - n) + 1]
    OBVIOUS
  <2>1. (N - n) + 1 \in 1..N /\ (N - ((N - n) + 1)) + 1 = n
    BY <1>1
  <2> QED BY <1>4, <2>1
<1>6. ToSet(t) = ToSet(s)
  <2>1. ToSet(t) = {t[n] : n \in 1..N}
    BY <1>4 DEF ToSet
  <2> QED BY <1>3, <1>4, <1>5, <2>1
<1>7. IsSeq(t)
  <2>1. t \in [1..N -> ToSet(t)]
    BY <1>2, <1>4 DEF ToSet
  <2> QED BY <1>1, <2>1 DEF IsSeq
<1>8. ASSUME NEW R, \A m, n \in DOMAIN s : m # n => <<s[m], s[n]>> \notin R PROVE Sorted(t, R)
  <2> SUFFICES ASSUME NEW m \in 1..N, NEW n \in 1..N, m < n PROVE <<t[n], t[m]>> \notin R
    BY <1>4 DEF Sorted
  <2>1. (N - n) + 1 # (N - m) + 1
    BY <1>1
  <2> QED BY <1>1, <1>4, <1>8, <2>1
<1> QED BY <1>6, <1>7, <1>8 DEF t

Live(m) == DOMAIN m = Paths /\ \A p \in Paths : LiveMenu(p, m[p])

\* What a plan has to do with the router m that it was made for.
OpFor(i, lost, m, o) ==
  /\ o.path \in Paths \ lost
  /\ \/ /\ o.row \in AskedOf(i, o.path)
        /\ o.kind = IF HasNamed(m[o.path], o.row.name) THEN "set" ELSE "add"
     \/ /\ o.kind = "remove" /\ o.row \in ToSet(m[o.path])
        /\ o.row.name # Hand /\ o.row.name \notin Names(i, o.path)

WritesRow(plan, p, name) == \E o \in ToSet(plan) : o.kind # "remove" /\ o.path = p /\ o.row.name = name
RemovesRow(plan, p, name) == \E o \in ToSet(plan) : o.kind = "remove" /\ o.path = p /\ o.row.name = name

Covers(i, p, live, plan) ==
  /\ \A a \in AskedOf(i, p) : a \in ToSet(live) \/ WritesRow(plan, p, a.name)
  /\ \A r \in ToSet(live) : r.name \in Names(i, p) => r \in AskedOf(i, p) \/ WritesRow(plan, p, r.name)
  /\ \A r \in ToSet(live) : p # Profile /\ r.tag # <<>> /\ r.name \notin Names(i, p) => RemovesRow(plan, p, r.name)

RemovesLast(plan) == \A k, n \in DOMAIN plan : k < n /\ plan[k].kind = "remove" => plan[n].kind = "remove"
OnceEach(plan) ==
  \A k, n \in DOMAIN plan : k < n => ~ (plan[k].path = plan[n].path /\ plan[k].row.name = plan[n].row.name)
InMenuOrder(i, plan) ==
  \A k, n \in DOMAIN plan :
    k < n => ~ (plan[k].kind # "remove" /\ plan[n].kind # "remove" /\ Sooner(i, plan[n].path, plan[k].path))

PlanOf(i, lost, m, plan) ==
  /\ IsSeq(plan)
  /\ \A o \in ToSet(plan) : OpFor(i, lost, m, o)
  /\ \A p \in Paths \ lost : Covers(i, p, m[p], plan)
  /\ RemovesLast(plan) /\ OnceEach(plan) /\ InMenuOrder(i, plan)

\* One of the two halves of a plan: the operations of each of its sections.
LEMMA HalfPlan ==
  ASSUME NEW i \in Intents, NEW lost, NEW secs, Planned(i, lost, secs),
         NEW ss, ss = [n \in DOMAIN secs |-> ss[n]],
         \A n \in DOMAIN secs : IsSeq(ss[n]) /\ \A o \in ToSet(ss[n]) : o.path = secs[n].path
  PROVE  /\ IsSeq(FlattenSeq(ss))
         /\ ToSet(FlattenSeq(ss)) = UNION {ToSet(ss[n]) : n \in DOMAIN secs}
         /\ \A R : (\A n \in DOMAIN secs : Sorted(ss[n], R))
                   /\ (\A m, n \in DOMAIN secs : m < n =>
                         \A x \in ToSet(ss[m]), y \in ToSet(ss[n]) : <<y, x>> \notin R)
                   => Sorted(FlattenSeq(ss), R)
<1>1. Len(secs) \in Nat /\ DOMAIN secs = 1..Len(secs)
  BY DEF Planned
<1> DEFINE N == Len(secs)
<1>2. N \in Nat /\ ss = [n \in 1..N |-> ss[n]] /\ \A n \in 1..N : IsSeq(ss[n])
  BY <1>1
<1> HIDE DEF N
<1>3. IsSeq(FlattenSeq(ss)) /\ ToSet(FlattenSeq(ss)) = UNION {ToSet(ss[n]) : n \in 1..N}
  BY <1>2, Flattened
<1>4. ASSUME NEW R, \A n \in 1..N : Sorted(ss[n], R),
             \A m, n \in 1..N : m < n => \A x \in ToSet(ss[m]), y \in ToSet(ss[n]) : <<y, x>> \notin R
      PROVE  Sorted(FlattenSeq(ss), R)
  BY <1>2, <1>4, FlattenSorted
<1>5. DOMAIN secs = 1..N
  BY <1>1 DEF N
<1> QED BY <1>3, <1>4, <1>5

\* What PlanOps makes is a plan of the intent for the router as it was read.
LEMMA PlanMade ==
  ASSUME NEW i \in Intents, NEW lost, NEW secs, Planned(i, lost, secs), NEW m, Live(m)
  PROVE  PlanOf(i, lost, m, PlanOps(secs, m))
<1> DEFINE cs == [n \in DOMAIN secs |-> Creates(secs[n], m[secs[n].path])]
           ds == [n \in DOMAIN secs |-> Deletes(secs[n], m[secs[n].path])]
           c == FlattenSeq(cs)
           d == FlattenSeq(ds)
           e == Reverse(d)
           plan == c \o e
<1>1. PlanOps(secs, m) = plan
  BY DEF PlanOps, AllCreates, AllDeletes
<1>2. /\ \A n \in DOMAIN secs : secs[n].path \in Paths \ lost /\ secs[n] = SectionOf(i, secs[n].path)
      /\ \A p \in Paths \ lost : \E n \in DOMAIN secs : secs[n] = SectionOf(i, p)
      /\ \A k, n \in DOMAIN secs : secs[k].path = secs[n].path => k = n
      /\ \A k, n \in DOMAIN secs : Sooner(i, secs[k].path, secs[n].path) => k < n
      /\ DOMAIN secs \subseteq Nat
  BY DEF Planned
<1>3. \A n \in DOMAIN secs : LiveMenu(secs[n].path, m[secs[n].path])
  BY <1>2 DEF Live
<1>4. \A n \in DOMAIN secs : WritesOf(i, secs[n].path, m[secs[n].path], cs[n])
  <2> SUFFICES ASSUME NEW n \in DOMAIN secs
               PROVE  WritesOf(i, secs[n].path, m[secs[n].path], cs[n])
    OBVIOUS
  <2> DEFINE p == secs[n].path live == m[p] s == secs[n]
  <2>1. p \in Paths /\ s = SectionOf(i, p) /\ LiveMenu(p, live)
    BY <1>2, <1>3
  <2>2. cs[n] = Creates(s, live)
    OBVIOUS
  <2> HIDE DEF p, live, s, cs
  <2>3. WritesOf(i, p, live, Creates(s, live))
    BY <2>1, Writes
  <2> QED BY <2>2, <2>3 DEF p, live
<1>5. \A n \in DOMAIN secs : RemovalsOf(i, secs[n].path, m[secs[n].path], ds[n])
  <2> SUFFICES ASSUME NEW n \in DOMAIN secs
               PROVE  RemovalsOf(i, secs[n].path, m[secs[n].path], ds[n])
    OBVIOUS
  <2> DEFINE p == secs[n].path live == m[p] s == secs[n]
  <2>1. p \in Paths /\ s = SectionOf(i, p) /\ LiveMenu(p, live)
    BY <1>2, <1>3
  <2>2. ds[n] = Deletes(s, live)
    OBVIOUS
  <2> HIDE DEF p, live, s, ds
  <2>3. RemovalsOf(i, p, live, Deletes(s, live))
    BY <2>1, Removals
  <2> QED BY <2>2, <2>3 DEF p, live
<1>6. cs = [n \in DOMAIN secs |-> cs[n]] /\ ds = [n \in DOMAIN secs |-> ds[n]]
  OBVIOUS
<1> HIDE DEF cs, ds
<1>7. \A n \in DOMAIN secs : IsSeq(cs[n]) /\ \A o \in ToSet(cs[n]) : o.path = secs[n].path
  BY <1>4 DEF WritesOf
<1>8. \A n \in DOMAIN secs : IsSeq(ds[n]) /\ \A o \in ToSet(ds[n]) : o.path = secs[n].path
  BY <1>5 DEF RemovalsOf
<1>9. /\ IsSeq(c) /\ ToSet(c) = UNION {ToSet(cs[n]) : n \in DOMAIN secs}
      /\ \A R : (\A n \in DOMAIN secs : Sorted(cs[n], R))
                /\ (\A k, n \in DOMAIN secs : k < n =>
                      \A x \in ToSet(cs[k]), y \in ToSet(cs[n]) : <<y, x>> \notin R)
                => Sorted(c, R)
  BY <1>6, <1>7, HalfPlan
<1>10. /\ IsSeq(d) /\ ToSet(d) = UNION {ToSet(ds[n]) : n \in DOMAIN secs}
       /\ \A R : (\A n \in DOMAIN secs : Sorted(ds[n], R))
                 /\ (\A k, n \in DOMAIN secs : k < n =>
                       \A x \in ToSet(ds[k]), y \in ToSet(ds[n]) : <<y, x>> \notin R)
                 => Sorted(d, R)
  BY <1>6, <1>8, HalfPlan
<1> HIDE DEF c, d
<1>11. IsSeq(e) /\ ToSet(e) = ToSet(d)
  BY <1>10, Reversed
<1>12. \A R : (\A k, n \in DOMAIN d : k # n => <<d[k], d[n]>> \notin R) => Sorted(e, R)
  BY <1>10, Reversed
<1> HIDE DEF e
<1>13. IsSeq(plan) /\ ToSet(plan) = ToSet(c) \cup ToSet(e)
  BY <1>9, <1>11, Joined
<1>14. \A o \in ToSet(c) : /\ o.path \in Paths \ lost /\ o.row \in AskedOf(i, o.path)
                           /\ o.kind = IF HasNamed(m[o.path], o.row.name) THEN "set" ELSE "add"
  BY <1>2, <1>4, <1>9 DEF WritesOf
<1>15. \A o \in ToSet(e) : /\ o.path \in Paths \ lost /\ o.kind = "remove" /\ o.row \in ToSet(m[o.path])
                           /\ o.row.name # Hand /\ o.row.name \notin Names(i, o.path)
  BY <1>2, <1>5, <1>10, <1>11 DEF RemovalsOf
<1> HIDE DEF plan
<1>16. \A o \in ToSet(plan) : OpFor(i, lost, m, o)
  BY <1>13, <1>14, <1>15 DEF OpFor
<1>17. \A p \in Paths \ lost : Covers(i, p, m[p], plan)
  <2> SUFFICES ASSUME NEW p \in Paths \ lost PROVE Covers(i, p, m[p], plan)
    OBVIOUS
  <2>1. PICK n \in DOMAIN secs : secs[n] = SectionOf(i, p)
    BY <1>2
  <2>2. secs[n].path = p
    BY <2>1, SectionTyped, IntentAssumption
  <2>3. WritesOf(i, p, m[p], cs[n]) /\ RemovalsOf(i, p, m[p], ds[n])
    BY <1>4, <1>5, <2>2
  <2>4. ToSet(cs[n]) \subseteq ToSet(plan) /\ ToSet(ds[n]) \subseteq ToSet(plan)
    BY <1>9, <1>10, <1>11, <1>13
  <2>5. \A o \in ToSet(cs[n]) : o \in ToSet(plan) /\ o.path = p /\ o.kind # "remove"
    BY <2>3, <2>4 DEF WritesOf
  <2>6. \A o \in ToSet(ds[n]) : o \in ToSet(plan) /\ o.path = p /\ o.kind = "remove"
    BY <2>3, <2>4 DEF RemovalsOf
  <2>7. \A a \in AskedOf(i, p) : a \in ToSet(m[p]) \/ WritesRow(plan, p, a.name)
    BY <2>3, <2>5 DEF WritesOf, WritesRow
  <2>8. \A r \in ToSet(m[p]) : r.name \in Names(i, p) => r \in AskedOf(i, p) \/ WritesRow(plan, p, r.name)
    BY <2>3, <2>5 DEF WritesOf, WritesRow
  <2>9. \A r \in ToSet(m[p]) : p # Profile /\ r.tag # <<>> /\ r.name \notin Names(i, p)
                                 => RemovesRow(plan, p, r.name)
    BY <2>3, <2>6 DEF RemovalsOf, RemovesRow
  <2> QED BY <2>7, <2>8, <2>9 DEF Covers
<1> DEFINE O == ToSet(plan)
<1>18. DOMAIN plan \subseteq Nat /\ \A n \in DOMAIN plan : plan[n] \in O
  BY <1>13 DEF IsSeq, ToSet
<1>19. \A R : Sorted(c, R) /\ Sorted(e, R) /\ (\A x \in ToSet(c), y \in ToSet(e) : <<y, x>> \notin R) => Sorted(plan, R)
  BY <1>9, <1>11, SortedConcat DEF plan
<1>20. RemovesLast(plan)
  <2> DEFINE R == {z \in O \X O : z[1].kind # "remove" /\ z[2].kind = "remove"}
  <2>1. Sorted(c, R)
    <3>1. \A n \in DOMAIN c : c[n].kind # "remove"
      BY <1>14 DEF ToSet
    <3> QED BY <3>1 DEF Sorted
  <2>2. Sorted(e, R)
    <3>1. \A n \in DOMAIN e : e[n].kind = "remove"
      BY <1>15 DEF ToSet
    <3> QED BY <3>1 DEF Sorted
  <2>3. \A x \in ToSet(c), y \in ToSet(e) : <<y, x>> \notin R
    BY <1>15
  <2>4. Sorted(plan, R)
    <3> HIDE DEF R
    <3> QED BY <1>19, <2>1, <2>2, <2>3
  <2> QED BY <1>18, <2>4 DEF RemovesLast, Sorted
<1>21. OnceEach(plan)
  <2> DEFINE R == {z \in O \X O : z[1].path = z[2].path /\ z[1].row.name = z[2].row.name}
  <2>1. Sorted(c, R)
    <3>1. ASSUME NEW n \in DOMAIN secs PROVE Sorted(cs[n], R)
      <4>1. \A j, k \in DOMAIN cs[n] : j # k => cs[n][j].row.name # cs[n][k].row.name
        BY <1>4 DEF WritesOf
      <4>2. \A j, k \in DOMAIN cs[n] : j < k => j # k
        BY <1>7 DEF IsSeq
      <4> QED BY <4>1, <4>2 DEF Sorted
    <3>2. ASSUME NEW k \in DOMAIN secs, NEW n \in DOMAIN secs, k < n,
                 NEW x \in ToSet(cs[k]), NEW y \in ToSet(cs[n])
          PROVE  <<y, x>> \notin R
      <4>1. x.path = secs[k].path /\ y.path = secs[n].path
        BY <1>7
      <4>2. secs[k].path # secs[n].path
        BY <1>2, <3>2
      <4> QED BY <4>1, <4>2
    <3> HIDE DEF R
    <3> QED BY <1>9, <3>1, <3>2
  <2>2. Sorted(e, R)
    <3>1. Sorted(d, R)
      <4>1. ASSUME NEW n \in DOMAIN secs PROVE Sorted(ds[n], R)
        <5>1. \A j, k \in DOMAIN ds[n] : j # k => ds[n][j].row.name # ds[n][k].row.name
          BY <1>5 DEF RemovalsOf
        <5>2. \A j, k \in DOMAIN ds[n] : j < k => j # k
          BY <1>8 DEF IsSeq
        <5> QED BY <5>1, <5>2 DEF Sorted
      <4>2. ASSUME NEW k \in DOMAIN secs, NEW n \in DOMAIN secs, k < n,
                   NEW x \in ToSet(ds[k]), NEW y \in ToSet(ds[n])
            PROVE  <<y, x>> \notin R
        <5>1. x.path = secs[k].path /\ y.path = secs[n].path
          BY <1>8
        <5>2. secs[k].path # secs[n].path
          BY <1>2, <4>2
        <5> QED BY <5>1, <5>2
      <4> HIDE DEF R
      <4> QED BY <1>10, <4>1, <4>2
    <3>2. ASSUME NEW k \in DOMAIN d, NEW n \in DOMAIN d, k # n PROVE <<d[k], d[n]>> \notin R
      <4>1. k < n \/ n < k
        BY <1>10, <3>2 DEF IsSeq
      <4>2. CASE n < k
        BY <3>1, <4>2 DEF Sorted
      <4>3. CASE k < n
        <5>1. <<d[n], d[k]>> \notin R
          BY <3>1, <4>3 DEF Sorted
        <5> QED BY <5>1
      <4> QED BY <4>1, <4>2, <4>3
    <3> HIDE DEF R
    <3> QED BY <1>12, <3>2
  <2>3. \A x \in ToSet(c), y \in ToSet(e) : <<y, x>> \notin R
    BY <1>14, <1>15 DEF Names
  <2>4. Sorted(plan, R)
    <3> HIDE DEF R
    <3> QED BY <1>19, <2>1, <2>2, <2>3
  <2> QED BY <1>18, <2>4 DEF OnceEach, Sorted
<1>22. InMenuOrder(i, plan)
  <2> DEFINE R == {z \in O \X O : z[1].kind # "remove" /\ z[2].kind # "remove" /\ Sooner(i, z[1].path, z[2].path)}
  <2>1. Sorted(c, R)
    <3>1. ASSUME NEW n \in DOMAIN secs PROVE Sorted(cs[n], R)
      <4>1. \A k \in DOMAIN cs[n] : cs[n][k].path = secs[n].path
        BY <1>7 DEF ToSet
      <4>2. ~ Sooner(i, secs[n].path, secs[n].path)
        BY <1>2
      <4> QED BY <4>1, <4>2 DEF Sorted
    <3>2. ASSUME NEW k \in DOMAIN secs, NEW n \in DOMAIN secs, k < n,
                 NEW x \in ToSet(cs[k]), NEW y \in ToSet(cs[n])
          PROVE  <<y, x>> \notin R
      <4>1. x.path = secs[k].path /\ y.path = secs[n].path
        BY <1>7
      <4>2. ~ Sooner(i, secs[n].path, secs[k].path)
        BY <1>2, <3>2
      <4> QED BY <4>1, <4>2
    <3> HIDE DEF R
    <3> QED BY <1>9, <3>1, <3>2
  <2>2. Sorted(e, R)
    <3>1. \A n \in DOMAIN e : e[n].kind = "remove"
      BY <1>15 DEF ToSet
    <3> QED BY <3>1 DEF Sorted
  <2>3. \A x \in ToSet(c), y \in ToSet(e) : <<y, x>> \notin R
    BY <1>15
  <2>4. Sorted(plan, R)
    <3> HIDE DEF R
    <3> QED BY <1>19, <2>1, <2>2, <2>3
  <2> QED BY <1>18, <2>4 DEF InMenuOrder, Sorted
<1> QED BY <1>1, <1>13, <1>16, <1>17, <1>20, <1>21, <1>22 DEF PlanOf

-----------------------------------------------------------------------------
(* An operation of a plan, on the router.                                  *)

\* An operation of a plan for intent i without the menus in lost.
OpOf(i, lost, o) ==
  /\ o.path \in Paths \ lost
  /\ \/ o.kind \in {"add", "set"} /\ o.row \in AskedOf(i, o.path)
     \/ o.kind = "remove" /\ o.row.name # Hand /\ o.row.name \notin Names(i, o.path)

\* What an operation makes of its menu.
MenuAfter(live, o) ==
  CASE o.kind = "add"    -> Append(live, o.row)
    [] o.kind = "set"    -> [n \in DOMAIN live |-> IF live[n].name = o.row.name THEN o.row ELSE live[n]]
    [] o.kind = "remove" -> Only(live, {r \in ToSet(live) : r.name # o.row.name})

\* An operation changes its own menu only.
LEMMA EffectOf ==
  ASSUME NEW m, DOMAIN m = Paths, NEW o, o.path \in Paths, o.kind \in {"add", "set", "remove"}
  PROVE  /\ DOMAIN Effect(m, o) = Paths
         /\ Effect(m, o)[o.path] = MenuAfter(m[o.path], o)
         /\ \A p \in Paths : p # o.path => Effect(m, o)[p] = m[p]
<1> DEFINE live == m[o.path] there == At(m, o.path, o.row.name)
           after == CASE o.kind = "add"    -> Append(live, o.row)
                      [] o.kind = "set"    -> [n \in DOMAIN live |-> IF n \in there THEN o.row ELSE live[n]]
                      [] o.kind = "remove" -> Only(live, {r \in ToSet(live) : r.name # o.row.name})
<1>1. Effect(m, o) = [m EXCEPT ![o.path] = after]
  BY DEF Effect
<1>2. after = MenuAfter(live, o)
  <2>1. there = {n \in DOMAIN live : live[n].name = o.row.name}
    BY DEF At
  <2>2. [n \in DOMAIN live |-> IF n \in there THEN o.row ELSE live[n]]
          = [n \in DOMAIN live |-> IF live[n].name = o.row.name THEN o.row ELSE live[n]]
    <3> HIDE DEF live, there
    <3> QED BY <2>1
  <2>3. CASE o.kind = "add"
    BY <2>3 DEF MenuAfter
  <2>4. CASE o.kind = "set"
    <3> HIDE DEF live, there
    <3> QED BY <2>2, <2>4 DEF MenuAfter
  <2>5. CASE o.kind = "remove"
    BY <2>5 DEF MenuAfter
  <2> QED BY <2>3, <2>4, <2>5
<1> HIDE DEF after
<1> QED BY <1>1, <1>2

\* An operation that the router takes, on the rows of its menu.
LEMMA MenuAfterLive ==
  ASSUME NEW i \in Intents, NEW lost, NEW o, OpOf(i, lost, o), NEW live, LiveMenu(o.path, live),
         o.kind = "add" => ~ HasNamed(live, o.row.name)
  PROVE  LiveMenu(o.path, MenuAfter(live, o))
<1> DEFINE p == o.path new == MenuAfter(live, o) D == ToSet(live) \cup {o.row}
           K == {z \in D \X D : z[1].name = z[2].name /\ z[1].name # Hand}
<1>1. /\ live \in Seq(D) /\ \A r \in ToSet(live) : HandRow(r) \/ OfController(p, r)
      /\ Len(live) \in Nat /\ DOMAIN live = 1..Len(live)
  <2>1. live \in Seq(ToSet(live))
    BY DEF LiveMenu, IsSeq
  <2>2. ToSet(live) \subseteq D
    OBVIOUS
  <2> HIDE DEF D
  <2>3. live \in Seq(D)
    BY <2>1, <2>2, SeqMonotonic
  <2> QED BY <2>3 DEF LiveMenu
<1>2. \A n \in DOMAIN live : live[n] \in ToSet(live)
  BY DEF ToSet
<1>3. Clashless(live, K)
  BY DEF Clashless, LiveMenu
<1>4. ASSUME o.kind # "remove" PROVE OfController(p, o.row) /\ o.row.name # Hand
  <2>1. o.row \in AskedOf(i, p)
    BY <1>4 DEF OpOf
  <2>2. o.row = Row(o.row.name, o.row.refs, o.row.val, o.row.tag) /\ o.row.name # Hand /\ o.row.val \in Int
    BY <2>1, AskedIsGood, IntentAssumption
  <2> QED BY <2>1, <2>2 DEF OfController
<1>5. CASE o.kind = "add"
  <2>1. new = Append(live, o.row)
    BY <1>5 DEF MenuAfter
  <2>2. o.row \in D
    OBVIOUS
  <2> HIDE DEF D, K
  <2>3. new \in Seq(D)
    BY <1>1, <2>1, <2>2
  <2>4. ToSet(new) = ToSet(live) \cup {o.row}
    BY <1>1, <2>1, <2>2, AppendMembers
  <2>5. \A y \in ToSet(live) : y.name # o.row.name
    BY <1>5 DEF HasNamed, ToSet
  <2>6. Clashless(new, K)
    <3>1. \A y \in ToSet(live) : <<o.row, y>> \notin K /\ <<y, o.row>> \notin K
      BY <2>5 DEF K
    <3> QED BY <1>1, <1>3, <2>1, <2>2, <3>1, ClashlessAppend
  <2>7. IsSeq(new) /\ \A n \in DOMAIN new : new[n] \in D
    BY <2>3, SeqOfMembers DEF ToSet
  <2>8. \A k, n \in DOMAIN new : k # n /\ new[k].name = new[n].name => new[n].name = Hand
    BY <2>6, <2>7 DEF Clashless, K
  <2>9. \A r \in ToSet(new) : HandRow(r) \/ OfController(p, r)
    BY <1>1, <1>4, <1>5, <2>4
  <2> QED BY <2>7, <2>8, <2>9 DEF LiveMenu
<1>6. CASE o.kind = "set"
  <2>1. new = [n \in DOMAIN live |-> IF live[n].name = o.row.name THEN o.row ELSE live[n]]
    BY <1>6 DEF MenuAfter
  <2>2. new = [n \in 1..Len(live) |-> new[n]]
    BY <1>1, <2>1
  <2>3. IsSeq(live)
    BY DEF LiveMenu
  <2>4. DOMAIN new = DOMAIN live
    BY <2>1
  <2>5. \A n \in DOMAIN live : new[n] = IF live[n].name = o.row.name THEN o.row ELSE live[n]
    BY <2>1
  <2> HIDE DEF new
  <2>6. IsSeq(new)
    BY <2>2, <2>3, OneEach
  <2>7. \A n \in DOMAIN new : new[n] \in D /\ new[n].name = live[n].name
    BY <1>2, <2>4, <2>5
  <2>8. \A k, n \in DOMAIN new : k # n /\ new[k].name = new[n].name => new[n].name = Hand
    BY <2>4, <2>7 DEF LiveMenu
  <2>9. \A r \in ToSet(new) : HandRow(r) \/ OfController(p, r)
    <3>1. \A r \in D : HandRow(r) \/ OfController(p, r)
      BY <1>1, <1>4, <1>6
    <3> QED BY <2>7, <3>1 DEF ToSet
  <2> QED BY <2>6, <2>8, <2>9 DEF LiveMenu, new
<1>7. CASE o.kind = "remove"
  <2> DEFINE S == {r \in ToSet(live) : r.name # o.row.name}
  <2>1. new = Only(live, S)
    BY <1>7 DEF MenuAfter
  <2> HIDE DEF S, D, K
  <2>2. new \in Seq(D)
    BY <1>1, <2>1, OnlyTyped
  <2>3. ToSet(new) \subseteq ToSet(live)
    BY <1>1, <2>1, OnlyMembers
  <2>4. Clashless(new, K)
    BY <1>1, <1>3, <2>1, OnlyClashless
  <2>5. IsSeq(new) /\ \A n \in DOMAIN new : new[n] \in D
    BY <2>2, SeqOfMembers DEF ToSet
  <2>6. \A k, n \in DOMAIN new : k # n /\ new[k].name = new[n].name => new[n].name = Hand
    BY <2>4, <2>5 DEF Clashless, K
  <2>7. \A r \in ToSet(new) : HandRow(r) \/ OfController(p, r)
    BY <1>1, <2>3
  <2> QED BY <2>5, <2>6, <2>7 DEF LiveMenu
<1>8. o.kind \in {"add", "set", "remove"}
  BY DEF OpOf
<1> QED BY <1>5, <1>6, <1>7, <1>8

\* The rows of a menu after an operation.
LEMMA MenuAfterRows ==
  ASSUME NEW o, o.kind \in {"add", "set", "remove"}, NEW live, IsSeq(live)
  PROVE  ToSet(MenuAfter(live, o)) =
           CASE o.kind = "add"    -> ToSet(live) \cup {o.row}
             [] o.kind = "set"    -> {r \in ToSet(live) : r.name # o.row.name}
                                       \cup (IF HasNamed(live, o.row.name) THEN {o.row} ELSE {})
             [] o.kind = "remove" -> {r \in ToSet(live) : r.name # o.row.name}
<1> DEFINE new == MenuAfter(live, o) D == ToSet(live) \cup {o.row}
<1>1. live \in Seq(ToSet(live))
  BY DEF IsSeq
<1>2. live \in Seq(D)
  <2>1. ToSet(live) \subseteq D
    OBVIOUS
  <2> HIDE DEF D
  <2> QED BY <1>1, <2>1, SeqMonotonic
<1>3. CASE o.kind = "add"
  <2>1. new = Append(live, o.row) /\ o.row \in D
    BY <1>3 DEF MenuAfter
  <2> HIDE DEF D, new
  <2>2. ToSet(new) = ToSet(live) \cup {o.row}
    BY <1>2, <2>1, AppendMembers
  <2> QED BY <1>3, <2>2 DEF new
<1>4. CASE o.kind = "set"
  <2>1. new = [n \in DOMAIN live |-> IF live[n].name = o.row.name THEN o.row ELSE live[n]]
    BY <1>4 DEF MenuAfter
  <2>2. DOMAIN new = DOMAIN live
        /\ \A n \in DOMAIN live : new[n] = IF live[n].name = o.row.name THEN o.row ELSE live[n]
    BY <2>1
  <2> HIDE DEF new
  <2>3. ToSet(new) = {new[n] : n \in DOMAIN live} /\ ToSet(live) = {live[n] : n \in DOMAIN live}
    BY <2>2 DEF ToSet
  <2>4. ToSet(new) = {r \in ToSet(live) : r.name # o.row.name} \cup (IF HasNamed(live, o.row.name) THEN {o.row} ELSE {})
    <3>1. CASE HasNamed(live, o.row.name)
      <4>1. PICK k \in DOMAIN live : live[k].name = o.row.name
        BY <3>1 DEF HasNamed
      <4>2. new[k] = o.row
        BY <2>2, <4>1
      <4> QED BY <2>2, <2>3, <3>1, <4>2
    <3>2. CASE ~ HasNamed(live, o.row.name)
      <4>1. \A n \in DOMAIN live : live[n].name # o.row.name
        BY <3>2 DEF HasNamed
      <4> QED BY <2>2, <2>3, <3>2, <4>1
    <3> QED BY <3>1, <3>2
  <2> QED BY <1>4, <2>4 DEF new
<1>5. CASE o.kind = "remove"
  <2> DEFINE S == {r \in ToSet(live) : r.name # o.row.name}
  <2>1. new = Only(live, S)
    BY <1>5 DEF MenuAfter
  <2>2. S \subseteq ToSet(live)
    OBVIOUS
  <2> HIDE DEF S, new
  <2>3. ToSet(new) = ToSet(live) \cap S
    BY <1>1, <2>1, OnlyMembers
  <2>4. ToSet(new) = S
    BY <2>2, <2>3
  <2> QED BY <1>5, <2>4 DEF new, S
<1> QED BY <1>3, <1>4, <1>5

\* A row that people wrote.
LEMMA HandName == ByHand.name = Hand /\ HandRow(ByHand)
<1>1. ByHand = Row(Hand, {}, 0, <<>>)
  BY DEF ByHand, Hand
<1>2. ByHand.name = Hand /\ ByHand.refs = {} /\ ByHand.val = 0 /\ ByHand.tag = <<>>
  BY <1>1 DEF Row
<1> QED BY <1>1, <1>2, Zero DEF HandRow

\* At, without positions.
LEMMA AtNamed == \A m, p, name : (At(m, p, name) = {}) <=> ~ HasNamed(m[p], name)
BY DEF At, HasNamed

\* The router stays well formed under an operation that it takes.
LEMMA EffectLive ==
  ASSUME NEW i \in Intents, NEW lost, NEW o, OpOf(i, lost, o), NEW m, Live(m), Accepts(m, o)
  PROVE  Live(Effect(m, o))
<1>1. o.path \in Paths /\ o.kind \in {"add", "set", "remove"}
  BY DEF OpOf
<1>2. /\ DOMAIN Effect(m, o) = Paths
      /\ Effect(m, o)[o.path] = MenuAfter(m[o.path], o)
      /\ \A p \in Paths : p # o.path => Effect(m, o)[p] = m[p]
  BY <1>1, EffectOf DEF Live
<1>3. o.kind = "add" => ~ HasNamed(m[o.path], o.row.name)
  BY AtNamed DEF Accepts
<1>4. LiveMenu(o.path, m[o.path])
  BY <1>1 DEF Live
<1> DEFINE live == m[o.path]
<1> HIDE DEF live
<1>5. LiveMenu(o.path, MenuAfter(live, o))
  BY <1>3, <1>4, MenuAfterLive DEF live
<1> QED BY <1>2, <1>5 DEF Live, live

\* No operation of a plan changes the rows that people wrote.
LEMMA MenuAfterForeign ==
  ASSUME NEW o, o.kind \in {"add", "set", "remove"}, o.row.name # Hand, NEW live, IsSeq(live)
  PROVE  LET new == MenuAfter(live, o)
         IN Only(new, {r \in ToSet(new) : r.name = Hand}) = Only(live, {r \in ToSet(live) : r.name = Hand})
<1> DEFINE new == MenuAfter(live, o) D == ToSet(live) \cup {o.row}
           S == {r \in ToSet(live) : r.name = Hand}
           T == {r \in ToSet(new) : r.name = Hand}
<1>1. live \in Seq(ToSet(live)) /\ DOMAIN live = 1..Len(live) /\ Len(live) \in Nat
  BY DEF IsSeq
<1>2. live \in Seq(D)
  <2>1. ToSet(live) \subseteq D
    OBVIOUS
  <2> HIDE DEF D
  <2> QED BY <1>1, <2>1, SeqMonotonic
<1>3. T = S
  <2>1. ToSet(new) =
           CASE o.kind = "add"    -> ToSet(live) \cup {o.row}
             [] o.kind = "set"    -> {r \in ToSet(live) : r.name # o.row.name}
                                       \cup (IF HasNamed(live, o.row.name) THEN {o.row} ELSE {})
             [] o.kind = "remove" -> {r \in ToSet(live) : r.name # o.row.name}
    BY MenuAfterRows
  <2> DEFINE A == ToSet(new) L == ToSet(live)
  <2>2. CASE o.kind = "add"
    <3>1. A = L \cup {o.row}
      BY <2>1, <2>2
    <3> HIDE DEF A, L
    <3>2. {r \in A : r.name = Hand} = {r \in L : r.name = Hand}
      BY <3>1
    <3> QED BY <3>2 DEF A, L
  <2>3. CASE o.kind = "set"
    <3>1. A = {r \in L : r.name # o.row.name} \cup (IF HasNamed(live, o.row.name) THEN {o.row} ELSE {})
      BY <2>1, <2>3
    <3> HIDE DEF A, L
    <3>2. {r \in A : r.name = Hand} = {r \in L : r.name = Hand}
      BY <3>1
    <3> QED BY <3>2 DEF A, L
  <2>4. CASE o.kind = "remove"
    <3>1. A = {r \in L : r.name # o.row.name}
      BY <2>1, <2>4
    <3> HIDE DEF A, L
    <3>2. {r \in A : r.name = Hand} = {r \in L : r.name = Hand}
      BY <3>1
    <3> QED BY <3>2 DEF A, L
  <2> QED BY <2>2, <2>3, <2>4
<1>4. Only(new, S) = Only(live, S)
  <2>1. CASE o.kind = "add"
    <3>1. new = Append(live, o.row) /\ o.row \in D /\ o.row \notin S
      BY <2>1 DEF MenuAfter
    <3> HIDE DEF new, S, D
    <3> QED BY <1>2, <3>1, OnlyAppend
  <2>2. CASE o.kind = "set"
    <3>1. new = [n \in DOMAIN live |-> IF live[n].name = o.row.name THEN o.row ELSE live[n]]
      BY <2>2 DEF MenuAfter
    <3>2. DOMAIN new = 1..Len(live) /\ new = [n \in 1..Len(live) |-> new[n]]
      BY <1>1, <3>1
    <3>3. \A n \in 1..Len(live) : new[n] = IF live[n].name = o.row.name THEN o.row ELSE live[n]
      BY <1>1, <3>1
    <3>4. \A n \in 1..Len(live) : live[n] \in ToSet(live)
      BY <1>1 DEF ToSet
    <3> HIDE DEF new
    <3>5. \A n \in 1..Len(live) : new[n] \in D
      BY <3>3, <3>4
    <3>6. \A n \in 1..Len(live) : (new[n] = live[n] /\ (new[n] \in S <=> live[n] \in S)) \/ (new[n] \notin S /\ live[n] \notin S)
      BY <3>3, <3>4
    <3> HIDE DEF D, S
    <3>7. new \in [1..Len(live) -> D]
      BY <3>2, <3>5
    <3>8. new \in Seq(D) /\ Len(new) = Len(live)
      BY <1>1, <3>2, <3>7
    <3> QED BY <1>2, <3>6, <3>8, OnlyReplaced
  <2>3. CASE o.kind = "remove"
    <3> DEFINE A == {r \in ToSet(live) : r.name # o.row.name}
    <3>1. new = Only(live, A)
      BY <2>3 DEF MenuAfter
    <3>2. A \cap S = S
      OBVIOUS
    <3> HIDE DEF new, S, A
    <3>3. Only(Only(live, A), S) = Only(live, A \cap S)
      BY <1>1, OnlyOfOnly
    <3> QED BY <3>1, <3>2, <3>3
  <2> QED BY <2>1, <2>2, <2>3
<1> QED BY <1>3, <1>4

\* No operation of a plan changes, removes or reorders the rows that people
\* wrote.
LEMMA EffectForeign ==
  ASSUME NEW i \in Intents, NEW lost, NEW o, OpOf(i, lost, o), NEW m, Live(m)
  PROVE  Foreign(Effect(m, o)) = Foreign(m)
<1>1. o.path \in Paths /\ o.kind \in {"add", "set", "remove"} /\ o.row.name # Hand
  <2>1. CASE o.row \in AskedOf(i, o.path)
    BY <2>1, AskedIsGood, IntentAssumption DEF OpOf
  <2>2. CASE o.row \notin AskedOf(i, o.path)
    BY <2>2 DEF OpOf
  <2> QED BY <2>1, <2>2
<1>2. /\ Effect(m, o)[o.path] = MenuAfter(m[o.path], o)
      /\ \A p \in Paths : p # o.path => Effect(m, o)[p] = m[p]
  BY <1>1, EffectOf DEF Live
<1> DEFINE e == Effect(m, o) F(live) == Only(live, {r \in ToSet(live) : r.name = Hand})
<1>3. \A q : Foreign(q) = [p \in Paths |-> F(q[p])]
  BY HandName DEF Foreign
<1>4. ASSUME NEW p \in Paths PROVE F(e[p]) = F(m[p])
  <2>1. CASE p = o.path
    <3> DEFINE live == m[p]
    <3>1. IsSeq(live)
      BY DEF Live, LiveMenu
    <3> HIDE DEF live
    <3>2. F(MenuAfter(live, o)) = F(live)
      BY <1>1, <3>1, MenuAfterForeign
    <3>3. e[p] = MenuAfter(live, o)
      BY <1>2, <2>1 DEF live
    <3> HIDE DEF e, F
    <3> QED BY <3>2, <3>3 DEF live
  <2>2. CASE p # o.path
    BY <1>2, <2>2
  <2> QED BY <2>1, <2>2
<1> HIDE DEF e, F
<1>5. [p \in Paths |-> F(e[p])] = [p \in Paths |-> F(m[p])]
  BY <1>4
<1> QED BY <1>3, <1>5 DEF e

-----------------------------------------------------------------------------
\* The router is well formed to begin with.
LEMMA FactoryLive == Live(Factory)
<1>1. \A p \in Paths : Factory[p] \in {<<>>, <<ByHand>>}
  BY DEF Factory
<1>2. \A p : LiveMenu(p, <<>>) /\ LiveMenu(p, <<ByHand>>)
  <2>1. IsSeq(<<>>) /\ ToSet(<<>>) = {} /\ IsSeq(<<ByHand>>) /\ ToSet(<<ByHand>>) = {ByHand}
    BY Tuples
  <2>2. DOMAIN <<>> = {} /\ DOMAIN <<ByHand>> = {1}
    OBVIOUS
  <2> QED BY <2>1, <2>2, HandName DEF LiveMenu
<1>3. DOMAIN Factory = Paths
  BY DEF Factory
<1> QED BY <1>1, <1>2, <1>3 DEF Live

\* A row somebody changed.
Changed(r) == [r EXCEPT !.val = 1 - @]

\* A row changed by hand is still one that was asked for, but for its value.
LEMMA ChangedRow ==
  ASSUME NEW p \in Paths, NEW r, HandRow(r) \/ OfController(p, r)
  PROVE  /\ HandRow(Changed(r)) \/ OfController(p, Changed(r))
         /\ Changed(r).name = r.name /\ Changed(r).refs = r.refs
<1>1. r = Row(r.name, r.refs, r.val, r.tag) /\ r.val \in Int
  BY ControllerRow DEF HandRow
<1>2. \A n, f, v, t : [Row(n, f, v, t) EXCEPT !.val = 1 - @] = Row(n, f, 1 - v, t)
  BY DEF Row
<1>3. Changed(r) = Row(r.name, r.refs, 1 - r.val, r.tag)
  BY <1>1, <1>2 DEF Changed
<1>4. 1 - r.val \in Int
  BY <1>1
<1>5. \A n, f, v, t : LET q == Row(n, f, v, t) IN q.name = n /\ q.refs = f /\ q.val = v /\ q.tag = t
  BY DEF Row
<1>6. Changed(r).name = r.name /\ Changed(r).refs = r.refs /\ Changed(r).val = 1 - r.val /\ Changed(r).tag = r.tag
  BY <1>3, <1>5
<1>7. CASE HandRow(r)
  BY <1>3, <1>4, <1>6, <1>7 DEF HandRow
<1>8. CASE OfController(p, r)
  <2>1. PICK i \in Intents : \E b \in AskedOf(i, p) : \E v \in Int : r = Row(b.name, b.refs, v, b.tag)
    BY <1>8 DEF OfController
  <2>2. PICK a \in AskedOf(i, p) : \E v \in Int : r = Row(a.name, a.refs, v, a.tag)
    BY <2>1
  <2>3. r.name = a.name /\ r.refs = a.refs /\ r.tag = a.tag
    BY <1>5, <2>2
  <2>4. Changed(r) = Row(a.name, a.refs, 1 - r.val, a.tag)
    BY <1>3, <2>3
  <2>5. OfController(p, Changed(r))
    BY <1>4, <2>4 DEF OfController
  <2> QED BY <1>6, <2>5
<1> QED BY <1>7, <1>8

\* What somebody leaves of a menu has the rows that were there, but for their
\* values, in their order, and rows of their own.
LEMMA EditsLive ==
  ASSUME NEW p \in Paths, NEW live, LiveMenu(p, live), NEW new \in Edits(live)
  PROVE  /\ LiveMenu(p, new)
         /\ \A r \in ToSet(new) : r.name # Hand => \E q \in ToSet(live) : q.name = r.name /\ q.refs = r.refs
<1> DEFINE N == Len(live)
<1>1. IsSeq(live) /\ N \in Nat /\ DOMAIN live = 1..N /\ live \in Seq(ToSet(live))
  BY DEF LiveMenu, IsSeq
<1>2. \A n \in 1..N : live[n] \in ToSet(live) /\ (HandRow(live[n]) \/ OfController(p, live[n]))
  BY <1>1 DEF LiveMenu, ToSet
<1>3. CASE new = Append(live, ByHand)
  <2> DEFINE D == ToSet(live) \cup {ByHand}
  <2>1. live \in Seq(D)
    <3>1. ToSet(live) \subseteq D
      OBVIOUS
    <3> HIDE DEF D
    <3> QED BY <1>1, <3>1, SeqMonotonic
  <2>2. ByHand \in D
    OBVIOUS
  <2> HIDE DEF D
  <2>3. new \in Seq(D) /\ ToSet(new) = ToSet(live) \cup {ByHand}
    BY <1>3, <2>1, <2>2, AppendMembers
  <2>4. IsSeq(new)
    BY <2>3, SeqOfMembers
  <2>5. DOMAIN new = 1..N + 1 /\ new[N + 1] = ByHand /\ \A n \in 1..N : new[n] = live[n]
    BY <1>1, <1>3
  <2>6. ASSUME NEW k \in DOMAIN new, NEW n \in DOMAIN new, k # n, new[k].name = new[n].name
        PROVE  new[n].name = Hand
    <3>1. CASE k = N + 1 \/ n = N + 1
      BY <2>5, <2>6, <3>1, HandName
    <3>2. CASE ~ (k = N + 1 \/ n = N + 1)
      <4>1. k \in 1..N /\ n \in 1..N
        BY <1>1, <2>5, <3>2
      <4> QED BY <1>1, <2>5, <2>6, <4>1 DEF LiveMenu
    <3> QED BY <3>1, <3>2
  <2>7. \A r \in ToSet(new) : HandRow(r) \/ OfController(p, r)
    BY <2>3, HandName DEF LiveMenu
  <2>8. \A r \in ToSet(new) : r.name # Hand => r \in ToSet(live)
    BY <2>3, HandName
  <2> QED BY <2>4, <2>6, <2>7, <2>8 DEF LiveMenu
<1>4. ASSUME NEW j \in DOMAIN live, new = [live EXCEPT ![j].val = 1 - @]
      PROVE  /\ LiveMenu(p, new)
             /\ \A r \in ToSet(new) : r.name # Hand => \E q \in ToSet(live) : q.name = r.name /\ q.refs = r.refs
  <2>1. DOMAIN new = 1..N /\ new = [n \in 1..N |-> new[n]]
    BY <1>1, <1>4
  <2>2. new[j] = Changed(live[j]) /\ \A n \in 1..N : n # j => new[n] = live[n]
    BY <1>1, <1>4 DEF Changed
  <2>3. \A n \in 1..N : /\ HandRow(new[n]) \/ OfController(p, new[n])
                        /\ new[n].name = live[n].name /\ new[n].refs = live[n].refs
    BY <1>2, <2>2, ChangedRow
  <2>4. IsSeq(new)
    BY <1>1, <2>1, OneEach
  <2>5. \A k, n \in DOMAIN new : k # n /\ new[k].name = new[n].name => new[n].name = Hand
    BY <1>1, <2>1, <2>3 DEF LiveMenu
  <2>6. \A r \in ToSet(new) : \E n \in 1..N : r = new[n]
    BY <2>1 DEF ToSet
  <2>7. \A r \in ToSet(new) : HandRow(r) \/ OfController(p, r)
    BY <2>3, <2>6
  <2>8. \A r \in ToSet(new) : \E q \in ToSet(live) : q.name = r.name /\ q.refs = r.refs
    BY <1>2, <2>3, <2>6
  <2> QED BY <2>4, <2>5, <2>7, <2>8 DEF LiveMenu
<1>5. ASSUME NEW j \in DOMAIN live, new = RemoveAt(live, j)
      PROVE  /\ LiveMenu(p, new)
             /\ \A r \in ToSet(new) : r.name # Hand => \E q \in ToSet(live) : q.name = r.name /\ q.refs = r.refs
  <2> DEFINE D == ToSet(live) from(n) == IF n < j THEN n ELSE n + 1
  <2>1. new \in Seq(D) /\ Len(new) = N - 1 /\ \A n \in 1..N - 1 : new[n] = live[from(n)]
    <3> DEFINE a == SubSeq(live, 1, j - 1) b == SubSeq(live, j + 1, N)
    <3>1. new = a \o b
      BY <1>5 DEF RemoveAt
    <3>2. j \in 1..N
      BY <1>1
    <3>3. a \in Seq(D) /\ Len(a) = j - 1 /\ \A n \in 1..j - 1 : a[n] = live[n]
      <4> HIDE DEF D, N
      <4> QED BY <1>1, <3>2 DEF D, N
    <3>4. b \in Seq(D) /\ Len(b) = N - j /\ \A n \in 1..N - j : b[n] = live[j + n]
      <4> HIDE DEF D, N
      <4> QED BY <1>1, <3>2 DEF D, N
    <3> HIDE DEF a, b, D, N
    <3>5. new \in Seq(D) /\ Len(new) = N - 1
      <4>1. new \in Seq(D)
        BY <3>1, <3>3, <3>4, ConcatMembers
      <4>2. Len(new) = Len(a) + Len(b)
        BY <3>1, <3>3, <3>4, ConcatProperties
      <4> QED BY <1>1, <3>2, <3>3, <3>4, <4>1, <4>2
    <3>6. ASSUME NEW n \in 1..N - 1 PROVE new[n] = live[from(n)]
      <4>1. new[n] = IF n <= j - 1 THEN a[n] ELSE b[n - (j - 1)]
        <5>1. n \in 1..Len(a) + Len(b)
          BY <1>1, <3>2, <3>3, <3>4
        <5>2. new[n] = IF n <= Len(a) THEN a[n] ELSE b[n - Len(a)]
          BY <3>1, <3>3, <3>4, <5>1, ConcatProperties
        <5> QED BY <3>3, <5>2
      <4>2. CASE n < j
        BY <1>1, <3>2, <3>3, <4>1, <4>2
      <4>3. CASE ~ (n < j)
        <5>1. n - (j - 1) \in 1..N - j /\ j + (n - (j - 1)) = n + 1
          BY <1>1, <3>2, <4>3
        <5>2. new[n] = b[n - (j - 1)]
          BY <1>1, <3>2, <4>1, <4>3
        <5> QED BY <3>4, <4>3, <5>1, <5>2
      <4> QED BY <4>2, <4>3
    <3> QED BY <3>5, <3>6
  <2>2. \A n \in 1..N - 1 : from(n) \in 1..N
    BY <1>1
  <2>3. \A k, n \in 1..N - 1 : k # n => from(k) # from(n)
    BY <1>1
  <2> HIDE DEF D, from
  <2>4. DOMAIN new = 1..N - 1 /\ IsSeq(new) /\ ToSet(new) \subseteq D
    BY <1>1, <2>1, SeqOfMembers
  <2>5. \A k, n \in DOMAIN new : k # n /\ new[k].name = new[n].name => new[n].name = Hand
    <3> SUFFICES ASSUME NEW k \in 1..N - 1, NEW n \in 1..N - 1, k # n, new[k].name = new[n].name
                 PROVE  new[n].name = Hand
      BY <2>4
    <3>1. from(k) \in DOMAIN live /\ from(n) \in DOMAIN live /\ from(k) # from(n)
      BY <1>1, <2>2, <2>3
    <3>2. new[k] = live[from(k)] /\ new[n] = live[from(n)]
      BY <2>1
    <3> QED BY <3>1, <3>2 DEF LiveMenu
  <2>6. \A r \in ToSet(new) : r \in ToSet(live)
    BY <2>4 DEF D
  <2> QED BY <2>4, <2>5, <2>6 DEF LiveMenu
<1> QED BY <1>3, <1>4, <1>5 DEF Edits

-----------------------------------------------------------------------------
(* The invariant: what is held.                                            *)

\* A sequence that is not empty, by its head and its tail.
LEMMA HeadTail ==
  ASSUME NEW q, IsSeq(q), q # <<>>
  PROVE  /\ Head(q) \in ToSet(q) /\ IsSeq(Tail(q)) /\ ToSet(q) = {Head(q)} \cup ToSet(Tail(q))
         /\ (Len(q) = 1 => Tail(q) = <<>>) /\ (Len(q) # 1 => Tail(q) # <<>>)
         /\ Len(q) \in Nat \ {0} /\ DOMAIN q = 1..Len(q) /\ DOMAIN Tail(q) = 1..Len(q) - 1
         /\ Head(q) = q[1] /\ \A n \in 1..Len(q) - 1 : Tail(q)[n] = q[n + 1]
<1> DEFINE D == ToSet(q) t == Tail(q) N == Len(q)
<1>1. q \in Seq(D)
  BY DEF IsSeq
<1> HIDE DEF D
<1>2. N \in Nat \ {0} /\ DOMAIN q = 1..N /\ Head(q) = q[1]
  BY <1>1
<1>3. t \in Seq(D) /\ Len(t) = N - 1 /\ DOMAIN t = 1..N - 1 /\ \A n \in 1..N - 1 : t[n] = q[n + 1]
  BY <1>1, <1>2
<1>4. D = {q[n] : n \in 1..N}
  BY <1>2 DEF D, ToSet
<1>5. ToSet(t) = {t[n] : n \in 1..N - 1}
  BY <1>3 DEF ToSet
<1>6. IsSeq(t)
  BY <1>3, SeqOfMembers
<1> HIDE DEF N, t
<1>7. (N = 1 => t = <<>>) /\ (N # 1 => t # <<>>)
  <2>1. t = <<>> <=> Len(t) = 0
    BY <1>3, EmptySeq
  <2> QED BY <1>2, <1>3, <2>1
<1>8. D = {q[1]} \cup ToSet(t)
  <2>1. 1..N = {1} \cup {n + 1 : n \in 1..N - 1}
    <3>1. \A n \in 1..N : n = 1 \/ (n - 1 \in 1..N - 1 /\ n = (n - 1) + 1)
      BY <1>2
    <3>2. \A n \in 1..N - 1 : n + 1 \in 1..N
      BY <1>2
    <3>3. 1 \in 1..N
      BY <1>2
    <3> QED BY <3>1, <3>2, <3>3
  <2> QED BY <1>3, <1>4, <1>5, <2>1
<1>9. q[1] \in D
  BY <1>8
<1> QED BY <1>2, <1>3, <1>6, <1>7, <1>8, <1>9 DEF D, t, N

\* What the controller and the router hold.
Held ==
  /\ intent \in Intents /\ goal \in Intents
  /\ Live(menus) /\ Live(base)
  /\ pc \in {"idle", "read", "planned", "push", "done"}
  /\ edited \in {"no", "before", "since"}
  /\ IsSeq(ops)
  /\ (pc \in {"planned", "push"} => ops # <<>> /\ \A o \in ToSet(ops) : OpOf(goal, skipped, o))
  /\ (pc = "push" => Foreign(base) = Foreign(menus))

\* The plan of an apply, in the state that it is made for.
LEMMA PlanStep ==
  ASSUME Held, NEW lost, PlanWithout(lost)
  PROVE  /\ PlanOf(goal, lost, menus, ops') /\ skipped' = lost
         /\ UNCHANGED <<intent, menus, goal, base>>
         /\ pc' = (IF ops' = <<>> THEN "done" ELSE "planned")
         /\ edited' = (CASE ops' = <<>> -> "no" [] edited = "since" -> "before" [] OTHER -> edited)
<1> DEFINE dev == Rendering[goal]
           secs == Only(dev, {s \in ToSet(dev) : s.path \notin lost})
<1>1. goal \in Intents /\ IsIntent(goal) /\ Live(menus)
  BY IntentAssumption DEF Held
<1>2. dev = render_device(goal)
  BY <1>1 DEF Rendering
<1>3. ops' = PlanOps(secs, menus) /\ skipped' = lost /\ UNCHANGED <<intent, menus, goal, base>>
      /\ pc' = (IF PlanOps(secs, menus) = <<>> THEN "done" ELSE "planned")
      /\ edited' = (CASE PlanOps(secs, menus) = <<>> -> "no" [] edited = "since" -> "before" [] OTHER -> edited)
  BY DEF PlanWithout
<1> HIDE DEF dev
<1>4. secs = Only(dev, {s \in ToSet(dev) : s.path \notin lost})
  OBVIOUS
<1> HIDE DEF secs
<1>5. Planned(goal, lost, secs)
  BY <1>1, <1>2, <1>4, PlannedSections
<1>6. PlanOf(goal, lost, menus, PlanOps(secs, menus))
  BY <1>1, <1>5, PlanMade
<1> QED BY <1>3, <1>6

\* The operations of a plan, without the router that it was made for.
LEMMA PlanOpsOf ==
  ASSUME NEW i, NEW lost, NEW m, NEW plan, PlanOf(i, lost, m, plan)
  PROVE  IsSeq(plan) /\ \A o \in ToSet(plan) : OpOf(i, lost, o)
<1>1. \A o \in ToSet(plan) : OpFor(i, lost, m, o)
  BY DEF PlanOf
<1>2. \A o : OpFor(i, lost, m, o) => OpOf(i, lost, o)
  BY DEF OpFor, OpOf
<1> QED BY <1>1, <1>2 DEF PlanOf

\* The first part of the invariant holds at the beginning.
LEMMA HeldInit == Init => Held
<1> SUFFICES ASSUME Init PROVE Held
  OBVIOUS
<1>1. intent \in Intents /\ goal \in Intents
  BY DEF Init
<1>2. Live(menus) /\ Live(base)
  BY FactoryLive DEF Init
<1>3. IsSeq(ops)
  BY Tuples DEF Init
<1> QED BY <1>1, <1>2, <1>3 DEF Init, Held

\* Every action of the controller, of the push and of people preserves it.
LEMMA HeldNext == Held /\ [Next]_vars => Held'
<1> SUFFICES ASSUME Held, [Next]_vars PROVE Held'
  OBVIOUS
<1> USE DEF Held
<1>1. CASE Render
  BY <1>1 DEF Render
<1>2. ASSUME NEW lost, PlanWithout(lost) PROVE Held'
  <2>1. /\ PlanOf(goal, lost, menus, ops') /\ skipped' = lost
        /\ UNCHANGED <<intent, menus, goal, base>>
        /\ pc' = (IF ops' = <<>> THEN "done" ELSE "planned")
        /\ edited' = (CASE ops' = <<>> -> "no" [] edited = "since" -> "before" [] OTHER -> edited)
    BY <1>2, PlanStep
  <2>2. IsSeq(ops') /\ \A o \in ToSet(ops') : OpOf(goal, lost, o)
    BY <2>1, PlanOpsOf
  <2> QED BY <2>1, <2>2
<1>3. CASE Plan
  BY <1>2, <1>3 DEF Plan
<1>4. CASE PlanUnread
  <2>1. PICK s \in ToSet(Rendering[goal]) :
          IF s.items = <<>> THEN PlanWithout({s.path})
          ELSE /\ pc' = "idle" /\ UNCHANGED <<intent, menus, goal, skipped, ops, base, edited>>
    BY <1>4 DEF PlanUnread
  <2>2. CASE PlanWithout({s.path})
    BY <1>2, <2>2
  <2>3. CASE ~ PlanWithout({s.path})
    BY <2>1, <2>3
  <2> QED BY <2>2, <2>3
<1>5. CASE StartPush
  BY <1>5 DEF StartPush
<1>6. ASSUME pc = "push" PROVE /\ OpOf(goal, skipped, Head(ops)) /\ Head(ops) \in ToSet(ops)
                               /\ Foreign(Effect(menus, Head(ops))) = Foreign(menus)
                               /\ (Accepts(menus, Head(ops)) => Live(Effect(menus, Head(ops))))
  <2>1. Head(ops) \in ToSet(ops)
    BY <1>6, HeadTail
  <2>2. OpOf(goal, skipped, Head(ops)) /\ goal \in Intents /\ Live(menus)
    BY <1>6, <2>1
  <2>3. Foreign(Effect(menus, Head(ops))) = Foreign(menus)
    BY <2>2, EffectForeign
  <2>4. Accepts(menus, Head(ops)) => Live(Effect(menus, Head(ops)))
    BY <2>2, EffectLive
  <2> QED BY <2>1, <2>2, <2>3, <2>4
<1>7. CASE PushOp
  <2>1. pc = "push" /\ Live(menus') /\ Foreign(menus') = Foreign(menus) /\ ops' = Tail(ops)
        /\ UNCHANGED <<intent, goal, skipped, base>> /\ pc' = (IF Len(ops) = 1 THEN "done" ELSE "push")
        /\ edited' \in {"no", edited}
    BY <1>6, <1>7 DEF PushOp
  <2>2. IsSeq(Tail(ops)) /\ ToSet(Tail(ops)) \subseteq ToSet(ops) /\ (Len(ops) # 1 => Tail(ops) # <<>>)
    BY <2>1, HeadTail
  <2>3. Foreign(base)' = Foreign(menus)'
    <3>1. Foreign(base)' = Foreign(base) /\ Foreign(menus)' = Foreign(menus')
      BY <2>1 DEF Foreign
    <3> QED BY <2>1, <3>1
  <2>4. Live(base)' /\ Live(menus)'
    BY <2>1 DEF Live
  <2> QED BY <2>1, <2>2, <2>3, <2>4
<1>8. CASE PushFails
  <2>1. pc = "push" /\ menus' \in {menus, Effect(menus, Head(ops)), base} /\ Live(menus')
    BY <1>6, <1>8 DEF PushFails
  <2>2. IsSeq(<<>>)
    BY Tuples
  <2>3. Live(menus)' /\ Live(base)'
    BY <1>8, <2>1 DEF PushFails, Live
  <2> QED BY <1>8, <2>2, <2>3 DEF PushFails
<1>9. CASE ChangeIntent
  BY <1>9 DEF ChangeIntent
<1>10. CASE EditByHand
  <2>5. PICK p \in Paths : \E live \in Edits(menus[p]) : menus' = [menus EXCEPT ![p] = live]
    BY <1>10 DEF EditByHand
  <2>1. PICK live \in Edits(menus[p]) : menus' = [menus EXCEPT ![p] = live]
    BY <2>5
  <2>2. LiveMenu(p, live)
    BY <2>1, EditsLive DEF Live
  <2>3. Live(menus')
    BY <2>1, <2>2 DEF Live
  <2>4. Live(menus)' /\ Live(base)'
    BY <1>10, <2>3 DEF EditByHand, Live
  <2> QED BY <1>10, <2>4 DEF EditByHand
<1>11. CASE UNCHANGED vars
  BY <1>11 DEF vars, Live, Foreign
<1> QED BY <1>1, <1>3, <1>4, <1>5, <1>7, <1>8, <1>9, <1>10, <1>11 DEF Next

\* Always, the router holds of each name of the controller's one row that some
\* intent asked for, and what is left of a plan is made of operations for the
\* intent at hand.
THEOREM HeldAlways == Spec => []Held
<1> QED BY HeldInit, HeldNext, PTL DEF Spec

\* diff.py's promise, for any intents, links and troubles: no push and no
\* failed push, restore included, changes, removes or reorders a row that
\* people wrote.
THEOREM ForeignUntouchedHolds == Spec => ForeignUntouched
<1>1. Held /\ [Next]_vars => [pc = "push" => Foreign(menus') = Foreign(menus)]_vars
  <2> SUFFICES ASSUME Held, Next, pc = "push" PROVE Foreign(menus') = Foreign(menus)
    BY DEF vars, Foreign
  <2>1. Head(ops) \in ToSet(ops) /\ goal \in Intents /\ Live(menus) /\ Foreign(base) = Foreign(menus)
    BY HeadTail DEF Held
  <2>2. Foreign(Effect(menus, Head(ops))) = Foreign(menus)
    <3>1. OpOf(goal, skipped, Head(ops))
      BY <2>1 DEF Held
    <3> QED BY <2>1, <3>1, EffectForeign
  <2>3. menus' \in {menus, Effect(menus, Head(ops)), base}
    BY DEF Next, Render, Plan, PlanUnread, StartPush, PushOp, PushFails, ChangeIntent, EditByHand
  <2> QED BY <2>1, <2>2, <2>3
<1> QED BY <1>1, HeldAlways, PTL DEF Spec, ForeignUntouched

-----------------------------------------------------------------------------
(* The order of a plan, and what rows refer to.                            *)

\* HasNamed, without positions.
LEMMA NamedRows == \A live, name : HasNamed(live, name) <=> \E r \in ToSet(live) : r.name = name
BY DEF HasNamed, ToSet

\* After an operation, a row of a name is there that was there, but for the
\* name that a removal is about.
LEMMA NamesAfter ==
  ASSUME NEW o, o.kind \in {"add", "set", "remove"}, NEW live, IsSeq(live), NEW name
  PROVE  HasNamed(MenuAfter(live, o), name)
           <=> (IF o.kind = "add" THEN name = o.row.name \/ HasNamed(live, name)
                ELSE IF o.kind = "set" THEN HasNamed(live, name)
                ELSE name # o.row.name /\ HasNamed(live, name))
<1> DEFINE L == ToSet(live) A == ToSet(MenuAfter(live, o))
<1>1. A = CASE o.kind = "add"    -> L \cup {o.row}
            [] o.kind = "set"    -> {r \in L : r.name # o.row.name} \cup (IF HasNamed(live, o.row.name) THEN {o.row} ELSE {})
            [] o.kind = "remove" -> {r \in L : r.name # o.row.name}
  BY MenuAfterRows
<1>2. HasNamed(MenuAfter(live, o), name) <=> \E r \in A : r.name = name
  BY NamedRows
<1>3. \A w : HasNamed(live, w) <=> \E r \in L : r.name = w
  BY NamedRows
<1> HIDE DEF A, L
<1>4. CASE o.kind = "add"
  BY <1>1, <1>2, <1>3, <1>4
<1>5. CASE o.kind = "set"
  <2>1. A = {r \in L : r.name # o.row.name} \cup (IF HasNamed(live, o.row.name) THEN {o.row} ELSE {})
    BY <1>1, <1>5
  <2>2. CASE name = o.row.name
    BY <1>2, <1>3, <1>5, <2>1, <2>2
  <2>3. CASE name # o.row.name
    BY <1>2, <1>3, <1>5, <2>1, <2>3
  <2> QED BY <2>2, <2>3
<1>6. CASE o.kind = "remove"
  BY <1>1, <1>2, <1>3, <1>6
<1> QED BY <1>4, <1>5, <1>6

\* The rows whose names are asked for refer to what they are asked to refer to,
\* or are still to be written; what goes, goes last.
RefersRight(i, m, plan) ==
  \A p \in Paths : \A r \in ToSet(m[p]) : r.name \in Names(i, p) =>
     (\E a \in AskedOf(i, p) : a.name = r.name /\ a.refs = r.refs) \/ WritesRow(plan, p, r.name)

Unread(i, lost) == \A p \in Paths : p \in lost => AskedOf(i, p) = {}

Orderly ==
  pc \in {"planned", "push"} => Unread(goal, skipped) /\ RemovesLast(ops) /\ RefersRight(goal, menus, ops)

\* A section without rows is one of a menu that nothing is asked for in.
LEMMA SkippedEmpty ==
  ASSUME NEW i \in Intents, NEW s \in ToSet(render_device(i)), s.items = <<>>
  PROVE  Unread(i, {s.path})
<1> DEFINE dev == render_device(i) p == s.path
<1>1. Device(i, dev)
  BY DeviceRendered, IntentAssumption
<1> HIDE DEF dev
<1>2. PICK n \in DOMAIN dev : s = dev[n]
  BY DEF ToSet, dev
<1>3. p \in Paths /\ s = SectionOf(i, p)
  BY <1>1, <1>2 DEF Device
<1>4. ToSet(s.items) = AskedOf(i, p)
  <2> HIDE DEF p
  <2> QED BY <1>3, SectionTyped, IntentAssumption
<1> QED BY <1>4, EmptyMembers DEF Unread

\* A plan is orderly when it is made.
LEMMA PlanOrderly ==
  ASSUME NEW i \in Intents, NEW lost, NEW m, NEW plan, PlanOf(i, lost, m, plan), Unread(i, lost)
  PROVE  RemovesLast(plan) /\ RefersRight(i, m, plan)
<1>1. RemovesLast(plan)
  BY DEF PlanOf
<1>2. ASSUME NEW p \in Paths, NEW r \in ToSet(m[p]), r.name \in Names(i, p)
      PROVE  (\E a \in AskedOf(i, p) : a.name = r.name /\ a.refs = r.refs) \/ WritesRow(plan, p, r.name)
  <2>1. p \notin lost
    BY <1>2 DEF Unread, Names
  <2>2. Covers(i, p, m[p], plan)
    BY <2>1 DEF PlanOf
  <2> QED BY <1>2, <2>2 DEF Covers
<1> QED BY <1>1, <1>2 DEF RefersRight

\* The rest of a plan still writes what its first operation does not.
LEMMA RestWrites ==
  ASSUME NEW plan, IsSeq(plan), plan # <<>>, NEW p, NEW name, WritesRow(plan, p, name)
  PROVE  \/ Head(plan).kind # "remove" /\ Head(plan).path = p /\ Head(plan).row.name = name
         \/ WritesRow(Tail(plan), p, name)
<1>1. ToSet(plan) = {Head(plan)} \cup ToSet(Tail(plan))
  BY HeadTail
<1> QED BY <1>1 DEF WritesRow

\* What follows a removal is a removal.
LEMMA RestRemoves ==
  ASSUME NEW plan, IsSeq(plan), plan # <<>>, RemovesLast(plan)
  PROVE  /\ RemovesLast(Tail(plan))
         /\ (Head(plan).kind = "remove" => \A p, name : ~ WritesRow(plan, p, name))
<1>1. /\ Len(plan) \in Nat \ {0} /\ DOMAIN plan = 1..Len(plan) /\ DOMAIN Tail(plan) = 1..Len(plan) - 1
      /\ Head(plan) = plan[1] /\ \A n \in 1..Len(plan) - 1 : Tail(plan)[n] = plan[n + 1]
  BY HeadTail
<1> DEFINE N == Len(plan) t == Tail(plan)
<1> HIDE DEF N, t
<1>2. N \in Nat \ {0} /\ DOMAIN plan = 1..N /\ DOMAIN t = 1..N - 1 /\ \A n \in 1..N - 1 : t[n] = plan[n + 1]
  BY <1>1 DEF N, t
<1>3. RemovesLast(t)
  <2> SUFFICES ASSUME NEW k \in 1..N - 1, NEW n \in 1..N - 1, k < n, t[k].kind = "remove"
               PROVE  t[n].kind = "remove"
    BY <1>2 DEF RemovesLast
  <2>1. k + 1 \in 1..N /\ n + 1 \in 1..N /\ k + 1 < n + 1
    BY <1>2
  <2> QED BY <1>2, <2>1 DEF RemovesLast
<1>4. ASSUME Head(plan).kind = "remove" PROVE \A o \in ToSet(plan) : o.kind = "remove"
  <2> SUFFICES ASSUME NEW n \in 1..N PROVE plan[n].kind = "remove"
    BY <1>2 DEF ToSet
  <2>1. CASE n = 1
    BY <1>1, <1>4, <2>1
  <2>2. CASE n # 1
    <3>1. 1 \in 1..N /\ 1 < n
      BY <1>2, <2>2
    <3> QED BY <1>1, <1>2, <1>4, <3>1 DEF RemovesLast
  <2> QED BY <2>1, <2>2
<1> QED BY <1>3, <1>4 DEF WritesRow, t

\* An operation that the router takes leaves the rest of its plan in order.
LEMMA OrderlyOp ==
  ASSUME NEW i \in Intents, NEW lost, NEW m, Live(m), NEW plan, IsSeq(plan), plan # <<>>,
         OpOf(i, lost, Head(plan)), Accepts(m, Head(plan)), RefersRight(i, m, plan)
  PROVE  RefersRight(i, Effect(m, Head(plan)), Tail(plan))
<1> DEFINE o == Head(plan) e == Effect(m, o) q == o.path live == m[q] new == MenuAfter(live, o)
<1>1. q \in Paths /\ o.kind \in {"add", "set", "remove"}
  BY DEF OpOf
<1>2. e[q] = new /\ \A p \in Paths : p # q => e[p] = m[p]
  BY <1>1, EffectOf DEF Live
<1>3. IsSeq(live)
  BY <1>1 DEF Live, LiveMenu
<1>4. ToSet(new) =
           CASE o.kind = "add"    -> ToSet(live) \cup {o.row}
             [] o.kind = "set"    -> {r \in ToSet(live) : r.name # o.row.name}
                                       \cup (IF HasNamed(live, o.row.name) THEN {o.row} ELSE {})
             [] o.kind = "remove" -> {r \in ToSet(live) : r.name # o.row.name}
  <2> HIDE DEF live, o
  <2> QED BY <1>1, <1>3, MenuAfterRows
<1>5. o.kind = "add" => ~ HasNamed(live, o.row.name)
  BY AtNamed DEF Accepts
<1>6. o.kind # "remove" => o.row \in AskedOf(i, q)
  BY DEF OpOf
<1>7. \A p, name : WritesRow(plan, p, name) =>
         (o.kind # "remove" /\ q = p /\ o.row.name = name) \/ WritesRow(Tail(plan), p, name)
  BY RestWrites
<1>8. \A r \in ToSet(live) : r.name \in Names(i, q) =>
         (\E a \in AskedOf(i, q) : a.name = r.name /\ a.refs = r.refs) \/ WritesRow(plan, q, r.name)
  BY <1>1 DEF RefersRight
<1> HIDE DEF o, e, q, live, new
<1>9. ASSUME NEW r \in ToSet(new), r.name \in Names(i, q)
      PROVE  (\E a \in AskedOf(i, q) : a.name = r.name /\ a.refs = r.refs) \/ WritesRow(Tail(plan), q, r.name)
  <2>1. CASE r = o.row /\ o.kind # "remove"
    BY <1>6, <2>1
  <2>2. CASE r \in ToSet(live) /\ ~ (o.kind # "remove" /\ o.row.name = r.name)
    BY <1>7, <1>8, <1>9, <2>2
  <2>3. CASE r \in ToSet(live) /\ o.kind # "remove" /\ o.row.name = r.name /\ r # o.row
    <3>1. HasNamed(live, o.row.name)
      BY <2>3, NamedRows
    <3>2. o.kind = "set"
      BY <1>1, <1>5, <2>3, <3>1
    <3> QED BY <1>4, <1>9, <2>3, <3>2
  <2>4. r \in ToSet(live) \/ (r = o.row /\ o.kind # "remove")
    BY <1>1, <1>4, <1>9
  <2> QED BY <2>1, <2>2, <2>3, <2>4
<1>10. ASSUME NEW p \in Paths, p # q, NEW r \in ToSet(m[p]), r.name \in Names(i, p)
       PROVE  (\E a \in AskedOf(i, p) : a.name = r.name /\ a.refs = r.refs) \/ WritesRow(Tail(plan), p, r.name)
  BY <1>7, <1>10 DEF RefersRight
<1>11. RefersRight(i, e, Tail(plan))
  BY <1>2, <1>9, <1>10 DEF RefersRight
<1> QED BY <1>11 DEF e, o

\* The second part of the invariant holds at the beginning.
LEMMA OrderlyInit == Init => Orderly
BY DEF Init, Orderly

\* Without unread menus, nothing that is asked for is unread.
LEMMA UnreadNone == \A i : Unread(i, {})
BY DEF Unread

\* What the two ways of planning have in common.
LEMMA PlansRead ==
  ASSUME Held, Plan \/ PlanUnread
  PROVE  \/ /\ PlanOf(goal, skipped', menus, ops') /\ Unread(goal, skipped')
            /\ UNCHANGED <<intent, menus, goal, base>>
            /\ pc' = (IF ops' = <<>> THEN "done" ELSE "planned")
            /\ edited' = (CASE ops' = <<>> -> "no" [] edited = "since" -> "before" [] OTHER -> edited)
         \/ pc' = "idle" /\ UNCHANGED <<intent, menus, goal, skipped, ops, base, edited>>
<1>1. ASSUME NEW lost, PlanWithout(lost), Unread(goal, lost)
      PROVE  /\ PlanOf(goal, skipped', menus, ops') /\ Unread(goal, skipped')
             /\ UNCHANGED <<intent, menus, goal, base>>
             /\ pc' = (IF ops' = <<>> THEN "done" ELSE "planned")
             /\ edited' = (CASE ops' = <<>> -> "no" [] edited = "since" -> "before" [] OTHER -> edited)
  <2>1. /\ PlanOf(goal, lost, menus, ops') /\ skipped' = lost
        /\ UNCHANGED <<intent, menus, goal, base>>
        /\ pc' = (IF ops' = <<>> THEN "done" ELSE "planned")
        /\ edited' = (CASE ops' = <<>> -> "no" [] edited = "since" -> "before" [] OTHER -> edited)
    BY <1>1, PlanStep
  <2> QED BY <1>1, <2>1
<1>2. CASE Plan
  BY <1>1, <1>2, UnreadNone DEF Plan
<1>3. CASE PlanUnread
  <2>1. PICK s \in ToSet(Rendering[goal]) :
          IF s.items = <<>> THEN PlanWithout({s.path})
          ELSE /\ pc' = "idle" /\ UNCHANGED <<intent, menus, goal, skipped, ops, base, edited>>
    BY <1>3 DEF PlanUnread
  <2>2. CASE s.items = <<>>
    <3>1. goal \in Intents /\ Rendering[goal] = render_device(goal)
      BY DEF Held, Rendering
    <3>2. Unread(goal, {s.path})
      BY <2>2, <3>1, SkippedEmpty
    <3> QED BY <1>1, <2>1, <2>2, <3>2
  <2>3. CASE s.items # <<>>
    BY <2>1, <2>3
  <2> QED BY <2>2, <2>3
<1> QED BY <1>2, <1>3

\* The rows of the controller's after an edit by hand are, by their names and
\* references, among those before it.
LEMMA EditedRows ==
  ASSUME Held, EditByHand
  PROVE  /\ Live(menus')
         /\ \A p \in Paths : \A r \in ToSet(menus'[p]) : r.name # Hand =>
               \E q \in ToSet(menus[p]) : q.name = r.name /\ q.refs = r.refs
<1>1. PICK p \in Paths : \E live \in Edits(menus[p]) : menus' = [menus EXCEPT ![p] = live]
  BY DEF EditByHand
<1>2. PICK live \in Edits(menus[p]) : menus' = [menus EXCEPT ![p] = live]
  BY <1>1
<1>3. Live(menus)
  BY DEF Held
<1>4. /\ LiveMenu(p, live)
      /\ \A r \in ToSet(live) : r.name # Hand => \E q \in ToSet(menus[p]) : q.name = r.name /\ q.refs = r.refs
  BY <1>2, <1>3, EditsLive DEF Live
<1>5. menus'[p] = live /\ DOMAIN menus' = Paths /\ \A q \in Paths : q # p => menus'[q] = menus[q]
  BY <1>2, <1>3 DEF Live
<1>6. Live(menus')
  BY <1>3, <1>4, <1>5 DEF Live
<1> QED BY <1>4, <1>5, <1>6

\* Nobody asks for a row by the name of those that people wrote.
LEMMA NamesNotHand == ASSUME NEW i \in Intents, NEW p PROVE Hand \notin Names(i, p)
BY AskedIsGood, IntentAssumption DEF Names

\* Every action preserves it, given the first.
LEMMA OrderlyNext == Held /\ Orderly /\ [Next]_vars => Orderly'
<1> SUFFICES ASSUME Held, Orderly, [Next]_vars PROVE Orderly'
  OBVIOUS
<1>0. goal \in Intents /\ Live(menus)
  BY DEF Held
<1>1. CASE Render
  BY <1>1 DEF Render, Orderly
<1>2. CASE Plan \/ PlanUnread
  <2>1. CASE pc' = "idle"
    BY <2>1 DEF Orderly
  <2>2. CASE pc' # "idle"
    <3>1. PlanOf(goal, skipped', menus, ops') /\ Unread(goal, skipped') /\ UNCHANGED <<menus, goal>>
      BY <1>2, <2>2, PlansRead
    <3>2. RemovesLast(ops') /\ RefersRight(goal, menus, ops')
      BY <1>0, <3>1, PlanOrderly
    <3>3. RemovesLast(ops)' /\ RefersRight(goal, menus, ops)' /\ Unread(goal, skipped)'
      BY <3>1, <3>2 DEF RemovesLast, RefersRight, Unread, WritesRow
    <3> QED BY <3>3 DEF Orderly
  <2> QED BY <2>1, <2>2
<1>3. CASE StartPush
  BY <1>3 DEF StartPush, Orderly, RemovesLast, RefersRight, Unread, WritesRow
<1>4. CASE PushOp
  <2>1. /\ pc = "push" /\ Accepts(menus, Head(ops)) /\ menus' = Effect(menus, Head(ops)) /\ ops' = Tail(ops)
        /\ UNCHANGED <<goal, skipped>>
    BY <1>4 DEF PushOp
  <2>2. /\ IsSeq(ops) /\ ops # <<>> /\ Unread(goal, skipped) /\ RemovesLast(ops) /\ RefersRight(goal, menus, ops)
        /\ \A o \in ToSet(ops) : OpOf(goal, skipped, o)
    BY <2>1 DEF Held, Orderly
  <2>3. OpOf(goal, skipped, Head(ops))
    BY <2>2, HeadTail
  <2>4. RefersRight(goal, Effect(menus, Head(ops)), Tail(ops))
    BY <1>0, <2>1, <2>2, <2>3, OrderlyOp
  <2>5. RemovesLast(Tail(ops))
    BY <2>2, RestRemoves
  <2>6. RemovesLast(ops)' /\ RefersRight(goal, menus, ops)' /\ Unread(goal, skipped)'
    <3>1. RemovesLast(ops') /\ RefersRight(goal, menus', ops') /\ goal' = goal /\ skipped' = skipped
      BY <2>1, <2>4, <2>5
    <3> QED BY <2>2, <3>1 DEF RemovesLast, RefersRight, Unread, WritesRow
  <2> QED BY <2>6 DEF Orderly
<1>5. CASE PushFails
  BY <1>5 DEF PushFails, Orderly
<1>6. CASE ChangeIntent
  BY <1>6 DEF ChangeIntent, Orderly, RemovesLast, RefersRight, Unread, WritesRow
<1>7. CASE EditByHand
  <2>1. UNCHANGED <<goal, skipped, ops>> /\ (pc' \in {"planned", "push"} => pc \in {"planned", "push"})
    BY <1>7 DEF EditByHand
  <2> SUFFICES ASSUME pc \in {"planned", "push"} PROVE (Unread(goal, skipped) /\ RemovesLast(ops) /\ RefersRight(goal, menus, ops))'
    BY <2>1 DEF Orderly
  <2>2. Unread(goal, skipped) /\ RemovesLast(ops) /\ RefersRight(goal, menus, ops)
    BY DEF Orderly
  <2>3. RefersRight(goal, menus', ops)
    <3> SUFFICES ASSUME NEW p \in Paths, NEW r \in ToSet(menus'[p]), r.name \in Names(goal, p)
                 PROVE  (\E a \in AskedOf(goal, p) : a.name = r.name /\ a.refs = r.refs) \/ WritesRow(ops, p, r.name)
      BY DEF RefersRight
    <3>1. r.name # Hand
      BY <1>0, NamesNotHand
    <3>2. PICK q \in ToSet(menus[p]) : q.name = r.name /\ q.refs = r.refs
      BY <1>7, <3>1, EditedRows
    <3> QED BY <2>2, <3>2 DEF RefersRight
  <2> QED BY <2>1, <2>2, <2>3 DEF RemovesLast, RefersRight, Unread, WritesRow
<1>8. CASE UNCHANGED vars
  BY <1>8 DEF vars, Orderly, RemovesLast, RefersRight, Unread, WritesRow
<1> QED BY <1>1, <1>2, <1>3, <1>4, <1>5, <1>6, <1>7, <1>8 DEF Next

\* Always, while a plan is carried out, the rows that stay refer to what is
\* asked for or are still to be written, and what goes, goes last.
THEOREM OrderlyAlways == Spec => []Orderly
<1> QED BY HeldAlways, OrderlyInit, OrderlyNext, PTL DEF Spec

\* What an operation of a plan leaves a row to refer to.
LEMMA StillResolved ==
  ASSUME NEW i \in Intents, NEW lost, NEW m, Live(m), NEW plan, IsSeq(plan), plan # <<>>,
         OpOf(i, lost, Head(plan)), RemovesLast(plan), RefersRight(i, m, plan),
         NEW p \in Paths, NEW row \in ToSet(m[p]), Resolved(m, row), row.name \in Names(i, p)
  PROVE  Resolved(Effect(m, Head(plan)), row)
<1> DEFINE o == Head(plan) e == Effect(m, o) q == o.path
<1>1. q \in Paths /\ o.kind \in {"add", "set", "remove"}
  BY DEF OpOf
<1>2. e[q] = MenuAfter(m[q], o) /\ \A k \in Paths : k # q => e[k] = m[k]
  BY <1>1, EffectOf DEF Live
<1>3. o.kind = "remove" => o.row.name \notin Names(i, q)
  BY AskedIsGood, IntentAssumption DEF OpOf
<1>4. o.kind = "remove" => ~ WritesRow(plan, p, row.name)
  BY RestRemoves
<1>5. (\E a \in AskedOf(i, p) : a.name = row.name /\ a.refs = row.refs) \/ WritesRow(plan, p, row.name)
  BY DEF RefersRight
<1>6. \E j \in Intents : \E a \in AskedOf(j, p) : a.refs = row.refs
  <2>1. row.name # Hand
    BY NamesNotHand
  <2>2. OfController(p, row)
    BY <2>1 DEF Live, LiveMenu, HandRow
  <2>3. PICK j \in Intents : \E a \in AskedOf(j, p) : \E v \in Int : row = Row(a.name, a.refs, v, a.tag)
    BY <2>2 DEF OfController
  <2>4. PICK a \in AskedOf(j, p) : \E v \in Int : row = Row(a.name, a.refs, v, a.tag)
    BY <2>3
  <2>5. row.refs = a.refs
    BY <2>4 DEF Row
  <2> QED BY <2>5
<1> HIDE DEF o, e, q
<1>7. ASSUME NEW x \in row.refs PROVE At(e, x[1], x[2]) # {}
  <2>1. HasNamed(m[x[1]], x[2])
    BY AtNamed DEF Resolved
  <2>2. x[1] \in Paths
    BY <1>6, AskedTarget, IntentAssumption
  <2>3. CASE x[1] # q
    BY <1>2, <2>1, <2>2, <2>3, AtNamed
  <2>4. CASE x[1] = q
    <3> DEFINE live == m[q]
    <3>1. IsSeq(live)
      BY <1>1 DEF Live, LiveMenu
    <3>2. HasNamed(live, x[2])
      BY <2>1, <2>4
    <3>3. ~ (o.kind = "remove" /\ x[2] = o.row.name)
      <4> SUFFICES ASSUME o.kind = "remove", x[2] = o.row.name PROVE FALSE
        OBVIOUS
      <4>1. PICK a \in AskedOf(i, p) : a.name = row.name /\ a.refs = row.refs
        BY <1>4, <1>5
      <4>2. \E b \in AskedOf(i, x[1]) : b.name = x[2]
        BY <4>1, AskedTarget, IntentAssumption
      <4> QED BY <1>3, <2>4, <4>2 DEF Names
    <3> HIDE DEF live
    <3>4. HasNamed(MenuAfter(live, o), x[2])
      BY <1>1, <3>1, <3>2, <3>3, NamesAfter
    <3> QED BY <1>2, <2>4, <3>4, AtNamed DEF live
  <2> QED BY <2>3, <2>4
<1> QED BY <1>7 DEF Resolved, e, o

\* SectionDiff.ops' promise, for any intents, links and troubles, all
\* transports included: no operation takes from a row that stays what the row
\* refers to.
THEOREM MakeBeforeBreakHolds == Spec => MakeBeforeBreak
<1> DEFINE Kept == pc = "push" /\ menus' = Effect(menus, Head(ops)) =>
                     \A p \in Paths : \A n \in DOMAIN menus'[p] :
                        LET row == menus'[p][n]
                        IN row \in ToSet(menus[p]) /\ Resolved(menus, row)
                              /\ (\E r \in Asked[goal][p] : r.name = row.name)
                              => Resolved(menus', row)
<1>1. Held /\ Orderly /\ [Next]_vars => [Kept]_vars
  <2> SUFFICES ASSUME Held, Orderly, pc = "push", menus' = Effect(menus, Head(ops)),
                      NEW p \in Paths, NEW n \in DOMAIN menus'[p], menus'[p][n] \in ToSet(menus[p]),
                      Resolved(menus, menus'[p][n]), \E r \in Asked[goal][p] : r.name = menus'[p][n].name
               PROVE  Resolved(menus', menus'[p][n])
    OBVIOUS
  <2>1. /\ goal \in Intents /\ Live(menus) /\ IsSeq(ops) /\ ops # <<>> /\ RemovesLast(ops)
        /\ RefersRight(goal, menus, ops) /\ OpOf(goal, skipped, Head(ops))
    BY HeadTail DEF Held, Orderly
  <2> DEFINE row == menus'[p][n]
  <2>2. row.name \in Names(goal, p)
    BY <2>1, AskedIs DEF Names
  <2> HIDE DEF row
  <2>3. Resolved(Effect(menus, Head(ops)), row)
    BY <2>1, <2>2, StillResolved DEF row
  <2> QED BY <2>3 DEF row
<1> QED BY <1>1, HeldAlways, OrderlyAlways, PTL DEF Spec, MakeBeforeBreak

-----------------------------------------------------------------------------
(* A push that goes through.                                               *)

\* What a menu still lacks is written, what it should not have is removed.
AllCovered(i, lost, m, plan) == \A p \in Paths \ lost : Covers(i, p, m[p], plan)

Reaching ==
  /\ (pc \in {"planned", "push"} /\ edited # "since" => AllCovered(goal, skipped, menus, ops))
  /\ (pc = "done" /\ edited = "no" => Clean(goal, menus, Paths \ skipped))

\* The rest of a plan still removes what its first operation does not.
LEMMA RestRemovesRow ==
  ASSUME NEW plan, IsSeq(plan), plan # <<>>, NEW p, NEW name, RemovesRow(plan, p, name)
  PROVE  \/ Head(plan).kind = "remove" /\ Head(plan).path = p /\ Head(plan).row.name = name
         \/ RemovesRow(Tail(plan), p, name)
<1>1. ToSet(plan) = {Head(plan)} \cup ToSet(Tail(plan))
  BY HeadTail
<1> QED BY <1>1 DEF RemovesRow

\* An operation does its part, and what it does not is left to the rest.
LEMMA CoversOp ==
  ASSUME NEW i \in Intents, NEW lost, NEW m, Live(m), NEW plan, IsSeq(plan), plan # <<>>,
         OpOf(i, lost, Head(plan)), Accepts(m, Head(plan)), AllCovered(i, lost, m, plan)
  PROVE  AllCovered(i, lost, Effect(m, Head(plan)), Tail(plan))
<1> DEFINE o == Head(plan) e == Effect(m, o) q == o.path live == m[q] new == MenuAfter(live, o) t == Tail(plan)
<1>1. q \in Paths /\ q \notin lost /\ o.kind \in {"add", "set", "remove"}
  BY DEF OpOf
<1>2. e[q] = new /\ \A p \in Paths : p # q => e[p] = m[p]
  BY <1>1, EffectOf DEF Live
<1>3. IsSeq(live)
  BY <1>1 DEF Live, LiveMenu
<1>4. ToSet(new) =
           CASE o.kind = "add"    -> ToSet(live) \cup {o.row}
             [] o.kind = "set"    -> {r \in ToSet(live) : r.name # o.row.name}
                                       \cup (IF HasNamed(live, o.row.name) THEN {o.row} ELSE {})
             [] o.kind = "remove" -> {r \in ToSet(live) : r.name # o.row.name}
  <2> HIDE DEF live, o
  <2> QED BY <1>1, <1>3, MenuAfterRows
<1>5. (o.kind = "add" => ~ HasNamed(live, o.row.name)) /\ (o.kind = "set" => HasNamed(live, o.row.name))
  BY AtNamed DEF Accepts
<1>6. (o.kind # "remove" => o.row \in AskedOf(i, q)) /\ (o.kind = "remove" => o.row.name \notin Names(i, q))
  BY DEF OpOf
<1>7. \A p, name : WritesRow(plan, p, name) =>
         (o.kind # "remove" /\ q = p /\ o.row.name = name) \/ WritesRow(t, p, name)
  BY RestWrites
<1>8. \A p, name : RemovesRow(plan, p, name) =>
         (o.kind = "remove" /\ q = p /\ o.row.name = name) \/ RemovesRow(t, p, name)
  BY RestRemovesRow
<1>9. Covers(i, q, live, plan)
  BY <1>1 DEF AllCovered
<1> HIDE DEF o, e, q, live, new, t
<1>10. o.kind # "remove" => o.row \in ToSet(new)
  BY <1>1, <1>4, <1>5
<1>11. \A r \in ToSet(new) : (r = o.row /\ o.kind # "remove") \/ (r \in ToSet(live) /\ r.name # o.row.name)
  <2>1. o.kind = "add" => \A r \in ToSet(live) : r.name # o.row.name
    BY <1>5, NamedRows
  <2> QED BY <1>1, <1>4, <2>1
<1>12. \A r \in ToSet(live) : r.name # o.row.name => r \in ToSet(new)
  BY <1>1, <1>4
<1>13. Covers(i, q, new, t)
  <2>1. ASSUME NEW a \in AskedOf(i, q) PROVE a \in ToSet(new) \/ WritesRow(t, q, a.name)
    <3>1. CASE o.kind # "remove" /\ o.row.name = a.name
      <4>1. o.row = a
        BY <1>6, <3>1, AskedNames, IntentAssumption
      <4> QED BY <1>10, <3>1, <4>1
    <3>2. CASE ~ (o.kind # "remove" /\ o.row.name = a.name)
      <4>1. a.name # o.row.name
        BY <1>6, <3>2 DEF Names
      <4> QED BY <1>7, <1>9, <1>12, <3>2, <4>1 DEF Covers
    <3> QED BY <3>1, <3>2
  <2>2. ASSUME NEW r \in ToSet(new), r.name \in Names(i, q)
        PROVE  r \in AskedOf(i, q) \/ WritesRow(t, q, r.name)
    BY <1>6, <1>7, <1>9, <1>11, <2>2 DEF Covers
  <2>3. ASSUME NEW r \in ToSet(new), q # Profile, r.tag # <<>>, r.name \notin Names(i, q)
        PROVE  RemovesRow(t, q, r.name)
    <3>1. ~ (r = o.row /\ o.kind # "remove")
      BY <1>6, <2>3 DEF Names
    <3>2. r \in ToSet(live) /\ r.name # o.row.name
      BY <1>11, <3>1
    <3> QED BY <1>8, <1>9, <2>3, <3>2 DEF Covers
  <2> QED BY <2>1, <2>2, <2>3 DEF Covers
<1>14. ASSUME NEW p \in Paths \ lost, p # q PROVE Covers(i, p, m[p], t)
  <2>1. Covers(i, p, m[p], plan)
    BY <1>14 DEF AllCovered
  <2>2. \A name : WritesRow(plan, p, name) => WritesRow(t, p, name)
    BY <1>7, <1>14
  <2>3. \A name : RemovesRow(plan, p, name) => RemovesRow(t, p, name)
    BY <1>8, <1>14
  <2> QED BY <2>1, <2>2, <2>3 DEF Covers
<1>15. AllCovered(i, lost, e, t)
  BY <1>2, <1>13, <1>14 DEF AllCovered
<1> QED BY <1>15 DEF e, o, t

\* Where nothing is left to do, the router is as it was asked to be.
LEMMA CoveredClean ==
  ASSUME NEW i \in Intents, NEW lost, NEW m, Live(m), AllCovered(i, lost, m, <<>>)
  PROVE  Clean(i, m, Paths \ lost)
<1>1. \A p, name : ~ WritesRow(<<>>, p, name) /\ ~ RemovesRow(<<>>, p, name)
  BY EmptyMembers DEF WritesRow, RemovesRow
<1> SUFFICES ASSUME NEW p \in Paths \ lost
             PROVE  IF p = Profile THEN AskedOf(i, p) \subseteq ToSet(m[p])
                    ELSE {r \in ToSet(m[p]) : r.tag # <<>>} = AskedOf(i, p)
  BY AskedIs DEF Clean, Profile
<1>2. Covers(i, p, m[p], <<>>)
  BY DEF AllCovered
<1>3. AskedOf(i, p) \subseteq ToSet(m[p])
  BY <1>1, <1>2 DEF Covers
<1>4. ASSUME p # Profile, NEW r \in ToSet(m[p]), r.tag # <<>> PROVE r \in AskedOf(i, p)
  BY <1>1, <1>2, <1>4 DEF Covers
<1>5. ASSUME p # Profile, NEW a \in AskedOf(i, p) PROVE a.tag # <<>>
  <2>1. a = Row(a.name, a.refs, a.val, a.tag) /\ a.val \in Int
    BY AskedIsGood, IntentAssumption
  <2>2. OfController(p, a)
    BY <2>1 DEF OfController
  <2> QED BY <1>5, <2>2, OwnRows
<1> QED BY <1>3, <1>4, <1>5

\* The third part of the invariant holds at the beginning.
LEMMA ReachingInit == Init => Reaching
BY DEF Init, Reaching

\* Every action preserves it, given the first.
LEMMA ReachingNext == Held /\ Reaching /\ [Next]_vars => Reaching'
<1> SUFFICES ASSUME Held, Reaching, [Next]_vars PROVE Reaching'
  OBVIOUS
<1>0. goal \in Intents /\ Live(menus)
  BY DEF Held
<1> USE DEF Reaching
<1>1. CASE Render
  BY <1>1 DEF Render
<1>2. CASE Plan \/ PlanUnread
  <2>1. CASE pc' = "idle"
    BY <2>1
  <2>2. CASE pc' # "idle"
    <3>1. /\ PlanOf(goal, skipped', menus, ops') /\ UNCHANGED <<menus, goal>>
          /\ pc' = (IF ops' = <<>> THEN "done" ELSE "planned")
      BY <1>2, <2>2, PlansRead
    <3>2. AllCovered(goal, skipped', menus, ops')
      BY <3>1 DEF PlanOf, AllCovered
    <3>3. CASE ops' = <<>>
      <4>1. Clean(goal, menus, Paths \ skipped')
        BY <1>0, <3>2, <3>3, CoveredClean
      <4>2. Clean(goal', menus', Paths \ skipped')
        BY <3>1, <4>1
      <4> QED BY <3>1, <3>3, <4>2
    <3>4. CASE ops' # <<>>
      <4>1. AllCovered(goal', skipped', menus', ops')
        BY <3>1, <3>2
      <4>2. AllCovered(goal, skipped, menus, ops)'
        BY <4>1 DEF AllCovered, Covers, WritesRow, RemovesRow
      <4> QED BY <3>1, <3>4, <4>2
    <3> QED BY <3>3, <3>4
  <2> QED BY <2>1, <2>2
<1>3. CASE StartPush
  BY <1>3 DEF StartPush, AllCovered, Covers, WritesRow, RemovesRow
<1>4. CASE PushOp
  <2>1. /\ pc = "push" /\ Accepts(menus, Head(ops)) /\ menus' = Effect(menus, Head(ops)) /\ ops' = Tail(ops)
        /\ UNCHANGED <<goal, skipped>> /\ pc' = (IF Len(ops) = 1 THEN "done" ELSE "push")
        /\ (edited = "since" => edited' = "since")
    BY <1>4 DEF PushOp
  <2>2. CASE edited = "since"
    BY <2>1, <2>2
  <2>3. CASE edited # "since"
    <3>1. IsSeq(ops) /\ ops # <<>> /\ OpOf(goal, skipped, Head(ops)) /\ AllCovered(goal, skipped, menus, ops)
      BY <2>1, <2>3, HeadTail DEF Held
    <3>2. AllCovered(goal, skipped, menus', ops') /\ Live(menus')
      BY <1>0, <2>1, <3>1, CoversOp, EffectLive
    <3>3. CASE Len(ops) = 1
      <4>1. ops' = <<>>
        BY <2>1, <3>1, <3>3, HeadTail
      <4>2. Clean(goal, menus', Paths \ skipped)
        BY <1>0, <3>2, <4>1, CoveredClean
      <4>3. Clean(goal', menus', Paths \ skipped')
        BY <2>1, <4>2
      <4> QED BY <2>1, <3>3, <4>3
    <3>4. CASE Len(ops) # 1
      <4>1. AllCovered(goal, skipped, menus, ops)'
        BY <2>1, <3>2 DEF AllCovered, Covers, WritesRow, RemovesRow
      <4> QED BY <2>1, <3>4, <4>1
    <3> QED BY <3>3, <3>4
  <2> QED BY <2>2, <2>3
<1>5. CASE PushFails
  BY <1>5 DEF PushFails
<1>6. CASE ChangeIntent
  <2>1. UNCHANGED <<menus, goal, skipped, ops, pc, edited>>
    BY <1>6 DEF ChangeIntent
  <2> QED BY <2>1 DEF AllCovered, Covers, WritesRow, RemovesRow, Clean
<1>7. CASE EditByHand
  BY <1>7 DEF EditByHand
<1>8. CASE UNCHANGED vars
  BY <1>8 DEF vars, AllCovered, Covers, WritesRow, RemovesRow, Clean
<1> QED BY <1>1, <1>2, <1>3, <1>4, <1>5, <1>6, <1>7, <1>8 DEF Next

\* For any intents, links and troubles, all transports included: a push that
\* goes through, or a plan that finds nothing to do, leaves of the
\* controller's rows exactly those that were asked for, in every menu that was
\* read.
THEOREM CleanAfterPushHolds == Spec => []CleanAfterPush
<1>1. Reaching => CleanAfterPush
  BY DEF Reaching, CleanAfterPush
<1> QED BY <1>1, HeldAlways, ReachingInit, ReachingNext, PTL DEF Spec

-----------------------------------------------------------------------------
(* Nothing is refused.                                                     *)

AddedBefore(plan, n, x) ==
  \E k \in DOMAIN plan : k < n /\ plan[k].kind = "add" /\ plan[k].path = x[1] /\ plan[k].row.name = x[2]

\* What a router must have, or be given earlier in the plan, for each operation.
Able(m, plan) ==
  \A n \in DOMAIN plan :
    LET o == plan[n]
    IN /\ (o.kind = "add" <=> ~ HasNamed(m[o.path], o.row.name))
       /\ o.kind # "remove" => \A x \in o.row.refs : HasNamed(m[x[1]], x[2]) \/ AddedBefore(plan, n, x)

Pushable ==
  pc \in {"planned", "push"} /\ edited # "since" =>
     Able(menus, ops) /\ OnceEach(ops)

\* A menu that comes earlier by its orders is merged before.
LEMMA AheadSooner ==
  ASSUME NEW i, IsIntent(i), NEW p \in Paths, NEW q \in Paths, Ahead(q, p),
         \E t \in Parts(i) : t.path = q /\ t.order = Low(q)
  PROVE  Sooner(i, q, p)
<1>1. SectionOf(i, q).order = Low(q) /\ SectionOf(i, p).order \in Nat /\ Low(p) <= SectionOf(i, p).order
  BY SectionTyped
<1>2. PathIndex(p) = Index(p) /\ PathIndex(q) = Index(q)
  BY PathsIndexed
<1>3. Low(p) \in Nat /\ Low(q) \in Nat
  BY LowTyped
<1> DEFINE a == SectionOf(i, q).order b == SectionOf(i, p).order
<1>4. a < b \/ (a = b /\ PathIndex(q) < PathIndex(p))
  <2>1. a = Low(q) /\ b \in Nat /\ Low(p) <= b
    BY <1>1
  <2>2. Low(q) < Low(p) \/ (Low(q) = Low(p) /\ PathIndex(q) < PathIndex(p))
    BY <1>2 DEF Ahead
  <2> HIDE DEF a, b
  <2>3. CASE Low(q) < Low(p)
    BY <1>3, <2>1, <2>3
  <2>4. CASE Low(q) = Low(p) /\ PathIndex(q) < PathIndex(p)
    BY <1>3, <2>1, <2>4
  <2> QED BY <2>2, <2>3, <2>4
<1> QED BY <1>4 DEF Sooner

\* A plan gives each of its rows what the row refers to before it.
LEMMA PlanAble ==
  ASSUME NEW i \in Intents, Layer3(i), NEW lost, NEW m, Live(m), NEW plan, PlanOf(i, lost, m, plan), Unread(i, lost)
  PROVE  Able(m, plan)
<1> SUFFICES ASSUME NEW n \in DOMAIN plan
             PROVE  /\ (plan[n].kind = "add" <=> ~ HasNamed(m[plan[n].path], plan[n].row.name))
                    /\ (plan[n].kind # "remove" =>
                          \A x \in plan[n].row.refs : HasNamed(m[x[1]], x[2]) \/ AddedBefore(plan, n, x))
  BY DEF Able
<1> DEFINE o == plan[n] p == o.path
<1>1. /\ IsSeq(plan) /\ DOMAIN plan \subseteq Nat
      /\ \A k \in DOMAIN plan : OpFor(i, lost, m, plan[k])
  BY DEF PlanOf, IsSeq, ToSet
<1>2. p \in Paths /\ OpFor(i, lost, m, o)
  BY <1>1 DEF OpFor
<1>3. o.kind = "add" <=> ~ HasNamed(m[p], o.row.name)
  BY <1>2, NamedRows DEF OpFor
<1>4. ASSUME o.kind # "remove", NEW x \in o.row.refs PROVE HasNamed(m[x[1]], x[2]) \/ AddedBefore(plan, n, x)
  <2>1. o.row \in AskedOf(i, p)
    BY <1>2, <1>4 DEF OpFor
  <2> HIDE DEF o, p
  <2>2. /\ x[1] \in Paths /\ \E b \in AskedOf(i, x[1]) : b.name = x[2]
        /\ \E t \in Parts(i) : t.path = x[1] /\ t.order = Low(x[1])
        /\ Ahead(x[1], p)
    BY <1>4, <2>1, AskedTarget, IntentAssumption
  <2>3. PICK b \in AskedOf(i, x[1]) : b.name = x[2]
    BY <2>2
  <2>4. x[1] \in Paths \ lost
    BY <2>2, <2>3 DEF Unread
  <2>5. b \in ToSet(m[x[1]]) \/ WritesRow(plan, x[1], x[2])
    BY <2>3, <2>4 DEF PlanOf, Covers
  <2>6. CASE b \in ToSet(m[x[1]])
    BY <2>3, <2>6, NamedRows
  <2>7. CASE WritesRow(plan, x[1], x[2])
    <3>1. PICK w \in ToSet(plan) : w.kind # "remove" /\ w.path = x[1] /\ w.row.name = x[2]
      BY <2>7 DEF WritesRow
    <3>2. PICK k \in DOMAIN plan : plan[k] = w
      BY <3>1 DEF ToSet
    <3>3. OpFor(i, lost, m, w)
      BY <1>1, <3>2
    <3>4. CASE HasNamed(m[x[1]], x[2])
      BY <3>4
    <3>5. CASE ~ HasNamed(m[x[1]], x[2])
      <4>1. w.kind = "add"
        BY <3>1, <3>3, <3>5 DEF OpFor
      <4>2. Sooner(i, x[1], p)
        BY <1>2, <2>2, AheadSooner, IntentAssumption
      <4>3. ~ (n < k)
        BY <1>4, <3>1, <3>2, <4>2 DEF PlanOf, InMenuOrder, o, p
      <4>4. k # n
        <5>1. ~ Sooner(i, p, p)
          <6>1. SectionOf(i, p).order \in Nat
            BY <1>2, SectionTyped, IntentAssumption
          <6>2. PathIndex(p) = Index(p) /\ Index(p) \in 1..22
            BY <1>2, PathsIndexed
          <6>3. PathIndex(p) \in Nat
            BY <6>2
          <6> QED BY <6>1, <6>3 DEF Sooner
        <5> QED BY <3>1, <3>2, <4>2, <5>1 DEF o, p
      <4>5. k < n
        BY <1>1, <4>3, <4>4
      <4> QED BY <3>1, <3>2, <4>1, <4>5 DEF AddedBefore
    <3> QED BY <3>4, <3>5
  <2> QED BY <2>5, <2>6, <2>7
<1> QED BY <1>3, <1>4

\* A plan touches no row twice.
LEMMA RestOnce ==
  ASSUME NEW plan, IsSeq(plan), plan # <<>>, OnceEach(plan)
  PROVE  /\ OnceEach(Tail(plan))
         /\ \A w \in ToSet(Tail(plan)) : ~ (w.path = Head(plan).path /\ w.row.name = Head(plan).row.name)
<1> DEFINE N == Len(plan) t == Tail(plan)
<1>1. N \in Nat \ {0} /\ DOMAIN plan = 1..N /\ DOMAIN t = 1..N - 1 /\ Head(plan) = plan[1]
      /\ \A n \in 1..N - 1 : t[n] = plan[n + 1]
  BY HeadTail
<1> HIDE DEF N, t
<1>2. OnceEach(t)
  <2> SUFFICES ASSUME NEW k \in 1..N - 1, NEW n \in 1..N - 1, k < n
               PROVE  ~ (t[k].path = t[n].path /\ t[k].row.name = t[n].row.name)
    BY <1>1 DEF OnceEach
  <2>1. k + 1 \in DOMAIN plan /\ n + 1 \in DOMAIN plan /\ k + 1 < n + 1
    BY <1>1
  <2>2. t[k] = plan[k + 1] /\ t[n] = plan[n + 1]
    BY <1>1
  <2>3. ~ (plan[k + 1].path = plan[n + 1].path /\ plan[k + 1].row.name = plan[n + 1].row.name)
    BY <2>1 DEF OnceEach
  <2> QED BY <2>2, <2>3
<1>3. ASSUME NEW n \in 1..N - 1 PROVE ~ (t[n].path = Head(plan).path /\ t[n].row.name = Head(plan).row.name)
  <2>1. 1 \in 1..N /\ n + 1 \in 1..N /\ 1 < n + 1
    BY <1>1
  <2> QED BY <1>1, <2>1 DEF OnceEach
<1>4. \A w \in ToSet(t) : \E n \in 1..N - 1 : w = t[n]
  BY <1>1 DEF ToSet
<1> QED BY <1>2, <1>3, <1>4 DEF t

\* An operation that the router takes leaves the rest of its plan able to run.
LEMMA AbleOp ==
  ASSUME NEW i \in Intents, NEW lost, NEW m, Live(m), NEW plan, IsSeq(plan), plan # <<>>,
         \A w \in ToSet(plan) : OpOf(i, lost, w), Accepts(m, Head(plan)),
         Able(m, plan), OnceEach(plan), RemovesLast(plan)
  PROVE  Able(Effect(m, Head(plan)), Tail(plan))
<1> DEFINE o == Head(plan) e == Effect(m, o) q == o.path t == Tail(plan) N == Len(plan)
<1>1. /\ o \in ToSet(plan) /\ N \in Nat \ {0} /\ DOMAIN plan = 1..N /\ DOMAIN t = 1..N - 1 /\ o = plan[1]
      /\ \A n \in 1..N - 1 : t[n] = plan[n + 1]
  BY HeadTail
<1>2. OpOf(i, lost, o)
  BY <1>1
<1>3. q \in Paths /\ o.kind \in {"add", "set", "remove"}
  BY <1>2 DEF OpOf
<1>4. e[q] = MenuAfter(m[q], o) /\ \A p \in Paths : p # q => e[p] = m[p]
  BY <1>3, EffectOf DEF Live
<1>5. IsSeq(m[q])
  BY <1>3 DEF Live, LiveMenu
<1>6. \A w \in ToSet(t) : ~ (w.path = q /\ w.row.name = o.row.name)
  BY RestOnce
<1> HIDE DEF o, e, q, t, N
<1>7. \A p \in Paths : \A name :
         HasNamed(e[p], name) <=>
            IF p = q /\ name = o.row.name THEN o.kind # "remove" /\ (o.kind = "add" \/ HasNamed(m[p], name))
            ELSE HasNamed(m[p], name)
  <2> SUFFICES ASSUME NEW p \in Paths, NEW name
               PROVE  HasNamed(e[p], name) <=>
                        IF p = q /\ name = o.row.name THEN o.kind # "remove" /\ (o.kind = "add" \/ HasNamed(m[p], name))
                        ELSE HasNamed(m[p], name)
    OBVIOUS
  <2>1. CASE p = q
    <3> DEFINE live == m[q]
    <3>1. IsSeq(live)
      BY <1>5
    <3> HIDE DEF live
    <3>2. HasNamed(MenuAfter(live, o), name)
           <=> (IF o.kind = "add" THEN name = o.row.name \/ HasNamed(live, name)
                ELSE IF o.kind = "set" THEN HasNamed(live, name)
                ELSE name # o.row.name /\ HasNamed(live, name))
      BY <1>3, <3>1, NamesAfter
    <3> QED BY <1>3, <1>4, <2>1, <3>2 DEF live
  <2>2. CASE p # q
    BY <1>4, <2>2
  <2> QED BY <2>1, <2>2
<1>8. ASSUME NEW n \in 1..N - 1
      PROVE  /\ (t[n].kind = "add" <=> ~ HasNamed(e[t[n].path], t[n].row.name))
             /\ (t[n].kind # "remove" => \A x \in t[n].row.refs : HasNamed(e[x[1]], x[2]) \/ AddedBefore(t, n, x))
  <2> DEFINE w == t[n]
  <2>1. n + 1 \in 1..N /\ 1 \in 1..N /\ 1 < n + 1 /\ w = plan[n + 1]
    BY <1>1
  <2>2. w \in ToSet(t) /\ w \in ToSet(plan)
    BY <1>1, <2>1 DEF ToSet
  <2>3. /\ (w.kind = "add" <=> ~ HasNamed(m[w.path], w.row.name))
        /\ (w.kind # "remove" => \A x \in w.row.refs : HasNamed(m[x[1]], x[2]) \/ AddedBefore(plan, n + 1, x))
    BY <1>1, <2>1 DEF Able
  <2>4. OpOf(i, lost, w)
    BY <2>2
  <2>5. w.path \in Paths
    BY <2>4 DEF OpOf
  <2>6. o.kind = "remove" => w.kind = "remove"
    BY <1>1, <2>1 DEF RemovesLast
  <2> HIDE DEF w
  <2>7. HasNamed(e[w.path], w.row.name) <=> HasNamed(m[w.path], w.row.name)
    BY <1>6, <1>7, <2>2, <2>5
  <2>8. ASSUME w.kind # "remove", NEW x \in w.row.refs PROVE HasNamed(e[x[1]], x[2]) \/ AddedBefore(t, n, x)
    <3>1. w.row \in AskedOf(i, w.path)
      BY <2>4, <2>8 DEF OpOf
    <3>2. x[1] \in Paths
      BY <2>8, <3>1, AskedTarget, IntentAssumption
    <3>3. o.kind # "remove"
      BY <2>6, <2>8
    <3>4. CASE HasNamed(m[x[1]], x[2])
      BY <1>7, <3>2, <3>3, <3>4
    <3>5. CASE AddedBefore(plan, n + 1, x)
      <4>1. PICK k \in 1..N : k < n + 1 /\ plan[k].kind = "add" /\ plan[k].path = x[1] /\ plan[k].row.name = x[2]
        BY <1>1, <3>5 DEF AddedBefore
      <4>2. CASE k = 1
        <5>1. o.kind = "add" /\ q = x[1] /\ o.row.name = x[2]
          BY <1>1, <4>1, <4>2 DEF q
        <5> QED BY <1>7, <3>2, <5>1
      <4>3. CASE k # 1
        <5>1. k - 1 \in 1..N - 1 /\ k - 1 < n /\ (k - 1) + 1 = k
          BY <1>1, <4>1, <4>3
        <5>2. t[k - 1] = plan[k]
          BY <1>1, <5>1
        <5> QED BY <1>1, <4>1, <5>1, <5>2 DEF AddedBefore
      <4> QED BY <4>2, <4>3
    <3> QED BY <2>3, <2>8, <3>4, <3>5
  <2> QED BY <2>3, <2>7, <2>8 DEF w
<1>9. Able(e, t)
  BY <1>1, <1>8 DEF Able
<1> QED BY <1>9 DEF e, o, t

\* The fourth part of the invariant holds at the beginning.
LEMMA PushableInit == Init => Pushable
BY DEF Init, Pushable

\* Every action preserves it on layer 3, given the first two.
LEMMA PushableNext ==
  (\A i \in Intents : Layer3(i)) /\ Held /\ Orderly /\ Pushable /\ [Next]_vars => Pushable'
<1> SUFFICES ASSUME \A i \in Intents : Layer3(i), Held, Orderly, Pushable, [Next]_vars PROVE Pushable'
  OBVIOUS
<1>0. goal \in Intents /\ Live(menus)
  BY DEF Held
<1> USE DEF Pushable
<1>1. CASE Render
  BY <1>1 DEF Render
<1>2. CASE Plan \/ PlanUnread
  <2>1. CASE pc' = "idle"
    BY <2>1
  <2>2. CASE pc' # "idle"
    <3>1. PlanOf(goal, skipped', menus, ops') /\ Unread(goal, skipped') /\ UNCHANGED <<menus, goal>>
      BY <1>2, <2>2, PlansRead
    <3>2. Able(menus, ops')
      BY <1>0, <3>1, PlanAble
    <3>3. OnceEach(ops')
      BY <3>1 DEF PlanOf
    <3>4. Able(menus', ops') /\ OnceEach(ops')
      BY <3>1, <3>2, <3>3
    <3>5. (Able(menus, ops) /\ OnceEach(ops))'
      BY <3>4 DEF Able, AddedBefore, HasNamed, OnceEach
    <3> QED BY <3>5
  <2> QED BY <2>1, <2>2
<1>3. CASE StartPush
  BY <1>3 DEF StartPush, Able, AddedBefore, HasNamed, OnceEach
<1>4. CASE PushOp
  <2>1. /\ pc = "push" /\ Accepts(menus, Head(ops)) /\ menus' = Effect(menus, Head(ops)) /\ ops' = Tail(ops)
        /\ (edited = "since" => edited' = "since")
    BY <1>4 DEF PushOp
  <2>2. CASE edited = "since"
    BY <2>1, <2>2
  <2>3. CASE edited # "since"
    <3>1. /\ IsSeq(ops) /\ ops # <<>> /\ \A o \in ToSet(ops) : OpOf(goal, skipped, o)
          /\ RemovesLast(ops) /\ Able(menus, ops) /\ OnceEach(ops)
      BY <2>1, <2>3 DEF Held, Orderly
    <3>2. Able(Effect(menus, Head(ops)), Tail(ops))
      BY <1>0, <2>1, <3>1, AbleOp
    <3>3. OnceEach(Tail(ops))
      BY <3>1, RestOnce
    <3>4. Able(menus', ops') /\ OnceEach(ops')
      BY <2>1, <3>2, <3>3
    <3>5. (Able(menus, ops) /\ OnceEach(ops))'
      BY <3>4 DEF Able, AddedBefore, HasNamed, OnceEach
    <3> QED BY <3>5
  <2> QED BY <2>2, <2>3
<1>5. CASE PushFails
  BY <1>5 DEF PushFails
<1>6. CASE ChangeIntent
  <2>1. UNCHANGED <<menus, ops, pc, edited>>
    BY <1>6 DEF ChangeIntent
  <2> QED BY <2>1 DEF Able, AddedBefore, HasNamed, OnceEach
<1>7. CASE EditByHand
  BY <1>7 DEF EditByHand
<1>8. CASE UNCHANGED vars
  BY <1>8 DEF vars, Able, AddedBefore, HasNamed, OnceEach
<1> QED BY <1>1, <1>2, <1>3, <1>4, <1>5, <1>6, <1>7, <1>8 DEF Next

\* A plan that is able to run is not refused its next operation.
LEMMA PushableAccepted == Held /\ Pushable => NothingRefused
<1> SUFFICES ASSUME Held, Pushable, pc = "push", edited # "since" PROVE Accepts(menus, Head(ops))
  BY DEF NothingRefused
<1> DEFINE o == Head(ops)
<1>1. /\ IsSeq(ops) /\ ops # <<>> /\ \A w \in ToSet(ops) : OpOf(goal, skipped, w)
      /\ Able(menus, ops)
  BY DEF Held, Pushable
<1>2. o \in ToSet(ops) /\ DOMAIN ops = 1..Len(ops) /\ Len(ops) \in Nat \ {0} /\ o = ops[1]
  BY <1>1, HeadTail
<1>3. 1 \in DOMAIN ops /\ \A k \in DOMAIN ops : ~ (k < 1)
  BY <1>2
<1>4. o.kind \in {"add", "set", "remove"}
  BY <1>1, <1>2 DEF OpOf
<1>5. /\ (o.kind = "add" <=> ~ HasNamed(menus[o.path], o.row.name))
      /\ (o.kind # "remove" => \A x \in o.row.refs : HasNamed(menus[x[1]], x[2]))
  BY <1>1, <1>2, <1>3 DEF Able, AddedBefore
<1> HIDE DEF o
<1>6. (o.kind = "add" <=> At(menus, o.path, o.row.name) = {})
  BY <1>5, AtNamed
<1>7. o.kind # "remove" => Resolved(menus, o.row)
  BY <1>5, AtNamed DEF Resolved
<1>8. Accepts(menus, o)
  BY <1>4, <1>6, <1>7 DEF Accepts
<1> QED BY <1>8 DEF o

\* Plan.ops' "safe order", for any layer 3 intents, links and troubles: unless
\* the router was edited after it was read, no operation of a plan is refused.
\* (On layer 2 it is: run planner_l2.)
THEOREM NothingRefusedHolds ==
  ASSUME \A i \in Intents : Layer3(i)
  PROVE  Spec => []NothingRefused
<1>1. Init => Held /\ Orderly /\ Pushable
  BY HeldInit, OrderlyInit, PushableInit
<1>2. Held /\ Orderly /\ Pushable /\ [Next]_vars => (Held /\ Orderly /\ Pushable)'
  BY HeldNext, OrderlyNext, PushableNext
<1>3. Held /\ Pushable => NothingRefused
  BY PushableAccepted
<1> QED BY <1>1, <1>2, <1>3, PTL DEF Spec
=============================================================================
