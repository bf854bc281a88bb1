--------------------------- MODULE SteeringProofs ---------------------------
(***************************************************************************)
(* Proofs about Steering, for any policies, groups, standards and uplinks: *)
(* a route stands where its policy's own standard puts it, and what is     *)
(* marked leads to the best path left.                                     *)
(*                                                                         *)
(* First what the intent renders to: in a table one route to a hop, in the *)
(* policy's order, and of two probes never the same route.  Then what the  *)
(* router keeps of it under the scripts, and pushes keep under both.       *)
(***************************************************************************)
EXTENDS Steering, FiniteSetTheorems, SequenceTheorems, TLAPS

-----------------------------------------------------------------------------
(* Orders, by their ranks; and induction, by its sets. *)

\* What is before a member is before all that follow it, so a total order of a
\* finite set has one member at every rank.
LEMMA OneAtEveryRank ==
  ASSUME NEW S, IsFiniteSet(S), NEW before \in [S -> SUBSET S],
         \A x \in S : x \notin before[x],
         \A x, y \in S : y \in before[x] => before[y] \subseteq before[x],
         \A x, y \in S : x # y => x \in before[y] \/ y \in before[x]
  PROVE  /\ Cardinality(S) \in Nat
         /\ \A n \in 1..Cardinality(S) : \E x \in S : Cardinality(before[x]) = n - 1
         /\ \A x, y \in S : Cardinality(before[x]) = Cardinality(before[y]) => x = y
         /\ \A x \in S : \E n \in 1..Cardinality(S) : Cardinality(before[x]) = n - 1
<1>1. Cardinality(S) \in Nat
  BY FS_CardinalityType
<1>2. \A x \in S : IsFiniteSet(before[x]) /\ Cardinality(before[x]) \in Nat
  BY FS_Subset, FS_CardinalityType
<1>3. ASSUME NEW x \in S PROVE Cardinality(before[x]) \in 0..(Cardinality(S) - 1)
  <2>1. IsFiniteSet(S \ {x}) /\ Cardinality(S \ {x}) = Cardinality(S) - 1
    BY FS_RemoveElement
  <2>2. before[x] \in SUBSET (S \ {x})
    OBVIOUS
  <2>3. Cardinality(before[x]) <= Cardinality(S \ {x})
    BY <2>1, <2>2, FS_Subset
  <2> QED BY <1>1, <1>2, <2>1, <2>3
<1>4. ASSUME NEW x \in S, NEW y \in S, x \in before[y]
      PROVE  Cardinality(before[x]) < Cardinality(before[y])
  <2>1. before[x] \in SUBSET before[y] /\ before[x] # before[y]
    BY <1>4
  <2>2. Cardinality(before[x]) <= Cardinality(before[y]) /\ Cardinality(before[y]) # Cardinality(before[x])
    BY <1>2, <2>1, FS_Subset
  <2> QED BY <1>2, <2>2
<1>5. ASSUME NEW x \in S, NEW y \in S, Cardinality(before[x]) = Cardinality(before[y]) PROVE x = y
  BY <1>2, <1>4, <1>5
<1> DEFINE rank == [x \in S |-> Cardinality(before[x])]
           ranks == 0..(Cardinality(S) - 1)
<1>6. rank \in Injection(S, ranks)
  BY <1>3, <1>5 DEF Injection, IsInjective
<1>7. IsFiniteSet(ranks) /\ Cardinality(ranks) = Cardinality(S)
  BY <1>1, FS_Interval
<1>8. rank \in Surjection(S, ranks)
  <2> HIDE DEF rank, ranks
  <2> QED BY <1>6, <1>7, FS_Injection
<1>9. ASSUME NEW n \in 1..Cardinality(S) PROVE \E x \in S : Cardinality(before[x]) = n - 1
  <2>1. n - 1 \in ranks
    BY <1>1
  <2> QED BY <1>8, <2>1 DEF Surjection
<1>10. ASSUME NEW x \in S PROVE \E n \in 1..Cardinality(S) : Cardinality(before[x]) = n - 1
  <2>1. Cardinality(before[x]) + 1 \in 1..Cardinality(S) /\ Cardinality(before[x]) \in Nat
    BY <1>1, <1>2, <1>3
  <2> QED BY <2>1
<1> QED BY <1>1, <1>5, <1>9, <1>10

\* Induction over the numbers, for a set of them.
LEMMA Inductive ==
  ASSUME NEW T, 0 \in T, \A n \in Nat : n \in T => n + 1 \in T
  PROVE  \A n \in Nat : n \in T
<1> SUFFICES ASSUME Nat \ T # {} PROVE FALSE
  OBVIOUS
<1> DEFINE R == OpToRel(<, Nat)
<1>1. PICK m \in Nat \ T : \A n \in Nat \ T : ~ (<<n, m>> \in R)
  <2> HIDE DEF R
  <2>1. IsWellFoundedOn(R, Nat)
    BY NatLessThanWellFounded DEF R
  <2> QED BY <2>1, WFMin
<1>2. m # 0 /\ m - 1 \in Nat /\ <<m - 1, m>> \in R
  BY DEF OpToRel
<1>3. m - 1 \in T
  BY <1>1, <1>2
<1>4. (m - 1) + 1 \in T
  BY <1>2, <1>3
<1> QED BY <1>4

\* A set of numbers with a member has a least one.
LEMMA LeastNumber ==
  ASSUME NEW T, T \subseteq Nat, T # {}
  PROVE  \E m \in T : \A n \in T : m <= n
<1> DEFINE R == OpToRel(<, Nat)
<1>1. PICK m \in T : \A n \in T : ~ (<<n, m>> \in R)
  <2> HIDE DEF R
  <2>1. IsWellFoundedOn(R, Nat)
    BY NatLessThanWellFounded DEF R
  <2> QED BY <2>1, WFMin
<1>2. \A n \in T : ~ (n < m)
  BY <1>1 DEF OpToRel
<1> QED BY <1>2

Follows(f, base, step, N) == f[0] = base /\ \A n \in 1..N : f[n] = step[<<n, f[n - 1]>>]

\* A recursive definition up to a number has a function, in the set its steps
\* stay in.
LEMMA Recursion ==
  ASSUME NEW N \in Nat, NEW D, NEW base \in D, NEW step \in [(1..N) \X D -> D]
  PROVE  \E f \in [0..N -> D] : Follows(f, base, step, N)
<1> DEFINE T == {m \in Nat : m <= N => \E f \in [0..m -> D] : Follows(f, base, step, m)}
<1> USE DEF Follows
<1>1. 0 \in T
  <2>1. [n \in 0..0 |-> base] \in [0..0 -> D] /\ Follows([n \in 0..0 |-> base], base, step, 0)
    OBVIOUS
  <2> QED BY <2>1
<1>2. ASSUME NEW m \in Nat, m \in T PROVE m + 1 \in T
  <2> SUFFICES ASSUME m + 1 <= N PROVE \E f \in [0..m + 1 -> D] : Follows(f, base, step, m + 1)
    OBVIOUS
  <2>1. PICK f \in [0..m -> D] : Follows(f, base, step, m)
    BY <1>2
  <2> DEFINE last == step[<<m + 1, f[m]>>]
             g == [n \in 0..m + 1 |-> IF n = m + 1 THEN last ELSE f[n]]
  <2>2. <<m + 1, f[m]>> \in (1..N) \X D
    BY <2>1
  <2>3. last \in D
    BY <2>2
  <2> HIDE DEF last
  <2>4. g \in [0..m + 1 -> D] /\ g[0] = base /\ g[m + 1] = last /\ \A n \in 0..m : g[n] = f[n]
    BY <2>1, <2>3
  <2> HIDE DEF g
  <2>5. ASSUME NEW n \in 1..m + 1 PROVE g[n] = step[<<n, g[n - 1]>>]
    <3>1. n - 1 \in 0..m /\ g[n - 1] = f[n - 1]
      BY <2>4
    <3>2. CASE n = m + 1
      <4>1. n - 1 = m
        BY <3>2
      <4> QED BY <2>4, <3>1, <3>2, <4>1 DEF last
    <3>3. CASE n # m + 1
      <4>1. n \in 1..m /\ n \in 0..m
        BY <3>3
      <4> QED BY <2>1, <2>4, <3>1, <4>1
    <3> QED BY <3>2, <3>3
  <2> QED BY <2>4, <2>5
<1>3. N \in T
  <2> HIDE DEF T
  <2> QED BY <1>1, <1>2, Inductive
<1> QED BY <1>3

LEMMA RecursionStays ==
  ASSUME NEW N \in Nat, NEW D, NEW f, f[0] \in D,
         \A n \in 1..N : f[n - 1] \in D => f[n] \in D
  PROVE  \A n \in 0..N : f[n] \in D
<1> DEFINE T == {n \in Nat : n <= N => f[n] \in D}
<1>1. 0 \in T
  OBVIOUS
<1>2. ASSUME NEW n \in Nat, n \in T PROVE n + 1 \in T
  <2> SUFFICES ASSUME n + 1 <= N PROVE f[n + 1] \in D
    OBVIOUS
  <2>1. f[(n + 1) - 1] \in D /\ n + 1 \in 1..N
    BY <1>2
  <2> QED BY <2>1
<1>3. \A n \in Nat : n \in T
  <2> HIDE DEF T
  <2> QED BY <1>1, <1>2, Inductive
<1> QED BY <1>3

LEMMA InConcat ==
  ASSUME NEW S, NEW s \in Seq(S), NEW r \in Seq(S)
  PROVE  ToSet(s) \subseteq ToSet(s \o r) /\ ToSet(r) \subseteq ToSet(s \o r)
<1>1. /\ s \o r \in Seq(S) /\ Len(s) \in Nat /\ Len(r) \in Nat /\ Len(s \o r) = Len(s) + Len(r)
      /\ DOMAIN s = 1..Len(s) /\ DOMAIN r = 1..Len(r) /\ DOMAIN (s \o r) = 1..Len(s) + Len(r)
  BY ConcatProperties
<1>2. ASSUME NEW n \in 1..Len(s) PROVE n \in 1..Len(s) + Len(r) /\ (s \o r)[n] = s[n]
  BY <1>1, <1>2, ConcatProperties
<1>3. ASSUME NEW n \in 1..Len(r) PROVE n + Len(s) \in 1..Len(s) + Len(r) /\ (s \o r)[n + Len(s)] = r[n]
  BY <1>1, <1>3, ConcatProperties
<1> QED BY <1>1, <1>2, <1>3 DEF ToSet

\* A concatenation of sequences over a set is a sequence over it, with all of
\* their members.
LEMMA Flattened ==
  ASSUME NEW S, NEW ss \in Seq(Seq(S))
  PROVE  FlattenSeq(ss) \in Seq(S) /\ \A i \in DOMAIN ss : ToSet(ss[i]) \subseteq ToSet(FlattenSeq(ss))
<1>1. CASE Len(ss) = 0
  BY <1>1 DEF FlattenSeq
<1>2. CASE Len(ss) # 0
  <2> DEFINE N == Len(ss) - 1
             D == Seq(S)
             step == [x \in (1..N) \X D |-> x[2] \o ss[x[1] + 1]]
             flatten == CHOOSE f : f = [i \in 1..Len(ss) |-> IF i = 1 THEN ss[i] ELSE f[i - 1] \o ss[i]]
  <2>1. N \in Nat /\ ss[1] \in Seq(S) /\ \A i \in 1..Len(ss) : ss[i] \in Seq(S)
    BY <1>2
  <2>2. \A n \in 1..N : ss[n + 1] \in D
    BY <2>1
  <2>3. step \in [(1..N) \X D -> D]
    <3>1. \A s, r \in D : s \o r \in D
      BY ConcatProperties
    <3> HIDE DEF N, D
    <3> QED BY <2>2, <3>1
  <2>4. PICK f \in [0..N -> D] : f[0] = ss[1] /\ \A n \in 1..N : f[n] = step[<<n, f[n - 1]>>]
    <3> DEFINE base == ss[1]
    <3>1. N \in Nat /\ base \in D
      BY <2>1
    <3> HIDE DEF N, D, step, base
    <3>2. \E f \in [0..N -> D] : Follows(f, base, step, N)
      BY <2>3, <3>1, Recursion
    <3> QED BY <3>2 DEF base, Follows
  <2> DEFINE g == [i \in 1..Len(ss) |-> f[i - 1]]
  <2>6. g = [i \in 1..Len(ss) |-> IF i = 1 THEN ss[i] ELSE g[i - 1] \o ss[i]]
    <3> SUFFICES ASSUME NEW i \in 1..Len(ss) PROVE f[i - 1] = IF i = 1 THEN ss[i] ELSE g[i - 1] \o ss[i]
      OBVIOUS
    <3>1. CASE i = 1
      BY <2>1, <2>4, <3>1
    <3>2. CASE i # 1
      <4> DEFINE j == i - 1
      <4>1. j \in 1..N /\ j \in 0..N /\ j # 0 /\ j \in 1..Len(ss) /\ j - 1 \in 0..N /\ j + 1 = i
        BY <2>1, <3>2
      <4>2. g[j] = f[j - 1]
        BY <4>1
      <4> HIDE DEF j, g
      <4>3. f[j] = step[<<j, f[j - 1]>>] /\ f[j - 1] \in D
        <5> HIDE DEF step, N, D
        <5> QED BY <2>4, <4>1
      <4>4. step[<<j, f[j - 1]>>] = f[j - 1] \o ss[j + 1]
        <5> HIDE DEF N, D
        <5> QED BY <4>1, <4>3
      <4> QED BY <3>2, <4>1, <4>2, <4>3, <4>4 DEF j
    <3> QED BY <3>1, <3>2
  <2>7. flatten = [i \in 1..Len(ss) |-> IF i = 1 THEN ss[i] ELSE flatten[i - 1] \o ss[i]]
    <3>1. \E h : h = [i \in 1..Len(ss) |-> IF i = 1 THEN ss[i] ELSE h[i - 1] \o ss[i]]
      BY <2>6
    <3> QED BY <3>1
  <2> HIDE DEF flatten
  <2> DEFINE h == [n \in 0..N |-> flatten[n + 1]]
  <2>8. h[0] \in D
    BY <2>1, <2>7
  <2>9. ASSUME NEW n \in 1..N, h[n - 1] \in D PROVE h[n] \in D
    <3>1. n + 1 \in 1..Len(ss) /\ n + 1 # 1 /\ (n + 1) - 1 = n /\ (n - 1) + 1 = n /\ n - 1 \in 0..N /\ n \in 0..N
      BY <2>1
    <3>2. flatten[n + 1] = flatten[n] \o ss[n + 1]
      BY <2>7, <3>1
    <3>3. flatten[n] \in Seq(S) /\ ss[n + 1] \in Seq(S)
      BY <2>1, <2>9, <3>1
    <3>4. flatten[n] \o ss[n + 1] \in Seq(S)
      BY <3>3, ConcatProperties
    <3> QED BY <3>1, <3>2, <3>4
  <2>10. h[N] \in D /\ h[N] = flatten[Len(ss)]
    <3>1. \A n \in 0..N : h[n] \in D
      <4> HIDE DEF h, D, N
      <4> QED BY <2>1, <2>8, <2>9, RecursionStays
    <3>2. N \in 0..N /\ N + 1 = Len(ss)
      BY <2>1
    <3> QED BY <3>1, <3>2
  <2>11. flatten[Len(ss)] \in Seq(S)
    BY <2>10
  <2> DEFINE T == {n \in Nat : n <= N => \A i \in 1..n + 1 : ToSet(ss[i]) \subseteq ToSet(flatten[n + 1])}
  <2>12. \A n \in 0..N : flatten[n + 1] \in Seq(S)
    <3>1. \A n \in 0..N : h[n] \in D
      <4> HIDE DEF h, D, N
      <4> QED BY <2>1, <2>8, <2>9, RecursionStays
    <3> QED BY <3>1
  <2> HIDE DEF h, g
  <2>13. 0 \in T
    BY <2>1, <2>7
  <2>14. ASSUME NEW n \in Nat, n \in T PROVE n + 1 \in T
    <3> SUFFICES ASSUME n + 1 <= N, NEW i \in 1..(n + 1) + 1
                 PROVE  ToSet(ss[i]) \subseteq ToSet(flatten[(n + 1) + 1])
      OBVIOUS
    <3>0. (n + 1) + 1 = n + 2
      OBVIOUS
    <3>1. n + 2 \in 1..Len(ss) /\ n + 2 # 1 /\ (n + 2) - 1 = n + 1 /\ n \in 0..N /\ n <= N
      BY <2>1
    <3>2. flatten[n + 2] = flatten[n + 1] \o ss[n + 2]
      BY <2>7, <3>1
    <3>3. flatten[n + 1] \in Seq(S) /\ ss[n + 2] \in Seq(S)
      BY <2>1, <2>12, <3>1
    <3>4. /\ ToSet(flatten[n + 1]) \subseteq ToSet(flatten[n + 2])
          /\ ToSet(ss[n + 2]) \subseteq ToSet(flatten[n + 2])
      BY <3>2, <3>3, InConcat
    <3>5. CASE i = n + 2
      BY <3>4, <3>5
    <3>6. CASE i \in 1..n + 1
      BY <2>14, <3>1, <3>4, <3>6
    <3> QED BY <3>0, <3>5, <3>6
  <2>15. N \in T
    <3> HIDE DEF T
    <3> QED BY <2>1, <2>13, <2>14, Inductive
  <2>16. \A i \in DOMAIN ss : ToSet(ss[i]) \subseteq ToSet(flatten[Len(ss)])
    <3>1. N <= N /\ N + 1 = Len(ss) /\ DOMAIN ss = 1..Len(ss)
      BY <2>1
    <3> QED BY <2>15, <3>1
  <2> QED BY <1>2, <2>11, <2>16 DEF FlattenSeq, flatten
<1> QED BY <1>1, <1>2

-----------------------------------------------------------------------------
(* What an intent renders to. *)

Tables == {Table(MarkOf[p], n) : p \in Policies, n \in {0} \cup Wans}
RouteRow == [table : Tables, hop : AllHops, distance : Nat]
Target == [table : Tables, distance : 1..Cardinality(Wans)]

IntentOK ==
    /\ policies \in [Policies -> PolicyRow \cup {None}]
    /\ groups \in [Groups -> GroupRow \cup {None}]
    /\ hops \in [Wans -> SUBSET AllHops]
    /\ \A w \in Wans : hops[w] \in HopChoices[w]

\* A policy's uplinks stand in its group, each at a place.
LEMMA MembersAreASequence ==
  ASSUME IntentOK, NEW p \in Policies, policies[p] # None
  PROVE  Members(p) \in Seq(Member)
<1>1. policies[p] \in PolicyRow
  BY DEF IntentOK
<1>2. policies[p].group # None => groups[policies[p].group] \in GroupRow \cup {None}
  BY <1>1 DEF IntentOK, PolicyRow
<1>3. CASE GroupOf(p) = None
  BY <1>3 DEF Members
<1>4. CASE GroupOf(p) # None
  <2>1. GroupOf(p) \in GroupRow
    BY <1>2, <1>4 DEF GroupOf
  <2> QED BY <1>4, <2>1 DEF Members, GroupRow
<1> QED BY <1>3, <1>4

LEMMA PlaceIsANumber ==
  ASSUME IntentOK, NEW p \in Policies, policies[p] # None, NEW w \in Chosen(p)
  PROVE  Place(p, w) \in Nat
<1> DEFINE named == {n \in DOMAIN Members(p) : Uplink(p, n) \in NamesOf[w]}
<1>1. DOMAIN Members(p) \subseteq Nat \ {0} /\ \A n \in DOMAIN Members(p) : 1..n \subseteq DOMAIN Members(p)
  BY MembersAreASequence
<1>2. PICK n \in named : \A m \in named : n <= m
  <2>1. named \subseteq Nat /\ named # {}
    BY <1>1 DEF Chosen
  <2> HIDE DEF named
  <2> QED BY <2>1, LeastNumber
<1>3. \A m \in 1..n - 1 : Uplink(p, m) \notin NamesOf[w]
  BY <1>1, <1>2
<1>4. Place(p, w) \in DOMAIN Members(p)
  BY <1>2, <1>3 DEF Place
<1> QED BY <1>1, <1>4

LEMMA WansAreNumbers == Wans \subseteq Nat /\ IsFiniteSet(Wans) /\ Cardinality(Wans) \in Nat
<1>1. IsFiniteSet(Wans) /\ Cardinality(Wans) \in Nat
  BY SteeringAssumption, FS_CardinalityType
<1> QED BY <1>1, SteeringAssumption

\* PathsFor lists what was chosen, each uplink once (_paths_for).
LEMMA PathsAreTheChosen ==
  ASSUME IntentOK, NEW p \in Policies, policies[p] # None
  PROVE  /\ Cardinality(Chosen(p)) \in 0..Cardinality(Wans)
         /\ PathsFor(p) \in [1..Cardinality(Chosen(p)) -> Chosen(p)]
         /\ \A n, m \in 1..Cardinality(Chosen(p)) : PathsFor(p)[n] = PathsFor(p)[m] => n = m
<1> DEFINE C == Chosen(p)
           before == [w \in C |-> {v \in C : Preferred(p, v, w)}]
<1>1. C \in SUBSET Wans
  BY DEF Chosen
<1>2. IsFiniteSet(C) /\ Cardinality(C) \in 0..Cardinality(Wans)
  <2> HIDE DEF C
  <2>1. IsFiniteSet(Wans) /\ Cardinality(Wans) \in Nat
    BY WansAreNumbers
  <2>2. IsFiniteSet(C) /\ Cardinality(C) <= Cardinality(Wans)
    BY <1>1, <2>1, FS_Subset
  <2>3. Cardinality(C) \in Nat
    BY <2>2, FS_CardinalityType
  <2> QED BY <2>1, <2>2, <2>3
<1>3. \A w \in C : Place(p, w) \in Int /\ Cost[w] \in Int /\ w \in Int
  BY <1>1, PlaceIsANumber, WansAreNumbers, SteeringAssumption
<1>4. \A w \in C : w \notin before[w]
  BY <1>3 DEF Preferred
<1>5. \A w, v \in C : v \in before[w] => before[v] \subseteq before[w]
  <2> SUFFICES ASSUME NEW w \in C, NEW v \in C, NEW u \in C, Preferred(p, v, w), Preferred(p, u, v)
               PROVE  Preferred(p, u, w)
    OBVIOUS
  <2> HIDE DEF C
  <2> QED BY <1>3 DEF Preferred
<1>6. \A w, v \in C : w # v => w \in before[v] \/ v \in before[w]
  BY <1>3 DEF Preferred
<1>7. before \in [C -> SUBSET C]
  OBVIOUS
<1>8. /\ \A n \in 1..Cardinality(C) : \E w \in C : Cardinality(before[w]) = n - 1
      /\ \A w, v \in C : Cardinality(before[w]) = Cardinality(before[v]) => w = v
  <2> HIDE DEF before, C
  <2> QED BY <1>2, <1>4, <1>5, <1>6, <1>7, OneAtEveryRank
<1>9. PathsFor(p) = [n \in 1..Cardinality(C) |-> CHOOSE w \in C : Cardinality(before[w]) = n - 1]
  <2>1. \A w \in C : before[w] = {v \in C : Preferred(p, v, w)}
    OBVIOUS
  <2>2. PathsFor(p) = [n \in 1..Cardinality(C) |->
                         CHOOSE w \in C : Cardinality({v \in C : Preferred(p, v, w)}) = n - 1]
    BY DEF PathsFor, InOrder
  <2> QED BY <2>1, <2>2
<1> HIDE DEF before
<1>10. \A n \in 1..Cardinality(C) : PathsFor(p)[n] \in C /\ Cardinality(before[PathsFor(p)[n]]) = n - 1
  BY <1>8, <1>9
<1>11. PathsFor(p) \in [1..Cardinality(C) -> C]
  BY <1>9, <1>10
<1>12. \A n, m \in 1..Cardinality(C) : PathsFor(p)[n] = PathsFor(p)[m] => n = m
  BY <1>2, <1>10
<1> QED BY <1>2, <1>11, <1>12

LEMMA OwnersAreRendered ==
  ASSUME NEW p \in Owners
  PROVE  p \in Policies /\ policies[p] # None /\ p \in Rendered
BY DEF Owners, Rendered, Enabled

\* A route of a policy: one of its tables, a hop of one of its paths.
LEMMA RouteOf ==
  ASSUME NEW p, NEW r \in RoutesOf(p)
  PROVE  \E n \in DOMAIN PathsFor(p), b \in Slots(p) :
           /\ r.hop \in hops[PathsFor(p)[n]]
           /\ r = [table |-> Table(MarkOf[p], b), hop |-> r.hop, distance |-> Distance(b, n)]
BY DEF RoutesOf

\* A policy's tables have names of their own, one to a slot (_suffixed).
LEMMA SlotsAreNamed ==
  ASSUME IntentOK, NEW p \in Policies, policies[p] # None
  PROVE  /\ \A b \in Slots(p) : /\ b \in Nat /\ (b # 0 => Cardinality(Chosen(p)) > 1)
                               /\ Table(MarkOf[p], b) \in Tables
         /\ \A b, c \in Slots(p) : Table(MarkOf[p], b) = Table(MarkOf[p], c) => b = c
<1>1. DOMAIN PathsFor(p) = 1..Cardinality(Chosen(p)) /\ Len(PathsFor(p)) = Cardinality(Chosen(p))
  BY PathsAreTheChosen
<1>2. Cardinality(Chosen(p)) \in 0..Cardinality(Wans) /\ Cardinality(Wans) \in Nat
  BY PathsAreTheChosen, WansAreNumbers
<1>3. CASE Balanced(p)
  <2>1. Cardinality(Chosen(p)) > 1
    BY <1>1, <1>3 DEF Balanced
  <2>2. \A b \in Slots(p) : b \in Wans /\ b \in Nat /\ b # 0
    BY <1>1, <1>2, <1>3, SteeringAssumption DEF Slots
  <2>3. \A b, c \in Wans : BucketMark[MarkOf[p]][b] = BucketMark[MarkOf[p]][c] => b = c
    BY SteeringAssumption
  <2> QED BY <2>1, <2>2, <2>3 DEF Table, Tables
<1>4. CASE ~Balanced(p)
  <2>1. Slots(p) = {0}
    BY <1>4 DEF Slots
  <2> QED BY <2>1 DEF Tables
<1> QED BY <1>3, <1>4

\* A hop is a link of one uplink only.
LEMMA HopsApart ==
  ASSUME IntentOK, NEW v \in Wans, NEW w \in Wans, NEW h \in hops[v], h \in hops[w]
  PROVE  v = w /\ h \in AllHops
<1>1. h \in UNION HopChoices[v] /\ h \in UNION HopChoices[w]
  BY DEF IntentOK
<1>2. h \in AllHops
  BY DEF IntentOK
<1>3. \A x, y \in Wans : x # y => (UNION HopChoices[x]) \cap (UNION HopChoices[y]) = {}
  BY SteeringAssumption
<1>4. h \in (UNION HopChoices[v]) \cap (UNION HopChoices[w])
  BY <1>1, Zenon
<1>5. v = w
  BY <1>3, <1>4, Zenon
<1> QED BY <1>2, <1>5

LEMMA RoutesTyped ==
  ASSUME IntentOK, NEW p \in Policies, policies[p] # None, NEW r \in RoutesOf(p)
  PROVE  /\ r.table \in Tables /\ r.table \in TablesOf(p)
         /\ r.hop \in AllHops /\ r.distance \in 1..Cardinality(Wans)
         /\ r = [table |-> r.table, hop |-> r.hop, distance |-> r.distance]
<1>1. PICK n \in DOMAIN PathsFor(p), b \in Slots(p) :
        /\ r.hop \in hops[PathsFor(p)[n]]
        /\ r = [table |-> Table(MarkOf[p], b), hop |-> r.hop, distance |-> Distance(b, n)]
  BY RouteOf
<1>2. /\ n \in 1..Cardinality(Chosen(p)) /\ PathsFor(p)[n] \in Wans
      /\ Cardinality(Chosen(p)) \in 0..Cardinality(Wans) /\ Cardinality(Wans) \in Nat
  BY <1>1, PathsAreTheChosen, WansAreNumbers DEF Chosen
<1>3. b \in Nat /\ Table(MarkOf[p], b) \in Tables /\ (b # 0 => Cardinality(Chosen(p)) > 1)
  BY SlotsAreNamed
<1>4. Distance(b, n) \in 1..Cardinality(Wans)
  BY <1>2, <1>3 DEF Distance
<1>5. r.hop \in AllHops
  BY <1>1, <1>2, HopsApart
<1>6. Table(MarkOf[p], b) \in TablesOf(p)
  BY DEF TablesOf
<1> QED BY <1>1, <1>3, <1>4, <1>5, <1>6

LEMMA OneDistance ==
  ASSUME IntentOK, NEW p \in Policies, policies[p] # None, NEW r \in RoutesOf(p), NEW q \in RoutesOf(p),
         SameRoute(r, q)
  PROVE  r = q
<1>1. PICK n \in DOMAIN PathsFor(p), b \in Slots(p) :
        /\ r.hop \in hops[PathsFor(p)[n]]
        /\ r = [table |-> Table(MarkOf[p], b), hop |-> r.hop, distance |-> Distance(b, n)]
  BY RouteOf
<1>2. PICK m \in DOMAIN PathsFor(p), c \in Slots(p) :
        /\ q.hop \in hops[PathsFor(p)[m]]
        /\ q = [table |-> Table(MarkOf[p], c), hop |-> q.hop, distance |-> Distance(c, m)]
  BY RouteOf
<1>3. Table(MarkOf[p], b) = Table(MarkOf[p], c) /\ r.hop = q.hop
  BY <1>1, <1>2 DEF SameRoute
<1>4. b = c
  BY <1>3, SlotsAreNamed
<1>5. PathsFor(p)[n] \in Wans /\ PathsFor(p)[m] \in Wans
  BY <1>1, <1>2, PathsAreTheChosen DEF Chosen
<1>6. PathsFor(p)[n] = PathsFor(p)[m]
  BY <1>1, <1>2, <1>3, <1>5, HopsApart
<1>7. n = m
  BY <1>6, PathsAreTheChosen
<1> QED BY <1>1, <1>2, <1>3, <1>4, <1>7

\* One route wanted to a hop in a table, by whoever has the table: where two
\* policies' tables came to one name, nothing is rendered.
LEMMA WantedOnce ==
  ASSUME IntentOK, TablesApart,
         NEW p \in Owners, NEW q \in Owners, NEW r \in RoutesOf(p), NEW s \in RoutesOf(q),
         r.table = s.table
  PROVE  p = q /\ (r.hop = s.hop => r = s)
<1>1. p \in Policies /\ policies[p] # None /\ q \in Policies /\ policies[q] # None
  BY OwnersAreRendered
<1>2. r.table \in TablesOf(p) /\ s.table \in TablesOf(q)
  BY <1>1, RoutesTyped
<1>3. p = q
  BY <1>2 DEF TablesApart
<1> QED BY <1>1, <1>3, OneDistance DEF SameRoute

\* What a probe's scripts would write: a route of a policy that shares it.
LEMMA ProbeOf ==
  ASSUME NEW k \in DOMAIN ProbesWanted, NEW t \in ProbesWanted[k]
  PROVE  \E p \in Owners : \E r \in RoutesOf(p) :
           /\ k = [hop |-> r.hop, sla |-> Fingerprint(Sla(p))]
           /\ t = [table |-> r.table, distance |-> r.distance]
<1>1. PICK p \in Sharing(k) : \E r \in RoutesOf(p) : r.hop = k.hop /\ t = [table |-> r.table, distance |-> r.distance]
  BY DEF ProbesWanted
<1>2. p \in Owners /\ k \in ProbesOf(p)
  BY <1>1 DEF Sharing, Shares
<1>3. PICK h : k = [hop |-> h, sla |-> Fingerprint(Sla(p))]
  BY <1>2 DEF ProbesOf
<1> QED BY <1>1, <1>2, <1>3

\* A shared probe cannot rewrite another policy's distances: what two probes
\* would write of one route is the same probe's, and the same.
LEMMA WantedApart ==
  ASSUME IntentOK, TablesApart,
         NEW k \in DOMAIN ProbesWanted, NEW l \in DOMAIN ProbesWanted,
         NEW t \in ProbesWanted[k], NEW u \in ProbesWanted[l],
         k.hop = l.hop, t.table = u.table
  PROVE  k = l /\ t = u
<1>1. PICK p \in Owners : \E r \in RoutesOf(p) :
        /\ k = [hop |-> r.hop, sla |-> Fingerprint(Sla(p))]
        /\ t = [table |-> r.table, distance |-> r.distance]
  BY ProbeOf
<1>2. PICK r \in RoutesOf(p) : /\ k = [hop |-> r.hop, sla |-> Fingerprint(Sla(p))]
                               /\ t = [table |-> r.table, distance |-> r.distance]
  BY <1>1
<1>3. PICK q \in Owners : \E s \in RoutesOf(q) :
        /\ l = [hop |-> s.hop, sla |-> Fingerprint(Sla(q))]
        /\ u = [table |-> s.table, distance |-> s.distance]
  BY ProbeOf
<1>4. PICK s \in RoutesOf(q) : /\ l = [hop |-> s.hop, sla |-> Fingerprint(Sla(q))]
                               /\ u = [table |-> s.table, distance |-> s.distance]
  BY <1>3
<1>5. r.table = s.table /\ r.hop = s.hop
  BY <1>2, <1>4
<1>6. p = q /\ r = s
  BY <1>5, WantedOnce
<1> QED BY <1>2, <1>4, <1>6

-----------------------------------------------------------------------------
(* Load balancing: a bucket's path is one of the policy's. *)

LEMMA SumIsANumber ==
  ASSUME NEW c \in Nat, NEW s \in [1..c -> Int]
  PROVE  Sum(s) \in Int
<1> DEFINE D == Int
           zero == 0
           step == [x \in (1..c) \X D |-> x[2] + s[x[1]]]
           sum == CHOOSE f : f = [n \in 0..Len(s) |-> IF n = 0 THEN 0 ELSE f[n - 1] + s[n]]
<1>1. Len(s) = c
  OBVIOUS
<1>2. step \in [(1..c) \X D -> D] /\ zero \in D
  OBVIOUS
<1>3. PICK f \in [0..c -> D] : Follows(f, zero, step, c)
  <2> HIDE DEF step, D, zero
  <2> QED BY <1>2, Recursion
<1>4. \A n \in 1..c : f[n] = f[n - 1] + s[n]
  <2> SUFFICES ASSUME NEW n \in 1..c PROVE f[n] = f[n - 1] + s[n]
    OBVIOUS
  <2>1. n - 1 \in 0..c
    OBVIOUS
  <2>2. f[n - 1] \in D /\ f[n] = step[<<n, f[n - 1]>>]
    <3> HIDE DEF step, D
    <3> QED BY <1>3, <2>1 DEF Follows
  <2> QED BY <2>2
<1>5. f = [n \in 0..Len(s) |-> IF n = 0 THEN 0 ELSE f[n - 1] + s[n]]
  <2>1. f[0] = 0
    BY <1>3 DEF Follows
  <2> HIDE DEF step
  <2> QED BY <1>1, <1>3, <1>4, <2>1
<1>6. sum = [n \in 0..Len(s) |-> IF n = 0 THEN 0 ELSE sum[n - 1] + s[n]]
  BY <1>5
<1> HIDE DEF sum, step
<1>7. sum[0] \in D
  BY <1>1, <1>6
<1>8. ASSUME NEW n \in 1..c, sum[n - 1] \in D PROVE sum[n] \in D
  BY <1>1, <1>6, <1>8
<1>9. sum[c] \in D
  <2> HIDE DEF D
  <2>1. \A n \in 0..c : sum[n] \in D
    BY <1>7, <1>8, RecursionStays
  <2> QED BY <2>1
<1> QED BY <1>1, <1>9 DEF Sum, sum

\* What is over is taken one at a time, and numbers stay.
LEMMA TrimmedAreNumbers ==
  ASSUME NEW c \in Nat, NEW counts \in [1..c -> Int]
  PROVE  Trimmed(counts) \in [1..c -> Int]
<1> DEFINE D == [1..c -> Int]
           less(d) == IF d[Largest(d)] = 1 THEN d ELSE [d EXCEPT ![Largest(d)] = @ - 1]
           over == Sum(counts) - MAX_BUCKETS
           step == [x \in (1..over) \X D |-> less(x[2])]
           trim == CHOOSE f : f = [n \in 0..over |-> IF n = 0 THEN counts ELSE less(f[n - 1])]
<1>1. over \in Int
  BY SumIsANumber DEF MAX_BUCKETS
<1>2. CASE ~(over > 0)
  BY <1>2 DEF Trimmed
<1>3. CASE over > 0
  <2>1. ASSUME NEW d \in D PROVE less(d) \in D
    <3> DEFINE i == Largest(d)
    <3>1. CASE i \in 1..c
      <4>1. d[i] - 1 \in Int
        BY <3>1
      <4>2. [d EXCEPT ![i] = d[i] - 1] \in D
        BY <3>1, <4>1
      <4> QED BY <4>2
    <3>2. CASE i \notin 1..c
      <4>1. [d EXCEPT ![i] = @ - 1] = d
        BY <3>2
      <4> QED BY <4>1
    <3> QED BY <3>1, <3>2
  <2> HIDE DEF less, over, D
  <2>2. step \in [(1..over) \X D -> D] /\ \A n \in 1..over, d \in D : step[<<n, d>>] = less(d)
    BY <2>1
  <2>3. over \in Nat /\ counts \in D
    BY <1>1, <1>3 DEF D
  <2>4. PICK f \in [0..over -> D] : Follows(f, counts, step, over)
    <3> HIDE DEF step
    <3> QED BY <2>2, <2>3, Recursion
  <2>5. f = [n \in 0..over |-> IF n = 0 THEN counts ELSE less(f[n - 1])]
    <3> HIDE DEF step
    <3>1. ASSUME NEW n \in 1..over PROVE f[n] = less(f[n - 1])
      <4>1. f[n - 1] \in D /\ f[n] = step[<<n, f[n - 1]>>]
        BY <2>3, <2>4 DEF Follows
      <4> QED BY <2>2, <4>1
    <3> QED BY <2>3, <2>4, <3>1 DEF Follows
  <2>6. trim = [n \in 0..over |-> IF n = 0 THEN counts ELSE less(trim[n - 1])]
    BY <2>5
  <2> HIDE DEF trim
  <2>7. trim[0] \in D
    BY <2>3, <2>6
  <2>8. ASSUME NEW n \in 1..over, trim[n - 1] \in D PROVE trim[n] \in D
    BY <2>1, <2>3, <2>6, <2>8
  <2>9. \A n \in 0..over : trim[n] \in D
    BY <2>3, <2>7, <2>8, RecursionStays
  <2>10. Trimmed(counts) = trim[over]
    BY <1>3 DEF Trimmed, trim, over, less
  <2> QED BY <2>3, <2>9, <2>10 DEF D
<1> QED BY <1>2, <1>3

LEMMA RoundedIsANumber ==
  ASSUME NEW a \in Int, NEW b \in Int, b > 0
  PROVE  Rounded(a, b) \in Int
<1>1. a \div b \in Int
  OBVIOUS
<1> QED BY <1>1 DEF Rounded

LEMMA ScaledAreNumbers ==
  ASSUME NEW c \in Nat, NEW weights \in [1..c -> Int]
  PROVE  Scaled(weights) \in [1..c -> Int]
<1>1. Sum(weights) \in Int
  BY SumIsANumber
<1>2. CASE Sum(weights) <= MAX_BUCKETS
  BY <1>2 DEF Scaled
<1>3. CASE ~(Sum(weights) <= MAX_BUCKETS)
  <2> DEFINE counts == [n \in DOMAIN weights |->
                          IF Rounded(weights[n] * MAX_BUCKETS, Sum(weights)) = 0 THEN 1
                          ELSE Rounded(weights[n] * MAX_BUCKETS, Sum(weights))]
  <2>1. Sum(weights) > 0
    BY <1>1, <1>3 DEF MAX_BUCKETS
  <2>2. \A n \in 1..c : weights[n] * MAX_BUCKETS \in Int
    BY DEF MAX_BUCKETS
  <2>3. \A n \in 1..c : Rounded(weights[n] * MAX_BUCKETS, Sum(weights)) \in Int
    BY <1>1, <2>1, <2>2, RoundedIsANumber
  <2>4. counts \in [1..c -> Int]
    BY <2>3
  <2>5. Scaled(weights) = Trimmed(counts)
    BY <1>3 DEF Scaled
  <2> HIDE DEF counts
  <2> QED BY <2>4, <2>5, TrimmedAreNumbers
<1> QED BY <1>2, <1>3

LEMMA BucketsArePaths ==
  ASSUME IntentOK, NEW p \in Policies, policies[p] # None
  PROVE  Buckets(p) \in Seq(1..Cardinality(Chosen(p)))
<1> DEFINE c == Cardinality(Chosen(p))
<1>1. c \in Nat /\ DOMAIN PathsFor(p) = 1..c
  BY PathsAreTheChosen
<1>2. Members(p) \in Seq(Member)
  BY MembersAreASequence
<1>3. ASSUME NEW m \in DOMAIN Members(p) PROVE Members(p)[m].weight \in Int
  <2>1. Members(p)[m] \in Member
    BY <1>2
  <2> QED BY <2>1 DEF Member
<1>4. Weights(p) \in [1..c -> Int]
  <2> DEFINE named(n) == {m \in DOMAIN Members(p) : Uplink(p, m) = NameOf[PathsFor(p)[n]]}
             weight(n) == IF named(n) = {} THEN 1 ELSE Members(p)[CHOOSE m \in named(n) : TRUE].weight
  <2>1. ASSUME NEW n \in 1..c PROVE weight(n) \in Int
    <3>1. CASE named(n) = {}
      BY <3>1
    <3>2. CASE named(n) # {}
      <4>1. (CHOOSE m \in named(n) : TRUE) \in DOMAIN Members(p)
        BY <3>2
      <4> QED BY <1>3, <3>2, <4>1
    <3> QED BY <3>1, <3>2
  <2>2. Weights(p) = [n \in 1..c |-> weight(n)]
    BY <1>1 DEF Weights
  <2> HIDE DEF weight
  <2> QED BY <2>1, <2>2
<1> HIDE DEF c
<1> DEFINE counts == Scaled(Weights(p))
           parts == [n \in DOMAIN counts |-> [b \in 1..counts[n] |-> n]]
<1>5. counts \in [1..c -> Int]
  BY <1>1, <1>4, ScaledAreNumbers
<1> HIDE DEF counts
<1>6. ASSUME NEW n \in 1..c PROVE [b \in 1..counts[n] |-> n] \in Seq(1..c)
  <2>1. counts[n] \in Int
    BY <1>5
  <2>2. PICK m \in Nat : 1..counts[n] = 1..m
    <3>1. CASE counts[n] \in Nat
      BY <3>1
    <3>2. CASE counts[n] < 0
      <4>1. 1..counts[n] = 1..0
        BY <2>1, <3>2
      <4> QED BY <4>1
    <3> QED BY <2>1, <3>1, <3>2
  <2>3. [b \in 1..m |-> n] \in [1..m -> 1..c]
    OBVIOUS
  <2>4. [b \in 1..m |-> n] \in Seq(1..c)
    BY <2>3, SeqDef
  <2> QED BY <2>2, <2>4
<1>7. parts \in Seq(Seq(1..c))
  BY <1>1, <1>5, <1>6
<1>8. Buckets(p) = FlattenSeq(parts)
  BY DEF Buckets, counts
<1> HIDE DEF parts
<1> QED BY <1>7, <1>8, Flattened DEF c

-----------------------------------------------------------------------------
(* Mangle: a rule routes by a table of a policy that is rendered. *)

Kinds == {"local", "lan", "lan_output", "infra", "sni", "pcc", "route", "mark", "mark_output"}
ChainRow == [of : Policies \cup {None}, kind : Kinds, n : Nat, table : Tables \cup {None}]
RenderedRow == {r \in ChainRow : r.table # None => r.of \in Rendered /\ r.table \in TablesOf(r.of)}

LEMMA PoliciesInOrder ==
  ASSUME IntentOK
  PROVE  /\ InOrder(Rendered, Precedes) \in Seq(Rendered)
         /\ Rendered \subseteq ToSet(InOrder(Rendered, Precedes))
<1> DEFINE At(x) == CHOOSE n \in DOMAIN ByName : ByName[n] = x
           before == [p \in Rendered |-> {q \in Rendered : Precedes(q, p)}]
           c == Cardinality(Rendered)
<1>1. IsFiniteSet(Policies)
  <2>1. ByName \in Surjection(1..Len(ByName), Policies)
    BY SteeringAssumption DEF Policies, ToSet, Surjection
  <2>2. Len(ByName) \in Nat
    BY SteeringAssumption
  <2>3. IsFiniteSet(1..Len(ByName))
    BY <2>2, FS_Interval
  <2> QED BY <2>1, <2>3, FS_Surjection
<1>2. Rendered \in SUBSET Policies /\ IsFiniteSet(Rendered)
  <2>1. Rendered \in SUBSET Policies
    BY DEF Rendered
  <2> QED BY <1>1, <2>1, FS_Subset
<1>3. ASSUME NEW p \in Rendered PROVE At(p) \in Int /\ policies[p].priority \in Int /\ ByName[At(p)] = p
  <2>1. p \in Policies /\ policies[p] # None
    BY DEF Rendered, Enabled
  <2>2. At(p) \in DOMAIN ByName /\ ByName[At(p)] = p
    BY <2>1 DEF Policies, ToSet
  <2>3. At(p) \in Int
    BY <2>2, SteeringAssumption
  <2>4. policies[p].priority \in Int
    BY <2>1 DEF IntentOK, PolicyRow
  <2> QED BY <2>2, <2>3, <2>4
<1>4. \A p, q \in Rendered :
        Precedes(p, q) <=> \/ policies[p].priority < policies[q].priority
                           \/ policies[p].priority = policies[q].priority /\ At(p) < At(q)
  BY DEF Precedes
<1> HIDE DEF At
<1>5. \A p \in Rendered : ~Precedes(p, p)
  BY <1>3, <1>4
<1>6. \A p, q, r \in Rendered : Precedes(p, q) /\ Precedes(q, r) => Precedes(p, r)
  BY <1>3, <1>4
<1>7. \A p, q \in Rendered : p # q => Precedes(p, q) \/ Precedes(q, p)
  BY <1>3, <1>4
<1>8. /\ c \in Nat
      /\ \A n \in 1..c : \E p \in Rendered : Cardinality(before[p]) = n - 1
      /\ \A p, q \in Rendered : Cardinality(before[p]) = Cardinality(before[q]) => p = q
      /\ \A p \in Rendered : \E n \in 1..c : Cardinality(before[p]) = n - 1
  <2>1. \A p \in Rendered : p \notin before[p]
    BY <1>5
  <2>2. \A p, q \in Rendered : q \in before[p] => before[q] \subseteq before[p]
    BY <1>6
  <2>3. \A p, q \in Rendered : p # q => p \in before[q] \/ q \in before[p]
    BY <1>7
  <2>4. before \in [Rendered -> SUBSET Rendered]
    OBVIOUS
  <2> HIDE DEF before
  <2> QED BY <1>2, <2>1, <2>2, <2>3, <2>4, OneAtEveryRank
<1>9. InOrder(Rendered, Precedes) = [n \in 1..c |-> CHOOSE p \in Rendered : Cardinality(before[p]) = n - 1]
  BY DEF InOrder
<1> HIDE DEF before, c
<1>10. InOrder(Rendered, Precedes) \in [1..c -> Rendered]
  BY <1>8, <1>9
<1>11. \A p \in Rendered : \E n \in 1..c : InOrder(Rendered, Precedes)[n] = p
  BY <1>8, <1>9
<1> QED BY <1>8, <1>10, <1>11, SeqDef DEF ToSet

LEMMA IndicesInOrder ==
  ASSUME NEW N \in Nat, NEW I \in SUBSET (1..N)
  PROVE  /\ InOrder(I, LAMBDA i, j : i < j) \in Seq(I)
         /\ I \subseteq ToSet(InOrder(I, LAMBDA i, j : i < j))
<1> DEFINE before == [i \in I |-> {j \in I : j < i}]
           c == Cardinality(I)
<1>1. \A i \in I : i \in Int
  OBVIOUS
<1>2. IsFiniteSet(I)
  <2>1. IsFiniteSet(1..N)
    BY FS_Interval
  <2> QED BY <2>1, FS_Subset
<1>3. /\ c \in Nat
      /\ \A n \in 1..c : \E i \in I : Cardinality(before[i]) = n - 1
      /\ \A i, j \in I : Cardinality(before[i]) = Cardinality(before[j]) => i = j
      /\ \A i \in I : \E n \in 1..c : Cardinality(before[i]) = n - 1
  <2>1. \A i \in I : i \notin before[i]
    BY <1>1
  <2>2. \A i, j \in I : j \in before[i] => before[j] \subseteq before[i]
    <3> SUFFICES ASSUME NEW i \in I, NEW j \in I, NEW k \in I, j < i, k < j PROVE k < i
      OBVIOUS
    <3> QED BY <1>1
  <2>3. \A i, j \in I : i # j => i \in before[j] \/ j \in before[i]
    BY <1>1
  <2>4. before \in [I -> SUBSET I]
    OBVIOUS
  <2> HIDE DEF before
  <2> QED BY <1>2, <2>1, <2>2, <2>3, <2>4, OneAtEveryRank, ZenonT(60)
<1>4. InOrder(I, LAMBDA i, j : i < j) = [n \in 1..c |-> CHOOSE i \in I : Cardinality(before[i]) = n - 1]
  <2>1. \A i \in I : before[i] = {j \in I : j < i}
    OBVIOUS
  <2>2. InOrder(I, LAMBDA i, j : i < j) = [n \in 1..c |-> CHOOSE i \in I : Cardinality({j \in I : j < i}) = n - 1]
    BY DEF InOrder
  <2> QED BY <2>1, <2>2
<1> DEFINE ordered == InOrder(I, LAMBDA i, j : i < j)
<1>5. ordered = [n \in 1..c |-> CHOOSE i \in I : Cardinality(before[i]) = n - 1]
  BY <1>4
<1> HIDE DEF before, c, ordered
<1>6. ordered \in [1..c -> I] /\ \A i \in I : \E n \in 1..c : ordered[n] = i
  BY <1>3, <1>5
<1>7. ordered \in Seq(I) /\ I \subseteq ToSet(ordered)
  BY <1>3, <1>6, SeqDef DEF ToSet
<1> QED BY <1>7 DEF ordered

LEMMA MangleOfRows ==
  ASSUME IntentOK, Renders, NEW p \in Rendered
  PROVE  MangleOf(p) \in Seq(RenderedRow) /\ \E x \in ToSet(MangleOf(p)) : x.of = p
<1> DEFINE m == MarkOf[p]
           c == Cardinality(Chosen(p))
           buckets == Buckets(p)
           classify == [n \in DOMAIN buckets |-> Row(p, "pcc", n, Table(m, buckets[n]))]
           route == [n \in DOMAIN PathsFor(p) |-> Row(p, "route", n, Table(m, n))]
<1>1. p \in Policies /\ policies[p] # None
  BY DEF Rendered, Enabled
<1>2. \A kind \in Kinds, n \in Nat, t \in TablesOf(p) : Row(p, kind, n, t) \in RenderedRow
  <2> SUFFICES ASSUME NEW kind \in Kinds, NEW n \in Nat, NEW t \in TablesOf(p)
               PROVE  Row(p, kind, n, t) \in RenderedRow
    OBVIOUS
  <2>1. t \in Tables
    BY <1>1, SlotsAreNamed DEF TablesOf
  <2>2. Row(p, kind, n, t) \in ChainRow /\ Row(p, kind, n, t).table = t /\ Row(p, kind, n, t).of = p
    BY <1>1, <2>1 DEF Row, ChainRow
  <2> QED BY <2>2 DEF RenderedRow
<1>3. c \in Nat /\ DOMAIN PathsFor(p) = 1..c /\ buckets \in Seq(1..c)
  BY <1>1, PathsAreTheChosen, BucketsArePaths
<1>4. CASE ~policies[p].sni /\ Balanced(p)
  <2>1. \A n \in 1..c : Table(m, n) \in TablesOf(p)
    BY <1>3, <1>4 DEF TablesOf, Slots
  <2>2. Len(buckets) \in Nat /\ DOMAIN buckets = 1..Len(buckets) /\ \A n \in 1..Len(buckets) : buckets[n] \in 1..c
    BY <1>3
  <2> HIDE DEF buckets, c, m
  <2>3. ASSUME NEW n \in 1..Len(buckets) PROVE Row(p, "pcc", n, Table(m, buckets[n])) \in RenderedRow
    <3>1. n \in Nat /\ "pcc" \in Kinds /\ Table(m, buckets[n]) \in TablesOf(p)
      BY <2>1, <2>2 DEF Kinds
    <3> QED BY <1>2, <3>1
  <2>4. ASSUME NEW n \in 1..c PROVE Row(p, "route", n, Table(m, n)) \in RenderedRow
    <3>1. n \in Nat /\ "route" \in Kinds /\ Table(m, n) \in TablesOf(p)
      BY <1>3, <2>1 DEF Kinds
    <3> QED BY <1>2, <3>1
  <2>5. classify \in [1..Len(buckets) -> RenderedRow] /\ route \in [1..c -> RenderedRow]
    BY <1>3, <2>2, <2>3, <2>4
  <2>6. classify \in Seq(RenderedRow) /\ route \in Seq(RenderedRow)
    BY <1>3, <2>2, <2>5, SeqDef
  <2>7. MangleOf(p) = classify \o route
    BY <1>4 DEF MangleOf, buckets, m
  <2>8. 1 \in 1..c
    BY <1>3, <1>4 DEF Balanced
  <2>9. route[1] \in ToSet(route) /\ route[1].of = p
    BY <1>3, <2>8 DEF ToSet, Row
  <2> HIDE DEF classify, route
  <2>10. ToSet(route) \subseteq ToSet(classify \o route)
    BY <2>6, InConcat
  <2> QED BY <2>6, <2>7, <2>9, <2>10, ConcatProperties
<1>5. CASE policies[p].sni \/ ~Balanced(p)
  <2>1. Table(m, 0) \in TablesOf(p)
    BY <1>5 DEF Renders, TablesOf, Slots
  <2> HIDE DEF m
  <2>2. \A kind \in Kinds : Row(p, kind, 0, Table(m, 0)) \in RenderedRow
    BY <1>2, <2>1
  <2>3. MangleOf(p) \in {<<Row(p, "sni", 0, Table(m, 0)), Row(p, "mark", 0, Table(m, 0))>>,
                         <<Row(p, "mark", 0, Table(m, 0)), Row(p, "mark_output", 0, Table(m, 0))>>}
    BY <1>5 DEF MangleOf, m
  <2>4. /\ Row(p, "sni", 0, Table(m, 0)) \in RenderedRow /\ Row(p, "mark", 0, Table(m, 0)) \in RenderedRow
        /\ Row(p, "mark_output", 0, Table(m, 0)) \in RenderedRow
    BY <2>2 DEF Kinds
  <2>5. ASSUME NEW a \in RenderedRow, NEW b \in RenderedRow
        PROVE  <<a, b>> \in Seq(RenderedRow) /\ a \in ToSet(<<a, b>>)
    <3>1. <<a, b>> \in [1..2 -> RenderedRow] /\ 1 \in DOMAIN <<a, b>> /\ <<a, b>>[1] = a
      OBVIOUS
    <3> QED BY <3>1, SeqDef DEF ToSet
  <2>6. \A kind \in Kinds : \A t : Row(p, kind, 0, t).of = p
    BY DEF Row
  <2> QED BY <2>3, <2>4, <2>5, <2>6 DEF Kinds
<1> QED BY <1>4, <1>5

LEMMA MangleRows ==
  ASSUME IntentOK, Renders
  PROVE  Mangle \in Seq(RenderedRow) /\ \A p \in Rendered : \E x \in ToSet(Mangle) : x.of = p
<1> DEFINE inOrder == InOrder(Rendered, Precedes)
           parts == [n \in DOMAIN inOrder |-> MangleOf(inOrder[n])]
<1>1. inOrder \in Seq(Rendered) /\ Rendered \subseteq ToSet(inOrder)
  BY PoliciesInOrder
<1> HIDE DEF inOrder
<1>2. parts \in Seq(Seq(RenderedRow))
  <2>1. \A n \in DOMAIN inOrder : MangleOf(inOrder[n]) \in Seq(RenderedRow)
    BY <1>1, MangleOfRows
  <2>2. Len(inOrder) \in Nat /\ DOMAIN inOrder = 1..Len(inOrder)
    BY <1>1
  <2>3. parts \in [1..Len(inOrder) -> Seq(RenderedRow)]
    BY <2>1, <2>2
  <2> HIDE DEF parts
  <2> QED BY <2>2, <2>3, SeqDef
<1>3. /\ FlattenSeq(parts) \in Seq(RenderedRow)
      /\ \A n \in DOMAIN parts : ToSet(parts[n]) \subseteq ToSet(FlattenSeq(parts))
  <2> HIDE DEF parts
  <2> QED BY <1>2, Flattened
<1>4. Guards \in Seq(RenderedRow)
  <2>1. \A kind \in Kinds : Row(None, kind, 0, None) \in RenderedRow
    <3> SUFFICES ASSUME NEW kind \in Kinds PROVE Row(None, kind, 0, None) \in RenderedRow
      OBVIOUS
    <3> DEFINE x == Row(None, kind, 0, None)
    <3>1. x \in ChainRow /\ x.table = None
      BY DEF Row, ChainRow
    <3> HIDE DEF x
    <3>2. x \in RenderedRow
      BY <3>1 DEF RenderedRow
    <3> QED BY <3>2 DEF x
  <2>2. DOMAIN GuardKinds = 1..4 /\ \A n \in 1..4 : GuardKinds[n] \in Kinds
    <3>1. GuardKinds = <<"local", "lan", "lan_output", "infra">>
      BY DEF GuardKinds
    <3>2. \A n \in {1, 2, 3, 4} : GuardKinds[n] \in {"local", "lan", "lan_output", "infra"}
      BY <3>1
    <3>3. DOMAIN GuardKinds = 1..4
      BY <3>1
    <3>4. \A n \in 1..4 : n \in {1, 2, 3, 4}
      OBVIOUS
    <3> QED BY <3>2, <3>3, <3>4 DEF Kinds
  <2>3. Guards \in [1..4 -> RenderedRow]
    BY <2>1, <2>2 DEF Guards
  <2> QED BY <2>3, SeqDef
<1>5. Mangle = IF inOrder = <<>> THEN <<>> ELSE Guards \o FlattenSeq(parts)
  BY DEF Mangle, inOrder
<1>6. ASSUME NEW p \in Rendered
      PROVE  inOrder # <<>> /\ \E n \in DOMAIN parts : \E x \in ToSet(parts[n]) : x.of = p
  <2>1. PICK n \in DOMAIN inOrder : inOrder[n] = p
    BY <1>1 DEF ToSet
  <2>2. n \in DOMAIN parts /\ parts[n] = MangleOf(p) /\ inOrder # <<>>
    BY <2>1
  <2> QED BY <2>2, MangleOfRows
<1> HIDE DEF parts
<1>7. /\ Guards \o FlattenSeq(parts) \in Seq(RenderedRow)
      /\ ToSet(FlattenSeq(parts)) \subseteq ToSet(Guards \o FlattenSeq(parts))
  BY <1>3, <1>4, ConcatProperties, InConcat
<1>8. ASSUME NEW p \in Rendered PROVE \E x \in ToSet(Mangle) : x.of = p
  BY <1>3, <1>5, <1>6, <1>7
<1> QED BY <1>5, <1>7, <1>8

\* A push leaves no row that is not among those it was given, and a row for each.
LEMMA ChainPushedRows ==
  ASSUME NEW S, chain \in Seq(ChainRow), NEW rows \in Seq(S)
  PROVE  /\ ChainPushed(rows) \in Seq(S)
         /\ \A w \in ToSet(rows) : \E x \in ToSet(ChainPushed(rows)) : SameComment(x, w)
<1> DEFINE wanted == ToSet(rows)
           there == ToSet(chain)
           old == {n \in DOMAIN chain : \E q \in wanted : SameComment(chain[n], q)}
           fresh == {n \in DOMAIN rows : ~\E r \in there : SameComment(r, rows[n])}
           kept == InOrder(old, LAMBDA i, j : i < j)
           new == InOrder(fresh, LAMBDA i, j : i < j)
           first == [n \in DOMAIN kept |-> CHOOSE q \in wanted : SameComment(chain[kept[n]], q)]
           second == [n \in DOMAIN new |-> rows[new[n]]]
<1>1. kept \in Seq(old) /\ old \subseteq ToSet(kept)
  <2>1. Len(chain) \in Nat /\ old \in SUBSET (1..Len(chain))
    OBVIOUS
  <2> HIDE DEF old
  <2> QED BY <2>1, IndicesInOrder
<1>2. new \in Seq(fresh) /\ fresh \subseteq ToSet(new)
  <2>1. Len(rows) \in Nat /\ fresh \in SUBSET (1..Len(rows))
    OBVIOUS
  <2> HIDE DEF fresh
  <2> QED BY <2>1, IndicesInOrder
<1>3. \A q \in wanted : q \in S
  BY DEF ToSet
<1>4. ChainPushed(rows) = first \o second
  BY DEF ChainPushed
<1> HIDE DEF kept, new
<1>5. first \in Seq(S)
  <2>1. \A n \in DOMAIN kept : kept[n] \in old
    BY <1>1
  <2>2. \A n \in DOMAIN kept : (CHOOSE q \in wanted : SameComment(chain[kept[n]], q)) \in wanted
    BY <2>1
  <2>3. Len(kept) \in Nat /\ DOMAIN kept = 1..Len(kept)
    BY <1>1
  <2>4. first \in [1..Len(kept) -> S]
    BY <1>3, <2>2, <2>3
  <2> HIDE DEF first
  <2> QED BY <2>3, <2>4, SeqDef
<1>6. second \in Seq(S)
  <2>1. \A n \in DOMAIN new : rows[new[n]] \in S
    BY <1>2
  <2>2. Len(new) \in Nat /\ DOMAIN new = 1..Len(new)
    BY <1>2
  <2>3. second \in [1..Len(new) -> S]
    BY <2>1, <2>2
  <2> HIDE DEF second
  <2> QED BY <2>2, <2>3, SeqDef
<1>7. ASSUME NEW w \in wanted PROVE \E x \in ToSet(first) \cup ToSet(second) : SameComment(x, w)
  <2>1. PICK m \in DOMAIN rows : rows[m] = w
    BY DEF ToSet
  <2>2. CASE \E r \in there : SameComment(r, w)
    <3>1. PICK r \in there : SameComment(r, w)
      BY <2>2
    <3>2. PICK i \in DOMAIN chain : chain[i] = r
      BY DEF ToSet
    <3>3. i \in old
      BY <3>1, <3>2
    <3>4. PICK n \in DOMAIN kept : kept[n] = i
      BY <1>1, <3>3 DEF ToSet
    <3>5. SameComment(r, first[n]) /\ first[n] \in ToSet(first)
      BY <3>1, <3>2, <3>4 DEF ToSet
    <3>6. SameComment(first[n], w)
      BY <3>1, <3>5 DEF SameComment
    <3> QED BY <3>5, <3>6
  <2>3. CASE ~\E r \in there : SameComment(r, w)
    <3>1. m \in fresh
      BY <2>1, <2>3
    <3>2. PICK n \in DOMAIN new : new[n] = m
      BY <1>2, <3>1 DEF ToSet
    <3>3. second[n] = w /\ second[n] \in ToSet(second)
      BY <2>1, <3>2 DEF ToSet
    <3> QED BY <3>3 DEF SameComment
  <2> QED BY <2>2, <2>3
<1> HIDE DEF first, second
<1>8. ToSet(first) \subseteq ToSet(ChainPushed(rows)) /\ ToSet(second) \subseteq ToSet(ChainPushed(rows))
  BY <1>4, <1>5, <1>6, InConcat
<1> QED BY <1>4, <1>5, <1>6, <1>7, <1>8, ConcatProperties

-----------------------------------------------------------------------------
(* The invariant: the routes of a table are one to a hop; a probe's targets  *)
(* are routes, and no other probe's; once a script of an older configuration *)
(* waits, no probe counts as having written last.                            *)

RouterOK ==
    /\ routes \subseteq RouteRow
    /\ \A k \in DOMAIN probes : probes[k] \subseteq Target
    /\ verdict \in [DOMAIN probes -> {"up", "down", "unknown"}]
    /\ wrote \subseteq DOMAIN probes
    /\ \A s \in waiting : s.targets \subseteq Target

UniqueRoutes == \A r, q \in routes : SameRoute(r, q) => r = q
ProbesRouted ==
    \A k \in DOMAIN probes : \A t \in probes[k] : \E r \in routes : r.table = t.table /\ r.hop = k.hop
ProbesApart ==
    \A k, l \in DOMAIN probes : \A t \in probes[k], u \in probes[l] :
      k.hop = l.hop /\ t.table = u.table => k = l /\ t = u
StaleQuiet == Stale(waiting, probes) # {} => wrote = {}

\* SteeredByOwnStandard, said of all routes that a target names.
Put(k, penalty) ==
    \A t \in probes[k], r \in routes : r.table = t.table /\ r.hop = k.hop => r.distance = penalty + t.distance
Steered ==
    \A k \in wrote : \/ verdict[k] = "down" /\ Put(k, SLA_PENALTY)
                     \/ verdict[k] = "up" /\ (Put(k, 0) \/ Waits(k))

RoutesOK == RouterOK /\ UniqueRoutes /\ ProbesRouted /\ ProbesApart
IInv == IntentOK /\ RoutesOK /\ StaleQuiet /\ Steered

-----------------------------------------------------------------------------
(* A script writes its own targets only. *)

Rewritten(k, targets, penalty, r) ==
    LET To(x) == {t \in targets : t.table = x.table} IN
    IF r.hop = k.hop /\ To(r) # {}
    THEN [r EXCEPT !.distance = penalty + (CHOOSE t \in To(r) : TRUE).distance]
    ELSE r

LEMMA RewrittenRoute ==
  ASSUME NEW k, NEW targets \in SUBSET Target, NEW penalty \in Nat, NEW r \in RouteRow
  PROVE  LET q == Rewritten(k, targets, penalty, r) IN
         /\ q \in RouteRow /\ SameRoute(q, r)
         /\ r.hop = k.hop /\ (\E t \in targets : t.table = r.table) =>
              \E t \in targets : t.table = r.table /\ q.distance = penalty + t.distance
         /\ ~(r.hop = k.hop /\ (\E t \in targets : t.table = r.table)) => q = r
<1> DEFINE to == {t \in targets : t.table = r.table}
           d == (CHOOSE t \in to : TRUE).distance
<1>1. CASE r.hop = k.hop /\ to # {}
  <2>1. (CHOOSE t \in to : TRUE) \in to
    BY <1>1
  <2>2. PICK t \in targets : t.table = r.table /\ d = t.distance
    BY <2>1
  <2>3. Cardinality(Wans) \in Nat
    BY WansAreNumbers
  <2>4. d \in Nat
    BY <2>2, <2>3 DEF Target
  <2> HIDE DEF d
  <2>5. Rewritten(k, targets, penalty, r) = [r EXCEPT !.distance = penalty + d]
    BY <1>1 DEF Rewritten, d
  <2>6. /\ [r EXCEPT !.distance = penalty + d] \in RouteRow
        /\ [r EXCEPT !.distance = penalty + d].distance = penalty + d
        /\ [r EXCEPT !.distance = penalty + d].table = r.table
        /\ [r EXCEPT !.distance = penalty + d].hop = r.hop
    BY <2>4 DEF RouteRow
  <2> QED BY <1>1, <2>2, <2>5, <2>6 DEF SameRoute
<1>2. CASE ~(r.hop = k.hop /\ to # {})
  <2>1. Rewritten(k, targets, penalty, r) = r
    BY <1>2 DEF Rewritten
  <2> QED BY <1>2, <2>1 DEF SameRoute
<1> QED BY <1>1, <1>2

\* Every route stays one route, to the same hop in the same table.
LEMMA WriteKeepsRoutes ==
  ASSUME routes \subseteq RouteRow, UniqueRoutes,
         NEW k, NEW targets \in SUBSET Target, NEW penalty \in Nat, Write(k, targets, penalty)
  PROVE  /\ routes' \subseteq RouteRow /\ UniqueRoutes'
         /\ \A r \in routes : \E q \in routes' : SameRoute(q, r)
         /\ \A q \in routes' : \E r \in routes :
              /\ SameRoute(q, r)
              /\ r.hop = k.hop /\ (\E t \in targets : t.table = r.table) =>
                   \E t \in targets : t.table = r.table /\ q.distance = penalty + t.distance
              /\ ~(r.hop = k.hop /\ (\E t \in targets : t.table = r.table)) => q = r
<1>1. routes' = {Rewritten(k, targets, penalty, r) : r \in routes}
  BY DEF Write, Rewritten
<1>2. ASSUME NEW r \in routes
      PROVE  LET q == Rewritten(k, targets, penalty, r) IN
             /\ q \in RouteRow /\ SameRoute(q, r)
             /\ r.hop = k.hop /\ (\E t \in targets : t.table = r.table) =>
                  \E t \in targets : t.table = r.table /\ q.distance = penalty + t.distance
             /\ ~(r.hop = k.hop /\ (\E t \in targets : t.table = r.table)) => q = r
  BY RewrittenRoute
<1>3. routes' \subseteq RouteRow
  BY <1>1, <1>2
<1>4. UniqueRoutes'
  <2> SUFFICES ASSUME NEW q1 \in routes', NEW q2 \in routes', SameRoute(q1, q2) PROVE q1 = q2
    BY DEF UniqueRoutes, SameRoute
  <2>1. PICK r1 \in routes, r2 \in routes : q1 = Rewritten(k, targets, penalty, r1) /\ q2 = Rewritten(k, targets, penalty, r2)
    BY <1>1
  <2>2. SameRoute(r1, r2)
    BY <1>2, <2>1 DEF SameRoute
  <2> QED BY <2>1, <2>2 DEF UniqueRoutes
<1> QED BY <1>1, <1>2, <1>3, <1>4

\* A probe's script puts its own routes where it says and moves no other probe's.
LEMMA WritePuts ==
  ASSUME RoutesOK, NEW k \in DOMAIN probes, NEW penalty \in Nat, Write(k, probes[k], penalty), UNCHANGED probes
  PROVE  /\ Put(k, penalty)'
         /\ \A l \in DOMAIN probes : \A x \in Nat : l # k /\ Put(l, x) => Put(l, x)'
<1>1. probes[k] \in SUBSET Target /\ routes \subseteq RouteRow /\ UniqueRoutes
  BY DEF RoutesOK, RouterOK
<1>2. \A q \in routes' : \E r \in routes :
        /\ SameRoute(q, r)
        /\ r.hop = k.hop /\ (\E t \in probes[k] : t.table = r.table) =>
             \E t \in probes[k] : t.table = r.table /\ q.distance = penalty + t.distance
        /\ ~(r.hop = k.hop /\ (\E t \in probes[k] : t.table = r.table)) => q = r
  BY <1>1, WriteKeepsRoutes
<1>3. ASSUME NEW t \in probes[k], NEW q \in routes', q.table = t.table, q.hop = k.hop
      PROVE  q.distance = penalty + t.distance
  <2>1. PICK u \in probes[k] : u.table = t.table /\ q.distance = penalty + u.distance
    BY <1>2, <1>3 DEF SameRoute
  <2> QED BY <2>1 DEF RoutesOK, ProbesApart
<1>4. ASSUME NEW l \in DOMAIN probes, NEW x \in Nat, l # k, Put(l, x),
             NEW t \in probes[l], NEW q \in routes', q.table = t.table, q.hop = l.hop
      PROVE  q.distance = x + t.distance
  <2>1. \A u \in probes[k] : ~(u.table = t.table /\ l.hop = k.hop)
    BY <1>4 DEF RoutesOK, ProbesApart
  <2>2. q \in routes
    BY <1>2, <1>4, <2>1 DEF SameRoute
  <2> QED BY <1>4, <2>2 DEF Put
<1>5. Put(k, penalty)'
  BY <1>3 DEF Put
<1>6. ASSUME NEW l \in DOMAIN probes, NEW x \in Nat, l # k, Put(l, x) PROVE Put(l, x)'
  BY <1>4, <1>6 DEF Put
<1> QED BY <1>5, <1>6

LEMMA WriteKeepsConfig ==
  ASSUME RoutesOK, NEW k, NEW targets \in SUBSET Target, NEW penalty \in Nat,
         Write(k, targets, penalty), UNCHANGED probes
  PROVE  routes' \subseteq RouteRow /\ UniqueRoutes' /\ ProbesRouted' /\ ProbesApart'
<1>1. /\ routes' \subseteq RouteRow /\ UniqueRoutes'
      /\ \A r \in routes : \E q \in routes' : SameRoute(q, r)
  BY WriteKeepsRoutes DEF RoutesOK, RouterOK
<1>2. ProbesRouted'
  <2> SUFFICES ASSUME NEW l \in DOMAIN probes, NEW t \in probes[l]
               PROVE  \E q \in routes' : q.table = t.table /\ q.hop = l.hop
    BY DEF ProbesRouted
  <2>1. PICK r \in routes : r.table = t.table /\ r.hop = l.hop
    BY DEF RoutesOK, ProbesRouted
  <2> QED BY <1>1, <2>1 DEF SameRoute
<1>3. ProbesApart'
  BY DEF RoutesOK, ProbesApart
<1> QED BY <1>1, <1>2, <1>3

-----------------------------------------------------------------------------
(* The steps. *)

LEMMA FirstTestKeeps ==
  ASSUME IInv, NEW k, FirstTest(k)
  PROVE  IInv'
<1> USE DEF IInv
<1>1. IntentOK'
  BY DEF FirstTest, IntentOK, intent
<1>2. UNCHANGED <<routes, probes, waiting, wrote>>
  BY DEF FirstTest, config
<1>3. verdict' \in [DOMAIN probes -> {"up", "down", "unknown"}] /\ \A l \in DOMAIN probes : l # k => verdict'[l] = verdict[l]
  BY DEF FirstTest, RoutesOK, RouterOK
<1>4. RoutesOK'
  BY <1>2, <1>3 DEF RoutesOK, RouterOK, UniqueRoutes, ProbesRouted, ProbesApart
<1>5. StaleQuiet'
  BY <1>2 DEF StaleQuiet, Stale
<1>6. Steered'
  <2> SUFFICES ASSUME NEW l \in wrote
               PROVE  \/ verdict'[l] = "down" /\ Put(l, SLA_PENALTY)'
                      \/ verdict'[l] = "up" /\ (Put(l, 0)' \/ Waits(l)')
    BY <1>2 DEF Steered
  <2>1. l \in DOMAIN probes /\ l # k
    BY DEF FirstTest, Steered, RoutesOK, RouterOK
  <2>2. (Put(l, SLA_PENALTY)' <=> Put(l, SLA_PENALTY)) /\ (Put(l, 0)' <=> Put(l, 0)) /\ (Waits(l)' <=> Waits(l))
    BY <1>2 DEF Put, Waits
  <2> QED BY <1>3, <2>1, <2>2 DEF Steered
<1> QED BY <1>1, <1>4, <1>5, <1>6

\* A script that writes for a probe whose status is what it says, and the others
\* as they were: the common part of GoesDown, GoesUp and DelayEnds.
LEMMA ScriptKeepsOthers ==
  ASSUME IInv, NEW k \in DOMAIN probes, NEW penalty \in Nat, Write(k, probes[k], penalty), UNCHANGED probes,
         NEW l \in wrote, l # k, verdict'[l] = verdict[l], Waits(l) => Waits(l)'
  PROVE  \/ verdict'[l] = "down" /\ Put(l, SLA_PENALTY)'
         \/ verdict'[l] = "up" /\ (Put(l, 0)' \/ Waits(l)')
<1>1. \/ verdict[l] = "down" /\ Put(l, SLA_PENALTY)
      \/ verdict[l] = "up" /\ (Put(l, 0) \/ Waits(l))
  BY DEF IInv, Steered
<1>2. l \in DOMAIN probes
  BY DEF IInv, RoutesOK, RouterOK
<1>3. (Put(l, SLA_PENALTY) => Put(l, SLA_PENALTY)') /\ (Put(l, 0) => Put(l, 0)')
  BY <1>2, WritePuts DEF IInv, SLA_PENALTY
<1> QED BY <1>1, <1>3

LEMMA GoesDownKeeps ==
  ASSUME IInv, NEW k, GoesDown(k)
  PROVE  IInv'
<1> USE DEF IInv
<1>1. IntentOK'
  BY DEF GoesDown, IntentOK, intent
<1>2. /\ k \in DOMAIN probes /\ Write(k, probes[k], 100) /\ UNCHANGED <<probes, waiting>>
      /\ verdict' = [verdict EXCEPT ![k] = "down"] /\ LastWord(k) /\ probes[k] \in SUBSET Target
  BY DEF GoesDown, SLA_PENALTY, RoutesOK, RouterOK
<1>3. /\ verdict' \in [DOMAIN probes -> {"up", "down", "unknown"}] /\ verdict'[k] = "down"
      /\ \A l \in DOMAIN probes : l # k => verdict'[l] = verdict[l]
  BY <1>2 DEF RoutesOK, RouterOK
<1>4. wrote' \subseteq wrote \cup {k} /\ (Stale(waiting, probes) # {} => wrote' = wrote)
  BY <1>2 DEF LastWord
<1>5. RoutesOK'
  <2>1. routes' \subseteq RouteRow /\ UniqueRoutes' /\ ProbesRouted' /\ ProbesApart'
    BY <1>2, WriteKeepsConfig
  <2> QED BY <1>2, <1>3, <1>4, <2>1 DEF RoutesOK, RouterOK
<1>6. StaleQuiet'
  BY <1>2, <1>4 DEF StaleQuiet, Stale
<1>7. Steered'
  <2> SUFFICES ASSUME NEW l \in wrote'
               PROVE  \/ verdict'[l] = "down" /\ Put(l, SLA_PENALTY)'
                      \/ verdict'[l] = "up" /\ (Put(l, 0)' \/ Waits(l)')
    BY DEF Steered
  <2>1. CASE l = k
    BY <1>2, <1>3, <2>1, WritePuts DEF SLA_PENALTY
  <2>2. CASE l # k
    <3>1. l \in wrote /\ verdict'[l] = verdict[l] /\ (Waits(l) => Waits(l)')
      BY <1>2, <1>3, <1>4, <2>2 DEF Waits, RoutesOK, RouterOK
    <3> QED BY <1>2, <2>2, <3>1, ScriptKeepsOthers
  <2> QED BY <2>1, <2>2
<1> QED BY <1>1, <1>5, <1>6, <1>7

LEMMA GoesUpKeeps ==
  ASSUME IInv, NEW k, GoesUp(k)
  PROVE  IInv'
<1> USE DEF IInv
<1>1. IntentOK'
  BY DEF GoesUp, IntentOK, intent
<1>2. /\ k \in DOMAIN probes /\ UNCHANGED probes /\ verdict' = [verdict EXCEPT ![k] = "up"]
      /\ probes[k] \in SUBSET Target
  BY DEF GoesUp, RoutesOK, RouterOK
<1>3. /\ verdict' \in [DOMAIN probes -> {"up", "down", "unknown"}] /\ verdict'[k] = "up"
      /\ \A l \in DOMAIN probes : l # k => verdict'[l] = verdict[l]
  BY <1>2 DEF RoutesOK, RouterOK
<1>4. CASE k.sla.recovery = 0
  <2>1. Write(k, probes[k], 0) /\ LastWord(k) /\ UNCHANGED waiting
    BY <1>4 DEF GoesUp
  <2>2. wrote' \subseteq wrote \cup {k} /\ (Stale(waiting, probes) # {} => wrote' = wrote)
    BY <2>1 DEF LastWord
  <2>3. RoutesOK'
    <3>1. routes' \subseteq RouteRow /\ UniqueRoutes' /\ ProbesRouted' /\ ProbesApart'
      BY <1>2, <2>1, WriteKeepsConfig
    <3> QED BY <1>2, <1>3, <2>1, <2>2, <3>1 DEF RoutesOK, RouterOK
  <2>4. StaleQuiet'
    BY <1>2, <2>1, <2>2 DEF StaleQuiet, Stale
  <2>5. Steered'
    <3> SUFFICES ASSUME NEW l \in wrote'
                 PROVE  \/ verdict'[l] = "down" /\ Put(l, SLA_PENALTY)'
                        \/ verdict'[l] = "up" /\ (Put(l, 0)' \/ Waits(l)')
      BY DEF Steered
    <3>1. CASE l = k
      BY <1>2, <1>3, <2>1, <3>1, WritePuts
    <3>2. CASE l # k
      <4>1. l \in wrote /\ verdict'[l] = verdict[l] /\ (Waits(l) => Waits(l)')
        BY <1>3, <2>1, <2>2, <3>2 DEF Waits, RoutesOK, RouterOK
      <4> QED BY <1>2, <2>1, <3>2, <4>1, ScriptKeepsOthers
    <3> QED BY <3>1, <3>2
  <2> QED BY <1>1, <2>3, <2>4, <2>5
<1>5. CASE k.sla.recovery # 0
  <2>1. /\ waiting' = waiting \cup {[probe |-> k, targets |-> probes[k]]}
        /\ UNCHANGED <<routes, wrote>>
    BY <1>5 DEF GoesUp
  <2>2. RoutesOK'
    BY <1>2, <1>3, <2>1 DEF RoutesOK, RouterOK, UniqueRoutes, ProbesRouted, ProbesApart
  <2>3. StaleQuiet'
    BY <1>2, <2>1 DEF StaleQuiet, Stale
  <2>4. Steered'
    <3> SUFFICES ASSUME NEW l \in wrote
                 PROVE  \/ verdict'[l] = "down" /\ Put(l, SLA_PENALTY)'
                        \/ verdict'[l] = "up" /\ (Put(l, 0)' \/ Waits(l)')
      BY <2>1 DEF Steered
    <3>1. Waits(k)'
      <4> DEFINE script == [probe |-> k, targets |-> probes[k]]
      <4>1. script \in waiting' /\ script.probe = k
        BY <2>1
      <4> HIDE DEF script
      <4> QED BY <4>1 DEF Waits
    <3>2. l # k => verdict'[l] = verdict[l]
      BY <1>3 DEF RoutesOK, RouterOK
    <3>3. (Put(l, SLA_PENALTY)' <=> Put(l, SLA_PENALTY)) /\ (Put(l, 0)' <=> Put(l, 0)) /\ (Waits(l) => Waits(l)')
      BY <1>2, <2>1 DEF Put, Waits
    <3> QED BY <1>3, <3>1, <3>2, <3>3 DEF Steered
  <2> QED BY <1>1, <2>2, <2>3, <2>4
<1> QED BY <1>4, <1>5

LEMMA DelayEndsKeeps ==
  ASSUME IInv, NEW s, DelayEnds(s)
  PROVE  IInv'
<1> USE DEF IInv
<1>1. IntentOK'
  BY DEF DelayEnds, IntentOK, intent
<1>2. /\ s \in waiting /\ waiting' = waiting \ {s} /\ UNCHANGED <<probes, verdict>>
      /\ s.targets \in SUBSET Target
  BY DEF DelayEnds, RoutesOK, RouterOK
<1>3. CASE ~StillUp(s)
  <2>1. UNCHANGED <<routes, wrote>>
    BY <1>3 DEF DelayEnds
  <2>2. RoutesOK'
    BY <1>2, <2>1 DEF RoutesOK, RouterOK, UniqueRoutes, ProbesRouted, ProbesApart
  <2>3. StaleQuiet'
    BY <1>2, <2>1 DEF StaleQuiet, Stale
  <2>4. Steered'
    <3> SUFFICES ASSUME NEW l \in wrote
                 PROVE  \/ verdict'[l] = "down" /\ Put(l, SLA_PENALTY)'
                        \/ verdict'[l] = "up" /\ (Put(l, 0)' \/ Waits(l)')
      BY <2>1 DEF Steered
    <3>1. (Put(l, SLA_PENALTY)' <=> Put(l, SLA_PENALTY)) /\ (Put(l, 0)' <=> Put(l, 0)) /\ verdict'[l] = verdict[l]
      BY <1>2, <2>1 DEF Put
    <3>2. l \in DOMAIN probes
      BY DEF RoutesOK, RouterOK
    <3>3. verdict[l] = "up" => l # s.probe
      BY <1>3, <3>2 DEF StillUp
    <3>4. l # s.probe /\ Waits(l) => Waits(l)'
      BY <1>2 DEF Waits
    <3> QED BY <3>1, <3>3, <3>4 DEF Steered
  <2> QED BY <1>1, <2>2, <2>3, <2>4
<1>4. CASE StillUp(s)
  <2>1. /\ Write(s.probe, s.targets, 0) /\ LastWord(s.probe)
        /\ s.probe \in DOMAIN probes /\ verdict[s.probe] = "up"
    BY <1>4 DEF DelayEnds, StillUp
  <2>2. wrote' \subseteq wrote \cup {s.probe} /\ (Stale(waiting, probes) # {} => wrote' = wrote)
    BY <2>1 DEF LastWord
  <2>3. RoutesOK'
    <3>1. routes' \subseteq RouteRow /\ UniqueRoutes' /\ ProbesRouted' /\ ProbesApart'
      BY <1>2, <2>1, WriteKeepsConfig
    <3> QED BY <1>2, <2>1, <2>2, <3>1 DEF RoutesOK, RouterOK
  <2>4. StaleQuiet'
    BY <1>2, <2>2 DEF StaleQuiet, Stale
  <2>5. Steered'
    <3>1. CASE Stale(waiting, probes) # {}
      BY <2>2, <3>1 DEF Steered, StaleQuiet
    <3>2. CASE Stale(waiting, probes) = {}
      <4>1. s.targets = probes[s.probe]
        BY <1>2, <2>1, <3>2 DEF Stale
      <4> SUFFICES ASSUME NEW l \in wrote'
                   PROVE  \/ verdict'[l] = "down" /\ Put(l, SLA_PENALTY)'
                          \/ verdict'[l] = "up" /\ (Put(l, 0)' \/ Waits(l)')
        BY DEF Steered
      <4> DEFINE k == s.probe
      <4>2. k \in DOMAIN probes /\ Write(k, probes[k], 0) /\ UNCHANGED probes
        BY <1>2, <2>1, <4>1
      <4>3. CASE l = k
        <5>1. Put(l, 0)'
          <6> HIDE DEF k
          <6> QED BY <4>2, <4>3, WritePuts
        <5> QED BY <1>2, <2>1, <4>3, <5>1
      <4>4. CASE l # k
        <5>1. l \in wrote /\ verdict'[l] = verdict[l] /\ (Waits(l) => Waits(l)')
          BY <1>2, <2>2, <4>4 DEF Waits
        <5> HIDE DEF k
        <5> QED BY <4>2, <4>4, <5>1, ScriptKeepsOthers
      <4> QED BY <4>3, <4>4
    <3> QED BY <3>1, <3>2
  <2> QED BY <1>1, <2>3, <2>4, <2>5
<1> QED BY <1>3, <1>4

\* A push leaves the distances of the routes it keeps, and of the probes that
\* have written those that still say the same.
LEMMA PushedRoutes ==
  ASSUME IInv, Push
  PROVE  /\ routes' \subseteq RouteRow /\ UniqueRoutes' /\ ProbesRouted' /\ ProbesApart'
         /\ \A k \in DOMAIN probes' : probes'[k] \subseteq Target
         /\ \A q \in routes', r \in routes : SameRoute(q, r) => q = r
         /\ \A q \in RoutesWanted : \E r \in routes' : SameRoute(r, q)
<1> USE DEF IInv
<1> DEFINE asked == RoutesWanted
<1>1. /\ probes' = ProbesWanted /\ TablesApart
      /\ routes' = {r \in routes : \E q \in asked : SameRoute(r, q)}
                     \cup {q \in asked : ~\E r \in routes : SameRoute(r, q)}
  BY DEF Push, RoutesPushed, Renders
<1>2. ASSUME NEW q \in asked PROVE \E p \in Owners : q \in RoutesOf(p)
  BY DEF RoutesWanted
<1>3. Cardinality(Wans) \in Nat
  BY WansAreNumbers
<1>4. ASSUME NEW p \in Owners, NEW q \in RoutesOf(p)
      PROVE  /\ q \in asked /\ q \in RouteRow
             /\ [table |-> q.table, distance |-> q.distance] \in Target
  <2>1. /\ q.table \in Tables /\ q.hop \in AllHops /\ q.distance \in 1..Cardinality(Wans)
        /\ q = [table |-> q.table, hop |-> q.hop, distance |-> q.distance]
    BY OwnersAreRendered, RoutesTyped
  <2>2. q.distance \in Nat
    BY <1>3, <2>1
  <2>3. [table |-> q.table, hop |-> q.hop, distance |-> q.distance] \in RouteRow
    BY <2>1, <2>2 DEF RouteRow
  <2> QED BY <2>1, <2>3 DEF RoutesWanted, Target
<1>5. ASSUME NEW q1 \in asked, NEW q2 \in asked, SameRoute(q1, q2) PROVE q1 = q2
  <2>1. PICK p1 \in Owners : q1 \in RoutesOf(p1)
    BY <1>2
  <2>2. PICK p2 \in Owners : q2 \in RoutesOf(p2)
    BY <1>2
  <2>3. q1.table = q2.table /\ q1.hop = q2.hop
    BY <1>5 DEF SameRoute
  <2> QED BY <1>1, <2>1, <2>2, <2>3, WantedOnce
<1> HIDE DEF asked
<1>6. routes' \subseteq RouteRow
  BY <1>1, <1>2, <1>4 DEF RoutesOK, RouterOK
<1>7. \A q \in routes', r \in routes : SameRoute(q, r) => q = r
  BY <1>1 DEF RoutesOK, UniqueRoutes, SameRoute
<1>8. UniqueRoutes'
  <2> SUFFICES ASSUME NEW q1 \in routes', NEW q2 \in routes', SameRoute(q1, q2) PROVE q1 = q2
    BY DEF UniqueRoutes, SameRoute
  <2>1. CASE q1 \in routes
    BY <1>7, <2>1 DEF SameRoute
  <2>2. CASE q2 \in routes
    BY <1>7, <2>2
  <2>3. CASE q1 \notin routes /\ q2 \notin routes
    BY <1>1, <1>5, <2>3
  <2> QED BY <2>1, <2>2, <2>3
<1>9. ASSUME NEW q \in asked PROVE \E r \in routes' : SameRoute(r, q)
  <2>1. CASE \E r \in routes : SameRoute(r, q)
    BY <1>1, <1>9, <2>1
  <2>2. CASE ~\E r \in routes : SameRoute(r, q)
    BY <1>1, <1>9, <2>2 DEF SameRoute
  <2> QED BY <2>1, <2>2
<1>10. ASSUME NEW k \in DOMAIN ProbesWanted, NEW t \in ProbesWanted[k]
       PROVE  t \in Target /\ \E r \in routes' : r.table = t.table /\ r.hop = k.hop
  <2>1. PICK p \in Owners : \E q \in RoutesOf(p) :
          /\ k = [hop |-> q.hop, sla |-> Fingerprint(Sla(p))]
          /\ t = [table |-> q.table, distance |-> q.distance]
    BY <1>10, ProbeOf
  <2>2. PICK q \in RoutesOf(p) : /\ k = [hop |-> q.hop, sla |-> Fingerprint(Sla(p))]
                                 /\ t = [table |-> q.table, distance |-> q.distance]
    BY <2>1
  <2>3. k.hop = q.hop /\ t.table = q.table
    BY <2>2
  <2>4. q \in asked /\ t \in Target
    BY <1>4, <2>2
  <2> QED BY <1>9, <2>3, <2>4 DEF SameRoute
<1>11. ProbesRouted'
  BY <1>1, <1>10 DEF ProbesRouted
<1>12. ProbesApart'
  BY <1>1, WantedApart DEF ProbesApart
<1>13. \A k \in DOMAIN probes' : probes'[k] \subseteq Target
  BY <1>1, <1>10
<1>14. \A q \in RoutesWanted : \E r \in routes' : SameRoute(r, q)
  BY <1>9 DEF asked
<1> QED BY <1>6, <1>7, <1>8, <1>11, <1>12, <1>13, <1>14

LEMMA PushKeeps ==
  ASSUME IInv, Push
  PROVE  IInv'
<1> USE DEF IInv
<1> DEFINE there == DOMAIN probes \cap DOMAIN probes'
           same == {k \in there : probes[k] = probes'[k]}
<1>1. IntentOK'
  BY DEF Push, IntentOK
<1>2. UNCHANGED waiting
  BY DEF Push
<1>3. PICK going \in {same, there} :
        verdict' = [k \in DOMAIN probes' |-> IF k \in going THEN verdict[k] ELSE "unknown"]
  BY DEF Push
<1>4. wrote' = IF Stale(waiting, probes') = {} THEN wrote \cap same ELSE {}
  BY DEF Push
<1>5. /\ verdict' \in [DOMAIN probes' -> {"up", "down", "unknown"}]
      /\ \A k \in same : k \in DOMAIN probes /\ probes'[k] = probes[k] /\ verdict'[k] = verdict[k]
  BY <1>3 DEF RoutesOK, RouterOK
<1>6. RoutesOK'
  <2>1. wrote' \subseteq DOMAIN probes'
    BY <1>4
  <2> QED BY <1>2, <1>5, <2>1, PushedRoutes DEF RoutesOK, RouterOK
<1>7. StaleQuiet'
  BY <1>2, <1>4 DEF StaleQuiet, Stale
<1>8. Steered'
  <2> SUFFICES ASSUME NEW k \in wrote'
               PROVE  \/ verdict'[k] = "down" /\ Put(k, SLA_PENALTY)'
                      \/ verdict'[k] = "up" /\ (Put(k, 0)' \/ Waits(k)')
    BY DEF Steered
  <2>1. k \in wrote /\ k \in same
    BY <1>4
  <2>2. \A t \in probes[k], q \in routes' : q.table = t.table /\ q.hop = k.hop => q \in routes
    BY <1>5, <2>1, PushedRoutes DEF RoutesOK, ProbesRouted, SameRoute
  <2>3. probes'[k] = probes[k] /\ verdict'[k] = verdict[k] /\ (Waits(k) => Waits(k)')
    BY <1>2, <1>5, <2>1 DEF Waits
  <2>4. (Put(k, SLA_PENALTY) => Put(k, SLA_PENALTY)') /\ (Put(k, 0) => Put(k, 0)')
    BY <2>2, <2>3 DEF Put
  <2> QED BY <2>1, <2>3, <2>4 DEF Steered
<1> QED BY <1>1, <1>6, <1>7, <1>8

LEMMA RebootKeeps ==
  ASSUME IInv, Reboot
  PROVE  IInv'
<1> USE DEF IInv
<1>1. IntentOK'
  BY DEF Reboot, IntentOK, intent
<1>2. /\ UNCHANGED <<routes, probes>> /\ waiting' = {} /\ wrote' = {}
      /\ verdict' = [k \in DOMAIN probes |-> "unknown"]
  BY DEF Reboot, config
<1>3. RoutesOK'
  BY <1>2 DEF RoutesOK, RouterOK, UniqueRoutes, ProbesRouted, ProbesApart
<1>4. StaleQuiet' /\ Steered'
  BY <1>2 DEF StaleQuiet, Stale, Steered
<1> QED BY <1>1, <1>3, <1>4

\* What leaves the router alone, and the intent typed.
LEMMA RouterUntouched ==
  ASSUME IInv, UNCHANGED <<config, runtime>>, IntentOK'
  PROVE  IInv'
<1> USE DEF IInv
<1>1. UNCHANGED <<routes, probes, verdict, waiting, wrote>>
  BY DEF config, runtime
<1>2. RoutesOK'
  BY <1>1 DEF RoutesOK, RouterOK, UniqueRoutes, ProbesRouted, ProbesApart
<1>3. StaleQuiet' /\ Steered'
  BY <1>1 DEF StaleQuiet, Stale, Steered, Put, Waits
<1> QED BY <1>2, <1>3

LEMMA PathChangesKeeps ==
  ASSUME IInv, NEW h, PathChanges(h)
  PROVE  IInv'
<1>1. IntentOK'
  BY DEF IInv, PathChanges, IntentOK, intent
<1> QED BY <1>1, RouterUntouched DEF PathChanges

LEMMA OperatorsKeep ==
  ASSUME IInv, Operators
  PROVE  IInv'
<1>1. UNCHANGED <<config, runtime>>
  BY DEF Operators, CreatePolicy, UpdatePolicy, DeletePolicy, CreateGroup, UpdateGroup, DeleteGroup,
         CreateSla, UpdateSla, DeleteSla, Relink, Edit
<1>2. IntentOK'
  <2>1. ASSUME NEW p \in Policies, CreatePolicy(p) \/ UpdatePolicy(p) \/ DeletePolicy(p) PROVE IntentOK'
    <3>1. UNCHANGED <<groups, hops>> /\ \E row \in PolicyRow \cup {None} : policies' = [policies EXCEPT ![p] = row]
      BY <2>1, SteeringAssumption DEF CreatePolicy, UpdatePolicy, DeletePolicy
    <3> QED BY <3>1 DEF IInv, IntentOK
  <2>2. ASSUME NEW g \in Groups, CreateGroup(g) \/ UpdateGroup(g) \/ DeleteGroup(g) PROVE IntentOK'
    <3>1. UNCHANGED <<policies, hops>> /\ \E row \in GroupRow \cup {None} : groups' = [groups EXCEPT ![g] = row]
      BY <2>2, SteeringAssumption DEF CreateGroup, UpdateGroup, DeleteGroup
    <3> QED BY <3>1 DEF IInv, IntentOK
  <2>3. ASSUME NEW x \in Profiles, CreateSla(x) \/ UpdateSla(x) \/ DeleteSla(x) PROVE IntentOK'
    <3>1. UNCHANGED <<policies, groups, hops>>
      BY <2>3 DEF CreateSla, UpdateSla, DeleteSla
    <3> QED BY <3>1 DEF IInv, IntentOK
  <2>4. ASSUME NEW w \in Wans, Relink(w) PROVE IntentOK'
    <3>1. UNCHANGED <<policies, groups>> /\ \E hs \in HopChoices[w] : hops' = [hops EXCEPT ![w] = hs]
      BY <2>4 DEF Relink
    <3>2. \A hs \in HopChoices[w] : hs \in SUBSET AllHops
      BY DEF AllHops
    <3> QED BY <3>1, <3>2 DEF IInv, IntentOK
  <2> QED BY <2>1, <2>2, <2>3, <2>4 DEF Operators
<1> QED BY <1>1, <1>2, RouterUntouched

-----------------------------------------------------------------------------
(* The theorem. *)

LEMMA InitOK == Init => IInv
<1> SUFFICES ASSUME Init PROVE IInv
  OBVIOUS
<1>1. IntentOK
  BY SteeringAssumption DEF Init, IntentOK
<1>2. routes = {} /\ probes = <<>> /\ verdict = <<>> /\ waiting = {} /\ wrote = {}
  BY DEF Init
<1>3. RoutesOK
  BY <1>2 DEF RoutesOK, RouterOK, UniqueRoutes, ProbesRouted, ProbesApart
<1>4. StaleQuiet /\ Steered
  BY <1>2 DEF StaleQuiet, Stale, Steered
<1> QED BY <1>1, <1>3, <1>4 DEF IInv

LEMMA StepOK == IInv /\ [Next]_vars => IInv'
<1> SUFFICES ASSUME IInv, [Next]_vars PROVE IInv'
  OBVIOUS
<1>1. CASE Push
  BY <1>1, PushKeeps
<1>2. CASE Netwatch
  BY <1>2, FirstTestKeeps, GoesDownKeeps, GoesUpKeeps, DelayEndsKeeps DEF Netwatch
<1>3. CASE Reboot
  BY <1>3, RebootKeeps
<1>4. CASE \E h \in AllHops : PathChanges(h)
  BY <1>4, PathChangesKeeps
<1>5. CASE Operators
  BY <1>5, OperatorsKeep
<1>6. CASE UNCHANGED vars
  <2>1. IntentOK'
    BY <1>6 DEF vars, intent, IInv, IntentOK
  <2> QED BY <1>6, <2>1, RouterUntouched DEF vars
<1> QED BY <1>1, <1>2, <1>3, <1>4, <1>5, <1>6 DEF Next

LEMMA Inv == Spec => []IInv
BY InitOK, StepOK, PTL DEF Spec

\* A target names one route, so what holds of all of them holds of it.
LEMMA RouteOfTarget ==
  ASSUME RoutesOK, NEW k \in DOMAIN probes, NEW t \in probes[k]
  PROVE  /\ RouteTo(t.table, k.hop) \in routes
         /\ RouteTo(t.table, k.hop).table = t.table /\ RouteTo(t.table, k.hop).hop = k.hop
BY DEF RoutesOK, ProbesRouted, RouteTo

LEMMA SteeredIs ==
  ASSUME IInv
  PROVE  SteeredByOwnStandard
<1> SUFFICES ASSUME NEW k \in wrote
             PROVE  \/ verdict[k] = "down" /\ Demoted(k)
                    \/ verdict[k] = "up" /\ (Healthy(k) \/ Waits(k))
  BY DEF SteeredByOwnStandard
<1>1. k \in DOMAIN probes /\ \A t \in probes[k] : t.distance \in Int
  BY WansAreNumbers DEF IInv, RoutesOK, RouterOK, Target
<1>2. Put(k, 0) => Healthy(k)
  BY <1>1, RouteOfTarget DEF IInv, Put, Healthy
<1>3. Put(k, SLA_PENALTY) => Demoted(k)
  BY <1>1, RouteOfTarget DEF IInv, Put, Demoted, SLA_PENALTY
<1> QED BY <1>2, <1>3 DEF IInv, Steered

\* Whatever is edited, pushed, lost or restarted in between, a table's routes
\* follow the status of the probe of its policy's own standard once that probe's
\* scripts have written ("a shared probe cannot rewrite another policy's
\* distances", _health_script and _merge_probes of render/policy.py).
THEOREM SteeredByOwnStandardHolds == Spec => []SteeredByOwnStandard
BY Inv, SteeredIs, PTL

-----------------------------------------------------------------------------
(* Every mark leads somewhere: the second invariant.                         *)

\* Two names with one slug share a mark, and then the second policy's rows may
\* route by a table that is not there (_slug, seen_marks of render_policies).
ChainRouted ==
    \A x \in ToSet(chain) : x.table # None /\ OwnMark(x) => \E q \in routes : q.table = x.table
ChainOK == chain \in Seq(ChainRow) /\ ChainRouted

LEMMA NoneBeforeItself ==
  ASSUME IntentOK, NEW p \in Rendered
  PROVE  ~Precedes(p, p)
<1> DEFINE at == CHOOSE n \in DOMAIN ByName : ByName[n] = p
<1>1. p \in Policies /\ policies[p] # None
  BY DEF Rendered, Enabled
<1>2. at \in DOMAIN ByName
  BY <1>1 DEF Policies, ToSet
<1>3. at \in Int /\ policies[p].priority \in Int
  BY <1>1, <1>2, SteeringAssumption DEF IntentOK, PolicyRow
<1>4. Precedes(p, p) <=> \/ policies[p].priority < policies[p].priority
                         \/ policies[p].priority = policies[p].priority /\ at < at
  BY DEF Precedes
<1> HIDE DEF at
<1> QED BY <1>3, <1>4

\* A policy that has the tables of its mark has a path, a path has a hop, so each
\* of its tables has a route.
LEMMA TableRouted ==
  ASSUME IntentOK, NEW p \in Owners, NEW t \in TablesOf(p)
  PROVE  \E q \in RoutesWanted : q.table = t
<1>1. p \in Policies /\ policies[p] # None /\ Chosen(p) # {}
  BY OwnersAreRendered DEF Rendered
<1>2. 1 \in DOMAIN PathsFor(p) /\ PathsFor(p)[1] \in Chosen(p)
  <2>1. Cardinality(Chosen(p)) # 0 /\ Cardinality(Chosen(p)) \in Nat
    <3>1. Chosen(p) \in SUBSET Wans
      BY DEF Chosen
    <3>2. IsFiniteSet(Chosen(p))
      BY <3>1, SteeringAssumption, FS_Subset
    <3> QED BY <1>1, <3>2, FS_EmptySet, FS_CardinalityType
  <2> QED BY <1>1, <2>1, PathsAreTheChosen
<1>3. PICK h : h \in hops[PathsFor(p)[1]]
  BY <1>2 DEF Chosen
<1>4. PICK b \in Slots(p) : t = Table(MarkOf[p], b)
  BY DEF TablesOf
<1> DEFINE q == [table |-> t, hop |-> h, distance |-> Distance(b, 1)]
<1>5. q \in RoutesOf(p)
  BY <1>2, <1>3, <1>4 DEF RoutesOf
<1>6. q \in RoutesWanted /\ q.table = t
  BY <1>5 DEF RoutesWanted
<1> QED BY <1>6

LEMMA PushRoutesChain ==
  ASSUME IInv, ChainOK, Push
  PROVE  ChainOK'
<1>1. IntentOK /\ Renders /\ chain' = ChainPushed(Mangle)
  BY DEF IInv, Push
<1>2. Mangle \in Seq(RenderedRow) /\ \A p \in Rendered : \E x \in ToSet(Mangle) : x.of = p
  BY <1>1, MangleRows
<1>3. /\ chain' \in Seq(RenderedRow)
      /\ \A w \in ToSet(Mangle) : \E x \in ToSet(chain') : SameComment(x, w)
  BY <1>1, <1>2, ChainPushedRows DEF ChainOK
<1>4. RenderedRow \subseteq ChainRow
  BY DEF RenderedRow
<1>5. ASSUME NEW p \in Rendered PROVE p # None /\ \E y \in ToSet(chain') : y.of = p
  <2>1. p # None
    BY SteeringAssumption DEF Rendered
  <2> QED BY <1>2, <1>3, <2>1 DEF SameComment
<1>6. ASSUME NEW x \in RenderedRow, x.table # None, OwnMark(x)' PROVE \E q \in routes' : q.table = x.table
  <2> DEFINE p == x.of
  <2>1. p \in Rendered /\ x.table \in TablesOf(p)
    BY <1>6 DEF RenderedRow
  <2>2. \A y \in ToSet(chain') : y.of # None /\ y.of # p => MarkOf[y.of] # MarkOf[p]
    BY <1>6 DEF OwnMark
  <2> HIDE DEF p
  <2>3. \A q \in Rendered : q # p => MarkOf[q] # MarkOf[p]
    BY <1>5, <2>2
  <2>4. ~Precedes(p, p)
    BY <1>1, <2>1, NoneBeforeItself
  <2>5. p \in Owners
    BY <2>1, <2>3, <2>4 DEF Owners
  <2>6. PICK q \in RoutesWanted : q.table = x.table
    BY <1>1, <2>1, <2>5, TableRouted
  <2> QED BY <2>6, PushedRoutes DEF SameRoute
<1>7. chain' \in Seq(ChainRow)
  BY <1>3, <1>4
<1>8. ToSet(chain') \subseteq RenderedRow
  BY <1>3 DEF ToSet
<1> QED BY <1>6, <1>7, <1>8 DEF ChainOK, ChainRouted

\* All other steps leave the chain, and to every route its hop and its table.
LEMMA RoutesStand ==
  ASSUME IInv, [Next]_vars, ~Push
  PROVE  UNCHANGED chain /\ \A r \in routes : \E q \in routes' : SameRoute(q, r)
<1>1. UNCHANGED routes => \A r \in routes : \E q \in routes' : SameRoute(q, r)
  BY DEF SameRoute
<1>2. routes \subseteq RouteRow /\ UniqueRoutes
  BY DEF IInv, RoutesOK, RouterOK
<1>3. CASE Netwatch
  <2>1. ASSUME NEW k \in DOMAIN probes, FirstTest(k) \/ GoesDown(k) \/ GoesUp(k)
        PROVE  UNCHANGED chain /\ \A r \in routes : \E q \in routes' : SameRoute(q, r)
    <3>1. UNCHANGED chain
      BY <2>1 DEF FirstTest, GoesDown, GoesUp, config
    <3>2. probes[k] \in SUBSET Target
      BY DEF IInv, RoutesOK, RouterOK
    <3>3. UNCHANGED routes \/ Write(k, probes[k], 100) \/ Write(k, probes[k], 0)
      BY <2>1 DEF FirstTest, GoesDown, GoesUp, config, SLA_PENALTY
    <3> QED BY <1>1, <1>2, <3>1, <3>2, <3>3, WriteKeepsRoutes
  <2>2. ASSUME NEW s \in waiting, DelayEnds(s)
        PROVE  UNCHANGED chain /\ \A r \in routes : \E q \in routes' : SameRoute(q, r)
    <3>1. UNCHANGED chain
      BY <2>2 DEF DelayEnds
    <3>2. s.targets \in SUBSET Target
      BY DEF IInv, RoutesOK, RouterOK
    <3>3. UNCHANGED routes \/ Write(s.probe, s.targets, 0)
      BY <2>2 DEF DelayEnds
    <3> QED BY <1>1, <1>2, <3>1, <3>2, <3>3, WriteKeepsRoutes
  <2> QED BY <1>3, <2>1, <2>2 DEF Netwatch
<1>4. CASE Reboot
  BY <1>1, <1>4 DEF Reboot, config
<1>5. CASE \E h \in AllHops : PathChanges(h)
  BY <1>1, <1>5 DEF PathChanges, config
<1>6. CASE Operators
  <2>1. UNCHANGED config
    BY <1>6 DEF Operators, CreatePolicy, UpdatePolicy, DeletePolicy, CreateGroup, UpdateGroup, DeleteGroup,
           CreateSla, UpdateSla, DeleteSla, Relink, Edit
  <2> QED BY <1>1, <2>1 DEF config
<1>7. CASE UNCHANGED vars
  BY <1>1, <1>7 DEF vars, config
<1> QED BY <1>3, <1>4, <1>5, <1>6, <1>7 DEF Next

LEMMA ChainStaysRouted == Spec => []ChainOK
<1>1. Init => ChainOK
  BY DEF Init, ChainOK, ChainRouted, ToSet
<1>2. IInv /\ ChainOK /\ [Next]_vars => ChainOK'
  <2> SUFFICES ASSUME IInv, ChainOK, [Next]_vars PROVE ChainOK'
    OBVIOUS
  <2>1. CASE Push
    BY <2>1, PushRoutesChain
  <2>2. CASE ~Push
    BY <2>2, RoutesStand DEF ChainOK, ChainRouted, OwnMark, SameRoute
  <2> QED BY <2>1, <2>2
<1> QED BY <1>1, <1>2, Inv, PTL DEF Spec

\* A probe's routes in a table are where its preference there puts them.
Placed(k, t, penalty) ==
    \A r \in routes : r.table = t /\ r.hop = k.hop => r.distance = penalty + Preference(k, t)

\* A route as a probe's status puts it is demoted past every healthy one of its
\* table, since there are not more uplinks than the penalty.
LEMMA BestIsTaken ==
  ASSUME IInv, ChainRouted, Cardinality(Wans) <= SLA_PENALTY
  PROVE  TrafficTakesBestPath
<1>1. ASSUME NEW x \in ToSet(chain), x.table # None, OwnMark(x) PROVE \E q \in routes : q.table = x.table
  BY <1>1 DEF ChainRouted
<1>2. ASSUME NEW t, NEW k \in Deciding(t)
      PROVE  /\ Preference(k, t) \in 1..Cardinality(Wans)
             /\ \/ verdict[k] = "down" /\ Placed(k, t, SLA_PENALTY)
                \/ verdict[k] = "up" /\ Placed(k, t, 0)
  <2>1. k \in wrote /\ ~Waits(k) /\ \E x \in probes[k] : x.table = t
    BY <1>2 DEF Deciding
  <2>2. PICK x \in probes[k] : x.table = t /\ Preference(k, t) = x.distance
    BY <2>1 DEF Preference
  <2>3. x \in Target
    BY <2>1 DEF IInv, RoutesOK, RouterOK
  <2>4. (verdict[k] = "down" /\ Put(k, SLA_PENALTY)) \/ (verdict[k] = "up" /\ (Put(k, 0) \/ Waits(k)))
    BY <2>1 DEF IInv, Steered
  <2>5. \A penalty : Put(k, penalty) => Placed(k, t, penalty)
    BY <2>2 DEF Put, Placed
  <2>6. x.distance \in 1..Cardinality(Wans)
    BY <2>3 DEF Target
  <2> QED BY <2>1, <2>2, <2>4, <2>5, <2>6
<1>3. ASSUME NEW t, NEW k \in Deciding(t), NEW l \in Deciding(t), NEW r \in Taken(t), NEW q \in Live(t),
             r.hop = k.hop, q.hop = l.hop, verdict[l] = "up"
      PROVE  verdict[k] = "up" /\ Preference(k, t) <= Preference(l, t)
  <2>1. r \in routes /\ q \in routes /\ r.table = t /\ q.table = t /\ r.distance <= q.distance
    BY <1>3 DEF Taken, Live
  <2>2. /\ Preference(k, t) \in 1..Cardinality(Wans) /\ Preference(l, t) \in 1..Cardinality(Wans)
        /\ Cardinality(Wans) \in Nat
    BY <1>2, <1>3, WansAreNumbers
  <2>3. q.distance = 0 + Preference(l, t)
    BY <1>2, <1>3, <2>1 DEF Placed
  <2>4. verdict[k] = "down" => r.distance = 100 + Preference(k, t)
    BY <1>2, <1>3, <2>1 DEF Placed, SLA_PENALTY
  <2>5. verdict[k] # "down" => verdict[k] = "up" /\ r.distance = 0 + Preference(k, t)
    BY <1>2, <1>3, <2>1 DEF Placed
  <2>6. Cardinality(Wans) <= 100
    BY DEF SLA_PENALTY
  <2> QED BY <2>1, <2>2, <2>3, <2>4, <2>5, <2>6
<1> QED BY <1>1, <1>3 DEF TrafficTakesBestPath

\* As long as a site has no more uplinks than the penalty, a mark that only one
\* policy of the chain has leads somewhere, and every table's traffic to a path
\* within its SLA, the most preferred, while one is left (render_policies,
\* SLA_PENALTY).
THEOREM TrafficTakesBestPathHolds ==
  ASSUME Cardinality(Wans) <= SLA_PENALTY
  PROVE  Spec => []TrafficTakesBestPath
<1>1. IInv /\ ChainOK => TrafficTakesBestPath
  BY BestIsTaken DEF ChainOK
<1> QED BY <1>1, Inv, ChainStaysRouted, PTL
=============================================================================
