-------------------------- MODULE ShardConfigProofs --------------------------
(***************************************************************************)
(* Theorem about rebalance, for any number of shards and any groups: it    *)
(* divides the shards evenly and no even division moves fewer of them.     *)
(*                                                                         *)
(* The table that rebalance works on is fair at every turn (Fair, below):  *)
(* only the poorest receive, only the richest give.  A fair table that is  *)
(* even moves as few shards as any even one, and one that is not even has  *)
(* moved fewer than there are, so that NShards turns are enough.           *)
(***************************************************************************)
EXTENDS ShardConfig, FiniteSetTheorems, SequenceTheorems, WellFoundedInduction, TLAPS

\* A non-empty set of natural numbers has a least element.
LEMMA LeastNatural ==
  ASSUME NEW T \in SUBSET Nat, T # {}
  PROVE  \E x \in T : \A y \in T : x <= y
<1> DEFINE R == StrictSubsetOrdering(Nat)
           A == {0 .. x : x \in T}
<1>1. IsWellFoundedOn(R, FiniteSubsetsOf(Nat))
  BY FS_StrictSubsetOrderingWellFounded
<1>2. A \subseteq FiniteSubsetsOf(Nat) /\ A # {}
  <2>1. \A x \in T : 0 .. x \subseteq Nat /\ IsFiniteSet(0 .. x)
    BY FS_Interval
  <2> QED BY <2>1 DEF FiniteSubsetsOf
<1>3. PICK U \in A : \A V \in A : <<V, U>> \notin R
  <2> HIDE DEF A, R
  <2> QED BY <1>1, <1>2, WFMin
<1>4. PICK x \in T : U = 0 .. x
  OBVIOUS
<1>5. \A y \in T : x <= y
  <2> SUFFICES ASSUME NEW y \in T, y < x PROVE FALSE
    OBVIOUS
  <2>1. 0 .. y \subseteq 0 .. x /\ x \in 0 .. x /\ x \notin 0 .. y
    OBVIOUS
  <2>2. <<0 .. y, 0 .. x>> \in R
    BY <2>1 DEF StrictSubsetOrdering
  <2> QED BY <2>2, <1>3, <1>4
<1> QED BY <1>5

\* A set fits into another that has no fewer elements.
LEMMA SmallerFits ==
  ASSUME NEW A, NEW B, IsFiniteSet(A), IsFiniteSet(B), Cardinality(A) <= Cardinality(B)
  PROVE  \E i : i \in Injection(A, B)
<1>1. PICK n, m : n = Cardinality(A) /\ m = Cardinality(B)
  OBVIOUS
<1>2. n \in Nat /\ m \in Nat /\ n <= m
  BY <1>1, FS_CardinalityType
<1>3. PICK p : p \in Bijection(1 .. n, A)
  BY <1>1, FS_CardinalityType DEF ExistsBijection
<1>4. PICK q : q \in Bijection(1 .. m, B)
  BY <1>1, FS_CardinalityType DEF ExistsBijection
<1>5. /\ p \in [1 .. n -> A] /\ \A a \in A : \E k \in 1 .. n : p[k] = a
      /\ q \in [1 .. m -> B] /\ \A j, k \in 1 .. m : q[j] = q[k] => j = k
  BY <1>3, <1>4 DEF Bijection, Injection, Surjection, IsInjective
<1> DEFINE place == [a \in A |-> CHOOSE k \in 1 .. n : p[k] = a]
<1>6. place \in [A -> 1 .. m] /\ \A a \in A : p[place[a]] = a
  <2>1. \A a \in A : place[a] \in 1 .. n /\ p[place[a]] = a
    BY <1>5
  <2>2. 1 .. n \subseteq 1 .. m
    BY <1>2
  <2> QED BY <2>1, <2>2
<1> HIDE DEF place
<1> DEFINE i == [a \in A |-> q[place[a]]]
<1>7. i \in [A -> B]
  BY <1>5, <1>6
<1>8. ASSUME NEW a \in A, NEW b \in A, i[a] = i[b]
      PROVE  a = b
  <2>1. place[a] = place[b]
    BY <1>5, <1>6, <1>8
  <2> QED BY <1>6, <2>1
<1>9. i \in Injection(A, B)
  BY <1>7, <1>8 DEF Injection, IsInjective
<1> QED BY <1>9

\* The elements of a colour.
Coloured(S, f, k) == {x \in S : f[x] = k}

\* One set has no more elements than another if it has no more of every colour.
LEMMA ColourByColour ==
  ASSUME NEW S, NEW T, IsFiniteSet(S), IsFiniteSet(T), NEW G, NEW f \in [S -> G], NEW g \in [T -> G],
         \A k \in G : Cardinality(Coloured(S, f, k)) <= Cardinality(Coloured(T, g, k))
  PROVE  Cardinality(S) <= Cardinality(T)
<1> DEFINE SS(k) == Coloured(S, f, k)
           TT(k) == Coloured(T, g, k)
           fit == [k \in G |-> CHOOSE i : i \in Injection(SS(k), TT(k))]
<1>1. \A k \in G : fit[k] \in Injection(SS(k), TT(k))
  <2> TAKE k \in G
  <2>1. IsFiniteSet(SS(k)) /\ IsFiniteSet(TT(k))
    BY FS_Subset DEF Coloured
  <2>2. Cardinality(SS(k)) <= Cardinality(TT(k))
    OBVIOUS
  <2> HIDE DEF SS, TT
  <2>3. \E i : i \in Injection(SS(k), TT(k))
    BY <2>1, <2>2, SmallerFits
  <2> QED BY <2>3
<1> HIDE DEF fit
<1>2. \A k \in G : /\ fit[k] \in [SS(k) -> TT(k)]
                   /\ \A x, y \in SS(k) : fit[k][x] = fit[k][y] => x = y
  BY <1>1 DEF Injection, IsInjective
<1> DEFINE h == [x \in S |-> fit[f[x]][x]]
<1>3. \A x \in S : h[x] \in T /\ g[h[x]] = f[x]
  <2> TAKE x \in S
  <2>1. PICK k \in G : k = f[x]
    OBVIOUS
  <2>2. x \in SS(k)
    BY <2>1 DEF Coloured
  <2>3. fit[k][x] \in TT(k)
    BY <1>2, <2>2
  <2> QED BY <2>1, <2>3 DEF Coloured
<1>4. ASSUME NEW x \in S, NEW y \in S, h[x] = h[y]
      PROVE  x = y
  <2>1. PICK k \in G : k = f[x] /\ k = f[y]
    BY <1>3, <1>4
  <2>2. x \in SS(k) /\ y \in SS(k)
    BY <2>1 DEF Coloured
  <2>3. fit[k][x] = fit[k][y]
    BY <1>4, <2>1
  <2> QED BY <1>2, <2>2, <2>3
<1>5. h \in [S -> T]
  BY <1>3
<1> HIDE DEF h
<1>6. h \in Injection(S, T)
  BY <1>4, <1>5 DEF Injection, IsInjective
<1> QED BY <1>6, FS_Injection

\* If it has no more of every colour and fewer of one, it has fewer elements.
LEMMA FewerOfOneColour ==
  ASSUME NEW S, NEW T, IsFiniteSet(S), IsFiniteSet(T), NEW G, NEW f \in [S -> G], NEW g \in [T -> G],
         \A k \in G : Cardinality(Coloured(S, f, k)) <= Cardinality(Coloured(T, g, k)),
         NEW c \in G, Cardinality(Coloured(S, f, c)) < Cardinality(Coloured(T, g, c))
  PROVE  Cardinality(S) < Cardinality(T)
<1> DEFINE SS(k) == Coloured(S, f, k)
           TT(k) == Coloured(T, g, k)
<1>1. \A k \in G : /\ IsFiniteSet(SS(k)) /\ Cardinality(SS(k)) \in Nat
                   /\ IsFiniteSet(TT(k)) /\ Cardinality(TT(k)) \in Nat
  <2> TAKE k \in G
  <2>1. IsFiniteSet(SS(k)) /\ IsFiniteSet(TT(k))
    BY FS_Subset DEF Coloured
  <2> HIDE DEF SS, TT
  <2> QED BY <2>1, FS_CardinalityType
<1>2. PICK y : y \in TT(c)
  <2>1. TT(c) # {}
    <3> HIDE DEF SS, TT
    <3>1. Cardinality(SS(c)) < Cardinality(TT(c))
      BY DEF SS, TT
    <3> QED BY <1>1, <3>1, FS_EmptySet
  <2> QED BY <2>1
<1> DEFINE R == T \ {y}
           r == [x \in R |-> g[x]]
           RR(k) == Coloured(R, r, k)
<1>3. IsFiniteSet(R) /\ Cardinality(R) = Cardinality(T) - 1 /\ r \in [R -> G]
  <2>1. y \in T
    BY <1>2 DEF Coloured
  <2> QED BY <2>1, FS_RemoveElement
<1>4. \A k \in G : Cardinality(SS(k)) <= Cardinality(RR(k))
  <2> TAKE k \in G
  <2>1. Cardinality(SS(k)) <= Cardinality(TT(k))
    OBVIOUS
  <2>2. CASE k = c
    <3>1. RR(k) = TT(k) \ {y} /\ y \in TT(k)
      BY <1>2, <2>2 DEF Coloured
    <3>2. Cardinality(RR(k)) = Cardinality(TT(k)) - 1
      <4> HIDE DEF RR, TT
      <4> QED BY <1>1, <3>1, FS_RemoveElement
    <3>3. Cardinality(SS(k)) < Cardinality(TT(k))
      BY <2>2
    <3> HIDE DEF RR, TT, SS
    <3> QED BY <1>1, <3>2, <3>3
  <2>3. CASE k # c
    <3>1. RR(k) = TT(k)
      BY <1>2, <2>3 DEF Coloured
    <3> QED BY <2>1, <3>1
  <2> QED BY <2>2, <2>3
<1>5. Cardinality(S) <= Cardinality(R)
  <2> HIDE DEF R, r
  <2> QED BY <1>3, <1>4, ColourByColour
<1> QED BY <1>3, <1>5, FS_CardinalityType

(***************************************************************************)
(* Tables of shards.                                                       *)
(***************************************************************************)
Load(shards, g) == Cardinality({x \in Shard : shards[x] = g})
Moved(old, new) == {x \in Shard : old[x] # new[x]}

Receives(old, new, g) == \E x \in Shard : new[x] = g /\ old[x] # g
Gives(old, new, g) == \E x \in Shard : old[x] = g /\ new[x] # g

EvenOver(shards, members) == \A g, h \in members : Load(shards, g) <= Load(shards, h) + 1

\* What rebalance maintains of the table it makes, new, and the one it started from.
\* Who has received a shard has at most one more than anybody else, who has given one away
\* has at most one less, nobody does both, and nobody receives more than a giver keeps.
Fair(old, new, members) ==
  /\ new \in [Shard -> members]
  /\ \A g, h \in members :
       /\ Receives(old, new, h) => Load(new, h) <= Load(new, g) + 1
       /\ Gives(old, new, g) => Load(new, h) <= Load(new, g) + 1 /\ ~Receives(old, new, g)
       /\ Gives(old, new, g) /\ Receives(old, new, h) => Load(new, h) <= Load(new, g)

\* There are NShards shards.
LEMMA ShardsFinite == IsFiniteSet(Shard) /\ Cardinality(Shard) = NShards
<1>1. NShards \in Nat /\ NShards > 0
  BY ShardConfigAssumption
<1> QED BY <1>1, FS_Interval DEF Shard

\* A load is a number.
LEMMA LoadType ==
  ASSUME NEW t, NEW g
  PROVE  Load(t, g) \in Nat /\ IsFiniteSet({x \in Shard : t[x] = g})
<1>1. IsFiniteSet({x \in Shard : t[x] = g})
  BY ShardsFinite, FS_Subset
<1> QED BY <1>1, FS_CardinalityType DEF Load

\* When a shard changes hands, one has a shard more, one has a shard less, nobody else notices.
LEMMA LoadMoves ==
  ASSUME NEW X, NEW t \in [Shard -> X], NEW x \in Shard, NEW p \in X, t[x] # p,
         NEW u, u[x] = p, \A y \in Shard : y # x => u[y] = t[y]
  PROVE  /\ Load(u, p) = Load(t, p) + 1
         /\ Load(u, t[x]) = Load(t, t[x]) - 1
         /\ \A g : g # p /\ g # t[x] => Load(u, g) = Load(t, g)
<1> DEFINE T(g) == {y \in Shard : t[y] = g}
           U(g) == {y \in Shard : u[y] = g}
<1>1. \A g : IsFiniteSet(T(g)) /\ Load(t, g) = Cardinality(T(g))
           /\ Load(u, g) = Cardinality(U(g))
  BY LoadType DEF Load
<1>2. U(p) = T(p) \cup {x} /\ x \notin T(p)
  OBVIOUS
<1>3. U(t[x]) = T(t[x]) \ {x} /\ x \in T(t[x])
  OBVIOUS
<1>4. \A g : g # p /\ g # t[x] => U(g) = T(g)
  OBVIOUS
<1> HIDE DEF T, U
<1>5. Load(u, p) = Load(t, p) + 1
  BY <1>1, <1>2, FS_AddElement
<1>6. Load(u, t[x]) = Load(t, t[x]) - 1
  BY <1>1, <1>3, FS_RemoveElement
<1>7. \A g : g # p /\ g # t[x] => Load(u, g) = Load(t, g)
  BY <1>1, <1>4
<1> QED BY <1>5, <1>6, <1>7

\* Who gets a shard has one more, whoever had it before.
LEMMA LoadGains ==
  ASSUME NEW t, NEW u, NEW x \in Shard, NEW p, t[x] # p, u[x] = p, \A y \in Shard : y # x => u[y] = t[y]
  PROVE  Load(u, p) = Load(t, p) + 1
<1> DEFINE T == {y \in Shard : t[y] = p}
           U == {y \in Shard : u[y] = p}
<1>1. IsFiniteSet(T) /\ Load(t, p) = Cardinality(T) /\ Load(u, p) = Cardinality(U)
  BY LoadType DEF Load
<1>2. U = T \cup {x} /\ x \notin T
  OBVIOUS
<1> HIDE DEF T, U
<1> QED BY <1>1, <1>2, FS_AddElement

\* Who neither loses nor gets the shard has as many as before.
LEMMA LoadStays ==
  ASSUME NEW t, NEW u, NEW x \in Shard, NEW h, t[x] # h, u[x] # h,
         \A y \in Shard : y # x => u[y] = t[y]
  PROVE  Load(u, h) = Load(t, h)
<1>1. {y \in Shard : t[y] = h} = {y \in Shard : u[y] = h}
  OBVIOUS
<1> QED BY <1>1 DEF Load

\* A load, as the lemmas about colours count it.
LEMMA LoadIs == ASSUME NEW t, NEW g PROVE Load(t, g) = Cardinality(Coloured(Shard, t, g))
BY DEF Load, Coloured

\* No table gives everybody at least as much as another does, and somebody more.
LEMMA NoneOutweighs ==
  ASSUME NEW M, NEW a \in [Shard -> M], NEW b \in [Shard -> M],
         \A k \in M : Load(a, k) <= Load(b, k), NEW c \in M
  PROVE  Load(a, c) = Load(b, c)
<1> SUFFICES ASSUME Load(a, c) # Load(b, c) PROVE FALSE
  OBVIOUS
<1>1. Load(a, c) < Load(b, c)
  <2>1. Load(a, c) \in Nat /\ Load(b, c) \in Nat
    BY LoadType
  <2> QED BY <2>1
<1>2. \A k \in M : Cardinality(Coloured(Shard, a, k)) <= Cardinality(Coloured(Shard, b, k))
  BY LoadIs
<1>3. Cardinality(Coloured(Shard, a, c)) < Cardinality(Coloured(Shard, b, c))
  BY <1>1, LoadIs
<1>4. NShards < NShards
  BY <1>2, <1>3, ShardsFinite, FewerOfOneColour
<1> QED BY <1>4, ShardConfigAssumption

\* Who has more than somebody else in one even table has no more in any other.
LEMMA RichInEvery ==
  ASSUME NEW M, NEW a \in [Shard -> M], NEW b \in [Shard -> M], EvenOver(a, M), EvenOver(b, M),
         NEW g \in M, NEW h \in M, Load(a, h) < Load(a, g)
  PROVE  Load(b, g) <= Load(a, g)
<1>1. \A k \in M : Load(a, k) \in Nat /\ Load(b, k) \in Nat
  BY LoadType
<1> SUFFICES ASSUME Load(a, g) < Load(b, g) PROVE FALSE
  BY <1>1
<1>2. \A k \in M : Load(a, k) <= Load(b, k)
  <2> TAKE k \in M
  <2>1. Load(a, k) <= Load(a, h) + 1 /\ Load(b, g) <= Load(b, k) + 1
    BY DEF EvenOver
  <2> QED BY <1>1, <2>1
<1>3. Load(a, g) = Load(b, g)
  BY <1>2, NoneOutweighs
<1> QED BY <1>1, <1>3

\* Nobody has less in an even table than the poorest in another.
LEMMA PoorInEvery ==
  ASSUME NEW M, NEW a \in [Shard -> M], NEW b \in [Shard -> M], EvenOver(b, M),
         NEW g \in M, \A k \in M : Load(a, g) <= Load(a, k), NEW h \in M
  PROVE  Load(a, g) <= Load(b, h)
<1>1. \A k \in M : Load(a, k) \in Nat /\ Load(b, k) \in Nat
  BY LoadType
<1> SUFFICES ASSUME Load(b, h) < Load(a, g) PROVE FALSE
  BY <1>1
<1>2. \A k \in M : Load(b, k) <= Load(a, k)
  <2> TAKE k \in M
  <2>1. Load(b, k) <= Load(b, h) + 1 /\ Load(a, g) <= Load(a, k)
    BY DEF EvenOver
  <2> QED BY <1>1, <2>1
<1>3. Load(b, h) = Load(a, h)
  BY <1>2, NoneOutweighs
<1> QED BY <1>1, <1>3

\* There are finitely many moves.
LEMMA MovedFinite ==
  ASSUME NEW old, NEW new
  PROVE  /\ IsFiniteSet(Moved(old, new)) /\ Cardinality(Moved(old, new)) \in Nat
         /\ Moved(old, new) \subseteq Shard
<1>1. IsFiniteSet(Moved(old, new)) /\ Moved(old, new) \subseteq Shard
  BY ShardsFinite, FS_Subset DEF Moved
<1> QED BY <1>1, FS_CardinalityType

\* Counting moves by where they start: nobody has to give more than the givers do.
LEMMA FewestGiven ==
  ASSUME NEW G, NEW M, NEW old \in [Shard -> G], NEW a \in [Shard -> M], NEW b \in [Shard -> M],
         \A g \in M : Gives(old, a, g) => ~Receives(old, a, g) /\ Load(b, g) <= Load(a, g)
  PROVE  Cardinality(Moved(old, a)) <= Cardinality(Moved(old, b))
<1> DEFINE S == Moved(old, a)
           T == Moved(old, b)
           f == [x \in S |-> old[x]]
           g == [x \in T |-> old[x]]
<1>1. S \subseteq Shard /\ IsFiniteSet(S) /\ T \subseteq Shard /\ IsFiniteSet(T)
  BY MovedFinite
<1>2. f \in [S -> G] /\ g \in [T -> G]
  BY <1>1
<1>3. \A k \in G : Cardinality(Coloured(S, f, k)) <= Cardinality(Coloured(T, g, k))
  <2> TAKE k \in G
  <2> DEFINE O == Coloured(Shard, old, k)
             A == Coloured(Shard, a, k)
             B == Coloured(Shard, b, k)
  <2>1. Coloured(S, f, k) = O \ A /\ Coloured(T, g, k) = O \ B
    BY <1>1 DEF Coloured, Moved
  <2>2. IsFiniteSet(O) /\ IsFiniteSet(A) /\ IsFiniteSet(B)
    BY ShardsFinite, FS_Subset DEF Coloured
  <2>3. /\ Load(a, k) = Cardinality(A) /\ Load(b, k) = Cardinality(B)
        /\ Cardinality(O) \in Nat /\ Cardinality(A) \in Nat /\ Cardinality(B) \in Nat
    BY <2>2, LoadIs, FS_CardinalityType
  <2>4. /\ Cardinality(O \ A) = Cardinality(O) - Cardinality(O \cap A)
        /\ Cardinality(O \ B) = Cardinality(O) - Cardinality(O \cap B)
        /\ Cardinality(O \cap B) <= Cardinality(B)
        /\ Cardinality(O \cap A) \in Nat /\ Cardinality(O \cap B) \in Nat
        /\ Cardinality(O \ A) \in Nat /\ Cardinality(O \ B) \in Nat
    BY <2>2, FS_Difference, FS_Intersection, FS_CardinalityType
  <2>5. CASE k \notin M
    <3>1. O \ A = O /\ O \ B = O
      BY <2>5 DEF Coloured
    <3> HIDE DEF S, T, f, g, O, A, B
    <3> QED BY <2>1, <2>4, <3>1
  <2>6. CASE k \in M /\ ~Gives(old, a, k)
    <3>1. O \ A = {}
      BY <2>6 DEF Coloured, Gives
    <3> HIDE DEF S, T, f, g, O, A, B
    <3>2. Cardinality(O \ A) = 0
      BY <3>1, FS_EmptySet
    <3>3. Cardinality(O \ A) <= Cardinality(O \ B)
      BY <2>4, <3>2
    <3> QED BY <2>1, <3>3
  <2>7. CASE k \in M /\ Gives(old, a, k)
    <3>1. O \cap A = A
      BY <2>7 DEF Coloured, Receives
    <3>2. Cardinality(B) <= Cardinality(A)
      BY <2>3, <2>7
    <3> HIDE DEF S, T, f, g, O, A, B
    <3>3. Cardinality(O \ A) <= Cardinality(O \ B)
      <4>1. Cardinality(O \cap A) = Cardinality(A)
        BY <3>1
      <4>2. Cardinality(O \cap B) <= Cardinality(O \cap A)
        BY <2>3, <2>4, <3>2, <4>1
      <4> QED BY <2>3, <2>4, <4>2
    <3> QED BY <2>1, <3>3
  <2> QED BY <2>5, <2>6, <2>7
<1> HIDE DEF S, T, f, g
<1>4. Cardinality(S) <= Cardinality(T)
  BY <1>1, <1>2, <1>3, ColourByColour
<1> QED BY <1>4 DEF S, T

\* Counting moves by where they end: nobody has to receive more than the receivers do.
LEMMA FewestReceived ==
  ASSUME NEW M, NEW old, NEW a \in [Shard -> M], NEW b \in [Shard -> M],
         \A h \in M : Receives(old, a, h) => ~Gives(old, a, h) /\ Load(a, h) <= Load(b, h)
  PROVE  Cardinality(Moved(old, a)) <= Cardinality(Moved(old, b))
<1> DEFINE S == Moved(old, a)
           T == Moved(old, b)
           f == [x \in S |-> a[x]]
           g == [x \in T |-> b[x]]
<1>1. S \subseteq Shard /\ IsFiniteSet(S) /\ T \subseteq Shard /\ IsFiniteSet(T)
  BY MovedFinite
<1>2. f \in [S -> M] /\ g \in [T -> M]
  BY <1>1
<1>3. \A k \in M : Cardinality(Coloured(S, f, k)) <= Cardinality(Coloured(T, g, k))
  <2> TAKE k \in M
  <2> DEFINE O == Coloured(Shard, old, k)
             A == Coloured(Shard, a, k)
             B == Coloured(Shard, b, k)
  <2>1. Coloured(S, f, k) = A \ O /\ Coloured(T, g, k) = B \ O
    BY <1>1 DEF Coloured, Moved
  <2>2. IsFiniteSet(O) /\ IsFiniteSet(A) /\ IsFiniteSet(B)
    BY ShardsFinite, FS_Subset DEF Coloured
  <2>3. /\ Load(a, k) = Cardinality(A) /\ Load(b, k) = Cardinality(B)
        /\ Cardinality(O) \in Nat /\ Cardinality(A) \in Nat /\ Cardinality(B) \in Nat
    BY <2>2, LoadIs, FS_CardinalityType
  <2>4. /\ Cardinality(A \ O) = Cardinality(A) - Cardinality(A \cap O)
        /\ Cardinality(B \ O) = Cardinality(B) - Cardinality(B \cap O)
        /\ Cardinality(B \cap O) <= Cardinality(O)
        /\ Cardinality(A \cap O) \in Nat /\ Cardinality(B \cap O) \in Nat
        /\ Cardinality(A \ O) \in Nat /\ Cardinality(B \ O) \in Nat
    BY <2>2, FS_Difference, FS_Intersection, FS_CardinalityType
  <2>5. CASE ~Receives(old, a, k)
    <3>1. A \ O = {}
      BY <2>5 DEF Coloured, Receives
    <3> HIDE DEF S, T, f, g, O, A, B
    <3> QED BY <2>1, <2>4, <3>1, FS_EmptySet
  <2>6. CASE Receives(old, a, k)
    <3>1. A \cap O = O
      BY <2>6 DEF Coloured, Gives
    <3>2. Cardinality(A) <= Cardinality(B)
      BY <2>3, <2>6
    <3> HIDE DEF S, T, f, g, O, A, B
    <3> QED BY <2>1, <2>3, <2>4, <3>1, <3>2
  <2> QED BY <2>5, <2>6
<1> HIDE DEF S, T, f, g
<1>4. Cardinality(S) <= Cardinality(T)
  BY <1>1, <1>2, <1>3, ColourByColour
<1> QED BY <1>4 DEF S, T

\* No even table is reached with fewer moves than a fair one.
LEMMA FairMovesFewest ==
  ASSUME NEW G, NEW M, NEW old \in [Shard -> G], NEW a, Fair(old, a, M), EvenOver(a, M),
         NEW b \in [Shard -> M], EvenOver(b, M)
  PROVE  Cardinality(Moved(old, a)) <= Cardinality(Moved(old, b))
<1>1. a \in [Shard -> M]
  BY DEF Fair
<1>2. CASE \A g \in M : Gives(old, a, g) => \E h \in M : Load(a, h) < Load(a, g)
  <2>1. \A g \in M : Gives(old, a, g) => ~Receives(old, a, g) /\ Load(b, g) <= Load(a, g)
    <3> TAKE g \in M
    <3> HAVE Gives(old, a, g)
    <3>1. PICK h \in M : Load(a, h) < Load(a, g)
      BY <1>2
    <3>2. Load(b, g) <= Load(a, g)
      BY <1>1, <3>1, RichInEvery
    <3> QED BY <3>2 DEF Fair
  <2> QED BY <1>1, <2>1, FewestGiven
<1>3. CASE \E g \in M : Gives(old, a, g) /\ \A h \in M : ~(Load(a, h) < Load(a, g))
  <2>1. PICK g \in M : Gives(old, a, g) /\ \A h \in M : ~(Load(a, h) < Load(a, g))
    BY <1>3
  <2>2. \A k \in M : Load(a, g) <= Load(a, k)
    <3>1. \A k \in M : Load(a, k) \in Nat
      BY LoadType
    <3> QED BY <2>1, <3>1
  <2>3. \A h \in M : Receives(old, a, h) => ~Gives(old, a, h) /\ Load(a, h) <= Load(b, h)
    <3> TAKE h \in M
    <3> HAVE Receives(old, a, h)
    <3>1. ~Gives(old, a, h) /\ Load(a, h) <= Load(a, g)
      BY <2>1 DEF Fair
    <3>2. Load(a, g) <= Load(b, h)
      BY <1>1, <2>2, PoorInEvery
    <3>3. Load(a, h) \in Nat /\ Load(a, g) \in Nat /\ Load(b, h) \in Nat
      BY LoadType
    <3> QED BY <3>1, <3>2, <3>3
  <2> QED BY <1>1, <2>3, FewestReceived
<1> QED BY <1>2, <1>3

(***************************************************************************)
(* Functions by recursion, and the lists of shards.                        *)
(***************************************************************************)
\* What holds at 0 and passes from each number to the next holds up to N.
LEMMA UpTo ==
  ASSUME NEW N \in Nat, NEW P, 0 \in P, \A n \in 1 .. N : n - 1 \in P => n \in P
  PROVE  \A n \in 0 .. N : n \in P
<1> DEFINE T == {n \in 0 .. N : n \notin P}
<1> SUFFICES ASSUME T # {} PROVE FALSE
  OBVIOUS
<1>1. PICK n \in T : \A m \in T : n <= m
  <2>1. T \in SUBSET Nat
    OBVIOUS
  <2> HIDE DEF T
  <2> QED BY <2>1, LeastNatural
<1>2. n \in 1 .. N
  BY <1>1
<1>3. n - 1 \notin T /\ n - 1 \in 0 .. N
  BY <1>1, <1>2
<1> QED BY <1>1, <1>2, <1>3

\* f begins with first, and step makes of a number and the value before the next.
Recursive(S, N, first, step, f) ==
  f \in [0 .. N -> S] /\ f[0] = first /\ \A n \in 1 .. N : f[n] = step[n][f[n - 1]]

\* There is such an f.
LEMMA RecursionExists ==
  ASSUME NEW S, NEW N \in Nat, NEW first \in S, NEW F \in [1 .. N -> [S -> S]]
  PROVE  \E f : Recursive(S, N, first, F, f)
<1> DEFINE Up(f, k) == f[0] = first /\ \A n \in 1 .. k : f[n] = F[n][f[n - 1]]
           P == {k \in 0 .. N : \E f \in [0 .. k -> S] : Up(f, k)}
<1>1. 0 \in P
  <2> DEFINE f == [n \in 0 .. 0 |-> first]
  <2>1. f \in [0 .. 0 -> S] /\ f[0] = first
    OBVIOUS
  <2> HIDE DEF f
  <2>2. Up(f, 0) /\ 0 \in 0 .. N
    BY <2>1
  <2> HIDE DEF Up
  <2> QED BY <2>1, <2>2
<1>2. ASSUME NEW k \in 1 .. N, k - 1 \in P
      PROVE  k \in P
  <2>1. PICK f \in [0 .. (k - 1) -> S] : Up(f, k - 1)
    BY <1>2
  <2> DEFINE g == [n \in 0 .. k |-> IF n = k THEN F[k][f[k - 1]] ELSE f[n]]
  <2>2. \A n \in 0 .. (k - 1) : g[n] = f[n] /\ n # k
    OBVIOUS
  <2>3. g[k] = F[k][f[k - 1]] /\ f[k - 1] \in S
    OBVIOUS
  <2>4. g[k] \in S
    BY <2>3
  <2>5. g \in [0 .. k -> S]
    BY <2>2, <2>4
  <2>6. \A n \in 1 .. k : g[n] = F[n][g[n - 1]]
    <3> TAKE n \in 1 .. k
    <3> HIDE DEF g
    <3>1. g[n - 1] = f[n - 1]
      BY <2>2
    <3>2. CASE n = k
      BY <2>3, <3>1, <3>2
    <3>3. CASE n # k
      <4>1. n \in 1 .. (k - 1)
        BY <3>3
      <4> QED BY <2>1, <2>2, <3>1, <4>1
    <3> QED BY <3>2, <3>3
  <2>7. g[0] = first
    BY <2>1, <2>2
  <2> HIDE DEF g
  <2> QED BY <2>5, <2>6, <2>7
<1>3. \A n \in 0 .. N : n \in P
  <2> HIDE DEF P
  <2> QED BY <1>1, <1>2, UpTo
<1>4. N \in P
  BY <1>3
<1> QED BY <1>4 DEF Recursive

\* A list of the elements of a set, none of them twice.
IsListing(list, S) ==
  /\ list \in Seq(Shard)
  /\ \A i, j \in 1 .. Len(list) : list[i] = list[j] => i = j
  /\ S = {list[i] : i \in 1 .. Len(list)}

\* A listing is as long as the set is large.
LEMMA ListingLength ==
  ASSUME NEW list, NEW S, IsListing(list, S)
  PROVE  Len(list) = Cardinality(S) /\ S \subseteq Shard
<1>1. list \in Seq(Shard) /\ Len(list) \in Nat
  BY DEF IsListing
<1> DEFINE f == [i \in 1 .. Len(list) |-> list[i]]
<1>2. f \in Bijection(1 .. Len(list), S)
  BY DEF IsListing, Bijection, Injection, Surjection, IsInjective
<1>3. Cardinality(S) = Len(list)
  BY <1>1, <1>2, FS_CountingElements DEF ExistsBijection
<1>4. \A i \in 1 .. Len(list) : list[i] \in Shard
  BY <1>1
<1>5. S \subseteq Shard
  BY <1>4 DEF IsListing
<1> QED BY <1>3, <1>5

\* The empty set is listed by the empty sequence.
LEMMA EmptyListing == IsListing(<<>>, {})
BY DEF IsListing

\* An element that is not there yet is appended.
LEMMA ListingAppend ==
  ASSUME NEW list, NEW S, IsListing(list, S), NEW x \in Shard \ S
  PROVE  IsListing(Append(list, x), S \cup {x})
<1>1. list \in Seq(Shard) /\ Len(list) \in Nat
  BY DEF IsListing
<1>2. PICK longer : longer = Append(list, x)
  OBVIOUS
<1>3. /\ longer \in Seq(Shard) /\ Len(longer) = Len(list) + 1
      /\ \A i \in 1 .. Len(list) : longer[i] = list[i]
      /\ longer[Len(list) + 1] = x
  BY <1>1, <1>2
<1>4. \A i \in 1 .. Len(list) : list[i] \in S /\ list[i] # x
  BY DEF IsListing
<1>5. \A i \in 1 .. Len(longer) : i \in 1 .. Len(list) \/ i = Len(list) + 1
  BY <1>1, <1>3
<1>6. ASSUME NEW i \in 1 .. Len(longer), NEW j \in 1 .. Len(longer), longer[i] = longer[j]
      PROVE  i = j
  BY <1>3, <1>4, <1>5, <1>6 DEF IsListing
<1>7. S \cup {x} = {longer[i] : i \in 1 .. Len(longer)}
  <2>1. ASSUME NEW y \in S \cup {x}
        PROVE  \E i \in 1 .. Len(longer) : longer[i] = y
    <3>1. CASE y = x
      BY <1>1, <1>3, <3>1
    <3>2. CASE y \in S
      <4>1. PICK i \in 1 .. Len(list) : list[i] = y
        BY <3>2 DEF IsListing
      <4>2. i \in 1 .. Len(longer)
        BY <1>1, <1>3
      <4> QED BY <1>3, <4>1, <4>2
    <3> QED BY <2>1, <3>1, <3>2
  <2>2. ASSUME NEW i \in 1 .. Len(longer)
        PROVE  longer[i] \in S \cup {x}
    BY <1>3, <1>4, <1>5
  <2> QED BY <2>1, <2>2
<1> QED BY <1>2, <1>3, <1>6, <1>7 DEF IsListing

\* Without its head, a listing lists the rest.
LEMMA ListingTail ==
  ASSUME NEW list, NEW S, IsListing(list, S), Len(list) > 0
  PROVE  Head(list) \in S /\ IsListing(Tail(list), S \ {Head(list)})
<1>1. list \in Seq(Shard) /\ Len(list) \in Nat /\ list # <<>>
  BY DEF IsListing
<1>2. PICK x, rest : x = Head(list) /\ rest = Tail(list)
  OBVIOUS
<1>3. /\ rest \in Seq(Shard) /\ Len(rest) = Len(list) - 1 /\ x = list[1]
      /\ \A i \in 1 .. Len(rest) : rest[i] = list[i + 1]
  BY <1>1, <1>2
<1>4. \A i \in 1 .. Len(rest) : i + 1 \in 1 .. Len(list) /\ i + 1 # 1
  BY <1>1, <1>3
<1>5. 1 \in 1 .. Len(list)
  BY <1>1
<1>6. ASSUME NEW i \in 1 .. Len(rest), NEW j \in 1 .. Len(rest), rest[i] = rest[j]
      PROVE  i = j
  <2>1. i + 1 = j + 1
    BY <1>3, <1>4, <1>6 DEF IsListing
  <2> QED BY <2>1
<1>7. x \in S
  BY <1>3, <1>5 DEF IsListing
<1>8. S \ {x} = {rest[i] : i \in 1 .. Len(rest)}
  <2>1. ASSUME NEW y \in S \ {x}
        PROVE  \E i \in 1 .. Len(rest) : rest[i] = y
    <3>1. PICK i \in 1 .. Len(list) : list[i] = y
      BY DEF IsListing
    <3>2. i # 1
      BY <1>3, <3>1
    <3>3. i - 1 \in 1 .. Len(rest) /\ (i - 1) + 1 = i
      BY <1>1, <1>3, <3>2
    <3> QED BY <1>3, <3>1, <3>3
  <2>2. ASSUME NEW i \in 1 .. Len(rest)
        PROVE  rest[i] \in S \ {x}
    <3>1. rest[i] \in S
      BY <1>3, <1>4 DEF IsListing
    <3>2. list[i + 1] # list[1]
      BY <1>4, <1>5 DEF IsListing
    <3> QED BY <1>3, <3>1, <3>2
  <2> QED BY <2>1, <2>2
<1>9. IsListing(rest, S \ {x})
  BY <1>3, <1>6, <1>8 DEF IsListing
<1> QED BY <1>2, <1>7, <1>9

\* The list that ShardsOf makes.
ListUpTo(shards, groups, list) ==
  list = [n \in 0 .. NShards |->
            IF n = 0 THEN <<>>
            ELSE IF shards[n - 1] \in groups THEN Append(list[n - 1], n - 1) ELSE list[n - 1]]

\* The recursion of ShardsOf has a solution.
LEMMA ListsExist == ASSUME NEW shards, NEW groups PROVE \E list : ListUpTo(shards, groups, list)
<1>1. NShards \in Nat
  BY ShardConfigAssumption
<1> DEFINE F == [n \in 1 .. NShards |-> [q \in Seq(Shard) |->
                   IF shards[n - 1] \in groups THEN Append(q, n - 1) ELSE q]]
<1>2. F \in [1 .. NShards -> [Seq(Shard) -> Seq(Shard)]]
  <2>1. ASSUME NEW n \in 1 .. NShards, NEW q \in Seq(Shard)
        PROVE  (IF shards[n - 1] \in groups THEN Append(q, n - 1) ELSE q) \in Seq(Shard)
    <3>1. n - 1 \in Shard
      BY <1>1 DEF Shard
    <3> QED BY <3>1
  <2> QED BY <2>1
<1>3. \A n \in 1 .. NShards, q \in Seq(Shard) :
        F[n][q] = IF shards[n - 1] \in groups THEN Append(q, n - 1) ELSE q
  OBVIOUS
<1> HIDE DEF F
<1>4. PICK S, N, first, step : S = Seq(Shard) /\ N = NShards /\ first = <<>> /\ step = F
  OBVIOUS
<1>5. PICK f \in [0 .. NShards -> Seq(Shard)] :
        f[0] = <<>> /\ \A n \in 1 .. NShards : f[n] = F[n][f[n - 1]]
  <2>1. N \in Nat /\ first \in S
    BY <1>1, <1>4
  <2>2. step \in [1 .. N -> [S -> S]]
    BY <1>2, <1>4
  <2>3. PICK f : Recursive(S, N, first, step, f)
    BY <2>1, <2>2, RecursionExists
  <2> QED BY <1>4, <2>3 DEF Recursive
<1>6. \A n \in 0 .. NShards : n # 0 => n \in 1 .. NShards /\ n - 1 \in 0 .. NShards
  BY <1>1
<1>7. ASSUME NEW n \in 0 .. NShards
      PROVE  f[n] = IF n = 0 THEN <<>>
                    ELSE IF shards[n - 1] \in groups THEN Append(f[n - 1], n - 1) ELSE f[n - 1]
  <2>1. CASE n = 0
    BY <1>5, <2>1
  <2>2. CASE n # 0
    <3>1. n \in 1 .. NShards /\ f[n - 1] \in Seq(Shard)
      BY <1>5, <1>6, <2>2
    <3> QED BY <1>3, <1>5, <2>2, <3>1
  <2> QED BY <2>1, <2>2
<1>8. ListUpTo(shards, groups, f)
  BY <1>5, <1>7 DEF ListUpTo
<1> QED BY <1>8

\* ShardsOf lists the shards of the groups.
LEMMA ShardsListed ==
  ASSUME NEW shards, NEW groups
  PROVE  IsListing(ShardsOf(shards, groups), {x \in Shard : shards[x] \in groups})
<1>1. PICK list : ListUpTo(shards, groups, list) /\ ShardsOf(shards, groups) = list[NShards]
  <2>1. PICK list : list = CHOOSE l : ListUpTo(shards, groups, l)
    OBVIOUS
  <2>2. ListUpTo(shards, groups, list)
    BY <2>1, ListsExist
  <2>3. ShardsOf(shards, groups) = list[NShards]
    BY <2>1 DEF ShardsOf, ListUpTo
  <2> QED BY <2>2, <2>3
<1>2. NShards \in Nat
  BY ShardConfigAssumption
<1> DEFINE Those(n) == {x \in 0 .. (n - 1) : shards[x] \in groups}
           P == {n \in 0 .. NShards : IsListing(list[n], Those(n))}
<1>3. 0 \in P
  <2>1. list[0] = <<>>
    BY <1>1, <1>2 DEF ListUpTo
  <2>2. Those(0) = {}
    OBVIOUS
  <2> HIDE DEF Those
  <2> QED BY <1>2, <2>1, <2>2, EmptyListing
<1>4. ASSUME NEW n \in 1 .. NShards, n - 1 \in P
      PROVE  n \in P
  <2>1. /\ n \in 0 .. NShards /\ n # 0 /\ n - 1 \in Shard
    BY <1>2 DEF Shard
  <2>2. list[n] = IF shards[n - 1] \in groups THEN Append(list[n - 1], n - 1) ELSE list[n - 1]
    BY <1>1, <2>1 DEF ListUpTo
  <2>3. IsListing(list[n - 1], Those(n - 1))
    BY <1>4
  <2>4. CASE shards[n - 1] \in groups
    <3>1. Those(n) = Those(n - 1) \cup {n - 1} /\ n - 1 \notin Those(n - 1)
      BY <2>1, <2>4
    <3> HIDE DEF Those
    <3>2. IsListing(Append(list[n - 1], n - 1), Those(n - 1) \cup {n - 1})
      BY <2>1, <2>3, <3>1, ListingAppend
    <3> QED BY <2>1, <2>2, <2>4, <3>1, <3>2
  <2>5. CASE shards[n - 1] \notin groups
    <3>1. Those(n) = Those(n - 1)
      BY <2>1, <2>5
    <3> HIDE DEF Those
    <3> QED BY <2>1, <2>2, <2>3, <2>5, <3>1
  <2> QED BY <2>4, <2>5
<1>5. \A n \in 0 .. NShards : n \in P
  <2> HIDE DEF P
  <2> QED BY <1>2, <1>3, <1>4, UpTo
<1>6. IsListing(list[NShards], Those(NShards))
  <2>1. NShards \in 0 .. NShards
    BY <1>2
  <2> QED BY <1>5, <2>1
<1>7. Those(NShards) = {x \in Shard : shards[x] \in groups}
  BY DEF Shard
<1> QED BY <1>1, <1>6, <1>7

(***************************************************************************)
(* The tables of rebalance with their lists.                               *)
(***************************************************************************)
Tables(M) == [Shards : [Shard -> Gid \cup {0}], lists : [M -> Seq(Shard)]]

Listed(st, M) ==
  /\ st \in Tables(M)
  /\ \A g \in M : IsListing(st.lists[g], Coloured(Shard, st.Shards, g))

\* getMinMaxGid finds a group with the fewest shards ...
LEMMA MinIsLeast ==
  ASSUME NEW M \in SUBSET Gid, M # {}, NEW lists \in [M -> Seq(Shard)]
  PROVE  MinGid(lists) \in M /\ \A h \in M : Len(lists[MinGid(lists)]) <= Len(lists[h])
<1>1. /\ \A g \in M : Len(lists[g]) \in Nat
      /\ DOMAIN lists = M /\ M \subseteq Nat
  BY ShardConfigAssumption
<1> DEFINE L == {Len(lists[g]) : g \in M}
<1>2. PICK n \in L : \A m \in L : n <= m
  <2>1. L \in SUBSET Nat /\ L # {}
    BY <1>1
  <2> HIDE DEF L
  <2> QED BY <2>1, LeastNatural
<1> DEFINE E == {g \in M : Len(lists[g]) = n}
<1>3. PICK g \in E : \A h \in E : g <= h
  <2>1. E \in SUBSET Nat /\ E # {}
    BY <1>1, <1>2
  <2> HIDE DEF E
  <2> QED BY <2>1, LeastNatural
<1>4. \A h \in M : n <= Len(lists[h])
  BY <1>2
<1>5. \A h \in DOMAIN lists : \/ Len(lists[g]) < Len(lists[h])
                              \/ Len(lists[g]) = Len(lists[h]) /\ g <= h
  BY <1>1, <1>3, <1>4
<1>6. /\ MinGid(lists) \in DOMAIN lists
      /\ \A h \in DOMAIN lists : \/ Len(lists[MinGid(lists)]) < Len(lists[h])
                                 \/ Len(lists[MinGid(lists)]) = Len(lists[h]) /\ MinGid(lists) <= h
  BY <1>1, <1>3, <1>5 DEF MinGid
<1> QED BY <1>1, <1>6

\* ... and one with the most.
LEMMA MaxIsMost ==
  ASSUME NEW M \in SUBSET Gid, M # {}, NEW lists \in [M -> Seq(Shard)],
         \A g \in M : Len(lists[g]) <= NShards
  PROVE  MaxGid(lists) \in M /\ \A h \in M : Len(lists[h]) <= Len(lists[MaxGid(lists)])
<1>1. /\ \A g \in M : Len(lists[g]) \in Nat
      /\ DOMAIN lists = M /\ M \subseteq Nat /\ NShards \in Nat
  BY ShardConfigAssumption
<1> DEFINE L == {NShards - Len(lists[g]) : g \in M}
<1>2. PICK n \in L : \A m \in L : n <= m
  <2>1. L \in SUBSET Nat /\ L # {}
    BY <1>1
  <2> HIDE DEF L
  <2> QED BY <2>1, LeastNatural
<1> DEFINE E == {g \in M : NShards - Len(lists[g]) = n}
<1>3. PICK g \in E : \A h \in E : g <= h
  <2>1. E \in SUBSET Nat /\ E # {}
    BY <1>1, <1>2
  <2> HIDE DEF E
  <2> QED BY <2>1, LeastNatural
<1>4. \A h \in M : n <= NShards - Len(lists[h])
  BY <1>2
<1>5. \A h \in DOMAIN lists : \/ Len(lists[g]) > Len(lists[h])
                              \/ Len(lists[g]) = Len(lists[h]) /\ g <= h
  <2> SUFFICES ASSUME NEW h \in M
               PROVE  Len(lists[g]) > Len(lists[h]) \/ (Len(lists[g]) = Len(lists[h]) /\ g <= h)
    BY <1>1
  <2>1. PICK k \in Nat, l \in Nat : k = Len(lists[g]) /\ l = Len(lists[h])
    BY <1>1, <1>3
  <2>2. n = NShards - k /\ n <= NShards - l
    BY <1>3, <1>4, <2>1
  <2>3. k > l \/ k = l
    BY <1>1, <2>2
  <2>4. ASSUME k = l PROVE g <= h
    BY <1>3, <2>1, <2>2, <2>4
  <2> QED BY <2>1, <2>3, <2>4
<1>6. /\ MaxGid(lists) \in DOMAIN lists
      /\ \A h \in DOMAIN lists : \/ Len(lists[MaxGid(lists)]) > Len(lists[h])
                                 \/ Len(lists[MaxGid(lists)]) = Len(lists[h]) /\ MaxGid(lists) <= h
  BY <1>1, <1>3, <1>5 DEF MaxGid
<1> QED BY <1>1, <1>6

\* A list is as long as its group's share.
LEMMA ListedLoads ==
  ASSUME NEW st, NEW M, Listed(st, M), NEW g \in M
  PROVE  Len(st.lists[g]) = Load(st.Shards, g) /\ Load(st.Shards, g) <= NShards
<1>1. Len(st.lists[g]) = Cardinality(Coloured(Shard, st.Shards, g))
  BY ListingLength DEF Listed
<1>2. Coloured(Shard, st.Shards, g) \subseteq Shard
  BY DEF Coloured
<1>3. Cardinality(Coloured(Shard, st.Shards, g)) <= NShards
  BY <1>2, ShardsFinite, FS_Subset
<1> QED BY <1>1, <1>3, LoadIs

\* Settling a shard, whatever the lists hold.
LEMMA SettleGives ==
  ASSUME NEW M \in SUBSET Gid, M # {}, NEW st \in Tables(M), NEW x \in Shard
  PROVE  \E g \in M :
           /\ \A h \in M : Len(st.lists[g]) <= Len(st.lists[h])
           /\ Settle(st, x) = [Shards |-> [st.Shards EXCEPT ![x] = g],
                               lists |-> [st.lists EXCEPT ![g] = Append(@, x)]]
           /\ Settle(st, x) \in Tables(M)
<1>1. PICK table, lists : table = st.Shards /\ lists = st.lists
  OBVIOUS
<1>2. table \in [Shard -> Gid \cup {0}] /\ lists \in [M -> Seq(Shard)]
  BY <1>1 DEF Tables
<1>3. PICK g : g = MinGid(lists)
  OBVIOUS
<1>4. g \in M /\ \A h \in M : Len(lists[g]) <= Len(lists[h])
  BY <1>2, <1>3, MinIsLeast
<1>5. Settle(st, x) = [Shards |-> [table EXCEPT ![x] = g],
                       lists |-> [lists EXCEPT ![g] = Append(@, x)]]
  BY <1>1, <1>3 DEF Settle
<1>6. [table EXCEPT ![x] = g] \in [Shard -> Gid \cup {0}]
  BY <1>2, <1>4
<1>7. [lists EXCEPT ![g] = Append(@, x)] \in [M -> Seq(Shard)]
  BY <1>2, <1>4
<1>8. Settle(st, x) \in Tables(M)
  BY <1>5, <1>6, <1>7 DEF Tables
<1> QED BY <1>1, <1>4, <1>5, <1>8

\* Settling a shard that has no group.
LEMMA SettleListed ==
  ASSUME NEW M \in SUBSET Gid, M # {}, NEW st, Listed(st, M), NEW x \in Shard, st.Shards[x] \notin M
  PROVE  /\ Listed(Settle(st, x), M)
         /\ \E g \in M : /\ Settle(st, x).Shards = [st.Shards EXCEPT ![x] = g]
                         /\ \A h \in M : Load(st.Shards, g) <= Load(st.Shards, h)
<1>1. PICK g \in M :
        /\ \A h \in M : Len(st.lists[g]) <= Len(st.lists[h])
        /\ Settle(st, x) = [Shards |-> [st.Shards EXCEPT ![x] = g],
                            lists |-> [st.lists EXCEPT ![g] = Append(@, x)]]
        /\ Settle(st, x) \in Tables(M)
  BY SettleGives DEF Listed
<1>2. PICK table, lists, new : table = st.Shards /\ lists = st.lists /\ new = Settle(st, x)
  OBVIOUS
<1>3. table \in [Shard -> Gid \cup {0}] /\ lists \in [M -> Seq(Shard)]
  BY <1>2 DEF Tables, Listed
<1>4. /\ new.Shards = [table EXCEPT ![x] = g]
      /\ new.lists = [lists EXCEPT ![g] = Append(@, x)]
  BY <1>1, <1>2
<1>5. \A h \in M : Load(table, g) <= Load(table, h)
  BY <1>1, <1>2, ListedLoads
<1>6. ASSUME NEW h \in M
      PROVE  IsListing(new.lists[h], Coloured(Shard, new.Shards, h))
  <2>1. IsListing(lists[h], Coloured(Shard, table, h))
    BY <1>2 DEF Listed
  <2>2. \A y \in Shard : new.Shards[y] = IF y = x THEN g ELSE table[y]
    BY <1>3, <1>4
  <2>3. CASE h = g
    <3>1. new.lists[h] = Append(lists[h], x)
      BY <1>3, <1>4, <2>3
    <3>2. /\ Coloured(Shard, new.Shards, h) = Coloured(Shard, table, h) \cup {x}
          /\ x \notin Coloured(Shard, table, h)
      BY <1>2, <2>2, <2>3 DEF Coloured
    <3> QED BY <2>1, <3>1, <3>2, ListingAppend
  <2>4. CASE h # g
    <3>1. new.lists[h] = lists[h]
      BY <1>3, <1>4, <2>4
    <3>2. Coloured(Shard, new.Shards, h) = Coloured(Shard, table, h)
      BY <1>2, <2>2, <2>4 DEF Coloured
    <3> QED BY <2>1, <3>1, <3>2
  <2> QED BY <2>3, <2>4
<1>7. Listed(new, M)
  BY <1>1, <1>2, <1>6 DEF Listed
<1> QED BY <1>2, <1>4, <1>5, <1>7

\* A turn of step 4.2 that does something.
Turn(old, new, M, r, p, x) ==
  /\ r \in M /\ p \in M /\ x \in Shard /\ old[x] = r /\ new = [old EXCEPT ![x] = p]
  /\ \A h \in M : Load(old, h) <= Load(old, r) /\ Load(old, p) <= Load(old, h)
  /\ Load(old, p) + 1 < Load(old, r)

\* The lists follow the table, and a turn that changes nothing has found it even.
LEMMA LevelListed ==
  ASSUME NEW M \in SUBSET Gid, M # {}, NEW st, Listed(st, M)
  PROVE  /\ Listed(Level(st), M)
         /\ \/ EvenOver(st.Shards, M) /\ Level(st) = st
            \/ \E r, p, x : Turn(st.Shards, Level(st).Shards, M, r, p, x)
<1>1. PICK table, lists : table = st.Shards /\ lists = st.lists
  OBVIOUS
<1>2. table \in [Shard -> Gid \cup {0}] /\ lists \in [M -> Seq(Shard)]
  BY <1>1 DEF Tables, Listed
<1>3. \A g \in M : /\ Len(lists[g]) = Load(table, g) /\ Len(lists[g]) <= NShards
                   /\ Load(table, g) \in Nat
  <2> TAKE g \in M
  <2>1. Len(lists[g]) = Load(table, g) /\ Load(table, g) <= NShards
    BY <1>1, ListedLoads
  <2> QED BY <2>1, LoadType
<1>4. PICK r, p : r = MaxGid(lists) /\ p = MinGid(lists)
  OBVIOUS
<1>5. r \in M /\ \A h \in M : Load(table, h) <= Load(table, r)
  <2>1. r \in M /\ \A h \in M : Len(lists[h]) <= Len(lists[r])
    BY <1>2, <1>3, <1>4, MaxIsMost
  <2> QED BY <1>3, <2>1
<1>6. p \in M /\ \A h \in M : Load(table, p) <= Load(table, h)
  <2>1. p \in M /\ \A h \in M : Len(lists[p]) <= Len(lists[h])
    BY <1>2, <1>4, MinIsLeast
  <2> QED BY <1>3, <2>1
<1>7. CASE Len(lists[r]) <= Len(lists[p]) + 1
  <2>1. Level(st) = st
    BY <1>1, <1>4, <1>7 DEF Level
  <2>2. EvenOver(table, M)
    <3> SUFFICES ASSUME NEW g \in M, NEW h \in M PROVE Load(table, g) <= Load(table, h) + 1
      BY DEF EvenOver
    <3>1. Load(table, r) <= Load(table, p) + 1
      BY <1>3, <1>5, <1>6, <1>7
    <3>2. /\ Load(table, g) <= Load(table, r) /\ Load(table, p) <= Load(table, h)
          /\ Load(table, g) \in Nat /\ Load(table, h) \in Nat
          /\ Load(table, r) \in Nat /\ Load(table, p) \in Nat
      BY <1>3, <1>5, <1>6
    <3> QED BY <3>1, <3>2
  <2> QED BY <1>1, <2>1, <2>2
<1>8. CASE ~(Len(lists[r]) <= Len(lists[p]) + 1)
  <2>1. Load(table, p) + 1 < Load(table, r) /\ Len(lists[r]) > 0 /\ r # p
    BY <1>3, <1>5, <1>6, <1>8
  <2>2. PICK x, rest, longer :
          x = Head(lists[r]) /\ rest = Tail(lists[r]) /\ longer = Append(lists[p], x)
    OBVIOUS
  <2>3. IsListing(lists[r], Coloured(Shard, table, r)) /\ IsListing(lists[p], Coloured(Shard, table, p))
    BY <1>1, <1>5, <1>6 DEF Listed
  <2>4. x \in Coloured(Shard, table, r) /\ IsListing(rest, Coloured(Shard, table, r) \ {x})
    BY <2>1, <2>2, <2>3, ListingTail
  <2>5. x \in Shard /\ table[x] = r
    BY <2>4 DEF Coloured
  <2>6. x \in Shard \ Coloured(Shard, table, p)
    BY <2>1, <2>5 DEF Coloured
  <2>7. IsListing(longer, Coloured(Shard, table, p) \cup {x})
    BY <2>2, <2>3, <2>6, ListingAppend
  <2>8. PICK new, more : /\ new = [table EXCEPT ![x] = p]
                         /\ more = [lists EXCEPT ![r] = rest, ![p] = longer]
    OBVIOUS
  <2>9. Level(st) = [Shards |-> new, lists |-> more]
    <3>1. [lists EXCEPT ![r] = Tail(@), ![p] = Append(@, x)] = more
      BY <1>2, <1>5, <1>6, <2>1, <2>2, <2>8
    <3> QED BY <1>1, <1>4, <1>8, <2>2, <2>8, <3>1 DEF Level
  <2>10. /\ new \in [Shard -> Gid \cup {0}]
         /\ \A y \in Shard : new[y] = IF y = x THEN p ELSE table[y]
    BY <1>2, <1>6, <2>5, <2>8
  <2>11. rest \in Seq(Shard) /\ longer \in Seq(Shard)
    BY <2>4, <2>7 DEF IsListing
  <2>12. /\ more \in [M -> Seq(Shard)] /\ more[r] = rest /\ more[p] = longer
         /\ \A h \in M : h # r /\ h # p => more[h] = lists[h]
    BY <1>2, <1>5, <1>6, <2>1, <2>8, <2>11
  <2>13. ASSUME NEW h \in M
         PROVE  IsListing(more[h], Coloured(Shard, new, h))
    <3>1. CASE h = r
      <4>1. Coloured(Shard, new, h) = Coloured(Shard, table, r) \ {x}
        BY <2>1, <2>10, <3>1 DEF Coloured
      <4> QED BY <2>4, <2>12, <3>1, <4>1
    <3>2. CASE h = p
      <4>1. Coloured(Shard, new, h) = Coloured(Shard, table, p) \cup {x}
        BY <2>5, <2>10, <3>2 DEF Coloured
      <4> QED BY <2>7, <2>12, <3>2, <4>1
    <3>3. CASE h # r /\ h # p
      <4>1. Coloured(Shard, new, h) = Coloured(Shard, table, h)
        BY <2>5, <2>10, <3>3 DEF Coloured
      <4>2. IsListing(lists[h], Coloured(Shard, table, h))
        BY <1>1 DEF Listed
      <4> QED BY <2>12, <3>3, <4>1, <4>2
    <3> QED BY <3>1, <3>2, <3>3
  <2>14. PICK next : next = [Shards |-> new, lists |-> more]
    OBVIOUS
  <2>15. next \in Tables(M) /\ next.Shards = new /\ next.lists = more
    BY <2>10, <2>12, <2>14 DEF Tables
  <2>16. Listed(next, M)
    BY <2>13, <2>15 DEF Listed
  <2>17. Turn(table, new, M, r, p, x)
    BY <1>5, <1>6, <2>1, <2>5, <2>8 DEF Turn
  <2> QED BY <1>1, <2>9, <2>14, <2>15, <2>16, <2>17
<1> QED BY <1>7, <1>8

\* A turn keeps the table fair and moves one shard more; as long as tables are uneven
\* there is a shard that has not moved.
LEMMA TurnIsFair ==
  ASSUME NEW M, NEW old, NEW new, Fair(old, new, M), NEW next, NEW r, NEW p, NEW x,
         Turn(new, next, M, r, p, x)
  PROVE  /\ Fair(old, next, M)
         /\ Cardinality(Moved(old, next)) = Cardinality(Moved(old, new)) + 1
<1>1. /\ new \in [Shard -> M] /\ r \in M /\ p \in M /\ x \in Shard /\ new[x] = r
      /\ next = [new EXCEPT ![x] = p]
      /\ \A h \in M : Load(new, h) <= Load(new, r) /\ Load(new, p) <= Load(new, h)
      /\ Load(new, p) + 1 < Load(new, r)
  BY DEF Fair, Turn
<1>2. \A h \in M : Load(new, h) \in Nat /\ Load(next, h) \in Nat
  BY LoadType
<1>3. r # p
  BY <1>1, <1>2
<1>4. /\ Load(next, p) = Load(new, p) + 1 /\ Load(next, r) = Load(new, r) - 1
      /\ \A h \in M : h # p /\ h # r => Load(next, h) = Load(new, h)
  <2>1. new[x] # p
    BY <1>1, <1>3
  <2>2. /\ new \in [Shard -> M] /\ x \in Shard /\ p \in M
        /\ next[x] = p /\ \A y \in Shard : y # x => next[y] = new[y]
    BY <1>1
  <2>3. new[x] = r
    BY <1>1
  <2> QED BY <2>1, <2>2, <2>3, LoadMoves
<1>5. ~Receives(old, new, r)
  BY <1>1, <1>2 DEF Fair
<1>6. ~Gives(old, new, p)
  BY <1>1, <1>2 DEF Fair
<1>7. old[x] = r
  BY <1>1, <1>5 DEF Receives
<1>8. /\ next \in [Shard -> M] /\ next[x] = p
      /\ \A y \in Shard : y # x => next[y] = new[y]
  BY <1>1
<1>9. \A h \in M : Receives(old, next, h) => h # r /\ (h = p \/ Receives(old, new, h))
  BY <1>3, <1>5, <1>7, <1>8 DEF Receives
<1>10. \A g \in M : Gives(old, next, g) => g # p /\ (g = r \/ Gives(old, new, g))
  BY <1>3, <1>6, <1>7, <1>8 DEF Gives
<1>11. ASSUME NEW g \in M, NEW h \in M, Receives(old, next, h)
       PROVE  Load(next, h) <= Load(next, g) + 1
  <2>1. h = p \/ (h # p /\ h # r /\ Load(new, h) <= Load(new, p) + 1)
    BY <1>1, <1>9, <1>11 DEF Fair
  <2>2. g = p \/ g = r \/ (g # p /\ g # r)
    OBVIOUS
  <2>3. /\ Load(new, p) <= Load(new, g) /\ Load(new, h) <= Load(new, r)
        /\ Load(new, p) + 1 < Load(new, r)
        /\ Load(new, r) \in Nat /\ Load(new, p) \in Nat
        /\ Load(new, g) \in Nat /\ Load(new, h) \in Nat
        /\ g = p => Load(next, g) = Load(new, p) + 1
        /\ g = r => Load(next, g) = Load(new, r) - 1
        /\ g # p /\ g # r => Load(next, g) = Load(new, g)
        /\ h = p => Load(next, h) = Load(new, p) + 1
        /\ h = r => Load(next, h) = Load(new, r) - 1
        /\ h # p /\ h # r => Load(next, h) = Load(new, h)
    BY <1>1, <1>2, <1>4
  <2>4. CASE h = p
    BY <1>3, <2>2, <2>3, <2>4
  <2>5. CASE h # p /\ h # r /\ Load(new, h) <= Load(new, p) + 1
    BY <1>3, <2>2, <2>3, <2>5
  <2> QED BY <2>1, <2>4, <2>5
<1>12. ASSUME NEW g \in M, NEW h \in M, Gives(old, next, g)
       PROVE  Load(next, h) <= Load(next, g) + 1
  <2>1. g = r \/ (g # p /\ g # r /\ Load(new, r) <= Load(new, g) + 1)
    BY <1>1, <1>10, <1>12 DEF Fair
  <2>2. h = p \/ h = r \/ (h # p /\ h # r)
    OBVIOUS
  <2>3. /\ Load(new, p) <= Load(new, g) /\ Load(new, h) <= Load(new, r)
        /\ Load(new, p) + 1 < Load(new, r)
        /\ Load(new, r) \in Nat /\ Load(new, p) \in Nat
        /\ Load(new, g) \in Nat /\ Load(new, h) \in Nat
        /\ g = p => Load(next, g) = Load(new, p) + 1
        /\ g = r => Load(next, g) = Load(new, r) - 1
        /\ g # p /\ g # r => Load(next, g) = Load(new, g)
        /\ h = p => Load(next, h) = Load(new, p) + 1
        /\ h = r => Load(next, h) = Load(new, r) - 1
        /\ h # p /\ h # r => Load(next, h) = Load(new, h)
    BY <1>1, <1>2, <1>4
  <2>4. CASE g = r
    BY <1>3, <2>2, <2>3, <2>4
  <2>5. CASE g # p /\ g # r /\ Load(new, r) <= Load(new, g) + 1
    BY <1>3, <2>2, <2>3, <2>5
  <2> QED BY <2>1, <2>4, <2>5
<1>13. ASSUME NEW g \in M, Gives(old, next, g)
       PROVE  ~Receives(old, next, g)
  BY <1>3, <1>9, <1>10, <1>13 DEF Fair
<1>14. ASSUME NEW g \in M, NEW h \in M, Gives(old, next, g), Receives(old, next, h)
       PROVE  Load(next, h) <= Load(next, g)
  <2>1. g = r \/ (g # p /\ g # r /\ Gives(old, new, g))
    BY <1>10, <1>14
  <2>2. h = p \/ (h # p /\ h # r /\ Receives(old, new, h))
    BY <1>9, <1>14
  <2>3. /\ Load(new, p) <= Load(new, g) /\ Load(new, h) <= Load(new, r)
        /\ Load(new, p) + 1 < Load(new, r)
        /\ Load(new, r) \in Nat /\ Load(new, p) \in Nat
        /\ Load(new, g) \in Nat /\ Load(new, h) \in Nat
        /\ g = p => Load(next, g) = Load(new, p) + 1
        /\ g = r => Load(next, g) = Load(new, r) - 1
        /\ g # p /\ g # r => Load(next, g) = Load(new, g)
        /\ h = p => Load(next, h) = Load(new, p) + 1
        /\ h = r => Load(next, h) = Load(new, r) - 1
        /\ h # p /\ h # r => Load(next, h) = Load(new, h)
    BY <1>1, <1>2, <1>4
  <2>4. CASE g = r /\ h = p
    BY <1>3, <2>4, <2>3
  <2>5. CASE g = r /\ h # p /\ h # r /\ Receives(old, new, h)
    <3>1. Load(new, h) <= Load(new, p) + 1
      BY <1>1, <2>5 DEF Fair
    <3> QED BY <1>3, <2>5, <2>3, <3>1
  <2>6. CASE g # p /\ g # r /\ Gives(old, new, g) /\ h = p
    <3>1. Load(new, r) <= Load(new, g) + 1
      BY <1>1, <2>6 DEF Fair
    <3> QED BY <1>3, <2>6, <2>3, <3>1
  <2>7. CASE g # p /\ g # r /\ Gives(old, new, g) /\ h # p /\ h # r /\ Receives(old, new, h)
    <3>1. Load(new, h) <= Load(new, g)
      BY <2>7 DEF Fair
    <3> QED BY <2>7, <2>3, <3>1
  <2> QED BY <2>1, <2>2, <2>4, <2>5, <2>6, <2>7
<1>15. Fair(old, next, M)
  BY <1>8, <1>11, <1>12, <1>13, <1>14 DEF Fair
<1>16. Moved(old, next) = Moved(old, new) \cup {x} /\ x \notin Moved(old, new)
  BY <1>1, <1>3, <1>7, <1>8 DEF Moved
<1>17. Cardinality(Moved(old, next)) = Cardinality(Moved(old, new)) + 1
  BY <1>16, MovedFinite, FS_AddElement
<1> QED BY <1>15, <1>17

\* As long as a table is uneven there is a shard that has not moved.
LEMMA UnevenIsNotOver ==
  ASSUME NEW M, NEW old, NEW new, Fair(old, new, M), NEW next, NEW r, NEW p, NEW x,
         Turn(new, next, M, r, p, x)
  PROVE  Cardinality(Moved(old, new)) < NShards
<1>1. /\ r \in M /\ p \in M /\ x \in Shard /\ new[x] = r
      /\ \A h \in M : Load(new, p) <= Load(new, h)
      /\ Load(new, p) + 1 < Load(new, r)
  BY DEF Turn
<1>2. Load(new, r) \in Nat /\ Load(new, p) \in Nat
  BY LoadType
<1>3. ~Receives(old, new, r)
  BY <1>1, <1>2 DEF Fair
<1>4. x \in Shard /\ x \notin Moved(old, new)
  BY <1>1, <1>3 DEF Receives, Moved
<1>5. Moved(old, new) # Shard /\ Moved(old, new) \subseteq Shard
  BY <1>4, MovedFinite
<1>6. Cardinality(Moved(old, new)) <= NShards /\ Cardinality(Moved(old, new)) # NShards
  BY <1>5, ShardsFinite, FS_Subset
<1> QED BY <1>6, MovedFinite, ShardConfigAssumption

\* Before anything is moved.
LEMMA SharedListed ==
  ASSUME NEW config, config.Shards \in [Shard -> Gid \cup {0}], config.Groups \in SUBSET Gid
  PROVE  Listed(Shared(config), config.Groups) /\ Shared(config).Shards = config.Shards
<1>1. PICK old, M : old = config.Shards /\ M = config.Groups
  OBVIOUS
<1>2. PICK lists : lists = [g \in M |-> ShardsOf(old, {g})]
  OBVIOUS
<1>3. ASSUME NEW g \in M
      PROVE  IsListing(lists[g], Coloured(Shard, old, g)) /\ lists[g] \in Seq(Shard)
  <2>1. IsListing(ShardsOf(old, {g}), {x \in Shard : old[x] \in {g}})
    BY ShardsListed
  <2>2. {x \in Shard : old[x] \in {g}} = Coloured(Shard, old, g)
    BY DEF Coloured
  <2>3. IsListing(lists[g], Coloured(Shard, old, g))
    BY <1>2, <2>1, <2>2
  <2> QED BY <2>3 DEF IsListing
<1>4. PICK st : st = [Shards |-> old, lists |-> lists]
  OBVIOUS
<1>5. Shared(config) = st
  BY <1>1, <1>2, <1>4 DEF Shared
<1>6. lists \in [M -> Seq(Shard)]
  BY <1>2, <1>3
<1>7. st \in Tables(M) /\ st.Shards = old /\ st.lists = lists
  BY <1>1, <1>4, <1>6 DEF Tables
<1>8. Listed(st, M)
  BY <1>3, <1>7 DEF Listed
<1> QED BY <1>1, <1>5, <1>7, <1>8

\* Step 4.1, shard by shard.
SettlingUpTo(config, orphans, f) ==
  f = [n \in 0 .. Len(orphans) |->
         IF n = 0 THEN Shared(config) ELSE Settle(f[n - 1], orphans[n])]

\* The recursion of step 4.1 has a solution.
LEMMA SettlingExists ==
  ASSUME NEW config, config.Shards \in [Shard -> Gid \cup {0}], config.Groups \in SUBSET Gid,
         config.Groups # {}, NEW orphans \in Seq(Shard)
  PROVE  \E f : SettlingUpTo(config, orphans, f)
<1>1. PICK M, S, N, first : /\ M = config.Groups /\ S = Tables(M) /\ N = Len(orphans)
                            /\ first = Shared(config)
  OBVIOUS
<1>2. first \in S /\ N \in Nat
  BY <1>1, SharedListed DEF Listed
<1> DEFINE F == [n \in 1 .. N |-> [st \in S |-> Settle(st, orphans[n])]]
<1>3. ASSUME NEW n \in 1 .. N, NEW st \in S
      PROVE  Settle(st, orphans[n]) \in S
  <2>1. orphans[n] \in Shard
    BY <1>1
  <2> QED BY <1>1, <2>1, SettleGives
<1>4. F \in [1 .. N -> [S -> S]] /\ \A n \in 1 .. N, st \in S : F[n][st] = Settle(st, orphans[n])
  BY <1>3
<1>5. PICK step : step = F
  OBVIOUS
<1>6. step \in [1 .. N -> [S -> S]] /\ \A n \in 1 .. N, st \in S : step[n][st] = Settle(st, orphans[n])
  BY <1>4, <1>5
<1>7. PICK f : Recursive(S, N, first, step, f)
  BY <1>2, <1>6, RecursionExists
<1>8. f \in [0 .. N -> S] /\ f[0] = first /\ \A n \in 1 .. N : f[n] = step[n][f[n - 1]]
  BY <1>7 DEF Recursive
<1>9. ASSUME NEW n \in 0 .. N
      PROVE  f[n] = IF n = 0 THEN Shared(config) ELSE Settle(f[n - 1], orphans[n])
  <2>1. CASE n = 0
    BY <1>1, <1>8, <2>1
  <2>2. CASE n # 0
    <3>1. n \in 1 .. N /\ n - 1 \in 0 .. N
      BY <1>2, <2>2
    <3>2. f[n - 1] \in S
      BY <1>8, <3>1
    <3> QED BY <1>6, <1>8, <2>2, <3>1, <3>2
  <2> QED BY <2>1, <2>2
<1>10. SettlingUpTo(config, orphans, f)
  BY <1>1, <1>8, <1>9 DEF SettlingUpTo
<1> QED BY <1>10

\* The table st after n orphans have found a group.
SettledTo(old, M, orphans, st, n) ==
  /\ Listed(st, M)
  /\ \A x \in Shard : old[x] \in M => st.Shards[x] = old[x]
  /\ \A i \in 1 .. Len(orphans) : IF i <= n THEN st.Shards[orphans[i]] \in M
                                            ELSE st.Shards[orphans[i]] = old[orphans[i]]
  /\ \A g, h \in M : Receives(old, st.Shards, h) => Load(st.Shards, h) <= Load(st.Shards, g) + 1

\* One orphan more.
LEMMA SettleOne ==
  ASSUME NEW M \in SUBSET Gid, M # {}, NEW old, NEW orphans,
         IsListing(orphans, {x \in Shard : old[x] \notin M}),
         NEW st, NEW n \in 1 .. Len(orphans), SettledTo(old, M, orphans, st, n - 1)
  PROVE  SettledTo(old, M, orphans, Settle(st, orphans[n]), n)
<1>1. PICK x : x = orphans[n]
  OBVIOUS
<1>2. /\ orphans \in Seq(Shard) /\ Len(orphans) \in Nat /\ n \in Nat
      /\ \A i \in 1 .. Len(orphans) : orphans[i] \in Shard /\ old[orphans[i]] \notin M
      /\ \A i \in 1 .. Len(orphans) : orphans[i] = x => i = n
  <2>1. orphans \in Seq(Shard) /\ Len(orphans) \in Nat /\ n \in Nat
    BY DEF IsListing
  <2>2. \A i \in 1 .. Len(orphans) : orphans[i] \in {y \in Shard : old[y] \notin M}
    BY DEF IsListing
  <2>3. \A i \in 1 .. Len(orphans) : orphans[i] = x => i = n
    BY <1>1 DEF IsListing
  <2> QED BY <2>1, <2>2, <2>3
<1>3. PICK table, next, new : table = st.Shards /\ next = Settle(st, x) /\ new = next.Shards
  OBVIOUS
<1>4. /\ Listed(st, M)
      /\ \A y \in Shard : old[y] \in M => table[y] = old[y]
      /\ \A i \in 1 .. Len(orphans) : i <= n - 1 => table[orphans[i]] \in M
      /\ \A i \in 1 .. Len(orphans) : ~(i <= n - 1) => table[orphans[i]] = old[orphans[i]]
      /\ \A g, h \in M : Receives(old, table, h) => Load(table, h) <= Load(table, g) + 1
  BY <1>3 DEF SettledTo
<1>5. x \in Shard /\ old[x] \notin M /\ table[x] = old[x]
  BY <1>1, <1>2, <1>4
<1>6. Listed(next, M)
  BY <1>3, <1>4, <1>5, SettleListed
<1>7. PICK g \in M : new = [table EXCEPT ![x] = g] /\ \A h \in M : Load(table, g) <= Load(table, h)
  BY <1>3, <1>4, <1>5, SettleListed
<1>8. PICK X : X = Gid \cup {0}
  OBVIOUS
<1>9. table \in [Shard -> X]
  BY <1>3, <1>4, <1>8 DEF Listed, Tables
<1>10. new[x] = g /\ \A y \in Shard : y # x => new[y] = table[y]
  BY <1>5, <1>7, <1>9
<1>11. g \in X /\ table[x] # g
  BY <1>5, <1>8
<1>12. Load(new, g) = Load(table, g) + 1 /\ \A h \in M : h # g => Load(new, h) = Load(table, h)
  <2>1. table[x] # g /\ new[x] = g /\ \A y \in Shard : y # x => new[y] = table[y]
    BY <1>10, <1>11
  <2>2. x \in Shard
    BY <1>5
  <2>3. Load(new, g) = Load(table, g) + 1
    BY <2>1, <2>2, LoadGains
  <2>4. ASSUME NEW h \in M, h # g
        PROVE  Load(new, h) = Load(table, h)
    <3>1. table[x] # h /\ new[x] # h
      BY <1>5, <2>1, <2>4
    <3> QED BY <2>1, <2>2, <3>1, LoadStays
  <2> QED BY <2>3, <2>4
<1>13. \A y \in Shard : old[y] \in M => new[y] = old[y]
  BY <1>4, <1>5, <1>10
<1>14. ASSUME NEW i \in 1 .. Len(orphans)
       PROVE  IF i <= n THEN new[orphans[i]] \in M ELSE new[orphans[i]] = old[orphans[i]]
  <2>1. CASE i = n
    BY <1>1, <1>10, <2>1
  <2>2. CASE i # n
    <3>1. new[orphans[i]] = table[orphans[i]]
      BY <1>2, <1>10, <2>2
    <3>2. i <= n <=> i <= n - 1
      BY <1>2, <2>2
    <3> QED BY <1>4, <3>1, <3>2
  <2> QED BY <2>1, <2>2
<1>15. ASSUME NEW k \in M, NEW h \in M, Receives(old, new, h)
       PROVE  Load(new, h) <= Load(new, k) + 1
  <2>1. /\ Load(table, h) \in Nat /\ Load(table, k) \in Nat /\ Load(table, g) \in Nat
        /\ Load(table, g) <= Load(table, k)
    BY <1>7, LoadType
  <2>2. CASE h = g
    BY <1>12, <2>1, <2>2
  <2>3. CASE h # g
    <3>1. Receives(old, table, h)
      BY <1>10, <1>15, <2>3 DEF Receives
    <3>2. Load(table, h) <= Load(table, k) + 1
      BY <1>4, <3>1
    <3> QED BY <1>12, <2>1, <2>3, <3>2
  <2> QED BY <2>2, <2>3
<1> QED BY <1>1, <1>3, <1>6, <1>13, <1>14, <1>15 DEF SettledTo

\* When all orphans have a group the table is fair.
LEMMA SettledIsFair ==
  ASSUME NEW config, config.Shards \in [Shard -> Gid \cup {0}], config.Groups \in SUBSET Gid,
         config.Groups # {}
  PROVE  /\ Listed(AllSettled(config), config.Groups)
         /\ Fair(config.Shards, AllSettled(config).Shards, config.Groups)
<1>1. PICK old, M, orphans : /\ old = config.Shards /\ M = config.Groups
                             /\ orphans = Unassigned(config)
  OBVIOUS
<1>2. IsListing(orphans, {x \in Shard : old[x] \notin M})
  <2>1. IsListing(orphans, {x \in Shard : old[x] \in (Gid \cup {0}) \ M})
    BY <1>1, ShardsListed DEF Unassigned
  <2>2. {x \in Shard : old[x] \in (Gid \cup {0}) \ M} = {x \in Shard : old[x] \notin M}
    BY <1>1
  <2> QED BY <2>1, <2>2
<1>3. orphans \in Seq(Shard) /\ Len(orphans) \in Nat
  BY <1>2 DEF IsListing
<1>4. PICK f : SettlingUpTo(config, orphans, f) /\ AllSettled(config) = f[Len(orphans)]
  <2>1. PICK f : f = CHOOSE l : SettlingUpTo(config, orphans, l)
    OBVIOUS
  <2>2. SettlingUpTo(config, orphans, f)
    BY <1>3, <2>1, SettlingExists
  <2>3. AllSettled(config) = f[Len(orphans)]
    BY <1>1, <2>1 DEF AllSettled, SettlingUpTo
  <2> QED BY <2>2, <2>3
<1> DEFINE P == {n \in 0 .. Len(orphans) : SettledTo(old, M, orphans, f[n], n)}
<1>5. 0 \in P
  <2>1. f[0] = Shared(config)
    BY <1>3, <1>4 DEF SettlingUpTo
  <2>2. Listed(f[0], M) /\ f[0].Shards = old
    BY <1>1, <2>1, SharedListed
  <2>3. \A h \in M : ~Receives(old, old, h)
    BY DEF Receives
  <2>4. SettledTo(old, M, orphans, f[0], 0)
    BY <1>3, <2>2, <2>3 DEF SettledTo
  <2> QED BY <1>3, <2>4
<1>6. ASSUME NEW n \in 1 .. Len(orphans), n - 1 \in P
      PROVE  n \in P
  <2>1. n \in 0 .. Len(orphans) /\ n # 0
    BY <1>3
  <2>2. f[n] = Settle(f[n - 1], orphans[n])
    BY <1>4, <2>1 DEF SettlingUpTo
  <2>3. SettledTo(old, M, orphans, f[n - 1], n - 1)
    BY <1>6
  <2>4. SettledTo(old, M, orphans, f[n], n)
    BY <1>1, <1>2, <2>2, <2>3, SettleOne
  <2> QED BY <2>1, <2>4
<1>7. \A n \in 0 .. Len(orphans) : n \in P
  <2> HIDE DEF P
  <2> QED BY <1>3, <1>5, <1>6, UpTo
<1>8. PICK st : st = AllSettled(config)
  OBVIOUS
<1>9. SettledTo(old, M, orphans, st, Len(orphans))
  <2>1. Len(orphans) \in 0 .. Len(orphans)
    BY <1>3
  <2> QED BY <1>4, <1>7, <1>8, <2>1
<1>10. Listed(st, M) /\ st.Shards \in [Shard -> Gid \cup {0}]
  BY <1>9 DEF SettledTo, Listed, Tables
<1>11. ASSUME NEW x \in Shard
       PROVE  st.Shards[x] \in M /\ (old[x] \in M => st.Shards[x] = old[x])
  <2>1. CASE old[x] \in M
    BY <1>9, <2>1 DEF SettledTo
  <2>2. CASE old[x] \notin M
    <3>1. PICK i \in 1 .. Len(orphans) : orphans[i] = x
      BY <1>2, <2>2 DEF IsListing
    <3>2. i <= Len(orphans)
      BY <1>3
    <3> QED BY <1>9, <2>2, <3>1, <3>2 DEF SettledTo
  <2> QED BY <2>1, <2>2
<1>12. st.Shards \in [Shard -> M]
  BY <1>10, <1>11
<1>13. \A g \in M : ~Gives(old, st.Shards, g)
  BY <1>11 DEF Gives
<1>14. \A g, h \in M : Receives(old, st.Shards, h) => Load(st.Shards, h) <= Load(st.Shards, g) + 1
  BY <1>9 DEF SettledTo
<1>15. Fair(old, st.Shards, M)
  BY <1>12, <1>13, <1>14 DEF Fair
<1> QED BY <1>1, <1>8, <1>10, <1>15

\* Step 4.2, turn by turn.
LevelingUpTo(st, f) == f = [n \in 0 .. NShards |-> IF n = 0 THEN st ELSE Level(f[n - 1])]

\* The recursion of step 4.2 has a solution.
LEMMA LevelingExists ==
  ASSUME NEW M \in SUBSET Gid, M # {}, NEW st, Listed(st, M)
  PROVE  \E f : LevelingUpTo(st, f)
<1>1. PICK S, N : S = {t \in Tables(M) : Listed(t, M)} /\ N = NShards
  OBVIOUS
<1>2. st \in S /\ N \in Nat
  BY <1>1, ShardConfigAssumption DEF Listed
<1> DEFINE F == [n \in 1 .. N |-> [t \in S |-> Level(t)]]
<1>3. ASSUME NEW t \in S
      PROVE  Level(t) \in S
  <2>1. Listed(t, M)
    BY <1>1
  <2>2. Listed(Level(t), M)
    BY <2>1, LevelListed
  <2> QED BY <1>1, <2>2 DEF Listed
<1>4. F \in [1 .. N -> [S -> S]] /\ \A n \in 1 .. N, t \in S : F[n][t] = Level(t)
  BY <1>3
<1>5. PICK step : step = F
  OBVIOUS
<1>6. step \in [1 .. N -> [S -> S]] /\ \A n \in 1 .. N, t \in S : step[n][t] = Level(t)
  BY <1>4, <1>5
<1>7. PICK f : Recursive(S, N, st, step, f)
  BY <1>2, <1>6, RecursionExists
<1>8. f \in [0 .. N -> S] /\ f[0] = st /\ \A n \in 1 .. N : f[n] = step[n][f[n - 1]]
  BY <1>7 DEF Recursive
<1>9. ASSUME NEW n \in 0 .. N
      PROVE  f[n] = IF n = 0 THEN st ELSE Level(f[n - 1])
  <2>1. CASE n = 0
    BY <1>8, <2>1
  <2>2. CASE n # 0
    <3>1. n \in 1 .. N /\ n - 1 \in 0 .. N
      BY <1>2, <2>2
    <3>2. f[n - 1] \in S
      BY <1>8, <3>1
    <3> QED BY <1>6, <1>8, <2>2, <3>1, <3>2
  <2> QED BY <2>1, <2>2
<1>10. LevelingUpTo(st, f)
  BY <1>1, <1>8, <1>9 DEF LevelingUpTo
<1> QED BY <1>10

\* The table st after n turns: unless it is even, each of them has moved a shard.
LeveledBy(old, M, st, n) ==
  /\ Listed(st, M)
  /\ Fair(old, st.Shards, M)
  /\ EvenOver(st.Shards, M) \/ n <= Cardinality(Moved(old, st.Shards))

\* A turn is taken only when the table is uneven.
LEMMA TurnIsNeeded ==
  ASSUME NEW M, NEW table, NEW next, NEW r, NEW p, NEW x, Turn(table, next, M, r, p, x)
  PROVE  ~EvenOver(table, M)
<1>1. r \in M /\ p \in M /\ Load(table, p) + 1 < Load(table, r)
  BY DEF Turn
<1>2. Load(table, p) \in Nat /\ Load(table, r) \in Nat
  BY LoadType
<1> QED BY <1>1, <1>2 DEF EvenOver

\* One turn.
LEMMA LevelOne ==
  ASSUME NEW M \in SUBSET Gid, M # {}, NEW old, NEW st, NEW n \in Nat, LeveledBy(old, M, st, n)
  PROVE  LeveledBy(old, M, Level(st), n + 1)
<1>1. PICK next : next = Level(st)
  OBVIOUS
<1>2. Listed(st, M) /\ Fair(old, st.Shards, M)
  BY DEF LeveledBy
<1>3. /\ Listed(next, M)
      /\ \/ EvenOver(st.Shards, M) /\ next = st
         \/ \E r, p, x : Turn(st.Shards, next.Shards, M, r, p, x)
  BY <1>1, <1>2, LevelListed
<1>4. CASE EvenOver(st.Shards, M) /\ next = st
  BY <1>1, <1>2, <1>3, <1>4 DEF LeveledBy
<1>5. CASE \E r, p, x : Turn(st.Shards, next.Shards, M, r, p, x)
  <2>1. PICK r, p, x : Turn(st.Shards, next.Shards, M, r, p, x)
    BY <1>5
  <2>2. /\ Fair(old, next.Shards, M)
        /\ Cardinality(Moved(old, next.Shards)) = Cardinality(Moved(old, st.Shards)) + 1
    BY <1>2, <2>1, TurnIsFair
  <2>3. ~EvenOver(st.Shards, M)
    BY <2>1, TurnIsNeeded
  <2>4. n <= Cardinality(Moved(old, st.Shards)) /\ Cardinality(Moved(old, st.Shards)) \in Nat
    BY <2>3, MovedFinite DEF LeveledBy
  <2>5. n + 1 <= Cardinality(Moved(old, next.Shards))
    BY <2>2, <2>4
  <2> QED BY <1>1, <1>3, <2>2, <2>5 DEF LeveledBy
<1> QED BY <1>3, <1>4, <1>5

\* When there have been NShards of them, the table is even, and another changes nothing.
LEMMA LeveledIsEven ==
  ASSUME NEW M \in SUBSET Gid, M # {}, NEW old, NEW st, Listed(st, M), Fair(old, st.Shards, M)
  PROVE  /\ Fair(old, AllLeveled(st).Shards, M) /\ EvenOver(AllLeveled(st).Shards, M)
         /\ Level(AllLeveled(st)) = AllLeveled(st)
<1>1. NShards \in Nat
  BY ShardConfigAssumption
<1>2. PICK f : LevelingUpTo(st, f) /\ AllLeveled(st) = f[NShards]
  <2>1. PICK f : f = CHOOSE l : LevelingUpTo(st, l)
    OBVIOUS
  <2>2. LevelingUpTo(st, f)
    BY <2>1, LevelingExists
  <2>3. AllLeveled(st) = f[NShards]
    BY <2>1 DEF AllLeveled, LevelingUpTo
  <2> QED BY <2>2, <2>3
<1> DEFINE P == {n \in 0 .. NShards : LeveledBy(old, M, f[n], n)}
<1>3. 0 \in P
  <2>1. f[0] = st
    BY <1>1, <1>2 DEF LevelingUpTo
  <2>2. Cardinality(Moved(old, st.Shards)) \in Nat
    BY MovedFinite
  <2>3. 0 <= Cardinality(Moved(old, st.Shards))
    BY <2>2
  <2>4. LeveledBy(old, M, st, 0)
    BY <2>3 DEF LeveledBy
  <2> QED BY <1>1, <2>1, <2>4
<1>4. ASSUME NEW n \in 1 .. NShards, n - 1 \in P
      PROVE  n \in P
  <2>1. n \in 0 .. NShards /\ n # 0 /\ n - 1 \in Nat /\ (n - 1) + 1 = n
    BY <1>1
  <2>2. f[n] = Level(f[n - 1])
    BY <1>2, <2>1 DEF LevelingUpTo
  <2>3. PICK m, before : m = n - 1 /\ before = f[n - 1]
    OBVIOUS
  <2>4. m \in Nat /\ LeveledBy(old, M, before, m)
    BY <1>4, <2>1, <2>3
  <2>5. LeveledBy(old, M, Level(before), m + 1)
    BY <2>4, LevelOne
  <2> QED BY <2>1, <2>2, <2>3, <2>5
<1>5. \A n \in 0 .. NShards : n \in P
  <2> HIDE DEF P
  <2> QED BY <1>1, <1>3, <1>4, UpTo
<1>6. PICK last : last = AllLeveled(st)
  OBVIOUS
<1>7. LeveledBy(old, M, last, NShards)
  <2>1. NShards \in 0 .. NShards
    BY <1>1
  <2> QED BY <1>2, <1>5, <1>6, <2>1
<1>8. Listed(last, M) /\ Fair(old, last.Shards, M)
  BY <1>7 DEF LeveledBy
<1>9. EvenOver(last.Shards, M)
  <2> SUFFICES ASSUME ~EvenOver(last.Shards, M) PROVE FALSE
    OBVIOUS
  <2>1. NShards <= Cardinality(Moved(old, last.Shards)) /\ Cardinality(Moved(old, last.Shards)) \in Nat
    BY <1>7, MovedFinite DEF LeveledBy
  <2>2. PICK r, p, x : Turn(last.Shards, Level(last).Shards, M, r, p, x)
    BY <1>8, LevelListed
  <2>3. Cardinality(Moved(old, last.Shards)) < NShards
    BY <1>8, <2>2, UnevenIsNotOver
  <2> QED BY <1>1, <2>1, <2>3
<1>10. Level(last) = last
  <2>1. \A r, p, x : ~Turn(last.Shards, Level(last).Shards, M, r, p, x)
    BY <1>9, TurnIsNeeded
  <2> QED BY <1>8, <2>1, LevelListed
<1> QED BY <1>6, <1>8, <1>9, <1>10

\* Whatever the shards are given to before, rebalance divides them evenly among the groups
\* of the configuration, no other even division moves fewer shards, and after NShards turns
\* its second loop has ended (server.go:58-146).
THEOREM RebalanceDivides ==
  ASSUME NEW config, config.Shards \in [Shard -> Gid \cup {0}], config.Groups \in SUBSET Gid,
         config.Groups # {}
  PROVE  LET last == AllLeveled(AllSettled(config)) IN
         /\ last.Shards \in [Shard -> config.Groups] /\ EvenOver(last.Shards, config.Groups)
         /\ \A other \in [Shard -> config.Groups] :
              EvenOver(other, config.Groups) =>
                Cardinality(Moved(config.Shards, last.Shards))
                  <= Cardinality(Moved(config.Shards, other))
         /\ Level(last) = last
<1>1. PICK old, M, settled, last : /\ old = config.Shards /\ M = config.Groups
                                   /\ settled = AllSettled(config) /\ last = AllLeveled(settled)
  OBVIOUS
<1>2. old \in [Shard -> Gid \cup {0}] /\ M \in SUBSET Gid /\ M # {}
  BY <1>1
<1>3. Listed(settled, M) /\ Fair(old, settled.Shards, M)
  BY <1>1, SettledIsFair
<1>4. Fair(old, last.Shards, M) /\ EvenOver(last.Shards, M) /\ Level(last) = last
  BY <1>1, <1>2, <1>3, LeveledIsEven
<1>5. last.Shards \in [Shard -> M]
  BY <1>4 DEF Fair
<1>6. \A other \in [Shard -> M] :
        EvenOver(other, M) =>
          Cardinality(Moved(old, last.Shards)) <= Cardinality(Moved(old, other))
  BY <1>2, <1>4, FairMovesFewest
<1> QED BY <1>1, <1>4, <1>5, <1>6
=============================================================================
