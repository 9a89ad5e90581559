-------------------------- MODULE RaftCatchUpProofs --------------------------
(***************************************************************************)
(* Theorems about RaftCatchUp, for any terms and lengths of logs.  Leader  *)
(* and follower each see a piece of a ledger, the log they would have had  *)
(* they never cut it; the two ledgers are alike.  The follower's grows     *)
(* into the leader's, in part or as a whole.                               *)
(***************************************************************************)
EXTENDS RaftCatchUp, RaftLogProofs

(***************************************************************************)
(* The invariant.                                                          *)
(***************************************************************************)
Commands(g, k) == {j \in 1 .. k : g[j].cmd # NoOp}
Counted(g, k) == Cardinality(Commands(g, k))

\* L is a piece of the ledger g, up to its last index.
Sees(L, g) ==
  /\ L \in Log /\ g \in [Nat -> Entry]
  /\ \A k \in Indices(L) : At(L, k).term = g[k].term
  /\ \A k \in Held(L) : At(L, k) = g[k]
  /\ L.lastIncludedTerm = g[L.lastIncludedIndex].term
  /\ L.lastIncludedPublicIndex = Counted(g, L.lastIncludedIndex)

Agree(g, h, k) == \A j \in 0 .. k : g[j] = h[j]

\* Ledgers of m and n entries are the same up to wherever they have the same term.
Alike(g, m, h, n) == \A k \in 0 .. m : k <= n /\ g[k].term = h[k].term => Agree(g, h, k)

Exchange(g, h) ==
  /\ Sees(leader, g) /\ Sees(follower, h)
  /\ Alike(g, lastLogIndex(leader), h, lastLogIndex(follower))
  /\ follower.lastIncludedIndex <= lastLogIndex(leader)
  /\ next \in Int /\ next <= lastLogIndex(leader) + 1

CatchingUp == \E g, h : Exchange(g, h)

(***************************************************************************)
(* Counting commands.                                                      *)
(***************************************************************************)
\* No fewer commands are before a later entry, and fewer before a command than with it.
LEMMA CountedBasics ==
  ASSUME NEW g, NEW k \in Nat
  PROVE  /\ IsFiniteSet(Commands(g, k)) /\ Counted(g, k) \in Nat
         /\ \A j \in Nat : j <= k => Counted(g, j) <= Counted(g, k)
         /\ \A j \in Nat : j < k /\ g[k].cmd # NoOp => Counted(g, j) < Counted(g, k)
<1>1. \A j \in Nat : Commands(g, j) \subseteq 1 .. j
  BY DEF Commands
<1>2. \A j \in Nat : IsFiniteSet(Commands(g, j)) /\ Counted(g, j) \in Nat
  BY <1>1, IntervalSubset, FS_CardinalityType DEF Counted
<1>3. ASSUME NEW j \in Nat, j <= k
      PROVE  /\ Counted(g, j) <= Counted(g, k)
             /\ Counted(g, k) = Counted(g, j) => Commands(g, j) = Commands(g, k)
  <2>1. Commands(g, j) \subseteq Commands(g, k)
    BY <1>3 DEF Commands
  <2> QED BY <1>2, <2>1, FS_Subset DEF Counted
<1>4. ASSUME NEW j \in Nat, j < k, g[k].cmd # NoOp
      PROVE  Counted(g, j) < Counted(g, k)
  <2>1. k \in Commands(g, k) /\ k \notin Commands(g, j)
    BY <1>4 DEF Commands
  <2>2. Counted(g, j) # Counted(g, k) /\ Counted(g, j) <= Counted(g, k)
    BY <1>3, <1>4, <2>1
  <2> QED BY <1>2, <1>4, <2>2
<1> QED BY <1>2, <1>3, <1>4

\* Ledgers that agree count the same.
LEMMA CountedSame ==
  ASSUME NEW g, NEW h, NEW k \in Nat, Agree(g, h, k)
  PROVE  Counted(g, k) = Counted(h, k)
<1>1. Commands(g, k) = Commands(h, k)
  BY DEF Commands, Agree
<1> QED BY <1>1 DEF Counted

\* The public index of an entry after the snapshot is the number of commands up to it.
LEMMA PublicIsCounted ==
  ASSUME NEW g, NEW L, Sees(L, g), NEW k \in Held(L)
  PROVE  /\ realToPublicIndex(L, k) = Counted(g, k)
         /\ k \in Nat /\ L.lastIncludedIndex \in Nat /\ L.lastIncludedIndex < k
         /\ k <= lastLogIndex(L) /\ k \in Indices(L)
<1> DEFINE n == L.lastIncludedIndex
<1>1. /\ n \in Nat /\ lastLogIndex(L) \in Nat /\ k \in Nat /\ n < k /\ k <= lastLogIndex(L)
      /\ k \in Indices(L) \ {n}
  BY LogBasics DEF Held, Indices, Sees
<1>2. CommandsUpTo(L, k) = {j \in (n + 1) .. k : g[j].cmd # NoOp}
  <2>1. \A j \in (n + 1) .. k : At(L, j) = g[j]
    BY <1>1 DEF Sees, Held
  <2> QED BY <2>1 DEF CommandsUpTo
<1> HIDE DEF n
<1>3. /\ Commands(g, k) = Commands(g, n) \cup CommandsUpTo(L, k)
      /\ Commands(g, n) \cap CommandsUpTo(L, k) = {}
  BY <1>1, <1>2 DEF Commands
<1>4. IsFiniteSet(Commands(g, n)) /\ IsFiniteSet(CommandsUpTo(L, k))
  <2>1. CommandsUpTo(L, k) \subseteq (n + 1) .. k
    BY <1>2
  <2> QED BY <1>1, <2>1, CountedBasics, IntervalSubset
<1>5. Counted(g, k) = Counted(g, n) + Cardinality(CommandsUpTo(L, k))
  <2>1. Cardinality(Commands(g, k)) =
          Cardinality(Commands(g, n)) + Cardinality(CommandsUpTo(L, k)) - Cardinality({})
    BY <1>3, <1>4, FS_Union
  <2>2. Cardinality(Commands(g, n)) \in Nat /\ Cardinality(CommandsUpTo(L, k)) \in Nat
    BY <1>4, FS_CardinalityType
  <2>3. Cardinality({}) = 0
    BY FS_EmptySet
  <2> QED BY <2>1, <2>2, <2>3 DEF Counted
<1>6. L.lastIncludedPublicIndex = Counted(g, n)
  BY DEF Sees, n
<1>7. realToPublicIndex(L, k) = L.lastIncludedPublicIndex + Cardinality(CommandsUpTo(L, k))
  BY <1>1 DEF realToPublicIndex, n
<1> QED BY <1>1, <1>5, <1>6, <1>7 DEF n

(***************************************************************************)
(* The exchange.                                                           *)
(***************************************************************************)
\* The same log, if it agrees with another ledger up to all it holds.
LEMMA SeesOther ==
  ASSUME NEW g, NEW h \in [Nat -> Entry], NEW L, Sees(L, g), Agree(g, h, lastLogIndex(L))
  PROVE  Sees(L, h)
<1>1. /\ L \in Log /\ L.lastIncludedIndex \in Nat /\ lastLogIndex(L) \in Nat
      /\ L.lastIncludedIndex <= lastLogIndex(L)
  BY LogBasics DEF Sees
<1>2. \A k \in 0 .. lastLogIndex(L) : g[k] = h[k]
  BY DEF Agree
<1>3. Indices(L) \subseteq 0 .. lastLogIndex(L) /\ Held(L) \subseteq 0 .. lastLogIndex(L)
  BY <1>1 DEF Indices, Held
<1>4. L.lastIncludedIndex \in 0 .. lastLogIndex(L) /\ Agree(g, h, L.lastIncludedIndex)
  BY <1>1, <1>2 DEF Agree
<1>5. Counted(g, L.lastIncludedIndex) = Counted(h, L.lastIncludedIndex)
  BY <1>1, <1>4, CountedSame
<1> QED BY <1>1, <1>2, <1>3, <1>4, <1>5 DEF Sees

\* A server that has what comes before the entries merges them, and then has its ledger
\* or the leader's.
LEMMA MergeSees ==
  ASSUME NEW g, NEW h, NEW L, NEW F, Sees(L, g), Sees(F, h),
         Alike(g, lastLogIndex(L), h, lastLogIndex(F)),
         NEW before \in Indices(L), before \in Indices(F), At(F, before).term = At(L, before).term,
         NEW entries, entries = After(L, before), NEW N, N = merge(F, before, entries)
  PROVE  /\ N.lastIncludedIndex = F.lastIncludedIndex
         /\ \/ N = F
            \/ Sees(N, g) /\ lastLogIndex(N) = lastLogIndex(L)
         /\ \A k \in Held(L) \cap Held(F) :
              At(L, k) = At(F, k) => k <= lastLogIndex(N) /\ At(N, k) = At(F, k)
<1>1. /\ L \in Log /\ F \in Log /\ g \in [Nat -> Entry] /\ h \in [Nat -> Entry]
      /\ L.lastIncludedIndex \in Nat /\ lastLogIndex(L) \in Nat
      /\ F.lastIncludedIndex \in Nat /\ lastLogIndex(F) \in Nat
  BY LogBasics DEF Sees
<1>2. /\ before \in Nat /\ L.lastIncludedIndex <= before /\ before <= lastLogIndex(L)
      /\ F.lastIncludedIndex <= before /\ before <= lastLogIndex(F)
  BY <1>1 DEF Indices
<1>3. /\ entries \in Seq(Entry) /\ Len(entries) = lastLogIndex(L) - before
      /\ \A i \in 1 .. Len(entries) : entries[i] = At(L, before + i)
  BY <1>1, AfterGives
<1>4. N \in Log
  BY <1>1, <1>3, MergeType
<1>5. ASSUME NEW i \in 1 .. Len(entries)
      PROVE  before + i \in Held(L) /\ entries[i] = g[before + i]
  <2>1. before + i \in Held(L)
    BY <1>1, <1>2, <1>3 DEF Held
  <2> QED BY <1>3, <2>1 DEF Sees
<1>6. \A k \in 0 .. lastLogIndex(L) :
        k <= lastLogIndex(F) /\ g[k].term = h[k].term => \A j \in 0 .. k : g[j] = h[j]
  BY DEF Alike, Agree
<1>7. \A j \in 0 .. before : g[j] = h[j]
  <2>1. At(F, before).term = h[before].term /\ At(L, before).term = g[before].term
    BY DEF Sees
  <2>2. g[before].term = h[before].term
    BY <2>1
  <2>3. before \in 0 .. lastLogIndex(L) /\ before <= lastLogIndex(F)
    BY <1>1, <1>2
  <2> QED BY <1>6, <2>2, <2>3
<1>8. \/ N = F
      \/ /\ SameStart(N, F)
         /\ lastLogIndex(N) = before + Len(entries)
         /\ \E n \in 1 .. Len(entries) :
              /\ \A i \in 1 .. n - 1 : HasTerm(F, before, entries, i)
              /\ ~HasTerm(F, before, entries, n)
              /\ \A k \in F.lastIncludedIndex .. before + n - 1 : At(N, k) = At(F, k)
              /\ \A i \in n .. Len(entries) : At(N, before + i) = entries[i]
  BY <1>1, <1>3, <1>4, MergeGives
<1>9. CASE N = F
  BY <1>1, <1>9 DEF Held
<1>10. CASE N # F
  <2>1. SameStart(N, F) /\ lastLogIndex(N) = before + Len(entries)
    BY <1>8, <1>10
  <2>2. PICK n \in 1 .. Len(entries) :
          /\ \A i \in 1 .. n - 1 : HasTerm(F, before, entries, i)
          /\ ~HasTerm(F, before, entries, n)
          /\ \A k \in F.lastIncludedIndex .. before + n - 1 : At(N, k) = At(F, k)
          /\ \A i \in n .. Len(entries) : At(N, before + i) = entries[i]
    BY <1>8, <1>10
  <2>3. /\ n \in Nat /\ n >= 1 /\ n <= lastLogIndex(L) - before
        /\ lastLogIndex(N) = lastLogIndex(L)
    BY <1>1, <1>2, <1>3, <2>1
  <2>4. N.lastIncludedIndex = F.lastIncludedIndex
    BY <2>1 DEF SameStart
  <2>5. ASSUME NEW k \in F.lastIncludedIndex .. before + n - 1
        PROVE  g[k] = h[k] /\ k \in Indices(F)
    <3>1. CASE k <= before
      BY <1>1, <1>2, <1>7, <3>1 DEF Indices
    <3>2. CASE k > before
      <4>1. k - before \in 1 .. n - 1 /\ k - before \in 1 .. Len(entries) /\ before + (k - before) = k
        BY <1>1, <1>2, <1>3, <2>3, <3>2
      <4>2. HasTerm(F, before, entries, k - before)
        BY <2>2, <4>1
      <4>3. k <= lastLogIndex(F) /\ At(F, k).term = g[k].term
        BY <1>5, <4>1, <4>2 DEF HasTerm
      <4>4. k \in Indices(F) /\ k \in 0 .. lastLogIndex(L)
        BY <1>1, <1>2, <2>3, <4>3 DEF Indices
      <4>5. h[k].term = g[k].term
        BY <4>3, <4>4 DEF Sees
      <4>6. \A j \in 0 .. k : g[j] = h[j]
        BY <1>6, <4>3, <4>4, <4>5
      <4> QED BY <4>4, <4>6
    <3> QED BY <1>1, <1>2, <3>1, <3>2
  <2>6. ASSUME NEW k \in F.lastIncludedIndex .. lastLogIndex(N)
        PROVE  /\ At(N, k).term = g[k].term
               /\ k # F.lastIncludedIndex => At(N, k) = g[k]
    <3>1. CASE k <= before + n - 1
      <4>1. At(N, k) = At(F, k) /\ g[k] = h[k] /\ k \in Indices(F)
        BY <1>1, <1>2, <2>2, <2>3, <2>5, <3>1
      <4>2. At(F, k).term = h[k].term /\ (k # F.lastIncludedIndex => At(F, k) = h[k])
        BY <1>1, <4>1 DEF Sees, Held, Indices
      <4> QED BY <4>1, <4>2
    <3>2. CASE k > before + n - 1
      <4>1. k - before \in n .. Len(entries) /\ before + (k - before) = k /\ k - before \in 1 .. Len(entries)
        BY <1>1, <1>2, <1>3, <2>1, <2>3, <3>2
      <4> QED BY <1>5, <2>2, <4>1
    <3> QED BY <1>1, <1>2, <2>3, <3>1, <3>2
  <2>7. Sees(N, g)
    <3>1. Agree(h, g, F.lastIncludedIndex)
      BY <1>1, <1>2, <1>7 DEF Agree
    <3>2. Counted(h, F.lastIncludedIndex) = Counted(g, F.lastIncludedIndex)
      BY <1>1, <3>1, CountedSame
    <3>3. /\ N.lastIncludedTerm = g[N.lastIncludedIndex].term
          /\ N.lastIncludedPublicIndex = Counted(g, N.lastIncludedIndex)
      BY <1>1, <1>2, <1>7, <2>1, <3>2 DEF Sees, SameStart
    <3>4. \A k \in Indices(N) : At(N, k).term = g[k].term
      BY <2>4, <2>6 DEF Indices
    <3>5. \A k \in Held(N) : At(N, k) = g[k]
      <4>1. \A k \in Held(N) : k \in F.lastIncludedIndex .. lastLogIndex(N) /\ k # F.lastIncludedIndex
        BY <1>1, <2>4 DEF Held
      <4> QED BY <2>6, <4>1
    <3> QED BY <1>1, <1>4, <3>3, <3>4, <3>5 DEF Sees
  <2>8. ASSUME NEW k \in Held(L) \cap Held(F), At(L, k) = At(F, k)
        PROVE  k <= lastLogIndex(N) /\ At(N, k) = At(F, k)
    <3>1. /\ k \in Nat /\ k <= lastLogIndex(L) /\ k <= lastLogIndex(F) /\ F.lastIncludedIndex < k
          /\ g[k] = h[k]
      BY <1>1, <2>8 DEF Held, Sees
    <3>2. k <= before + n - 1
      <4> SUFFICES ASSUME k >= before + n PROVE FALSE
        BY <1>2, <2>3, <3>1
      <4>1. before + n \in 0 .. k /\ \A j \in 0 .. k : g[j] = h[j]
        BY <1>1, <1>2, <1>6, <2>3, <3>1
      <4>2. g[before + n] = h[before + n] /\ before + n \in Indices(F)
        BY <1>1, <1>2, <2>3, <3>1, <4>1 DEF Indices
      <4>3. At(F, before + n).term = entries[n].term
        BY <1>5, <4>2 DEF Sees
      <4>4. before + n <= lastLogIndex(F)
        BY <1>1, <1>2, <2>3, <3>1
      <4> QED BY <2>2, <4>3, <4>4 DEF HasTerm
    <3> QED BY <1>1, <1>2, <2>2, <2>3, <3>1, <3>2
  <2> QED BY <2>3, <2>4, <2>7, <2>8
<1> QED BY <1>9, <1>10

\* A server that installs a snapshot the leader has, and that goes further than its own,
\* has its ledger as before or the leader's up to the snapshot.
LEMMA InstallSees ==
  ASSUME NEW g, NEW h, NEW L, NEW F, Sees(L, g), Sees(F, h),
         Alike(g, lastLogIndex(L), h, lastLogIndex(F)),
         F.lastIncludedIndex < L.lastIncludedIndex, NEW N,
         N = install(F, L.lastIncludedIndex, L.lastIncludedTerm, L.lastIncludedPublicIndex)
  PROVE  /\ N.lastIncludedIndex = L.lastIncludedIndex
         /\ \/ Sees(N, h) /\ lastLogIndex(N) = lastLogIndex(F)
            \/ Sees(N, g) /\ lastLogIndex(N) = L.lastIncludedIndex
         /\ \A k \in Held(L) \cap Held(F) :
              At(L, k) = At(F, k) => k <= lastLogIndex(N) /\ At(N, k) = At(F, k)
<1>1. PICK n : n = L.lastIncludedIndex
  OBVIOUS
<1>2. /\ L \in Log /\ F \in Log /\ g \in [Nat -> Entry] /\ h \in [Nat -> Entry]
      /\ n \in Nat /\ lastLogIndex(L) \in Nat /\ n <= lastLogIndex(L)
      /\ F.lastIncludedIndex \in Nat /\ lastLogIndex(F) \in Nat /\ F.lastIncludedIndex < n
      /\ L.lastIncludedTerm \in Nat /\ L.lastIncludedPublicIndex \in Nat
  BY <1>1, LogBasics DEF Sees
<1>3. L.lastIncludedTerm = g[n].term /\ L.lastIncludedPublicIndex = Counted(g, n)
  BY <1>1 DEF Sees
<1>4. N \in Log
  BY <1>1, <1>2, InstallType
<1>5. PICK kept \in BOOLEAN : kept = (n \in Indices(F) /\ At(F, n).term = L.lastIncludedTerm)
  OBVIOUS
<1>6. /\ N.lastIncludedIndex = n /\ N.lastIncludedTerm = L.lastIncludedTerm
      /\ At(N, n).term = L.lastIncludedTerm
      /\ lastLogIndex(N) = IF kept THEN lastLogIndex(F) ELSE n
      /\ kept => \A k \in (n + 1) .. lastLogIndex(F) : At(N, k) = At(F, k)
  BY <1>1, <1>2, <1>4, <1>5, InstallGives
<1>7. N.lastIncludedPublicIndex = L.lastIncludedPublicIndex
  BY <1>1 DEF install, CompactedLog
<1>8. \A k \in 0 .. lastLogIndex(L) :
        k <= lastLogIndex(F) /\ g[k].term = h[k].term => Agree(g, h, k)
  BY DEF Alike
<1>9. CASE kept
  <2>1. n <= lastLogIndex(F) /\ n \in Indices(F) /\ At(F, n).term = g[n].term
    <3>1. n \in Indices(F) /\ At(F, n).term = L.lastIncludedTerm
      BY <1>5, <1>9
    <3> QED BY <1>2, <1>3, <3>1 DEF Indices
  <2>2. h[n].term = g[n].term
    BY <2>1 DEF Sees
  <2>3. Agree(g, h, n)
    BY <1>2, <1>8, <2>1, <2>2
  <2>4. Counted(g, n) = Counted(h, n)
    BY <1>2, <2>3, CountedSame
  <2>5. \A k \in (n + 1) .. lastLogIndex(F) : At(N, k) = At(F, k) /\ At(F, k) = h[k]
    BY <1>2, <1>6, <1>9 DEF Sees, Held
  <2>6. lastLogIndex(N) = lastLogIndex(F)
    BY <1>6, <1>9
  <2>7. \A k \in Indices(N) : k = n \/ k \in (n + 1) .. lastLogIndex(F)
    BY <1>2, <1>6, <2>6 DEF Indices
  <2>8. \A k \in Indices(N) : At(N, k).term = h[k].term
    BY <1>3, <1>6, <2>2, <2>5, <2>7
  <2>9. \A k \in Held(N) : At(N, k) = h[k]
    BY <1>6, <2>5, <2>6 DEF Held
  <2>10. Sees(N, h)
    BY <1>2, <1>3, <1>4, <1>6, <1>7, <2>2, <2>4, <2>8, <2>9 DEF Sees
  <2>11. \A k \in Held(L) \cap Held(F) : k <= lastLogIndex(N) /\ At(N, k) = At(F, k)
    BY <1>1, <1>2, <2>5, <2>6 DEF Held
  <2> QED BY <1>1, <1>6, <2>6, <2>10, <2>11
<1>10. CASE ~kept
  <2>1. lastLogIndex(N) = n
    BY <1>6, <1>10
  <2>2. \A k \in Indices(N) : k = n
    BY <1>2, <1>6, <2>1 DEF Indices
  <2>3. \A k \in Indices(N) : At(N, k).term = g[k].term
    BY <1>3, <1>6, <2>2
  <2>4. Held(N) = {}
    BY <1>2, <1>6, <2>1 DEF Held
  <2>5. Sees(N, g)
    BY <1>2, <1>3, <1>4, <1>6, <1>7, <2>3, <2>4 DEF Sees
  <2>6. ASSUME NEW k \in Held(L) \cap Held(F), At(L, k) = At(F, k)
        PROVE  FALSE
    <3>1. k \in Nat /\ n < k /\ k <= lastLogIndex(L) /\ k <= lastLogIndex(F) /\ g[k] = h[k]
      BY <1>1, <1>2, <2>6 DEF Held, Sees
    <3>2. Agree(g, h, k)
      BY <1>2, <1>8, <3>1
    <3>3. g[n] = h[n] /\ n \in Indices(F)
      BY <1>2, <3>1, <3>2 DEF Agree, Indices
    <3>4. At(F, n).term = L.lastIncludedTerm
      BY <1>3, <3>3 DEF Sees
    <3> QED BY <1>5, <1>10, <3>3, <3>4
  <2> QED BY <1>1, <1>6, <2>1, <2>5, <2>6
<1> QED BY <1>9, <1>10

\* How far nextIndex goes.
LEMMA BackupBound ==
  ASSUME NEW L \in Log, NEW n \in Int, L.lastIncludedIndex < n, n <= lastLogIndex(L) + 1,
         NEW hint \in [index : Int, term : Int], hint.index <= lastLogIndex(L) + 1
  PROVE  LET back == backup(L, n, n - 1, At(L, n - 1).term, hint) IN
         back \in Int /\ back <= lastLogIndex(L) + 1
<1>1. /\ L.lastIncludedIndex \in Nat /\ lastLogIndex(L) \in Nat
      /\ L.lastIncludedIndex <= lastLogIndex(L)
  BY LogBasics
<1>2. n - 1 \in Nat /\ n - 1 \in Indices(L) /\ lastLogIndex(L) + 1 \in Int
  BY <1>1 DEF Indices
<1>3. At(L, n - 1).term \in Nat
  BY <1>2, LogBasics
<1>4. PICK bound, before, term : bound = lastLogIndex(L) + 1 /\ before = n - 1 /\ term = At(L, n - 1).term
  OBVIOUS
<1>5. /\ bound \in Int /\ before \in Nat /\ term \in Nat
      /\ n <= bound /\ hint.index <= bound /\ before + 1 <= bound /\ L.lastIncludedIndex + 1 <= bound
  BY <1>1, <1>2, <1>3, <1>4
<1>6. backup(L, n, before, term, hint) \in Int /\ backup(L, n, before, term, hint) <= bound
  BY <1>5, BackupType
<1> QED BY <1>4, <1>6

\* A follower that still believes it leads an older term answers without a look at its log.
LEMMA StepDownKeeps ==
  ASSUME NEW g, NEW h, Exchange(g, h), StepDown
  PROVE  Exchange(g, h)'
<1>1. leader \in Log /\ next \in Int /\ next > leader.lastIncludedIndex
      /\ next <= lastLogIndex(leader) + 1 /\ UNCHANGED <<leader, follower>>
  BY DEF Exchange, Sees, StepDown, Requesting
<1>2. PICK hint : hint = [index |-> prev + 1, term |-> 0]
  OBVIOUS
<1>3. hint \in [index : Int, term : Int] /\ hint.index = next
  BY <1>1, <1>2 DEF prev
<1>4. leader.lastIncludedIndex \in Nat
  BY <1>1, LogBasics
<1>5. next' = backup(leader, next, next - 1, At(leader, next - 1).term, hint)
  BY <1>2 DEF StepDown, prev
<1>6. next' \in Int /\ next' <= lastLogIndex(leader) + 1
  BY <1>1, <1>3, <1>4, <1>5, BackupBound
<1> QED BY <1>1, <1>6 DEF Exchange

\* The hint of a follower that lacks the entry before.
LEMMA RejectKeeps ==
  ASSUME NEW g, NEW h, Exchange(g, h), Reject
  PROVE  Exchange(g, h)'
<1>1. /\ leader \in Log /\ follower \in Log /\ next \in Int /\ next > leader.lastIncludedIndex
      /\ next <= lastLogIndex(leader) + 1 /\ UNCHANGED <<leader, follower>>
      /\ follower.lastIncludedIndex <= lastLogIndex(leader)
  BY DEF Exchange, Sees, Reject, Requesting
<1>2. leader.lastIncludedIndex \in Nat /\ follower.lastIncludedIndex \in Nat
      /\ lastLogIndex(leader) \in Nat
  BY <1>1, LogBasics
<1>3. PICK k, term : k = next - 1 /\ term = At(leader, next - 1).term
  OBVIOUS
<1>4. k \in Nat /\ k \in Indices(leader)
  BY <1>1, <1>2, <1>3 DEF Indices
<1>5. term \in Nat
  BY <1>1, <1>3, <1>4, LogBasics
<1>6. PICK hint : hint = conflict(follower, k, term)
  OBVIOUS
<1>7. hint \in [index : Int, term : Int]
      /\ (hint.index <= k + 1 \/ hint.index = follower.lastIncludedIndex + 1)
  BY <1>1, <1>4, <1>5, <1>6, ConflictType
<1>8. hint.index <= lastLogIndex(leader) + 1
  BY <1>1, <1>2, <1>3, <1>7
<1>9. next' = backup(leader, next, next - 1, At(leader, next - 1).term, hint)
  BY <1>3, <1>6 DEF Reject, prev
<1>10. next' \in Int /\ next' <= lastLogIndex(leader) + 1
  BY <1>1, <1>2, <1>7, <1>8, <1>9, BackupBound
<1> QED BY <1>1, <1>10 DEF Exchange

\* What no step takes from the follower.
Keeps == \A k \in Held(leader) \cap Held(follower) :
           At(leader, k) = At(follower, k) =>
             /\ k <= lastLogIndex(follower')
             /\ k \in Held(follower') => At(follower', k) = At(follower, k)

\* A ledger is like itself.
LEMMA AlikeItself ==
  ASSUME NEW g, NEW m, NEW n
  PROVE  Alike(g, m, g, n)
BY DEF Alike, Agree

\* What the leader sends is merged.
LEMMA AcceptKeeps ==
  ASSUME NEW g, NEW h, Exchange(g, h), Accept
  PROVE  (Exchange(g, h) \/ Exchange(g, g))' /\ Keeps
<1>1. PICK k, entries, N : /\ k = next - 1 /\ entries = After(leader, k)
                           /\ N = merge(follower, k, entries)
  OBVIOUS
<1>2. /\ leader \in Log /\ follower \in Log /\ next \in Int /\ next > leader.lastIncludedIndex
      /\ next <= lastLogIndex(leader) + 1 /\ UNCHANGED leader
      /\ follower.lastIncludedIndex <= lastLogIndex(leader)
      /\ Sees(leader, g) /\ Sees(follower, h)
      /\ Alike(g, lastLogIndex(leader), h, lastLogIndex(follower))
      /\ next' = lastLogIndex(leader) + 1
  BY DEF Exchange, Sees, Accept, Requesting
<1>3. leader.lastIncludedIndex \in Nat /\ lastLogIndex(leader) \in Nat
  BY <1>2, LogBasics
<1>4. k \in Indices(leader)
  BY <1>1, <1>2, <1>3 DEF Indices
<1>5. k \in Indices(follower) /\ At(follower, k).term = At(leader, k).term
  BY <1>1 DEF Accept, Consistent, prev
<1>6. follower' = N
  <2>1. next - leader.lastIncludedIndex + 1 = k - leader.lastIncludedIndex + 2
    BY <1>1, <1>2, <1>3
  <2>2. entries = SubSeq(leader.logs, next - leader.lastIncludedIndex + 1, Len(leader.logs))
    BY <1>1, <2>1 DEF After
  <2> QED BY <1>1, <2>2 DEF Accept, prev
<1>7. /\ N.lastIncludedIndex = follower.lastIncludedIndex
      /\ \/ N = follower
         \/ Sees(N, g) /\ lastLogIndex(N) = lastLogIndex(leader)
      /\ \A j \in Held(leader) \cap Held(follower) :
           At(leader, j) = At(follower, j) => j <= lastLogIndex(N) /\ At(N, j) = At(follower, j)
  BY <1>1, <1>2, <1>4, <1>5, MergeSees
<1>8. Keeps
  BY <1>6, <1>7 DEF Keeps
<1>9. CASE N = follower
  BY <1>2, <1>3, <1>6, <1>8, <1>9 DEF Exchange
<1>10. CASE Sees(N, g)
  <2>1. Exchange(g, g)'
    BY <1>2, <1>3, <1>6, <1>7, <1>10, AlikeItself DEF Exchange
  <2> QED BY <1>8, <2>1
<1> QED BY <1>7, <1>9, <1>10

\* The leader's snapshot is installed.
LEMMA InstallKeeps ==
  ASSUME NEW g, NEW h, Exchange(g, h), Install
  PROVE  (Exchange(g, h) \/ Exchange(g, g))' /\ Keeps
<1>1. PICK n, N : /\ n = leader.lastIncludedIndex
                  /\ N = install(follower, leader.lastIncludedIndex, leader.lastIncludedTerm,
                                 leader.lastIncludedPublicIndex)
  OBVIOUS
<1>2. /\ leader \in Log /\ follower \in Log /\ UNCHANGED leader
      /\ follower.lastIncludedIndex <= lastLogIndex(leader)
      /\ Sees(leader, g) /\ Sees(follower, h)
      /\ Alike(g, lastLogIndex(leader), h, lastLogIndex(follower))
      /\ next' = n + 1
      /\ follower' = IF n <= follower.lastIncludedIndex THEN follower ELSE N
  BY <1>1 DEF Exchange, Sees, Install
<1>3. /\ n \in Nat /\ n <= lastLogIndex(leader) /\ lastLogIndex(leader) \in Nat
      /\ follower.lastIncludedIndex \in Nat /\ lastLogIndex(follower) \in Nat
  BY <1>1, <1>2, LogBasics
<1>4. next' \in Int /\ next' <= lastLogIndex(leader) + 1
  BY <1>2, <1>3
<1>5. CASE n <= follower.lastIncludedIndex
  <2>1. follower' = follower
    BY <1>2, <1>5
  <2>2. Keeps
    BY <1>2, <1>3, <2>1 DEF Keeps, Held
  <2> QED BY <1>2, <1>4, <2>1, <2>2 DEF Exchange
<1>6. CASE ~(n <= follower.lastIncludedIndex)
  <2>1. follower' = N /\ follower.lastIncludedIndex < leader.lastIncludedIndex
    BY <1>1, <1>2, <1>3, <1>6
  <2>2. /\ N.lastIncludedIndex = n
        /\ \/ Sees(N, h) /\ lastLogIndex(N) = lastLogIndex(follower)
           \/ Sees(N, g)
        /\ \A j \in Held(leader) \cap Held(follower) :
             At(leader, j) = At(follower, j) => j <= lastLogIndex(N) /\ At(N, j) = At(follower, j)
    BY <1>1, <1>2, <2>1, InstallSees
  <2>3. Keeps
    BY <2>1, <2>2 DEF Keeps
  <2>4. CASE Sees(N, h) /\ lastLogIndex(N) = lastLogIndex(follower)
    BY <1>2, <1>3, <1>4, <2>1, <2>2, <2>3, <2>4 DEF Exchange
  <2>5. CASE Sees(N, g)
    BY <1>2, <1>3, <1>4, <2>1, <2>2, <2>3, <2>5, AlikeItself DEF Exchange
  <2> QED BY <2>2, <2>4, <2>5
<1> QED BY <1>5, <1>6

\* Every step keeps the invariant, and what the follower has of the leader's entries.
LEMMA StepCatchesUp ==
  ASSUME CatchingUp, [Next]_vars
  PROVE  CatchingUp' /\ (vars' = vars \/ Keeps)
<1>1. PICK g, h : Exchange(g, h)
  BY DEF CatchingUp
<1>2. follower' = follower => Keeps
  BY <1>1, LogBasics DEF Keeps, Held, Exchange, Sees
<1>3. CASE StepDown
  <2>1. follower' = follower
    BY <1>3 DEF StepDown
  <2> QED BY <1>1, <1>2, <1>3, <2>1, StepDownKeeps DEF CatchingUp
<1>4. CASE Reject
  <2>1. follower' = follower
    BY <1>4 DEF Reject
  <2> QED BY <1>1, <1>2, <1>4, <2>1, RejectKeeps DEF CatchingUp
<1>5. CASE Accept
  BY <1>1, <1>5, AcceptKeeps DEF CatchingUp
<1>6. CASE Install
  BY <1>1, <1>6, InstallKeeps DEF CatchingUp
<1>7. CASE UNCHANGED vars
  BY <1>1, <1>7 DEF CatchingUp, Exchange, vars
<1> QED BY <1>3, <1>4, <1>5, <1>6, <1>7 DEF Next

(***************************************************************************)
(* Before the exchange.                                                    *)
(***************************************************************************)
\* The entry k of the history h.
EntryOf(h, k) ==
  [term |-> h[k],
   cmd  |-> IF k = 1 \/ h[k] # h[Max({1, k - 1})] THEN NoOp
            ELSE CHOOSE c \in Command : TRUE]

LedgerOf(h) == [k \in Nat |-> IF k \in 1 .. Len(h) THEN EntryOf(h, k) ELSE Sentinel(0)]

\* A history is a sequence of terms, and its entries are entries.
LEMMA HistoryBasics ==
  ASSUME NEW h \in Histories
  PROVE  /\ Len(h) \in Nat /\ \A k \in 1 .. Len(h) : h[k] \in Nat /\ EntryOf(h, k) \in Entry
         /\ LedgerOf(h) \in [Nat -> Entry]
         /\ \A k \in 1 .. Len(h) : LedgerOf(h)[k] = EntryOf(h, k) /\ LedgerOf(h)[k].term = h[k]
         /\ LedgerOf(h)[0] = Sentinel(0)
<1>1. PICK n \in 0 .. MaxLength : h \in [1 .. n -> 1 .. MaxTerm]
  BY DEF Histories
<1>2. n \in Nat /\ MaxTerm \in Nat
  BY CatchUpAssumption
<1>3. Len(h) = n /\ \A k \in 1 .. n : h[k] \in Nat
  BY <1>1, <1>2
<1>4. (CHOOSE c \in Command : TRUE) \in Command
  BY CatchUpAssumption
<1>5. ASSUME NEW k \in 1 .. n
      PROVE  EntryOf(h, k) \in Entry /\ EntryOf(h, k).term = h[k]
  BY <1>3, <1>4 DEF EntryOf, Entry
<1>6. Sentinel(0) \in Entry
  BY DEF Sentinel, Entry
<1> QED BY <1>2, <1>3, <1>5, <1>6 DEF LedgerOf

\* A log that was never cut is its whole ledger.
LEMMA UncutSees ==
  ASSUME NEW h \in Histories
  PROVE  /\ Sees(Uncut(h), LedgerOf(h)) /\ lastLogIndex(Uncut(h)) = Len(h)
         /\ Uncut(h).lastIncludedIndex = 0
<1>1. PICK L, g, tail : /\ L = Uncut(h) /\ g = LedgerOf(h)
                        /\ tail = [k \in 1 .. Len(h) |-> EntryOf(h, k)]
  OBVIOUS
<1>2. tail \in Seq(Entry) /\ Len(tail) = Len(h) /\ \A k \in 1 .. Len(h) : tail[k] = EntryOf(h, k)
  BY <1>1, HistoryBasics
<1>3. L = [EmptyLog EXCEPT !.logs = @ \o tail]
  BY <1>1 DEF Uncut, EntryOf
<1>4. L = CompactedLog(tail, 0, 0, 0)
  BY <1>3 DEF CompactedLog, EmptyLog
<1>5. L \in Log
  BY <1>2, <1>4, CompactedLogType
<1>6. /\ L.lastIncludedIndex = 0 /\ L.lastIncludedTerm = 0 /\ L.lastIncludedPublicIndex = 0
      /\ lastLogIndex(L) = 0 + Len(tail) /\ At(L, 0).term = 0
      /\ \A k \in 1 .. Len(tail) : At(L, 0 + k) = tail[k]
  <2>1. PICK z \in Nat : z = 0
    OBVIOUS
  <2>2. L = CompactedLog(tail, z, z, z)
    BY <1>4, <2>1
  <2>3. tail \in Seq(Entry)
    BY <1>2
  <2>4. /\ L.lastIncludedIndex = z /\ L.lastIncludedTerm = z /\ L.lastIncludedPublicIndex = z
        /\ lastLogIndex(L) = z + Len(tail) /\ At(L, z).term = z
    BY <1>5, <2>2, <2>3, CompactedLogGives
  <2>5. \A k \in 1 .. Len(tail) : At(L, z + k) = tail[k]
    BY <1>5, <2>2, <2>3, CompactedLogGives
  <2> QED BY <2>1, <2>4, <2>5
<1>7. lastLogIndex(L) = Len(h) /\ \A k \in 1 .. Len(h) : At(L, k) = EntryOf(h, k)
  BY <1>2, <1>6, HistoryBasics
<1>8. /\ g \in [Nat -> Entry] /\ g[0].term = 0
      /\ \A k \in 1 .. Len(h) : At(L, k) = g[k]
  BY <1>1, <1>7, HistoryBasics DEF Sentinel
<1>9. Indices(L) = 0 .. Len(h) /\ Held(L) = 1 .. Len(h)
  BY <1>6, <1>7 DEF Indices, Held
<1>10. \A k \in Indices(L) : At(L, k).term = g[k].term
  <2> TAKE k \in Indices(L)
  <2>1. k = 0 \/ k \in 1 .. Len(h)
    BY <1>9, HistoryBasics
  <2> QED BY <1>6, <1>8, <2>1
<1>11. Counted(g, 0) = 0
  <2>1. Commands(g, 0) = {}
    BY DEF Commands
  <2> QED BY <2>1, FS_EmptySet DEF Counted
<1> QED BY <1>1, <1>5, <1>6, <1>7, <1>8, <1>9, <1>10, <1>11 DEF Sees

\* Nor does a cut change what it is a piece of.
LEMMA LogOfSees ==
  ASSUME NEW h \in Histories, NEW cut \in 0 .. Len(h)
  PROVE  /\ Sees(LogOf(h, cut), LedgerOf(h)) /\ lastLogIndex(LogOf(h, cut)) = Len(h)
         /\ LogOf(h, cut).lastIncludedIndex = cut
<1>1. CASE cut = 0
  BY <1>1, UncutSees DEF LogOf
<1>2. CASE cut # 0
  <2>1. PICK L, g, public, N : /\ L = Uncut(h) /\ g = LedgerOf(h)
                               /\ public = realToPublicIndex(L, cut) /\ N = compact(L, cut, public)
    OBVIOUS
  <2>2. N = LogOf(h, cut)
    BY <1>2, <2>1 DEF LogOf
  <2>3. Sees(L, g) /\ lastLogIndex(L) = Len(h) /\ L.lastIncludedIndex = 0 /\ L \in Log
    BY <2>1, UncutSees DEF Sees
  <2>4. Len(h) \in Nat /\ cut \in Nat
    BY HistoryBasics
  <2>5. cut \in Indices(L) /\ cut \in Held(L)
    BY <1>2, <2>3, <2>4 DEF Indices, Held
  <2>6. public = Counted(g, cut) /\ public \in Nat
    BY <2>1, <2>3, <2>4, <2>5, PublicIsCounted, CountedBasics
  <2>7. N \in Log
    BY <2>1, <2>3, <2>5, <2>6, CompactType
  <2>8. /\ N.lastIncludedIndex = cut /\ N.lastIncludedTerm = termAt(L, cut)
        /\ lastLogIndex(N) = lastLogIndex(L) /\ At(N, cut).term = termAt(L, cut)
        /\ \A k \in (cut + 1) .. lastLogIndex(L) : At(N, k) = At(L, k)
    BY <2>1, <2>3, <2>5, <2>6, <2>7, CompactGives
  <2>9. N.lastIncludedPublicIndex = public
    BY <2>1 DEF compact, CompactedLog
  <2>10. termAt(L, cut) = g[cut].term
    BY <1>2, <2>3, <2>5 DEF termAt, Sees
  <2>11. \A k \in Held(N) : At(N, k) = g[k]
    BY <2>3, <2>4, <2>8 DEF Held, Sees
  <2>12. \A k \in Indices(N) : At(N, k).term = g[k].term
    <3> TAKE k \in Indices(N)
    <3>1. k = cut \/ k \in Held(N)
      BY <2>3, <2>4, <2>8 DEF Indices, Held
    <3> QED BY <2>8, <2>10, <2>11, <3>1
  <2>13. Sees(N, g)
    BY <2>3, <2>6, <2>7, <2>8, <2>9, <2>10, <2>11, <2>12 DEF Sees
  <2> QED BY <2>1, <2>2, <2>3, <2>8, <2>13
<1> QED BY <1>1, <1>2

\* Histories that Raft allows make ledgers that are alike.
LEMMA PossibleIsAlike ==
  ASSUME NEW l \in Histories, NEW f \in Histories, Possible(l, f)
  PROVE  Alike(LedgerOf(l), Len(l), LedgerOf(f), Len(f))
<1>1. Len(l) \in Nat /\ Len(f) \in Nat
  BY HistoryBasics
<1>2. ASSUME NEW k \in 0 .. Len(l), k <= Len(f), LedgerOf(l)[k].term = LedgerOf(f)[k].term,
             NEW j \in 0 .. k
      PROVE  LedgerOf(l)[j] = LedgerOf(f)[j]
  <2>1. CASE j = 0
    BY <2>1, HistoryBasics
  <2>2. CASE j # 0
    <3>1. /\ k \in Nat /\ j \in Nat /\ 1 <= j /\ j <= k
          /\ k \in 1 .. Len(l) /\ k \in 1 .. Len(f) /\ j \in 1 .. Len(l) /\ j \in 1 .. Len(f)
      BY <1>1, <1>2, <2>2
    <3>2. l[k] = f[k]
      BY <1>2, <3>1, HistoryBasics
    <3>3. k \in Shorter(l, f)
      BY <1>1, <3>1, PairValues DEF Shorter
    <3>4. \A i \in 1 .. k : l[i] = f[i]
      BY <3>2, <3>3 DEF Possible, Common
    <3>5. Max({1, j - 1}) = IF j = 1 THEN 1 ELSE j - 1
      <4>1. PICK i \in Int : i = j - 1
        BY <3>1
      <4>2. Max({1, i}) = IF 1 <= i THEN i ELSE 1
        <5>1. PICK one \in Int : one = 1
          OBVIOUS
        <5>2. Max({one, i}) = IF one <= i THEN i ELSE one
          BY PairValues
        <5> QED BY <5>1, <5>2
      <4> QED BY <3>1, <4>1, <4>2
    <3>6. l[j] = f[j] /\ l[Max({1, j - 1})] = f[Max({1, j - 1})]
      BY <3>1, <3>4, <3>5
    <3>7. EntryOf(l, j) = EntryOf(f, j)
      BY <3>6 DEF EntryOf
    <3> QED BY <3>1, <3>7, HistoryBasics
  <2> QED BY <2>1, <2>2
<1> QED BY <1>2 DEF Alike, Agree

\* Logs that a run of Raft can leave satisfy the invariant.
LEMMA InitCatchesUp == Init => CatchingUp
<1> SUFFICES ASSUME Init PROVE CatchingUp
  OBVIOUS
<1>1. PICK l \in Histories, f \in Histories :
        /\ l # <<>> /\ Possible(l, f)
        /\ \E cut \in 0 .. Len(l) : leader = LogOf(l, cut)
        /\ \E cut \in {0} \cup Shorter(l, f) : Common(l, f, cut) /\ follower = LogOf(f, cut)
        /\ next \in {k + 1 : k \in {j \in 1 .. Len(l) : l[j] = l[Len(l)]}}
  BY DEF Init
<1>2. Len(l) \in Nat /\ Len(f) \in Nat
  BY HistoryBasics
<1>3. Sees(leader, LedgerOf(l)) /\ lastLogIndex(leader) = Len(l)
  BY <1>1, LogOfSees
<1>4. PICK cut \in {0} \cup Shorter(l, f) : follower = LogOf(f, cut)
  BY <1>1
<1>5. cut \in 0 .. Len(f) /\ cut <= Len(l)
  BY <1>2, PairValues DEF Shorter
<1>6. /\ Sees(follower, LedgerOf(f)) /\ lastLogIndex(follower) = Len(f)
      /\ follower.lastIncludedIndex = cut
  BY <1>4, <1>5, LogOfSees
<1>7. Alike(LedgerOf(l), Len(l), LedgerOf(f), Len(f))
  BY <1>1, PossibleIsAlike
<1>8. next \in Int /\ next <= Len(l) + 1
  BY <1>1, <1>2
<1> QED BY <1>3, <1>5, <1>6, <1>7, <1>8 DEF CatchingUp, Exchange

(***************************************************************************)
(* Theorems.                                                               *)
(***************************************************************************)
\* So does every state of the exchange.
LEMMA AlwaysCatchingUp == Spec => []CatchingUp
<1>1. CatchingUp /\ [Next]_vars => CatchingUp'
  BY StepCatchesUp
<1> QED BY <1>1, InitCatchesUp, PTL DEF Spec

\* The terms of the two logs are those of their ledgers.
LEMMA TermsSeen ==
  ASSUME NEW L, NEW g, Sees(L, g), NEW k \in Indices(L)
  PROVE  termAt(L, k) = g[k].term
BY DEF termAt, Sees

\* Pieces of ledgers that are alike match.
LEMMA LogsMatchThen == CatchingUp => LogsMatch
<1> SUFFICES ASSUME CatchingUp, NEW k \in Indices(leader) \cap Indices(follower),
                    termAt(leader, k) = termAt(follower, k),
                    NEW j \in Held(leader) \cap Held(follower), j <= k
             PROVE  At(leader, j) = At(follower, j)
  BY DEF LogsMatch
<1>1. PICK g, h : Exchange(g, h)
  BY DEF CatchingUp
<1>2. /\ Sees(leader, g) /\ Sees(follower, h) /\ leader \in Log /\ follower \in Log
      /\ Alike(g, lastLogIndex(leader), h, lastLogIndex(follower))
  BY <1>1 DEF Exchange, Sees
<1>3. g[k].term = h[k].term
  BY <1>2, TermsSeen
<1>4. k \in 0 .. lastLogIndex(leader) /\ k <= lastLogIndex(follower) /\ j \in 0 .. k
  BY <1>2, LogBasics DEF Indices, Held
<1>5. g[j] = h[j]
  BY <1>2, <1>3, <1>4 DEF Alike, Agree
<1> QED BY <1>2, <1>5 DEF Sees

\* Equal terms at an index mean equal entries up to it, in whatever order conflicts, merges
\* and snapshots come (AppendEntries.go:282-358, 126-190).
THEOREM LogsMatchThroughout == Spec => []LogsMatch
BY AlwaysCatchingUp, LogsMatchThen, PTL

\* A command is found by its public index.
LEMMA PublicLeadsBack ==
  ASSUME NEW L, NEW g, Sees(L, g), NEW k \in Held(L), At(L, k).cmd # NoOp
  PROVE  publicToRealIndex(L, realToPublicIndex(L, k)) = k
<1>1. PICK public : public = realToPublicIndex(L, k)
  OBVIOUS
<1>2. PICK here : here = {j \in CommandsUpTo(L, lastLogIndex(L)) : realToPublicIndex(L, j) = public}
  OBVIOUS
<1>3. /\ L.lastIncludedPublicIndex = Counted(g, L.lastIncludedIndex)
      /\ public = Counted(g, k) /\ k \in Nat /\ L.lastIncludedIndex \in Nat
      /\ L.lastIncludedIndex < k /\ k <= lastLogIndex(L) /\ lastLogIndex(L) \in Nat
  BY <1>1, PublicIsCounted, LogBasics DEF Sees
<1>4. g[k].cmd # NoOp
  BY DEF Sees
<1>5. public # L.lastIncludedPublicIndex
  <2>1. Counted(g, L.lastIncludedIndex) < Counted(g, k)
    BY <1>3, <1>4, CountedBasics
  <2>2. Counted(g, L.lastIncludedIndex) \in Nat /\ Counted(g, k) \in Nat
    BY <1>3, CountedBasics
  <2> QED BY <1>3, <2>1, <2>2
<1>6. k \in here
  <2>1. k \in CommandsUpTo(L, lastLogIndex(L))
    BY <1>3 DEF CommandsUpTo
  <2> QED BY <1>1, <1>2, <2>1
<1>7. ASSUME NEW j \in here PROVE j = k
  <2>1. /\ j \in (L.lastIncludedIndex + 1) .. lastLogIndex(L) /\ At(L, j).cmd # NoOp
        /\ realToPublicIndex(L, j) = public
    BY <1>2 DEF CommandsUpTo
  <2>2. j \in Held(L)
    BY <2>1 DEF Held
  <2>3. Counted(g, j) = Counted(g, k) /\ j \in Nat /\ g[j].cmd # NoOp
    BY <1>3, <2>1, <2>2, PublicIsCounted DEF Sees
  <2>4. Counted(g, j) \in Nat /\ Counted(g, k) \in Nat
    BY <1>3, <2>3, CountedBasics
  <2>5. ~(j < k)
    <3>1. j < k => Counted(g, j) < Counted(g, k)
      BY <1>3, <1>4, <2>3, CountedBasics
    <3> QED BY <2>3, <2>4, <3>1
  <2>6. ~(k < j)
    <3>1. k < j => Counted(g, k) < Counted(g, j)
      BY <1>3, <2>3, CountedBasics
    <3> QED BY <2>3, <2>4, <3>1
  <2> QED BY <1>3, <2>3, <2>5, <2>6
<1>8. here = {k}
  BY <1>6, <1>7
<1>9. Min(here) = k
  BY <1>8 DEF Min
<1>10. publicToRealIndex(L, public) = Min(here)
  BY <1>2, <1>5, <1>6 DEF publicToRealIndex
<1> QED BY <1>1, <1>9, <1>10

\* And their commands are counted alike.
LEMMA PublicIndicesAgreeThen == CatchingUp => PublicIndicesAgree
<1> SUFFICES ASSUME CatchingUp, NEW k \in Held(follower)
             PROVE  /\ k \in Held(leader) /\ At(leader, k).term = At(follower, k).term =>
                         realToPublicIndex(leader, k) = realToPublicIndex(follower, k)
                    /\ At(follower, k).cmd # NoOp =>
                         publicToRealIndex(follower, realToPublicIndex(follower, k)) = k
  BY DEF PublicIndicesAgree
<1>1. PICK g, h : Exchange(g, h)
  BY DEF CatchingUp
<1>2. /\ Sees(leader, g) /\ Sees(follower, h)
      /\ Alike(g, lastLogIndex(leader), h, lastLogIndex(follower))
  BY <1>1 DEF Exchange
<1>3. ASSUME k \in Held(leader), At(leader, k).term = At(follower, k).term
      PROVE  realToPublicIndex(leader, k) = realToPublicIndex(follower, k)
  <2>1. /\ realToPublicIndex(leader, k) = Counted(g, k) /\ k \in Nat /\ k <= lastLogIndex(leader)
        /\ realToPublicIndex(follower, k) = Counted(h, k) /\ k <= lastLogIndex(follower)
    BY <1>2, <1>3, PublicIsCounted
  <2>2. g[k].term = h[k].term
    BY <1>2, <1>3 DEF Sees
  <2>3. lastLogIndex(leader) \in Nat
    BY <1>2, LogBasics DEF Sees
  <2>4. Agree(g, h, k)
    BY <1>2, <2>1, <2>2, <2>3 DEF Alike
  <2> QED BY <2>1, <2>4, CountedSame
<1>4. At(follower, k).cmd # NoOp => publicToRealIndex(follower, realToPublicIndex(follower, k)) = k
  BY <1>2, PublicLeadsBack
<1> QED BY <1>3, <1>4

\* A command has the same public index on both servers, and the index leads back to it,
\* wherever the two have cut their logs (raft.go:133-216).
THEOREM PublicIndicesAlwaysAgree == Spec => []PublicIndicesAgree
BY AlwaysCatchingUp, PublicIndicesAgreeThen, PTL

\* No request removes an entry that agrees with the leader's, which may be the one the leader
\* has counted for a majority (AppendEntries.go:282-358, 126-190).
THEOREM WhatAgreesStays == Spec => AgreedEntriesStay
<1>1. CatchingUp /\ [Next]_vars =>
        [\A k \in Held(leader) \cap Held(follower) :
           At(leader, k) = At(follower, k) =>
             /\ k <= lastLogIndex(follower')
             /\ k \in Held(follower') => At(follower', k) = At(follower, k)]_vars
  BY StepCatchesUp DEF Keeps
<1> QED BY <1>1, AlwaysCatchingUp, PTL DEF Spec, AgreedEntriesStay
=============================================================================
