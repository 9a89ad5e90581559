--------------------------- MODULE RaftLogProofs ---------------------------
(***************************************************************************)
(* Facts about the operators of RaftLog, for every log.                    *)
(***************************************************************************)
EXTENDS RaftLog, FiniteSetTheorems, SequenceTheorems, WellFoundedInduction, TLAPS

(***************************************************************************)
(* Maxima and minima of finite sets of integers exist.                     *)
(***************************************************************************)
\* A finite non-empty set of integers has a greatest element, and Max is it.
LEMMA MaxOfFinite ==
  ASSUME NEW T \in SUBSET Int, IsFiniteSet(T), T # {}
  PROVE  Max(T) \in T /\ \A y \in T : Max(T) >= y
<1> DEFINE Above(x) == {y \in T : y > x}
           R == StrictSubsetOrdering(T)
           A == {Above(x) : x \in T}
<1>1. IsWellFoundedOn(R, FiniteSubsetsOf(T))
  BY FS_StrictSubsetOrderingWellFounded
<1>2. A \subseteq FiniteSubsetsOf(T)
  <2>1. \A x \in T : Above(x) \subseteq T /\ IsFiniteSet(Above(x))
    BY FS_Subset
  <2> QED BY <2>1 DEF FiniteSubsetsOf
<1>3. A # {}
  OBVIOUS
<1>4. PICK U \in A : \A V \in A : <<V, U>> \notin R
  <2> HIDE DEF A, R
  <2> QED BY <1>1, <1>2, <1>3, WFMin
<1>5. PICK x \in T : U = Above(x)
  OBVIOUS
<1>6. \A y \in T : x >= y
  <2> SUFFICES ASSUME NEW y \in T, ~(x >= y) PROVE FALSE
    OBVIOUS
  <2>1. x \in Int /\ y \in Int /\ y > x
    OBVIOUS
  <2>2. \A z \in T : z > y => z > x
    BY <2>1
  <2>3. Above(y) \subseteq Above(x)
    BY <2>2
  <2>4. y \in Above(x) /\ y \notin Above(y)
    BY <2>1
  <2>5. <<Above(y), Above(x)>> \in R
    BY <2>3, <2>4 DEF StrictSubsetOrdering
  <2> QED BY <2>5, <1>4, <1>5
<1> QED BY <1>6 DEF Max

\* A finite non-empty set of integers has a least element, and Min is it.
LEMMA MinOfFinite ==
  ASSUME NEW T \in SUBSET Int, IsFiniteSet(T), T # {}
  PROVE  Min(T) \in T /\ \A y \in T : Min(T) <= y
<1> DEFINE Below(x) == {y \in T : y < x}
           R == StrictSubsetOrdering(T)
           A == {Below(x) : x \in T}
<1>1. IsWellFoundedOn(R, FiniteSubsetsOf(T))
  BY FS_StrictSubsetOrderingWellFounded
<1>2. A \subseteq FiniteSubsetsOf(T)
  <2>1. \A x \in T : Below(x) \subseteq T /\ IsFiniteSet(Below(x))
    BY FS_Subset
  <2> QED BY <2>1 DEF FiniteSubsetsOf
<1>3. A # {}
  OBVIOUS
<1>4. PICK U \in A : \A V \in A : <<V, U>> \notin R
  <2> HIDE DEF A, R
  <2> QED BY <1>1, <1>2, <1>3, WFMin
<1>5. PICK x \in T : U = Below(x)
  OBVIOUS
<1>6. \A y \in T : x <= y
  <2> SUFFICES ASSUME NEW y \in T, ~(x <= y) PROVE FALSE
    OBVIOUS
  <2>1. x \in Int /\ y \in Int /\ y < x
    OBVIOUS
  <2>2. \A z \in T : z < y => z < x
    BY <2>1
  <2>3. Below(y) \subseteq Below(x)
    BY <2>2
  <2>4. y \in Below(x) /\ y \notin Below(y)
    BY <2>1
  <2>5. <<Below(y), Below(x)>> \in R
    BY <2>3, <2>4 DEF StrictSubsetOrdering
  <2> QED BY <2>5, <1>4, <1>5
<1> QED BY <1>6 DEF Min

\* A non-empty set of integers between two bounds has both.
LEMMA IntervalSubset ==
  ASSUME NEW a \in Int, NEW b \in Int, NEW T, T \subseteq a .. b
  PROVE  /\ IsFiniteSet(T)
         /\ T # {} => Min(T) \in T \cap Int /\ \A y \in T : Min(T) <= y
         /\ T # {} => Max(T) \in T \cap Int /\ \A y \in T : Max(T) >= y
<1>1. IsFiniteSet(a .. b) /\ a .. b \subseteq Int
  BY FS_Interval
<1>2. IsFiniteSet(T) /\ T \in SUBSET Int
  BY <1>1, FS_Subset
<1> QED BY <1>2, MinOfFinite, MaxOfFinite

\* Of two integers one is the smaller and one the greater.
LEMMA PairExtremes ==
  ASSUME NEW a \in Int, NEW b \in Int
  PROVE  Min({a, b}) \in Int /\ Max({a, b}) \in Int
<1>1. CASE a <= b
  <2>1. {a, b} \subseteq a .. b /\ {a, b} # {}
    BY <1>1
  <2> QED BY <2>1, IntervalSubset
<1>2. CASE b <= a
  <2>1. {a, b} \subseteq b .. a /\ {a, b} # {}
    BY <1>2
  <2> QED BY <2>1, IntervalSubset
<1> QED BY <1>1, <1>2

\* Which of the two it is.
LEMMA PairValues ==
  ASSUME NEW a \in Int, NEW b \in Int
  PROVE  /\ Min({a, b}) = IF a <= b THEN a ELSE b
         /\ Max({a, b}) = IF a <= b THEN b ELSE a
<1>1. PICK lo \in Int : \E hi \in Int : {a, b} \subseteq lo .. hi
  <2>1. a <= b \/ b <= a
    OBVIOUS
  <2> QED BY <2>1
<1>2. PICK hi \in Int : {a, b} \subseteq lo .. hi
  BY <1>1
<1>3. /\ Min({a, b}) \in {a, b} /\ \A y \in {a, b} : Min({a, b}) <= y
      /\ Max({a, b}) \in {a, b} /\ \A y \in {a, b} : Max({a, b}) >= y
  BY <1>2, IntervalSubset
<1> QED BY <1>3

(***************************************************************************)
(* Types.                                                                  *)
(***************************************************************************)
\* Inside its indices a log yields entries.
LEMMA LogBasics ==
  ASSUME NEW L \in Log
  PROVE  /\ Len(L.logs) \in Nat \ {0}
         /\ L.logs \in Seq(Entry)
         /\ L.lastIncludedIndex \in Nat
         /\ L.lastIncludedTerm \in Nat
         /\ L.lastIncludedPublicIndex \in Nat
         /\ lastLogIndex(L) \in Nat
         /\ L.lastIncludedIndex <= lastLogIndex(L)
         /\ \A k \in Indices(L) : /\ k - L.lastIncludedIndex + 1 \in 1 .. Len(L.logs)
                                  /\ At(L, k) \in Entry
                                  /\ At(L, k).term \in Nat
                                  /\ termAt(L, k) \in Nat
         /\ lastLogTerm(L) \in Nat
<1>1. /\ L.logs \in Seq(Entry) /\ L.logs # <<>> /\ L.lastIncludedIndex \in Nat
      /\ L.lastIncludedTerm \in Nat /\ L.lastIncludedPublicIndex \in Nat
  BY DEF Log
<1>2. Len(L.logs) \in Nat \ {0}
  BY <1>1, EmptySeq
<1>3. lastLogIndex(L) \in Nat /\ L.lastIncludedIndex <= lastLogIndex(L)
  BY <1>1, <1>2 DEF lastLogIndex
<1>4. ASSUME NEW k \in Indices(L)
      PROVE  /\ k - L.lastIncludedIndex + 1 \in 1 .. Len(L.logs)
             /\ At(L, k) \in Entry /\ At(L, k).term \in Nat /\ termAt(L, k) \in Nat
  <2>1. k - L.lastIncludedIndex + 1 \in 1 .. Len(L.logs)
    BY <1>1, <1>2, <1>3 DEF Indices, lastLogIndex
  <2>2. At(L, k) \in Entry
    BY <2>1, <1>1, ElementOfSeq DEF At
  <2>3. At(L, k).term \in Nat
    BY <2>2 DEF Entry
  <2> QED BY <2>1, <2>2, <2>3, <1>1 DEF termAt
<1>5. lastLogTerm(L) \in Nat
  BY <1>1, <1>3, <1>4 DEF lastLogTerm, Indices
<1> QED BY <1>1, <1>2, <1>3, <1>4, <1>5

\* A sentinel before a sequence of entries is the slice of a log.
LEMMA CompactedLogType ==
  ASSUME NEW tail \in Seq(Entry), NEW index \in Nat, NEW term \in Nat, NEW public \in Nat
  PROVE  CompactedLog(tail, index, term, public) \in Log
<1>1. <<Sentinel(term)>> \in Seq(Entry)
  BY DEF Sentinel, Entry
<1>2. <<Sentinel(term)>> \o tail \in Seq(Entry) /\ Len(<<Sentinel(term)>> \o tail) >= 1
  BY <1>1, ConcatProperties
<1>3. <<Sentinel(term)>> \o tail # <<>>
  BY <1>2, EmptySeq
<1> QED BY <1>2, <1>3 DEF CompactedLog, Log

\* The log of a new server is a log.
LEMMA EmptyLogType == EmptyLog \in Log
<1>1. <<Sentinel(0)>> \in Seq(Entry) /\ <<Sentinel(0)>> # <<>>
  BY DEF Sentinel, Entry
<1> QED BY <1>1 DEF EmptyLog, Log

\* What follows an index of the log is a sequence of entries.
LEMMA AfterType ==
  ASSUME NEW L \in Log, NEW index \in Indices(L)
  PROVE  After(L, index) \in Seq(Entry)
<1>1. index - L.lastIncludedIndex + 2 \in Int /\ Len(L.logs) \in Int
  BY LogBasics DEF Indices
<1>2. \A i \in (index - L.lastIncludedIndex + 2) .. Len(L.logs) : L.logs[i] \in Entry
  BY LogBasics, ElementOfSeq DEF Indices
<1> QED BY <1>1, <1>2, SubSeqProperties DEF After

\* Snapshot and InstallSnapshot leave a log.
LEMMA CompactType ==
  ASSUME NEW L \in Log, NEW index \in Indices(L), NEW public \in Nat
  PROVE  compact(L, index, public) \in Log
<1>1. index \in Nat
  BY LogBasics DEF Indices
<1> QED BY <1>1, AfterType, LogBasics, CompactedLogType DEF compact

\* A snapshot from the leader leaves a log, with the tail or without.
LEMMA InstallType ==
  ASSUME NEW L \in Log, NEW index \in Nat, NEW term \in Nat, NEW public \in Nat
  PROVE  install(L, index, term, public) \in Log
<1>1. CASE index \in Indices(L) /\ At(L, index).term = term
  BY <1>1, AfterType, CompactedLogType DEF install
<1>2. CASE ~(index \in Indices(L) /\ At(L, index).term = term)
  <2>1. <<>> \in Seq(Entry)
    BY EmptySeq
  <2> QED BY <2>1, <1>2, CompactedLogType DEF install
<1> QED BY <1>1, <1>2

\* Start and a new leader leave a log.
LEMMA AppendType ==
  ASSUME NEW L \in Log, NEW entry \in Entry
  PROVE  append(L, entry) \in Log
<1>1. L.logs \in Seq(Entry)
  BY LogBasics
<1>2. Append(L.logs, entry) \in Seq(Entry) /\ Append(L.logs, entry) # <<>>
  BY <1>1, AppendProperties
<1> QED BY <1>2 DEF append, Log


\* The merge of AppendEntries leaves a log: it cuts inside the slice, behind the
\* entry that was checked.
LEMMA MergeType ==
  ASSUME NEW L \in Log, NEW prevLogIndex \in Indices(L), NEW entries \in Seq(Entry)
  PROVE  merge(L, prevLogIndex, entries) \in Log
<1> DEFINE new == {i \in 1 .. Len(entries) :
                     \/ prevLogIndex + i > lastLogIndex(L)
                     \/ At(L, prevLogIndex + i).term # entries[i].term}
           keep == prevLogIndex + Min(new) - L.lastIncludedIndex
           cut  == SubSeq(L.logs, 1, keep)
           more == SubSeq(entries, Min(new), Len(entries))
<1>1. Len(entries) \in Nat
  OBVIOUS
<1>2. CASE new = {}
  BY <1>2 DEF merge
<1>3. CASE new # {}
  <2>1. Min(new) \in new /\ \A j \in new : Min(new) <= j
    <3> HIDE DEF new
    <3>1. new \subseteq 1 .. Len(entries)
      BY DEF new
    <3>2. 1 \in Int /\ Len(entries) \in Int
      BY <1>1
    <3> QED BY <3>1, <3>2, <1>3, IntervalSubset
  <2>2. Min(new) \in 1 .. Len(entries)
    BY <2>1
  <2>3. prevLogIndex + Min(new) - 1 <= lastLogIndex(L)
    <3>1. CASE Min(new) = 1
      BY <3>1, LogBasics DEF Indices
    <3>2. CASE Min(new) # 1
      <4>1. Min(new) - 1 \in 1 .. Len(entries)
        BY <2>2, <3>2, <1>1
      <4>2. Min(new) - 1 \notin new
        BY <2>1, <2>2, <1>1
      <4> QED BY <4>1, <4>2, LogBasics DEF Indices
    <3> QED BY <3>1, <3>2
  <2> HIDE DEF new
  <2>4. keep \in 1 .. Len(L.logs)
    <3>1. /\ prevLogIndex \in Int /\ L.lastIncludedIndex \in Int /\ Len(L.logs) \in Int
          /\ L.lastIncludedIndex <= prevLogIndex
      BY LogBasics DEF Indices
    <3>2. Min(new) \in Int /\ 1 <= Min(new)
      BY <2>2, <1>1
    <3>3. prevLogIndex + Min(new) - 1 <= L.lastIncludedIndex + Len(L.logs) - 1
      BY <2>3 DEF lastLogIndex
    <3> QED BY <3>1, <3>2, <3>3
  <2>5. cut \in Seq(Entry) /\ Len(cut) >= 1
    <3>1. \A i \in 1 .. keep : L.logs[i] \in Entry
      BY <2>4, LogBasics, ElementOfSeq
    <3> QED BY <3>1, <2>4, SubSeqProperties, LogBasics
  <2>6. more \in Seq(Entry)
    <3>1. \A i \in Min(new) .. Len(entries) : entries[i] \in Entry
      BY <2>2, ElementOfSeq
    <3> QED BY <3>1, <2>2, SubSeqProperties
  <2>7. cut \o more \in Seq(Entry) /\ cut \o more # <<>>
    <3> HIDE DEF cut, more
    <3>1. Len(cut \o more) = Len(cut) + Len(more) /\ cut \o more \in Seq(Entry)
      BY <2>5, <2>6, ConcatProperties
    <3>2. Len(more) \in Nat
      BY <2>6, LenProperties
    <3>3. Len(cut) \in Nat
      BY <2>5, LenProperties
    <3> QED BY <3>1, <3>2, <3>3, <2>5, EmptySeq
  <2>8. merge(L, prevLogIndex, entries) = [L EXCEPT !.logs = cut \o more]
    BY <1>3 DEF merge, new
  <2> HIDE DEF cut, more
  <2> QED BY <2>7, <2>8 DEF Log
<1> QED BY <1>2, <1>3

\* A rejection carries integers: the search for the first entry of the
\* conflicting term ends inside the slice.
LEMMA ConflictType ==
  ASSUME NEW L \in Log, NEW prevLogIndex \in Nat, NEW prevLogTerm \in Nat
  PROVE  /\ conflict(L, prevLogIndex, prevLogTerm) \in [index : Int, term : Int]
         /\ LET hint == conflict(L, prevLogIndex, prevLogTerm) IN
              hint.index <= prevLogIndex + 1 \/ hint.index = L.lastIncludedIndex + 1
<1>1. CASE prevLogIndex \in Indices(L)
  <2> DEFINE run == {k \in L.lastIncludedIndex .. prevLogIndex :
                       \A j \in k .. prevLogIndex : At(L, j).term = At(L, prevLogIndex).term}
  <2>1. prevLogIndex \in run
    BY <1>1, LogBasics DEF Indices
  <2>2. Min(run) \in Int /\ Min(run) <= prevLogIndex
    <3>1. run \subseteq L.lastIncludedIndex .. prevLogIndex
      OBVIOUS
    <3>2. L.lastIncludedIndex \in Int /\ prevLogIndex \in Int
      BY LogBasics
    <3> HIDE DEF run
    <3> QED BY <3>1, <3>2, <2>1, IntervalSubset
  <2>3. FirstOfTerm(L, prevLogIndex) \in Int /\ FirstOfTerm(L, prevLogIndex) <= prevLogIndex
    BY <2>2 DEF FirstOfTerm
  <2>4. At(L, prevLogIndex).term \in Nat
    BY <1>1, LogBasics
  <2> QED BY <2>3, <2>4, LogBasics DEF conflict
<1>2. CASE prevLogIndex \notin Indices(L)
  BY <1>2, LogBasics DEF conflict, Indices
<1> QED BY <1>1, <1>2

\* The leader's search for a term ends at its snapshot or goes no further than the
\* request.
LEMMA LastOfTermBound ==
  ASSUME NEW L \in Log, NEW prevLogIndex \in Nat, NEW term
  PROVE  /\ LastOfTerm(L, prevLogIndex, term) \in Int
         /\ LastOfTerm(L, prevLogIndex, term) <= prevLogIndex
<1>1. CASE prevLogIndex < L.lastIncludedIndex
  BY <1>1 DEF LastOfTerm
<1>2. CASE ~(prevLogIndex < L.lastIncludedIndex)
  <2> DEFINE found == {k \in L.lastIncludedIndex .. prevLogIndex :
                         k = L.lastIncludedIndex \/ At(L, k).term = term}
  <2>1. L.lastIncludedIndex \in found
    BY <1>2, LogBasics
  <2>2. found \subseteq L.lastIncludedIndex .. prevLogIndex
    OBVIOUS
  <2>3. LastOfTerm(L, prevLogIndex, term) = Max(found)
    BY <1>2 DEF LastOfTerm
  <2>4. L.lastIncludedIndex \in Int /\ prevLogIndex \in Int
    BY LogBasics
  <2> HIDE DEF found
  <2>5. Max(found) \in found /\ Max(found) \in Int
    BY <2>1, <2>2, <2>4, IntervalSubset
  <2> QED BY <2>2, <2>3, <2>4, <2>5
<1> QED BY <1>1, <1>2

\* nextIndex stays an integer, and goes no further than where it was, the hint and the
\* request.
LEMMA BackupType ==
  ASSUME NEW L \in Log, NEW next \in Int, NEW prevLogIndex \in Nat, NEW prevLogTerm \in Nat,
         NEW hint \in [index : Int, term : Int]
  PROVE  /\ backup(L, next, prevLogIndex, prevLogTerm, hint) \in Int
         /\ \A bound \in Int :
              /\ next <= bound /\ hint.index <= bound /\ prevLogIndex + 1 <= bound
              /\ L.lastIncludedIndex + 1 <= bound
              => backup(L, next, prevLogIndex, prevLogTerm, hint) <= bound
BY LastOfTermBound, LogBasics DEF backup

\* A public index is a natural number.
LEMMA PublicIndexType ==
  ASSUME NEW L \in Log, NEW real \in Int
  PROVE  realToPublicIndex(L, real) \in Nat
<1> DEFINE top == IF real \in Indices(L) \ {L.lastIncludedIndex} THEN real ELSE lastLogIndex(L)
<1>1. top \in Int
  BY LogBasics
<1>2. CommandsUpTo(L, top) \subseteq (L.lastIncludedIndex + 1) .. top
  BY DEF CommandsUpTo
<1>3. Cardinality(CommandsUpTo(L, top)) \in Nat
  <2> HIDE DEF top
  <2>1. L.lastIncludedIndex + 1 \in Int
    BY LogBasics
  <2>2. IsFiniteSet(CommandsUpTo(L, top))
    BY <1>1, <1>2, <2>1, IntervalSubset
  <2> QED BY <2>2, FS_CardinalityType
<1> QED BY <1>3, LogBasics DEF realToPublicIndex

\* A real index that Snapshot accepts is one of the log.
LEMMA RealIndexType ==
  ASSUME NEW L \in Log, NEW public \in Nat,
         publicToRealIndex(L, public) # NotFound
  PROVE  publicToRealIndex(L, public) \in Indices(L)
<1> DEFINE here == {k \in CommandsUpTo(L, lastLogIndex(L)) :
                      realToPublicIndex(L, k) = public}
<1>1. CASE public = L.lastIncludedPublicIndex
  BY <1>1, LogBasics DEF publicToRealIndex, Indices
<1>2. CASE public # L.lastIncludedPublicIndex
  <2>1. here # {} /\ publicToRealIndex(L, public) = Min(here)
    BY <1>2 DEF publicToRealIndex
  <2>2. here \subseteq (L.lastIncludedIndex + 1) .. lastLogIndex(L)
    BY DEF CommandsUpTo
  <2>3. Min(here) \in here
    <3>1. L.lastIncludedIndex + 1 \in Int /\ lastLogIndex(L) \in Int
      BY LogBasics
    <3> HIDE DEF here
    <3> QED BY <2>1, <2>2, <3>1, IntervalSubset
  <2> QED BY <2>1, <2>2, <2>3, LogBasics DEF Indices
<1> QED BY <1>1, <1>2
(***************************************************************************)
(* Contents: what is where in the log that each computation leaves.        *)
(***************************************************************************)
\* N begins where L does.
SameStart(N, L) == /\ N.lastIncludedIndex = L.lastIncludedIndex
                   /\ N.lastIncludedTerm = L.lastIncludedTerm
                   /\ N.lastIncludedPublicIndex = L.lastIncludedPublicIndex

\* Start and a new leader add one entry and keep the others.
LEMMA AppendGives ==
  ASSUME NEW L \in Log, NEW entry \in Entry
  PROVE  /\ SameStart(append(L, entry), L)
         /\ lastLogIndex(append(L, entry)) = lastLogIndex(L) + 1
         /\ \A k \in Indices(L) : At(append(L, entry), k) = At(L, k)
         /\ At(append(L, entry), lastLogIndex(L) + 1) = entry
<1> DEFINE N == append(L, entry)
<1>1. /\ L.logs \in Seq(Entry) /\ L.lastIncludedIndex \in Nat /\ Len(L.logs) \in Nat
      /\ lastLogIndex(L) = L.lastIncludedIndex + Len(L.logs) - 1
  BY LogBasics DEF lastLogIndex
<1>2. N.logs = Append(L.logs, entry) /\ SameStart(N, L)
  BY DEF append, SameStart, Log
<1>3. /\ Len(N.logs) = Len(L.logs) + 1 /\ N.logs[Len(L.logs) + 1] = entry
      /\ \A i \in 1 .. Len(L.logs) : N.logs[i] = L.logs[i]
  BY <1>1, <1>2, AppendProperties
<1> HIDE DEF N
<1>4. \A k \in Indices(L) : k - L.lastIncludedIndex + 1 \in 1 .. Len(L.logs)
  BY LogBasics
<1> QED BY <1>1, <1>2, <1>3, <1>4 DEF SameStart, At, lastLogIndex, N

\* What follows an index of a log is what the log holds there.
LEMMA AfterGives ==
  ASSUME NEW L \in Log, NEW index \in Indices(L)
  PROVE  /\ After(L, index) \in Seq(Entry)
         /\ Len(After(L, index)) = lastLogIndex(L) - index
         /\ \A i \in 1 .. Len(After(L, index)) : After(L, index)[i] = At(L, index + i)
<1> DEFINE from == index - L.lastIncludedIndex + 2
<1>1. /\ from \in Int /\ Len(L.logs) \in Nat /\ index \in Int /\ L.lastIncludedIndex \in Int
      /\ from >= 2 /\ from <= Len(L.logs) + 1
  BY LogBasics DEF Indices, lastLogIndex
<1>2. \A i \in from .. Len(L.logs) : L.logs[i] \in Entry
  BY <1>1, LogBasics, ElementOfSeq
<1>3. /\ After(L, index) \in Seq(Entry)
      /\ Len(After(L, index)) = IF from <= Len(L.logs) THEN Len(L.logs) - from + 1 ELSE 0
      /\ \A i \in 1 .. Len(L.logs) - from + 1 : After(L, index)[i] = L.logs[from + i - 1]
  <2>1. After(L, index) = SubSeq(L.logs, from, Len(L.logs))
    BY DEF After
  <2> HIDE DEF from
  <2> QED BY <1>1, <1>2, <2>1, SubSeqProperties
<1>4. Len(After(L, index)) = lastLogIndex(L) - index
  BY <1>1, <1>3 DEF lastLogIndex
<1>5. \A i \in 1 .. Len(After(L, index)) : from + i - 1 = index + i - L.lastIncludedIndex + 1
  BY <1>1, <1>4, LogBasics
<1> HIDE DEF from
<1> QED BY <1>1, <1>3, <1>4, <1>5 DEF At

\* A compacted log is its sentinel and its tail.
LEMMA CompactedLogGives ==
  ASSUME NEW tail \in Seq(Entry), NEW index \in Nat, NEW term \in Nat, NEW public \in Nat,
         NEW N \in Log, N = CompactedLog(tail, index, term, public)
  PROVE  /\ N.lastIncludedIndex = index /\ N.lastIncludedTerm = term
         /\ N.lastIncludedPublicIndex = public
         /\ lastLogIndex(N) = index + Len(tail)
         /\ At(N, index).term = term
         /\ \A i \in 1 .. Len(tail) : At(N, index + i) = tail[i]
<1>1. /\ N.lastIncludedIndex = index /\ N.lastIncludedTerm = term
      /\ N.lastIncludedPublicIndex = public /\ N.logs = <<Sentinel(term)>> \o tail
  BY DEF CompactedLog
<1>2. <<Sentinel(term)>> \in Seq(Entry) /\ Len(<<Sentinel(term)>>) = 1
  BY DEF Sentinel, Entry
<1>3. /\ Len(N.logs) = 1 + Len(tail) /\ N.logs[1] = Sentinel(term)
      /\ \A i \in 1 .. Len(tail) : N.logs[i + 1] = tail[i]
  BY <1>1, <1>2, ConcatProperties
<1>4. Len(tail) \in Nat
  BY LenProperties
<1>5. lastLogIndex(N) = index + Len(tail)
  BY <1>1, <1>3, <1>4 DEF lastLogIndex
<1>6. At(N, index).term = term
  <2>1. N.logs[index - index + 1] = Sentinel(term)
    BY <1>3
  <2> QED BY <1>1, <2>1 DEF At, Sentinel
<1>7. ASSUME NEW i \in 1 .. Len(tail) PROVE At(N, index + i) = tail[i]
  <2>1. index + i - index + 1 = i + 1
    BY <1>4
  <2> QED BY <1>1, <1>3, <2>1 DEF At
<1> QED BY <1>1, <1>5, <1>6, <1>7

\* Snapshot keeps what follows the index it cuts at.
LEMMA CompactGives ==
  ASSUME NEW L \in Log, NEW index \in Indices(L), NEW public \in Nat,
         NEW N \in Log, N = compact(L, index, public)
  PROVE  /\ N.lastIncludedIndex = index /\ N.lastIncludedTerm = termAt(L, index)
         /\ lastLogIndex(N) = lastLogIndex(L)
         /\ At(N, index).term = termAt(L, index)
         /\ \A k \in (index + 1) .. lastLogIndex(L) : At(N, k) = At(L, k)
<1> DEFINE tail == After(L, index)
<1>1. /\ index \in Nat /\ termAt(L, index) \in Nat /\ lastLogIndex(L) \in Nat
      /\ N = CompactedLog(tail, index, termAt(L, index), public)
  BY LogBasics DEF Indices, compact
<1>2. /\ tail \in Seq(Entry) /\ Len(tail) = lastLogIndex(L) - index
      /\ \A i \in 1 .. Len(tail) : tail[i] = At(L, index + i)
  BY AfterGives
<1> HIDE DEF tail
<1>3. /\ N.lastIncludedIndex = index /\ N.lastIncludedTerm = termAt(L, index)
      /\ lastLogIndex(N) = index + Len(tail)
      /\ At(N, index).term = termAt(L, index)
      /\ \A i \in 1 .. Len(tail) : At(N, index + i) = tail[i]
  BY <1>1, <1>2, CompactedLogGives
<1>4. ASSUME NEW k \in (index + 1) .. lastLogIndex(L) PROVE At(N, k) = At(L, k)
  <2>1. k - index \in 1 .. Len(tail) /\ index + (k - index) = k
    BY <1>1, <1>2
  <2> QED BY <1>2, <1>3, <2>1
<1>5. lastLogIndex(N) = lastLogIndex(L)
  BY <1>1, <1>2, <1>3
<1> QED BY <1>3, <1>4, <1>5

\* InstallSnapshot keeps what follows the index if it holds the last entry of the
\* snapshot, and nothing otherwise.
LEMMA InstallGives ==
  ASSUME NEW L \in Log, NEW index \in Nat, NEW term \in Nat, NEW public \in Nat,
         NEW N \in Log, N = install(L, index, term, public),
         NEW kept, kept = (index \in Indices(L) /\ At(L, index).term = term)
  PROVE  /\ N.lastIncludedIndex = index /\ N.lastIncludedTerm = term
         /\ At(N, index).term = term
         /\ lastLogIndex(N) = IF kept THEN lastLogIndex(L) ELSE index
         /\ kept => \A k \in (index + 1) .. lastLogIndex(L) : At(N, k) = At(L, k)
<1> DEFINE tail == IF kept THEN After(L, index) ELSE <<>>
<1>1. N = CompactedLog(tail, index, term, public) /\ lastLogIndex(L) \in Nat
  BY LogBasics DEF install
<1>2. /\ tail \in Seq(Entry)
      /\ ~kept => Len(tail) = 0
      /\ kept => /\ Len(tail) = lastLogIndex(L) - index
                 /\ \A i \in 1 .. Len(tail) : tail[i] = At(L, index + i)
  BY AfterGives, EmptySeq
<1> HIDE DEF tail
<1>3. /\ N.lastIncludedIndex = index /\ N.lastIncludedTerm = term
      /\ lastLogIndex(N) = index + Len(tail)
      /\ At(N, index).term = term
      /\ \A i \in 1 .. Len(tail) : At(N, index + i) = tail[i]
  BY <1>1, <1>2, CompactedLogGives
<1>4. ASSUME kept, NEW k \in (index + 1) .. lastLogIndex(L) PROVE At(N, k) = At(L, k)
  <2>1. k - index \in 1 .. Len(tail) /\ index + (k - index) = k
    BY <1>1, <1>2, <1>4
  <2> QED BY <1>2, <1>3, <1>4, <2>1
<1>5. lastLogIndex(N) = IF kept THEN lastLogIndex(L) ELSE index
  BY <1>1, <1>2, <1>3
<1> QED BY <1>3, <1>4, <1>5

\* L has an entry of the term of entries[i] at the place of entries[i].
HasTerm(L, prev, entries, i) ==
  prev + i <= lastLogIndex(L) /\ At(L, prev + i).term = entries[i].term

\* The merge keeps the log if it has all the entries, or from the n-th entry on,
\* the first that is missing or differs, continues with the entries.
LEMMA MergeGives ==
  ASSUME NEW L \in Log, NEW prev \in Indices(L), NEW entries \in Seq(Entry),
         NEW N \in Log, N = merge(L, prev, entries)
  PROVE  \/ N = L /\ \A i \in 1 .. Len(entries) : HasTerm(L, prev, entries, i)
         \/ /\ SameStart(N, L)
            /\ lastLogIndex(N) = prev + Len(entries)
            /\ \E n \in 1 .. Len(entries) :
                 /\ \A i \in 1 .. n - 1 : HasTerm(L, prev, entries, i)
                 /\ ~HasTerm(L, prev, entries, n)
                 /\ \A k \in L.lastIncludedIndex .. prev + n - 1 : At(N, k) = At(L, k)
                 /\ \A i \in n .. Len(entries) : At(N, prev + i) = entries[i]
<1> DEFINE Same(i) == HasTerm(L, prev, entries, i)
           new == {i \in 1 .. Len(entries) :
                     \/ prev + i > lastLogIndex(L)
                     \/ At(L, prev + i).term # entries[i].term}
           keep == prev + Min(new) - L.lastIncludedIndex
           cut  == SubSeq(L.logs, 1, keep)
           more == SubSeq(entries, Min(new), Len(entries))
<1>1. /\ Len(entries) \in Nat /\ lastLogIndex(L) \in Nat /\ prev \in Nat
      /\ L.lastIncludedIndex \in Nat /\ L.lastIncludedIndex <= prev /\ prev <= lastLogIndex(L)
      /\ Len(L.logs) \in Nat /\ lastLogIndex(L) = L.lastIncludedIndex + Len(L.logs) - 1
      /\ L.logs \in Seq(Entry)
  BY LogBasics DEF Indices, lastLogIndex
<1>2. \A i \in 1 .. Len(entries) : Same(i) <=> i \notin new
  BY <1>1 DEF HasTerm
<1>3. CASE new = {}
  BY <1>2, <1>3 DEF merge
<1>4. CASE new # {}
  <2>1. Min(new) \in new /\ \A j \in new : Min(new) <= j
    <3> HIDE DEF new
    <3>1. new \subseteq 1 .. Len(entries)
      BY DEF new
    <3>2. 1 \in Int /\ Len(entries) \in Int
      BY <1>1
    <3> QED BY <1>4, <3>1, <3>2, IntervalSubset
  <2>2. Min(new) \in 1 .. Len(entries)
    BY <2>1
  <2>3. N = [L EXCEPT !.logs = cut \o more]
    BY <1>4 DEF merge
  <2> DEFINE n == Min(new)
  <2>4. n \in 1 .. Len(entries) /\ ~Same(n) /\ \A i \in 1 .. n - 1 : Same(i)
    <3>1. \A i \in 1 .. n - 1 : i \in 1 .. Len(entries) /\ i \notin new
      <4> SUFFICES ASSUME NEW i \in 1 .. n - 1 PROVE i \in 1 .. Len(entries) /\ i \notin new
        OBVIOUS
      <4>1. i \in Int /\ 1 <= i /\ i < n
        BY <2>2, <1>1
      <4> HIDE DEF new
      <4> QED BY <1>1, <2>1, <2>2, <4>1
    <3> HIDE DEF new
    <3> QED BY <1>2, <2>1, <2>2, <3>1
  <2> HIDE DEF new
  <2>5. n - 1 >= 1 => prev + (n - 1) <= lastLogIndex(L)
    BY <1>1, <2>4 DEF HasTerm
  <2>6. keep \in 1 .. Len(L.logs) /\ keep = prev + n - L.lastIncludedIndex
    BY <1>1, <2>2, <2>5
  <2> HIDE DEF n, keep, Same
  <2>7. /\ cut \in Seq(Entry) /\ Len(cut) = keep /\ \A j \in 1 .. keep : cut[j] = L.logs[j]
    <3>1. \A j \in 1 .. keep : L.logs[j] \in Entry
      BY <1>1, <2>6, ElementOfSeq
    <3> QED BY <2>6, <3>1, SubSeqProperties
  <2>8. /\ more \in Seq(Entry) /\ Len(more) = Len(entries) - n + 1
        /\ \A j \in 1 .. Len(more) : more[j] = entries[n + j - 1]
    <3>1. \A j \in n .. Len(entries) : entries[j] \in Entry
      BY <1>1, <2>4, ElementOfSeq
    <3>2. more = SubSeq(entries, n, Len(entries))
      BY DEF n
    <3> HIDE DEF more
    <3> QED BY <1>1, <2>4, <3>1, <3>2, SubSeqProperties
  <2> HIDE DEF cut, more
  <2>9. /\ N.logs = cut \o more /\ SameStart(N, L)
    BY <2>3 DEF SameStart, Log
  <2>10. /\ Len(N.logs) = keep + Len(entries) - n + 1
         /\ \A j \in 1 .. keep : N.logs[j] = L.logs[j]
         /\ \A j \in 1 .. Len(more) : N.logs[keep + j] = more[j]
    <3>1. Len(cut \o more) = Len(cut) + Len(more)
      BY <2>7, <2>8, ConcatProperties
    <3>2. \A j \in 1 .. Len(cut) + Len(more) :
            (cut \o more)[j] = IF j <= Len(cut) THEN cut[j] ELSE more[j - Len(cut)]
      BY <2>7, <2>8, ConcatProperties
    <3>3. /\ Len(cut) = keep /\ Len(more) = Len(entries) - n + 1
          /\ keep \in Nat /\ Len(entries) \in Nat /\ n \in 1 .. Len(entries)
      BY <1>1, <2>4, <2>6, <2>7, <2>8
    <3> DEFINE logs == cut \o more
    <3>4. Len(logs) = keep + Len(entries) - n + 1
      BY <3>1, <3>3
    <3>5. \A j \in 1 .. keep : logs[j] = L.logs[j]
      <4>1. \A j \in 1 .. keep : j \in 1 .. Len(cut) + Len(more) /\ j <= Len(cut)
        BY <3>3
      <4> QED BY <2>7, <3>2, <4>1
    <3>6. \A j \in 1 .. Len(more) : logs[keep + j] = more[j]
      <4> TAKE j \in 1 .. Len(more)
      <4> DEFINE place == keep + j
      <4>1. /\ place \in 1 .. Len(cut) + Len(more)
            /\ ~(place <= Len(cut)) /\ place - Len(cut) = j
        BY <3>3
      <4> HIDE DEF place
      <4>2. logs[place] = more[place - Len(cut)]
        BY <3>2, <4>1
      <4> HIDE DEF logs
      <4> QED BY <4>1, <4>2 DEF place
    <3> HIDE DEF logs
    <3>7. N.logs = logs
      BY <2>9 DEF logs
    <3> QED BY <3>4, <3>5, <3>6, <3>7
  <2>11. lastLogIndex(N) = prev + Len(entries)
    <3>1. /\ keep = prev + n - L.lastIncludedIndex /\ n \in Nat /\ keep \in Nat
          /\ Len(entries) \in Nat /\ prev \in Nat /\ L.lastIncludedIndex \in Nat
      BY <1>1, <2>4, <2>6
    <3>2. lastLogIndex(N) = N.lastIncludedIndex + Len(N.logs) - 1
      BY DEF lastLogIndex
    <3>3. N.lastIncludedIndex = L.lastIncludedIndex
      BY <2>9 DEF SameStart
    <3>4. Len(N.logs) = keep + Len(entries) - n + 1
      BY <2>10
    <3> QED BY <3>1, <3>2, <3>3, <3>4
  <2>12. ASSUME NEW k \in L.lastIncludedIndex .. prev + n - 1
         PROVE  At(N, k) = At(L, k)
    <3>1. k - L.lastIncludedIndex + 1 \in 1 .. keep
      BY <1>1, <2>4, <2>6
    <3> QED BY <2>9, <2>10, <3>1 DEF At, SameStart
  <2>13. ASSUME NEW i \in n .. Len(entries)
         PROVE  At(N, prev + i) = entries[i]
    <3>1. /\ keep = prev + n - L.lastIncludedIndex /\ Len(more) = Len(entries) - n + 1
          /\ n \in Int /\ i \in Int /\ Len(entries) \in Int
          /\ 1 <= n /\ n <= i /\ i <= Len(entries)
          /\ prev \in Int /\ L.lastIncludedIndex \in Int
      BY <1>1, <2>4, <2>6, <2>8
    <3> DEFINE j == i - n + 1
               k == prev + i
    <3>2. /\ j \in 1 .. Len(more) /\ n + j - 1 = i
          /\ k \in Int /\ k - L.lastIncludedIndex + 1 = keep + j
      BY <3>1
    <3> HIDE DEF j, k
    <3>3. N.logs[keep + j] = entries[i]
      BY <2>8, <2>10, <3>2
    <3>4. At(N, k) = N.logs[k - N.lastIncludedIndex + 1]
      BY DEF At
    <3>5. k - N.lastIncludedIndex + 1 = keep + j
      BY <2>9, <3>2 DEF SameStart
    <3>6. At(N, k) = entries[i]
      BY <3>3, <3>4, <3>5
    <3> QED BY <3>6 DEF k
  <2> QED BY <2>4, <2>9, <2>11, <2>12, <2>13 DEF Same
<1> QED BY <1>3, <1>4
=============================================================================
