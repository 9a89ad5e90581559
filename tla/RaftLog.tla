------------------------------ MODULE RaftLog ------------------------------
(***************************************************************************)
(* The log a Raft server keeps, and the pure computations the handlers of  *)
(* src/src/raft make on it.  A log is a record of the four fields          *)
(*                                                                         *)
(*   logs                     the slice; logs[1] here is the Go logs[0],   *)
(*                            the sentinel that stands for the snapshot    *)
(*   lastIncludedIndex        the real index of the sentinel               *)
(*   lastIncludedTerm         the term of the entry it stands for          *)
(*   lastIncludedPublicIndex  how many commands the snapshot contains      *)
(*                                                                         *)
(* A "real" index counts every entry; a "public" one, the index the        *)
(* service sees, skips the no-ops (Cmd == nil) leaders append.             *)
(***************************************************************************)
EXTENDS Integers, Sequences, FiniteSets, FiniteSetsExt

CONSTANTS Command,   \* the commands of the service
          NoOp       \* a nil Cmd: the sentinel's, and a new leader's entry

ASSUME NoOpAssumption == NoOp \notin Command

Entry == [term : Nat, cmd : Command \cup {NoOp}]

\* There is always a sentinel.
Log == [logs                    : Seq(Entry) \ {<<>>},
        lastIncludedIndex       : Nat,
        lastIncludedTerm        : Nat,
        lastIncludedPublicIndex : Nat]

Sentinel(term) == [term |-> term, cmd |-> NoOp]

\* Raft.Init: a log of one sentinel of term 0.
EmptyLog == [logs                    |-> <<Sentinel(0)>>,
             lastIncludedIndex       |-> 0,
             lastIncludedTerm        |-> 0,
             lastIncludedPublicIndex |-> 0]

lastLogIndex(L) == L.lastIncludedIndex + Len(L.logs) - 1

\* rf.logs[index - rf.lastIncludedIndex]
At(L, index) == L.logs[index - L.lastIncludedIndex + 1]

\* The indices at which the slice access of At does not panic.
Indices(L) == L.lastIncludedIndex .. lastLogIndex(L)

termAt(L, index) ==
  IF index = L.lastIncludedIndex THEN L.lastIncludedTerm ELSE At(L, index).term

lastLogTerm(L) == termAt(L, lastLogIndex(L))

(***************************************************************************)
(* Public and real indices.                                                *)
(***************************************************************************)
CommandsUpTo(L, index) ==
  {k \in (L.lastIncludedIndex + 1) .. index : At(L, k).cmd # NoOp}

realAsPublicIndex(L, real) == real   \* mutation: no-ops are counted

\* The Go loop returns at real, or falls out of the slice with the total.
realToPublicIndex(L, real) ==
  L.lastIncludedPublicIndex
    + Cardinality(CommandsUpTo(L, IF real \in Indices(L) \ {L.lastIncludedIndex}
                                    THEN real ELSE lastLogIndex(L)))

NotFound == -1

publicToRealIndex(L, public) ==
  LET here == {k \in CommandsUpTo(L, lastLogIndex(L)) :
                 realToPublicIndex(L, k) = public}
  IN  IF public = L.lastIncludedPublicIndex THEN L.lastIncludedIndex
      ELSE IF here = {} THEN NotFound ELSE Min(here)

(***************************************************************************)
(* Compaction: Snapshot cuts at an index of the log, InstallSnapshot at    *)
(* one the leader names, keeping the tail when the terms agree.            *)
(***************************************************************************)
\* The log that starts with a snapshot up to index and continues with tail.
CompactedLog(tail, index, term, public) ==
  [logs                    |-> <<Sentinel(term)>> \o tail,
   lastIncludedIndex       |-> index,
   lastIncludedTerm        |-> term,
   lastIncludedPublicIndex |-> public]

After(L, index) == SubSeq(L.logs, index - L.lastIncludedIndex + 2, Len(L.logs))

compact(L, index, public) == CompactedLog(After(L, index), index, termAt(L, index), public)

installAlone(L, index, term, public) ==   \* mutation: the tail is always dropped
  CompactedLog(<<>>, index, term, public)

installOldCount(L, index, term, public) ==   \* mutation: the count is not set
  CompactedLog(IF index \in Indices(L) /\ At(L, index).term = term
                 THEN After(L, index) ELSE <<>>,
               index, term, L.lastIncludedPublicIndex)

install(L, index, term, public) ==
  CompactedLog(IF index \in Indices(L) /\ At(L, index).term = term
                 THEN After(L, index) ELSE <<>>,
               index, term, public)

(***************************************************************************)
(* AppendEntries: the consistency check, the merge and the conflict hint.  *)
(***************************************************************************)
append(L, entry) == [L EXCEPT !.logs = Append(@, entry)]

LongEnough(L, prevLogIndex, prevLogTerm) == prevLogIndex \in Indices(L)   \* mutation

Consistent(L, prevLogIndex, prevLogTerm) ==
  prevLogIndex \in Indices(L) /\ At(L, prevLogIndex).term = prevLogTerm

mergeKeep(L, prevLogIndex, entries) ==   \* mutation: conflicting entries stay
  LET have == lastLogIndex(L) - prevLogIndex
  IN  [L EXCEPT !.logs = @ \o SubSeq(entries, have + 1, Len(entries))]

mergeCut(L, prevLogIndex, entries) ==   \* mutation: an old request erases what is newer
  [L EXCEPT !.logs = SubSeq(@, 1, prevLogIndex - L.lastIncludedIndex + 1) \o entries]

\* Cut and extend only from the first entry that is missing or differs.
merge(L, prevLogIndex, entries) ==
  LET new == {i \in 1 .. Len(entries) :
                \/ prevLogIndex + i > lastLogIndex(L)
                \/ At(L, prevLogIndex + i).term # entries[i].term}
      keep == prevLogIndex + Min(new) - L.lastIncludedIndex
  IN  IF new = {} THEN L
      ELSE [L EXCEPT !.logs = SubSeq(@, 1, keep)
                                \o SubSeq(entries, Min(new), Len(entries))]

\* The first index of the run of equal terms that ends at index.
FirstOfTerm(L, index) ==
  Min({k \in L.lastIncludedIndex .. index :
         \A j \in k .. index : At(L, j).term = At(L, index).term})

\* ConflictIndex and ConflictTerm of a rejected AppendEntries.
conflict(L, prevLogIndex, prevLogTerm) ==
  IF prevLogIndex < L.lastIncludedIndex
    THEN [index |-> L.lastIncludedIndex + 1, term |-> -1]
  ELSE IF prevLogIndex > lastLogIndex(L)
    THEN [index |-> lastLogIndex(L) + 1, term |-> -1]
  ELSE IF At(L, prevLogIndex).term < prevLogTerm
    THEN [index |-> prevLogIndex - 1, term |-> At(L, prevLogIndex).term]
    ELSE [index |-> FirstOfTerm(L, prevLogIndex), term |-> At(L, prevLogIndex).term]

\* Where the Go loop of a leader looking for ConflictTerm stops.
LastOfTerm(L, prevLogIndex, term) ==
  IF prevLogIndex < L.lastIncludedIndex THEN prevLogIndex
  ELSE Max({k \in L.lastIncludedIndex .. prevLogIndex :
              k = L.lastIncludedIndex \/ At(L, k).term = term})

backupStuck(L, next, prevLogIndex, prevLogTerm, hint) ==   \* mutation: newer terms forgotten
  IF hint.term = -1 THEN hint.index ELSE next

\* The leader's new nextIndex after a rejection; next is the present one.
backup(L, next, prevLogIndex, prevLogTerm, hint) ==
  LET pos     == LastOfTerm(L, prevLogIndex, hint.term)
      missing == pos = L.lastIncludedIndex /\ L.lastIncludedTerm # hint.term
      back    == IF hint.term = -1 \/ hint.term > prevLogTerm THEN hint.index
                 ELSE IF hint.term = prevLogTerm THEN next
                 ELSE IF missing THEN hint.index ELSE pos + 1
  IN  IF back < L.lastIncludedIndex + 1 THEN L.lastIncludedIndex ELSE back
=============================================================================
