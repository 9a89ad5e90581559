---------------------------- MODULE RaftCatchUp ----------------------------
(***************************************************************************)
(* A leader brings one follower up to date: the exchange of AppendEntries, *)
(* InstallSnapshot and their replies between a leader that appends nothing *)
(* more and a server whose log is any that a run of Raft can leave it, far *)
(* beyond the logs the bounds of module MCRaft can build.                  *)
(***************************************************************************)
EXTENDS RaftLog

CONSTANTS MaxTerm, MaxLength   \* bounds on the logs at the start

ASSUME CatchUpAssumption == MaxTerm \in Nat /\ MaxLength \in Nat /\ Command # {}

VARIABLES leader,     \* the leader's log
          follower,   \* the follower's log
          deposed,    \* the follower still believes it leads an older term
          next,       \* nextIndex for the follower
          caughtUp    \* the leader has seen its whole log acknowledged

vars == <<leader, follower, deposed, next, caughtUp>>

(***************************************************************************)
(* Logs before the exchange, as sequences of terms.  A leader starts its   *)
(* term with a no-op, so the terms alone tell no-ops from commands.        *)
(***************************************************************************)
Histories == {h \in UNION {[1 .. n -> 1 .. MaxTerm] : n \in 0 .. MaxLength} :
                \A k \in 2 .. Len(h) : h[k - 1] <= h[k]}

Uncut(h) ==
  [EmptyLog EXCEPT !.logs = @ \o
     [k \in 1 .. Len(h) |->
        [term |-> h[k],
         cmd  |-> IF k = 1 \/ h[k] # h[Max({1, k - 1})] THEN NoOp
                  ELSE CHOOSE c \in Command : TRUE]]]

LogOf(h, cut) == IF cut = 0 THEN Uncut(h) ELSE
  compact(Uncut(h), cut, realToPublicIndex(Uncut(h), cut))

\* The histories agree up to k.
Common(g, h, k) == \A j \in 1 .. k : g[j] = h[j]

Shorter(g, h) == 1 .. Min({Len(g), Len(h)})

\* What Raft promises of the two: equal terms at an index mean equal prefixes,
\* and nobody is ahead of the leader's term.
Possible(l, f) ==
  /\ \A k \in Shorter(l, f) : l[k] = f[k] => Common(l, f, k)
  /\ \A k \in 1 .. Len(f) : f[k] <= l[Len(l)]

\* The leader has snapshots of what is committed, the follower of what is
\* committed and therefore in the leader's log too.  nextIndex started behind
\* the no-op of the leader's term (initLeader).
Init ==
  \E l \in Histories \ {<<>>}, f \in Histories :
    /\ Possible(l, f)
    /\ \E cut \in 0 .. Len(l) : leader = LogOf(l, cut)
    /\ \E cut \in {0} \cup Shorter(l, f) : Common(l, f, cut) /\ follower = LogOf(f, cut)
    /\ next \in {k + 1 : k \in {j \in 1 .. Len(l) : l[j] = l[Len(l)]}}
    /\ deposed \in BOOLEAN
    /\ caughtUp = FALSE

(***************************************************************************)
(* One round trip each.                                                    *)
(***************************************************************************)
prev == next - 1

Requesting == ~caughtUp /\ next > leader.lastIncludedIndex

StepDown ==
  /\ Requesting /\ deposed
  /\ deposed' = FALSE
  /\ next' = backup(leader, next, prev, At(leader, prev).term,
                    [index |-> prev + 1, term |-> 0])
  /\ UNCHANGED <<leader, follower, caughtUp>>

Reject ==
  /\ Requesting /\ ~deposed
  /\ ~Consistent(follower, prev, At(leader, prev).term)
  /\ next' = backup(leader, next, prev, At(leader, prev).term,
                    conflict(follower, prev, At(leader, prev).term))
  /\ UNCHANGED <<leader, follower, deposed, caughtUp>>

Accept ==
  /\ Requesting /\ ~deposed
  /\ Consistent(follower, prev, At(leader, prev).term)
  /\ follower' = merge(follower, prev,
                       SubSeq(leader.logs, next - leader.lastIncludedIndex + 1, Len(leader.logs)))
  /\ next' = lastLogIndex(leader) + 1
  /\ caughtUp' = TRUE
  /\ UNCHANGED <<leader, deposed>>

\* The follower ignores a snapshot no newer than its own.
Install ==
  /\ ~caughtUp /\ next <= leader.lastIncludedIndex
  /\ follower' = IF leader.lastIncludedIndex <= follower.lastIncludedIndex THEN follower
                 ELSE install(follower, leader.lastIncludedIndex, leader.lastIncludedTerm,
                              leader.lastIncludedPublicIndex)
  /\ next' = leader.lastIncludedIndex + 1
  /\ deposed' = FALSE
  /\ UNCHANGED <<leader, caughtUp>>

Next == StepDown \/ Reject \/ Accept \/ Install

Spec == Init /\ [][Next]_vars /\ WF_vars(Next)

(***************************************************************************)
(* Properties.                                                             *)
(***************************************************************************)
Held(L) == (L.lastIncludedIndex + 1) .. lastLogIndex(L)

\* Equal terms at an index mean equal entries up to it, in whatever order
\* conflicts, merges and snapshots came (AppendEntries.go:282-358, 126-190).
LogsMatch ==
  \A k \in Indices(leader) \cap Indices(follower) :
    termAt(leader, k) = termAt(follower, k) =>
      \A j \in Held(leader) \cap Held(follower) : j <= k => At(leader, j) = At(follower, j)

\* A command has the same public index on both servers, and the index leads
\* back to it, wherever the two have cut their logs.
PublicIndicesAgree ==
  \A k \in Held(follower) :
    /\ k \in Held(leader) /\ At(leader, k).term = At(follower, k).term =>
         realToPublicIndex(leader, k) = realToPublicIndex(follower, k)
    /\ At(follower, k).cmd # NoOp =>
         publicToRealIndex(follower, realToPublicIndex(follower, k)) = k

\* No request removes an entry that agrees with the leader's: it may be the one
\* the leader has counted for a majority.
AgreedEntriesStay ==
  [][\A k \in Held(leader) \cap Held(follower) :
       At(leader, k) = At(follower, k) =>
         /\ k <= lastLogIndex(follower')
         /\ k \in Held(follower') => At(follower', k) = At(follower, k)]_vars

\* The hints never send the leader round in a circle: it finds the point where
\* the logs part, or sends its snapshot, and the follower ends with the leader's
\* log up to the leader's last entry.
CatchesUp ==
  <>(/\ caughtUp
     /\ lastLogIndex(leader) <= lastLogIndex(follower)
     /\ \A k \in Held(leader) \cap Held(follower) :
          k <= lastLogIndex(leader) => At(leader, k) = At(follower, k))
=============================================================================
