--------------------------- MODULE ShardKVSafety ---------------------------
(***************************************************************************)
(* What the sharded service of module ShardKV must keep true.              *)
(***************************************************************************)
EXTENDS ShardKV

\* At most one group serves a shard, although groups change their configuration at
\* different times and old fetches, insertions and deletions are agreed on late
\* (server.go:162-226, 757-801).
AnOwnerAtATime ==
  \A x \in Shard : \A g, h \in Gid :
    Serves(latest[g], x) /\ Serves(latest[h], x) => g = h

\* Whoever serves a shard has all that was ever written to it, once.
ServedIsCurrent ==
  \A g \in Gid, x \in Shard :
    Serves(latest[g], x) => latest[g].shards[x].KVStore = store[x]

\* While a shard is handed over, its data and its table of duplicates are still
\* somewhere, and together: the old group deletes nothing the new one has not agreed to
\* have (server.go:302-315), and what the new one has merged, of an empty shard or of one
\* that has been there before, lacks no write and no clerk's number (server.go:216-250).
NothingIsLost ==
  \A x \in Shard : store[x] # <<>> =>
    \E g \in Gid : /\ latest[g].shards[x].Status # "Invalid"
                   /\ latest[g].shards[x].KVStore = store[x]
                   /\ latest[g].shards[x].ClientSeq = known[x]

\* A group goes to the next configuration only when all its shards are in place, although
\* ConfigTicker looks at them long before its proposal is agreed on
\* (server.go:846-878).
SettledBeforeNext ==
  [][\A g \in Gid : latest'[g].config # latest[g].config =>
       /\ latest'[g].config = latest[g].config + 1
       /\ \A x \in Shard : latest[g].shards[x].Status \in {"Invalid", "Serving"}]_vars

\* A write is acknowledged only if it was executed: the check on the way out is there
\* because the applier may have dropped it (server.go:527-538).
AcknowledgedIsExecuted ==
  \A c \in Clerk :
    LET op == clerk[c].op
    IN  clerk[c].reply = OK(Nil) /\ op.OpType \in Writes =>
          \E g \in Gid : latest[g].shards[op.shard].ClientSeq[c] >= op.CommandId

(***************************************************************************)
(* Linearizability: ShardKV implements AtomicMap.                          *)
(***************************************************************************)
Busy(c) == clerk[c].st # "idle"
CalledOp(op) == [kind |-> op.OpType, key |-> op.shard, commiter |-> op.ClientId,
                 pos |-> IF op.OpType \in Writes THEN op.Value[2] ELSE 0]

Map == INSTANCE AtomicMap WITH
  Key <- Shard,
  called <- [c \in Clerk |-> IF Busy(c) THEN CalledOp(clerk[c].op) ELSE Nil],
  effective <- [c \in Clerk |->
    /\ Busy(c) /\ clerk[c].op.OpType \in Writes
    /\ \E g \in Gid : latest[g].shards[clerk[c].op.shard].ClientSeq[c] >= clerk[c].op.CommandId],
  next <- [c \in Clerk |->
    clerk[c].writes + (IF Busy(c) /\ clerk[c].op.OpType \in Writes THEN 0 ELSE 1)]

\* Clerks see one atomic map, whichever group they ask and however often: no write is
\* lost, repeated by a retry at the new owner of its shard or acknowledged in vain, and
\* no read is stale (test_test.go uses models/kv.go:17 for this).
ClerksSeeOneMap == Map!Spec

(***************************************************************************)
(* Liveness.                                                               *)
(***************************************************************************)
\* A group with a leader goes on with its rounds, and what it proposes is agreed on.
Fairness ==
  \A g \in Gid :
    /\ WF_vars(Ticks(g))
    /\ WF_vars(\E op \in proposals[g] : Commit(g, op) /\ latest'[g] # latest[g])

FairSpec == Spec /\ Fairness

\* In the end every group is in the last configuration and every shard in place:
\* groups that wait for each other's data and acknowledgements do not wait for ever
\* (server.go:849-863).
Settled(g) == latest[g].config = Len(configs) - 1 /\ ~isReconfiguring(latest[g])
ShardsSettle == <>[](\A g \in Gid : Settled(g))
=============================================================================
