------------------------- MODULE ShardMasterSafety -------------------------
(***************************************************************************)
(* What the configuration service of module ShardMaster must keep true.    *)
(***************************************************************************)
EXTENDS ShardMaster

Request == UNION {UNION {UNION Range(p[c]) : c \in Client} : p \in Programs}

\* The configurations of the first n entries of the agreed log.
HistoryUpTo(n) ==
  SubSeq(history, 1, 1 + Cardinality({m \in 1..n : MakesConfig(agreed, m)}))

\* A replica has the configurations of the agreed log up to what it has applied,
\* although clerks repeat requests and a restarted server replays the log with an
\* empty table of duplicates (server.go:385-434).
ReplicasAgree == \A s \in Server : configs[s] = HistoryUpTo(applied[s])

(***************************************************************************)
(* ShardMaster implements ConfigHistory.  A request takes effect when the  *)
(* first entry with it is agreed on; a Query may answer from the           *)
(* configurations there were at any point of the log from its call on.     *)
(***************************************************************************)
Busy(c) == clerk[c].st # "idle"
Asks(c) == Busy(c) /\ clerk[c].request.OpType = "Query"

History == INSTANCE ConfigHistory WITH
  Clerk <- Client,
  called <- [c \in Client |-> IF Busy(c) THEN clerk[c].request ELSE Nil],
  effective <- [c \in Client |->
    Busy(c) /\ ~Asks(c) /\ \E n \in DOMAIN agreed : agreed[n].op = OpOf(c)],
  seen <- [c \in Client |->
    IF Asks(c) THEN {Answer(HistoryUpTo(n), clerk[c].request.Num) :
                      n \in clerk[c].since .. Len(agreed)}
    ELSE {}]

\* Clerks see one history of configurations (common.go:6-16): no Join, Leave or Move is
\* lost or repeated, no Query answers from the past, no configuration changes
\* afterwards, and the shards are divided evenly with the fewest moves.
HistoryIsAtomic == History!Spec

(***************************************************************************)
(* rebalance by itself.                                                    *)
(***************************************************************************)
\* Whatever the shards are given to before, rebalance divides them evenly among the
\* members with the fewest moves (server.go:58-146).
RebalanceIsEven ==
  \A shards \in [Shard -> Gid \cup {0}], members \in SUBSET Gid :
    rebalance([Num |-> 0, Shards |-> shards, Groups |-> members]).Shards
      \in History!Rebalanced(shards, members)

(***************************************************************************)
(* Liveness: every call returns (labrpc.go:37-39).                         *)
(***************************************************************************)
Ids == UNION {{c} \X (1 .. MaxCalls[c]) : c \in Client}

\* Goroutines run, and the network delivers or drops what it has.
Fairness ==
  /\ \A k \in Ids : WF_vars(k \in CallIds /\ (HandlerStep(k) \/ NetworkStep(k)))
  /\ \A c \in Client : WF_vars(CallFails(c) \/ CallReturns(c))
  /\ \A s \in Server : WF_vars(Send(s))

FairSpec == Spec /\ Fairness

\* A call returns, whatever becomes of the server: no handler waits for ever, nor
\* for an applier that holds sm.mu in a send (server.go:443-447).
EveryCallReturns == \A c \in Client : clerk[c].st = "waiting" ~> clerk[c].st # "waiting"
=============================================================================
