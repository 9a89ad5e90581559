----------------------------- MODULE MCShardKV -----------------------------
(***************************************************************************)
(* ShardKV and its properties for TLC.                                     *)
(***************************************************************************)
EXTENDS ShardKVSafety, TLC

CONSTANTS c1, c2

JoinOf(gids) == [OpType |-> "Join", GIDs |-> gids]
LeaveOf(gids) == [OpType |-> "Leave", GIDs |-> gids]
MoveOf(x, g) == [OpType |-> "Move", Shard |-> x, GID |-> g]

Clerks(p1, p2) == c1 :> p1 @@ c2 :> p2

\* Shard 0 goes from group 1 to 2 and back while one clerk writes and the other reads.
ThereAndBack ==
  [plan |-> <<JoinOf({1}), JoinOf({2}), MoveOf(0, 1)>>,
   program |-> Clerks(<<<<"Append", 0>>>>, <<<<"Get", 0>>>>), rpcs |-> Clerks(2, 1)]

\* One clerk writes twice, and a third group comes when the first has left.
LeaveAndJoin ==
  [plan |-> <<JoinOf({1}), JoinOf({2}), LeaveOf({1}), JoinOf({1,3})>>,
   program |-> Clerks(<<<<"Append", 0>>, <<"Put", 0>>>>, <<>>), rpcs |-> Clerks(2, 0)]

\* A shard that comes back again meets what is left of its first visit.
BackAgain ==
  [plan |-> <<JoinOf({1}), JoinOf({2}), MoveOf(0, 1), MoveOf(0, 2)>>,
   program |-> Clerks(<<<<"Append", 0>>>>, <<>>), rpcs |-> Clerks(2, 0)]

HandOvers == {ThereAndBack, LeaveAndJoin, BackAgain}

\* All groups leave, and another comes.
AllLeave ==
  {[plan |-> <<JoinOf({1}), LeaveOf({1}), JoinOf({2})>>,
    program |-> Clerks(<<<<"Append", 0>>>>, <<>>), rpcs |-> Clerks(1, 0)]}

\* A shard comes back while a write waits.
ComesBack ==
  {[plan |-> <<JoinOf({1}), JoinOf({2}), MoveOf(0, 1)>>,
    program |-> Clerks(<<<<"Append", 0>>>>, <<>>), rpcs |-> Clerks(1, 0)]}

(***************************************************************************)
(* Bounds.                                                                 *)
(***************************************************************************)
\* A group no configuration has given a shard yet takes the configurations at once.
Idle(g) == \A n \in DOMAIN configs, x \in Shard : configs[n].Shards[x] # g
PromptGroups ==
  LET behind == {g \in Gid : Idle(g) /\ latest[g].config < Len(configs) - 1}
  IN  behind # {} => \E g \in behind : proposals'[g] # proposals[g] \/ latest'[g] # latest[g]

\* A configuration is made when, and as soon as, another group has taken the one before.
PromptConfigs ==
  LET reached == \E g \in Gid : ~Idle(g) /\ latest[g].config = Len(configs) - 1
      idle == \A g \in Gid : Idle(g) => latest[g].config = Len(configs) - 1
  IN  (plan' # plan) <=> (plan # <<>> /\ idle /\ (Len(configs) = 1 \/ reached))

\* A clerk takes a reply at once, and a call fails only if the clerk has another.
PromptReplies ==
  \A c \in Clerk : clerk[c].st = "waiting" =>
    IF clerk[c].reply \notin {Nil, Notified} THEN TakeReply(c)
    ELSE clerk'[c].st # "waiting" => clerk[c].rpcs > 0

\* A handler is at its exit check before the server applies the next entry.
PromptExit == \A c \in Clerk : clerk[c].st = "waiting" /\ clerk[c].reply = Notified => ExitCheck(c)
=============================================================================
