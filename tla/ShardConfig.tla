---------------------------- MODULE ShardConfig ----------------------------
(***************************************************************************)
(* The configurations of src/src/shardmaster and what an operation makes   *)
(* of the last one.  The addresses of a group's servers are left out.      *)
(***************************************************************************)
EXTENDS Integers, Sequences, SequencesExt, FiniteSets

CONSTANTS
  NShards,
  Gid        \* the groups there are; 0 is the invalid group

ASSUME ShardConfigAssumption ==
  /\ NShards \in Nat \ {0}
  /\ IsFiniteSet(Gid) /\ Gid \subseteq Nat \ {0}

Shard == 0 .. (NShards - 1)

\* What an administrator may ask for.
Requests ==
  [OpType : {"Join", "Leave"}, GIDs : SUBSET Gid]
    \cup [OpType : {"Move"}, Shard : Shard, GID : Gid]

NoConfig == [Num |-> 0, Shards |-> [x \in Shard |-> 0], Groups |-> {}]

(***************************************************************************)
(* rebalance.  It works on the table config.Shards together with the list  *)
(* of every group's shards, gidToShards.                                   *)
(***************************************************************************)
\* The shards that a table gives to one of groups, in order.
ShardsOf(shards, groups) ==
  LET list[n \in 0 .. NShards] ==
        IF n = 0 THEN <<>>
        ELSE IF shards[n - 1] \in groups THEN Append(list[n - 1], n - 1) ELSE list[n - 1]
  IN  list[NShards]

\* The shards whose group is no member.
Unassigned(config) == ShardsOf(config.Shards, (Gid \cup {0}) \ config.Groups)

Shared(config) ==
  [Shards |-> config.Shards, lists |-> [g \in config.Groups |-> ShardsOf(config.Shards, {g})]]

\* getMinMaxGid: of equals, the smallest gid.
MinGid(lists) ==
  CHOOSE g \in DOMAIN lists : \A h \in DOMAIN lists :
    \/ Len(lists[g]) < Len(lists[h])
    \/ Len(lists[g]) = Len(lists[h]) /\ g <= h
MaxGid(lists) ==
  CHOOSE g \in DOMAIN lists : \A h \in DOMAIN lists :
    \/ Len(lists[g]) > Len(lists[h])
    \/ Len(lists[g]) = Len(lists[h]) /\ g <= h

\* Step 4.1: a shard without a group goes to the poorest.
Settle(st, x) ==
  LET g == MinGid(st.lists)
  IN  [Shards |-> [st.Shards EXCEPT ![x] = g], lists |-> [st.lists EXCEPT ![g] = Append(@, x)]]

\* Step 4.2, one turn: the richest gives its first shard to the poorest.
Level(st) ==
  LET rich == MaxGid(st.lists)
      poor == MinGid(st.lists)
      x == Head(st.lists[rich])
  IN  IF Len(st.lists[rich]) <= Len(st.lists[poor]) + 1 THEN st
      ELSE [Shards |-> [st.Shards EXCEPT ![x] = poor],
            lists  |-> [st.lists EXCEPT ![rich] = Tail(@), ![poor] = Append(@, x)]]

\* The whole of step 4.1.
AllSettled(config) ==
  LET orphans == Unassigned(config)
      after[n \in 0 .. Len(orphans)] ==
        IF n = 0 THEN Shared(config) ELSE Settle(after[n - 1], orphans[n])
  IN  after[Len(orphans)]

\* The whole of step 4.2: no more than NShards turns change anything.
AllLeveled(st) ==
  LET after[n \in 0 .. NShards] == IF n = 0 THEN st ELSE Level(after[n - 1])
  IN  after[NShards]

\* mutation: only what has no group is assigned
rebalanceOrphans(config) ==
  [config EXCEPT !.Shards = IF config.Groups = {} THEN [x \in Shard |-> 0]
                                                  ELSE AllSettled(config).Shards]

rebalance(config) ==
  [config EXCEPT !.Shards = IF config.Groups = {} THEN [x \in Shard |-> 0]
                                                  ELSE AllLeveled(AllSettled(config)).Shards]

(***************************************************************************)
(* The switch of applier: the configuration an operation makes of the last.*)
(***************************************************************************)
NewConfig(last, request) ==
  LET config == [last EXCEPT !.Num = @ + 1]
  IN  CASE request.OpType = "Join"  -> rebalance([config EXCEPT !.Groups = @ \cup request.GIDs])
        [] request.OpType = "Leave" -> rebalance([config EXCEPT !.Groups = @ \ request.GIDs])
        [] request.OpType = "Move"  -> [config EXCEPT !.Shards[request.Shard] = request.GID]

\* Query's answer: the configuration num, or the last one.
Answer(configs, num) ==
  IF num = -1 \/ num >= Len(configs) THEN Last(configs) ELSE configs[num + 1]
=============================================================================
