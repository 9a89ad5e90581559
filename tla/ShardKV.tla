------------------------------ MODULE ShardKV ------------------------------
(***************************************************************************)
(* The sharded key/value service of src/src/shardkv: replica groups that   *)
(* follow the configurations of the shardmaster and hand their shards over *)
(* to each other, and clerks that look for the group to ask.               *)
(*                                                                         *)
(* A group is the state its agreed log has led to.  Its servers may be in  *)
(* this state or an earlier one: as followers, as leaders just elected or  *)
(* deposed, or replaying the log or a snapshot after a crash.  Any of them *)
(* may believe to be leader; what it proposes may be agreed on at any      *)
(* later time, again if it is proposed again, or never.  The shardmaster   *)
(* is the history module ConfigHistory says it is.  A shard has one key.   *)
(* What a write adds to its value is <<clerk, number of the clerk's write>>*)
(* and a value the sequence of these.                                      *)
(***************************************************************************)
EXTENDS ShardConfig

CONSTANTS
  Clerk, Nil,
  AnyGet,     \* whether a Get takes another entry for its own (server.go:449)
  Scenarios   \* bound: what the administrator asks the shardmaster, in order (plan), what
              \* each clerk calls, <<kind, shard>>s in order (program), and how many RPCs
              \* it has for that (rpcs)

ASSUME ShardKVAssumption ==
  AnyGet \in BOOLEAN /\ \A scenario \in Scenarios :
    /\ scenario.plan \in Seq(Requests)
    /\ scenario.program \in [Clerk -> Seq({"Put", "Append", "Get"} \X Shard)]
    /\ scenario.rpcs \in [Clerk -> Nat]

VARIABLES
  configs,    \* the shardmaster's configurations, number 0 first
  plan,       \* what the administrator still asks
  latest,     \* the state every agreed entry of a group has led to
  states,     \* the states the servers of a group may be in
  proposals,  \* what servers gave to the Raft of their group
  deleted,    \* the DeleteShards a group has agreed on
  requests,   \* the writes on their way to a group or waiting there
  clerk,      \* the clerks
  store,      \* history: the value of each shard's key, by the writes executed
  known,      \* history: the number of each clerk's last write to the shard, by the same
  seen,       \* history: the values of its key since a clerk called Get
  result      \* what each clerk's last Get returned

masterVars == <<configs, plan>>
groupVars == <<latest, states, proposals, deleted>>
clerkVars == <<requests, clerk, result>>
vars == <<masterVars, groupVars, clerkVars, store, known, seen>>

Writes == {"Put", "Append"}
NoData == [KVStore |-> <<>>, ClientSeq |-> [c \in Clerk |-> 0]]
EmptyShard == [Status |-> "Invalid", KVStore |-> <<>>, ClientSeq |-> NoData.ClientSeq]
EmptyState == [config |-> 0, shards |-> [x \in Shard |-> EmptyShard]]

MakeClerk(program, rpcs) ==
  [st |-> "idle", op |-> Nil, config |-> 0, CommandId |-> 1, reply |-> Nil,
   todo |-> program, rpcs |-> rpcs, writes |-> 0]

Init ==
  /\ configs = <<NoConfig>>
  /\ latest = [g \in Gid |-> EmptyState]
  /\ states = [g \in Gid |-> {EmptyState}]
  /\ proposals = [g \in Gid |-> {}]
  /\ deleted = [g \in Gid |-> {}]
  /\ requests = [g \in Gid |-> {}]
  /\ \E scenario \in Scenarios :
       /\ plan = scenario.plan
       /\ clerk = [c \in Clerk |-> MakeClerk(scenario.program[c], scenario.rpcs[c])]
  /\ store = [x \in Shard |-> <<>>]
  /\ known = [x \in Shard |-> NoData.ClientSeq]
  /\ seen = [c \in Clerk |-> {}]
  /\ result = [c \in Clerk |-> Nil]

(***************************************************************************)
(* The shardmaster: Join, Leave and Move make the next configuration.      *)
(***************************************************************************)
Reconfigure ==
  /\ plan # <<>> /\ plan' = Tail(plan)
  /\ configs' = Append(configs, NewConfig(Last(configs), Head(plan)))
  /\ UNCHANGED <<groupVars, clerkVars, store, known, seen>>

Owner(num, x) == configs[num + 1].Shards[x]

\* The group that had the shard before configuration num, if it has servers then.
\* (A mutation: looked up among the groups of configuration num itself.)
OwnersStillThere(num, x) == {Owner(num - 1, x)} \cap configs[num + 1].Groups
OldOwners(num, x) == {Owner(num - 1, x)} \cap configs[num].Groups

(***************************************************************************)
(* The state machine: what an agreed entry makes of a state of group g.    *)
(***************************************************************************)
Serves(s, x) == s.shards[x].Status \in {"Serving", "GCing"}

Executes(s, op) == Serves(s, op.shard) /\ op.CommandId > s.shards[op.shard].ClientSeq[op.ClientId]

Written(value, op) ==
  IF op.OpType = "Put" THEN <<op.Value>> ELSE Append(value, op.Value)

applyClientOperation(s, op) ==
  IF Executes(s, op)
    THEN [s EXCEPT !.shards[op.shard].KVStore = Written(@, op),
                   !.shards[op.shard].ClientSeq[op.ClientId] = op.CommandId]
    ELSE s

\* The status of a shard in the next configuration.
NextStatus(g, status, old, new) ==
  CASE new = g /\ old # g /\ old = 0 -> "Serving"
    [] new = g /\ old # g /\ old # 0 -> "Pulling"
    [] old = g /\ new # g /\ new # 0 -> "Pushing"
    [] OTHER                         -> status

applyConfiguration(g, s, op) ==
  IF op.ConfigNum # s.config + 1 THEN s
  ELSE [config |-> op.ConfigNum,
        shards |-> [x \in Shard |->
          [s.shards[x] EXCEPT !.Status =
             NextStatus(g, @, Owner(s.config, x), Owner(op.ConfigNum, x))]]]

\* (A mutation: the number of the configuration is not compared.)
InStatus(s, op, status) == s.shards[op.shard].Status = status
Timely(s, op, status) == op.ConfigNum = s.config /\ s.shards[op.shard].Status = status

\* The data is merged into what the shard has: keys it does not have stay.
\* (A mutation: the table of duplicates stays behind.)
MergedValues(shard, data) == [shard EXCEPT !.Status = "GCing", !.KVStore = data.KVStore]
Merged(shard, data) ==
  [Status |-> "GCing",
   KVStore |-> IF data.KVStore = <<>> THEN shard.KVStore ELSE data.KVStore,
   ClientSeq |-> [c \in Clerk |-> Max({shard.ClientSeq[c], data.ClientSeq[c]})]]

applyInsertShard(s, op) ==
  IF Timely(s, op, "Pulling")
    THEN [s EXCEPT !.shards[op.shard] = Merged(@, op.Data)] ELSE s

applyDeleteShard(s, op) ==
  IF Timely(s, op, "Pushing") THEN [s EXCEPT !.shards[op.shard] = EmptyShard] ELSE s

applyGCComplete(s, op) ==
  IF Timely(s, op, "GCing") THEN [s EXCEPT !.shards[op.shard].Status = "Serving"] ELSE s

Apply(g, s, op) ==
  CASE op.OpType \in Writes       -> applyClientOperation(s, op)
    [] op.OpType = "UpdateConfig" -> applyConfiguration(g, s, op)
    [] op.OpType = "InsertShard"  -> applyInsertShard(s, op)
    [] op.OpType = "DeleteShard"  -> applyDeleteShard(s, op)
    [] op.OpType = "GCComplete"   -> applyGCComplete(s, op)

(***************************************************************************)
(* The goroutines of a server of group g that believes to be leader, in    *)
(* some state s: what they read of it is no older than s when they propose.*)
(***************************************************************************)
Propose(g, op) ==
  /\ op \notin proposals[g]
  /\ proposals' = [proposals EXCEPT ![g] = @ \cup {op}]

\* (A mutation: shards waiting to be deleted at the old owner do not count.)
isMigrating(s) == \E x \in Shard : s.shards[x].Status \in {"Pulling", "Pushing"}
isReconfiguring(s) == \E x \in Shard : s.shards[x].Status \in {"Pulling", "Pushing", "GCing"}

\* ConfigTicker: Query(num + 1) answers with the latest configuration if there is no
\* such one.
ConfigTick(g) ==
  \E s \in states[g] :
    /\ ~isReconfiguring(s)
    /\ Answer(configs, s.config + 1).Num = s.config + 1
    /\ Propose(g, [OpType |-> "UpdateConfig", ConfigNum |-> s.config + 1])
    /\ UNCHANGED <<masterVars, latest, states, deleted, clerkVars, store, known, seen>>

\* FetchShard, at a server of the old owner in state t.
\* (A mutation: it answers before it has the configuration and has frozen the shard.)
Early(t, num) == t.config >= num - 1
Ready(t, num) == t.config >= num
DataOf(t, x) == [KVStore |-> t.shards[x].KVStore, ClientSeq |-> t.shards[x].ClientSeq]

\* MigrationTicker: the data is fetched and proposed to the own group.
MigrationTick(g, x) ==
  \E s \in states[g] :
    /\ s.shards[x].Status = "Pulling"
    /\ \E old \in OldOwners(s.config, x) : \E t \in states[old] :
         /\ Ready(t, s.config)
         /\ Propose(g, [OpType |-> "InsertShard", shard |-> x, ConfigNum |-> s.config,
                        Data |-> DataOf(t, x)])
    /\ UNCHANGED <<masterVars, latest, states, deleted, clerkVars, store, known, seen>>

\* GCTicker calls DeleteShard of the old owner, whose handler proposes it there ...
Deletion(x, num) == [OpType |-> "DeleteShard", shard |-> x, ConfigNum |-> num]

GCTick(g, x) ==
  \E s \in states[g] :
    /\ s.shards[x].Status = "GCing"
    /\ \E old \in OldOwners(s.config, x) : Propose(old, Deletion(x, s.config))
    /\ UNCHANGED <<masterVars, latest, states, deleted, clerkVars, store, known, seen>>

\* ... and answers when it is agreed on, whatever has come of it.
GCAcknowledged(g, x) ==
  \E s \in states[g] :
    /\ s.shards[x].Status = "GCing"
    /\ \E old \in OldOwners(s.config, x) : Deletion(x, s.config) \in deleted[old]
    /\ Propose(g, [OpType |-> "GCComplete", shard |-> x, ConfigNum |-> s.config])
    /\ UNCHANGED <<masterVars, latest, states, deleted, clerkVars, store, known, seen>>

(***************************************************************************)
(* Clerks.                                                                 *)
(***************************************************************************)
Target(c) == Owner(clerk[c].config, clerk[c].op.shard)
HasTarget(c) == Target(c) \in configs[clerk[c].config + 1].Groups

Invoke(c) ==
  LET kind == Head(clerk[c].todo)[1]
      x == Head(clerk[c].todo)[2]
      n == clerk[c].writes + (IF kind \in Writes THEN 1 ELSE 0)
  IN  /\ clerk[c].st = "idle" /\ clerk[c].todo # <<>>
      /\ clerk' = [clerk EXCEPT
           ![c].st = "trying", ![c].todo = Tail(@), ![c].writes = n,
           ![c].op = [OpType |-> kind, shard |-> x, Value |-> <<c, n>>,
                      ClientId |-> c, CommandId |-> clerk[c].CommandId]]
      /\ seen' = [seen EXCEPT ![c] = IF kind = "Get" THEN {store[x]} ELSE {}]
      /\ UNCHANGED <<masterVars, groupVars, requests, result, store, known>>

\* The group the clerk believes to serve the shard is asked, one server or another.
CallGroup(c) ==
  /\ clerk[c].st = "trying" /\ HasTarget(c)
  /\ clerk[c].rpcs > 0
  /\ clerk' = [clerk EXCEPT ![c].st = "waiting", ![c].rpcs = @ - 1, ![c].reply = Nil]
  /\ requests' = [requests EXCEPT ![Target(c)] =
       IF clerk[c].op.OpType \in Writes THEN @ \cup {clerk[c].op} ELSE @]
  /\ UNCHANGED <<masterVars, groupVars, result, store, known, seen>>

\* Lost, timed out, wrong leader or wrong group: the next server is tried ...
CallFails(c) ==
  /\ clerk[c].st = "waiting"
  /\ clerk' = [clerk EXCEPT ![c].st = "trying"]
  /\ UNCHANGED <<masterVars, groupVars, requests, result, store, known, seen>>

\* ... or, at the latest after all of them, the shardmaster asked for the latest
\* configuration.
LearnConfig(c) ==
  /\ clerk[c].st = "trying" /\ clerk[c].config < Len(configs) - 1
  /\ clerk' = [clerk EXCEPT ![c].config = Answer(configs, -1).Num]
  /\ UNCHANGED <<masterVars, groupVars, requests, result, store, known, seen>>

OK(value) == [Err |-> "OK", Value |-> value]
Notified == [Err |-> "", Value |-> Nil]
ErrWrongGroup == [Err |-> "ErrWrongGroup", Value |-> Nil]

\* Nil is no reply and no call.
ASSUME NilAssumption ==
  /\ Nil \notin {OK(Nil), Notified, ErrWrongGroup}
  /\ Nil \notin [kind : Writes \cup {"Get"}, key : Shard, commiter : Clerk, pos : Nat]

TakeReply(c) ==
  LET reply == clerk[c].reply
      ok == reply.Err = "OK"
  IN  /\ clerk[c].st = "waiting" /\ reply \notin {Nil, Notified}
      /\ clerk' = [clerk EXCEPT ![c].st = IF ok THEN "idle" ELSE "trying",
                                ![c].CommandId = IF ok THEN @ + 1 ELSE @,
                                ![c].reply = Nil]
      /\ result' = [result EXCEPT ![c] =
                      IF ok /\ clerk[c].op.OpType = "Get" THEN reply.Value ELSE @]
      /\ seen' = [seen EXCEPT ![c] = IF ok THEN {} ELSE @]
      /\ UNCHANGED <<masterVars, groupVars, requests, store, known>>

(***************************************************************************)
(* The handlers PutAppend and Get: a server in a state that serves the     *)
(* shard proposes the operation.                                           *)
(***************************************************************************)
Accept(g, op) ==
  /\ op \in requests[g] /\ \E s \in states[g] : Serves(s, op.shard)
  /\ requests' = [requests EXCEPT ![g] = @ \ {op}]
  /\ Propose(g, op)
  /\ UNCHANGED <<masterVars, latest, states, deleted, clerk, result, store, known, seen>>

\* The applier, for the first server that gets there; a handler that waits for the
\* operation is notified.
Commit(g, op) ==
  LET s == Apply(g, latest[g], op)
  IN  /\ op \in proposals[g]
      /\ latest' = [latest EXCEPT ![g] = s]
      /\ states' = [states EXCEPT ![g] = @ \cup {s}]
      /\ deleted' = [deleted EXCEPT ![g] =
           IF op.OpType = "DeleteShard" THEN @ \cup {op} ELSE @]
      /\ store' = IF op.OpType \in Writes /\ Executes(latest[g], op)
                    THEN [store EXCEPT ![op.shard] = Written(@, op)] ELSE store
      /\ known' = IF op.OpType \in Writes /\ Executes(latest[g], op)
                    THEN [known EXCEPT ![op.shard][op.ClientId] = op.CommandId] ELSE known
      /\ seen' = [c \in Clerk |->
           IF seen[c] = {} THEN {} ELSE seen[c] \cup {store'[clerk[c].op.shard]}]
      /\ clerk' = [c \in Clerk |->
           IF /\ op.OpType \in Writes /\ clerk[c].st = "waiting"
              /\ clerk[c].op = op /\ Target(c) = g
             THEN [clerk[c] EXCEPT !.reply = Notified] ELSE clerk[c]]
      /\ UNCHANGED <<masterVars, proposals, requests, result>>

\* The handler locks the server again, which may be further by then, and replies.
ReplyIn(s, op) ==
  IF Serves(s, op.shard)
    THEN OK(IF op.OpType = "Get" THEN s.shards[op.shard].KVStore ELSE Nil)
    ELSE ErrWrongGroup

ExitCheck(c) ==
  /\ clerk[c].st = "waiting" /\ clerk[c].reply = Notified
  /\ clerk' = [clerk EXCEPT ![c].reply = ReplyIn(latest[Target(c)], clerk[c].op)]
  /\ UNCHANGED <<masterVars, groupVars, requests, result, store, known, seen>>

\* A Get changes nothing.  It reads the state in which the leader applies its entry, or, for
\* it has no number, what a deposed one is in that has another at its index.
CommitGet(c) ==
  LET g == Target(c)
  IN  /\ clerk[c].st = "waiting" /\ clerk[c].op.OpType = "Get"
      /\ \E t \in states[g] : Serves(t, clerk[c].op.shard)
      /\ \E s \in (IF AnyGet THEN states[g] ELSE {latest[g]}) :
           clerk' = [clerk EXCEPT ![c].reply = ReplyIn(s, clerk[c].op)]
      /\ UNCHANGED <<masterVars, groupVars, requests, result, store, known, seen>>

(***************************************************************************)
(* The specification.                                                      *)
(***************************************************************************)
ClerkStep(c) ==
  \/ Invoke(c) \/ CallGroup(c) \/ CallFails(c) \/ LearnConfig(c) \/ TakeReply(c)
  \/ CommitGet(c) \/ ExitCheck(c)

Ticks(g) ==
  \/ ConfigTick(g)
  \/ \E x \in Shard : MigrationTick(g, x) \/ GCTick(g, x) \/ GCAcknowledged(g, x)

GroupStep(g) ==
  \/ Ticks(g)
  \/ \E op \in requests[g] : Accept(g, op)
  \/ \E op \in proposals[g] : Commit(g, op)

Next == Reconfigure \/ (\E c \in Clerk : ClerkStep(c)) \/ (\E g \in Gid : GroupStep(g))

Spec == Init /\ [][Next]_vars
=============================================================================
