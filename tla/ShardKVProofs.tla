--------------------------- MODULE ShardKVProofs ---------------------------
(***************************************************************************)
(* Theorems about ShardKV, for any groups, shards, clerks and plans.  A    *)
(* group leaves a configuration only when it has settled in it, and no two *)
(* groups serve a shard at one time (InOrder, Handover).  Whoever serves a *)
(* shard has all that was ever written to it, and somebody always has it   *)
(* (Stored, Held).  The tables of duplicates go with the shards, and so    *)
(* clerks see one atomic map (Remembered, Clerking).                       *)
(***************************************************************************)
EXTENDS ShardKVSafety, ShardConfigProofs

Statuses == {"Invalid", "Serving", "Pulling", "Pushing", "GCing"}
OpTypes == Writes \cup {"UpdateConfig", "InsertShard", "DeleteShard", "GCComplete"}

IsState(s) ==
  /\ DOMAIN s = {"config", "shards"} /\ s.config \in Nat
  /\ DOMAIN s.shards = Shard
  /\ \A x \in Shard : /\ DOMAIN s.shards[x] = {"Status", "KVStore", "ClientSeq"}
                      /\ s.shards[x].Status \in Statuses

IsConfig(config) ==
  /\ DOMAIN config = {"Num", "Shards", "Groups"} /\ config.Num \in Nat
  /\ config.Shards \in [Shard -> Gid \cup {0}] /\ config.Groups \subseteq Gid

(***************************************************************************)
(* The inductive invariant of the first theorem.                           *)
(***************************************************************************)
Domains ==
  /\ DOMAIN latest = Gid /\ DOMAIN states = Gid
  /\ DOMAIN proposals = Gid /\ DOMAIN requests = Gid

\* The shardmaster numbers its configurations.
Numbered ==
  /\ plan \in Seq(Requests)
  /\ \E T : configs \in Seq(T)
  /\ Len(configs) \in Nat \ {0} /\ configs[1] = NoConfig
  /\ \A i \in 1 .. Len(configs) : IsConfig(configs[i]) /\ configs[i].Num = i - 1

\* A server is behind its group or where it is; a group that has settled in its
\* configuration stays so.
Behind ==
  \A g \in Gid :
    /\ latest[g] \in states[g] /\ latest[g].config < Len(configs)
    /\ \A s \in states[g] :
         /\ IsState(s) /\ s.config <= latest[g].config
         /\ s.config = latest[g].config /\ ~isReconfiguring(s) => ~isReconfiguring(latest[g])

\* A group is given a configuration when it has settled in the one before.
GivenWhenSettled ==
  \A g \in Gid :
    /\ \A op \in requests[g] : op.OpType \in Writes
    /\ \A op \in proposals[g] :
         /\ op.OpType \in OpTypes
         /\ op.OpType = "UpdateConfig" =>
              /\ op.ConfigNum \in 1 .. (Len(configs) - 1)
              /\ op.ConfigNum <= latest[g].config + 1
              /\ op.ConfigNum = latest[g].config + 1 => ~isReconfiguring(latest[g])

InOrder == Domains /\ Numbered /\ Behind /\ GivenWhenSettled

(***************************************************************************)
(* Lemmas on the state machine.                                            *)
(***************************************************************************)
\* rebalance gives the shards to groups of the configuration, or to none.
LEMMA RebalanceType ==
  ASSUME NEW config, IsConfig(config)
  PROVE  IsConfig(rebalance(config)) /\ rebalance(config).Num = config.Num
<1>1. PICK shards : /\ rebalance(config) = [config EXCEPT !.Shards = shards]
                    /\ shards = IF config.Groups = {} THEN [x \in Shard |-> 0]
                               ELSE AllLeveled(AllSettled(config)).Shards
  BY DEF rebalance
<1>2. shards \in [Shard -> Gid \cup {0}]
  <2>1. CASE config.Groups = {}
    <3>1. shards = [x \in Shard |-> 0]
      BY <1>1, <2>1
    <3> QED BY <3>1
  <2>2. CASE config.Groups # {}
    <3>1. shards = AllLeveled(AllSettled(config)).Shards
      BY <1>1, <2>2
    <3>2. config.Shards \in [Shard -> Gid \cup {0}] /\ config.Groups \in SUBSET Gid
      BY DEF IsConfig
    <3>3. shards \in [Shard -> config.Groups]
      BY <2>2, <3>1, <3>2, RebalanceDivides
    <3> QED BY <3>2, <3>3
  <2> QED BY <2>1, <2>2
<1> QED BY <1>1, <1>2 DEF IsConfig

\* A request makes a configuration with the next number, of groups there are.
LEMMA NewConfigType ==
  ASSUME NEW config, IsConfig(config), NEW request \in Requests
  PROVE  /\ IsConfig(NewConfig(config, request))
         /\ NewConfig(config, request).Num = config.Num + 1
<1> DEFINE next == [config EXCEPT !.Num = config.Num + 1]
<1>1. IsConfig(next) /\ next.Num = config.Num + 1
  BY DEF IsConfig
<1>2. CASE request.OpType = "Move"
  <2>1. NewConfig(config, request) = [next EXCEPT !.Shards[request.Shard] = request.GID]
    BY <1>2 DEF NewConfig
  <2>2. request.GID \in Gid
    BY <1>2 DEF Requests
  <2> HIDE DEF next
  <2> QED BY <1>1, <2>1, <2>2 DEF IsConfig
<1>3. CASE request.OpType \in {"Join", "Leave"}
  <2>1. request.GIDs \subseteq Gid
    BY <1>3 DEF Requests
  <2>2. PICK groups : /\ groups \subseteq Gid
                      /\ NewConfig(config, request) = rebalance([next EXCEPT !.Groups = groups])
    <3>1. CASE request.OpType = "Join"
      <4>1. NewConfig(config, request) =
              rebalance([next EXCEPT !.Groups = next.Groups \cup request.GIDs])
        BY <3>1 DEF NewConfig
      <4>2. next.Groups \cup request.GIDs \subseteq Gid
        BY <1>1, <2>1 DEF IsConfig
      <4> QED BY <4>1, <4>2
    <3>2. CASE request.OpType = "Leave"
      <4>1. NewConfig(config, request) =
              rebalance([next EXCEPT !.Groups = next.Groups \ request.GIDs])
        BY <3>2 DEF NewConfig
      <4>2. next.Groups \ request.GIDs \subseteq Gid
        BY <1>1 DEF IsConfig
      <4> QED BY <4>1, <4>2
    <3> QED BY <1>3, <3>1, <3>2
  <2>3. PICK regrouped : regrouped = [next EXCEPT !.Groups = groups]
    OBVIOUS
  <2>4. IsConfig(regrouped) /\ regrouped.Num = config.Num + 1
    <3> HIDE DEF next
    <3> QED BY <1>1, <2>2, <2>3 DEF IsConfig
  <2> HIDE DEF next
  <2> QED BY <2>2, <2>3, <2>4, RebalanceType
<1> QED BY <1>2, <1>3 DEF Requests

\* How an entry that is no configuration may change the status of a shard.
StatusStep(s, t, op, x) ==
  LET old == s.shards[x].Status
      new == t.shards[x].Status
  IN  \/ new = old
      \/ /\ old = "Pulling" /\ new = "GCing"
         /\ op.OpType = "InsertShard" /\ op.shard = x /\ op.ConfigNum = s.config
      \/ old = "Pushing" /\ new = "Invalid"
      \/ old = "GCing" /\ new = "Serving"

\* A configuration is taken only after the one before; any other entry leaves the
\* configuration and moves the status of a shard one step on.
LEMMA ApplyStep ==
  ASSUME NEW g, NEW s, IsState(s), NEW op, op.OpType \in OpTypes
  PROVE  LET t == Apply(g, s, op)
         IN  /\ IsState(t)
             /\ \/ /\ op.OpType = "UpdateConfig" /\ op.ConfigNum = s.config + 1
                   /\ t.config = s.config + 1
                   /\ \A x \in Shard : t.shards[x].Status =
                        NextStatus(g, s.shards[x].Status, Owner(s.config, x), Owner(t.config, x))
                \/ t.config = s.config /\ \A x \in Shard : StatusStep(s, t, op, x)
<1> DEFINE t == Apply(g, s, op)
<1>1. CASE op.OpType \in Writes
  <2>1. t = applyClientOperation(s, op)
    BY <1>1 DEF Apply, Writes
  <2>2. t.config = s.config /\ IsState(t) /\ \A x \in Shard : t.shards[x].Status = s.shards[x].Status
    BY <2>1 DEF applyClientOperation, IsState
  <2> QED BY <2>2 DEF StatusStep
<1>2. CASE op.OpType = "UpdateConfig"
  <2>1. t = applyConfiguration(g, s, op)
    BY <1>2 DEF Apply, Writes
  <2>2. CASE op.ConfigNum # s.config + 1
    BY <2>1, <2>2 DEF applyConfiguration, StatusStep
  <2>3. CASE op.ConfigNum = s.config + 1
    <3>1. /\ DOMAIN t = {"config", "shards"} /\ t.config = s.config + 1
          /\ DOMAIN t.shards = Shard
      BY <2>1, <2>3 DEF applyConfiguration
    <3>2. \A x \in Shard :
            t.shards[x] = [s.shards[x] EXCEPT !.Status =
              NextStatus(g, s.shards[x].Status, Owner(s.config, x), Owner(t.config, x))]
      BY <2>1, <2>3 DEF applyConfiguration
    <3>3. \A x \in Shard :
            /\ DOMAIN t.shards[x] = {"Status", "KVStore", "ClientSeq"}
            /\ t.shards[x].Status =
                 NextStatus(g, s.shards[x].Status, Owner(s.config, x), Owner(t.config, x))
      BY <3>2 DEF IsState
    <3>4. ASSUME NEW x \in Shard
          PROVE  NextStatus(g, s.shards[x].Status, Owner(s.config, x), Owner(t.config, x))
                   \in Statuses
      BY DEF NextStatus, IsState, Statuses
    <3> QED BY <1>2, <2>3, <3>1, <3>3, <3>4 DEF IsState
  <2> QED BY <2>2, <2>3
<1>3. CASE op.OpType = "InsertShard"
  <2>1. t = IF Timely(s, op, "Pulling")
              THEN [s EXCEPT !.shards[op.shard] = Merged(s.shards[op.shard], op.Data)] ELSE s
    BY <1>3 DEF Apply, Writes, applyInsertShard
  <2>2. \A shard : /\ DOMAIN Merged(shard, op.Data) = {"Status", "KVStore", "ClientSeq"}
                   /\ Merged(shard, op.Data).Status = "GCing"
    BY DEF Merged
  <2> QED BY <1>3, <2>1, <2>2 DEF IsState, Statuses, Timely, StatusStep
<1>4. CASE op.OpType = "DeleteShard"
  <2>1. t = IF Timely(s, op, "Pushing") THEN [s EXCEPT !.shards[op.shard] = EmptyShard] ELSE s
    BY <1>4 DEF Apply, Writes, applyDeleteShard
  <2> QED BY <2>1 DEF IsState, Statuses, Timely, StatusStep, EmptyShard
<1>5. CASE op.OpType = "GCComplete"
  <2>1. t = IF Timely(s, op, "GCing") THEN [s EXCEPT !.shards[op.shard].Status = "Serving"] ELSE s
    BY <1>5 DEF Apply, Writes, applyGCComplete
  <2> QED BY <2>1 DEF IsState, Statuses, Timely, StatusStep
<1> QED BY <1>1, <1>2, <1>3, <1>4, <1>5 DEF OpTypes
(***************************************************************************)
(* The steps.                                                              *)
(***************************************************************************)
\* Settled while the configuration stays.
LEMMA StaysSettled ==
  ASSUME NEW s, NEW t, NEW op, IsState(s), ~isReconfiguring(s),
         \A x \in Shard : StatusStep(s, t, op, x)
  PROVE  ~isReconfiguring(t)
BY DEF isReconfiguring, StatusStep

LEMMA InOrderInit ==
  ASSUME ShardConfigAssumption, ShardKVAssumption, Init
  PROVE  InOrder
<1>1. Domains
  BY DEF Init, Domains
<1>2. Numbered
  <2>1. plan \in Seq(Requests)
    BY DEF Init, ShardKVAssumption
  <2>2. IsConfig(NoConfig) /\ NoConfig.Num = 0
    BY DEF IsConfig, NoConfig
  <2>3. configs \in Seq({NoConfig}) /\ Len(configs) = 1 /\ configs[1] = NoConfig
    BY DEF Init
  <2> QED BY <2>1, <2>2, <2>3 DEF Numbered
<1>3. Behind
  <2>1. IsState(EmptyState) /\ EmptyState.config = 0
    BY DEF EmptyState, EmptyShard, IsState, Statuses
  <2> QED BY <2>1 DEF Init, Behind
<1>4. GivenWhenSettled
  BY DEF Init, GivenWhenSettled
<1> QED BY <1>1, <1>2, <1>3, <1>4 DEF InOrder

LEMMA ReconfigureStep ==
  ASSUME InOrder, Reconfigure
  PROVE  /\ InOrder' /\ Len(configs') = Len(configs) + 1
         /\ \A n \in 1 .. Len(configs) : configs'[n] = configs[n]
<1> DEFINE config == NewConfig(configs[Len(configs)], Head(plan))
<1>1. Numbered /\ plan # <<>> /\ plan' = Tail(plan) /\ configs' = Append(configs, config)
  BY DEF InOrder, Reconfigure, Last
<1>2. /\ Head(plan) \in Requests /\ plan' \in Seq(Requests)
      /\ IsConfig(configs[Len(configs)]) /\ configs[Len(configs)].Num = Len(configs) - 1
  BY <1>1 DEF Numbered
<1>3. IsConfig(config) /\ config.Num = Len(configs)
  BY <1>1, <1>2, NewConfigType DEF Numbered
<1> HIDE DEF config
<1>4. PICK T : configs \in Seq(T)
  BY <1>1 DEF Numbered
<1>5. configs \in Seq(T \cup {config})
  BY <1>4
<1>6. /\ configs' \in Seq(T \cup {config}) /\ Len(configs') = Len(configs) + 1
      /\ \A n \in 1 .. Len(configs) : configs'[n] = configs[n]
      /\ configs'[Len(configs) + 1] = config
  BY <1>1, <1>5
<1>7. Numbered'
  BY <1>1, <1>2, <1>3, <1>6 DEF Numbered
<1>8. UNCHANGED <<latest, states, proposals, requests>>
  BY DEF Reconfigure, groupVars, clerkVars
<1>9. Domains' /\ Behind' /\ GivenWhenSettled'
  <2>1. Len(configs) \in Nat
    BY <1>1 DEF Numbered
  <2>2. Domains'
    BY <1>8 DEF InOrder, Domains
  <2>3. Behind'
    BY <1>6, <1>8, <2>1 DEF InOrder, Behind, IsState
  <2>4. GivenWhenSettled'
    BY <1>6, <1>8, <2>1 DEF InOrder, GivenWhenSettled
  <2> QED BY <2>2, <2>3, <2>4
<1> QED BY <1>6, <1>7, <1>9 DEF InOrder

\* Clerks do no more than send requests.
Asks ==
  /\ UNCHANGED <<configs, plan, latest, states, proposals>>
  /\ DOMAIN requests' = DOMAIN requests
  /\ \A g \in DOMAIN requests : \A op \in requests'[g] : op \in requests[g] \/ op.OpType \in Writes

LEMMA ClerkStepAsks ==
  ASSUME NEW c \in Clerk, ClerkStep(c)
  PROVE  Asks
<1>1. CASE CallGroup(c)
  BY <1>1 DEF CallGroup, Asks, masterVars, groupVars
<1>2. CASE ~CallGroup(c)
  <2>1. UNCHANGED <<configs, plan, latest, states, proposals, requests>>
    BY <1>2 DEF ClerkStep, Invoke, CallFails, LearnConfig, TakeReply, CommitGet, ExitCheck,
                masterVars, groupVars
  <2> QED BY <2>1 DEF Asks
<1> QED BY <1>1, <1>2

\* Nothing but proposals and requests changes.
LEMMA ProposalStep ==
  ASSUME InOrder, UNCHANGED <<configs, plan, latest, states>>,
         DOMAIN proposals' = Gid, DOMAIN requests' = Gid, GivenWhenSettled'
  PROVE  InOrder'
<1>1. Domains' /\ Numbered' /\ Behind'
  BY DEF InOrder, Domains, Numbered, Behind
<1> QED BY <1>1 DEF InOrder

LEMMA AsksInOrder ==
  ASSUME InOrder, Asks
  PROVE  InOrder'
<1>1. GivenWhenSettled'
  BY DEF InOrder, Asks, Domains, GivenWhenSettled
<1> QED BY <1>1, ProposalStep DEF Asks, InOrder, Domains

\* Ticks and accepted requests propose an operation.
LEMMA ProposeInOrder ==
  ASSUME InOrder, NEW g, NEW op, Propose(g, op), op.OpType \in OpTypes,
         op.OpType # "UpdateConfig",
         UNCHANGED <<configs, plan, latest, states>>, DOMAIN requests' = Gid,
         \A h \in Gid : requests'[h] \subseteq requests[h]
  PROVE  InOrder'
<1>1. /\ DOMAIN proposals' = Gid
      /\ \A h \in Gid : proposals'[h] \subseteq proposals[h] \cup {op}
  BY DEF Propose, InOrder, Domains
<1>2. GivenWhenSettled'
  BY <1>1 DEF InOrder, GivenWhenSettled
<1> QED BY <1>1, <1>2, ProposalStep

\* A configuration is proposed after a look at a state that has settled in the one
\* before; the group is in that configuration, too, and has settled, or past it.
LEMMA ConfigTickInOrder ==
  ASSUME InOrder, NEW g \in Gid, ConfigTick(g)
  PROVE  InOrder'
<1>1. PICK s \in states[g] :
        /\ ~isReconfiguring(s)
        /\ Answer(configs, s.config + 1).Num = s.config + 1
        /\ Propose(g, [OpType |-> "UpdateConfig", ConfigNum |-> s.config + 1])
  BY DEF ConfigTick
<1>2. UNCHANGED <<configs, plan, latest, states, requests>>
  BY DEF ConfigTick, masterVars, clerkVars
<1> DEFINE op == [OpType |-> "UpdateConfig", ConfigNum |-> s.config + 1]
<1>3. /\ IsState(s) /\ s.config <= latest[g].config /\ IsState(latest[g])
      /\ s.config = latest[g].config => ~isReconfiguring(latest[g])
  BY <1>1 DEF InOrder, Behind
<1>4. s.config \in Nat /\ latest[g].config \in Nat /\ Len(configs) \in Nat \ {0}
  BY <1>3 DEF IsState, InOrder, Numbered
<1>5. s.config + 1 <= Len(configs) - 1
  <2>1. CASE s.config + 1 >= Len(configs)
    <3>1. Answer(configs, s.config + 1) = configs[Len(configs)]
      BY <2>1 DEF Answer, Last
    <3>2. configs[Len(configs)].Num = Len(configs) - 1
      BY <1>4 DEF InOrder, Numbered
    <3> QED BY <1>1, <1>4, <2>1, <3>1, <3>2
  <2> QED BY <1>4, <2>1
<1>6. /\ op.OpType \in OpTypes /\ op.ConfigNum \in 1 .. (Len(configs) - 1)
      /\ op.ConfigNum <= latest[g].config + 1
      /\ op.ConfigNum = latest[g].config + 1 => ~isReconfiguring(latest[g])
  BY <1>3, <1>4, <1>5 DEF OpTypes
<1>7. /\ DOMAIN proposals' = Gid
      /\ proposals'[g] = proposals[g] \cup {op}
      /\ \A h \in Gid \ {g} : proposals'[h] = proposals[h]
  BY <1>1 DEF Propose, InOrder, Domains
<1> HIDE DEF op
<1>8. GivenWhenSettled'
  BY <1>2, <1>6, <1>7 DEF InOrder, GivenWhenSettled
<1> QED BY <1>2, <1>7, <1>8, ProposalStep DEF InOrder, Domains

\* What an entry makes of the state of its group.
Commits(g, op) ==
  /\ op \in proposals[g]
  /\ latest' = [latest EXCEPT ![g] = Apply(g, latest[g], op)]
  /\ states' = [states EXCEPT ![g] = @ \cup {Apply(g, latest[g], op)}]
  /\ UNCHANGED <<configs, plan, proposals, requests>>

LEMMA CommitsOp ==
  ASSUME NEW g, NEW op, Commit(g, op)
  PROVE  Commits(g, op)
BY DEF Commit, Commits, masterVars

\* The group takes the next configuration, settled, or stays settled if it was.
LEMMA CommitMoves ==
  ASSUME InOrder, NEW g \in Gid, NEW op, Commits(g, op)
  PROVE  /\ IsState(latest[g]) /\ IsState(latest'[g]) /\ op.OpType \in OpTypes
         /\ \A h \in Gid \ {g} : latest'[h] = latest[h] /\ states'[h] = states[h]
         /\ states'[g] = states[g] \cup {latest'[g]}
         /\ \/ /\ op.OpType = "UpdateConfig" /\ op.ConfigNum = latest[g].config + 1
               /\ latest'[g].config = latest[g].config + 1 /\ ~isReconfiguring(latest[g])
               /\ latest'[g].config < Len(configs)
               /\ \A x \in Shard : latest'[g].shards[x].Status =
                    NextStatus(g, latest[g].shards[x].Status,
                      Owner(latest[g].config, x), Owner(latest'[g].config, x))
            \/ /\ latest'[g].config = latest[g].config
               /\ ~isReconfiguring(latest[g]) => ~isReconfiguring(latest'[g])
               /\ \A x \in Shard : StatusStep(latest[g], latest'[g], op, x)
<1>1. IsState(latest[g]) /\ op \in proposals[g] /\ op.OpType \in OpTypes
  BY DEF Commits, InOrder, Behind, GivenWhenSettled
<1>2. /\ latest'[g] = Apply(g, latest[g], op) /\ states'[g] = states[g] \cup {latest'[g]}
      /\ \A h \in Gid \ {g} : latest'[h] = latest[h] /\ states'[h] = states[h]
  BY DEF Commits, InOrder, Domains
<1>3. /\ IsState(latest'[g])
      /\ \/ /\ op.OpType = "UpdateConfig" /\ op.ConfigNum = latest[g].config + 1
            /\ latest'[g].config = latest[g].config + 1
            /\ \A x \in Shard : latest'[g].shards[x].Status =
                 NextStatus(g, latest[g].shards[x].Status,
                   Owner(latest[g].config, x), Owner(latest'[g].config, x))
         \/ /\ latest'[g].config = latest[g].config
            /\ \A x \in Shard : StatusStep(latest[g], latest'[g], op, x)
  <2> DEFINE s == latest[g]
             t == Apply(g, s, op)
  <2>1. /\ IsState(t)
        /\ \/ /\ op.OpType = "UpdateConfig" /\ op.ConfigNum = s.config + 1
              /\ t.config = s.config + 1
              /\ \A x \in Shard : t.shards[x].Status =
                   NextStatus(g, s.shards[x].Status, Owner(s.config, x), Owner(t.config, x))
           \/ t.config = s.config /\ \A x \in Shard : StatusStep(s, t, op, x)
    BY <1>1, ApplyStep
  <2>2. latest'[g] = t
    BY <1>2
  <2> HIDE DEF t
  <2> QED BY <2>1, <2>2
<1>4. op.OpType = "UpdateConfig" /\ op.ConfigNum = latest[g].config + 1 =>
        ~isReconfiguring(latest[g]) /\ op.ConfigNum < Len(configs)
  BY <1>1 DEF InOrder, GivenWhenSettled, Numbered
<1>5. (\A x \in Shard : StatusStep(latest[g], latest'[g], op, x)) /\ ~isReconfiguring(latest[g])
        => ~isReconfiguring(latest'[g])
  BY <1>1, StaysSettled
<1> QED BY <1>1, <1>2, <1>3, <1>4, <1>5

LEMMA CommitInOrder ==
  ASSUME InOrder, NEW g \in Gid, NEW op, Commits(g, op)
  PROVE  InOrder'
<1>1. Domains' /\ Numbered'
  BY DEF Commits, InOrder, Domains, Numbered
<1>2. /\ IsState(latest[g]) /\ IsState(latest'[g])
      /\ latest'[g].config < Len(configs)
      /\ \A h \in Gid \ {g} : latest'[h] = latest[h] /\ states'[h] = states[h]
      /\ states'[g] = states[g] \cup {latest'[g]}
      /\ \/ latest'[g].config = latest[g].config + 1
         \/ /\ latest'[g].config = latest[g].config
            /\ ~isReconfiguring(latest[g]) => ~isReconfiguring(latest'[g])
  BY CommitMoves DEF InOrder, Behind
<1>3. Behind'
  <2>1. UNCHANGED configs /\ latest[g].config \in Nat /\ latest'[g].config \in Nat
    BY <1>2 DEF Commits, IsState
  <2>2. ASSUME NEW s \in states'[g]
        PROVE  /\ IsState(s) /\ s.config <= latest'[g].config
               /\ s.config = latest'[g].config /\ ~isReconfiguring(s) =>
                    ~isReconfiguring(latest'[g])
    <3>1. CASE s = latest'[g]
      BY <1>2, <2>1, <3>1
    <3>2. CASE s \in states[g]
      <4>1. /\ IsState(s) /\ s.config <= latest[g].config
            /\ s.config = latest[g].config /\ ~isReconfiguring(s) => ~isReconfiguring(latest[g])
        BY <3>2 DEF InOrder, Behind
      <4>2. s.config \in Nat
        BY <4>1 DEF IsState
      <4> QED BY <1>2, <2>1, <4>1, <4>2
    <3> QED BY <1>2, <3>1, <3>2
  <2>3. latest'[g] \in states'[g]
    BY <1>2
  <2>4. ASSUME NEW h \in Gid \ {g}
        PROVE  /\ latest'[h] \in states'[h] /\ latest'[h].config < Len(configs)
               /\ \A s \in states'[h] :
                    /\ IsState(s) /\ s.config <= latest'[h].config
                    /\ s.config = latest'[h].config /\ ~isReconfiguring(s) =>
                         ~isReconfiguring(latest'[h])
    BY <1>2 DEF InOrder, Behind
  <2> QED BY <1>2, <2>1, <2>2, <2>3, <2>4 DEF Behind
<1>4. GivenWhenSettled'
  BY <1>2 DEF InOrder, GivenWhenSettled, IsState, Commits
<1> QED BY <1>1, <1>3, <1>4 DEF InOrder

\* Every step is one of these.
LEMMA Steps ==
  ASSUME InOrder, [Next]_vars
  PROVE  \/ Reconfigure
         \/ Asks
         \/ \E g \in Gid : \E op \in proposals[g] : Commits(g, op)
         \/ \E g \in Gid : ConfigTick(g)
         \/ \E g \in Gid, x \in Shard : MigrationTick(g, x) \/ GCTick(g, x) \/ GCAcknowledged(g, x)
         \/ \E g \in Gid : \E op \in requests[g] : Accept(g, op)
<1>1. CASE Next
  BY <1>1, ClerkStepAsks, CommitsOp DEF Next, GroupStep, Ticks
<1>2. CASE UNCHANGED vars
  BY <1>2 DEF Asks, vars, masterVars, groupVars, clerkVars
<1> QED BY <1>1, <1>2

\* The groups deletions are proposed to exist.
LEMMA OldOwnersExist ==
  ASSUME InOrder, NEW g \in Gid, NEW s \in states[g], NEW x \in Shard,
         s.config # 0
  PROVE  OldOwners(s.config, x) \subseteq Gid
<1>1. s.config \in 1 .. Len(configs)
  BY DEF InOrder, Behind, IsState, Numbered
<1> QED BY <1>1 DEF OldOwners, InOrder, Numbered, IsConfig

(***************************************************************************)
(* A group leaves a configuration settled.                                 *)
(***************************************************************************)
LEMMA InOrderStep ==
  ASSUME InOrder, [Next]_vars
  PROVE  InOrder'
<1>1. CASE Reconfigure
  BY <1>1, ReconfigureStep
<1>2. CASE Asks
  BY <1>2, AsksInOrder
<1>3. CASE \E g \in Gid : \E op \in proposals[g] : Commits(g, op)
  BY <1>3, CommitInOrder
<1>4. CASE \E g \in Gid : ConfigTick(g)
  BY <1>4, ConfigTickInOrder
<1>5. CASE \E g \in Gid, x \in Shard : MigrationTick(g, x) \/ GCTick(g, x) \/ GCAcknowledged(g, x)
  <2>1. PICK g \in Gid, x \in Shard : MigrationTick(g, x) \/ GCTick(g, x) \/ GCAcknowledged(g, x)
    BY <1>5
  <2>2. UNCHANGED <<configs, plan, latest, states, requests>> /\ DOMAIN requests = Gid
    BY <2>1 DEF MigrationTick, GCTick, GCAcknowledged, masterVars, clerkVars, InOrder, Domains
  <2>3. PICK h, op : /\ Propose(h, op)
                     /\ op.OpType \in {"InsertShard", "DeleteShard", "GCComplete"}
    <3>1. CASE MigrationTick(g, x)
      <4>1. PICK h, op : Propose(h, op) /\ op.OpType = "InsertShard"
        BY <3>1 DEF MigrationTick
      <4> QED BY <4>1
    <3>2. CASE GCTick(g, x)
      <4>1. PICK h, num : Propose(h, Deletion(x, num))
        BY <3>2 DEF GCTick
      <4>2. Deletion(x, num).OpType = "DeleteShard"
        BY DEF Deletion
      <4> QED BY <4>1, <4>2
    <3>3. CASE GCAcknowledged(g, x)
      <4>1. PICK op : Propose(g, op) /\ op.OpType = "GCComplete"
        BY <3>3 DEF GCAcknowledged
      <4> QED BY <4>1
    <3> QED BY <2>1, <3>1, <3>2, <3>3
  <2>4. op.OpType \in OpTypes /\ op.OpType # "UpdateConfig"
    BY <2>3 DEF OpTypes
  <2> QED BY <2>2, <2>3, <2>4, ProposeInOrder
<1>6. CASE \E g \in Gid : \E op \in requests[g] : Accept(g, op)
  <2>1. PICK g \in Gid : \E op \in requests[g] : Accept(g, op)
    BY <1>6
  <2>2. PICK op \in requests[g] : Accept(g, op)
    BY <2>1
  <2>3. op.OpType \in OpTypes /\ op.OpType # "UpdateConfig"
    BY DEF InOrder, GivenWhenSettled, OpTypes, Writes
  <2>4. /\ Propose(g, op) /\ UNCHANGED <<configs, plan, latest, states>>
        /\ DOMAIN requests' = Gid /\ \A h \in Gid : requests'[h] \subseteq requests[h]
    BY <2>2 DEF Accept, masterVars, InOrder, Domains
  <2> QED BY <2>3, <2>4, ProposeInOrder
<1> QED BY <1>1, <1>2, <1>3, <1>4, <1>5, <1>6, Steps

LEMMA AlwaysInOrder == Spec => []InOrder
<1>1. Init => InOrder
  BY InOrderInit, ShardConfigAssumption, ShardKVAssumption
<1>2. InOrder /\ [Next]_vars => InOrder'
  BY InOrderStep
<1> QED BY <1>1, <1>2, PTL DEF Spec

Settles ==
  \A g \in Gid : latest'[g].config # latest[g].config =>
    /\ latest'[g].config = latest[g].config + 1
    /\ \A x \in Shard : latest[g].shards[x].Status \in {"Invalid", "Serving"}

LEMMA SettledStep ==
  ASSUME InOrder, [Next]_vars
  PROVE  Settles
<1>1. CASE \E g \in Gid : \E op \in proposals[g] : Commits(g, op)
  <2>1. PICK g \in Gid : \E op \in proposals[g] : Commits(g, op)
    BY <1>1
  <2>2. PICK op \in proposals[g] : Commits(g, op)
    BY <2>1
  <2>3. /\ IsState(latest[g])
        /\ \A h \in Gid \ {g} : latest'[h] = latest[h]
        /\ \/ latest'[g].config = latest[g].config + 1 /\ ~isReconfiguring(latest[g])
           \/ latest'[g].config = latest[g].config
    BY <2>2, CommitMoves
  <2>4. ~isReconfiguring(latest[g]) =>
          \A x \in Shard : latest[g].shards[x].Status \in {"Invalid", "Serving"}
    BY <2>3 DEF isReconfiguring, IsState, Statuses
  <2> QED BY <2>3, <2>4 DEF Settles
<1>2. CASE UNCHANGED latest
  BY <1>2 DEF Settles
<1> QED BY <1>1, <1>2, Steps DEF Reconfigure, groupVars, Asks, ConfigTick, MigrationTick, GCTick,
           GCAcknowledged, Accept

\* ConfigTicker looks at the shards long before its proposal is agreed on, on a server that
\* may be behind and with other leaders about; a group goes to the next configuration only
\* settled all the same (server.go:846-878).
THEOREM LeavesSettled == Spec => SettledBeforeNext
<1>1. InOrder /\ [Next]_vars => [Settles]_vars
  BY SettledStep
<1> QED BY <1>1, AlwaysInOrder, PTL DEF Spec, SettledBeforeNext, Settles
(***************************************************************************)
(* One group at a time.                                                    *)
(***************************************************************************)
\* A shard that has been given to a group is never without one again: not all groups leave.
NeverOrphaned ==
  \A x \in Shard : \A i, j \in 0 .. (Len(configs) - 1) :
    i <= j /\ Owner(i, x) \in Gid => Owner(j, x) # 0

\* Every group that had the shard in a configuration before num has left that configuration.
Passed(num, x) ==
  \A i \in 0 .. (num - 1) : \A g \in Gid : Owner(i, x) = g => latest[g].config > i

\* A shard has one of these statuses at its owner and there only.
OwnersKnow ==
  \A g \in Gid, x \in Shard :
    latest[g].shards[x].Status \in {"Serving", "GCing", "Pulling"}
      <=> Owner(latest[g].config, x) = g

\* Who serves a shard, or had it and has left that configuration, came after all before it.
ServesAfterAll ==
  \A g \in Gid, x \in Shard : Serves(latest[g], x) => Passed(latest[g].config, x)
LeftAfterAll ==
  \A g \in Gid, x \in Shard : \A i \in 0 .. (latest[g].config - 1) :
    Owner(i, x) = g => Passed(i, x)

\* What is to be inserted was fetched where the shard was frozen.
FetchedFrozen ==
  \A g \in Gid : \A op \in proposals[g] : op.OpType = "InsertShard" =>
    /\ op.ConfigNum \in Nat
    /\ op.ConfigNum # 0 => /\ Owner(op.ConfigNum - 1, op.shard) \in Gid
                           /\ latest[Owner(op.ConfigNum - 1, op.shard)].config >= op.ConfigNum

Handover == OwnersKnow /\ ServesAfterAll /\ LeftAfterAll /\ FetchedFrozen

LEMMA HandoverInit ==
  ASSUME ShardConfigAssumption, Init
  PROVE  Handover
<1>1. \A g \in Gid : latest[g].config = 0 /\ \A x \in Shard : latest[g].shards[x].Status = "Invalid"
  BY DEF Init, EmptyState, EmptyShard
<1>2. \A x \in Shard : Owner(0, x) = 0
  BY DEF Init, Owner, NoConfig
<1>3. 0 \notin Gid
  BY DEF ShardConfigAssumption
<1>4. FetchedFrozen
  BY DEF Init, FetchedFrozen
<1> QED BY <1>1, <1>2, <1>3, <1>4 DEF Handover, OwnersKnow, ServesAfterAll, LeftAfterAll, Serves

\* New configurations, and groups that go on, leave what has passed as it was.
LEMMA HandoverKept ==
  ASSUME InOrder, Handover, UNCHANGED latest,
         \A x \in Shard, n \in 0 .. (Len(configs) - 1) : Owner(n, x)' = Owner(n, x),
         FetchedFrozen'
  PROVE  Handover'
<1>1. /\ \A g \in Gid : latest[g].config \in Nat /\ latest[g].config < Len(configs)
      /\ Len(configs) \in Nat
  BY DEF InOrder, Behind, IsState, Numbered
<1>2. \A g \in Gid, x \in Shard : \A n \in 0 .. latest[g].config : Owner(n, x)' = Owner(n, x)
  BY <1>1
<1>3. ASSUME NEW x \in Shard, NEW g \in Gid, NEW n \in 0 .. latest[g].config, Passed(n, x)
      PROVE  Passed(n, x)'
  BY <1>1, <1>2, <1>3 DEF Passed
<1>4. OwnersKnow'
  BY <1>1, <1>2 DEF Handover, OwnersKnow
<1>5. ServesAfterAll'
  BY <1>1, <1>3 DEF Handover, ServesAfterAll, Serves
<1>6. LeftAfterAll'
  BY <1>1, <1>2, <1>3 DEF Handover, LeftAfterAll
<1> QED BY <1>4, <1>5, <1>6 DEF Handover

\* The settled owner of a shard serves it.
LEMMA OwnerServes ==
  ASSUME InOrder, Handover, NEW g \in Gid, NEW x \in Shard,
         Owner(latest[g].config, x) = g, ~isReconfiguring(latest[g])
  PROVE  Passed(latest[g].config, x)
BY DEF Handover, OwnersKnow, ServesAfterAll, isReconfiguring, Serves

\* The data inserted comes from the owner before, which had come after all before it.
LEMMA InsertedAfterAll ==
  ASSUME ShardConfigAssumption, InOrder, Handover,
         NEW g \in Gid, NEW x \in Shard, NEW op \in proposals[g],
         op.OpType = "InsertShard", op.shard = x, op.ConfigNum = latest[g].config,
         latest[g].shards[x].Status = "Pulling"
  PROVE  Passed(latest[g].config, x)
<1> DEFINE n == latest[g].config
           old == Owner(n - 1, x)
<1>1. Owner(n, x) = g /\ n \in Nat
  BY DEF Handover, OwnersKnow, InOrder, Behind, IsState
<1>2. n # 0
  <2>1. Owner(0, x) = 0
    BY DEF InOrder, Numbered, Owner, NoConfig
  <2> QED BY <1>1, <2>1 DEF ShardConfigAssumption
<1>3. old \in Gid /\ latest[old].config >= n
  BY <1>2 DEF Handover, FetchedFrozen
<1>4. latest[old].config \in Nat
  BY <1>3 DEF InOrder, Behind, IsState
<1>5. Passed(n - 1, x)
  <2>1. n - 1 \in 0 .. (latest[old].config - 1)
    BY <1>1, <1>2, <1>3, <1>4
  <2> HIDE DEF n
  <2> QED BY <1>3, <2>1 DEF Handover, LeftAfterAll
<1> QED BY <1>1, <1>2, <1>3, <1>4, <1>5 DEF Passed

\* Passed, of the next state, while the configurations stay.
PassedThen(num, x) ==
  \A i \in 0 .. (num - 1) : \A g \in Gid : Owner(i, x) = g => latest'[g].config > i

LEMMA CommitHandsOver ==
  ASSUME ShardConfigAssumption, InOrder, Handover, NeverOrphaned,
         NEW g \in Gid, NEW op, Commits(g, op)
  PROVE  Handover'
<1> DEFINE s == latest[g]
           t == latest'[g]
<1>1. /\ IsState(s) /\ IsState(t) /\ op \in proposals[g] /\ UNCHANGED <<configs, proposals>>
      /\ \A h \in Gid \ {g} : latest'[h] = latest[h]
      /\ \/ /\ t.config = s.config + 1 /\ ~isReconfiguring(s) /\ t.config < Len(configs)
            /\ \A x \in Shard : t.shards[x].Status =
                 NextStatus(g, s.shards[x].Status, Owner(s.config, x), Owner(t.config, x))
         \/ t.config = s.config /\ \A x \in Shard : StatusStep(s, t, op, x)
  BY CommitMoves DEF Commits
<1>2. \A n, x : Owner(n, x)' = Owner(n, x)
  BY <1>1 DEF Owner
<1>3. \A h \in Gid : /\ latest[h].config \in Nat /\ latest'[h].config \in Nat
                    /\ latest'[h].config >= latest[h].config
  <2>1. \A h \in Gid : IsState(latest[h])
    BY DEF InOrder, Behind
  <2> QED BY <1>1, <2>1 DEF IsState
<1>4. ASSUME NEW x \in Shard, NEW n \in Nat, Passed(n, x)
      PROVE  PassedThen(n, x)
  <2> SUFFICES ASSUME NEW i \in 0 .. (n - 1), NEW h \in Gid, Owner(i, x) = h
               PROVE  latest'[h].config > i
    BY DEF PassedThen
  <2>1. latest[h].config > i
    BY <1>4 DEF Passed
  <2> QED BY <1>3, <2>1
<1>5. s.config \in Nat /\ t.config \in Nat /\ Len(configs) \in Nat
  BY <1>3 DEF InOrder, Numbered
<1>6. FetchedFrozen'
  <2> SUFFICES ASSUME NEW h \in Gid, NEW ins \in proposals[h], ins.OpType = "InsertShard"
               PROVE  /\ ins.ConfigNum \in Nat
                      /\ ins.ConfigNum # 0 =>
                           /\ Owner(ins.ConfigNum - 1, ins.shard) \in Gid
                           /\ latest'[Owner(ins.ConfigNum - 1, ins.shard)].config >= ins.ConfigNum
    BY <1>1, <1>2 DEF FetchedFrozen
  <2>1. /\ ins.ConfigNum \in Nat
        /\ ins.ConfigNum # 0 =>
             /\ Owner(ins.ConfigNum - 1, ins.shard) \in Gid
             /\ latest[Owner(ins.ConfigNum - 1, ins.shard)].config >= ins.ConfigNum
    BY DEF Handover, FetchedFrozen
  <2>2. ASSUME NEW o \in Gid, latest[o].config >= ins.ConfigNum
        PROVE  latest'[o].config >= ins.ConfigNum
    BY <1>3, <2>1, <2>2
  <2> QED BY <2>1, <2>2
<1>7. /\ \A x \in Shard : t.shards[x].Status \in {"Serving", "GCing", "Pulling"}
                           <=> Owner(t.config, x) = g
      /\ \A x \in Shard : Serves(t, x) => PassedThen(t.config, x)
      /\ \A x \in Shard : \A i \in 0 .. (t.config - 1) : Owner(i, x) = g => PassedThen(i, x)
  <2>1. CASE /\ t.config = s.config + 1 /\ ~isReconfiguring(s) /\ t.config < Len(configs)
             /\ \A x \in Shard : t.shards[x].Status =
                  NextStatus(g, s.shards[x].Status, Owner(s.config, x), Owner(t.config, x))
    <3> SUFFICES ASSUME NEW x \in Shard
                 PROVE  /\ t.shards[x].Status \in {"Serving", "GCing", "Pulling"}
                             <=> Owner(t.config, x) = g
                        /\ Serves(t, x) => PassedThen(t.config, x)
                        /\ \A i \in 0 .. (t.config - 1) : Owner(i, x) = g => PassedThen(i, x)
      OBVIOUS
    <3> DEFINE old == Owner(s.config, x)
               new == Owner(t.config, x)
    <3>1. /\ t.shards[x].Status = NextStatus(g, s.shards[x].Status, old, new)
          /\ s.shards[x].Status \in {"Serving", "Invalid"}
          /\ s.shards[x].Status = "Serving" <=> old = g
      BY <1>1, <2>1 DEF Handover, OwnersKnow, isReconfiguring, IsState, Statuses
    <3>2. (old \in Gid => new # 0) /\ 0 \notin Gid
      BY <1>5, <2>1 DEF NeverOrphaned, ShardConfigAssumption
    <3>3. t.shards[x].Status \in {"Serving", "GCing", "Pulling"} <=> new = g
      BY <3>1, <3>2 DEF NextStatus
    <3>4. old = g => Passed(s.config, x)
      BY <2>1, OwnerServes
    <3>5. ASSUME Serves(t, x)
          PROVE  PassedThen(t.config, x)
      <4>1. new = g /\ (old = g \/ old = 0)
        BY <3>1, <3>2, <3>3, <3>5 DEF Serves, NextStatus
      <4>2. CASE old = g
        <5>1. PassedThen(s.config, x)
          BY <1>4, <1>5, <3>4, <4>2
        <5>2. latest'[g].config > s.config
          BY <1>5, <2>1
        <5> QED BY <1>5, <2>1, <4>2, <5>1, <5>2 DEF PassedThen
      <4>3. CASE old = 0
        <5>1. \A i \in 0 .. s.config : Owner(i, x) \notin Gid
          BY <1>5, <2>1, <4>3 DEF NeverOrphaned
        <5> QED BY <1>5, <2>1, <5>1 DEF PassedThen
      <4> QED BY <4>1, <4>2, <4>3
    <3>6. ASSUME NEW i \in 0 .. (t.config - 1), Owner(i, x) = g
          PROVE  PassedThen(i, x)
      <4>1. CASE i = s.config
        BY <1>4, <1>5, <3>4, <3>6, <4>1
      <4>2. CASE i \in 0 .. (s.config - 1)
        BY <1>4, <1>5, <3>6, <4>2 DEF Handover, LeftAfterAll
      <4> QED BY <1>5, <2>1, <4>1, <4>2
    <3> QED BY <3>3, <3>5, <3>6
  <2>2. CASE t.config = s.config /\ \A x \in Shard : StatusStep(s, t, op, x)
    <3> SUFFICES ASSUME NEW x \in Shard
                 PROVE  /\ t.shards[x].Status \in {"Serving", "GCing", "Pulling"}
                             <=> Owner(t.config, x) = g
                        /\ Serves(t, x) => PassedThen(t.config, x)
                        /\ \A i \in 0 .. (t.config - 1) : Owner(i, x) = g => PassedThen(i, x)
      OBVIOUS
    <3>1. StatusStep(s, t, op, x)
      BY <2>2
    <3>2. s.shards[x].Status \in {"Serving", "GCing", "Pulling"} <=> Owner(s.config, x) = g
      BY DEF Handover, OwnersKnow
    <3>3. t.shards[x].Status \in {"Serving", "GCing", "Pulling"} <=> Owner(t.config, x) = g
      BY <2>2, <3>1, <3>2 DEF StatusStep
    <3>4. ASSUME Serves(t, x)
          PROVE  PassedThen(t.config, x)
      <4>1. CASE Serves(s, x)
        BY <1>4, <1>5, <2>2, <4>1 DEF Handover, ServesAfterAll
      <4>2. CASE ~Serves(s, x)
        <5>1. /\ op.OpType = "InsertShard" /\ op.shard = x /\ op.ConfigNum = s.config
              /\ s.shards[x].Status = "Pulling"
          BY <3>1, <3>4, <4>2 DEF Serves, StatusStep
        <5>2. Passed(s.config, x)
          BY <1>1, <5>1, InsertedAfterAll
        <5> QED BY <1>4, <1>5, <2>2, <5>2
      <4> QED BY <4>1, <4>2
    <3>5. \A i \in 0 .. (t.config - 1) : Owner(i, x) = g => PassedThen(i, x)
      BY <1>4, <1>5, <2>2 DEF Handover, LeftAfterAll
    <3> QED BY <3>3, <3>4, <3>5
  <2> QED BY <1>1, <2>1, <2>2
<1>8. ASSUME NEW h \in Gid \ {g}
      PROVE  /\ \A x \in Shard : latest'[h].shards[x].Status \in {"Serving", "GCing", "Pulling"}
                                <=> Owner(latest'[h].config, x) = h
             /\ \A x \in Shard : Serves(latest'[h], x) => PassedThen(latest'[h].config, x)
             /\ \A x \in Shard : \A i \in 0 .. (latest'[h].config - 1) :
                  Owner(i, x) = h => PassedThen(i, x)
  <2>1. latest'[h] = latest[h] /\ latest[h].config \in Nat
    BY <1>1, <1>3
  <2>2. \A x \in Shard : latest[h].shards[x].Status \in {"Serving", "GCing", "Pulling"}
                        <=> Owner(latest[h].config, x) = h
    BY DEF Handover, OwnersKnow
  <2>3. \A x \in Shard : Serves(latest[h], x) => PassedThen(latest[h].config, x)
    BY <1>4, <2>1 DEF Handover, ServesAfterAll
  <2>4. \A x \in Shard : \A i \in 0 .. (latest[h].config - 1) : Owner(i, x) = h => PassedThen(i, x)
    BY <1>4, <2>1 DEF Handover, LeftAfterAll
  <2> QED BY <2>1, <2>2, <2>3, <2>4
<1>9. OwnersKnow' /\ ServesAfterAll' /\ LeftAfterAll'
  <2>1. OwnersKnow'
    BY <1>2, <1>7, <1>8 DEF OwnersKnow
  <2>2. ServesAfterAll'
    BY <1>2, <1>7, <1>8 DEF ServesAfterAll, Serves, Passed, PassedThen
  <2>3. LeftAfterAll'
    BY <1>2, <1>7, <1>8 DEF LeftAfterAll, Passed, PassedThen
  <2> QED BY <2>1, <2>2, <2>3
<1> QED BY <1>6, <1>9 DEF Handover

LEMMA HandoverStep ==
  ASSUME ShardConfigAssumption, InOrder, Handover, NeverOrphaned, [Next]_vars
  PROVE  Handover'
<1>1. CASE Reconfigure
  <2>1. /\ Len(configs') = Len(configs) + 1 /\ Len(configs) \in Nat
        /\ \A n \in 1 .. Len(configs) : configs'[n] = configs[n]
    BY <1>1, ReconfigureStep DEF InOrder, Numbered
  <2>2. UNCHANGED <<latest, proposals>>
    BY <1>1 DEF Reconfigure, groupVars
  <2>3. \A x \in Shard, n \in 0 .. (Len(configs) - 1) : Owner(n, x)' = Owner(n, x)
    BY <2>1 DEF Owner
  <2>4. FetchedFrozen'
    <3> SUFFICES ASSUME NEW g \in Gid, NEW op \in proposals[g], op.OpType = "InsertShard"
                 PROVE  /\ op.ConfigNum \in Nat
                        /\ op.ConfigNum # 0 =>
                             /\ Owner(op.ConfigNum - 1, op.shard)' \in Gid
                             /\ latest[Owner(op.ConfigNum - 1, op.shard)'].config >= op.ConfigNum
      BY <2>2 DEF FetchedFrozen
    <3> DEFINE old == Owner(op.ConfigNum - 1, op.shard)
    <3>1. /\ op.ConfigNum \in Nat
          /\ op.ConfigNum # 0 => old \in Gid /\ latest[old].config >= op.ConfigNum
      BY DEF Handover, FetchedFrozen
    <3>2. op.ConfigNum # 0 => op.ConfigNum \in 1 .. Len(configs)
      <4>1. \A h \in Gid : latest[h].config \in Nat /\ latest[h].config < Len(configs)
        BY DEF InOrder, Behind, IsState
      <4>2. \A h \in Gid : latest[h].config >= op.ConfigNum => op.ConfigNum <= Len(configs)
        BY <2>1, <3>1, <4>1
      <4>3. op.ConfigNum # 0 => op.ConfigNum <= Len(configs)
        BY <3>1, <4>2
      <4> HIDE DEF old
      <4> QED BY <2>1, <3>1, <4>3
    <3>3. op.ConfigNum # 0 => old' = old
      BY <2>1, <3>1, <3>2 DEF Owner
    <3> QED BY <3>1, <3>3
  <2> QED BY <2>2, <2>3, <2>4, HandoverKept
<1>2. CASE \E g \in Gid : \E op \in proposals[g] : Commits(g, op)
  BY <1>2, CommitHandsOver
<1>3. CASE \E g \in Gid, x \in Shard : MigrationTick(g, x)
  <2>1. PICK g \in Gid, x \in Shard : MigrationTick(g, x)
    BY <1>3
  <2>2. PICK s, old, t, data :
          /\ s \in states[g] /\ t \in states[old]
          /\ old \in OldOwners(s.config, x) /\ Ready(t, s.config)
          /\ Propose(g, [OpType |-> "InsertShard", shard |-> x, ConfigNum |-> s.config,
                         Data |-> data])
    BY <2>1 DEF MigrationTick
  <2>3. UNCHANGED <<configs, latest>>
    BY <2>1 DEF MigrationTick, masterVars
  <2>4. s.config \in Nat
    BY <2>2 DEF InOrder, Behind, IsState
  <2>5. ASSUME s.config # 0
        PROVE  /\ Owner(s.config - 1, x) \in Gid
               /\ latest[Owner(s.config - 1, x)].config >= s.config
    <3>1. old = Owner(s.config - 1, x) /\ old \in Gid
      BY <2>2, <2>5, OldOwnersExist DEF OldOwners
    <3>2. t.config >= s.config /\ t.config <= latest[old].config
      BY <2>2, <3>1 DEF Ready, InOrder, Behind
    <3>3. t.config \in Nat /\ latest[old].config \in Nat
      BY <2>2, <3>1 DEF InOrder, Behind, IsState
    <3> QED BY <2>4, <3>1, <3>2, <3>3
  <2>6. \A n, y : Owner(n, y)' = Owner(n, y)
    BY <2>3 DEF Owner
  <2>7. FetchedFrozen'
    <3> DEFINE ins == [OpType |-> "InsertShard", shard |-> x, ConfigNum |-> s.config,
                       Data |-> data]
    <3>1. \A h \in Gid : proposals'[h] \subseteq proposals[h] \cup {ins}
      BY <2>2 DEF Propose, InOrder, Domains
    <3>2. /\ ins.ConfigNum \in Nat
          /\ ins.ConfigNum # 0 => /\ Owner(ins.ConfigNum - 1, ins.shard) \in Gid
                                  /\ latest[Owner(ins.ConfigNum - 1, ins.shard)].config
                                       >= ins.ConfigNum
      BY <2>4, <2>5
    <3> HIDE DEF ins
    <3> QED BY <2>3, <2>6, <3>1, <3>2 DEF Handover, FetchedFrozen
  <2> QED BY <2>3, <2>6, <2>7, HandoverKept
<1>4. CASE /\ UNCHANGED <<configs, latest>>
           /\ \A g \in Gid : \A op \in proposals'[g] :
                op \in proposals[g] \/ op.OpType # "InsertShard"
  <2>1. \A n, x : Owner(n, x)' = Owner(n, x)
    BY <1>4 DEF Owner
  <2>2. FetchedFrozen'
    BY <1>4, <2>1 DEF Handover, FetchedFrozen
  <2> QED BY <1>4, <2>1, <2>2, HandoverKept
<1>5. CASE Asks \/ \E g \in Gid : ConfigTick(g)
  <2>1. CASE Asks
    BY <1>4, <2>1 DEF Asks
  <2>2. CASE \E g \in Gid : ConfigTick(g)
    BY <1>4, <2>2 DEF ConfigTick, Propose, InOrder, Domains, masterVars
  <2> QED BY <1>5, <2>1, <2>2
<1>6. CASE \E g \in Gid, x \in Shard : GCTick(g, x) \/ GCAcknowledged(g, x)
  <2>1. PICK g \in Gid, x \in Shard : GCTick(g, x) \/ GCAcknowledged(g, x)
    BY <1>6
  <2>2. UNCHANGED <<configs, latest>>
    BY <2>1 DEF GCTick, GCAcknowledged, masterVars
  <2>3. PICK h, op : Propose(h, op) /\ op.OpType # "InsertShard"
    <3>1. CASE GCTick(g, x)
      <4>1. PICK h, num : Propose(h, Deletion(x, num))
        BY <3>1 DEF GCTick
      <4>2. Deletion(x, num).OpType # "InsertShard"
        BY DEF Deletion
      <4> QED BY <4>1, <4>2
    <3>2. CASE GCAcknowledged(g, x)
      <4>1. PICK op : Propose(g, op) /\ op.OpType # "InsertShard"
        BY <3>2 DEF GCAcknowledged
      <4> QED BY <4>1
    <3> QED BY <2>1, <3>1, <3>2
  <2>4. \A k \in Gid : \A o \in proposals'[k] : o \in proposals[k] \/ o.OpType # "InsertShard"
    BY <2>3 DEF Propose, InOrder, Domains
  <2> QED BY <1>4, <2>2, <2>4
<1>7. CASE \E g \in Gid : \E op \in requests[g] : Accept(g, op)
  <2>1. PICK g \in Gid : \E op \in requests[g] : Accept(g, op)
    BY <1>7
  <2>2. PICK op \in requests[g] : Accept(g, op)
    BY <2>1
  <2>3. op.OpType # "InsertShard"
    BY DEF InOrder, GivenWhenSettled, Writes
  <2> QED BY <1>4, <2>2, <2>3 DEF Accept, Propose, InOrder, Domains, masterVars
<1> QED BY <1>1, <1>2, <1>3, <1>5, <1>6, <1>7, Steps

LEMMA OwnersApart ==
  ASSUME InOrder, Handover
  PROVE  AnOwnerAtATime
<1> SUFFICES ASSUME NEW x \in Shard, NEW g \in Gid, NEW h \in Gid,
                    Serves(latest[g], x), Serves(latest[h], x),
                    latest[g].config <= latest[h].config
             PROVE  g = h
  <2>1. \A g \in Gid : latest[g].config \in Nat
    BY DEF InOrder, Behind, IsState
  <2> QED BY <2>1 DEF AnOwnerAtATime
<1>1. latest[g].config \in Nat /\ latest[h].config \in Nat
  BY DEF InOrder, Behind, IsState
<1>2. Owner(latest[g].config, x) = g /\ Owner(latest[h].config, x) = h
  BY DEF Handover, OwnersKnow, Serves
<1>3. Passed(latest[h].config, x)
  BY DEF Handover, ServesAfterAll
<1>4. ~(latest[g].config < latest[h].config)
  BY <1>1, <1>2, <1>3 DEF Passed
<1> QED BY <1>1, <1>2, <1>4

\* Groups change their configuration at different times, and what they fetch, insert and
\* delete is agreed on late, yet no two serve a shard at one time (server.go:162-226,
\* 757-801), unless all groups leave: then the last owner never freezes its shards
\* (server.go:189-194).
THEOREM OneOwner == Spec /\ []NeverOrphaned => []AnOwnerAtATime
<1>1. Init => Handover
  BY HandoverInit, ShardConfigAssumption
<1>2. InOrder /\ NeverOrphaned /\ Handover /\ [Next]_vars => Handover'
  BY HandoverStep, ShardConfigAssumption
<1>3. InOrder /\ Handover => AnOwnerAtATime
  BY OwnersApart
<1> QED BY <1>1, <1>2, <1>3, AlwaysInOrder, PTL DEF Spec

(***************************************************************************)
(* The invariant, on top of InOrder and Handover.                          *)
(***************************************************************************)
\* A server, be it behind, knows of a shard it has or pulls that its group is the owner.
StatesKnow ==
  \A g \in Gid : \A s \in states[g], x \in Shard :
    s.shards[x].Status \in {"GCing", "Pulling"} => Owner(s.config, x) = g

\* What a server has inserted its group serves as long as it is in that configuration.
InsertedStays ==
  \A g \in Gid : \A s \in states[g], x \in Shard :
    s.config = latest[g].config /\ s.shards[x].Status = "GCing" => Serves(latest[g], x)

\* A group that does not have a shard has no data of it.
EmptyUntilInserted ==
  \A g \in Gid, x \in Shard :
    latest[g].shards[x].Status \in {"Invalid", "Pulling"} =>
      latest[g].shards[x].KVStore = <<>>

\* A group pulls a shard from another group.
PullsFromOther ==
  \A g \in Gid, x \in Shard :
    latest[g].shards[x].Status = "Pulling" => Owner(latest[g].config - 1, x) # g

\* A shard was written by an owner that came after all before it.
WrittenByOwner ==
  \A x \in Shard : store[x] # <<>> =>
    \E i \in 0 .. (Len(configs) - 1) : \E g \in Gid :
      Owner(i, x) = g /\ latest[g].config >= i /\ Passed(i, x)

\* Another group is to have the shard in configuration num, and does not have it yet.
Awaited(num, x) ==
  LET old == Owner(num - 1, x)
      new == Owner(num, x)
  IN  /\ {old, new} \subseteq Gid /\ old # new
      /\ \/ latest[new].config < num
         \/ latest[new].config = num /\ latest[new].shards[x].Status = "Pulling"

\* Until then the old group stays in that configuration with the shard frozen, nobody asks
\* it to delete the shard, and what was fetched is what was written.
FrozenWhileAwaited ==
  \A x \in Shard : \A n \in 1 .. (Len(configs) - 1) : Awaited(n, x) =>
    \A t \in states[Owner(n - 1, x)] : t.config >= n =>
      t.config = n /\ t.shards[x].Status = "Pushing" /\ t.shards[x].KVStore = store[x]

KeptWhileAwaited ==
  \A x \in Shard : \A n \in 1 .. (Len(configs) - 1) : Awaited(n, x) =>
    \A op \in proposals[Owner(n - 1, x)] :
      ~(op.OpType = "DeleteShard" /\ op.shard = x /\ op.ConfigNum = n)

DeletionsNumbered ==
  \A g \in Gid : \A op \in proposals[g] :
    op.OpType = "DeleteShard" => op.ConfigNum \in 0 .. (Len(configs) - 1)

FetchedIsCurrent ==
  \A x \in Shard : \A n \in 1 .. (Len(configs) - 1) : Awaited(n, x) =>
    \A op \in proposals[Owner(n, x)] :
      op.OpType = "InsertShard" /\ op.shard = x /\ op.ConfigNum = n =>
        op.Data.KVStore = store[x]

Stored ==
  /\ DOMAIN store = Shard
  /\ StatesKnow /\ InsertedStays /\ EmptyUntilInserted /\ PullsFromOther /\ WrittenByOwner
  /\ FrozenWhileAwaited /\ KeptWhileAwaited /\ DeletionsNumbered /\ FetchedIsCurrent
  /\ ServedIsCurrent

\* At the start nothing was written, fetched or proposed.
LEMMA StoredInit ==
  ASSUME ShardConfigAssumption, Init
  PROVE  Stored
<1>1. /\ Len(configs) = 1 /\ DOMAIN store = Shard
      /\ \A x \in Shard : store[x] = <<>>
  BY DEF Init
<1>2. \A g \in Gid : /\ latest[g] = EmptyState /\ states[g] = {EmptyState}
                     /\ proposals[g] = {}
  BY DEF Init
<1>3. \A x \in Shard : EmptyState.shards[x].Status = "Invalid" /\ EmptyState.shards[x].KVStore = <<>>
  BY DEF EmptyState, EmptyShard
<1>4. StatesKnow /\ InsertedStays /\ EmptyUntilInserted /\ ServedIsCurrent
  BY <1>2, <1>3 DEF StatesKnow, InsertedStays, EmptyUntilInserted, ServedIsCurrent, Serves
<1>5. WrittenByOwner
  BY <1>1 DEF WrittenByOwner
<1>6. FrozenWhileAwaited /\ KeptWhileAwaited /\ FetchedIsCurrent
  BY <1>1 DEF FrozenWhileAwaited, KeptWhileAwaited, FetchedIsCurrent
<1>7. PullsFromOther /\ DeletionsNumbered
  BY <1>2, <1>3 DEF PullsFromOther, DeletionsNumbered
<1> QED BY <1>1, <1>4, <1>5, <1>6, <1>7 DEF Stored

(***************************************************************************)
(* What an entry does to the data of a shard.                              *)
(***************************************************************************)
\* An entry that writes to the shard in this state.
WritesTo(s, op, x) == op.OpType \in Writes /\ op.shard = x /\ Executes(s, op)

\* What becomes of the data of a shard, and of its table of duplicates.
DataStep(s, t, op, x) ==
  LET old == s.shards[x]
      new == t.shards[x]
  IN  \/ /\ WritesTo(s, op, x)
         /\ new.KVStore = Written(old.KVStore, op) /\ new.Status = old.Status
         /\ new.ClientSeq = [old.ClientSeq EXCEPT ![op.ClientId] = op.CommandId]
      \/ /\ ~WritesTo(s, op, x)
         /\ op.OpType = "InsertShard" /\ op.shard = x /\ op.ConfigNum = s.config
         /\ old.Status = "Pulling" /\ new.Status = "GCing"
         /\ new.KVStore = IF op.Data.KVStore = <<>> THEN old.KVStore ELSE op.Data.KVStore
         /\ new.ClientSeq = [c \in Clerk |-> Max({old.ClientSeq[c], op.Data.ClientSeq[c]})]
      \/ /\ ~WritesTo(s, op, x)
         /\ op.OpType = "DeleteShard" /\ op.shard = x /\ op.ConfigNum = s.config
         /\ old.Status = "Pushing" /\ new.Status = "Invalid"
         /\ new.KVStore = <<>> /\ new.ClientSeq = NoData.ClientSeq
      \/ /\ ~WritesTo(s, op, x)
         /\ new.KVStore = old.KVStore /\ new.ClientSeq = old.ClientSeq
         /\ \/ op.OpType = "UpdateConfig" /\ t.config # s.config
            \/ new.Status = old.Status
            \/ old.Status = "GCing" /\ new.Status = "Serving"

\* An entry writes to a shard, inserts it, deletes it, or leaves its data alone (server.go:156-315).
LEMMA ApplyData ==
  ASSUME NEW g, NEW s, IsState(s), NEW op, op.OpType \in OpTypes, NEW x \in Shard
  PROVE  DataStep(s, Apply(g, s, op), op, x)
<1> DEFINE t == Apply(g, s, op)
<1>1. CASE op.OpType \in Writes
  <2>1. t = applyClientOperation(s, op)
    BY <1>1 DEF Apply, Writes
  <2>2. CASE WritesTo(s, op, x)
    <3>1. t = [s EXCEPT !.shards[x].KVStore = Written(@, op),
                        !.shards[x].ClientSeq[op.ClientId] = op.CommandId]
      BY <2>1, <2>2 DEF applyClientOperation, WritesTo
    <3>2. /\ t.shards[x].KVStore = Written(s.shards[x].KVStore, op)
          /\ t.shards[x].Status = s.shards[x].Status
          /\ t.shards[x].ClientSeq = [s.shards[x].ClientSeq EXCEPT ![op.ClientId] = op.CommandId]
      BY <3>1 DEF IsState
    <3> QED BY <2>2, <3>2 DEF DataStep
  <2>3. CASE ~WritesTo(s, op, x)
    <3>1. t.shards[x] = s.shards[x]
      <4>1. CASE ~Executes(s, op)
        BY <2>1, <4>1 DEF applyClientOperation
      <4>2. CASE op.shard # x
        BY <2>1, <4>2 DEF applyClientOperation, IsState
      <4> QED BY <1>1, <2>3, <4>1, <4>2 DEF WritesTo
    <3> QED BY <2>3, <3>1 DEF DataStep
  <2> QED BY <2>2, <2>3
<1>2. CASE op.OpType = "UpdateConfig"
  <2>1. t = applyConfiguration(g, s, op) /\ ~WritesTo(s, op, x)
    BY <1>2 DEF Apply, Writes, WritesTo
  <2>2. CASE op.ConfigNum # s.config + 1
    BY <2>1, <2>2 DEF applyConfiguration, DataStep
  <2>3. CASE op.ConfigNum = s.config + 1
    <3>1. /\ t.shards[x].KVStore = s.shards[x].KVStore /\ t.config # s.config
          /\ t.shards[x].ClientSeq = s.shards[x].ClientSeq
      BY <2>1, <2>3 DEF applyConfiguration, IsState
    <3> QED BY <1>2, <2>1, <2>3, <3>1 DEF DataStep
  <2> QED BY <2>2, <2>3
<1>3. CASE op.OpType = "InsertShard"
  <2>1. /\ ~WritesTo(s, op, x)
        /\ t = IF Timely(s, op, "Pulling")
                 THEN [s EXCEPT !.shards[op.shard] = Merged(s.shards[op.shard], op.Data)] ELSE s
    BY <1>3 DEF Apply, Writes, WritesTo, applyInsertShard
  <2>2. CASE op.shard = x /\ Timely(s, op, "Pulling")
    <3>1. t.shards[x] = Merged(s.shards[x], op.Data)
      BY <2>1, <2>2 DEF IsState
    <3> QED BY <1>3, <2>1, <2>2, <3>1 DEF Merged, Timely, DataStep
  <2>3. CASE ~(op.shard = x /\ Timely(s, op, "Pulling"))
    <3>1. t.shards[x] = s.shards[x]
      BY <2>1, <2>3 DEF IsState
    <3> QED BY <2>1, <3>1 DEF DataStep
  <2> QED BY <2>2, <2>3
<1>4. CASE op.OpType = "DeleteShard"
  <2>1. /\ ~WritesTo(s, op, x)
        /\ t = IF Timely(s, op, "Pushing") THEN [s EXCEPT !.shards[op.shard] = EmptyShard] ELSE s
    BY <1>4 DEF Apply, Writes, WritesTo, applyDeleteShard
  <2>2. CASE op.shard = x /\ Timely(s, op, "Pushing")
    <3>1. t.shards[x] = EmptyShard
      BY <2>1, <2>2 DEF IsState
    <3> QED BY <1>4, <2>1, <2>2, <3>1 DEF EmptyShard, Timely, DataStep
  <2>3. CASE ~(op.shard = x /\ Timely(s, op, "Pushing"))
    <3>1. t.shards[x] = s.shards[x]
      BY <2>1, <2>3 DEF IsState
    <3> QED BY <2>1, <3>1 DEF DataStep
  <2> QED BY <2>2, <2>3
<1>5. CASE op.OpType = "GCComplete"
  <2>1. /\ ~WritesTo(s, op, x)
        /\ t = IF Timely(s, op, "GCing") THEN [s EXCEPT !.shards[op.shard].Status = "Serving"] ELSE s
    BY <1>5 DEF Apply, Writes, WritesTo, applyGCComplete
  <2>2. CASE op.shard = x /\ Timely(s, op, "GCing")
    <3>1. /\ t.shards[x].Status = "Serving" /\ t.shards[x].KVStore = s.shards[x].KVStore
          /\ t.shards[x].ClientSeq = s.shards[x].ClientSeq /\ s.shards[x].Status = "GCing"
      BY <2>1, <2>2 DEF IsState, Timely
    <3> QED BY <2>1, <3>1 DEF DataStep
  <2>3. CASE ~(op.shard = x /\ Timely(s, op, "GCing"))
    <3>1. t.shards[x] = s.shards[x]
      BY <2>1, <2>3 DEF IsState
    <3> QED BY <2>1, <3>1 DEF DataStep
  <2> QED BY <2>2, <2>3
<1> QED BY <1>1, <1>2, <1>3, <1>4, <1>5 DEF OpTypes

\* What a commit does to the group, to its shards and to the history of the writes.
LEMMA CommitData ==
  ASSUME InOrder, DOMAIN store = Shard, NEW g \in Gid, NEW op, Commit(g, op)
  PROVE  /\ op \in proposals[g] /\ Commits(g, op) /\ UNCHANGED <<configs, proposals>>
         /\ DOMAIN store' = Shard
         /\ \A x \in Shard :
              store'[x] = IF WritesTo(latest[g], op, x) THEN Written(store[x], op) ELSE store[x]
         /\ \A x \in Shard : DataStep(latest[g], latest'[g], op, x)
<1>1. Commits(g, op) /\ op \in proposals[g] /\ UNCHANGED <<configs, proposals>>
  BY CommitsOp DEF Commits
<1>2. /\ DOMAIN store' = Shard
      /\ \A x \in Shard :
           store'[x] = IF WritesTo(latest[g], op, x) THEN Written(store[x], op) ELSE store[x]
  BY DEF Commit, WritesTo
<1>3. IsState(latest[g]) /\ op.OpType \in OpTypes
  BY <1>1 DEF InOrder, Behind, GivenWhenSettled
<1>4. latest'[g] = Apply(g, latest[g], op)
  BY <1>1 DEF Commits, InOrder, Domains
<1>5. \A x \in Shard : DataStep(latest[g], latest'[g], op, x)
  BY <1>3, <1>4, ApplyData
<1> QED BY <1>1, <1>2, <1>5

(***************************************************************************)
(* Nothing is written while a shard is awaited.                            *)
(***************************************************************************)
\* The old group has frozen the shard, the new one does not have it, and who had it before
\* or is to have it later is not there any more or not yet.
LEMMA NobodyServes ==
  ASSUME InOrder, Handover, NEW x \in Shard, NEW n \in 1 .. (Len(configs) - 1),
         Awaited(n, x), latest[Owner(n - 1, x)].config >= n, NEW k \in Gid
  PROVE  ~Serves(latest[k], x)
<1> DEFINE old == Owner(n - 1, x)
           new == Owner(n, x)
           m == latest[k].config
<1> SUFFICES ASSUME Serves(latest[k], x)
             PROVE  FALSE
  OBVIOUS
<1>1. Owner(m, x) = k /\ Passed(m, x)
  BY DEF Handover, OwnersKnow, ServesAfterAll, Serves
<1>2. /\ old \in Gid /\ new \in Gid /\ old # new
      /\ latest[new].config <= n
      /\ latest[new].config = n => latest[new].shards[x].Status = "Pulling"
  <2>1. n \in Nat /\ \A g \in Gid : latest[g].config \in Nat
    BY DEF InOrder, Numbered, Behind, IsState
  <2> QED BY <2>1 DEF Awaited
<1>3. /\ m \in Nat /\ n \in Nat /\ n # 0
      /\ latest[old].config \in Nat /\ latest[new].config \in Nat
  BY <1>2 DEF InOrder, Numbered, Behind, IsState
<1>4. ~(m > n)
  BY <1>1, <1>2, <1>3 DEF Passed
<1>5. m # n
  BY <1>1, <1>2 DEF Serves
<1>6. m # n - 1
  BY <1>1, <1>3
<1>7. ~(m < n - 1)
  <2>1. Passed(n - 1, x)
    BY <1>2, <1>3 DEF Handover, LeftAfterAll
  <2> QED BY <1>1, <1>3, <2>1 DEF Passed
<1> QED BY <1>3, <1>4, <1>5, <1>6, <1>7

\* Who is to have a shard after a commit was to have it before.
LEMMA AwaitedBefore ==
  ASSUME InOrder, NEW g \in Gid, NEW op, Commits(g, op), NEW x \in Shard,
         NEW n \in 1 .. (Len(configs) - 1), Awaited(n, x)'
  PROVE  Awaited(n, x)
<1>1. UNCHANGED configs
  BY DEF Commits
<1>2. Owner(n, x)' = Owner(n, x) /\ Owner(n - 1, x)' = Owner(n - 1, x)
  BY <1>1 DEF Owner
<1> DEFINE new == Owner(n, x)
<1>3. /\ {Owner(n - 1, x), new} \subseteq Gid /\ Owner(n - 1, x) # new
      /\ \/ latest'[new].config < n
         \/ latest'[new].config = n /\ latest'[new].shards[x].Status = "Pulling"
  BY <1>2 DEF Awaited
<1>4. n \in Nat /\ \A h \in Gid : latest[h].config \in Nat
  BY DEF InOrder, Numbered, Behind, IsState
<1>5. /\ \A h \in Gid \ {g} : latest'[h] = latest[h]
      /\ \/ latest'[g].config = latest[g].config + 1
         \/ /\ latest'[g].config = latest[g].config
            /\ \A y \in Shard : StatusStep(latest[g], latest'[g], op, y)
  BY CommitMoves
<1>6. CASE new = g
  <2>1. CASE latest'[g].config = latest[g].config + 1
    BY <1>3, <1>4, <1>6, <2>1 DEF Awaited
  <2>2. CASE latest'[g].config = latest[g].config /\ StatusStep(latest[g], latest'[g], op, x)
    BY <1>3, <1>4, <1>6, <2>2 DEF Awaited, StatusStep
  <2> QED BY <1>5, <2>1, <2>2
<1>7. CASE new # g
  BY <1>3, <1>5, <1>7 DEF Awaited
<1> QED BY <1>6, <1>7

\* While a shard is awaited and frozen nothing is written to it.
LEMMA StoreStays ==
  ASSUME InOrder, Handover, DOMAIN store = Shard, NEW g \in Gid, NEW op, Commit(g, op),
         NEW x \in Shard, NEW n \in 1 .. (Len(configs) - 1),
         Awaited(n, x), latest[Owner(n - 1, x)].config >= n
  PROVE  store'[x] = store[x]
<1>1. ~Serves(latest[g], x)
  BY NobodyServes
<1>2. ~WritesTo(latest[g], op, x)
  BY <1>1 DEF WritesTo, Executes
<1> QED BY <1>2, CommitData
(***************************************************************************)
(* The parts of the invariant after a commit.                              *)
(***************************************************************************)
\* Commits only move groups on, to configurations there are.
LEMMA ConfigsGrow ==
  ASSUME InOrder, NEW g \in Gid, NEW op, Commits(g, op), NEW h \in Gid
  PROVE  /\ latest[h].config \in Nat /\ latest'[h].config \in Nat
         /\ latest'[h].config >= latest[h].config /\ latest[h].config < Len(configs)
<1>1. latest[h].config \in Nat /\ latest[h].config < Len(configs)
  BY DEF InOrder, Behind, IsState
<1>2. latest[g].config \in Nat
  BY DEF InOrder, Behind, IsState
<1>3. /\ h # g => latest'[h] = latest[h]
      /\ \/ latest'[g].config = latest[g].config + 1
         \/ latest'[g].config = latest[g].config
  BY CommitMoves
<1> QED BY <1>1, <1>2, <1>3

\* A group that has left a configuration has left it for good.
LEMMA PassedStays ==
  ASSUME InOrder, NEW g \in Gid, NEW op, Commits(g, op), NEW x, NEW n \in Nat, Passed(n, x)
  PROVE  Passed(n, x)'
<1>1. \A h \in Gid : /\ latest[h].config \in Nat /\ latest'[h].config \in Nat
                    /\ latest'[h].config >= latest[h].config
  BY ConfigsGrow
<1>2. \A i : Owner(i, x)' = Owner(i, x)
  BY DEF Commits, Owner
<1> QED BY <1>1, <1>2 DEF Passed

\* A commit keeps what servers know of their shards, and what was inserted.
LEMMA CommitKnows ==
  ASSUME InOrder, Handover', StatesKnow, InsertedStays, NEW g \in Gid, NEW op, Commits(g, op)
  PROVE  StatesKnow' /\ InsertedStays'
<1>1. /\ \A h \in Gid \ {g} : latest'[h] = latest[h] /\ states'[h] = states[h]
      /\ states'[g] = states[g] \cup {latest'[g]}
      /\ \/ latest'[g].config = latest[g].config + 1
         \/ /\ latest'[g].config = latest[g].config
            /\ \A x \in Shard : StatusStep(latest[g], latest'[g], op, x)
  BY CommitMoves
<1>2. \A n, x : Owner(n, x)' = Owner(n, x)
  BY DEF Commits, Owner
<1>3. StatesKnow'
  <2> SUFFICES ASSUME NEW h \in Gid, NEW s \in states'[h], NEW x \in Shard,
                      s.shards[x].Status \in {"GCing", "Pulling"}
               PROVE  Owner(s.config, x)' = h
    BY DEF StatesKnow
  <2>1. CASE s \in states[h]
    BY <1>2, <2>1 DEF StatesKnow
  <2>2. CASE h = g /\ s = latest'[g]
    BY <2>2 DEF Handover, OwnersKnow
  <2> QED BY <1>1, <2>1, <2>2
<1>4. InsertedStays'
  <2> SUFFICES ASSUME NEW h \in Gid, NEW s \in states'[h], NEW x \in Shard,
                      s.config = latest'[h].config, s.shards[x].Status = "GCing"
               PROVE  Serves(latest'[h], x)
    BY DEF InsertedStays
  <2>1. CASE h # g
    BY <1>1, <2>1 DEF InsertedStays
  <2>2. CASE s = latest'[h]
    BY <2>2 DEF Serves
  <2>3. CASE h = g /\ s \in states[g]
    <3>1. s.config \in Nat /\ s.config <= latest[g].config /\ latest[g].config \in Nat
      BY <2>3 DEF InOrder, Behind, IsState
    <3>2. latest'[g].config = latest[g].config /\ StatusStep(latest[g], latest'[g], op, x)
      BY <1>1, <2>3, <3>1
    <3>3. Serves(latest[g], x)
      BY <2>3, <3>2 DEF InsertedStays
    <3> QED BY <2>3, <3>2, <3>3 DEF Serves, StatusStep
  <2> QED BY <1>1, <2>1, <2>2, <2>3
<1> QED BY <1>3, <1>4

\* The status and data of a shard after a move to the next configuration.
LEMMA MoveShard ==
  ASSUME ShardConfigAssumption, InOrder, Handover, DOMAIN store = Shard,
         NEW g \in Gid, NEW op, Commit(g, op), NEW x \in Shard,
         latest'[g].config # latest[g].config
  PROVE  /\ op.OpType = "UpdateConfig" /\ latest'[g].config = latest[g].config + 1
         /\ latest[g].config \in Nat /\ latest'[g].config < Len(configs)
         /\ latest[g].shards[x].Status =
              (IF Owner(latest[g].config, x) = g THEN "Serving" ELSE "Invalid")
         /\ latest'[g].shards[x].Status =
              NextStatus(g, latest[g].shards[x].Status,
                Owner(latest[g].config, x), Owner(latest'[g].config, x))
         /\ latest'[g].shards[x].KVStore = latest[g].shards[x].KVStore
         /\ store'[x] = store[x]
<1>1. Commits(g, op)
  BY CommitsOp
<1>2. /\ op.OpType = "UpdateConfig" /\ latest'[g].config = latest[g].config + 1
      /\ ~isReconfiguring(latest[g]) /\ latest'[g].config < Len(configs)
      /\ latest'[g].shards[x].Status =
           NextStatus(g, latest[g].shards[x].Status,
             Owner(latest[g].config, x), Owner(latest'[g].config, x))
      /\ IsState(latest[g])
  BY <1>1, CommitMoves
<1>3. latest[g].shards[x].Status \in {"Serving", "Invalid"}
  BY <1>2 DEF isReconfiguring, IsState, Statuses
<1>4. latest[g].shards[x].Status \in {"Serving", "GCing", "Pulling"}
        <=> Owner(latest[g].config, x) = g
  BY DEF Handover, OwnersKnow
<1>5. /\ DataStep(latest[g], latest'[g], op, x)
      /\ store'[x] = IF WritesTo(latest[g], op, x) THEN Written(store[x], op) ELSE store[x]
  BY CommitData
<1>6. ~WritesTo(latest[g], op, x)
  BY <1>2 DEF WritesTo, Writes
<1>7. latest'[g].shards[x].KVStore = latest[g].shards[x].KVStore
  BY <1>2, <1>5, <1>6 DEF DataStep
<1> QED BY <1>2, <1>3, <1>4, <1>5, <1>6, <1>7 DEF IsState

\* A commit brings data to a shard only by an insertion or a write.
LEMMA CommitEmpty ==
  ASSUME ShardConfigAssumption, InOrder, Handover, DOMAIN store = Shard,
         EmptyUntilInserted, PullsFromOther, NEW g \in Gid, NEW op, Commit(g, op)
  PROVE  EmptyUntilInserted' /\ PullsFromOther'
<1> SUFFICES ASSUME NEW h \in Gid, NEW x \in Shard
             PROVE  /\ latest'[h].shards[x].Status \in {"Invalid", "Pulling"} =>
                         latest'[h].shards[x].KVStore = <<>>
                    /\ latest'[h].shards[x].Status = "Pulling" =>
                         Owner(latest'[h].config - 1, x) # h
  BY CommitData DEF EmptyUntilInserted, PullsFromOther, Owner
<1>1. Commits(g, op)
  BY CommitsOp
<1>2. CASE h # g
  <2>1. latest'[h] = latest[h]
    BY <1>1, <1>2, CommitMoves
  <2> QED BY <2>1 DEF EmptyUntilInserted, PullsFromOther
<1>3. CASE h = g /\ latest'[g].config # latest[g].config
  <2>1. CASE latest'[g].shards[x].Status = "Invalid"
    BY <1>3, <2>1, MoveShard DEF EmptyUntilInserted, NextStatus
  <2>2. CASE latest'[g].shards[x].Status = "Pulling"
    <3>1. Owner(latest[g].config, x) # g
      BY <1>3, <2>2, MoveShard DEF NextStatus
    <3>2. latest'[g].config - 1 = latest[g].config
      BY <1>3, MoveShard
    <3> QED BY <1>3, <3>1, <3>2, MoveShard DEF EmptyUntilInserted
  <2> QED BY <1>3, <2>1, <2>2
<1>4. CASE h = g /\ latest'[g].config = latest[g].config
  <2>1. StatusStep(latest[g], latest'[g], op, x)
    <3>1. latest[g].config \in Nat
      BY DEF InOrder, Behind, IsState
    <3> QED BY <1>1, <1>4, <3>1, CommitMoves
  <2>2. DataStep(latest[g], latest'[g], op, x)
    BY CommitData
  <2>3. latest[g].shards[x].Status \in {"Invalid", "Pulling"} =>
          latest[g].shards[x].KVStore = <<>>
    BY DEF EmptyUntilInserted
  <2>4. latest[g].shards[x].Status = "Pulling" => Owner(latest[g].config - 1, x) # g
    BY DEF PullsFromOther
  <2>5. WritesTo(latest[g], op, x) => latest[g].shards[x].Status \in {"Serving", "GCing"}
    BY DEF WritesTo, Executes, Serves
  <2>6. latest'[g].shards[x].Status \in {"Invalid", "Pulling"} =>
          latest'[g].shards[x].KVStore = <<>>
    BY <1>4, <2>2, <2>3, <2>5 DEF DataStep
  <2> QED BY <1>4, <2>1, <2>4, <2>6 DEF StatusStep
<1> QED BY <1>2, <1>3, <1>4
\* What is written is written by an owner that came after all before it.
LEMMA CommitWritten ==
  ASSUME InOrder, Handover, DOMAIN store = Shard, WrittenByOwner,
         NEW g \in Gid, NEW op, Commit(g, op)
  PROVE  WrittenByOwner'
<1>1. /\ Commits(g, op) /\ UNCHANGED configs
      /\ \A x \in Shard : ~WritesTo(latest[g], op, x) => store'[x] = store[x]
  BY CommitData
<1>2. \A h \in Gid : /\ latest[h].config \in Nat /\ latest'[h].config \in Nat
                    /\ latest'[h].config >= latest[h].config /\ latest[h].config < Len(configs)
  BY <1>1, ConfigsGrow
<1> SUFFICES ASSUME NEW x \in Shard, store'[x] # <<>>
             PROVE  \E i \in 0 .. (Len(configs) - 1) : \E h \in Gid :
                      Owner(i, x)' = h /\ latest'[h].config >= i /\ Passed(i, x)'
  BY <1>1 DEF WrittenByOwner
<1>3. ASSUME NEW i \in 0 .. (Len(configs) - 1), NEW h \in Gid,
             Owner(i, x) = h, latest[h].config >= i, Passed(i, x)
      PROVE  Owner(i, x)' = h /\ latest'[h].config >= i /\ Passed(i, x)'
  <2>1. Owner(i, x)' = h
    BY <1>1, <1>3 DEF Owner
  <2>2. latest'[h].config >= i
    BY <1>2, <1>3
  <2>3. Passed(i, x)'
    BY <1>1, <1>3, PassedStays
  <2> QED BY <2>1, <2>2, <2>3
<1>4. CASE WritesTo(latest[g], op, x)
  <2>1. Serves(latest[g], x)
    BY <1>4 DEF WritesTo, Executes
  <2>2. Owner(latest[g].config, x) = g /\ Passed(latest[g].config, x)
    BY <2>1 DEF Handover, OwnersKnow, ServesAfterAll, Serves
  <2>3. latest[g].config \in 0 .. (Len(configs) - 1)
    BY <1>2 DEF InOrder, Numbered
  <2>4. latest[g].config >= latest[g].config
    BY <1>2
  <2> QED BY <1>3, <2>2, <2>3, <2>4
<1>5. CASE ~WritesTo(latest[g], op, x)
  <2>1. PICK i \in 0 .. (Len(configs) - 1), h \in Gid :
          Owner(i, x) = h /\ latest[h].config >= i /\ Passed(i, x)
    BY <1>1, <1>5 DEF WrittenByOwner
  <2> QED BY <1>3, <2>1
<1> QED BY <1>4, <1>5

\* The old owner freezes the shard with all that was written, and keeps it so.
LEMMA CommitFrozen ==
  ASSUME ShardConfigAssumption, InOrder, Handover, Stored, NEW g \in Gid, NEW op, Commit(g, op)
  PROVE  FrozenWhileAwaited'
<1>1. Commits(g, op) /\ op \in proposals[g] /\ UNCHANGED configs /\ DOMAIN store = Shard
  BY CommitData DEF Stored
<1> SUFFICES ASSUME NEW x \in Shard, NEW n \in 1 .. (Len(configs) - 1), Awaited(n, x)',
                    NEW t \in states'[Owner(n - 1, x)], t.config >= n
             PROVE  /\ t.config = n /\ t.shards[x].Status = "Pushing"
                    /\ t.shards[x].KVStore = store'[x]
  BY <1>1 DEF FrozenWhileAwaited, Owner
<1> DEFINE old == Owner(n - 1, x)
<1>2. Awaited(n, x)
  BY <1>1, AwaitedBefore
<1>3. /\ old \in Gid /\ Owner(n, x) \in Gid /\ Owner(n, x) # old
      /\ n \in Nat /\ n # 0 /\ Len(configs) \in Nat
  BY <1>2 DEF Awaited, InOrder, Numbered
<1>4. \A s \in states[old] : s.config >= n =>
        /\ s.config = n /\ s.shards[x].Status = "Pushing" /\ s.shards[x].KVStore = store[x]
        /\ store'[x] = store[x]
  <2> SUFFICES ASSUME NEW s \in states[old], s.config >= n
               PROVE  /\ s.config = n /\ s.shards[x].Status = "Pushing"
                      /\ s.shards[x].KVStore = store[x] /\ store'[x] = store[x]
    OBVIOUS
  <2>1. latest[old].config >= n
    <3>1. s.config \in Nat /\ s.config <= latest[old].config /\ latest[old].config \in Nat
      BY <1>3 DEF InOrder, Behind, IsState
    <3> QED BY <1>3, <3>1
  <2>2. store'[x] = store[x]
    BY <1>1, <1>2, <2>1, StoreStays
  <2> QED BY <1>2, <2>2 DEF Stored, FrozenWhileAwaited
<1>5. CASE t \in states[old]
  BY <1>4, <1>5
<1>6. CASE old = g /\ t = latest'[g]
  <2>1. latest[g] \in states[g] /\ latest[g].config \in Nat
    BY DEF InOrder, Behind, IsState
  <2>2. CASE latest'[g].config # latest[g].config
    <3>1. /\ latest'[g].config = latest[g].config + 1
          /\ latest[g].shards[x].Status =
               (IF Owner(latest[g].config, x) = g THEN "Serving" ELSE "Invalid")
          /\ latest'[g].shards[x].Status =
               NextStatus(g, latest[g].shards[x].Status,
                 Owner(latest[g].config, x), Owner(latest'[g].config, x))
          /\ latest'[g].shards[x].KVStore = latest[g].shards[x].KVStore
          /\ store'[x] = store[x]
      BY <1>1, <2>2, MoveShard
    <3>2. ~(latest[g].config >= n)
      BY <1>4, <1>6, <2>1, <3>1
    <3>3. latest[g].config = n - 1 /\ latest'[g].config = n
      BY <1>3, <1>6, <2>1, <3>1, <3>2
    <3>4. latest[g].shards[x].Status = "Serving"
      BY <1>6, <3>1, <3>3
    <3>5. latest[g].shards[x].KVStore = store[x]
      BY <3>4 DEF Stored, ServedIsCurrent, Serves
    <3>6. latest'[g].shards[x].Status = "Pushing"
      <4>1. Owner(n, x) # 0
        BY <1>3 DEF ShardConfigAssumption
      <4> QED BY <1>3, <1>6, <3>1, <3>3, <4>1 DEF NextStatus
    <3> QED BY <1>6, <3>1, <3>3, <3>5, <3>6
  <2>3. CASE latest'[g].config = latest[g].config
    <3>1. /\ latest[g].config = n /\ latest[g].shards[x].Status = "Pushing"
          /\ latest[g].shards[x].KVStore = store[x] /\ store'[x] = store[x]
      BY <1>4, <1>6, <2>1, <2>3
    <3>2. DataStep(latest[g], latest'[g], op, x)
      BY <1>1, CommitData
    <3>3. ~WritesTo(latest[g], op, x)
      BY <3>1 DEF WritesTo, Executes, Serves
    <3>4. ~(op.OpType = "DeleteShard" /\ op.shard = x /\ op.ConfigNum = latest[g].config)
      BY <1>1, <1>2, <1>6, <3>1 DEF Stored, KeptWhileAwaited
    <3> QED BY <1>6, <2>3, <3>1, <3>2, <3>3, <3>4 DEF DataStep
  <2> QED BY <2>2, <2>3
<1>7. t \in states[old] \/ (old = g /\ t = latest'[g])
  BY <1>1, <1>3, CommitMoves
<1> QED BY <1>5, <1>6, <1>7

\* What was fetched stays current until it is inserted.
LEMMA CommitFetched ==
  ASSUME InOrder, Handover, Stored, NEW g \in Gid, NEW op, Commit(g, op)
  PROVE  KeptWhileAwaited' /\ DeletionsNumbered' /\ FetchedIsCurrent'
<1>1. Commits(g, op) /\ UNCHANGED <<configs, proposals>> /\ DOMAIN store = Shard
  BY CommitData DEF Stored
<1>2. \A n, x : Owner(n, x)' = Owner(n, x)
  BY <1>1 DEF Owner
<1>3. \A x \in Shard : \A n \in 1 .. (Len(configs) - 1) : Awaited(n, x)' => Awaited(n, x)
  BY <1>1, AwaitedBefore
<1>4. KeptWhileAwaited' /\ DeletionsNumbered'
  BY <1>1, <1>2, <1>3 DEF Stored, KeptWhileAwaited, DeletionsNumbered
<1>5. FetchedIsCurrent'
  <2> SUFFICES ASSUME NEW x \in Shard, NEW n \in 1 .. (Len(configs) - 1), Awaited(n, x),
                      NEW ins \in proposals[Owner(n, x)],
                      ins.OpType = "InsertShard", ins.shard = x, ins.ConfigNum = n
               PROVE  ins.Data.KVStore = store'[x]
    BY <1>1, <1>2, <1>3 DEF FetchedIsCurrent
  <2>1. Owner(n, x) \in Gid /\ n # 0
    BY DEF Awaited, InOrder, Numbered
  <2>2. latest[Owner(n - 1, x)].config >= n
    BY <2>1 DEF Handover, FetchedFrozen
  <2>3. store'[x] = store[x]
    BY <1>1, <2>2, StoreStays
  <2> QED BY <2>3 DEF Stored, FetchedIsCurrent
<1> QED BY <1>4, <1>5

\* A shard without an owner so far has no data.
LEMMA UnownedEmpty ==
  ASSUME ShardConfigAssumption, InOrder, NeverOrphaned, WrittenByOwner,
         NEW g \in Gid, NEW x \in Shard, latest[g].config + 1 < Len(configs),
         Owner(latest[g].config, x) = 0, Owner(latest[g].config + 1, x) = g
  PROVE  store[x] = <<>>
<1> SUFFICES ASSUME store[x] # <<>>
             PROVE  FALSE
  OBVIOUS
<1> DEFINE m == latest[g].config
<1>1. PICK i \in 0 .. (Len(configs) - 1), h \in Gid :
        Owner(i, x) = h /\ latest[h].config >= i /\ Passed(i, x)
  BY DEF WrittenByOwner
<1>2. m \in Nat /\ i \in Nat /\ Len(configs) \in Nat /\ latest[h].config \in Nat
  BY DEF InOrder, Numbered, Behind, IsState
<1>3. ~(i <= m)
  BY <1>1, <1>2 DEF NeverOrphaned
<1>4. i # m + 1
  BY <1>1, <1>2
<1>5. ~(i > m + 1)
  <2>1. i > m + 1 => m + 1 \in 0 .. (i - 1)
    BY <1>2
  <2>2. i > m + 1 => latest[g].config > m + 1
    BY <1>1, <2>1 DEF Passed
  <2> QED BY <1>2, <2>2
<1> QED BY <1>2, <1>3, <1>4, <1>5

\* A group that serves on, inserts, or is the first to serve has what was written.
LEMMA CommitServed ==
  ASSUME ShardConfigAssumption, InOrder, Handover, NeverOrphaned, Stored,
         NEW g \in Gid, NEW op, Commit(g, op)
  PROVE  ServedIsCurrent'
<1>1. /\ Commits(g, op) /\ op \in proposals[g] /\ DOMAIN store = Shard
      /\ \A x \in Shard :
           store'[x] = IF WritesTo(latest[g], op, x) THEN Written(store[x], op) ELSE store[x]
  BY CommitData DEF Stored
<1> SUFFICES ASSUME NEW h \in Gid, NEW x \in Shard, Serves(latest'[h], x)
             PROVE  latest'[h].shards[x].KVStore = store'[x]
  BY DEF ServedIsCurrent, Serves
<1>2. \A k \in Gid : Serves(latest[k], x) => latest[k].shards[x].KVStore = store[x]
  BY DEF Stored, ServedIsCurrent
<1>3. CASE h # g
  <2>1. latest'[h] = latest[h]
    BY <1>1, <1>3, CommitMoves
  <2>2. ~Serves(latest[g], x)
    BY <1>3, <2>1, OwnersApart DEF AnOwnerAtATime
  <2>3. ~WritesTo(latest[g], op, x)
    BY <2>2 DEF WritesTo, Executes
  <2> QED BY <1>1, <1>2, <2>1, <2>3
<1>4. CASE h = g /\ latest'[g].config # latest[g].config
  <2> DEFINE s == latest[g]
             t == latest'[g]
  <2>1. /\ t.config = s.config + 1 /\ t.config < Len(configs) /\ s.config \in Nat
        /\ s.shards[x].Status = (IF Owner(s.config, x) = g THEN "Serving" ELSE "Invalid")
        /\ t.shards[x].Status =
             NextStatus(g, s.shards[x].Status, Owner(s.config, x), Owner(t.config, x))
        /\ t.shards[x].KVStore = s.shards[x].KVStore /\ store'[x] = store[x]
    BY <1>1, <1>4, MoveShard
  <2>2. t.shards[x].Status \in {"Serving", "GCing"}
    BY <1>4 DEF Serves
  <2>3. CASE s.shards[x].Status = "Serving"
    BY <1>2, <1>4, <2>1, <2>3 DEF Serves
  <2>4. CASE s.shards[x].Status = "Invalid"
    <3>1. Owner(s.config, x) = 0 /\ Owner(s.config + 1, x) = g
      <4> HIDE DEF s, t
      <4> QED BY <2>1, <2>2, <2>4 DEF NextStatus
    <3>2. store[x] = <<>>
      BY <2>1, <3>1, UnownedEmpty DEF Stored
    <3>3. s.shards[x].KVStore = <<>>
      BY <2>4 DEF Stored, EmptyUntilInserted
    <3> QED BY <1>4, <2>1, <3>2, <3>3
  <2> QED BY <2>1, <2>3, <2>4
<1>5. CASE h = g /\ latest'[g].config = latest[g].config
  <2> DEFINE s == latest[g]
             t == latest'[g]
             n == s.config
  <2>1. DataStep(s, t, op, x)
    BY <1>1, CommitData
  <2>2. CASE WritesTo(s, op, x)
    <3>1. Serves(s, x)
      BY <2>2 DEF WritesTo, Executes
    <3>2. t.shards[x].KVStore = Written(s.shards[x].KVStore, op)
      BY <2>1, <2>2 DEF DataStep
    <3> QED BY <1>1, <1>2, <1>5, <2>2, <3>1, <3>2
  <2>3. CASE /\ op.OpType = "InsertShard" /\ op.shard = x /\ op.ConfigNum = n
             /\ s.shards[x].Status = "Pulling" /\ ~WritesTo(s, op, x)
             /\ t.shards[x].KVStore =
                  IF op.Data.KVStore = <<>> THEN s.shards[x].KVStore ELSE op.Data.KVStore
    <3>1. Owner(n, x) = g /\ n \in Nat /\ n < Len(configs) /\ Len(configs) \in Nat
      BY <2>3 DEF Handover, OwnersKnow, InOrder, Behind, IsState, Numbered
    <3>2. n # 0
      <4>1. Owner(0, x) = 0
        BY DEF InOrder, Numbered, Owner, NoConfig
      <4> QED BY <3>1, <4>1 DEF ShardConfigAssumption
    <3>3. Owner(n - 1, x) \in Gid
      BY <1>1, <2>3, <3>2 DEF Handover, FetchedFrozen
    <3>4. Owner(n - 1, x) # g
      BY <2>3 DEF Stored, PullsFromOther
    <3>5. Awaited(n, x)
      BY <2>3, <3>1, <3>3, <3>4 DEF Awaited
    <3>6. n \in 1 .. (Len(configs) - 1)
      BY <3>1, <3>2
    <3>7. op.Data.KVStore = store[x]
      BY <1>1, <2>3, <3>1, <3>5, <3>6 DEF Stored, FetchedIsCurrent
    <3>8. s.shards[x].KVStore = <<>>
      BY <2>3 DEF Stored, EmptyUntilInserted
    <3> QED BY <1>1, <1>5, <2>3, <3>7, <3>8
  <2>4. CASE /\ ~WritesTo(s, op, x) /\ t.shards[x].KVStore = s.shards[x].KVStore
             /\ \/ t.shards[x].Status = s.shards[x].Status
                \/ s.shards[x].Status = "GCing"
    <3>1. Serves(s, x)
      BY <1>5, <2>4 DEF Serves
    <3> QED BY <1>1, <1>2, <1>5, <2>4, <3>1
  <2>5. t.shards[x].Status \in {"Serving", "GCing"}
    BY <1>5 DEF Serves
  <2> QED BY <1>5, <2>1, <2>2, <2>3, <2>4, <2>5 DEF DataStep
<1> QED BY <1>3, <1>4, <1>5
(***************************************************************************)
(* The invariant, step by step.                                            *)
(***************************************************************************)
\* A commit of an entry keeps the invariant.
LEMMA CommitStores ==
  ASSUME ShardConfigAssumption, InOrder, Handover, NeverOrphaned, Stored,
         NEW g \in Gid, NEW op, Commit(g, op)
  PROVE  Stored'
<1>1. Commits(g, op) /\ DOMAIN store' = Shard
  BY CommitData DEF Stored
<1>2. Handover'
  BY <1>1, CommitHandsOver
<1>3. StatesKnow' /\ InsertedStays'
  BY <1>1, <1>2, CommitKnows DEF Stored
<1>4. EmptyUntilInserted' /\ PullsFromOther' /\ WrittenByOwner'
  BY CommitEmpty, CommitWritten DEF Stored
<1>5. FrozenWhileAwaited' /\ KeptWhileAwaited' /\ DeletionsNumbered' /\ FetchedIsCurrent'
  BY CommitFrozen, CommitFetched
<1>6. ServedIsCurrent'
  BY CommitServed
<1> QED BY <1>1, <1>3, <1>4, <1>5, <1>6 DEF Stored

\* A new configuration: nobody is in it, and nothing was proposed for it.
LEMMA ReconfigureStores ==
  ASSUME InOrder, Handover, Stored, Reconfigure
  PROVE  Stored'
<1>1. /\ Len(configs') = Len(configs) + 1 /\ Len(configs) \in Nat \ {0}
      /\ \A n \in 1 .. Len(configs) : configs'[n] = configs[n]
  BY ReconfigureStep DEF InOrder, Numbered
<1>2. UNCHANGED <<latest, states, proposals, store>>
  BY DEF Reconfigure, groupVars
<1>3. \A x, n : n \in 0 .. (Len(configs) - 1) => Owner(n, x)' = Owner(n, x)
  BY <1>1 DEF Owner
<1>4. \A g \in Gid :
        /\ latest[g].config \in 0 .. (Len(configs) - 1)
        /\ \A s \in states[g] : /\ s.config \in 0 .. (Len(configs) - 1)
                                /\ s.config <= latest[g].config
  BY <1>1 DEF InOrder, Behind, IsState
<1>5. StatesKnow'
  BY <1>2, <1>3, <1>4 DEF Stored, StatesKnow
<1>6. InsertedStays' /\ EmptyUntilInserted' /\ ServedIsCurrent'
  BY <1>2 DEF Stored, InsertedStays, EmptyUntilInserted, ServedIsCurrent, Serves
<1>7. PullsFromOther'
  <2> SUFFICES ASSUME NEW g \in Gid, NEW x \in Shard, latest[g].shards[x].Status = "Pulling"
               PROVE  Owner(latest[g].config - 1, x)' # g
    BY <1>2 DEF PullsFromOther
  <2>1. Owner(latest[g].config, x) = g
    BY DEF Handover, OwnersKnow
  <2>2. latest[g].config # 0
    <3>1. Owner(0, x) = 0 /\ 0 \notin Gid
      BY ShardConfigAssumption DEF InOrder, Numbered, Owner, NoConfig, ShardConfigAssumption
    <3> QED BY <2>1, <3>1
  <2>3. PICK m \in 0 .. (Len(configs) - 1) : m = latest[g].config - 1
    BY <1>1, <1>4, <2>2
  <2>4. Owner(m, x)' = Owner(m, x)
    BY <1>3
  <2> QED BY <1>2, <2>3, <2>4 DEF Stored, PullsFromOther
<1>8. WrittenByOwner'
  <2> SUFFICES ASSUME NEW x \in Shard, store[x] # <<>>
               PROVE  \E i \in 0 .. Len(configs) : \E g \in Gid :
                        Owner(i, x)' = g /\ latest[g].config >= i /\ Passed(i, x)'
    BY <1>1, <1>2 DEF WrittenByOwner
  <2>1. PICK i \in 0 .. (Len(configs) - 1), g \in Gid :
          Owner(i, x) = g /\ latest[g].config >= i /\ Passed(i, x)
    BY DEF Stored, WrittenByOwner
  <2>2. Owner(i, x)' = g /\ Passed(i, x)'
    BY <1>1, <1>2, <1>3, <2>1 DEF Passed
  <2> QED BY <1>1, <2>1, <2>2
<1>9. DeletionsNumbered'
  <2> SUFFICES ASSUME NEW g \in Gid, NEW op \in proposals[g], op.OpType = "DeleteShard"
               PROVE  op.ConfigNum \in 0 .. Len(configs)
    BY <1>1, <1>2 DEF DeletionsNumbered
  <2> QED BY <1>1 DEF Stored, DeletionsNumbered
<1>10. ASSUME NEW x \in Shard, NEW n \in 1 .. Len(configs), Awaited(n, x)'
       PROVE  /\ Owner(n - 1, x)' = Owner(n - 1, x)
              /\ \/ /\ n \in 1 .. (Len(configs) - 1) /\ Awaited(n, x)
                    /\ Owner(n, x)' = Owner(n, x)
                 \/ n = Len(configs)
  <2>1. Owner(n - 1, x)' = Owner(n - 1, x)
    <3>1. n - 1 \in 0 .. (Len(configs) - 1)
      BY <1>1
    <3> QED BY <1>3, <3>1
  <2>2. CASE n \in 1 .. (Len(configs) - 1)
    <3>1. n \in 0 .. (Len(configs) - 1)
      BY <1>1, <2>2
    <3>2. Owner(n, x)' = Owner(n, x)
      BY <1>3, <3>1
    <3> QED BY <1>2, <1>10, <2>1, <2>2, <3>2 DEF Awaited
  <2> QED BY <1>1, <2>1, <2>2
<1>11. ASSUME NEW x \in Shard, Owner(Len(configs) - 1, x) \in Gid
       PROVE  /\ \A t \in states[Owner(Len(configs) - 1, x)] : ~(t.config >= Len(configs))
              /\ ~(latest[Owner(Len(configs) - 1, x)].config >= Len(configs))
  BY <1>1, <1>4, <1>11
<1>12. FrozenWhileAwaited'
  <2> SUFFICES ASSUME NEW x \in Shard, NEW n \in 1 .. Len(configs), Awaited(n, x)',
                      NEW t \in states[Owner(n - 1, x)], t.config >= n
               PROVE  /\ t.config = n /\ t.shards[x].Status = "Pushing"
                      /\ t.shards[x].KVStore = store[x]
    BY <1>1, <1>2, <1>10 DEF FrozenWhileAwaited
  <2>1. Owner(n - 1, x) \in Gid
    BY <1>10 DEF Awaited
  <2>2. n # Len(configs)
    BY <1>11, <2>1
  <2> QED BY <1>10, <2>2 DEF Stored, FrozenWhileAwaited
<1>13. KeptWhileAwaited'
  <2> SUFFICES ASSUME NEW x \in Shard, NEW n \in 1 .. Len(configs), Awaited(n, x)',
                      NEW op \in proposals[Owner(n - 1, x)],
                      op.OpType = "DeleteShard", op.shard = x, op.ConfigNum = n
               PROVE  FALSE
    BY <1>1, <1>2, <1>10 DEF KeptWhileAwaited
  <2>1. Owner(n - 1, x) \in Gid
    BY <1>10 DEF Awaited
  <2>2. n # Len(configs)
    BY <1>1, <2>1 DEF Stored, DeletionsNumbered
  <2> QED BY <1>10, <2>2 DEF Stored, KeptWhileAwaited
<1>14. FetchedIsCurrent'
  <2> SUFFICES ASSUME NEW x \in Shard, NEW n \in 1 .. Len(configs), Awaited(n, x)',
                      NEW op \in proposals[Owner(n, x)'],
                      op.OpType = "InsertShard", op.shard = x, op.ConfigNum = n
               PROVE  op.Data.KVStore = store[x]
    BY <1>1, <1>2 DEF FetchedIsCurrent
  <2>1. Owner(n, x)' \in Gid /\ Owner(n - 1, x) \in Gid /\ n # 0
    BY <1>1, <1>10 DEF Awaited
  <2>2. latest[Owner(n - 1, x)].config >= n
    BY <2>1 DEF Handover, FetchedFrozen
  <2>3. n # Len(configs)
    BY <1>11, <2>1, <2>2
  <2> QED BY <1>10, <2>3 DEF Stored, FetchedIsCurrent
<1>15. DOMAIN store' = Shard
  BY <1>2 DEF Stored
<1> QED BY <1>5, <1>6, <1>7, <1>8, <1>9, <1>12, <1>13, <1>14, <1>15 DEF Stored

\* Where the groups, the configurations and the writes stay, it is about what is proposed.
LEMMA ProposalStores ==
  ASSUME Stored, UNCHANGED <<configs, latest, states, store>>,
         KeptWhileAwaited', DeletionsNumbered', FetchedIsCurrent'
  PROVE  Stored'
<1>1. \A n, x : Owner(n, x)' = Owner(n, x) /\ Passed(n, x)' = Passed(n, x)
  BY DEF Owner, Passed
<1>2. StatesKnow' /\ InsertedStays' /\ EmptyUntilInserted' /\ PullsFromOther' /\ ServedIsCurrent'
  BY <1>1 DEF Stored, StatesKnow, InsertedStays, EmptyUntilInserted, PullsFromOther,
              ServedIsCurrent, Serves
<1>3. WrittenByOwner'
  BY <1>1 DEF Stored, WrittenByOwner
<1>4. FrozenWhileAwaited'
  BY <1>1 DEF Stored, FrozenWhileAwaited, Awaited
<1> QED BY <1>2, <1>3, <1>4 DEF Stored

\* A group fetches a shard from servers that may be behind, and gets what was written.
LEMMA MigrationStores ==
  ASSUME InOrder, Stored, NEW g \in Gid, NEW x \in Shard, MigrationTick(g, x)
  PROVE  Stored'
<1>1. UNCHANGED <<configs, latest, states, store>>
  BY DEF MigrationTick, masterVars
<1>2. PICK s, old, t :
        /\ s \in states[g] /\ old \in OldOwners(s.config, x) /\ t \in states[old]
        /\ Ready(t, s.config)
        /\ Propose(g, [OpType |-> "InsertShard", shard |-> x, ConfigNum |-> s.config,
                       Data |-> DataOf(t, x)])
  BY DEF MigrationTick
<1> DEFINE ins == [OpType |-> "InsertShard", shard |-> x, ConfigNum |-> s.config,
                   Data |-> DataOf(t, x)]
<1>3. /\ \A h \in Gid : proposals'[h] \subseteq proposals[h] \cup {ins}
      /\ ins.OpType = "InsertShard" /\ ins.shard = x /\ ins.ConfigNum = s.config
      /\ ins.Data.KVStore = t.shards[x].KVStore
      /\ old = Owner(s.config - 1, x) /\ t.config >= s.config
  BY <1>2 DEF Propose, InOrder, Domains, DataOf, OldOwners, Ready
<1> HIDE DEF ins
<1>4. \A n, y : Owner(n, y)' = Owner(n, y) /\ Awaited(n, y)' = Awaited(n, y)
  BY <1>1 DEF Owner, Awaited
<1>5. KeptWhileAwaited' /\ DeletionsNumbered'
  BY <1>1, <1>3, <1>4 DEF Stored, KeptWhileAwaited, DeletionsNumbered, Awaited
<1>6. FetchedIsCurrent'
  <2> SUFFICES ASSUME NEW y \in Shard, NEW n \in 1 .. (Len(configs) - 1), Awaited(n, y),
                      NEW op \in proposals'[Owner(n, y)],
                      op.OpType = "InsertShard", op.shard = y, op.ConfigNum = n
               PROVE  op.Data.KVStore = store[y]
    BY <1>1, <1>4 DEF FetchedIsCurrent
  <2>1. Owner(n, y) \in Gid
    BY DEF Awaited
  <2>2. CASE op \in proposals[Owner(n, y)]
    BY <2>2 DEF Stored, FetchedIsCurrent
  <2>3. CASE op = ins
    <3>1. y = x /\ n = s.config
      BY <1>3, <2>3
    <3>2. t.shards[x].KVStore = store[x]
      BY <1>2, <1>3, <3>1 DEF Stored, FrozenWhileAwaited
    <3> QED BY <1>3, <2>3, <3>1, <3>2
  <2> QED BY <1>3, <2>1, <2>2, <2>3
<1> QED BY <1>1, <1>5, <1>6, ProposalStores

\* Who asks for a deletion has the shard.
LEMMA GCTickStores ==
  ASSUME InOrder, Stored, NEW g \in Gid, NEW x \in Shard, GCTick(g, x)
  PROVE  Stored'
<1>1. UNCHANGED <<configs, latest, states, store>>
  BY DEF GCTick, masterVars
<1>2. PICK s, old :
        /\ s \in states[g]
        /\ s.shards[x].Status = "GCing" /\ Propose(old, Deletion(x, s.config))
  BY DEF GCTick
<1> DEFINE del == Deletion(x, s.config)
<1>3. /\ \A h \in Gid : proposals'[h] \subseteq proposals[h] \cup {del}
      /\ del.OpType = "DeleteShard" /\ del.shard = x /\ del.ConfigNum = s.config
  BY <1>2 DEF Propose, InOrder, Domains, Deletion
<1> HIDE DEF del
<1>4. \A n, y : Owner(n, y)' = Owner(n, y) /\ Awaited(n, y)' = Awaited(n, y)
  BY <1>1 DEF Owner, Awaited
<1>5. /\ s.config \in Nat /\ latest[g].config \in Nat /\ Len(configs) \in Nat
      /\ s.config <= latest[g].config /\ latest[g].config < Len(configs)
  BY <1>2 DEF InOrder, Numbered, Behind, IsState
<1>6. DeletionsNumbered'
  BY <1>1, <1>3, <1>5 DEF Stored, DeletionsNumbered
<1>7. FetchedIsCurrent'
  BY <1>1, <1>3, <1>4 DEF Stored, FetchedIsCurrent, Awaited
<1>8. KeptWhileAwaited'
  <2> SUFFICES ASSUME NEW y \in Shard, NEW n \in 1 .. (Len(configs) - 1), Awaited(n, y),
                      NEW op \in proposals'[Owner(n - 1, y)],
                      op.OpType = "DeleteShard", op.shard = y, op.ConfigNum = n
               PROVE  FALSE
    BY <1>1, <1>4 DEF KeptWhileAwaited
  <2>1. Owner(n - 1, y) \in Gid
    BY DEF Awaited
  <2>2. op \notin proposals[Owner(n - 1, y)]
    BY DEF Stored, KeptWhileAwaited
  <2>3. op = del /\ y = x /\ n = s.config
    BY <1>3, <2>1, <2>2
  <2>4. Owner(n, x) = g
    BY <1>2, <2>3 DEF Stored, StatesKnow
  <2>5. s.config = latest[g].config => Serves(latest[g], x)
    BY <1>2 DEF Stored, InsertedStays
  <2> QED BY <1>5, <2>3, <2>4, <2>5 DEF Awaited, Serves
<1> QED BY <1>1, <1>6, <1>7, <1>8, ProposalStores

\* Nothing is proposed but what neither inserts nor deletes a shard.
LEMMA OtherStores ==
  ASSUME Stored, UNCHANGED <<configs, latest, states, store>>,
         \A g \in Gid : \A op \in proposals'[g] :
           op \in proposals[g] \/ op.OpType \notin {"InsertShard", "DeleteShard"}
  PROVE  Stored'
<1>1. \A n, y : Owner(n, y)' = Owner(n, y) /\ Awaited(n, y)' = Awaited(n, y)
  BY DEF Owner, Awaited
<1>2. KeptWhileAwaited' /\ DeletionsNumbered' /\ FetchedIsCurrent'
  BY <1>1 DEF Stored, KeptWhileAwaited, DeletionsNumbered, FetchedIsCurrent, Awaited
<1> QED BY <1>2, ProposalStores
\* Every step keeps the invariant.
LEMMA StoredStep ==
  ASSUME ShardConfigAssumption, InOrder, Handover, NeverOrphaned, Stored, [Next]_vars
  PROVE  Stored'
<1>1. CASE Reconfigure
  BY <1>1, ReconfigureStores
<1>2. CASE \E g \in Gid : \E op \in proposals[g] : Commit(g, op)
  BY <1>2, CommitStores
<1>3. CASE \E g \in Gid, x \in Shard : MigrationTick(g, x) \/ GCTick(g, x)
  BY <1>3, MigrationStores, GCTickStores
<1>4. CASE \E g \in Gid : ConfigTick(g)
  <2>1. /\ UNCHANGED <<configs, latest, states, store>>
        /\ \A g \in Gid : \A op \in proposals'[g] :
             op \in proposals[g] \/ op.OpType \notin {"InsertShard", "DeleteShard"}
    BY <1>4 DEF ConfigTick, Propose, InOrder, Domains, masterVars
  <2> QED BY <2>1, OtherStores
<1>5. CASE \E g \in Gid, x \in Shard : GCAcknowledged(g, x)
  <2>1. /\ UNCHANGED <<configs, latest, states, store>>
        /\ \A g \in Gid : \A op \in proposals'[g] :
             op \in proposals[g] \/ op.OpType \notin {"InsertShard", "DeleteShard"}
    BY <1>5 DEF GCAcknowledged, Propose, InOrder, Domains, masterVars
  <2> QED BY <2>1, OtherStores
<1>6. CASE \E g \in Gid : \E op \in requests[g] : Accept(g, op)
  <2>1. PICK g \in Gid : \E op \in requests[g] : Accept(g, op)
    BY <1>6
  <2>2. PICK op \in requests[g] : Accept(g, op)
    BY <2>1
  <2>3. op.OpType \notin {"InsertShard", "DeleteShard"}
    BY DEF InOrder, GivenWhenSettled, Writes
  <2>4. /\ UNCHANGED <<configs, latest, states, store>>
        /\ \A h \in Gid : proposals'[h] \subseteq proposals[h] \cup {op}
    BY <2>2 DEF Accept, Propose, InOrder, Domains, masterVars
  <2> QED BY <2>3, <2>4, OtherStores
<1>7. CASE \E c \in Clerk : ClerkStep(c)
  <2>1. UNCHANGED <<configs, latest, states, proposals, store>>
    BY <1>7 DEF ClerkStep, Invoke, CallGroup, CallFails, LearnConfig, TakeReply, CommitGet,
                ExitCheck, masterVars, groupVars
  <2> QED BY <2>1, OtherStores
<1>8. CASE UNCHANGED vars
  <2>1. UNCHANGED <<configs, latest, states, proposals, store>>
    BY <1>8 DEF vars, masterVars, groupVars
  <2> QED BY <2>1, OtherStores
<1> QED BY <1>1, <1>2, <1>3, <1>4, <1>5, <1>6, <1>7, <1>8 DEF Next, GroupStep, Ticks

\* Data is fetched from servers that may be behind, inserted and deleted late and more than
\* once, and the shard comes and goes; yet who serves it has every write to it, in order and
\* none twice (server.go:228-337, 757-845), unless all groups leave.
THEOREM NothingServedIsStale == Spec /\ []NeverOrphaned => []ServedIsCurrent
<1>1. Init => Handover /\ Stored
  BY HandoverInit, StoredInit, ShardConfigAssumption
<1>2. InOrder /\ NeverOrphaned /\ Handover /\ Stored /\ [Next]_vars => Handover' /\ Stored'
  BY HandoverStep, StoredStep, ShardConfigAssumption
<1>3. Stored => ServedIsCurrent
  BY DEF Stored
<1> QED BY <1>1, <1>2, <1>3, AlwaysInOrder, PTL DEF Spec

(***************************************************************************)
(* Somebody has the data.                                                  *)
(***************************************************************************)
\* The shardmaster gives a shard to groups there are, or to none.
LEMMA OwnersAreGroups ==
  ASSUME InOrder, NEW x \in Shard, NEW i \in 0 .. (Len(configs) - 1)
  PROVE  Owner(i, x) \in Gid \cup {0}
<1>1. i + 1 \in 1 .. Len(configs) /\ IsConfig(configs[i + 1])
  BY DEF InOrder, Numbered
<1> QED BY <1>1 DEF IsConfig, Owner

\* A shard that has been written is served, or frozen at its owner for the next.
Held ==
  \A x \in Shard : store[x] # <<>> =>
    \/ \E g \in Gid : Serves(latest[g], x)
    \/ \E n \in 1 .. (Len(configs) - 1) :
         Awaited(n, x) /\ latest[Owner(n - 1, x)].config >= n

\* The owner serves on, or freezes the shard for the next one.
LEMMA ServedHeld ==
  ASSUME ShardConfigAssumption, InOrder, Handover, NeverOrphaned, Stored,
         NEW g \in Gid, NEW op, Commit(g, op), NEW x \in Shard,
         NEW h \in Gid, Serves(latest[h], x)
  PROVE  \/ \E k \in Gid : Serves(latest'[k], x)
         \/ \E n \in 1 .. (Len(configs) - 1) :
              Awaited(n, x)' /\ latest'[Owner(n - 1, x)].config >= n
<1>1. Commits(g, op) /\ UNCHANGED configs /\ DOMAIN store = Shard
  BY CommitData DEF Stored
<1>2. CASE h # g
  <2>1. latest'[h] = latest[h]
    BY <1>1, <1>2, CommitMoves
  <2> QED BY <2>1
<1>3. CASE h = g /\ latest'[g].config = latest[g].config
  <2>1. StatusStep(latest[g], latest'[g], op, x)
    <3>1. latest[g].config \in Nat
      BY DEF InOrder, Behind, IsState
    <3> QED BY <1>1, <1>3, <3>1, CommitMoves
  <2> QED BY <1>3, <2>1 DEF Serves, StatusStep
<1>4. CASE h = g /\ latest'[g].config # latest[g].config
  <2>0. /\ latest'[g].config = latest[g].config + 1
        /\ latest[g].config \in Nat /\ latest'[g].config < Len(configs)
        /\ latest[g].shards[x].Status =
             (IF Owner(latest[g].config, x) = g THEN "Serving" ELSE "Invalid")
        /\ latest'[g].shards[x].Status =
             NextStatus(g, latest[g].shards[x].Status,
               Owner(latest[g].config, x), Owner(latest'[g].config, x))
    <3>1. latest'[g].config # latest[g].config
      BY <1>4
    <3> QED BY <1>1, <3>1, MoveShard
  <2> DEFINE m == latest[g].config
             new == Owner(m + 1, x)
  <2>1. /\ latest'[g].config = m + 1 /\ m \in Nat /\ m + 1 < Len(configs)
        /\ latest[g].shards[x].Status = (IF Owner(m, x) = g THEN "Serving" ELSE "Invalid")
        /\ latest'[g].shards[x].Status = NextStatus(g, latest[g].shards[x].Status, Owner(m, x), new)
    BY <2>0
  <2>2. Owner(m, x) = g /\ latest[g].shards[x].Status = "Serving"
    BY <1>4, <2>1 DEF Serves
  <2>3. CASE new = g
    BY <2>1, <2>2, <2>3 DEF NextStatus, Serves
  <2>4. CASE new # g
    <3>1. Len(configs) \in Nat
      BY DEF InOrder, Numbered
    <3>2. new \in Gid
      <4>1. new # 0
        BY <2>1, <2>2, <3>1 DEF NeverOrphaned
      <4>2. m + 1 \in 0 .. (Len(configs) - 1)
        BY <2>1, <3>1
      <4> QED BY <4>1, <4>2, OwnersAreGroups
    <3>3. /\ latest[g].config = m /\ latest[new].config \in Nat
          /\ \A i \in 0 .. (latest[new].config - 1) : Owner(i, x) = new => Passed(i, x)
          /\ Serves(latest[new], x) => Passed(latest[new].config, x)
          /\ latest[new].shards[x].Status \in {"Serving", "GCing", "Pulling"}
               <=> Owner(latest[new].config, x) = new
      BY <3>2 DEF Handover, OwnersKnow, LeftAfterAll, ServesAfterAll, InOrder, Behind, IsState
    <3>4. \A i \in Nat : i > m => ~Passed(i, x)
      BY <2>1, <2>2, <3>3 DEF Passed
    <3>5. ~(latest[new].config > m + 1)
      BY <2>1, <3>3, <3>4
    <3>6. latest[new].config = m + 1 => latest[new].shards[x].Status = "Pulling"
      BY <2>1, <3>3, <3>4 DEF Serves
    <3>7. latest'[new] = latest[new]
      BY <1>1, <2>4, <3>2, CommitMoves
    <3>8. PICK n \in 1 .. (Len(configs) - 1) : n = m + 1
      BY <2>1, <3>1
    <3>9. /\ n - 1 = m /\ Owner(n, x)' = new /\ Owner(n - 1, x)' = g
          /\ Owner(n - 1, x) = g
      <4>1. n - 1 = m /\ Owner(n, x) = new /\ Owner(n - 1, x) = g
        BY <2>1, <2>2, <3>8
      <4>2. \A i : Owner(i, x)' = Owner(i, x)
        BY <1>1 DEF Owner
      <4> HIDE DEF new, m
      <4> QED BY <4>1, <4>2
    <3>10. latest[new].config < n \/ latest[new].config = n
      BY <2>1, <3>3, <3>5, <3>8
    <3>11. Awaited(n, x)'
      <4> HIDE DEF new, m
      <4> QED BY <2>4, <3>2, <3>6, <3>7, <3>8, <3>9, <3>10 DEF Awaited
    <3>12. latest'[Owner(n - 1, x)].config >= n
      BY <2>1, <3>8, <3>9
    <3> QED BY <3>11, <3>12
  <2> QED BY <2>3, <2>4
<1> QED BY <1>2, <1>3, <1>4
\* The next owner inserts what is frozen, or does not have it yet.
LEMMA AwaitedHeld ==
  ASSUME ShardConfigAssumption, InOrder, Handover, DOMAIN store = Shard,
         NEW g \in Gid, NEW op, Commit(g, op), NEW x \in Shard,
         NEW n \in 1 .. (Len(configs) - 1), Awaited(n, x), latest[Owner(n - 1, x)].config >= n
  PROVE  \/ \E k \in Gid : Serves(latest'[k], x)
         \/ Awaited(n, x)' /\ latest'[Owner(n - 1, x)].config >= n
<1> DEFINE old == Owner(n - 1, x)
           new == Owner(n, x)
<1>1. Commits(g, op) /\ UNCHANGED configs
  BY CommitData
<1>2. /\ old \in Gid /\ new \in Gid /\ old # new
      /\ \/ latest[new].config < n
         \/ latest[new].config = n /\ latest[new].shards[x].Status = "Pulling"
  BY DEF Awaited
<1>3. latest'[old].config >= n
  <2>1. /\ latest[old].config \in Nat /\ latest'[old].config \in Nat
        /\ latest'[old].config >= latest[old].config
    BY <1>1, <1>2, ConfigsGrow
  <2> QED BY <2>1
<1>4. Owner(n, x)' = new /\ Owner(n - 1, x)' = old
  BY <1>1 DEF Owner
<1>5. CASE new # g
  <2>1. latest'[new] = latest[new]
    BY <1>1, <1>2, <1>5, CommitMoves
  <2>2. Awaited(n, x)'
    BY <1>2, <1>4, <2>1 DEF Awaited
  <2> QED BY <1>3, <2>2
<1>6. CASE new = g /\ latest'[g].config # latest[g].config
  <2>1. /\ latest'[g].config = latest[g].config + 1 /\ latest[g].config \in Nat
        /\ latest[g].shards[x].Status \in {"Serving", "Invalid"}
        /\ latest'[g].shards[x].Status =
             NextStatus(g, latest[g].shards[x].Status,
               Owner(latest[g].config, x), Owner(latest'[g].config, x))
    BY <1>6, MoveShard
  <2>2. n \in Nat /\ n # 0 /\ latest[g].config < n
    BY <1>2, <1>6, <2>1 DEF InOrder, Numbered
  <2>3. latest'[g].config = n => latest'[g].shards[x].Status = "Pulling"
    <3>1. CASE latest'[g].config = n
      <4>1. latest[g].config = n - 1
        BY <2>1, <2>2, <3>1
      <4>2. old # g /\ old # 0
        BY <1>2, <1>6 DEF ShardConfigAssumption
      <4> QED BY <1>6, <2>1, <3>1, <4>1, <4>2 DEF NextStatus
    <3> QED BY <3>1
  <2>4. latest'[g].config < n \/ latest'[g].config = n
    BY <2>1, <2>2
  <2>5. Awaited(n, x)'
    BY <1>2, <1>4, <1>6, <2>3, <2>4 DEF Awaited
  <2> QED BY <1>3, <2>5
<1>7. CASE new = g /\ latest'[g].config = latest[g].config
  <2>1. StatusStep(latest[g], latest'[g], op, x)
    <3>1. latest[g].config \in Nat
      BY DEF InOrder, Behind, IsState
    <3> QED BY <1>1, <1>7, <3>1, CommitMoves
  <2>2. CASE latest[g].config < n
    <3>1. Awaited(n, x)'
      BY <1>2, <1>4, <1>7, <2>2 DEF Awaited
    <3> QED BY <1>3, <3>1
  <2>3. CASE latest[g].config = n /\ latest[g].shards[x].Status = "Pulling"
    <3>1. latest'[g].shards[x].Status \in {"Pulling", "GCing"}
      BY <2>1, <2>3 DEF StatusStep
    <3>2. CASE latest'[g].shards[x].Status = "GCing"
      BY <3>2 DEF Serves
    <3>3. CASE latest'[g].shards[x].Status = "Pulling"
      <4>1. Awaited(n, x)'
        BY <1>2, <1>4, <1>7, <2>3, <3>3 DEF Awaited
      <4> QED BY <1>3, <4>1
    <3> QED BY <3>1, <3>2, <3>3
  <2> QED BY <1>2, <1>7, <2>2, <2>3
<1> QED BY <1>5, <1>6, <1>7

\* Every step leaves a written shard served or frozen.
LEMMA HeldStep ==
  ASSUME ShardConfigAssumption, InOrder, Handover, NeverOrphaned, Stored, Held,
         [Next]_vars
  PROVE  Held'
<1>1. CASE \E g \in Gid : \E op \in proposals[g] : Commit(g, op)
  <2>1. PICK g \in Gid : \E op \in proposals[g] : Commit(g, op)
    BY <1>1
  <2>2. PICK op \in proposals[g] : Commit(g, op)
    BY <2>1
  <2> SUFFICES ASSUME NEW x \in Shard, store'[x] # <<>>
               PROVE  \/ \E k \in Gid : Serves(latest'[k], x)
                      \/ \E n \in 1 .. (Len(configs) - 1) :
                           Awaited(n, x)' /\ latest'[Owner(n - 1, x)].config >= n
    <3>1. UNCHANGED configs
      BY <2>2, CommitData DEF Stored
    <3>2. \A n, x : Owner(n, x)' = Owner(n, x)
      BY <3>1 DEF Owner
    <3> QED BY <3>1, <3>2 DEF Held, Serves
  <2>3. store[x] # <<>> \/ Serves(latest[g], x)
    <3>1. store'[x] = IF WritesTo(latest[g], op, x) THEN Written(store[x], op) ELSE store[x]
      BY <2>2, CommitData DEF Stored
    <3> QED BY <3>1 DEF WritesTo, Executes
  <2>4. \/ \E h \in Gid : Serves(latest[h], x)
        \/ \E n \in 1 .. (Len(configs) - 1) :
             Awaited(n, x) /\ latest[Owner(n - 1, x)].config >= n
    BY <2>3 DEF Held
  <2>5. CASE \E h \in Gid : Serves(latest[h], x)
    BY <2>2, <2>5, ServedHeld
  <2>6. CASE \E n \in 1 .. (Len(configs) - 1) :
               Awaited(n, x) /\ latest[Owner(n - 1, x)].config >= n
    BY <2>2, <2>6, AwaitedHeld DEF Stored
  <2> QED BY <2>4, <2>5, <2>6
<1>2. CASE UNCHANGED <<latest, store>> /\ (Reconfigure \/ UNCHANGED configs)
  <2> SUFFICES ASSUME NEW x \in Shard, store[x] # <<>>
               PROVE  \/ \E k \in Gid : Serves(latest[k], x)
                      \/ \E n \in 1 .. (Len(configs') - 1) :
                           Awaited(n, x)' /\ latest[Owner(n - 1, x)'].config >= n
    BY <1>2 DEF Held, Serves
  <2>1. CASE \E n \in 1 .. (Len(configs) - 1) :
               Awaited(n, x) /\ latest[Owner(n - 1, x)].config >= n
    <3>1. PICK n \in 1 .. (Len(configs) - 1) :
            Awaited(n, x) /\ latest[Owner(n - 1, x)].config >= n
      BY <2>1
    <3>2. /\ n \in 1 .. (Len(configs') - 1)
          /\ configs'[n + 1] = configs[n + 1] /\ configs'[n] = configs[n]
      <4>1. CASE Reconfigure
        <5>1. /\ Len(configs') = Len(configs) + 1 /\ Len(configs) \in Nat
              /\ \A i \in 1 .. Len(configs) : configs'[i] = configs[i]
          BY <4>1, ReconfigureStep DEF InOrder, Numbered
        <5> QED BY <5>1
      <4> QED BY <1>2, <4>1
    <3>3. Owner(n, x)' = Owner(n, x) /\ Owner(n - 1, x)' = Owner(n - 1, x)
      <4>1. n \in Nat
        BY DEF InOrder, Numbered
      <4> QED BY <3>2, <4>1 DEF Owner
    <3>4. Awaited(n, x)'
      BY <1>2, <3>1, <3>3 DEF Awaited
    <3> QED BY <3>1, <3>2, <3>3, <3>4
  <2> QED BY <2>1 DEF Held
<1>3. \/ UNCHANGED <<latest, store>> /\ (Reconfigure \/ UNCHANGED configs)
      \/ \E g \in Gid : \E op \in proposals[g] : Commit(g, op)
  <2>1. CASE Reconfigure
    BY <2>1 DEF Reconfigure, groupVars
  <2>2. ASSUME NEW c \in Clerk, ClerkStep(c)
        PROVE  UNCHANGED <<latest, store, configs>>
    BY <2>2 DEF ClerkStep, Invoke, CallGroup, CallFails, LearnConfig, TakeReply, CommitGet,
                ExitCheck, masterVars, groupVars
  <2>3. ASSUME NEW g \in Gid, Ticks(g)
        PROVE  UNCHANGED <<latest, store, configs>>
    BY <2>3 DEF Ticks, ConfigTick, MigrationTick, GCTick, GCAcknowledged, masterVars
  <2>4. ASSUME NEW g \in Gid, NEW op \in requests[g], Accept(g, op)
        PROVE  UNCHANGED <<latest, store, configs>>
    BY <2>4 DEF Accept, masterVars
  <2>5. CASE UNCHANGED vars
    BY <2>5 DEF vars, masterVars, groupVars
  <2>6. CASE \E g \in Gid : GroupStep(g)
    <3>1. PICK g \in Gid : GroupStep(g)
      BY <2>6
    <3> QED BY <2>3, <2>4, <3>1 DEF GroupStep
  <2> QED BY <2>1, <2>2, <2>5, <2>6 DEF Next
<1> QED BY <1>1, <1>2, <1>3

(***************************************************************************)
(* The tables of duplicates go with the shards.                            *)
(***************************************************************************)
Table == [Clerk -> Nat]
TableOf(g, x) == latest[g].shards[x].ClientSeq

\* What a clerk wants of the service.
Kinds == Writes \cup {"Get"}
IsRequest(op) ==
  /\ op.OpType \in Kinds /\ op.shard \in Shard
  /\ op.ClientId \in Clerk /\ op.CommandId \in Nat \ {0} /\ op.Value \in Clerk \X Nat

\* Tables are tables, wherever they are on their way, and writes are requests.
TablesTyped ==
  /\ \A x \in Shard : store[x] \in Seq(Clerk \X Nat)
  /\ \A g \in Gid, x \in Shard : \A s \in states[g] : s.shards[x].ClientSeq \in Table
  /\ \A g \in Gid : \A op \in proposals[g] :
       /\ op.OpType = "InsertShard" => op.Data.ClientSeq \in Table
       /\ op.OpType \in Writes => IsRequest(op)
  /\ \A g \in Gid : \A op \in requests[g] : IsRequest(op)

\* A group that does not have a shard has nothing in its table.
NoTableUntilInserted ==
  \A g \in Gid, x \in Shard :
    latest[g].shards[x].Status \in {"Invalid", "Pulling"} => TableOf(g, x) = NoData.ClientSeq

\* Who knows of a write to a shard has it from one.
KnownIsWritten ==
  \A g \in Gid, x \in Shard, c \in Clerk : TableOf(g, x)[c] # 0 => store[x] # <<>>

\* No group knows of a later write to the shard than this table.
NoneKnowsMore(table, x) == \A g \in Gid, c \in Clerk : TableOf(g, x)[c] <= table[c]

ServedKnows ==
  \A g \in Gid, x \in Shard : Serves(latest[g], x) => NoneKnowsMore(TableOf(g, x), x)

\* A shard that another group awaits is frozen with its table, and the table fetched is this one.
FrozenKnows ==
  \A x \in Shard : \A n \in 1 .. (Len(configs) - 1) :
    Awaited(n, x) /\ latest[Owner(n - 1, x)].config >= n =>
      NoneKnowsMore(TableOf(Owner(n - 1, x), x), x)

FrozenTable ==
  \A x \in Shard : \A n \in 1 .. (Len(configs) - 1) : Awaited(n, x) =>
    \A t \in states[Owner(n - 1, x)] :
      t.config >= n => t.shards[x].ClientSeq = TableOf(Owner(n - 1, x), x)

FetchedTable ==
  \A x \in Shard : \A n \in 1 .. (Len(configs) - 1) : Awaited(n, x) =>
    \A op \in proposals[Owner(n, x)] :
      op.OpType = "InsertShard" /\ op.shard = x /\ op.ConfigNum = n =>
        op.Data.ClientSeq = TableOf(Owner(n - 1, x), x)

Remembered ==
  /\ TablesTyped /\ NoTableUntilInserted /\ KnownIsWritten
  /\ ServedKnows /\ FrozenKnows /\ FrozenTable /\ FetchedTable

LEMMA RememberedInit ==
  ASSUME Init
  PROVE  Remembered
<1>1. /\ Len(configs) = 1
      /\ \A g \in Gid : /\ latest[g] = EmptyState /\ states[g] = {EmptyState}
                        /\ proposals[g] = {} /\ requests[g] = {}
  BY DEF Init
<1>2. NoData.ClientSeq \in Table /\ \A c \in Clerk : NoData.ClientSeq[c] = 0
  BY DEF NoData, Table
<1>3. \A x \in Shard : EmptyState.shards[x].Status = "Invalid"
                       /\ EmptyState.shards[x].ClientSeq = NoData.ClientSeq
  BY DEF EmptyState, EmptyShard
<1>4. TablesTyped
  BY <1>1, <1>2, <1>3 DEF TablesTyped, Init
<1>5. NoTableUntilInserted /\ ServedKnows
  BY <1>1, <1>3 DEF NoTableUntilInserted, ServedKnows, Serves, TableOf
<1>6. KnownIsWritten
  BY <1>1, <1>2, <1>3 DEF KnownIsWritten, TableOf
<1>7. FrozenKnows /\ FrozenTable /\ FetchedTable
  BY <1>1 DEF FrozenKnows, FrozenTable, FetchedTable
<1> QED BY <1>4, <1>5, <1>6, <1>7 DEF Remembered

\* A group that had no table takes over the one it gets.
LEMMA TakesOver ==
  ASSUME NEW table \in Table
  PROVE  [c \in Clerk |-> Max({NoData.ClientSeq[c], table[c]})] = table
<1>1. \A c \in Clerk : NoData.ClientSeq[c] = 0 /\ table[c] \in Nat
  BY DEF NoData, Table
<1>2. \A n \in Nat : Max({0, n}) = n
  <2> SUFFICES ASSUME NEW n \in Nat PROVE Max({0, n}) = n
    OBVIOUS
  <2>1. n \in {0, n} /\ \A y \in {0, n} : n >= y
    OBVIOUS
  <2>2. \A m \in {0, n} : (\A y \in {0, n} : m >= y) => m = n
    OBVIOUS
  <2> QED BY <2>1, <2>2 DEF Max
<1>3. \A c \in Clerk : Max({NoData.ClientSeq[c], table[c]}) = table[c]
  BY <1>1, <1>2
<1>4. table = [c \in Clerk |-> table[c]]
  BY DEF Table
<1> QED BY <1>3, <1>4

\* The table of a group after a commit.
LEMMA TableOfGroup ==
  ASSUME InOrder, DOMAIN store = Shard, TablesTyped, NEW g \in Gid, NEW op, Commit(g, op)
  PROVE  /\ \A h \in Gid, x \in Shard : TableOf(h, x) \in Table
         /\ \A h \in Gid, x \in Shard : h # g => latest'[h].shards[x] = latest[h].shards[x]
         /\ states'[g] = states[g] \cup {latest'[g]}
         /\ \A h \in Gid \ {g} : states'[h] = states[h]
<1>1. Commits(g, op)
  BY CommitsOp
<1>2. \A h \in Gid : latest[h] \in states[h]
  BY DEF InOrder, Behind
<1> QED BY <1>1, <1>2, CommitMoves DEF TablesTyped, TableOf

\* The shard a group inserts is frozen where it was, and its table comes with it.
LEMMA InsertsFrozen ==
  ASSUME ShardConfigAssumption, InOrder, Handover, Stored, Remembered,
         NEW g \in Gid, NEW op \in proposals[g], NEW x \in Shard,
         op.OpType = "InsertShard", op.shard = x, op.ConfigNum = latest[g].config,
         latest[g].shards[x].Status = "Pulling"
  PROVE  LET n == latest[g].config IN
         /\ n \in 1 .. (Len(configs) - 1) /\ Awaited(n, x) /\ Owner(n, x) = g
         /\ Owner(n - 1, x) \in Gid /\ latest[Owner(n - 1, x)].config >= n
         /\ op.Data.ClientSeq = TableOf(Owner(n - 1, x), x)
<1> DEFINE n == latest[g].config
<1>1. Owner(n, x) = g /\ n \in Nat /\ n < Len(configs) /\ Len(configs) \in Nat
  BY DEF Handover, OwnersKnow, InOrder, Behind, IsState, Numbered
<1>2. n # 0
  <2>1. Owner(0, x) = 0
    BY DEF InOrder, Numbered, Owner, NoConfig
  <2> QED BY <1>1, <2>1 DEF ShardConfigAssumption
<1>3. Owner(n - 1, x) \in Gid /\ latest[Owner(n - 1, x)].config >= n
  BY <1>2 DEF Handover, FetchedFrozen
<1>4. Owner(n - 1, x) # g
  BY DEF Stored, PullsFromOther
<1>5. Awaited(n, x)
  BY <1>1, <1>3, <1>4 DEF Awaited
<1>6. n \in 1 .. (Len(configs) - 1)
  BY <1>1, <1>2
<1>7. op.Data.ClientSeq = TableOf(Owner(n - 1, x), x)
  BY <1>1, <1>5, <1>6 DEF Remembered, FetchedTable
<1> QED BY <1>1, <1>3, <1>5, <1>6, <1>7

\* Only a write to the shard brings what no group knows.
LEMMA NobodyLearns ==
  ASSUME ShardConfigAssumption, InOrder, Handover, Stored, Remembered,
         NEW g \in Gid, NEW op, Commit(g, op), NEW x \in Shard, ~WritesTo(latest[g], op, x),
         NEW h \in Gid
  PROVE  \/ TableOf(h, x)' = NoData.ClientSeq
         \/ \E k \in Gid : TableOf(h, x)' = TableOf(k, x)
<1>1. op \in proposals[g] /\ DOMAIN store = Shard /\ TablesTyped
  BY CommitData DEF Stored, Remembered
<1>2. CASE h # g
  <2>1. \A k \in Gid, y \in Shard : k # g => latest'[k].shards[y] = latest[k].shards[y]
    BY <1>1, TableOfGroup
  <2> QED BY <1>2, <2>1 DEF TableOf
<1>3. CASE h = g
  <2>1. DataStep(latest[g], latest'[g], op, x)
    BY <1>1, CommitData
  <2>2. CASE /\ op.OpType = "InsertShard" /\ op.shard = x /\ op.ConfigNum = latest[g].config
             /\ latest[g].shards[x].Status = "Pulling"
             /\ TableOf(g, x)' = [c \in Clerk |-> Max({TableOf(g, x)[c], op.Data.ClientSeq[c]})]
    <3>1. PICK k \in Gid : op.Data.ClientSeq = TableOf(k, x)
      BY <1>1, <2>2, InsertsFrozen
    <3>2. TableOf(g, x) = NoData.ClientSeq
      BY <2>2 DEF Remembered, NoTableUntilInserted
    <3>3. TableOf(k, x) \in Table
      BY <1>1, TableOfGroup
    <3>4. TableOf(g, x)' = TableOf(k, x)
      BY <2>2, <3>1, <3>2, <3>3, TakesOver
    <3> QED BY <1>3, <3>4
  <2>3. CASE TableOf(g, x)' = NoData.ClientSeq \/ TableOf(g, x)' = TableOf(g, x)
    BY <1>3, <2>3
  <2> QED BY <2>1, <2>2, <2>3 DEF DataStep, TableOf
<1> QED BY <1>2, <1>3

\* Whose table nobody knew more than, nobody does after another step.
LEMMA NoneLearnsMore ==
  ASSUME ShardConfigAssumption, InOrder, Handover, Stored, Remembered,
         NEW g \in Gid, NEW op, Commit(g, op), NEW x \in Shard, ~WritesTo(latest[g], op, x),
         NEW table \in Table, NoneKnowsMore(table, x)
  PROVE  NoneKnowsMore(table, x)'
<1> SUFFICES ASSUME NEW h \in Gid, NEW c \in Clerk
             PROVE  TableOf(h, x)'[c] <= table[c]
  BY DEF NoneKnowsMore, TableOf
<1>1. \/ TableOf(h, x)' = NoData.ClientSeq
      \/ \E k \in Gid : TableOf(h, x)' = TableOf(k, x)
  BY NobodyLearns
<1>2. table[c] \in Nat /\ NoData.ClientSeq[c] = 0
  BY DEF Table, NoData
<1> QED BY <1>1, <1>2 DEF NoneKnowsMore

\* Who serves a shard keeps its table, and who has frozen it for another does.
LEMMA ServedTableStays ==
  ASSUME InOrder, DOMAIN store = Shard, NEW g \in Gid, NEW op, Commit(g, op),
         NEW x \in Shard, ~WritesTo(latest[g], op, x), NEW h \in Gid, Serves(latest[h], x)
  PROVE  TableOf(h, x)' = TableOf(h, x)
<1>1. Commits(g, op) /\ DataStep(latest[g], latest'[g], op, x)
  BY CommitData
<1>2. CASE h # g
  <2>1. latest'[h] = latest[h]
    BY <1>1, <1>2, CommitMoves
  <2> QED BY <2>1 DEF TableOf
<1>3. CASE h = g
  BY <1>1, <1>3 DEF DataStep, TableOf, Serves
<1> QED BY <1>2, <1>3

LEMMA FrozenTableStays ==
  ASSUME InOrder, Handover, Stored, NEW g \in Gid, NEW op, Commit(g, op),
         NEW x \in Shard, NEW n \in 1 .. (Len(configs) - 1),
         Awaited(n, x), latest[Owner(n - 1, x)].config >= n
  PROVE  ~WritesTo(latest[g], op, x) /\ TableOf(Owner(n - 1, x), x)' = TableOf(Owner(n - 1, x), x)
<1> DEFINE old == Owner(n - 1, x)
<1>1. /\ Commits(g, op) /\ DataStep(latest[g], latest'[g], op, x)
      /\ op \in proposals[g] /\ UNCHANGED configs
  BY CommitData DEF Stored
<1>2. ~WritesTo(latest[g], op, x)
  <2>1. ~Serves(latest[g], x)
    BY NobodyServes
  <2> QED BY <2>1 DEF WritesTo, Executes
<1>3. Owner(n - 1, x)' = Owner(n - 1, x)
  BY <1>1 DEF Owner
<1>4. old \in Gid /\ latest[old] \in states[old]
  BY DEF Awaited, InOrder, Behind
<1>5. latest[old].config = n /\ latest[old].shards[x].Status = "Pushing"
  BY <1>4 DEF Stored, FrozenWhileAwaited
<1>6. CASE old # g
  <2>1. latest'[old] = latest[old]
    BY <1>1, <1>4, <1>6, CommitMoves
  <2> QED BY <1>2, <1>3, <2>1 DEF TableOf
<1>7. CASE old = g
  <2>1. ~(op.OpType = "DeleteShard" /\ op.shard = x /\ op.ConfigNum = n)
    BY <1>1, <1>7 DEF Stored, KeptWhileAwaited
  <2>2. latest'[g].shards[x].ClientSeq = latest[g].shards[x].ClientSeq
    BY <1>1, <1>2, <1>5, <1>7, <2>1 DEF DataStep
  <2> QED BY <1>2, <1>3, <1>7, <2>2 DEF TableOf
<1> QED BY <1>6, <1>7

\* A value that was written is a value, and not empty.
LEMMA WrittenIsSome ==
  ASSUME NEW T, NEW value \in Seq(T), NEW op, op.Value \in T
  PROVE  Written(value, op) \in Seq(T) /\ Written(value, op) # <<>>
<1>1. Append(value, op.Value) \in Seq(T) /\ Append(value, op.Value) # <<>>
  <2>1. PICK longer, e : longer = Append(value, e) /\ e = op.Value
    OBVIOUS
  <2>2. longer \in Seq(T) /\ Len(longer) = Len(value) + 1 /\ Len(value) \in Nat
    BY <2>1
  <2>3. longer # <<>>
    BY <2>2
  <2> QED BY <2>1, <2>2, <2>3
<1>2. <<op.Value>> \in Seq(T) /\ <<op.Value>> # <<>>
  OBVIOUS
<1> QED BY <1>1, <1>2 DEF Written

\* Tables stay tables.
LEMMA CommitTyped ==
  ASSUME ShardConfigAssumption, InOrder, Handover, Stored, Remembered,
         NEW g \in Gid, NEW op, Commit(g, op)
  PROVE  TablesTyped'
<1>1. /\ Commits(g, op) /\ op \in proposals[g] /\ DOMAIN store = Shard /\ TablesTyped
      /\ UNCHANGED <<proposals, requests>>
      /\ \A x \in Shard :
           store'[x] = IF WritesTo(latest[g], op, x) THEN Written(store[x], op) ELSE store[x]
  BY CommitData DEF Stored, Remembered, Commit
<1>2. NoData.ClientSeq \in Table
  BY DEF NoData, Table
<1>3. ASSUME NEW x \in Shard
      PROVE  TableOf(g, x)' \in Table
  <2>1. TableOf(g, x) \in Table /\ \A k \in Gid : TableOf(k, x) \in Table
    BY <1>1, TableOfGroup
  <2>2. CASE WritesTo(latest[g], op, x)
    <3>1. TableOf(g, x)' = [TableOf(g, x) EXCEPT ![op.ClientId] = op.CommandId]
      <4>1. DataStep(latest[g], latest'[g], op, x)
        BY <1>1, CommitData
      <4> QED BY <2>2, <4>1 DEF DataStep, TableOf
    <3>2. op.ClientId \in Clerk /\ op.CommandId \in Nat
      BY <1>1, <2>2 DEF TablesTyped, IsRequest, WritesTo
    <3> QED BY <2>1, <3>1, <3>2 DEF Table
  <2>3. CASE ~WritesTo(latest[g], op, x)
    <3>1. TableOf(g, x)' = NoData.ClientSeq \/ \E k \in Gid : TableOf(g, x)' = TableOf(k, x)
      BY <2>3, NobodyLearns
    <3> QED BY <1>2, <2>1, <3>1
  <2> QED BY <2>2, <2>3
<1>4. ASSUME NEW h \in Gid, NEW x \in Shard, NEW s \in states'[h]
      PROVE  s.shards[x].ClientSeq \in Table
  <2>1. CASE s \in states[h]
    BY <1>1, <2>1 DEF TablesTyped
  <2>2. CASE h = g /\ s = latest'[g]
    BY <1>3, <2>2 DEF TableOf
  <2> QED BY <1>1, <2>1, <2>2, CommitMoves
<1>5. ASSUME NEW x \in Shard
      PROVE  store'[x] \in Seq(Clerk \X Nat)
  <2>1. store[x] \in Seq(Clerk \X Nat)
    BY <1>1 DEF TablesTyped
  <2>2. WritesTo(latest[g], op, x) => op.Value \in Clerk \X Nat
    BY <1>1 DEF TablesTyped, IsRequest, WritesTo
  <2> QED BY <1>1, <2>1, <2>2, WrittenIsSome
<1> QED BY <1>1, <1>4, <1>5 DEF TablesTyped

\* What was inserted is in the table until it is deleted, and it was written.
LEMMA CommitKnown ==
  ASSUME ShardConfigAssumption, InOrder, Handover, Stored, Remembered,
         NEW g \in Gid, NEW op, Commit(g, op)
  PROVE  NoTableUntilInserted' /\ KnownIsWritten'
<1>1. /\ Commits(g, op) /\ op \in proposals[g] /\ DOMAIN store = Shard
      /\ \A x \in Shard :
           store'[x] = IF WritesTo(latest[g], op, x) THEN Written(store[x], op) ELSE store[x]
  BY CommitData DEF Stored
<1>2. NoTableUntilInserted'
  <2> SUFFICES ASSUME NEW h \in Gid, NEW x \in Shard,
                      latest'[h].shards[x].Status \in {"Invalid", "Pulling"}
               PROVE  TableOf(h, x)' = NoData.ClientSeq
    BY DEF NoTableUntilInserted
  <2>1. latest[h].shards[x].Status \in {"Invalid", "Pulling"} =>
          TableOf(h, x) = NoData.ClientSeq
    BY DEF Remembered, NoTableUntilInserted
  <2>2. CASE h # g
    <3>1. latest'[h] = latest[h]
      BY <1>1, <2>2, CommitMoves
    <3> QED BY <2>1, <3>1 DEF TableOf
  <2>3. CASE h = g /\ latest'[g].config # latest[g].config
    <3>1. /\ op.OpType = "UpdateConfig"
          /\ latest[g].shards[x].Status \in {"Serving", "Invalid"}
          /\ latest[g].shards[x].Status = "Serving" <=> Owner(latest[g].config, x) = g
          /\ latest'[g].shards[x].Status =
               NextStatus(g, latest[g].shards[x].Status,
                 Owner(latest[g].config, x), Owner(latest'[g].config, x))
      BY <1>1, <2>3, MoveShard
    <3>2. latest[g].shards[x].Status = "Invalid"
      BY <2>3, <3>1 DEF NextStatus
    <3>3. TableOf(g, x)' = TableOf(g, x)
      <4>1. DataStep(latest[g], latest'[g], op, x)
        BY <1>1, CommitData
      <4> QED BY <3>1, <4>1 DEF DataStep, TableOf, WritesTo, Writes
    <3> QED BY <2>1, <2>3, <3>2, <3>3
  <2>4. CASE h = g /\ latest'[g].config = latest[g].config
    <3>1. DataStep(latest[g], latest'[g], op, x)
      BY <1>1, CommitData
    <3>2. WritesTo(latest[g], op, x) => latest[g].shards[x].Status \in {"Serving", "GCing"}
      BY DEF WritesTo, Executes, Serves
    <3> QED BY <2>1, <2>4, <3>1, <3>2 DEF DataStep, TableOf
  <2> QED BY <2>2, <2>3, <2>4
<1>3. KnownIsWritten'
  <2> SUFFICES ASSUME NEW h \in Gid, NEW x \in Shard, NEW c \in Clerk, TableOf(h, x)'[c] # 0
               PROVE  store'[x] # <<>>
    BY DEF KnownIsWritten, TableOf
  <2>1. CASE WritesTo(latest[g], op, x)
    <3>1. store'[x] = Written(store[x], op)
      BY <1>1, <2>1
    <3>2. store[x] \in Seq(Clerk \X Nat) /\ op.Value \in Clerk \X Nat
      BY <1>1, <2>1 DEF Remembered, TablesTyped, IsRequest, WritesTo
    <3> QED BY <3>1, <3>2, WrittenIsSome
  <2>2. CASE ~WritesTo(latest[g], op, x)
    <3>1. \/ TableOf(h, x)' = NoData.ClientSeq
          \/ \E k \in Gid : TableOf(h, x)' = TableOf(k, x)
      BY <2>2, NobodyLearns
    <3>2. NoData.ClientSeq[c] = 0
      BY DEF NoData
    <3>3. store[x] # <<>>
      BY <3>1, <3>2 DEF Remembered, KnownIsWritten
    <3> QED BY <1>1, <2>2, <3>3
  <2> QED BY <2>1, <2>2
<1> QED BY <1>2, <1>3

\* The one who serves learns what is written, and who becomes the one knew it before.
LEMMA CommitServedKnows ==
  ASSUME ShardConfigAssumption, InOrder, Handover, NeverOrphaned, Stored, Remembered,
         NEW g \in Gid, NEW op, Commit(g, op)
  PROVE  ServedKnows'
<1>1. /\ Commits(g, op) /\ op \in proposals[g] /\ DOMAIN store = Shard /\ TablesTyped
  BY CommitData DEF Stored, Remembered
<1> SUFFICES ASSUME NEW h \in Gid, NEW x \in Shard, Serves(latest'[h], x)
             PROVE  NoneKnowsMore(TableOf(h, x), x)'
  BY DEF ServedKnows, Serves
<1>2. \A k \in Gid : TableOf(k, x) \in Table
  BY <1>1, TableOfGroup
<1>3. CASE Serves(latest[h], x) /\ ~WritesTo(latest[g], op, x)
  <2>1. TableOf(h, x)' = TableOf(h, x)
    BY <1>1, <1>3, ServedTableStays
  <2>2. NoneKnowsMore(TableOf(h, x), x)
    BY <1>3 DEF Remembered, ServedKnows
  <2>3. PICK table \in Table : table = TableOf(h, x)
    BY <1>2
  <2>4. NoneKnowsMore(table, x)'
    BY <1>3, <2>2, <2>3, NoneLearnsMore
  <2> QED BY <2>1, <2>3, <2>4 DEF NoneKnowsMore
<1>4. CASE WritesTo(latest[g], op, x)
  <2>1. Serves(latest[g], x)
    BY <1>4 DEF WritesTo, Executes
  <2>2. NoneKnowsMore(TableOf(g, x), x)
    BY <2>1 DEF Remembered, ServedKnows
  <2>3. /\ TableOf(g, x)' = [TableOf(g, x) EXCEPT ![op.ClientId] = op.CommandId]
        /\ Serves(latest'[g], x)
    <3>1. DataStep(latest[g], latest'[g], op, x)
      BY <1>1, CommitData
    <3> QED BY <1>4, <2>1, <3>1 DEF DataStep, TableOf, Serves
  <2>4. h = g
    <3>1. h # g => latest'[h] = latest[h]
      BY <1>1, CommitMoves
    <3>2. AnOwnerAtATime
      BY OwnersApart
    <3> QED BY <2>1, <3>1, <3>2 DEF AnOwnerAtATime
  <2>5. \A k \in Gid : k # g => TableOf(k, x)' = TableOf(k, x)
    BY <1>1, TableOfGroup DEF TableOf
  <2>6. op.CommandId > TableOf(g, x)[op.ClientId]
    BY <1>4 DEF WritesTo, Executes, TableOf
  <2>7. op.ClientId \in Clerk /\ op.CommandId \in Nat
    BY <1>1, <1>4 DEF TablesTyped, IsRequest, WritesTo
  <2>8. ASSUME NEW k \in Gid, NEW c \in Clerk
        PROVE  TableOf(k, x)'[c] <= TableOf(g, x)'[c]
    <3>1. /\ TableOf(k, x)[c] \in Nat /\ TableOf(g, x)[c] \in Nat
          /\ TableOf(k, x)[c] <= TableOf(g, x)[c]
      BY <1>2, <2>2 DEF Table, NoneKnowsMore
    <3>2. TableOf(g, x)'[c] = IF c = op.ClientId THEN op.CommandId ELSE TableOf(g, x)[c]
      <4>1. TableOf(g, x) \in [Clerk -> Nat]
        BY <1>2 DEF Table
      <4> QED BY <2>3, <4>1
    <3>3. CASE k = g
      BY <2>6, <2>7, <3>1, <3>2, <3>3
    <3>4. CASE k # g
      BY <2>5, <2>6, <2>7, <3>1, <3>2, <3>4
    <3> QED BY <3>3, <3>4
  <2> QED BY <2>4, <2>8 DEF NoneKnowsMore, TableOf
<1>5. CASE ~Serves(latest[h], x) /\ ~WritesTo(latest[g], op, x)
  <2>1. h = g
    <3>1. h # g => latest'[h] = latest[h]
      BY <1>1, CommitMoves
    <3> QED BY <1>5, <3>1
  <2>2. DataStep(latest[g], latest'[g], op, x)
    BY <1>1, CommitData
  <2>3. CASE latest'[g].config # latest[g].config
    <3>1. /\ latest'[g].config = latest[g].config + 1 /\ latest'[g].config < Len(configs)
          /\ latest[g].shards[x].Status = "Invalid"
          /\ latest'[g].shards[x].Status =
               NextStatus(g, "Invalid", Owner(latest[g].config, x), Owner(latest'[g].config, x))
      <4>1. /\ latest'[g].config = latest[g].config + 1 /\ latest'[g].config < Len(configs)
            /\ latest[g].shards[x].Status =
                 (IF Owner(latest[g].config, x) = g THEN "Serving" ELSE "Invalid")
            /\ latest'[g].shards[x].Status =
                 NextStatus(g, latest[g].shards[x].Status,
                            Owner(latest[g].config, x), Owner(latest'[g].config, x))
        BY <1>1, <2>3, MoveShard
      <4>2. latest[g].shards[x].Status # "Serving"
        BY <1>5, <2>1 DEF Serves
      <4>3. latest[g].shards[x].Status = "Invalid"
        BY <4>1, <4>2
      <4> QED BY <4>1, <4>3
    <3>2. Owner(latest[g].config, x) = 0 /\ Owner(latest[g].config + 1, x) = g
      BY <2>1, <3>1 DEF NextStatus, Serves
    <3>3. store[x] = <<>>
      BY <3>1, <3>2, UnownedEmpty DEF Stored
    <3>4. \A k \in Gid, c \in Clerk : TableOf(k, x)[c] = 0
      BY <3>3 DEF Remembered, KnownIsWritten
    <3>5. \A c \in Clerk : NoData.ClientSeq[c] = 0
      BY DEF NoData
    <3>6. \A k \in Gid : \/ TableOf(k, x)' = NoData.ClientSeq
                          \/ \E j \in Gid : TableOf(k, x)' = TableOf(j, x)
      BY <1>5, NobodyLearns
    <3>7. \A k \in Gid, c \in Clerk : TableOf(k, x)'[c] = 0
      BY <3>4, <3>5, <3>6
    <3> QED BY <3>7 DEF NoneKnowsMore, TableOf
  <2>4. CASE latest'[g].config = latest[g].config
    <3>1. /\ op.OpType = "InsertShard" /\ op.shard = x /\ op.ConfigNum = latest[g].config
          /\ latest[g].shards[x].Status = "Pulling"
          /\ TableOf(g, x)' = [c \in Clerk |-> Max({TableOf(g, x)[c], op.Data.ClientSeq[c]})]
      BY <1>5, <2>1, <2>2, <2>4 DEF DataStep, Serves, TableOf
    <3>2. PICK n \in 1 .. (Len(configs) - 1), k \in Gid :
            /\ Awaited(n, x) /\ k = Owner(n - 1, x) /\ latest[k].config >= n
            /\ op.Data.ClientSeq = TableOf(k, x)
      <4>1. PICK n : n = latest[g].config
        OBVIOUS
      <4>2. /\ n \in 1 .. (Len(configs) - 1) /\ Awaited(n, x)
            /\ Owner(n - 1, x) \in Gid /\ latest[Owner(n - 1, x)].config >= n
            /\ op.Data.ClientSeq = TableOf(Owner(n - 1, x), x)
        BY <1>1, <3>1, <4>1, InsertsFrozen
      <4> QED BY <4>2
    <3>3. NoneKnowsMore(TableOf(k, x), x)
      BY <3>2 DEF Remembered, FrozenKnows
    <3>4. PICK table \in Table : table = TableOf(k, x)
      BY <1>2
    <3>5. TableOf(g, x) = NoData.ClientSeq
      BY <3>1 DEF Remembered, NoTableUntilInserted
    <3>6. TableOf(g, x)' = table
      BY <3>1, <3>2, <3>4, <3>5, TakesOver
    <3>7. NoneKnowsMore(table, x)'
      BY <1>5, <3>3, <3>4, NoneLearnsMore
    <3> QED BY <2>1, <3>6, <3>7 DEF NoneKnowsMore
  <2> QED BY <2>3, <2>4
<1> QED BY <1>3, <1>4, <1>5

\* What is frozen is known, stays, and is what was fetched.
LEMMA CommitFrozenTable ==
  ASSUME ShardConfigAssumption, InOrder, Handover, Stored, Remembered,
         NEW g \in Gid, NEW op, Commit(g, op)
  PROVE  FrozenKnows' /\ FrozenTable' /\ FetchedTable'
<1>1. /\ Commits(g, op) /\ op \in proposals[g] /\ DOMAIN store = Shard /\ TablesTyped
      /\ UNCHANGED <<configs, proposals>>
  BY CommitData DEF Stored, Remembered
<1>2. \A i, y : Owner(i, y)' = Owner(i, y)
  BY <1>1 DEF Owner
<1>3. ASSUME NEW x \in Shard, NEW n \in 1 .. (Len(configs) - 1), Awaited(n, x)'
      PROVE  /\ Awaited(n, x) /\ Owner(n - 1, x) \in Gid
             /\ latest[Owner(n - 1, x)].config >= n =>
                  /\ TableOf(Owner(n - 1, x), x)' = TableOf(Owner(n - 1, x), x)
                  /\ NoneKnowsMore(TableOf(Owner(n - 1, x), x), x)'
  <2>1. Awaited(n, x) /\ Owner(n - 1, x) \in Gid
    BY <1>1, <1>3, AwaitedBefore DEF Awaited
  <2>2. ASSUME latest[Owner(n - 1, x)].config >= n
        PROVE  /\ TableOf(Owner(n - 1, x), x)' = TableOf(Owner(n - 1, x), x)
               /\ NoneKnowsMore(TableOf(Owner(n - 1, x), x), x)'
    <3>1. /\ ~WritesTo(latest[g], op, x)
          /\ TableOf(Owner(n - 1, x), x)' = TableOf(Owner(n - 1, x), x)
      BY <2>1, <2>2, FrozenTableStays
    <3>2. PICK table \in Table : table = TableOf(Owner(n - 1, x), x)
      BY <1>1, <2>1, TableOfGroup
    <3>3. NoneKnowsMore(table, x)
      BY <2>1, <2>2, <3>2 DEF Remembered, FrozenKnows
    <3>4. NoneKnowsMore(table, x)'
      BY <3>1, <3>3, NoneLearnsMore
    <3> QED BY <3>1, <3>2, <3>4 DEF NoneKnowsMore
  <2> QED BY <2>1, <2>2
<1>4. FetchedTable'
  <2> SUFFICES ASSUME NEW x \in Shard, NEW n \in 1 .. (Len(configs) - 1), Awaited(n, x)',
                      NEW ins \in proposals[Owner(n, x)],
                      ins.OpType = "InsertShard", ins.shard = x, ins.ConfigNum = n
               PROVE  ins.Data.ClientSeq = TableOf(Owner(n - 1, x), x)'
    BY <1>1, <1>2 DEF FetchedTable
  <2>1. Awaited(n, x)
    BY <1>3
  <2>2. Owner(n, x) \in Gid /\ n # 0
    BY <2>1 DEF Awaited, InOrder, Numbered
  <2>3. latest[Owner(n - 1, x)].config >= n
    BY <2>2 DEF Handover, FetchedFrozen
  <2>4. TableOf(Owner(n - 1, x), x)' = TableOf(Owner(n - 1, x), x)
    BY <1>3, <2>3
  <2>5. ins.Data.ClientSeq = TableOf(Owner(n - 1, x), x)
    BY <2>1 DEF Remembered, FetchedTable
  <2> QED BY <2>4, <2>5
<1>5. FrozenTable'
  <2> SUFFICES ASSUME NEW x \in Shard, NEW n \in 1 .. (Len(configs) - 1), Awaited(n, x)',
                      NEW t \in states'[Owner(n - 1, x)], t.config >= n
               PROVE  t.shards[x].ClientSeq = TableOf(Owner(n - 1, x), x)'
    BY <1>1, <1>2 DEF FrozenTable
  <2> DEFINE old == Owner(n - 1, x)
  <2>1. Awaited(n, x) /\ old \in Gid
    BY <1>3
  <2>2. CASE t \in states[old]
    <3>1. t.config \in Nat /\ t.config <= latest[old].config /\ latest[old].config \in Nat
      BY <2>1, <2>2 DEF InOrder, Behind, IsState
    <3>2. latest[old].config >= n
      BY <3>1
    <3>3. TableOf(old, x)' = TableOf(old, x)
      BY <1>3, <3>2
    <3>4. t.shards[x].ClientSeq = TableOf(old, x)
      BY <2>1, <2>2 DEF Remembered, FrozenTable
    <3> QED BY <3>3, <3>4
  <2>3. CASE old = g /\ t = latest'[g]
    BY <1>2, <2>3 DEF TableOf
  <2>4. t \in states[old] \/ (old = g /\ t = latest'[g])
    <3>1. /\ \A k \in Gid \ {g} : states'[k] = states[k]
          /\ states'[g] = states[g] \cup {latest'[g]}
      BY <1>1, CommitMoves
    <3> QED BY <2>1, <3>1
  <2> QED BY <2>2, <2>3, <2>4
<1>6. FrozenKnows'
  <2> SUFFICES ASSUME NEW x \in Shard, NEW n \in 1 .. (Len(configs) - 1), Awaited(n, x)',
                      latest'[Owner(n - 1, x)].config >= n
               PROVE  NoneKnowsMore(TableOf(Owner(n - 1, x), x), x)'
    BY <1>1, <1>2 DEF FrozenKnows
  <2> DEFINE old == Owner(n - 1, x)
  <2>1. Awaited(n, x) /\ old \in Gid
    BY <1>3
  <2>2. CASE latest[old].config >= n
    BY <1>3, <2>2
  <2>3. CASE ~(latest[old].config >= n)
    <3>1. old = g /\ latest'[g].config # latest[g].config
      <4>1. old # g => latest'[old] = latest[old]
        BY <1>1, <2>1, CommitMoves
      <4> QED BY <2>3, <4>1
    <3>2. /\ op.OpType = "UpdateConfig" /\ latest'[g].config = latest[g].config + 1
          /\ latest[g].config \in Nat
          /\ latest[g].shards[x].Status =
               (IF Owner(latest[g].config, x) = g THEN "Serving" ELSE "Invalid")
      BY <1>1, <3>1, MoveShard
    <3>3. latest[g].config = n - 1
      BY <2>3, <3>1, <3>2
    <3>4. Serves(latest[g], x) /\ ~WritesTo(latest[g], op, x)
      BY <3>1, <3>2, <3>3 DEF Serves, WritesTo, Writes
    <3>5. TableOf(g, x)' = TableOf(g, x) /\ NoneKnowsMore(TableOf(g, x), x)
      BY <1>1, <3>4, ServedTableStays DEF Remembered, ServedKnows
    <3>6. PICK table \in Table : table = TableOf(g, x)
      BY <1>1, TableOfGroup
    <3>7. NoneKnowsMore(table, x)'
      BY <3>4, <3>5, <3>6, NoneLearnsMore
    <3>8. TableOf(old, x)' = table
      BY <1>2, <3>1, <3>5, <3>6 DEF TableOf
    <3> QED BY <3>7, <3>8 DEF NoneKnowsMore
  <2> QED BY <2>2, <2>3
<1> QED BY <1>4, <1>5, <1>6

LEMMA CommitRemembers ==
  ASSUME ShardConfigAssumption, InOrder, Handover, NeverOrphaned, Stored, Remembered,
         NEW g \in Gid, NEW op, Commit(g, op)
  PROVE  Remembered'
BY CommitTyped, CommitKnown, CommitServedKnows, CommitFrozenTable DEF Remembered

\* Of a new configuration shards are awaited whose owners are not in it yet.
LEMMA ReconfigureAwaits ==
  ASSUME InOrder, Reconfigure, NEW x \in Shard, NEW n \in 1 .. Len(configs), Awaited(n, x)'
  PROVE  /\ Owner(n - 1, x)' = Owner(n - 1, x) /\ Owner(n - 1, x) \in Gid
         /\ \/ n \in 1 .. (Len(configs) - 1) /\ Awaited(n, x) /\ Owner(n, x)' = Owner(n, x)
            \/ /\ n = Len(configs) /\ ~(latest[Owner(n - 1, x)].config >= n)
               /\ \A t \in states[Owner(n - 1, x)] : ~(t.config >= n)
<1>1. /\ Len(configs') = Len(configs) + 1 /\ Len(configs) \in Nat \ {0}
      /\ \A i \in 1 .. Len(configs) : configs'[i] = configs[i]
  BY ReconfigureStep DEF InOrder, Numbered
<1>2. UNCHANGED <<latest, states>>
  BY DEF Reconfigure, groupVars
<1>3. \A i : i \in 0 .. (Len(configs) - 1) => Owner(i, x)' = Owner(i, x)
  BY <1>1 DEF Owner
<1>4. \A g \in Gid :
        /\ latest[g].config \in 0 .. (Len(configs) - 1)
        /\ \A s \in states[g] : /\ s.config \in 0 .. (Len(configs) - 1)
                                /\ s.config <= latest[g].config
  BY <1>1 DEF InOrder, Behind, IsState
<1>5. Owner(n - 1, x)' = Owner(n - 1, x) /\ Owner(n - 1, x) \in Gid
  <2>1. n - 1 \in 0 .. (Len(configs) - 1)
    BY <1>1
  <2>2. Owner(n - 1, x)' = Owner(n - 1, x)
    BY <1>3, <2>1
  <2> QED BY <2>2 DEF Awaited
<1>6. CASE n \in 1 .. (Len(configs) - 1)
  <2>1. n \in 0 .. (Len(configs) - 1)
    BY <1>1, <1>6
  <2>2. Owner(n, x)' = Owner(n, x)
    BY <1>3, <2>1
  <2> QED BY <1>2, <1>5, <1>6, <2>2 DEF Awaited
<1>7. CASE n = Len(configs)
  BY <1>1, <1>4, <1>5, <1>7
<1> QED BY <1>1, <1>6, <1>7

LEMMA ReconfigureRemembers ==
  ASSUME InOrder, Handover, Remembered, Reconfigure
  PROVE  Remembered'
<1>1. Len(configs') = Len(configs) + 1 /\ Len(configs) \in Nat \ {0}
  BY ReconfigureStep DEF InOrder, Numbered
<1>2. UNCHANGED <<latest, states, proposals, requests, store>>
  BY DEF Reconfigure, groupVars, clerkVars
<1>3. TablesTyped' /\ NoTableUntilInserted' /\ KnownIsWritten' /\ ServedKnows'
  BY <1>2 DEF Remembered, TablesTyped, NoTableUntilInserted, KnownIsWritten, ServedKnows, Serves,
              NoneKnowsMore, TableOf
<1>4. \A h \in Gid, x \in Shard : TableOf(h, x)' = TableOf(h, x)
  BY <1>2 DEF TableOf
<1>5. FrozenKnows'
  <2> SUFFICES ASSUME NEW x \in Shard, NEW n \in 1 .. Len(configs), Awaited(n, x)',
                      latest[Owner(n - 1, x)'].config >= n
               PROVE  NoneKnowsMore(TableOf(Owner(n - 1, x), x), x)'
    BY <1>1, <1>2 DEF FrozenKnows
  <2>1. /\ Owner(n - 1, x)' = Owner(n - 1, x) /\ Owner(n - 1, x) \in Gid
        /\ n \in 1 .. (Len(configs) - 1) /\ Awaited(n, x)
    BY ReconfigureAwaits
  <2>2. NoneKnowsMore(TableOf(Owner(n - 1, x), x), x)
    BY <2>1 DEF Remembered, FrozenKnows
  <2> QED BY <1>2, <2>1, <2>2 DEF NoneKnowsMore, TableOf
<1>6. FrozenTable'
  <2> SUFFICES ASSUME NEW x \in Shard, NEW n \in 1 .. Len(configs), Awaited(n, x)',
                      NEW t \in states[Owner(n - 1, x)'], t.config >= n
               PROVE  t.shards[x].ClientSeq = TableOf(Owner(n - 1, x), x)'
    BY <1>1, <1>2 DEF FrozenTable
  <2>1. /\ Owner(n - 1, x)' = Owner(n - 1, x) /\ Owner(n - 1, x) \in Gid
        /\ n \in 1 .. (Len(configs) - 1) /\ Awaited(n, x)
    BY ReconfigureAwaits
  <2>2. t.shards[x].ClientSeq = TableOf(Owner(n - 1, x), x)
    BY <2>1 DEF Remembered, FrozenTable
  <2> QED BY <1>2, <2>1, <2>2 DEF TableOf
<1>7. FetchedTable'
  <2> SUFFICES ASSUME NEW x \in Shard, NEW n \in 1 .. Len(configs), Awaited(n, x)',
                      NEW op \in proposals[Owner(n, x)'],
                      op.OpType = "InsertShard", op.shard = x, op.ConfigNum = n
               PROVE  op.Data.ClientSeq = TableOf(Owner(n - 1, x), x)'
    BY <1>1, <1>2 DEF FetchedTable
  <2>1. Owner(n, x)' \in Gid /\ n # 0
    BY <1>1 DEF Awaited
  <2>2. latest[Owner(n - 1, x)].config >= n
    BY <2>1 DEF Handover, FetchedFrozen
  <2>3. /\ Owner(n - 1, x)' = Owner(n - 1, x) /\ Owner(n - 1, x) \in Gid
        /\ n \in 1 .. (Len(configs) - 1) /\ Awaited(n, x) /\ Owner(n, x)' = Owner(n, x)
    BY <2>2, ReconfigureAwaits
  <2>4. op.Data.ClientSeq = TableOf(Owner(n - 1, x), x)
    BY <2>3 DEF Remembered, FetchedTable
  <2> QED BY <1>2, <2>3, <2>4 DEF TableOf
<1> QED BY <1>3, <1>5, <1>6, <1>7 DEF Remembered

\* Where the groups, the configurations and the writes stay, it is about what is proposed.
LEMMA ProposalRemembers ==
  ASSUME Remembered, UNCHANGED <<configs, latest, states, store>>, TablesTyped', FetchedTable'
  PROVE  Remembered'
<1>1. \A n, y : Owner(n, y)' = Owner(n, y) /\ Awaited(n, y)' = Awaited(n, y)
  BY DEF Owner, Awaited
<1>2. NoTableUntilInserted' /\ KnownIsWritten' /\ ServedKnows'
  BY DEF Remembered, NoTableUntilInserted, KnownIsWritten, ServedKnows, Serves,
         NoneKnowsMore, TableOf
<1>3. FrozenKnows' /\ FrozenTable'
  BY <1>1 DEF Remembered, FrozenKnows, FrozenTable, NoneKnowsMore, TableOf
<1> QED BY <1>2, <1>3 DEF Remembered

LEMMA MigrationRemembers ==
  ASSUME ShardConfigAssumption, InOrder, Stored, Remembered,
         NEW g \in Gid, NEW x \in Shard, MigrationTick(g, x)
  PROVE  Remembered'
<1>1. UNCHANGED <<configs, latest, states, store, requests>>
  BY DEF MigrationTick, masterVars, clerkVars
<1>2. PICK s, old, t :
        /\ s \in states[g] /\ s.shards[x].Status = "Pulling"
        /\ old \in OldOwners(s.config, x) /\ t \in states[old] /\ Ready(t, s.config)
        /\ Propose(g, [OpType |-> "InsertShard", shard |-> x, ConfigNum |-> s.config,
                       Data |-> DataOf(t, x)])
  BY DEF MigrationTick
<1> DEFINE ins == [OpType |-> "InsertShard", shard |-> x, ConfigNum |-> s.config,
                   Data |-> DataOf(t, x)]
<1>3. /\ \A h \in Gid : proposals'[h] \subseteq proposals[h] \cup {ins}
      /\ ins.OpType = "InsertShard" /\ ins.shard = x /\ ins.ConfigNum = s.config
      /\ ins.Data.ClientSeq = t.shards[x].ClientSeq
      /\ old = Owner(s.config - 1, x) /\ t.config >= s.config
  BY <1>2 DEF Propose, InOrder, Domains, DataOf, OldOwners, Ready
<1> HIDE DEF ins
<1>4. \A n, y : Owner(n, y)' = Owner(n, y) /\ Awaited(n, y)' = Awaited(n, y)
  BY <1>1 DEF Owner, Awaited
<1>5. TablesTyped'
  <2>1. s.config # 0
    <3>1. Owner(s.config, x) = g
      BY <1>2 DEF Stored, StatesKnow
    <3>2. Owner(0, x) = 0
      BY DEF InOrder, Numbered, Owner, NoConfig
    <3> QED BY <3>1, <3>2 DEF ShardConfigAssumption
  <2>2. old \in Gid
    BY <1>2, <2>1, OldOwnersExist
  <2>3. t.shards[x].ClientSeq \in Table
    BY <1>2, <2>2 DEF Remembered, TablesTyped
  <2> QED BY <1>1, <1>3, <2>3 DEF Remembered, TablesTyped, Writes
<1>6. FetchedTable'
  <2> SUFFICES ASSUME NEW y \in Shard, NEW n \in 1 .. (Len(configs) - 1), Awaited(n, y),
                      NEW op \in proposals'[Owner(n, y)],
                      op.OpType = "InsertShard", op.shard = y, op.ConfigNum = n
               PROVE  op.Data.ClientSeq = TableOf(Owner(n - 1, y), y)
    BY <1>1, <1>4 DEF FetchedTable, TableOf
  <2>1. Owner(n, y) \in Gid
    BY DEF Awaited
  <2>2. CASE op \in proposals[Owner(n, y)]
    BY <2>2 DEF Remembered, FetchedTable
  <2>3. CASE op = ins
    <3>1. y = x /\ n = s.config
      BY <1>3, <2>3
    <3>2. t.shards[x].ClientSeq = TableOf(Owner(n - 1, x), x)
      BY <1>2, <1>3, <3>1 DEF Remembered, FrozenTable
    <3> QED BY <1>3, <2>3, <3>1, <3>2
  <2> QED BY <1>3, <2>1, <2>2, <2>3
<1> QED BY <1>1, <1>5, <1>6, ProposalRemembers

\* No shard is inserted and nothing but requests is asked.
LEMMA OtherRemembers ==
  ASSUME Remembered, UNCHANGED <<configs, latest, states, store>>,
         \A g \in Gid : \A op \in proposals'[g] :
           op \in proposals[g] \/ op \in requests[g] \/ op.OpType \notin Writes \cup {"InsertShard"},
         \A g \in Gid : \A op \in requests[g] : op.OpType \in Writes,
         \A g \in Gid : \A op \in requests'[g] : IsRequest(op)
  PROVE  Remembered'
<1>1. \A n, y : Owner(n, y)' = Owner(n, y) /\ Awaited(n, y)' = Awaited(n, y)
  BY DEF Owner, Awaited
<1>2. "InsertShard" \notin Writes
  BY DEF Writes
<1>3. TablesTyped'
  BY <1>2 DEF Remembered, TablesTyped
<1>4. FetchedTable'
  BY <1>1, <1>2 DEF Remembered, FetchedTable, TableOf, Awaited
<1> QED BY <1>3, <1>4, ProposalRemembers

(***************************************************************************)
(* The clerks.                                                             *)
(***************************************************************************)
\* A write is done when a group knows of it.
Done(op) == \E g \in Gid : TableOf(g, op.shard)[op.ClientId] >= op.CommandId

Waits(c) == clerk[c].st = "waiting"
Gets(c) == Busy(c) /\ clerk[c].op.OpType = "Get"

ClerkTyped(c) ==
  /\ DOMAIN clerk[c] = {"st", "op", "config", "CommandId", "reply", "todo", "rpcs", "writes"}
  /\ clerk[c].st \in {"idle", "trying", "waiting"}
  /\ clerk[c].CommandId \in Nat \ {0} /\ clerk[c].writes \in Nat
  /\ clerk[c].todo \in Seq({"Put", "Append", "Get"} \X Shard)
  /\ clerk[c].config \in 0 .. (Len(configs) - 1)
  /\ Busy(c) => /\ IsRequest(clerk[c].op) /\ clerk[c].op.ClientId = c
                /\ clerk[c].op.CommandId = clerk[c].CommandId
                /\ clerk[c].op.Value = <<c, clerk[c].writes>>
  /\ ~Busy(c) => clerk[c].reply = Nil
  /\ Waits(c) => Target(c) \in Gid

\* What a clerk asks is a request.  Less is known of it than above, and it needs no more.
Asking(c) ==
  /\ DOMAIN clerk[c] = {"st", "op", "config", "CommandId", "reply", "todo", "rpcs", "writes"}
  /\ clerk[c].CommandId \in Nat \ {0} /\ clerk[c].writes \in Nat
  /\ clerk[c].todo \in Seq({"Put", "Append", "Get"} \X Shard)
  /\ Busy(c) => IsRequest(clerk[c].op)

ClerksAsk == DOMAIN clerk = Clerk /\ \A c \in Clerk : Asking(c)

\* What is on its way to a group or waits there is what the clerk is at, or done.
AskedOnce ==
  \A g \in Gid : \A op \in requests[g] \cup proposals[g] : op.OpType \in Writes =>
    LET k == clerk[op.ClientId]
    IN  /\ op.CommandId <= k.CommandId
        /\ op.CommandId = k.CommandId => Busy(op.ClientId) /\ k.op = op
        /\ op.CommandId < k.CommandId => Done(op)

\* No group knows of what was not asked.
KnownIsAsked ==
  \A g \in Gid, x \in Shard, c \in Clerk :
    /\ TableOf(g, x)[c] <= clerk[c].CommandId
    /\ ~Busy(c) => TableOf(g, x)[c] # clerk[c].CommandId

\* The value of its key is among those a Get may return.
SeesSince(c) ==
  /\ seen[c] # {} <=> Gets(c)
  /\ Gets(c) => store[clerk[c].op.shard] \in seen[c]

\* Who is told so has been served; who has been notified, too, or the shard is not here.
Replied(c) ==
  /\ Busy(c) /\ clerk[c].reply \notin {Nil, Notified} /\ clerk[c].reply.Err = "OK" =>
       /\ Gets(c) => clerk[c].reply.Value \in seen[c]
       /\ ~Gets(c) => Done(clerk[c].op)
  /\ Waits(c) /\ clerk[c].reply = Notified =>
       ~Gets(c) /\ (Done(clerk[c].op) \/ ~Serves(latest[Target(c)], clerk[c].op.shard))

Clerking ==
  /\ DOMAIN clerk = Clerk
  /\ seen = [c \in Clerk |-> seen[c]] /\ result = [c \in Clerk |-> result[c]]
  /\ AskedOnce /\ KnownIsAsked
  /\ \A c \in Clerk : ClerkTyped(c) /\ SeesSince(c) /\ Replied(c)

LEMMA ClerkingAsks == Clerking => ClerksAsk
BY DEF Clerking, ClerkTyped, ClerksAsk, Asking

LEMMA ClerkingInit ==
  ASSUME ShardKVAssumption, NilAssumption, Init
  PROVE  Clerking
<1>1. PICK scenario \in Scenarios :
        clerk = [c \in Clerk |-> MakeClerk(scenario.program[c], scenario.rpcs[c])]
  BY DEF Init
<1>2. DOMAIN clerk = Clerk
  BY <1>1
<1>3. ASSUME NEW c \in Clerk
      PROVE  /\ DOMAIN clerk[c] =
                  {"st", "op", "config", "CommandId", "reply", "todo", "rpcs", "writes"}
             /\ clerk[c].st = "idle" /\ clerk[c].CommandId = 1 /\ clerk[c].writes = 0
             /\ clerk[c].config = 0 /\ clerk[c].reply = Nil
             /\ clerk[c].todo = scenario.program[c]
  BY <1>1 DEF MakeClerk
<1>4. ASSUME NEW c \in Clerk PROVE scenario.program[c] \in Seq({"Put", "Append", "Get"} \X Shard)
  BY DEF ShardKVAssumption
<1>5. Len(configs) = 1
  BY DEF Init
<1>6. ASSUME NEW c \in Clerk PROVE ClerkTyped(c) /\ SeesSince(c) /\ Replied(c)
  <2>1. ~Busy(c) /\ ~Waits(c) /\ ~Gets(c)
    BY <1>3 DEF Busy, Waits, Gets
  <2>2. ClerkTyped(c)
    BY <1>3, <1>4, <1>5, <2>1 DEF ClerkTyped
  <2> QED BY <2>1, <2>2 DEF Init, SeesSince, Replied
<1>7. AskedOnce
  BY DEF Init, AskedOnce
<1>8. KnownIsAsked
  <2>1. \A g \in Gid, x \in Shard, c \in Clerk : TableOf(g, x)[c] = 0
    BY DEF Init, TableOf, EmptyState, EmptyShard, NoData
  <2> QED BY <1>3, <2>1 DEF KnownIsAsked
<1>9. seen = [c \in Clerk |-> seen[c]] /\ result = [c \in Clerk |-> result[c]]
  BY DEF Init
<1> QED BY <1>2, <1>6, <1>7, <1>8, <1>9 DEF Clerking

\* What was done stays done: the table goes with the shard.
LEMMA DoneStays ==
  ASSUME ShardConfigAssumption, InOrder, Handover, Stored, Held, Remembered,
         NEW g \in Gid, NEW op, Commit(g, op), NEW w, IsRequest(w), Done(w)
  PROVE  Done(w)'
<1>1. /\ Commits(g, op) /\ op \in proposals[g] /\ DOMAIN store = Shard /\ TablesTyped
  BY CommitData DEF Stored, Remembered
<1>2. PICK x \in Shard, c \in Clerk, n \in Nat \ {0} :
        x = w.shard /\ c = w.ClientId /\ n = w.CommandId
  BY DEF IsRequest
<1>3. PICK h \in Gid : TableOf(h, x)[c] >= n
  BY <1>2 DEF Done
<1>4. \A k \in Gid : TableOf(k, x)[c] \in Nat
  BY <1>1, TableOfGroup DEF Table
<1>5. store[x] # <<>>
  BY <1>3 DEF Remembered, KnownIsWritten
<1> SUFFICES \E k \in Gid : TableOf(k, x)'[c] >= n
  BY <1>2 DEF Done, TableOf
<1>6. CASE WritesTo(latest[g], op, x)
  <2>1. Serves(latest[g], x) /\ op.CommandId > TableOf(g, x)[op.ClientId]
    BY <1>6 DEF WritesTo, Executes, TableOf
  <2>2. TableOf(h, x)[c] <= TableOf(g, x)[c]
    BY <2>1 DEF Remembered, ServedKnows, NoneKnowsMore
  <2>3. TableOf(g, x)' = [TableOf(g, x) EXCEPT ![op.ClientId] = op.CommandId]
    <3>1. DataStep(latest[g], latest'[g], op, x)
      BY <1>1, CommitData
    <3> QED BY <1>6, <3>1 DEF DataStep, TableOf
  <2>4. TableOf(g, x) \in [Clerk -> Nat]
    BY <1>1, TableOfGroup DEF Table
  <2>5. op.CommandId \in Nat
    BY <1>1, <1>6 DEF TablesTyped, IsRequest, WritesTo
  <2>6. TableOf(g, x)'[c] = IF c = op.ClientId THEN op.CommandId ELSE TableOf(g, x)[c]
    BY <2>3, <2>4
  <2>7. TableOf(g, x)'[c] >= TableOf(g, x)[c] /\ TableOf(g, x)'[c] \in Nat
    BY <1>4, <2>1, <2>5, <2>6
  <2> QED BY <1>3, <1>4, <2>2, <2>7
<1>7. CASE ~WritesTo(latest[g], op, x)
  <2>1. CASE \E k \in Gid : Serves(latest[k], x)
    <3>1. PICK k \in Gid : Serves(latest[k], x)
      BY <2>1
    <3>2. TableOf(h, x)[c] <= TableOf(k, x)[c]
      BY <3>1 DEF Remembered, ServedKnows, NoneKnowsMore
    <3>3. TableOf(k, x)' = TableOf(k, x)
      BY <1>1, <1>7, <3>1, ServedTableStays
    <3> QED BY <1>3, <1>4, <3>2, <3>3
  <2>2. CASE \E m \in 1 .. (Len(configs) - 1) :
               Awaited(m, x) /\ latest[Owner(m - 1, x)].config >= m
    <3>1. PICK m \in 1 .. (Len(configs) - 1) :
            Awaited(m, x) /\ latest[Owner(m - 1, x)].config >= m
      BY <2>2
    <3>2. PICK k \in Gid : k = Owner(m - 1, x)
      BY <3>1 DEF Awaited
    <3>3. TableOf(h, x)[c] <= TableOf(k, x)[c]
      BY <3>1, <3>2 DEF Remembered, FrozenKnows, NoneKnowsMore
    <3>4. TableOf(Owner(m - 1, x), x)' = TableOf(Owner(m - 1, x), x)
      BY <3>1, FrozenTableStays
    <3>5. Owner(m - 1, x)' = Owner(m - 1, x)
      BY <1>1 DEF Commits, Owner
    <3>6. TableOf(k, x)' = TableOf(k, x)
      BY <3>2, <3>4, <3>5 DEF TableOf
    <3> QED BY <1>3, <1>4, <3>3, <3>6
  <2> QED BY <1>5, <2>1, <2>2 DEF Held
<1> QED BY <1>6, <1>7

\* What becomes done is the write that is executed, or an earlier one of its clerk.
LEMMA DoneBy ==
  ASSUME ShardConfigAssumption, InOrder, Handover, Stored, Remembered,
         NEW g \in Gid, NEW op, Commit(g, op), NEW w, IsRequest(w), Done(w)', ~Done(w)
  PROVE  /\ WritesTo(latest[g], op, w.shard)
         /\ op.ClientId = w.ClientId /\ op.CommandId >= w.CommandId
<1>1. /\ Commits(g, op) /\ op \in proposals[g] /\ DOMAIN store = Shard /\ TablesTyped
  BY CommitData DEF Stored, Remembered
<1>2. PICK x \in Shard, c \in Clerk, n \in Nat \ {0} :
        x = w.shard /\ c = w.ClientId /\ n = w.CommandId
  BY DEF IsRequest
<1>3. PICK h \in Gid : TableOf(h, x)'[c] >= n
  BY <1>2 DEF Done, TableOf
<1>4. \A k \in Gid : TableOf(k, x)[c] \in Nat /\ ~(TableOf(k, x)[c] >= n)
  BY <1>1, <1>2, TableOfGroup DEF Table, Done
<1>5. NoData.ClientSeq[c] = 0
  BY DEF NoData
<1>6. WritesTo(latest[g], op, x)
  <2> SUFFICES ASSUME ~WritesTo(latest[g], op, x) PROVE FALSE
    OBVIOUS
  <2>1. TableOf(h, x)' = NoData.ClientSeq \/ \E k \in Gid : TableOf(h, x)' = TableOf(k, x)
    BY NobodyLearns
  <2> QED BY <1>3, <1>4, <1>5, <2>1
<1>7. h = g
  <2>1. \A k \in Gid, y \in Shard : k # g => latest'[k].shards[y] = latest[k].shards[y]
    BY <1>1, TableOfGroup
  <2> QED BY <1>3, <1>4, <2>1 DEF TableOf
<1>8. TableOf(g, x)' = [TableOf(g, x) EXCEPT ![op.ClientId] = op.CommandId]
  <2>1. DataStep(latest[g], latest'[g], op, x)
    BY <1>1, CommitData
  <2> QED BY <1>6, <2>1 DEF DataStep, TableOf
<1>9. TableOf(g, x) \in [Clerk -> Nat]
  BY <1>1, TableOfGroup DEF Table
<1>10. TableOf(g, x)'[c] = IF c = op.ClientId THEN op.CommandId ELSE TableOf(g, x)[c]
  BY <1>8, <1>9
<1> QED BY <1>2, <1>3, <1>4, <1>6, <1>7, <1>10

(***************************************************************************)
(* The steps of the clerks.                                                *)
(***************************************************************************)
\* The tables of the groups are tables.
LEMMA TableIsTyped ==
  ASSUME InOrder, Remembered, NEW g \in Gid, NEW x \in Shard, NEW c \in Clerk
  PROVE  TableOf(g, x) \in Table /\ TableOf(g, x)[c] \in Nat
<1>1. latest[g] \in states[g]
  BY DEF InOrder, Behind
<1> QED BY <1>1 DEF Remembered, TablesTyped, TableOf, Table

\* A clerk that does nothing while the groups and their data stay.
LEMMA ClerkKept ==
  ASSUME NEW c, ClerkTyped(c), SeesSince(c), Replied(c),
         clerk'[c] = clerk[c], seen'[c] = seen[c], UNCHANGED <<configs, latest, store>>
  PROVE  ClerkTyped(c)' /\ SeesSince(c)' /\ Replied(c)'
<1>1. /\ Busy(c)' = Busy(c) /\ Waits(c)' = Waits(c) /\ Gets(c)' = Gets(c)
      /\ Target(c)' = Target(c)
  BY DEF Busy, Waits, Gets, Target, Owner
<1>2. Done(clerk[c].op)' = Done(clerk[c].op)
  BY DEF Done, TableOf
<1> QED BY <1>1, <1>2 DEF ClerkTyped, SeesSince, Replied, Serves

\* A clerk goes on with its call, begins one, or is done with it.
Continues(c) ==
  /\ clerk'[c].CommandId = clerk[c].CommandId
  /\ Busy(c) => Busy(c)' /\ clerk'[c].op = clerk[c].op
Finishes(c) ==
  /\ clerk'[c].CommandId = clerk[c].CommandId + 1
  /\ Busy(c) /\ (~Gets(c) => Done(clerk[c].op))

\* One clerk moves.
Moves(c) ==
  /\ UNCHANGED <<configs, plan, latest, states, proposals, deleted, store>>
  /\ DOMAIN clerk' = Clerk
  /\ \A d \in Clerk : d # c => clerk'[d] = clerk[d] /\ seen'[d] = seen[d] /\ result'[d] = result[d]
  /\ seen' = [d \in Clerk |-> seen'[d]] /\ result' = [d \in Clerk |-> result'[d]]
  /\ \A g \in Gid : \A op \in requests'[g] :
       op \in requests[g] \/ (Busy(c) /\ ~Gets(c) /\ clerk'[c].op = clerk[c].op /\ op = clerk[c].op)

LEMMA ClerkMoves ==
  ASSUME InOrder, Remembered, Clerking, NEW c \in Clerk, Moves(c), Continues(c) \/ Finishes(c),
         ClerkTyped(c)', SeesSince(c)', Replied(c)'
  PROVE  Clerking'
<1>1. \A d \in Clerk : ClerkTyped(d)' /\ SeesSince(d)' /\ Replied(d)'
  BY ClerkKept DEF Clerking, Moves
<1>2. \A w : Done(w)' = Done(w)
  BY DEF Moves, Done, TableOf
<1>3. \A g \in Gid, x \in Shard, d \in Clerk : TableOf(g, x)'[d] = TableOf(g, x)[d]
  BY DEF Moves, TableOf
<1>4. \A d \in Clerk : clerk[d].CommandId \in Nat
  BY DEF Clerking, ClerkTyped
<1>5. \A d \in Clerk : d # c => Busy(d)' = Busy(d) /\ clerk'[d] = clerk[d]
  BY DEF Moves, Busy
<1>6. AskedOnce'
  <2> SUFFICES ASSUME NEW g \in Gid, NEW op \in requests'[g] \cup proposals[g], op.OpType \in Writes
               PROVE  LET k == clerk'[op.ClientId]
                      IN  /\ op.CommandId <= k.CommandId
                          /\ op.CommandId = k.CommandId => Busy(op.ClientId)' /\ k.op = op
                          /\ op.CommandId < k.CommandId => Done(op)'
    BY DEF AskedOnce, Moves
  <2>1. CASE op \in requests[g] \cup proposals[g]
    <3>1. op.ClientId \in Clerk /\ op.CommandId \in Nat
      BY <2>1 DEF Remembered, TablesTyped, IsRequest
    <3>2. /\ op.CommandId <= clerk[op.ClientId].CommandId
          /\ op.CommandId = clerk[op.ClientId].CommandId =>
               Busy(op.ClientId) /\ clerk[op.ClientId].op = op
          /\ op.CommandId < clerk[op.ClientId].CommandId => Done(op)
      BY <2>1 DEF Clerking, AskedOnce
    <3>3. CASE op.ClientId # c
      BY <1>2, <1>5, <3>1, <3>2, <3>3
    <3>4. CASE op.ClientId = c /\ Continues(c)
      BY <1>2, <3>2, <3>4 DEF Continues
    <3>5. CASE op.ClientId = c /\ Finishes(c)
      <4>1. clerk'[c].CommandId = clerk[c].CommandId + 1 /\ clerk[c].CommandId \in Nat
        BY <1>4, <3>5 DEF Finishes
      <4>2. op.CommandId = clerk[c].CommandId => Done(op)
        BY <3>2, <3>5 DEF Finishes, Gets, Writes
      <4> QED BY <1>2, <3>1, <3>2, <3>5, <4>1, <4>2
    <3> QED BY <3>3, <3>4, <3>5
  <2>2. CASE /\ op = clerk[c].op /\ Busy(c) /\ ~Gets(c) /\ clerk'[c].op = clerk[c].op
    <3>1. op.ClientId = c /\ op.CommandId = clerk[c].CommandId /\ clerk[c].CommandId \in Nat
      BY <2>2 DEF Clerking, ClerkTyped
    <3>2. CASE Continues(c)
      BY <2>2, <3>1, <3>2 DEF Continues
    <3>3. CASE Finishes(c)
      BY <1>2, <2>2, <3>1, <3>3 DEF Finishes
    <3> QED BY <3>2, <3>3
  <2> QED BY <2>1, <2>2 DEF Moves
<1>7. KnownIsAsked'
  <2> SUFFICES ASSUME NEW g \in Gid, NEW x \in Shard, NEW d \in Clerk
               PROVE  /\ TableOf(g, x)'[d] <= clerk'[d].CommandId
                      /\ ~Busy(d)' => TableOf(g, x)'[d] # clerk'[d].CommandId
    BY DEF KnownIsAsked
  <2>1. /\ TableOf(g, x)[d] <= clerk[d].CommandId
        /\ ~Busy(d) => TableOf(g, x)[d] # clerk[d].CommandId
    BY DEF Clerking, KnownIsAsked
  <2>2. CASE d # c
    BY <1>3, <1>5, <2>1, <2>2
  <2>3. CASE d = c /\ Continues(c)
    BY <1>3, <2>1, <2>3 DEF Continues
  <2>4. CASE d = c /\ Finishes(c)
    <3>1. clerk'[c].CommandId = clerk[c].CommandId + 1 /\ clerk[c].CommandId \in Nat
      BY <1>4, <2>4 DEF Finishes
    <3>2. TableOf(g, x)[c] \in Nat
      BY TableIsTyped
    <3> QED BY <1>3, <2>1, <2>4, <3>1, <3>2
  <2> QED BY <2>2, <2>3, <2>4
<1> QED BY <1>1, <1>6, <1>7 DEF Clerking, Moves

\* Fields of clerk c after a step that leaves the others alone.
Becomes(c, st, op, config, id, reply, todo, writes) ==
  /\ DOMAIN clerk' = Clerk /\ \A d \in Clerk : d # c => clerk'[d] = clerk[d]
  /\ DOMAIN clerk'[c] = {"st", "op", "config", "CommandId", "reply", "todo", "rpcs", "writes"}
  /\ clerk'[c].st = st /\ clerk'[c].op = op /\ clerk'[c].config = config
  /\ clerk'[c].CommandId = id /\ clerk'[c].reply = reply /\ clerk'[c].todo = todo
  /\ clerk'[c].writes = writes

LEMMA InvokeGives ==
  ASSUME ClerksAsk, NEW c \in Clerk, Invoke(c)
  PROVE  \E kind \in Kinds, x \in Shard :
    LET n == clerk[c].writes + (IF kind \in Writes THEN 1 ELSE 0) IN
    /\ clerk[c].st = "idle" /\ Tail(clerk[c].todo) \in Seq({"Put", "Append", "Get"} \X Shard)
    /\ Becomes(c, "trying", [OpType |-> kind, shard |-> x, Value |-> <<c, n>>,
                             ClientId |-> c, CommandId |-> clerk[c].CommandId],
               clerk[c].config, clerk[c].CommandId, clerk[c].reply, Tail(clerk[c].todo), n)
    /\ seen' = [seen EXCEPT ![c] = IF kind = "Get" THEN {store[x]} ELSE {}]
<1>1. Asking(c) /\ DOMAIN clerk = Clerk
  BY DEF ClerksAsk
<1>2. PICK todo, kind, x : /\ todo = clerk[c].todo /\ kind = Head(todo)[1] /\ x = Head(todo)[2]
  OBVIOUS
<1>3. todo # <<>> /\ todo \in Seq({"Put", "Append", "Get"} \X Shard)
  BY <1>1, <1>2 DEF Asking, Invoke
<1>4. Head(todo) \in {"Put", "Append", "Get"} \X Shard
      /\ Tail(todo) \in Seq({"Put", "Append", "Get"} \X Shard)
  BY <1>3
<1>5. kind \in Kinds /\ x \in Shard
  BY <1>2, <1>4 DEF Kinds, Writes
<1>6. PICK n : n = clerk[c].writes + (IF kind \in Writes THEN 1 ELSE 0)
  OBVIOUS
<1>7. PICK op : op = [OpType |-> kind, shard |-> x, Value |-> <<c, n>>,
                      ClientId |-> c, CommandId |-> clerk[c].CommandId]
  OBVIOUS
<1>8. /\ clerk[c].st = "idle"
      /\ clerk' = [clerk EXCEPT ![c].st = "trying", ![c].todo = Tail(@), ![c].writes = n,
                                ![c].op = op]
      /\ seen' = [seen EXCEPT ![c] = IF kind = "Get" THEN {store[x]} ELSE {}]
  BY <1>2, <1>6, <1>7 DEF Invoke
<1>9. Becomes(c, "trying", op, clerk[c].config, clerk[c].CommandId, clerk[c].reply, Tail(todo), n)
  BY <1>1, <1>2, <1>8 DEF Becomes, Asking
<1> QED BY <1>2, <1>4, <1>5, <1>6, <1>7, <1>8, <1>9

\* The other steps of a clerk: what it becomes of it.
LEMMA CallsGive ==
  ASSUME ClerksAsk, NEW c \in Clerk
  PROVE  LET k == clerk[c] IN
         /\ CallGroup(c) => Becomes(c, "waiting", k.op, k.config, k.CommandId, Nil,
                                    k.todo, k.writes)
         /\ CallFails(c) => Becomes(c, "trying", k.op, k.config, k.CommandId, k.reply,
                                    k.todo, k.writes)
         /\ LearnConfig(c) => Becomes(c, "trying", k.op, Answer(configs, -1).Num, k.CommandId,
                                      k.reply, k.todo, k.writes)
<1>1. Asking(c) /\ DOMAIN clerk = Clerk
  BY DEF ClerksAsk
<1>2. CallGroup(c) => Becomes(c, "waiting", clerk[c].op, clerk[c].config, clerk[c].CommandId, Nil,
                              clerk[c].todo, clerk[c].writes)
  BY <1>1 DEF CallGroup, Becomes, Asking
<1>3. CallFails(c) => Becomes(c, "trying", clerk[c].op, clerk[c].config, clerk[c].CommandId,
                              clerk[c].reply, clerk[c].todo, clerk[c].writes)
  BY <1>1 DEF CallFails, Becomes, Asking
<1>4. LearnConfig(c) => Becomes(c, "trying", clerk[c].op, Answer(configs, -1).Num,
                                clerk[c].CommandId, clerk[c].reply, clerk[c].todo,
                                clerk[c].writes)
  BY <1>1 DEF LearnConfig, Becomes, Asking
<1> QED BY <1>2, <1>3, <1>4

LEMMA RepliesGive ==
  ASSUME ClerksAsk, NEW c \in Clerk
  PROVE  LET k == clerk[c]
             ok == k.reply.Err = "OK"
         IN
         /\ TakeReply(c) =>
              Becomes(c, IF ok THEN "idle" ELSE "trying", k.op, k.config,
                      IF ok THEN k.CommandId + 1 ELSE k.CommandId, Nil, k.todo, k.writes)
         /\ \A reply : clerk' = [clerk EXCEPT ![c].reply = reply] =>
              Becomes(c, k.st, k.op, k.config, k.CommandId, reply, k.todo, k.writes)
<1>1. Asking(c) /\ DOMAIN clerk = Clerk
  BY DEF ClerksAsk
<1>2. PICK ok : ok = (clerk[c].reply.Err = "OK")
  OBVIOUS
<1>3. TakeReply(c) =>
        Becomes(c, IF ok THEN "idle" ELSE "trying", clerk[c].op, clerk[c].config,
                IF ok THEN clerk[c].CommandId + 1 ELSE clerk[c].CommandId, Nil,
                clerk[c].todo, clerk[c].writes)
  BY <1>1, <1>2 DEF TakeReply, Becomes, Asking
<1>4. ASSUME NEW reply, clerk' = [clerk EXCEPT ![c].reply = reply]
      PROVE  Becomes(c, clerk[c].st, clerk[c].op, clerk[c].config, clerk[c].CommandId, reply,
                     clerk[c].todo, clerk[c].writes)
  BY <1>1, <1>4 DEF Becomes, Asking
<1> QED BY <1>2, <1>3, <1>4

LEMMA InvokeKeeps ==
  ASSUME InOrder, Remembered, Clerking, NEW c \in Clerk, Invoke(c)
  PROVE  Clerking'
<1>1. PICK kind, x, n :
        /\ kind \in Kinds /\ x \in Shard
        /\ n = clerk[c].writes + (IF kind \in Writes THEN 1 ELSE 0) /\ clerk[c].st = "idle"
        /\ Tail(clerk[c].todo) \in Seq({"Put", "Append", "Get"} \X Shard)
        /\ Becomes(c, "trying", [OpType |-> kind, shard |-> x, Value |-> <<c, n>>,
                                 ClientId |-> c, CommandId |-> clerk[c].CommandId],
                   clerk[c].config, clerk[c].CommandId, clerk[c].reply, Tail(clerk[c].todo), n)
        /\ seen' = [seen EXCEPT ![c] = IF kind = "Get" THEN {store[x]} ELSE {}]
  BY InvokeGives, ClerkingAsks
<1>2. UNCHANGED <<configs, plan, latest, states, proposals, deleted, requests, result, store>>
  BY DEF Invoke, masterVars, groupVars
<1>3. /\ ClerkTyped(c) /\ ~Busy(c) /\ clerk[c].reply = Nil
      /\ seen = [d \in Clerk |-> seen[d]] /\ result = [d \in Clerk |-> result[d]]
  BY <1>1 DEF Clerking, ClerkTyped, Busy
<1>4. PICK op : op = [OpType |-> kind, shard |-> x, Value |-> <<c, n>>,
                      ClientId |-> c, CommandId |-> clerk[c].CommandId]
  OBVIOUS
<1>5. n \in Nat /\ clerk[c].CommandId \in Nat \ {0}
  BY <1>1, <1>3 DEF ClerkTyped
<1>6. IsRequest(op) /\ op.ClientId = c /\ op.CommandId = clerk[c].CommandId
      /\ op.Value = <<c, n>> /\ op.OpType = kind /\ op.shard = x
  BY <1>1, <1>4, <1>5 DEF IsRequest
<1>7. /\ DOMAIN clerk' = Clerk /\ \A d \in Clerk : d # c => clerk'[d] = clerk[d]
      /\ DOMAIN clerk'[c] = {"st", "op", "config", "CommandId", "reply", "todo", "rpcs", "writes"}
      /\ clerk'[c].st = "trying" /\ clerk'[c].op = op /\ clerk'[c].config = clerk[c].config
      /\ clerk'[c].CommandId = clerk[c].CommandId /\ clerk'[c].reply = Nil
      /\ clerk'[c].todo = Tail(clerk[c].todo) /\ clerk'[c].writes = n
  BY <1>1, <1>3, <1>4 DEF Becomes
<1>8. /\ seen' = [d \in Clerk |-> seen'[d]] /\ \A d \in Clerk : d # c => seen'[d] = seen[d]
      /\ seen'[c] = IF kind = "Get" THEN {store[x]} ELSE {}
  BY <1>1, <1>3
<1>9. Moves(c)
  BY <1>2, <1>3, <1>7, <1>8 DEF Moves
<1>10. Busy(c)' /\ ~Waits(c)' /\ (Gets(c)' <=> kind = "Get")
  BY <1>6, <1>7 DEF Busy, Waits, Gets
<1>11. Continues(c)
  BY <1>3, <1>7 DEF Continues
<1>12. ClerkTyped(c)'
  BY <1>1, <1>2, <1>3, <1>5, <1>6, <1>7, <1>10 DEF ClerkTyped
<1>13. SeesSince(c)'
  BY <1>2, <1>6, <1>7, <1>8, <1>10 DEF SeesSince
<1>14. Replied(c)'
  BY <1>7, <1>10 DEF Replied
<1> QED BY <1>9, <1>11, <1>12, <1>13, <1>14, ClerkMoves

\* The steps that change neither what the clerk is at nor what it has seen.
LEMMA CallKeeps ==
  ASSUME NilAssumption, InOrder, Remembered, Clerking, NEW c \in Clerk, Busy(c),
         NEW st \in {"trying", "waiting"}, NEW config \in 0 .. (Len(configs) - 1), NEW reply,
         Becomes(c, st, clerk[c].op, config, clerk[c].CommandId, reply,
                 clerk[c].todo, clerk[c].writes),
         UNCHANGED <<configs, plan, latest, states, proposals, deleted, result, store, seen>>,
         \A g \in Gid : \A op \in requests'[g] :
           op \in requests[g] \/ (~Gets(c) /\ op = clerk[c].op),
         st = "waiting" => Owner(config, clerk[c].op.shard) \in Gid,
         reply \notin {Nil, Notified} /\ reply.Err = "OK" =>
           IF Gets(c) THEN reply.Value \in seen[c] ELSE Done(clerk[c].op),
         st = "waiting" /\ reply = Notified =>
           /\ ~Gets(c)
           /\ \/ Done(clerk[c].op)
              \/ ~Serves(latest[Owner(config, clerk[c].op.shard)], clerk[c].op.shard)
  PROVE  Clerking'
<1>1. /\ ClerkTyped(c) /\ SeesSince(c)
      /\ seen = [d \in Clerk |-> seen[d]] /\ result = [d \in Clerk |-> result[d]]
  BY DEF Clerking
<1>2. /\ DOMAIN clerk' = Clerk /\ \A d \in Clerk : d # c => clerk'[d] = clerk[d]
      /\ DOMAIN clerk'[c] = {"st", "op", "config", "CommandId", "reply", "todo", "rpcs", "writes"}
      /\ clerk'[c].st = st /\ clerk'[c].op = clerk[c].op /\ clerk'[c].config = config
      /\ clerk'[c].CommandId = clerk[c].CommandId /\ clerk'[c].reply = reply
      /\ clerk'[c].todo = clerk[c].todo /\ clerk'[c].writes = clerk[c].writes
  BY DEF Becomes
<1>3. Moves(c)
  BY <1>1, <1>2 DEF Moves
<1>4. /\ Busy(c)' /\ (Gets(c)' <=> Gets(c)) /\ (Waits(c)' <=> st = "waiting")
      /\ Target(c)' = Owner(config, clerk[c].op.shard)
  BY <1>2 DEF Busy, Gets, Waits, Target, Owner
<1>5. Continues(c)
  BY <1>2, <1>4 DEF Continues
<1>6. ClerkTyped(c)'
  BY <1>1, <1>2, <1>4 DEF ClerkTyped
<1>7. SeesSince(c)'
  BY <1>1, <1>2, <1>4 DEF SeesSince
<1>8. \A w : Done(w)' = Done(w)
  BY DEF Done, TableOf
<1>9. Replied(c)'
  BY <1>2, <1>4, <1>8 DEF Replied, Serves
<1> QED BY <1>3, <1>5, <1>6, <1>7, <1>9, ClerkMoves

LEMMA CallGroupKeeps ==
  ASSUME NilAssumption, InOrder, Remembered, Clerking, NEW c \in Clerk, CallGroup(c)
  PROVE  Clerking'
<1>1. ClerkTyped(c) /\ Busy(c) /\ clerk[c].config \in 0 .. (Len(configs) - 1)
  BY DEF Clerking, ClerkTyped, CallGroup, Busy
<1>2. Becomes(c, "waiting", clerk[c].op, clerk[c].config, clerk[c].CommandId, Nil,
              clerk[c].todo, clerk[c].writes)
  BY CallsGive, ClerkingAsks
<1>3. UNCHANGED <<configs, plan, latest, states, proposals, deleted, result, store, seen>>
  BY DEF CallGroup, masterVars, groupVars
<1>4. Owner(clerk[c].config, clerk[c].op.shard) \in Gid
  <2>1. IsConfig(configs[clerk[c].config + 1])
    <3>1. clerk[c].config + 1 \in 1 .. Len(configs)
      BY <1>1 DEF InOrder, Numbered
    <3> QED BY <3>1 DEF InOrder, Numbered
  <2> QED BY <2>1 DEF CallGroup, HasTarget, Target, IsConfig
<1>5. ASSUME NEW g \in Gid, NEW op \in requests'[g]
      PROVE  op \in requests[g] \/ (~Gets(c) /\ op = clerk[c].op)
  <2>1. op \in requests[g] \/ (clerk[c].op.OpType \in Writes /\ op = clerk[c].op)
    BY DEF CallGroup, InOrder, Domains
  <2> QED BY <2>1 DEF Gets, Writes
<1>6. Nil # Notified
  BY DEF NilAssumption
<1> QED BY <1>1, <1>2, <1>3, <1>4, <1>5, <1>6, CallKeeps

LEMMA CallFailsKeeps ==
  ASSUME NilAssumption, InOrder, Remembered, Clerking, NEW c \in Clerk, CallFails(c)
  PROVE  Clerking'
<1>1. ClerkTyped(c) /\ Busy(c) /\ clerk[c].config \in 0 .. (Len(configs) - 1)
  BY DEF Clerking, ClerkTyped, CallFails, Busy
<1>2. Becomes(c, "trying", clerk[c].op, clerk[c].config, clerk[c].CommandId, clerk[c].reply,
              clerk[c].todo, clerk[c].writes)
  BY CallsGive, ClerkingAsks
<1>3. UNCHANGED <<configs, plan, latest, states, proposals, deleted, requests, result, store, seen>>
  BY DEF CallFails, masterVars, groupVars
<1>4. clerk[c].reply \notin {Nil, Notified} /\ clerk[c].reply.Err = "OK" =>
        IF Gets(c) THEN clerk[c].reply.Value \in seen[c] ELSE Done(clerk[c].op)
  BY <1>1 DEF Clerking, Replied
<1> QED BY <1>1, <1>2, <1>3, <1>4, CallKeeps

LEMMA LearnConfigKeeps ==
  ASSUME NilAssumption, InOrder, Remembered, Clerking, NEW c \in Clerk, LearnConfig(c)
  PROVE  Clerking'
<1>1. ClerkTyped(c) /\ Busy(c)
  BY DEF Clerking, LearnConfig, Busy
<1>2. Answer(configs, -1).Num \in 0 .. (Len(configs) - 1)
  <2>1. Answer(configs, -1) = configs[Len(configs)]
    BY DEF Answer, Last, InOrder, Numbered
  <2>2. Len(configs) \in 1 .. Len(configs) /\ Len(configs) \in Nat
    BY DEF InOrder, Numbered
  <2>3. configs[Len(configs)].Num = Len(configs) - 1
    BY <2>2 DEF InOrder, Numbered
  <2> QED BY <2>1, <2>2, <2>3
<1>3. Becomes(c, "trying", clerk[c].op, Answer(configs, -1).Num, clerk[c].CommandId, clerk[c].reply,
              clerk[c].todo, clerk[c].writes)
  BY CallsGive, ClerkingAsks
<1>4. UNCHANGED <<configs, plan, latest, states, proposals, deleted, requests, result, store, seen>>
  BY DEF LearnConfig, masterVars, groupVars
<1>5. clerk[c].reply \notin {Nil, Notified} /\ clerk[c].reply.Err = "OK" =>
        IF Gets(c) THEN clerk[c].reply.Value \in seen[c] ELSE Done(clerk[c].op)
  BY <1>1 DEF Clerking, Replied
<1> QED BY <1>1, <1>2, <1>3, <1>4, <1>5, CallKeeps

\* What a group that serves the shard replies is what was asked for.
LEMMA ReplyIsGood ==
  ASSUME InOrder, Stored, Clerking, NEW c \in Clerk, Waits(c),
         Gets(c) \/ clerk[c].reply = Notified, NEW reply,
         reply = ReplyIn(latest[Target(c)], clerk[c].op)
  PROVE  /\ reply \notin {Notified}
         /\ reply.Err = "OK" => IF Gets(c) THEN reply.Value \in seen[c] ELSE Done(clerk[c].op)
<1>1. /\ Target(c) \in Gid /\ clerk[c].op.shard \in Shard
      /\ SeesSince(c) /\ Replied(c) /\ Busy(c)
  BY DEF Clerking, ClerkTyped, Waits, Busy, IsRequest
<1>2. reply.Err \in {"OK", "ErrWrongGroup"} /\ Notified.Err = ""
  BY DEF ReplyIn, OK, ErrWrongGroup, Notified
<1>3. ASSUME reply.Err = "OK" PROVE Serves(latest[Target(c)], clerk[c].op.shard)
  BY <1>3 DEF ReplyIn, ErrWrongGroup
<1>4. ASSUME reply.Err = "OK", Gets(c) PROVE reply.Value \in seen[c]
  <2>1. reply.Value = latest[Target(c)].shards[clerk[c].op.shard].KVStore
    BY <1>3, <1>4 DEF ReplyIn, OK, Gets
  <2>2. latest[Target(c)].shards[clerk[c].op.shard].KVStore = store[clerk[c].op.shard]
    BY <1>1, <1>3, <1>4 DEF Stored, ServedIsCurrent
  <2> QED BY <1>1, <1>4, <2>1, <2>2 DEF SeesSince
<1>5. ASSUME reply.Err = "OK", ~Gets(c) PROVE Done(clerk[c].op)
  BY <1>1, <1>3, <1>5 DEF Replied
<1> QED BY <1>2, <1>4, <1>5

LEMMA CommitGetKeeps ==
  ASSUME AnyGet = FALSE, NilAssumption, InOrder, Stored, Remembered, Clerking,
         NEW c \in Clerk, CommitGet(c)
  PROVE  Clerking'
<1>1. /\ ClerkTyped(c) /\ Busy(c) /\ Waits(c) /\ Gets(c) /\ clerk[c].st = "waiting"
      /\ clerk[c].config \in 0 .. (Len(configs) - 1) /\ Target(c) \in Gid
  BY DEF Clerking, ClerkTyped, CommitGet, Busy, Waits, Gets
<1>2. PICK reply : reply = ReplyIn(latest[Target(c)], clerk[c].op)
  OBVIOUS
<1>3. clerk' = [clerk EXCEPT ![c].reply = reply]
  BY <1>2 DEF CommitGet
<1>4. Becomes(c, "waiting", clerk[c].op, clerk[c].config, clerk[c].CommandId, reply,
              clerk[c].todo, clerk[c].writes)
  <2>1. \A r : clerk' = [clerk EXCEPT ![c].reply = r] =>
          Becomes(c, clerk[c].st, clerk[c].op, clerk[c].config, clerk[c].CommandId, r,
                  clerk[c].todo, clerk[c].writes)
    BY RepliesGive, ClerkingAsks
  <2> QED BY <1>1, <1>3, <2>1
<1>5. UNCHANGED <<configs, plan, latest, states, proposals, deleted, requests, result, store, seen>>
  BY DEF CommitGet, masterVars, groupVars
<1>6. /\ reply \notin {Notified}
      /\ reply.Err = "OK" => IF Gets(c) THEN reply.Value \in seen[c] ELSE Done(clerk[c].op)
  BY <1>1, <1>2, ReplyIsGood
<1>7. Owner(clerk[c].config, clerk[c].op.shard) \in Gid
  BY <1>1 DEF Target
<1> QED BY <1>1, <1>4, <1>5, <1>6, <1>7, CallKeeps

LEMMA ExitCheckKeeps ==
  ASSUME NilAssumption, InOrder, Stored, Remembered, Clerking, NEW c \in Clerk, ExitCheck(c)
  PROVE  Clerking'
<1>1. /\ ClerkTyped(c) /\ Busy(c) /\ Waits(c) /\ clerk[c].st = "waiting"
      /\ clerk[c].reply = Notified
      /\ clerk[c].config \in 0 .. (Len(configs) - 1) /\ Target(c) \in Gid
  BY DEF Clerking, ClerkTyped, ExitCheck, Busy, Waits
<1>2. PICK reply : reply = ReplyIn(latest[Target(c)], clerk[c].op)
  OBVIOUS
<1>3. clerk' = [clerk EXCEPT ![c].reply = reply]
  BY <1>2 DEF ExitCheck
<1>4. Becomes(c, "waiting", clerk[c].op, clerk[c].config, clerk[c].CommandId, reply,
              clerk[c].todo, clerk[c].writes)
  <2>1. \A r : clerk' = [clerk EXCEPT ![c].reply = r] =>
          Becomes(c, clerk[c].st, clerk[c].op, clerk[c].config, clerk[c].CommandId, r,
                  clerk[c].todo, clerk[c].writes)
    BY RepliesGive, ClerkingAsks
  <2> QED BY <1>1, <1>3, <2>1
<1>5. UNCHANGED <<configs, plan, latest, states, proposals, deleted, requests, result, store, seen>>
  BY DEF ExitCheck, masterVars, groupVars
<1>6. /\ reply \notin {Notified}
      /\ reply.Err = "OK" => IF Gets(c) THEN reply.Value \in seen[c] ELSE Done(clerk[c].op)
  BY <1>1, <1>2, ReplyIsGood
<1>7. Owner(clerk[c].config, clerk[c].op.shard) \in Gid
  BY <1>1 DEF Target
<1> QED BY <1>1, <1>4, <1>5, <1>6, <1>7, CallKeeps

LEMMA TakeReplyKeeps ==
  ASSUME NilAssumption, InOrder, Remembered, Clerking, NEW c \in Clerk, TakeReply(c)
  PROVE  Clerking'
<1>1. /\ ClerkTyped(c) /\ Busy(c) /\ Waits(c) /\ SeesSince(c) /\ Replied(c)
      /\ seen = [d \in Clerk |-> seen[d]] /\ result = [d \in Clerk |-> result[d]]
  BY DEF Clerking, TakeReply, Busy, Waits
<1>2. PICK ok : ok = (clerk[c].reply.Err = "OK")
  OBVIOUS
<1>3. /\ ok \in BOOLEAN /\ clerk[c].reply \notin {Nil, Notified}
      /\ seen' = [seen EXCEPT ![c] = IF ok THEN {} ELSE @]
      /\ \E v : result' = [result EXCEPT ![c] = v]
      /\ UNCHANGED <<configs, plan, latest, states, proposals, deleted, requests, store>>
  BY <1>2 DEF TakeReply, masterVars, groupVars
<1>4. Becomes(c, IF ok THEN "idle" ELSE "trying", clerk[c].op, clerk[c].config,
              IF ok THEN clerk[c].CommandId + 1 ELSE clerk[c].CommandId, Nil,
              clerk[c].todo, clerk[c].writes)
  BY <1>2, RepliesGive, ClerkingAsks
<1>5. /\ DOMAIN clerk' = Clerk /\ \A d \in Clerk : d # c => clerk'[d] = clerk[d]
      /\ DOMAIN clerk'[c] = {"st", "op", "config", "CommandId", "reply", "todo", "rpcs", "writes"}
      /\ clerk'[c].st = (IF ok THEN "idle" ELSE "trying") /\ clerk'[c].op = clerk[c].op
      /\ clerk'[c].config = clerk[c].config
      /\ clerk'[c].CommandId = (IF ok THEN clerk[c].CommandId + 1 ELSE clerk[c].CommandId)
      /\ clerk'[c].reply = Nil /\ clerk'[c].todo = clerk[c].todo
      /\ clerk'[c].writes = clerk[c].writes
  BY <1>4 DEF Becomes
<1>6. /\ seen' = [d \in Clerk |-> seen'[d]] /\ result' = [d \in Clerk |-> result'[d]]
      /\ \A d \in Clerk : d # c => seen'[d] = seen[d] /\ result'[d] = result[d]
      /\ seen'[c] = IF ok THEN {} ELSE seen[c]
  BY <1>1, <1>3
<1>7. Moves(c)
  BY <1>3, <1>5, <1>6 DEF Moves
<1>8. Nil # Notified
  BY DEF NilAssumption
<1>9. Waits(c)' = FALSE /\ (Busy(c)' <=> ~ok) /\ (Gets(c)' <=> ~ok /\ Gets(c))
  BY <1>1, <1>3, <1>5 DEF Waits, Busy, Gets
<1>10. Continues(c) \/ Finishes(c)
  <2>1. CASE ok
    BY <1>1, <1>2, <1>3, <1>5, <2>1 DEF Finishes, Replied
  <2>2. CASE ~ok
    BY <1>5, <1>9, <2>2 DEF Continues
  <2> QED BY <2>1, <2>2
<1>11. ClerkTyped(c)'
  BY <1>1, <1>3, <1>5, <1>9 DEF ClerkTyped
<1>12. SeesSince(c)'
  BY <1>1, <1>3, <1>5, <1>6, <1>9 DEF SeesSince
<1>13. Replied(c)'
  BY <1>5, <1>9 DEF Replied
<1> QED BY <1>7, <1>10, <1>11, <1>12, <1>13, ClerkMoves

(***************************************************************************)
(* What a commit is to the clerks.                                         *)
(***************************************************************************)
\* While a handler is on its way out its group does not get the shard back (server.go:527-538).
StaysAway ==
  \A c \in Clerk :
    /\ clerk[c].st = "waiting" /\ clerk[c].reply = Notified
    /\ Serves(latest'[Target(c)], clerk[c].op.shard)
    => Serves(latest[Target(c)], clerk[c].op.shard)

LEMMA CommitGives ==
  ASSUME NEW g, NEW op, Commit(g, op), ClerksAsk, NEW c \in Clerk
  PROVE  /\ DOMAIN clerk'[c] = DOMAIN clerk[c]
         /\ clerk'[c].st = clerk[c].st /\ clerk'[c].op = clerk[c].op
         /\ clerk'[c].config = clerk[c].config /\ clerk'[c].CommandId = clerk[c].CommandId
         /\ clerk'[c].todo = clerk[c].todo /\ clerk'[c].writes = clerk[c].writes
         /\ \/ clerk'[c].reply = clerk[c].reply
            \/ /\ clerk'[c].reply = Notified
               /\ op.OpType \in Writes /\ Waits(c) /\ clerk[c].op = op /\ Target(c) = g
         /\ (Busy(c)' <=> Busy(c)) /\ (Waits(c)' <=> Waits(c)) /\ (Gets(c)' <=> Gets(c))
         /\ Target(c)' = Target(c)
<1>1. /\ \/ clerk'[c] = clerk[c]
         \/ /\ clerk'[c] = [clerk[c] EXCEPT !.reply = Notified]
            /\ op.OpType \in Writes /\ Waits(c) /\ clerk[c].op = op /\ Target(c) = g
      /\ UNCHANGED configs
  BY DEF Commit, Waits, masterVars
<1>2. DOMAIN clerk[c] = {"st", "op", "config", "CommandId", "reply", "todo", "rpcs", "writes"}
  BY DEF ClerksAsk, Asking
<1>3. /\ DOMAIN clerk'[c] = DOMAIN clerk[c]
      /\ clerk'[c].st = clerk[c].st /\ clerk'[c].op = clerk[c].op
      /\ clerk'[c].config = clerk[c].config /\ clerk'[c].CommandId = clerk[c].CommandId
      /\ clerk'[c].todo = clerk[c].todo /\ clerk'[c].writes = clerk[c].writes
  BY <1>1, <1>2
<1>4. \/ clerk'[c].reply = clerk[c].reply
      \/ /\ clerk'[c].reply = Notified
         /\ op.OpType \in Writes /\ Waits(c) /\ clerk[c].op = op /\ Target(c) = g
  BY <1>1, <1>2
<1> QED BY <1>1, <1>3, <1>4 DEF Busy, Waits, Gets, Target, Owner

\* What is executed was not done: no group knows more than the one that serves the shard.
LEMMA ExecutesUndone ==
  ASSUME InOrder, Remembered, NEW g \in Gid, NEW op \in proposals[g],
         NEW x \in Shard, WritesTo(latest[g], op, x)
  PROVE  IsRequest(op) /\ op.OpType \in Writes /\ op.shard = x /\ ~Done(op)
<1>1. /\ IsRequest(op) /\ op.OpType \in Writes /\ op.shard = x /\ Serves(latest[g], x)
      /\ op.CommandId > TableOf(g, x)[op.ClientId]
  BY DEF WritesTo, Executes, TableOf, Remembered, TablesTyped
<1>2. op.ClientId \in Clerk /\ op.CommandId \in Nat
  BY <1>1 DEF IsRequest
<1> SUFFICES ASSUME NEW h \in Gid, TableOf(h, x)[op.ClientId] >= op.CommandId PROVE FALSE
  BY <1>1 DEF Done
<1>3. TableOf(h, x)[op.ClientId] <= TableOf(g, x)[op.ClientId]
  BY <1>1, <1>2 DEF Remembered, ServedKnows, NoneKnowsMore
<1>4. TableOf(h, x)[op.ClientId] \in Nat /\ TableOf(g, x)[op.ClientId] \in Nat
  BY <1>2, TableIsTyped
<1> QED BY <1>1, <1>2, <1>3, <1>4

\* Only what a clerk is at is executed: what it was at before is known where the shard is.
LEMMA ExecutesCurrent ==
  ASSUME InOrder, Remembered, Clerking, NEW g \in Gid, NEW op \in proposals[g],
         NEW x \in Shard, WritesTo(latest[g], op, x)
  PROVE  /\ IsRequest(op) /\ op.ClientId \in Clerk /\ op.CommandId = clerk[op.ClientId].CommandId
         /\ Busy(op.ClientId) /\ clerk[op.ClientId].op = op /\ ~Done(op)
<1>1. IsRequest(op) /\ op.OpType \in Writes /\ ~Done(op)
  BY ExecutesUndone
<1>2. op.ClientId \in Clerk /\ op.CommandId \in Nat
  BY <1>1 DEF IsRequest
<1>3. clerk[op.ClientId].CommandId \in Nat
  BY <1>2 DEF Clerking, ClerkTyped
<1>4. /\ op.CommandId <= clerk[op.ClientId].CommandId
      /\ op.CommandId = clerk[op.ClientId].CommandId =>
           Busy(op.ClientId) /\ clerk[op.ClientId].op = op
      /\ op.CommandId < clerk[op.ClientId].CommandId => Done(op)
  BY <1>1 DEF Clerking, AskedOnce
<1> QED BY <1>1, <1>2, <1>3, <1>4

\* What is executed is done.
LEMMA ExecutedIsDone ==
  ASSUME InOrder, Stored, Remembered, NEW g \in Gid, NEW op, Commit(g, op), NEW x \in Shard,
         WritesTo(latest[g], op, x)
  PROVE  /\ TableOf(g, x)' = [TableOf(g, x) EXCEPT ![op.ClientId] = op.CommandId] /\ Done(op)'
<1>1. /\ Commits(g, op) /\ op \in proposals[g] /\ DataStep(latest[g], latest'[g], op, x)
  BY CommitData DEF Stored
<1>2. TableOf(g, x)' = [TableOf(g, x) EXCEPT ![op.ClientId] = op.CommandId]
  BY <1>1 DEF DataStep, TableOf
<1>3. IsRequest(op) /\ op.shard = x
  BY <1>1 DEF WritesTo, Remembered, TablesTyped
<1>4. op.ClientId \in Clerk /\ op.CommandId \in Nat
  BY <1>3 DEF IsRequest
<1>5. TableOf(g, x) \in [Clerk -> Nat]
  <2>1. TableOf(g, x) \in Table
    BY <1>4, TableIsTyped
  <2> QED BY <2>1 DEF Table
<1>6. TableOf(g, x)'[op.ClientId] >= op.CommandId
  BY <1>2, <1>4, <1>5
<1>7. Done(op)'
  BY <1>3, <1>6 DEF Done, TableOf
<1> QED BY <1>2, <1>7

\* A write that was agreed on is done, or the group does not serve the shard.
LEMMA CommitTells ==
  ASSUME ShardConfigAssumption, InOrder, Handover, Stored, Held, Remembered,
         NEW g \in Gid, NEW op, Commit(g, op), op.OpType \in Writes
  PROVE  Done(op)' \/ ~Serves(latest'[g], op.shard)
<1>1. /\ Commits(g, op) /\ op \in proposals[g]
  BY CommitData DEF Stored
<1>2. IsRequest(op)
  BY <1>1 DEF Remembered, TablesTyped
<1>3. PICK x \in Shard : x = op.shard
  BY <1>2 DEF IsRequest
<1>4. CASE WritesTo(latest[g], op, x)
  BY <1>4, ExecutedIsDone
<1>5. CASE ~WritesTo(latest[g], op, x) /\ Serves(latest[g], x)
  <2>1. ~(op.CommandId > TableOf(g, x)[op.ClientId])
    BY <1>3, <1>5 DEF WritesTo, Executes, TableOf
  <2>2. TableOf(g, x)[op.ClientId] \in Nat /\ op.CommandId \in Nat
    BY <1>2, TableIsTyped DEF IsRequest
  <2>3. Done(op)
    BY <1>3, <2>1, <2>2 DEF Done
  <2> QED BY <1>2, <2>3, DoneStays
<1>6. CASE ~WritesTo(latest[g], op, x) /\ ~Serves(latest[g], x)
  <2>1. latest'[g] = Apply(g, latest[g], op)
    BY <1>1 DEF Commits, InOrder, Domains
  <2>2. Apply(g, latest[g], op) = applyClientOperation(latest[g], op)
    BY DEF Apply, Writes
  <2>3. latest'[g] = latest[g]
    BY <1>3, <1>6, <2>1, <2>2 DEF applyClientOperation, Executes
  <2> QED BY <1>3, <1>6, <2>3
<1> QED BY <1>4, <1>5, <1>6

LEMMA CommitKeeps ==
  ASSUME ShardConfigAssumption, NilAssumption, InOrder, Handover, Stored, Held, Remembered,
         Clerking, NEW g \in Gid, NEW op, Commit(g, op), StaysAway
  PROVE  Clerking'
<1>1. /\ Commits(g, op) /\ op \in proposals[g] /\ DOMAIN store = Shard
      /\ UNCHANGED <<configs, proposals, requests, result>>
  BY CommitData DEF Stored, Commit, Commits
<1>2. ASSUME NEW c \in Clerk
      PROVE  /\ DOMAIN clerk'[c] = DOMAIN clerk[c]
             /\ clerk'[c].st = clerk[c].st /\ clerk'[c].op = clerk[c].op
             /\ clerk'[c].config = clerk[c].config /\ clerk'[c].CommandId = clerk[c].CommandId
             /\ clerk'[c].todo = clerk[c].todo /\ clerk'[c].writes = clerk[c].writes
             /\ \/ clerk'[c].reply = clerk[c].reply
                \/ /\ clerk'[c].reply = Notified
                   /\ op.OpType \in Writes /\ Waits(c) /\ clerk[c].op = op /\ Target(c) = g
             /\ (Busy(c)' <=> Busy(c)) /\ (Waits(c)' <=> Waits(c)) /\ (Gets(c)' <=> Gets(c))
             /\ Target(c)' = Target(c)
  BY CommitGives, ClerkingAsks
<1>3. /\ DOMAIN clerk' = Clerk /\ result = [c \in Clerk |-> result[c]]
      /\ seen' = [c \in Clerk |->
                    IF seen[c] = {} THEN {} ELSE seen[c] \cup {store'[clerk[c].op.shard]}]
  BY DEF Commit, Clerking
<1>4. \A w : IsRequest(w) /\ Done(w) => Done(w)'
  BY DoneStays
<1>5. AskedOnce'
  <2> SUFFICES ASSUME NEW h \in Gid, NEW w \in requests[h] \cup proposals[h], w.OpType \in Writes
               PROVE  LET k == clerk'[w.ClientId]
                      IN  /\ w.CommandId <= k.CommandId
                          /\ w.CommandId = k.CommandId => Busy(w.ClientId)' /\ k.op = w
                          /\ w.CommandId < k.CommandId => Done(w)'
    BY <1>1 DEF AskedOnce
  <2>1. IsRequest(w) /\ w.ClientId \in Clerk
    BY DEF Remembered, TablesTyped, IsRequest
  <2>2. /\ w.CommandId <= clerk[w.ClientId].CommandId
        /\ w.CommandId = clerk[w.ClientId].CommandId =>
             Busy(w.ClientId) /\ clerk[w.ClientId].op = w
        /\ w.CommandId < clerk[w.ClientId].CommandId => Done(w)
    BY DEF Clerking, AskedOnce
  <2> QED BY <1>2, <1>4, <2>1, <2>2
<1>6. KnownIsAsked'
  <2> SUFFICES ASSUME NEW h \in Gid, NEW x \in Shard, NEW d \in Clerk
               PROVE  /\ TableOf(h, x)'[d] <= clerk[d].CommandId
                      /\ ~Busy(d) => TableOf(h, x)'[d] # clerk[d].CommandId
    BY <1>2 DEF KnownIsAsked, TableOf
  <2>1. \A k \in Gid : /\ TableOf(k, x)[d] <= clerk[d].CommandId
                       /\ ~Busy(d) => TableOf(k, x)[d] # clerk[d].CommandId
    BY DEF Clerking, KnownIsAsked
  <2>2. CASE ~WritesTo(latest[g], op, x)
    <3>1. TableOf(h, x)' = NoData.ClientSeq \/ \E k \in Gid : TableOf(h, x)' = TableOf(k, x)
      BY <2>2, NobodyLearns
    <3>2. NoData.ClientSeq[d] = 0 /\ clerk[d].CommandId \in Nat \ {0}
      BY DEF NoData, Clerking, ClerkTyped
    <3> QED BY <2>1, <3>1, <3>2
  <2>3. CASE WritesTo(latest[g], op, x) /\ h # g
    <3>1. latest'[h] = latest[h]
      BY <1>1, <2>3, CommitMoves
    <3> QED BY <2>1, <3>1 DEF TableOf
  <2>4. CASE WritesTo(latest[g], op, x) /\ h = g
    <3>1. TableOf(g, x)' = [TableOf(g, x) EXCEPT ![op.ClientId] = op.CommandId]
      BY <2>4, ExecutedIsDone
    <3>2. /\ op.ClientId \in Clerk /\ op.CommandId = clerk[op.ClientId].CommandId
          /\ Busy(op.ClientId)
      BY <1>1, <2>4, ExecutesCurrent
    <3>3. TableOf(g, x) \in [Clerk -> Nat] /\ clerk[d].CommandId \in Nat
      BY TableIsTyped DEF Table, Clerking, ClerkTyped
    <3>4. TableOf(g, x)'[d] = IF d = op.ClientId THEN op.CommandId ELSE TableOf(g, x)[d]
      BY <3>1, <3>3
    <3> QED BY <2>1, <2>4, <3>2, <3>3, <3>4
  <2> QED BY <2>2, <2>3, <2>4
<1>7. ASSUME NEW c \in Clerk PROVE ClerkTyped(c)'
  <2>1. ClerkTyped(c)
    BY DEF Clerking
  <2>2. ~Busy(c) => clerk'[c].reply = Nil
    BY <1>2, <2>1 DEF ClerkTyped, Busy, Waits
  <2> QED BY <1>1, <1>2, <2>1, <2>2 DEF ClerkTyped
<1>8. ASSUME NEW c \in Clerk PROVE SeesSince(c)'
  <2>1. SeesSince(c)
    BY DEF Clerking
  <2>2. seen'[c] = IF seen[c] = {} THEN {} ELSE seen[c] \cup {store'[clerk[c].op.shard]}
    BY <1>3
  <2> QED BY <1>2, <2>1, <2>2 DEF SeesSince
<1>9. ASSUME NEW c \in Clerk PROVE Replied(c)'
  <2>1. Replied(c)
    BY DEF Clerking
  <2>2. seen[c] \subseteq seen'[c]
    BY <1>3
  <2>3. PICK w : w = clerk[c].op
    OBVIOUS
  <2>4. Waits(c) => Busy(c)
    BY DEF Waits, Busy
  <2>5. Busy(c) /\ Done(w) => Done(w)'
    <3>1. Busy(c) => IsRequest(w)
      BY <2>3 DEF Clerking, ClerkTyped
    <3> QED BY <1>4, <3>1
  <2>6. ASSUME Busy(c), clerk'[c].reply \notin {Nil, Notified}, clerk'[c].reply.Err = "OK"
        PROVE  /\ Gets(c) => clerk'[c].reply.Value \in seen'[c]
               /\ ~Gets(c) => Done(w)'
    <3>1. clerk'[c].reply = clerk[c].reply
      BY <1>2, <2>6
    <3> QED BY <2>1, <2>2, <2>3, <2>5, <2>6, <3>1 DEF Replied
  <2>7. ASSUME Waits(c), clerk'[c].reply = Notified
        PROVE  ~Gets(c) /\ (Done(w)' \/ ~Serves(latest'[Target(c)], w.shard))
    <3>1. CASE clerk'[c].reply = clerk[c].reply
      <4>1. clerk[c].st = "waiting" /\ clerk[c].reply = Notified
        BY <2>7, <3>1 DEF Waits
      <4>2. ~Gets(c) /\ (Done(w) \/ ~Serves(latest[Target(c)], w.shard))
        BY <2>1, <2>3, <2>7, <4>1 DEF Replied
      <4>3. Serves(latest'[Target(c)], w.shard) => Serves(latest[Target(c)], w.shard)
        BY <2>3, <4>1 DEF StaysAway
      <4> QED BY <2>4, <2>5, <2>7, <4>2, <4>3
    <3>2. CASE op.OpType \in Writes /\ Waits(c) /\ clerk[c].op = op /\ Target(c) = g
      <4>1. Done(op)' \/ ~Serves(latest'[g], op.shard)
        BY <3>2, CommitTells
      <4>2. ~Gets(c)
        BY <3>2 DEF Gets, Writes
      <4>3. w = op /\ Target(c) = g
        BY <2>3, <3>2
      <4> QED BY <4>1, <4>2, <4>3
    <3> QED BY <1>2, <2>7, <3>1, <3>2
  <2>8. clerk'[c].op = w
    BY <1>2, <2>3
  <2>9. Done(clerk[c].op)' = Done(w)' /\ Serves(latest[Target(c)], clerk[c].op.shard)' =
          Serves(latest'[Target(c)], w.shard)
    BY <1>2, <2>8 DEF Done, TableOf, Serves
  <2> QED BY <1>2, <2>6, <2>7, <2>9 DEF Replied
<1>10. seen' = [c \in Clerk |-> seen'[c]] /\ result' = [c \in Clerk |-> result'[c]]
  BY <1>1, <1>3
<1> QED BY <1>3, <1>5, <1>6, <1>7, <1>8, <1>9, <1>10 DEF Clerking

(***************************************************************************)
(* The other steps.                                                        *)
(***************************************************************************)
LEMMA OtherKeeps ==
  ASSUME InOrder, Clerking, UNCHANGED <<clerk, seen, result, latest, store>>,
         Reconfigure \/ UNCHANGED configs,
         \A g \in Gid : \A op \in requests'[g] \cup proposals'[g] :
           op \in requests[g] \cup proposals[g] \/ op.OpType \notin Writes
  PROVE  Clerking'
<1>1. /\ Len(configs') >= Len(configs) /\ Len(configs) \in Nat /\ Len(configs') \in Nat
      /\ \A i \in 1 .. Len(configs) : configs'[i] = configs[i]
  <2>1. CASE Reconfigure
    <3>1. /\ Len(configs') = Len(configs) + 1 /\ Len(configs) \in Nat
          /\ \A i \in 1 .. Len(configs) : configs'[i] = configs[i]
      BY <2>1, ReconfigureStep DEF InOrder, Numbered
    <3> QED BY <3>1
  <2>2. CASE UNCHANGED configs
    BY <2>2 DEF InOrder, Numbered
  <2> QED BY <2>1, <2>2
<1>2. \A w : Done(w)' <=> Done(w)
  BY DEF Done, TableOf
<1>3. \A c \in Clerk : (Busy(c)' <=> Busy(c)) /\ (Waits(c)' <=> Waits(c)) /\ (Gets(c)' <=> Gets(c))
  BY DEF Busy, Waits, Gets
<1>4. AskedOnce'
  <2> SUFFICES ASSUME NEW h \in Gid, NEW w \in requests'[h] \cup proposals'[h], w.OpType \in Writes
               PROVE  LET k == clerk[w.ClientId]
                      IN  /\ w.CommandId <= k.CommandId
                          /\ w.CommandId = k.CommandId => Busy(w.ClientId)' /\ k.op = w
                          /\ w.CommandId < k.CommandId => Done(w)'
    BY DEF AskedOnce
  <2>1. w \in requests[h] \cup proposals[h]
    OBVIOUS
  <2>2. Busy(w.ClientId)' <=> Busy(w.ClientId)
    BY DEF Busy
  <2> QED BY <1>2, <2>1, <2>2 DEF Clerking, AskedOnce
<1>5. KnownIsAsked'
  <2>1. \A c : Busy(c)' <=> Busy(c)
    BY DEF Busy
  <2> QED BY <2>1 DEF Clerking, KnownIsAsked, TableOf
<1>6. ASSUME NEW c \in Clerk PROVE ClerkTyped(c)' /\ SeesSince(c)' /\ Replied(c)'
  <2>1. /\ ClerkTyped(c) /\ SeesSince(c) /\ Replied(c)
        /\ clerk[c].config \in 0 .. (Len(configs) - 1)
    BY DEF Clerking, ClerkTyped
  <2>2. clerk[c].config + 1 \in 1 .. Len(configs) /\ clerk[c].config \in 0 .. (Len(configs') - 1)
    BY <1>1, <2>1
  <2>3. configs'[clerk[c].config + 1] = configs[clerk[c].config + 1]
    BY <1>1, <2>2
  <2>4. Target(c)' = Target(c)
    BY <2>3 DEF Target, Owner
  <2>5. ClerkTyped(c)'
    BY <1>3, <2>1, <2>2, <2>4 DEF ClerkTyped
  <2>6. SeesSince(c)'
    BY <1>3, <2>1 DEF SeesSince
  <2>7. Done(clerk[c].op)' <=> Done(clerk[c].op)
    BY DEF Done, TableOf
  <2>8. Replied(c)'
    BY <1>3, <2>1, <2>4, <2>7 DEF Replied, Serves
  <2> QED BY <2>5, <2>6, <2>8
<1> QED BY <1>4, <1>5, <1>6 DEF Clerking

\* What the groups' tickers and handlers do to what is asked.
LEMMA TicksGive ==
  ASSUME InOrder, NEW g \in Gid, Ticks(g)
  PROVE  /\ UNCHANGED <<configs, latest, states, store, requests, clerk, seen, result>>
         /\ \A h \in Gid : \A op \in proposals'[h] : op \in proposals[h] \/ op.OpType \notin Writes
<1>1. UNCHANGED <<configs, latest, states, store, requests, clerk, seen, result>>
  BY DEF Ticks, ConfigTick, MigrationTick, GCTick, GCAcknowledged, masterVars, clerkVars
<1>2. \E h, op : Propose(h, op) /\ op.OpType \notin Writes
  <2>1. CASE ConfigTick(g)
    <3>1. PICK op : Propose(g, op) /\ op.OpType = "UpdateConfig"
      BY <2>1 DEF ConfigTick
    <3> QED BY <3>1 DEF Writes
  <2>2. ASSUME NEW x \in Shard, MigrationTick(g, x)
        PROVE  \E h, op : Propose(h, op) /\ op.OpType \notin Writes
    <3>1. PICK op : Propose(g, op) /\ op.OpType = "InsertShard"
      BY <2>2 DEF MigrationTick
    <3> QED BY <3>1 DEF Writes
  <2>3. ASSUME NEW x \in Shard, GCTick(g, x)
        PROVE  \E h, op : Propose(h, op) /\ op.OpType \notin Writes
    <3>1. PICK h, num : Propose(h, Deletion(x, num))
      BY <2>3 DEF GCTick
    <3>2. Deletion(x, num).OpType \notin Writes
      BY DEF Deletion, Writes
    <3> QED BY <3>1, <3>2
  <2>4. ASSUME NEW x \in Shard, GCAcknowledged(g, x)
        PROVE  \E h, op : Propose(h, op) /\ op.OpType \notin Writes
    <3>1. PICK op : Propose(g, op) /\ op.OpType = "GCComplete"
      BY <2>4 DEF GCAcknowledged
    <3> QED BY <3>1 DEF Writes
  <2> QED BY <2>1, <2>2, <2>3, <2>4 DEF Ticks
<1>3. PICK h, op : Propose(h, op) /\ op.OpType \notin Writes
  BY <1>2
<1>4. \A k \in Gid : proposals'[k] \subseteq proposals[k] \cup {op}
  BY <1>3 DEF Propose, InOrder, Domains
<1> QED BY <1>1, <1>3, <1>4

LEMMA AcceptGives ==
  ASSUME InOrder, NEW g \in Gid, NEW op \in requests[g], Accept(g, op)
  PROVE  /\ UNCHANGED <<configs, latest, states, store, clerk, seen, result>>
         /\ \A h \in Gid : requests'[h] \subseteq requests[h]
         /\ \A h \in Gid : \A w \in proposals'[h] : w \in proposals[h] \/ w \in requests[h]
<1>1. /\ UNCHANGED <<configs, latest, states, store, clerk, seen, result>>
      /\ requests' = [requests EXCEPT ![g] = @ \ {op}]
      /\ proposals' = [proposals EXCEPT ![g] = @ \cup {op}]
  BY DEF Accept, Propose, masterVars
<1> QED BY <1>1 DEF InOrder, Domains

LEMMA RememberedStep ==
  ASSUME ShardConfigAssumption, InOrder, Handover, NeverOrphaned, Stored, Remembered, ClerksAsk,
         [Next]_vars
  PROVE  Remembered'
<1>1. CASE Reconfigure
  BY <1>1, ReconfigureRemembers
<1>2. CASE \E g \in Gid : \E op \in proposals[g] : Commit(g, op)
  BY <1>2, CommitRemembers
<1>3. CASE \E g \in Gid, x \in Shard : MigrationTick(g, x)
  BY <1>3, MigrationRemembers
<1>4. \A g \in Gid : \A op \in requests[g] : op.OpType \in Writes /\ IsRequest(op)
  BY DEF InOrder, GivenWhenSettled, Remembered, TablesTyped
<1>5. CASE \E g \in Gid : ConfigTick(g) \/ \E x \in Shard : GCTick(g, x) \/ GCAcknowledged(g, x)
  <2>1. PICK g \in Gid : ConfigTick(g) \/ \E x \in Shard : GCTick(g, x) \/ GCAcknowledged(g, x)
    BY <1>5
  <2>2. UNCHANGED <<configs, latest, states, store, requests>>
    BY <2>1 DEF ConfigTick, GCTick, GCAcknowledged, masterVars, clerkVars
  <2>3. \E h, op : Propose(h, op) /\ op.OpType \notin Writes \cup {"InsertShard"}
    <3>1. CASE ConfigTick(g)
      <4>1. PICK op : Propose(g, op) /\ op.OpType = "UpdateConfig"
        BY <3>1 DEF ConfigTick
      <4> QED BY <4>1 DEF Writes
    <3>2. CASE \E x \in Shard : GCTick(g, x)
      <4>1. PICK h, x, num : Propose(h, Deletion(x, num))
        BY <3>2 DEF GCTick
      <4>2. Deletion(x, num).OpType \notin Writes \cup {"InsertShard"}
        BY DEF Deletion, Writes
      <4> QED BY <4>1, <4>2
    <3>3. CASE \E x \in Shard : GCAcknowledged(g, x)
      <4>1. PICK op : Propose(g, op) /\ op.OpType = "GCComplete"
        BY <3>3 DEF GCAcknowledged
      <4> QED BY <4>1 DEF Writes
    <3> QED BY <2>1, <3>1, <3>2, <3>3
  <2>4. PICK h, op : Propose(h, op) /\ op.OpType \notin Writes \cup {"InsertShard"}
    BY <2>3
  <2>5. \A k \in Gid : proposals'[k] \subseteq proposals[k] \cup {op}
    BY <2>4 DEF Propose, InOrder, Domains
  <2>6. \A k \in Gid : \A w \in proposals'[k] :
          w \in proposals[k] \/ w \in requests[k] \/ w.OpType \notin Writes \cup {"InsertShard"}
    BY <2>4, <2>5
  <2>7. /\ \A k \in Gid : \A w \in requests[k] : w.OpType \in Writes
        /\ \A k \in Gid : \A w \in requests'[k] : IsRequest(w)
    BY <1>4, <2>2
  <2> QED BY <2>2, <2>6, <2>7, OtherRemembers
<1>6. CASE \E g \in Gid : \E op \in requests[g] : Accept(g, op)
  <2>1. /\ UNCHANGED <<configs, latest, states, store>>
        /\ \A h \in Gid : requests'[h] \subseteq requests[h]
        /\ \A h \in Gid : \A w \in proposals'[h] : w \in proposals[h] \/ w \in requests[h]
    BY <1>6, AcceptGives
  <2>2. /\ \A k \in Gid : \A w \in requests[k] : w.OpType \in Writes
        /\ \A k \in Gid : \A w \in requests'[k] : IsRequest(w)
    BY <1>4, <2>1
  <2> QED BY <2>1, <2>2, OtherRemembers
<1>7. CASE \E c \in Clerk : ClerkStep(c)
  <2>1. PICK c \in Clerk : ClerkStep(c)
    BY <1>7
  <2>2. UNCHANGED <<configs, latest, states, proposals, store>>
    BY <2>1 DEF ClerkStep, Invoke, CallGroup, CallFails, LearnConfig, TakeReply, CommitGet,
                ExitCheck, masterVars, groupVars
  <2>3. \A g \in Gid : \A op \in requests'[g] : IsRequest(op)
    <3>1. CASE UNCHANGED requests
      BY <1>4, <3>1
    <3>2. CASE CallGroup(c)
      <4>1. IsRequest(clerk[c].op)
        BY <3>2 DEF ClerksAsk, Asking, CallGroup, Busy
      <4>2. \A g \in Gid : requests'[g] \subseteq requests[g] \cup {clerk[c].op}
        BY <3>2 DEF CallGroup, InOrder, Domains
      <4> QED BY <1>4, <4>1, <4>2
    <3> QED BY <2>1, <3>1, <3>2 DEF ClerkStep, Invoke, CallFails, LearnConfig, TakeReply,
                                    CommitGet, ExitCheck
  <2>4. \A g \in Gid : \A w \in requests[g] : w.OpType \in Writes
    BY <1>4
  <2> QED BY <2>2, <2>3, <2>4, OtherRemembers
<1>8. CASE UNCHANGED vars
  <2>1. UNCHANGED <<configs, latest, states, proposals, store, requests>>
    BY <1>8 DEF vars, masterVars, groupVars, clerkVars
  <2>2. /\ \A g \in Gid : \A w \in requests[g] : w.OpType \in Writes
        /\ \A g \in Gid : \A w \in requests'[g] : IsRequest(w)
    BY <1>4, <2>1
  <2> QED BY <2>1, <2>2, OtherRemembers
<1> QED BY <1>1, <1>2, <1>3, <1>5, <1>6, <1>7, <1>8 DEF Next, GroupStep, Ticks

LEMMA ClerkingStep ==
  ASSUME ShardConfigAssumption, NilAssumption, AnyGet = FALSE,
         InOrder, Handover, NeverOrphaned, Stored, Held, Remembered, Clerking,
         [Next]_vars, [StaysAway]_vars
  PROVE  Clerking'
<1>1. CASE Reconfigure
  <2>1. UNCHANGED <<clerk, seen, result, latest, store, requests, proposals>>
    BY <1>1 DEF Reconfigure, groupVars, clerkVars
  <2> QED BY <1>1, <2>1, OtherKeeps
<1>2. ASSUME NEW g \in Gid, NEW op \in proposals[g], Commit(g, op), StaysAway
      PROVE  Clerking'
  BY <1>2, CommitKeeps
<1>3. ASSUME NEW g \in Gid, Ticks(g) PROVE Clerking'
  <2>1. /\ UNCHANGED <<configs, latest, store, requests, clerk, seen, result>>
        /\ \A h \in Gid : \A op \in proposals'[h] : op \in proposals[h] \/ op.OpType \notin Writes
    BY <1>3, TicksGive
  <2> QED BY <2>1, OtherKeeps
<1>4. ASSUME NEW g \in Gid, NEW op \in requests[g], Accept(g, op) PROVE Clerking'
  <2>1. /\ UNCHANGED <<configs, latest, store, clerk, seen, result>>
        /\ \A h \in Gid : requests'[h] \subseteq requests[h]
        /\ \A h \in Gid : \A w \in proposals'[h] : w \in proposals[h] \/ w \in requests[h]
    BY <1>4, AcceptGives
  <2>2. \A h \in Gid : \A w \in requests'[h] \cup proposals'[h] :
          w \in requests[h] \cup proposals[h] \/ w.OpType \notin Writes
    BY <2>1
  <2> QED BY <2>1, <2>2, OtherKeeps
<1>5. ASSUME NEW c \in Clerk, ClerkStep(c) PROVE Clerking'
  BY <1>5, InvokeKeeps, CallGroupKeeps, CallFailsKeeps, LearnConfigKeeps, TakeReplyKeeps,
     CommitGetKeeps, ExitCheckKeeps DEF ClerkStep
<1>6. CASE UNCHANGED vars
  <2>1. UNCHANGED <<configs, clerk, seen, result, latest, store, requests, proposals>>
    BY <1>6 DEF vars, masterVars, groupVars, clerkVars
  <2> QED BY <2>1, OtherKeeps
<1>7. CASE Next /\ ~UNCHANGED vars
  BY <1>1, <1>2, <1>3, <1>4, <1>5, <1>7 DEF Next, GroupStep
<1> QED BY <1>6, <1>7

(***************************************************************************)
(* The data and the table of a shard stay together.                        *)
(***************************************************************************)
\* What clerks ask are requests, whoever serves them and whatever they are told.
LEMMA AskingStep ==
  ASSUME ClerksAsk, [Next]_vars
  PROVE  ClerksAsk'
<1>1. CASE UNCHANGED clerk
  BY <1>1 DEF ClerksAsk, Asking, Busy
<1>2. ASSUME NEW c \in Clerk, NEW st, NEW op, NEW config, NEW id \in Nat \ {0}, NEW reply,
             NEW todo \in Seq({"Put", "Append", "Get"} \X Shard), NEW writes \in Nat,
             Becomes(c, st, op, config, id, reply, todo, writes), st # "idle" => IsRequest(op)
      PROVE  ClerksAsk'
  <2>1. /\ DOMAIN clerk' = Clerk /\ \A d \in Clerk : d # c => clerk'[d] = clerk[d]
        /\ DOMAIN clerk'[c] = {"st", "op", "config", "CommandId", "reply", "todo", "rpcs", "writes"}
        /\ clerk'[c].st = st /\ clerk'[c].op = op /\ clerk'[c].CommandId = id
        /\ clerk'[c].todo = todo /\ clerk'[c].writes = writes
    BY <1>2 DEF Becomes
  <2>2. Asking(c)'
    BY <1>2, <2>1 DEF Asking, Busy
  <2>3. ASSUME NEW d \in Clerk, d # c PROVE Asking(d)'
    BY <2>1, <2>3 DEF ClerksAsk, Asking, Busy
  <2> QED BY <2>1, <2>2, <2>3 DEF ClerksAsk
<1>3. ASSUME NEW c \in Clerk, ClerkStep(c) PROVE ClerksAsk'
  <2>1. /\ clerk[c].CommandId \in Nat \ {0} /\ clerk[c].writes \in Nat
        /\ clerk[c].todo \in Seq({"Put", "Append", "Get"} \X Shard)
        /\ clerk[c].st # "idle" => IsRequest(clerk[c].op)
    BY DEF ClerksAsk, Asking, Busy
  <2>2. CASE Invoke(c)
    <3>1. PICK kind, x, n :
            /\ kind \in Kinds /\ x \in Shard
            /\ n = clerk[c].writes + (IF kind \in Writes THEN 1 ELSE 0)
            /\ Tail(clerk[c].todo) \in Seq({"Put", "Append", "Get"} \X Shard)
            /\ Becomes(c, "trying", [OpType |-> kind, shard |-> x, Value |-> <<c, n>>,
                                     ClientId |-> c, CommandId |-> clerk[c].CommandId],
                       clerk[c].config, clerk[c].CommandId, clerk[c].reply,
                       Tail(clerk[c].todo), n)
      BY <2>2, InvokeGives
    <3>2. PICK op : op = [OpType |-> kind, shard |-> x, Value |-> <<c, n>>,
                          ClientId |-> c, CommandId |-> clerk[c].CommandId]
      OBVIOUS
    <3>3. n \in Nat
      BY <2>1, <3>1
    <3>4. IsRequest(op)
      BY <2>1, <3>1, <3>2, <3>3 DEF IsRequest
    <3> QED BY <1>2, <2>1, <3>1, <3>2, <3>3, <3>4
  <2>3. CASE CallGroup(c) \/ CallFails(c) \/ LearnConfig(c)
    <3>1. clerk[c].st # "idle"
      BY <2>3 DEF CallGroup, CallFails, LearnConfig
    <3> QED BY <1>2, <2>1, <2>3, <3>1, CallsGive
  <2>4. CASE TakeReply(c)
    <3>1. clerk[c].st # "idle"
      BY <2>4 DEF TakeReply
    <3>2. clerk[c].CommandId + 1 \in Nat \ {0}
      BY <2>1
    <3> QED BY <1>2, <2>1, <2>4, <3>1, <3>2, RepliesGive
  <2>5. CASE CommitGet(c) \/ ExitCheck(c)
    <3>1. PICK reply : clerk' = [clerk EXCEPT ![c].reply = reply]
      BY <2>5 DEF CommitGet, ExitCheck
    <3>2. Becomes(c, clerk[c].st, clerk[c].op, clerk[c].config, clerk[c].CommandId, reply,
                  clerk[c].todo, clerk[c].writes)
      BY <3>1, RepliesGive
    <3> QED BY <1>2, <2>1, <3>2
  <2> QED BY <1>3, <2>2, <2>3, <2>4, <2>5 DEF ClerkStep
<1>4. ASSUME NEW g \in Gid, NEW op, Commit(g, op) PROVE ClerksAsk'
  <2>1. DOMAIN clerk' = Clerk
    BY <1>4 DEF Commit
  <2>2. ASSUME NEW c \in Clerk PROVE Asking(c)'
    <3>1. /\ DOMAIN clerk'[c] = DOMAIN clerk[c] /\ clerk'[c].op = clerk[c].op
          /\ clerk'[c].CommandId = clerk[c].CommandId /\ clerk'[c].todo = clerk[c].todo
          /\ clerk'[c].writes = clerk[c].writes /\ (Busy(c)' <=> Busy(c))
      BY <1>4, CommitGives
    <3> QED BY <3>1 DEF ClerksAsk, Asking
  <2> QED BY <2>1, <2>2 DEF ClerksAsk
<1>5. CASE Reconfigure \/ UNCHANGED vars
  BY <1>1, <1>5 DEF Reconfigure, vars, clerkVars
<1>6. ASSUME NEW g \in Gid, Ticks(g) PROVE UNCHANGED clerk
  BY <1>6 DEF Ticks, ConfigTick, MigrationTick, GCTick, GCAcknowledged, clerkVars
<1>7. ASSUME NEW g \in Gid, NEW op, Accept(g, op) PROVE UNCHANGED clerk
  BY <1>7 DEF Accept
<1> QED BY <1>1, <1>3, <1>4, <1>5, <1>6, <1>7 DEF Next, GroupStep

\* The groups know, together, of every write that was executed and of no other.
KnownIsDone ==
  /\ known \in [Shard -> Table]
  /\ \A w : IsRequest(w) => (Done(w) <=> known[w.shard][w.ClientId] >= w.CommandId)

LEMMA KnownInit ==
  ASSUME Init
  PROVE  KnownIsDone
<1>1. known = [x \in Shard |-> [c \in Clerk |-> 0]]
  BY DEF Init, NoData
<1>2. ASSUME NEW w, IsRequest(w) PROVE Done(w) <=> known[w.shard][w.ClientId] >= w.CommandId
  <2>1. w.shard \in Shard /\ w.ClientId \in Clerk /\ w.CommandId \in Nat \ {0}
    BY <1>2 DEF IsRequest
  <2>2. \A g \in Gid : TableOf(g, w.shard)[w.ClientId] = 0
    BY <2>1 DEF Init, TableOf, EmptyState, EmptyShard, NoData
  <2>3. known[w.shard][w.ClientId] = 0
    BY <1>1, <2>1
  <2> QED BY <2>1, <2>2, <2>3 DEF Done
<1> QED BY <1>1, <1>2 DEF KnownIsDone, Table

\* A write that is executed is known from then on, and nothing else comes to be.
LEMMA CommitIsKnown ==
  ASSUME ShardConfigAssumption, InOrder, Handover, Stored, Held, Remembered, KnownIsDone,
         NEW g \in Gid, NEW op, Commit(g, op)
  PROVE  KnownIsDone'
<1>1. /\ op \in proposals[g]
      /\ known' = IF op.OpType \in Writes /\ Executes(latest[g], op)
                    THEN [known EXCEPT ![op.shard][op.ClientId] = op.CommandId] ELSE known
  BY DEF Commit
<1>2. known \in [Shard -> [Clerk -> Nat]]
  BY DEF KnownIsDone, Table
<1>3. ASSUME NEW w, IsRequest(w)
      PROVE  /\ w.shard \in Shard /\ w.ClientId \in Clerk /\ w.CommandId \in Nat
             /\ known[w.shard][w.ClientId] \in Nat
             /\ Done(w) <=> known[w.shard][w.ClientId] >= w.CommandId
             /\ Done(w) => Done(w)'
             /\ Done(w)' /\ ~Done(w) => /\ WritesTo(latest[g], op, w.shard)
                                        /\ op.ClientId = w.ClientId /\ op.CommandId >= w.CommandId
  <2>1. w.shard \in Shard /\ w.ClientId \in Clerk /\ w.CommandId \in Nat
    BY <1>3 DEF IsRequest
  <2>2. known[w.shard][w.ClientId] \in Nat
    BY <1>2, <2>1
  <2>3. Done(w) <=> known[w.shard][w.ClientId] >= w.CommandId
    BY <1>3 DEF KnownIsDone
  <2>4. Done(w) => Done(w)'
    BY <1>3, DoneStays
  <2>5. Done(w)' /\ ~Done(w) => /\ WritesTo(latest[g], op, w.shard)
                                /\ op.ClientId = w.ClientId /\ op.CommandId >= w.CommandId
    BY <1>3, DoneBy
  <2> QED BY <2>1, <2>2, <2>3, <2>4, <2>5
<1>4. CASE op.OpType \in Writes /\ Executes(latest[g], op)
  <2>1. PICK x, c, n : x = op.shard /\ c = op.ClientId /\ n = op.CommandId
    OBVIOUS
  <2>2. IsRequest(op)
    BY <1>1, <1>4 DEF Remembered, TablesTyped
  <2>3. x \in Shard /\ c \in Clerk /\ n \in Nat /\ WritesTo(latest[g], op, x)
    BY <1>4, <2>1, <2>2 DEF IsRequest, WritesTo
  <2>4. ~(known[x][c] >= n)
    BY <1>1, <1>3, <2>1, <2>2, <2>3, ExecutesUndone
  <2>5. known' = [known EXCEPT ![x] = [known[x] EXCEPT ![c] = n]]
    BY <1>1, <1>2, <1>4, <2>1, <2>3
  <2>6. known' \in [Shard -> [Clerk -> Nat]]
    BY <1>2, <2>3, <2>5
  <2>7. \A y \in Shard, d \in Clerk : known'[y][d] = IF y = x /\ d = c THEN n ELSE known[y][d]
    BY <1>2, <2>3, <2>5
  <2>8. TableOf(g, x)'[c] = n
    <3>1. TableOf(g, x)' = [TableOf(g, x) EXCEPT ![c] = n]
      BY <2>1, <2>3, ExecutedIsDone
    <3>2. TableOf(g, x) \in [Clerk -> Nat]
      BY <2>3, TableIsTyped DEF Table
    <3> QED BY <2>3, <3>1, <3>2
  <2>9. ASSUME NEW w, IsRequest(w)
        PROVE  Done(w)' <=> known'[w.shard][w.ClientId] >= w.CommandId
    <3>1. /\ w.shard \in Shard /\ w.ClientId \in Clerk /\ w.CommandId \in Nat
          /\ known[w.shard][w.ClientId] \in Nat
          /\ Done(w) <=> known[w.shard][w.ClientId] >= w.CommandId
          /\ Done(w) => Done(w)'
      BY <1>3, <2>9
    <3>2. known'[w.shard][w.ClientId] =
            IF w.shard = x /\ w.ClientId = c THEN n ELSE known[w.shard][w.ClientId]
      BY <2>7, <3>1
    <3>3. ASSUME Done(w)' PROVE known'[w.shard][w.ClientId] >= w.CommandId
      <4>1. CASE Done(w)
        BY <2>3, <2>4, <3>1, <3>2, <4>1
      <4>2. CASE ~Done(w)
        <5>1. WritesTo(latest[g], op, w.shard) /\ c = w.ClientId /\ n >= w.CommandId
          BY <1>3, <2>1, <2>9, <3>3, <4>2
        <5>2. w.shard = x
          BY <2>1, <5>1 DEF WritesTo
        <5> QED BY <3>2, <5>1, <5>2
      <4> QED BY <4>1, <4>2
    <3>4. ASSUME known'[w.shard][w.ClientId] >= w.CommandId PROVE Done(w)'
      <4>1. CASE w.shard = x /\ w.ClientId = c
        <5>1. n >= w.CommandId
          BY <3>2, <3>4, <4>1
        <5>2. latest'[g].shards[w.shard].ClientSeq[w.ClientId] >= w.CommandId
          BY <2>8, <4>1, <5>1 DEF TableOf
        <5> QED BY <5>2 DEF Done, TableOf
      <4>2. CASE ~(w.shard = x /\ w.ClientId = c)
        BY <3>1, <3>2, <3>4, <4>2
      <4> QED BY <4>1, <4>2
    <3> QED BY <3>3, <3>4
  <2> QED BY <2>6, <2>9 DEF KnownIsDone, Table
<1>5. CASE ~(op.OpType \in Writes /\ Executes(latest[g], op))
  <2>1. known' = known
    BY <1>1, <1>5
  <2>2. \A x : ~WritesTo(latest[g], op, x)
    BY <1>5 DEF WritesTo
  <2>3. ASSUME NEW w, IsRequest(w)
        PROVE  Done(w)' <=> known'[w.shard][w.ClientId] >= w.CommandId
    BY <1>3, <2>1, <2>2, <2>3
  <2> QED BY <1>2, <2>1, <2>3 DEF KnownIsDone, Table
<1> QED BY <1>4, <1>5

LEMMA KnownStep ==
  ASSUME ShardConfigAssumption, InOrder, Handover, Stored, Held, Remembered, KnownIsDone,
         [Next]_vars
  PROVE  KnownIsDone'
<1>1. CASE UNCHANGED <<latest, known>>
  <2>1. \A w : Done(w)' <=> Done(w)
    BY <1>1 DEF Done, TableOf
  <2> QED BY <1>1, <2>1 DEF KnownIsDone
<1>2. ASSUME NEW c \in Clerk, ClerkStep(c) PROVE UNCHANGED <<latest, known>>
  BY <1>2 DEF ClerkStep, Invoke, CallGroup, CallFails, LearnConfig, TakeReply, CommitGet,
              ExitCheck, groupVars
<1>3. ASSUME NEW g \in Gid, Ticks(g) PROVE UNCHANGED <<latest, known>>
  BY <1>3 DEF Ticks, ConfigTick, MigrationTick, GCTick, GCAcknowledged
<1>4. ASSUME NEW g \in Gid, NEW op, Accept(g, op) PROVE UNCHANGED <<latest, known>>
  BY <1>4 DEF Accept
<1>5. CASE Reconfigure \/ UNCHANGED vars
  BY <1>1, <1>5 DEF Reconfigure, vars, groupVars
<1> QED BY <1>1, <1>2, <1>3, <1>4, <1>5, CommitIsKnown DEF Next, GroupStep

\* A table that no group knows more than is that of all writes executed.
LEMMA TableIsKnown ==
  ASSUME InOrder, Remembered, KnownIsDone, NEW g \in Gid, NEW x \in Shard,
         NoneKnowsMore(TableOf(g, x), x)
  PROVE  TableOf(g, x) = known[x]
<1>1. TableOf(g, x) \in [Clerk -> Nat] /\ known[x] \in [Clerk -> Nat]
  BY DEF InOrder, Behind, Remembered, TablesTyped, TableOf, Table, KnownIsDone
<1>2. ASSUME NEW c \in Clerk PROVE TableOf(g, x)[c] = known[x][c]
  <2> DEFINE Asked(n) == [OpType |-> "Put", shard |-> x, ClientId |-> c, CommandId |-> n,
                          Value |-> <<c, 0>>]
  <2>1. PICK t, k : t = TableOf(g, x)[c] /\ k = known[x][c] /\ t \in Nat /\ k \in Nat
    BY <1>1
  <2>2. ASSUME NEW n \in Nat \ {0}
        PROVE  (\E h \in Gid : TableOf(h, x)[c] >= n) <=> k >= n
    <3>1. IsRequest(Asked(n))
      BY DEF IsRequest, Kinds, Writes
    <3>2. Asked(n).shard = x /\ Asked(n).ClientId = c /\ Asked(n).CommandId = n
      OBVIOUS
    <3> HIDE DEF Asked
    <3>3. Done(Asked(n)) <=> k >= n
      BY <2>1, <3>1, <3>2 DEF KnownIsDone
    <3> QED BY <3>2, <3>3 DEF Done
  <2>3. t <= k
    <3>1. CASE t # 0
      BY <2>1, <2>2, <3>1
    <3> QED BY <2>1, <3>1
  <2>4. k <= t
    <3>1. CASE k # 0
      <4>1. PICK h \in Gid : TableOf(h, x)[c] >= k
        BY <2>1, <2>2, <3>1
      <4>2. TableOf(h, x)[c] <= t /\ TableOf(h, x)[c] \in Nat
        BY <2>1, TableIsTyped DEF NoneKnowsMore
      <4> QED BY <2>1, <4>1, <4>2
    <3> QED BY <2>1, <3>1
  <2> QED BY <2>1, <2>3, <2>4
<1> QED BY <1>1, <1>2

\* What is served or frozen has the data and the table.
LEMMA HeldIsThere ==
  ASSUME InOrder, Stored, Held, Remembered, KnownIsDone
  PROVE  NothingIsLost
<1> SUFFICES ASSUME NEW x \in Shard, store[x] # <<>>
             PROVE  \E g \in Gid : /\ latest[g].shards[x].Status # "Invalid"
                                   /\ latest[g].shards[x].KVStore = store[x]
                                   /\ latest[g].shards[x].ClientSeq = known[x]
  BY DEF NothingIsLost
<1>1. CASE \E g \in Gid : Serves(latest[g], x)
  <2>1. PICK g \in Gid : Serves(latest[g], x)
    BY <1>1
  <2>2. NoneKnowsMore(TableOf(g, x), x)
    BY <2>1 DEF Remembered, ServedKnows
  <2>3. latest[g].shards[x].ClientSeq = known[x]
    BY <2>2, TableIsKnown DEF TableOf
  <2> QED BY <2>1, <2>3 DEF Stored, ServedIsCurrent, Serves
<1>2. CASE \E n \in 1 .. (Len(configs) - 1) :
             Awaited(n, x) /\ latest[Owner(n - 1, x)].config >= n
  <2>1. PICK n \in 1 .. (Len(configs) - 1) :
          Awaited(n, x) /\ latest[Owner(n - 1, x)].config >= n
    BY <1>2
  <2>2. PICK old \in Gid : old = Owner(n - 1, x) /\ latest[old] \in states[old]
    BY <2>1 DEF Awaited, InOrder, Behind
  <2>3. latest[old].shards[x].Status = "Pushing" /\ latest[old].shards[x].KVStore = store[x]
    BY <2>1, <2>2 DEF Stored, FrozenWhileAwaited
  <2>4. NoneKnowsMore(TableOf(old, x), x)
    BY <2>1, <2>2 DEF Remembered, FrozenKnows
  <2>5. latest[old].shards[x].ClientSeq = known[x]
    BY <2>4, TableIsKnown DEF TableOf
  <2> QED BY <2>3, <2>5
<1> QED BY <1>1, <1>2 DEF Held

\* The old owner deletes a shard when another server, that may be behind, asks for it, and
\* acknowledges requests that came to nothing; a shard is deleted only where another group
\* has its data and its table all the same (server.go:216-250, 302-315, 803-845).
THEOREM DataIsKept == Spec /\ []NeverOrphaned => []NothingIsLost
<1>1. Init => Handover /\ Stored /\ Held /\ Remembered /\ ClerksAsk /\ KnownIsDone
  <2>1. Init => Held
    BY DEF Init, Held
  <2>2. Init => Handover /\ Stored
    BY HandoverInit, StoredInit, ShardConfigAssumption
  <2>3. Init => Remembered /\ ClerksAsk /\ KnownIsDone
    BY RememberedInit, ClerkingInit, ClerkingAsks, KnownInit, ShardKVAssumption, NilAssumption
  <2> QED BY <2>1, <2>2, <2>3
<1>2. /\ InOrder /\ NeverOrphaned /\ Handover /\ Stored /\ Held /\ Remembered /\ ClerksAsk
      /\ KnownIsDone /\ [Next]_vars
      => Handover' /\ Stored' /\ Held' /\ Remembered' /\ ClerksAsk' /\ KnownIsDone'
  BY HandoverStep, StoredStep, HeldStep, RememberedStep, AskingStep, KnownStep,
     ShardConfigAssumption
<1>3. InOrder /\ Stored /\ Held /\ Remembered /\ KnownIsDone => NothingIsLost
  BY HeldIsThere
<1> QED BY <1>1, <1>2, <1>3, AlwaysInOrder, PTL DEF Spec

(***************************************************************************)
(* ShardKV implements AtomicMap, step by step.                             *)
(***************************************************************************)
\* What AtomicMap sees of clerk c.
Called(c) == IF Busy(c) THEN CalledOp(clerk[c].op) ELSE Nil
TookEffect(c) ==
  /\ Busy(c) /\ clerk[c].op.OpType \in Writes
  /\ \E g \in Gid : latest[g].shards[clerk[c].op.shard].ClientSeq[c] >= clerk[c].op.CommandId
NextWrite(c) == clerk[c].writes + (IF Busy(c) /\ clerk[c].op.OpType \in Writes THEN 0 ELSE 1)

\* A call is not Nil.
LEMMA CallIsNotNil ==
  ASSUME NilAssumption, NEW op, IsRequest(op)
  PROVE  /\ CalledOp(op) # Nil /\ CalledOp(op).kind = op.OpType /\ CalledOp(op).key = op.shard
         /\ CalledOp(op).commiter = op.ClientId
         /\ op.OpType \in Writes => CalledOp(op).pos = op.Value[2]
<1>1. op.Value[2] \in Nat
  BY DEF IsRequest
<1>2. CalledOp(op) \in [kind : Writes \cup {"Get"}, key : Shard, commiter : Clerk, pos : Nat]
  BY <1>1 DEF IsRequest, Kinds, CalledOp
<1> QED BY <1>2 DEF NilAssumption, CalledOp

LEMMA MapInit ==
  ASSUME Init
  PROVE  Map!Init
<1>1. /\ store = [x \in Shard |-> <<>>] /\ seen = [c \in Clerk |-> {}]
      /\ result = [c \in Clerk |-> Nil]
  BY DEF Init
<1>2. PICK scenario \in Scenarios :
        clerk = [c \in Clerk |-> MakeClerk(scenario.program[c], scenario.rpcs[c])]
  BY DEF Init
<1>3. \A c \in Clerk : clerk[c].st = "idle" /\ clerk[c].writes = 0
  BY <1>2 DEF MakeClerk
<1>4. \A c \in Clerk : ~Busy(c) /\ clerk[c].writes + 1 = 1
  BY <1>3 DEF Busy
<1> QED BY <1>1, <1>4 DEF Map!Init, Map!EmptyStore

\* A clerk that goes on with its call, or does nothing.
LEMMA CallStays ==
  ASSUME NEW c \in Clerk, Busy(c)' <=> Busy(c), clerk'[c].writes = clerk[c].writes,
         Busy(c) => /\ clerk'[c].op = clerk[c].op
                    /\ clerk[c].op.OpType \in Writes =>
                         (Done(clerk[c].op) <=>
                            \E g \in Gid : latest'[g].shards[clerk[c].op.shard].ClientSeq[c]
                                             >= clerk[c].op.CommandId),
         Busy(c) => clerk[c].op.ClientId = c
  PROVE  Called(c)' = Called(c) /\ TookEffect(c)' = TookEffect(c) /\ NextWrite(c)' = NextWrite(c)
<1>1. CASE ~Busy(c)
  BY <1>1 DEF Called, TookEffect, NextWrite
<1>2. CASE Busy(c)
  <2>1. clerk'[c].op = clerk[c].op /\ Busy(c)'
    BY <1>2
  <2>2. Called(c)' = Called(c)
    BY <1>2, <2>1 DEF Called, CalledOp
  <2>3. NextWrite(c)' = NextWrite(c)
    BY <1>2, <2>1 DEF NextWrite
  <2>4. TookEffect(c)' <=>
          /\ clerk[c].op.OpType \in Writes
          /\ \E g \in Gid : latest'[g].shards[clerk[c].op.shard].ClientSeq[c]
                            >= clerk[c].op.CommandId
    BY <2>1 DEF TookEffect
  <2>5. TookEffect(c) <=> clerk[c].op.OpType \in Writes /\ Done(clerk[c].op)
    BY <1>2 DEF TookEffect, TableOf, Done
  <2>6. TookEffect(c)' <=> TookEffect(c)
    BY <1>2, <2>4, <2>5
  <2>7. TookEffect(c) \in BOOLEAN /\ TookEffect(c)' \in BOOLEAN
    BY DEF TookEffect
  <2> QED BY <2>2, <2>3, <2>6, <2>7
<1> QED BY <1>1, <1>2

LEMMA MapStays ==
  ASSUME UNCHANGED <<store, seen, result>>,
         \A c \in Clerk : /\ Called(c)' = Called(c) /\ TookEffect(c)' = TookEffect(c)
                          /\ NextWrite(c)' = NextWrite(c)
  PROVE  UNCHANGED Map!vars
<1>1. /\ [c \in Clerk |-> Called(c)]' = [c \in Clerk |-> Called(c)]
      /\ [c \in Clerk |-> TookEffect(c)]' = [c \in Clerk |-> TookEffect(c)]
      /\ [c \in Clerk |-> NextWrite(c)]' = [c \in Clerk |-> NextWrite(c)]
  OBVIOUS
<1> QED BY <1>1 DEF Map!vars, Called, TookEffect, NextWrite

\* The clerks do nothing, nor do the tables change.
LEMMA NothingToSee ==
  ASSUME Clerking, UNCHANGED <<clerk, latest, store, seen, result>>
  PROVE  UNCHANGED Map!vars
<1>1. \A c \in Clerk : /\ Called(c)' = Called(c) /\ TookEffect(c)' = TookEffect(c)
                       /\ NextWrite(c)' = NextWrite(c)
  BY DEF Called, TookEffect, NextWrite, Busy
<1> QED BY <1>1, MapStays

\* One clerk goes on with its call.
LEMMA GoesOn ==
  ASSUME Clerking, NEW c \in Clerk, Busy(c), UNCHANGED <<latest, store, seen, result>>,
         NEW st \in {"trying", "waiting"}, NEW config, NEW id, NEW reply, NEW todo,
         Becomes(c, st, clerk[c].op, config, id, reply, todo, clerk[c].writes)
  PROVE  UNCHANGED Map!vars
<1>1. ASSUME NEW d \in Clerk
      PROVE  /\ Called(d)' = Called(d) /\ TookEffect(d)' = TookEffect(d)
             /\ NextWrite(d)' = NextWrite(d)
  <2>1. /\ (Busy(d)' <=> Busy(d)) /\ clerk'[d].writes = clerk[d].writes
        /\ clerk'[d].op = clerk[d].op
    BY DEF Becomes, Busy
  <2>2. Busy(d) => clerk[d].op.ClientId = d
    BY DEF Clerking, ClerkTyped
  <2>3. Busy(d) => (Done(clerk[d].op) <=>
                      \E g \in Gid : latest'[g].shards[clerk[d].op.shard].ClientSeq[d]
                                       >= clerk[d].op.CommandId)
    BY <2>2 DEF Done, TableOf
  <2> QED BY <2>1, <2>2, <2>3, CallStays
<1> QED BY <1>1, MapStays

LEMMA CallsAreNothing ==
  ASSUME Clerking, NEW c \in Clerk,
         CallGroup(c) \/ CallFails(c) \/ LearnConfig(c) \/ CommitGet(c) \/ ExitCheck(c)
  PROVE  UNCHANGED Map!vars
<1>1. UNCHANGED <<latest, store, seen, result>>
  BY DEF CallGroup, CallFails, LearnConfig, CommitGet, ExitCheck, groupVars
<1>2. Busy(c) /\ clerk[c].st \in {"trying", "waiting"}
  BY DEF CallGroup, CallFails, LearnConfig, CommitGet, ExitCheck, Busy
<1>3. CASE CallGroup(c) \/ CallFails(c) \/ LearnConfig(c)
  <2>1. \E st, config, id, reply, todo :
          /\ st \in {"trying", "waiting"}
          /\ Becomes(c, st, clerk[c].op, config, id, reply, todo, clerk[c].writes)
    BY <1>3, CallsGive, ClerkingAsks
  <2> QED BY <1>1, <1>2, <2>1, GoesOn
<1>4. CASE CommitGet(c) \/ ExitCheck(c)
  <2>1. \E reply : clerk' = [clerk EXCEPT ![c].reply = reply]
    BY <1>4 DEF CommitGet, ExitCheck
  <2>2. \A reply : clerk' = [clerk EXCEPT ![c].reply = reply] =>
          Becomes(c, clerk[c].st, clerk[c].op, clerk[c].config, clerk[c].CommandId, reply,
                  clerk[c].todo, clerk[c].writes)
    BY RepliesGive, ClerkingAsks
  <2>3. \E reply : Becomes(c, clerk[c].st, clerk[c].op, clerk[c].config, clerk[c].CommandId, reply,
                           clerk[c].todo, clerk[c].writes)
    BY <2>1, <2>2
  <2> QED BY <1>1, <1>2, <2>3, GoesOn
<1> QED BY <1>3, <1>4

\* A clerk that is called calls.
LEMMA InvokeCalls ==
  ASSUME NilAssumption, InOrder, Remembered, Clerking, NEW c \in Clerk, Invoke(c)
  PROVE  Map!Next
<1> DEFINE called == [d \in Clerk |-> Called(d)]
           effective == [d \in Clerk |-> TookEffect(d)]
           next == [d \in Clerk |-> NextWrite(d)]
<1>1. PICK kind, x, n :
        /\ kind \in Kinds /\ x \in Shard
        /\ n = clerk[c].writes + (IF kind \in Writes THEN 1 ELSE 0) /\ clerk[c].st = "idle"
        /\ Becomes(c, "trying", [OpType |-> kind, shard |-> x, Value |-> <<c, n>>,
                                 ClientId |-> c, CommandId |-> clerk[c].CommandId],
                   clerk[c].config, clerk[c].CommandId, clerk[c].reply, Tail(clerk[c].todo), n)
        /\ seen' = [seen EXCEPT ![c] = IF kind = "Get" THEN {store[x]} ELSE {}]
  BY InvokeGives, ClerkingAsks
<1>2. UNCHANGED <<latest, store, result>>
  BY DEF Invoke, groupVars
<1>3. PICK op : op = [OpType |-> kind, shard |-> x, Value |-> <<c, n>>,
                      ClientId |-> c, CommandId |-> clerk[c].CommandId]
  OBVIOUS
<1>4. /\ op.OpType = kind /\ op.shard = x /\ op.Value = <<c, n>> /\ op.ClientId = c
      /\ op.CommandId = clerk[c].CommandId
      /\ \A d \in Clerk : d # c => clerk'[d] = clerk[d]
      /\ clerk'[c].st = "trying" /\ clerk'[c].op = op /\ clerk'[c].writes = n
  BY <1>1, <1>3 DEF Becomes
<1>5. clerk[c].writes \in Nat /\ clerk[c].CommandId \in Nat \ {0} /\ ~Busy(c) /\ Busy(c)'
  BY <1>1, <1>4 DEF Clerking, ClerkTyped, Busy
<1>6. Called(c) = Nil /\ NextWrite(c) = clerk[c].writes + 1 /\ ~TookEffect(c)
  BY <1>5 DEF Called, NextWrite, TookEffect
<1>7. Called(c)' = [kind |-> kind, key |-> x, commiter |-> c,
                    pos |-> IF kind \in Map!Writes THEN NextWrite(c) ELSE 0]
  <2>1. Called(c)' = CalledOp(op)
    BY <1>4, <1>5 DEF Called, CalledOp
  <2>2. CalledOp(op) = [kind |-> kind, key |-> x, commiter |-> c,
                        pos |-> IF kind \in Writes THEN n ELSE 0]
    BY <1>4 DEF CalledOp
  <2>3. kind \in Writes => n = NextWrite(c)
    BY <1>1, <1>6
  <2> QED BY <2>1, <2>2, <2>3 DEF Writes, Map!Writes
<1>8. NextWrite(c)' = NextWrite(c)
  <2>1. NextWrite(c)' = n + (IF kind \in Writes THEN 0 ELSE 1)
    BY <1>4, <1>5 DEF NextWrite
  <2> QED BY <1>1, <1>5, <1>6, <2>1
<1>9. ~TookEffect(c)'
  <2>1. ASSUME NEW g \in Gid PROVE ~(TableOf(g, x)[c] >= clerk[c].CommandId)
    <3>1. TableOf(g, x)[c] <= clerk[c].CommandId /\ TableOf(g, x)[c] # clerk[c].CommandId
      BY <1>1, <1>5 DEF Clerking, KnownIsAsked
    <3>2. TableOf(g, x)[c] \in Nat
      BY <1>1, TableIsTyped
    <3> QED BY <1>5, <3>1, <3>2
  <2> QED BY <1>2, <1>4, <2>1 DEF TookEffect, TableOf
<1>10. ASSUME NEW d \in Clerk, d # c
       PROVE  /\ Called(d)' = Called(d) /\ TookEffect(d)' = TookEffect(d)
              /\ NextWrite(d)' = NextWrite(d)
  BY <1>2, <1>4, <1>10 DEF Called, TookEffect, NextWrite, Busy
<1>11. TookEffect(c)' = TookEffect(c)
  <2>1. TookEffect(c) \in BOOLEAN /\ TookEffect(c)' \in BOOLEAN
    BY DEF TookEffect
  <2> QED BY <1>6, <1>9, <2>1
<1>12. /\ called[c] = Nil
       /\ called' = [called EXCEPT ![c] =
                       [kind |-> kind, key |-> x, commiter |-> c,
                        pos |-> IF kind \in Map!Writes THEN next[c] ELSE 0]]
       /\ effective' = effective /\ next' = next
  <2>1. \A d \in Clerk : Called(d)' =
          IF d = c THEN [kind |-> kind, key |-> x, commiter |-> c,
                         pos |-> IF kind \in Map!Writes THEN NextWrite(c) ELSE 0]
                   ELSE Called(d)
    BY <1>7, <1>10
  <2>2. \A d \in Clerk : TookEffect(d)' = TookEffect(d) /\ NextWrite(d)' = NextWrite(d)
    BY <1>8, <1>10, <1>11
  <2>3. next[c] = NextWrite(c) /\ called[c] = Nil
    BY <1>6
  <2> QED BY <2>1, <2>2, <2>3
<1>13. Map!Call(c, kind, x)
  BY <1>1, <1>2, <1>12 DEF Map!Call, Called, TookEffect, NextWrite
<1>14. kind \in Map!Kinds
  BY <1>1 DEF Kinds, Writes, Map!Kinds, Map!Writes
<1> QED BY <1>1, <1>13, <1>14 DEF Map!Next

\* A clerk that takes an answer returns with it, or asks again.
LEMMA TakeReplyReturns ==
  ASSUME NilAssumption, InOrder, Remembered, Clerking, NEW c \in Clerk, TakeReply(c)
  PROVE  Map!Next \/ UNCHANGED Map!vars
<1> DEFINE called == [d \in Clerk |-> Called(d)]
           effective == [d \in Clerk |-> TookEffect(d)]
           next == [d \in Clerk |-> NextWrite(d)]
<1>1. PICK reply : reply = clerk[c].reply
  OBVIOUS
<1>2. PICK ok : ok = (reply.Err = "OK")
  OBVIOUS
<1>3. PICK op : op = clerk[c].op
  OBVIOUS
<1>4. /\ ok \in BOOLEAN /\ reply \notin {Nil, Notified}
      /\ seen' = [seen EXCEPT ![c] = IF ok THEN {} ELSE @]
      /\ result' = [result EXCEPT ![c] = IF ok /\ op.OpType = "Get" THEN reply.Value ELSE @]
      /\ UNCHANGED <<latest, store>>
  BY <1>1, <1>2, <1>3 DEF TakeReply, groupVars
<1>5. /\ \A d \in Clerk : d # c => clerk'[d] = clerk[d]
      /\ clerk'[c].st = (IF ok THEN "idle" ELSE "trying") /\ clerk'[c].op = op
      /\ clerk'[c].writes = clerk[c].writes
  BY <1>1, <1>2, <1>3, RepliesGive, ClerkingAsks DEF Becomes
<1>6. /\ Busy(c) /\ (Busy(c)' <=> ~ok) /\ IsRequest(op) /\ op.ClientId = c
      /\ Gets(c) <=> op.OpType = "Get"
  BY <1>3, <1>4, <1>5 DEF TakeReply, Busy, Gets, Clerking, ClerkTyped
<1>7. ASSUME NEW d \in Clerk, d # c
      PROVE  /\ Called(d)' = Called(d) /\ TookEffect(d)' = TookEffect(d)
             /\ NextWrite(d)' = NextWrite(d)
  BY <1>4, <1>5, <1>7 DEF Called, TookEffect, NextWrite, Busy
<1>8. /\ seen = [d \in Clerk |-> seen[d]] /\ result = [d \in Clerk |-> result[d]]
      /\ clerk[c].writes \in Nat
      /\ seen[c] # {} <=> Gets(c)
      /\ ok => IF Gets(c) THEN reply.Value \in seen[c] ELSE Done(op)
  BY <1>1, <1>2, <1>3, <1>4, <1>6 DEF Clerking, ClerkTyped, SeesSince, Replied
<1>9. /\ Called(c) = CalledOp(op) /\ CalledOp(op) # Nil /\ CalledOp(op).kind = op.OpType
      /\ op.OpType \in Writes <=> op.OpType # "Get"
  BY <1>3, <1>6, CallIsNotNil DEF Called, IsRequest, Kinds, Writes
<1>10. CASE ~ok
  <2>1. Busy(c)' /\ clerk'[c].op = clerk[c].op
    BY <1>3, <1>5, <1>6, <1>10
  <2>2. /\ Called(c)' = Called(c) /\ TookEffect(c)' = TookEffect(c)
        /\ NextWrite(c)' = NextWrite(c)
    BY <1>4, <1>5, <1>6, <2>1 DEF Called, TookEffect, NextWrite
  <2>3. seen' = seen /\ result' = result
    BY <1>4, <1>8, <1>10
  <2>4. \A d \in Clerk : /\ Called(d)' = Called(d) /\ TookEffect(d)' = TookEffect(d)
                         /\ NextWrite(d)' = NextWrite(d)
    BY <1>7, <2>2
  <2> QED BY <1>4, <2>3, <2>4, MapStays
<1>11. ASSUME ok
       PROVE  /\ Called(c)' = Nil /\ TookEffect(c)' = FALSE
              /\ NextWrite(c)' = clerk[c].writes + 1
              /\ NextWrite(c) = clerk[c].writes + (IF op.OpType = "Get" THEN 1 ELSE 0)
  BY <1>3, <1>5, <1>6, <1>9, <1>11 DEF Called, TookEffect, NextWrite
<1>12. called' = [called EXCEPT ![c] = Nil] \/ ~ok
  <2>1. ok => \A d \in Clerk : Called(d)' = IF d = c THEN Nil ELSE Called(d)
    BY <1>7, <1>11
  <2> QED BY <2>1
<1>13. CASE ok /\ op.OpType # "Get"
  <2>1. TookEffect(c) = TRUE
    BY <1>3, <1>6, <1>8, <1>9, <1>13 DEF TookEffect, Done, TableOf
  <2>2. \A d \in Clerk : TookEffect(d)' = IF d = c THEN FALSE ELSE TookEffect(d)
    BY <1>7, <1>11, <1>13
  <2>3. \A d \in Clerk : NextWrite(d)' = IF d = c THEN NextWrite(c) + 1 ELSE NextWrite(d)
    BY <1>7, <1>8, <1>11, <1>13
  <2>4. /\ effective' = [effective EXCEPT ![c] = FALSE] /\ effective[c]
        /\ next' = [next EXCEPT ![c] = @ + 1]
    BY <2>1, <2>2, <2>3
  <2>5. seen' = seen /\ result' = result
    BY <1>4, <1>6, <1>8, <1>13
  <2>6. Map!Writing(c)
    <3>1. called[c] # Nil /\ called[c].kind \in Map!Writes
      BY <1>9, <1>13 DEF Writes, Map!Writes
    <3> QED BY <3>1 DEF Map!Writing, Called
  <2>7. called' = [called EXCEPT ![c] = Nil]
    BY <1>12, <1>13
  <2>8. Map!ReturnWrite(c)
    BY <1>4, <2>4, <2>5, <2>6, <2>7 DEF Map!ReturnWrite, Called, TookEffect, NextWrite
  <2> QED BY <2>8 DEF Map!Next
<1>14. CASE ok /\ op.OpType = "Get"
  <2>1. TookEffect(c) = FALSE
    BY <1>3, <1>9, <1>14 DEF TookEffect
  <2>2. \A d \in Clerk : TookEffect(d)' = TookEffect(d) /\ NextWrite(d)' = NextWrite(d)
    BY <1>7, <1>11, <1>14, <2>1
  <2>3. effective' = effective /\ next' = next
    BY <2>2
  <2>4. seen' = [seen EXCEPT ![c] = {}] /\ \E v \in seen[c] : result' = [result EXCEPT ![c] = v]
    BY <1>4, <1>6, <1>8, <1>14
  <2>5. Map!Reading(c)
    <3>1. called[c] # Nil /\ called[c].kind = "Get"
      BY <1>9, <1>14
    <3> QED BY <3>1 DEF Map!Reading, Called
  <2>6. called' = [called EXCEPT ![c] = Nil]
    BY <1>12, <1>14
  <2>7. Map!ReturnRead(c)
    BY <1>4, <2>3, <2>4, <2>5, <2>6 DEF Map!ReturnRead, Called, TookEffect, NextWrite
  <2> QED BY <2>7 DEF Map!Next
<1> QED BY <1>4, <1>10, <1>13, <1>14

\* What a clerk is at is done as it was, but for the write that is executed.
LEMMA CommitEffects ==
  ASSUME ShardConfigAssumption, InOrder, Handover, Stored, Held, Remembered, Clerking,
         NEW g \in Gid, NEW op, Commit(g, op), NEW d \in Clerk,
         ~(Busy(d) /\ op.ClientId = d /\ WritesTo(latest[g], op, clerk[d].op.shard))
  PROVE  /\ Called(d)' = Called(d) /\ TookEffect(d)' = TookEffect(d)
         /\ NextWrite(d)' = NextWrite(d)
<1>1. /\ clerk'[d].op = clerk[d].op /\ clerk'[d].writes = clerk[d].writes
      /\ Busy(d)' <=> Busy(d)
  BY CommitGives, ClerkingAsks
<1>2. Busy(d) => clerk[d].op.ClientId = d /\ IsRequest(clerk[d].op)
  BY DEF Clerking, ClerkTyped
<1>3. PICK w : w = clerk[d].op
  OBVIOUS
<1>4. Busy(d) => (Done(w)' <=> Done(w))
  BY <1>2, <1>3, DoneStays, DoneBy
<1>5. Busy(d) =>
        (Done(w)' <=> \E h \in Gid : latest'[h].shards[w.shard].ClientSeq[d] >= w.CommandId)
  BY <1>2, <1>3 DEF Done, TableOf
<1> QED BY <1>1, <1>2, <1>3, <1>4, <1>5, CallStays

\* A write that is executed takes effect.
LEMMA CommitTakesEffect ==
  ASSUME ShardConfigAssumption, NilAssumption, InOrder, Handover, Stored, Held, Remembered,
         Clerking, NEW g \in Gid, NEW op, Commit(g, op)
  PROVE  Map!Next \/ UNCHANGED Map!vars
<1> DEFINE called == [d \in Clerk |-> Called(d)]
           effective == [d \in Clerk |-> TookEffect(d)]
           next == [d \in Clerk |-> NextWrite(d)]
<1>1. /\ op \in proposals[g] /\ result' = result /\ DOMAIN store = Shard
      /\ op.OpType \in Writes => IsRequest(op)
      /\ seen' = [d \in Clerk |->
                    IF seen[d] = {} THEN {} ELSE seen[d] \cup {store'[clerk[d].op.shard]}]
  BY CommitData DEF Commit, Stored, Remembered, TablesTyped
<1>2. \A d \in Clerk : SeesSince(d) /\ ClerkTyped(d)
  BY DEF Clerking
<1>3. CASE ~\E x \in Shard : WritesTo(latest[g], op, x)
  <2>1. store' = store
    BY <1>1, <1>3 DEF Commit, WritesTo, IsRequest
  <2>2. seen' = seen
    <3>1. \A d \in Clerk :
            seen[d] # {} => seen[d] \cup {store[clerk[d].op.shard]} = seen[d]
      BY <1>2 DEF SeesSince
    <3>2. seen = [d \in Clerk |-> seen[d]]
      BY DEF Clerking
    <3>3. \A d \in Clerk : seen'[d] = seen[d]
      BY <1>1, <2>1, <3>1
    <3> QED BY <1>1, <3>2, <3>3
  <2>3. ASSUME NEW d \in Clerk
        PROVE  /\ Called(d)' = Called(d) /\ TookEffect(d)' = TookEffect(d)
               /\ NextWrite(d)' = NextWrite(d)
    <3>1. ~(Busy(d) /\ op.ClientId = d /\ WritesTo(latest[g], op, clerk[d].op.shard))
      BY <1>2, <1>3 DEF ClerkTyped, IsRequest
    <3> QED BY <3>1, CommitEffects
  <2> QED BY <1>1, <2>1, <2>2, <2>3, MapStays
<1>4. ASSUME NEW x \in Shard, WritesTo(latest[g], op, x) PROVE Map!Next
  <2>1. op.OpType \in Writes /\ op.shard = x
    BY <1>4 DEF WritesTo
  <2>2. PICK c \in Clerk : c = op.ClientId
    BY <1>1, <2>1 DEF IsRequest
  <2>3. Busy(c) /\ clerk[c].op = op /\ ~Done(op) /\ op.Value = <<c, clerk[c].writes>>
    <3>1. Busy(op.ClientId) /\ clerk[op.ClientId].op = op /\ ~Done(op)
      BY <1>1, <1>4, ExecutesCurrent
    <3> QED BY <1>2, <2>2, <3>1 DEF ClerkTyped
  <2>4. /\ Called(c) = CalledOp(op) /\ CalledOp(op) # Nil /\ CalledOp(op).kind = op.OpType
        /\ CalledOp(op).key = x /\ CalledOp(op).commiter = c
        /\ CalledOp(op).pos = clerk[c].writes
    BY <1>1, <2>1, <2>2, <2>3, CallIsNotNil DEF Called
  <2>5. Map!Writing(c)
    <3>1. called[c] # Nil /\ called[c].kind \in Map!Writes
      BY <2>1, <2>4 DEF Writes, Map!Writes
    <3> QED BY <3>1 DEF Map!Writing, Called
  <2>6. /\ clerk'[c].op = op /\ clerk'[c].writes = clerk[c].writes /\ Busy(c)'
    BY <2>3, CommitGives, ClerkingAsks
  <2>7. TookEffect(c) = FALSE /\ TookEffect(c)' = TRUE
    <3>1. TookEffect(c) = FALSE
      BY <2>2, <2>3 DEF TookEffect, Done, TableOf
    <3>2. Done(op)'
      BY <1>4, ExecutedIsDone
    <3>3. TookEffect(c)' = TRUE
      BY <2>1, <2>2, <2>6, <3>2 DEF TookEffect, Done, TableOf
    <3> QED BY <3>1, <3>3
  <2>8. Called(c)' = Called(c) /\ NextWrite(c)' = NextWrite(c)
    BY <2>3, <2>6 DEF Called, CalledOp, NextWrite
  <2>9. \A d \in Clerk : d # c => /\ Called(d)' = Called(d) /\ TookEffect(d)' = TookEffect(d)
                                  /\ NextWrite(d)' = NextWrite(d)
    BY <2>2, CommitEffects
  <2>10. /\ called' = called /\ next' = next /\ ~effective[c]
         /\ effective' = [effective EXCEPT ![c] = TRUE]
    <3>1. \A d \in Clerk : Called(d)' = Called(d) /\ NextWrite(d)' = NextWrite(d)
      BY <2>8, <2>9
    <3>2. \A d \in Clerk : TookEffect(d)' = IF d = c THEN TRUE ELSE TookEffect(d)
      BY <2>7, <2>9
    <3>3. effective[c] = FALSE
      BY <2>7
    <3> QED BY <3>1, <3>2, <3>3
  <2>11. store' = Map!Execute(store, CalledOp(op))
    <3>1. store' = [store EXCEPT ![x] = Written(store[x], op)]
      BY <1>4, <2>1 DEF Commit, WritesTo
    <3>2. Written(store[x], op) =
            CASE op.OpType = "Put"    -> <<<<c, clerk[c].writes>>>>
              [] op.OpType = "Append" -> Append(store[x], <<c, clerk[c].writes>>)
              [] op.OpType = "Get"    -> store[x]
      BY <2>1, <2>3 DEF Written, Writes
    <3> QED BY <2>4, <3>1, <3>2 DEF Map!Execute
  <2>12. ASSUME NEW d \in Clerk
         PROVE  /\ Gets(d) <=> called[d] # Nil /\ called[d].kind = "Get"
                /\ Gets(d) => called[d].key = clerk[d].op.shard
    <3>1. Busy(d) => /\ CalledOp(clerk[d].op) # Nil
                     /\ CalledOp(clerk[d].op).kind = clerk[d].op.OpType
                     /\ CalledOp(clerk[d].op).key = clerk[d].op.shard
      BY <1>2, CallIsNotNil DEF ClerkTyped
    <3> QED BY <3>1 DEF Gets, Called
  <2>13. seen' = [d \in Clerk |-> IF called[d] # Nil /\ called[d].kind = "Get"
                                    THEN seen[d] \cup {store'[called[d].key]} ELSE seen[d]]
    <3>1. \A d \in Clerk : seen[d] # {} <=> Gets(d)
      BY <1>2 DEF SeesSince
    <3>2. ASSUME NEW d \in Clerk
          PROVE  (IF seen[d] = {} THEN {} ELSE seen[d] \cup {store'[clerk[d].op.shard]}) =
                 IF called[d] # Nil /\ called[d].kind = "Get"
                   THEN seen[d] \cup {store'[called[d].key]} ELSE seen[d]
      BY <2>12, <3>1
    <3> HIDE DEF called
    <3> QED BY <1>1, <3>2
  <2>14. called[c] = CalledOp(op)
    BY <2>4
  <2>15. Map!TakeEffect(c)
    BY <1>1, <2>5, <2>10, <2>11, <2>13, <2>14
    DEF Map!TakeEffect, Map!Reading, Called, TookEffect, NextWrite
  <2> QED BY <2>15 DEF Map!Next
<1> QED BY <1>3, <1>4

\* Every step is one of the map, or none.
LEMMA MapStep ==
  ASSUME ShardConfigAssumption, NilAssumption, InOrder, Handover, Stored, Held, Remembered,
         Clerking, [Next]_vars
  PROVE  [Map!Next]_(Map!vars)
<1>1. CASE Reconfigure
  <2>1. UNCHANGED <<clerk, latest, store, seen, result>>
    BY <1>1 DEF Reconfigure, groupVars, clerkVars
  <2> QED BY <2>1, NothingToSee
<1>2. ASSUME NEW g \in Gid, NEW op \in proposals[g], Commit(g, op)
      PROVE  [Map!Next]_(Map!vars)
  BY <1>2, CommitTakesEffect
<1>3. ASSUME NEW g \in Gid, Ticks(g) PROVE UNCHANGED Map!vars
  <2>1. UNCHANGED <<clerk, latest, store, seen, result>>
    BY <1>3 DEF Ticks, ConfigTick, MigrationTick, GCTick, GCAcknowledged, masterVars, clerkVars
  <2> QED BY <2>1, NothingToSee
<1>4. ASSUME NEW g \in Gid, NEW op \in requests[g], Accept(g, op) PROVE UNCHANGED Map!vars
  <2>1. UNCHANGED <<clerk, latest, store, seen, result>>
    BY <1>4 DEF Accept
  <2> QED BY <2>1, NothingToSee
<1>5. ASSUME NEW c \in Clerk, ClerkStep(c) PROVE [Map!Next]_(Map!vars)
  BY <1>5, InvokeCalls, CallsAreNothing, TakeReplyReturns DEF ClerkStep
<1>6. CASE UNCHANGED vars
  <2>1. UNCHANGED <<clerk, latest, store, seen, result>>
    BY <1>6 DEF vars, groupVars, clerkVars
  <2> QED BY <2>1, NothingToSee
<1>7. CASE Next
  BY <1>1, <1>2, <1>3, <1>4, <1>5, <1>7 DEF Next, GroupStep
<1> QED BY <1>6, <1>7

\* Who is told so has been served, and is still at it.
LEMMA ToldIsDone ==
  ASSUME NilAssumption, Clerking
  PROVE  AcknowledgedIsExecuted
<1> SUFFICES ASSUME NEW c \in Clerk, clerk[c].reply = OK(Nil), clerk[c].op.OpType \in Writes
             PROVE  \E g \in Gid : latest[g].shards[clerk[c].op.shard].ClientSeq[c]
                                     >= clerk[c].op.CommandId
  BY DEF AcknowledgedIsExecuted
<1>1. ClerkTyped(c) /\ Replied(c)
  BY DEF Clerking
<1>2. clerk[c].reply \notin {Nil, Notified} /\ clerk[c].reply.Err = "OK"
  <2>1. OK(Nil) # Nil /\ OK(Nil).Err = "OK" /\ Notified.Err = ""
    BY DEF NilAssumption, OK, Notified
  <2> QED BY <2>1
<1>3. Busy(c) /\ ~Gets(c)
  BY <1>1, <1>2 DEF ClerkTyped, Gets, Writes
<1>4. Done(clerk[c].op) /\ clerk[c].op.ClientId = c
  BY <1>1, <1>2, <1>3 DEF Replied, ClerkTyped
<1> QED BY <1>4 DEF Done, TableOf

\* All of it, on top of InOrder.
Linked == Handover /\ Stored /\ Held /\ Remembered /\ Clerking

LEMMA LinkedInit == Init => Linked
<1>1. Init => Held
  BY DEF Init, Held
<1>2. Init => Handover /\ Stored
  BY HandoverInit, StoredInit, ShardConfigAssumption
<1>3. Init => Remembered /\ Clerking
  BY RememberedInit, ClerkingInit, ShardKVAssumption, NilAssumption
<1> QED BY <1>1, <1>2, <1>3 DEF Linked

LEMMA LinkedStep ==
  ASSUME AnyGet = FALSE, InOrder, NeverOrphaned, Linked, [Next]_vars, [StaysAway]_vars
  PROVE  Linked'
<1>1. Handover /\ Stored /\ Held /\ Remembered /\ Clerking
  BY DEF Linked
<1>2. Handover' /\ Stored'
  BY <1>1, HandoverStep, StoredStep, ShardConfigAssumption
<1>3. Held'
  BY <1>1, HeldStep, ShardConfigAssumption
<1>4. Remembered'
  BY <1>1, RememberedStep, ClerkingAsks, ShardConfigAssumption
<1>5. Clerking'
  BY <1>1, ClerkingStep, ShardConfigAssumption, NilAssumption
<1> QED BY <1>2, <1>3, <1>4, <1>5 DEF Linked

\* A write is acknowledged only if some group has executed it, and a later try of it is
\* known for one, although the entry may come to a group that has given the shard away and
\* the handler looks again only later (server.go:527-538), as long as the group does not
\* get the shard back in between.
THEOREM ToldIsServed ==
  ASSUME AnyGet = FALSE
  PROVE  Spec /\ []NeverOrphaned /\ [][StaysAway]_vars => []AcknowledgedIsExecuted
<1>1. Init => Linked
  BY LinkedInit
<1>2. InOrder /\ NeverOrphaned /\ Linked /\ [Next]_vars /\ [StaysAway]_vars => Linked'
  BY LinkedStep
<1>3. Linked => AcknowledgedIsExecuted
  BY ToldIsDone, NilAssumption DEF Linked
<1> QED BY <1>1, <1>2, <1>3, AlwaysInOrder, PTL DEF Spec

\* Clerks see one atomic map, whichever group they ask and however often: every write takes
\* effect exactly once, between its call and its return, though it be retried at the new
\* owner of its shard, and a read returns what the key was at some instant between the two
\* (client.go:81-211, server.go:121-337, 407-545), as long as not all groups leave, no group
\* gets a shard back while a handler is on its way out and no Get takes another's entry.
THEOREM ClerksSeeAMap ==
  ASSUME AnyGet = FALSE
  PROVE  Spec /\ []NeverOrphaned /\ [][StaysAway]_vars => ClerksSeeOneMap
<1>1. Init => Linked /\ Map!Init
  BY LinkedInit, MapInit
<1>2. InOrder /\ NeverOrphaned /\ Linked /\ [Next]_vars /\ [StaysAway]_vars => Linked'
  BY LinkedStep
<1>3. InOrder /\ Linked /\ [Next]_vars => [Map!Next]_(Map!vars)
  BY MapStep, ShardConfigAssumption, NilAssumption DEF Linked
<1> QED BY <1>1, <1>2, <1>3, AlwaysInOrder, PTL DEF Spec, ClerksSeeOneMap, Map!Spec
=============================================================================
