# Raft and the services on it: a verification development

TLA+ models, TLC runs and TLAPS proofs for the Go code under `src/src`: a Raft
implementation with log compaction (`raft`), and the replicated services built on
it (`kvraft`, `shardmaster`, `shardkv`).

- `tlc -workers 2 -config raft.cfg MCRaftScenarios` runs one check; `PROJECT.json`
  lists all of them with the properties each one is for.
- `tlapm RaftLeaders.tla` checks the proofs of a module.

## 1. Inventory

| Component | State | Operations | Talks to |
|---|---|---|---|
| `raft` (raft.go, RequestVote.go, AppendEntries.go, persister.go) | per server: term, vote, role, log (slice, plus index, term and public index of the snapshot it follows), commit and apply indices, a leader's `nextIndex`/`matchIndex`; on disk: term, vote, log, snapshot | handlers `RequestVote`, `AppendEntries`, `InstallSnapshot`; goroutines `FollowerAction`, `LeaderAction`, `checkCommit`, `applyLog`, one `sendRequest`/`sendEntries` per peer; calls `Start`, `Snapshot`, `GetState` | peers by RPC (labrpc); the service by `applyCh`, `Start`, `Snapshot` |
| `labrpc` | servers, endpoints, reliability switches | `Call`, `processReq`, `dispatch`: delays, drops, reorders requests and replies, never duplicates one; a reply of a deleted server does not arrive | everybody |
| `labgob` | none | encode, decode, with warnings | persister, RPC |
| `raft/config.go` (harness) | the logs the services applied, saved persisters | `crash1`, `start1`, `connect`, partitions, the service at the end of `applyCh` | raft |
| `kvraft` | map, last command per client, waiting requests per log index | `Get`, `PutAppend`, the `Apply` loop, snapshots; clerk with retries | raft; clerks |
| `shardmaster` | numbered configurations, last command per client, a channel per log index somebody waits at | `Join`, `Leave`, `Move`, `Query`, `rebalance`, the apply loop | raft; clerks, shardkv |
| `shardkv` | two configurations; per shard a status, a map, the last command per client | client operations, `FetchShard`, `DeleteShard`, configuration poller, migration and garbage-collection loops | raft, shardmaster, other groups, clerks |
| `porcupine`, `models/kv.go` | third-party linearizability checker | - | tests |
| `mr`, `mrapps`, `main` | course stubs | - | - |
| `raft copy`, `raft-2-finished`, `kvraft_1` | earlier states of the packages | - | - |

What makes each one correct, and hard:

- **Elections**: one leader per term, a vote per server and term, across crashes.
  Hard because requests and tallies read the state without the lock, requests are
  delayed past their candidacy, and persistence is per handler.
- **Replication**: logs match, commits agree, leaders are complete, counted entries
  are really on disk at the follower. Hard because requests, replies and new leaders
  come in any order and every index is relative to a snapshot.
- **Compaction**: the log on disk continues the snapshot on disk; what the service
  sees does not depend on whether it came as a snapshot or as commands. Hard
  because there are two kinds of index (no-ops do not count for the service) and
  several senders on `applyCh`.
- **Progress**: a leader's log reaches everybody. Hard because of the hints that
  move `nextIndex`, the condition variable of `checkCommit`, lost replies.
- **kvraft**: linearizable reads and writes, a command applied once in spite of
  clerk retries, no deadlock between the apply loop and waiting requests.
- **labrpc**: every call returns once, also when its server is shut down while the
  handler runs. Hard because the instance that executes may not be the one that is
  in service when the reply sets out.
- **shardmaster**: one history of configurations; replicas compute the same,
  balanced assignment and move little; a repeated request makes one configuration.
  Hard because an index may get another leader's entry, a channel may be shared by
  two handlers, and a restarted replica replays everything.
- **shardkv**: at most one group serves a shard, with all its data; shards and
  duplicate tables move together and are deleted once; clerks see one atomic map
  across all handovers. Hard because each group takes a configuration when it likes,
  because what a leader proposes is agreed on late, twice or after it was deposed,
  and because a handover is five log entries in two groups.

## 2. Modules

| Module | Models |
|---|---|
| `RaftLog` | the log and every pure computation on it: index translation, `Snapshot`'s and `InstallSnapshot`'s cut, the consistency check, merge and conflict hint of `AppendEntries`, the leader's `nextIndex` backup |
| `Raft` | the servers, their goroutines, the persister, the network, the service |
| `RaftSafety` | type invariant, safety invariants and action properties of `Raft` |
| `RaftLiveness` | fairness and the liveness property |
| `RaftCatchUp` | a leader and one follower from arbitrary logs, on the same `RaftLog` |
| `MCRaft`, `MCRaftScenarios`, `MCRaftLiveness` | instances for TLC: the bounds of each scenario (`Scenarios`), scheduling bounds, view; four scenarios in one run |
| `RaftLogProofs` | proofs: the operators of `RaftLog` |
| `RaftLeaders` | proofs: types; votes, terms, what is on disk; logs match |
| `RaftCommit` | proofs: what is chosen and committed stays; what the services get; they see one log |
| `RaftCatchUpProofs` | proofs: the exchange of `RaftCatchUp`, from logs of any length |
| `ServiceLog` | what `raft` promises the services on it: one log that only grows, of which each hears, saves and loads a beginning |
| `AgreedLog` | what `raft` looks like to a service on it: one log that grows, leaders that hand out indices, servers told of entries in order |
| `KVRaft` | clerks, `KVServer`s with their handlers and `Apply` loops, crashes, over `AgreedLog` |
| `AtomicMap` | what a key/value service promises: the sequential model of `models/kv.go`, each call taking effect at one instant |
| `KVRaftSafety`, `MCKVRaft` | properties of `KVRaft`, the refinement mapping to `AtomicMap`; instances for TLC |
| `LabRPC` | the calls of clients, the instances of servers, enabled ends |
| `ShardConfig` | configurations: `rebalance` and what Join, Leave, Move and Query make of them |
| `ShardMaster` | clerks, handlers, applier, shutdown and start, over `AgreedLog` and `LabRPC` |
| `ConfigHistory` | what `shardmaster` promises: one history of evenly divided configurations with the fewest moves |
| `ShardMasterSafety`, `MCShardMaster` | properties and fairness of `ShardMaster`, the refinement mapping to `ConfigHistory`; instances for TLC |
| `ShardKV` | replica groups with their state machine and goroutines, clerks, over `ShardConfig` |
| `ShardKVSafety`, `MCShardKV` | properties and fairness of `ShardKV`, the refinement mapping to `AtomicMap`; instances for TLC |
| `ShardKVProofs` | proofs: who serves a shard; what its data are; what clerks see |
| `KVRaftProofs` | proofs: the map of a replica is that of its log; clerks see an atomic map |
| `ShardConfigProofs` | proofs: `rebalance` is even, moves the fewest shards and comes to an end |
| `ShardMasterProofs` | proofs: a replica has the configurations of its log; clerks see one history |

The services are composed through abstract specifications: `KVRaft` and `ShardMaster`
run on `AgreedLog`, which stands for Raft's safety: what it tells a service is what
`Raft` is shown to tell one, as an implementation of `ServiceLog`; `ShardKV` asks a shardmaster that
is the history which `ShardMaster` is shown to implement; `KVRaft` and `ShardKV` both
implement `AtomicMap`.

### How `Raft` corresponds to the code

- Every region under `rf.mu` is one action, up to the `Unlock` or `Wait` that ends
  it. The trailing `persist` of a handler is part of its action. What a goroutine
  reads without the lock is a step of its own: `SendRequest` (the late read of
  term and log), `TallyVotes` and `BecomeLeader` (the unlocked test of the winner,
  then its Lock), `ApplyCheck` and `ApplyNext`, and the send on `applyCh` after
  Unlock (`outbox`, `installing`).
- `Preemptible` says at which of these seams a handler of the same server may come
  in between. With `{}` a server goes through the seam undisturbed, which is how it
  nearly always runs; a run with the seam opened shows what the code risks there.
  No other server is ever held up by a seam.
- `msgs` holds every request for ever: labrpc delays and reorders, and a request
  that is sent again after a timeout has the same contents. A message that is never
  taken is a lost one. A reply is put into the slot of the goroutine that waits
  for it; a slot that times out is reused by the next round, and a late reply finds
  no slot that waits for it (`answer`).
- Timers are gone: an election may start, and a slot be given up, at any moment.
- `Boot` is `Make` on a copy of the persister. `Restart` may come between any two
  actions; `TornAppendEntries` is a crash between the first two writes of one handler.
- `turnToLeader` is 1 in the code once the indices are initialised; here TRUE.
- `elected` and `ledger` are history variables: who was elected by whom, and for each
  term every entry that the log of its leader ever had, in the order it had them, with
  those a snapshot has dropped since. No action reads them. `used` counts faults
  against the bounds.
- Where the Go code would panic on a slice access, the action's guard is false:
  `SendInRange` and `CommitInLog` say that this never disables one.
- `SendRequest` reads the term, the last index and its term of a request for votes in
  one step; the code locks for none of the three (RequestVote.go:139-142), so that they
  could belong to different moments. If the log differs between them, a leader of
  that term or of a later one has sent something: the candidacy has nothing to win.
- A crash that leaves the new term on disk but not yet the merged log
  (AppendEntries.go:276, 355) is no step of its own: it leaves what a crash leaves
  after a request of that leader that does not fit the log (`RejectEntries`).
- Not in the model: a second `checkCommit` goroutine of a server that leads twice
  (it does what the first does), the unlocked reads at the head of `LeaderAction`
  (`InitLeader` is one step), `Kill`, `GetState`, the `Committed` and `Index`
  fields of an entry (nothing reads them).

### How `KVRaft` corresponds to the code

- A handler is a record of `calls`, from the request on: `sent`, for a write
  `checked` (the duplicate test, which ends with Unlock) and `started` (`Start` was
  called without `kv.mu`), `waiting` in the select, for a read `reading`, `leaving`
  (the select is over, the deferred delete needs `kv.mu`), `replied`. It goes on
  when its clerk has given up or called another server; the request of a call that
  failed may still be on its way.
- `ch` is its channel, with room for one Op; `notifyChs` has the call that is
  registered for an index. `Leave` deletes whatever is registered there, as the
  code does.
- `loop` is where `Apply` stands. `kv.mu` is locked between actions only while
  `Apply` sends (`Unlocked`): a send on a full channel that nobody reads is a state
  without a way on, which `SendsHaveReaders` excludes.
- A value is the sequence of the writes it is made of, so a lost, repeated or
  misplaced write shows in it. A Get's number is `ck.pos`, which is always 0.
- When the Raft state has grown enough for a snapshot is left open: at any command.
- `ReceiveSnapshot` is the save by `InstallSnapshot` of Raft and the reception by
  `Apply` in one step; in between nothing reads the one without the other but a
  crash, and that is a crash before or after the step. `LateSnapshots` says whether
  a snapshot may arrive that is older than a command received before it; the run
  `rollback` of Raft shows that it may. The runs of `KVRaft` say FALSE.
- `AgreedLog` is as wide as Raft's safety allows: a new leader has the agreed
  entries and, behind them, anything an older leader has appended at that index; an
  old leader may go on handing out indices. `Elect` and `Agree` need no majority
  here, that they do is the subject of `Raft`.

### How `LabRPC` and `ShardMaster` correspond to the code

- `calls` holds each client's calls. `sent` is a request on its way to the instance
  that was in service when `readEndnameInfo` looked; `executing` and `executed` are
  the two sides of the handler; `answering` is a reply that has passed the last
  `isServerDead` and may still be delayed. A drop, at either end, a dead server and
  a disabled end are one action, `Fail`. A client makes one call at a time, which is
  all a clerk does; Raft's own calls are in `Raft`.
- A handler is `started` (`Start` was called without `sm.mu`), `waiting` on a channel,
  `reading` (a Query that was notified and needs the lock again), `leaving` (the
  deferred delete). `Register` takes over the channel an older handler has made
  for the index, `Leave` deletes whatever is registered, as the code does.
- The applier is `ApplyCommand` and, if a channel is registered, `Send`; `sm.mu` is
  locked in between. A Query changes nothing and is no duplicate.
- `ShutdownServer` is `DeleteServer` and the loss of all state but Raft's log;
  `StartServer` a new instance, which replays the log.
- The two loops of `rebalance` are recursive functions (`AllSettled`, `AllLeveled`). The
  second is a `for` without a condition; that `NShards` turns are enough for it is part of
  the theorem `RebalanceDivides`. The order in which Go iterates over a map
  does not show: the code sorts the gids, takes the smallest of equals, and goes over
  the shards in order.

### How `ShardKV` corresponds to the code

- A group is not modelled server by server. `latest` is the state the agreed log
  has led to, `states` the states its servers may be in: a follower, a leader just
  elected or deposed, one that replays its log or a snapshot after a crash, all are in
  some earlier state, from which any of them may act. Every goroutine and handler
  that reads a state reads one of these.
- `proposals` are the entries given to Raft. One may be agreed on at any later time,
  never, or again if a second leader proposed it: `Commit` does not remove it.
- `Apply` is the switch of `applier`, one operator per case. A handover is
  `ConfigTick` and `UpdateConfig` on both sides, `MigrationTick` (with the handler
  `FetchShard` of the old owner) and `InsertShard`, `GCTick` (with `DeleteShard` of
  the old owner) and `DeleteShard`, `GCAcknowledged` and `GCComplete`.
- A handler accepts an operation in one state (`Accept`), is notified (`Commit`) and
  checks the status on its way out (`ExitCheck`), in the state of its group at that time:
  the server that holds the handler may lag behind its group, anywhere after the entry
  that notified it. A handler whose clerk no longer waits is dropped, and `Commit` notifies
  nobody then. This touches acknowledgements only: a server that lags could refuse what
  its group by now serves again, or acknowledge what its group executed and has since
  handed over.
- The tickers propose; they do not wait for what they proposed, and an RPC between
  groups that is lost is a step not taken.
- Every shard has one key. The code treats a shard as a whole; keys of one shard
  differ in nothing but their values.
- `store`, `known` and `seen` are history variables: what was written to each shard,
  the number of each clerk's last write to it, by the writes that were executed, and
  the values a pending Get may return. No guard reads them.
- `AnyGet` opens the seam of finding 3 in this service: a Get carries no client and no
  number (`client.go:90`), so on a deposed leader it takes any entry of number 0 at
  its index for its own.
- Not in the model: `maxraftstate` snapshots as such (a server that restores one is in
  an earlier state), `Kill`, the addresses of servers.

Operators marked "mutation" stand beside the definition they change. No action uses
them: each is a plausible bug, and replacing the definition by it makes a run fail.

## 3. Runs

All runs switch the deadlock check off: the bounds on terms, log length, requests
and faults stop the system, and a server without anything to do is idle.

| Run | Instance | Shows |
|---|---|---|
| `raft` | 3 servers in one of four scenarios: `elections` (two rivals for each of the terms 2 and 3); `crashes` (leaders s1 of term 2 and s2 of term 3, two requests, a crash of anybody anywhere, and one between the two writes of `AppendEntries`); `replication` (both leaders, three different requests repeated and reordered at will, the leader of term 2 cut off from the next one, whose log therefore conflicts with what the others got); `snapshots` (a leader, three entries, two snapshots, a follower cut off until the first one) | the invariants and action properties of `RaftSafety`, and that every vote is accounted for |
| `liveness` | 2 servers, a crash, a snapshot, lost messages, fairness | `EverythingIsApplied` |
| `catchup` | every pair of logs of up to 5 entries in 4 terms that Raft permits, each cut anywhere permitted | `LogsMatch`, `PublicIndicesAgree`, `AgreedEntriesStay`, `CatchesUp` |
| `preempted` | the seam of the winner of an election opened | finding 1 |
| `rollback` | no seam opened; the follower is cut off until all is committed, then gets entries and the snapshot | finding 2 |
| `kv` | 2 servers, leaders of two terms, log of 3; an Append and another clerk's Get that is called twice; or two Appends of one clerk in three calls, or in two with a snapshot and a crash | `ReplicasAgree`, `Linearizable` |
| `kv_stale` | Get, Put, Get of one clerk in three calls | finding 3 |
| `kv_stuck` | an Append called twice, a snapshot | finding 4 |
| `shardmaster` | 2 servers, 3 groups, 5 shards; a Join and any three of eight changes; or a Join and another clerk's Query, or a Join and two Queries of one clerk, with two leaders of which one leads twice, retries, timeouts, and a shutdown or a disabled end | `ReplicasAgree`, `HistoryIsAtomic`, `EveryCallReturns` |
| `shardkv` | 3 groups, 2 shards; a shard goes from group 1 to 2 and back while one clerk writes, in two calls, and another reads; goes there, back, and there again; goes to 2 and on when group 1 leaves and comes back with group 3, while a clerk writes twice | `AnOwnerAtATime`, `ServedIsCurrent`, `NothingIsLost`, `SettledBeforeNext`, `ClerksSeeOneMap`, `ShardsSettle` |
| `shard_orphan` | a Join, all groups leave, another Join; an Append | finding 5 |
| `shard_acked` | a shard comes back while a write waits for it | finding 6 |

Bounds. Three servers have the smallest majority that leaves somebody out. Two
elections after term 1 give a deposed leader, a stale request, a stale candidate
and a conflicting log. Three or four *different* requests suffice for a request,
its successor and the one of the next leader, and each can be delivered any number
of times. `catchup` covers the depth that the runs of the whole system cannot:
conflicts over several terms against compacted logs.

For `kvraft` the second server only adds a replica and a second leader, who may
take over with or without what the first has appended; three calls are a request, its
retry and the call after it, which is what the duplicate test, the match of a
notification with its handler and the reuse of an index are about. A program is
what each clerk calls: the smallest with a duplicate that comes late, and a read
concurrent with a write, before and after it.

For `shardmaster` the long histories have one server and no faults: what a
configuration becomes is the same on every replica, and each replica is compared with
the history in the others. For `shardkv` four to five configurations give every
order a shard can go round in: there, there and back, back to a group that still has
something of its first visit, on to a third. A group whose turn it is not is a
bystander. Two shards let one stay while the other moves.

Scheduling bounds, all of them action constraints in `MCRaft` with the reason
beside them: in `replication` and `snapshots` nothing else happens during an election
(`elections` explores elections without it), the network cuts one link of the two,
and in `snapshots` a server finishes a local step it
may not be preempted in. `LiveState` is a view that forgets RPC slots and indices
of servers that are no longer leader, which no step reads before it resets them.

`PartitionedUntilSnapshot` of `snapshots` lets the follower get the entries
only through the snapshot or after it; without it the run meets finding 2, which
`rollback` shows by itself. In `MCKVRaft`, `PromptSteps` lets a step that waits for
nobody come first (a clerk's next call, a send on a channel with room, the deferred
delete) and `DeposedByLeader` lets an old leader step down only when there is a
newer one; `FailedCallsRetry` lets a call fail only if the clerk has another.
`TwoCallsIfFaulty` gives the schedules of two writes with a snapshot or
a crash two calls instead of three. `kv_stuck` drops `PromptSteps`, which would
hide it.

The scenarios of `raft` are smaller in elections and crashes than the theorems about
the same properties, which have no bounds (section 5): the run finds errors in what the
theorems say, the proofs cover the rest.

In `MCShardMaster`, `Within` and `Faultless` give each program its number of calls,
terms and faults; `PromptSteps` and `DeposedByLeader` are as for `kvraft`. In
`MCShardKV`, `PromptGroups` lets a group without any shard go through configurations at
once; `PromptConfigs` makes the next configuration when the first group has taken the
one before, so groups are up to a configuration apart and handovers of consecutive
configurations overlap; `PromptReplies` lets a clerk take a reply at once, and a call
fail only if the clerk has another; `PromptExit` lets a handler check the status before the next
entry is applied, which `shard_acked` drops.

Fairness of Raft (`RaftLiveness`): goroutines are scheduled (weak fairness of their steps);
one that keeps asking for `rf.mu` gets it (strong fairness of `CheckCommit`, whose
goroutine can be between two waits); a request sent again and again gets through,
and so does one of the replies (strong fairness of `Arrive`, `HandleReply`): the
network drops some messages, not all. Nothing forces an election, a crash, a
snapshot or a call of `Start`.

Fairness of the shardmaster (`ShardMasterSafety`): handlers and the applier's send run
when they can, the network delivers or drops what it has, the client takes what comes
(weak fairness of each). Nothing forces Raft to agree on anything or a clerk to try again:
`EveryCallReturns` holds by the timeouts and the network alone, and would not if the
applier could hang with `sm.mu` locked.

Fairness of `shardkv` (`ShardKVSafety`): the tickers of each group make a proposal while
there is a new one to make, and a proposal that would change the group's state is
agreed on in the end, which is what a leader that stays, and its rounds every 50 to 100
ms, give. Nothing forces the administrator or the clerks. `ShardsSettle` says that the
groups do not wait for each other for ever.

## 4. What the code does differently from what it says

Each has a run that ends in a counterexample.

1. `preempted`: the winner of an election tests the tally and `rf.state` without the
   lock (RequestVote.go:253), then locks and becomes leader without testing again.
   A newer term accepted in between gets a second leader.
2. `rollback`: `InstallSnapshot` ignores a snapshot only if it is not past its own
   last one (AppendEntries.go:125). A follower that has meanwhile applied more by
   `AppendEntries` hands the snapshot to its service all the same, `lastApplied`
   stays, and the service has lost the commands in between for good. `KVServer`
   takes any snapshot it receives (server.go:306): with `LateSnapshots = TRUE`
   `ReplicasAgree` fails in `KVRaft`, too.
3. `kv_stale`: a Get waits at its index for an entry of its clerk with its number,
   but all Gets have number 0 (client.go:41, server.go:143). On a deposed leader an
   older Get of the clerk that is applied at the index answers it, from a map without
   the clerk's own later write.
4. `kv_stuck`: a handler that timed out keeps its channel until it gets `kv.mu`.
   `Apply` fills the channel with the Op of the index; if a snapshot comes before the
   handler gets the lock, `Apply` sends again (server.go:312), holding `kv.mu`, to
   nobody. The server never replies again.

5. `shard_orphan`: `applyConfiguration` freezes a shard only if it goes to another group
   (shardkv/server.go:190). When all groups leave, it stays `Serving`; the next group
   to join takes it as a shard that never had an owner (server.go:179) and serves it,
   empty, while the first group still serves clerks that ask it.
6. `shard_acked`: the handler of a write looks at the status of the shard when it has
   been notified (server.go:532), not at whether the applier executed the write. A
   write that is applied while its shard is being pulled is dropped; if the shard has
   arrived when the handler gets the lock, it answers OK.

More places where the code risks something are in the model, as a seam or a
fault of its own, and are left closed or excepted in the runs above:

- `AppendEntries` of a newer term writes the cleared vote with the old term first
  (AppendEntries.go:244-245). A crash before the next write (`TornAppendEntries`)
  loses the vote of that term, the step `VoteSurvives` excepts.
- `applyLog` tests `lastApplied < commitIndex` without the lock. With `"apply"` in
  `Preemptible` an `InstallSnapshot` in between sets both to the snapshot's index,
  and `applyLog` goes on to the entry after it, committed or not.
- `InstallSnapshot` sends its snapshot from a goroutine of its own and `applyLog`
  sends after Unlock. With `"deliver"` in `Preemptible` the service may receive a
  command before the snapshot it follows, against `AppliedInOrder`.
- With `AnyGet = TRUE` a Get of `shardkv` answers from any state the group's servers may
  be in, and `ClerksSeeOneMap` fails: finding 3 in this service. Without `PromptExit` it
  fails by finding 6.
- `Move` accepts a group that never joined. The group that gets the shard next finds no
  servers to pull it from and stays in that configuration for ever (server.go:730); no
  plan of the runs has such a `Move`.

## 5. Proofs

| Theorem | Assumes | States |
|---|---|---|
| `RaftLeaders!TypeCorrect` | the constants' assumptions | `Spec => []TypeOK` |
| `RaftLeaders!PersistenceCorrect` | the same | `Spec => []PersistedIsCurrent` |
| `RaftLeaders!TermsNeverFall` | the same | `Spec => TermsGrow` |
| `RaftLeaders!VotesSurvive` | the same | `Spec => VoteSurvives` |
| `RaftLeaders!VotesStayAccounted` | the same, and `"election" \notin Preemptible` | `Spec => []((used.torn = 0 => ElectionSafety /\ VotesAccounted(Nat)) /\ VotesAreAccounted)` |
| `RaftLeaders!OneLeaderPerTerm` | the same, and no scenario with a crash between the two writes (`torn = 0`) | `Spec => [](ElectionSafety /\ VotesAccounted(Nat))` |
| `RaftLeaders!LogsAlwaysMatch` | the same as `OneLeaderPerTerm` | `Spec => [](LogMatching /\ Matching)` |
| `RaftCommit!WhatIsChosenStays` | the same as `OneLeaderPerTerm` | `Spec => [](MatchIndexHonest /\ Voting /\ Acknowledged) /\ [][ChosenKept]_vars` |
| `RaftCommit!CommittedStays` | the same, and `"apply" \notin Preemptible` | `Spec => [](CommittedAgree /\ LeaderCompleteness /\ CommitInLog /\ CommitCovered /\ Committing)` |
| `RaftCommit!SendsInRange` | the same as `CommittedStays` | `Spec => [](SendInRange /\ Hints)` |
| `RaftCommit!ServicesKeepUp` | the same, and `"deliver" \notin Preemptible` | `Spec /\ []NotRolledBack => [](AppliedInOrder /\ ServicesAgree /\ SnapshotFitsLog /\ Serving)` |
| `RaftCommit!ServicesSeeOneLog` | the same as `ServicesKeepUp` | `Spec /\ []NotRolledBack => ServiceView!Spec` |
| `RaftCatchUpProofs!LogsMatchThroughout` | the constants' assumptions | `Spec => []LogsMatch` |
| `RaftCatchUpProofs!PublicIndicesAlwaysAgree` | the same | `Spec => []PublicIndicesAgree` |
| `RaftCatchUpProofs!WhatAgreesStays` | the same | `Spec => AgreedEntriesStay` |
| `KVRaftProofs!ReplicasAlwaysAgree` | the constants' assumptions, `~LateSnapshots` | `Spec => []ReplicasAgree` |
| `KVRaftProofs!ClerksSeeAMap` | the same | `Spec /\ []NoOldGet => Linearizable` |
| `KVRaftProofs!ClerksOfOneGetSeeAMap` | the same, and `OneGetEach` | `Spec => Linearizable` |
| `ShardMasterProofs!ReplicasAlwaysAgree` | the constants' assumptions | `Spec => []ReplicasAgree` |
| `ShardConfigProofs!RebalanceDivides` | `ShardConfigAssumption` | of any table, `rebalance` makes an even one with the fewest moves, in at most `NShards` turns |
| `ShardMasterProofs!RebalanceDividesEvenly` | the constants' assumptions | `RebalanceIsEven` |
| `ShardMasterProofs!ClerksSeeOneHistory` | the same | `Spec => HistoryIsAtomic` |
| `ShardKVProofs!LeavesSettled` | the constants' assumptions | `Spec => SettledBeforeNext` |
| `ShardKVProofs!OneOwner` | the same | `Spec /\ []NeverOrphaned => []AnOwnerAtATime` |
| `ShardKVProofs!NothingServedIsStale` | the same | `Spec /\ []NeverOrphaned => []ServedIsCurrent` |
| `ShardKVProofs!DataIsKept` | the same | `Spec /\ []NeverOrphaned => []NothingIsLost` |
| `ShardKVProofs!ToldIsServed` | the same, and `AnyGet = FALSE` | `Spec /\ []NeverOrphaned /\ [][StaysAway]_vars => []AcknowledgedIsExecuted` |
| `ShardKVProofs!ClerksSeeAMap` | the same as `ToldIsServed` | `Spec /\ []NeverOrphaned /\ [][StaysAway]_vars => ClerksSeeOneMap` |

The theorems about Raft hold for any set of servers and commands, any number of elections, requests,
crashes and snapshots, any delay, loss and reordering. What they assume are seams of the
code that must stay closed, and each is needed:

- `NeverTorn`, `"election" \notin Preemptible`: `preempted` shows that `OneLeaderPerTerm`
  fails without the second, and a vote lost in a torn crash may be given again in the same
  term.
- `"apply" \notin Preemptible`: `applyLog` tests `lastApplied < commitIndex` without the
  lock. If an `InstallSnapshot` comes in between, it moves both to the same index and
  `applyLog` goes on to the entry after it, which need not be committed.
- `"deliver" \notin Preemptible`: nothing keeps two goroutines that send on `applyCh` in
  the order in which they held the lock.
- `[]NotRolledBack`: no snapshot is installed below what its follower has applied. It says
  that finding 2 does not happen, and nothing else: the theorem says how far that single
  line reaches.

- `RaftLogProofs` proves what each operator of `RaftLog` returns for any log. The
  community modules' `Max` and `Min` are defined by CHOOSE; that the element exists is
  proved from well-foundedness of the subset ordering on finite sets.
- `TypeCorrect` has a lemma per group of actions. The facts about slots
  (`SlotTypes`, `AnswerType`) are stated once.
- `OneLeaderPerTerm`. `ElectionSafety` is not inductive: it says nothing about votes on
  their way. A vote *counts* (`Counts`) while its reply waits to be handled, while
  its candidate has it tallied, and after it has made a leader. The inductive
  invariant is `TypeOK`, `PersistedIsCurrent` and `VotesAccounted(Nat)`: a vote that
  counts is on the voter's record or the voter is past that term (`VotesOnRecord`);
  votes of one voter in one term count for one candidate (`VotesCountOnce`); a
  candidate waits only for replies to requests of its own term, although
  `sendRequest` reads the term late (`AsksInOwnTerm`); who has won has a majority and
  is still a candidate (`WinnersHaveMajorities`). `RecordStep` shows for each action
  that it saves what it changes, keeps votes within a term (`VotesKept`), and lets
  only votes count that counted before or are fresh (`Tallied`). Crashes need
  `PersistedIsCurrent`: the term and the vote in memory after a restart are those
  before it. Two majorities share a voter, which gives `ElectionSafety`. Until a torn
  crash all this holds whatever the scenario allows (`VotesStayAccounted`).

- `LogsAlwaysMatch`. The classical proof that logs match needs, for every entry, the log
  of the leader that made it, up to the entry. Here that log may be compacted, cut or lost in a
  crash; `ledger` has it. `Matching` says that a ledger never has an entry without
  agreeing, up to it, with the leader of the entry's own term (`Rooted`); that every log, in
  memory and on disk, and every request is a piece of one ledger (`Along`, `Fits`,
  `EntriesFit`, `SnapshotFits`), the log of a leader all of its own ledger (`Leads`); and that
  whoever was elected asks no more in that term (`NotAsking`). `LogMatching` follows from
  `Rooted`: two entries with the same index and term come from the same leader.
- `WhatIsChosenStays`. A server *backs* entry n of the leader of term T (`Backs`) if it is
  in term T or later, its log agrees with that leader up to n, and whoever it has voted for
  since has that part of the log, unless a leader in between has lost it already (`Lost`).
  An entry of the leader's own term that a majority backs is *chosen*; the theorem says
  that no step takes that away, so no later leader lacks it: a leader that did would be the first, and a majority has
  voted for it. Votes that have been given and not yet been counted matter as much as
  those of leaders, hence `Asks` and `VotedFor`. `Voting` relates a request for a vote to
  the log that the candidate has now. `Acknowledged` is what replies, late ones too, stand for:
  a success says that the sender of it backs all that was sent, and `matchIndex` counts
  only that (`CountsOn`), or lies below the leader's snapshot.
  `MatchIndexHonest` says so only for indices past the leader's snapshot, because
  `initLeader` starts `matchIndex` at `lastIncludedIndex` for followers that have
  nothing; `checkCommit` takes no index from there (AppendEntries.go:702, 768).
- `CommittedStays`. A commit index is *covered* by an entry chosen in the server's term or
  before (`Covered`); so is one that a request carries (`Carried`), and the request itself
  reaches that far (`CommitCovered`), so the follower may bound it by its own last index
  instead of the request's (AppendEntries.go:364). Two covered entries are in the
  ledger of the later leader. The rest of `Committing` relates the two kinds of index: a public
  index is the number of commands among the entries up to the private one (`Counted`), in
  the log, on disk, in the service and in requests (`Served`, `Carries`), and the last
  entry under a snapshot is a no-op in the place of what was dropped.
- `SendsInRange`. `Hints`: what a rejection suggests is no further than the ledger
  of the term it was for, though the leader may have been deposed and elected again
  when the reply comes.
- `ServicesKeepUp`. A service, the snapshot on disk, one on its way or being
  handed over *stands for* the commands among the first entries of a ledger (`Stands`).
  `Delivers` says for which: the service for `lastApplied` if nothing is between it and its
  log, otherwise together with what is.
- `ServicesSeeOneLog`. The log of `ServiceLog` is what stands for the furthest entry that
  is chosen (`Agreed`). There is a furthest one: what is chosen is chosen in a term that
  has begun, and the leader of the last such term has everything (`FurthestExists`). For
  every prefix of a ledger there are commands that stand for it, by counting
  (`StandsExists`). What was chosen is a prefix of what is chosen later
  (`AgreedReaches`), so the log only grows (`AgreedGrows`). A majority may settle several
  entries in one step, so `Grows` takes in any number of commands. `ServicesKeepUp` says
  that a service and the snapshot on its disk stand for entries that are committed, and so
  for a beginning of the log; a step moves them as `Hears`, `Saves` or `Loads` does
  (`ServicesFollow`). No run checks this one; the proof is for every server, term and log.
- `RaftCatchUpProofs` takes the exchange between a leader and one follower by itself, without
  elections, and so without their assumptions. Each log is a piece of a ledger, what it would
  be had it never been cut (`Sees`), and the two ledgers are alike (`Alike`). The invariant
  says that there are such ledgers (`CatchingUp`); a merge gives the follower the leader's
  (`MergeSees`), a snapshot the leader's or its own (`InstallSees`). Public indices are counted
  in the ledger (`PublicIsCounted`).

`ReplicasAlwaysAgree` holds for any servers, clerks, keys, programs, retries, elections,
crashes and snapshots. `~LateSnapshots` excludes finding 2 and nothing else: then a
snapshot is received only if it is past what was applied. The map after n entries is a
recursive function of the log (`StoresOf`). That it exists, and that more entries leave
it as it was (`StoresExist`, `StoresKept`), is shown by a least counterexample
(`LeastNatural`, from the well-foundedness of the subset ordering on intervals), so no
induction theorem is needed. `ReplicasAgree` is not inductive: the map depends on the
table of duplicates, the table on the order in which commands come. The invariant is
`Types /\ Agreeing`:

- a command that is in a log, a call or an entry on its way is its clerk's current one or
  has been agreed on (`Issued`), so a clerk never has two writes on their way
  (`Clerking`), and a write is acknowledged only if it is in the log (`Handling`);
- hence a clerk's writes come in their order, however often each comes (`LogInOrder`);
- hence the largest number applied for a clerk tells exactly which of its writes were
  (`Stored`): the table has seen an entry if and only if the entry repeats an earlier one
  (`SeenIsRepeated`). The same holds of every snapshot, on disk or taken by others;
- what `Apply` has to send is the entry at the index it last applied (`Looping`), and a
  channel belongs to a call that waits at its index (`Channels`): the handler of a write
  that matches clerk and number of what it is sent has its own write (`MatchIsOwn`).

`ClerksSeeAMap` is the refinement of `AtomicMap`. `NilAssumption`, that no command is the
zero `Op{}`, is all it needs of the constants besides. `NoOldGet` excludes finding 3 and
nothing else: it says of a Get that waits at an index which was decided before it was
called that the entry there is not an older Get of the same clerk. `kv_stale` shows that
the theorem fails without it. `ClerksOfOneGetSeeAMap` proves it from the programs: if each
calls Get at most once, as those of `kv` do, then no Get is in the log when one is called
(`OneGet`).

- Of the steps, only four are steps of the map; all others leave what the clerks have
  called, the log and the results alone (`MapStays`). A call is a call (`InvokeCalls`): a
  new write is not in the log yet, for what is issued and not agreed on is its clerk's
  current command. Agreeing on the first entry with a write makes it take effect
  (`AgreeTakesEffect`); on a repeated one, or on a Get, changes nothing. Taking a reply
  that is OK returns (`TakeReplyReturns`).
- A write returns only after it took effect, by `Handling`. A read returns a value seen
  since its call, by `Reading`: a handler that has found its Get reads the map of a server
  that has applied at least the log as it was at the call, and what it has read is a value
  of its key at some point of the log since. This is where the index matters: a handler
  finds its Get at the index it waits at, and only `NoOldGet` says that this lies after
  the call (`FoundSince`), since a Get's number tells it from no other Get.

The theorems about `shardmaster` hold for any servers, clerks, groups, requests, retries,
elections, shutdowns and cut-off ends. The history of configurations that the agreed log
stands for is a variable of its own, and what a replica must have is a prefix of it
(`HistoryUpTo`). Of `rebalance`, that replicas agree needs only that there is a set of
configurations which requests do not leave (`ClosedExists`, by a least counterexample). The
invariant is `Types /\ Agreeing`:

- as with `kvraft`, an operation that is anywhere is its clerk's current one or has been
  agreed on (`Issued`, `Clerking`), so a clerk's requests come in the log in their order
  (`LogInOrder`), however often each comes; here even a Query has a number of its own;
- an entry makes a configuration if no earlier one has its operation (`HistoryMade`,
  `MakesConfig`); a replica executes it if its number is larger than the largest executed
  for that clerk, of the entries since the server was started. By `LogInOrder` these are
  the same (`ExecutesMakers`), also for a restarted server that begins with an empty
  table and replays the log while clerks already ask it (`Serving`);
- what an applier sends, and what is in the box of a handler, was applied there
  (`Serving`, `Placed`); a reply that does not say to ask elsewhere is to an operation that
  has been agreed on, and a Query's is an answer from a history no older than the call
  (`Good`, `Fresh`), although it is read after the lock was given up and the server may
  have been shut down and started again since.

From this invariant `ClerksSeeOneHistory` goes step by step. A change that is called is not
in the log yet (`InvokeCalls`); agreeing on the first entry with it makes it take effect, and
on any other entry changes nothing that clerks see (`AgreeTakesEffect`); a reply that does not
say to ask elsewhere returns (`CallReturnsReturns`), a change after it took effect and a Query
with one of the answers there were since its call, by `Good`. That the configuration a
change makes is one that `ConfigHistory` allows is `NewConfigSucceeds`, by the theorem about
`rebalance`.

`RebalanceDivides` is about `rebalance` alone. The library's induction is of no use to the
installed provers; its two loops are followed by hand instead, with least counterexamples
(`UpTo`) over values whose existence `RecursionExists` gives. The invariant of the loops is
`Fair`: who has received a shard has at most one more than anybody else, who has given one
away has at most one less, nobody does both, and nobody who received has more than one who
gave. From there:

- the lists that the code keeps beside the table say what the table says (`Listed`), so
  `getMinMaxGid` finds a richest and a poorest group (`MinIsLeast`, `MaxIsMost`);
- step 4.1 ends in a fair table in which only orphans have moved (`SettledIsFair`), and a
  turn of step 4.2 keeps it fair, moves one shard more (`TurnIsFair`) and is taken only as long
  as there is a shard that has not moved (`UnevenIsNotOver`); so that the loop ends, with an
  even table (`LeveledIsEven`);
- a fair table that is even moves as few shards as any even table (`FairMovesFewest`). If
  all who gave have more than somebody else, no even table leaves them more, and the moves are
  counted by where they start (`FewestGiven`); otherwise some giver has as few as anybody, no
  receiver has more than it, no even table brings the receivers less, and the moves are
  counted by where they end (`FewestReceived`).

The theorems about `shardkv` hold for any groups, shards, clerks, programs and plans,
and whatever is agreed on late or twice. `NeverOrphaned` says that a shard which was
once given to a group is never again without one; `shard_orphan` shows that `OneOwner`
fails without it. It is a condition on the configurations alone, and the plans of the run
`shardkv` meet it. That every shard belongs to a group of `Gid` or to none
(`OwnersAreGroups`) follows from what is proved about `rebalance` (`RebalanceType`).

What clerks see needs two hypotheses more, each of which excludes one finding and nothing else.
`StaysAway` is a condition on steps: while a handler has been notified and has not
yet looked again whether its group serves the shard, the group does not get the shard back
(finding 6). It is weaker than the bound `PromptExit` of the run, under which the
handler looks before the next entry is applied, and `shard_acked` shows that
`ToldIsServed` fails without it. `AnyGet = FALSE` says that a Get finds its own
entry (finding 3 in this service). `NilAssumption` says that `Nil` is neither a reply nor a call.

- `LeavesSettled`. That a group settles before it goes on is looked at by a server
  which may be behind, long before the entry is agreed on. The inductive invariant
  `InOrder` says why this is enough: a proposed configuration is no later than the next
  one, and if it is the next, the group has settled in the one it is in
  (`GivenWhenSettled`); a server in an earlier state of the same configuration that has
  settled shows that the group has (`Behind`), since within a configuration statuses only
  move on (`StatusStep`); configurations are numbered (`Numbered`).
- `OneOwner`. `AnOwnerAtATime` is not inductive: a group that pulls does not serve, yet
  its InsertShard may be on its way. The invariant `Handover` adds what a group knows
  of its own shards (`OwnersKnow`), that who serves a shard, or has left a configuration
  in which it owned it, came after every earlier owner (`ServesAfterAll`,
  `LeftAfterAll`), and that what is to be inserted was fetched from a group that
  had taken the configuration which freezes it (`FetchedFrozen`). Of two
  groups that serve one shard, the one in the later configuration would have found
  the other gone on from it.
- `NothingServedIsStale`. What a group serves depends on what it fetched, which depends
  on what the old owner had when it answered. The invariant `Stored` follows the data
  through a handover. A shard is *awaited* in configuration n (`Awaited`) while its owner
  in n has not inserted it. So long, the owner in n - 1, once in n, stays there with the
  shard frozen, equal to all that was written (`FrozenWhileAwaited`); no deletion of it is
  proposed in that group (`KeptWhileAwaited`), since only a server whose group has
  inserted it asks (`InsertedStays`); and whatever was fetched and not yet agreed on is
  current (`FetchedIsCurrent`). The new owner's own store is empty, so that an empty
  answer, which `InsertShard` skips, overwrites nothing by being skipped
  (`EmptyUntilInserted`), and a shard without a former owner was never written
  (`WrittenByOwner`). Nobody writes in the meantime, by `Handover` (`NobodyServes`).
- `DataIsKept`. `Held` adds that a shard once written is served, or awaited with its
  old owner already in the configuration that froze it. The delicate step is the
  deletion: the entry is in the log only if the shard is awaited no more, so another
  group has it. That the group that has the data has the table of duplicates too
  needs `Remembered`, which is the next theorem's, and `KnownIsDone`: what the tables of all groups
  together know is `known`, the last write of each clerk that was executed
  (`CommitIsKnown`). Who serves a shard, or has frozen it for an owner that awaits it,
  knows no less than anybody, so its table is `known` (`TableIsKnown`). Of the clerks
  this asks only that what they send are operations (`ClerksAsk`), not how often.
- `ToldIsServed`. A write may be retried at the next owner, which knows it for a repetition only
  by the table of duplicates that came with the shard. `Remembered` follows the tables as
  `Stored` does the data: who serves a shard knows of every write to it that anybody knows of
  (`ServedKnows`), so does who has frozen it for an owner that awaits it (`FrozenKnows`), and
  the table fetched is this one (`FetchedTable`). `InsertShard` merges it into an empty one
  (`NoTableUntilInserted`), so that the new owner has it whole. A write is *done* (`Done`)
  when some table has its number or a later one of its clerk. By `Held` there is somebody who
  serves the shard or has frozen it, and that group's table keeps growing or goes with the
  shard: what is done stays done (`DoneStays`), and what becomes done is what is executed
  (`DoneBy`). `Clerking` says that a write on its way is its clerk's current one or
  done (`AskedOnce`), so only current ones are executed (`ExecutesCurrent`); no table
  is ahead of its clerk (`KnownIsAsked`); and a handler that is notified has a write that
  is done, or its group does not serve the shard (`Replied`, `CommitTells`).
- `ClerksSeeAMap`. Of the steps only four are steps of the map. A call is a call
  (`InvokeCalls`): its number is in no table yet, by `KnownIsAsked`. The entry that executes
  a write makes it take effect (`CommitTakesEffect`), that of one clerk only, by
  `DoneBy`; any other entry changes nothing that clerks see. A reply that is OK returns
  (`TakeReplyReturns`): a write that is done, or a value that was current when the Get's
  entry was applied, by `ServedIsCurrent`, and hence among those seen since the call
  (`SeesSince`).

All invariants that the runs check are proved, and so are the two refinements of `AtomicMap`
and those of `ConfigHistory` and `ServiceLog`. Only model-checked: liveness, which is beyond
the prover (fairness needs ENABLED).

## 6. Not modelled, and what is left

In this order:

1. The leaders' side of `AgreedLog`: that `Elect` and `Start` are what elections and
   `Raft.Start` do, with the index a leader hands out. The services' side is
   `ServicesSeeOneLog`. `Agree` takes one entry at a time, where one step of Raft may
   settle several.
2. Progress of the services: a clerk's call returns if a leader stays.
3. The unlocked head of `LeaderAction` as steps of its own (the hazard at
   AppendEntries.go:801), and snapshots of `shardkv` as states of single servers.

Left out for good: `labgob`, because encoding is transparent to the program;
`porcupine`'s search and its visualization, a third-party checker (its sequential model
is `AtomicMap`); the test harnesses but for the faults they inject; the MapReduce stubs;
the older copies of packages, which the running system does not contain.
