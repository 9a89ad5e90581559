----------------------------- MODULE RaftLeaders -----------------------------
(***************************************************************************)
(* Proofs about types, votes and logs: every variable of Raft keeps its    *)
(* type, the disk holds what the memory holds, terms never go back, a vote *)
(* survives, no term has two leaders, and the logs match.  From the vote   *)
(* on, this holds under two assumptions the code does not establish: that  *)
(* AppendEntries writes the term and the vote at once, and that a winner   *)
(* is not preempted between testing its state and locking.                 *)
(***************************************************************************)
EXTENDS RaftSafety, RaftLogProofs

(***************************************************************************)
(* Slots and what is put into them.                                        *)
(***************************************************************************)
\* The slots a goroutine goes through are slots, and one that holds a reply holds
\* a request and a reply of the same kind.
LEMMA SlotTypes ==
  /\ IdleSlot \in VoteSlot /\ SpawnedSlot \in VoteSlot /\ IdleSlot \in EntrySlot
  /\ \A m \in VoteRequest : SentSlot(m) \in VoteSlot
  /\ \A m \in EntriesRequest \cup SnapshotRequest : SentSlot(m) \in EntrySlot
  /\ \A slot \in VoteSlot : slot.st = "replied" =>
       slot.req \in VoteRequest /\ slot.reply \in VoteReply
  /\ \A slot \in EntrySlot : slot.st = "replied" =>
       \/ slot.req \in EntriesRequest /\ slot.reply \in EntriesReply
       \/ slot.req \in SnapshotRequest /\ slot.reply \in SnapshotReply
<1> USE DEF VoteSlot, EntrySlot, Slot, IdleSlot, SpawnedSlot, SentSlot
<1>1. IdleSlot \in VoteSlot /\ SpawnedSlot \in VoteSlot /\ IdleSlot \in EntrySlot
  OBVIOUS
<1>2. \A m \in VoteRequest : SentSlot(m) \in VoteSlot
  OBVIOUS
<1>3. \A m \in EntriesRequest \cup SnapshotRequest : SentSlot(m) \in EntrySlot
  OBVIOUS
<1>4. \A slot \in VoteSlot : slot.st = "replied" =>
        slot.req \in VoteRequest /\ slot.reply \in VoteReply
  OBVIOUS
<1>5. \A slot \in EntrySlot : slot.st = "replied" =>
        \/ slot.req \in EntriesRequest /\ slot.reply \in EntriesReply
        \/ slot.req \in SnapshotRequest /\ slot.reply \in SnapshotReply
  OBVIOUS
<1> QED BY <1>1, <1>2, <1>3, <1>4, <1>5

\* A reply delivered to a slot of type S leaves a slot of type S.
LEMMA AnswerType ==
  ASSUME NEW S, NEW rpc \in [Server -> [Server -> S]], NEW m, NEW r,
         m.from \in Server, m.to \in Server,
         [st |-> "replied", req |-> m, reply |-> r] \in S
  PROVE  answer(rpc, m, r) \in [Server -> [Server -> S]]
BY DEF answer

\* A reply makes a slot with the request it belongs to.
LEMMA RepliedTypes ==
  /\ \A m \in VoteRequest, r \in VoteReply :
       [st |-> "replied", req |-> m, reply |-> r] \in VoteSlot
  /\ \A m \in EntriesRequest, r \in EntriesReply :
       [st |-> "replied", req |-> m, reply |-> r] \in EntrySlot
  /\ \A m \in SnapshotRequest, r \in SnapshotReply :
       [st |-> "replied", req |-> m, reply |-> r] \in EntrySlot
BY DEF VoteSlot, EntrySlot, Slot

\* The three kinds of requests, told apart by their type.
LEMMA RequestTypes ==
  ASSUME NEW m \in Request
  PROVE  /\ m.from \in Server /\ m.to \in Server /\ m.term \in Nat
         /\ m.type = "RequestVote" => m \in VoteRequest
         /\ m.type = "AppendEntries" => m \in EntriesRequest
         /\ m.type = "InstallSnapshot" => m \in SnapshotRequest
BY DEF Request, VoteRequest, EntriesRequest, SnapshotRequest

Used == [scenario : DOMAIN Scenarios, restarts : Nat, torn : Nat, snapshots : Nat]

\* Counting a fault keeps the counters natural numbers.
LEMMA UsedType ==
  ASSUME NEW u \in Used
  PROVE  /\ [u EXCEPT !.restarts = @ + 1] \in Used
         /\ [u EXCEPT !.torn = @ + 1] \in Used
         /\ [u EXCEPT !.snapshots = @ + 1] \in Used
BY DEF Used

\* Turning follower keeps the types of what it sets.
LEMMA AdoptTermType ==
  ASSUME TypeOK, NEW s \in Server, NEW term \in Nat, NEW vote \in Server \cup {Nil},
         AdoptTerm(s, term, vote)
  PROVE  /\ currentTerm' \in [Server -> Nat]
         /\ votedFor' \in [Server -> Server \cup {Nil}]
         /\ state' \in [Server -> {"Follower", "Candidate", "Leader"}]
         /\ turnToLeader' \in [Server -> BOOLEAN]
BY DEF TypeOK, AdoptTerm

(***************************************************************************)
(* Initial states and steps.                                               *)
(***************************************************************************)
\* The variables of servers that have just been made have their types.
LEMMA TypeInit == Init => TypeOK
<1>1. NoSnapshot \in Snap
  BY EmptySeq DEF NoSnapshot, Snap
<1> QED BY <1>1, EmptyLogType, SlotTypes DEF Init, TypeOK

\* A crash: the process restarts from a record of the persister's type.
LEMMA BootType ==
  ASSUME TypeOK, NEW s \in Server,
         NEW p \in [currentTerm : Nat, votedFor : Server \cup {Nil}, log : Log, snapshot : Snap],
         Boot(s, p), used' \in [scenario : DOMAIN Scenarios, restarts : Nat, torn : Nat, snapshots : Nat]
  PROVE  TypeOK'
<1>1. /\ p.currentTerm \in Nat /\ p.votedFor \in Server \cup {Nil}
      /\ p.log \in Log /\ p.snapshot \in Snap
  OBVIOUS
<1>2. p.log.lastIncludedIndex \in Int
  BY <1>1, LogBasics
<1> QED BY <1>1, <1>2, SlotTypes DEF TypeOK, Boot

\* The steps of one server.
LEMMA ServerStepType ==
  ASSUME TypeOK, NEW s \in Server, ServerStep(s)
  PROVE  TypeOK'
<1> USE DEF TypeOK, votingVars, electionVars, leaderVars, applyVars
<1>1. CASE StartElection(s)
  BY <1>1, SlotTypes DEF StartElection, persist, persistWithSnapshot
<1>2. CASE TallyVotes(s)
  BY <1>2, SlotTypes DEF TallyVotes
<1>3. CASE BecomeLeader(s)
  <2>1. [term |-> currentTerm[s], cmd |-> NoOp] \in Entry
    BY DEF Entry
  <2>2. append(log[s], [term |-> currentTerm[s], cmd |-> NoOp]) \in Log
    BY <2>1, AppendType
  <2> QED BY <1>3, <2>2 DEF BecomeLeader, persist, persistWithSnapshot
<1>4. ASSUME NEW c \in Command, Start(s, c)
      PROVE  TypeOK'
  <2>1. [term |-> currentTerm[s], cmd |-> c] \in Entry
    BY DEF Entry
  <2>2. append(log[s], [term |-> currentTerm[s], cmd |-> c]) \in Log
    BY <2>1, AppendType
  <2> QED BY <1>4, <2>2 DEF Start, persist, persistWithSnapshot
<1>5. CASE InitLeader(s)
  <2>1. lastLogIndex(log[s]) + 1 \in Int /\ log[s].lastIncludedIndex \in Int
    BY LogBasics
  <2> QED BY <1>5, <2>1 DEF InitLeader
<1>6. CASE CheckCommit(s)
  <2>1. Committable(s) # {} => Max(Committable(s)) \in Int
    <3>1. Committable(s) \subseteq (log[s].lastIncludedIndex + 1) .. lastLogIndex(log[s])
      BY DEF Committable
    <3>2. log[s].lastIncludedIndex + 1 \in Int /\ lastLogIndex(log[s]) \in Int
      BY LogBasics
    <3> QED BY <3>1, <3>2, IntervalSubset
  <2> QED BY <1>6, <2>1 DEF CheckCommit
<1>7. CASE ApplyCheck(s)
  BY <1>7 DEF ApplyCheck
<1>8. CASE ApplyNext(s)
  <2> DEFINE next == lastApplied[s] + 1
  <2>1. next \in Int /\ realToPublicIndex(log[s], next) \in Nat
    BY PublicIndexType
  <2>2. At(log[s], next) \in Entry
    BY <1>8, LogBasics DEF ApplyNext
  <2>3. At(log[s], next).cmd # NoOp => At(log[s], next).cmd \in Command
    BY <2>2 DEF Entry
  <2> QED BY <1>8, <2>1, <2>3 DEF ApplyNext, persist, persistWithSnapshot
<1>9. CASE ReceiveCommand(s)
  <2>1. Append(service[s].cmds, outbox[s].cmd) \in Seq(Command)
    BY <1>9, AppendProperties DEF ReceiveCommand, Snap
  <2> QED BY <1>9, <2>1 DEF ReceiveCommand, ServiceUnchanged, Snap
<1>10. CASE ReceiveSnapshot(s)
  BY <1>10 DEF ReceiveSnapshot, ServiceUnchanged
<1>11. CASE Snapshot(s)
  <2> DEFINE real == publicToRealIndex(log[s], service[s].index)
  <2>1. service[s].index \in Nat
    BY DEF Snap
  <2>2. real \in Indices(log[s])
    BY <1>11, <2>1, RealIndexType DEF Snapshot
  <2>3. compact(log[s], real, service[s].index) \in Log
    BY <2>1, <2>2, CompactType
  <2>4. used' \in [scenario : DOMAIN Scenarios, restarts : Nat, torn : Nat, snapshots : Nat]
    BY <1>11, UsedType DEF Snapshot, Used
  <2>5. log' = [log EXCEPT ![s] = compact(log[s], real, service[s].index)]
    BY <1>11 DEF Snapshot
  <2>6. /\ persistWithSnapshot(s, service[s]) /\ ServiceUnchanged
        /\ UNCHANGED <<outbox, installing, service>>
    BY <1>11 DEF Snapshot
  <2> HIDE DEF real
  <2> QED BY <2>3, <2>4, <2>5, <2>6 DEF ServiceUnchanged, persistWithSnapshot
<1>12. CASE Restart(s)
  <2>1. used' \in [scenario : DOMAIN Scenarios, restarts : Nat, torn : Nat, snapshots : Nat]
    BY <1>12, UsedType DEF Restart, Used
  <2> QED BY <1>12, <2>1, BootType DEF Restart
<1> QED BY <1>1, <1>2, <1>3, <1>4, <1>5, <1>6, <1>7, <1>8, <1>9, <1>10, <1>11, <1>12
        DEF ServerStep

\* The steps of the goroutine a server runs for a peer.
LEMMA PeerStepType ==
  ASSUME TypeOK, NEW s \in Server, NEW i \in Others(s), PeerStep(s, i)
  PROVE  TypeOK'
<1> USE DEF TypeOK, votingVars, electionVars, leaderVars, applyVars
<1>0. i \in Server
  BY DEF Others
<1>1. CASE SendRequest(s, i)
  <2> DEFINE m == [type |-> "RequestVote", from |-> s, to |-> i,
                   term |-> currentTerm[s],
                   lastLogIndex |-> lastLogIndex(log[s]),
                   lastLogTerm |-> lastLogTerm(log[s])]
  <2>1. m \in VoteRequest
    BY <1>0, LogBasics DEF VoteRequest
  <2>2. m \in Request /\ SentSlot(m) \in VoteSlot
    BY <2>1, SlotTypes DEF Request
  <2> HIDE DEF m
  <2>3. voteRpc' = [voteRpc EXCEPT ![s][i] = SentSlot(m)] /\ msgs' = msgs \cup {m}
    BY <1>1 DEF SendRequest, m
  <2> QED BY <1>0, <1>1, <2>2, <2>3 DEF SendRequest
<1>2. CASE HandleRequestVoteReply(s, i)
  <2>1. voteRpc[s][i].reply \in VoteReply
    BY <1>0, <1>2, SlotTypes DEF HandleRequestVoteReply
  <2>2. voteRpc[s][i].reply.term \in Nat
    BY <2>1 DEF VoteReply
  <2>3. voteRpc' \in [Server -> [Server -> VoteSlot]]
    BY <1>0, <1>2, SlotTypes DEF HandleRequestVoteReply
  <2>4. \/ /\ votes' = [votes EXCEPT ![s] = @ \cup {i}]
           /\ UNCHANGED <<currentTerm, votedFor, state, turnToLeader, persisted>>
        \/ /\ AdoptTerm(s, voteRpc[s][i].reply.term, Nil)
           /\ UNCHANGED votes
           /\ persist(s)
    BY <1>2, Zenon DEF HandleRequestVoteReply
  <2>5. UNCHANGED <<log, commitIndex, lastApplied, committer, msgs, used,
                    election, elected, leaderVars, applyVars>>
    BY <1>2 DEF HandleRequestVoteReply
  <2>6. votes' \in [Server -> SUBSET Server]
    <3>1. votes[s] \cup {i} \in SUBSET Server
      BY <1>0
    <3>2. CASE votes' = [votes EXCEPT ![s] = @ \cup {i}]
      BY <3>1, <3>2
    <3>3. CASE UNCHANGED votes
      BY <3>3
    <3> QED BY <3>2, <3>3, <2>4
  <2>7. /\ currentTerm' \in [Server -> Nat]
        /\ votedFor' \in [Server -> Server \cup {Nil}]
        /\ state' \in [Server -> {"Follower", "Candidate", "Leader"}]
        /\ turnToLeader' \in [Server -> BOOLEAN]
    <3>1. CASE AdoptTerm(s, voteRpc[s][i].reply.term, Nil)
      <4> HIDE DEF TypeOK
      <4> QED BY <2>2, <3>1, AdoptTermType
    <3>2. CASE UNCHANGED <<currentTerm, votedFor, state, turnToLeader, persisted>>
      BY <3>2
    <3> QED BY <3>1, <3>2, <2>4
  <2>8. persisted' \in [Server -> [currentTerm : Nat, votedFor : Server \cup {Nil},
                                   log : Log, snapshot : Snap]]
    <3>1. CASE persist(s)
      <4>1. log'[s] \in Log
        BY <2>5
      <4> QED BY <2>7, <3>1, <4>1 DEF persist, persistWithSnapshot
    <3>2. CASE UNCHANGED persisted
      BY <3>2
    <3> QED BY <3>1, <3>2, <2>4
  <2> QED BY <2>3, <2>5, <2>6, <2>7, <2>8
<1>3. ASSUME NEW m \in EntriesRequest \cup SnapshotRequest, Sending(s, i, m)
      PROVE  TypeOK'
  <2>1. m \in Request /\ SentSlot(m) \in EntrySlot
    BY SlotTypes DEF Request
  <2> QED BY <1>0, <1>3, <2>1 DEF Sending
<1>4. CASE SendSnapshot(s, i)
  <2> DEFINE m == [type |-> "InstallSnapshot", from |-> s, to |-> i, term |-> currentTerm[s],
                   lastIncludedIndex |-> log[s].lastIncludedIndex,
                   lastIncludedTerm |-> log[s].lastIncludedTerm,
                   lastIncludedPublicIndex |-> log[s].lastIncludedPublicIndex,
                   data |-> persisted[s].snapshot]
  <2>1. m \in SnapshotRequest
    BY <1>0, LogBasics DEF SnapshotRequest
  <2> HIDE DEF TypeOK
  <2>2. Sending(s, i, m)
    BY <1>4 DEF SendSnapshot
  <2> QED BY <2>1, <2>2, <1>3
<1>5. CASE SendEntries(s, i)
  <2> DEFINE L == log[s]
             prev == nextIndex[s][i] - 1
             m == [type |-> "AppendEntries", from |-> s, to |-> i, term |-> currentTerm[s],
                   prevLogIndex |-> prev,
                   prevLogTerm |-> At(L, prev).term,
                   entries |-> EntriesFrom(L, prev + 1),
                   leaderCommit |-> commitIndex[s]]
  <2>1. L \in Log /\ prev \in Indices(L) /\ commitIndex[s] \in Int /\ currentTerm[s] \in Nat
    BY <1>5 DEF SendEntries
  <2> HIDE DEF TypeOK, L, prev
  <2>2. prev \in Nat /\ At(L, prev).term \in Nat
    BY <2>1, LogBasics DEF Indices
  <2>3. EntriesFrom(L, prev + 1) \in Seq(Entry)
    <3>1. \A k \in (prev + 1) - L.lastIncludedIndex + 1 .. Len(L.logs) : L.logs[k] \in Entry
      BY <2>1, LogBasics, ElementOfSeq DEF Indices
    <3>2. (prev + 1) - L.lastIncludedIndex + 1 \in Int /\ Len(L.logs) \in Int
      BY <2>1, <2>2, LogBasics
    <3> QED BY <3>1, <3>2, SubSeqProperties DEF EntriesFrom
  <2>4. m \in EntriesRequest
    BY <1>0, <2>1, <2>2, <2>3 DEF EntriesRequest
  <2>5. Sending(s, i, m)
    BY <1>5 DEF SendEntries, L, prev
  <2> HIDE DEF m
  <2> QED BY <2>4, <2>5, <1>3
<1>6. CASE LeaderStepsDown(s, i)
  <2>1. entryRpc[s][i].reply.term \in Nat
    BY <1>0, <1>6, SlotTypes DEF LeaderStepsDown, Awaited, EntriesReply, SnapshotReply
  <2> QED BY <1>0, <1>6, <2>1, SlotTypes
          DEF LeaderStepsDown, AdoptTerm, Wake, persist, persistWithSnapshot
<1>7. CASE HandleRejection(s, i)
  <2> DEFINE m == entryRpc[s][i].req
             r == entryRpc[s][i].reply
  <2>1. m \in EntriesRequest /\ r \in EntriesReply
    BY <1>0, <1>7, SlotTypes DEF HandleRejection, Awaited, SnapshotRequest
  <2>2. backup(log[s], nextIndex[s][i], m.prevLogIndex, m.prevLogTerm, r.conflict) \in Int
    <3>1. m.prevLogIndex \in Nat /\ m.prevLogTerm \in Nat
      BY <2>1 DEF EntriesRequest
    <3>2. r.conflict \in [index : Int, term : Int]
      BY <2>1 DEF EntriesReply, Hint
    <3>3. log[s] \in Log /\ nextIndex[s][i] \in Int
      BY <1>0
    <3> HIDE DEF m, r, TypeOK
    <3> QED BY <3>1, <3>2, <3>3, BackupType
  <2> QED BY <1>0, <1>7, <2>2, SlotTypes DEF HandleRejection, ReplyUnchanged
<1>8. CASE HandleSuccess(s, i)
  <2> DEFINE m == entryRpc[s][i].req
  <2>1. m \in EntriesRequest
    BY <1>0, <1>8, SlotTypes DEF HandleSuccess, Awaited, SnapshotRequest
  <2>2. Acked(m) \in Int
    <3>1. m.prevLogIndex \in Nat /\ m.entries \in Seq(Entry)
      BY <2>1 DEF EntriesRequest
    <3> HIDE DEF m
    <3>2. Len(m.entries) \in Nat
      BY <3>1, LenProperties
    <3> QED BY <3>1, <3>2 DEF Acked
  <2> QED BY <1>0, <1>8, <2>2, SlotTypes
          DEF HandleSuccess, ReplyUnchanged, Wake, persist, persistWithSnapshot
<1>9. CASE HandleInstallSnapshotReply(s, i)
  <2> DEFINE m == entryRpc[s][i].req
  <2>1. m \in SnapshotRequest
    <3>1. entryRpc[s][i] \in EntrySlot
      BY <1>0
    <3>2. entryRpc[s][i].st = "replied" /\ m.type = "InstallSnapshot"
      BY <1>9 DEF HandleInstallSnapshotReply, Awaited
    <3>3. m \in EntriesRequest \/ m \in SnapshotRequest
      BY <3>1, <3>2, SlotTypes
    <3>4. m \in EntriesRequest => m.type = "AppendEntries"
      BY DEF EntriesRequest
    <3> QED BY <3>2, <3>3, <3>4
  <2>2. m.lastIncludedIndex \in Nat
    BY <2>1 DEF SnapshotRequest
  <2> QED BY <1>0, <1>9, <2>2, SlotTypes DEF HandleInstallSnapshotReply, ReplyUnchanged
<1> QED BY <1>1, <1>2, <1>4, <1>5, <1>6, <1>7, <1>8, <1>9 DEF PeerStep

\* A handler of RequestVote.
LEMMA RequestVoteType ==
  ASSUME TypeOK, NEW m \in msgs, RequestVote(m)
  PROVE  TypeOK'
<1> USE DEF TypeOK, votingVars, electionVars, leaderVars, applyVars
<1>1. m \in VoteRequest /\ m.from \in Server /\ m.to \in Server /\ m.term \in Nat
  BY RequestTypes DEF RequestVote
<1>2. ASSUME NEW t \in Nat, NEW g \in BOOLEAN
      PROVE  answer(voteRpc, m, Ballot(t, g)) \in [Server -> [Server -> VoteSlot]]
  <2>1. Ballot(t, g) \in VoteReply
    BY DEF Ballot, VoteReply
  <2>2. voteRpc \in [Server -> [Server -> VoteSlot]]
    OBVIOUS
  <2> HIDE DEF TypeOK
  <2> QED BY <1>1, <2>1, <2>2, RepliedTypes, AnswerType
<1>3. CASE VoteInNewTerm(m)
  <2> DEFINE granted == ~Newer(log[m.to], m)
  <2>1. granted \in BOOLEAN
    OBVIOUS
  <2>2. voteRpc' = answer(voteRpc, m, Ballot(m.term, granted))
    BY <1>3 DEF VoteInNewTerm
  <2> HIDE DEF granted
  <2>3. voteRpc' \in [Server -> [Server -> VoteSlot]]
    BY <1>1, <1>2, <2>1, <2>2
  <2>4. AdoptTerm(m.to, m.term, IF granted THEN m.from ELSE Nil) /\ VoteUnchanged /\ persist(m.to)
    BY <1>3 DEF VoteInNewTerm, granted
  <2> QED BY <1>1, <2>3, <2>4 DEF AdoptTerm, VoteUnchanged, persist, persistWithSnapshot
<1>4. CASE VoteAgain(m)
  <2>1. voteRpc' \in [Server -> [Server -> VoteSlot]]
    BY <1>1, <1>2, <1>4 DEF VoteAgain
  <2> QED BY <1>1, <1>4, <2>1 DEF VoteAgain, VoteUnchanged, persist, persistWithSnapshot
<1>5. CASE VoteInCurrentTerm(m)
  <2> DEFINE granted == ~NotOlder(log[m.to], m)
  <2>1. granted \in BOOLEAN
    OBVIOUS
  <2>2. /\ voteRpc' = answer(voteRpc, m, Ballot(m.term, granted))
        /\ votedFor' = [votedFor EXCEPT ![m.to] = IF granted THEN m.from ELSE Nil]
    BY <1>5 DEF VoteInCurrentTerm
  <2> HIDE DEF granted
  <2>3. voteRpc' \in [Server -> [Server -> VoteSlot]]
    BY <1>1, <1>2, <2>1, <2>2
  <2> QED BY <1>1, <1>5, <2>2, <2>3
          DEF VoteInCurrentTerm, VoteUnchanged, persist, persistWithSnapshot
<1>6. CASE RefuseVote(m)
  <2>1. voteRpc' \in [Server -> [Server -> VoteSlot]]
    BY <1>1, <1>2, <1>6 DEF RefuseVote
  <2> QED BY <1>6, <2>1 DEF RefuseVote, VoteUnchanged
<1> QED BY <1>3, <1>4, <1>5, <1>6 DEF RequestVote

\* A handler of AppendEntries.
LEMMA AppendEntriesType ==
  ASSUME TypeOK, NEW m \in msgs, AppendEntries(m)
  PROVE  TypeOK'
<1> USE DEF TypeOK, votingVars, electionVars, leaderVars, applyVars
<1>1. /\ m \in EntriesRequest /\ m.from \in Server /\ m.to \in Server /\ m.term \in Nat
      /\ m.prevLogIndex \in Nat /\ m.prevLogTerm \in Nat /\ m.entries \in Seq(Entry)
      /\ m.leaderCommit \in Int
  BY RequestTypes DEF AppendEntries, EntriesRequest
<1>2. ASSUME NEW t \in Nat, NEW ok \in BOOLEAN, NEW hint \in Hint
      PROVE  answer(entryRpc, m, Outcome(t, ok, hint)) \in [Server -> [Server -> EntrySlot]]
  <2>1. Outcome(t, ok, hint) \in EntriesReply
    BY DEF Outcome, EntriesReply
  <2>2. entryRpc \in [Server -> [Server -> EntrySlot]]
    OBVIOUS
  <2> HIDE DEF TypeOK
  <2> QED BY <1>1, <2>1, <2>2, RepliedTypes, AnswerType
<1>3. NoHint \in Hint /\ [index |-> m.prevLogIndex + 1, term |-> 0] \in Hint
  BY <1>1 DEF NoHint, Hint
<1>4. Follow(m) => /\ currentTerm' \in [Server -> Nat]
                   /\ votedFor' \in [Server -> Server \cup {Nil}]
                   /\ state' \in [Server -> {"Follower", "Candidate", "Leader"}]
                   /\ turnToLeader' \in [Server -> BOOLEAN]
  <2> DEFINE vote == IF currentTerm[m.to] < m.term THEN Nil ELSE votedFor[m.to]
  <2>1. vote \in Server \cup {Nil}
    BY <1>1
  <2>2. Follow(m) => AdoptTerm(m.to, m.term, vote)
    BY DEF Follow
  <2> HIDE DEF vote, TypeOK
  <2> QED BY <1>1, <2>1, <2>2, AdoptTermType
<1>5. CASE StaleAppendEntries(m)
  <2>1. entryRpc' \in [Server -> [Server -> EntrySlot]]
    BY <1>1, <1>2, <1>3, <1>5 DEF StaleAppendEntries
  <2> QED BY <1>5, <2>1 DEF StaleAppendEntries, EntriesUnchanged
<1>6. CASE AppendEntriesToLeader(m)
  <2>1. entryRpc' \in [Server -> [Server -> EntrySlot]]
    BY <1>1, <1>2, <1>3, <1>6 DEF AppendEntriesToLeader
  <2>2. Follow(m) /\ Wake(m.to) /\ UNCHANGED <<log, commitIndex>> /\ EntriesUnchanged
        /\ persist(m.to)
    BY <1>6 DEF AppendEntriesToLeader
  <2> QED BY <1>1, <1>4, <2>1, <2>2 DEF EntriesUnchanged, Wake, persist, persistWithSnapshot
<1>7. CASE RejectEntries(m)
  <2>1. conflict(log[m.to], m.prevLogIndex, m.prevLogTerm) \in Hint
    BY <1>1, ConflictType DEF Hint
  <2>2. entryRpc' \in [Server -> [Server -> EntrySlot]]
    BY <1>1, <1>2, <1>7, <2>1 DEF RejectEntries
  <2>3. Follow(m) /\ UNCHANGED <<log, commitIndex, committer>> /\ EntriesUnchanged
        /\ persist(m.to)
    BY <1>7 DEF RejectEntries
  <2> QED BY <1>1, <1>4, <2>2, <2>3 DEF EntriesUnchanged, persist, persistWithSnapshot
<1>8. CASE AcceptEntries(m)
  <2> DEFINE L == merge(log[m.to], m.prevLogIndex, m.entries)
  <2>1. L \in Log
    BY <1>1, <1>8, MergeType DEF AcceptEntries, Consistent
  <2>2. entryRpc' \in [Server -> [Server -> EntrySlot]]
    BY <1>1, <1>2, <1>3, <1>8 DEF AcceptEntries
  <2>3. /\ Follow(m) /\ UNCHANGED committer /\ EntriesUnchanged /\ persist(m.to)
        /\ log' = [log EXCEPT ![m.to] = L]
        /\ commitIndex' = [commitIndex EXCEPT ![m.to] =
                             IF m.leaderCommit > @ THEN Min({m.leaderCommit, lastLogIndex(L)})
                                                   ELSE @]
    BY <1>8 DEF AcceptEntries
  <2> HIDE DEF L
  <2>4. Min({m.leaderCommit, lastLogIndex(L)}) \in Int
    <3>1. lastLogIndex(L) \in Int
      BY <2>1, LogBasics
    <3> QED BY <1>1, <3>1, PairExtremes
  <2>5. commitIndex' \in [Server -> Int]
    BY <2>3, <2>4
  <2> QED BY <1>1, <1>4, <2>1, <2>2, <2>3, <2>5
          DEF EntriesUnchanged, persist, persistWithSnapshot
<1> QED BY <1>5, <1>6, <1>7, <1>8 DEF AppendEntries

\* The crash inside AppendEntries.
LEMMA TornAppendEntriesType ==
  ASSUME TypeOK, NEW m \in msgs, TornAppendEntries(m)
  PROVE  TypeOK'
<1> DEFINE p == [persisted[m.to] EXCEPT !.votedFor = Nil]
<1>1. m.to \in Server
  BY RequestTypes DEF TypeOK
<1>2. p \in [currentTerm : Nat, votedFor : Server \cup {Nil}, log : Log, snapshot : Snap]
  <2>1. persisted[m.to] \in [currentTerm : Nat, votedFor : Server \cup {Nil},
                             log : Log, snapshot : Snap]
    BY <1>1 DEF TypeOK
  <2> QED BY <2>1
<1>3. used' \in [scenario : DOMAIN Scenarios, restarts : Nat, torn : Nat, snapshots : Nat]
  BY UsedType DEF TornAppendEntries, Used, TypeOK
<1>4. Boot(m.to, p)
  BY DEF TornAppendEntries
<1> HIDE DEF p
<1> QED BY <1>1, <1>2, <1>3, <1>4, BootType

\* A handler of InstallSnapshot.
LEMMA InstallSnapshotType ==
  ASSUME TypeOK, NEW m \in msgs, InstallSnapshot(m)
  PROVE  TypeOK'
<1> USE DEF TypeOK, votingVars, electionVars, leaderVars, applyVars
<1>1. /\ m \in SnapshotRequest /\ m.from \in Server /\ m.to \in Server /\ m.term \in Nat
      /\ m.lastIncludedIndex \in Nat /\ m.lastIncludedTerm \in Nat
      /\ m.lastIncludedPublicIndex \in Nat /\ m.data \in Snap
  BY RequestTypes DEF InstallSnapshot, SnapshotRequest
<1>2. ASSUME NEW t \in Nat
      PROVE  answer(entryRpc, m, [term |-> t]) \in [Server -> [Server -> EntrySlot]]
  <2>1. [term |-> t] \in SnapshotReply
    BY DEF SnapshotReply
  <2>2. entryRpc \in [Server -> [Server -> EntrySlot]]
    OBVIOUS
  <2> HIDE DEF TypeOK
  <2> QED BY <1>1, <2>1, <2>2, RepliedTypes, AnswerType
<1>3. UNCHANGED <<msgs, used, electionVars, nextIndex, matchIndex, applying, outbox, service>>
  BY DEF InstallSnapshot
<1>4. AcceptSnapshotTerm(m) => /\ currentTerm' \in [Server -> Nat]
                               /\ votedFor' \in [Server -> Server \cup {Nil}]
                               /\ state' \in [Server -> {"Follower", "Candidate", "Leader"}]
                               /\ turnToLeader' \in [Server -> BOOLEAN]
                               /\ committer' \in [Server -> {"none", "waiting", "runnable"}]
  <2>1. CASE currentTerm[m.to] < m.term
    <3>1. AcceptSnapshotTerm(m) => AdoptTerm(m.to, m.term, Nil) /\ Wake(m.to)
      BY <2>1 DEF AcceptSnapshotTerm
    <3>2. Wake(m.to) => committer' \in [Server -> {"none", "waiting", "runnable"}]
      <4>1. committer \in [Server -> {"none", "waiting", "runnable"}]
        OBVIOUS
      <4> HIDE DEF TypeOK
      <4> QED BY <1>1, <4>1 DEF Wake
    <3> HIDE DEF TypeOK
    <3> QED BY <1>1, <3>1, <3>2, AdoptTermType
  <2>2. CASE ~(currentTerm[m.to] < m.term)
    BY <2>2 DEF AcceptSnapshotTerm
  <2> QED BY <2>1, <2>2
<1>5. CASE RefuseSnapshot(m)
  <2>1. entryRpc' \in [Server -> [Server -> EntrySlot]]
    BY <1>1, <1>2, <1>5 DEF RefuseSnapshot
  <2> QED BY <1>3, <1>5, <2>1 DEF RefuseSnapshot
<1>6. CASE IgnoreOldSnapshot(m)
  <2>1. entryRpc' \in [Server -> [Server -> EntrySlot]]
    BY <1>1, <1>2, <1>6 DEF IgnoreOldSnapshot
  <2>2. AcceptSnapshotTerm(m) /\ UNCHANGED <<log, commitIndex, lastApplied, installing>>
        /\ persist(m.to)
    BY <1>6 DEF IgnoreOldSnapshot
  <2> QED BY <1>1, <1>3, <1>4, <2>1, <2>2 DEF persist, persistWithSnapshot
<1>7. CASE InstallNewSnapshot(m)
  <2> DEFINE L == install(log[m.to], m.lastIncludedIndex, m.lastIncludedTerm,
                          m.lastIncludedPublicIndex)
             new == [index |-> m.lastIncludedPublicIndex, data |-> m.data]
  <2>1. L \in Log
    BY <1>1, InstallType
  <2>2. entryRpc' \in [Server -> [Server -> EntrySlot]]
    BY <1>1, <1>2, <1>7 DEF InstallNewSnapshot
  <2>3. \A x \in Int : Max({x, m.lastIncludedIndex}) \in Int
    <3> SUFFICES ASSUME NEW x \in Int PROVE Max({x, m.lastIncludedIndex}) \in Int
      OBVIOUS
    <3>1. m.lastIncludedIndex \in Int
      BY <1>1
    <3> HIDE DEF TypeOK
    <3> QED BY <3>1, PairExtremes
  <2>4. /\ AcceptSnapshotTerm(m)
        /\ log' = [log EXCEPT ![m.to] = L]
        /\ installing' = [installing EXCEPT ![m.to] = @ \cup {new}]
        /\ commitIndex' = [commitIndex EXCEPT ![m.to] = Max({@, m.lastIncludedIndex})]
        /\ lastApplied' = [lastApplied EXCEPT ![m.to] = Max({@, m.lastIncludedIndex})]
        /\ persistWithSnapshot(m.to, m.data)
    BY <1>7 DEF InstallNewSnapshot
  <2>5. new \in [index : Nat, data : Snap]
    BY <1>1
  <2> HIDE DEF L, new
  <2>6. commitIndex' \in [Server -> Int] /\ lastApplied' \in [Server -> Int]
    BY <1>1, <2>3, <2>4
  <2>7. installing' \in [Server -> SUBSET [index : Nat, data : Snap]]
    <3>1. installing[m.to] \cup {new} \in SUBSET [index : Nat, data : Snap]
      BY <1>1, <2>5
    <3> QED BY <2>4, <3>1
  <2>8. log' \in [Server -> Log]
    BY <1>1, <2>1, <2>4
  <2> QED BY <1>1, <1>3, <1>4, <2>2, <2>4, <2>6, <2>7, <2>8 DEF persistWithSnapshot
<1> QED BY <1>5, <1>6, <1>7 DEF InstallSnapshot

\* Every step keeps the types.
LEMMA TypeStep == TypeOK /\ [Next]_vars => TypeOK'
<1> SUFFICES ASSUME TypeOK, [Next]_vars PROVE TypeOK'
  OBVIOUS
<1>1. CASE Next
  <2>1. ASSUME NEW m \in msgs, Receive(m) PROVE TypeOK'
    BY <2>1, RequestVoteType, AppendEntriesType, InstallSnapshotType,
       TornAppendEntriesType DEF Receive
  <2> QED BY <1>1, <2>1, ServerStepType, PeerStepType DEF Next
<1>2. CASE UNCHANGED vars
  BY <1>2 DEF vars, votingVars, electionVars, leaderVars, applyVars, TypeOK
<1> QED BY <1>1, <1>2

\* Every variable always has its type (module RaftSafety, TypeOK).
THEOREM TypeCorrect == Spec => []TypeOK
BY TypeInit, TypeStep, PTL DEF Spec

(***************************************************************************)
(* The record of a server: what is on disk, and its vote.                  *)
(***************************************************************************)
\* i saves what it changed, and nobody else changes anything that is saved.
Saves(i) ==
  /\ \E snapshot \in Snap : persistWithSnapshot(i, snapshot)
  /\ \A s \in Server \ {i} :
       currentTerm'[s] = currentTerm[s] /\ votedFor'[s] = votedFor[s] /\ log'[s] = log[s]

Recorded == \/ UNCHANGED <<currentTerm, votedFor, log, persisted>>
            \/ \E i \in Server : Saves(i)

\* i keeps its vote, or moves to a newer term.
VoteKept(i) == \/ currentTerm'[i] > currentTerm[i]
               \/ currentTerm'[i] = currentTerm[i] /\ votedFor[i] \in {Nil, votedFor'[i]}

VotesKept == \A i \in Server : VoteKept(i)

\* A step that takes no part in an election, except that it may end a candidacy.
Calm == /\ UNCHANGED votingVars
        /\ \A s \in Server :
             /\ state'[s] = "Candidate" => state[s] = "Candidate" /\ currentTerm'[s] = currentTerm[s]
             /\ election[s] = "won" => state'[s] = state[s]

\* Why a step of an election keeps elections safe: a winner is not preempted
\* between the test of its state and its Lock, and the votes are in order.
Orderly == "election" \notin Preemptible /\ AsksInOwnTerm /\ WinnersHaveMajorities

\* A step that keeps the vote and the term of every server keeps the votes.
LEMMA NobodyVotes ==
  ASSUME TypeOK, UNCHANGED <<currentTerm, votedFor>>
  PROVE  VotesKept
BY DEF VotesKept, VoteKept, TypeOK

\* Turning follower of a newer term keeps the vote: it was another term's.
LEMMA AdoptTermKeeps ==
  ASSUME TypeOK, NEW s \in Server, NEW term \in Nat, NEW vote, term > currentTerm[s],
         AdoptTerm(s, term, vote)
  PROVE  VotesKept
<1>1. \A i \in Server : currentTerm[i] \in Nat
  BY DEF TypeOK
<1>2. currentTerm'[s] = term
  BY DEF AdoptTerm, TypeOK
<1>3. \A i \in Server \ {s} : currentTerm'[i] = currentTerm[i] /\ votedFor'[i] = votedFor[i]
  BY DEF AdoptTerm, TypeOK
<1> QED BY <1>1, <1>2, <1>3 DEF VotesKept, VoteKept

\* Turning follower ends the candidacy of a server that has not won one.
LEMMA AdoptTermCalm ==
  ASSUME TypeOK, NEW s \in Server, NEW term, NEW vote, AdoptTerm(s, term, vote),
         election[s] # "won", UNCHANGED votingVars
  PROVE  Calm
<1>1. state'[s] = "Follower"
  BY DEF AdoptTerm, TypeOK
<1>2. \A i \in Server \ {s} : currentTerm'[i] = currentTerm[i] /\ state'[i] = state[i]
  BY DEF AdoptTerm, TypeOK
<1> QED BY <1>1, <1>2 DEF Calm

\* What a handler of one server changes and then persists is saved.
LEMMA PersistSaves ==
  ASSUME TypeOK, NEW s \in Server,
         \/ persist(s)
         \/ \E snapshot \in Snap : persistWithSnapshot(s, snapshot),
         \A i \in Server \ {s} :
           currentTerm'[i] = currentTerm[i] /\ votedFor'[i] = votedFor[i] /\ log'[i] = log[i]
  PROVE  Recorded
<1>1. persisted[s].snapshot \in Snap
  BY DEF TypeOK
<1> QED BY <1>1 DEF Recorded, Saves, persist

(***************************************************************************)
(* The steps that take no part in an election.                             *)
(***************************************************************************)
\* A leader's own work, applying and snapshots.
LEMMA ServerStepCalm ==
  ASSUME TypeOK, NEW s \in Server,
         \/ \E c \in Command : Start(s, c)
         \/ InitLeader(s) \/ CheckCommit(s)
         \/ ApplyCheck(s) \/ ApplyNext(s) \/ ReceiveCommand(s) \/ ReceiveSnapshot(s)
         \/ Snapshot(s)
  PROVE  Recorded /\ VotesKept /\ (Orderly => Calm)
<1>1. UNCHANGED <<currentTerm, votedFor, state, votingVars>>
  BY DEF electionVars, Start, InitLeader, CheckCommit, ApplyCheck, ApplyNext, ReceiveCommand,
         ReceiveSnapshot, Snapshot, ServiceUnchanged
<1>2. VotesKept /\ Calm
  <2>1. /\ UNCHANGED <<currentTerm, votedFor>> /\ UNCHANGED state
        /\ UNCHANGED votingVars
    BY <1>1
  <2> QED BY <2>1, NobodyVotes DEF Calm
<1>3. CASE UNCHANGED <<log, persisted>>
  <2>1. UNCHANGED <<currentTerm, votedFor, log, persisted>>
    BY <1>1, <1>3
  <2> QED BY <1>2, <2>1 DEF Recorded
<1>4. CASE ~UNCHANGED <<log, persisted>>
  <2>1. \/ \E c \in Command : Start(s, c)
        \/ ApplyNext(s) \/ Snapshot(s)
    BY <1>4, Zenon DEF InitLeader, CheckCommit, ApplyCheck, ReceiveCommand, ReceiveSnapshot
  <2>2. \/ persist(s)
        \/ \E snapshot \in Snap : persistWithSnapshot(s, snapshot)
    <3>1. service[s] \in Snap
      BY DEF TypeOK
    <3>2. ApplyNext(s) => persist(s)
      BY DEF ApplyNext
    <3> QED BY <2>1, <3>1, <3>2, Zenon DEF Start, Snapshot
  <2>3. \A i \in Server \ {s} : log'[i] = log[i]
    BY <2>1 DEF Start, ApplyNext, Snapshot, persist, persistWithSnapshot, TypeOK
  <2>4. \A i \in Server \ {s} : currentTerm'[i] = currentTerm[i] /\ votedFor'[i] = votedFor[i]
    BY <1>1
  <2> QED BY <1>2, <2>2, <2>3, <2>4, PersistSaves
<1> QED BY <1>3, <1>4

\* Sending entries and snapshots, and handling the replies.
LEMMA PeerStepCalm ==
  ASSUME TypeOK, NEW s \in Server, NEW i \in Others(s),
         \/ SendSnapshot(s, i) \/ SendEntries(s, i)
         \/ LeaderStepsDown(s, i) \/ HandleRejection(s, i) \/ HandleSuccess(s, i)
         \/ HandleInstallSnapshotReply(s, i)
  PROVE  Recorded /\ VotesKept /\ (Orderly => Calm)
<1>1. CASE LeaderStepsDown(s, i)
  <2> DEFINE term == entryRpc[s][i].reply.term
  <2>1. /\ AdoptTerm(s, term, Nil) /\ term > currentTerm[s] /\ persist(s)
        /\ UNCHANGED <<log, votingVars>>
    BY <1>1 DEF LeaderStepsDown, electionVars
  <2>2. Free(s)
    BY <1>1 DEF LeaderStepsDown, Awaited
  <2>3. Orderly => election[s] # "won"
    BY <2>2 DEF Free, Orderly
  <2>4. term \in Nat
    <3>1. i \in Server
      BY DEF Others
    <3> QED BY <1>1, <3>1, SlotTypes
            DEF TypeOK, LeaderStepsDown, Awaited, EntriesReply, SnapshotReply
  <2>5. \A x \in Server \ {s} : currentTerm'[x] = currentTerm[x] /\ votedFor'[x] = votedFor[x]
    BY <2>1 DEF AdoptTerm, TypeOK
  <2> HIDE DEF term
  <2> QED BY <2>1, <2>3, <2>4, <2>5, AdoptTermKeeps, AdoptTermCalm, PersistSaves
<1>2. CASE ~LeaderStepsDown(s, i)
  <2>1. UNCHANGED <<currentTerm, votedFor, state, log, votingVars>>
    BY <1>2 DEF SendSnapshot, SendEntries, Sending, HandleRejection, HandleSuccess,
                HandleInstallSnapshotReply, ReplyUnchanged, electionVars
  <2>2. UNCHANGED persisted \/ persist(s)
    BY <1>2 DEF SendSnapshot, SendEntries, Sending, HandleRejection, HandleSuccess,
                HandleInstallSnapshotReply
  <2>3. Recorded
    BY <2>1, <2>2, PersistSaves DEF Recorded
  <2> QED BY <2>1, <2>3, NobodyVotes DEF Calm
<1> QED BY <1>1, <1>2

\* A request's term adopted with Follow keeps the vote: it is cleared in a newer
\* term only.
LEMMA FollowKeeps ==
  ASSUME TypeOK, NEW m \in Request, Follow(m), m.term >= currentTerm[m.to]
  PROVE  VotesKept
<1>1. m.to \in Server /\ m.term \in Nat
  BY RequestTypes
<1>2. CASE currentTerm[m.to] < m.term
  BY <1>1, <1>2, AdoptTermKeeps DEF Follow, TypeOK
<1>3. CASE currentTerm[m.to] = m.term
  <2>1. AdoptTerm(m.to, m.term, votedFor[m.to])
    BY <1>1, <1>3 DEF Follow, TypeOK
  <2>2. \A i \in Server : currentTerm'[i] = currentTerm[i] /\ votedFor'[i] = votedFor[i]
    BY <1>1, <1>3, <2>1 DEF AdoptTerm, TypeOK
  <2> QED BY <2>2 DEF VotesKept, VoteKept
<1>4. currentTerm[m.to] \in Nat
  BY <1>1 DEF TypeOK
<1> QED BY <1>1, <1>2, <1>3, <1>4

\* A request of a leader for entries.
LEMMA AppendEntriesCalm ==
  ASSUME TypeOK, NEW m \in msgs, AppendEntries(m)
  PROVE  Recorded /\ VotesKept /\ (Orderly => Calm)
<1>1. m \in Request /\ m.to \in Server
  BY RequestTypes DEF TypeOK
<1>2. Orderly => election[m.to] # "won"
  BY DEF AppendEntries, Free, Orderly
<1>3. CASE StaleAppendEntries(m)
  <2>1. UNCHANGED <<currentTerm, votedFor, state, log, persisted, votingVars>>
    BY <1>3 DEF StaleAppendEntries, EntriesUnchanged, electionVars
  <2> QED BY <2>1, NobodyVotes DEF Recorded, Calm
<1>4. CASE ~StaleAppendEntries(m)
  <2>1. Follow(m) /\ persist(m.to) /\ UNCHANGED votingVars /\ m.term >= currentTerm[m.to]
    BY <1>4 DEF AppendEntries, AppendEntriesToLeader, RejectEntries, AcceptEntries,
                EntriesUnchanged, electionVars
  <2>2. \A i \in Server \ {m.to} : log'[i] = log[i]
    BY <1>1, <1>4 DEF AppendEntries, AppendEntriesToLeader, RejectEntries, AcceptEntries, TypeOK
  <2>3. \E vote : AdoptTerm(m.to, m.term, vote)
    BY <2>1 DEF Follow
  <2>4. Orderly => Calm
    BY <1>1, <1>2, <2>1, <2>3, AdoptTermCalm
  <2>5. \A i \in Server \ {m.to} : currentTerm'[i] = currentTerm[i] /\ votedFor'[i] = votedFor[i]
    BY <2>3 DEF AdoptTerm, TypeOK
  <2>6. Recorded
    BY <1>1, <2>1, <2>2, <2>5, PersistSaves
  <2> QED BY <1>1, <2>1, <2>4, <2>6, FollowKeeps
<1> QED BY <1>3, <1>4

\* A request of a leader to install a snapshot.
LEMMA InstallSnapshotCalm ==
  ASSUME TypeOK, NEW m \in msgs, InstallSnapshot(m)
  PROVE  Recorded /\ VotesKept /\ (Orderly => Calm)
<1>1. m \in Request /\ m.to \in Server /\ m.term \in Nat
  BY RequestTypes DEF TypeOK
<1>2. (Orderly => election[m.to] # "won") /\ UNCHANGED votingVars
  BY DEF InstallSnapshot, Free, Orderly, electionVars
<1>3. CASE RefuseSnapshot(m)
  <2>1. UNCHANGED <<currentTerm, votedFor, state, log, persisted>>
    BY <1>3 DEF RefuseSnapshot
  <2> QED BY <1>2, <2>1, NobodyVotes DEF Recorded, Calm
<1>4. CASE ~RefuseSnapshot(m)
  <2>1. AcceptSnapshotTerm(m)
    BY <1>4 DEF InstallSnapshot, IgnoreOldSnapshot, InstallNewSnapshot
  <2>2. \/ persist(m.to)
        \/ \E snapshot \in Snap : persistWithSnapshot(m.to, snapshot)
    BY <1>1, <1>4, RequestTypes DEF InstallSnapshot, IgnoreOldSnapshot, InstallNewSnapshot,
                                    SnapshotRequest
  <2>3. \A i \in Server \ {m.to} : log'[i] = log[i]
    BY <1>1, <1>4 DEF InstallSnapshot, IgnoreOldSnapshot, InstallNewSnapshot, TypeOK
  <2>4. CASE currentTerm[m.to] < m.term
    <3>1. AdoptTerm(m.to, m.term, Nil)
      BY <2>1, <2>4 DEF AcceptSnapshotTerm
    <3>2. \A i \in Server \ {m.to} :
            currentTerm'[i] = currentTerm[i] /\ votedFor'[i] = votedFor[i]
      BY <3>1 DEF AdoptTerm, TypeOK
    <3>3. Recorded
      BY <1>1, <2>2, <2>3, <3>2, PersistSaves
    <3> QED BY <1>1, <1>2, <2>4, <3>1, <3>3, AdoptTermCalm, AdoptTermKeeps
  <2>5. CASE ~(currentTerm[m.to] < m.term)
    <3>1. UNCHANGED <<currentTerm, votedFor, state>>
      BY <2>1, <2>5 DEF AcceptSnapshotTerm
    <3>2. Recorded
      BY <1>1, <2>2, <2>3, <3>1, PersistSaves
    <3> QED BY <1>2, <3>1, <3>2, NobodyVotes DEF Calm
  <2> QED BY <2>4, <2>5
<1> QED BY <1>3, <1>4

(***************************************************************************)
(* The steps of an election.                                               *)
(***************************************************************************)
\* i votes for s in term t in this step, having voted for nobody else in t.
Fresh(i, t, s) ==
  /\ currentTerm'[i] = t /\ votedFor'[i] = s
  /\ currentTerm[i] < t \/ (currentTerm[i] = t /\ votedFor[i] \in {Nil, s})

\* A vote that counts after the step counted before or is fresh; and the parts of
\* VotesAccounted that are not about single votes hold after the step.
Tallied ==
  /\ \A i, s \in Server : \A t \in Nat : Counts(i, t, s)' => Counts(i, t, s) \/ Fresh(i, t, s)
  /\ AsksInOwnTerm'
  /\ WinnersHaveMajorities'

\* A step that takes no part in an election counts no vote.
LEMMA CalmTallies ==
  ASSUME TypeOK, Orderly, Calm
  PROVE  Tallied
<1>1. /\ election' = election /\ votes' = votes /\ voteRpc' = voteRpc /\ elected' = elected
      /\ \A s \in Server :
           state'[s] = "Candidate" => state[s] = "Candidate" /\ currentTerm'[s] = currentTerm[s]
      /\ \A s \in Server : election[s] = "won" => state'[s] = state[s]
  BY DEF Calm, votingVars
<1>2. \A i, s \in Server : \A t \in Nat : Counts(i, t, s)' => Counts(i, t, s)
  BY <1>1 DEF Counts, WaitsForHandling, IsTallied, MadeLeader
<1>3. AsksInOwnTerm'
  BY <1>1 DEF Orderly, AsksInOwnTerm
<1>4. WinnersHaveMajorities'
  BY <1>1 DEF Orderly, WinnersHaveMajorities, Majority
<1> QED BY <1>2, <1>3, <1>4 DEF Tallied

\* A new candidate votes for itself.
LEMMA StartElectionTallies ==
  ASSUME TypeOK, NEW s \in Server, StartElection(s)
  PROVE  Recorded /\ VotesKept /\ (Orderly => Tallied)
<1>1. /\ currentTerm[s] \in Nat /\ currentTerm'[s] = currentTerm[s] + 1 /\ votedFor'[s] = s
      /\ election'[s] = "asking" /\ votes'[s] = {s} /\ elected' = elected /\ log' = log
      /\ \A i \in Server : voteRpc'[s][i] \in {IdleSlot, SpawnedSlot}
      /\ persist(s)
  BY DEF StartElection, TypeOK
<1>2. \A x \in Server \ {s} :
        /\ currentTerm'[x] = currentTerm[x] /\ votedFor'[x] = votedFor[x] /\ state'[x] = state[x]
        /\ election'[x] = election[x] /\ votes'[x] = votes[x] /\ voteRpc'[x] = voteRpc[x]
  BY DEF StartElection, TypeOK
<1>3. \A i \in Server : voteRpc'[s][i].st \notin {"sent", "replied"}
  BY <1>1 DEF IdleSlot, SpawnedSlot
<1>4. Recorded
  BY <1>1, <1>2, PersistSaves
<1>5. VotesKept
  BY <1>1, <1>2 DEF VotesKept, VoteKept, TypeOK
<1>6. ASSUME NEW i \in Server, NEW c \in Server, NEW t \in Nat, Counts(i, t, c)'
      PROVE  Counts(i, t, c) \/ Fresh(i, t, c)
  <2>1. CASE c # s
    BY <1>1, <1>2, <1>6, <2>1 DEF Counts, WaitsForHandling, IsTallied, MadeLeader
  <2>2. CASE c = s
    <3>1. IsTallied(i, t, s)' \/ MadeLeader(i, t, s)'
      BY <1>3, <1>6, <2>2 DEF Counts, WaitsForHandling
    <3>2. IsTallied(i, t, s)' => Fresh(i, t, s)
      BY <1>1 DEF IsTallied, Fresh
    <3>3. MadeLeader(i, t, s)' => MadeLeader(i, t, s)
      BY <1>1 DEF MadeLeader
    <3> QED BY <2>2, <3>1, <3>2, <3>3 DEF Counts
  <2> QED BY <2>1, <2>2
<1>7. Orderly => AsksInOwnTerm'
  BY <1>2, <1>3 DEF Orderly, AsksInOwnTerm
<1>8. Orderly => WinnersHaveMajorities'
  BY <1>1, <1>2 DEF Orderly, WinnersHaveMajorities, Majority
<1> QED BY <1>4, <1>5, <1>6, <1>7, <1>8 DEF Tallied

\* The end of the round of requests, won or lost, counts no vote.
LEMMA TallyVotesTallies ==
  ASSUME TypeOK, NEW s \in Server, TallyVotes(s)
  PROVE  Recorded /\ VotesKept /\ (Orderly => Tallied)
<1>1. /\ UNCHANGED <<currentTerm, votedFor, state, log, persisted>> /\ elected' = elected
      /\ election[s] = "asking"
      /\ \A i \in Server : voteRpc'[s][i] = IdleSlot
  BY DEF TallyVotes, TypeOK
<1>2. \/ election'[s] = "idle"
      \/ /\ election'[s] = "won" /\ votes'[s] = votes[s]
         /\ Majority(votes[s]) /\ state[s] = "Candidate"
  BY DEF TallyVotes, TypeOK
<1>3. \A x \in Server \ {s} :
        election'[x] = election[x] /\ votes'[x] = votes[x] /\ voteRpc'[x] = voteRpc[x]
  BY DEF TallyVotes, TypeOK
<1>4. \A i \in Server : voteRpc'[s][i].st = "idle"
  BY <1>1 DEF IdleSlot
<1>5. ASSUME NEW i \in Server, NEW c \in Server, NEW t \in Nat, Counts(i, t, c)'
      PROVE  Counts(i, t, c)
  <2>1. CASE c # s
    BY <1>1, <1>3, <1>5, <2>1 DEF Counts, WaitsForHandling, IsTallied, MadeLeader
  <2>2. CASE c = s
    BY <1>1, <1>2, <1>4, <1>5, <2>2 DEF Counts, WaitsForHandling, IsTallied, MadeLeader
  <2> QED BY <2>1, <2>2
<1>6. Orderly => AsksInOwnTerm'
  BY <1>1, <1>3, <1>4 DEF Orderly, AsksInOwnTerm
<1>7. Orderly => WinnersHaveMajorities'
  BY <1>1, <1>2, <1>3 DEF Orderly, WinnersHaveMajorities, Majority
<1> QED BY <1>1, <1>5, <1>6, <1>7, NobodyVotes DEF Recorded, Tallied

\* The votes that make a leader are those it had.
LEMMA BecomeLeaderTallies ==
  ASSUME TypeOK, NEW s \in Server, BecomeLeader(s)
  PROVE  Recorded /\ VotesKept /\ (Orderly => Tallied)
<1> DEFINE e == [term |-> currentTerm[s], leader |-> s, votes |-> votes[s]]
<1>1. /\ UNCHANGED <<currentTerm, votedFor>> /\ voteRpc' = voteRpc /\ elected' = elected \cup {e}
      /\ election[s] = "won" /\ election'[s] = "idle" /\ state'[s] = "Leader" /\ persist(s)
  BY DEF BecomeLeader, TypeOK
<1>2. \A x \in Server \ {s} : /\ election'[x] = election[x] /\ votes'[x] = votes[x]
                             /\ state'[x] = state[x] /\ log'[x] = log[x]
  BY DEF BecomeLeader, TypeOK
<1>3. Orderly => state[s] = "Candidate" /\ Majority(votes[s])
  BY <1>1 DEF Orderly, WinnersHaveMajorities
<1>4. Recorded
  <2>1. \A x \in Server : currentTerm'[x] = currentTerm[x] /\ votedFor'[x] = votedFor[x]
    BY <1>1
  <2> QED BY <1>1, <1>2, <2>1, PersistSaves
<1>5. ASSUME Orderly, NEW i \in Server, NEW c \in Server, NEW t \in Nat, Counts(i, t, c)'
      PROVE  Counts(i, t, c)
  <2>1. WaitsForHandling(i, t, c)' => WaitsForHandling(i, t, c)
    BY <1>1 DEF WaitsForHandling
  <2>2. IsTallied(i, t, c)' => IsTallied(i, t, c)
    BY <1>1, <1>2 DEF IsTallied
  <2>3. MadeLeader(i, t, c)' => MadeLeader(i, t, c) \/ IsTallied(i, t, c)
    BY <1>1, <1>3, <1>5 DEF MadeLeader, IsTallied
  <2> QED BY <1>5, <2>1, <2>2, <2>3 DEF Counts
<1>6. Orderly => AsksInOwnTerm'
  BY <1>1, <1>2 DEF Orderly, AsksInOwnTerm
<1>7. Orderly => WinnersHaveMajorities'
  BY <1>1, <1>2, <1>3 DEF Orderly, WinnersHaveMajorities, Majority
<1> QED BY <1>1, <1>4, <1>5, <1>6, <1>7, NobodyVotes DEF Tallied

\* A request carries the term of the server that asks.
LEMMA SendRequestTallies ==
  ASSUME TypeOK,
         NEW s \in Server, NEW i \in Others(s), SendRequest(s, i)
  PROVE  Recorded /\ VotesKept /\ (Orderly => Tallied)
<1>1. i \in Server
  BY DEF Others
<1>2. /\ UNCHANGED <<currentTerm, votedFor, log, persisted>>
      /\ state' = state /\ elected' = elected /\ election' = election /\ votes' = votes
  BY DEF SendRequest
<1>3. voteRpc'[s][i].st = "sent" /\ voteRpc'[s][i].req.term = currentTerm[s]
  BY <1>1 DEF SendRequest, SentSlot, TypeOK
<1>4. \A x, y \in Server : <<x, y>> # <<s, i>> => voteRpc'[x][y] = voteRpc[x][y]
  BY <1>1 DEF SendRequest, TypeOK
<1>5. ASSUME NEW y \in Server, NEW x \in Server, NEW t \in Nat, Counts(y, t, x)'
      PROVE  Counts(y, t, x)
  <2>1. WaitsForHandling(y, t, x)' => WaitsForHandling(y, t, x)
    <3>1. CASE <<x, y>> = <<s, i>>
      BY <1>3, <3>1 DEF WaitsForHandling
    <3>2. CASE <<x, y>> # <<s, i>>
      BY <1>4, <3>2 DEF WaitsForHandling
    <3> QED BY <3>1, <3>2
  <2>2. IsTallied(y, t, x)' => IsTallied(y, t, x)
    BY <1>2 DEF IsTallied
  <2>3. MadeLeader(y, t, x)' => MadeLeader(y, t, x)
    BY <1>2 DEF MadeLeader
  <2> QED BY <1>5, <2>1, <2>2, <2>3 DEF Counts
<1>6. Orderly => AsksInOwnTerm'
  BY <1>1, <1>2, <1>3, <1>4 DEF Orderly, AsksInOwnTerm
<1>7. Orderly => WinnersHaveMajorities'
  BY <1>2 DEF Orderly, WinnersHaveMajorities, Majority
<1> QED BY <1>2, <1>5, <1>6, <1>7, NobodyVotes DEF Recorded, Tallied

\* A vote is counted for the term it was asked for, that of the candidate.
LEMMA HandleRequestVoteReplyTallies ==
  ASSUME TypeOK,
         NEW s \in Server, NEW i \in Others(s), HandleRequestVoteReply(s, i)
  PROVE  Recorded /\ VotesKept /\ (Orderly => Tallied)
<1> DEFINE r == voteRpc[s][i].reply
<1>1. i \in Server
  BY DEF Others
<1>2. /\ voteRpc[s][i].st = "replied" /\ (Orderly => election[s] # "won")
      /\ log' = log /\ elected' = elected /\ election' = election
  BY DEF HandleRequestVoteReply, Free, Orderly
<1>3. voteRpc'[s][i].st = "idle"
  BY <1>1 DEF HandleRequestVoteReply, IdleSlot, TypeOK
<1>4. \A x, y \in Server : <<x, y>> # <<s, i>> => voteRpc'[x][y] = voteRpc[x][y]
  BY <1>1 DEF HandleRequestVoteReply, TypeOK
<1>5. CASE r.granted /\ votes' = [votes EXCEPT ![s] = @ \cup {i}]
           /\ UNCHANGED <<currentTerm, votedFor, state, turnToLeader, persisted>>
  <2>1. votes'[s] = votes[s] \cup {i} /\ \A x \in Server \ {s} : votes'[x] = votes[x]
    BY <1>5 DEF TypeOK
  <2>2. ASSUME Orderly, NEW y \in Server, NEW x \in Server, NEW t \in Nat, Counts(y, t, x)'
        PROVE  Counts(y, t, x)
    <3>1. WaitsForHandling(y, t, x)' => WaitsForHandling(y, t, x)
      <4>1. CASE <<x, y>> = <<s, i>>
        BY <1>3, <4>1 DEF WaitsForHandling
      <4>2. CASE <<x, y>> # <<s, i>>
        BY <1>4, <4>2 DEF WaitsForHandling
      <4> QED BY <4>1, <4>2
    <3>2. IsTallied(y, t, x)' => IsTallied(y, t, x) \/ WaitsForHandling(y, t, x)
      <4>1. CASE x = s /\ y = i
        <5> SUFFICES ASSUME IsTallied(y, t, x)' PROVE WaitsForHandling(y, t, x)
          OBVIOUS
        <5>1. election[s] # "idle" /\ state[s] = "Candidate" /\ currentTerm[s] = t
          BY <1>2, <1>5, <4>1 DEF IsTallied
        <5>2. voteRpc[s][i].req.term = t
          BY <1>1, <1>2, <2>2, <5>1 DEF Orderly, AsksInOwnTerm
        <5> QED BY <1>2, <1>5, <4>1, <5>2 DEF WaitsForHandling
      <4>2. CASE x # s \/ y # i
        BY <1>2, <1>5, <2>1, <4>2 DEF IsTallied
      <4> QED BY <4>1, <4>2
    <3>3. MadeLeader(y, t, x)' => MadeLeader(y, t, x)
      BY <1>2 DEF MadeLeader
    <3> QED BY <2>2, <3>1, <3>2, <3>3 DEF Counts
  <2>3. Orderly => AsksInOwnTerm'
    BY <1>1, <1>2, <1>3, <1>4, <1>5 DEF Orderly, AsksInOwnTerm
  <2>4. Orderly => WinnersHaveMajorities'
    BY <1>2, <1>5, <2>1 DEF Orderly, WinnersHaveMajorities, Majority
  <2>5. Recorded /\ VotesKept
    BY <1>2, <1>5, NobodyVotes DEF Recorded
  <2> QED BY <2>2, <2>3, <2>4, <2>5 DEF Tallied
<1>6. CASE /\ r.term > currentTerm[s] /\ AdoptTerm(s, r.term, Nil)
           /\ UNCHANGED votes /\ persist(s)
  <2>1. r.term \in Nat
    <3>1. voteRpc[s][i] \in VoteSlot
      BY <1>1 DEF TypeOK
    <3> QED BY <1>2, <3>1, SlotTypes DEF VoteReply
  <2>2. state'[s] = "Follower"
    BY <1>6 DEF AdoptTerm, TypeOK
  <2>3. \A x \in Server \ {s} : /\ currentTerm'[x] = currentTerm[x] /\ votedFor'[x] = votedFor[x]
                               /\ state'[x] = state[x]
    BY <1>6 DEF AdoptTerm, TypeOK
  <2>4. Recorded
    BY <1>2, <1>6, <2>3, PersistSaves
  <2> HIDE DEF r
  <2>5. VotesKept
    BY <1>6, <2>1, AdoptTermKeeps
  <2>6. ASSUME NEW y \in Server, NEW x \in Server, NEW t \in Nat, Counts(y, t, x)'
        PROVE  Counts(y, t, x)
    <3>1. WaitsForHandling(y, t, x)' => WaitsForHandling(y, t, x)
      <4>1. CASE <<x, y>> = <<s, i>>
        BY <1>3, <4>1 DEF WaitsForHandling
      <4>2. CASE <<x, y>> # <<s, i>>
        BY <1>4, <4>2 DEF WaitsForHandling
      <4> QED BY <4>1, <4>2
    <3>2. IsTallied(y, t, x)' => IsTallied(y, t, x)
      BY <1>2, <1>6, <2>2, <2>3 DEF IsTallied
    <3>3. MadeLeader(y, t, x)' => MadeLeader(y, t, x)
      BY <1>2 DEF MadeLeader
    <3> QED BY <2>6, <3>1, <3>2, <3>3 DEF Counts
  <2>7. Orderly => AsksInOwnTerm'
    BY <1>1, <1>2, <1>4, <2>2, <2>3 DEF Orderly, AsksInOwnTerm
  <2>8. Orderly => WinnersHaveMajorities'
    BY <1>2, <1>6, <2>3 DEF Orderly, WinnersHaveMajorities, Majority
  <2> QED BY <2>4, <2>5, <2>6, <2>7, <2>8 DEF Tallied
<1> QED BY <1>5, <1>6, Zenon DEF HandleRequestVoteReply

\* An answer counts a vote only if it is a fresh one, given to who asked.
LEMMA AnswerTallies ==
  ASSUME TypeOK, Orderly, NEW m \in Request, NEW r,
         voteRpc' = answer(voteRpc, m, r),
         r.granted => Fresh(m.to, m.term, m.from),
         UNCHANGED <<election, votes, elected>>,
         \A s \in Server :
           /\ state'[s] = "Candidate" => state[s] = "Candidate" /\ currentTerm'[s] = currentTerm[s]
           /\ election[s] = "won" => state'[s] = state[s]
  PROVE  Tallied
<1>1. m.from \in Server /\ m.to \in Server /\ m.term \in Nat
  BY RequestTypes
<1>2. /\ voteRpc[m.from][m.to] = SentSlot(m)
      /\ voteRpc'[m.from][m.to] = [st |-> "replied", req |-> m, reply |-> r]
      \/ voteRpc' = voteRpc
  BY <1>1 DEF answer, TypeOK
<1>3. \A x, y \in Server : <<x, y>> # <<m.from, m.to>> => voteRpc'[x][y] = voteRpc[x][y]
  BY <1>1 DEF answer, TypeOK
<1>4. ASSUME NEW y \in Server, NEW x \in Server, NEW t \in Nat, Counts(y, t, x)'
      PROVE  Counts(y, t, x) \/ Fresh(y, t, x)
  <2>1. WaitsForHandling(y, t, x)' => WaitsForHandling(y, t, x) \/ Fresh(y, t, x)
    <3>1. CASE <<x, y>> = <<m.from, m.to>>
      <4>1. x = m.from /\ y = m.to
        BY <3>1
      <4>2. CASE voteRpc' = voteRpc
        BY <4>2 DEF WaitsForHandling
      <4>3. CASE voteRpc'[m.from][m.to] = [st |-> "replied", req |-> m, reply |-> r]
        <5>1. voteRpc'[x][y].reply = r /\ voteRpc'[x][y].req = m
          BY <4>1, <4>3
        <5>2. WaitsForHandling(y, t, x)' => r.granted /\ m.term = t
          BY <5>1, Zenon DEF WaitsForHandling
        <5> QED BY <4>1, <5>2
      <4> QED BY <1>2, <4>2, <4>3
    <3>2. CASE <<x, y>> # <<m.from, m.to>>
      BY <1>3, <3>2 DEF WaitsForHandling
    <3> QED BY <3>1, <3>2
  <2>2. IsTallied(y, t, x)' => IsTallied(y, t, x)
    BY DEF IsTallied
  <2>3. MadeLeader(y, t, x)' => MadeLeader(y, t, x)
    BY DEF MadeLeader
  <2> QED BY <1>4, <2>1, <2>2, <2>3 DEF Counts
<1>5. AsksInOwnTerm'
  <2> SUFFICES ASSUME NEW x \in Server, NEW y \in Server,
                      election'[x] # "idle", state'[x] = "Candidate",
                      voteRpc'[x][y].st \in {"sent", "replied"}
               PROVE  voteRpc'[x][y].req.term = currentTerm'[x]
    BY DEF Orderly, AsksInOwnTerm
  <2>1. voteRpc[x][y].st \in {"sent", "replied"} /\ voteRpc'[x][y].req = voteRpc[x][y].req
    <3>1. CASE <<x, y>> = <<m.from, m.to>>
      BY <1>2, <3>1 DEF SentSlot
    <3>2. CASE <<x, y>> # <<m.from, m.to>>
      BY <1>3, <3>2
    <3> QED BY <3>1, <3>2
  <2> QED BY <2>1 DEF Orderly, AsksInOwnTerm
<1>6. WinnersHaveMajorities'
  BY DEF Orderly, WinnersHaveMajorities, Majority
<1> QED BY <1>4, <1>5, <1>6 DEF Tallied

\* A request for a vote.
LEMMA RequestVoteTallies ==
  ASSUME TypeOK,
         NEW m \in msgs, RequestVote(m)
  PROVE  Recorded /\ VotesKept /\ (Orderly => Tallied)
<1>1. m \in Request /\ m.to \in Server /\ m.from \in Server /\ m.term \in Nat
  BY RequestTypes DEF TypeOK
<1>2. Orderly => election[m.to] # "won"
  BY DEF RequestVote, Free, Orderly
<1>3. /\ \A s \in Server : currentTerm[s] \in Nat
      /\ Nil \notin Server
  BY ServerAssumption DEF TypeOK
<1>4. CASE VoteInNewTerm(m)
  <2> DEFINE granted == ~Newer(log[m.to], m)
  <2>1. /\ currentTerm[m.to] < m.term
        /\ AdoptTerm(m.to, m.term, IF granted THEN m.from ELSE Nil)
        /\ voteRpc' = answer(voteRpc, m, Ballot(m.term, granted))
        /\ persist(m.to)
        /\ log' = log /\ UNCHANGED <<election, votes, elected>>
    BY <1>4 DEF VoteInNewTerm, VoteUnchanged
  <2> HIDE DEF granted
  <2>2. /\ currentTerm'[m.to] = m.term /\ state'[m.to] = "Follower"
        /\ granted => votedFor'[m.to] = m.from
    BY <1>1, <2>1 DEF AdoptTerm, TypeOK
  <2>3. \A s \in Server \ {m.to} : /\ currentTerm'[s] = currentTerm[s] /\ votedFor'[s] = votedFor[s]
                                  /\ state'[s] = state[s]
    BY <2>1 DEF AdoptTerm, TypeOK
  <2>4. Ballot(m.term, granted).granted => Fresh(m.to, m.term, m.from)
    <3>1. Ballot(m.term, granted).granted => granted
      BY DEF Ballot
    <3>2. granted => Fresh(m.to, m.term, m.from)
      BY <2>1, <2>2 DEF Fresh
    <3> QED BY <3>1, <3>2
  <2>5. Orderly => Tallied
    BY <1>1, <1>2, <2>1, <2>2, <2>3, <2>4, AnswerTallies
  <2>6. Recorded
    BY <1>1, <2>1, <2>3, PersistSaves
  <2> QED BY <1>1, <2>1, <2>5, <2>6, AdoptTermKeeps
<1>5. CASE VoteAgain(m)
  <2>1. /\ currentTerm[m.to] = m.term /\ votedFor[m.to] = m.from
        /\ currentTerm' = currentTerm /\ votedFor' = votedFor /\ log' = log
        /\ state' = [state EXCEPT ![m.to] = "Follower"]
        /\ voteRpc' = answer(voteRpc, m, Ballot(m.term, TRUE))
        /\ UNCHANGED <<election, votes, elected>>
        /\ persist(m.to)
    BY <1>5 DEF VoteAgain, HasVotedFor, VoteUnchanged
  <2>2. \A s \in Server : state'[s] = IF s = m.to THEN "Follower" ELSE state[s]
    BY <1>1, <2>1 DEF TypeOK
  <2>3. Fresh(m.to, m.term, m.from)
    BY <2>1 DEF Fresh
  <2>4. \A x \in Server :
          /\ state'[x] = "Candidate" => state[x] = "Candidate" /\ currentTerm'[x] = currentTerm[x]
          /\ Orderly /\ election[x] = "won" => state'[x] = state[x]
    BY <1>1, <1>2, <2>1, <2>2
  <2>5. Orderly => Tallied
    BY <1>1, <2>1, <2>3, <2>4, AnswerTallies
  <2>6. Recorded
    BY <1>1, <2>1, PersistSaves
  <2> QED BY <2>1, <2>5, <2>6, NobodyVotes
<1>6. CASE VoteInCurrentTerm(m)
  <2> DEFINE granted == ~NotOlder(log[m.to], m)
  <2>1. /\ currentTerm[m.to] = m.term /\ votedFor[m.to] = Nil
        /\ votedFor' = [votedFor EXCEPT ![m.to] = IF granted THEN m.from ELSE Nil]
        /\ voteRpc' = answer(voteRpc, m, Ballot(m.term, granted))
        /\ currentTerm' = currentTerm /\ state' = state /\ log' = log
        /\ UNCHANGED <<election, votes, elected>>
        /\ persist(m.to)
    BY <1>6 DEF VoteInCurrentTerm, VoteUnchanged
  <2> HIDE DEF granted
  <2>2. \A s \in Server : votedFor'[s] = IF s # m.to THEN votedFor[s]
                                        ELSE IF granted THEN m.from ELSE Nil
    BY <1>1, <2>1 DEF TypeOK
  <2>3. Ballot(m.term, granted).granted => Fresh(m.to, m.term, m.from)
    <3>1. Ballot(m.term, granted).granted => granted
      BY DEF Ballot
    <3>2. granted => Fresh(m.to, m.term, m.from)
      BY <1>1, <2>1, <2>2 DEF Fresh
    <3> QED BY <3>1, <3>2
  <2>4. Orderly => Tallied
    BY <1>1, <2>1, <2>3, AnswerTallies
  <2>5. Recorded
    BY <1>1, <2>1, <2>2, PersistSaves
  <2>6. VotesKept
    BY <1>1, <2>1, <2>2 DEF VotesKept, VoteKept
  <2> QED BY <2>4, <2>5, <2>6
<1>7. CASE RefuseVote(m)
  <2>1. /\ UNCHANGED <<currentTerm, votedFor, log, persisted>> /\ state' = state
        /\ voteRpc' = answer(voteRpc, m, Ballot(currentTerm[m.to], FALSE))
        /\ UNCHANGED <<election, votes, elected>>
    BY <1>7 DEF RefuseVote, VoteUnchanged
  <2>2. ~Ballot(currentTerm[m.to], FALSE).granted
    BY DEF Ballot
  <2>3. Orderly => Tallied
    BY <1>1, <2>1, <2>2, AnswerTallies
  <2> QED BY <2>1, <2>3, NobodyVotes DEF Recorded
<1> QED BY <1>4, <1>5, <1>6, <1>7 DEF RequestVote

\* A crash that finds on disk the term and the vote the server has in memory.
LEMMA RestartTallies ==
  ASSUME TypeOK, PersistedIsCurrent,
         NEW s \in Server, Restart(s)
  PROVE  VotesKept /\ (Orderly => Tallied)
<1>1. Boot(s, persisted[s]) /\ elected' = elected
  BY DEF Restart, Boot
<1>2. UNCHANGED <<currentTerm, votedFor>>
  BY <1>1 DEF Boot, PersistedIsCurrent, TypeOK
<1>3. /\ election'[s] = "idle" /\ state'[s] = "Follower"
      /\ \A i \in Server : voteRpc'[s][i].st = "idle"
  BY <1>1 DEF Boot, IdleSlot, TypeOK
<1>4. \A x \in Server \ {s} :
        /\ state'[x] = state[x] /\ election'[x] = election[x] /\ votes'[x] = votes[x]
        /\ voteRpc'[x] = voteRpc[x]
  BY <1>1 DEF Boot, TypeOK
<1>5. ASSUME NEW i \in Server, NEW c \in Server, NEW t \in Nat, Counts(i, t, c)'
      PROVE  Counts(i, t, c)
  <2>1. CASE c # s
    BY <1>1, <1>2, <1>4, <1>5, <2>1 DEF Counts, WaitsForHandling, IsTallied, MadeLeader
  <2>2. CASE c = s
    BY <1>1, <1>3, <1>5, <2>2 DEF Counts, WaitsForHandling, IsTallied, MadeLeader
  <2> QED BY <2>1, <2>2
<1>6. Orderly => AsksInOwnTerm'
  BY <1>2, <1>3, <1>4 DEF Orderly, AsksInOwnTerm
<1>7. Orderly => WinnersHaveMajorities'
  BY <1>1, <1>3, <1>4 DEF Orderly, WinnersHaveMajorities, Majority
<1> QED BY <1>2, <1>5, <1>6, <1>7, NobodyVotes DEF Tallied

(***************************************************************************)
(* Persistence: the disk, the terms and the votes.                         *)
(***************************************************************************)
\* The process never dies between the two writes of AppendEntries.
NeverTorn == \A n \in DOMAIN Scenarios : Scenarios[n].torn = 0

\* The step is no such crash.
Untorn == NeverTorn \/ used'.torn = used.torn

TermsKept == \A s \in Server : currentTerm'[s] >= currentTerm[s]

\* After a step that saves what it changes, the disk is current again.
LEMMA RecordedIsCurrent ==
  ASSUME TypeOK, PersistedIsCurrent, Recorded
  PROVE  PersistedIsCurrent'
<1>1. CASE UNCHANGED <<currentTerm, votedFor, log, persisted>>
  BY <1>1 DEF PersistedIsCurrent
<1>2. ASSUME NEW i \in Server, NEW snapshot \in Snap, persistWithSnapshot(i, snapshot),
             \A s \in Server \ {i} :
               currentTerm'[s] = currentTerm[s] /\ votedFor'[s] = votedFor[s] /\ log'[s] = log[s]
      PROVE  PersistedIsCurrent'
  <2>1. /\ persisted'[i] = [currentTerm |-> currentTerm'[i], votedFor |-> votedFor'[i],
                            log |-> log'[i], snapshot |-> snapshot]
        /\ \A s \in Server \ {i} : persisted'[s] = persisted[s]
    BY <1>2 DEF persistWithSnapshot, TypeOK
  <2> QED BY <1>2, <2>1 DEF PersistedIsCurrent
<1> QED BY <1>1, <1>2 DEF Recorded, Saves

\* After a crash memory holds what was on disk.
LEMMA BootIsCurrent ==
  ASSUME TypeOK, PersistedIsCurrent, NEW s \in Server, NEW p, Boot(s, p)
  PROVE  PersistedIsCurrent'
<1>1. /\ persisted'[s] = p /\ currentTerm'[s] = p.currentTerm /\ votedFor'[s] = p.votedFor
      /\ log'[s] = p.log
  BY DEF Boot, TypeOK
<1>2. \A x \in Server \ {s} :
        /\ persisted'[x] = persisted[x] /\ currentTerm'[x] = currentTerm[x]
        /\ votedFor'[x] = votedFor[x] /\ log'[x] = log[x]
  BY DEF Boot, TypeOK
<1> QED BY <1>1, <1>2 DEF PersistedIsCurrent

\* A crash between the two writes of AppendEntries loses the vote but no term.
LEMMA TornTerms ==
  ASSUME TypeOK, PersistedIsCurrent, NEW m \in msgs, TornAppendEntries(m)
  PROVE  PersistedIsCurrent' /\ TermsKept /\ ~Untorn
<1> DEFINE p == [persisted[m.to] EXCEPT !.votedFor = Nil]
<1>1. m.to \in Server
  BY RequestTypes DEF TypeOK
<1>2. Boot(m.to, p)
  BY DEF TornAppendEntries
<1>3. p.currentTerm = persisted[m.to].currentTerm
  <2>1. persisted[m.to] \in [currentTerm : Nat, votedFor : Server \cup {Nil},
                             log : Log, snapshot : Snap]
    BY <1>1 DEF TypeOK
  <2> QED BY <2>1
<1>4. /\ used.torn \in Nat /\ used.torn < Bound.torn /\ used'.torn = used.torn + 1
      /\ used.scenario \in DOMAIN Scenarios
  BY DEF TornAppendEntries, TypeOK
<1> HIDE DEF p
<1>5. \A s \in Server : currentTerm'[s] = currentTerm[s]
  BY <1>1, <1>2, <1>3 DEF Boot, PersistedIsCurrent, TypeOK
<1>6. \A s \in Server : currentTerm[s] \in Nat
  BY DEF TypeOK
<1>7. TermsKept
  BY <1>5, <1>6 DEF TermsKept
<1>8. ~Untorn
  BY <1>4 DEF NeverTorn, Untorn, Bound
<1> QED BY <1>1, <1>2, <1>7, <1>8, BootIsCurrent

\* A kept vote belongs to a kept or a newer term.
LEMMA KeptTerms ==
  ASSUME TypeOK, TypeOK', VotesKept
  PROVE  TermsKept
<1>1. \A s \in Server : currentTerm[s] \in Nat /\ currentTerm'[s] \in Nat
  BY DEF TypeOK
<1>2. \A s \in Server : currentTerm'[s] > currentTerm[s] \/ currentTerm'[s] = currentTerm[s]
  BY DEF VotesKept, VoteKept
<1> QED BY <1>1, <1>2 DEF TermsKept

\* What every step does to the disk, the terms, the votes and the count of votes.
LEMMA RecordStep ==
  ASSUME TypeOK, PersistedIsCurrent, [Next]_vars
  PROVE  /\ PersistedIsCurrent'
         /\ TermsKept
         /\ Untorn => VotesKept /\ (Orderly => Tallied)
<1> TypeOK'
  BY TypeStep
<1>1. ASSUME Recorded, VotesKept, Orderly => Calm \/ Tallied
      PROVE  /\ PersistedIsCurrent'
             /\ TermsKept
             /\ Untorn => VotesKept /\ (Orderly => Tallied)
  BY <1>1, RecordedIsCurrent, KeptTerms, CalmTallies
<1>2. CASE UNCHANGED vars
  <2>1. UNCHANGED <<currentTerm, votedFor, log, persisted>> /\ state' = state
        /\ UNCHANGED votingVars
    BY <1>2 DEF vars, electionVars
  <2>2. Recorded /\ VotesKept /\ Calm
    BY <2>1, NobodyVotes DEF Recorded, Calm
  <2> QED BY <1>1, <2>2
<1>3. ASSUME NEW s \in Server, ServerStep(s)
      PROVE  /\ PersistedIsCurrent'
             /\ TermsKept
             /\ Untorn => VotesKept /\ (Orderly => Tallied)
  <2>1. CASE Restart(s)
    BY <2>1, BootIsCurrent, KeptTerms, RestartTallies DEF Restart
  <2>2. CASE ~Restart(s)
    BY <1>1, <1>3, <2>2, StartElectionTallies, TallyVotesTallies, BecomeLeaderTallies,
       ServerStepCalm DEF ServerStep
  <2> QED BY <2>1, <2>2
<1>4. ASSUME NEW s \in Server, NEW i \in Others(s), PeerStep(s, i)
      PROVE  Recorded /\ VotesKept /\ (Orderly => Calm \/ Tallied)
  BY <1>4, SendRequestTallies, HandleRequestVoteReplyTallies, PeerStepCalm DEF PeerStep
<1>5. ASSUME NEW m \in msgs, Receive(m)
      PROVE  /\ PersistedIsCurrent'
             /\ TermsKept
             /\ Untorn => VotesKept /\ (Orderly => Tallied)
  <2>1. CASE TornAppendEntries(m)
    BY <2>1, TornTerms
  <2>2. CASE ~TornAppendEntries(m)
    BY <1>1, <1>5, <2>2, RequestVoteTallies, AppendEntriesCalm, InstallSnapshotCalm DEF Receive
  <2> QED BY <2>1, <2>2
<1> QED BY <1>1, <1>2, <1>3, <1>4, <1>5 DEF Next

\* At first nothing has been voted for, and that is what is on disk.
LEMMA ElectionInit == Init => PersistedIsCurrent /\ VotesAccounted(Nat)
<1> SUFFICES ASSUME Init PROVE PersistedIsCurrent /\ VotesAccounted(Nat)
  OBVIOUS
<1>1. PersistedIsCurrent
  BY DEF Init, PersistedIsCurrent
<1>2. /\ \A s, i \in Server : voteRpc[s][i].st = "idle"
      /\ \A s \in Server : election[s] = "idle"
      /\ elected = {}
  BY DEF Init, IdleSlot
<1>3. \A i, s \in Server : \A t \in Nat : ~Counts(i, t, s)
  BY <1>2 DEF Counts, WaitsForHandling, IsTallied, MadeLeader
<1> QED BY <1>1, <1>2, <1>3 DEF VotesAccounted, VotesOnRecord, VotesCountOnce, AsksInOwnTerm,
                                WinnersHaveMajorities

\* Whenever rf.mu is free, the disk holds the term, the vote and the log of the
\* memory (PersistedIsCurrent), for any preemption and any crash.
THEOREM PersistenceCorrect == Spec => []PersistedIsCurrent
<1>1. Init => PersistedIsCurrent
  BY ElectionInit
<1>2. TypeOK /\ PersistedIsCurrent /\ [Next]_vars => PersistedIsCurrent'
  BY RecordStep
<1> QED BY <1>1, <1>2, TypeCorrect, PTL DEF Spec

\* currentTerm never falls (TermsGrow), for any preemption and any crash.
THEOREM TermsNeverFall == Spec => TermsGrow
<1>1. TypeOK /\ PersistedIsCurrent /\ [Next]_vars
        => [\A s \in Server : currentTerm'[s] >= currentTerm[s]]_vars
  BY RecordStep DEF TermsKept
<1> QED BY <1>1, TypeCorrect, PersistenceCorrect, PTL DEF Spec, TermsGrow

\* A vote once given stays the voter's vote of that term (VoteSurvives), through
\* crashes too, unless one comes between the two writes of AppendEntries.
THEOREM VotesSurvive == Spec => VoteSurvives
<1>1. TypeOK /\ PersistedIsCurrent /\ [Next]_vars
        => [used'.torn = used.torn =>
              \A s \in Server : currentTerm'[s] = currentTerm[s] /\ votedFor[s] # Nil
                               => votedFor'[s] = votedFor[s]]_vars
  <2> SUFFICES ASSUME TypeOK, PersistedIsCurrent, [Next]_vars, used'.torn = used.torn,
                      NEW s \in Server,
                      currentTerm'[s] = currentTerm[s], votedFor[s] # Nil
               PROVE  votedFor'[s] = votedFor[s]
    OBVIOUS
  <2>1. VoteKept(s)
    BY RecordStep DEF VotesKept, Untorn
  <2>2. currentTerm[s] \in Nat
    BY DEF TypeOK
  <2> QED BY <2>1, <2>2 DEF VoteKept
<1> QED BY <1>1, TypeCorrect, PersistenceCorrect, PTL DEF Spec, VoteSurvives

(***************************************************************************)
(* One leader per term.                                                    *)
(***************************************************************************)
\* A fresh vote is given to nobody else, so that the votes remain accounted for.
LEMMA VotesAccountedStep ==
  ASSUME TypeOK, TypeOK', VotesAccounted(Nat), VotesKept, Tallied
  PROVE  VotesAccounted(Nat)'
<1>1. \A s \in Server : currentTerm[s] \in Nat /\ currentTerm'[s] \in Nat /\ s # Nil
  BY ServerAssumption DEF TypeOK
<1>2. ASSUME NEW i \in Server, NEW s \in Server, NEW t \in Nat,
             currentTerm[i] > t \/ (currentTerm[i] = t /\ votedFor[i] = s)
      PROVE  currentTerm'[i] > t \/ (currentTerm'[i] = t /\ votedFor'[i] = s)
  <2>1. VoteKept(i)
    BY DEF VotesKept
  <2> QED BY <1>1, <1>2, <2>1 DEF VoteKept
<1>3. ASSUME NEW i \in Server, NEW s \in Server, NEW t \in Nat, Counts(i, t, s)'
      PROVE  currentTerm'[i] > t \/ (currentTerm'[i] = t /\ votedFor'[i] = s)
  <2>1. CASE Counts(i, t, s)
    BY <1>2, <2>1 DEF VotesAccounted, VotesOnRecord
  <2>2. CASE Fresh(i, t, s)
    BY <2>2 DEF Fresh
  <2> QED BY <1>3, <2>1, <2>2 DEF Tallied
<1>4. ASSUME NEW i \in Server, NEW s \in Server, NEW c \in Server, NEW t \in Nat,
             Counts(i, t, s), Fresh(i, t, c)
      PROVE  s = c
  <2>1. currentTerm[i] > t \/ (currentTerm[i] = t /\ votedFor[i] = s)
    BY <1>4 DEF VotesAccounted, VotesOnRecord
  <2> QED BY <1>1, <1>4, <2>1 DEF Fresh
<1>5. ASSUME NEW i \in Server, NEW s \in Server, NEW c \in Server, NEW t \in Nat,
             Counts(i, t, s)', Counts(i, t, c)'
      PROVE  s = c
  <2>1. /\ Counts(i, t, s) \/ Fresh(i, t, s)
        /\ Counts(i, t, c) \/ Fresh(i, t, c)
    BY <1>5 DEF Tallied
  <2>2. CASE Counts(i, t, s) /\ Counts(i, t, c)
    BY <2>2 DEF VotesAccounted, VotesCountOnce
  <2>3. CASE Fresh(i, t, s) /\ Fresh(i, t, c)
    BY <2>3 DEF Fresh
  <2> QED BY <1>4, <2>1, <2>2, <2>3
<1>6. VotesOnRecord(Nat)'
  BY <1>3 DEF VotesOnRecord
<1>7. VotesCountOnce(Nat)'
  BY <1>5 DEF VotesCountOnce
<1> QED BY <1>6, <1>7 DEF VotesAccounted, Tallied

\* Two majorities share a server.
LEMMA MajoritiesMeet ==
  ASSUME NEW P \in SUBSET Server, NEW Q \in SUBSET Server, Majority(P), Majority(Q)
  PROVE  \E i \in Server : i \in P /\ i \in Q
<1>1. IsFiniteSet(Server)
  BY ServerAssumption
<1>2. Cardinality(P) \in Nat /\ Cardinality(Q) \in Nat /\ Cardinality(Server) \in Nat
  BY <1>1, FS_Subset, FS_CardinalityType
<1>3. Cardinality(P) + Cardinality(Q) > Cardinality(Server)
  BY <1>2 DEF Majority
<1>4. P \cap Q # {}
  BY <1>1, <1>3, FS_MajoritiesIntersect
<1> QED BY <1>4

\* The one they share has a vote that counts for one of them only.
LEMMA AccountedIsSafe ==
  ASSUME TypeOK, VotesAccounted(Nat)
  PROVE  ElectionSafety
<1> SUFFICES ASSUME NEW e \in elected, NEW f \in elected, e.term = f.term
             PROVE  e.leader = f.leader
  BY DEF ElectionSafety
<1>1. /\ e.term \in Nat /\ e.leader \in Server /\ e.votes \subseteq Server
      /\ f.leader \in Server /\ f.votes \subseteq Server
  BY DEF TypeOK
<1>2. Majority(e.votes) /\ Majority(f.votes)
  BY DEF VotesAccounted, WinnersHaveMajorities
<1>3. PICK i \in Server : i \in e.votes /\ i \in f.votes
  BY <1>1, <1>2, MajoritiesMeet
<1>4. Counts(i, e.term, e.leader) /\ Counts(i, e.term, f.leader)
  BY <1>3 DEF Counts, MadeLeader
<1> QED BY <1>1, <1>4 DEF VotesAccounted, VotesCountOnce

\* Only a crash between the two writes of AppendEntries counts as torn, and
\* none is ever taken back.
LEMMA TornCounted ==
  ASSUME TypeOK, [Next]_vars, used'.torn = 0
  PROVE  used.torn = 0
<1>1. CASE UNCHANGED vars
  BY <1>1 DEF vars
<1>2. ASSUME NEW s \in Server, ServerStep(s)
      PROVE  used'.torn = used.torn
  <2>1. CASE Restart(s)
    BY <2>1 DEF Restart, TypeOK
  <2>2. CASE Snapshot(s)
    BY <2>2 DEF Snapshot, TypeOK
  <2>3. CASE StartElection(s) \/ TallyVotes(s) \/ BecomeLeader(s)
    BY <2>3 DEF StartElection, TallyVotes, BecomeLeader
  <2>4. CASE (\E c \in Command : Start(s, c)) \/ InitLeader(s) \/ CheckCommit(s)
    BY <2>4 DEF Start, InitLeader, CheckCommit
  <2>5. CASE ApplyCheck(s) \/ ApplyNext(s) \/ ReceiveCommand(s) \/ ReceiveSnapshot(s)
    BY <2>5 DEF ApplyCheck, ApplyNext, ReceiveCommand, ReceiveSnapshot
  <2> QED BY <1>2, <2>1, <2>2, <2>3, <2>4, <2>5 DEF ServerStep
<1>3. ASSUME NEW s \in Server, NEW i \in Others(s), PeerStep(s, i)
      PROVE  used'.torn = used.torn
  <2>1. CASE SendRequest(s, i) \/ HandleRequestVoteReply(s, i)
    BY <2>1 DEF SendRequest, HandleRequestVoteReply, VoteUnchanged
  <2>2. CASE SendSnapshot(s, i) \/ SendEntries(s, i)
    BY <2>2 DEF SendSnapshot, SendEntries, Sending
  <2>3. CASE LeaderStepsDown(s, i) \/ HandleRejection(s, i)
    BY <2>3 DEF LeaderStepsDown, HandleRejection, ReplyUnchanged
  <2>4. CASE HandleSuccess(s, i) \/ HandleInstallSnapshotReply(s, i)
    BY <2>4 DEF HandleSuccess, HandleInstallSnapshotReply, ReplyUnchanged
  <2> QED BY <1>3, <2>1, <2>2, <2>3, <2>4 DEF PeerStep
<1>4. ASSUME NEW m \in msgs, Receive(m)
      PROVE  used.torn = 0
  <2>1. CASE TornAppendEntries(m)
    <3>1. used.torn \in Nat /\ used'.torn = used.torn + 1
      BY <2>1 DEF TornAppendEntries, TypeOK
    <3> QED BY <3>1
  <2>2. CASE RequestVote(m) \/ InstallSnapshot(m)
    BY <2>2 DEF RequestVote, VoteInNewTerm, VoteAgain, VoteInCurrentTerm, RefuseVote,
                InstallSnapshot, VoteUnchanged
  <2>3. CASE AppendEntries(m)
    BY <2>3 DEF AppendEntries, StaleAppendEntries, AppendEntriesToLeader, RejectEntries,
                AcceptEntries, EntriesUnchanged
  <2> QED BY <1>4, <2>1, <2>2, <2>3 DEF Receive
<1> QED BY <1>1, <1>2, <1>3, <1>4 DEF Next

\* Until a crash comes between the two writes of AppendEntries the votes are
\* accounted for (VotesAreAccounted), in whatever terms, and no term has two
\* leaders, if no winner is preempted between testing its state and locking
\* (RequestVote.go:253).
THEOREM VotesStayAccounted ==
  ASSUME "election" \notin Preemptible
  PROVE  Spec => [](/\ used.torn = 0 => ElectionSafety /\ VotesAccounted(Nat)
                    /\ VotesAreAccounted)
<1> DEFINE Accounted == used.torn = 0 => VotesAccounted(Nat)
<1>1. Init => Accounted
  BY ElectionInit
<1>2. TypeOK /\ PersistedIsCurrent /\ Accounted /\ [Next]_vars => Accounted'
  <2> SUFFICES ASSUME TypeOK, PersistedIsCurrent, Accounted, [Next]_vars, used'.torn = 0
               PROVE  VotesAccounted(Nat)'
    OBVIOUS
  <2>1. TypeOK' /\ used.torn = 0
    BY TypeStep, TornCounted
  <2>2. VotesAccounted(Nat) /\ Untorn
    BY <2>1 DEF Untorn
  <2>3. Orderly
    BY <2>2 DEF Orderly, VotesAccounted
  <2>4. VotesKept /\ Tallied
    BY <2>2, <2>3, RecordStep
  <2> QED BY <2>1, <2>2, <2>4, VotesAccountedStep
<1>3. TypeOK /\ Accounted
      => /\ used.torn = 0 => ElectionSafety /\ VotesAccounted(Nat)
         /\ VotesAreAccounted
  <2> SUFFICES ASSUME TypeOK, VotesAccounted(Nat)
               PROVE  ElectionSafety /\ VotesAccounted(TermsReached)
    BY DEF VotesAreAccounted
  <2>1. TermsReached \subseteq Nat
    BY DEF TermsReached, TypeOK
  <2>2. VotesOnRecord(TermsReached) /\ VotesCountOnce(TermsReached)
    BY <2>1 DEF VotesAccounted, VotesOnRecord, VotesCountOnce
  <2> QED BY <2>2, AccountedIsSafe DEF VotesAccounted
<1> QED BY <1>1, <1>2, <1>3, TypeCorrect, PersistenceCorrect, PTL DEF Spec

\* In every term at most one server becomes leader (ElectionSafety), and the votes
\* are accounted for, if no winner is preempted between testing its state and
\* locking (RequestVote.go:253) and no crash comes between the two writes of
\* AppendEntries.  The run preempted shows that the first is needed.
THEOREM OneLeaderPerTerm ==
  ASSUME NeverTorn, "election" \notin Preemptible
  PROVE  Spec => [](ElectionSafety /\ VotesAccounted(Nat))
<1>1. Init => VotesAccounted(Nat)
  BY ElectionInit
<1>2. TypeOK /\ PersistedIsCurrent /\ VotesAccounted(Nat) /\ [Next]_vars
        => VotesAccounted(Nat)'
  <2> SUFFICES ASSUME TypeOK, PersistedIsCurrent, VotesAccounted(Nat), [Next]_vars
               PROVE  VotesAccounted(Nat)'
    OBVIOUS
  <2>1. Orderly
    BY DEF Orderly, VotesAccounted
  <2>2. TypeOK' /\ VotesKept /\ Tallied
    BY <2>1, TypeStep, RecordStep, NeverTorn DEF Untorn
  <2> QED BY <2>2, VotesAccountedStep
<1>3. TypeOK /\ VotesAccounted(Nat) => ElectionSafety
  BY AccountedIsSafe
<1> QED BY <1>1, <1>2, <1>3, TypeCorrect, PersistenceCorrect, PTL DEF Spec

(***************************************************************************)
(* The logs match.  The history variable ledger keeps, for the leader of   *)
(* each term, every entry its log ever had.  Each log is a piece of the    *)
(* ledger of its last term, each request of a leader a piece of the ledger *)
(* of the leader's term, and two ledgers that agree on the term of an      *)
(* entry agree on everything up to it.                                     *)
(***************************************************************************)

(***************************************************************************)
(* A ledger g and the logs that are pieces of it.                          *)
(***************************************************************************)
\* The term of entry k of the leader of term t; 0 before the first entry.
TermIn(g, t, k) == IF k = 0 THEN 0 ELSE g[t][k].term

\* The leaders of terms t and u have the same k first entries.
Agree(g, t, u, k) ==
  /\ k <= Len(g[t]) /\ k <= Len(g[u])
  /\ \A j \in 1 .. k : g[t][j] = g[u][j]

\* The leader of term t has entry k, and those before, from the leader that made it.
Rooted(g, t, k) ==
  LET u == g[t][k].term IN u \in DOMAIN g /\ 0 < u /\ u <= t /\ Agree(g, t, u, k)

Ledger(g) ==
  /\ DOMAIN g \subseteq Nat /\ 0 \in DOMAIN g /\ g[0] = <<>>
  /\ \A t \in DOMAIN g : g[t] \in Seq(Entry)
  /\ \A t \in DOMAIN g \ {0} : Len(g[t]) > 0 /\ g[t][Len(g[t])].term = t
  /\ \A t \in DOMAIN g : \A k \in 1 .. Len(g[t]) : Rooted(g, t, k)

\* h is g after more leaders and more entries.
GrowsTo(g, h) ==
  /\ DOMAIN g \subseteq DOMAIN h
  /\ \A t \in DOMAIN g : /\ Len(g[t]) <= Len(h[t])
                         /\ \A k \in 1 .. Len(g[t]) : h[t][k] = g[t][k]

\* The leader of term T in h starts with the n first entries of that of term t in g
\* and adds one.
Continues(g, t, n, h, T) ==
  /\ T \in DOMAIN h /\ Len(h[T]) = n + 1
  /\ \A k \in 1 .. n : h[T][k] = g[t][k]

\* The log L is a piece of what the leader of term t has had.
Along(g, L, t) ==
  /\ t \in DOMAIN g /\ lastLogIndex(L) <= Len(g[t])
  /\ L.lastIncludedTerm = TermIn(g, t, L.lastIncludedIndex)
  /\ At(L, L.lastIncludedIndex).term = L.lastIncludedTerm
  /\ \A k \in Held(L) : At(L, k) = g[t][k]

\* L is a log a server may have in the given term.
Fits(g, L, term) == Along(g, L, lastLogTerm(L)) /\ lastLogTerm(L) <= term

(***************************************************************************)
(* The invariant.                                                          *)
(***************************************************************************)
Elected(s, t) == \E e \in elected : e.leader = s /\ e.term = t

LedgerOK == Ledger(ledger) /\ DOMAIN ledger = {0} \cup {e.term : e \in elected}

\* A leader's log is all of its ledger, and its last entry is its own.
Leads(s) ==
  /\ Elected(s, currentTerm[s])
  /\ lastLogTerm(log[s]) = currentTerm[s]
  /\ lastLogIndex(log[s]) = Len(ledger[currentTerm[s]])

\* Who was elected in a term is no longer a candidate in it.
NotAsking(e) == \/ currentTerm[e.leader] > e.term
                \/ currentTerm[e.leader] = e.term /\ state[e.leader] # "Candidate"

\* What a request of a leader carries is a piece of the ledger of its term, up to
\* an entry of that term.
EntriesFit(g, m) ==
  /\ m.term \in DOMAIN g
  /\ Acked(m) >= 1 /\ Acked(m) <= Len(g[m.term])
  /\ m.prevLogTerm = TermIn(g, m.term, m.prevLogIndex)
  /\ \A i \in 1 .. Len(m.entries) : m.entries[i] = g[m.term][m.prevLogIndex + i]
  /\ TermIn(g, m.term, Acked(m)) = m.term

SnapshotFits(g, m) ==
  /\ m.term \in DOMAIN g
  /\ m.lastIncludedIndex <= Len(g[m.term])
  /\ m.lastIncludedTerm = TermIn(g, m.term, m.lastIncludedIndex)

RequestFits(m) ==
  /\ m.from # m.to /\ m.term <= currentTerm[m.from]
  /\ m.type # "RequestVote" => Elected(m.from, m.term)
  /\ m.type = "AppendEntries" => EntriesFit(ledger, m)
  /\ m.type = "InstallSnapshot" => SnapshotFits(ledger, m)

Matching ==
  /\ LedgerOK
  /\ \A s \in Server : currentTerm[s] >= 1 /\ Fits(ledger, log[s], currentTerm[s])
  /\ \A s \in Server : state[s] = "Leader" => Leads(s)
  /\ \A e \in elected : NotAsking(e)
  /\ \A m \in msgs : RequestFits(m)

(***************************************************************************)
(* Ledgers.                                                                *)
(***************************************************************************)
\* The entries of a ledger and their terms.
LEMMA LedgerBasics ==
  ASSUME NEW g, Ledger(g), NEW t \in DOMAIN g
  PROVE  /\ t \in Nat /\ Len(g[t]) \in Nat /\ g[t] \in Seq(Entry)
         /\ \A k \in 1 .. Len(g[t]) : g[t][k] \in Entry /\ g[t][k].term \in Nat
         /\ \A k \in 0 .. Len(g[t]) : TermIn(g, t, k) \in Nat
<1>1. t \in Nat /\ g[t] \in Seq(Entry)
  BY DEF Ledger
<1>2. Len(g[t]) \in Nat
  BY <1>1, LenProperties
<1>3. \A k \in 1 .. Len(g[t]) : g[t][k] \in Entry
  BY <1>1, ElementOfSeq
<1>4. \A k \in 1 .. Len(g[t]) : g[t][k].term \in Nat
  BY <1>3 DEF Entry
<1>5. \A k \in 0 .. Len(g[t]) : TermIn(g, t, k) \in Nat
  BY <1>2, <1>4 DEF TermIn
<1> QED BY <1>1, <1>2, <1>3, <1>4, <1>5

\* An entry that two leaders have with the same term comes from one leader: they
\* agree up to it.
LEMMA SameTermAgrees ==
  ASSUME NEW g, Ledger(g), NEW t \in DOMAIN g, NEW u \in DOMAIN g, NEW k \in Nat,
         k <= Len(g[t]), k <= Len(g[u]), TermIn(g, t, k) = TermIn(g, u, k)
  PROVE  Agree(g, t, u, k)
<1>1. CASE k = 0
  BY <1>1 DEF Agree
<1>2. CASE k # 0
  <2>1. k \in 1 .. Len(g[t]) /\ k \in 1 .. Len(g[u])
    BY <1>2, LedgerBasics
  <2>2. Rooted(g, t, k) /\ Rooted(g, u, k)
    BY <2>1 DEF Ledger
  <2>3. g[t][k].term = g[u][k].term
    BY <1>2 DEF TermIn
  <2> QED BY <2>2, <2>3 DEF Rooted, Agree
<1> QED BY <1>1, <1>2

\* The terms of the entries of a leader never fall, and none is newer than its own.
LEMMA TermsRise ==
  ASSUME NEW g, Ledger(g), NEW t \in DOMAIN g, NEW k \in 0 .. Len(g[t]), NEW j \in 0 .. k
  PROVE  /\ TermIn(g, t, j) <= TermIn(g, t, k) /\ TermIn(g, t, k) <= t
         /\ TermIn(g, t, k) \in DOMAIN g
         /\ k # 0 => TermIn(g, t, k) # 0
<1>1. /\ t \in Nat /\ Len(g[t]) \in Nat /\ 0 \in DOMAIN g
      /\ \A i \in 0 .. Len(g[t]) : TermIn(g, t, i) \in Nat
  BY LedgerBasics DEF Ledger
<1>2. CASE k = 0
  BY <1>1, <1>2 DEF TermIn
<1>3. CASE k # 0 /\ j = 0
  <2>1. k \in 1 .. Len(g[t])
    BY <1>1, <1>3
  <2>2. Rooted(g, t, k)
    BY <2>1 DEF Ledger
  <2> QED BY <1>1, <1>3, <2>1, <2>2 DEF Rooted, TermIn
<1>4. CASE k # 0 /\ j # 0
  <2>1. k \in 1 .. Len(g[t]) /\ j \in 1 .. k
    BY <1>1, <1>4
  <2> DEFINE u == g[t][k].term
  <2>2. u \in DOMAIN g /\ 0 < u /\ u <= t /\ Agree(g, t, u, k)
    BY <2>1 DEF Ledger, Rooted
  <2>3. g[t][j] = g[u][j] /\ j \in 1 .. Len(g[u])
    <3>1. u \in DOMAIN g
      BY <2>2
    <3> HIDE DEF u
    <3>2. Len(g[u]) \in Nat
      BY <3>1, LedgerBasics
    <3> QED BY <2>1, <2>2, <3>2 DEF Agree
  <2>4. TermIn(g, t, k) = u /\ TermIn(g, t, j) = g[t][j].term
    BY <1>4 DEF TermIn
  <2> HIDE DEF u
  <2>5. g[u][j].term <= u
    BY <2>2, <2>3 DEF Ledger, Rooted
  <2> QED BY <2>2, <2>3, <2>4, <2>5
<1> QED BY <1>2, <1>3, <1>4

\* What a leader had it still has when the ledger has grown.
LEMMA GrownTerms ==
  ASSUME NEW g, Ledger(g), NEW h, GrowsTo(g, h), NEW t \in DOMAIN g,
         NEW k \in Nat, k <= Len(g[t])
  PROVE  t \in DOMAIN h /\ k <= Len(h[t]) /\ TermIn(h, t, k) = TermIn(g, t, k)
<1>1. Len(g[t]) \in Nat
  BY LedgerBasics
<1>2. k # 0 => h[t][k] = g[t][k]
  BY <1>1 DEF GrowsTo
<1>3. t \in DOMAIN h /\ Len(g[t]) <= Len(h[t])
  BY DEF GrowsTo
<1> QED BY <1>1, <1>2, <1>3 DEF TermIn

(***************************************************************************)
(* Logs and ledgers.                                                       *)
(***************************************************************************)
\* In a log that is a piece of the ledger of term t, the entries have the terms
\* they have there.
LEMMA AlongTerms ==
  ASSUME NEW g, Ledger(g), NEW t, NEW L \in Log, Along(g, L, t)
  PROVE  \A k \in Indices(L) : /\ k \in 0 .. Len(g[t])
                               /\ termAt(L, k) = TermIn(g, t, k)
                               /\ At(L, k).term = TermIn(g, t, k)
<1>1. /\ L.lastIncludedIndex \in Nat /\ lastLogIndex(L) \in Nat
      /\ lastLogIndex(L) <= Len(g[t]) /\ Len(g[t]) \in Nat
  BY LogBasics, LedgerBasics DEF Along
<1> SUFFICES ASSUME NEW k \in Indices(L)
             PROVE  /\ k \in 0 .. Len(g[t])
                    /\ termAt(L, k) = TermIn(g, t, k)
                    /\ At(L, k).term = TermIn(g, t, k)
  OBVIOUS
<1>2. k \in 0 .. Len(g[t])
  BY <1>1 DEF Indices
<1>3. CASE k = L.lastIncludedIndex
  BY <1>2, <1>3 DEF Along, termAt
<1>4. CASE k # L.lastIncludedIndex
  <2>1. k \in Held(L) /\ k # 0
    BY <1>1, <1>4 DEF Indices, Held
  <2> QED BY <1>2, <1>4, <2>1 DEF Along, termAt, TermIn
<1> QED BY <1>3, <1>4

\* A log that is a piece of one ledger is a piece of another that agrees with it.
LEMMA AlongOther ==
  ASSUME NEW g, Ledger(g), NEW t, NEW u \in DOMAIN g, NEW L \in Log, Along(g, L, t),
         NEW n \in Nat, lastLogIndex(L) <= n, Agree(g, t, u, n)
  PROVE  Along(g, L, u)
<1>1. /\ L.lastIncludedIndex \in Nat /\ lastLogIndex(L) \in Nat
      /\ L.lastIncludedIndex <= lastLogIndex(L) /\ Len(g[u]) \in Nat
  BY LogBasics, LedgerBasics
<1>2. n <= Len(g[u]) /\ \A j \in 1 .. n : g[t][j] = g[u][j]
  BY DEF Agree
<1>3. L.lastIncludedTerm = TermIn(g, u, L.lastIncludedIndex)
  BY <1>1, <1>2 DEF Along, TermIn
<1>4. \A k \in Held(L) : At(L, k) = g[u][k]
  BY <1>1, <1>2 DEF Along, Held
<1> QED BY <1>1, <1>2, <1>3, <1>4 DEF Along

\* A piece of a ledger is a piece of the ledger of its own last term, which is no newer.
LEMMA AlongFits ==
  ASSUME NEW g, Ledger(g), NEW t, NEW L \in Log, Along(g, L, t),
         NEW term \in Nat, t <= term
  PROVE  /\ Fits(g, L, term) /\ lastLogTerm(L) <= t
         /\ lastLogTerm(L) = TermIn(g, t, lastLogIndex(L))
<1> DEFINE n == lastLogIndex(L)
           u == lastLogTerm(L)
<1>1. /\ n \in Nat /\ u \in Nat /\ n \in Indices(L) /\ t \in DOMAIN g /\ t \in Nat
      /\ Len(g[t]) \in Nat
  BY LogBasics, LedgerBasics DEF Indices, Along
<1>2. u = TermIn(g, t, n) /\ n \in 0 .. Len(g[t])
  BY <1>1, AlongTerms DEF lastLogTerm
<1> HIDE DEF n, u
<1>3. u <= t /\ u \in DOMAIN g
  BY <1>1, <1>2, TermsRise
<1>4. Agree(g, t, u, n)
  <2>1. CASE n = 0
    <3>1. Len(g[u]) \in Nat
      BY <1>3, LedgerBasics
    <3> QED BY <1>1, <2>1, <3>1 DEF Agree
  <2>2. CASE n # 0
    <3>1. n \in 1 .. Len(g[t])
      BY <1>2, <2>2
    <3> QED BY <1>1, <1>2, <2>2, <3>1 DEF Ledger, Rooted, TermIn
  <2> QED BY <2>1, <2>2
<1>5. Along(g, L, u)
  BY <1>1, <1>3, <1>4, AlongOther DEF n
<1> QED BY <1>1, <1>2, <1>3, <1>5 DEF Fits, n, u

\* A piece of a ledger stays one when the ledger grows.
LEMMA AlongGrows ==
  ASSUME NEW g, Ledger(g), NEW h, GrowsTo(g, h), Ledger(h),
         NEW t, NEW L \in Log, Along(g, L, t)
  PROVE  Along(h, L, t)
<1>1. /\ L.lastIncludedIndex \in Nat /\ lastLogIndex(L) \in Nat
      /\ L.lastIncludedIndex <= lastLogIndex(L) /\ t \in DOMAIN g /\ Len(g[t]) \in Nat
      /\ lastLogIndex(L) <= Len(g[t])
  BY LogBasics, LedgerBasics DEF Along
<1>2. t \in DOMAIN h /\ lastLogIndex(L) <= Len(h[t])
  BY <1>1, GrownTerms
<1>3. TermIn(h, t, L.lastIncludedIndex) = TermIn(g, t, L.lastIncludedIndex)
  BY <1>1, GrownTerms
<1>4. \A k \in Held(L) : At(L, k) = h[t][k]
  BY <1>1 DEF Along, Held, GrowsTo
<1> QED BY <1>1, <1>2, <1>3, <1>4 DEF Along

\* Two pieces of ledgers that have an entry of the same term at an index have the
\* same entries up to it.
LEMMA PiecesMatch ==
  ASSUME NEW g, Ledger(g), NEW L \in Log, NEW M \in Log, NEW t, NEW u,
         Along(g, L, t), Along(g, M, u),
         NEW k \in Indices(L) \cap Indices(M), termAt(L, k) = termAt(M, k),
         NEW j \in Held(L) \cap Held(M), j <= k
  PROVE  At(L, j) = At(M, j)
<1>1. t \in DOMAIN g /\ u \in DOMAIN g
  BY DEF Along
<1>2. /\ k \in Nat /\ k <= Len(g[t]) /\ k <= Len(g[u])
      /\ TermIn(g, t, k) = TermIn(g, u, k)
  <2>1. /\ k \in 0 .. Len(g[t]) /\ termAt(L, k) = TermIn(g, t, k)
        /\ k \in 0 .. Len(g[u]) /\ termAt(M, k) = TermIn(g, u, k)
    BY AlongTerms
  <2>2. Len(g[t]) \in Nat /\ Len(g[u]) \in Nat
    BY <1>1, LedgerBasics
  <2>3. k \in Nat /\ k <= Len(g[t]) /\ k <= Len(g[u])
    BY <2>1, <2>2
  <2>4. TermIn(g, t, k) = TermIn(g, u, k)
    BY <2>1
  <2> QED BY <2>3, <2>4
<1>3. Agree(g, t, u, k)
  BY <1>1, <1>2, SameTermAgrees
<1>4. j \in 1 .. k
  BY <1>2, LogBasics DEF Held
<1> QED BY <1>3, <1>4 DEF Along, Agree

(***************************************************************************)
(* How the ledger grows.                                                   *)
(***************************************************************************)
\* A ledger that still has all it had, and new entries that are rooted, is one.
LEMMA StillALedger ==
  ASSUME NEW g, Ledger(g), NEW h, GrowsTo(g, h),
         DOMAIN h \subseteq Nat, h[0] = <<>>,
         \A t \in DOMAIN h : h[t] \in Seq(Entry),
         \A t \in DOMAIN h \ {0} : Len(h[t]) > 0 /\ h[t][Len(h[t])].term = t,
         \A t \in DOMAIN h : \A k \in 1 .. Len(h[t]) :
           \/ t \in DOMAIN g /\ k <= Len(g[t])
           \/ Rooted(h, t, k)
  PROVE  Ledger(h)
<1>1. 0 \in DOMAIN h
  BY DEF Ledger, GrowsTo
<1>2. ASSUME NEW t \in DOMAIN g, NEW k \in 1 .. Len(g[t])
      PROVE  Rooted(h, t, k)
  <2>1. Len(g[t]) \in Nat /\ t \in Nat
    BY LedgerBasics
  <2>2. h[t][k] = g[t][k] /\ t \in DOMAIN h
    BY DEF GrowsTo
  <2> DEFINE u == g[t][k].term
  <2>3. u \in DOMAIN g /\ 0 < u /\ u <= t /\ Agree(g, t, u, k)
    BY DEF Ledger, Rooted
  <2> HIDE DEF u
  <2>4. Len(g[u]) \in Nat /\ Len(h[t]) \in Nat /\ Len(h[u]) \in Nat
    <3>1. u \in DOMAIN h
      BY <2>3 DEF GrowsTo
    <3> QED BY <2>2, <2>3, <3>1, LedgerBasics, LenProperties
  <2>5. Agree(h, t, u, k)
    <3>1. k <= Len(h[t]) /\ k <= Len(h[u])
      BY <2>1, <2>3, <2>4 DEF GrowsTo, Agree
    <3>2. ASSUME NEW j \in 1 .. k PROVE h[t][j] = h[u][j]
      <4>1. j \in 1 .. Len(g[t]) /\ j \in 1 .. Len(g[u]) /\ g[t][j] = g[u][j]
        BY <2>1, <2>3, <2>4 DEF Agree
      <4> QED BY <2>3, <4>1 DEF GrowsTo
    <3> QED BY <3>1, <3>2 DEF Agree
  <2> QED BY <2>2, <2>3, <2>5 DEF Rooted, GrowsTo, u
<1>3. ASSUME NEW t \in DOMAIN h, NEW k \in 1 .. Len(h[t])
      PROVE  Rooted(h, t, k)
  <2>1. CASE t \in DOMAIN g /\ k <= Len(g[t])
    <3>1. Len(g[t]) \in Nat
      BY <2>1, LedgerBasics
    <3>2. k \in 1 .. Len(g[t])
      BY <2>1, <3>1
    <3> QED BY <1>2, <2>1, <3>2
  <2>2. CASE Rooted(h, t, k)
    BY <2>2
  <2> QED BY <2>1, <2>2
<1> QED BY <1>1, <1>3 DEF Ledger

\* The leader of term T appends an entry of its own.
LEMMA LedgerExtends ==
  ASSUME NEW g, Ledger(g), NEW T \in DOMAIN g \ {0}, NEW x \in Entry, x.term = T,
         NEW h, h = [g EXCEPT ![T] = Append(@, x)]
  PROVE  /\ Ledger(h) /\ GrowsTo(g, h) /\ DOMAIN h = DOMAIN g
         /\ Len(h[T]) = Len(g[T]) + 1 /\ h[T][Len(g[T]) + 1] = x
<1>1. /\ DOMAIN h = DOMAIN g /\ h[T] = Append(g[T], x)
      /\ \A t \in DOMAIN g \ {T} : h[t] = g[t]
  OBVIOUS
<1>2. /\ g[T] \in Seq(Entry) /\ Len(g[T]) \in Nat /\ T \in Nat
      /\ \A t \in DOMAIN g : g[t] \in Seq(Entry) /\ Len(g[t]) \in Nat
  BY LedgerBasics
<1>3. /\ h[T] \in Seq(Entry) /\ Len(h[T]) = Len(g[T]) + 1
      /\ h[T][Len(g[T]) + 1] = x
      /\ \A k \in 1 .. Len(g[T]) : h[T][k] = g[T][k]
  BY <1>1, <1>2, AppendProperties
<1>4. GrowsTo(g, h)
  <2>1. ASSUME NEW t \in DOMAIN g
        PROVE  Len(g[t]) <= Len(h[t]) /\ \A k \in 1 .. Len(g[t]) : h[t][k] = g[t][k]
    <3>1. CASE t = T
      BY <1>2, <1>3, <3>1
    <3>2. CASE t # T
      BY <1>1, <1>2, <3>2
    <3> QED BY <3>1, <3>2
  <2> QED BY <1>1, <2>1 DEF GrowsTo
<1>5. DOMAIN h \subseteq Nat /\ h[0] = <<>>
  BY <1>1 DEF Ledger
<1>6. \A t \in DOMAIN h : h[t] \in Seq(Entry)
  BY <1>1, <1>2, <1>3
<1>7. \A t \in DOMAIN h \ {0} : Len(h[t]) > 0 /\ h[t][Len(h[t])].term = t
  BY <1>1, <1>2, <1>3 DEF Ledger
<1>8. \A t \in DOMAIN h : \A k \in 1 .. Len(h[t]) :
        (t \in DOMAIN g /\ k <= Len(g[t])) \/ Rooted(h, t, k)
  <2> SUFFICES ASSUME NEW t \in DOMAIN h, NEW k \in 1 .. Len(h[t]),
                      ~(t \in DOMAIN g /\ k <= Len(g[t]))
               PROVE  Rooted(h, t, k)
    OBVIOUS
  <2>1. t = T /\ k = Len(g[T]) + 1
    BY <1>1, <1>2, <1>3
  <2> QED BY <1>1, <1>2, <1>3, <2>1 DEF Rooted, Agree
<1>9. Ledger(h)
  BY <1>4, <1>5, <1>6, <1>7, <1>8, StillALedger
<1> QED BY <1>1, <1>3, <1>4, <1>9

\* A leader of a new term T starts with what one of an older term u had, up to n,
\* and an entry of its own.
LEMMA LedgerBegins ==
  ASSUME NEW g, Ledger(g), NEW T \in Nat \ DOMAIN g,
         NEW u \in DOMAIN g, u <= T, NEW n \in Nat, n <= Len(g[u]),
         NEW h, Continues(g, u, n, h, T), h[T] \in Seq(Entry), h[T][n + 1].term = T,
         DOMAIN h = DOMAIN g \cup {T}, \A t \in DOMAIN g : h[t] = g[t]
  PROVE  Ledger(h) /\ GrowsTo(g, h)
<1>1. /\ DOMAIN h = DOMAIN g \cup {T}
      /\ \A t \in DOMAIN g : h[t] = g[t]
  OBVIOUS
<1>2. /\ \A t \in DOMAIN g : t \in Nat /\ g[t] \in Seq(Entry) /\ Len(g[t]) \in Nat
      /\ 0 \in DOMAIN g /\ \A k \in 1 .. Len(g[u]) : g[u][k] \in Entry
  BY LedgerBasics DEF Ledger
<1>3. /\ h[T] \in Seq(Entry) /\ Len(h[T]) = n + 1 /\ h[T][n + 1].term = T
      /\ \A k \in 1 .. n : h[T][k] = g[u][k]
  BY DEF Continues
<1>4. GrowsTo(g, h)
  BY <1>1, <1>2 DEF GrowsTo
<1>5. DOMAIN h \subseteq Nat /\ h[0] = <<>>
  BY <1>1, <1>2 DEF Ledger
<1>6. \A t \in DOMAIN h : h[t] \in Seq(Entry)
  BY <1>1, <1>2, <1>3
<1>7. \A t \in DOMAIN h \ {0} : Len(h[t]) > 0 /\ h[t][Len(h[t])].term = t
  BY <1>1, <1>2, <1>3 DEF Ledger
<1>8. \A t \in DOMAIN h : \A k \in 1 .. Len(h[t]) :
        (t \in DOMAIN g /\ k <= Len(g[t])) \/ Rooted(h, t, k)
  <2>3. \A t \in DOMAIN g : \A k \in 1 .. Len(h[t]) : k <= Len(g[t])
    BY <1>1, <1>2
  <2> SUFFICES ASSUME NEW k \in 1 .. Len(h[T])
               PROVE  Rooted(h, T, k)
    BY <1>1, <2>3
  <2>1. CASE k = n + 1
    BY <1>1, <1>2, <1>3, <2>1 DEF Rooted, Agree
  <2>2. CASE k # n + 1
    <3>1. k \in 1 .. n /\ k \in 1 .. Len(g[u])
      BY <1>1, <1>2, <1>3, <2>2
    <3> DEFINE v == g[u][k].term
    <3>2. v \in DOMAIN g /\ 0 < v /\ v <= u /\ Agree(g, u, v, k)
      BY <3>1 DEF Ledger, Rooted
    <3>3. h[T][k].term = v
      BY <1>1, <1>3, <3>1
    <3> HIDE DEF v
    <3>4. Agree(h, T, v, k)
      BY <1>1, <1>2, <1>3, <3>1, <3>2 DEF Agree
    <3> QED BY <1>1, <1>2, <3>2, <3>3, <3>4 DEF Rooted
  <2> QED BY <2>1, <2>2
<1>9. Ledger(h)
  BY <1>4, <1>5, <1>6, <1>7, <1>8, StillALedger
<1> QED BY <1>4, <1>9

(***************************************************************************)
(* What the operations on logs make of a piece of a ledger.                *)
(***************************************************************************)
\* Cutting a log for a snapshot leaves a piece with the same end.
LEMMA CompactKeepsPiece ==
  ASSUME NEW g, Ledger(g), NEW t, NEW L \in Log, Along(g, L, t),
         NEW index \in Indices(L), NEW public \in Nat,
         NEW N \in Log, N = compact(L, index, public)
  PROVE  Along(g, N, t) /\ lastLogIndex(N) = lastLogIndex(L)
<1>1. /\ N.lastIncludedIndex = index /\ N.lastIncludedTerm = termAt(L, index)
      /\ lastLogIndex(N) = lastLogIndex(L) /\ At(N, index).term = termAt(L, index)
      /\ \A k \in (index + 1) .. lastLogIndex(L) : At(N, k) = At(L, k)
  BY CompactGives
<1>2. termAt(L, index) = TermIn(g, t, index)
  BY AlongTerms
<1>3. L.lastIncludedIndex \in Nat /\ lastLogIndex(L) \in Nat
  BY LogBasics
<1>4. \A k \in Held(N) : k \in Held(L) /\ At(N, k) = At(L, k)
  BY <1>1, <1>3 DEF Held, Indices
<1> QED BY <1>1, <1>2, <1>4 DEF Along

\* Installing a snapshot of what the leader of term T has keeps the log's end, if
\* the log has the snapshot's last entry, and leaves nothing but the snapshot if not.
LEMMA InstallLeavesPiece ==
  ASSUME NEW g, Ledger(g), NEW t, NEW L \in Log, Along(g, L, t),
         NEW T \in DOMAIN g, NEW index \in Nat, index <= Len(g[T]),
         NEW term \in Nat, term = TermIn(g, T, index), NEW public \in Nat,
         NEW N \in Log, N = install(L, index, term, public),
         NEW kept, kept = (index \in Indices(L) /\ At(L, index).term = term)
  PROVE  /\ N.lastIncludedIndex = index
         /\ kept => Along(g, N, t) /\ lastLogIndex(N) = lastLogIndex(L)
         /\ ~kept => Along(g, N, T) /\ lastLogIndex(N) = index
<1>1. /\ N.lastIncludedIndex = index /\ N.lastIncludedTerm = term /\ At(N, index).term = term
      /\ lastLogIndex(N) = IF kept THEN lastLogIndex(L) ELSE index
      /\ kept => \A k \in (index + 1) .. lastLogIndex(L) : At(N, k) = At(L, k)
  BY InstallGives
<1>2. L.lastIncludedIndex \in Nat /\ lastLogIndex(L) \in Nat
  BY LogBasics
<1>3. CASE kept
  <2>1. term = TermIn(g, t, index) /\ index \in Indices(L)
    BY <1>3, AlongTerms
  <2>2. \A k \in Held(N) : k \in Held(L) /\ At(N, k) = At(L, k)
    BY <1>1, <1>2, <1>3, <2>1 DEF Held, Indices
  <2> QED BY <1>1, <1>3, <2>1, <2>2 DEF Along
<1>4. CASE ~kept
  <2>1. Held(N) = {}
    BY <1>1, <1>4 DEF Held
  <2> QED BY <1>1, <1>4, <2>1 DEF Along
<1> QED BY <1>1, <1>3, <1>4

\* An entry appended to a piece of the ledger of term t makes a piece of that of
\* term T, if that continues with the entry.
LEMMA AppendMakesPiece ==
  ASSUME NEW g, Ledger(g), NEW t, NEW L \in Log, Along(g, L, t),
         NEW h, NEW T, Continues(g, t, lastLogIndex(L), h, T),
         NEW x \in Entry, x = h[T][lastLogIndex(L) + 1], NEW N \in Log, N = append(L, x)
  PROVE  Along(h, N, T) /\ lastLogIndex(N) = lastLogIndex(L) + 1
<1>0. /\ T \in DOMAIN h /\ Len(h[T]) = lastLogIndex(L) + 1
      /\ \A k \in 1 .. lastLogIndex(L) : h[T][k] = g[t][k]
  BY DEF Continues
<1>1. /\ SameStart(N, L) /\ lastLogIndex(N) = lastLogIndex(L) + 1
      /\ \A k \in Indices(L) : At(N, k) = At(L, k)
      /\ At(N, lastLogIndex(L) + 1) = x
  BY AppendGives
<1>2. /\ L.lastIncludedIndex \in Nat /\ lastLogIndex(L) \in Nat
      /\ L.lastIncludedIndex <= lastLogIndex(L)
  BY LogBasics
<1>3. At(N, L.lastIncludedIndex) = At(L, L.lastIncludedIndex)
  BY <1>1, <1>2 DEF Indices
<1>4. TermIn(h, T, L.lastIncludedIndex) = TermIn(g, t, L.lastIncludedIndex)
  BY <1>0, <1>2 DEF TermIn
<1>5. ASSUME NEW k \in Held(N)
      PROVE  At(N, k) = h[T][k]
  <2>1. CASE k = lastLogIndex(L) + 1
    BY <1>0, <1>1, <2>1
  <2>2. CASE k # lastLogIndex(L) + 1
    <3>1. k \in Held(L) /\ k \in Indices(L) /\ k \in 1 .. lastLogIndex(L)
      BY <1>1, <1>2, <2>2 DEF Held, Indices, SameStart
    <3> QED BY <1>0, <1>1, <3>1 DEF Along
  <2> QED BY <2>1, <2>2
<1> QED BY <1>0, <1>1, <1>2, <1>3, <1>4, <1>5 DEF Along, SameStart

\* The merge keeps a log that has all the entries of the request, and leaves one
\* that ends with them if not.
LEMMA MergeLeavesPiece ==
  ASSUME NEW g, Ledger(g), NEW t, NEW L \in Log, Along(g, L, t),
         NEW m \in EntriesRequest, EntriesFit(g, m),
         Consistent(L, m.prevLogIndex, m.prevLogTerm),
         NEW N \in Log, N = merge(L, m.prevLogIndex, m.entries),
         NEW kept, kept = (Acked(m) <= lastLogIndex(L) /\ Agree(g, t, m.term, Acked(m)))
  PROVE  /\ N.lastIncludedIndex = L.lastIncludedIndex
         /\ kept => N = L
         /\ ~kept => Along(g, N, m.term) /\ lastLogIndex(N) = Acked(m)
<1> DEFINE prev == m.prevLogIndex
           entries == m.entries
           T == m.term
<1>1. /\ prev \in Nat /\ entries \in Seq(Entry) /\ T \in DOMAIN g /\ Len(entries) \in Nat
      /\ prev + Len(entries) = Acked(m) /\ Acked(m) <= Len(g[T])
      /\ m.prevLogTerm = TermIn(g, T, prev)
      /\ \A i \in 1 .. Len(entries) : entries[i] = g[T][prev + i]
  BY LenProperties DEF EntriesRequest, EntriesFit, Acked
<1>2. /\ L.lastIncludedIndex \in Nat /\ lastLogIndex(L) \in Nat /\ t \in DOMAIN g
      /\ Len(g[t]) \in Nat /\ Len(g[T]) \in Nat /\ lastLogIndex(L) <= Len(g[t])
  BY <1>1, LogBasics, LedgerBasics DEF Along
<1>3. /\ prev \in Indices(L) /\ prev <= lastLogIndex(L) /\ L.lastIncludedIndex <= prev
      /\ At(L, prev).term = TermIn(g, T, prev)
  BY <1>1, <1>2 DEF Consistent, Indices
<1>4. N = merge(L, prev, entries)
  OBVIOUS
<1> HIDE DEF prev, entries, T
<1>5. Agree(g, t, T, prev)
  <2>1. TermIn(g, t, prev) = TermIn(g, T, prev)
    BY <1>3, AlongTerms
  <2>2. prev <= Len(g[t]) /\ prev <= Len(g[T])
    BY <1>1, <1>2, <1>3
  <2> QED BY <1>1, <1>2, <2>1, <2>2, SameTermAgrees
<1>6. ASSUME NEW i \in 1 .. Len(entries), HasTerm(L, prev, entries, i)
      PROVE  prev + i <= lastLogIndex(L) /\ Agree(g, t, T, prev + i)
  <2> DEFINE k == prev + i
  <2>1. k \in Nat /\ k # 0 /\ k <= lastLogIndex(L) /\ L.lastIncludedIndex <= k /\ k <= Len(g[t])
        /\ k <= Len(g[T])
    BY <1>1, <1>2, <1>3, <1>6 DEF HasTerm
  <2>2. At(L, k).term = g[T][k].term
    BY <1>1, <1>6 DEF HasTerm
  <2> HIDE DEF k
  <2>3. TermIn(g, t, k) = TermIn(g, T, k)
    <3>1. k \in Indices(L)
      BY <1>2, <2>1 DEF Indices
    <3>2. At(L, k).term = TermIn(g, t, k)
      BY <3>1, AlongTerms
    <3> QED BY <2>1, <2>2, <3>2 DEF TermIn
  <2>4. Agree(g, t, T, k)
    BY <1>1, <1>2, <2>1, <2>3, SameTermAgrees
  <2> QED BY <2>1, <2>4 DEF k
<1>7. CASE N = L /\ \A i \in 1 .. Len(entries) : HasTerm(L, prev, entries, i)
  <2>1. CASE Len(entries) = 0
    <3>1. Acked(m) = prev
      BY <1>1, <2>1
    <3> QED BY <1>3, <1>5, <1>7, <3>1 DEF T
  <2>2. CASE Len(entries) # 0
    <3>1. Len(entries) \in 1 .. Len(entries)
      BY <1>1, <2>2
    <3> QED BY <1>1, <1>6, <1>7, <3>1 DEF T
  <2> QED BY <2>1, <2>2
<1>8. ASSUME SameStart(N, L), lastLogIndex(N) = prev + Len(entries),
             NEW n \in 1 .. Len(entries),
             \A i \in 1 .. n - 1 : HasTerm(L, prev, entries, i),
             ~HasTerm(L, prev, entries, n),
             \A k \in L.lastIncludedIndex .. prev + n - 1 : At(N, k) = At(L, k),
             \A i \in n .. Len(entries) : At(N, prev + i) = entries[i]
      PROVE  ~kept /\ Along(g, N, T)
  <2>1. ~kept
    <3> DEFINE k == prev + n
    <3> SUFFICES ASSUME Acked(m) <= lastLogIndex(L), Agree(g, t, T, Acked(m))
                 PROVE  HasTerm(L, prev, entries, n)
      BY <1>8 DEF T
    <3>1. k \in Nat /\ k # 0 /\ k <= lastLogIndex(L) /\ k \in Indices(L) /\ k \in 1 .. Acked(m)
      BY <1>1, <1>2, <1>3 DEF Indices
    <3>2. entries[n] = g[T][k]
      BY <1>1
    <3> HIDE DEF k
    <3>3. At(L, k).term = g[t][k].term
      BY <3>1, AlongTerms DEF TermIn
    <3>4. g[t][k] = g[T][k]
      BY <3>1 DEF Agree
    <3> QED BY <3>1, <3>2, <3>3, <3>4 DEF HasTerm, k
  <2>2. Agree(g, t, T, prev + n - 1)
    <3>1. CASE n = 1
      <4>1. prev + n - 1 = prev
        BY <1>1, <3>1
      <4> QED BY <1>5, <4>1
    <3>2. CASE n # 1
      <4>1. n - 1 \in 1 .. Len(entries) /\ HasTerm(L, prev, entries, n - 1)
        BY <1>1, <1>8, <3>2
      <4>2. prev + (n - 1) = prev + n - 1
        BY <1>1
      <4> QED BY <1>6, <4>1, <4>2
    <3> QED BY <3>1, <3>2
  <2> DEFINE last == prev + n - 1
  <2>3. last \in Nat /\ prev <= last
    BY <1>1
  <2>4. /\ \A k \in L.lastIncludedIndex .. last : At(N, k) = At(L, k)
        /\ \A j \in 1 .. last : g[t][j] = g[T][j]
    BY <1>8, <2>2 DEF Agree
  <2> HIDE DEF last
  <2>5. N.lastIncludedTerm = TermIn(g, T, N.lastIncludedIndex)
    <3>1. TermIn(g, t, L.lastIncludedIndex) = TermIn(g, T, L.lastIncludedIndex)
      BY <1>1, <1>2, <1>3, <2>3, <2>4 DEF TermIn
    <3> QED BY <1>8, <3>1 DEF Along, SameStart
  <2>6. At(N, N.lastIncludedIndex).term = N.lastIncludedTerm
    <3>1. L.lastIncludedIndex \in L.lastIncludedIndex .. last
      BY <1>1, <1>2, <1>3, <2>3
    <3>2. At(N, L.lastIncludedIndex) = At(L, L.lastIncludedIndex)
      BY <2>4, <3>1
    <3> QED BY <1>8, <3>2 DEF Along, SameStart
  <2>7. ASSUME NEW k \in Held(N)
        PROVE  At(N, k) = g[T][k]
    <3>1. CASE k <= last
      <4>1. k \in L.lastIncludedIndex .. last /\ k \in 1 .. last
        BY <1>2, <1>8, <3>1 DEF Held, SameStart
      <4>2. k \in Held(L)
        <5>1. last <= lastLogIndex(L)
          <6>1. CASE n = 1
            BY <1>1, <1>3, <6>1 DEF last
          <6>2. CASE n # 1
            <7>1. n - 1 \in 1 .. Len(entries) /\ HasTerm(L, prev, entries, n - 1)
              BY <1>1, <1>8, <6>2
            <7>2. prev + (n - 1) = prev + n - 1
              BY <1>1
            <7> QED BY <1>6, <7>1, <7>2 DEF last
          <6> QED BY <6>1, <6>2
        <5> QED BY <1>2, <1>8, <2>3, <4>1, <5>1 DEF Held, SameStart
      <4> QED BY <2>4, <4>1, <4>2 DEF Along
    <3>2. CASE ~(k <= last)
      <4> DEFINE i == k - prev
      <4>1. i \in n .. Len(entries) /\ k = prev + i
        BY <1>1, <1>2, <1>8, <3>2 DEF Held, SameStart, last
      <4>2. i \in 1 .. Len(entries)
        BY <4>1
      <4> HIDE DEF i
      <4> QED BY <1>1, <1>8, <4>1, <4>2
    <3> QED BY <3>1, <3>2
  <2>8. lastLogIndex(N) <= Len(g[T])
    BY <1>1, <1>8
  <2> QED BY <1>1, <2>1, <2>5, <2>6, <2>7, <2>8 DEF Along
<1>9. \/ N = L /\ \A i \in 1 .. Len(entries) : HasTerm(L, prev, entries, i)
      \/ /\ SameStart(N, L) /\ lastLogIndex(N) = prev + Len(entries)
         /\ ~kept /\ Along(g, N, T)
  BY <1>1, <1>3, <1>4, <1>8, MergeGives
<1> QED BY <1>1, <1>7, <1>9 DEF SameStart, T

(***************************************************************************)
(* The steps.                                                              *)
(***************************************************************************)
\* A step that makes no leader and appends nothing to a leader's log.
Conserves ==
  /\ UNCHANGED <<elected, ledger>> /\ TermsKept
  /\ \A s \in Server : state'[s] = "Leader" =>
       /\ state[s] = "Leader" /\ currentTerm'[s] = currentTerm[s]
       /\ lastLogTerm(log'[s]) = lastLogTerm(log[s])
       /\ lastLogIndex(log'[s]) = lastLogIndex(log[s])
  /\ \A s \in Server :
       state'[s] = "Candidate" => state[s] = "Candidate" \/ currentTerm'[s] > currentTerm[s]
  /\ \A s \in Server : Fits(ledger, log'[s], currentTerm'[s])
  /\ \A m \in msgs' : m \in msgs \/ RequestFits(m)'

\* Such a step keeps the logs pieces of the ledger.
LEMMA ConservesMatching ==
  ASSUME TypeOK, TypeOK', Matching, Conserves
  PROVE  Matching'
<1>1. /\ \A s \in Server : /\ currentTerm[s] \in Nat /\ currentTerm'[s] \in Nat
                           /\ currentTerm[s] <= currentTerm'[s]
      /\ \A e \in elected : e.leader \in Server /\ e.term \in Nat
      /\ \A m \in msgs : m.from \in Server /\ m.term \in Nat
      /\ ledger' = ledger /\ elected' = elected
  BY RequestTypes DEF TypeOK, Conserves, TermsKept
<1>2. LedgerOK'
  BY <1>1 DEF Matching, LedgerOK
<1>3. \A s \in Server : currentTerm'[s] >= 1 /\ Fits(ledger', log'[s], currentTerm'[s])
  BY <1>1 DEF Matching, Conserves
<1>4. ASSUME NEW s \in Server, state'[s] = "Leader"
      PROVE  Leads(s)'
  BY <1>1, <1>4 DEF Matching, Conserves, Leads, Elected
<1>5. ASSUME NEW e \in elected
      PROVE  NotAsking(e)'
  BY <1>1 DEF Matching, Conserves, NotAsking
<1>6. ASSUME NEW m \in msgs
      PROVE  RequestFits(m)'
  <2>1. RequestFits(m)
    BY DEF Matching
  <2>2. m.term <= currentTerm'[m.from]
    BY <1>1, <2>1 DEF RequestFits
  <2> QED BY <1>1, <2>1, <2>2 DEF RequestFits, Elected
<1> QED BY <1>1, <1>2, <1>3, <1>4, <1>5, <1>6 DEF Matching, Conserves

\* A step of one server that sends nothing and leaves it a log it may have, as a
\* leader only if it was one.
LEMMA OneServerMatching ==
  ASSUME TypeOK, TypeOK', Matching, TermsKept, NEW s \in Server,
         UNCHANGED <<elected, ledger, msgs>>,
         \A x \in Server \ {s} :
           currentTerm'[x] = currentTerm[x] /\ state'[x] = state[x] /\ log'[x] = log[x],
         state'[s] = "Leader" =>
           /\ state[s] = "Leader" /\ currentTerm'[s] = currentTerm[s]
           /\ lastLogTerm(log'[s]) = lastLogTerm(log[s])
           /\ lastLogIndex(log'[s]) = lastLogIndex(log[s]),
         state'[s] = "Candidate" => state[s] = "Candidate" \/ currentTerm'[s] > currentTerm[s],
         Fits(ledger, log'[s], currentTerm'[s])
  PROVE  Matching'
<1>1. \A x \in Server : Fits(ledger, log'[x], currentTerm'[x])
  BY DEF Matching
<1>2. Conserves
  BY <1>1 DEF Conserves
<1> QED BY <1>2, ConservesMatching

\* A server whose log stays fits its log in a newer term too.
LEMMA FitsLater ==
  ASSUME TypeOK, TypeOK', Matching, TermsKept, NEW s \in Server, log'[s] = log[s]
  PROVE  Fits(ledger, log'[s], currentTerm'[s])
<1>1. /\ currentTerm[s] \in Nat /\ currentTerm'[s] \in Nat /\ currentTerm[s] <= currentTerm'[s]
      /\ lastLogTerm(log[s]) \in Nat
  BY LogBasics DEF TypeOK, TermsKept
<1> QED BY <1>1 DEF Matching, Fits

\* A step after which every log, state and term is as before, that sends nothing.
LEMMA QuietMatching ==
  ASSUME TypeOK, TypeOK', Matching,
         UNCHANGED <<currentTerm, state, log, elected, ledger, msgs>>
  PROVE  Matching'
<1>1. Conserves
  <2>1. TermsKept
    BY DEF TermsKept, TypeOK
  <2> QED BY <2>1 DEF Conserves, Matching
<1> QED BY <1>1, ConservesMatching

\* Turning follower, or candidate of a new term, with the log as it was.
LEMMA TurnMatching ==
  ASSUME TypeOK, TypeOK', Matching, TermsKept, NEW s \in Server,
         UNCHANGED <<log, elected, ledger, msgs>>,
         \A x \in Server \ {s} : currentTerm'[x] = currentTerm[x] /\ state'[x] = state[x],
         \/ state'[s] = "Follower"
         \/ state'[s] = "Candidate" /\ currentTerm'[s] > currentTerm[s]
         \/ state'[s] = state[s] /\ currentTerm'[s] = currentTerm[s]
  PROVE  Matching'
<1>1. Fits(ledger, log'[s], currentTerm'[s])
  BY FitsLater
<1> QED BY <1>1, OneServerMatching

\* The server of a term's log.
LEMMA LogOfServer ==
  ASSUME TypeOK, Matching, NEW s \in Server
  PROVE  /\ log[s] \in Log /\ Ledger(ledger) /\ currentTerm[s] \in Nat
         /\ Along(ledger, log[s], lastLogTerm(log[s]))
         /\ lastLogTerm(log[s]) \in DOMAIN ledger
         /\ lastLogTerm(log[s]) \in Nat /\ lastLogTerm(log[s]) <= currentTerm[s]
BY LogBasics DEF TypeOK, Matching, Fits, Along, LedgerOK

\* The steps of one server other than a leader's appending.
LEMMA ServerStepMatching ==
  ASSUME TypeOK, TypeOK', PersistedIsCurrent, Matching, TermsKept, NEW s \in Server,
         \/ StartElection(s) \/ TallyVotes(s) \/ InitLeader(s) \/ CheckCommit(s)
         \/ ApplyCheck(s) \/ ApplyNext(s) \/ ReceiveCommand(s) \/ ReceiveSnapshot(s)
         \/ Snapshot(s) \/ Restart(s)
  PROVE  Matching'
<1>1. CASE StartElection(s)
  <2>1. /\ UNCHANGED <<log, elected, ledger, msgs>> /\ state'[s] = "Candidate"
        /\ currentTerm'[s] > currentTerm[s]
        /\ \A x \in Server \ {s} : currentTerm'[x] = currentTerm[x] /\ state'[x] = state[x]
    BY <1>1 DEF StartElection, TypeOK
  <2> QED BY <2>1, TurnMatching
<1>2. CASE \/ TallyVotes(s) \/ InitLeader(s) \/ CheckCommit(s)
           \/ ApplyCheck(s) \/ ApplyNext(s) \/ ReceiveCommand(s) \/ ReceiveSnapshot(s)
  <2>1. UNCHANGED <<currentTerm, state, log, elected, ledger, msgs>>
    BY <1>2, Zenon DEF TallyVotes, InitLeader, CheckCommit, ApplyCheck, ApplyNext, ReceiveCommand,
       ReceiveSnapshot, ServiceUnchanged, electionVars, votingVars
  <2> QED BY <2>1, QuietMatching
<1>3. CASE Snapshot(s)
  <2> DEFINE real == publicToRealIndex(log[s], service[s].index)
             N == compact(log[s], real, service[s].index)
  <2>1. /\ log' = [log EXCEPT ![s] = N] /\ real # NotFound
        /\ UNCHANGED <<currentTerm, state, elected, ledger, msgs>>
    BY <1>3 DEF Snapshot, ServiceUnchanged, electionVars, votingVars
  <2>2. service[s].index \in Nat /\ log[s] \in Log
    BY DEF TypeOK, Snap
  <2>3. real \in Indices(log[s])
    BY <2>1, <2>2, RealIndexType
  <2> HIDE DEF real
  <2>4. N \in Log
    BY <2>2, <2>3, CompactType
  <2>5. /\ log'[s] = N /\ \A x \in Server \ {s} : log'[x] = log[x]
    BY <2>1 DEF TypeOK
  <2>6. Along(ledger, N, lastLogTerm(log[s])) /\ lastLogIndex(N) = lastLogIndex(log[s])
    BY <2>2, <2>3, <2>4, LogOfServer, CompactKeepsPiece
  <2> HIDE DEF N
  <2>7. /\ Fits(ledger, N, currentTerm[s])
        /\ lastLogTerm(N) = TermIn(ledger, lastLogTerm(log[s]), lastLogIndex(log[s]))
        /\ lastLogTerm(log[s]) = TermIn(ledger, lastLogTerm(log[s]), lastLogIndex(log[s]))
    BY <2>4, <2>6, LogOfServer, AlongFits
  <2> QED BY <2>1, <2>5, <2>6, <2>7, OneServerMatching
<1>4. CASE Restart(s)
  <2>1. /\ UNCHANGED <<elected, ledger, msgs>> /\ state'[s] = "Follower"
        /\ log'[s] = log[s]
        /\ \A x \in Server \ {s} :
             currentTerm'[x] = currentTerm[x] /\ state'[x] = state[x] /\ log'[x] = log[x]
    BY <1>4 DEF Restart, Boot, PersistedIsCurrent, TypeOK
  <2>2. Fits(ledger, log'[s], currentTerm'[s])
    BY <2>1, FitsLater
  <2> QED BY <2>1, <2>2, OneServerMatching
<1> QED BY <1>1, <1>2, <1>3, <1>4

\* A step that sends a fitting request and nothing else.
LEMMA SendMatching ==
  ASSUME TypeOK, TypeOK', Matching, UNCHANGED <<currentTerm, state, log, elected, ledger>>,
         NEW m, msgs' = msgs \cup {m}, RequestFits(m)
  PROVE  Matching'
<1>1. RequestFits(m)'
  BY DEF RequestFits, Elected, EntriesFit, SnapshotFits
<1>2. TermsKept
  BY DEF TermsKept, TypeOK
<1>3. Conserves
  BY <1>1, <1>2 DEF Conserves, Matching
<1> QED BY <1>3, ConservesMatching

\* A leader's request carries a piece of its ledger.
LEMMA LeaderRequests ==
  ASSUME TypeOK, Matching, NEW s \in Server, NEW i \in Others(s), state[s] = "Leader",
         NEW m, m.from = s, m.to = i, m.term = currentTerm[s],
         \/ /\ m.type = "InstallSnapshot"
            /\ m.lastIncludedIndex = log[s].lastIncludedIndex
            /\ m.lastIncludedTerm = log[s].lastIncludedTerm
         \/ /\ m.type = "AppendEntries" /\ m.prevLogIndex \in Indices(log[s])
            /\ m.prevLogTerm = At(log[s], m.prevLogIndex).term
            /\ m.entries = After(log[s], m.prevLogIndex)
  PROVE  RequestFits(m)
<1> DEFINE L == log[s]
           T == currentTerm[s]
<1>1. /\ L \in Log /\ Ledger(ledger) /\ T \in Nat /\ T >= 1
      /\ Along(ledger, L, T) /\ Elected(s, T) /\ lastLogIndex(L) = Len(ledger[T])
      /\ T \in DOMAIN ledger \ {0}
  <2>1. Leads(s) /\ currentTerm[s] >= 1
    BY DEF Matching
  <2> QED BY <2>1, LogOfServer DEF Leads
<1>2. /\ Len(ledger[T]) \in Nat /\ Len(ledger[T]) > 0
      /\ TermIn(ledger, T, Len(ledger[T])) = T
  BY <1>1, LedgerBasics DEF Ledger, TermIn
<1>3. L.lastIncludedIndex \in Nat /\ L.lastIncludedIndex <= lastLogIndex(L)
  BY <1>1, LogBasics
<1>4. m.from # m.to /\ m.term <= currentTerm[m.from] /\ Elected(m.from, m.term)
  BY <1>1 DEF Others
<1> HIDE DEF L, T
<1>5. m.term = T
  BY DEF T
<1>6. CASE m.type = "InstallSnapshot"
  <2>1. m.lastIncludedIndex = L.lastIncludedIndex /\ m.lastIncludedTerm = L.lastIncludedTerm
    BY <1>6 DEF L
  <2>2. SnapshotFits(ledger, m)
    BY <1>1, <1>2, <1>3, <1>5, <2>1 DEF SnapshotFits, Along
  <2> QED BY <1>4, <1>6, <2>2 DEF RequestFits
<1>7. CASE m.type = "AppendEntries"
  <2> DEFINE prev == m.prevLogIndex
  <2>1. /\ prev \in Indices(L) /\ m.prevLogTerm = At(L, prev).term
        /\ m.entries = After(L, prev)
    BY <1>7 DEF L
  <2> HIDE DEF prev
  <2>2. prev \in Nat /\ prev <= lastLogIndex(L) /\ L.lastIncludedIndex <= prev
    BY <1>1, <1>2, <1>3, <2>1 DEF Indices
  <2>3. /\ Len(m.entries) = lastLogIndex(L) - prev
        /\ \A j \in 1 .. Len(m.entries) : m.entries[j] = At(L, prev + j)
    BY <1>1, <2>1, AfterGives
  <2>4. Acked(m) = lastLogIndex(L)
    BY <1>1, <1>2, <2>2, <2>3 DEF Acked, prev
  <2>5. \A j \in 1 .. Len(m.entries) : m.entries[j] = ledger[T][prev + j]
    <3> SUFFICES ASSUME NEW j \in 1 .. Len(m.entries)
                 PROVE  m.entries[j] = ledger[T][prev + j]
      OBVIOUS
    <3>1. prev + j \in Held(L)
      BY <1>1, <1>2, <1>3, <2>2, <2>3 DEF Held
    <3> QED BY <1>1, <2>3, <3>1 DEF Along
  <2>6. m.prevLogTerm = TermIn(ledger, T, prev)
    BY <1>1, <2>1, AlongTerms
  <2>7. EntriesFit(ledger, m)
    BY <1>1, <1>2, <1>5, <2>4, <2>5, <2>6 DEF EntriesFit, prev
  <2> QED BY <1>4, <1>7, <2>7 DEF RequestFits
<1> QED BY <1>6, <1>7

\* Turning follower changes one server.
LEMMA AdoptTermGives ==
  ASSUME TypeOK, NEW s \in Server, NEW term, NEW vote, AdoptTerm(s, term, vote)
  PROVE  /\ state'[s] = "Follower" /\ currentTerm'[s] = term
         /\ \A x \in Server \ {s} : currentTerm'[x] = currentTerm[x] /\ state'[x] = state[x]
BY DEF AdoptTerm, TypeOK

\* The steps of the goroutine a server runs for a peer.
LEMMA PeerStepMatching ==
  ASSUME TypeOK, TypeOK', Matching, TermsKept, NEW s \in Server, NEW i \in Others(s),
         PeerStep(s, i)
  PROVE  Matching'
<1>0. i \in Server /\ i # s
  BY DEF Others
<1>1. CASE SendRequest(s, i)
  <2> DEFINE m == [type |-> "RequestVote", from |-> s, to |-> i,
                   term |-> currentTerm[s],
                   lastLogIndex |-> lastLogIndex(log[s]),
                   lastLogTerm |-> lastLogTerm(log[s])]
  <2>1. /\ msgs' = msgs \cup {m}
        /\ UNCHANGED <<currentTerm, state, log, elected, ledger>>
    BY <1>1 DEF SendRequest
  <2>2. m.type = "RequestVote" /\ m.from = s /\ m.to = i /\ m.term = currentTerm[s]
    OBVIOUS
  <2> HIDE DEF m
  <2>3. RequestFits(m)
    BY <1>0, <2>2 DEF RequestFits, TypeOK
  <2> QED BY <2>1, <2>3, SendMatching
<1>2. CASE SendSnapshot(s, i) \/ SendEntries(s, i)
  <2>1. ASSUME NEW m, Sending(s, i, m), RequestFits(m)
        PROVE  Matching'
    <3>1. msgs' = msgs \cup {m} /\ UNCHANGED <<currentTerm, state, log, elected, ledger>>
      BY <2>1 DEF Sending, electionVars, votingVars
    <3> QED BY <2>1, <3>1, SendMatching
  <2>2. CASE SendSnapshot(s, i)
    <3> DEFINE m == [type |-> "InstallSnapshot", from |-> s, to |-> i, term |-> currentTerm[s],
                     lastIncludedIndex |-> log[s].lastIncludedIndex,
                     lastIncludedTerm |-> log[s].lastIncludedTerm,
                     lastIncludedPublicIndex |-> log[s].lastIncludedPublicIndex,
                     data |-> persisted[s].snapshot]
    <3>1. Sending(s, i, m)
      BY <2>2 DEF SendSnapshot
    <3>2. /\ m.type = "InstallSnapshot" /\ m.from = s /\ m.to = i /\ m.term = currentTerm[s]
          /\ m.lastIncludedIndex = log[s].lastIncludedIndex
          /\ m.lastIncludedTerm = log[s].lastIncludedTerm
      OBVIOUS
    <3> HIDE DEF m
    <3>3. state[s] = "Leader"
      BY <3>1 DEF Sending
    <3>4. RequestFits(m)
      BY <3>2, <3>3, LeaderRequests
    <3> QED BY <2>1, <3>1, <3>4
  <2>3. CASE SendEntries(s, i)
    <3> DEFINE prev == nextIndex[s][i] - 1
               m == [type |-> "AppendEntries", from |-> s, to |-> i, term |-> currentTerm[s],
                     prevLogIndex |-> prev,
                     prevLogTerm |-> At(log[s], prev).term,
                     entries |-> EntriesFrom(log[s], prev + 1),
                     leaderCommit |-> commitIndex[s]]
    <3>1. Sending(s, i, m) /\ prev \in Indices(log[s])
      BY <2>3 DEF SendEntries
    <3>2. EntriesFrom(log[s], prev + 1) = After(log[s], prev)
      <4>1. prev \in Int /\ log[s].lastIncludedIndex \in Int
        <5>1. nextIndex[s][i] \in Int /\ log[s] \in Log
          BY <1>0 DEF TypeOK
        <5> QED BY <5>1, LogBasics
      <4>2. (prev + 1) - log[s].lastIncludedIndex + 1 = prev - log[s].lastIncludedIndex + 2
        BY <4>1
      <4> HIDE DEF prev
      <4> QED BY <4>2 DEF EntriesFrom, After
    <3>3. /\ m.type = "AppendEntries" /\ m.from = s /\ m.to = i /\ m.term = currentTerm[s]
          /\ m.prevLogIndex \in Indices(log[s])
          /\ m.prevLogTerm = At(log[s], m.prevLogIndex).term
          /\ m.entries = After(log[s], m.prevLogIndex)
      BY <3>1, <3>2
    <3> HIDE DEF m
    <3>4. state[s] = "Leader"
      BY <3>1 DEF Sending
    <3>5. RequestFits(m)
      BY <3>3, <3>4, LeaderRequests
    <3> QED BY <2>1, <3>1, <3>5
  <2> QED BY <1>2, <2>2, <2>3
<1>3. CASE HandleRequestVoteReply(s, i) \/ LeaderStepsDown(s, i)
  <2>1. UNCHANGED <<log, elected, ledger, msgs>>
    BY <1>3 DEF HandleRequestVoteReply, LeaderStepsDown, electionVars, votingVars
  <2>2. \/ UNCHANGED <<currentTerm, state>>
        \/ \E term : AdoptTerm(s, term, Nil)
    BY <1>3, Zenon DEF HandleRequestVoteReply, LeaderStepsDown
  <2>3. /\ \A x \in Server \ {s} : currentTerm'[x] = currentTerm[x] /\ state'[x] = state[x]
        /\ \/ state'[s] = "Follower"
           \/ state'[s] = state[s] /\ currentTerm'[s] = currentTerm[s]
    <3>1. CASE UNCHANGED <<currentTerm, state>>
      BY <3>1
    <3>2. CASE \E term : AdoptTerm(s, term, Nil)
      <4>1. PICK term : AdoptTerm(s, term, Nil)
        BY <3>2
      <4> QED BY <4>1, AdoptTermGives
    <3> QED BY <2>2, <3>1, <3>2
  <2> QED BY <2>1, <2>3, TurnMatching
<1>4. CASE HandleRejection(s, i) \/ HandleSuccess(s, i) \/ HandleInstallSnapshotReply(s, i)
  <2>1. UNCHANGED <<currentTerm, state, log, elected, ledger, msgs>>
    BY <1>4 DEF HandleRejection, HandleSuccess, HandleInstallSnapshotReply, ReplyUnchanged,
                electionVars, votingVars
  <2> QED BY <2>1, QuietMatching
<1> QED BY <1>1, <1>2, <1>3, <1>4 DEF PeerStep

\* A request for a vote.
LEMMA RequestVoteMatching ==
  ASSUME TypeOK, TypeOK', Matching, TermsKept, NEW m \in msgs, RequestVote(m)
  PROVE  Matching'
<1>1. m.to \in Server
  BY RequestTypes DEF TypeOK
<1>2. UNCHANGED <<log, elected, ledger, msgs>>
  BY DEF RequestVote, VoteInNewTerm, VoteAgain, VoteInCurrentTerm, RefuseVote, VoteUnchanged
<1>3. \/ UNCHANGED <<currentTerm, state>>
      \/ \E vote : AdoptTerm(m.to, m.term, vote)
      \/ UNCHANGED currentTerm /\ state' = [state EXCEPT ![m.to] = "Follower"]
  BY Zenon DEF RequestVote, VoteInNewTerm, VoteAgain, VoteInCurrentTerm, RefuseVote
<1>4. /\ \A x \in Server \ {m.to} : currentTerm'[x] = currentTerm[x] /\ state'[x] = state[x]
      /\ \/ state'[m.to] = "Follower"
         \/ state'[m.to] = state[m.to] /\ currentTerm'[m.to] = currentTerm[m.to]
  BY <1>1, <1>3 DEF AdoptTerm, TypeOK
<1> QED BY <1>1, <1>2, <1>4, TurnMatching

\* A leader's request for entries.
LEMMA AppendEntriesMatching ==
  ASSUME TypeOK, TypeOK', Matching, TermsKept, NEW m \in msgs, AppendEntries(m)
  PROVE  Matching'
<1>1. m.to \in Server /\ m.term \in Nat /\ m \in EntriesRequest
  BY RequestTypes DEF TypeOK, AppendEntries
<1>2. UNCHANGED <<elected, ledger, msgs>>
  BY DEF AppendEntries, StaleAppendEntries, AppendEntriesToLeader, RejectEntries,
         AcceptEntries, EntriesUnchanged, electionVars, votingVars
<1>3. CASE StaleAppendEntries(m)
  <2>1. UNCHANGED <<currentTerm, state, log>>
    BY <1>3 DEF StaleAppendEntries
  <2> QED BY <1>2, <2>1, QuietMatching
<1>4. ASSUME Follow(m)
      PROVE  /\ state'[m.to] = "Follower" /\ currentTerm'[m.to] = m.term
             /\ \A x \in Server \ {m.to} :
                  currentTerm'[x] = currentTerm[x] /\ state'[x] = state[x]
  BY <1>1, <1>4 DEF Follow, AdoptTerm, TypeOK
<1>5. CASE AppendEntriesToLeader(m) \/ RejectEntries(m)
  <2>1. Follow(m) /\ UNCHANGED log
    BY <1>5 DEF AppendEntriesToLeader, RejectEntries
  <2> QED BY <1>1, <1>2, <1>4, <2>1, TurnMatching
<1>6. CASE AcceptEntries(m)
  <2> DEFINE L == log[m.to]
             t == lastLogTerm(log[m.to])
             N == merge(log[m.to], m.prevLogIndex, m.entries)
             kept == Acked(m) <= lastLogIndex(L) /\ Agree(ledger, t, m.term, Acked(m))
  <2>1. /\ Follow(m) /\ log' = [log EXCEPT ![m.to] = N] /\ m.term >= currentTerm[m.to]
        /\ Consistent(L, m.prevLogIndex, m.prevLogTerm)
    BY <1>6 DEF AcceptEntries
  <2>2. /\ L \in Log /\ Ledger(ledger) /\ Along(ledger, L, t) /\ t \in Nat /\ t <= m.term
        /\ t \in DOMAIN ledger
    <3>1. currentTerm[m.to] \in Nat /\ t <= currentTerm[m.to] /\ t \in Nat
      BY <1>1, LogOfServer
    <3> QED BY <1>1, <2>1, <3>1, LogOfServer
  <2>3. EntriesFit(ledger, m)
    BY DEF Matching, RequestFits, AppendEntries
  <2>4. log'[m.to] = N /\ \A x \in Server \ {m.to} : log'[x] = log[x]
    BY <1>1, <2>1 DEF TypeOK
  <2>5. N \in Log
    BY <1>1, <2>4 DEF TypeOK
  <2> HIDE DEF L, t, N, kept
  <2>6. /\ kept => N = L
        /\ ~kept => Along(ledger, N, m.term)
    <3>1. N = merge(L, m.prevLogIndex, m.entries)
      BY DEF N, L
    <3>2. kept = (Acked(m) <= lastLogIndex(L) /\ Agree(ledger, t, m.term, Acked(m)))
      BY DEF kept
    <3> QED BY <1>1, <2>1, <2>2, <2>3, <2>5, <3>1, <3>2, MergeLeavesPiece
  <2>7. Fits(ledger, N, m.term)
    <3>1. CASE kept
      BY <1>1, <2>2, <2>5, <2>6, <3>1, AlongFits
    <3>2. CASE ~kept
      BY <1>1, <2>2, <2>5, <2>6, <3>2, AlongFits
    <3> QED BY <3>1, <3>2
  <2> QED BY <1>1, <1>2, <1>4, <2>1, <2>4, <2>7, OneServerMatching
<1> QED BY <1>3, <1>5, <1>6 DEF AppendEntries

\* A leader's request to install a snapshot: it never comes to the leader of its term.
LEMMA InstallSnapshotMatching ==
  ASSUME TypeOK, TypeOK', Matching, TermsKept, ElectionSafety, NEW m \in msgs,
         InstallSnapshot(m)
  PROVE  Matching'
<1>1. m.to \in Server /\ m.term \in Nat /\ m \in SnapshotRequest
  BY RequestTypes DEF TypeOK, InstallSnapshot
<1>2. UNCHANGED <<elected, ledger, msgs>>
  BY DEF InstallSnapshot, electionVars, votingVars
<1>3. ASSUME m.term >= currentTerm[m.to], AcceptSnapshotTerm(m)
      PROVE  /\ \/ state'[m.to] = "Follower"
                \/ state'[m.to] = state[m.to] /\ currentTerm'[m.to] = currentTerm[m.to]
             /\ currentTerm'[m.to] = m.term /\ state'[m.to] # "Leader"
             /\ \A x \in Server \ {m.to} :
                  currentTerm'[x] = currentTerm[x] /\ state'[x] = state[x]
  <2>1. CASE currentTerm[m.to] < m.term
    BY <1>1, <1>3, <2>1 DEF AcceptSnapshotTerm, AdoptTerm, TypeOK
  <2>2. CASE ~(currentTerm[m.to] < m.term)
    <3>1. currentTerm[m.to] = m.term
      <4>1. currentTerm[m.to] \in Nat
        BY <1>1 DEF TypeOK
      <4> QED BY <1>1, <1>3, <2>2, <4>1
    <3>2. state[m.to] # "Leader"
      <4> SUFFICES ASSUME state[m.to] = "Leader" PROVE FALSE
        OBVIOUS
      <4>1. Elected(m.to, m.term)
        BY <1>1, <3>1 DEF Matching, Leads
      <4>2. Elected(m.from, m.term) /\ m.from # m.to
        BY DEF Matching, RequestFits, InstallSnapshot
      <4> QED BY <4>1, <4>2 DEF Elected, ElectionSafety
    <3> QED BY <1>3, <2>2, <3>1, <3>2 DEF AcceptSnapshotTerm
  <2> QED BY <2>1, <2>2
<1>4. CASE RefuseSnapshot(m)
  <2>1. UNCHANGED <<currentTerm, state, log>>
    BY <1>4 DEF RefuseSnapshot
  <2> QED BY <1>2, <2>1, QuietMatching
<1>5. CASE IgnoreOldSnapshot(m)
  <2>1. m.term >= currentTerm[m.to] /\ AcceptSnapshotTerm(m) /\ UNCHANGED log
    BY <1>5 DEF IgnoreOldSnapshot
  <2> QED BY <1>1, <1>2, <1>3, <2>1, TurnMatching
<1>6. CASE InstallNewSnapshot(m)
  <2> DEFINE L == log[m.to]
             t == lastLogTerm(log[m.to])
             index == m.lastIncludedIndex
             term == m.lastIncludedTerm
             public == m.lastIncludedPublicIndex
             N == install(log[m.to], m.lastIncludedIndex, m.lastIncludedTerm,
                          m.lastIncludedPublicIndex)
             kept == index \in Indices(L) /\ At(L, index).term = term
  <2>1. /\ AcceptSnapshotTerm(m) /\ log' = [log EXCEPT ![m.to] = N]
        /\ m.term >= currentTerm[m.to]
    BY <1>6 DEF InstallNewSnapshot
  <2>2. /\ L \in Log /\ Ledger(ledger) /\ Along(ledger, L, t) /\ t \in Nat /\ t <= m.term
        /\ t \in DOMAIN ledger
    <3>1. currentTerm[m.to] \in Nat /\ t <= currentTerm[m.to] /\ t \in Nat
      BY <1>1, LogOfServer
    <3> QED BY <1>1, <2>1, <3>1, LogOfServer
  <2>3. /\ index \in Nat /\ term \in Nat /\ public \in Nat
        /\ m.term \in DOMAIN ledger /\ index <= Len(ledger[m.term])
        /\ term = TermIn(ledger, m.term, index)
    BY <1>1 DEF Matching, RequestFits, SnapshotFits, InstallSnapshot, SnapshotRequest
  <2>4. log'[m.to] = N /\ \A x \in Server \ {m.to} : log'[x] = log[x]
    BY <1>1, <2>1 DEF TypeOK
  <2>5. N \in Log
    BY <1>1, <2>4 DEF TypeOK
  <2>6. N = install(L, index, term, public)
        /\ kept = (index \in Indices(L) /\ At(L, index).term = term)
    OBVIOUS
  <2> HIDE DEF L, t, index, term, public, N, kept
  <2>7. /\ kept => Along(ledger, N, t)
        /\ ~kept => Along(ledger, N, m.term)
    BY <2>2, <2>3, <2>5, <2>6, InstallLeavesPiece
  <2>8. Fits(ledger, N, m.term)
    <3>1. CASE kept
      BY <1>1, <2>2, <2>5, <2>7, <3>1, AlongFits
    <3>2. CASE ~kept
      BY <1>1, <2>2, <2>5, <2>7, <3>2, AlongFits
    <3> QED BY <3>1, <3>2
  <2>9. /\ currentTerm'[m.to] = m.term /\ state'[m.to] # "Leader"
        /\ \/ state'[m.to] = "Follower"
           \/ state'[m.to] = state[m.to] /\ currentTerm'[m.to] = currentTerm[m.to]
        /\ \A x \in Server \ {m.to} : currentTerm'[x] = currentTerm[x] /\ state'[x] = state[x]
    BY <1>3, <2>1
  <2>10. state'[m.to] = "Candidate" => state[m.to] = "Candidate"
    BY <2>9
  <2> QED BY <1>1, <1>2, <2>4, <2>8, <2>9, <2>10, OneServerMatching
<1> QED BY <1>4, <1>5, <1>6 DEF InstallSnapshot

\* All entries of a log are those of the ledger it is a piece of.
LEMMA WholeGives ==
  ASSUME Ledger(ledger), NEW L \in Log, NEW t, Along(ledger, L, t)
  PROVE  Whole(L) = [k \in 1 .. lastLogIndex(L) |-> ledger[t][k]]
<1> DEFINE n == lastLogIndex(L)
           v == L.lastIncludedTerm
<1>1. /\ L.lastIncludedIndex \in Nat /\ n \in Nat /\ L.lastIncludedIndex <= n
      /\ t \in DOMAIN ledger /\ n <= Len(ledger[t]) /\ Len(ledger[t]) \in Nat
      /\ v = TermIn(ledger, t, L.lastIncludedIndex)
  BY LogBasics, LedgerBasics DEF Along
<1> SUFFICES ASSUME NEW k \in 1 .. n
             PROVE  (IF k > L.lastIncludedIndex THEN At(L, k) ELSE ledger[v][k]) = ledger[t][k]
  BY Zenon DEF Whole
<1> HIDE DEF v
<1>2. CASE k > L.lastIncludedIndex
  BY <1>1, <1>2 DEF Along, Held
<1>3. CASE ~(k > L.lastIncludedIndex)
  <2>1. /\ L.lastIncludedIndex \in 1 .. Len(ledger[t]) /\ k \in 1 .. L.lastIncludedIndex
    BY <1>1, <1>3
  <2>2. Agree(ledger, t, v, L.lastIncludedIndex)
    BY <1>1, <2>1 DEF Ledger, Rooted, TermIn
  <2> QED BY <1>3, <2>1, <2>2 DEF Agree
<1> QED BY <1>2, <1>3

\* The ledger may have grown, by what no server but s sees, and s is a leader now.
LEMMA LeaderAppends ==
  ASSUME TypeOK, TypeOK', Matching, NEW s \in Server,
         UNCHANGED <<currentTerm, msgs>>, state'[s] = "Leader",
         \A x \in Server \ {s} : state'[x] = state[x] /\ log'[x] = log[x],
         elected \subseteq elected', Elected(s, currentTerm[s])',
         \A e \in elected' : e \in elected \/ (e.leader = s /\ e.term = currentTerm[s]),
         Ledger(ledger'), GrowsTo(ledger, ledger'),
         DOMAIN ledger' = {0} \cup {e.term : e \in elected'},
         \A t \in DOMAIN ledger : t # currentTerm[s] => ledger'[t] = ledger[t],
         \A x \in Server \ {s} : state[x] = "Leader" => currentTerm[x] # currentTerm[s],
         Along(ledger', log'[s], currentTerm[s]),
         lastLogIndex(log'[s]) = Len(ledger'[currentTerm[s]])
  PROVE  Matching'
<1> DEFINE g == ledger
           h == ledger'
           T == currentTerm[s]
<1>1. /\ \A x \in Server : currentTerm[x] \in Nat /\ currentTerm'[x] = currentTerm[x]
      /\ \A e \in elected' : e.leader \in Server
      /\ Ledger(g) /\ \A x \in Server : currentTerm[x] >= 1
  BY DEF TypeOK, Matching, LedgerOK
<1>2. LedgerOK'
  BY DEF LedgerOK
<1>3. /\ Fits(h, log'[s], T) /\ lastLogTerm(log'[s]) = T
  <2>1. log'[s] \in Log /\ T \in Nat
    BY DEF TypeOK
  <2>2. /\ Fits(h, log'[s], T)
        /\ lastLogTerm(log'[s]) = TermIn(h, T, lastLogIndex(log'[s]))
    BY <2>1, AlongFits
  <2>3. T \in DOMAIN h \ {0}
    BY <1>1 DEF Along
  <2>4. Len(h[T]) > 0 /\ h[T][Len(h[T])].term = T
    BY <2>3 DEF Ledger
  <2>5. TermIn(h, T, Len(h[T])) = T
    BY <2>4 DEF TermIn
  <2> QED BY <2>2, <2>5
<1>4. ASSUME NEW x \in Server
      PROVE  Fits(h, log'[x], currentTerm'[x])
  <2>1. CASE x = s
    BY <1>1, <1>3, <2>1
  <2>2. CASE x # s
    <3>1. log[x] \in Log /\ Fits(g, log[x], currentTerm[x])
      BY DEF TypeOK, Matching
    <3>2. Along(h, log[x], lastLogTerm(log[x]))
      BY <1>1, <3>1, AlongGrows DEF Fits
    <3> QED BY <1>1, <2>2, <3>1, <3>2 DEF Fits
  <2> QED BY <2>1, <2>2
<1>5. ASSUME NEW x \in Server, state'[x] = "Leader"
      PROVE  Leads(x)'
  <2>1. CASE x = s
    BY <1>1, <1>3, <2>1 DEF Leads
  <2>2. CASE x # s
    <3>1. Leads(x) /\ currentTerm[x] # T
      BY <1>5, <2>2 DEF Matching
    <3>2. currentTerm[x] \in DOMAIN g
      BY <3>1 DEF Leads, Elected, Matching, LedgerOK
    <3>3. ledger'[currentTerm[x]] = ledger[currentTerm[x]]
      BY <3>1, <3>2
    <3> QED BY <1>1, <2>2, <3>1, <3>3 DEF Leads, Elected
  <2> QED BY <2>1, <2>2
<1>6. ASSUME NEW e \in elected'
      PROVE  NotAsking(e)'
  <2>1. CASE e \in elected /\ e.leader # s
    BY <1>1, <2>1 DEF Matching, NotAsking
  <2>2. CASE e \in elected /\ e.leader = s
    BY <1>1, <2>2 DEF Matching, NotAsking
  <2>3. CASE e \notin elected
    BY <1>1, <2>3 DEF NotAsking
  <2> QED BY <2>1, <2>2, <2>3
<1>7. ASSUME NEW m \in msgs
      PROVE  RequestFits(m)'
  <2>1. RequestFits(m) /\ m \in Request /\ m.from \in Server
    BY RequestTypes DEF Matching, TypeOK
  <2>2. m.type # "RequestVote" => Elected(m.from, m.term)'
    BY <2>1 DEF RequestFits, Elected
  <2>3. ASSUME m.type = "AppendEntries"
        PROVE  EntriesFit(h, m)
    <3> DEFINE t == m.term
    <3>1. /\ m.prevLogIndex \in Nat /\ m.entries \in Seq(Entry) /\ EntriesFit(g, m)
          /\ t \in DOMAIN g
      BY <2>1, <2>3, RequestTypes DEF EntriesRequest, RequestFits, EntriesFit
    <3>2. Len(m.entries) \in Nat /\ Acked(m) = m.prevLogIndex + Len(m.entries)
      BY <3>1, LenProperties DEF Acked
    <3>3. Len(g[t]) \in Nat /\ Acked(m) <= Len(g[t])
      BY <1>1, <3>1, LedgerBasics DEF EntriesFit
    <3> HIDE DEF t, g, h
    <3>4. /\ t \in DOMAIN h /\ Acked(m) <= Len(h[t])
          /\ TermIn(h, t, Acked(m)) = TermIn(g, t, Acked(m))
      BY <1>1, <3>1, <3>2, <3>3, GrownTerms DEF g, h
    <3>5. TermIn(h, t, m.prevLogIndex) = TermIn(g, t, m.prevLogIndex)
      BY <1>1, <3>1, <3>2, <3>3, GrownTerms DEF g, h
    <3>6. \A i \in 1 .. Len(m.entries) : m.prevLogIndex + i \in 1 .. Len(g[t])
      BY <3>1, <3>2, <3>3
    <3>7. \A k \in 1 .. Len(g[t]) : h[t][k] = g[t][k]
      BY <3>1 DEF GrowsTo, g, h
    <3> QED BY <3>1, <3>4, <3>5, <3>6, <3>7 DEF EntriesFit, t
  <2>4. ASSUME m.type = "InstallSnapshot"
        PROVE  SnapshotFits(h, m)
    <3>1. m.lastIncludedIndex \in Nat /\ SnapshotFits(g, m)
      BY <2>1, <2>4, RequestTypes DEF SnapshotRequest, RequestFits
    <3> QED BY <1>1, <3>1, GrownTerms DEF SnapshotFits
  <2> QED BY <1>1, <2>1, <2>2, <2>3, <2>4 DEF RequestFits
<1> QED BY <1>1, <1>2, <1>4, <1>5, <1>6, <1>7 DEF Matching

\* No other server leads in the term of a server that has been elected.
LEMMA OnlyLeader ==
  ASSUME TypeOK, Matching, ElectionSafety, NEW s \in Server, Elected(s, currentTerm[s]),
         NEW x \in Server \ {s}, state[x] = "Leader"
  PROVE  currentTerm[x] # currentTerm[s]
<1>1. Elected(x, currentTerm[x])
  BY DEF Matching, Leads
<1> QED BY <1>1 DEF Elected, ElectionSafety

\* A leader appends a command.
LEMMA StartMatching ==
  ASSUME TypeOK, TypeOK', Matching, ElectionSafety, NEW s \in Server, NEW c \in Command,
         Start(s, c)
  PROVE  Matching'
<1> DEFINE T == currentTerm[s]
           L == log[s]
           x == [term |-> currentTerm[s], cmd |-> c]
           N == append(log[s], x)
<1>1. /\ state[s] = "Leader" /\ state' = state /\ log' = [log EXCEPT ![s] = N]
      /\ ledger' = [ledger EXCEPT ![T] = Append(@, x)]
      /\ UNCHANGED <<currentTerm, msgs, elected>>
  BY DEF Start, votingVars
<1>2. x \in Entry /\ x.term = T
  BY DEF TypeOK, Entry
<1>3. log'[s] = N /\ \A y \in Server \ {s} : log'[y] = log[y]
  BY <1>1 DEF TypeOK
<1>4. N \in Log
  BY <1>3 DEF TypeOK
<1>5. /\ L \in Log /\ Ledger(ledger) /\ T \in Nat /\ Elected(s, T)
      /\ Along(ledger, L, T) /\ T \in DOMAIN ledger \ {0} /\ lastLogIndex(L) = Len(ledger[T])
      /\ DOMAIN ledger = {0} \cup {e.term : e \in elected}
  <2>1. Leads(s) /\ currentTerm[s] >= 1
    BY <1>1 DEF Matching
  <2> QED BY <2>1, LogOfServer DEF Leads, Matching, LedgerOK
<1> HIDE DEF x, N
<1>6. /\ Ledger(ledger') /\ GrowsTo(ledger, ledger') /\ DOMAIN ledger' = DOMAIN ledger
      /\ Len(ledger'[T]) = Len(ledger[T]) + 1 /\ ledger'[T][Len(ledger[T]) + 1] = x
  <2> HIDE DEF T
  <2> QED BY <1>1, <1>2, <1>5, LedgerExtends
<1>7. Continues(ledger, T, lastLogIndex(L), ledger', T)
  BY <1>5, <1>6 DEF GrowsTo, Continues
<1>8. Along(ledger', N, T) /\ lastLogIndex(N) = lastLogIndex(L) + 1
  <2>1. N = append(L, x) /\ x = ledger'[T][lastLogIndex(L) + 1]
    BY <1>5, <1>6 DEF N
  <2> HIDE DEF T, L
  <2> QED BY <1>2, <1>4, <1>5, <1>7, <2>1, AppendMakesPiece
<1>9. \A t \in DOMAIN ledger : t # T => ledger'[t] = ledger[t]
  BY <1>1
<1>10. \A y \in Server \ {s} : state[y] = "Leader" => currentTerm[y] # T
  BY <1>5, OnlyLeader
<1>11. Elected(s, currentTerm[s])'
  BY <1>1, <1>5 DEF Elected
<1>12. /\ state'[s] = "Leader" /\ \A y \in Server \ {s} : state'[y] = state[y]
       /\ elected \subseteq elected' /\ \A e \in elected' : e \in elected
       /\ DOMAIN ledger' = {0} \cup {e.term : e \in elected'}
       /\ Along(ledger', log'[s], T) /\ lastLogIndex(log'[s]) = Len(ledger'[T])
       /\ UNCHANGED <<currentTerm, msgs>>
  BY <1>1, <1>3, <1>5, <1>6, <1>8
<1> QED BY <1>3, <1>6, <1>9, <1>10, <1>11, <1>12, LeaderAppends

\* A winner becomes leader of a term that has had none.
LEMMA NoLeaderYet ==
  ASSUME TypeOK, Matching, Orderly, ElectionSafety', NEW s \in Server, BecomeLeader(s)
  PROVE  /\ state[s] = "Candidate" /\ \A e \in elected : e.term # currentTerm[s]
         /\ currentTerm[s] \notin DOMAIN ledger
<1> DEFINE new == [term |-> currentTerm[s], leader |-> s, votes |-> votes[s]]
<1>1. /\ election[s] = "won" /\ elected' = elected \cup {new}
      /\ new.term = currentTerm[s] /\ new.leader = s
  BY DEF BecomeLeader
<1>2. state[s] = "Candidate"
  BY <1>1 DEF Orderly, WinnersHaveMajorities
<1>3. currentTerm[s] \in Nat /\ currentTerm[s] >= 1
  BY DEF TypeOK, Matching
<1> HIDE DEF new
<1>4. \A e \in elected : e.term # currentTerm[s]
  <2> SUFFICES ASSUME NEW e \in elected, e.term = currentTerm[s] PROVE FALSE
    OBVIOUS
  <2>1. e \in elected' /\ new \in elected'
    BY <1>1
  <2>2. e.leader = s
    BY <1>1, <2>1 DEF ElectionSafety
  <2>3. NotAsking(e)
    BY DEF Matching
  <2> QED BY <1>2, <1>3, <2>2, <2>3 DEF NotAsking
<1> QED BY <1>2, <1>3, <1>4 DEF Matching, LedgerOK

\* Its ledger begins with its log.
LEMMA BecomeLeaderMatching ==
  ASSUME TypeOK, TypeOK', Matching, Orderly, ElectionSafety', NEW s \in Server,
         BecomeLeader(s)
  PROVE  Matching'
<1> DEFINE T == currentTerm[s]
           L == log[s]
           u == lastLogTerm(log[s])
           x == [term |-> currentTerm[s], cmd |-> NoOp]
           N == append(log[s], x)
           new == [term |-> currentTerm[s], leader |-> s, votes |-> votes[s]]
<1>1. /\ election[s] = "won" /\ state' = [state EXCEPT ![s] = "Leader"]
      /\ log' = [log EXCEPT ![s] = N] /\ elected' = elected \cup {new}
      /\ ledger' = [t \in DOMAIN ledger \cup {T} |->
                      IF t = T THEN Whole(log'[s]) ELSE ledger[t]]
      /\ UNCHANGED <<currentTerm, msgs>>
  BY DEF BecomeLeader
<1>2. x \in Entry /\ x.term = T /\ new.term = T /\ new.leader = s
  BY DEF TypeOK, Entry
<1>3. /\ log'[s] = N /\ state'[s] = "Leader"
      /\ \A y \in Server \ {s} : log'[y] = log[y] /\ state'[y] = state[y]
  BY <1>1 DEF TypeOK
<1>4. N \in Log
  BY <1>3 DEF TypeOK
<1>5. /\ L \in Log /\ Ledger(ledger) /\ T \in Nat /\ T >= 1 /\ u \in DOMAIN ledger /\ u \in Nat
      /\ Along(ledger, L, u) /\ u <= T
      /\ DOMAIN ledger = {0} \cup {e.term : e \in elected}
  BY LogOfServer DEF Matching, LedgerOK
<1> HIDE DEF x, N, new
<1>7. \A e \in elected : e.term # T
  BY NoLeaderYet
<1>8. T \notin DOMAIN ledger
  BY <1>5, <1>7
<1> DEFINE n == lastLogIndex(L)
<1>9. n \in Nat /\ n <= Len(ledger[u])
  BY <1>5, LogBasics DEF Along
<1> DEFINE w == [k \in 1 .. n + 1 |-> IF k <= n THEN ledger[u][k] ELSE x]
<1>10. Whole(N) = w
  <2>1. /\ N.lastIncludedIndex = L.lastIncludedIndex
        /\ N.lastIncludedTerm = L.lastIncludedTerm
        /\ lastLogIndex(N) = n + 1 /\ At(N, n + 1) = x
        /\ \A k \in Indices(L) : At(N, k) = At(L, k)
    BY <1>2, <1>5, AppendGives DEF N, SameStart
  <2>2. Whole(L) = [k \in 1 .. n |-> ledger[u][k]]
    BY <1>5, WholeGives
  <2>3. L.lastIncludedIndex \in Nat /\ L.lastIncludedIndex <= n
    BY <1>5, LogBasics
  <2>4. ASSUME NEW k \in 1 .. n + 1
        PROVE  (IF k > N.lastIncludedIndex THEN At(N, k)
                ELSE ledger[N.lastIncludedTerm][k]) = w[k]
    <3>1. CASE k = n + 1
      BY <1>9, <2>1, <2>3, <3>1
    <3>2. CASE k # n + 1
      <4>1. k \in 1 .. n
        BY <1>9, <3>2
      <4>2. (IF k > L.lastIncludedIndex THEN At(L, k)
             ELSE ledger[L.lastIncludedTerm][k]) = ledger[u][k]
        <5>1. Whole(L)[k] = ledger[u][k]
          BY <2>2, <4>1
        <5> HIDE DEF n
        <5> QED BY <4>1, <5>1 DEF Whole, n
      <4>3. k > L.lastIncludedIndex => At(N, k) = At(L, k)
        BY <1>9, <2>1, <2>3, <4>1 DEF Indices
      <4> HIDE DEF n
      <4> QED BY <1>9, <2>1, <2>3, <4>1, <4>2, <4>3
    <3> QED BY <3>1, <3>2
  <2> HIDE DEF n
  <2> QED BY <2>1, <2>4 DEF Whole
<1>11. ledger' = [t \in DOMAIN ledger \cup {T} |-> IF t = T THEN w ELSE ledger[t]]
  BY <1>1, <1>3, <1>10
<1> HIDE DEF T, L, u, n
<1>12. /\ DOMAIN ledger' = DOMAIN ledger \cup {T}
       /\ \A t \in DOMAIN ledger : ledger'[t] = ledger[t]
       /\ ledger'[T] \in Seq(Entry) /\ Len(ledger'[T]) = n + 1 /\ ledger'[T][n + 1] = x
       /\ Continues(ledger, u, n, ledger', T)
  <2>1. /\ DOMAIN ledger' = DOMAIN ledger \cup {T} /\ ledger'[T] = w
        /\ \A t \in DOMAIN ledger : ledger'[t] = ledger[t]
    BY <1>8, <1>11
  <2>2. /\ w \in Seq(Entry) /\ Len(w) = n + 1 /\ w[n + 1] = x
        /\ \A k \in 1 .. n : w[k] = ledger[u][k]
    <3>1. \A k \in 1 .. Len(ledger[u]) : ledger[u][k] \in Entry
      BY <1>5, LedgerBasics
    <3>2. w \in [1 .. n + 1 -> Entry]
      BY <1>2, <1>5, <1>9, <3>1, LedgerBasics
    <3> QED BY <1>9, <3>2
  <2> HIDE DEF w
  <2> QED BY <2>1, <2>2 DEF Continues
<1>13. Ledger(ledger') /\ GrowsTo(ledger, ledger')
  <2>1. T \in Nat \ DOMAIN ledger /\ ledger'[T][n + 1].term = T
    BY <1>2, <1>5, <1>8, <1>12
  <2> QED BY <1>5, <1>9, <1>12, <2>1, LedgerBegins
<1>14. Along(ledger', N, T) /\ lastLogIndex(N) = n + 1
  <2>1. /\ N = append(L, x) /\ x = ledger'[T][lastLogIndex(L) + 1] /\ n = lastLogIndex(L)
    BY <1>12 DEF N, L, n
  <2> QED BY <1>2, <1>4, <1>5, <1>12, <2>1, AppendMakesPiece
<1>15. \A t \in DOMAIN ledger : t # T => ledger'[t] = ledger[t]
  BY <1>11
<1>16. \A y \in Server \ {s} : state[y] = "Leader" => currentTerm[y] # T
  <2> SUFFICES ASSUME NEW y \in Server \ {s}, state[y] = "Leader"
               PROVE  currentTerm[y] # T
    OBVIOUS
  <2>1. Elected(y, currentTerm[y])
    BY DEF Matching, Leads
  <2> QED BY <1>7, <2>1 DEF Elected
<1>17. Elected(s, currentTerm[s])'
  BY <1>1, <1>2 DEF Elected, T
<1>18. /\ DOMAIN ledger' = {0} \cup {e.term : e \in elected'}
       /\ elected \subseteq elected'
       /\ \A e \in elected' : e \in elected \/ (e.leader = s /\ e.term = T)
  BY <1>1, <1>2, <1>5, <1>12
<1> QED BY <1>1, <1>3, <1>12, <1>13, <1>15, <1>16, <1>17, <1>18, <1>14, LeaderAppends DEF T

\* A crash between the two writes of AppendEntries leaves the log and the term.
LEMMA TornMatching ==
  ASSUME TypeOK, TypeOK', PersistedIsCurrent, Matching, TermsKept, NEW m \in msgs,
         TornAppendEntries(m)
  PROVE  Matching'
<1> DEFINE p == [persisted[m.to] EXCEPT !.votedFor = Nil]
<1>1. m.to \in Server /\ Boot(m.to, p)
  BY RequestTypes DEF TypeOK, TornAppendEntries
<1>2. p.log = log[m.to]
  <2>1. persisted[m.to] \in [currentTerm : Nat, votedFor : Server \cup {Nil},
                             log : Log, snapshot : Snap]
    BY <1>1 DEF TypeOK
  <2> QED BY <1>1, <2>1 DEF PersistedIsCurrent
<1> HIDE DEF p
<1>3. /\ UNCHANGED <<elected, ledger, msgs>> /\ state'[m.to] = "Follower"
      /\ log'[m.to] = log[m.to]
      /\ \A x \in Server \ {m.to} :
           currentTerm'[x] = currentTerm[x] /\ state'[x] = state[x] /\ log'[x] = log[x]
  BY <1>1, <1>2 DEF Boot, TypeOK
<1>4. Fits(ledger, log'[m.to], currentTerm'[m.to])
  BY <1>1, <1>3, FitsLater
<1> QED BY <1>1, <1>3, <1>4, OneServerMatching

\* Every step keeps the logs pieces of the ledger.
LEMMA MatchingStep ==
  ASSUME TypeOK, TypeOK', PersistedIsCurrent, Matching, TermsKept, Orderly,
         ElectionSafety, ElectionSafety', [Next]_vars
  PROVE  Matching'
<1>1. CASE UNCHANGED vars
  <2>1. UNCHANGED <<currentTerm, state, log, elected, ledger, msgs>>
    BY <1>1 DEF vars, electionVars, votingVars
  <2> QED BY <2>1, QuietMatching
<1>2. ASSUME NEW s \in Server, ServerStep(s)
      PROVE  Matching'
  BY <1>2, ServerStepMatching, StartMatching, BecomeLeaderMatching DEF ServerStep
<1>3. ASSUME NEW s \in Server, NEW i \in Others(s), PeerStep(s, i)
      PROVE  Matching'
  BY <1>3, PeerStepMatching
<1>4. ASSUME NEW m \in msgs, Receive(m)
      PROVE  Matching'
  BY <1>4, RequestVoteMatching, AppendEntriesMatching, InstallSnapshotMatching, TornMatching
     DEF Receive
<1> QED BY <1>1, <1>2, <1>3, <1>4 DEF Next

\* At first there are no leaders and no entries.
LEMMA MatchingInit == Init => Matching
<1> SUFFICES ASSUME Init PROVE Matching
  OBVIOUS
<1>1. ledger = [t \in {0} |-> <<>>] /\ elected = {} /\ msgs = {}
  BY DEF Init
<1>2. DOMAIN ledger = {0} /\ ledger[0] = <<>> /\ Len(ledger[0]) = 0
  BY <1>1
<1>3. Ledger(ledger)
  <2>1. <<>> \in Seq(Entry)
    BY EmptySeq
  <2> QED BY <1>2, <2>1 DEF Ledger
<1>4. LedgerOK
  BY <1>1, <1>2, <1>3 DEF LedgerOK
<1>5. /\ EmptyLog.lastIncludedIndex = 0 /\ EmptyLog.lastIncludedTerm = 0
      /\ lastLogIndex(EmptyLog) = 0 /\ At(EmptyLog, 0).term = 0
  BY DEF EmptyLog, lastLogIndex, At, Sentinel
<1>6. lastLogTerm(EmptyLog) = 0 /\ Held(EmptyLog) = {}
  BY <1>5 DEF lastLogTerm, termAt, Held
<1>7. Along(ledger, EmptyLog, 0)
  BY <1>2, <1>5, <1>6 DEF Along, TermIn
<1>8. \A s \in Server : currentTerm[s] = 1 /\ log[s] = EmptyLog /\ state[s] = "Follower"
  BY DEF Init
<1> QED BY <1>1, <1>4, <1>6, <1>7, <1>8 DEF Matching, Fits

\* Pieces of one ledger match.
LEMMA MatchingMatches == TypeOK /\ Matching => LogMatching
<1> SUFFICES ASSUME TypeOK, Matching, NEW s \in Server, NEW t \in Server,
                    NEW k \in Indices(log[s]) \cap Indices(log[t]),
                    termAt(log[s], k) = termAt(log[t], k),
                    NEW j \in Held(log[s]) \cap Held(log[t]), j <= k
             PROVE  At(log[s], j) = At(log[t], j)
  BY Zenon DEF LogMatching
<1> QED BY LogOfServer, PiecesMatch

\* The logs always match (LogMatching): two that have an entry of the same term at an
\* index have the same entries up to it, and each is a piece of what the leader of its
\* last term had (Matching), under the assumptions of OneLeaderPerTerm.
THEOREM LogsAlwaysMatch ==
  ASSUME NeverTorn, "election" \notin Preemptible
  PROVE  Spec => [](LogMatching /\ Matching)
<1>1. Init => Matching
  BY MatchingInit
<1>2. /\ TypeOK /\ TypeOK' /\ PersistedIsCurrent /\ Matching /\ [Next]_vars
      /\ ElectionSafety /\ ElectionSafety' /\ VotesAccounted(Nat)
      => Matching'
  <2> SUFFICES ASSUME TypeOK, TypeOK', PersistedIsCurrent, Matching, [Next]_vars,
                      ElectionSafety, ElectionSafety', VotesAccounted(Nat)
               PROVE  Matching'
    OBVIOUS
  <2>1. Orderly
    BY DEF Orderly, VotesAccounted
  <2>2. TermsKept
    BY RecordStep
  <2> QED BY <2>1, <2>2, MatchingStep
<1>3. TypeOK /\ Matching => LogMatching
  BY MatchingMatches
<1> QED BY <1>1, <1>2, <1>3, TypeCorrect, PersistenceCorrect, OneLeaderPerTerm, PTL DEF Spec
=============================================================================
