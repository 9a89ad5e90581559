-------------------------------- MODULE Raft --------------------------------
(***************************************************************************)
(* The Raft servers of src/src/raft, the network between them and the      *)
(* replicated service above them.                                          *)
(*                                                                         *)
(* Every region the code runs under rf.mu is one action.  The goroutines   *)
(* of a server (FollowerAction, LeaderAction, checkCommit, applyLog, one   *)
(* sendRequest or sendEntries per peer) interleave between such regions,   *)
(* and what one of them reads without the lock is a step of its own.       *)
(*                                                                         *)
(* msgs holds every request ever sent and never shrinks: labrpc delays,    *)
(* reorders and drops requests, and a request that times out is sent again *)
(* with the same contents.  A reply travels back to the goroutine that     *)
(* waits for it (voteRpc, entryRpc).  A goroutine that gave up after 50 ms *)
(* is not modelled by a step: its slot is overwritten by the next round.   *)
(***************************************************************************)
EXTENDS RaftLog

CONSTANTS
  Server,         \* the peers
  Nil,            \* votedFor = -1, and "nothing here" in a slot
  Preemptible,    \* where a goroutine may lose the processor: "election" and
                  \* "apply" between an unlocked test and the Lock after it,
                  \* "deliver" between Unlock and the send on applyCh
  Scenarios       \* bounds: the instances explored together, by name

ASSUME ServerAssumption == IsFiniteSet(Server) /\ Nil \notin Server
ASSUME NilAssumption == Nil \notin [index : Nat, cmd : Command]
ASSUME PreemptibleAssumption == Preemptible \subseteq {"election", "apply", "deliver"}
\* What bounds an instance: who may start an election for which term, whose
\* LeaderAction and applyLog goroutines are scheduled, what Start appends and up to
\* which real index, the different AppendEntries and InstallSnapshot requests, the
\* crashes, those between the two writes of AppendEntries, the snapshots taken.
Bounds == [candidates : SUBSET (Nat \X Server), senders : SUBSET Server,
           appliers : SUBSET Server, commands : SUBSET Command, log : Nat,
           requests : Nat, restarts : Nat, torn : Nat, snapshots : Nat]
ASSUME BoundAssumption == \A n \in DOMAIN Scenarios : Scenarios[n] \in Bounds

VARIABLES
  currentTerm, votedFor, state, log,    \* rf.*; log is described in RaftLog
  commitIndex, lastApplied,
  nextIndex, matchIndex, turnToLeader,  \* of a leader; turnToLeader = 1 is TRUE
  persisted,      \* what rf.persister holds
  election,       \* FollowerAction: "idle", "asking" for votes, or "won"
  votes,          \* whom agreedCandidateNum counts
  voteRpc,        \* sendRequest, a slot per peer
  entryRpc,       \* sendEntries, a slot per peer
  committer,      \* checkCommit: "none", "waiting" on commitCond, "runnable"
  applying,       \* applyLog saw lastApplied < commitIndex
  outbox,         \* the command applyLog is sending on applyCh
  installing,     \* the snapshots goroutines are sending on applyCh
  service,        \* the state machine that receives from applyCh
  msgs,           \* every request sent
  elected,        \* history: who became leader, in which term, by whose votes
  ledger,         \* history: all entries of the log of the leader of each term
  used            \* how much of the bounds on faults is spent, in which scenario

votingVars   == <<election, votes, voteRpc, elected>>
electionVars == <<votingVars, ledger>>
leaderVars   == <<nextIndex, matchIndex, entryRpc>>
applyVars    == <<applying, outbox, installing, service>>
vars == <<currentTerm, votedFor, state, log, commitIndex, lastApplied,
          turnToLeader, persisted, committer, msgs, used,
          electionVars, leaderVars, applyVars>>

Others(s) == Server \ {s}
Bound == Scenarios[used.scenario]

(***************************************************************************)
(* Slots of the goroutines that make one RPC.                              *)
(***************************************************************************)
IdleSlot    == [st |-> "idle",    req |-> Nil, reply |-> Nil]
SpawnedSlot == [st |-> "spawned", req |-> Nil, reply |-> Nil]
SentSlot(m) == [st |-> "sent",    req |-> m,   reply |-> Nil]

answerAnyRound(rpc, m, r) ==   \* mutation: replies to older rounds are taken
  [rpc EXCEPT ![m.from][m.to] = [st |-> "replied", req |-> m, reply |-> r]]

\* The reply r to m reaches the goroutine if it still waits for it.
answer(rpc, m, r) ==
  IF rpc[m.from][m.to] = SentSlot(m)
    THEN [rpc EXCEPT ![m.from][m.to] = [st |-> "replied", req |-> m, reply |-> r]]
    ELSE rpc

\* The handlers of i may run: no goroutine of i stands between an unlocked test
\* and its Lock, or between unlocking and handing the service a message it has
\* prepared under the lock, unless it may be preempted there.
Free(i) ==
  /\ election[i] = "won" => "election" \in Preemptible
  /\ applying[i] => "apply" \in Preemptible
  /\ outbox[i] # Nil \/ installing[i] # {} => "deliver" \in Preemptible

WakeNobody(i) == committer' = committer   \* mutation: no Broadcast

\* commitCond.Broadcast()
Wake(i) == committer' = [committer EXCEPT ![i] = IF @ = "waiting" THEN "runnable" ELSE @]

(***************************************************************************)
(* Persistence.  persist writes the values the handler leaves behind.      *)
(***************************************************************************)
persistStaleTerm(i, snapshot) ==   \* mutation: the term is read before it is set
  persisted' = [persisted EXCEPT ![i] = [currentTerm |-> currentTerm[i],
                                         votedFor    |-> votedFor'[i],
                                         log         |-> log'[i],
                                         snapshot    |-> snapshot]]

persistNoSnapshot(i, snapshot) ==   \* mutation: the snapshot is not saved
  persisted' = [persisted EXCEPT ![i] = [currentTerm |-> currentTerm'[i],
                                         votedFor    |-> votedFor'[i],
                                         log         |-> log'[i],
                                         snapshot    |-> @.snapshot]]

persistNoLog(i, snapshot) ==   \* mutation: the log is not saved
  persisted' = [persisted EXCEPT ![i] = [currentTerm |-> currentTerm'[i],
                                         votedFor    |-> votedFor'[i],
                                         log         |-> @.log,
                                         snapshot    |-> snapshot]]

persistWithSnapshot(i, snapshot) ==
  persisted' = [persisted EXCEPT ![i] = [currentTerm |-> currentTerm'[i],
                                         votedFor    |-> votedFor'[i],
                                         log         |-> log'[i],
                                         snapshot    |-> snapshot]]

persist(i) == persistWithSnapshot(i, persisted[i].snapshot)

NoSnapshot == [index |-> 0, cmds |-> <<>>]

Init ==
  /\ currentTerm = [s \in Server |-> 1]
  /\ votedFor = [s \in Server |-> Nil]
  /\ state = [s \in Server |-> "Follower"]
  /\ log = [s \in Server |-> EmptyLog]
  /\ commitIndex = [s \in Server |-> -1]
  /\ lastApplied = [s \in Server |-> -1]
  /\ nextIndex = [s \in Server |-> [i \in Server |-> 0]]
  /\ matchIndex = [s \in Server |-> [i \in Server |-> 0]]
  /\ turnToLeader = [s \in Server |-> FALSE]
  /\ persisted = [s \in Server |-> [currentTerm |-> 1, votedFor |-> Nil,
                                    log |-> EmptyLog, snapshot |-> NoSnapshot]]
  /\ election = [s \in Server |-> "idle"]
  /\ votes = [s \in Server |-> {}]
  /\ voteRpc = [s \in Server |-> [i \in Server |-> IdleSlot]]
  /\ entryRpc = [s \in Server |-> [i \in Server |-> IdleSlot]]
  /\ committer = [s \in Server |-> "none"]
  /\ applying = [s \in Server |-> FALSE]
  /\ outbox = [s \in Server |-> Nil]
  /\ installing = [s \in Server |-> {}]
  /\ service = [s \in Server |-> NoSnapshot]
  /\ msgs = {}
  /\ elected = {}
  /\ ledger = [t \in {0} |-> <<>>]
  /\ used \in [scenario : DOMAIN Scenarios, restarts : {0}, torn : {0}, snapshots : {0}]

(***************************************************************************)
(* A crash: the process dies and a new one starts from p, the contents of  *)
(* the persister (Make, Init, readPersist; the service reads its snapshot).*)
(***************************************************************************)
Boot(s, p) ==
  /\ persisted' = [persisted EXCEPT ![s] = p]
  /\ currentTerm' = [currentTerm EXCEPT ![s] = p.currentTerm]
  /\ votedFor' = [votedFor EXCEPT ![s] = p.votedFor]
  /\ log' = [log EXCEPT ![s] = p.log]
  /\ commitIndex' = [commitIndex EXCEPT ![s] = p.log.lastIncludedIndex]
  /\ lastApplied' = [lastApplied EXCEPT ![s] = p.log.lastIncludedIndex]
  /\ service' = [service EXCEPT ![s] = p.snapshot]
  /\ state' = [state EXCEPT ![s] = "Follower"]
  /\ nextIndex' = [nextIndex EXCEPT ![s] = [i \in Server |-> 0]]
  /\ matchIndex' = [matchIndex EXCEPT ![s] = [i \in Server |-> 0]]
  /\ turnToLeader' = [turnToLeader EXCEPT ![s] = FALSE]
  /\ election' = [election EXCEPT ![s] = "idle"]
  /\ votes' = [votes EXCEPT ![s] = {}]
  /\ voteRpc' = [voteRpc EXCEPT ![s] = [i \in Server |-> IdleSlot]]
  /\ entryRpc' = [entryRpc EXCEPT ![s] = [i \in Server |-> IdleSlot]]
  /\ committer' = [committer EXCEPT ![s] = "none"]
  /\ applying' = [applying EXCEPT ![s] = FALSE]
  /\ outbox' = [outbox EXCEPT ![s] = Nil]
  /\ installing' = [installing EXCEPT ![s] = {}]
  /\ UNCHANGED <<msgs, elected, ledger>>

Restart(s) ==
  /\ used.restarts < Bound.restarts
  /\ used' = [used EXCEPT !.restarts = @ + 1]
  /\ Boot(s, persisted[s])

(***************************************************************************)
(* Election.                                                               *)
(***************************************************************************)
AdoptTermZero(i, term, vote) ==   \* mutation: 0, not -1, for no vote
  /\ currentTerm' = [currentTerm EXCEPT ![i] = term]
  /\ votedFor' = [votedFor EXCEPT ![i] = IF vote = Nil THEN 0 ELSE vote]
  /\ state' = [state EXCEPT ![i] = "Follower"]
  /\ turnToLeader' = [turnToLeader EXCEPT ![i] = FALSE]

\* Turning follower of a newer term, with a vote for a candidate of it or Nil.
AdoptTerm(i, term, vote) ==
  /\ currentTerm' = [currentTerm EXCEPT ![i] = term]
  /\ votedFor' = [votedFor EXCEPT ![i] = vote]
  /\ state' = [state EXCEPT ![i] = "Follower"]
  /\ turnToLeader' = [turnToLeader EXCEPT ![i] = FALSE]

\* FollowerAction finds the election timer expired.  It spawns a goroutine
\* for each peer; a goroutine the loop breaks off before spawning is one whose
\* request is lost.
StartElection(s) ==
  /\ <<currentTerm[s] + 1, s>> \in Bound.candidates
  /\ election[s] = "idle" /\ state[s] # "Leader" /\ Free(s)
  /\ state' = [state EXCEPT ![s] = "Candidate"]
  /\ currentTerm' = [currentTerm EXCEPT ![s] = @ + 1]
  /\ votedFor' = [votedFor EXCEPT ![s] = s]
  /\ election' = [election EXCEPT ![s] = "asking"]
  /\ votes' = [votes EXCEPT ![s] = {s}]
  /\ voteRpc' = [voteRpc EXCEPT ![s] =
                   [i \in Server |-> IF i = s THEN IdleSlot ELSE SpawnedSlot]]
  /\ UNCHANGED <<log, commitIndex, lastApplied, turnToLeader, committer, msgs,
                 elected, ledger, used, leaderVars, applyVars>>
  /\ persist(s)

\* sendRequest reads the term and the log without the lock, whatever has
\* become of the candidate meanwhile.
SendRequest(s, i) ==
  /\ voteRpc[s][i] = SpawnedSlot
  /\ LET m == [type |-> "RequestVote", from |-> s, to |-> i,
               term |-> currentTerm[s],
               lastLogIndex |-> lastLogIndex(log[s]),
               lastLogTerm |-> lastLogTerm(log[s])]
     IN  /\ voteRpc' = [voteRpc EXCEPT ![s][i] = SentSlot(m)]
         /\ msgs' = msgs \cup {m}
  /\ UNCHANGED <<currentTerm, votedFor, state, log, commitIndex, lastApplied,
                 turnToLeader, persisted, committer, used, election, votes,
                 elected, ledger, leaderVars, applyVars>>

NeverNewer(L, m) == FALSE   \* mutation: the logs are not compared

\* The log of L is newer than the candidate's: no vote.
Newer(L, m) == \/ lastLogTerm(L) > m.lastLogTerm
               \/ lastLogTerm(L) = m.lastLogTerm /\ lastLogIndex(L) > m.lastLogIndex

\* The same test where the term is the receiver's own, with >= for >.
NotOlder(L, m) == \/ lastLogTerm(L) > m.lastLogTerm
                  \/ lastLogTerm(L) = m.lastLogTerm /\ lastLogIndex(L) >= m.lastLogIndex

HasVotedForAnybody(i, c) == votedFor[i] # Nil   \* mutation: a second vote
HasVotedFor(i, c) == votedFor[i] = c

Ballot(term, granted) == [term |-> term, granted |-> granted]

\* What no case of RequestVote changes.
VoteUnchanged == UNCHANGED <<log, commitIndex, lastApplied, committer, msgs, used,
                             election, votes, elected, ledger, leaderVars, applyVars>>

VoteInNewTerm(m) ==
  LET granted == ~Newer(log[m.to], m)
  IN  /\ currentTerm[m.to] < m.term
      /\ AdoptTerm(m.to, m.term, IF granted THEN m.from ELSE Nil)
      /\ voteRpc' = answer(voteRpc, m, Ballot(m.term, granted))
      /\ VoteUnchanged
      /\ persist(m.to)

VoteAgain(m) ==
  /\ currentTerm[m.to] = m.term /\ HasVotedFor(m.to, m.from)
  /\ state' = [state EXCEPT ![m.to] = "Follower"]
  /\ turnToLeader' = [turnToLeader EXCEPT ![m.to] = FALSE]
  /\ voteRpc' = answer(voteRpc, m, Ballot(m.term, TRUE))
  /\ UNCHANGED <<currentTerm, votedFor>>
  /\ VoteUnchanged
  /\ persist(m.to)

VoteInCurrentTerm(m) ==
  LET granted == ~NotOlder(log[m.to], m)
  IN  /\ currentTerm[m.to] = m.term /\ votedFor[m.to] = Nil
      /\ votedFor' = [votedFor EXCEPT ![m.to] = IF granted THEN m.from ELSE Nil]
      /\ voteRpc' = answer(voteRpc, m, Ballot(m.term, granted))
      /\ UNCHANGED <<currentTerm, state, turnToLeader>>
      /\ VoteUnchanged
      /\ persist(m.to)

RefuseVote(m) ==
  /\ \/ currentTerm[m.to] > m.term
     \/ currentTerm[m.to] = m.term /\ votedFor[m.to] \notin {Nil, m.from}
  /\ voteRpc' = answer(voteRpc, m, Ballot(currentTerm[m.to], FALSE))
  /\ UNCHANGED <<currentTerm, votedFor, state, turnToLeader, persisted>>
  /\ VoteUnchanged

RequestVote(m) ==
  /\ m.type = "RequestVote" /\ Free(m.to)
  /\ VoteInNewTerm(m) \/ VoteAgain(m) \/ VoteInCurrentTerm(m) \/ RefuseVote(m)

\* A granted reply is counted without a look at its term or at the state.  A
\* refusal that brings no newer term only resets the timer: no step.
HandleRequestVoteReply(s, i) ==
  LET r == voteRpc[s][i].reply
  IN  /\ voteRpc[s][i].st = "replied" /\ Free(s)
      /\ voteRpc' = [voteRpc EXCEPT ![s][i] = IdleSlot]
      /\ UNCHANGED <<log, commitIndex, lastApplied, committer, msgs, used,
                     election, elected, ledger, leaderVars, applyVars>>
      /\ \/ /\ r.granted
            /\ votes' = [votes EXCEPT ![s] = @ \cup {i}]
            /\ UNCHANGED <<currentTerm, votedFor, state, turnToLeader, persisted>>
         \/ /\ ~r.granted /\ r.term > currentTerm[s]
            /\ AdoptTerm(s, r.term, Nil)
            /\ UNCHANGED votes
            /\ persist(s)

Majority(Q) == Cardinality(Q) * 2 > Cardinality(Server)

\* wg.Wait returns, every goroutine having its reply or having given up; the
\* tests of the count and of the state are made without the lock.
TallyVotes(s) ==
  LET won == Majority(votes[s]) /\ state[s] = "Candidate"
  IN  /\ election[s] = "asking" /\ Free(s)
      /\ voteRpc' = [voteRpc EXCEPT ![s] = [i \in Server |-> IdleSlot]]
      /\ election' = [election EXCEPT ![s] = IF won THEN "won" ELSE "idle"]
      /\ votes' = [votes EXCEPT ![s] = IF won THEN @ ELSE {}]
      /\ UNCHANGED <<currentTerm, votedFor, state, log, commitIndex, lastApplied,
                     turnToLeader, persisted, committer, msgs, used, elected,
                     ledger, leaderVars, applyVars>>

\* All entries of a log, those the snapshot stands for included, which were in the
\* log of the leader of the last term among them.
Whole(L) == [k \in 1 .. lastLogIndex(L) |->
               IF k > L.lastIncludedIndex THEN At(L, k) ELSE ledger[L.lastIncludedTerm][k]]

\* Only then does the winner lock, and it tests nothing again.
BecomeLeader(s) ==
  /\ election[s] = "won"
  /\ election' = [election EXCEPT ![s] = "idle"]
  /\ votes' = [votes EXCEPT ![s] = {}]
  /\ state' = [state EXCEPT ![s] = "Leader"]
  /\ log' = [log EXCEPT ![s] = append(@, [term |-> currentTerm[s], cmd |-> NoOp])]
  /\ turnToLeader' = [turnToLeader EXCEPT ![s] = FALSE]
  /\ elected' = elected \cup {[term |-> currentTerm[s], leader |-> s, votes |-> votes[s]]}
  /\ ledger' = [t \in DOMAIN ledger \cup {currentTerm[s]} |->
                  IF t = currentTerm[s] THEN Whole(log'[s]) ELSE ledger[t]]
  /\ UNCHANGED <<currentTerm, votedFor, commitIndex, lastApplied, committer, msgs,
                 used, voteRpc, leaderVars, applyVars>>
  /\ persist(s)

(***************************************************************************)
(* Replication: the leader's side.                                         *)
(***************************************************************************)
\* Start
Start(s, c) ==
  /\ state[s] = "Leader" /\ Free(s)
  /\ c \in Bound.commands /\ lastLogIndex(log[s]) < Bound.log
  /\ log' = [log EXCEPT ![s] = append(@, [term |-> currentTerm[s], cmd |-> c])]
  /\ ledger' = [ledger EXCEPT ![currentTerm[s]] = Append(@, [term |-> currentTerm[s], cmd |-> c])]
  /\ UNCHANGED <<currentTerm, votedFor, state, commitIndex, lastApplied, turnToLeader,
                 committer, msgs, used, votingVars, leaderVars, applyVars>>
  /\ persist(s)

\* The first turn of LeaderAction for a new leader (initLeader).
InitLeader(s) ==
  /\ s \in Bound.senders /\ state[s] = "Leader" /\ ~turnToLeader[s] /\ Free(s)
  /\ nextIndex' = [nextIndex EXCEPT ![s] = [i \in Server |-> lastLogIndex(log[s]) + 1]]
  /\ matchIndex' = [matchIndex EXCEPT ![s] = [i \in Server |-> log[s].lastIncludedIndex]]
  /\ turnToLeader' = [turnToLeader EXCEPT ![s] = TRUE]
  /\ committer' = [committer EXCEPT ![s] = "runnable"]
  /\ UNCHANGED <<currentTerm, votedFor, state, log, commitIndex, lastApplied, persisted,
                 msgs, used, entryRpc, electionVars, applyVars>>

\* Every turn of LeaderAction spawns a sendEntries goroutine for each peer once
\* those of the last turn have ended.  The goroutine tests state and term under
\* the lock, so a goroutine spawned earlier sends what one spawned now would.
\* A slot still open has timed out.
Sending(s, i, m) ==
  /\ state[s] = "Leader" /\ turnToLeader[s] /\ Free(s)
  /\ m \in msgs \/ Cardinality({r \in msgs : r.type # "RequestVote"}) < Bound.requests
  /\ entryRpc' = [entryRpc EXCEPT ![s][i] = SentSlot(m)]
  /\ msgs' = msgs \cup {m}
  /\ UNCHANGED <<currentTerm, votedFor, state, log, commitIndex, lastApplied,
                 turnToLeader, persisted, committer, used, nextIndex, matchIndex,
                 electionVars, applyVars>>

SendSnapshot(s, i) ==
  /\ nextIndex[s][i] <= log[s].lastIncludedIndex
  /\ Sending(s, i,
       [type |-> "InstallSnapshot", from |-> s, to |-> i, term |-> currentTerm[s],
        lastIncludedIndex |-> log[s].lastIncludedIndex,
        lastIncludedTerm |-> log[s].lastIncludedTerm,
        lastIncludedPublicIndex |-> log[s].lastIncludedPublicIndex,
        data |-> persisted[s].snapshot])

NotTheLastFrom(L, next) ==   \* mutation: < for <= in "is there anything to send"
  IF next < lastLogIndex(L) THEN SubSeq(L.logs, next - L.lastIncludedIndex + 1, Len(L.logs))
                            ELSE <<>>

EntriesFrom(L, next) == SubSeq(L.logs, next - L.lastIncludedIndex + 1, Len(L.logs))

\* The slice access for PrevLogTerm panics outside the indices of the log.
SendEntries(s, i) ==
  LET L == log[s]
      prev == nextIndex[s][i] - 1
  IN  /\ nextIndex[s][i] > L.lastIncludedIndex /\ prev \in Indices(L)
      /\ Sending(s, i,
           [type |-> "AppendEntries", from |-> s, to |-> i, term |-> currentTerm[s],
            prevLogIndex |-> prev,
            prevLogTerm |-> At(L, prev).term,
            entries |-> EntriesFrom(L, prev + 1),
            leaderCommit |-> commitIndex[s]])

\* HandleAppendEntriesReply and the reply half of sendEntries' snapshot branch:
\* both ignore a reply to a request of another term or one that finds no leader.
Awaited(s, i, type) ==
  /\ entryRpc[s][i].st = "replied" /\ entryRpc[s][i].req.type = type
  /\ entryRpc[s][i].req.term = currentTerm[s] /\ state[s] = "Leader" /\ Free(s)

\* The follower was in a newer term.
LeaderStepsDown(s, i) ==
  LET r == entryRpc[s][i].reply
  IN  /\ \/ Awaited(s, i, "AppendEntries") /\ ~r.success
         \/ Awaited(s, i, "InstallSnapshot")
      /\ r.term > currentTerm[s]
      /\ AdoptTerm(s, r.term, Nil)
      /\ Wake(s)
      /\ entryRpc' = [entryRpc EXCEPT ![s][i] = IdleSlot]
      /\ UNCHANGED <<log, commitIndex, lastApplied, msgs, used, nextIndex, matchIndex,
                     electionVars, applyVars>>
      /\ persist(s)

\* What the other outcomes of a reply leave alone.
ReplyUnchanged == UNCHANGED <<currentTerm, votedFor, state, log, commitIndex,
                              lastApplied, turnToLeader, msgs, used,
                              electionVars, applyVars>>

HandleRejection(s, i) ==
  LET m == entryRpc[s][i].req
      r == entryRpc[s][i].reply
  IN  /\ Awaited(s, i, "AppendEntries") /\ ~r.success /\ r.term <= currentTerm[s]
      /\ nextIndex' = [nextIndex EXCEPT ![s][i] =
                         backup(log[s], @, m.prevLogIndex, m.prevLogTerm, r.conflict)]
      /\ entryRpc' = [entryRpc EXCEPT ![s][i] = IdleSlot]
      /\ UNCHANGED <<matchIndex, persisted, committer>>
      /\ ReplyUnchanged

AckedAndOne(m) == m.prevLogIndex + Len(m.entries) + 1   \* mutation: off by one
Acked(m) == m.prevLogIndex + Len(m.entries)

HandleSuccess(s, i) ==
  LET last == Acked(entryRpc[s][i].req)
  IN  /\ Awaited(s, i, "AppendEntries") /\ entryRpc[s][i].reply.success
      /\ matchIndex' = [matchIndex EXCEPT ![s][i] = last]
      /\ nextIndex' = [nextIndex EXCEPT ![s][i] = last + 1]
      /\ entryRpc' = [entryRpc EXCEPT ![s][i] = IdleSlot]
      /\ Wake(s)
      /\ ReplyUnchanged
      /\ persist(s)

HandleInstallSnapshotReply(s, i) ==
  LET m == entryRpc[s][i].req
  IN  /\ Awaited(s, i, "InstallSnapshot") /\ entryRpc[s][i].reply.term <= currentTerm[s]
      /\ matchIndex' = [matchIndex EXCEPT ![s][i] = m.lastIncludedIndex]
      /\ nextIndex' = [nextIndex EXCEPT ![s][i] = m.lastIncludedIndex + 1]
      /\ entryRpc' = [entryRpc EXCEPT ![s][i] = IdleSlot]
      /\ UNCHANGED <<persisted, committer>>
      /\ ReplyUnchanged

\* The entries a leader may commit: of its term, and on a majority.
Committable(s) ==
  {n \in (log[s].lastIncludedIndex + 1) .. lastLogIndex(log[s]) :
     /\ n > commitIndex[s]
     /\ \A k \in n .. lastLogIndex(log[s]) : At(log[s], k).term = currentTerm[s]
     /\ Majority({s} \cup {i \in Server : matchIndex[s][i] >= n})}

\* One turn of checkCommit, up to its Wait or its return.
CheckCommit(s) ==
  /\ committer[s] = "runnable" /\ Free(s)
  /\ committer' = [committer EXCEPT ![s] = IF state[s] = "Leader" THEN "waiting" ELSE "none"]
  /\ IF state[s] = "Leader" /\ Committable(s) # {}
       THEN commitIndex' = [commitIndex EXCEPT ![s] = Max(Committable(s))]
       ELSE UNCHANGED commitIndex
  /\ UNCHANGED <<currentTerm, votedFor, state, log, lastApplied, turnToLeader,
                 persisted, msgs, used, electionVars, leaderVars, applyVars>>

(***************************************************************************)
(* Replication: the follower's side.                                       *)
(***************************************************************************)
\* What no case of AppendEntries changes.
EntriesUnchanged == UNCHANGED <<lastApplied, msgs, used, electionVars, nextIndex,
                                matchIndex, applyVars>>

NoHint == [index |-> 0, term |-> 0]

Outcome(term, success, hint) == [term |-> term, success |-> success, conflict |-> hint]

FollowAnew(m) == AdoptTerm(m.to, m.term, Nil)   \* mutation: the vote always cleared

\* The part every case that accepts the term of m shares.
Follow(m) ==
  AdoptTerm(m.to, m.term, IF currentTerm[m.to] < m.term THEN Nil ELSE votedFor[m.to])

StaleAppendEntries(m) ==
  /\ m.term < currentTerm[m.to]
  /\ entryRpc' = answer(entryRpc, m, Outcome(currentTerm[m.to], FALSE, NoHint))
  /\ UNCHANGED <<currentTerm, votedFor, state, log, commitIndex, turnToLeader,
                 persisted, committer>>
  /\ EntriesUnchanged

\* A leader steps down and rejects, whatever its log holds.
AppendEntriesToLeader(m) ==
  /\ m.term >= currentTerm[m.to] /\ state[m.to] = "Leader"
  /\ Follow(m)
  /\ Wake(m.to)
  /\ entryRpc' = answer(entryRpc, m,
                   Outcome(m.term, FALSE, [index |-> m.prevLogIndex + 1, term |-> 0]))
  /\ UNCHANGED <<log, commitIndex>>
  /\ EntriesUnchanged
  /\ persist(m.to)

RejectEntries(m) ==
  LET L == log[m.to]
  IN  /\ m.term >= currentTerm[m.to] /\ state[m.to] # "Leader"
      /\ ~Consistent(L, m.prevLogIndex, m.prevLogTerm)
      /\ Follow(m)
      /\ entryRpc' = answer(entryRpc, m,
                       Outcome(m.term, FALSE, conflict(L, m.prevLogIndex, m.prevLogTerm)))
      /\ UNCHANGED <<log, commitIndex, committer>>
      /\ EntriesUnchanged
      /\ persist(m.to)

AcceptEntries(m) ==
  LET i == m.to
      L == merge(log[i], m.prevLogIndex, m.entries)
  IN  /\ m.term >= currentTerm[i] /\ state[i] # "Leader"
      /\ Consistent(log[i], m.prevLogIndex, m.prevLogTerm)
      /\ Follow(m)
      /\ log' = [log EXCEPT ![i] = L]
      /\ commitIndex' = [commitIndex EXCEPT ![i] =
                           IF m.leaderCommit > @ THEN Min({m.leaderCommit, lastLogIndex(L)})
                                                 ELSE @]
      /\ entryRpc' = answer(entryRpc, m, Outcome(m.term, TRUE, NoHint))
      /\ UNCHANGED committer
      /\ EntriesUnchanged
      /\ persist(i)

AppendEntries(m) ==
  /\ m.type = "AppendEntries" /\ Free(m.to)
  /\ \/ StaleAppendEntries(m)
     \/ AppendEntriesToLeader(m)
     \/ RejectEntries(m)
     \/ AcceptEntries(m)

\* AppendEntries of a newer term writes the cleared vote before the new term.
\* The process may die between the two writes.
TornAppendEntries(m) ==
  /\ m.type = "AppendEntries" /\ currentTerm[m.to] < m.term /\ Free(m.to)
  /\ used.torn < Bound.torn
  /\ used' = [used EXCEPT !.torn = @ + 1]
  /\ Boot(m.to, [persisted[m.to] EXCEPT !.votedFor = Nil])

\* InstallSnapshot up to its first test of lastIncludedIndex.
AcceptSnapshotTerm(m) ==
  IF currentTerm[m.to] < m.term
    THEN AdoptTerm(m.to, m.term, Nil) /\ Wake(m.to)
    ELSE UNCHANGED <<currentTerm, votedFor, state, turnToLeader, committer>>

RefuseSnapshot(m) ==
  /\ m.term < currentTerm[m.to]
  /\ entryRpc' = answer(entryRpc, m, [term |-> currentTerm[m.to]])
  /\ UNCHANGED <<currentTerm, votedFor, state, log, commitIndex, lastApplied,
                 turnToLeader, persisted, committer, installing>>

IgnoreOldSnapshot(m) ==
  /\ m.term >= currentTerm[m.to]
  /\ m.lastIncludedIndex <= log[m.to].lastIncludedIndex
  /\ AcceptSnapshotTerm(m)
  /\ entryRpc' = answer(entryRpc, m, [term |-> m.term])
  /\ UNCHANGED <<log, commitIndex, lastApplied, installing>>
  /\ persist(m.to)

\* The snapshot reaches the service from a goroutine of its own.
InstallNewSnapshot(m) ==
  LET i == m.to
      AtLeast(x) == Max({x, m.lastIncludedIndex})
  IN  /\ m.term >= currentTerm[i] /\ m.lastIncludedIndex > log[i].lastIncludedIndex
      /\ AcceptSnapshotTerm(m)
      /\ log' = [log EXCEPT ![i] = install(@, m.lastIncludedIndex, m.lastIncludedTerm,
                                           m.lastIncludedPublicIndex)]
      /\ commitIndex' = [commitIndex EXCEPT ![i] = AtLeast(@)]
      /\ lastApplied' = [lastApplied EXCEPT ![i] = AtLeast(@)]
      /\ installing' = [installing EXCEPT ![i] =
                          @ \cup {[index |-> m.lastIncludedPublicIndex, data |-> m.data]}]
      /\ entryRpc' = answer(entryRpc, m, [term |-> m.term])
      /\ persistWithSnapshot(i, m.data)

InstallSnapshot(m) ==
  /\ m.type = "InstallSnapshot" /\ Free(m.to)
  /\ RefuseSnapshot(m) \/ IgnoreOldSnapshot(m) \/ InstallNewSnapshot(m)
  /\ UNCHANGED <<msgs, used, electionVars, nextIndex, matchIndex,
                 applying, outbox, service>>

(***************************************************************************)
(* Applying: applyLog, the goroutines of InstallSnapshot, the service that *)
(* receives from applyCh and the snapshots it takes.                       *)
(***************************************************************************)
\* The tests lastApplied == commitIndex and lastApplied < commitIndex, unlocked.
ApplyCheck(s) ==
  /\ s \in Bound.appliers /\ ~applying[s] /\ outbox[s] = Nil /\ Free(s)
  /\ lastApplied[s] < commitIndex[s]
  /\ applying' = [applying EXCEPT ![s] = TRUE]
  /\ UNCHANGED <<currentTerm, votedFor, state, log, commitIndex, lastApplied,
                 turnToLeader, persisted, committer, msgs, used, electionVars,
                 leaderVars, outbox, installing, service>>

\* The locked part: it panics if the next entry is not in the slice.
ApplyNext(s) ==
  LET next == lastApplied[s] + 1
  IN  /\ applying[s] /\ next \in Indices(log[s])
      /\ applying' = [applying EXCEPT ![s] = FALSE]
      /\ lastApplied' = [lastApplied EXCEPT ![s] = next]
      /\ outbox' = [outbox EXCEPT ![s] =
                      IF At(log[s], next).cmd = NoOp THEN Nil
                      ELSE [index |-> realToPublicIndex(log[s], next),
                            cmd |-> At(log[s], next).cmd]]
      /\ UNCHANGED <<currentTerm, votedFor, state, log, commitIndex, turnToLeader,
                     committer, msgs, used, electionVars, leaderVars, installing, service>>
      /\ persist(s)

ServiceUnchanged == UNCHANGED <<currentTerm, votedFor, state, commitIndex, lastApplied,
                                turnToLeader, committer, msgs, electionVars, leaderVars,
                                applying>>

\* The service takes a command from applyCh ...
ReceiveCommand(s) ==
  /\ outbox[s] # Nil
  /\ service' = [service EXCEPT ![s] = [index |-> outbox[s].index,
                                        cmds |-> Append(@.cmds, outbox[s].cmd)]]
  /\ outbox' = [outbox EXCEPT ![s] = Nil]
  /\ UNCHANGED <<installing, log, persisted, used>>
  /\ ServiceUnchanged

\* ... or a snapshot, which replaces its state.
ReceiveSnapshot(s) ==
  \E snap \in installing[s] :
    /\ service' = [service EXCEPT ![s] = snap.data]
    /\ installing' = [installing EXCEPT ![s] = @ \ {snap}]
    /\ UNCHANGED <<outbox, log, persisted, used>>
    /\ ServiceUnchanged

\* Raft.Snapshot, called by the service with the index it has reached; a call
\* whose index is gone from the log, or not past the last snapshot, is refused.
Snapshot(s) ==
  LET real == publicToRealIndex(log[s], service[s].index)
  IN  /\ used.snapshots < Bound.snapshots /\ Free(s)
      /\ real # NotFound /\ real > log[s].lastIncludedIndex
      /\ used' = [used EXCEPT !.snapshots = @ + 1]
      /\ log' = [log EXCEPT ![s] = compact(@, real, service[s].index)]
      /\ UNCHANGED <<outbox, installing, service>>
      /\ ServiceUnchanged
      /\ persistWithSnapshot(s, service[s])

(***************************************************************************)
(* The specification.                                                      *)
(***************************************************************************)
ServerStep(s) ==
  \/ StartElection(s) \/ TallyVotes(s) \/ BecomeLeader(s)
  \/ \E c \in Command : Start(s, c)
  \/ InitLeader(s) \/ CheckCommit(s)
  \/ ApplyCheck(s) \/ ApplyNext(s) \/ ReceiveCommand(s) \/ ReceiveSnapshot(s) \/ Snapshot(s)
  \/ Restart(s)

PeerStep(s, i) ==
  \/ SendRequest(s, i) \/ HandleRequestVoteReply(s, i)
  \/ SendSnapshot(s, i) \/ SendEntries(s, i)
  \/ LeaderStepsDown(s, i) \/ HandleRejection(s, i) \/ HandleSuccess(s, i)
  \/ HandleInstallSnapshotReply(s, i)

Receive(m) == RequestVote(m) \/ AppendEntries(m) \/ InstallSnapshot(m) \/ TornAppendEntries(m)

Next == \/ \E s \in Server : ServerStep(s)
        \/ \E s \in Server : \E i \in Others(s) : PeerStep(s, i)
        \/ \E m \in msgs : Receive(m)

Spec == Init /\ [][Next]_vars
=============================================================================
