----------------------------- MODULE RaftSafety -----------------------------
(***************************************************************************)
(* What the Raft servers of module Raft must keep true.                    *)
(***************************************************************************)
EXTENDS Raft

(***************************************************************************)
(* Types.                                                                  *)
(***************************************************************************)
Snap == [index : Nat, cmds : Seq(Command)]

VoteRequest == [type : {"RequestVote"}, from : Server, to : Server, term : Nat,
                lastLogIndex : Nat, lastLogTerm : Nat]

EntriesRequest == [type : {"AppendEntries"}, from : Server, to : Server, term : Nat,
                   prevLogIndex : Nat, prevLogTerm : Nat, entries : Seq(Entry),
                   leaderCommit : Int]

SnapshotRequest == [type : {"InstallSnapshot"}, from : Server, to : Server, term : Nat,
                    lastIncludedIndex : Nat, lastIncludedTerm : Nat,
                    lastIncludedPublicIndex : Nat, data : Snap]

Request == VoteRequest \cup EntriesRequest \cup SnapshotRequest

\* A slot of a goroutine that awaits one of R's replies to one of Q's requests.
Slot(Q, R) == {IdleSlot, SpawnedSlot}
              \cup [st : {"sent"}, req : Q, reply : {Nil}]
              \cup [st : {"replied"}, req : Q, reply : R]

VoteReply == [term : Nat, granted : BOOLEAN]
Hint == [index : Int, term : Int]
EntriesReply == [term : Nat, success : BOOLEAN, conflict : Hint]
SnapshotReply == [term : Nat]

VoteSlot == Slot(VoteRequest, VoteReply)
EntrySlot == Slot(EntriesRequest, EntriesReply) \cup Slot(SnapshotRequest, SnapshotReply)

\* The types of the variables: every handler leaves each of them a value the
\* Go struct could hold.
TypeOK ==
  /\ currentTerm \in [Server -> Nat]
  /\ votedFor \in [Server -> Server \cup {Nil}]
  /\ state \in [Server -> {"Follower", "Candidate", "Leader"}]
  /\ log \in [Server -> Log]
  /\ commitIndex \in [Server -> Int]
  /\ lastApplied \in [Server -> Int]
  /\ nextIndex \in [Server -> [Server -> Int]]
  /\ matchIndex \in [Server -> [Server -> Int]]
  /\ turnToLeader \in [Server -> BOOLEAN]
  /\ persisted \in [Server -> [currentTerm : Nat, votedFor : Server \cup {Nil},
                               log : Log, snapshot : Snap]]
  /\ election \in [Server -> {"idle", "asking", "won"}]
  /\ votes \in [Server -> SUBSET Server]
  /\ voteRpc \in [Server -> [Server -> VoteSlot]]
  /\ entryRpc \in [Server -> [Server -> EntrySlot]]
  /\ committer \in [Server -> {"none", "waiting", "runnable"}]
  /\ applying \in [Server -> BOOLEAN]
  /\ outbox \in [Server -> [index : Nat, cmd : Command] \cup {Nil}]
  /\ installing \in [Server -> SUBSET [index : Nat, data : Snap]]
  /\ service \in [Server -> Snap]
  /\ msgs \subseteq Request
  /\ elected \subseteq [term : Nat, leader : Server, votes : SUBSET Server]
  /\ used \in [scenario : DOMAIN Scenarios, restarts : Nat, torn : Nat, snapshots : Nat]

(***************************************************************************)
(* Elections.                                                              *)
(***************************************************************************)
\* At most one server ever becomes leader in a term, whatever the requests of
\* older elections, restarts and step-downs in between (RequestVote.go:26-268).
ElectionSafety ==
  \A e, f \in elected : e.term = f.term => e.leader = f.leader

\* votedFor is the vote of the current term (raft.go:72): within a term a vote
\* once given is neither withdrawn nor changed, not even by a crash, unless it
\* comes between the two writes of AppendEntries (AppendEntries.go:245-258).
VoteSurvives ==
  [][used'.torn = used.torn =>
       \A s \in Server : currentTerm'[s] = currentTerm[s] /\ votedFor[s] # Nil
                        => votedFor'[s] = votedFor[s]]_vars

\* currentTerm grows monotonically (raft.go:71), through crashes too.
TermsGrow == [][\A s \in Server : currentTerm'[s] >= currentTerm[s]]_vars

\* Whenever rf.mu is free, the disk holds what the memory holds: no handler
\* that changes the term, the vote or the log leaves without persist.
PersistedIsCurrent ==
  \A s \in Server : /\ persisted[s].currentTerm = currentTerm[s]
                    /\ persisted[s].votedFor = votedFor[s]
                    /\ persisted[s].log = log[s]

\* A vote of i for s in term t still counts for something: its reply waits to be
\* handled, a candidate of the term has counted it, or it made s a leader.
WaitsForHandling(i, t, s) ==
  voteRpc[s][i].st = "replied" /\ voteRpc[s][i].reply.granted /\ voteRpc[s][i].req.term = t
IsTallied(i, t, s) ==
  election[s] # "idle" /\ state[s] = "Candidate" /\ currentTerm[s] = t /\ i \in votes[s]
MadeLeader(i, t, s) == \E e \in elected : e.term = t /\ e.leader = s /\ i \in e.votes

Counts(i, t, s) == WaitsForHandling(i, t, s) \/ IsTallied(i, t, s) \/ MadeLeader(i, t, s)

\* Why elections are safe.  A vote that counts is on the voter's record or the
\* voter has moved on; nobody's votes in a term count for two candidates; a
\* candidate only waits for replies in its own term, though the requests read the
\* term late (RequestVote.go:139); leaders have majorities.
VotesOnRecord(Terms) ==
  \A i, s \in Server : \A t \in Terms :
    Counts(i, t, s) => currentTerm[i] > t \/ (currentTerm[i] = t /\ votedFor[i] = s)

VotesCountOnce(Terms) ==
  \A i, s, c \in Server : \A t \in Terms : Counts(i, t, s) /\ Counts(i, t, c) => s = c

AsksInOwnTerm ==
  \A s, i \in Server :
    /\ election[s] # "idle" /\ state[s] = "Candidate"
    /\ voteRpc[s][i].st \in {"sent", "replied"}
    => voteRpc[s][i].req.term = currentTerm[s]

WinnersHaveMajorities ==
  /\ \A s \in Server : election[s] = "won" => state[s] = "Candidate" /\ Majority(votes[s])
  /\ \A e \in elected : Majority(e.votes)

VotesAccounted(Terms) ==
  VotesOnRecord(Terms) /\ VotesCountOnce(Terms) /\ AsksInOwnTerm /\ WinnersHaveMajorities

\* The terms some server has come to.
TermsReached == UNION {1 .. currentTerm[s] : s \in Server}

\* Votes are accounted for as long as no crash has come between the two writes of
\* AppendEntries (AppendEntries.go:244-258), which clear the vote before the new
\* term is on disk.
VotesAreAccounted == used.torn = 0 => VotesAccounted(TermsReached)

(***************************************************************************)
(* Logs.                                                                   *)
(***************************************************************************)
\* The entries of a log, without the sentinel.
Held(L) == (L.lastIncludedIndex + 1) .. lastLogIndex(L)

\* If two logs agree on the term at an index, they agree on every entry up to
\* it: the consistency check and the merge of AppendEntries.
LogMatching ==
  \A s, t \in Server :
    \A k \in Indices(log[s]) \cap Indices(log[t]) :
      termAt(log[s], k) = termAt(log[t], k) =>
        \A j \in Held(log[s]) \cap Held(log[t]) :
          j <= k => At(log[s], j) = At(log[t], j)

Committed(s) == {k \in Held(log[s]) : k <= commitIndex[s]}

\* No two servers commit different entries at an index.
CommittedAgree ==
  \A s, t \in Server : \A k \in Committed(s) \cap Committed(t) :
    At(log[s], k) = At(log[t], k)

\* A leader holds every entry that a server of its term or an older one has
\* committed: the comparison of logs in RequestVote and the rule of checkCommit
\* that only entries of the own term are counted.
LeaderCompleteness ==
  \A s, t \in Server :
    state[s] = "Leader" /\ currentTerm[t] <= currentTerm[s] =>
      /\ commitIndex[t] <= lastLogIndex(log[s])
      /\ \A k \in Committed(t) \cap Held(log[s]) : At(log[s], k) = At(log[t], k)

\* commitIndex never points past the log, so applyLog finds what it applies.
CommitInLog == \A s \in Server : commitIndex[s] <= lastLogIndex(log[s])

\* The follower bounds LeaderCommit by its own last index and not by the last
\* entry of the request (AppendEntries.go:364).  That is right only because a
\* leader's request always reaches past the commit index it carries.
CommitCovered ==
  \A m \in msgs : m.type = "AppendEntries" =>
    m.leaderCommit <= m.prevLogIndex + Len(m.entries)

\* A leader that has initialised its indices never slices its log out of range
\* for a follower (AppendEntries.go:616-633), whatever hints came back.
SendInRange ==
  \A s \in Server : \A i \in Others(s) :
    state[s] = "Leader" /\ turnToLeader[s] => nextIndex[s][i] <= lastLogIndex(log[s]) + 1

\* What a leader counts on is on the follower's disk: up to matchIndex the
\* follower's log is the leader's, as long as the follower is in the same term.
\* initLeader starts from lastIncludedIndex for a follower that may have nothing;
\* checkCommit counts only what is past that (AppendEntries.go:702, 768).
MatchIndexHonest ==
  \A s \in Server : \A i \in Others(s) :
    /\ state[s] = "Leader" /\ turnToLeader[s] /\ currentTerm[i] = currentTerm[s]
    /\ matchIndex[s][i] > log[s].lastIncludedIndex
    => /\ matchIndex[s][i] <= lastLogIndex(persisted[i].log)
       /\ \A k \in Held(log[s]) \cap Held(persisted[i].log) :
            k <= matchIndex[s][i] => At(log[s], k) = At(persisted[i].log, k)

(***************************************************************************)
(* Snapshots and the service.                                              *)
(***************************************************************************)
\* The service has received every command up to its index, once and in order
\* (CommandIndex, raft.go:43).
AppliedInOrder == \A s \in Server : service[s].index = Len(service[s].cmds)

Prefix(a, b) == Len(a) <= Len(b) /\ SubSeq(b, 1, Len(a)) = a

\* Nothing is between the log of s and its service.
Settled(s) == outbox[s] = Nil /\ installing[s] = {}

\* What a service has been through depends on nothing but lastApplied, whether
\* it came as commands or, in part, as a snapshot.
ServicesAgree ==
  \A s, t \in Server :
    Settled(s) /\ Settled(t) /\ lastApplied[s] <= lastApplied[t] =>
      /\ Prefix(service[s].cmds, service[t].cmds)
      /\ lastApplied[s] = lastApplied[t] => service[s] = service[t]

\* No service is about to be sent back by a snapshot that is older than what it has
\* been given by AppendEntries meanwhile: what InstallSnapshot does not exclude
\* (AppendEntries.go:125).  A condition of theorems, not a property of the code.
NotRolledBack ==
  \A s \in Server : installing[s] # {} => lastApplied[s] <= log[s].lastIncludedIndex

\* The snapshot on disk is the one the log on disk continues.
SnapshotFitsLog ==
  \A s \in Server :
    /\ persisted[s].snapshot.index = persisted[s].log.lastIncludedPublicIndex
    /\ persisted[s].snapshot.index = Len(persisted[s].snapshot.cmds)
    /\ termAt(log[s], log[s].lastIncludedIndex) = At(log[s], log[s].lastIncludedIndex).term
=============================================================================
