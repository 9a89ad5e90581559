------------------------------- MODULE MCRaft -------------------------------
(***************************************************************************)
(* Raft and its properties for TLC.                                        *)
(***************************************************************************)
EXTENDS RaftSafety

CONSTANTS s1, s2, s3, c1, c2

\* A leader for term 2 and another for term 3.
TwoLeaders == {<<2, s1>>, <<3, s2>>}
\* A single leader, for term 2.
OneLeader == {<<2, s1>>}

\* Nothing but elections, in two terms.
ElectionsOf(candidates) ==
  [candidates |-> candidates, senders |-> {}, appliers |-> {}, commands |-> {},
   log |-> 0, requests |-> 0, restarts |-> 0, torn |-> 0, snapshots |-> 0]

Leading(s) == state[s] = "Leader"

\* Scheduling bound of the replication runs: while a server asks for votes
\* nothing but its election happens.  The election runs have no such bound.
ElectionsUndisturbed ==
  (\E s \in Server : election[s] # "idle") =>
     /\ UNCHANGED <<leaderVars, commitIndex, lastApplied, committer, applyVars, used>>
     /\ log' # log => elected' # elected
     /\ \A s, t \in Server : election'[s] # "idle" /\ election'[t] # "idle" => s = t

\* Scheduling bound of the runs without preemption: a server between two of its
\* own steps, which no handler of it may separate, makes the second one next.
LocalStepsFirst ==
  LET local(s) == <<election[s], applying[s], outbox[s], installing[s]>>
      middle == {s \in Server : election[s] = "won" \/ applying[s]
                                \/ outbox[s] # Nil \/ installing[s] # {}}
  IN  middle # {} => \E s \in middle : local(s)' # local(s)

\* Workload bound: the command a leader starts at index 2 is c1, later ones are
\* c2.  Commands are interchangeable: it matters that two can be told apart.
TwoCommands ==
  \A s \in Server :
    Leading(s) /\ Len(log'[s].logs) = Len(log[s].logs) + 1 =>
      log'[s].logs[Len(log'[s].logs)].cmd
        = IF lastLogIndex(log'[s]) = 2 THEN c1 ELSE c2

\* Network bound of the snapshot runs: the leader s1 does not reach s2 before
\* some service has taken a snapshot, the case InstallSnapshot is for.
PartitionedUntilSnapshot == used.snapshots = 0 => entryRpc'[s1][s2] = IdleSlot

\* Network bound of the replication runs: the leader of term 2 does not reach
\* the leader of term 3, whose log therefore conflicts with the others'.
PartitionedFromNextLeader == entryRpc'[s1][s2] = IdleSlot

\* Network bound of the runs in which a snapshot meets entries: the leader s1
\* fills and commits its log with s3 before it reaches s2.
PartitionedUntilCommit == commitIndex[s1] < Bound.log => entryRpc'[s1][s2] = IdleSlot

\* The instances of the two runs with a seam open or a link cut.
PreemptedElections == [preempted |-> ElectionsOf(TwoLeaders)]
SnapshotAfterEntries ==
  [rollback |-> [candidates |-> OneLeader, senders |-> {s1}, appliers |-> {s1, s2},
                 commands |-> {c1, c2}, log |-> 3, requests |-> 5, restarts |-> 0,
                 torn |-> 0, snapshots |-> 1]]

\* The state without what no later step can read: the RPCs and the indices of a
\* server that is no longer the leader of their term.
LiveRpc(s, i) ==
  IF Leading(s) /\ entryRpc[s][i].req # Nil /\ entryRpc[s][i].req.term = currentTerm[s]
    THEN entryRpc[s][i] ELSE IdleSlot
LiveState ==
  <<currentTerm, votedFor, state, log, commitIndex, lastApplied, persisted,
    election, votes, voteRpc, committer, applyVars, msgs, used,
    {<<e.term, e.leader>> : e \in elected},
    [s \in Server |-> Leading(s) /\ turnToLeader[s]],
    [s \in Server |-> [i \in Server |-> LiveRpc(s, i)]],
    matchIndex,
    [s \in Server |-> IF Leading(s) /\ turnToLeader[s] THEN nextIndex[s] ELSE <<>>]>>
=============================================================================
