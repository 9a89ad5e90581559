---------------------------- MODULE RaftLiveness ----------------------------
(***************************************************************************)
(* What the Raft servers must eventually do, and the fairness that is for. *)
(***************************************************************************)
EXTENDS RaftSafety

\* A request is sent again until it is answered in time.  A network that loses
\* some messages but not all lets the request through in the end ...
Arrive(s, i) == /\ entryRpc[s][i].st = "sent"
                /\ \E m \in msgs : m = entryRpc[s][i].req /\ Receive(m)

\* ... and one of the replies to it before the slot is given up.
HandleReply(s, i) ==
  \/ LeaderStepsDown(s, i) \/ HandleRejection(s, i) \/ HandleSuccess(s, i)
  \/ HandleInstallSnapshotReply(s, i)

Send(s, i) == entryRpc[s][i].st = "idle" /\ (SendEntries(s, i) \/ SendSnapshot(s, i))

\* applyLog, and the service at the other end of applyCh.
Apply(s) == ApplyCheck(s) \/ ApplyNext(s) \/ ReceiveCommand(s) \/ ReceiveSnapshot(s)

\* The goroutines of every server are scheduled, and get rf.mu when they keep
\* asking for it (sync.Mutex does not starve).
Fairness ==
  \A s \in Server :
    /\ WF_vars(TallyVotes(s) \/ BecomeLeader(s))
    /\ WF_vars(InitLeader(s))
    /\ SF_vars(CheckCommit(s))
    /\ WF_vars(Apply(s))
    /\ \A i \in Others(s) : /\ WF_vars(Send(s, i))
                               /\ SF_vars(Arrive(s, i)) /\ SF_vars(HandleReply(s, i))

LiveSpec == Spec /\ Fairness

\* Whatever a leader has in its log, every service receives, or the leader
\* loses its office: neither a conflict, a lost reply, a compacted log nor a
\* missed wake-up of checkCommit or applyLog stops a log from advancing.
EverythingIsApplied ==
  \A s \in Server : \A n \in DOMAIN Scenarios : \A k \in 1 .. Scenarios[n].log :
    state[s] = "Leader" /\ lastLogIndex(log[s]) >= k ~>
      state[s] # "Leader" \/ \A i \in Server : lastApplied[i] >= k /\ Settled(i)
=============================================================================
