--------------------------- MODULE MCRaftLiveness ---------------------------
(***************************************************************************)
(* Two Raft servers under fairness.                                        *)
(***************************************************************************)
EXTENDS RaftLiveness

CONSTANTS s1, s2, c1

\* s1 may lead term 2, and is a follower if it restarts.
OneLeaderOneCommand ==
  [fair |-> [candidates |-> {<<2, s1>>}, senders |-> {s1}, appliers |-> {s1, s2},
             commands |-> {c1}, log |-> 2, requests |-> 20, restarts |-> 1,
             torn |-> 0, snapshots |-> 1]]
=============================================================================
