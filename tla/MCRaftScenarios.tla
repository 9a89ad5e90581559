--------------------------- MODULE MCRaftScenarios ---------------------------
(***************************************************************************)
(* Four bounded instances of Raft in one run.  A behaviour belongs to one  *)
(* of them, its scenario, and keeps within the bounds of that scenario.    *)
(***************************************************************************)
EXTENDS MCRaft

\* The scenarios: two servers compete in each of two terms; two leaders replicate
\* their no-ops among crashes; two leaders replicate a command; one leader replicates
\* two commands to a server that is behind a snapshot.
AllScenarios == [
  elections |-> ElectionsOf((2 .. 3) \X {s1, s2}),
  crashes   |-> [ElectionsOf(TwoLeaders) EXCEPT
                   !.senders = {s1, s2}, !.requests = 2, !.restarts = 1, !.torn = 1],
  replication |-> [ElectionsOf(TwoLeaders) EXCEPT
                     !.senders = {s1, s2}, !.commands = {c1}, !.log = 2, !.requests = 3],
  snapshots |-> [ElectionsOf(OneLeader) EXCEPT
                   !.senders = {s1}, !.appliers = {s1, s2}, !.commands = {c1, c2},
                   !.log = 3, !.requests = 4, !.snapshots = 2]]

scenario == used.scenario

\* The scheduling and network bounds of the larger scenarios.
Schedule ==
  /\ scenario \in {"replication", "snapshots"} => ElectionsUndisturbed
  /\ scenario = "replication" => PartitionedFromNextLeader
  /\ scenario = "snapshots" => LocalStepsFirst /\ TwoCommands /\ PartitionedUntilSnapshot

\* Whose votes made a leader matters in the elections.
LiveStateOfScenario ==
  <<LiveState, IF scenario = "elections" THEN elected ELSE {}>>
=============================================================================
