SPECIFICATION Spec
CONSTANTS
  s1 = s1
  s2 = s2
  s3 = s3
  c1 = c1
  c2 = c2
  Server = {s1, s2, s3}
  Nil = Nil
  Command = {c1, c2}
  NoOp = NoOp
  Preemptible = {}
  Scenarios <- SnapshotAfterEntries
CHECK_DEADLOCK FALSE
ACTION_CONSTRAINTS ElectionsUndisturbed LocalStepsFirst TwoCommands PartitionedUntilCommit
VIEW LiveState
INVARIANT ServicesAgree
