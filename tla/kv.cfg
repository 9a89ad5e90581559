SPECIFICATION Spec
CONSTANTS
  s1 = s1
  s2 = s2
  c1 = c1
  c2 = c2
  Server = {s1, s2}
  Clerk = {c1, c2}
  Key = {"k"}
  Nil = Nil
  Candidates <- TwoLeaders
  MaxIndex = 3
  LateSnapshots = FALSE
  Scenarios <- AllScenarios
  MaxSnapshots = 1
  MaxRestarts = 1
CHECK_DEADLOCK FALSE
ACTION_CONSTRAINTS PromptSteps FailedCallsRetry TwoCallsIfFaulty DeposedByLeader
VIEW LiveState
INVARIANTS ReplicasAgree
PROPERTY Linearizable
