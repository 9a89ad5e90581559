SPECIFICATION Spec
CONSTANTS
  s1 = s1
  s2 = s2
  c1 = c1
  c2 = c2
  Server = {s1, s2}
  Clerk = {c1, c2}
  Key = {"k"}
  Nil = Nil
  Candidates <- TwoLeaders
  MaxIndex = 2
  LateSnapshots = FALSE
  Scenarios <- ReadWriteRead
  MaxSnapshots = 0
  MaxRestarts = 0
CHECK_DEADLOCK FALSE
ACTION_CONSTRAINTS PromptSteps DeposedByLeader
VIEW LiveState
PROPERTY Linearizable
