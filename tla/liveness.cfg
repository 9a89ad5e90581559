SPECIFICATION LiveSpec
CONSTANTS
  s1 = s1
  s2 = s2
  c1 = c1
  Server = {s1, s2}
  Nil = Nil
  Command = {c1}
  NoOp = NoOp
  Preemptible = {}
  Scenarios <- OneLeaderOneCommand
CHECK_DEADLOCK FALSE
PROPERTY EverythingIsApplied
