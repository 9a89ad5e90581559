SPECIFICATION Spec
CONSTANTS
  s1 = s1
  s2 = s2
  s3 = s3
  c1 = c1
  c2 = c2
  Server = {s1, s2, s3}
  Nil = Nil
  Command = {c1}
  NoOp = NoOp
  Preemptible = {"election"}
  Scenarios <- PreemptedElections
CHECK_DEADLOCK FALSE
VIEW LiveState
INVARIANT ElectionSafety
