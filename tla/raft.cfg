SPECIFICATION Spec
CONSTANTS
  s1 = s1
  s2 = s2
  s3 = s3
  c1 = c1
  c2 = c2
  Server = {s1, s2, s3}
  Nil = Nil
  Command = {c1, c2}
  NoOp = NoOp
  Preemptible = {}
  Scenarios <- AllScenarios
CHECK_DEADLOCK FALSE
ACTION_CONSTRAINTS Schedule
VIEW LiveStateOfScenario
INVARIANTS ElectionSafety VotesAreAccounted PersistedIsCurrent
INVARIANTS CommitCovered SendInRange MatchIndexHonest LogMatching CommittedAgree
INVARIANTS LeaderCompleteness CommitInLog
INVARIANTS TypeOK SnapshotFitsLog ServicesAgree AppliedInOrder
PROPERTIES TermsGrow VoteSurvives
