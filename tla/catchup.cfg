SPECIFICATION Spec
CONSTANTS
  Command = {c1}
  NoOp = NoOp
  MaxTerm = 4
  MaxLength = 5
CHECK_DEADLOCK FALSE
INVARIANTS LogsMatch PublicIndicesAgree
PROPERTIES AgreedEntriesStay CatchesUp
