SPECIFICATION Spec
CONSTANTS
  c1 = c1
  c2 = c2
  Clerk = {c1, c2}
  Nil = Nil
  AnyGet = FALSE
  NShards = 2
  Gid = {1, 2}
  Scenarios <- AllLeave
CHECK_DEADLOCK FALSE
ACTION_CONSTRAINTS PromptGroups PromptConfigs PromptReplies PromptExit
INVARIANT ServedIsCurrent
