SPECIFICATION FairSpec
CONSTANTS
  s1 = s1
  s2 = s2
  c1 = c1
  c2 = c2
  Server = {s1, s2}
  Client = {c1, c2}
  Nil = Nil
  NShards = 5
  Gid = {1, 2, 3}
  Candidates <- TwoLeaders
  MaxIndex = 4
  Programs <- AllPrograms
  MaxCalls <- FourAndOne
  MaxShutdowns = 1
  MaxCuts = 1
CHECK_DEADLOCK FALSE
ACTION_CONSTRAINTS Within Faultless PromptSteps DeposedByLeader
INVARIANTS ReplicasAgree
PROPERTIES HistoryIsAtomic EveryCallReturns
