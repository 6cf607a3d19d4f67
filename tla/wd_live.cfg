SPECIFICATION FairSpec
CONSTANTS
  Requests = {}
  Kept = {k1}
  Outcomes <- OwnSuccess
  Networks = {"EVM"}
  Target = 2
  Ticks = {t1, t2}
  Jobs = {j1, j2}
  NoJob = NoJob
  Aging = {k1}
  MaxFaults = 1
  MaxRestarts = 1
PROPERTIES
  KnownJobEnds
  SettledIsDecided
CHECK_DEADLOCK FALSE
