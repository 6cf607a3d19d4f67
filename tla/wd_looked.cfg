SPECIFICATION FairSpec
CONSTANTS
  Requests = {w1}
  Kept = {}
  Outcomes <- OwnOutcomes
  Networks = {"Bitcoin", "BEP2"}
  Target = 2
  Ticks = {t1, t2}
  Jobs = {j1, j2}
  NoJob = NoJob
  Aging = {}
  MaxFaults = 0
  MaxRestarts = 1
PROPERTY SavedIsLookedAt
CHECK_DEADLOCK FALSE
