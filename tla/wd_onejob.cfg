SPECIFICATION Spec
CONSTANTS
  Requests = {}
  Kept = {k1}
  Outcomes <- OwnOutcomes
  Networks = {"EVM"}
  Target = 2
  Ticks = {t1, t2}
  Jobs = {j1, j2}
  NoJob = NoJob
  Aging = {}
  MaxFaults = 0
  MaxRestarts = 0
INVARIANT OneJobAtATime
CHECK_DEADLOCK FALSE
