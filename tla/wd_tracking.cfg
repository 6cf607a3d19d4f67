SPECIFICATION Spec
CONSTANTS
  Requests = {w1}
  Kept = {k1}
  Outcomes <- SomeOutcomes
  Networks = {"Bitcoin", "EVM"}
  Target = 2
  Ticks = {t1, t2}
  Jobs = {j1, j2}
  NoJob = NoJob
  MaxFaults = 0
  Aging = {}
  MaxRestarts = 1
SYMMETRY Permuted
INVARIANTS
  TypeOK
  DecidedByChain
  KnownJobAwaited
PROPERTIES
  DecisionIsFinal
  ImplementsFollowUp
CHECK_DEADLOCK FALSE
