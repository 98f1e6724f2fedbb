SPECIFICATION Spec
CONSTANTS
  NoRow = NoRow
  Vehicles = {v1}
  Blocks = {b1, b2, b3}
  Reservations = {}
  Contracts = {c1, c2}
  Legs = {g1, g2}
  Workers = {w1}
  Prep = 1
  Periods <- OnePeriod
  BlockPeriods = {}
  ContractKinds = {"LONG_TERM"}
  ManualStatuses = {}
  Grace = 0
  Slack = 0
  Inspections = "needed"
  MaxTime = 2
  MaxEnd = 3
CHECK_DEADLOCK FALSE
SYMMETRY Interchangeable
INVARIANTS
  EarlyReturnFits
