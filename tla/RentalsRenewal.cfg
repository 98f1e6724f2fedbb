SPECIFICATION Spec
CONSTANTS
  NoRow = NoRow
  Vehicles = {v1, v2}
  Blocks = {b1, b2, b3, b4}
  Reservations = {}
  Contracts = {c1, c2, c3}
  Legs = {g1, g2, g3, g4}
  Workers = {w1}
  Prep = 1
  Periods <- FirstPeriod
  BlockPeriods <- FirstPeriod
  ContractKinds = {"LONG_TERM"}
  ManualStatuses = {}
  Grace = 0
  Slack = 0
  Inspections = "deliveries"
  MaxTime = 0
  MaxEnd = 3
CHECK_DEADLOCK FALSE
SYMMETRY Interchangeable
INVARIANTS
  ContractHoldsCar
  RenewedOnce
