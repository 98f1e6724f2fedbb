SPECIFICATION Spec
CONSTANTS
  NoRow = NoRow
  Vehicles = {v1, v2}
  Blocks = {b1, b2, b3}
  Reservations = {r1}
  Contracts = {c1}
  Legs = {g1, g2}
  Workers = {w1}
  Prep = 1
  Periods <- ThreePeriods
  BlockPeriods = {}
  ContractKinds = {"PERIOD"}
  ManualStatuses = {}
  Grace = 0
  Slack = 0
  Inspections = "needed"
  MaxTime = 2
  MaxEnd = 2
CHECK_DEADLOCK FALSE
SYMMETRY Interchangeable
INVARIANTS
  TypeOK
  ConfirmedHoldsCar
  ContractHoldsCar
  CommercialFollowsAgenda
  CheckedOutHasContract
  BilledOnce
  EarlyReturnFits
PROPERTIES
  FinishedIsFinal
  KeepsThePromise
