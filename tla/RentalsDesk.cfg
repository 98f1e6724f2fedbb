SPECIFICATION FairFleetSpec
CONSTANTS
  NoRow = NoRow
  Vehicles = {v1}
  Blocks = {b1, b2}
  Reservations = {r1}
  Contracts = {}
  Legs = {}
  Workers = {w1}
  Orders = {o1, o2}
  Ads = {s1}
  Stages = {"OPEN", "IN_PROGRESS"}
  Deadlines = {1, 2}
  Prep = 1
  Periods <- FirstHour
  BlockPeriods <- FirstHour
  ContractKinds = {}
  ManualStatuses = {"RELEASED", "BLOCKED"}
  Grace = 0
  Slack = 0
  Inspections = "needed"
  MaxTime = 1
  MaxEnd = 0
CHECK_DEADLOCK FALSE
INVARIANTS
  NoOverlap
  ConfirmedHoldsCar
  WorkshopHasOrder
  OrderHoldsCar
  SoldIsGone
PROPERTIES
  RequestsDoNotLinger
