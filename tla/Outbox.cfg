SPECIFICATION FairSpec
CONSTANTS
  NoRow = NoRow
  Replicas = {r1, r2}
  Alerts = {a1}
  Channels = {"WEBHOOK"}
  Endpoints = {e1, e2}
  MaxAttempts = 5
INVARIANTS
  OutboxTypeOK
  SentWasAccepted
  FailedWasTried
PROPERTIES
  SettledStays
  AlertsArrive
