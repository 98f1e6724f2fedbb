SPECIFICATION FairWebhookSpec
CONSTANTS
  NoRow = NoRow
  Titles = {t1}
  Payments = {p1, p2}
  Keys = {k1, e1}
  Events = {e1}
  Workers = {w1, w2}
  TitleAmounts = {2}
  PaidAmounts = {1, 2}
CHECK_DEADLOCK FALSE
INVARIANTS
  WebhookTypeOK
  EventPaysOnce
PROPERTIES
  EventsLand
  KeepsTheBooks
