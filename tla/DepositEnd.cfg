SPECIFICATION DepositSpec
CONSTANTS
  NoRow = NoRow
  Titles = {t1}
  Payments = {p1}
  Keys = {e1}
  Workers = {w1}
  TitleAmounts = {1}
  PaidAmounts = {1}
  SecurityDeposits = {d1}
  Entries = {e1}
CHECK_DEADLOCK FALSE
SYMMETRY Alike
INVARIANTS
  StatusIsDerived
