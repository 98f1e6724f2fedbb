SPECIFICATION DepositSpec
CONSTANTS
  NoRow = NoRow
  Titles = {t1}
  Payments = {p1, p2}
  Keys = {k1, e1, e2, e3}
  Workers = {w1, w2}
  TitleAmounts = {2}
  PaidAmounts = {1, 2}
  SecurityDeposits = {d1}
  Entries = {e1, e2, e3}
CHECK_DEADLOCK FALSE
SYMMETRY Alike
INVARIANTS
  DepositTypeOK
  LockedCopyIsFresh
  TitleTellsPayments
  RequestsAreCovered
  DeductionsReachTitles
  StatusFollowsBalance
PROPERTIES
  PaidWithinBalance
