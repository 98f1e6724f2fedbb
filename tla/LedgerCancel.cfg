SPECIFICATION Spec
CONSTANTS
  NoRow = NoRow
  Titles = {t1}
  Payments = {p1}
  Keys = {k1}
  Workers = {w1, w2}
  TitleAmounts = {2}
  PaidAmounts = {1, 2}
CHECK_DEADLOCK FALSE
SYMMETRY Alike
INVARIANTS
  CancelledIsUnpaid
