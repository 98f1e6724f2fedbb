SPECIFICATION Spec
CONSTANTS
  NoRow = NoRow
  Products = {p1}
  Locations = {l1, l2}
  Keys = {k1}
  Orders = {o1}
  Counts = {c1}
  Workers = {w1, w2}
  Types = {"MANUAL_IN", "LOSS", "ADJUSTMENT"}
  Quantities = {1}
  Ordered = {2}
  Counted = {1}
  Costs = {10, 31}
  MaxStock = 2
CHECK_DEADLOCK FALSE
SYMMETRY Alike
INVARIANTS
  StockTypeOK
  WorthIsCost
  EntriesAreBilled
PROPERTIES
  KeepsTheShelves
