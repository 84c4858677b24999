SPECIFICATION Spec
CONSTANTS
  u = u  a = a  p1 = p1  h1 = h1  h2 = h2  h3 = h3  h4 = h4
  User = {u, a}
  Admin = {u, a}
  Product = {p1}
  Creator = {h1, h2}
  Changer = {h3, h4}
  Baskets <- MCBaskets
  InitialStock <- MCStock
  Listed = {p1}
  MaxUses = 1
  MaxSupply = 1
  MaxChanges = 1
  MaxRequests = 3
  Free = Free
SYMMETRY Symmetric
INVARIANTS TypeOK StockAccounting PromoAccounting UnlockedChecksHold
PROPERTY CanceledIsFinal
CHECK_DEADLOCK FALSE
