SPECIFICATION FairSpec
CONSTANTS
  Orders = {o1}
  Slots = {s1, s2}
  Sweeps = {j1, j2}
  Price = 3
  Quantity = 2
  Cost = 2
  Charges = {1, 2}
  Funds = 3
  Partial = TRUE
  MaxRetries = 1
  MaxTopUps = 1
INVARIANTS
  GoodsOrMoney
  BoughtOnce
  LossIsReported
PROPERTIES
  ChargedOrderEnds
CHECK_DEADLOCK FALSE
