SPECIFICATION Spec
CONSTANTS
  Accounts = {a1, a2}
  Requests = {r1, r2, old}
  Legacy = {old}
  Commissions = {c1, c2}
  Amounts = {1, 2}
  FeePolicies <- SomeFees
  MinAmount = 1
  SellerLimit = 1
  MaxMoney = 3
SYMMETRY Symmetry
INVARIANTS
  TypeOK
  LockedForOpenRequests
  LockedMoneyGoesOneWay
  NonSellersTakeOnlyCommission
  PlatformBooks
PROPERTIES
  DecisionsStand
CHECK_DEADLOCK FALSE
