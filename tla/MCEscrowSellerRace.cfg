SPECIFICATION Spec
CONSTANTS
  Orders = {o1}
  Kinds = {"manual"}
  Hands = {h1, h2}
  Prices = {4}
  Discounts = {0}
  FeePercents = {0, 50}
  CashbackPercent = 50
  CommissionPercent = 60
  Tasks = {t1, t2}
  LineKeys = {"k1", "k2"}
  Funds = 5
  FundBalance = 1
  InitialStock = 1
  MaxCases = 1
  MaxExtensions = 0
INVARIANTS
  EscrowNotOverspent
CHECK_DEADLOCK FALSE
