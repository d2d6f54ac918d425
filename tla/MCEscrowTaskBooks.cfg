SPECIFICATION Spec
CONSTANTS
  Orders = {o1}
  Kinds = {"task"}
  Hands = {}
  Prices = {4}
  Discounts = {0, 1}
  FeePercents = {0, 50}
  CashbackPercent = 50
  CommissionPercent = 60
  Tasks = {t1, t2, t3}
  LineKeys = {"k1", "k2"}
  Funds = 5
  FundBalance = 1
  InitialStock = 1
  MaxCases = 1
  MaxExtensions = 1
INVARIANTS
  OrderBooks
CHECK_DEADLOCK FALSE
