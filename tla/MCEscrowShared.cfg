SPECIFICATION Spec
CONSTANTS
  Orders = {o1, o2}
  Kinds = {"instant", "manual", "network", "catalog", "inline"}
  Hands = {h1}
  Prices = {3}
  Discounts = {1}
  FeePercents = {60}
  CashbackPercent = 50
  CommissionPercent = 60
  Tasks = {t1}
  LineKeys = {"k1", "k2"}
  Funds = 4
  FundBalance = 1
  InitialStock = 1
  MaxCases = 1
  MaxExtensions = 0
SYMMETRY OrderSymmetry
CONSTRAINT NoSellerOvertaken
INVARIANTS
  OrderBooks
  PlatformBooks
  StockConservation
PROPERTIES
  KeepsContract
CHECK_DEADLOCK FALSE
