SPECIFICATION FairSpec
CONSTANTS
  Orders = {o1}
  Kinds = {"instant", "manual", "network", "catalog", "inline", "task"}
  Hands = {}
  Prices = {4}
  Discounts = {0, 1}
  FeePercents = {0, 50}
  CashbackPercent = 50
  CommissionPercent = 60
  Tasks = {t1, t2, t3}
  LineKeys = {"k1", "k2"}
  Funds = 5
  FundBalance = 1
  InitialStock = 1
  MaxCases = 2
  MaxExtensions = 1
INVARIANTS
  TypeOK
  EscrowNotOverspent
  RewardsOnlyOnSettledSales
PROPERTIES
  CaseFreezesEscrow
  ClosedStaysClosed
  UnattendedOrderSettles
CHECK_DEADLOCK FALSE
