SPECIFICATION MCSpec
CONSTANTS
  Accounts = {a1}
  i1 = i1
  i2 = i2
  t1 = t1
  p1 = p1
  d1 = d1
  Intents = {i1, i2}
  Legacy = {i1}
  Transfers = {t1, t2}
  Payments = {p1, p2}
  Destinations = {d1, d2}
  Amounts = {1, 2}
  Sharing = {TRUE, FALSE}
  MaxRailChanges = 2
  CreatedAt <- MCCreatedAt
  PendingBatch = 1
  RetainedBatch = 1
CONSTRAINTS OneRail PlainAmounts OnePayment NamesAgree
INVARIANTS
  TypeOK
  TransferCreditedOnce
  QueueIsUncredited
  IntentBacked
PROPERTIES
  PaidIsFinal
  MoneyIsFound
CHECK_DEADLOCK FALSE
