SPECIFICATION Spec
CONSTANTS
  Requests = {r1}
  PartnerOrders = {o1}
  Handlers = {h1, h2}
  Price = 1
  MaxMoves = 6
SYMMETRY Alike
CONSTRAINT Plain
ACTION_CONSTRAINT HeardMatters
INVARIANTS
  MoneyFollowsPartner
  HeldMoneyIsWatched
PROPERTIES
  KeepsContract
CHECK_DEADLOCK FALSE
