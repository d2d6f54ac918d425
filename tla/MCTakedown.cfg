SPECIFICATION FairSpec
CONSTANTS
  Requests = {r1}
  PartnerOrders = {o1, o2}
  Handlers = {h1}
  Price = 1
  MaxMoves = 7
CONSTRAINTS OneMoves Unattended
ACTION_CONSTRAINT HeardMatters
INVARIANTS
  TypeOK
  AcceptedOnce
PROPERTIES
  PartnerEndsRequest
  AcceptReachesPartner
CHECK_DEADLOCK FALSE
