SPECIFICATION FairSpec
CONSTANTS
  Orders = {o1}
  Goods = {"stock", "proxy"}
  Windows = {TRUE, FALSE}
  Lines = {l1, l2}
  Total = 3
  MaxCases = 2
  MaxExtensions = 1
INVARIANTS
  TypeOK
  SellerGetsTheRest
  LinesFitEscrow
  OfferCoversClaims
PROPERTIES
  CasesEnd
CHECK_DEADLOCK FALSE
