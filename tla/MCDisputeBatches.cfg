SPECIFICATION Spec
CONSTANTS
  Orders = {o1, o2}
  Goods = {"proxy"}
  Windows = {TRUE}
  Lines = {l1, l2}
  Total = 2
  MaxCases = 1
  MaxExtensions = 1
SYMMETRY OrderSymmetry
CONSTRAINTS BatchMatters ExtensionMatters WholeClaims
PROPERTIES
  JobsRespectPeople
  OnlyOldViewsMisjudge
CHECK_DEADLOCK FALSE
