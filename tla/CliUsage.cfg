SPECIFICATION Spec
CONSTANTS
  Texts <- SomeTexts
  Times <- GoodTexts
  Numbers <- GoodTexts
  MaxSettings = 2
  MaxRest = 2
INVARIANTS
  UsageOrderReachesCall
CHECK_DEADLOCK FALSE
