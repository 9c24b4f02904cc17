SPECIFICATION Spec
CONSTANTS
  Texts <- SomeTexts
  Times <- GoodTexts
  Numbers <- GoodTexts
  MaxSettings = 2
  MaxRest = 2
INVARIANTS
  TypeOK
  FlagsFirstReachesCall
  NoCallUnlessMeant
CHECK_DEADLOCK FALSE
