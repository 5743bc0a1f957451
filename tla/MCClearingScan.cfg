CONSTANTS
  MaxSchedulePoints = 3
  MaxUnitPrice = 7
  MaxQty = 4
  Views <- AllViews
  PoolFloors <- AllFloors
  Fees = {0, 4000}
SPECIFICATION ScanSpec
INVARIANTS MatchesClear MinimalPrice
PROPERTIES Terminates
CHECK_DEADLOCK FALSE
