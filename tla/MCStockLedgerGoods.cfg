SPECIFICATION Spec
CONSTANTS
  Stores <- MCStores
  Entries <- ForwardEntries
  Removable <- ForwardRemovable
  Refiled = {}
  Places <- MCPlaces
  Layouts <- MCLayouts
  MonthOf <- MCMonthOf
  Horizon <- MCHorizon
  MaxEdits = 2
CHECK_DEADLOCK FALSE
INVARIANT GoodsListIsCurrent
