SPECIFICATION Spec
CONSTANTS
  Stores <- MCStores
  Entries <- SameDayEntries
  Removable <- OrphanRemovable
  Refiled = {}
  Places <- MCPlaces
  Layouts = {}
  MonthOf <- MCMonthOf
  Horizon <- MCHorizon
  MaxEdits = 3
CHECK_DEADLOCK FALSE
INVARIANT LedgerMatchesDocuments
