SPECIFICATION Spec
CONSTANTS
  Stores <- MCStores
  Entries <- ForwardEntries
  Removable <- ForwardRemovable
  Refiled = {}
  Places <- MCPlaces
  Layouts <- MCLayouts
  MonthOf <- MCMonthOf
  Horizon <- MCHorizon
  MaxEdits = 4
CHECK_DEADLOCK FALSE
INVARIANT TypeOK
INVARIANT BalancesAreCurrent
INVARIANT SplitsAreFifo
INVARIANT ShortCountsAreMet
INVARIANT LedgerMatchesDocuments
INVARIANT StockIsConserved
INVARIANT StockListIsCurrent
INVARIANT ReportsAddUp
INVARIANT ViewCountsOnce
