SPECIFICATION FairSpec
CONSTANTS
  Stores <- MCStores
  Entries <- ToAndFroEntries
  Removable <- CircularRemovable
  Refiled <- ToAndFroRefiled
  Places <- MCPlaces
  Layouts = {}
  MonthOf <- MCMonthOf
  Horizon <- MCHorizon
  MaxEdits = 4
CHECK_DEADLOCK FALSE
INVARIANT CheckpointsAreSums
INVARIANT IndexMirrorsMain
PROPERTY EditsAreRecorded
