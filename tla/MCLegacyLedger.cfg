SPECIFICATION Spec
CONSTANTS
  Threads = {t1, t2}
  None = None
  Gone = Gone
  Days <- MCDays
  Asked <- MCAsked
  Versions <- MCVersions
  MonthLength = 3
  MaxChanges = 3
SYMMETRY Symmetry
CHECK_DEADLOCK FALSE
INVARIANT TypeOK
INVARIANT MemosFollowDocuments
INVARIANT CheckpointsFollowDocuments
INVARIANT TurnoversAreBounded
