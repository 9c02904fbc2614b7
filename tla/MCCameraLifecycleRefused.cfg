SPECIFICATION Spec
CONSTANTS
  t1 = t1
  t2 = t2
  Tasks <- MCTasks
  Nobody = Nobody
  User = User
  SavesFail = FALSE
  Unexpected = TRUE
  MaxPatches = 3
  MaxRestarts = 0
CHECK_DEADLOCK FALSE
INVARIANT PhaseTellsTask
