SPECIFICATION FairSpec
CONSTANTS
  t1 = t1
  t2 = t2
  Tasks <- MCTasks
  Nobody = Nobody
  User = User
  SavesFail = TRUE
  Unexpected = TRUE
  MaxPatches = 5
  MaxRestarts = 2
CHECK_DEADLOCK FALSE
INVARIANT TypeOK
INVARIANT OneTask
INVARIANT AtMostOneLateEvent
INVARIANT PhaseMayTellTask
PROPERTY RestartKeepsSwitch
PROPERTY SwitchingEnds
