SPECIFICATION Spec
CONSTANTS
  MaxConns = 2
  Requests <- MCRequests
  MaxRequests = 2
  MaxTasks = 2
  Keep <- MCKeep
  MaxNow = 1
CHECK_DEADLOCK FALSE
INVARIANT TypeOK
INVARIANT ClientsFollow
INVARIANT AnsweredOnce
INVARIANT AnswersAreKept
PROPERTY RequestsAreAnswered
