SPECIFICATION FairSpec
CONSTANTS
  t1 = t1
  t2 = t2
  t3 = t3
  Threads <- MCThreads
  Free = Free
  Poisoned = Poisoned
  MaxDocs = 2
  MaxRequests = 3
  Places <- MCPlaces
  Qtys <- MCQtys
  Digits <- MCDigits
  Fails = TRUE
  Panics = TRUE
  Crashes = TRUE
CHECK_DEADLOCK FALSE
INVARIANT TypeOK
INVARIANT LedgerFollowsDocuments
INVARIANT DocumentsReadable
INVARIANT IdentityStays
PROPERTY RequestsEnd
