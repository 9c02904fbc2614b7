SPECIFICATION Spec
CONSTANTS
  Drugs <- MCDrugs
  Words <- MCWords
  Plain <- MCPlain
  PageSizes <- MCPageSizes
  None = None
  Malformed = Malformed
  Catalog <- MCCatalog
  Versions <- MCVersions
  MaxSaves = 4
CHECK_DEADLOCK FALSE
INVARIANT TypeOK
INVARIANT LedgerIsOfLastSave
INVARIANT DrugsAreFound
