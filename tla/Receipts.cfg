SPECIFICATION Spec
CONSTANTS
  c1 = c1
  c2 = c2
  c3 = c3
  photo = photo
  entry = entry
  food = food
  travel = travel
  None = None
  Calls <- ThreeCalls
  Receipts <- OfBothKinds
  Manual <- Entries
  Categories <- TwoCategories
  MaxFaults = 2
INVARIANTS
  ExportedIsRecorded
  AppendedOnceApart
  LedgerAgrees
PROPERTIES
  ExportedStays
  StuckForGood
CHECK_DEADLOCK FALSE
