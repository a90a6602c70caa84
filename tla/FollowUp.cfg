SPECIFICATION Spec
CONSTANTS
  c1 = c1
  c2 = c2
  c3 = c3
  c4 = c4
  r1 = r1
  r2 = r2
  None = None
  Calls <- FourCalls
  Recs <- TwoRecs
  MaxFaults = 1
SYMMETRY Symmetry
INVARIANTS
  DeliveredOnceApart
  SentWasDelivered
  OneToActOnApart
PROPERTY
  SettledForGood
CHECK_DEADLOCK FALSE
