SPECIFICATION FairSpec
CONSTANTS
  api = api
  worker = worker
  NoProc = NoProc
  Procs <- MCProcs
  Ingress <- MCIngress
  MaxJobs = 2
  Unparseable <- Bad
  MaxAttempts = 2
  MaxClaims = 3
  SweepLimit = 1
  MaxFaults = 1
  RunsWithinLease = TRUE
INVARIANTS
  ExclusiveRun
  DeliveryBounded
PROPERTIES
  SettledStays
  ImplementsLedger
