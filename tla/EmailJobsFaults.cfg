SPECIFICATION FairSpec
CONSTANTS
  api = api
  worker = worker
  NoProc = NoProc
  Procs <- MCProcs
  Ingress <- MCIngress
  MaxJobs = 1
  Unparseable = {}
  MaxAttempts = 3
  MaxClaims = 6
  SweepLimit = 1
  MaxFaults = 2
  RunsWithinLease = FALSE
INVARIANTS
  AttemptsBounded
  ReplySentIsTrue
PROPERTIES
  EveryJobSettles
