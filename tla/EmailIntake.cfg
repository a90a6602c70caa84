SPECIFICATION IntakeSpec
CONSTANTS
  api1 = api1
  api2 = api2
  m1 = m1
  m2 = m2
  m3 = m3
  None = None
  Servers <- TwoServers
  Emails <- ThreeEmails
  WithId <- OneId
  MaxRequests = 4
  CacheLimit = 2
  CacheSlack = 1
  MaxFaults = 1
  EvictsSettled = TRUE
INVARIANTS
  OneJobPerServer
  ReceivedIsKept
SYMMETRY Symmetry
CHECK_DEADLOCK FALSE
