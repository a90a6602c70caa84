SPECIFICATION Spec
CONSTANTS
  MaxMails = 3
  MaxRuns = 2
  Authors <- MCAuthors
  Subjects <- MCSubjects
  Openings <- MCOpenings
  Transport = "smtp"
  MaxFaults = 1
INVARIANTS
  TypeOK
  ExchangeStaysTogether
  StaysAmongItsOwn
  StatusIsTrue
CHECK_DEADLOCK FALSE
