SPECIFICATION Spec
CONSTANTS
  MaxMails = 2
  MaxRuns = 2
  Authors <- MCAuthors
  Subjects <- MCSubjects
  Openings <- MCOpenings
  Transport = "smtp"
  MaxFaults = 1
INVARIANT ReplyIsRecorded
CHECK_DEADLOCK FALSE
