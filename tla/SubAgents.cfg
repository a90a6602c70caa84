CONSTANTS
  Turns = {t1}
  MaxCalls = 2
  Tools = {crm, followup}
  CrmTool = crm
  Contacts = {ann, bob}
  NoContact = NoContact
  Requests <- MCRequests
  MaxFaults = 2
SPECIFICATION Spec
INVARIANTS TypeOK WritesAreMeant ToldTheTruth
SYMMETRY Symmetry
CHECK_DEADLOCK FALSE
