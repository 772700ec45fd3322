\* A run the operator approved, in the shape EscalationClient files tickets in.
CONSTANTS
  Tickets = {1, 2}
  Approvals = {2}
  Cases = {"case"}
  CaseOf <- OneCase
  Title <- TwoTitles
  Limit = 2
  Nested = {}
  Protected = {}
  Responders = {r1}
  Steps = 1
  FlakyLookup = FALSE
  MaxRulings = 2
  MaxFaults = 0
  MaxCrashes = 0
  r1 = r1
  r2 = r2
SPECIFICATION Spec
PROPERTIES NoTicketForApproved
CHECK_DEADLOCK FALSE
