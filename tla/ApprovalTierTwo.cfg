\* One approved case, its approval ticket, and the supervisory timer.
CONSTANTS
  Tickets = {1, 2}
  Approvals = {2}
  Cases = {"case"}
  CaseOf <- OneCase
  Title <- TwoTitles
  Limit = 1
  Nested = {}
  Protected = {}
  Responders = {r1}
  Steps = 1
  FlakyLookup = FALSE
  MaxRulings = 0
  MaxFaults = 0
  MaxCrashes = 0
  r1 = r1
  r2 = r2
SPECIFICATION Spec
PROPERTIES TierTwoNeedsHuman
CHECK_DEADLOCK FALSE
