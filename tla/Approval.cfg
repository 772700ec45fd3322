\* One case, two alerts on it and the tier-2 run of its playbook, between the sweep,
\* the operator and two responders; each side has one fault to spend.
CONSTANTS
  Tickets = {1, 2, 3}
  Approvals = {3}
  Cases = {"case"}
  CaseOf <- OneCase
  Title <- TwoTitles
  Limit = 2
  Nested = {3}
  Protected = {}
  Responders = {r1, r2}
  Steps = 1
  FlakyLookup = TRUE
  MaxRulings = 1
  MaxFaults = 1
  MaxCrashes = 1
  r1 = r1
  r2 = r2
SYMMETRY Alike
SPECIFICATION Spec
INVARIANTS ExecutionIsPaid DenialIsAuthority OrphansArePaid
CHECK_DEADLOCK FALSE
