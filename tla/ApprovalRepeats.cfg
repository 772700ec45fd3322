\* Two alerts of one rule, each in a case of its own, with nothing failing.
CONSTANTS
  Tickets = {1, 2}
  Approvals = {}
  Cases = {"case", "other"}
  CaseOf <- OwnCase
  Title <- OneTitle
  Limit = 1
  Nested = {}
  Protected = {}
  Responders = {r1}
  Steps = 1
  FlakyLookup = FALSE
  MaxRulings = 0
  MaxFaults = 0
  MaxCrashes = 0
  r1 = r1
  r2 = r2
SPECIFICATION Spec
INVARIANTS DecisionReachesCase
CHECK_DEADLOCK FALSE
