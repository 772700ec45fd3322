\* The lab's attack, seen by both.
CONSTANTS
  Alerts <- MCAlerts
  NoHost = ""
  NoProfile = "unread"
  NoPair = "none"
  ThreatWords = "threat words"
  LiftMarks = {"threat", "authentication"}
  HighLevel = 12
  MediumLevel = 7
  MediumEscalate = {"threat", "authentication"}
  LedgerOf <- MCLedgerOf
  TierOf <- MCTierOf
  MaxArrivals = 2
  MaxSweeps = 1
  MaxFaults = 0
  MaxActs = 1
  Down = {"web"}
SPECIFICATION Spec
INVARIANT LabNeverEscalates
CHECK_DEADLOCK FALSE
