\* Three kinds of alert, one of which arrives twice or two of which once; the sweep goes
\* over one; one fault, one human act, one case grown old.
CONSTANTS
  Alerts <- MCAlerts
  NoHost = ""
  NoProfile = "unread"
  NoPair = "none"
  ThreatWords = "threat words"
  LiftMarks = {"threat", "authentication"}
  HighLevel = 12
  MediumLevel = 7
  MediumEscalate = {"threat", "authentication"}
  LedgerOf <- MCLedgerOf
  TierOf <- MCTierOf
  MaxArrivals = 2
  MaxSweeps = 1
  MaxFaults = 1
  MaxActs = 1
  Down = {"web"}
SPECIFICATION Spec
INVARIANTS SuppressedIsQuiet TwinsAreRaces
PROPERTIES OpenedIsTold InfraIsServed
CHECK_DEADLOCK FALSE
