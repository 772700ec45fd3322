\* One rule, the sweep, an operator at the console and one in a shell; three writes between
\* them and one failure.
CONSTANTS
  Alerts <- MCAlerts
  NoHost = ""
  NoProfile = "unread"
  ThreatWords = "threat"
  LiftMarks = {"threat"}
  HighLevel = 12
  Sweeps = {"sweep"}
  Consoles = {"console"}
  Operators = {"shell"}
  Rules = {"dpkg", "apparmor"}
  ScriptsOf <- MCScriptsOf
  Excluded = {"vault"}
  Narrowed <- MCNarrowed
  Loose <- MCLoose
  FirstEntries <- MCFirstEntries
  Rulings = {"auto_fp", "escalate"}
  MaxWrites = 3
  MaxLapses = 1
SPECIFICATION Spec
INVARIANTS SuppressionIsHuman ScopeStands
PROPERTIES DecisionSettles
CHECK_DEADLOCK FALSE
