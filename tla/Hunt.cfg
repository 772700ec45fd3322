\* Two hunts, one pattern alert, one fault, one act, one age; the corpus is configured.
CONSTANTS
  Order <- MCOrder
  AnalyzerOf <- MCAnalyzerOf
  Escalating = {"apparmor-denials", "sudo-usage"}
  Telemetry <- MCTelemetry
  LedgerOf <- MCLedgerOf
  Corpora = {"up"}
  Patterns = {"apparmor-denials"}
  MaxAlerts = 1
  MaxFaults = 1
  MaxActs = 1
  MaxAges = 1
SPECIFICATION Spec
INVARIANTS TicketsArePaid TwinsAreExcused
PROPERTIES SuspicionIsTold
CHECK_DEADLOCK FALSE
