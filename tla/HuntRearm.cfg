\* The sweep alone: one act, one age, no fault.
CONSTANTS
  Order <- MCOrder
  AnalyzerOf <- MCAnalyzerOf
  Escalating = {"apparmor-denials", "sudo-usage"}
  Telemetry <- MCTelemetry
  LedgerOf <- MCLedgerOf
  Corpora = {"up"}
  Patterns = {"apparmor-denials"}
  MaxAlerts = 0
  MaxFaults = 0
  MaxActs = 1
  MaxAges = 1
SPECIFICATION Spec
PROPERTIES RearmWaits
CHECK_DEADLOCK FALSE
