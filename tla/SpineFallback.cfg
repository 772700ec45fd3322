\* One writer, and one read that fails over to the receipts.
CONSTANTS
  Writers = {"w1"}
  Verdicts = {"approve", "deny"}
  Roles = {"responder"}
  EventTypes = {"investigation", "verdict"}
  Calls <- AnyCall
  MaxCalls = 2
  Attempts = 5
  FlakyReads = TRUE
  Faults = FALSE
SPECIFICATION Spec
PROPERTY DecidedStays
CHECK_DEADLOCK FALSE
