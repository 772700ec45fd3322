\* Two mutations whose reads precede both writes: both return normally.
CONSTANTS
  Writers = {"w1", "w2"}
  Verdicts = {"approve", "deny"}
  Roles = {"responder"}
  EventTypes = {"investigation", "verdict"}
  Calls <- AnyCall
  MaxCalls = 2
  Attempts = 5
  FlakyReads = FALSE
  Faults = FALSE
SPECIFICATION Spec
INVARIANT NoSilentDiscard
CHECK_DEADLOCK FALSE
