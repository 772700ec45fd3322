\* A decision lands between the read and the write of append_event.
CONSTANTS
  Writers = {"w1", "w2"}
  Verdicts = {"approve", "deny"}
  Roles = {"responder"}
  EventTypes = {"investigation", "verdict"}
  Calls <- AnyCall
  MaxCalls = 2
  Attempts = 5
  FlakyReads = FALSE
  Faults = FALSE
SPECIFICATION Spec
PROPERTY AppendKeepsDecision
CHECK_DEADLOCK FALSE
