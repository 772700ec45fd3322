\* One process at a time and a store that answers: the machine, exactly.
CONSTANTS
  Writers = {"w1"}
  Verdicts = {"approve", "deny"}
  Roles = {"responder"}
  EventTypes = {"investigation", "verdict"}
  Calls <- AnyCall
  MaxCalls = 4
  Attempts = 2
  FlakyReads = FALSE
  Faults = TRUE
SPECIFICATION Spec
INVARIANT OneStory
PROPERTIES ImplementsMachine
CHECK_DEADLOCK FALSE
