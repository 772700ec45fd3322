\* Two processes race two calls; reads fail over to receipts, calls die anywhere.
CONSTANTS
  Writers = {"w1", "w2"}
  Verdicts = {"approve", "deny"}
  Roles = {"responder"}
  EventTypes = {"investigation", "verdict"}
  Calls <- AnyCall
  MaxCalls = 2
  Attempts = 2
  FlakyReads = TRUE
  Faults = TRUE
SPECIFICATION FairSpec
INVARIANTS TypeOK RecordsKept DecisionKept WriteAhead BlockHasEvent
PROPERTIES EveryCallReturns
CHECK_DEADLOCK FALSE
