\* A dispatch fails, and a later one of the page succeeds.
CONSTANTS
  Alerts <- Two
  Ts <- TwoTs
  Key <- TwoOthers
  Entities <- TwoEntities
  Routed <- Two
  Limit = 2
  Window = 2
  MaxAge = 2
  MaxSeen = 2
  Legacy = FALSE
  Previews = FALSE
  MaxLate = 0
  MaxFailures = 1
  MaxKills = 0
SPECIFICATION Spec
INVARIANT NothingIsLost
CHECK_DEADLOCK FALSE
