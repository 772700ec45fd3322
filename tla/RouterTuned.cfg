\* An alert its tuning suppresses, then one that differs materially.
CONSTANTS
  Alerts <- Two
  Ts <- TwoTs
  Key <- TwoKeys
  Entities <- TwoEntities
  Routed <- TwoRouted
  Limit = 2
  Window = 2
  MaxAge = 2
  MaxSeen = 2
  Legacy = FALSE
  Previews = FALSE
  MaxLate = 0
  MaxFailures = 0
  MaxKills = 0
SPECIFICATION Spec
INVARIANT SuppressedIsRepresented
CHECK_DEADLOCK FALSE
