\* Four alerts in pages of two, two of them late; one dispatch fails, a run dies, an
\* operator previews.
CONSTANTS
  Alerts <- Four
  Ts <- FourTs
  Key <- FourKeys
  Entities <- FourEntities
  Routed <- FourRouted
  Limit = 2
  Window = 2
  MaxAge = 2
  MaxSeen = 2
  Legacy = TRUE
  Previews = TRUE
  MaxLate = 2
  MaxFailures = 1
  MaxKills = 1
SPECIFICATION FairSpec
INVARIANTS BoundaryHidesNothing RedispatchIsPaid SuppressionIsBounded
PROPERTIES EveryAlertIsTaken
CHECK_DEADLOCK FALSE
