\* One case of seven kinds, one fault, two acts of people or of the host, one run by hand.
CONSTANTS
  Alerts <- MCAlerts
  Observables = {1, 2, 3, 4}
  TypeOf <- MCTypeOf
  KeySets <- MCKeySets
  VtQuota = 1
  Truths <- MCTruths
  Volumes <- MCVolumes
  Files <- MCFiles
  Protected = {"vault"}
  MaxFaults = 1
  MaxActs = 2
  MaxStarts = 1
SPECIFICATION Spec
INVARIANTS EvidenceIsSound EffectsArePaid ExecutionIsOnRecord
PROPERTIES TicketIsAnswered
CHECK_DEADLOCK FALSE
