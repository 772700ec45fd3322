\* Two processes, three operations of any kind, one fault and one write from outside.
CONSTANTS
  Procs = {p1, p2}
  NoPoint = NoPoint
  NoTail = NoTail
  Decides = {FALSE, TRUE}
  MaxOps = 3
  MaxFaults = 1
  MaxTampers = 1
SYMMETRY Interchangeable
SPECIFICATION IntegritySpec
INVARIANTS ChainTellsTheTruth ReportIsEarned
PROPERTIES RetiredIsNotHealed
CHECK_DEADLOCK FALSE
