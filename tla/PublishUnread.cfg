\* Expected to fail: a report whose reading failed has the verdict of the point.
CONSTANTS
  Procs = {p1, p2}
  Mixes = {{"mutate", "report"}}
  Contents = {"transition", "decision", "recheck"}
  Writes <- DecisionAndRecheck
  Shown = {"transition", "decision"}
  Verdicts = {"write"}
  Offsets = {0}
  MaxOps = 3
  MaxPosts = 1
  MaxFaults = 1
  MaxActs = 0
SYMMETRY Interchangeable
SPECIFICATION Spec
INVARIANTS OnlyVouchedIsPresented
CHECK_DEADLOCK FALSE
