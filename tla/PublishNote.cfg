\* Expected to fail: what is written while a run is at work is passed over.
CONSTANTS
  Procs = {p1, p2}
  Mixes = {{"sync", "compose"}}
  Contents = {"transition", "decision", "recheck"}
  Writes <- DecisionAndRecheck
  Shown = {"transition", "decision"}
  Verdicts = {"write"}
  Offsets = {0}
  MaxOps = 3
  MaxPosts = 2
  MaxFaults = 0
  MaxActs = 1
SYMMETRY Interchangeable
SPECIFICATION Spec
INVARIANTS CommentsBecomePart
CHECK_DEADLOCK FALSE
