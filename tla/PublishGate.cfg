\* Expected to fail: the publisher to IRIS asks for no verdict.
CONSTANTS
  Procs = {p1, p2}
  Mixes = {{"iris", "tamper"}}
  Contents = {"transition", "decision", "recheck"}
  Writes <- DecisionAndRecheck
  Shown = {"transition", "decision"}
  Verdicts = {"write"}
  Offsets = {0}
  MaxOps = 3
  MaxPosts = 1
  MaxFaults = 0
  MaxActs = 1
SYMMETRY Interchangeable
SPECIFICATION Spec
INVARIANTS EverySurfaceIsGated
CHECK_DEADLOCK FALSE
