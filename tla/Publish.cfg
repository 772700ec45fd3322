\* Two processes, three operations, two things written in IRIS, one fault and one act from
\* outside; five compositions of programs that have something to do with each other.
CONSTANTS
  Procs = {p1, p2}
  Mixes = {{"mutate", "iris", "close"},
           {"mutate", "sync", "compose", "misdate"},
           {"iris", "sync", "compose"},
           {"mutate", "so", "so_report"},
           {"mutate", "report", "advisory", "so_advisory", "attach", "compile", "tamper", "reattest"}}
  Contents = {"transition", "decision", "recheck"}
  Writes <- DecisionAndRecheck
  Shown = {"transition", "decision"}
  Verdicts = {"write", "unattested"}
  Offsets <- Dates
  MaxOps = 3
  MaxPosts = 2
  MaxFaults = 1
  MaxActs = 1
SYMMETRY Interchangeable
SPECIFICATION Spec
INVARIANTS MirrorsAreExcused HumanOnce HumanArrives SoShowsTheTimeline GateHolds
CHECK_DEADLOCK FALSE
