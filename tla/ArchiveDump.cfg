\* One process, one archiving, one fault.
CONSTANTS
  Procs = {p1}
  NoPoint = NoPoint
  NoTail = NoTail
  Decides = {FALSE}
  MaxOps = 1
  MaxFaults = 1
  MaxTampers = 0
SPECIFICATION IntegritySpec
PROPERTIES DeletedIsDumped
CHECK_DEADLOCK FALSE
