\* The sizes of Intel.cfg.
CONSTANTS
  Cves = {"c-git", "c-fox"}
  ProductOf <- MCProductOf
  NvdOf <- MCNvdOf
  Agents = {"a1"}
  Catalogues = {{"c-git"}, {"c-fox"}}
  Fleets <- MCFleets
  VersionsOf <- MCVersionsOf
  PageSize = 2
  SearchLimit = 2
  ListLimit = 4
  Ids = {1, 2, 3, 4, 5, 6, 7}
  MaxFaults = 1
  MaxActs = 1
SPECIFICATION IntelSpec
INVARIANTS AbsenceIsNotSafety
CHECK_DEADLOCK FALSE
