SPECIFICATION DurabilitySpec
CONSTANTS
  Dbs = {0, 1} Policies = {"everysec", "always"} NoFsync = {TRUE, FALSE}
  MaxWrites = 3 MaxRewrites = 2 MaxErrors = 1 MaxToggles = 2
  Slaves = {s1, s2} BacklogSize = 2 SlaveWrites = 2 LinkFaults = 1 MaxAdmin = 1
  Changes = 1 MaxChanges = 3 SaveFaults = 2 SaveRewrites = 1
INVARIANTS FileComplete AckedIsDurable SlavesInStep UnsavedCounted
PROPERTIES FileNeverBack AofRecovers SlavesCatchUp EventuallySaved
CHECK_DEADLOCK FALSE
