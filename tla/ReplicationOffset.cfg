SPECIFICATION Spec
CONSTANTS
  Slaves = {s1, s2} BacklogSize = 3 MaxWrites = 2 MaxFaults = 1 MaxAdmin = 1
INVARIANT AlwaysInStep
CHECK_DEADLOCK FALSE
