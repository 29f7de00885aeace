SPECIFICATION MCSpec
CONSTANTS
  Sentinels = {s1, s2, s3} Servers = {m, a} FirstMaster = m None = None
  t1 = t1 t2 = t2 b = b
  Quorum = 2 MaxEpoch = 1 MaxMishaps = 1 MaxReplies = 2
SYMMETRY Sym
INVARIANTS OneLeaderPerEpoch SameEpochSameMaster
CHECK_DEADLOCK FALSE
