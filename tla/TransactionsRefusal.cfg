SPECIFICATION Spec
CONSTANTS
  c1 = c1 c2 = c2 k1 = k1 k2 = k2 None = None
  Clients = {c1, c2} Keys = {k1, k2} Values = {1} DbOf <- MCDbOf
  Commands <- AllCommands Conditions = {"readonly", "loading"} MaxQueue = 2
INVARIANTS RefusedIsFlagged
