SPECIFICATION DataSpec
CONSTANTS
  Keys <- MCKeys MaxNumber = 1 MaxLength = 2 MaxPacked = 1 MaxIntset = 2
  Fields = {f, g} SetElements <- MCSetElements Elements <- MCElements Mixes <- MCMixes
  HllKeys = {1, 2} Registers = 5 Counts = {1, 2, 3} ZeroMaxLen = 1 ValMaxLen = 2
  ValMaxValue = 2 SparseMaxBytes = 5 MaxAdds = 3
SYMMETRY FieldSymmetry
INVARIANTS
  KeyspaceAgrees ValuesSound EveryChangeSignalled SortedSetExact EncodingsExact
  CardinalityFresh TraversalsExact
PROPERTY ImplementsSortedSet
CHECK_DEADLOCK FALSE
