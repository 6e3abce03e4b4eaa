CONSTANTS
  Keys <- MCKeys
  MaxKeys = 2
  MaxResends = 1
  MaxLost = 1
  MaxLate = 1
SPECIFICATION Spec
INVARIANTS TypeOK OkMeansKeys
PROPERTIES TypedIsReturned InitKeyEnds
