SPECIFICATION Spec
CONSTANTS
  Name <- MCName
  Value = {v1, v2}
  Symbol = Symbol
  Lower <- MCLower
  MaxItems = 3
INVARIANTS
  HeadersAreJoined
  OnlyPairsAreTaken
