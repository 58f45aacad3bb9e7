SPECIFICATION Spec
CONSTANTS
  Modules <- MCTwoRoots
  Library <- MCLibrary
  Plain <- MCPlain
  Capital <- MCCapital
  Rank <- MCRank
  Limits <- MCLimits
  Fuel = 12
INVARIANTS
  KeptDespiteUnresolvedTypes
CHECK_DEADLOCK FALSE
