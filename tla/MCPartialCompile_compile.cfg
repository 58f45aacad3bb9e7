SPECIFICATION Spec
CONSTANTS
  Modules <- MCModules
  Library <- MCLibrary
  Plain <- MCPlain
  Capital <- MCCapital
  Rank <- MCRank
  Limits <- MCLimits
  Fuel = 12
INVARIANTS
  AliasesAreUnanimous
  ReferencesNameElements
  MembersNameTheirOwner
  LexicalScoping
  OverflowNeedsACycle
  FirstTypesCostNothing
PROPERTIES
  CompilesAsPromised
CHECK_DEADLOCK FALSE
