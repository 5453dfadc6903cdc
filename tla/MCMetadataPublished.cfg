\* Every sequence of changes and publications.
CONSTANTS
  Absent = Absent
  Bad = Bad
  None = None
  ListDefault <- MCListDefault
  RequiredParts <- MCRequiredParts
  Objects <- MCObjects
  PrefixLists <- MCPrefixLists
  AlgLists <- MCAlgLists
  FormatMaps <- MCFormatMaps
  Inserts <- MCInserts
  Names <- MCNames
SPECIFICATION Spec
INVARIANTS
  TypeOK
PROPERTIES
  PublishedIsEnforced
  AddingWithdrawsNothing
