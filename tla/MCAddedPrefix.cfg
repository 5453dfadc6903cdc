\* The prefix a wallet adds.
CONSTANTS
  Absent = Absent
  Bad = Bad
  None = None
  ListDefault <- MCListDefault
  RequiredParts <- MCRequiredParts
  Objects <- MCObjects
  PrefixLists <- MCPrefixLists
  AlgLists <- MCAlgLists
  FormatMaps <- MCFormatMaps
  Inserts <- MCInserts
  Names <- MCNames
SPECIFICATION Spec
PROPERTIES
  AddedPrefixIsSupported
