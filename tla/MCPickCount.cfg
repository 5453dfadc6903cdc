\* A submission with nested levels under a Pick rule.
CONSTANTS
  None = None
  Root = "root"
  Ids = {"a", "b", "c"}
  Formats = {"jwt_vc", "jwt_vp"}
  Paths <- MCPaths
  Items <- MCItems
  Query <- MCQuery
  Decoding <- MCDecoding
  Holds <- MCHolds
  Definitions <- MCDefinitions
  Submissions <- MCSubmissions
SPECIFICATION Spec
INVARIANTS
  PickCountsDescriptorMaps
CHECK_DEADLOCK FALSE
