\* Up to two descriptor maps of up to three levels.
CONSTANTS
  None = None
  Root = "root"
  Ids = {"a", "b", "c"}
  Formats = {"jwt_vc", "jwt_vp"}
  Paths <- MCPaths
  Items <- MCItems
  Query <- MCQuery
  Decoding <- MCDecoding
  Holds <- MCHolds
  Definitions <- MCDefinitions
  Submissions <- MCSubmissions
SPECIFICATION Spec
INVARIANTS
  TypeOK
  InputsFormAForest
  FindsWhatIsSelected
  AcceptedSatisfiesDefinition
  ConformingIsAccepted
PROPERTIES
  MatchIsKept
  SearchMovesForward
CHECK_DEADLOCK FALSE
