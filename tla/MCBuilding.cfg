\* Every client and kind of query, contradicting parameters, three wallets.
CONSTANTS
  Absent = Absent
  Bad = Bad
  None = None
  IllegalIds = {}
  ListDefault <- MCListDefault
  Clients <- MCClients
  Endpoints <- MCEndpoints
  Defaults <- MCDefaults
  Parameters <- MCParameters
  Queries <- MCQueries
  Definitions <- MCDefinitions
  Metadatas <- MCMetadatas
SPECIFICATION Spec
INVARIANTS
  TypeOK
  BuiltRequestIsReadable
  AnswersGoToTheVerifier
  RequestNamesItsClient
  AnswersAreUnambiguous
  QueryArrivesUnchanged
CHECK_DEADLOCK FALSE
