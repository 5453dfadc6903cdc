\* Two calls of one wallet, two submissions, another verifier around.
CONSTANTS
  Absent = Absent
  Bad = Bad
  None = None
  NoOne = NoOne
  c1 = c1
  c2 = c2
  n1 = n1
  Calls = {c1, c2}
  Nonces = {n1}
  Alg = "ES256"
  LastAttempt = 2
  MostSubmissions = 2
  Methods = {"POST"}
  ResponseJwts = {"jwt"}
  ListDefault <- MCListDefault
  Doubled <- MCDoubled
  Wallets <- MCWallets
  Prepared <- MCPrepared
  OtherUrls <- MCOtherUrls
  OtherJwts <- MCOtherJwts
  ResponseObjects <- MCResponseObjects
SPECIFICATION Spec
INVARIANTS
  TypeOK
  AnswersReachTheAsker
  BuiltRequestIsNotRefused
  OkMeansDelivered
  DecodedIsWhatWasSent
  TransactionDataIsShown
PROPERTIES
  ImplementsExchange
CHECK_DEADLOCK FALSE
