\* Three concurrent calls, two nonces, verified and unverifiable objects.
CONSTANTS
  Absent = Absent
  Bad = Bad
  None = None
  NoOne = NoOne
  c1 = c1
  c2 = c2
  c3 = c3
  n1 = n1
  n2 = n2
  Calls = {c1, c2, c3}
  Nonces = {n1, n2}
  ListDefault <- MCListDefault
  Doubled <- MCDoubled
  Urls <- FewUrls
  Jwts <- FewJwts
  Wallets <- OneWallet
SPECIFICATION Spec
SYMMETRY Symmetry
INVARIANTS
  NonceAcceptedOnce
  NonceIsNotWasted
PROPERTIES
  OnlyVerifiedObjectsSpendNonces
  OwnNonceRefusedOnlyIfTaken
  ImplementsNonceGate
CHECK_DEADLOCK FALSE
