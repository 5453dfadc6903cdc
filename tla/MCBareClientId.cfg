\* A pre-registered client that writes its client_id without a prefix.
CONSTANTS
  Absent = Absent
  Bad = Bad
  None = None
  NoOne = NoOne
  c1 = c1
  c2 = c2
  c3 = c3
  n1 = n1
  n2 = n2
  Calls = {c1}
  Nonces = {n1}
  ListDefault <- MCListDefault
  Doubled <- MCDoubled
  Urls <- BareUrls
  Jwts <- BareJwts
  Wallets <- OneWallet
SPECIFICATION Spec
INVARIANTS
  EqualClientIdsAgree
CHECK_DEADLOCK FALSE
