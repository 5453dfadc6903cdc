---------------------- MODULE RequestResolution_proofs ----------------------
(***************************************************************************)
(* What holds of RequestResolution for any number of calls and nonces and  *)
(* any sets of URLs, request objects and wallets.                          *)
(***************************************************************************)
EXTENDS RequestResolution, TLAPS

----------------------------------------------------------------------------
(* Type correctness *)

\* The checks end in results the program knows, whatever they are given.
LEMMA ChecksAreTyped ==
  /\ \A o : ParseError(o) \in Outcomes
  /\ \A m, o : MetadataError(m, o) \in Outcomes
  /\ \A w, o : RedirectUriVerdicts(w, o) \subseteq Outcomes
  /\ \A w, j : JwtVerdicts(w, j) \subseteq Outcomes
<1> USE DEF Outcomes, Errors, ProtocolErrors, NoError, Internal
<1>1. \A o : ParseError(o) \in Outcomes
  BY DEF ParseError, QueryError
<1>2. \A m, o : MetadataError(m, o) \in Outcomes
  BY DEF MetadataError, ResponseTypeError, FormatsError
<1>3. \A w, o : RedirectUriVerdicts(w, o) \subseteq Outcomes
  BY DEF RedirectUriVerdicts, PolicyVerdicts
<1>4. \A w, j : JwtVerdicts(w, j) \subseteq Outcomes
  <2> TAKE w, j
  <2>1. RedirectUriJwtVerdicts(w, j) \subseteq Outcomes
    BY <1>3 DEF RedirectUriJwtVerdicts
  <2>2. DidVerdicts(w, j) \subseteq Outcomes
    BY DEF DidVerdicts, DidHeaderError
  <2>3. X509Verdicts(w, j) \subseteq Outcomes
    BY DEF X509Verdicts
  <2>4. \A who : PolicyVerdicts(w, who) \subseteq Outcomes
    BY DEF PolicyVerdicts
  <2> QED BY <2>1, <2>2, <2>3, <2>4 DEF JwtVerdicts
<1> QED BY <1>1, <1>2, <1>3, <1>4

\* What the code between two await points makes of a call is a call.
LEMMA StepsAreTyped ==
  ASSUME NEW s \in CallStates
  PROVE  /\ \A e \in Outcomes : Ended(s, e) \in CallStates
         /\ \A p \in Points : At(s, p) \in CallStates
         /\ AfterNonce(s) \in CallStates
         /\ ToNonceCheck(s) \in CallStates
         /\ \A j \in Jwts : AfterFetch(s, j) \in CallStates
         /\ \A w : \A e \in Outcomes : AfterVerdict(w, s, e) \in CallStates
<1>1. \A t \in CallStates, e \in Outcomes : Ended(t, e) \in CallStates
  BY DEF CallStates, Ended, Points
<1>2. \A t \in CallStates, p \in Points : At(t, p) \in CallStates
  BY DEF CallStates, At
<1>3. {NoError, Internal, "invalid_request"} \subseteq Outcomes
  BY DEF Outcomes, Errors, ProtocolErrors
<1>4. \A t \in CallStates : AfterNonce(t) \in CallStates
  BY <1>1, <1>3 DEF AfterNonce
<1>5. \A t \in CallStates : ToNonceCheck(t) \in CallStates
  BY <1>1, <1>2, <1>3, <1>4 DEF ToNonceCheck, Points, NoncePoints
<1>6. \A j \in Jwts : AfterFetch(s, j) \in CallStates
  <2> TAKE j \in Jwts
  <2>1. [s EXCEPT !.jwt = j] \in CallStates
    BY DEF CallStates
  <2> QED BY <2>1, <1>1, <1>2, <1>3, <1>5, ChecksAreTyped DEF AfterFetch, Points
<1>7. \A w : \A e \in Outcomes : AfterVerdict(w, s, e) \in CallStates
  BY <1>1, <1>3, <1>5, ChecksAreTyped DEF AfterVerdict
<1> QED BY <1>1, <1>2, <1>4, <1>5, <1>6, <1>7

LEMMA StartIsTyped ==
  ASSUME NEW w, NEW op \in Operations, NEW u \in Urls
  PROVE  Started(w, [Idle EXCEPT !.op = op, !.url = u]) \in CallStates
<1> DEFINE s == [Idle EXCEPT !.op = op, !.url = u]
<1>1. s \in CallStates
  BY DEF Idle, CallStates, Points, Operations, Outcomes
<1>2. s.url = u
  BY DEF Idle
<1>3. {NoError, "invalid_request"} \subseteq Outcomes
  BY DEF Outcomes, Errors, ProtocolErrors
<1>4. PlainRequest(w, s) \in CallStates
  BY <1>1, <1>3, StepsAreTyped, ChecksAreTyped DEF PlainRequest, Points
<1>5. u.kind = "value" => AfterFetch(s, u.jwt) \in CallStates
  BY <1>1, StepsAreTyped, ConstantsAssumption
<1>6. Started(w, s) \in CallStates
  <2> HIDE DEF s
  <2> QED BY <1>1, <1>2, <1>3, <1>4, <1>5, StepsAreTyped DEF Started, Points
<1> QED BY <1>6

LEMMA StepTyped == TypeOK /\ [Next]_vars => TypeOK'
<1> SUFFICES ASSUME TypeOK, [Next]_vars PROVE TypeOK'
  OBVIOUS
<1> USE DEF TypeOK
<1>0. \A c \in Calls : call[c] \in CallStates
  OBVIOUS
<1>1. CASE UNCHANGED vars
  BY <1>1 DEF vars
<1>2. ASSUME NEW c \in Calls, NEW op \in Operations, NEW u \in Urls, Start(c, op, u)
      PROVE  TypeOK'
  BY <1>2, StartIsTyped DEF Start
<1>3. ASSUME NEW c \in Calls, GenerateNonce(c) PROVE TypeOK'
  <2>1. At(call[c], "fetching") \in CallStates
    BY <1>0, StepsAreTyped DEF Points
  <2>2. \A n \in Nonces : [At(call[c], "fetching") EXCEPT !.sent = n] \in CallStates
    BY <2>1 DEF CallStates
  <2> QED BY <1>3, <2>1, <2>2 DEF GenerateNonce
<1>4. ASSUME NEW c \in Calls, NEW j \in Jwts, FetchReply(c, j) PROVE TypeOK'
  BY <1>0, <1>4, StepsAreTyped DEF FetchReply
<1>5. ASSUME NEW c \in Calls, FetchFails(c) \/ NonceCheckFails(c) \/ NonceRefused(c)
      PROVE  TypeOK'
  <2>1. \A e \in {Internal, "invalid_request"} : Ended(call[c], e) \in CallStates
    BY <1>0, StepsAreTyped DEF Outcomes, Errors, ProtocolErrors
  <2>2. /\ \E e \in {Internal, "invalid_request"} :
              call' = [call EXCEPT ![c] = Ended(call[c], e)]
        /\ UNCHANGED <<wallet, issued, spentBy>>
    BY <1>5 DEF FetchFails, NonceCheckFails, NonceRefused
  <2> QED BY <2>1, <2>2
<1>6. ASSUME NEW c \in Calls, Verdict(c) PROVE TypeOK'
  <2> DEFINE verdicts == IF call[c].url.kind = "plain"
                         THEN RedirectUriVerdicts(wallet, call[c].url.obj)
                         ELSE JwtVerdicts(wallet, call[c].jwt)
  <2>1. verdicts \subseteq Outcomes
    BY ChecksAreTyped
  <2>2. /\ \E e \in verdicts : call' = [call EXCEPT ![c] = AfterVerdict(wallet, call[c], e)]
        /\ UNCHANGED <<wallet, issued, spentBy>>
    BY <1>6 DEF Verdict
  <2> HIDE DEF verdicts
  <2>3. \A e \in Outcomes : AfterVerdict(wallet, call[c], e) \in CallStates
    BY <1>0, StepsAreTyped
  <2>4. call' \in [Calls -> CallStates]
    BY <2>1, <2>2, <2>3
  <2> QED BY <2>2, <2>4
<1>7. ASSUME NEW c \in Calls, NonceAccepted(c) PROVE TypeOK'
  BY <1>0, <1>7, StepsAreTyped DEF NonceAccepted
<1>8. ASSUME NEW c \in Calls, ValidateNonce(c) PROVE TypeOK'
  <2>1. \A p \in NoncePoints : At(call[c], p) \in CallStates
    BY <1>0, StepsAreTyped DEF Points
  <2>2. /\ \E p \in NoncePoints : call' = [call EXCEPT ![c] = At(call[c], p)]
        /\ UNCHANGED <<wallet, issued>>
    BY <1>8 DEF ValidateNonce, NoncePoints
  <2>3. spentBy' \in [Nonces -> Calls \cup {None}]
    BY <1>8 DEF ValidateNonce
  <2> QED BY <2>1, <2>2, <2>3
<1>9. ASSUME NEW c \in Calls, Cancel(c) PROVE TypeOK'
  <2>1. "cancelled" \in Outcomes
    BY DEF Outcomes
  <2> QED BY <1>0, <1>9, <2>1, StepsAreTyped DEF Cancel
<1> QED BY <1>1, <1>2, <1>3, <1>4, <1>5, <1>6, <1>7, <1>8, <1>9 DEF Next, Progress

\* Every call ends with one of the results the program knows.
THEOREM TypeCorrect == Spec => []TypeOK
<1>1. Init => TypeOK
  BY DEF Init, TypeOK, Idle, CallStates, Points, Operations, Outcomes
<1> QED BY <1>1, StepTyped, PTL DEF Spec

----------------------------------------------------------------------------
(* The checks a call has passed at each await point *)

\* A call that goes on from its nonce, or from before it, with every check
\* passed keeps what the checks have established.
LEMMA AfterNonceChecked ==
  ASSUME NEW w, NEW s \in CallStates, s.outcome = "pending",
         s.url.kind # "plain", s.jwt.decodable, ParseError(s.jwt.obj) = NoError,
         s.op = "validate_request" => Passed(w, s.jwt.obj) /\ NoError \in JwtVerdicts(w, s.jwt)
  PROVE  CheckedSoFar(w, AfterNonce(s)) /\ CheckedSoFar(w, ToNonceCheck(s))
<1>1. \A e : e # NoError => CheckedSoFar(w, Ended(s, e))
  BY DEF CheckedSoFar, Ended, CallStates, NoncePoints
<1>2. "invalid_request" # NoError /\ Internal # NoError /\ "pending" # NoError
  BY DEF NoError, Internal
<1>3. CheckedSoFar(w, AfterNonce(s))
  BY <1>1, <1>2 DEF AfterNonce, CheckedSoFar, Ended, CallStates, RequestOf, NoncePoints
<1>4. s.jwt.obj.wallet_nonce \notin {Absent, Bad} => CheckedSoFar(w, At(s, "checking"))
  BY <1>2 DEF CheckedSoFar, At, CallStates, NoncePoints
<1> QED BY <1>1, <1>2, <1>3, <1>4 DEF ToNonceCheck

\* A running call that ends with an error has nothing to show.
LEMMA ErrorChecked ==
  ASSUME NEW w, NEW s \in CallStates, NEW e, e # NoError
  PROVE  CheckedSoFar(w, Ended(s, e))
BY DEF CheckedSoFar, Ended, CallStates, NoncePoints

LEMMA AfterFetchChecked ==
  ASSUME NEW w, NEW s \in CallStates, NEW j \in Jwts, s.outcome = "pending",
         s.url.kind # "plain"
  PROVE  CheckedSoFar(w, AfterFetch(s, j))
<1> DEFINE t == [s EXCEPT !.jwt = j]
<1>1. /\ t \in CallStates /\ t.jwt = j /\ t.url = s.url /\ t.op = s.op
      /\ t.outcome = "pending"
  BY DEF CallStates
<1> HIDE DEF t
<1>2. "invalid_request" # NoError /\ Internal # NoError /\ "pending" # NoError
  BY DEF NoError, Internal
<1>3. CASE ~j.decodable \/ ParseError(j.obj) # NoError
  BY <1>1, <1>2, <1>3, ErrorChecked DEF AfterFetch, t
<1>4. CASE j.decodable /\ ParseError(j.obj) = NoError /\ s.op = "validate_request"
  <2>1. AfterFetch(s, j) = At(t, "verifying")
    BY <1>4 DEF AfterFetch, t
  <2> QED BY <1>1, <1>2, <1>4, <2>1 DEF CheckedSoFar, At, CallStates, RequestOf, NoncePoints
<1>5. CASE j.decodable /\ ParseError(j.obj) = NoError /\ s.op # "validate_request"
  <2>1. AfterFetch(s, j) = ToNonceCheck(t)
    BY <1>5 DEF AfterFetch, t
  <2> QED BY <1>1, <1>5, <2>1, AfterNonceChecked
<1> QED BY <1>3, <1>4, <1>5

\* The verdict a call waits for, at the await point of the callback.
Answers(w, s, e) ==
  IF s.url.kind = "plain" THEN ReturnUri(s.url.obj) = Absent \/ e \in RedirectUriVerdicts(w, s.url.obj)
  ELSE e \in JwtVerdicts(w, s.jwt)

LEMMA AfterVerdictChecked ==
  ASSUME NEW w, NEW s \in CallStates, NEW e, s.outcome = "pending",
         ParseError(RequestOf(s)) = NoError, s.url.kind # "plain" => s.jwt.decodable,
         Answers(w, s, e)
  PROVE  CheckedSoFar(w, AfterVerdict(w, s, e))
<1>1. CASE e # NoError \/ MetadataError(w.metadata, RequestOf(s)) # NoError
  BY <1>1, ErrorChecked DEF AfterVerdict
<1>2. CASE e = NoError /\ Passed(w, RequestOf(s)) /\ s.url.kind = "plain"
  <2>1. AfterVerdict(w, s, e) = Ended(s, NoError)
    BY <1>2 DEF AfterVerdict, Passed
  <2> QED BY <1>2, <2>1 DEF CheckedSoFar, Ended, CallStates, Answers, RequestOf, NoncePoints
<1>3. CASE e = NoError /\ Passed(w, RequestOf(s)) /\ s.url.kind # "plain"
  <2>1. AfterVerdict(w, s, e) = ToNonceCheck(s)
    BY <1>3 DEF AfterVerdict, Passed
  <2> QED BY <1>3, <2>1, AfterNonceChecked DEF Answers, RequestOf, Passed
<1> QED BY <1>1, <1>2, <1>3 DEF Passed

LEMMA StartedChecked ==
  ASSUME NEW w, NEW op \in Operations, NEW u \in Urls,
         op = "resolve_response_uri_and_mode" => u.kind \in {"value", "reference"}
  PROVE  CheckedSoFar(w, Started(w, [Idle EXCEPT !.op = op, !.url = u]))
<1> DEFINE s == [Idle EXCEPT !.op = op, !.url = u]
<1>1. s \in CallStates /\ s.url = u /\ s.op = op /\ s.outcome = "pending"
  BY DEF Idle, CallStates, Points, Operations, Outcomes
<1>2. "invalid_request" # NoError /\ "pending" # NoError
  BY DEF NoError
<1>3. CheckedSoFar(w, Started(w, s))
  <2> HIDE DEF s
  <2>1. CASE u.kind = "malformed"
    BY <1>1, <1>2, <2>1, ErrorChecked DEF Started
  <2>2. CASE u.kind = "plain"
    <3>1. op = "validate_request"
      BY <2>2 DEF Operations
    <3>2. Started(w, s) = PlainRequest(w, s) /\ RequestOf(s) = u.obj
      BY <1>1, <2>2 DEF Started, RequestOf
    <3>3. CASE ParseError(u.obj) # NoError
      BY <1>1, <3>2, <3>3, ErrorChecked DEF PlainRequest
    <3>4. CASE ParseError(u.obj) = NoError /\ ReturnUri(u.obj) = Absent
      BY <1>1, <2>2, <3>2, <3>4, AfterVerdictChecked DEF PlainRequest, Answers
    <3>5. CASE ParseError(u.obj) = NoError /\ ReturnUri(u.obj) # Absent
      <4>1. Started(w, s) = At(s, "verifying")
        BY <1>1, <3>2, <3>5 DEF PlainRequest
      <4> QED BY <1>1, <1>2, <2>2, <3>1, <3>5, <4>1 DEF CheckedSoFar, At, CallStates, RequestOf, NoncePoints
    <3> QED BY <3>3, <3>4, <3>5
  <2>3. CASE u.kind = "value"
    BY <1>1, <2>3, AfterFetchChecked, ConstantsAssumption DEF Started
  <2>4. CASE u.kind = "reference"
    <3>1. \E p \in {"generating", "fetching"} : Started(w, s) = At(s, p)
      BY <1>1, <2>4 DEF Started
    <3> QED BY <1>1, <1>2, <2>4, <3>1 DEF CheckedSoFar, At, CallStates, NoncePoints
  <2> QED BY <2>1, <2>2, <2>3, <2>4, UrlKinds
<1> QED BY <1>3

----------------------------------------------------------------------------
LEMMA StepChecked == TypeOK /\ CheckedBeforeUse /\ [Next]_vars => CheckedBeforeUse'
<1> SUFFICES ASSUME TypeOK, CheckedBeforeUse, [Next]_vars PROVE CheckedBeforeUse'
  OBVIOUS
<1>0. /\ \A c \in Calls : call[c] \in CallStates /\ CheckedSoFar(wallet, call[c])
      /\ call \in [Calls -> CallStates]
  BY DEF TypeOK, CheckedBeforeUse
<1>1. CASE UNCHANGED vars
  BY <1>1 DEF vars, CheckedBeforeUse
\* A step changes one call; it is enough to look at what that call becomes.
<1>2. ASSUME NEW c \in Calls, NEW s, CheckedSoFar(wallet, s),
             call' = [call EXCEPT ![c] = s], UNCHANGED wallet
      PROVE  CheckedBeforeUse'
  <2> SUFFICES ASSUME NEW d \in Calls PROVE CheckedSoFar(wallet, call'[d])
    BY <1>2 DEF CheckedBeforeUse
  <2>1. call'[d] = IF d = c THEN s ELSE call[d]
    BY <1>0, <1>2
  <2> QED BY <1>0, <1>2, <2>1
<1>3. ASSUME NEW c \in Calls, NEW op \in Operations, NEW u \in Urls, Start(c, op, u)
      PROVE  CheckedBeforeUse'
  BY <1>2, <1>3, StartedChecked DEF Start
<1>4. ASSUME NEW c \in Calls, GenerateNonce(c) PROVE CheckedBeforeUse'
  <2>1. call[c].url.kind = "reference" /\ call[c].outcome = "pending"
    BY <1>0, <1>4 DEF GenerateNonce, CheckedSoFar, NoncePoints
  <2>2. CheckedSoFar(wallet, At(call[c], "fetching"))
    BY <1>0, <2>1 DEF CheckedSoFar, At, CallStates, NoError, NoncePoints
  <2>3. \A n : CheckedSoFar(wallet, [At(call[c], "fetching") EXCEPT !.sent = n])
    BY <1>0, <2>1 DEF CheckedSoFar, At, CallStates, NoError, NoncePoints
  <2> QED BY <1>2, <1>4, <2>2, <2>3 DEF GenerateNonce
<1>5. ASSUME NEW c \in Calls, NEW j \in Jwts, FetchReply(c, j) PROVE CheckedBeforeUse'
  <2>1. call[c].url.kind = "reference" /\ call[c].outcome = "pending"
    BY <1>0, <1>5 DEF FetchReply, CheckedSoFar, NoncePoints
  <2>2. CheckedSoFar(wallet, AfterFetch(call[c], j))
    BY <1>0, <2>1, AfterFetchChecked
  <2> QED BY <1>2, <1>5, <2>2 DEF FetchReply
<1>6. ASSUME NEW c \in Calls, FetchFails(c) \/ NonceCheckFails(c) \/ NonceRefused(c) \/ Cancel(c)
      PROVE  CheckedBeforeUse'
  <2>1. \A e \in {Internal, "invalid_request", "cancelled"} : CheckedSoFar(wallet, Ended(call[c], e))
    BY <1>0, ErrorChecked DEF Internal, NoError
  <2>2. /\ \E e \in {Internal, "invalid_request", "cancelled"} :
              call' = [call EXCEPT ![c] = Ended(call[c], e)]
        /\ UNCHANGED wallet
    BY <1>6 DEF FetchFails, NonceCheckFails, NonceRefused, Cancel
  <2> QED BY <1>2, <2>1, <2>2
<1>7. ASSUME NEW c \in Calls, Verdict(c) PROVE CheckedBeforeUse'
  <2>1. PICK e : /\ e \in IF call[c].url.kind = "plain"
                          THEN RedirectUriVerdicts(wallet, call[c].url.obj)
                          ELSE JwtVerdicts(wallet, call[c].jwt)
                 /\ call' = [call EXCEPT ![c] = AfterVerdict(wallet, call[c], e)]
    BY <1>7 DEF Verdict
  <2>2. /\ call[c].outcome = "pending" /\ ParseError(RequestOf(call[c])) = NoError
        /\ call[c].url.kind # "plain" => call[c].jwt.decodable
    BY <1>0, <1>7 DEF Verdict, CheckedSoFar, NoncePoints
  <2>3. CheckedSoFar(wallet, AfterVerdict(wallet, call[c], e))
    BY <1>0, <2>1, <2>2, AfterVerdictChecked DEF Answers
  <2> QED BY <1>2, <1>7, <2>1, <2>3 DEF Verdict
<1>8. ASSUME NEW c \in Calls, NonceAccepted(c) PROVE CheckedBeforeUse'
  <2>1. CheckedSoFar(wallet, AfterNonce(call[c]))
    BY <1>0, <1>8, AfterNonceChecked DEF NonceAccepted, CheckedSoFar, NoncePoints
  <2> QED BY <1>2, <1>8, <2>1 DEF NonceAccepted
<1>9. ASSUME NEW c \in Calls, ValidateNonce(c) PROVE CheckedBeforeUse'
  <2>1. \A p \in NoncePoints : CheckedSoFar(wallet, At(call[c], p))
    BY <1>0, <1>9 DEF ValidateNonce, CheckedSoFar, At, CallStates, NoncePoints, NoError
  <2>2. /\ \E p \in NoncePoints : call' = [call EXCEPT ![c] = At(call[c], p)]
        /\ UNCHANGED wallet
    BY <1>9 DEF ValidateNonce, NoncePoints
  <2> QED BY <1>2, <2>1, <2>2
<1> QED BY <1>1, <1>3, <1>4, <1>5, <1>6, <1>7, <1>8, <1>9 DEF Next, Progress

\* Every check a call has passed was made on the request object it carries.
THEOREM ChecksHold == Spec => []CheckedBeforeUse
<1>1. Init => CheckedBeforeUse
  BY DEF Init, CheckedBeforeUse, CheckedSoFar, Idle, NoError, NoncePoints
<1> QED BY <1>1, StepChecked, TypeCorrect, PTL DEF Spec

----------------------------------------------------------------------------
(* What acceptance means *)

\* A signed request accepted under a client id that the library verifies is
\* signed by the key of that DID, or of a certificate with that hash or name.
THEOREM AcceptedIsGenuine == Spec => []AcceptedSignedIsGenuine
<1>1. CheckedBeforeUse => AcceptedSignedIsGenuine
  <2> SUFFICES ASSUME CheckedBeforeUse, NEW c \in Calls, AcceptedSigned(c),
                      call[c].url.client_id.prefix \in
                        {"decentralized_identifier", "x509_san_dns", "x509_hash"}
               PROVE  LET client == call[c].url.client_id  j == call[c].jwt IN
                      /\ j.obj.client_id = client
                      /\ j.alg \in wallet.metadata.raw[SigningAlgs]
                      /\ client.prefix = "decentralized_identifier" =>
                           /\ j.signer = client.id
                           /\ wallet.trusted # Absent => j.signer \in wallet.trusted
                      /\ client.prefix = "x509_hash" =>
                           j.leaf.hash = Named(client) /\ j.signer = j.leaf.key
                      /\ client.prefix = "x509_san_dns" =>
                           Named(client) \in j.leaf.names /\ j.signer = j.leaf.key
    BY DEF AcceptedSignedIsGenuine
  <2> DEFINE j == call[c].jwt
             id == j.obj.client_id
  <2>1. NoError \in JwtVerdicts(wallet, j) /\ call[c].url.client_id = ClientId(id)
    BY DEF CheckedBeforeUse, CheckedSoFar, AcceptedSigned, Accepted, FullId
  <2>2. ClientId(id) = id
    BY <2>1 DEF ClientId
  <2>3. CASE id.prefix = "decentralized_identifier"
    <3>1. NoError \in DidVerdicts(wallet, j)
      BY <2>1, <2>2, <2>3 DEF JwtVerdicts, NoError
    <3>2. DidHeaderError(wallet, j) = NoError /\ j.signer = j.kid
      BY <3>1 DEF DidVerdicts, NoError
    <3> QED BY <2>1, <2>2, <2>3, <3>2 DEF DidHeaderError, NoError, Internal
  <2>4. CASE id.prefix \in {"x509_san_dns", "x509_hash"}
    <3>1. NoError \in X509Verdicts(wallet, j)
      BY <2>1, <2>2, <2>4 DEF JwtVerdicts, NoError
    <3>2. X509Accepts(wallet, j)
      BY <3>1 DEF X509Verdicts
    <3> QED BY <2>1, <2>2, <2>4, <3>2 DEF X509Accepts, LeafMatches
  <2> QED BY <2>1, <2>2, <2>3, <2>4
<1> QED BY <1>1, ChecksHold, PTL

\* A parsed object asks one readable query, and lacks a return URI only in a
\* DC API response mode.
LEMMA ParsedObject ==
  ASSUME NEW o, ParseError(o) = NoError
  PROVE  /\ ReturnUri(o) \in {Absent, Bad} => Mode(o) \in DcApiModes
         /\ \E q \in QueryParameters :
              Readable(o, q) /\ \A r \in QueryParameters \ {q} : o[r] = Absent
<1> USE DEF NoError
<1>1. UrisFitMode(o) /\ ReturnUri(o) # Bad /\ QueryError(o) = NoError
  BY DEF ParseError, Internal
<1>2. ReturnUri(o) = Absent => Mode(o) \in DcApiModes
  BY <1>1 DEF UrisFitMode, ReturnUri, FragmentModes, DirectPostModes, DcApiModes
<1>3. PICK q \in QueryParameters : QueriesOf(o) = {q}
  BY <1>1 DEF QueryError
<1>4. \A r \in QueryParameters : o[r] # Absent <=> r = q
  BY <1>3 DEF QueriesOf
<1>5. o[q] # Bad
  BY <1>1, <1>3 DEF QueryError, QueryParameters
<1> QED BY <1>1, <1>2, <1>4, <1>5 DEF Readable

\* The wallet can answer what it accepts.
THEOREM AcceptedIsAnswerable == Spec => []AcceptedCanBeAnswered
<1>1. CheckedBeforeUse => AcceptedCanBeAnswered
  <2> SUFFICES ASSUME CheckedBeforeUse, NEW c \in Calls, Accepted(c)
               PROVE  LET o == RequestOf(call[c])
                          m == wallet.metadata
                          formats == o.client_metadata.vp_formats_supported
                          mine == m.typed.vp_formats_supported IN
                      /\ ReturnUri(o) \in {Absent, Bad} => Mode(o) \in DcApiModes
                      /\ o.response_type \in m.typed.response_types_supported
                      /\ \E q \in QueryParameters :
                           Readable(o, q) /\ \A r \in QueryParameters \ {q} : o[r] = Absent
                      /\ formats \notin {Absent, Bad} =>
                           \E f \in DOMAIN formats \cap DOMAIN mine :
                             PayloadContains(mine[f], formats[f])
    BY DEF AcceptedCanBeAnswered
  <2> DEFINE o == RequestOf(call[c])
             m == wallet.metadata
  <2>1. ParseError(o) = NoError /\ MetadataError(m, o) = NoError
    BY DEF CheckedBeforeUse, CheckedSoFar, Accepted, Passed
  <2>2. ResponseTypeError(m, o) = NoError /\ FormatsError(m, o) = NoError
    BY <2>1 DEF MetadataError, NoError, Internal
  <2>3. o.response_type \in m.typed.response_types_supported
    BY <2>2 DEF ResponseTypeError, NoError
  <2>4. o.client_metadata.vp_formats_supported \notin {Absent, Bad} =>
          FormatsOverlap(m, o.client_metadata.vp_formats_supported)
    BY <2>2 DEF FormatsError, NoError
  <2> QED BY <2>1, <2>3, <2>4, ParsedObject DEF FormatsOverlap, ContainsFormat
<1> QED BY <1>1, ChecksHold, PTL

\* Nothing is accepted against the application's callbacks.
THEOREM AcceptedIsApproved == Spec => []AcceptedWasApproved
<1>1. CheckedBeforeUse => AcceptedWasApproved
  <2> SUFFICES ASSUME CheckedBeforeUse, NEW c \in Calls, Accepted(c)
               PROVE  LET s == call[c]
                          o == RequestOf(s)
                          prefix == ClientId(o.client_id).prefix IN
                      \/ s.url.kind = "plain" /\ Mode(o) \in DcApiModes
                      \/ s.url.kind = "plain" /\ "redirect_uri" \in wallet.overrides
                         /\ ReturnUri(o) \in wallet.approved
                      \/ s.url.kind # "plain" /\ prefix \in wallet.overrides
                         /\ (prefix = "redirect_uri" =>
                               s.jwt.signer = NoOne /\ ReturnUri(o) \in wallet.approved)
    BY DEF AcceptedWasApproved
  <2> DEFINE s == call[c]
  <2>1. \A o : NoError \in RedirectUriVerdicts(wallet, o) =>
               "redirect_uri" \in wallet.overrides /\ ReturnUri(o) \in wallet.approved
    BY DEF RedirectUriVerdicts, PolicyVerdicts, NoError
  <2>2. CASE s.url.kind = "plain"
    <3>1. RequestOf(s) = s.url.obj
      BY <2>2 DEF RequestOf
    <3>2. /\ ParseError(s.url.obj) = NoError
          /\ ReturnUri(s.url.obj) = Absent \/ NoError \in RedirectUriVerdicts(wallet, s.url.obj)
      BY <2>2, <3>1 DEF CheckedBeforeUse, CheckedSoFar, Accepted, Passed
    <3> QED BY <2>1, <2>2, <3>1, <3>2, ParsedObject
  <2>3. CASE s.url.kind # "plain"
    <3> DEFINE prefix == ClientId(s.jwt.obj.client_id).prefix
    <3>1. NoError \in JwtVerdicts(wallet, s.jwt) /\ RequestOf(s) = s.jwt.obj
      BY <2>3 DEF CheckedBeforeUse, CheckedSoFar, Accepted, RequestOf
    <3>2. CASE prefix = "redirect_uri"
      <4>1. s.jwt.signer = NoOne /\ NoError \in RedirectUriVerdicts(wallet, s.jwt.obj)
        BY <3>1, <3>2 DEF JwtVerdicts, RedirectUriJwtVerdicts, NoError, Internal
      <4> QED BY <2>1, <2>3, <3>1, <3>2, <4>1
    <3>3. CASE prefix # "redirect_uri"
      <4>1. prefix \in wallet.overrides
        BY <3>1, <3>3 DEF JwtVerdicts, NoError
      <4> QED BY <2>3, <3>1, <3>3, <4>1
    <3> QED BY <3>2, <3>3
  <2> QED BY <2>2, <2>3
<1> QED BY <1>1, ChecksHold, PTL

----------------------------------------------------------------------------
(* Nonces *)

\* Only the answer of validate_nonce lets a call be accepted with a nonce: t
\* carries none if it is accepted, waits for no such answer and has sent what s
\* has sent.
WithoutNonce(s, t) ==
  /\ t.sent = s.sent
  /\ t.pc \notin {"nonce_valid", "nonce_invalid"}
  /\ t.outcome = NoError /\ t.op = "validate_request" /\ t.url.kind # "plain"
       => t.jwt.obj.wallet_nonce = Absent

LEMMA NonceIsChecked ==
  ASSUME NEW s \in CallStates, s.outcome = "pending"
  PROVE  /\ \A e : e # NoError => WithoutNonce(s, Ended(s, e))
         /\ \A p \in Points \ {"nonce_valid", "nonce_invalid"} : WithoutNonce(s, At(s, p))
         /\ ToNonceCheck(s).sent = s.sent
         /\ WithoutNonce(s, ToNonceCheck(s))
         /\ \A w, e : WithoutNonce(s, AfterVerdict(w, s, e))
<1>1. \A e : e # NoError => WithoutNonce(s, Ended(s, e))
  BY DEF WithoutNonce, Ended, CallStates
<1>2. \A p \in Points \ {"nonce_valid", "nonce_invalid"} : WithoutNonce(s, At(s, p))
  BY DEF WithoutNonce, At, CallStates, NoError
<1>3. /\ "invalid_request" # NoError /\ Internal # NoError
      /\ "checking" \in Points \ {"nonce_valid", "nonce_invalid"}
  BY DEF NoError, Internal, Points, NoncePoints
<1>4. s.jwt.obj.wallet_nonce = Absent => WithoutNonce(s, AfterNonce(s))
  BY <1>1, <1>3 DEF AfterNonce, WithoutNonce, Ended, CallStates
<1>5. WithoutNonce(s, ToNonceCheck(s))
  BY <1>1, <1>2, <1>3, <1>4 DEF ToNonceCheck
<1>6. s.url.kind = "plain" => WithoutNonce(s, Ended(s, NoError))
  BY DEF WithoutNonce, Ended, CallStates
<1>7. \A w, e : WithoutNonce(s, AfterVerdict(w, s, e))
  BY <1>1, <1>5, <1>6 DEF AfterVerdict
<1> QED BY <1>1, <1>2, <1>5, <1>7 DEF WithoutNonce

LEMMA FetchIsChecked ==
  ASSUME NEW s \in CallStates, s.outcome = "pending", NEW j \in Jwts
  PROVE  WithoutNonce(s, AfterFetch(s, j))
<1> DEFINE t == [s EXCEPT !.jwt = j]
<1>1. t \in CallStates /\ t.outcome = "pending" /\ t.sent = s.sent
  BY DEF CallStates
<1>2. \A r : WithoutNonce(t, r) => WithoutNonce(s, r)
  BY <1>1 DEF WithoutNonce
<1>3. WithoutNonce(t, AfterFetch(s, j))
  <2>1. /\ "invalid_request" # NoError /\ Internal # NoError
        /\ "verifying" \in Points \ {"nonce_valid", "nonce_invalid"}
    BY DEF NoError, Internal, Points
  <2>2. AfterFetch(s, j) \in {Ended(t, e) : e \in {"invalid_request", Internal, ParseError(j.obj)} \ {NoError}}
                            \cup {At(t, "verifying"), ToNonceCheck(t)}
    BY <2>1 DEF AfterFetch
  <2> HIDE DEF t
  <2> QED BY <1>1, <2>1, <2>2, NonceIsChecked
<1> QED BY <1>2, <1>3

LEMMA StartIsChecked ==
  ASSUME NEW w, NEW op \in Operations, NEW u \in Urls
  PROVE  LET s == [Idle EXCEPT !.op = op, !.url = u] IN WithoutNonce(s, Started(w, s)) /\ s.sent = None
<1> DEFINE s == [Idle EXCEPT !.op = op, !.url = u]
<1>1. s \in CallStates /\ s.url = u /\ s.outcome = "pending" /\ s.sent = None
  BY DEF Idle, CallStates, Points, Operations, Outcomes
<1>2. WithoutNonce(s, Started(w, s))
  <2> HIDE DEF s
  <2>1. /\ "invalid_request" # NoError
        /\ {"generating", "fetching", "verifying"} \subseteq Points \ {"nonce_valid", "nonce_invalid"}
    BY DEF NoError, Points
  <2>2. WithoutNonce(s, PlainRequest(w, s))
    BY <1>1, <2>1, NonceIsChecked DEF PlainRequest
  <2>3. u.kind = "value" => WithoutNonce(s, AfterFetch(s, u.jwt))
    BY <1>1, FetchIsChecked, ConstantsAssumption
  <2> QED BY <1>1, <2>1, <2>2, <2>3, NonceIsChecked DEF Started
<1> QED BY <1>1, <1>2

\* The nonce store and the calls agree: what a call has sent was issued; the
\* call that has spent a nonce carries it, and waits to hear so or has ended; a
\* call that is to hear so, or that was accepted with a nonce, has spent it; and
\* one that is to hear that its own nonce is invalid was forestalled.
NoncesAccountedFor ==
  /\ \A c \in Calls : call[c].sent # None => call[c].sent \in issued
  /\ \A n \in Nonces : spentBy[n] # None =>
       /\ n \in issued
       /\ call[spentBy[n]].pc \in {"nonce_valid", "done"}
       /\ call[spentBy[n]].jwt.obj.wallet_nonce = n
  /\ \A c \in Calls :
       LET n == call[c].jwt.obj.wallet_nonce IN
       /\ call[c].pc = "nonce_valid" => n \in issued /\ spentBy[n] = c
       /\ AcceptedSigned(c) /\ n # Absent => n \in issued /\ spentBy[n] = c
       /\ call[c].pc = "nonce_invalid" /\ call[c].sent # None /\ n = call[c].sent
            => spentBy[n] \in Calls \ {c}

LEMMA StepAccounted ==
  TypeOK /\ CheckedBeforeUse /\ NoncesAccountedFor /\ [Next]_vars => NoncesAccountedFor'
<1> SUFFICES ASSUME TypeOK, CheckedBeforeUse, NoncesAccountedFor, [Next]_vars
             PROVE  NoncesAccountedFor'
  OBVIOUS
<1>0. /\ \A c \in Calls : call[c] \in CallStates
      /\ call \in [Calls -> CallStates]
      /\ issued \subseteq Nonces /\ spentBy \in [Nonces -> Calls \cup {None}]
      /\ \A c \in Calls : call[c].pc # "done" => call[c].outcome = "pending"
  BY DEF TypeOK, CheckedBeforeUse, CheckedSoFar, NoncePoints
<1>1. CASE UNCHANGED vars
  BY <1>1 DEF vars, NoncesAccountedFor, AcceptedSigned, Accepted
\* Every action but GenerateNonce and ValidateNonce leaves the store alone.
<1>2. ASSUME NEW c \in Calls, call[c].pc # "done", NEW s,
             call' = [call EXCEPT ![c] = s], UNCHANGED spentBy,
             issued \subseteq issued', s.sent # None => s.sent \in issued',
             s.pc \notin {"nonce_valid", "nonce_invalid"},
             call[c].pc = "nonce_valid" => s.pc = "done" /\ s.jwt = call[c].jwt,
             s.outcome = NoError /\ s.op = "validate_request"
               /\ s.url.kind \in {"value", "reference"} =>
                 s.jwt.obj.wallet_nonce = Absent \/ call[c].pc = "nonce_valid"
      PROVE  NoncesAccountedFor'
  <2>1. \A d \in Calls : call'[d] = IF d = c THEN s ELSE call[d]
    BY <1>0, <1>2
  <2>2. \A d \in Calls : call'[d].sent # None => call'[d].sent \in issued'
    BY <1>2, <2>1 DEF NoncesAccountedFor
  <2>3. ASSUME NEW n \in Nonces, spentBy'[n] # None
        PROVE  /\ n \in issued' /\ call'[spentBy'[n]].pc \in {"nonce_valid", "done"}
               /\ call'[spentBy'[n]].jwt.obj.wallet_nonce = n
    <3>1. /\ spentBy'[n] = spentBy[n] /\ spentBy[n] \in Calls /\ n \in issued
          /\ call[spentBy[n]].pc \in {"nonce_valid", "done"}
          /\ call[spentBy[n]].jwt.obj.wallet_nonce = n
      BY <1>0, <1>2, <2>3 DEF NoncesAccountedFor
    <3> QED BY <1>2, <2>1, <3>1
  <2>4. ASSUME NEW d \in Calls
        PROVE  LET n == call'[d].jwt.obj.wallet_nonce IN
               /\ call'[d].pc = "nonce_valid" => n \in issued' /\ spentBy'[n] = d
               /\ AcceptedSigned(d)' /\ n # Absent => n \in issued' /\ spentBy'[n] = d
               /\ call'[d].pc = "nonce_invalid" /\ call'[d].sent # None /\ n = call'[d].sent
                    => spentBy'[n] \in Calls \ {d}
    <3>1. CASE d = c
      BY <1>2, <2>1, <3>1 DEF NoncesAccountedFor, AcceptedSigned, Accepted
    <3>2. CASE d # c
      BY <1>2, <2>1, <3>2 DEF NoncesAccountedFor, AcceptedSigned, Accepted
    <3> QED BY <3>1, <3>2
  <2> QED BY <2>2, <2>3, <2>4 DEF NoncesAccountedFor
<1>3. ASSUME NEW c \in Calls, call[c].pc \notin {"nonce_valid", "done"}, NEW s,
             WithoutNonce(call[c], s),
             call' = [call EXCEPT ![c] = s], UNCHANGED <<issued, spentBy>>
      PROVE  NoncesAccountedFor'
  BY <1>2, <1>3 DEF WithoutNonce, NoncesAccountedFor
<1>4. ASSUME NEW c \in Calls, NEW op \in Operations, NEW u \in Urls, Start(c, op, u)
      PROVE  NoncesAccountedFor'
  <2> DEFINE s == [Idle EXCEPT !.op = op, !.url = u]
  <2>1. WithoutNonce(s, Started(wallet, s)) /\ s.sent = None
    BY StartIsChecked
  <2>2. call[c].pc = "idle" /\ call' = [call EXCEPT ![c] = Started(wallet, s)]
        /\ UNCHANGED <<issued, spentBy>>
    BY <1>4 DEF Start
  <2> HIDE DEF s
  <2> QED BY <1>2, <2>1, <2>2 DEF WithoutNonce
<1>5. ASSUME NEW c \in Calls, GenerateNonce(c) PROVE NoncesAccountedFor'
  <2>1. call[c].pc = "generating" /\ call[c].outcome = "pending" /\ call[c] \in CallStates
    BY <1>0, <1>5 DEF GenerateNonce
  <2>2. WithoutNonce(call[c], At(call[c], "fetching"))
    BY <2>1, NonceIsChecked DEF Points
  <2>3. CASE UNCHANGED issued /\ call' = [call EXCEPT ![c] = At(call[c], "fetching")]
    BY <1>3, <1>5, <2>1, <2>2, <2>3 DEF GenerateNonce
  <2>4. CASE \E n \in Nonces \ issued :
               /\ issued' = issued \cup {n}
               /\ call' = [call EXCEPT ![c] = [At(call[c], "fetching") EXCEPT !.sent = n]]
    <3>1. PICK n \in Nonces \ issued :
               /\ issued' = issued \cup {n}
               /\ call' = [call EXCEPT ![c] = [At(call[c], "fetching") EXCEPT !.sent = n]]
      BY <2>4
    <3> DEFINE s == [At(call[c], "fetching") EXCEPT !.sent = n]
    <3>2. s.sent = n /\ s.outcome # NoError /\ s.pc = "fetching"
      BY <2>1 DEF At, CallStates, NoError
    <3>3. call' = [call EXCEPT ![c] = s] /\ UNCHANGED spentBy /\ issued \subseteq issued'
      BY <1>5, <3>1 DEF GenerateNonce
    <3> HIDE DEF s
    <3> QED BY <1>2, <2>1, <3>1, <3>2, <3>3
  <2> QED BY <1>5, <2>3, <2>4 DEF GenerateNonce
<1>6. ASSUME NEW c \in Calls, NEW j \in Jwts, FetchReply(c, j) PROVE NoncesAccountedFor'
  BY <1>0, <1>3, <1>6, FetchIsChecked DEF FetchReply
<1>7. ASSUME NEW c \in Calls, FetchFails(c) \/ NonceCheckFails(c) \/ NonceRefused(c) \/ Cancel(c)
      PROVE  NoncesAccountedFor'
  <2>1. PICK e \in {Internal, "invalid_request", "cancelled"} :
          /\ call[c].pc # "done" /\ UNCHANGED <<issued, spentBy>>
          /\ call' = [call EXCEPT ![c] = Ended(call[c], e)]
    BY <1>7 DEF FetchFails, NonceCheckFails, NonceRefused, Cancel, NoncePoints
  <2> DEFINE s == Ended(call[c], e)
  <2>2. s.pc = "done" /\ s.jwt = call[c].jwt /\ s.outcome # NoError /\ s.sent = call[c].sent
    BY <1>0 DEF Ended, CallStates, Internal, NoError
  <2>3. s.sent # None => s.sent \in issued'
    BY <2>1, <2>2 DEF NoncesAccountedFor
  <2>4. /\ call[c].pc # "done" /\ call' = [call EXCEPT ![c] = s]
        /\ issued \subseteq issued' /\ UNCHANGED spentBy
    BY <2>1
  <2> HIDE DEF s
  <2> QED BY <1>2, <2>2, <2>3, <2>4
<1>8. ASSUME NEW c \in Calls, Verdict(c) PROVE NoncesAccountedFor'
  <2>1. PICK e : call' = [call EXCEPT ![c] = AfterVerdict(wallet, call[c], e)]
    BY <1>8 DEF Verdict
  <2>2. call[c].pc = "verifying" /\ UNCHANGED <<issued, spentBy>>
    BY <1>8 DEF Verdict
  <2> QED BY <1>0, <1>3, <2>1, <2>2, NonceIsChecked
<1>9. ASSUME NEW c \in Calls, NonceAccepted(c) PROVE NoncesAccountedFor'
  <2> DEFINE s == AfterNonce(call[c])
  <2>1. call[c].pc = "nonce_valid" /\ call' = [call EXCEPT ![c] = s] /\ UNCHANGED <<issued, spentBy>>
    BY <1>9 DEF NonceAccepted
  <2>2. s.pc = "done" /\ s.sent = call[c].sent /\ s.jwt = call[c].jwt
    BY <1>0 DEF AfterNonce, Ended, CallStates
  <2>3. s.sent # None => s.sent \in issued'
    BY <2>1, <2>2 DEF NoncesAccountedFor
  <2> HIDE DEF s
  <2> QED BY <1>2, <2>1, <2>2, <2>3
<1>10. ASSUME NEW c \in Calls, ValidateNonce(c) PROVE NoncesAccountedFor'
  <2> DEFINE n == call[c].jwt.obj.wallet_nonce
  <2>1. PICK p \in {"nonce_valid", "nonce_invalid"} :
          /\ call' = [call EXCEPT ![c] = At(call[c], p)] /\ UNCHANGED issued
          /\ p = "nonce_valid" =>
               n \in issued /\ spentBy[n] = None /\ spentBy' = [spentBy EXCEPT ![n] = c]
          /\ p = "nonce_invalid" => (n \in issued => spentBy[n] # None) /\ spentBy' = spentBy
    BY <1>10 DEF ValidateNonce
  <2> DEFINE s == At(call[c], p)
  <2>2. /\ s.pc = p /\ s.sent = call[c].sent /\ s.jwt = call[c].jwt /\ s.outcome # NoError
        /\ call[c].pc = "checking"
    BY <1>0, <1>10 DEF ValidateNonce, At, CallStates, NoError
  <2>3. call' = [call EXCEPT ![c] = s]
    BY <2>1
  <2> HIDE DEF s
  <2>4. \A d \in Calls : call'[d] = IF d = c THEN s ELSE call[d]
    BY <1>0, <2>3
  <2>5. /\ \A m \in Nonces : spentBy[m] # c
        /\ c # None
    BY <2>2, ConstantsAssumption DEF NoncesAccountedFor
  <2>6. \A m \in Nonces : /\ spentBy'[m] # spentBy[m] => m = n /\ spentBy'[m] = c
                          /\ spentBy'[m] = c => p = "nonce_valid" /\ m = n
                          /\ spentBy[m] # None => spentBy'[m] = spentBy[m]
    BY <1>0, <2>1, <2>5
  <2>7. \A d \in Calls : call'[d].sent # None => call'[d].sent \in issued'
    BY <2>1, <2>2, <2>4 DEF NoncesAccountedFor
  <2>8. ASSUME NEW m \in Nonces, spentBy'[m] # None
        PROVE  /\ m \in issued' /\ call'[spentBy'[m]].pc \in {"nonce_valid", "done"}
               /\ call'[spentBy'[m]].jwt.obj.wallet_nonce = m
    <3>1. CASE spentBy'[m] = c
      <4>1. m = n /\ p = "nonce_valid"
        BY <2>6, <3>1
      <4> QED BY <2>1, <2>2, <2>4, <3>1, <4>1
    <3>2. CASE spentBy'[m] # c
      <4>1. spentBy'[m] = spentBy[m] /\ spentBy[m] \in Calls
        BY <1>0, <2>6, <2>8, <3>2
      <4> QED BY <2>1, <2>4, <2>8, <3>2, <4>1 DEF NoncesAccountedFor
    <3> QED BY <3>1, <3>2
  <2>9. ASSUME NEW d \in Calls
        PROVE  LET k == call'[d].jwt.obj.wallet_nonce IN
               /\ call'[d].pc = "nonce_valid" => k \in issued' /\ spentBy'[k] = d
               /\ AcceptedSigned(d)' /\ k # Absent => k \in issued' /\ spentBy'[k] = d
               /\ call'[d].pc = "nonce_invalid" /\ call'[d].sent # None /\ k = call'[d].sent
                    => spentBy'[k] \in Calls \ {d}
    <3>1. CASE d = c
      <4>1. call'[d] = s /\ ~AcceptedSigned(d)'
        BY <2>2, <2>4, <3>1 DEF AcceptedSigned, Accepted
      <4>2. CASE p = "nonce_valid"
        BY <1>0, <2>1, <2>2, <3>1, <4>1, <4>2
      <4>3. CASE p = "nonce_invalid"
        <5>1. n = call[c].sent /\ call[c].sent # None => n \in issued /\ n \in Nonces
          BY <1>0 DEF NoncesAccountedFor
        <5>2. n = call[c].sent /\ call[c].sent # None => spentBy[n] \in Calls \ {c}
          BY <1>0, <2>1, <2>5, <4>3, <5>1
        <5> QED BY <2>1, <2>2, <3>1, <4>1, <4>3, <5>2
      <4> QED BY <4>2, <4>3
    <3>2. CASE d # c
      <4> DEFINE k == call[d].jwt.obj.wallet_nonce
      <4>1. /\ call'[d] = call[d]
            /\ call[d].pc = "nonce_valid" => k \in issued /\ spentBy[k] = d
            /\ AcceptedSigned(d) /\ k # Absent => k \in issued /\ spentBy[k] = d
            /\ call[d].pc = "nonce_invalid" /\ call[d].sent # None /\ k = call[d].sent
                 => spentBy[k] \in Calls \ {d} /\ k \in issued
        BY <2>4, <3>2 DEF NoncesAccountedFor
      <4>2. \A m \in issued : spentBy[m] \in Calls => spentBy'[m] = spentBy[m] /\ m \in issued'
        BY <1>0, <2>1, <2>6, ConstantsAssumption
      <4> QED BY <4>1, <4>2 DEF AcceptedSigned, Accepted
    <3> QED BY <3>1, <3>2
  <2> QED BY <2>7, <2>8, <2>9 DEF NoncesAccountedFor
<1> QED BY <1>1, <1>4, <1>5, <1>6, <1>7, <1>8, <1>9, <1>10 DEF Next, Progress

\* What the calls hold and what the nonce store holds agree.
LEMMA NoncesAgree == Spec => []NoncesAccountedFor
<1>1. Init => NoncesAccountedFor
  BY ConstantsAssumption DEF Init, NoncesAccountedFor, AcceptedSigned, Accepted, Idle, NoError
<1> QED BY <1>1, StepAccounted, TypeCorrect, ChecksHold, PTL DEF Spec

\* A nonce vouches for one accepted request only.
THEOREM NonceVouchesOnce == Spec => []NonceAcceptedOnce
<1>1. NoncesAccountedFor => NonceAcceptedOnce
  BY DEF NoncesAccountedFor, NonceAcceptedOnce
<1> QED BY <1>1, NoncesAgree, PTL

\* What may have become of a call that has spent a nonce.
WellSpent(s) ==
  s.pc = "done" /\ s.op = "validate_request" =>
    \/ s.outcome \in {NoError, "cancelled", Internal}
    \/ s.outcome = "invalid_request" /\ s.url.client_id # FullId(ClientId(s.jwt.obj.client_id))

LEMMA StepNotWasted ==
  TypeOK /\ NoncesAccountedFor /\ NonceIsNotWasted /\ [Next]_vars => NonceIsNotWasted'
<1> SUFFICES ASSUME TypeOK, NoncesAccountedFor, NonceIsNotWasted, [Next]_vars
             PROVE  NonceIsNotWasted'
  OBVIOUS
<1>0. /\ call \in [Calls -> CallStates] /\ \A c \in Calls : call[c] \in CallStates
      /\ spentBy \in [Nonces -> Calls \cup {None}]
      /\ \A n \in Nonces : spentBy[n] # None => WellSpent(call[spentBy[n]])
  BY DEF TypeOK, NonceIsNotWasted, WellSpent
<1>1. CASE UNCHANGED vars
  BY <1>1 DEF vars, NonceIsNotWasted
\* It is enough to look at what the call of a step becomes, if it holds a nonce.
<1>2. ASSUME NEW c \in Calls, NEW s, call' = [call EXCEPT ![c] = s],
             \A n \in Nonces : spentBy'[n] = c => WellSpent(s),
             \A n \in Nonces : spentBy'[n] \in {spentBy[n], c}
      PROVE  NonceIsNotWasted'
  <2>1. \A d \in Calls : call'[d] = IF d = c THEN s ELSE call[d]
    BY <1>0, <1>2
  <2>2. \A n \in Nonces : spentBy'[n] # None => WellSpent(call'[spentBy'[n]])
    BY <1>0, <1>2, <2>1
  <2> QED BY <2>2 DEF NonceIsNotWasted, WellSpent
\* A call that has not come to the store holds none.
<1>3. ASSUME NEW c \in Calls, call[c].pc \notin {"nonce_valid", "done"}, UNCHANGED spentBy,
             NEW s, call' = [call EXCEPT ![c] = s]
      PROVE  NonceIsNotWasted'
  <2>1. c # None
    BY ConstantsAssumption
  <2>2. \A n \in Nonces : spentBy'[n] = spentBy[n] /\ spentBy[n] # c
    BY <1>3, <2>1 DEF NoncesAccountedFor
  <2> QED BY <1>2, <1>3, <2>2
<1>4. ASSUME NEW c \in Calls,
             \/ \E op \in Operations, u \in Urls : Start(c, op, u)
             \/ GenerateNonce(c) \/ FetchFails(c) \/ Verdict(c) \/ NonceRefused(c)
             \/ \E j \in Jwts : FetchReply(c, j)
      PROVE  NonceIsNotWasted'
  <2>1. /\ call[c].pc \notin {"nonce_valid", "done"} /\ UNCHANGED spentBy
        /\ \E s : call' = [call EXCEPT ![c] = s]
    BY <1>4 DEF Start, GenerateNonce, FetchFails, Verdict, NonceRefused, FetchReply
  <2> QED BY <1>3, <2>1
<1>5. ASSUME NEW c \in Calls, NonceCheckFails(c) \/ Cancel(c) PROVE NonceIsNotWasted'
  <2>1. PICK e \in {Internal, "cancelled"} :
          call' = [call EXCEPT ![c] = Ended(call[c], e)] /\ UNCHANGED spentBy
    BY <1>5 DEF NonceCheckFails, Cancel
  <2>2. WellSpent(Ended(call[c], e))
    BY <1>0 DEF WellSpent, Ended, CallStates
  <2> QED BY <1>2, <2>1, <2>2
<1>6. ASSUME NEW c \in Calls, NonceAccepted(c) PROVE NonceIsNotWasted'
  <2>1. call' = [call EXCEPT ![c] = AfterNonce(call[c])] /\ UNCHANGED spentBy
    BY <1>6 DEF NonceAccepted
  <2>2. WellSpent(AfterNonce(call[c]))
    BY <1>0 DEF WellSpent, AfterNonce, Ended, CallStates
  <2> QED BY <1>2, <2>1, <2>2
<1>7. ASSUME NEW c \in Calls, ValidateNonce(c) PROVE NonceIsNotWasted'
  <2>1. PICK p \in {"nonce_valid", "nonce_invalid"} :
          call' = [call EXCEPT ![c] = At(call[c], p)]
    BY <1>7 DEF ValidateNonce
  <2>2. \A n \in Nonces : spentBy'[n] \in {spentBy[n], c}
    BY <1>0, <1>7 DEF ValidateNonce
  <2>3. WellSpent(At(call[c], p))
    BY <1>0 DEF WellSpent, At, CallStates
  <2> QED BY <1>2, <2>1, <2>2, <2>3
<1> QED BY <1>1, <1>4, <1>5, <1>6, <1>7 DEF Next, Progress

\* mod.rs: a nonce once spent lets its request in, but for what the application
\* does and for the client id in the URL.
THEOREM NoncesAreNotWasted == Spec => []NonceIsNotWasted
<1>1. Init => NonceIsNotWasted
  BY DEF Init, NonceIsNotWasted
<1> QED BY <1>1, StepNotWasted, TypeCorrect, NoncesAgree, PTL DEF Spec

\* In validate_request only a request object that has passed its checks can
\* use up a nonce.
THEOREM VerifiedObjectsSpend == Spec => OnlyVerifiedObjectsSpendNonces
<1>1. ASSUME TypeOK, CheckedBeforeUse, [Next]_vars, NEW n \in Nonces,
             spentBy[n] = None, spentBy'[n] # None
      PROVE  LET s == call[spentBy'[n]] IN
             /\ s.jwt.obj.wallet_nonce = n
             /\ s.op = "validate_request" =>
                  /\ NoError \in JwtVerdicts(wallet, s.jwt)
                  /\ MetadataError(wallet.metadata, s.jwt.obj) = NoError
  <2>1. PICK c \in Calls : ValidateNonce(c)
    BY <1>1 DEF Next, Progress, vars, Start, GenerateNonce, FetchReply, FetchFails, Verdict,
               NonceAccepted, NonceRefused, NonceCheckFails, Cancel
  <2>2. /\ call[c].pc \in NoncePoints /\ CheckedSoFar(wallet, call[c])
        /\ spentBy' = [spentBy EXCEPT ![call[c].jwt.obj.wallet_nonce] = c]
    BY <1>1, <2>1 DEF ValidateNonce, CheckedBeforeUse, NoncePoints
  <2>3. n = call[c].jwt.obj.wallet_nonce /\ spentBy'[n] = c
    BY <1>1, <2>2 DEF TypeOK
  <2> QED BY <2>2, <2>3 DEF CheckedSoFar, Passed
<1>2. TypeOK /\ CheckedBeforeUse /\ [Next]_vars =>
        [\A n \in Nonces : spentBy[n] = None /\ spentBy'[n] # None =>
           LET s == call[spentBy'[n]] IN
           /\ s.jwt.obj.wallet_nonce = n
           /\ s.op = "validate_request" =>
                /\ NoError \in JwtVerdicts(wallet, s.jwt)
                /\ MetadataError(wallet.metadata, s.jwt.obj) = NoError]_vars
  BY <1>1
<1> QED BY <1>2, TypeCorrect, ChecksHold, PTL DEF Spec, OnlyVerifiedObjectsSpendNonces

\* A call is refused for the nonce it has itself sent only after another call
\* has spent that nonce.
THEOREM OwnNonceIsHonoured == Spec => OwnNonceRefusedOnlyIfTaken
<1>1. ASSUME TypeOK, CheckedBeforeUse, NoncesAccountedFor, [Next]_vars, NEW c \in Calls,
             call[c].pc \in NoncePoints, call[c].sent # None,
             call[c].jwt.obj.wallet_nonce = call[c].sent,
             call[c].url.client_id = ClientId(call[c].jwt.obj.client_id),
             call'[c].outcome = "invalid_request"
      PROVE  spentBy[call[c].sent] \in Calls \ {c}
  <2>0. /\ call \in [Calls -> CallStates] /\ call[c] \in CallStates
        /\ call[c].outcome = "pending"
    BY <1>1 DEF TypeOK, CheckedBeforeUse, CheckedSoFar, NoncePoints
  <2>1. NonceRefused(c)
    <3>1. PICK d \in Calls : (\E op \in Operations, u \in Urls : Start(d, op, u)) \/ Progress(d) \/ Cancel(d)
      BY <1>1, <2>0 DEF Next, vars
    <3>2. d = c
      BY <1>1, <2>0, <3>1 DEF Start, Progress, GenerateNonce, FetchReply, FetchFails, Verdict,
                            ValidateNonce, NonceAccepted, NonceRefused, NonceCheckFails, Cancel
    <3>3. ValidateNonce(c) \/ NonceAccepted(c) \/ NonceRefused(c) \/ NonceCheckFails(c) \/ Cancel(c)
      BY <1>1, <3>1, <3>2 DEF Start, Progress, GenerateNonce, FetchReply, FetchFails, Verdict, NoncePoints
    <3>4. ASSUME NonceAccepted(c) PROVE FALSE
      <4>1. AfterNonce(call[c]) = Ended(call[c], NoError)
        BY <1>1 DEF AfterNonce, FullId
      <4> QED BY <1>1, <2>0, <3>4, <4>1 DEF NonceAccepted, Ended, CallStates, NoError
    <3>5. ASSUME NonceCheckFails(c) \/ Cancel(c) PROVE FALSE
      BY <1>1, <2>0, <3>5 DEF NonceCheckFails, Cancel, Ended, CallStates, Internal
    <3>6. ASSUME ValidateNonce(c) PROVE FALSE
      BY <1>1, <2>0, <3>6 DEF ValidateNonce, At, CallStates
    <3> QED BY <3>3, <3>4, <3>5, <3>6
  <2> QED BY <1>1, <2>1 DEF NonceRefused, NoncesAccountedFor
<1>2. TypeOK /\ CheckedBeforeUse /\ NoncesAccountedFor /\ [Next]_vars =>
        [\A c \in Calls :
           LET s == call[c] IN
           /\ s.pc \in NoncePoints /\ s.sent # None /\ s.jwt.obj.wallet_nonce = s.sent
           /\ s.url.client_id = ClientId(s.jwt.obj.client_id)
           /\ call'[c].outcome = "invalid_request"
           => spentBy[s.sent] \in Calls \ {c}]_vars
  BY <1>1
<1> QED BY <1>2, TypeCorrect, ChecksHold, NoncesAgree, PTL DEF Spec, OwnNonceRefusedOnlyIfTaken

----------------------------------------------------------------------------
(* The nonce gate *)

\* What a call may become without an answer of validate_nonce.
Undecided == {"open", "closed", "admitted"}

\* A call that goes on without that answer is still open, or is closed, or
\* lets its request in without a nonce.
LEMMA AdmittedWithoutNonce ==
  ASSUME NEW s, NEW t, WithoutNonce(s, t)
  PROVE  Admission(t) \in Undecided
BY DEF WithoutNonce, Admission, Undecided

LEMMA StepPassesGate ==
  TypeOK /\ CheckedBeforeUse /\ NoncesAccountedFor /\ [Next]_vars => [Gate!Next]_Gate!vars
<1> SUFFICES ASSUME TypeOK, CheckedBeforeUse, NoncesAccountedFor, [Next]_vars
             PROVE  [Gate!Next]_Gate!vars
  OBVIOUS
<1> DEFINE admission == [d \in Calls |-> Admission(call[d])]
<1>0. \A c \in Calls : /\ call[c] \in CallStates
                       /\ call[c].pc # "done" => call[c].outcome = "pending"
  BY DEF TypeOK, CheckedBeforeUse, CheckedSoFar, NoncePoints
<1>1. CASE UNCHANGED vars
  BY <1>1 DEF vars, Gate!vars
\* What happens to one call is what happens to its admission.
<1>2. ASSUME NEW c \in Calls, call[c].pc # "done", NEW s, call' = [call EXCEPT ![c] = s]
      PROVE  /\ admission[c] = "open" /\ admission' = [admission EXCEPT ![c] = Admission(s)]
             /\ Admission(s) = "open" => admission' = admission
  <2>1. \A d \in Calls : call'[d] = IF d = c THEN s ELSE call[d]
    BY <1>2 DEF TypeOK
  <2>2. admission[c] = "open"
    BY <1>0, <1>2 DEF Admission
  <2> QED BY <2>1, <2>2
\* A call that has not come to the store has spent nothing.
<1>3. ASSUME NEW c \in Calls, call[c].pc \notin {"nonce_valid", "done"}
      PROVE  \A m \in Nonces : spentBy[m] # c
  BY <1>3, ConstantsAssumption DEF NoncesAccountedFor
\* Every action but GenerateNonce and ValidateNonce leaves the store alone.
<1>4. ASSUME NEW c \in Calls, call[c].pc # "done", NEW s, Admission(s) \in Undecided,
             Admission(s) = "admitted" => call[c].pc # "nonce_valid",
             call' = [call EXCEPT ![c] = s], UNCHANGED <<issued, spentBy>>
      PROVE  [Gate!Next]_Gate!vars
  <2>1. /\ admission[c] = "open" /\ admission' = [admission EXCEPT ![c] = Admission(s)]
        /\ Admission(s) = "open" => admission' = admission
    BY <1>2, <1>4
  <2>2. CASE Admission(s) = "open"
    BY <1>4, <2>1, <2>2 DEF Gate!vars
  <2>3. CASE Admission(s) = "admitted"
    <3>1. \A m \in Nonces : spentBy[m] # c
      BY <1>3, <1>4, <2>3
    <3> HIDE DEF admission
    <3>2. Gate!AdmitWithout(c)
      BY <1>4, <2>1, <2>3, <3>1 DEF Gate!AdmitWithout, admission
    <3> QED BY <3>2 DEF Gate!Next
  <2>4. CASE Admission(s) = "closed"
    <3>1. Gate!Close(c)
      BY <1>4, <2>1, <2>4 DEF Gate!Close
    <3> QED BY <3>1 DEF Gate!Next
  <2> QED BY <1>4, <2>2, <2>3, <2>4 DEF Undecided
<1>5. ASSUME NEW c \in Calls, NEW op \in Operations, NEW u \in Urls, Start(c, op, u)
      PROVE  [Gate!Next]_Gate!vars
  <2> DEFINE s == [Idle EXCEPT !.op = op, !.url = u]
  <2>1. Admission(Started(wallet, s)) \in Undecided
    BY StartIsChecked, AdmittedWithoutNonce
  <2>2. /\ call[c].pc = "idle" /\ call' = [call EXCEPT ![c] = Started(wallet, s)]
        /\ UNCHANGED <<issued, spentBy>>
    BY <1>5 DEF Start
  <2> HIDE DEF s, admission
  <2> QED BY <1>4, <2>1, <2>2
<1>6. ASSUME NEW c \in Calls, GenerateNonce(c) PROVE [Gate!Next]_Gate!vars
  <2>1. PICK s : /\ call' = [call EXCEPT ![c] = s] /\ s.outcome = "pending"
                 /\ call[c].pc # "done" /\ UNCHANGED spentBy
                 /\ \/ UNCHANGED issued
                    \/ \E n \in Nonces \ issued : issued' = issued \cup {n}
    <3>1. call[c].pc = "generating" /\ call[c].outcome = "pending" /\ call[c] \in CallStates
      BY <1>0, <1>6 DEF GenerateNonce
    <3>2. /\ At(call[c], "fetching").outcome = "pending"
          /\ \A n : [At(call[c], "fetching") EXCEPT !.sent = n].outcome = "pending"
      BY <3>1 DEF At, CallStates
    <3> QED BY <1>6, <3>1, <3>2 DEF GenerateNonce
  <2>2. Admission(s) = "open"
    BY <2>1 DEF Admission
  <2> HIDE DEF admission
  <2>3. admission' = admission
    BY <1>2, <2>1, <2>2
  <2>4. Gate!Issue \/ UNCHANGED Gate!vars
    BY <2>1, <2>3 DEF Gate!Issue, Gate!vars, admission
  <2> QED BY <2>4 DEF Gate!Next
<1>7. ASSUME NEW c \in Calls, NEW j \in Jwts, FetchReply(c, j) PROVE [Gate!Next]_Gate!vars
  <2>1. Admission(AfterFetch(call[c], j)) \in Undecided
    BY <1>0, <1>7, FetchIsChecked, AdmittedWithoutNonce DEF FetchReply
  <2> HIDE DEF admission
  <2> QED BY <1>4, <1>7, <2>1 DEF FetchReply
<1>8. ASSUME NEW c \in Calls, FetchFails(c) \/ NonceCheckFails(c) \/ NonceRefused(c) \/ Cancel(c)
      PROVE  [Gate!Next]_Gate!vars
  <2>1. PICK e \in {Internal, "invalid_request", "cancelled"} :
          /\ call[c].pc # "done" /\ UNCHANGED <<issued, spentBy>>
          /\ call' = [call EXCEPT ![c] = Ended(call[c], e)]
    BY <1>8 DEF FetchFails, NonceCheckFails, NonceRefused, Cancel, NoncePoints
  <2> DEFINE s == Ended(call[c], e)
  <2>2. Admission(s) = "closed"
    BY <1>0 DEF Admission, Ended, CallStates, Internal, NoError
  <2>3. /\ call[c].pc # "done" /\ UNCHANGED <<issued, spentBy>>
        /\ call' = [call EXCEPT ![c] = s] /\ Admission(s) \in Undecided
    BY <2>1, <2>2 DEF Undecided
  <2> HIDE DEF s, admission
  <2> QED BY <1>4, <2>2, <2>3
<1>9. ASSUME NEW c \in Calls, Verdict(c) PROVE [Gate!Next]_Gate!vars
  <2>1. PICK e : call' = [call EXCEPT ![c] = AfterVerdict(wallet, call[c], e)]
    BY <1>9 DEF Verdict
  <2>2. call[c].pc = "verifying" /\ UNCHANGED <<issued, spentBy>>
    BY <1>9 DEF Verdict
  <2>3. Admission(AfterVerdict(wallet, call[c], e)) \in Undecided
    BY <1>0, <2>2, NonceIsChecked, AdmittedWithoutNonce
  <2> HIDE DEF admission
  <2> QED BY <1>4, <2>1, <2>2, <2>3
<1>10. ASSUME NEW c \in Calls, ValidateNonce(c) PROVE [Gate!Next]_Gate!vars
  <2> DEFINE n == call[c].jwt.obj.wallet_nonce
  <2>1. PICK p \in {"nonce_valid", "nonce_invalid"} :
          /\ call[c].pc = "checking" /\ call' = [call EXCEPT ![c] = At(call[c], p)] /\ UNCHANGED issued
          /\ \/ spentBy' = spentBy
             \/ n \in issued /\ spentBy[n] = None /\ spentBy' = [spentBy EXCEPT ![n] = c]
    BY <1>10 DEF ValidateNonce
  <2>2. Admission(At(call[c], p)) = "open"
    BY <1>0, <2>1 DEF Admission, At, CallStates
  <2> HIDE DEF n
  <2>3. /\ admission[c] = "open" /\ admission' = admission
        /\ \A m \in Nonces : spentBy[m] # c
    BY <1>2, <1>3, <2>1, <2>2
  <2> HIDE DEF admission
  <2>4. CASE spentBy' = spentBy
    BY <2>1, <2>3, <2>4 DEF Gate!vars, admission
  <2>5. CASE n \in issued /\ spentBy[n] = None /\ spentBy' = [spentBy EXCEPT ![n] = c]
    <3>1. Gate!Spend(c, n) /\ n \in Nonces
      BY <2>1, <2>3, <2>5 DEF Gate!Spend, admission, TypeOK
    <3> QED BY <3>1 DEF Gate!Next
  <2> QED BY <2>1, <2>4, <2>5
<1>11. ASSUME NEW c \in Calls, NonceAccepted(c) PROVE [Gate!Next]_Gate!vars
  <2> DEFINE n == call[c].jwt.obj.wallet_nonce
             s == AfterNonce(call[c])
  <2>1. /\ call[c].pc = "nonce_valid" /\ call' = [call EXCEPT ![c] = s]
        /\ UNCHANGED <<issued, spentBy>>
    BY <1>11 DEF NonceAccepted
  <2>2. /\ call[c].url.kind # "plain" /\ n # Absent
        /\ n \in Nonces /\ spentBy[n] = c
    BY <2>1 DEF CheckedBeforeUse, CheckedSoFar, NoncePoints, TypeOK, NoncesAccountedFor
  <2>3. Admission(s) \in {n, "closed"}
    <3>1. s.outcome # "pending" /\ s.url = call[c].url /\ s.jwt = call[c].jwt
      BY <1>0 DEF AfterNonce, Ended, CallStates, NoError
    <3> QED BY <2>2, <3>1 DEF Admission
  <2> HIDE DEF s, n
  <2>4. admission[c] = "open" /\ admission' = [admission EXCEPT ![c] = Admission(s)]
    BY <1>2, <2>1
  <2> HIDE DEF admission
  <2>5. Gate!Admit(c, n) \/ Gate!Close(c)
    BY <2>1, <2>2, <2>3, <2>4 DEF Gate!Admit, Gate!Close, admission
  <2> QED BY <2>2, <2>5 DEF Gate!Next
<1> HIDE DEF admission
<1> QED BY <1>1, <1>5, <1>6, <1>7, <1>8, <1>9, <1>10, <1>11 DEF Next, Progress

\* The calls and the nonce store together behave as the gate does, though a
\* call hears of its nonce later than the store has spent it, or never.
THEOREM NonceGateImplemented == Spec => ImplementsNonceGate
<1>1. Init => Gate!Init
  BY DEF Init, Gate!Init, Admission, Idle
<1> QED BY <1>1, StepPassesGate, TypeCorrect, ChecksHold, NoncesAgree, PTL
       DEF Spec, ImplementsNonceGate, Gate!Spec

\* Nonces, as far as they cannot be taken for another result of the gate.
Vouchers == Nonces \ {"open", "closed", "admitted"}

\* What was spent was given out, and a request let in on a nonce has spent it.
GateInv ==
  /\ spentBy \in [Nonces -> Calls \cup {None}]
  /\ \A n \in Nonces : spentBy[n] # None => n \in issued
  /\ \A c \in Calls, n \in Vouchers : Admission(call[c]) = n => n \in issued /\ spentBy[n] = c

LEMMA GateStep == ASSUME GateInv, [Gate!Next]_(Gate!vars) PROVE GateInv'
<1> DEFINE result == [c \in Calls |-> Admission(call[c])]
<1>0. /\ \A c \in Calls : result[c] = Admission(call[c])
      /\ \A c \in Calls : result'[c] = Admission(call[c])'
  OBVIOUS
<1>1. CASE UNCHANGED Gate!vars
  <2>1. result' = result /\ issued' = issued /\ spentBy' = spentBy
    BY <1>1 DEF Gate!vars
  <2> HIDE DEF result
  <2> QED BY <1>0, <2>1 DEF GateInv
<1>2. CASE Gate!Issue
  <2>1. result' = result /\ issued \subseteq issued' /\ spentBy' = spentBy
    BY <1>2 DEF Gate!Issue
  <2> HIDE DEF result
  <2> QED BY <1>0, <2>1 DEF GateInv
<1>3. ASSUME NEW c \in Calls, Gate!AdmitWithout(c) \/ Gate!Close(c) PROVE GateInv'
  <2>1. PICK r \in {"admitted", "closed"} : result' = [result EXCEPT ![c] = r]
    BY <1>3 DEF Gate!AdmitWithout, Gate!Close
  <2>2. issued' = issued /\ spentBy' = spentBy
    BY <1>3 DEF Gate!AdmitWithout, Gate!Close
  <2>3. \A d \in Calls : result'[d] = IF d = c THEN r ELSE result[d]
    BY <2>1
  <2> HIDE DEF result
  <2> QED BY <1>0, <2>1, <2>2, <2>3 DEF GateInv, Vouchers
<1>4. ASSUME NEW c \in Calls, NEW n \in Nonces, Gate!Admit(c, n) PROVE GateInv'
  <2>1. /\ spentBy[n] = c /\ issued' = issued /\ spentBy' = spentBy
        /\ result' = [result EXCEPT ![c] = n]
    BY <1>4 DEF Gate!Admit
  <2>2. \A d \in Calls : result'[d] = IF d = c THEN n ELSE result[d]
    BY <2>1
  <2>3. n \in issued
    BY <2>1, ConstantsAssumption DEF GateInv
  <2> HIDE DEF result
  <2> QED BY <1>0, <2>1, <2>2, <2>3 DEF GateInv, Vouchers
<1>5. ASSUME NEW c \in Calls, NEW n \in Nonces, Gate!Spend(c, n) PROVE GateInv'
  <2>1. /\ n \in issued /\ spentBy[n] = None /\ spentBy' = [spentBy EXCEPT ![n] = c]
        /\ issued' = issued /\ result' = result
    BY <1>5 DEF Gate!Spend
  <2> HIDE DEF result
  <2>2. ASSUME NEW d \in Calls, NEW m \in Vouchers, result'[d] = m PROVE m \in issued' /\ spentBy'[m] = d
    <3>1. m \in issued /\ spentBy[m] = d
      BY <1>0, <2>1, <2>2 DEF GateInv
    <3> QED BY <2>1, <3>1, ConstantsAssumption DEF GateInv, Vouchers
  <2> QED BY <1>0, <2>1, <2>2 DEF GateInv
<1> QED BY <1>1, <1>2, <1>3, <1>4, <1>5 DEF Gate!Next

\* What the gate is for: behind it a nonce lets at most one request in, and
\* only a nonce that was given out.  This follows from NonceGate alone.
THEOREM GateAdmitsOnce ==
  ImplementsNonceGate =>
    [](\A c, d \in Calls, n \in Vouchers :
         Admission(call[c]) = n => n \in issued /\ (Admission(call[d]) = n => c = d))
<1>1. Gate!Init => GateInv
  <2> SUFFICES ASSUME Gate!Init PROVE GateInv
    OBVIOUS
  <2>1. /\ spentBy = [n \in Nonces |-> None]
        /\ [c \in Calls |-> Admission(call[c])] = [c \in Calls |-> "open"]
    BY DEF Gate!Init
  <2>2. \A c \in Calls : Admission(call[c]) = "open"
    BY <2>1
  <2> QED BY <2>1, <2>2 DEF GateInv, Vouchers
<1>2. GateInv /\ [Gate!Next]_(Gate!vars) => GateInv'
  BY GateStep
<1>3. GateInv => \A c, d \in Calls, n \in Vouchers :
                   Admission(call[c]) = n => n \in issued /\ (Admission(call[d]) = n => c = d)
  BY DEF GateInv
<1> QED BY <1>1, <1>2, <1>3, PTL DEF ImplementsNonceGate, Gate!Spec

----------------------------------------------------------------------------
(* Calls only go forward *)

\* A step leaves a call alone or takes it to a later point.
GoForward ==
  \A c \in Calls : call'[c] = call[c] \/ Place[call[c].pc] < Place[call'[c].pc]

\* Where the code between two await points stops.
LEMMA NextPoints ==
  ASSUME NEW s \in CallStates
  PROVE  /\ \A e : Ended(s, e).pc = "done"
         /\ \A p : At(s, p).pc = p
         /\ AfterNonce(s).pc = "done"
         /\ ToNonceCheck(s).pc \in {"checking", "done"}
         /\ \A j \in Jwts : AfterFetch(s, j).pc \in {"verifying", "checking", "done"}
         /\ \A w, e : AfterVerdict(w, s, e).pc \in {"checking", "done"}
<1>1. \A t \in CallStates : \A e : Ended(t, e).pc = "done"
  BY DEF CallStates, Ended
<1>2. \A t \in CallStates : \A p : At(t, p).pc = p
  BY DEF CallStates, At
<1>3. \A t \in CallStates : AfterNonce(t).pc = "done" /\ ToNonceCheck(t).pc \in {"checking", "done"}
  BY <1>1, <1>2 DEF AfterNonce, ToNonceCheck
<1>4. ASSUME NEW j \in Jwts PROVE AfterFetch(s, j).pc \in {"verifying", "checking", "done"}
  <2>1. [s EXCEPT !.jwt = j] \in CallStates
    BY DEF CallStates
  <2> QED BY <2>1, <1>1, <1>2, <1>3 DEF AfterFetch
<1>5. \A w, e : AfterVerdict(w, s, e).pc \in {"checking", "done"}
  BY <1>1, <1>3 DEF AfterVerdict
<1> QED BY <1>1, <1>2, <1>3, <1>4, <1>5

\* A call that starts does not stay idle.
LEMMA StartedPoint ==
  ASSUME NEW w, NEW op \in Operations, NEW u \in Urls
  PROVE  Started(w, [Idle EXCEPT !.op = op, !.url = u]).pc \in Points \ {"idle"}
<1> DEFINE s == [Idle EXCEPT !.op = op, !.url = u]
<1>1. s \in CallStates /\ s.url = u
  BY DEF Idle, CallStates, Points, Operations, Outcomes
<1> HIDE DEF s
<1>2. u.kind = "value" => u.jwt \in Jwts
  BY ConstantsAssumption
<1>3. PlainRequest(w, s).pc \in {"verifying", "checking", "done"}
  BY <1>1, NextPoints DEF PlainRequest
<1>4. Started(w, s).pc \in Points \ {"idle"}
  BY <1>1, <1>2, <1>3, NextPoints DEF Started, Points, NoncePoints
<1> QED BY <1>4 DEF s

LEMMA StepForward == ASSUME TypeOK, [Next]_vars PROVE GoForward
<1>0. call \in [Calls -> CallStates] /\ \A c \in Calls : call[c] \in CallStates /\ call[c].pc \in Points
  BY DEF TypeOK, CallStates
\* A step changes one call; it is enough to look at where that call gets.
<1>1. ASSUME NEW c \in Calls, NEW s, call' = [call EXCEPT ![c] = s], Place[call[c].pc] < Place[s.pc]
      PROVE  GoForward
  <2> SUFFICES ASSUME NEW d \in Calls
               PROVE  call'[d] = call[d] \/ Place[call[d].pc] < Place[call'[d].pc]
    BY DEF GoForward
  <2>1. CASE d = c
    <3>1. call'[d] = s
      BY <1>0, <1>1, <2>1
    <3> QED BY <1>1, <2>1, <3>1
  <2>2. CASE d # c
    BY <1>0, <1>1, <2>2
  <2> QED BY <2>1, <2>2
<1>2. CASE UNCHANGED vars
  BY <1>2 DEF vars, GoForward
<1>3. ASSUME NEW c \in Calls, NEW op \in Operations, NEW u \in Urls, Start(c, op, u)
      PROVE  GoForward
  <2> DEFINE s == Started(wallet, [Idle EXCEPT !.op = op, !.url = u])
  <2>1. s.pc \in Points \ {"idle"}
    BY StartedPoint
  <2>2. call[c].pc = "idle" /\ call' = [call EXCEPT ![c] = s]
    BY <1>3 DEF Start
  <2> HIDE DEF s
  <2>3. Place["idle"] < Place[s.pc]
    BY <2>1 DEF Place, Points, NoncePoints
  <2> QED BY <1>1, <2>2, <2>3
<1>4. ASSUME NEW c \in Calls, GenerateNonce(c) PROVE GoForward
  <2>1. PICK s : /\ call' = [call EXCEPT ![c] = s] /\ call[c].pc = "generating"
                 /\ \/ s = At(call[c], "fetching")
                    \/ \E n \in Nonces : s = [At(call[c], "fetching") EXCEPT !.sent = n]
    BY <1>4 DEF GenerateNonce
  <2>2. At(call[c], "fetching") \in CallStates
    BY <1>0, StepsAreTyped DEF Points
  <2>3. s.pc = "fetching"
    BY <1>0, <2>1, <2>2, NextPoints DEF CallStates
  <2>4. Place[call[c].pc] < Place[s.pc]
    BY <2>1, <2>3 DEF Place
  <2> QED BY <1>1, <2>1, <2>4
<1>5. ASSUME NEW c \in Calls, NEW j \in Jwts, FetchReply(c, j) PROVE GoForward
  <2>1. call[c].pc = "fetching" /\ call' = [call EXCEPT ![c] = AfterFetch(call[c], j)]
    BY <1>5 DEF FetchReply
  <2>2. AfterFetch(call[c], j).pc \in {"verifying", "checking", "done"}
    BY <1>0, NextPoints
  <2>3. Place["fetching"] < Place[AfterFetch(call[c], j).pc]
    BY <2>2 DEF Place
  <2> QED BY <1>1, <2>1, <2>3
<1>6. ASSUME NEW c \in Calls, FetchFails(c) \/ NonceCheckFails(c) \/ NonceRefused(c) \/ Cancel(c)
      PROVE  GoForward
  <2>1. PICK e : call' = [call EXCEPT ![c] = Ended(call[c], e)]
    BY <1>6 DEF FetchFails, NonceCheckFails, NonceRefused, Cancel
  <2>2. call[c].pc \in Points \ {"done"}
    BY <1>0, <1>6 DEF FetchFails, NonceCheckFails, NonceRefused, Cancel, NoncePoints
  <2>3. Ended(call[c], e).pc = "done"
    BY <1>0, NextPoints
  <2>4. Place[call[c].pc] < Place[Ended(call[c], e).pc]
    BY <2>2, <2>3 DEF Place, Points, NoncePoints
  <2> QED BY <1>1, <2>1, <2>4
<1>7. ASSUME NEW c \in Calls, Verdict(c) PROVE GoForward
  <2>1. PICK e : call[c].pc = "verifying" /\ call' = [call EXCEPT ![c] = AfterVerdict(wallet, call[c], e)]
    BY <1>7 DEF Verdict
  <2>2. AfterVerdict(wallet, call[c], e).pc \in {"checking", "done"}
    BY <1>0, NextPoints
  <2>3. Place["verifying"] < Place[AfterVerdict(wallet, call[c], e).pc]
    BY <2>2 DEF Place
  <2> QED BY <1>1, <2>1, <2>3
<1>8. ASSUME NEW c \in Calls, NonceAccepted(c) PROVE GoForward
  <2>1. call[c].pc = "nonce_valid" /\ call' = [call EXCEPT ![c] = AfterNonce(call[c])]
    BY <1>8 DEF NonceAccepted
  <2>2. AfterNonce(call[c]).pc = "done"
    BY <1>0, NextPoints
  <2>3. Place[call[c].pc] < Place[AfterNonce(call[c]).pc]
    BY <2>1, <2>2 DEF Place
  <2> QED BY <1>1, <2>1, <2>3
<1>9. ASSUME NEW c \in Calls, ValidateNonce(c) PROVE GoForward
  <2>1. PICK p \in {"nonce_valid", "nonce_invalid"} :
          call[c].pc = "checking" /\ call' = [call EXCEPT ![c] = At(call[c], p)]
    BY <1>9 DEF ValidateNonce
  <2>2. At(call[c], p).pc = p
    BY <1>0, NextPoints
  <2>3. Place[call[c].pc] < Place[At(call[c], p).pc]
    BY <2>1, <2>2 DEF Place
  <2> QED BY <1>1, <2>1, <2>3
<1> QED BY <1>2, <1>3, <1>4, <1>5, <1>6, <1>7, <1>8, <1>9 DEF Next, Progress

\* wallet.rs: a call comes to each await point once at most, in this order,
\* whatever it is answered there, and its result is final.
THEOREM AwaitsComeInOrder == Spec => CallsGoForward
<1>1. TypeOK /\ [Next]_vars => [GoForward]_vars
  BY StepForward
<1> QED BY <1>1, TypeCorrect, PTL DEF Spec, CallsGoForward, GoForward

----------------------------------------------------------------------------
(* The comparison of the client ids *)

\* A request object that passes everything but the comparison of client ids:
\* it decodes, parses and verifies, suits the wallet and carries no nonce.
Impeccable(w, j) ==
  /\ j # None /\ j.decodable /\ ParseError(j.obj) = NoError
  /\ JwtVerdicts(w, j) = {NoError} /\ MetadataError(w.metadata, j.obj) = NoError
  /\ j.obj.wallet_nonce = Absent

\* Such an object is refused for its client id only.
Explained(w, s) ==
  /\ s.outcome = "invalid_request" /\ s.op = "validate_request"
  /\ s.url.kind \in {"value", "reference"} /\ Impeccable(w, s.jwt)
  => s.url.client_id # FullId(ClientId(s.jwt.obj.client_id))

RefusalsExplained == \A c \in Calls : Explained(wallet, call[c])

\* Other results need no explanation, nor do other requests.
LEMMA OtherwiseExplained ==
  ASSUME NEW w, NEW s \in CallStates
  PROVE  /\ s.outcome # "invalid_request" => Explained(w, s)
         /\ \A p : s.outcome = "pending" => Explained(w, At(s, p))
         /\ \A e : e # "invalid_request" \/ ~Impeccable(w, s.jwt) => Explained(w, Ended(s, e))
         /\ \A e : s.url.kind \notin {"value", "reference"} => Explained(w, Ended(s, e))
  BY DEF Explained, At, Ended, CallStates

LEMMA AfterNonceExplained ==
  ASSUME NEW w, NEW s \in CallStates, s.outcome = "pending"
  PROVE  Explained(w, AfterNonce(s)) /\ Explained(w, ToNonceCheck(s))
<1>1. Internal # "invalid_request" /\ NoError # "invalid_request"
  BY DEF Internal, NoError
<1>2. Explained(w, AfterNonce(s))
  <2>1. CASE AfterNonce(s) = Ended(s, NoError)
    BY <1>1, <2>1, OtherwiseExplained
  <2>2. CASE AfterNonce(s) # Ended(s, NoError)
    <3>1. AfterNonce(s) = Ended(s, "invalid_request") /\ s.url.client_id # FullId(ClientId(s.jwt.obj.client_id))
      BY <2>2 DEF AfterNonce
    <3> QED BY <3>1 DEF Explained, Ended, CallStates
  <2> QED BY <2>1, <2>2
<1> QED BY <1>1, <1>2, OtherwiseExplained DEF ToNonceCheck

LEMMA AfterFetchExplained ==
  ASSUME NEW w, NEW s \in CallStates, NEW j \in Jwts, s.outcome = "pending"
  PROVE  Explained(w, AfterFetch(s, j))
<1> DEFINE t == [s EXCEPT !.jwt = j]
<1>1. t \in CallStates /\ t.jwt = j /\ t.outcome = "pending"
  BY DEF CallStates
<1> HIDE DEF t
<1>2. ~j.decodable \/ ParseError(j.obj) # NoError => \A e : Explained(w, Ended(t, e))
  BY <1>1, OtherwiseExplained DEF Impeccable
<1> QED BY <1>1, <1>2, OtherwiseExplained, AfterNonceExplained DEF AfterFetch, t

\* A verdict on a request object that can only pass is a pass.
LEMMA AfterVerdictExplained ==
  ASSUME NEW w, NEW s \in CallStates, NEW e, s.outcome = "pending", Answers(w, s, e)
  PROVE  Explained(w, AfterVerdict(w, s, e))
<1>1. CASE s.url.kind = "plain"
  <2>1. \E f : AfterVerdict(w, s, e) = Ended(s, f)
    BY <1>1 DEF AfterVerdict
  <2> QED BY <1>1, <2>1, OtherwiseExplained
<1>2. CASE s.url.kind # "plain" /\ Impeccable(w, s.jwt)
  <2>1. AfterVerdict(w, s, e) = ToNonceCheck(s)
    BY <1>2 DEF AfterVerdict, Answers, Impeccable, RequestOf
  <2> QED BY <2>1, AfterNonceExplained
<1>3. CASE s.url.kind # "plain" /\ ~Impeccable(w, s.jwt)
  <2>1. AfterVerdict(w, s, e) = ToNonceCheck(s) \/ \E f : AfterVerdict(w, s, e) = Ended(s, f)
    BY <1>3 DEF AfterVerdict
  <2> QED BY <1>3, <2>1, OtherwiseExplained, AfterNonceExplained
<1> QED BY <1>1, <1>2, <1>3

LEMMA StartedExplained ==
  ASSUME NEW w, NEW op \in Operations, NEW u \in Urls
  PROVE  Explained(w, Started(w, [Idle EXCEPT !.op = op, !.url = u]))
<1> DEFINE s == [Idle EXCEPT !.op = op, !.url = u]
<1>1. s \in CallStates /\ s.url = u /\ s.outcome = "pending"
  BY DEF Idle, CallStates, Points, Operations, Outcomes
<1> HIDE DEF s
<1>2. CASE u.kind \in {"malformed", "plain"}
  <2>1. (\E e : Started(w, s) = Ended(s, e)) \/ (\E p : Started(w, s) = At(s, p))
    BY <1>1, <1>2 DEF Started, PlainRequest, AfterVerdict
  <2> QED BY <1>1, <1>2, <2>1, OtherwiseExplained DEF s
<1>3. CASE u.kind = "value"
  BY <1>1, <1>3, AfterFetchExplained, ConstantsAssumption DEF Started, s
<1>4. CASE u.kind = "reference"
  <2>1. \E p : Started(w, s) = At(s, p)
    BY <1>1, <1>4 DEF Started
  <2> QED BY <1>1, <2>1, OtherwiseExplained DEF s
<1> QED BY <1>2, <1>3, <1>4, UrlKinds

LEMMA StepExplained ==
  ASSUME TypeOK, CheckedBeforeUse, RefusalsExplained, [Next]_vars
  PROVE  RefusalsExplained'
<1>0. /\ \A c \in Calls : call[c] \in CallStates /\ CheckedSoFar(wallet, call[c])
      /\ call \in [Calls -> CallStates]
  BY DEF TypeOK, CheckedBeforeUse
\* A step changes one call; it is enough to look at what that call becomes.
<1>1. ASSUME NEW c \in Calls, NEW s, Explained(wallet, s),
             call' = [call EXCEPT ![c] = s], UNCHANGED wallet
      PROVE  RefusalsExplained'
  <2> SUFFICES ASSUME NEW d \in Calls PROVE Explained(wallet, call'[d])
    BY <1>1 DEF RefusalsExplained
  <2>1. call'[d] = IF d = c THEN s ELSE call[d]
    BY <1>0, <1>1
  <2> QED BY <1>1, <2>1 DEF RefusalsExplained
<1>2. CASE UNCHANGED vars
  BY <1>2 DEF vars, RefusalsExplained
<1>3. ASSUME NEW c \in Calls, NEW op \in Operations, NEW u \in Urls, Start(c, op, u)
      PROVE  RefusalsExplained'
  BY <1>1, <1>3, StartedExplained DEF Start
<1>4. ASSUME NEW c \in Calls, GenerateNonce(c) PROVE RefusalsExplained'
  <2>1. call[c].outcome = "pending"
    BY <1>0, <1>4 DEF GenerateNonce, CheckedSoFar, NoncePoints
  <2>2. /\ Explained(wallet, At(call[c], "fetching"))
        /\ \A n : Explained(wallet, [At(call[c], "fetching") EXCEPT !.sent = n])
    BY <1>0, <2>1 DEF Explained, At, CallStates
  <2> QED BY <1>1, <1>4, <2>2 DEF GenerateNonce
<1>5. ASSUME NEW c \in Calls, NEW j \in Jwts, FetchReply(c, j) PROVE RefusalsExplained'
  <2>1. call[c].outcome = "pending"
    BY <1>0, <1>5 DEF FetchReply, CheckedSoFar, NoncePoints
  <2>2. Explained(wallet, AfterFetch(call[c], j))
    BY <1>0, <2>1, AfterFetchExplained
  <2> QED BY <1>1, <1>5, <2>2 DEF FetchReply
<1>6. ASSUME NEW c \in Calls, FetchFails(c) \/ NonceCheckFails(c) \/ Cancel(c)
      PROVE  RefusalsExplained'
  <2>1. \A e \in {Internal, "cancelled"} : Explained(wallet, Ended(call[c], e))
    BY <1>0, OtherwiseExplained DEF Internal
  <2>2. /\ \E e \in {Internal, "cancelled"} : call' = [call EXCEPT ![c] = Ended(call[c], e)]
        /\ UNCHANGED wallet
    BY <1>6 DEF FetchFails, NonceCheckFails, Cancel
  <2> QED BY <1>1, <2>1, <2>2
<1>7. ASSUME NEW c \in Calls, NonceRefused(c) PROVE RefusalsExplained'
  <2>1. ~Impeccable(wallet, call[c].jwt)
    BY <1>0, <1>7 DEF NonceRefused, CheckedSoFar, NoncePoints, Impeccable
  <2> QED BY <1>0, <1>1, <1>7, <2>1, OtherwiseExplained DEF NonceRefused
<1>8. ASSUME NEW c \in Calls, Verdict(c) PROVE RefusalsExplained'
  <2>1. PICK e : /\ Answers(wallet, call[c], e)
                 /\ call' = [call EXCEPT ![c] = AfterVerdict(wallet, call[c], e)]
    BY <1>8 DEF Verdict, Answers
  <2>2. call[c].outcome = "pending"
    BY <1>0, <1>8 DEF Verdict, CheckedSoFar, NoncePoints
  <2>3. Explained(wallet, AfterVerdict(wallet, call[c], e))
    BY <1>0, <2>1, <2>2, AfterVerdictExplained
  <2> QED BY <1>1, <1>8, <2>1, <2>3 DEF Verdict
<1>9. ASSUME NEW c \in Calls, NonceAccepted(c) PROVE RefusalsExplained'
  <2>1. call[c].outcome = "pending"
    BY <1>0, <1>9 DEF NonceAccepted, CheckedSoFar, NoncePoints
  <2> QED BY <1>0, <1>1, <1>9, <2>1, AfterNonceExplained DEF NonceAccepted
<1>10. ASSUME NEW c \in Calls, ValidateNonce(c) PROVE RefusalsExplained'
  <2>1. call[c].outcome = "pending"
    BY <1>0, <1>10 DEF ValidateNonce, CheckedSoFar, NoncePoints
  <2>2. \A p : Explained(wallet, At(call[c], p))
    BY <1>0, <2>1, OtherwiseExplained
  <2> QED BY <1>1, <1>10, <2>2 DEF ValidateNonce
<1> QED BY <1>2, <1>3, <1>4, <1>5, <1>6, <1>7, <1>8, <1>9, <1>10 DEF Next, Progress

\* What the finding about equal client ids leaves standing: a URL and an
\* impeccable request object whose client ids are equal are refused only if
\* the client id is a bare one.
OnlyBareIdsAreRefused ==
  \A c \in Calls :
    LET s == call[c] IN
    /\ s.outcome = "invalid_request" /\ s.op = "validate_request"
    /\ s.url.kind \in {"value", "reference"} /\ Impeccable(wallet, s.jwt)
    /\ s.url.client_id = s.jwt.obj.client_id
    => s.url.client_id.prefix = Bare

\* mod.rs:593: the comparison of client ids is right for every client id that
\* is written with its prefix.
THEOREM PrefixedClientIdsAgree == Spec => []OnlyBareIdsAreRefused
<1>1. Init => RefusalsExplained
  BY DEF Init, RefusalsExplained, Explained, Idle
<1>2. TypeOK /\ CheckedBeforeUse /\ RefusalsExplained /\ [Next]_vars => RefusalsExplained'
  BY StepExplained
<1>3. RefusalsExplained => OnlyBareIdsAreRefused
  BY DEF RefusalsExplained, Explained, OnlyBareIdsAreRefused, FullId, ClientId
<1> QED BY <1>1, <1>2, <1>3, TypeCorrect, ChecksHold, PTL DEF Spec

=============================================================================
