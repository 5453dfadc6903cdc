------------------------- MODULE RequestBuilding_proofs -------------------------
(***************************************************************************)
(* Theorems about RequestBuilding, for every set of clients, parameters,   *)
(* defaults, queries, definitions and wallets.  What each property asks of *)
(* a built request was true when build went through, and neither the       *)
(* verifier nor the parameters change after that: Sealed says so.          *)
(***************************************************************************)
EXTENDS RequestBuilding, Dcql_proofs, FiniteSetTheorems

\* What build has checked and written.
Checked ==
  /\ ParseError(builder.params) = NoError
  /\ builder.params.client_id = verifier.client.id
  /\ ReturnUri(builder.params) =
       IF Mode(builder.params) \in DcApiModes THEN Absent ELSE verifier.endpoint
  /\ builder.dcql = None => builder.params.dcql_query = Absent
  /\ builder.dcql # None =>
       ValidDcql(builder.dcql) /\ builder.params.dcql_query = Inserted(builder.dcql)

Sealed ==
  /\ builder.phase # "none" => verifier.phase = "built"
  /\ builder.phase \in {"signing", "built"} => Checked
  /\ builder.phase = "built" /\ builder.type # "plain" => verifier.client.signs

\* The members of the two states.
Shape ==
  /\ verifier = [phase |-> verifier.phase, client |-> verifier.client,
                 endpoint |-> verifier.endpoint, defaults |-> verifier.defaults]
  /\ builder = [phase |-> builder.phase, params |-> builder.params, dcql |-> builder.dcql,
                definition |-> builder.definition, metadata |-> builder.metadata,
                type |-> builder.type]

Inv == Shape /\ TypeOK /\ Sealed

----------------------------------------------------------------------------
(* The parameters build writes *)

\* The client id and the query go in whatever the parameters hold.
LEMMA QueryGoesIn ==
  ASSUME NEW b, NEW client, DOMAIN b.params = ObjectKeys,
         NEW o, o = WithQuery(b, client)
  PROVE  /\ DOMAIN o = ObjectKeys /\ o.client_id = client.id
         /\ o.dcql_query = (IF b.dcql # None THEN Inserted(b.dcql) ELSE b.params.dcql_query)
         /\ b.definition # None => o.presentation_definition = b.definition
         /\ o.response_mode = b.params.response_mode
<1> DEFINE query == IF b.dcql # None THEN Inserted(b.dcql) ELSE b.params.dcql_query
           definition == IF b.definition # None THEN b.definition
                         ELSE b.params.presentation_definition
<1>1. o = [b.params EXCEPT !.client_id = client.id, !.dcql_query = query,
                           !.presentation_definition = definition]
  BY DEF WithQuery
<1>2. /\ DOMAIN o = ObjectKeys /\ o.client_id = client.id
      /\ o.dcql_query = query /\ o.presentation_definition = definition
      /\ o.response_mode = b.params.response_mode
  <2> HIDE DEF query, definition
  <2> QED BY <1>1 DEF ObjectKeys
<1> QED BY <1>2

\* The return address comes from the verifier, and nothing else changes but
\* the client_id of a plain request in a DC API mode.
LEMMA ReturnUriGoesIn ==
  ASSUME NEW o, DOMAIN o = ObjectKeys, NEW endpoint, NEW type,
         NEW done, done = WithReturnUri(o, endpoint, type)
  PROVE  /\ DOMAIN done = ObjectKeys
         /\ \A k \in ObjectKeys \ {"client_id", "redirect_uri", "response_uri"} : done[k] = o[k]
         /\ Mode(o) \in DirectPostModes => done.response_uri = endpoint
         /\ Mode(o) \in FragmentModes => done.redirect_uri = endpoint
         /\ done.client_id \in {o.client_id, Absent}
<1>1. CASE Mode(o) \in DirectPostModes
  <2>1. done = [o EXCEPT !.response_uri = endpoint] /\ Mode(o) \notin FragmentModes
    BY <1>1 DEF WithReturnUri, DirectPostModes, FragmentModes
  <2> QED BY <1>1, <2>1 DEF ObjectKeys
<1>2. CASE Mode(o) \in FragmentModes
  <2>1. done = [o EXCEPT !.redirect_uri = endpoint] /\ Mode(o) \notin DirectPostModes
    BY <1>2 DEF WithReturnUri, DirectPostModes, FragmentModes
  <2> QED BY <1>2, <2>1 DEF ObjectKeys
<1>3. CASE Mode(o) \notin DirectPostModes \cup FragmentModes
  <2>1. PICK id : id \in {o.client_id, Absent} /\
          done = [o EXCEPT !.client_id = id, !.response_uri = Absent, !.redirect_uri = Absent]
    BY <1>3 DEF WithReturnUri
  <2> QED BY <1>3, <2>1 DEF ObjectKeys
<1> QED BY <1>1, <1>2, <1>3

\* What an object that parses says.
LEMMA Parsed ==
  ASSUME NEW o, ParseError(o) = NoError
  PROVE  /\ o.client_id # Absent /\ UrisFitMode(o) /\ o.dcql_query # Bad
         /\ Readable(o, "nonce") /\ Readable(o, "client_metadata")
         /\ \E q \in QueryParameters : QueriesOf(o) = {q}
<1>1. \A e \in {Internal, "invalid_request", "invalid_dcql_format",
              "invalid_presentation_definition_format", "invalid_presentation_definition_uri"} : e # NoError
  BY DEF Internal, NoError
<1>2. Readable(o, "client_id") /\ UrisFitMode(o) /\ QueryError(o) = NoError
      /\ Readable(o, "nonce") /\ Readable(o, "client_metadata")
  BY <1>1 DEF ParseError
<1>3. (\E q \in QueryParameters : QueriesOf(o) = {q}) /\ o.dcql_query # Bad
  BY <1>1, <1>2 DEF QueryError
<1> QED BY <1>2, <1>3 DEF Readable

\* A text where an array was does not change whether an object parses.
LEMMA UrlParses ==
  ASSUME NEW o, DOMAIN o = ObjectKeys, NEW r, r = ReadFromUrl(o)
  PROVE  /\ \A k \in ObjectKeys \ ArrayParameters : r[k] = o[k]
         /\ ParseError(r) = ParseError(o) /\ ReturnUri(r) = ReturnUri(o) /\ Mode(r) = Mode(o)
<1>1. \A k \in ObjectKeys \ ArrayParameters : r[k] = o[k]
  BY DEF ReadFromUrl
<1>2. /\ r.client_id = o.client_id /\ r.redirect_uri = o.redirect_uri
      /\ r.response_uri = o.response_uri /\ r.response_mode = o.response_mode
      /\ r.response_type = o.response_type /\ r.dcql_query = o.dcql_query
      /\ r.presentation_definition = o.presentation_definition
      /\ r.presentation_definition_uri = o.presentation_definition_uri
      /\ r.nonce = o.nonce /\ r.client_metadata = o.client_metadata
  BY <1>1 DEF ObjectKeys, ArrayParameters
<1>3. Mode(r) = Mode(o) /\ ReturnUri(r) = ReturnUri(o)
  BY <1>2 DEF Mode, ReturnUri
<1>4. UrisFitMode(r) = UrisFitMode(o)
  BY <1>2, <1>3 DEF UrisFitMode
<1>5. QueriesOf(r) = QueriesOf(o)
  BY <1>2 DEF QueriesOf, QueryParameters
<1>6. QueryError(r) = QueryError(o)
  BY <1>2, <1>5 DEF QueryError
<1>7. ParseError(r) = ParseError(o)
  BY <1>2, <1>3, <1>4, <1>6 DEF ParseError, Readable
<1> QED BY <1>1, <1>3, <1>7

----------------------------------------------------------------------------
(* The invariant *)

\* What build writes when all its checks go through.
LEMMA BuiltIsChecked ==
  ASSUME TypeOK, NEW m \in Metadatas, NEW type, Builds(builder, m, type),
         NEW o, o = Completed(builder, type)
  PROVE  /\ DOMAIN o = ObjectKeys /\ ParseError(o) = NoError
         /\ ResponseTypeFits(m, o) /\ IsClientIdPrefixSupported(m, verifier.client.id.prefix)
         /\ o.client_id = verifier.client.id
         /\ ReturnUri(o) = IF Mode(o) \in DcApiModes THEN Absent ELSE verifier.endpoint
         /\ builder.dcql = None => o.dcql_query = Absent
         /\ builder.dcql # None => ValidDcql(builder.dcql) /\ o.dcql_query = Inserted(builder.dcql)
<1> DEFINE with == WithQuery(builder, verifier.client)
<1>1. /\ ResponseTypeFits(m, with) /\ IsClientIdPrefixSupported(m, verifier.client.id.prefix)
      /\ ParseError(o) = NoError /\ ((builder.dcql = None) # (builder.definition = None))
      /\ builder.dcql # None => ValidDcql(builder.dcql)
  BY DEF Builds
<1>2. /\ DOMAIN with = ObjectKeys /\ with.client_id = verifier.client.id
      /\ with.dcql_query =
           (IF builder.dcql # None THEN Inserted(builder.dcql) ELSE builder.params.dcql_query)
      /\ builder.definition # None => with.presentation_definition = builder.definition
  <2>1. DOMAIN builder.params = ObjectKeys
    BY DEF TypeOK
  <2> QED BY <2>1, QueryGoesIn
<1>3. /\ DOMAIN o = ObjectKeys
      /\ \A k \in ObjectKeys \ {"client_id", "redirect_uri", "response_uri"} : o[k] = with[k]
      /\ Mode(with) \in DirectPostModes => o.response_uri = verifier.endpoint
      /\ Mode(with) \in FragmentModes => o.redirect_uri = verifier.endpoint
      /\ o.client_id \in {with.client_id, Absent}
  <2>1. o = WithReturnUri(with, verifier.endpoint, type)
    BY DEF Completed
  <2> HIDE DEF with
  <2> QED BY <1>2, <2>1, ReturnUriGoesIn
<1>4. /\ o.response_mode = with.response_mode /\ o.response_type = with.response_type
      /\ o.client_metadata = with.client_metadata /\ o.dcql_query = with.dcql_query
      /\ o.presentation_definition = with.presentation_definition
  BY <1>3 DEF ObjectKeys
<1>5. o.client_id = verifier.client.id /\ UrisFitMode(o)
      /\ \E q \in QueryParameters : QueriesOf(o) = {q}
  BY <1>1, <1>2, <1>3, Parsed
<1>6. ResponseTypeFits(m, o)
  <2> HIDE DEF with
  <2> QED BY <1>1, <1>4 DEF ResponseTypeFits, Readable
<1>7. ReturnUri(o) = IF Mode(o) \in DcApiModes THEN Absent ELSE verifier.endpoint
  <2>1. Mode(o) = Mode(with)
    BY <1>4 DEF Mode
  <2>2. Mode(o) \in FragmentModes \cup DirectPostModes \cup DcApiModes
    BY <1>5 DEF UrisFitMode
  <2>3. /\ Mode(o) \in DcApiModes => Mode(o) \notin FragmentModes \cup DirectPostModes
        /\ Mode(o) \in DirectPostModes => Mode(o) \notin FragmentModes
    BY DEF FragmentModes, DirectPostModes, DcApiModes
  <2> HIDE DEF with
  <2> QED BY <1>3, <2>1, <2>2, <2>3 DEF ReturnUri
<1>8. builder.dcql = None => o.dcql_query = Absent
  <2> SUFFICES ASSUME builder.dcql = None PROVE o.dcql_query = Absent
    OBVIOUS
  <2>1. builder.definition \in Definitions
    BY <1>1 DEF TypeOK
  <2>2. o.presentation_definition # Absent
    BY <1>2, <1>4, <2>1, BuildingAssumption
  <2>3. "presentation_definition" \in QueriesOf(o)
    BY <2>2 DEF QueriesOf, QueryParameters
  <2>4. "dcql_query" \notin QueriesOf(o)
    BY <1>5, <2>3
  <2> QED BY <2>4 DEF QueriesOf, QueryParameters
<1> QED BY <1>1, <1>2, <1>3, <1>4, <1>5, <1>6, <1>7, <1>8

\* The verifier is set up before anything is built.
LEMMA ConfiguringKeepsInv ==
  ASSUME Inv, NEW v, Configuring(v), Shape', TypeOK'
  PROVE  Inv'
<1>1. builder.phase = "none" /\ builder' = builder
  BY DEF Configuring, Inv, Sealed, TypeOK
<1> QED BY <1>1 DEF Inv, Sealed

\* A request that is being prepared promises nothing yet.
LEMMA PreparingKeepsSealed ==
  ASSUME Inv, NEW b, Preparing(b), b.phase \in {"configuring", "failed"}
  PROVE  Sealed'
<1>1. verifier' = verifier /\ verifier.phase = "built" /\ builder' = b
  BY DEF Preparing, Inv, Sealed
<1> QED BY <1>1 DEF Sealed

LEMMA InitIsInv == Init => Inv
<1> SUFFICES ASSUME Init PROVE Inv
  OBVIOUS
<1>1. Shape
  BY DEF Init, NewVerifier, NoBuilder, Shape
<1>2. TypeOK
  BY DEF Init, NewVerifier, NoBuilder, TypeOK, RequestTypes, EmptyObject
<1>3. Sealed
  BY DEF Init, NewVerifier, NoBuilder, Sealed
<1> QED BY <1>1, <1>2, <1>3 DEF Inv

\* One step per action; only build and the signature make promises.
LEMMA StepKeepsInv == Inv /\ [Next]_vars => Inv'
<1> SUFFICES ASSUME Inv, [Next]_vars PROVE Inv'
  OBVIOUS
<1>0. Shape /\ TypeOK /\ Sealed
  BY DEF Inv
<1>1. ASSUME NEW p \in Defaults, WithDefaultRequestParameter(p[1], p[2]) PROVE Inv'
  <2>1. /\ verifier' = [verifier EXCEPT !.defaults[p[1]] = p[2]] /\ builder' = builder
        /\ Configuring([verifier EXCEPT !.defaults[p[1]] = p[2]])
    BY <1>1 DEF WithDefaultRequestParameter, Configuring
  <2>2. Shape' /\ TypeOK'
    BY <1>0, <2>1 DEF Shape, TypeOK
  <2> QED BY <2>1, <2>2, ConfiguringKeepsInv
<1>2. ASSUME NEW client \in Clients, WithClient(client) PROVE Inv'
  <2>1. /\ verifier' = [verifier EXCEPT !.client = client] /\ builder' = builder
        /\ Configuring([verifier EXCEPT !.client = client])
    BY <1>2 DEF WithClient, Configuring
  <2>2. Shape' /\ TypeOK'
    BY <1>0, <2>1, BuildingAssumption DEF Shape, TypeOK
  <2> QED BY <2>1, <2>2, ConfiguringKeepsInv
<1>3. ASSUME NEW url \in Endpoints, WithSubmissionEndpoint(url) PROVE Inv'
  <2>1. /\ verifier' = [verifier EXCEPT !.endpoint = url] /\ builder' = builder
        /\ Configuring([verifier EXCEPT !.endpoint = url])
    BY <1>3 DEF WithSubmissionEndpoint, Configuring
  <2>2. Shape' /\ TypeOK'
    BY <1>0, <2>1 DEF Shape, TypeOK
  <2> QED BY <2>1, <2>2, ConfiguringKeepsInv
<1>4. ASSUME BuildVerifier PROVE Inv'
  <2> DEFINE phase == IF verifier.client = None THEN "failed" ELSE "built"
  <2>1. /\ verifier' = [verifier EXCEPT !.phase = phase] /\ builder' = builder
        /\ Configuring([verifier EXCEPT !.phase = phase])
    BY <1>4 DEF BuildVerifier, Configuring
  <2>2. phase \in {"built", "failed"} /\ (phase = "built" => verifier.client # None)
    OBVIOUS
  <2> HIDE DEF phase
  <2>3. Shape' /\ TypeOK'
    BY <1>0, <2>1, <2>2 DEF Shape, TypeOK
  <2> QED BY <2>1, <2>3, ConfiguringKeepsInv
<1>5. ASSUME BuildAuthorizationRequest PROVE Inv'
  <2>1. /\ builder' = [NoBuilder EXCEPT !.phase = "configuring", !.params = verifier.defaults]
        /\ verifier' = verifier /\ verifier.phase = "built"
    BY <1>5 DEF BuildAuthorizationRequest
  <2>2. Shape' /\ TypeOK'
    BY <1>0, <2>1 DEF Shape, TypeOK, NoBuilder, RequestTypes
  <2>3. Sealed'
    BY <2>1 DEF Sealed, NoBuilder
  <2> QED BY <2>2, <2>3 DEF Inv
<1>6. ASSUME NEW p \in Parameters, WithRequestParameter(p[1], p[2]) PROVE Inv'
  <2> DEFINE b == [builder EXCEPT !.params[p[1]] = p[2]]
  <2>1. builder' = b /\ verifier' = verifier /\ Preparing(b) /\ builder.phase = "configuring"
    BY <1>6 DEF WithRequestParameter, Preparing
  <2>2. Shape' /\ TypeOK' /\ b.phase = "configuring"
    BY <1>0, <2>1 DEF Shape, TypeOK
  <2> HIDE DEF b
  <2> QED BY <2>1, <2>2, PreparingKeepsSealed DEF Inv
<1>7. ASSUME NEW dcql \in Queries, WithDcql(dcql) PROVE Inv'
  <2> DEFINE b == [builder EXCEPT !.dcql = dcql]
  <2>1. builder' = b /\ verifier' = verifier /\ Preparing(b) /\ builder.phase = "configuring"
    BY <1>7 DEF WithDcql, Preparing
  <2>2. Shape' /\ TypeOK' /\ b.phase = "configuring"
    BY <1>0, <2>1 DEF Shape, TypeOK
  <2> HIDE DEF b
  <2> QED BY <2>1, <2>2, PreparingKeepsSealed DEF Inv
<1>8. ASSUME NEW definition \in Definitions, WithPresentationDefinition(definition) PROVE Inv'
  <2> DEFINE b == [builder EXCEPT !.definition = definition]
  <2>1. builder' = b /\ verifier' = verifier /\ Preparing(b) /\ builder.phase = "configuring"
    BY <1>8 DEF WithPresentationDefinition, Preparing
  <2>2. Shape' /\ TypeOK' /\ b.phase = "configuring"
    BY <1>0, <2>1 DEF Shape, TypeOK
  <2> HIDE DEF b
  <2> QED BY <2>1, <2>2, PreparingKeepsSealed DEF Inv
<1>9. ASSUME NEW m \in Metadatas, NEW type \in RequestTypes, Build(m, type) PROVE Inv'
  <2> DEFINE o == Completed(builder, type)
  <2>0. builder.phase = "configuring" /\ verifier' = verifier /\ verifier.phase = "built"
    BY <1>0, <1>9 DEF Build, Preparing, Sealed
  <2>1. CASE Builds(builder, m, type)
    <3> DEFINE phase == IF type = "plain" THEN "built" ELSE "signing"
    <3>1. builder' = [builder EXCEPT !.metadata = m, !.type = type, !.params = o, !.phase = phase]
      BY <1>9, <2>1 DEF Build, Preparing
    <3>2. /\ DOMAIN o = ObjectKeys /\ ParseError(o) = NoError
          /\ ResponseTypeFits(m, o) /\ IsClientIdPrefixSupported(m, verifier.client.id.prefix)
          /\ o.client_id = verifier.client.id
          /\ ReturnUri(o) = IF Mode(o) \in DcApiModes THEN Absent ELSE verifier.endpoint
          /\ builder.dcql = None => o.dcql_query = Absent
          /\ builder.dcql # None => ValidDcql(builder.dcql) /\ o.dcql_query = Inserted(builder.dcql)
      BY <1>0, <2>1, BuiltIsChecked
    <3>3. phase \in {"built", "signing"} /\ (phase = "built" => type = "plain")
      OBVIOUS
    <3> HIDE DEF o, phase
    <3>4. /\ builder.phase' = phase /\ builder.params' = o /\ builder.metadata' = m
          /\ builder.type' = type /\ builder.dcql' = builder.dcql
          /\ builder.definition' = builder.definition
      BY <1>0, <3>1 DEF Shape
    <3>5. Shape'
      <4>1. builder' = [phase |-> phase, params |-> o, dcql |-> builder.dcql,
                        definition |-> builder.definition, metadata |-> m, type |-> type]
        BY <1>0, <3>1 DEF Shape
      <4> QED BY <1>0, <2>0, <3>4, <4>1 DEF Shape
    <3>6. TypeOK'
      BY <1>0, <2>0, <3>2, <3>3, <3>4 DEF TypeOK
    <3>7. Checked'
      BY <2>0, <3>2, <3>4 DEF Checked
    <3>8. Sealed'
      BY <2>0, <3>3, <3>4, <3>7 DEF Sealed
    <3> QED BY <3>5, <3>6, <3>8 DEF Inv
  <2>2. CASE ~Builds(builder, m, type)
    <3> DEFINE b == [builder EXCEPT !.metadata = m, !.type = type, !.phase = "failed"]
    <3>1. builder' = [builder EXCEPT !.metadata = m, !.type = type, !.params = @, !.phase = "failed"]
      BY <1>9, <2>2 DEF Build, Preparing
    <3>2. builder' = b
      BY <1>0, <3>1 DEF Shape
    <3>3. Shape' /\ TypeOK' /\ b.phase = "failed"
      BY <1>0, <2>0, <3>2 DEF Shape, TypeOK
    <3> HIDE DEF b
    <3>4. Preparing(b)
      BY <2>0, <3>2 DEF Preparing
    <3> QED BY <3>3, <3>4, PreparingKeepsSealed DEF Inv
  <2> QED BY <2>1, <2>2
<1>10. ASSUME Sign PROVE Inv'
  <2>1. PICK phase \in {"built", "failed"} :
          /\ phase = "built" => verifier.client.signs
          /\ builder' = [builder EXCEPT !.phase = phase]
    BY <1>10 DEF Sign
  <2>2. verifier' = verifier /\ verifier.phase = "built" /\ Checked
    BY <1>0, <1>10 DEF Sign, Sealed
  <2>3. /\ builder.phase' = phase /\ builder.params' = builder.params
        /\ builder.metadata' = builder.metadata /\ builder.type' = builder.type
        /\ builder.dcql' = builder.dcql /\ builder.definition' = builder.definition
    BY <1>0, <2>1 DEF Shape
  <2>4. Shape' /\ TypeOK'
    BY <1>0, <2>1, <2>2, <2>3 DEF Shape, TypeOK
  <2>5. Checked'
    BY <2>2, <2>3 DEF Checked
  <2>6. Sealed'
    BY <2>1, <2>2, <2>3, <2>5 DEF Sealed
  <2> QED BY <2>4, <2>6 DEF Inv
<1>11. CASE UNCHANGED vars
  BY <1>0, <1>11 DEF vars, Inv, Shape, TypeOK, Sealed, Checked
<1> QED BY <1>1, <1>2, <1>3, <1>4, <1>5, <1>6, <1>7, <1>8, <1>9, <1>10, <1>11 DEF Next

\* Sealed is inductive together with the types.
LEMMA InvHolds == Spec => []Inv
BY InitIsInv, StepKeepsInv, PTL DEF Spec

----------------------------------------------------------------------------
(* What holds of a built request *)

\* What arrives of a request that was built.
LEMMA ArrivesAsBuilt ==
  ASSUME Inv, builder.phase = "built"
  PROVE  /\ Checked /\ DOMAIN builder.params = ObjectKeys
         /\ \A k \in ObjectKeys \ ArrayParameters : Received[k] = builder.params[k]
         /\ ParseError(Received) = NoError
         /\ ReturnUri(Received) = ReturnUri(builder.params)
         /\ Mode(Received) = Mode(builder.params)
<1>1. Checked /\ DOMAIN builder.params = ObjectKeys /\ ParseError(builder.params) = NoError
  BY DEF Inv, Sealed, TypeOK, Checked
<1>2. CASE builder.type = "plain"
  <2>1. Received = ReadFromUrl(builder.params)
    BY <1>2 DEF Received
  <2> QED BY <1>1, <2>1, UrlParses
<1>3. CASE builder.type # "plain"
  <2>1. Received = builder.params
    BY <1>3 DEF Received
  <2> QED BY <1>1, <2>1
<1> QED BY <1>2, <1>3

\* The client of a verifier that was built.
LEMMA ClientIsKnown ==
  ASSUME Inv, builder.phase = "built"
  PROVE  /\ verifier.client.id.prefix # Bare /\ Received.client_id = verifier.client.id
         /\ ClientId(Received.client_id) = verifier.client.id
<1>1. verifier.client \in Clients
  BY DEF Inv, Sealed, TypeOK
<1>2. verifier.client.id.prefix # Bare
  BY <1>1, BuildingAssumption
<1>3. Received.client_id = verifier.client.id
  BY ArrivesAsBuilt DEF Checked, ObjectKeys, ArrayParameters
<1> QED BY <1>2, <1>3 DEF ClientId

\* The members of the two builders are what their types say, and a verifier
\* that was built has a client (VerifierBuilder::build).
THEOREM BuildingTypeOK == Spec => []TypeOK
<1>1. Inv => TypeOK
  BY DEF Inv
<1> QED BY <1>1, InvHolds, PTL

\* Whatever was set in whatever order, the request that build returns parses
\* as it arrives, and a URL with a JWT names the client of its object.
THEOREM BuiltIsReadable == Spec => []BuiltRequestIsReadable
<1>1. Inv => BuiltRequestIsReadable
  <2> SUFFICES ASSUME Inv, builder.phase = "built"
               PROVE  /\ ParseError(Received) = NoError
                      /\ UrlClientId = FullId(ClientId(Received.client_id))
    BY DEF BuiltRequestIsReadable
  <2> QED BY ArrivesAsBuilt, ClientIsKnown DEF UrlClientId, FullId
<1> QED BY <1>1, InvHolds, PTL

\* build_helper overrides or removes any return address of the parameters.
THEOREM AnswersReturnToTheVerifier == Spec => []AnswersGoToTheVerifier
<1>1. Inv => AnswersGoToTheVerifier
  <2> SUFFICES ASSUME Inv, builder.phase = "built"
               PROVE  ReturnUri(Received) =
                        IF Mode(Received) \in DcApiModes THEN Absent ELSE verifier.endpoint
    BY DEF AnswersGoToTheVerifier
  <2> QED BY ArrivesAsBuilt DEF Checked
<1> QED BY <1>1, InvHolds, PTL

\* The client of the verifier overrides the client_id of the parameters and of
\* the defaults, and a client that cannot sign signs nothing.
THEOREM ClientOverrides == Spec => []RequestNamesItsClient
<1>1. Inv => RequestNamesItsClient
  <2> SUFFICES ASSUME Inv, builder.phase = "built"
               PROVE  /\ ClientId(Received.client_id) = verifier.client.id
                      /\ builder.type # "plain" => verifier.client.signs
    BY DEF RequestNamesItsClient
  <2> QED BY ClientIsKnown DEF Inv, Sealed
<1> QED BY <1>1, InvHolds, PTL

\* The query a built request carries, if it does.
LEMMA QueryOfBuilt ==
  ASSUME Inv, builder.phase = "built"
  PROVE  /\ Received.dcql_query # Absent => builder.dcql # None
         /\ builder.dcql # None =>
              /\ IsQuery(builder.dcql) /\ ValidDcql(builder.dcql)
              /\ LegibleQuery(WriteQuery(builder.dcql))
              /\ Received.dcql_query = WriteQuery(builder.dcql)
<1>1. Received.dcql_query = builder.params.dcql_query /\ Received.dcql_query # Bad
  BY ArrivesAsBuilt, Parsed DEF ObjectKeys, ArrayParameters
<1>2. Received.dcql_query # Absent => builder.dcql # None
  BY <1>1, ArrivesAsBuilt DEF Checked
<1>3. ASSUME builder.dcql # None
      PROVE  /\ IsQuery(builder.dcql) /\ ValidDcql(builder.dcql)
             /\ LegibleQuery(WriteQuery(builder.dcql))
             /\ Received.dcql_query = WriteQuery(builder.dcql)
  <2>1. builder.dcql \in Queries
    BY <1>3 DEF Inv, TypeOK
  <2>2. ValidDcql(builder.dcql) /\ Received.dcql_query = Inserted(builder.dcql)
    BY <1>1, <1>3, ArrivesAsBuilt DEF Checked
  <2> QED BY <1>1, <2>1, <2>2, BuildingAssumption DEF Inserted
<1> QED BY <1>2, <1>3

\* As many ids as claims, when every claim has an id of its own.
LEMMA IdsAreCounted ==
  ASSUME NEW claims, IsVec(claims),
         \A k, l \in DOMAIN claims :
           claims[k].id # Absent /\ (claims[k].id = claims[l].id => k = l)
  PROVE  Cardinality({claims[k].id : k \in DOMAIN claims} \ {Absent}) = Len(claims)
<1> DEFINE n == Len(claims)
           ids == {claims[k].id : k \in DOMAIN claims} \ {Absent}
           f == [k \in 1 .. n |-> claims[k].id]
<1>1. DOMAIN claims = 1 .. n /\ n \in Nat
  BY VecDomain DEF IsVec
<1>2. f \in Injection(1 .. n, ids)
  BY <1>1 DEF Injection, IsInjective
<1>3. f \in Surjection(1 .. n, ids)
  BY <1>1 DEF Surjection
<1>4. ExistsBijection(1 .. n, ids)
  BY <1>2, <1>3 DEF ExistsBijection, Bijection
<1>5. IsFiniteSet(1 .. n) /\ Cardinality(1 .. n) = n
  BY <1>1, FS_Interval
<1> QED BY <1>4, <1>5, FS_Bijection

\* What validate_dcql asks of the query it asks of the query that arrives.
THEOREM AnswersAreKeyed == Spec => []AnswersAreUnambiguous
<1>1. Inv => AnswersAreUnambiguous
  <2> SUFFICES ASSUME Inv, builder.phase = "built", Received.dcql_query # Absent,
                      NEW i \in DOMAIN Received.dcql_query.credentials,
                      NEW j \in DOMAIN Received.dcql_query.credentials
               PROVE  LET c == Received.dcql_query.credentials[i] IN
                      /\ c.id = Received.dcql_query.credentials[j].id => i = j
                      /\ c.claim_sets # Absent => c.claims # Absent /\
                           Cardinality({c.claims[k].id : k \in DOMAIN c.claims} \ {Absent})
                             = Len(c.claims)
    BY DEF AnswersAreUnambiguous
  <2> DEFINE held == builder.dcql.credentials
             sent == Received.dcql_query.credentials
  <2>1. IsQuery(builder.dcql) /\ ValidDcql(builder.dcql)
        /\ Received.dcql_query = WriteQuery(builder.dcql)
    BY QueryOfBuilt
  <2>2. sent = [k \in 1 .. Len(held) |-> WriteCredential(held[k])] /\ DOMAIN held = 1 .. Len(held)
    BY <2>1, WrittenQuery, VecDomain DEF IsQuery
  <2>3. i \in DOMAIN held /\ j \in DOMAIN held
        /\ sent[i] = WriteCredential(held[i]) /\ sent[j] = WriteCredential(held[j])
        /\ IsCredential(held[i]) /\ IsCredential(held[j])
    BY <2>1, <2>2 DEF IsQuery
  <2>4. /\ sent[i].id = held[i].id /\ sent[j].id = held[j].id
        /\ sent[i].claims = held[i].claims /\ sent[i].claim_sets = held[i].claim_sets
    <3>1. ASSUME NEW c, IsCredential(c)
          PROVE  /\ WriteCredential(c).id = c.id /\ WriteCredential(c).claims = c.claims
                 /\ WriteCredential(c).claim_sets = c.claim_sets
      <4> DEFINE w == WriteCredential(c)
      <4>1. w = [id |-> c.id, format |-> c.format.name, claims |-> c.claims,
                 claim_sets |-> c.claim_sets, trusted_authorities |-> w.trusted_authorities]
        BY <3>1, WrittenCredential
      <4> HIDE DEF w
      <4>2. w.id = c.id /\ w.claims = c.claims /\ w.claim_sets = c.claim_sets
        BY <4>1
      <4> QED BY <4>2 DEF w
    <3> QED BY <2>3, <3>1
  <2>5. held[i].id = held[j].id => i = j
    BY <2>1, <2>3 DEF ValidDcql
  <2>6. ASSUME held[i].claim_sets # Absent
        PROVE  /\ held[i].claims # Absent
               /\ Cardinality({held[i].claims[k].id : k \in DOMAIN held[i].claims} \ {Absent})
                    = Len(held[i].claims)
    <3>1. /\ held[i].claims # Absent
          /\ \A k, l \in DOMAIN held[i].claims :
               held[i].claims[k].id # Absent
               /\ (held[i].claims[k].id = held[i].claims[l].id => k = l)
      BY <2>1, <2>3, <2>6 DEF ValidDcql
    <3>2. IsVec(held[i].claims)
      BY <2>3, <3>1 DEF IsCredential
    <3> QED BY <3>1, <3>2, IdsAreCounted
  <2> QED BY <2>4, <2>5, <2>6
<1> QED BY <1>1, InvHolds, PTL

\* The query that arrives is legible and is the application's, whatever the
\* parameters held before build inserted it.
THEOREM QueryArrives == Spec => []QueryArrivesUnchanged
<1>1. Inv => QueryArrivesUnchanged
  <2> SUFFICES ASSUME Inv, builder.phase = "built", builder.dcql # None
               PROVE  LET read == ReadQuery(Received.dcql_query) IN
                      /\ LegibleQuery(Received.dcql_query)
                      /\ WriteQuery(read) = Received.dcql_query
                      /\ Canonical(builder.dcql) => read = builder.dcql
    BY DEF QueryArrivesUnchanged
  <2>1. /\ IsQuery(builder.dcql) /\ LegibleQuery(WriteQuery(builder.dcql))
        /\ Received.dcql_query = WriteQuery(builder.dcql)
    BY QueryOfBuilt
  <2> QED BY <2>1, QuerySurvives, WrittenQueryIsKept
<1> QED BY <1>1, InvHolds, PTL

============================================================================
