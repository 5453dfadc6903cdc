--------------------------- MODULE RequestBuilding ---------------------------
(***************************************************************************)
(* The verifier's side of an authorization request: the builder of the     *)
(* verifier (verifier/mod.rs), the builder of a request                    *)
(* (verifier/request_builder.rs), and what the wallet reads in the URL     *)
(* they produce.                                                           *)
(*                                                                         *)
(* Every error of this component is an Error::Internal, so that a failed   *)
(* step is just a change of phase.  A definition commented as a faulty     *)
(* variant is kept to confirm that a property notices a mistake.           *)
(***************************************************************************)
EXTENDS Metadata, Dcql

CONSTANTS
  None,
  Clients,         \* clients: [id, signs] at least, id a client_id with its prefix
  Endpoints,       \* URLs the verifier may listen at
  Defaults,        \* <<key, value>> pairs for with_default_request_parameter
  Parameters,      \* <<key, value>> pairs for with_request_parameter
  Queries,         \* DCQL queries an application holds
  Definitions,     \* presentation definitions: [id, inputs]
  Metadatas        \* wallet metadata a request may be built against

\* Clients always have a prefix (ClientId::new).
ASSUME BuildingAssumption ==
  /\ None \notin Clients /\ None \notin Queries /\ None \notin Definitions /\ Absent \notin Definitions
  /\ \A client \in Clients : client.id # Absent /\ client.id.prefix # Bare
  /\ \A dcql \in Queries : IsQuery(dcql)

VARIABLES
  verifier,        \* Verifier and its builder
  builder          \* RequestBuilder, then the request it has built

vars == <<verifier, builder>>

RequestTypes == {"plain", "value", "reference"}

ObjectKeys ==
  {"client_id", "redirect_uri", "response_uri", "response_mode", "response_type",
   "presentation_definition", "presentation_definition_uri", "dcql_query", "nonce",
   "client_metadata", "wallet_nonce", "expected_origins", "transaction_data"}

EmptyObject == [k \in ObjectKeys |-> Absent]

NewVerifier ==
  [phase |-> "configuring", client |-> None, endpoint |-> Absent, defaults |-> EmptyObject]

NoBuilder ==
  [phase |-> "none", params |-> EmptyObject, dcql |-> None, definition |-> None,
   metadata |-> None, type |-> "plain"]

TypeOK ==
  /\ verifier.phase \in {"configuring", "built", "failed"}
  /\ verifier.client \in Clients \cup {None}
  /\ verifier.endpoint \in Endpoints \cup {Absent}
  /\ verifier.phase = "built" => verifier.client # None
  /\ builder.phase \in {"none", "configuring", "signing", "built", "failed"}
  /\ builder.metadata \in Metadatas \cup {None} /\ builder.type \in RequestTypes
  /\ builder.dcql \in Queries \cup {None} /\ builder.definition \in Definitions \cup {None}
  /\ DOMAIN builder.params = ObjectKeys /\ DOMAIN verifier.defaults = ObjectKeys

----------------------------------------------------------------------------
(* The checks of RequestBuilder::build *)

\* Faulty variant: neighbours are compared, not all credentials.
ValidDcqlByNeighbours(dcql) ==
  \A i \in 1 .. Len(dcql.credentials) - 1 : dcql.credentials[i].id # dcql.credentials[i + 1].id

\* validate_dcql; what claim sets and credential sets refer to is not looked up.
ValidDcql(dcql) ==
  /\ \A i, j \in DOMAIN dcql.credentials :
       dcql.credentials[i].id = dcql.credentials[j].id => i = j
  /\ \A i \in DOMAIN dcql.credentials : dcql.credentials[i].claim_sets # Absent =>
       LET claims == dcql.credentials[i].claims IN
       /\ claims # Absent
       /\ \A k, l \in DOMAIN claims :
            claims[k].id # Absent /\ (claims[k].id = claims[l].id => k = l)

\* validate_presentation_definition
ValidDefinition(definition) == definition.id # "" /\ definition.inputs # {}

\* validate_response_type, against the typed copies of the metadata.
ResponseTypeFits(m, o) ==
  /\ Readable(o, "response_type")
  /\ o.response_type \in m.typed.response_types_supported
  /\ o.response_type = "vp_token id_token" =>
       /\ Readable(o, "client_metadata")
       /\ Readable(o.client_metadata, "subject_syntax_types_supported")
       /\ o.client_metadata.subject_syntax_types_supported
            \subseteq m.typed.subject_syntax_types_supported

\* UntypedObject::insert of a query; Bad is one that a reader refuses.
Inserted(dcql) == IF LegibleQuery(WriteQuery(dcql)) THEN WriteQuery(dcql) ELSE Bad

\* Faulty variant: a client_id given as a parameter is kept.
WithQueryAndOwnId(b, client) ==
  [b.params EXCEPT !.client_id = IF @ = Absent THEN client.id ELSE @,
                   !.dcql_query = IF b.dcql # None THEN Inserted(b.dcql) ELSE @,
                   !.presentation_definition = IF b.definition # None THEN b.definition ELSE @]

\* The client id and the query go into the parameters whatever they hold.
WithQuery(b, client) ==
  [b.params EXCEPT !.client_id = client.id,
                   !.dcql_query = IF b.dcql # None THEN Inserted(b.dcql) ELSE @,
                   !.presentation_definition = IF b.definition # None THEN b.definition ELSE @]

\* build_helper goes through: the response mode is given, and what it needs.
ModeFits(o, endpoint, type) ==
  /\ Mode(o) \in FragmentModes \cup DirectPostModes \cup DcApiModes
  /\ o.response_mode # Absent
  /\ Mode(o) \notin DcApiModes => endpoint # Absent
  /\ Mode(o) \in DcApiModes /\ type # "plain" => Readable(o, "expected_origins")

\* Faulty variant: a response_uri given as a parameter is kept.
WithReturnUriIfNone(o, endpoint, type) ==
  IF Mode(o) \in DirectPostModes
    THEN [o EXCEPT !.response_uri = IF @ = Absent THEN endpoint ELSE @]
  ELSE IF Mode(o) \in FragmentModes THEN [o EXCEPT !.redirect_uri = endpoint]
  ELSE [o EXCEPT !.client_id = IF type = "plain" THEN Absent ELSE @,
                 !.response_uri = Absent, !.redirect_uri = Absent]

\* What build_helper writes.
WithReturnUri(o, endpoint, type) ==
  IF Mode(o) \in DirectPostModes THEN [o EXCEPT !.response_uri = endpoint]
  ELSE IF Mode(o) \in FragmentModes THEN [o EXCEPT !.redirect_uri = endpoint]
  ELSE [o EXCEPT !.client_id = IF type = "plain" THEN Absent ELSE @,
                 !.response_uri = Absent, !.redirect_uri = Absent]

\* The parameters when the typed object is made of them.
Completed(b, type) ==
  WithReturnUri(WithQuery(b, verifier.client), verifier.endpoint, type)

\* Faulty variant: the typed object is not made.
BuildsUnparsed(b, m, type) ==
  /\ (b.dcql = None) # (b.definition = None)
  /\ b.dcql # None => ValidDcql(b.dcql)
  /\ b.definition # None => ValidDefinition(b.definition)
  /\ ResponseTypeFits(m, WithQuery(b, verifier.client))
  /\ IsClientIdPrefixSupported(m, verifier.client.id.prefix)
  /\ ModeFits(b.params, verifier.endpoint, type)
  /\ Readable(m.raw, "authorization_endpoint")

\* Every check of build up to the signature.
Builds(b, m, type) ==
  /\ (b.dcql = None) # (b.definition = None)
  /\ b.dcql # None => ValidDcql(b.dcql)
  /\ b.definition # None => ValidDefinition(b.definition)
  /\ ResponseTypeFits(m, WithQuery(b, verifier.client))
  /\ IsClientIdPrefixSupported(m, verifier.client.id.prefix)
  /\ ModeFits(b.params, verifier.endpoint, type)
  /\ ParseError(Completed(b, type)) = NoError
  /\ Readable(m.raw, "authorization_endpoint")

----------------------------------------------------------------------------
Init == verifier = NewVerifier /\ builder = NoBuilder

Configuring(v) == verifier.phase = "configuring" /\ verifier' = v /\ UNCHANGED builder

WithDefaultRequestParameter(key, value) ==
  Configuring([verifier EXCEPT !.defaults[key] = value])

WithClient(client) == Configuring([verifier EXCEPT !.client = client])

WithSubmissionEndpoint(url) == Configuring([verifier EXCEPT !.endpoint = url])

\* Faulty variant: the client is not asked for.
BuildVerifierWithoutClient == Configuring([verifier EXCEPT !.phase = "built"])

\* VerifierBuilder::build fails without a client.
BuildVerifier ==
  Configuring([verifier EXCEPT !.phase = IF verifier.client = None THEN "failed" ELSE "built"])

BuildAuthorizationRequest ==
  /\ verifier.phase = "built" /\ builder.phase = "none"
  /\ builder' = [NoBuilder EXCEPT !.phase = "configuring", !.params = verifier.defaults]
  /\ UNCHANGED verifier

Preparing(b) == builder.phase = "configuring" /\ builder' = b /\ UNCHANGED verifier

WithRequestParameter(key, value) == Preparing([builder EXCEPT !.params[key] = value])

WithDcql(dcql) == Preparing([builder EXCEPT !.dcql = dcql])

WithPresentationDefinition(definition) == Preparing([builder EXCEPT !.definition = definition])

\* RequestBuilder::build up to its await; a plain request needs no signature.
Build(m, type) ==
  Preparing([builder EXCEPT
    !.metadata = m, !.type = type,
    !.params = IF Builds(builder, m, type) THEN Completed(builder, type) ELSE @,
    !.phase = IF ~Builds(builder, m, type) THEN "failed"
              ELSE IF type = "plain" THEN "built" ELSE "signing"])

\* generate_request_object_jwt: the redirect_uri client cannot sign, and a
\* signer may fail.
Sign ==
  /\ builder.phase = "signing"
  /\ \E phase \in {"built", "failed"} :
       /\ phase = "built" => verifier.client.signs
       /\ builder' = [builder EXCEPT !.phase = phase]
  /\ UNCHANGED verifier

Next ==
  \/ \E p \in Defaults : WithDefaultRequestParameter(p[1], p[2])
  \/ \E client \in Clients : WithClient(client)
  \/ \E url \in Endpoints : WithSubmissionEndpoint(url)
  \/ BuildVerifier
  \/ BuildAuthorizationRequest
  \/ \E p \in Parameters : WithRequestParameter(p[1], p[2])
  \/ \E dcql \in Queries : WithDcql(dcql)
  \/ \E definition \in Definitions : WithPresentationDefinition(definition)
  \/ \E m \in Metadatas, type \in RequestTypes : Build(m, type)
  \/ Sign

Spec == Init /\ [][Next]_vars

----------------------------------------------------------------------------
(* What the wallet reads *)

\* The parameters whose TryFrom<Json> does not read JSON out of a text.
ArrayParameters == {"transaction_data", "expected_origins"}

\* flatten_for_form writes every value as a text; from_query_params gives the
\* texts back.
ReadFromUrl(o) ==
  [k \in DOMAIN o |-> IF k \in ArrayParameters /\ o[k] # Absent THEN Bad ELSE o[k]]

\* The object the wallet works on: out of the URL, or out of the JWT.
Received == IF builder.type = "plain" THEN ReadFromUrl(builder.params) ELSE builder.params

\* Faulty variant: the client_id is written without its prefix.
UrlClientIdWithoutPrefix == [verifier.client.id EXCEPT !.prefix = Bare]

\* The client_id of a URL that carries or refers to a JWT.
UrlClientId == FullId(verifier.client.id)

----------------------------------------------------------------------------
(* Properties *)

\* Whatever parameters, defaults and queries were given in whatever order, a
\* request that was built is one the wallet can read: the object parses as it
\* arrives, as text or as JSON, and the client id in the URL of a signed
\* request is that of its object, so that resolve_auth_request agrees.
BuiltRequestIsReadable ==
  builder.phase = "built" =>
    /\ ParseError(Received) = NoError
    /\ builder.type # "plain" => UrlClientId = FullId(ClientId(Received.client_id))

\* A built request sends its answer to the verifier's submission endpoint, or
\* nowhere in the DC API response modes, even if redirect_uri or response_uri
\* was set as a parameter or as a default.
AnswersGoToTheVerifier ==
  builder.phase = "built" =>
    ReturnUri(Received) = IF Mode(Received) \in DcApiModes THEN Absent ELSE verifier.endpoint

\* verifier/mod.rs: the client overrides whatever client_id the application
\* set as a default or as a parameter, and only a client that can sign has
\* signed.
RequestNamesItsClient ==
  builder.phase = "built" =>
    /\ ClientId(Received.client_id) = verifier.client.id
    /\ builder.type # "plain" => verifier.client.signs

\* An answer to the query of a built request is keyed by credential id: an id
\* names one credential, and a claim id one claim where sets refer to claims.
AnswersAreUnambiguous ==
  builder.phase = "built" /\ Received.dcql_query # Absent =>
    LET credentials == Received.dcql_query.credentials IN
    \A i, j \in DOMAIN credentials :
      LET c == credentials[i] IN
      /\ c.id = credentials[j].id => i = j
      /\ c.claim_sets # Absent => c.claims # Absent /\
           Cardinality({c.claims[k].id : k \in DOMAIN c.claims} \ {Absent}) = Len(c.claims)

\* The wallet reads the query the verifier has built, key identifiers by the
\* text they were given as ("kept as given", KeyIdentifier) and by their bytes,
\* whatever query the parameters held before, and can write it as it got it.
QueryArrivesUnchanged ==
  builder.phase = "built" /\ builder.dcql # None =>
    LET read == ReadQuery(Received.dcql_query) IN
    /\ LegibleQuery(Received.dcql_query) /\ WriteQuery(read) = Received.dcql_query
    /\ Canonical(builder.dcql) => read = builder.dcql

============================================================================
