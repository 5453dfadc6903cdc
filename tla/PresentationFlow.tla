--------------------------- MODULE PresentationFlow ---------------------------
(***************************************************************************)
(* A whole exchange: a verifier builds a request for a wallet              *)
(* (RequestBuilding), the wallet validates what it is handed               *)
(* (RequestResolution), resolves the query and submits a response          *)
(* (ResponseSubmission), between other verifiers whose requests and        *)
(* request objects reach the wallet as well.                               *)
(*                                                                         *)
(* The verifier's application serves the request object it has built at    *)
(* the request_uri, with the wallet_nonce of the request if it wants to.   *)
(***************************************************************************)
EXTENDS Metadata, TransactionData, Sequences

CONSTANTS
  Calls, Nonces, Wallets, None, NoOne, Doubled,
  Prepared,         \* <<verifier, builder>> states before build is called; a
                    \* client is [id, signs, kid, leaf, key], key its signer's,
                    \* Absent if it has none
  Methods,          \* request_uri_method in the URL of a request by reference
  Alg,              \* the algorithm of the verifier's signer
  OtherUrls,        \* requests of other verifiers
  OtherJwts,        \* request objects of other signers
  ResponseObjects,  \* objects the wallet's application makes a response of
  ResponseJwts,     \* responses as JWTs
  LastAttempt,      \* bound on the submissions of one accepted request
  MostSubmissions   \* bound on the submissions of all calls together

VARIABLES
  verifier, builder, wallet, call, issued, spentBy,
  query,            \* query[c]: resolve_presentation_query for call c
  sub, inbox

vars == <<verifier, builder, wallet, call, issued, spentBy, query, sub, inbox>>

verifierSide == <<verifier, builder>>
callSide     == <<wallet, call, issued, spentBy>>
answerSide   == <<sub, inbox>>

Attempts == 1 .. LastAttempt

\* Texts are records, and Absent is none.
ASSUME TextsAssumption ==
  /\ \A text \in ResponseJwts :
       text # Absent /\ [json |-> FALSE, value |-> text] # Absent
  /\ \A o \in ResponseObjects :
       /\ o = [k \in DOMAIN o |-> o[k]]
       /\ DOMAIN o = {"vp_token", "presentation_submission", "id_token", "state",
                     "transaction_data_hashes", "transaction_data_hashes_alg"}
       /\ \A k \in DOMAIN o, json \in BOOLEAN : [json |-> json, value |-> o[k]] # Absent

Building == INSTANCE RequestBuilding WITH
  Clients <- {}, Endpoints <- {}, Defaults <- {}, Parameters <- {}, Queries <- {},
  Definitions <- {}, Metadatas <- {}, IllegalIds <- {}

Resolution == INSTANCE RequestResolution WITH Urls <- {}, Jwts <- {}

Submission == INSTANCE ResponseSubmission WITH Submissions <- Calls \X Attempts

\* Texts that TransactionDataItem::into_base64url_encoded writes of items.
AreItems(texts) ==
  /\ {texts, [k \in DOMAIN texts |-> ReadItem(texts[k])]} \cap {Absent, Bad} = {}
  /\ \A k \in DOMAIN texts :
       LET json == texts[k].json IN
       IsItem(json) /\ ItemOf(json) # Bad /\ texts[k] = WriteItem(json)

\* An untyped object answers for every key, and these two lists are optional.
ASSUME WalletAssumption ==
  /\ {Prefixes, "subject_syntax_types_supported"} \subseteq Optional
  /\ \A w \in Wallets : DOMAIN w.metadata.raw = MetadataKeys

\* The prefixes of client ids that stand for one key.  x509_san_dns is none of
\* them: a certificate with the name may be anyone's, the chain is not verified.
VerifiedPrefixes == {"decentralized_identifier", "x509_hash"}

\* A client id always has a prefix (ClientId::new), a redirect_uri client
\* refuses to sign, a DID client has been compared with the key of its signer,
\* and an x509_hash client is named after its own certificate (client.rs).
ASSUME ClientAssumption ==
  \A p \in Prepared :
    LET client == p[1].client IN
    /\ client.id.prefix # Bare /\ (client.signs => client.id.prefix # "redirect_uri")
    /\ client.id.prefix = "decentralized_identifier" => client.key = client.id.id
    /\ client.id.prefix = "x509_hash" =>
         client.leaf.hash = client.id.id /\ client.id \notin DOMAIN Doubled

\* j is signed with neither the client's key nor that of its certificate, and
\* no two certificates have the same hash.
MadeByAnother(j, client) ==
  /\ j.signer # client.key
  /\ client.id.prefix = "x509_hash" =>
       /\ j.signer # client.leaf.key
       /\ j.leaf \notin {Absent, Bad} /\ j.leaf.hash = client.leaf.hash => j.leaf = client.leaf

\* Nothing is built yet, nobody else signs with the verifier's key or hands out
\* a plain request with its client id, and an application puts transaction data
\* in a request as items.
ASSUME VerifierAssumption ==
  \A p \in Prepared :
    LET b == p[2]  client == p[1].client IN
    /\ b = [phase |-> "configuring", params |-> b.params, dcql |-> b.dcql,
            definition |-> b.definition, metadata |-> b.metadata, type |-> b.type]
    /\ DOMAIN b.params = Building!ObjectKeys
    /\ b.params.transaction_data # Absent => AreItems(b.params.transaction_data)
    /\ \A j \in OtherJwts : MadeByAnother(j, client)
    /\ \A u \in OtherUrls :
         /\ u.kind = "value" => MadeByAnother(u.jwt, client)
         /\ u.kind = "plain" => u.obj.client_id # client.id

QueryStates ==
  {"unresolved", "fetching", "resolved", Internal,
   "invalid_presentation_definition_uri", "invalid_presentation_definition_reference"}

----------------------------------------------------------------------------
(* What the verifier has built *)

\* The JWT of build: its header is the client's.
BuiltJwt ==
  LET client == verifier.client IN
  [decodable |-> TRUE, obj |-> builder.params, alg |-> Alg,
   kid |-> client.kid, leaf |-> client.leaf, signer |-> client.key]

\* The URL of build; the application may add a request_uri_method.
BuiltUrls ==
  IF builder.phase # "built" THEN {}
  ELSE IF builder.type = "plain" THEN {[kind |-> "plain", obj |-> Building!Received]}
  ELSE IF builder.type = "value"
    THEN {[kind |-> "value", client_id |-> Building!UrlClientId, jwt |-> BuiltJwt]}
  ELSE {[kind |-> "reference", client_id |-> Building!UrlClientId, method |-> m] : m \in Methods}

\* What may be served at a request_uri for call c.
Replies(c) ==
  OtherJwts \cup
  (IF builder.phase = "built" /\ builder.type = "reference"
     THEN {BuiltJwt} \cup {[BuiltJwt EXCEPT !.obj.wallet_nonce = n] : n \in issued}
     ELSE {})

\* The metadata a verifier reads in what the wallet publishes.
Published == ToObject(wallet.metadata)

\* The responses the wallet's application may hand over.
Responses ==
  {r \in {Submission!ResponseFromObject(o) : o \in ResponseObjects} : r # Bad}
    \cup {Submission!Jwt(text) : text \in ResponseJwts}

----------------------------------------------------------------------------
Init ==
  /\ Resolution!Init
  /\ Submission!Init
  /\ \E p \in Prepared : verifier = p[1] /\ builder = p[2]
  /\ query = [c \in Calls |-> "unresolved"]

Build(type) ==
  /\ Decodable(Published)
  /\ Building!Build(FromObject(Published), type)
  /\ UNCHANGED <<callSide, query, answerSide>>

Sign == Building!Sign /\ UNCHANGED <<callSide, query, answerSide>>

\* The wallet is handed the verifier's request, or another one.
Validate(c) ==
  /\ \E u \in BuiltUrls \cup OtherUrls : Resolution!Start(c, "validate_request", u)
  /\ UNCHANGED <<verifierSide, query, answerSide>>

CallProgress(c) ==
  /\ \/ Resolution!GenerateNonce(c)
     \/ \E j \in Replies(c) : Resolution!FetchReply(c, j)
     \/ Resolution!FetchFails(c)
     \/ Resolution!Verdict(c)
     \/ Resolution!ValidateNonce(c)
     \/ Resolution!NonceAccepted(c)
     \/ Resolution!NonceRefused(c)
     \/ Resolution!NonceCheckFails(c)
  /\ UNCHANGED <<verifierSide, query, answerSide>>

Cancel(c) == Resolution!Cancel(c) /\ UNCHANGED <<verifierSide, query, answerSide>>

Request(c) == Resolution!RequestOf(call[c])

QueryBecomes(c, state) ==
  /\ query' = [query EXCEPT ![c] = state]
  /\ UNCHANGED <<verifierSide, callSide, answerSide>>

\* Faulty variant: resolves the query of any request that was fetched.
ResolveQueryUnvalidated(c) ==
  /\ call[c].jwt # None /\ query[c] = "unresolved"
  /\ QueryBecomes(c, IF Request(c).presentation_definition_uri = Absent THEN "resolved" ELSE "fetching")

\* resolve_presentation_query of an accepted request, up to its await; only a
\* presentation_definition_uri needs one.
ResolveQuery(c) ==
  /\ Resolution!Accepted(c) /\ query[c] = "unresolved"
  /\ QueryBecomes(c, IF Request(c).presentation_definition_uri = Absent THEN "resolved" ELSE "fetching")

\* The definition arrives, or the request fails, has a failing status, or a
\* body that is not JSON or not a definition.
DefinitionReply(c) ==
  /\ query[c] = "fetching"
  /\ \E state \in QueryStates \ {"unresolved", "fetching"} : QueryBecomes(c, state)

\* The application submits a response where the request says; again only
\* after the submission before has failed.
Answer(c, k, r) ==
  /\ query[c] = "resolved" /\ ReturnUri(Request(c)) # Absent
  /\ k > 1 => sub[<<c, k - 1>>].outcome \in {"failed", "dropped"}
  /\ Cardinality({s \in Calls \X Attempts : sub[s].pc # "idle"}) < MostSubmissions
  /\ Submission!Submit(<<c, k>>, ReturnUri(Request(c)), Mode(Request(c)), r)
  /\ UNCHANGED <<verifierSide, callSide, query>>

AnswerProgress(c, k) ==
  Submission!Progress(<<c, k>>) /\ UNCHANGED <<verifierSide, callSide, query>>

Arrive(c, k) == Submission!Arrive(<<c, k>>) /\ UNCHANGED <<verifierSide, callSide, query>>

Drop(c, k) == Submission!Drop(<<c, k>>) /\ UNCHANGED <<verifierSide, callSide, query>>

Next ==
  \/ \E type \in Building!RequestTypes : Build(type)
  \/ Sign
  \/ \E c \in Calls :
       \/ Validate(c) \/ CallProgress(c) \/ Cancel(c)
       \/ ResolveQuery(c) \/ DefinitionReply(c)
       \/ \E k \in Attempts :
            \/ \E r \in Responses : Answer(c, k, r)
            \/ AnswerProgress(c, k) \/ Arrive(c, k) \/ Drop(c, k)

Spec == Init /\ [][Next]_vars

\* Types, and the order of the wallet's steps: a query is resolved for a
\* request that was accepted, a response submitted for a resolved query.
TypeOK ==
  /\ Submission!TypeOK
  /\ query \in [Calls -> QueryStates]
  /\ \A c \in Calls :
       /\ DOMAIN call[c] = DOMAIN Resolution!Idle
       /\ query[c] # "unresolved" => Resolution!Accepted(c)
       /\ \A k \in Attempts : sub[<<c, k>>].pc # "idle" => query[c] = "resolved"

----------------------------------------------------------------------------
(* Properties *)

\* Call c was handed a request in the verifier's name: the plain URL as it was
\* built, or a URL with the verifier's client id, if that id stands for one key.
\* Nothing is claimed of an x509_san_dns verifier, whose requests anyone with
\* a certificate for the name can make.
InTheVerifiersName(c) ==
  LET u == call[c].url IN
  /\ builder.phase = "built" /\ u # None
  /\ \/ u.kind = "plain" /\ u \in BuiltUrls
     \/ u.kind \in {"value", "reference"} /\ u.client_id = Building!UrlClientId
        /\ u.client_id.prefix \in VerifiedPrefixes

\* Whatever request objects are served at the request_uri, an answer to a
\* request that was accepted in the verifier's name goes to the endpoint the
\* verifier was configured with (with_submission_endpoint), if the verifier has
\* a DID or an x509_hash client or the request is a plain one.
AnswersReachTheAsker ==
  \A c \in Calls, k \in Attempts :
    InTheVerifiersName(c) /\ sub[<<c, k>>].pc # "idle" => sub[<<c, k>>].uri = verifier.endpoint

\* Metadata whose publication, if it decodes, says no more of response types
\* and subject syntax types than is enforced, as that of any metadata that was
\* decoded itself; WalletMetadata::new may be given other lists under these keys.
FollowsWhatItPublishes(m) ==
  LET copy == FromObject(ToObject(m)) IN
  Decodable(ToObject(m)) =>
    \A k \in {"response_types_supported", "subject_syntax_types_supported"} :
      copy.typed[k] \subseteq m.typed[k]

\* A wallet that follows its own metadata does not find fault with a request
\* built for that metadata, if it is served what was built and nothing else:
\* builder, URL and JWT, parser, verification and metadata checks agree.  It
\* may still deny access or support none of the formats, which build does not
\* look at, or refuse a wallet nonce that the application has put in.
BuiltRequestIsNotRefused ==
  \A c \in Calls :
    LET s == call[c] IN
    /\ FollowsWhatItPublishes(wallet.metadata)
    /\ builder.params.wallet_nonce = Absent
    /\ s.url \in BuiltUrls
    /\ s.pc = "done"
    /\ s.url.kind = "reference" => s.jwt \notin Replies(c) \ {BuiltJwt}
    => s.outcome \notin ProtocolErrors \ {"access_denied", "vp_formats_not_supported"}

AcceptedFromVerifier(c) == InTheVerifiersName(c) /\ Resolution!Accepted(c)

\* What the verifier wants confirmed in a signed request is what the wallet's
\* application can show its holder: get_transaction_data_items neither fails
\* nor drops an item nor takes it for another.  (In a plain request the list
\* has become a text, which reads as no transaction data at all.)
TransactionDataIsShown ==
  \A c \in Calls :
    LET given == builder.params.transaction_data
        items == TransactionDataItems(Request(c)) IN
    AcceptedFromVerifier(c) /\ builder.type # "plain" /\ given # Absent =>
      /\ items \notin {Absent, Bad}
      /\ DOMAIN items = DOMAIN given
      /\ \A k \in DOMAIN items : WriteItem(items[k]) = given[k]

----------------------------------------------------------------------------
(* Refinement *)

Essence(o) == [o EXCEPT !.wallet_nonce = Absent]

Asked == IF builder.phase = "built" THEN {Essence(Building!Received)} ELSE {}

AcceptedAs(c) == IF AcceptedFromVerifier(c) THEN {Essence(Request(c))} ELSE {}

AnswerHeld(s) ==
  IF AcceptedFromVerifier(s[1]) /\ inbox[s] # None /\ inbox[s].response # Bad
    THEN {inbox[s].response} ELSE {}

\* What submit_response has returned; a fragment tells nothing.
ToldOf(s) ==
  IF ~AcceptedFromVerifier(s[1]) \/ sub[s].pc # "returned" \/ sub[s].mode \in FragmentModes
    THEN "nothing"
  ELSE IF sub[s].outcome \in {"sent", "redirected"} THEN "delivered" ELSE "failed"

Abstract == INSTANCE Exchange WITH
  asked    <- Asked,
  accepted <- [c \in Calls |-> AcceptedAs(c)],
  answer   <- [s \in Calls \X Attempts |-> AnswerHeld(s)],
  told     <- [s \in Calls \X Attempts |-> ToldOf(s)]

\* The exchange keeps its promises: what a wallet accepts in the verifier's
\* name (see InTheVerifiersName) is what the verifier asked, the verifier has answers only from wallets
\* that accepted, and a wallet told of a delivery has been heard.
ImplementsExchange == Abstract!Spec

----------------------------------------------------------------------------
(* The properties of submit_response and of the forms it sends. *)

\* submit_response returns Ok only for a response the verifier holds.
OkMeansDelivered == Submission!OkMeansDelivered

\* A form that decodes, decodes to the response it was made of.
DecodedIsWhatWasSent == Submission!DecodedIsWhatWasSent

\* What response/mod.rs says of the form, and FormatToString does not do.
WhatIsSentDecodes == Submission!WhatIsSentDecodes

============================================================================
