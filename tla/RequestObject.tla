--------------------------- MODULE RequestObject ---------------------------
(***************************************************************************)
(* The Authorization Request Object: what can be read out of the untyped   *)
(* JSON object of a request, and in which order its parameters are checked *)
(* when the typed object is made (core/authorization_request/mod.rs,       *)
(* core/authorization_request/parameters.rs, core/object/mod.rs).          *)
(*                                                                         *)
(* An untyped object is a function from parameter names to values.  A      *)
(* parameter the object lacks has the value Absent; one that is present    *)
(* but that TryFrom<Json> refuses has the value Bad.                       *)
(***************************************************************************)
EXTENDS Naturals, FiniteSets

CONSTANTS
  Absent,   \* the key is not in the object
  Bad       \* the key is there, its value does not parse

NoError == "no_error"
Internal == "internal"

\* The error types of ProtocolError that these components raise.
ProtocolErrors ==
  { "invalid_request", "access_denied", "vp_formats_not_supported",
    "invalid_dcql_format", "invalid_presentation_definition_format",
    "invalid_presentation_definition_uri" }

Errors == ProtocolErrors \cup {Internal}

----------------------------------------------------------------------------
(* Parameters *)

\* UntypedObject::get: Some(Ok(_)).
Readable(o, key) == o[key] \notin {Absent, Bad}

FragmentModes   == {"fragment", "fragment.jwt"}
DirectPostModes == {"direct_post", "direct_post.jwt"}
DcApiModes      == {"dc_api", "dc_api.jwt"}

\* UntypedObject::get_or_default::<ResponseMode>; the default is fragment.
Mode(o) == IF o.response_mode = Absent THEN "fragment" ELSE o.response_mode

(* A client_id as text is a record [prefix, id]; Bare is the prefix of a   *)
(* text without a colon.                                                   *)
Bare == "bare"

\* ClientId::new: a bare client_id denotes a pre-registered client.
ClientId(text) ==
  IF text.prefix = Bare THEN [prefix |-> "pre-registered", id |-> text.id] ELSE text

\* ClientId::get_full_id always writes the prefix.
FullId(clientId) == clientId

----------------------------------------------------------------------------
(* TryFrom<UntypedObject> for AuthorizationRequestObject *)

\* The accepted rows of the match on (redirect_uri, response_uri, mode).
UrisFitMode(o) ==
  \/ /\ Mode(o) \in FragmentModes
     /\ o.redirect_uri # Absent /\ o.response_uri = Absent
  \/ /\ Mode(o) \in DirectPostModes
     /\ o.redirect_uri = Absent /\ o.response_uri # Absent
  \/ /\ Mode(o) \in DcApiModes
     /\ o.redirect_uri = Absent /\ o.response_uri = Absent

\* AuthorizationRequestObject::return_uri of an object UrisFitMode accepts.
ReturnUri(o) ==
  IF Mode(o) \in FragmentModes THEN o.redirect_uri
  ELSE IF Mode(o) \in DirectPostModes THEN o.response_uri
  ELSE Absent

QueryParameters ==
  {"presentation_definition", "presentation_definition_uri", "dcql_query"}

\* The query parameters the object carries: there must be exactly one.
QueriesOf(o) == {q \in QueryParameters : o[q] # Absent}

QueryError(o) ==
  IF \A q \in QueryParameters : QueriesOf(o) # {q} THEN "invalid_request"
  ELSE IF o.dcql_query = Bad THEN "invalid_dcql_format"
  ELSE IF o.presentation_definition = Bad THEN "invalid_presentation_definition_format"
  ELSE IF o.presentation_definition_uri = Bad THEN "invalid_presentation_definition_uri"
  ELSE NoError

\* The first check that fails, in the order of the code; NoError when the
\* typed object is made.
ParseError(o) ==
  IF ~Readable(o, "client_id") \/ o.response_mode = Bad THEN Internal
  ELSE IF ~UrisFitMode(o) \/ ReturnUri(o) = Bad THEN "invalid_request"
  ELSE IF ~Readable(o, "response_type") THEN Internal
  ELSE IF QueryError(o) # NoError THEN QueryError(o)
  ELSE IF ~Readable(o, "nonce") \/ ~Readable(o, "client_metadata") THEN Internal
  ELSE NoError

============================================================================
