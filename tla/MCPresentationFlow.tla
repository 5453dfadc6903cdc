-------------------------- MODULE MCPresentationFlow --------------------------
(***************************************************************************)
(* A small instance of PresentationFlow: the verifier is did:a, one with a *)
(* certificate, or a redirect_uri client that cannot sign; another one     *)
(* sends requests of its own and request objects in the verifier's name.   *)
(***************************************************************************)
EXTENDS PresentationFlow

CONSTANTS c1, c2, n1

\* The defaults of metadata/parameters/wallet.rs and parameters/mod.rs.
MCListDefault ==
  [client_id_prefixes_supported |-> {"pre-registered"},
   request_object_signing_alg_values_supported |-> {"ES256"},
   subject_syntax_types_supported |-> {"did:key"}]

Formats == [jwt_vc_json |-> [kind |-> "alg_values_supported", parts |-> [alg |-> {"ES256"}]]]

MCPrefixes == {"decentralized_identifier", "redirect_uri", "x509_san_dns", "x509_hash"}

MCWallets ==
  {[metadata |-> FromObject(
      [authorization_endpoint |-> "openid4vp:", vp_formats_supported |-> Formats,
       response_types_supported |-> {"vp_token", "vp_token id_token"},
       client_id_prefixes_supported |-> MCPrefixes,
       request_object_signing_alg_values_supported |-> {"ES256"},
       subject_syntax_types_supported |-> Absent]),
    overrides |-> MCPrefixes,
    trusted |-> Absent, approved |-> {"https://a"}]}

----------------------------------------------------------------------------
(* What the verifier has prepared *)

Text(prefix, id) == [prefix |-> prefix, id |-> id]
DidClient ==
  [id |-> Text("decentralized_identifier", "did:a"), signs |-> TRUE, kid |-> "did:a",
   leaf |-> Absent, key |-> "did:a"]
RedirectClient ==
  [id |-> Text("redirect_uri", "https://a"), signs |-> FALSE, kid |-> Absent,
   leaf |-> Absent, key |-> Absent]

\* Two certificates that carry the same name.
LeafA == [names |-> {"a.example"}, hash |-> "hash of a", key |-> "key of a"]
LeafB == [names |-> {"a.example"}, hash |-> "hash of b", key |-> "key of b"]

X509Client(prefix, id) ==
  [id |-> Text(prefix, id), signs |-> TRUE, kid |-> Absent, leaf |-> LeafA, key |-> LeafA.key]
HashClient == X509Client("x509_hash", LeafA.hash)
DnsClient == X509Client("x509_san_dns", "a.example")

\* Neither id repeats its prefix.
MCDoubled == [t \in {} |-> t.id]

Dcql == Building!NewQuery(Building!NewCredential("credential", Building!FormatOfName("dc+sd-jwt")))

Parameters(mode, type) ==
  [Building!EmptyObject EXCEPT
     !.response_mode = mode, !.response_type = type, !.nonce = "nonce",
     !.client_metadata = [vp_formats_supported |-> Formats,
                          subject_syntax_types_supported |-> {"did:key"}]]

Verifier(client) ==
  [Building!NewVerifier EXCEPT !.phase = "built", !.client = client, !.endpoint = "https://a"]

Builder(o) ==
  [Building!NoBuilder EXCEPT !.phase = "configuring", !.params = o, !.dcql = Dcql]

\* A delegation, an item of another type, and one that says it is a delegation.
Item(content, type, payload) ==
  [credential_ids |-> {"credential"}, algs |-> {"sha-256"},
   content |-> content, type |-> type, payload |-> payload]
TransactionItems ==
  <<WriteItem(Item("DelegateSdJwt", "delegate", "delegation")),
    WriteItem(Item("Unknown", "payment", "amount")), WriteItem(Item("Unknown", "delegate", "amount"))>>

\* Three requests that can be built, the first over a response_uri that was
\* set before; then one with two queries, one with a syntax type too many.
\* A verifier with a certificate builds the second.
MCPrepared ==
  {<<Verifier(DidClient), Builder(o)>> : o \in
     {[Parameters("direct_post", "vp_token") EXCEPT !.response_uri = "https://b"],
      [Parameters("direct_post.jwt", "vp_token id_token") EXCEPT
         !.transaction_data = TransactionItems],
      [Parameters("direct_post", "vp_token") EXCEPT
         !.presentation_definition_uri = "https://a/definition"],
      [Parameters("direct_post", "vp_token id_token") EXCEPT
         !.client_metadata.subject_syntax_types_supported = {"did:key", "did:jwk"}]}} \cup
  {<<Verifier(client), Builder([Parameters("direct_post.jwt", "vp_token id_token") EXCEPT
                         !.transaction_data = TransactionItems])>> :
     client \in {HashClient, DnsClient}} \cup
  {<<Verifier(RedirectClient), Builder([Parameters("fragment", "vp_token") EXCEPT
                                 !.transaction_data = TransactionItems])>>}

----------------------------------------------------------------------------
(* Other requests *)

\* A request of did:b, with a definition to be fetched.
Other ==
  [Parameters("direct_post", "vp_token") EXCEPT
     !.client_id = Text("decentralized_identifier", "did:b"),
     !.response_uri = "https://b", !.presentation_definition_uri = "https://b/definition"]

SignedBy(o, kid, leaf, signer) ==
  [decodable |-> TRUE, obj |-> o, alg |-> "ES256", kid |-> kid, leaf |-> leaf, signer |-> signer]

OtherJwt == SignedBy(Other, "did:b", Absent, "did:b")

\* did:b for itself, and in the name of the verifier: with its own key, or
\* certificate, and under the verifier's.  The certificate with the same name
\* passes for an x509_san_dns client.
MCOtherJwts ==
  {OtherJwt} \cup
  {SignedBy([Other EXCEPT !.client_id = DidClient.id], kid, Absent, "did:b") :
     kid \in {"did:a", "did:b"}} \cup
  {SignedBy([Other EXCEPT !.client_id = client.id], Absent, LeafB, "key of b") :
     client \in {HashClient, DnsClient}} \cup
  {SignedBy([Other EXCEPT !.client_id = HashClient.id], Absent, LeafA, "key of b")}

MCOtherUrls ==
  {[kind |-> "reference", client_id |-> Other.client_id, method |-> "GET"],
   [kind |-> "value", client_id |-> DidClient.id, jwt |-> OtherJwt]}

----------------------------------------------------------------------------
(* Responses *)

Token(kind) == <<[kind |-> kind, id |-> "presentation"]>>

Object(token, hashes, alg) ==
  [vp_token |-> token, presentation_submission |-> Absent, id_token |-> Absent, state |-> "state",
   transaction_data_hashes |-> hashes, transaction_data_hashes_alg |-> alg]

\* One whose form decodes, one whose form does not, and one that is none.
MCResponseObjects ==
  {Object(Token("object"), Absent, "sha-256"), Object(Token("string"), <<"hash">>, Absent),
   Object(Token("object"), Bad, Absent)}

============================================================================
