------------------------ MODULE MCRequestResolution ------------------------
(***************************************************************************)
(* Small instances of RequestResolution: two verifiers (did:a and did:b),  *)
(* certificates for one DNS name, request objects that each differ from a  *)
(* sound one in a single place, a few wallets.                             *)
(***************************************************************************)
EXTENDS RequestResolution, TLC

CONSTANTS c1, c2, c3, n1, n2

Symmetry == Permutations(Calls)

\* The defaults of metadata/parameters/wallet.rs and parameters/mod.rs.
MCListDefault ==
  [client_id_prefixes_supported |-> {"pre-registered"},
   request_object_signing_alg_values_supported |-> {"ES256"},
   subject_syntax_types_supported |-> {"did:key"}]

Alg(algs) == [kind |-> "alg_values_supported", parts |-> [alg |-> algs]]
SdJwt(algs, kb) == [kind |-> "sd-jwt", parts |-> [alg |-> algs, kb |-> kb]]

Text(prefix, id) == [prefix |-> prefix, id |-> id]
DidA == Text("decentralized_identifier", "did:a")
DidB == Text("decentralized_identifier", "did:b")
DnsA == Text("x509_san_dns", "a.example")
HashA == Text("x509_hash", "hash of a")

\* Client ids whose id repeats the prefix.
DnsTwice == Text("x509_san_dns", "x509_san_dns:a.example")
HashTwice == Text("x509_hash", "x509_hash:hash of a")
MCDoubled ==
  [t \in {DnsTwice, HashTwice} |-> IF t = DnsTwice THEN "a.example" ELSE "hash of a"]

\* A direct_post request of did:a that every wallet below can answer.
Sound ==
  [client_id |-> DidA,
   redirect_uri |-> Absent, response_uri |-> "https://a", response_mode |-> "direct_post",
   response_type |-> "vp_token",
   presentation_definition |-> Absent, presentation_definition_uri |-> Absent,
   dcql_query |-> "query", nonce |-> "nonce",
   client_metadata |-> [vp_formats_supported |-> [jwt_vc_json |-> Alg({"ES256"})],
                        subject_syntax_types_supported |-> Absent],
   wallet_nonce |-> Absent, expected_origins |-> Absent]

\* Signed by its client.
SoundJwt == [decodable |-> TRUE, obj |-> Sound, alg |-> "ES256", kid |-> "did:a",
             leaf |-> Absent, signer |-> "did:a"]

\* The certificate of a.example, another one that carries the name, and one
\* that does not.
LeafA == [names |-> {"a.example"}, hash |-> "hash of a", key |-> "key of a"]
LeafB == [names |-> {"b.example", "a.example"}, hash |-> "hash of b", key |-> "key of b"]
LeafC == [names |-> {}, hash |-> "hash of c", key |-> "key of b"]

CertifiedJwt(client, leaf, signer) ==
  [SoundJwt EXCEPT !.obj.client_id = client, !.kid = Absent, !.leaf = leaf, !.signer = signer]

Unsigned(o) == [decodable |-> TRUE, obj |-> o, alg |-> "none", kid |-> Absent,
                leaf |-> Absent, signer |-> NoOne]

WithNonce(j, n) == [j EXCEPT !.obj.wallet_nonce = n]

ByReference(client, method) ==
  [kind |-> "reference", client_id |-> client, method |-> method]
ByValue(client, j) == [kind |-> "value", client_id |-> client, jwt |-> j]
Plain(o) == [kind |-> "plain", obj |-> o]
Malformed == [kind |-> "malformed"]

----------------------------------------------------------------------------
(* Wallets *)

Object(prefixes, algs) ==
  [authorization_endpoint |-> "openid4vp:",
   vp_formats_supported |-> [jwt_vc_json |-> Alg({"ES256"}),
                             sd_jwt |-> SdJwt({"ES256"}, {"ES256"})],
   response_types_supported |-> {"vp_token", "vp_token id_token"},
   client_id_prefixes_supported |-> prefixes,
   request_object_signing_alg_values_supported |-> algs,
   subject_syntax_types_supported |-> Absent]

AllPrefixes ==
  {"decentralized_identifier", "pre-registered", "redirect_uri", "x509_san_dns", "x509_hash"}

FullWallet ==
  [metadata |-> FromObject(Object(AllPrefixes, {"ES256"})), overrides |-> AllPrefixes,
   trusted |-> Absent, approved |-> {"https://a", "client"}]

\* A wallet that keeps a list of trusted DIDs, one that relies on every
\* default, and one whose signing algorithms are not spelled out.
TrustingWallet == [FullWallet EXCEPT !.trusted = {"did:b"}]
DefaultWallet == [FullWallet EXCEPT !.overrides = {}]
NoAlgWallet == [FullWallet EXCEPT !.metadata = FromObject(Object(AllPrefixes, Absent))]
NarrowWallet == [FullWallet EXCEPT !.metadata = FromObject(Object({"redirect_uri"}, {"ES256"}))]
UnreadableWallet == [FullWallet EXCEPT !.metadata = FromObject(Object(Bad, {"ES256"}))]

OneWallet == {FullWallet}
AllWallets ==
  {FullWallet, TrustingWallet, DefaultWallet, NoAlgWallet, NarrowWallet, UnreadableWallet}

----------------------------------------------------------------------------
(* Request objects that differ from Sound in one place *)

Objects ==
  {Sound} \cup
  {[Sound EXCEPT !.client_id = t] :
     t \in {Bad, Absent, DidB, Text(Bare, "client"), Text("redirect_uri", "https://a"),
            DnsA, Text("origin", "did:a")}} \cup
  {[Sound EXCEPT !.response_mode = m] :
     m \in {Bad, Absent, "fragment", "dc_api", "unsupported"}} \cup
  {[Sound EXCEPT !.response_mode = "dc_api", !.response_uri = Absent],
   [Sound EXCEPT !.response_mode = "fragment.jwt", !.redirect_uri = "https://a",
                 !.response_uri = Absent],
   [Sound EXCEPT !.redirect_uri = "https://a"],
   [Sound EXCEPT !.response_uri = Bad],
   [Sound EXCEPT !.response_uri = "https://b"],
   [Sound EXCEPT !.dcql_query = Absent],
   [Sound EXCEPT !.dcql_query = Absent, !.presentation_definition = Bad],
   [Sound EXCEPT !.dcql_query = Absent, !.presentation_definition_uri = Bad],
   [Sound EXCEPT !.dcql_query = Bad],
   [Sound EXCEPT !.presentation_definition = "definition"],
   [Sound EXCEPT !.nonce = Absent],
   [Sound EXCEPT !.client_metadata = Absent],
   [Sound EXCEPT !.response_type = Bad],
   [Sound EXCEPT !.response_type = "code"],
   [Sound EXCEPT !.wallet_nonce = Bad]} \cup
  {[Sound EXCEPT !.client_metadata.vp_formats_supported = f] :
     f \in {Absent, Bad, <<>>, [jwt_vc_json |-> Alg({"EdDSA"})],
            [sd_jwt |-> SdJwt({"ES256"}, {"EdDSA"})], [sd_jwt |-> SdJwt({"ES256"}, {"ES256"})]}} \cup
  {[Sound EXCEPT !.response_type = "vp_token id_token",
                 !.client_metadata.subject_syntax_types_supported = t] :
     t \in {Absent, Bad, {"did:key"}, {"did:key", "did:jwk"}}}

\* Around a sound object: other headers and signatures.
Headers ==
  {[SoundJwt EXCEPT !.decodable = FALSE],
   [SoundJwt EXCEPT !.alg = Absent], [SoundJwt EXCEPT !.alg = "EdDSA"],
   [SoundJwt EXCEPT !.kid = Absent], [SoundJwt EXCEPT !.kid = Bad],
   [SoundJwt EXCEPT !.kid = "did:b"], [SoundJwt EXCEPT !.kid = "did:b", !.signer = "did:b"],
   [SoundJwt EXCEPT !.signer = "did:b"], [SoundJwt EXCEPT !.signer = NoOne]}

\* Under X.509 client ids: every certificate, signed with its key or another.
X509Clients == {DnsA, HashA, DnsTwice, HashTwice}
Certified ==
  {CertifiedJwt(t, l, signer) : t \in X509Clients, l \in {Absent, Bad, LeafA, LeafB, LeafC},
                                signer \in {"key of a", "key of b"}} \cup
  {[CertifiedJwt(t, LeafA, "key of a") EXCEPT !.alg = alg] :
     t \in X509Clients, alg \in {Absent, "EdDSA"}}

ManyJwts ==
  {[SoundJwt EXCEPT !.obj = o] : o \in Objects} \cup Headers \cup
  Certified \cup
  {Unsigned([Sound EXCEPT !.client_id = Text("redirect_uri", "https://a"), !.response_uri = u]) :
     u \in {"https://a", "https://b"}} \cup
  {Unsigned([Sound EXCEPT !.client_id = Text("redirect_uri", "https://a"),
                          !.response_mode = "dc_api", !.response_uri = Absent])}

ManyUrls ==
  {Malformed, ByReference(DidA, "POST")} \cup {Plain(o) : o \in Objects} \cup
  {ByReference(t, "GET") :
     t \in {DidA, DidB, Text("pre-registered", "client"), Text(Bare, "client"),
            Text("redirect_uri", "https://a")} \cup X509Clients}

----------------------------------------------------------------------------
(* Few request objects, for several calls and nonces *)

ForgedJwt == [SoundJwt EXCEPT !.signer = "did:b"]

FewJwts ==
  {WithNonce(SoundJwt, n) : n \in Nonces \cup {Absent}} \cup
  {WithNonce(ForgedJwt, n1),
   WithNonce([SoundJwt EXCEPT !.obj.client_id = DidB, !.kid = "did:b", !.signer = "did:b"], n1),
   WithNonce([SoundJwt EXCEPT !.obj.response_type = "code"], n1)}

FewUrls == {ByReference(DidA, "POST"), ByValue(DidA, WithNonce(SoundJwt, n1))}

BareUrls == {ByReference(Text(Bare, "client"), "GET")}
BareJwts == {[SoundJwt EXCEPT !.obj.client_id = Text(Bare, "client")], SoundJwt}

============================================================================
