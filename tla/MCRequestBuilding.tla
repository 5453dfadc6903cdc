-------------------------- MODULE MCRequestBuilding --------------------------
(***************************************************************************)
(* Small instances of RequestBuilding: a client that signs and one that    *)
(* cannot, one or two values for each parameter.                           *)
(***************************************************************************)
EXTENDS RequestBuilding

\* The defaults of metadata/parameters/wallet.rs and parameters/mod.rs.
MCListDefault ==
  [client_id_prefixes_supported |-> {"pre-registered"},
   request_object_signing_alg_values_supported |-> {"ES256"},
   subject_syntax_types_supported |-> {"did:key"}]

Text(prefix, id) == [prefix |-> prefix, id |-> id]
DidClient == [id |-> Text("decentralized_identifier", "did:a"), signs |-> TRUE]
RedirectClient == [id |-> Text("redirect_uri", "https://a"), signs |-> FALSE]
OwnClient == [id |-> Text("pre-registered", "client"), signs |-> TRUE]

Object(prefixes) ==
  [authorization_endpoint |-> "openid4vp:", vp_formats_supported |-> "formats",
   response_types_supported |-> {"vp_token", "vp_token id_token"},
   client_id_prefixes_supported |-> prefixes,
   request_object_signing_alg_values_supported |-> Absent,
   subject_syntax_types_supported |-> Absent]

\* A wallet that lists its prefixes, one that has added a prefix after it was
\* decoded, and one made by WalletMetadata::new.
Listing == FromObject(Object({"decentralized_identifier", "redirect_uri"}))
Adding == AppendList(FromObject(Object(Absent)), Prefixes, {"decentralized_identifier"})
New == NewMetadata(
  [authorization_endpoint |-> "openid4vp:", vp_formats_supported |-> "formats",
   response_types_supported |-> {"vp_token"}],
  [k \in MetadataKeys |-> Absent])

Metadata(syntax) ==
  [vp_formats_supported |-> Absent, subject_syntax_types_supported |-> syntax]

\* Queries: a sound one with authorities of three kinds, one whose first and
\* last ids agree, two with faulty claims, and two with an authority whose type
\* is registered though it was made as Other: key identifiers that are none,
\* and a list that a reader takes for what it says.
Claims(c, ids) ==
  [c EXCEPT !.claims = [k \in DOMAIN ids |->
     IF ids[k] = Absent THEN NewClaim(<<"name">>) ELSE SetClaimId(NewClaim(<<"name">>), ids[k])]]

Unread == [bytes |-> Bad, padded |-> FALSE]
Aki == [variant |-> "aki", type |-> "aki",
        values |-> <<KeyIdentifier([bytes |-> <<1, 2>>, padded |-> TRUE]), KeyIdentifierOfBytes(<<3>>)>>]
Authority(type) == [variant |-> type, type |-> type, values |-> <<Unread>>]
Other(type) == [variant |-> "other", type |-> type, values |-> <<Unread>>]

CredentialA == NewCredential("a", FormatOfName("dc+sd-jwt"))
CredentialB == NewCredential("b", FormatOfName("x_format"))

SoundDcql ==
  AddCredentialSet(
    AddCredential(
      NewQuery(SetTrustedAuthorities(Claims(CredentialA, <<Absent, "x">>),
                                     <<Authority("etsi_tl"), Aki, Other("x_custom")>>)),
      AddClaimSet(Claims(CredentialB, <<"x", "y">>), <<"y">>)),
    <<<<"a">>, <<"b">>>>)
AmbiguousDcql ==
  AddCredential(AddCredential(NewQuery(CredentialA), CredentialB), CredentialA)
UnclaimedDcql == NewQuery(AddClaimSet(CredentialA, <<"x">>))
RepeatedDcql == NewQuery(AddClaimSet(Claims(CredentialA, <<"x", "y", "x">>), <<"x">>))
Mistagged(type) == NewQuery(SetTrustedAuthorities(CredentialA, <<Other(type)>>))

\* Parameters and defaults that complete a request, that contradict what the
\* builder writes, and that ask a second query.
MCParameters ==
  ({"response_mode"} \X {"direct_post", "fragment.jwt", "dc_api", "unsupported"}) \cup
  {<<"response_type", "vp_token">>, <<"response_type", "vp_token id_token">>,
   <<"client_metadata", Metadata({"did:key"})>>,
   <<"client_metadata", Metadata({"did:key", "did:jwk"})>>, <<"expected_origins", "origins">>,
   <<"redirect_uri", "https://b">>, <<"dcql_query", WriteQuery(NewQuery(CredentialB))>>}

MCDefaults ==
  {<<"nonce", "nonce">>, <<"response_uri", "https://b">>, <<"client_id", Text(Bare, "other")>>}

MCClients == {DidClient, RedirectClient, OwnClient}
MCEndpoints == {"https://a"}
MCQueries ==
  {SoundDcql, AmbiguousDcql, UnclaimedDcql, RepeatedDcql, Mistagged("aki"), Mistagged("etsi_tl")}
MCDefinitions ==
  {[id |-> "definition", inputs |-> {"input"}], [id |-> "definition", inputs |-> {}]}
MCMetadatas == {Listing, Adding, New}

============================================================================
