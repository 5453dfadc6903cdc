-------------------------- MODULE MCMetadataExchange --------------------------
(***************************************************************************)
(* Small instances of MetadataExchange: two prefixes besides the default    *)
(* one, two algorithms besides the default one, two format maps.            *)
(***************************************************************************)
EXTENDS MetadataExchange

\* The defaults of metadata/parameters/wallet.rs and parameters/mod.rs.
MCListDefault ==
  [client_id_prefixes_supported |-> {"pre-registered"},
   request_object_signing_alg_values_supported |-> {"ES256"},
   subject_syntax_types_supported |-> {"did:key"}]

\* Format maps appear by name.
MCFormatMaps == {"jwt formats", "mdoc formats"}

MCRequiredParts ==
  {[authorization_endpoint |-> "openid4vp:", vp_formats_supported |-> "jwt formats",
    response_types_supported |-> {"vp_token"}]}

Empty == [k \in MetadataKeys |-> Absent]

Full == [Empty EXCEPT !.authorization_endpoint = "openid4vp:",
                      !.vp_formats_supported = "jwt formats",
                      !.response_types_supported = {"vp_token", "vp_token id_token"}]

MCObjects ==
  {Empty, Full,
   [Full EXCEPT ![SigningAlgs] = {"EdDSA"}, ![Prefixes] = Bad],
   [Full EXCEPT !.response_types_supported = Bad],
   [Empty EXCEPT !.response_types_supported = {"vp_token"}]}

MCPrefixLists == {{"x509_hash"}, {"decentralized_identifier", "redirect_uri"}}
MCAlgLists == {{"EdDSA"}, {"ES384"}}

MCNames ==
  {"pre-registered", "x509_hash", "decentralized_identifier", "redirect_uri",
   "ES256", "ES384", "EdDSA", "did:key"}

MCInserts ==
  {<<Prefixes, {"x509_hash"}>>, <<Prefixes, {}>>, <<SigningAlgs, {"EdDSA"}>>,
   <<"response_types_supported", {"vp_token"}>>,
   <<"subject_syntax_types_supported", {"did:jwk"}>>, <<"vp_formats_supported", "mdoc formats">>,
   <<"authorization_endpoint", "https://wallet">>}

============================================================================
