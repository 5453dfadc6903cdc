------------------------------ MODULE Metadata ------------------------------
(***************************************************************************)
(* WalletMetadata (core/metadata/mod.rs): an untyped object together with  *)
(* typed copies of its fields, made when the metadata is constructed or    *)
(* deserialised.  Some readers use the untyped object, some the copies.    *)
(*                                                                         *)
(* A metadata value is [raw |-> untyped object, typed |-> copies].  Lists  *)
(* are sets: the code only searches them and appends to them.              *)
(***************************************************************************)
EXTENDS RequestObject

CONSTANT ListDefault   \* key of an optional list |-> the value of Default::default()

Required == {"authorization_endpoint", "vp_formats_supported", "response_types_supported"}
Optional == DOMAIN ListDefault
MetadataKeys == Required \cup Optional
Prefixes == "client_id_prefixes_supported"
SigningAlgs == "request_object_signing_alg_values_supported"

\* UntypedObject::get_or_default on a value that is Absent or parses.
ValueOrDefault(o, key) == IF o[key] = Absent THEN ListDefault[key] ELSE o[key]

\* WalletMetadata::new: the optional fields get their defaults whatever
\* `other` holds, and the three arguments do not enter the untyped object.
NewMetadata(required, other) ==
  [raw   |-> other,
   typed |-> [k \in MetadataKeys |-> IF k \in Required THEN required[k] ELSE ListDefault[k]]]

\* TryFrom<UntypedObject>: fails without the required fields, and falls back
\* to the default for an optional field that is missing or does not parse.
Decodable(o) == \A k \in Required : Readable(o, k)

\* Faulty variant: an optional field that does not parse is taken as it is.
FromObjectAsIs(o) ==
  [raw   |-> o,
   typed |-> [k \in MetadataKeys |-> IF k \in Required THEN o[k] ELSE ValueOrDefault(o, k)]]

FromObject(o) ==
  [raw   |-> o,
   typed |-> [k \in MetadataKeys |-> IF Readable(o, k) THEN o[k] ELSE ListDefault[k]]]

\* From<WalletMetadata> for UntypedObject, which is also its serialisation:
\* of the typed copies only two are written back.
ToObject(m) ==
  [m.raw EXCEPT !.authorization_endpoint = m.typed.authorization_endpoint,
                !.vp_formats_supported   = m.typed.vp_formats_supported]

\* add_client_id_prefixes_supported and
\* add_request_object_signing_alg_values_supported change the untyped object
\* only; they fail when the list that is there does not parse.  (The variant
\* that starts from an empty list is faulty.)
CanAppend(m, key) == m.raw[key] # Bad

AppendListToEmpty(m, key, values) ==
  [m EXCEPT !.raw[key] = (IF m.raw[key] = Absent THEN {} ELSE m.raw[key]) \cup values]

AppendList(m, key, values) ==
  [m EXCEPT !.raw[key] = ValueOrDefault(m.raw, key) \cup values]

\* DerefMut gives UntypedObject::insert on the untyped object.
InsertRaw(m, key, value) == [m EXCEPT !.raw[key] = value]

\* vp_formats_supported_mut.
SetFormats(m, formats) == [m EXCEPT !.typed.vp_formats_supported = formats]

\* is_client_id_prefix_supported reads the typed copy.
IsClientIdPrefixSupported(m, prefix) ==
  prefix \in m.typed.client_id_prefixes_supported

----------------------------------------------------------------------------
(* Claim formats: a function from format designations to payloads; a       *)
(* payload is [kind, parts], its parts sets of algorithms or proof types   *)
(* (two parts for an SD-JWT payload).                                      *)

\* ClaimFormatPayload::contains: every part shares a value, except for the
\* untyped payload, which is compared as a whole.
PayloadContains(p, q) ==
  /\ p.kind = q.kind
  /\ IF p.kind = "json" THEN p.parts = q.parts
     ELSE \A part \in DOMAIN p.parts : p.parts[part] \cap q.parts[part] # {}

\* VpFormatsSupported::contains_claim_format_with_payload.
ContainsFormat(formats, designation, payload) ==
  designation \in DOMAIN formats /\ PayloadContains(formats[designation], payload)

============================================================================
