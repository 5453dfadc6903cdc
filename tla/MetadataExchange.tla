-------------------------- MODULE MetadataExchange --------------------------
(***************************************************************************)
(* The life of a wallet's metadata (core/metadata/mod.rs): it is built from *)
(* its required parts or decoded from an object, changed through the        *)
(* methods of WalletMetadata and through DerefMut, and published: the       *)
(* wallet serialises it into the body of its POST to the request_uri, and   *)
(* the verifier decodes the copy it builds requests against.                *)
(***************************************************************************)
EXTENDS Metadata

CONSTANTS
  None,          \* the verifier holds no copy
  RequiredParts, \* arguments of WalletMetadata::new: functions on Required
  Objects,       \* untyped objects metadata can be built or decoded from
  PrefixLists,   \* arguments of add_client_id_prefixes_supported
  AlgLists,      \* arguments of add_request_object_signing_alg_values_supported
  FormatMaps,    \* what vp_formats_supported_mut may leave
  Inserts,       \* <<key, value>> pairs inserted through DerefMut
  Names          \* the prefixes and algorithms that may be in a list

ASSUME MetadataAssumption ==
  /\ Absent # Bad /\ \A list \in SUBSET Names : list \notin {Absent, Bad}
  /\ {Prefixes, SigningAlgs, "subject_syntax_types_supported"} \subseteq Optional
  /\ Optional \cap Required = {}
  /\ \A k \in Optional : ListDefault[k] \in SUBSET Names
  /\ \A parts \in RequiredParts, k \in Required : parts[k] \notin {Absent, Bad}
  /\ \A o \in Objects : DOMAIN o = MetadataKeys
  /\ \A o \in Objects, k \in {Prefixes, SigningAlgs} :
       o[k] \in {Absent, Bad} \/ o[k] \in SUBSET Names
  /\ PrefixLists \cup AlgLists \subseteq SUBSET Names
  /\ Absent \notin FormatMaps /\ Bad \notin FormatMaps
  /\ \A i \in Inserts : i[1] \in {Prefixes, SigningAlgs} => i[2] \in SUBSET Names

VARIABLES
  mine,          \* the wallet's metadata
  theirs,        \* the verifier's copy, or None
  apart          \* history: the keys whose two values in mine were not given
                 \* together, or of which one was changed since

vars == <<mine, theirs, apart>>

\* The prefixes validate_request_against_metadata lets pass.
EnforcedPrefixes(m) == IF m.raw[Prefixes] = Bad THEN {} ELSE ValueOrDefault(m.raw, Prefixes)

\* The algorithms did::verify_with_resolver and x509_san::validate let pass.
EnforcedAlgs(m) == IF Readable(m.raw, SigningAlgs) THEN m.raw[SigningAlgs] ELSE {}

----------------------------------------------------------------------------
Init ==
  /\ theirs = None
  /\ \/ \E parts \in RequiredParts, o \in Objects : mine = NewMetadata(parts, o) /\ apart = MetadataKeys
     \/ \E o \in Objects : Decodable(o) /\ mine = FromObject(o) /\ apart = {}

\* add_client_id_prefixes_supported, add_request_object_signing_alg_...
Add(key, values) ==
  /\ CanAppend(mine, key)
  /\ mine' = AppendList(mine, key, values)
  /\ apart' = apart \cup {key}
  /\ UNCHANGED theirs

ReplaceFormats(formats) ==
  /\ mine' = SetFormats(mine, formats)
  /\ apart' = apart \cup {"vp_formats_supported"}
  /\ UNCHANGED theirs

Insert(key, value) ==
  /\ mine' = InsertRaw(mine, key, value)
  /\ apart' = apart \cup {key}
  /\ UNCHANGED theirs

\* Faulty variant: publishes the object without the typed copies.
PublishRaw ==
  /\ Decodable(mine.raw)
  /\ theirs' = FromObject(mine.raw)
  /\ UNCHANGED <<mine, apart>>

\* The copy is made of the serialised metadata, if that decodes.
Publish ==
  /\ Decodable(ToObject(mine))
  /\ theirs' = FromObject(ToObject(mine))
  /\ UNCHANGED <<mine, apart>>

Adding ==
  \/ \E values \in PrefixLists : Add(Prefixes, values)
  \/ \E values \in AlgLists : Add(SigningAlgs, values)

Next ==
  \/ Adding
  \/ \E formats \in FormatMaps : ReplaceFormats(formats)
  \/ \E i \in Inserts : Insert(i[1], i[2])
  \/ Publish

Spec == Init /\ [][Next]_vars

----------------------------------------------------------------------------
(* Properties *)

\* An optional field of the untyped object is a list, Absent or Bad; a
\* required one also has its typed copy, of which decoding cannot lose one.
TypeOK ==
  /\ \A m \in {mine, theirs} \ {None} :
       /\ DOMAIN m = {"raw", "typed"} /\ DOMAIN m.typed = MetadataKeys
       /\ \A k \in MetadataKeys : m.typed[k] \notin {Absent, Bad}
  /\ theirs # None => Decodable(theirs.raw)

\* What the verifier reads in its copy of the metadata when it builds a
\* request is what the wallet itself enforces when the request arrives, at the
\* moment of publication and after any sequence of changes before it: the
\* untyped list for prefixes, the typed copy for the rest.  Response types and
\* subject syntax types are published as the untyped object has them, so they
\* may differ once the two were given apart: WalletMetadata::new takes them
\* separately, and insert changes one of them.
PublishedIsEnforced ==
  [][theirs' # theirs =>
       /\ mine.raw[Prefixes] # Bad =>
            theirs'.typed[Prefixes] = EnforcedPrefixes(mine)
       /\ \A k \in {"vp_formats_supported", "authorization_endpoint"} :
            theirs'.typed[k] = mine.typed[k]
       /\ \A k \in {"response_types_supported", "subject_syntax_types_supported"} \ apart :
            theirs'.typed[k] = mine.typed[k]]_vars

\* Adding a prefix or an algorithm withdraws nothing: every client id prefix
\* and every signing algorithm the wallet honoured before is honoured after,
\* the defaults of a list that was not there included.
AddingWithdrawsNothing ==
  [][Adding => /\ EnforcedPrefixes(mine) \subseteq EnforcedPrefixes(mine')
               /\ EnforcedAlgs(mine) \subseteq EnforcedAlgs(mine')]_vars

----------------------------------------------------------------------------
(* What the documentation says, and the code does not do *)

\* metadata/mod.rs: is_client_id_prefix_supported checks "that a client-id-
\* prefix is supported"; the one the wallet was told to add is.
AddedPrefixIsSupported ==
  [][\A values \in PrefixLists :
       Add(Prefixes, values) => \A p \in values : IsClientIdPrefixSupported(mine', p)]_vars

============================================================================
