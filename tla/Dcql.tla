--------------------------------- MODULE Dcql ---------------------------------
(***************************************************************************)
(* DCQL queries: how an application builds one, how it is written into a   *)
(* request and what a wallet reads of it (core/dcql.rs).                   *)
(*                                                                         *)
(* An optional member is Absent or its value; meta, multiple and the       *)
(* holder binding of a credential query go through as they are and are     *)
(* left out.  A text of which the bytes matter is [bytes, padded]: bytes   *)
(* is what base64url decodes it to, Bad if it does not decode.  A          *)
(* definition commented as a faulty variant is kept to confirm that a      *)
(* property notices a mistake.                                             *)
(***************************************************************************)
EXTENDS RequestObject, Sequences

CONSTANTS IllegalIds   \* the texts that ID_REGEX does not match

ASSUME DcqlAssumption == Absent # Bad /\ Absent # <<>> /\ Absent \notin IllegalIds

\* ID::new
NewId(text) == IF text \in IllegalIds THEN Bad ELSE text

Push(vec, x) == IF vec = Absent THEN <<x>> ELSE Append(vec, x)

StandardFormats ==
  {"jwt", "jwt_vc", "jwt_vp", "jwt_vc_json", "dc+sd-jwt", "jwt_vp_json",
   "ldp", "ldp_vc", "ldp_vp", "ac_vc", "ac_vp", "mso_mdoc"}

\* ClaimFormatDesignation::from_name; Other carries its name, so that name and
\* into_name give back what was read.
FormatOfName(name) ==
  [variant |-> IF name \in StandardFormats THEN name ELSE "other", name |-> name]

----------------------------------------------------------------------------
(* Trusted authorities *)

RegisteredTypes == {"aki", "etsi_tl", "openid_federation"}

Unpadded(bytes) == [bytes |-> bytes, padded |-> FALSE]

\* KeyIdentifier::from_base64url: padding is dropped to decode, and kept; a
\* text without bytes is refused.
Decodes(text) == text.bytes \notin {Bad, <<>>}
KeyIdentifier(text) == [encoded |-> text, bytes |-> text.bytes]

\* KeyIdentifier::from_bytes
KeyIdentifierOfBytes(bytes) == KeyIdentifier(Unpadded(bytes))

\* TryFrom<RawTrustedAuthority>: one key identifier fails the whole.
AuthorityDecodes(raw) == raw.type = "aki" => \A k \in DOMAIN raw.values : Decodes(raw.values[k])

ReadAuthority(raw) ==
  [variant |-> IF raw.type \in RegisteredTypes THEN raw.type ELSE "other",
   type    |-> raw.type,
   values  |-> IF raw.type = "aki" THEN [k \in DOMAIN raw.values |-> KeyIdentifier(raw.values[k])]
               ELSE raw.values]

\* Faulty variant: key identifiers are written from their bytes.
WriteAuthorityFromBytes(a) ==
  [type |-> a.type,
   values |-> IF a.variant = "aki" THEN [k \in DOMAIN a.values |-> Unpadded(a.values[k].bytes)]
              ELSE a.values]

\* From<TrustedAuthority> for RawTrustedAuthority
WriteAuthority(a) ==
  [type |-> a.type,
   values |-> IF a.variant = "aki" THEN [k \in DOMAIN a.values |-> a.values[k].encoded]
              ELSE a.values]

----------------------------------------------------------------------------
(* Reading and writing a query *)

\* What the derived Deserialize takes: lists are NonEmptyVec, ids pass ID::new.
LegibleCredential(c) ==
  /\ c.id \notin IllegalIds
  /\ \A member \in {"claims", "claim_sets", "trusted_authorities"} : c[member] # <<>>
  /\ c.claims # Absent => \A k \in DOMAIN c.claims :
       c.claims[k].path # <<>> /\ c.claims[k].id \notin IllegalIds
  /\ c.trusted_authorities # Absent => \A k \in DOMAIN c.trusted_authorities :
       c.trusted_authorities[k].values # <<>> /\ AuthorityDecodes(c.trusted_authorities[k])

LegibleQuery(json) ==
  /\ json.credentials # <<>> /\ json.credential_sets # <<>>
  /\ \A i \in DOMAIN json.credentials : LegibleCredential(json.credentials[i])

ReadCredential(c) ==
  [c EXCEPT !.format = FormatOfName(@),
            !.trusted_authorities =
               IF @ = Absent THEN Absent
               ELSE [k \in DOMAIN c.trusted_authorities |-> ReadAuthority(c.trusted_authorities[k])]]

WriteCredential(c) ==
  [c EXCEPT !.format = @.name,
            !.trusted_authorities =
               IF @ = Absent THEN Absent
               ELSE [k \in DOMAIN c.trusted_authorities |-> WriteAuthority(c.trusted_authorities[k])]]

\* TryFrom<Json> for DCQL, of a query that is legible.
ReadQuery(json) ==
  [json EXCEPT !.credentials = [i \in DOMAIN json.credentials |-> ReadCredential(json.credentials[i])]]

\* TryFrom<DCQL> for Json
WriteQuery(dcql) ==
  [dcql EXCEPT !.credentials = [i \in DOMAIN dcql.credentials |-> WriteCredential(dcql.credentials[i])]]

----------------------------------------------------------------------------
(* What an application can hold: the types of dcql.rs, whose members are    *)
(* private                                                                  *)

IsVec(s) == Len(s) \in Nat \ {0} /\ s = [k \in 1 .. Len(s) |-> s[k]]

IsAuthority(a) ==
  /\ a = [variant |-> a.variant, type |-> a.type, values |-> a.values] /\ IsVec(a.values)
  /\ a.variant \in RegisteredTypes \cup {"other"} /\ (a.variant # "other" => a.type = a.variant)
  /\ a.variant = "aki" => \A k \in DOMAIN a.values :
       LET text == a.values[k].encoded IN Decodes(text) /\ a.values[k] = KeyIdentifier(text)

\* Absent stands for no list of authorities, written or read.
AbsentIsNoListOf(authorities) ==
  LET written == [k \in DOMAIN authorities |-> WriteAuthority(authorities[k])] IN
  Absent \notin {written, [k \in DOMAIN written |-> ReadAuthority(written[k])]}

IsCredential(c) ==
  /\ c = [id |-> c.id, format |-> c.format, claims |-> c.claims, claim_sets |-> c.claim_sets,
          trusted_authorities |-> c.trusted_authorities]
  /\ c.id \notin IllegalIds /\ c.format = [variant |-> c.format.variant, name |-> c.format.name]
  /\ \A member \in {"claims", "claim_sets", "trusted_authorities"} :
       c[member] # Absent => IsVec(c[member])
  /\ c.claims # Absent => \A k \in DOMAIN c.claims :
       c.claims[k].path # <<>> /\ c.claims[k].id \notin IllegalIds
  /\ c.trusted_authorities # Absent =>
       /\ AbsentIsNoListOf(c.trusted_authorities)
       /\ \A k \in DOMAIN c.trusted_authorities : IsAuthority(c.trusted_authorities[k])

IsQuery(dcql) ==
  /\ dcql = [credentials |-> dcql.credentials, credential_sets |-> dcql.credential_sets]
  /\ IsVec(dcql.credentials) /\ (dcql.credential_sets # Absent => IsVec(dcql.credential_sets))
  /\ \A i \in DOMAIN dcql.credentials : IsCredential(dcql.credentials[i])

\* No registered name was given to TrustedAuthority::Other or to
\* ClaimFormatDesignation::Other.
CanonicalCredential(c) ==
  /\ c.format = FormatOfName(c.format.name)
  /\ c.trusted_authorities # Absent => \A k \in DOMAIN c.trusted_authorities :
       LET a == c.trusted_authorities[k] IN a.variant = "other" => a.type \notin RegisteredTypes

Canonical(dcql) == \A i \in DOMAIN dcql.credentials : CanonicalCredential(dcql.credentials[i])

----------------------------------------------------------------------------
(* How queries are built *)

NewClaim(path) == [id |-> Absent, path |-> path]
SetClaimId(claim, id) == [claim EXCEPT !.id = NewId(id)]

NewCredential(id, format) ==
  [id |-> NewId(id), format |-> format, claims |-> Absent, claim_sets |-> Absent,
   trusted_authorities |-> Absent]
AddClaim(c, claim) == [c EXCEPT !.claims = Push(@, claim)]
AddClaimSet(c, set) == [c EXCEPT !.claim_sets = Push(@, set)]
SetTrustedAuthorities(c, authorities) == [c EXCEPT !.trusted_authorities = authorities]

NewQuery(credential) == [credentials |-> <<credential>>, credential_sets |-> Absent]
AddCredential(dcql, credential) == [dcql EXCEPT !.credentials = Append(@, credential)]
AddCredentialSet(dcql, options) == [dcql EXCEPT !.credential_sets = Push(@, options)]

============================================================================
