------------------------------ MODULE Dcql_proofs ------------------------------
(***************************************************************************)
(* Theorems about the operators of Dcql: a query that is written and read  *)
(* again is the same query, and what is read of it is written as it was.   *)
(***************************************************************************)
EXTENDS Dcql, TLAPS

\* A list that the types allow has elements.
LEMMA VecDomain == ASSUME NEW s, IsVec(s) PROVE DOMAIN s = 1 .. Len(s) /\ s # <<>> /\ DOMAIN s # {}
<1>1. DOMAIN s = 1 .. Len(s) /\ Len(s) \in Nat \ {0}
  BY DEF IsVec
<1>2. s # <<>>
  BY <1>1
<1> QED BY <1>1, <1>2

----------------------------------------------------------------------------
(* Trusted authorities *)

\* What is read of a written authority, key identifiers by text and bytes.
LEMMA AuthoritySurvives ==
  ASSUME NEW a, IsAuthority(a), a.variant = "other" => a.type \notin RegisteredTypes
  PROVE  ReadAuthority(WriteAuthority(a)) = a
<1> DEFINE raw == WriteAuthority(a)
<1>1. /\ a = [variant |-> a.variant, type |-> a.type, values |-> a.values]
      /\ a.values = [k \in 1 .. Len(a.values) |-> a.values[k]]
      /\ a.variant \in RegisteredTypes \cup {"other"} /\ (a.variant # "other" => a.type = a.variant)
  BY DEF IsAuthority, IsVec
<1>2. raw.type = a.type
  BY DEF WriteAuthority
<1>3. a.variant = IF raw.type \in RegisteredTypes THEN raw.type ELSE "other"
  BY <1>1, <1>2
<1>4. CASE a.variant = "aki"
  <2>1. raw.values = [k \in DOMAIN a.values |-> a.values[k].encoded] /\ raw.type = "aki"
    BY <1>1, <1>2, <1>4 DEF WriteAuthority
  <2>2. \A k \in DOMAIN a.values : KeyIdentifier(raw.values[k]) = a.values[k]
    BY <2>1, <1>4 DEF IsAuthority
  <2>3. [k \in DOMAIN raw.values |-> KeyIdentifier(raw.values[k])] = a.values
    BY <1>1, <2>1, <2>2
  <2>4. ReadAuthority(raw) = [variant |-> a.variant, type |-> a.type, values |-> a.values]
    BY <1>2, <1>3, <2>1, <2>3 DEF ReadAuthority
  <2> QED BY <1>1, <2>4
<1>5. CASE a.variant # "aki"
  <2>1. raw.values = a.values /\ raw.type # "aki"
    BY <1>1, <1>2, <1>5 DEF WriteAuthority, RegisteredTypes
  <2>2. ReadAuthority(raw) = [variant |-> a.variant, type |-> a.type, values |-> a.values]
    BY <1>2, <1>3, <2>1 DEF ReadAuthority
  <2> QED BY <1>1, <2>2
<1> QED BY <1>4, <1>5

\* Whatever is read of it, what was written stays as it is.
LEMMA WrittenAuthorityIsKept ==
  ASSUME NEW a, IsAuthority(a)
  PROVE  WriteAuthority(ReadAuthority(WriteAuthority(a))) = WriteAuthority(a)
<1> DEFINE raw == WriteAuthority(a)
           read == ReadAuthority(raw)
<1>1. /\ a.values = [k \in 1 .. Len(a.values) |-> a.values[k]]
      /\ a.variant \in RegisteredTypes \cup {"other"} /\ (a.variant # "other" => a.type = a.variant)
  BY DEF IsAuthority, IsVec
<1>2. /\ raw = [type |-> a.type, values |-> raw.values] /\ raw.type = a.type
      /\ raw.values = [k \in DOMAIN raw.values |-> raw.values[k]]
  <2>1. raw = [type |-> a.type,
               values |-> IF a.variant = "aki" THEN [k \in DOMAIN a.values |-> a.values[k].encoded]
                          ELSE a.values]
    BY DEF WriteAuthority
  <2>2. CASE a.variant = "aki"
    BY <2>1, <2>2
  <2>3. CASE a.variant # "aki"
    BY <2>1, <2>3, <1>1
  <2> QED BY <2>2, <2>3
<1>3. read.type = raw.type /\ (read.variant = "aki" <=> raw.type = "aki")
  BY DEF ReadAuthority, RegisteredTypes
<1>4. CASE raw.type = "aki"
  <2>1. read.values = [k \in DOMAIN raw.values |-> KeyIdentifier(raw.values[k])]
    BY <1>4 DEF ReadAuthority
  <2>2. \A k \in DOMAIN raw.values : read.values[k].encoded = raw.values[k]
    BY <2>1 DEF KeyIdentifier
  <2>3. [k \in DOMAIN read.values |-> read.values[k].encoded] = raw.values
    BY <1>2, <2>1, <2>2
  <2>4. WriteAuthority(read) = [type |-> raw.type, values |-> raw.values]
    BY <1>3, <1>4, <2>3 DEF WriteAuthority
  <2> QED BY <1>2, <2>4
<1>5. CASE raw.type # "aki"
  <2>1. read.values = raw.values
    BY <1>5 DEF ReadAuthority
  <2>2. WriteAuthority(read) = [type |-> raw.type, values |-> raw.values]
    BY <1>3, <1>5, <2>1 DEF WriteAuthority
  <2> QED BY <1>2, <2>2
<1> QED BY <1>4, <1>5

----------------------------------------------------------------------------
(* Credential queries *)

\* A credential query as it is written.
LEMMA WrittenCredential ==
  ASSUME NEW c, IsCredential(c)
  PROVE  LET w == WriteCredential(c) IN
         /\ w = [id |-> c.id, format |-> c.format.name, claims |-> c.claims,
                 claim_sets |-> c.claim_sets, trusted_authorities |-> w.trusted_authorities]
         /\ c.trusted_authorities = Absent => w.trusted_authorities = Absent
         /\ c.trusted_authorities # Absent =>
              w.trusted_authorities =
                [k \in DOMAIN c.trusted_authorities |-> WriteAuthority(c.trusted_authorities[k])]
<1>1. c = [id |-> c.id, format |-> c.format, claims |-> c.claims, claim_sets |-> c.claim_sets,
           trusted_authorities |-> c.trusted_authorities]
  BY DEF IsCredential
<1> DEFINE ids == c.id
           format == c.format
           claims == c.claims
           sets == c.claim_sets
           authorities == c.trusted_authorities
           written == IF authorities = Absent THEN Absent
                      ELSE [k \in DOMAIN authorities |-> WriteAuthority(authorities[k])]
<1>2. WriteCredential(c) = [c EXCEPT !.format = format.name, !.trusted_authorities = written]
  BY <1>1 DEF WriteCredential
<1>3. WriteCredential(c) = [id |-> ids, format |-> format.name, claims |-> claims,
                            claim_sets |-> sets, trusted_authorities |-> written]
  <2> HIDE DEF ids, format, claims, sets, authorities, written
  <2>1. c = [id |-> ids, format |-> format, claims |-> claims, claim_sets |-> sets,
             trusted_authorities |-> authorities]
    BY <1>1 DEF ids, format, claims, sets, authorities
  <2> QED BY <1>2, <2>1
<1> QED BY <1>3

\* The same of reading: the members are those that were written.
LEMMA CredentialRead ==
  ASSUME NEW w, NEW id, NEW name, NEW claims, NEW sets, NEW authorities,
         w = [id |-> id, format |-> name, claims |-> claims, claim_sets |-> sets,
              trusted_authorities |-> authorities]
  PROVE  ReadCredential(w) =
           [id |-> id, format |-> FormatOfName(name), claims |-> claims, claim_sets |-> sets,
            trusted_authorities |->
              IF authorities = Absent THEN Absent
              ELSE [k \in DOMAIN authorities |-> ReadAuthority(authorities[k])]]
<1> DEFINE format == FormatOfName(name)
           read == IF authorities = Absent THEN Absent
                   ELSE [k \in DOMAIN authorities |-> ReadAuthority(authorities[k])]
<1>1. w.format = name /\ w.trusted_authorities = authorities
  OBVIOUS
<1>2. ReadCredential(w) = [w EXCEPT !.format = format, !.trusted_authorities = read]
  BY <1>1 DEF ReadCredential
<1>3. ReadCredential(w) = [id |-> id, format |-> format, claims |-> claims, claim_sets |-> sets,
                           trusted_authorities |-> read]
  <2> HIDE DEF format, read
  <2> QED BY <1>2
<1> QED BY <1>3

\* The authorities that are written, and what is read of them.
LEMMA AuthoritiesTravel ==
  ASSUME NEW c, IsCredential(c), c.trusted_authorities # Absent,
         NEW w, w = WriteCredential(c).trusted_authorities
  PROVE  /\ w # Absent /\ w = [k \in DOMAIN c.trusted_authorities |-> WriteAuthority(c.trusted_authorities[k])]
         /\ [k \in DOMAIN w |-> ReadAuthority(w[k])] # Absent
<1>1. w = [k \in DOMAIN c.trusted_authorities |-> WriteAuthority(c.trusted_authorities[k])]
  BY WrittenCredential
<1>2. AbsentIsNoListOf(c.trusted_authorities)
  BY DEF IsCredential
<1> QED BY <1>1, <1>2 DEF AbsentIsNoListOf

\* A canonical credential query is read as it was written.
LEMMA CredentialSurvives ==
  ASSUME NEW c, IsCredential(c), CanonicalCredential(c)
  PROVE  ReadCredential(WriteCredential(c)) = c
<1> DEFINE w == WriteCredential(c)
           authorities == c.trusted_authorities
           written == w.trusted_authorities
           read == IF written = Absent THEN Absent
                   ELSE [k \in DOMAIN written |-> ReadAuthority(written[k])]
<1>1. w = [id |-> c.id, format |-> c.format.name, claims |-> c.claims,
           claim_sets |-> c.claim_sets, trusted_authorities |-> written]
  BY WrittenCredential
<1>2. ReadCredential(w) = [id |-> c.id, format |-> FormatOfName(c.format.name), claims |-> c.claims,
                           claim_sets |-> c.claim_sets, trusted_authorities |-> read]
  <2> HIDE DEF w
  <2>1. ReadCredential(w) =
           [id |-> c.id, format |-> FormatOfName(c.format.name), claims |-> c.claims,
            claim_sets |-> c.claim_sets,
            trusted_authorities |->
              IF written = Absent THEN Absent
              ELSE [k \in DOMAIN written |-> ReadAuthority(written[k])]]
    BY <1>1, CredentialRead
  <2> QED BY <2>1
<1>3. read = authorities
  <2>1. CASE authorities = Absent
    BY <2>1, WrittenCredential
  <2>2. CASE authorities # Absent
    <3>1. written # Absent /\ written = [k \in DOMAIN authorities |-> WriteAuthority(authorities[k])]
      BY <2>2, AuthoritiesTravel
    <3>2. \A k \in DOMAIN authorities : ReadAuthority(WriteAuthority(authorities[k])) = authorities[k]
      BY <2>2, AuthoritySurvives DEF IsCredential, CanonicalCredential
    <3>3. authorities = [k \in 1 .. Len(authorities) |-> authorities[k]]
      BY <2>2 DEF IsCredential, IsVec
    <3>4. read = [k \in DOMAIN written |-> ReadAuthority(written[k])]
      BY <3>1
    <3> HIDE DEF read, written, authorities
    <3> QED BY <3>1, <3>2, <3>3, <3>4
  <2> QED BY <2>1, <2>2
<1>4. /\ c.format = FormatOfName(c.format.name)
      /\ c = [id |-> c.id, format |-> c.format, claims |-> c.claims, claim_sets |-> c.claim_sets,
              trusted_authorities |-> c.trusted_authorities]
  BY DEF CanonicalCredential, IsCredential
<1> QED BY <1>2, <1>3, <1>4

\* Whatever is read of a credential query, it is written as it was.
LEMMA WrittenCredentialIsKept ==
  ASSUME NEW c, IsCredential(c)
  PROVE  WriteCredential(ReadCredential(WriteCredential(c))) = WriteCredential(c)
<1> DEFINE w == WriteCredential(c)
           authorities == c.trusted_authorities
           written == w.trusted_authorities
           format == FormatOfName(c.format.name)
           read == IF written = Absent THEN Absent
                   ELSE [k \in DOMAIN written |-> ReadAuthority(written[k])]
           again == IF read = Absent THEN Absent
                    ELSE [k \in DOMAIN read |-> WriteAuthority(read[k])]
           r == ReadCredential(w)
<1>1. w = [id |-> c.id, format |-> c.format.name, claims |-> c.claims,
           claim_sets |-> c.claim_sets, trusted_authorities |-> written]
  BY WrittenCredential
<1>2. r = [id |-> c.id, format |-> format, claims |-> c.claims,
           claim_sets |-> c.claim_sets, trusted_authorities |-> read]
  <2> HIDE DEF w
  <2>1. ReadCredential(w) =
           [id |-> c.id, format |-> FormatOfName(c.format.name), claims |-> c.claims,
            claim_sets |-> c.claim_sets,
            trusted_authorities |->
              IF written = Absent THEN Absent
              ELSE [k \in DOMAIN written |-> ReadAuthority(written[k])]]
    BY <1>1, CredentialRead
  <2> QED BY <2>1
<1>3. format.name = c.format.name
  BY DEF FormatOfName
<1>4. r.format.name = c.format.name /\ r.trusted_authorities = read
  BY <1>2, <1>3
<1>5. WriteCredential(r) = [id |-> c.id, format |-> c.format.name, claims |-> c.claims,
                            claim_sets |-> c.claim_sets, trusted_authorities |-> again]
  <2>1. WriteCredential(r) = [r EXCEPT !.format = c.format.name, !.trusted_authorities = again]
    <3> HIDE DEF r, read
    <3> QED BY <1>4 DEF WriteCredential
  <2> DEFINE ids == c.id
             name == c.format.name
             claims == c.claims
             sets == c.claim_sets
  <2> HIDE DEF ids, name, claims, sets, format, read, r, again
  <2>2. r = [id |-> ids, format |-> format, claims |-> claims, claim_sets |-> sets,
             trusted_authorities |-> read]
    BY <1>2 DEF ids, claims, sets
  <2>3. WriteCredential(r) = [r EXCEPT !.format = name, !.trusted_authorities = again]
    BY <2>1 DEF name
  <2>4. WriteCredential(r) = [id |-> ids, format |-> name, claims |-> claims, claim_sets |-> sets,
                              trusted_authorities |-> again]
    BY <2>2, <2>3
  <2> QED BY <2>4 DEF ids, name, claims, sets
<1>6. again = written
  <2>1. CASE authorities = Absent
    BY <2>1, WrittenCredential
  <2>2. CASE authorities # Absent
    <3>1. /\ written # Absent /\ written = [k \in DOMAIN authorities |-> WriteAuthority(authorities[k])]
          /\ [k \in DOMAIN written |-> ReadAuthority(written[k])] # Absent
      BY <2>2, AuthoritiesTravel
    <3>2. \A k \in DOMAIN authorities :
            WriteAuthority(ReadAuthority(WriteAuthority(authorities[k]))) = WriteAuthority(authorities[k])
      BY <2>2, WrittenAuthorityIsKept DEF IsCredential
    <3>3. read = [k \in DOMAIN written |-> ReadAuthority(written[k])] /\ read # Absent
      BY <3>1
    <3>4. again = [k \in DOMAIN read |-> WriteAuthority(read[k])]
      BY <3>3
    <3> HIDE DEF read, written, authorities, again
    <3> QED BY <3>1, <3>2, <3>3, <3>4
  <2> QED BY <2>1, <2>2
<1> QED BY <1>1, <1>5, <1>6

----------------------------------------------------------------------------
(* Queries *)

\* A query as it is written.
LEMMA WrittenQuery ==
  ASSUME NEW dcql, IsQuery(dcql)
  PROVE  WriteQuery(dcql) =
           [credentials |-> [i \in 1 .. Len(dcql.credentials) |-> WriteCredential(dcql.credentials[i])],
            credential_sets |-> dcql.credential_sets]
<1> DEFINE credentials == dcql.credentials
           sets == dcql.credential_sets
           written == [i \in DOMAIN credentials |-> WriteCredential(credentials[i])]
<1>1. dcql = [credentials |-> credentials, credential_sets |-> sets]
      /\ DOMAIN credentials = 1 .. Len(credentials)
  BY VecDomain DEF IsQuery
<1>2. WriteQuery(dcql) = [dcql EXCEPT !.credentials = written]
  BY DEF WriteQuery
<1>3. WriteQuery(dcql) = [credentials |-> written, credential_sets |-> sets]
  <2> HIDE DEF credentials, sets, written
  <2> QED BY <1>1, <1>2
<1> QED BY <1>1, <1>3

\* A query is read credential by credential.
LEMMA QueryRead ==
  ASSUME NEW json, NEW credentials, NEW sets,
         json = [credentials |-> credentials, credential_sets |-> sets]
  PROVE  ReadQuery(json) =
           [credentials |-> [i \in DOMAIN credentials |-> ReadCredential(credentials[i])],
            credential_sets |-> sets]
<1> DEFINE read == [i \in DOMAIN credentials |-> ReadCredential(credentials[i])]
<1>1. json.credentials = credentials
  OBVIOUS
<1>2. ReadQuery(json) = [json EXCEPT !.credentials = read]
  BY <1>1 DEF ReadQuery
<1> HIDE DEF read
<1>3. ReadQuery(json) = [credentials |-> read, credential_sets |-> sets]
  BY <1>2
<1> QED BY <1>3 DEF read

\* A query whose names are what they say is read as the query that was written
\* (TryFrom<DCQL> for Json, then TryFrom<Json> for DCQL): key identifiers keep
\* their text and their bytes, formats and authorities their type.
THEOREM QuerySurvives ==
  ASSUME NEW dcql, IsQuery(dcql), Canonical(dcql)
  PROVE  ReadQuery(WriteQuery(dcql)) = dcql
<1> DEFINE credentials == dcql.credentials
           sets == dcql.credential_sets
           written == [i \in 1 .. Len(credentials) |-> WriteCredential(credentials[i])]
<1>1. /\ dcql = [credentials |-> credentials, credential_sets |-> sets]
      /\ credentials = [i \in 1 .. Len(credentials) |-> credentials[i]]
      /\ \A i \in 1 .. Len(credentials) : IsCredential(credentials[i]) /\ CanonicalCredential(credentials[i])
  BY VecDomain DEF IsQuery, IsVec, Canonical
<1>2. ReadQuery(WriteQuery(dcql)) =
        [credentials |-> [i \in DOMAIN written |-> ReadCredential(written[i])], credential_sets |-> sets]
  BY WrittenQuery, QueryRead
<1>3. \A i \in 1 .. Len(credentials) : ReadCredential(WriteCredential(credentials[i])) = credentials[i]
  BY <1>1, CredentialSurvives
<1>4. [i \in DOMAIN written |-> ReadCredential(written[i])] = credentials
  <2>1. [i \in DOMAIN written |-> ReadCredential(written[i])] =
          [i \in 1 .. Len(credentials) |-> credentials[i]]
    BY <1>3
  <2> QED BY <1>1, <2>1
<1> QED BY <1>1, <1>2, <1>4

\* Whatever names a query gives, what is read of it is written as it was, so a
\* wallet that passes a query on changes nothing in it (From<TrustedAuthority>
\* for RawTrustedAuthority writes the text a key identifier came as).
THEOREM WrittenQueryIsKept ==
  ASSUME NEW dcql, IsQuery(dcql)
  PROVE  WriteQuery(ReadQuery(WriteQuery(dcql))) = WriteQuery(dcql)
<1> DEFINE credentials == dcql.credentials
           sets == dcql.credential_sets
           n == Len(credentials)
           written == [i \in 1 .. n |-> WriteCredential(credentials[i])]
           read == [i \in 1 .. n |-> ReadCredential(written[i])]
           again == [i \in DOMAIN read |-> WriteCredential(read[i])]
<1>1. \A i \in 1 .. n : IsCredential(credentials[i])
  BY VecDomain DEF IsQuery
<1>2. ReadQuery(WriteQuery(dcql)) = [credentials |-> read, credential_sets |-> sets]
  BY WrittenQuery, QueryRead
<1>3. WriteQuery(ReadQuery(WriteQuery(dcql))) = [credentials |-> again, credential_sets |-> sets]
  <2> HIDE DEF read
  <2>1. ReadQuery(WriteQuery(dcql)).credentials = read
    BY <1>2
  <2>2. WriteQuery(ReadQuery(WriteQuery(dcql))) = [ReadQuery(WriteQuery(dcql)) EXCEPT !.credentials = again]
    BY <2>1 DEF WriteQuery
  <2> HIDE DEF again, sets
  <2> QED BY <1>2, <2>2
<1>4. \A i \in 1 .. n :
        WriteCredential(ReadCredential(WriteCredential(credentials[i]))) = WriteCredential(credentials[i])
  BY <1>1, WrittenCredentialIsKept
<1>5. again = written
  BY <1>4
<1> QED BY <1>3, <1>5, WrittenQuery

============================================================================
