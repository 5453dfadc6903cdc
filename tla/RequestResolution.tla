------------------------- MODULE RequestResolution -------------------------
(***************************************************************************)
(* The wallet's side of an authorization request: concurrent calls of      *)
(* Wallet::validate_request and of                                         *)
(* SignedAuthorizationRequest::resolve_response_uri_and_mode on one wallet *)
(* (wallet.rs, core/authorization_request/mod.rs and verification/).       *)
(*                                                                         *)
(* A call runs without interruption between two await points; the await    *)
(* points are the states of its pc:                                        *)
(*   generating - Wallet::generate_nonce                                   *)
(*   fetching   - the HTTP exchange with the request_uri                   *)
(*   verifying  - the RequestVerifier callback of the client id prefix     *)
(*   checking   - Wallet::validate_nonce, before the store has acted       *)
(*   nonce_valid, nonce_invalid - the same await, after it has: a nonce    *)
(*                that is found valid is spent before the caller knows     *)
(* The callbacks belong to the application; the nonce store behind         *)
(* generate_nonce and validate_nonce issues each nonce once and accepts it *)
(* once, which is what they are for.  When the future of validate_nonce    *)
(* ends or is dropped, the store has acted on it or never will.            *)
(*                                                                         *)
(* A definition commented as a faulty variant belongs to no specification: *)
(* it is the definition after it with a plausible mistake, kept to confirm *)
(* that a property notices that mistake.                                   *)
(***************************************************************************)
EXTENDS Metadata

CONSTANTS
  Calls,      \* the calls an application makes, concurrently or as retries
  Nonces,     \* the wallet nonces that can be generated
  Urls,       \* authorization request URLs handed to the wallet
  Jwts,       \* request objects, as JWTs, that an HTTP reply may contain
  Wallets,    \* wallet configurations
  None,       \* no value yet
  NoOne,      \* signer of a JWT whose signature part is empty
  Doubled     \* client id whose id repeats its prefix |-> what follows it there

ASSUME ConstantsAssumption ==
  /\ None \notin Calls /\ None \notin Nonces /\ Absent \notin Nonces /\ Bad \notin Nonces
  /\ \A u \in Urls : u.kind = "value" => u.jwt \in Jwts

ASSUME UrlKinds == \A u \in Urls : u.kind \in {"malformed", "plain", "value", "reference"}

VARIABLES
  wallet,     \* the configuration: metadata, overridden callbacks, policy
  call,       \* call[c]: the local state of a call
  issued,     \* the nonces generate_nonce has returned
  spentBy     \* spentBy[n]: the call for which validate_nonce accepted n

vars == <<wallet, call, issued, spentBy>>

Operations == {"validate_request", "resolve_response_uri_and_mode"}
NoncePoints == {"checking", "nonce_valid", "nonce_invalid"}
Points == {"idle", "generating", "fetching", "verifying", "done"} \cup NoncePoints
Outcomes == Errors \cup {NoError, "pending", "cancelled"}

Idle == [pc |-> "idle", op |-> "validate_request", url |-> None, sent |-> None,
         jwt |-> None, outcome |-> "pending"]

CallStates ==
  [pc : Points, op : Operations, url : Urls \cup {None}, sent : Nonces \cup {None},
   jwt : Jwts \cup {None}, outcome : Outcomes]

\* Every call ends with one of the results the program knows.
TypeOK ==
  /\ wallet \in Wallets
  /\ call \in [Calls -> CallStates]
  /\ issued \subseteq Nonces
  /\ spentBy \in [Nonces -> Calls \cup {None}]

----------------------------------------------------------------------------
(* What a RequestVerifier callback may answer for a request object.  The   *)
(* result is a set: resolving a DID can fail for reasons of its own.       *)
(*                                                                         *)
(* A JWT is [decodable, obj, alg, kid, leaf, signer].  kid is the DID whose *)
(* verification method the header names; leaf is the first certificate of  *)
(* x5c, [names, hash, key]: its DNS names, its hash and its public key.    *)
(* Either is Absent, or Bad if it cannot be used.  signer is the key that  *)
(* made the signature; a DID stands for its own key, a certificate does    *)
(* not, as anyone can write one.                                           *)

\* Faulty variant: the key is not compared with the client id.
DidHeaderErrorOfAnyKey(w, j) ==
  IF j.alg \in {Absent, Bad} THEN "access_denied"
  ELSE IF ~Readable(w.metadata.raw, SigningAlgs) THEN Internal
  ELSE IF j.alg \notin w.metadata.raw[SigningAlgs] THEN "access_denied"
  ELSE IF j.kid = Absent THEN Internal
  ELSE IF w.trusted # Absent /\ j.kid \notin w.trusted THEN "access_denied"
  ELSE NoError

\* The checks of did::verify_with_resolver up to the resolution of the key.
DidHeaderError(w, j) ==
  IF j.alg \in {Absent, Bad} THEN "access_denied"
  ELSE IF ~Readable(w.metadata.raw, SigningAlgs) THEN Internal
  ELSE IF j.alg \notin w.metadata.raw[SigningAlgs] THEN "access_denied"
  ELSE IF j.kid = Absent THEN Internal
  ELSE IF j.kid # ClientId(j.obj.client_id).id THEN "access_denied"
  ELSE IF w.trusted # Absent /\ j.kid \notin w.trusted THEN "access_denied"
  ELSE NoError

\* did::verify_with_resolver.
DidVerdicts(w, j) ==
  IF DidHeaderError(w, j) # NoError THEN {DidHeaderError(w, j)}
  ELSE {"access_denied"} \cup {e \in {NoError} : j.signer = j.kid}

\* What the leaf is compared with: strip_prefix takes the prefix off an id
\* that repeats it.
Named(clientId) == IF clientId \in DOMAIN Doubled THEN Doubled[clientId] ELSE clientId.id

\* Faulty variant: the names in the certificate are not looked at.
LeafMatchesByHashOnly(leaf, clientId) ==
  clientId.prefix = "x509_hash" => leaf.hash = Named(clientId)

\* ensure_client_id_matches_leaf
LeafMatches(leaf, clientId) ==
  IF clientId.prefix = "x509_hash" THEN leaf.hash = Named(clientId)
  ELSE Named(clientId) \in leaf.names

\* x509_san::validate with P256Verifier.  Nothing is asked of the rest of the
\* chain, whatever roots the caller trusts.  Every failure is an untyped error.
X509Accepts(w, j) ==
  /\ j.alg \notin {Absent, Bad}
  /\ Readable(w.metadata.raw, SigningAlgs)
  /\ j.alg \in w.metadata.raw[SigningAlgs]
  /\ j.leaf \notin {Absent, Bad}
  /\ LeafMatches(j.leaf, ClientId(j.obj.client_id))
  /\ j.alg = "ES256"
  /\ j.signer = j.leaf.key

X509Verdicts(w, j) == {e \in {NoError, Internal} : (e = NoError) <=> X509Accepts(w, j)}

\* A callback of the application's own: it approves what its policy names.
PolicyVerdicts(w, who) ==
  {e \in {NoError, "access_denied"} : (e = NoError) <=> (who \in w.approved)}

\* Every callback that is not overridden denies access.
RedirectUriVerdicts(w, o) ==
  IF "redirect_uri" \in w.overrides THEN PolicyVerdicts(w, ReturnUri(o))
  ELSE {"access_denied"}

\* redirect_uri_jwt.
RedirectUriJwtVerdicts(w, j) ==
  IF j.signer # NoOne THEN {"invalid_request"}
  ELSE IF ReturnUri(j.obj) = Absent THEN {Internal}
  ELSE RedirectUriVerdicts(w, j.obj)

\* The dispatch of verify_request on the prefix of the parsed client id.
JwtVerdicts(w, j) ==
  LET prefix == ClientId(j.obj.client_id).prefix IN
  IF prefix = "redirect_uri" THEN RedirectUriJwtVerdicts(w, j)
  ELSE IF prefix \notin w.overrides THEN {"access_denied"}
  ELSE IF prefix = "decentralized_identifier" THEN DidVerdicts(w, j)
  ELSE IF prefix \in {"x509_san_dns", "x509_hash"} THEN X509Verdicts(w, j)
  ELSE PolicyVerdicts(w, ClientId(j.obj.client_id).id)

----------------------------------------------------------------------------
(* validate_request_against_metadata *)

ResponseTypeError(m, o) ==
  LET syntax == o.client_metadata.subject_syntax_types_supported IN
  IF o.response_type \notin m.typed.response_types_supported THEN "invalid_request"
  ELSE IF o.response_type # "vp_token id_token" THEN NoError
  ELSE IF syntax = Absent THEN "invalid_request"
  ELSE IF syntax = Bad THEN Internal
  ELSE IF ~(syntax \subseteq m.typed.subject_syntax_types_supported) THEN "invalid_request"
  ELSE NoError

\* Faulty variant: compares the designations and not the algorithms.
FormatsOverlapByName(m, offered) ==
  DOMAIN offered \cap DOMAIN m.typed.vp_formats_supported # {}

\* The two sides have a claim format in common.
FormatsOverlap(m, offered) ==
  \E f \in DOMAIN offered : ContainsFormat(m.typed.vp_formats_supported, f, offered[f])

\* validate_vp_formats_supported: a missing or unreadable list is no error.
FormatsError(m, o) ==
  LET offered == o.client_metadata.vp_formats_supported IN
  IF offered \in {Absent, Bad} \/ FormatsOverlap(m, offered) THEN NoError
  ELSE "vp_formats_not_supported"

\* Faulty variant: an error type that callers do not expect here.
MetadataErrorOfOtherType(m, o) ==
  IF m.raw[Prefixes] = Bad THEN Internal
  ELSE IF ClientId(o.client_id).prefix \notin ValueOrDefault(m.raw, Prefixes)
    THEN "wrong_client_id_prefix"
  ELSE IF ResponseTypeError(m, o) # NoError THEN ResponseTypeError(m, o)
  ELSE FormatsError(m, o)

MetadataError(m, o) ==
  IF m.raw[Prefixes] = Bad THEN Internal
  ELSE IF ClientId(o.client_id).prefix \notin ValueOrDefault(m.raw, Prefixes)
    THEN "invalid_request"
  ELSE IF ResponseTypeError(m, o) # NoError THEN ResponseTypeError(m, o)
  ELSE FormatsError(m, o)

----------------------------------------------------------------------------
(* The code between two await points, as functions of the call's state     *)

Ended(s, e) == [s EXCEPT !.pc = "done", !.outcome = e]
At(s, point) == [s EXCEPT !.pc = point]

\* The object a call works on.
RequestOf(s) == IF s.url.kind = "plain" THEN s.url.obj ELSE s.jwt.obj

\* Faulty variant: the client ids are not compared.
AfterNonceUncompared(s) == Ended(s, NoError)

\* Faulty variant: an accepted nonce is put to validate_nonce once more.
AfterNonceTwice(s) ==
  IF s.jwt.obj.wallet_nonce # Absent THEN At(s, "checking") ELSE Ended(s, NoError)

\* After validate_nonce: resolve_auth_request compares the client ids as
\* text, resolve_response_uri_and_mode returns.
AfterNonce(s) ==
  IF /\ s.op = "validate_request"
     /\ s.url.client_id # FullId(ClientId(s.jwt.obj.client_id))
  THEN Ended(s, "invalid_request") ELSE Ended(s, NoError)

\* Faulty variant: nonces are validated only by calls that sent one.
ToNonceCheckIfSent(s) ==
  IF s.jwt.obj.wallet_nonce = Absent \/ s.sent = None THEN AfterNonce(s)
  ELSE IF s.jwt.obj.wallet_nonce = Bad THEN Ended(s, Internal)
  ELSE At(s, "checking")

\* SignedAuthorizationRequest::validate_nonce up to its await.
ToNonceCheck(s) ==
  IF s.jwt.obj.wallet_nonce = Absent THEN AfterNonce(s)
  ELSE IF s.jwt.obj.wallet_nonce = Bad THEN Ended(s, Internal)
  ELSE At(s, "checking")

\* Faulty variant: the nonce is validated before the request object.
AfterFetchNonceFirst(s, j) ==
  LET t == [s EXCEPT !.jwt = j] IN
  IF ~j.decodable
    THEN Ended(t, IF s.op = "validate_request" THEN "invalid_request" ELSE Internal)
  ELSE IF ParseError(j.obj) # NoError THEN Ended(t, ParseError(j.obj))
  ELSE ToNonceCheck(t)

\* The JWT has been retrieved: decode it, make the typed object, and go on to
\* the callback (verify_request) or straight to the nonce.
AfterFetch(s, j) ==
  LET t == [s EXCEPT !.jwt = j] IN
  IF ~j.decodable
    THEN Ended(t, IF s.op = "validate_request" THEN "invalid_request" ELSE Internal)
  ELSE IF ParseError(j.obj) # NoError THEN Ended(t, ParseError(j.obj))
  ELSE IF s.op = "validate_request" THEN At(t, "verifying")
  ELSE ToNonceCheck(t)

\* The callback of verify_request has answered e.
AfterVerdict(w, s, e) ==
  LET o == RequestOf(s) IN
  IF e # NoError THEN Ended(s, e)
  ELSE IF MetadataError(w.metadata, o) # NoError THEN Ended(s, MetadataError(w.metadata, o))
  ELSE IF s.url.kind = "plain" THEN Ended(s, NoError)
  ELSE ToNonceCheck(s)

\* Faulty variant: takes a request without response_uri for a DC API request.
PlainRequestByResponseUri(w, s) ==
  LET o == s.url.obj IN
  IF ParseError(o) # NoError THEN Ended(s, ParseError(o))
  ELSE IF o.response_uri = Absent THEN AfterVerdict(w, s, NoError)
  ELSE At(s, "verifying")

\* A plain request needs no callback in the DC API modes.
PlainRequest(w, s) ==
  LET o == s.url.obj IN
  IF ParseError(o) # NoError THEN Ended(s, ParseError(o))
  ELSE IF ReturnUri(o) = Absent THEN AfterVerdict(w, s, NoError)
  ELSE At(s, "verifying")

\* AuthorizationRequest::from_url and the synchronous part of validate; a
\* malformed URL is one whose endpoint, query or parameters are refused.
Started(w, s) ==
  IF s.url.kind = "malformed" THEN Ended(s, "invalid_request")
  ELSE IF s.url.kind = "plain" THEN PlainRequest(w, s)
  ELSE IF s.url.kind = "value" THEN AfterFetch(s, s.url.jwt)
  ELSE IF s.url.method = "POST" THEN At(s, "generating")
  ELSE At(s, "fetching")

----------------------------------------------------------------------------
Init ==
  /\ wallet \in Wallets
  /\ call = [c \in Calls |-> Idle]
  /\ issued = {}
  /\ spentBy = [n \in Nonces |-> None]

\* resolve_response_uri_and_mode is a method of signed requests only.
Start(c, op, u) ==
  /\ call[c].pc = "idle"
  /\ op = "resolve_response_uri_and_mode" => u.kind \in {"value", "reference"}
  /\ call' = [call EXCEPT ![c] = Started(wallet, [Idle EXCEPT !.op = op, !.url = u])]
  /\ UNCHANGED <<wallet, issued, spentBy>>

\* generate_nonce returns a fresh nonce, or no nonce, or an error; the last
\* two send the POST request without wallet_nonce.
GenerateNonce(c) ==
  /\ call[c].pc = "generating"
  /\ \/ \E n \in Nonces \ issued :
          /\ issued' = issued \cup {n}
          /\ call' = [call EXCEPT ![c] = [At(call[c], "fetching") EXCEPT !.sent = n]]
     \/ /\ call' = [call EXCEPT ![c] = At(call[c], "fetching")]
        /\ UNCHANGED issued
  /\ UNCHANGED <<wallet, spentBy>>

\* The reply may be any request object: one made for this call, for an
\* earlier call, or a copy kept on the way.
FetchReply(c, j) ==
  /\ call[c].pc = "fetching"
  /\ call' = [call EXCEPT ![c] = AfterFetch(call[c], j)]
  /\ UNCHANGED <<wallet, issued, spentBy>>

\* Faulty variant: a failed exchange is tried again, without a limit.
FetchFailsAndStartsAgain(c) ==
  /\ call[c].pc = "fetching"
  /\ call' = [call EXCEPT ![c] = Started(wallet, call[c])]
  /\ UNCHANGED <<wallet, issued, spentBy>>

\* Transport error, unsuccessful status, or a body that is not UTF-8.
FetchFails(c) ==
  /\ call[c].pc = "fetching"
  /\ call' = [call EXCEPT ![c] = Ended(call[c], Internal)]
  /\ UNCHANGED <<wallet, issued, spentBy>>

Verdict(c) ==
  /\ call[c].pc = "verifying"
  /\ \E e \in IF call[c].url.kind = "plain" THEN RedirectUriVerdicts(wallet, call[c].url.obj)
              ELSE JwtVerdicts(wallet, call[c].jwt) :
       call' = [call EXCEPT ![c] = AfterVerdict(wallet, call[c], e)]
  /\ UNCHANGED <<wallet, issued, spentBy>>

\* The store behind validate_nonce accepts a nonce that was issued and not
\* accepted before, and from then on holds it for spent.
ValidateNonce(c) ==
  /\ call[c].pc = "checking"
  /\ LET n == call[c].jwt.obj.wallet_nonce IN
       \/ /\ n \in issued /\ spentBy[n] = None
          /\ spentBy' = [spentBy EXCEPT ![n] = c]
          /\ call' = [call EXCEPT ![c] = At(call[c], "nonce_valid")]
       \/ /\ n \in issued => spentBy[n] # None
          /\ call' = [call EXCEPT ![c] = At(call[c], "nonce_invalid")]
          /\ UNCHANGED spentBy
  /\ UNCHANGED <<wallet, issued>>

\* Faulty variant: takes valid for invalid.
NonceAcceptedIsRefused(c) ==
  /\ call[c].pc = "nonce_valid"
  /\ call' = [call EXCEPT ![c] = Ended(call[c], "invalid_request")]
  /\ UNCHANGED <<wallet, issued, spentBy>>

\* validate_nonce has returned true.
NonceAccepted(c) ==
  /\ call[c].pc = "nonce_valid"
  /\ call' = [call EXCEPT ![c] = AfterNonce(call[c])]
  /\ UNCHANGED <<wallet, issued, spentBy>>

\* Faulty variant: the answer is not looked at.
NonceRefusedInVain(c) ==
  /\ call[c].pc = "nonce_invalid"
  /\ call' = [call EXCEPT ![c] = AfterNonce(call[c])]
  /\ UNCHANGED <<wallet, issued, spentBy>>

\* validate_nonce has returned false.
NonceRefused(c) ==
  /\ call[c].pc = "nonce_invalid"
  /\ call' = [call EXCEPT ![c] = Ended(call[c], "invalid_request")]
  /\ UNCHANGED <<wallet, issued, spentBy>>

\* validate_nonce returns an error, before its store has acted or after.
NonceCheckFails(c) ==
  /\ call[c].pc \in NoncePoints
  /\ call' = [call EXCEPT ![c] = Ended(call[c], Internal)]
  /\ UNCHANGED <<wallet, issued, spentBy>>

\* The application drops the future at an await point.
Cancel(c) ==
  /\ call[c].pc \notin {"idle", "done"}
  /\ call' = [call EXCEPT ![c] = Ended(call[c], "cancelled")]
  /\ UNCHANGED <<wallet, issued, spentBy>>

\* The steps a call takes once it runs.
Progress(c) ==
  \/ GenerateNonce(c)
  \/ \E j \in Jwts : FetchReply(c, j)
  \/ FetchFails(c)
  \/ Verdict(c)
  \/ ValidateNonce(c)
  \/ NonceAccepted(c)
  \/ NonceRefused(c)
  \/ NonceCheckFails(c)

Next ==
  \E c \in Calls :
    \/ \E op \in Operations, u \in Urls : Start(c, op, u)
    \/ Progress(c)
    \/ Cancel(c)

Spec == Init /\ [][Next]_vars

----------------------------------------------------------------------------
(* What the application sees *)

\* Wallet::validate_request wraps both of its errors with a context, which
\* makes each of them an Error::Internal.
Reported(s) ==
  IF s.op = "validate_request" /\ s.outcome \in Errors THEN Internal ELSE s.outcome

Accepted(c) == call[c].outcome = NoError /\ call[c].op = "validate_request"
AcceptedSigned(c) == Accepted(c) /\ call[c].url.kind \in {"value", "reference"}

----------------------------------------------------------------------------
(* Safety *)

\* A signed request the wallet accepts under a client id that the library
\* verifies is signed with an algorithm the wallet lists, in the name of the
\* client id in the URL, and by the key that client id stands for: the DID's
\* own, that of the one certificate with this hash, or that of a certificate
\* which carries the DNS name (which one, and who issued it, is not checked).
\* What the callback of verify_request saw and what resolve_auth_request
\* compares some awaits later is the same request object.
AcceptedSignedIsGenuine ==
  \A c \in Calls :
    LET s == call[c]  client == s.url.client_id  j == s.jwt IN
    AcceptedSigned(c) /\ client.prefix \in
        {"decentralized_identifier", "x509_san_dns", "x509_hash"} =>
      /\ j.obj.client_id = client
      /\ j.alg \in wallet.metadata.raw[SigningAlgs]
      /\ client.prefix = "decentralized_identifier" =>
           j.signer = client.id /\ (wallet.trusted # Absent => j.signer \in wallet.trusted)
      /\ client.prefix = "x509_hash" => j.leaf.hash = Named(client) /\ j.signer = j.leaf.key
      /\ client.prefix = "x509_san_dns" =>
           Named(client) \in j.leaf.names /\ j.signer = j.leaf.key

\* A wallet nonce vouches for one accepted request: no two calls, however
\* they interleave and whatever copies of a request object they receive, are
\* both accepted on the strength of the same nonce, and that nonce was issued.
NonceAcceptedOnce ==
  \A c, d \in Calls :
    LET n == call[c].jwt.obj.wallet_nonce IN
    AcceptedSigned(c) /\ n # Absent =>
      /\ n \in issued
      /\ AcceptedSigned(d) /\ call[d].jwt.obj.wallet_nonce = n => c = d

\* The wallet can answer what it accepts: there is a place to send the
\* response to unless the DC API carries it, the wallet lists the response
\* type, exactly one query is asked, and a format both sides support exists
\* if the verifier named any.
AcceptedCanBeAnswered ==
  \A c \in Calls :
    LET o == RequestOf(call[c])
        formats == o.client_metadata.vp_formats_supported IN
    Accepted(c) =>
      /\ ReturnUri(o) \in {Absent, Bad} => Mode(o) \in DcApiModes
      /\ o.response_type \in wallet.metadata.typed.response_types_supported
      /\ \E q \in QueryParameters :
           Readable(o, q) /\ \A r \in QueryParameters \ {q} : o[r] = Absent
      /\ formats \notin {Absent, Bad} =>
           \E f \in DOMAIN formats \cap DOMAIN wallet.metadata.typed.vp_formats_supported :
             PayloadContains(wallet.metadata.typed.vp_formats_supported[f], formats[f])

\* Nothing is accepted that some callback of the application did not approve,
\* except plain requests in a DC API response mode: a wallet that overrides no
\* callback accepts only those, and a plain request is otherwise accepted
\* only when the application approved its return URI.
AcceptedWasApproved ==
  \A c \in Calls :
    LET o == RequestOf(call[c]) IN
    Accepted(c) =>
      \/ call[c].url.kind = "plain" /\ Mode(o) \in DcApiModes
      \/ call[c].url.kind = "plain" /\ "redirect_uri" \in wallet.overrides
         /\ ReturnUri(o) \in wallet.approved
      \/ call[c].url.kind # "plain" /\ ClientId(o.client_id).prefix \in wallet.overrides
         /\ (ClientId(o.client_id).prefix = "redirect_uri" =>
               call[c].jwt.signer = NoOne /\ ReturnUri(o) \in wallet.approved)

\* What an earlier check has established still holds of the request object a
\* call carries over its next await: the typed object was made from that very
\* object, the callback has accepted it before its nonce is looked at, and a
\* call that returns its request has passed every check on it.
Passed(w, o) == ParseError(o) = NoError /\ MetadataError(w.metadata, o) = NoError

CheckedSoFar(w, s) ==
  /\ s.pc # "done" => s.outcome = "pending"
  /\ s.pc \in {"generating", "fetching"} => s.url.kind = "reference"
  /\ s.pc = "verifying" =>
       /\ s.op = "validate_request"
       /\ ParseError(RequestOf(s)) = NoError
       /\ s.url.kind # "plain" => s.jwt.decodable
  /\ s.pc \in NoncePoints =>
       /\ s.url.kind # "plain" /\ s.jwt.decodable /\ ParseError(s.jwt.obj) = NoError
       /\ s.jwt.obj.wallet_nonce \notin {Absent, Bad}
       /\ s.op = "validate_request" => Passed(w, s.jwt.obj) /\ NoError \in JwtVerdicts(w, s.jwt)
  /\ s.outcome = NoError /\ s.op = "validate_request" =>
       /\ Passed(w, RequestOf(s))
       /\ IF s.url.kind = "plain"
          THEN ReturnUri(s.url.obj) = Absent \/ NoError \in RedirectUriVerdicts(w, s.url.obj)
          ELSE /\ s.jwt.decodable /\ NoError \in JwtVerdicts(w, s.jwt)
               /\ s.url.client_id = FullId(ClientId(s.jwt.obj.client_id))

CheckedBeforeUse == \A c \in Calls : CheckedSoFar(wallet, call[c])

\* A nonce is not used up for nothing: the call of validate_request that has
\* spent it lets its request in, unless the application dropped the call, its
\* store failed after the fact, or the client id in the URL is another one,
\* which resolve_auth_request finds out only after the nonce is gone.
NonceIsNotWasted ==
  \A n \in Nonces : spentBy[n] # None =>
    LET s == call[spentBy[n]] IN
    s.pc = "done" /\ s.op = "validate_request" =>
      \/ s.outcome \in {NoError, "cancelled", Internal}
      \/ s.outcome = "invalid_request"
         /\ s.url.client_id # FullId(ClientId(s.jwt.obj.client_id))

----------------------------------------------------------------------------
(* Action properties *)

\* A request object that does not verify cannot use up a wallet nonce: in
\* validate_request a nonce is spent only after the callback and the
\* metadata checks have passed, so that the object the nonce was meant for
\* can still be accepted by another call.
OnlyVerifiedObjectsSpendNonces ==
  [][\A n \in Nonces : spentBy[n] = None /\ spentBy'[n] # None =>
       LET s == call[spentBy'[n]] IN
       /\ s.jwt.obj.wallet_nonce = n
       /\ s.op = "validate_request" =>
            /\ NoError \in JwtVerdicts(wallet, s.jwt)
            /\ MetadataError(wallet.metadata, s.jwt.obj) = NoError]_vars

\* A call whose request object carries the nonce this very call has sent is
\* refused for its nonce only if another call has spent that nonce before.
OwnNonceRefusedOnlyIfTaken ==
  [][\A c \in Calls :
       LET s == call[c] IN
       /\ s.pc \in NoncePoints /\ s.sent # None /\ s.jwt.obj.wallet_nonce = s.sent
       /\ s.url.client_id = ClientId(s.jwt.obj.client_id)
       /\ call'[c].outcome = "invalid_request"
       => spentBy[s.sent] \in Calls \ {c}]_vars

\* The order in which a call may come to its await points; it may pass over
\* some of them, and may end at any of them.
Place ==
  [idle |-> 0, generating |-> 1, fetching |-> 2, verifying |-> 3, checking |-> 4,
   nonce_valid |-> 5, nonce_invalid |-> 5, done |-> 6]

\* A call comes to each await point once at most, in the order of wallet.rs
\* and mod.rs, whatever it is answered there, and its result is final: it
\* awaits four things at most and retries nothing.
CallsGoForward ==
  [][\A c \in Calls :
       call'[c] = call[c] \/ Place[call[c].pc] < Place[call'[c].pc]]_vars

----------------------------------------------------------------------------
(* The abstract specification this one implements *)

\* What has become of a call, as far as nonces go; a call of
\* resolve_response_uri_and_mode lets no request in.
Admission(s) ==
  IF s.outcome = "pending" THEN "open"
  ELSE IF s.outcome # NoError \/ s.op # "validate_request" THEN "closed"
  ELSE IF s.url.kind = "plain" THEN "admitted"
  ELSE IF s.jwt.obj.wallet_nonce = Absent THEN "admitted" ELSE s.jwt.obj.wallet_nonce

Gate == INSTANCE NonceGate WITH result <- [c \in Calls |-> Admission(call[c])]

\* However calls interleave around the two callbacks, replies are repeated,
\* futures are dropped and the store fails: a request that carries a nonce is
\* let in only after its own call has spent that nonce, a call spends one nonce
\* at most and only while it is undecided, and nothing that was issued, spent
\* or decided is taken back.
ImplementsNonceGate == Gate!Spec

----------------------------------------------------------------------------
(* What the documentation says, and the code does not do *)

\* error.rs: a protocol error should be treated like a 400 error, which needs
\* the caller of Wallet::validate_request to see it.
ProtocolErrorsReachTheCaller ==
  \A c \in Calls : call[c].outcome \in ProtocolErrors => Reported(call[c]) \in ProtocolErrors

\* The comparison of the two client ids refuses requests that have "different
\* client ids"; then equal ones are not refused there.
EqualClientIdsAgree ==
  \A c \in Calls :
    LET s == call[c] IN
    /\ s.outcome = "invalid_request" /\ s.op = "validate_request"
    /\ s.url.kind \in {"value", "reference"} /\ s.jwt # None
    /\ s.jwt.decodable /\ ParseError(s.jwt.obj) = NoError
    /\ JwtVerdicts(wallet, s.jwt) = {NoError}
    /\ MetadataError(wallet.metadata, s.jwt.obj) = NoError
    /\ s.jwt.obj.wallet_nonce = Absent
    => s.url.client_id # s.jwt.obj.client_id

============================================================================
