# A TLA+ development of openid4vp

Specifications, model-checking runs and machine-checked proofs about `openid4vp`, a Rust library for OpenID for Verifiable Presentations. The library is the code of both ends of an exchange: a verifier builds an authorization request, a wallet receives and validates it, selects credentials, and submits an authorization response. All paths below start at the repository's root.

## The system's parts

| Part | Code | State it keeps | Operations |
|---|---|---|---|
| Request validation | `src/wallet.rs`, `src/core/authorization_request/mod.rs` | per call: the URL, the fetched JWT, the nonce it sent; in the application: issued and spent wallet nonces | `Wallet::validate_request`, `SignedAuthorizationRequest::resolve_response_uri_and_mode` |
| Request verification | `src/core/authorization_request/verification/` | none; reads the wallet's metadata | `verify_request`, the six callbacks of `RequestVerifier`, DID and X.509 verification |
| Request object and parameters | `src/core/authorization_request/{mod,parameters}.rs` | the untyped object and the typed fields made from it | `TryFrom<UntypedObject>`, `resolve_presentation_query`, `into_url` |
| Untyped objects | `src/core/object/mod.rs` | a JSON object | `get`, `get_or_default`, `insert`, `remove`, `flatten_for_form` |
| Wallet metadata | `src/core/metadata/` | an untyped object and four typed copies | `new`, decoding, encoding, `add_*`, `vp_formats_supported_mut`, `DerefMut` |
| Credential formats | `src/core/credential_format/mod.rs` | none | comparison of designations and of their payloads |
| Verifier | `src/verifier/{mod,request_builder,client}.rs` | the builders | `with_*`, `build`, `generate_request_object_jwt` |
| Session store | `src/verifier/session.rs`, `oid4vp-frontend/` | a map behind a mutex | `initiate`, `get_session`, `update_status`, `remove_session` |
| Responses | `src/core/response/`, `src/wallet.rs` | none | encoding, decoding, `submit_response` |
| Presentation exchange | `src/core/{presentation_definition,presentation_submission,input_descriptor}.rs` | none | builders of definitions and descriptor maps; `find_inputs`, `validate`; `is_credential_match`, `requested_fields` |
| DCQL | `src/core/dcql.rs` | none | builders of queries, writing and reading them; `validate_dcql` in the builder |
| Transaction data | `src/core/authorization_request/{parameters,mod}.rs` | none | `into_base64url_encoded`, `from_base64url_encoded`, `get_transaction_data_items` |
| Errors, HTTP, signing | `src/core/error.rs`, `src/core/util/http.rs`, `src/signer.rs`, `src/utils.rs` | none | wrappers |

A request travels like this: `RequestBuilder::build` turns parameters into an object, and that into a URL (`plain`), a URL carrying a JWT (`value`) or a URL pointing to one (`reference`). `AuthorizationRequest::from_url` reads the URL; for a reference the wallet POSTs its metadata and perhaps a `wallet_nonce`, or GETs, and receives a JWT. The JWT becomes an `AuthorizationRequestObject`; `verify_request` hands it to the callback of its client id prefix and compares it with the wallet's metadata; `validate_nonce` is asked about the nonce inside; the client ids of URL and object are compared. The wallet's application then calls `resolve_presentation_query` and `submit_response`; the verifier's application decodes the form and calls `find_and_validate_inputs`. The verifier's session store is used by its application only.

The library has no threads of its own. What runs concurrently are futures of the application: several calls on one wallet, interleaving at the four await points of a call; tasks sharing one `MemoryStore`. What can fail are the HTTP exchanges (transport, status, body), the application's callbacks and signer; what can be lost, late or duplicated are the request object served at a `request_uri` and the POST of a response. Any future may be dropped at an await. Nothing is persisted, so there is no crash recovery to model.

### What makes each part correct

- **Validation and verification.** Under a DID or an `x509_hash` client id, only an object signed by the holder of that id is accepted, and under an `x509_san_dns` one, only an object signed by the key of some certificate with that name (the library does not ask who issued it); every check is made on the object that is finally returned; a wallet nonce vouches for one acceptance, cannot be used up by an object that does not verify, and is not used up in vain; what is accepted can be answered and was approved by a callback; a call does not come back to an await it has passed.
- **Metadata.** The typed copies and the untyped object say the same to those who read them; adding a value never withdraws another; a verifier that decodes the published metadata reads what the wallet enforces, as far as the wallet was not itself made of two different statements.
- **Builder.** However parameters, defaults and queries were given: what is built parses, names the client, has its answer sent to the verifier, and asks a question whose answer is unambiguous and which the wallet reads as it was written.
- **Session store.** It is a map, and each method takes effect at once or not at all; no method waits for another, and none leaves the mutex taken.
- **Responses.** `Ok` means that the verifier has this very response; what decodes is what was sent.
- **Presentation submissions.** The search comes to an end on whatever is sent; the inputs are those the maps select, each in one place; an accepted submission satisfies the definition, a conforming one is accepted; what the wallet's selection takes for a match does not fail at the verifier for another reason than the one exit the two differ in.
- **The whole.** What a wallet accepts in a verifier's name, if the name stands for one key, is what that verifier asked, and its answer goes to where that verifier listens; a request that was built is not refused by the wallet it was built for; what is to be confirmed is shown item by item.

The hazards behind these are listed, line by line, in `PROJECT.json`.

## The modules

| Module | Models | State |
|---|---|---|
| `RequestObject` | `TryFrom<UntypedObject> for AuthorizationRequestObject`, client ids, response modes, the errors | – |
| `Metadata` | `WalletMetadata`: construction, decoding, encoding, changes; `ClaimFormatPayload::contains` | – |
| `RequestResolution` | concurrent `validate_request` and `resolve_response_uri_and_mode` calls of one wallet | `wallet`, `call`, `issued`, `spentBy` |
| `NonceGate` | abstract: what wallet nonces are for | `issued`, `spentBy`, `result` |
| `MetadataExchange` | the wallet's metadata over time and the verifier's copy | `mine`, `theirs`; the history variable `apart` |
| `Dcql` | DCQL queries: builders, writing, reading | – |
| `TransactionData` | transaction data items: writing, reading | – |
| `RequestBuilding` | `VerifierBuilder`, `RequestBuilder`, and what the wallet reads of the result | `verifier`, `builder` |
| `AuthorizationResponse` | making responses, writing and reading their form | – |
| `ResponseSubmission` | `submit_response` over a lossy network | `sub`, `inbox` |
| `PresentationFlow` | `RequestBuilding`, `RequestResolution` and `ResponseSubmission` composed, with `resolve_presentation_query` | theirs and `query` |
| `Exchange` | abstract: what an exchange promises | `asked`, `accepted`, `answer`, `told` |
| `SessionStore` | `MemoryStore` with its mutex | `store`, `lock`, `task` |
| `SessionMap` | abstract: the map the `SessionStore` trait promises | `sessions`, `request`, `answer` |
| `SubmissionInputs` | `find_and_validate_inputs` | `definition`, `submission`, `at`, `stack`, `inputs`, `returned`, `outcome` |
| `CredentialSelection` | the wallet's side of definitions and submissions: builders, `ConstraintsField::query`, `is_credential_match`, `requested_fields` | those of `SubmissionInputs` |
| `*_proofs` | theorems about the module of that name | – |
| `MC*` | values of the constants for model checking | – |

`Metadata`, `Dcql` and `TransactionData` extend `RequestObject`; all four are operators only, so that `RequestResolution`, `MetadataExchange`, `RequestBuilding` and `PresentationFlow` share one definition of an object, of metadata and of what is in them. `CredentialSelection` extends `SubmissionInputs` and adds no step: it states what the wallet computes of the same values. `PresentationFlow` takes `RequestBuilding`, `RequestResolution` and `ResponseSubmission` with `INSTANCE`; its actions are conjunctions of theirs. Definitions commented "Faulty variant" belong to no specification: each is a definition of the code with a plausible mistake, and confirms that a property notices that mistake.

### Values

A JSON object is a function from the keys that matter to `Absent`, `Bad` (there, but its type's `TryFrom<Json>` refuses it) or a readable value: this is exactly what `UntypedObject::get` tells apart. A client id is a record of prefix and id, a bare one having the prefix `Bare`; `FullId` is `get_full_id`, which writes `pre-registered:` before a bare id. A JWT is a record of whether it decodes, the object, the header's algorithm, the DID in `kid`, the leaf certificate in `x5c`, and the key that made the signature. A certificate is its DNS names, its hash and its public key, three separate things: two certificates may carry the same name, and anyone may write one. A DID stands for its own key, which the resolver finds. Verifying a signature is the comparison of the key with the signer: cryptography is assumed, not modelled, and with it that two certificates do not have the same hash. `Named` is the id the leaf is compared with, which `strip_prefix` shortens if the id repeats its prefix; `Doubled` is the table of such ids. A transaction data item or a key identifier is a record of what its bytes say and whether the base64url text is padded, which is what the decoders tell apart. A constraint field is its JSON paths, in order, and the values its JSON schema takes. JSON texts in a form are pairs of their kind and their value, so that the conversion of `format_to_string` is what distinguishes them.

### Code and actions

`RequestResolution`. A call's `pc` is the await it is suspended at, and an action is the code from there to the next await, as a function of the call's state:

| pc | await | actions |
|---|---|---|
| `idle` | before the call | `Start` (`from_url`, and `validate` up to its first await; a plain request in a DC API mode is done already) |
| `generating` | `Wallet::generate_nonce` | `GenerateNonce`: a fresh nonce; or none, or an error, which the code drops |
| `fetching` | HTTP | `FetchReply` with any object there is; `FetchFails` |
| `verifying` | the callback | `Verdict`: then the metadata checks and up to the nonce |
| `checking` | `Wallet::validate_nonce` | `ValidateNonce`: the store behind it accepts and spends the nonce, or does not; the call is still suspended |
| `nonce_valid`, `nonce_invalid` | the same await | `NonceAccepted`: then the client ids are compared; `NonceRefused`; in these two and in `checking`, `NonceCheckFails` |
| any of these | | `Cancel`: the future is dropped |

The wallet's nonce store belongs to the application. It is modelled as issuing each nonce once and accepting it once, which is what its purpose in `wallet.rs:31`, to "counter replay attacks", takes. It acts in a step of its own, and the call resumes later, is dropped, or receives an error although the nonce is spent. What is assumed of the store is that once the future of `validate_nonce` has ended or was dropped, it has acted on the nonce or never will; the callbacks are those the library offers for DIDs and X.509 names, and for other prefixes a policy of the application's own.

`RequestBuilding` has an action per builder method and one for `build` up to its await (`Build`), then `Sign`. `MetadataExchange` has an action per method that changes metadata and `Publish`, encoding at the wallet and decoding at the verifier; `apart` remembers which keys of the metadata had their typed and untyped value given separately, as `WalletMetadata::new` does, or one of them changed since. `SessionStore` splits each method where another thread can run: `try_lock`, the search, the use of the entry, the end of the guard. `ResponseSubmission` has `Submit` up to the await, then `Reply`, `Fail` and `Drop`; `Arrive` is independent of all three, so that a POST may arrive when the call has already failed. `SubmissionInputs` turns the recursion of `find_inputs_with` into a stack: `Enter` is a call, `SkipItem`, `Descend`, `KeepItem` and `ItemFails` one iteration of its loop, `ReturnNested` and `ReturnMap` its return to either caller; one vector of inputs is shared by all levels as in the code.

## The runs

| Run | Question | Instance | Distinct states |
|---|---|---|---|
| `resolution_checks` | Does one call accept only what it should, after every check, and go forward only? | one call; 6 wallets; every object that differs from a sound one in one field, every header, certificate and signature that does | 24,912 |
| `resolution_nonces` | Do nonces hold between concurrent calls, whatever happens around the callback, and are they the gate they are meant to be? | 3 calls, 2 nonces, 6 objects: genuine with and without a nonce, forged, another signer's, one that fails the metadata check | 1,530,888 (symmetry on calls) |
| `metadata_published` | Do the copies agree after any change? | 5 objects, lists of two values, 7 insertions; unbounded sequences | 320,584 |
| `building` | Is every built request sound, and does its query arrive? | 3 clients, 11 parameters, 3 defaults, 6 DCQL queries, 2 definitions, 3 metadatas; any order of calls | 3,628,532 |
| `store` | Is `MemoryStore` a map? Does it return, and is anyone turned away by a mutex left taken? | 3 tasks, one session, 2 statuses | 28,321 |
| `flow` | Does the whole keep its promises? | 2 calls, 2 submissions, 1 nonce, 7 prepared requests of a DID, an `x509_hash`, an `x509_san_dns` and a `redirect_uri` client, four of them with transaction data; another verifier's requests and objects, its own certificate with the same name included | 971,080 |
| `inputs` | Does the search go forward? Are the inputs found right, acceptance sound and refusal justified? Do wallet and verifier agree on a match? | 8 definitions, up to 2 of 13 descriptor maps of up to 3 levels, 10 items | 12,053 |

Five more runs, `error_kinds`, `bare_client_id`, `added_prefix`, `round_trip` and `pick_count`, each show a disagreement between the code and what its documentation says (see Findings).

### Bounds

- *Single deviations.* The checks of an object are a conjunction with an order. An object that is wrong in one place reaches each of them, and an object wrong in two is refused by the first of the two; what is not covered by runs is covered by the theorems, which hold for any object.
- *Three calls, two nonces.* The properties of nonces relate two calls; the third can interfere with the two. Three calls are interchangeable for `resolution_nonces`, which checks no liveness, hence its symmetry.
- *One session.* A method reads and writes the entry of one session; sessions share only the mutex, which tasks on one session contend for already. The theorems are for any number.
- *Submissions.* `LastAttempt` bounds the submissions of one accepted request and `MostSubmissions` those of all calls together. Two are enough for a late arrival of the first after the second.
- *Three levels.* A frame with a caller and a callee at once is the general case of the recursion; two maps are enough for indices to be carried from one map to the next.
- *DCQL queries.* One sound query has every optional part; each of the others breaks one rule of the builder or of a reader, or gives a registered authority type to a list of the other kind.
- *The MC modules'* `ManyUrls`, `MCItems` and so on fix the data. The items include one found twice, one that does not decode, one with no JSON form, a credential in a credential, and values of a type found at either of two paths.

Deadlock is checked for `metadata_published` and `store`, whose systems never stop. In all others calls and builders come to an end, so the check is off there. A call that is not done always has a step, as each await has actions of its own; the await on HTTP may last for ever all the same.

### Fairness

Only `SessionStore` assumes fairness, `WF(Run(c))`: none of its methods awaits anything and `try_lock` never blocks, so that a thread only has to be scheduled. `RequestResolution` assumes none: `ReqwestClient` sets no timeout (`src/core/util/http.rs:28`), so that a server which does not answer suspends a call until the application drops it, and the callbacks are the application's. What holds without fairness is `CallsGoForward`: a call that proceeds comes nearer to its end. Nothing is claimed to happen elsewhere either: a builder may be left unused, and an application may never submit.

### Refinements

`RequestResolution` implements `NonceGate`: the result of a call is the nonce its object carried, if it was accepted with one. The gate spends a nonce in one step and lets the request in, or turns it down, in a later one, as the code does: the call hears of its nonce after the store has spent it, and may be dropped before that. What the gate promises is that a request with a nonce comes in only after its own call has spent it, that a call spends one at most, and that nothing issued, spent or decided is taken back. A call of `resolve_response_uri_and_mode`, which lets nothing in, is a request that is turned down, with or without a nonce spent. `SessionStore` implements `SessionMap`: an operation takes effect at `Act`, or is turned away at `TryLock`. `PresentationFlow` implements `Exchange`: `asked` is the object the wallet would read from what was built, without the nonce a server may add (as a set of at most one, like the others, so that nothing need be assumed of a value for "none"); `accepted` and `answer` are those of calls handed a request in the verifier's name; `told` is what `submit_response` returned. A fragment tells a wallet nothing, as the user agent carries it.

"In the verifier's name" is: the plain URL that was built, or a URL with the verifier's client id, if that is a DID or an `x509_hash` id, for which one key alone is accepted. A prefix that is left to the application's policy (`pre-registered`) has no such guarantee, and neither has `x509_san_dns`: a certificate of another key with the same name passes, since the chain to a root is not verified (`verification/x509_san.rs:85`). The instance of `flow` contains such a certificate, and its requests are accepted there.

## What is proved

TLAPS checks the theorems below for every value of the constants, that is, for any number of calls, nonces, tasks, sessions, items and levels and for any objects.

| Module | Theorem | Statement |
|---|---|---|
| `RequestResolution_proofs` | `TypeCorrect` | `Spec => []TypeOK` |
| | `ChecksHold` | `Spec => []CheckedBeforeUse` |
| | `AcceptedIsGenuine`, `AcceptedIsAnswerable`, `AcceptedIsApproved` | `[]AcceptedSignedIsGenuine`, `[]AcceptedCanBeAnswered`, `[]AcceptedWasApproved` |
| | `NonceVouchesOnce`, `NoncesAreNotWasted` | `[]NonceAcceptedOnce`, `[]NonceIsNotWasted` |
| | `VerifiedObjectsSpend`, `OwnNonceIsHonoured` | the action properties `OnlyVerifiedObjectsSpendNonces`, `OwnNonceRefusedOnlyIfTaken` |
| | `NonceGateImplemented` | `Spec => ImplementsNonceGate` |
| | `GateAdmitsOnce` | `ImplementsNonceGate` alone lets one request in on a nonce, and on an issued one only |
| | `AwaitsComeInOrder` | the action property `CallsGoForward`: each await at most once, in one order, and results are final |
| | `PrefixedClientIdsAgree` | an impeccable object with the URL's client id is refused only if that id is a bare one |
| `MetadataExchange_proofs` | `MetadataTypeOK` | `[]TypeOK` |
| | `PublishedCopyIsEnforced`, `NothingIsWithdrawn` | the action properties `PublishedIsEnforced`, `AddingWithdrawsNothing` |
| | `AddedPrefixTakesEffect` | an added prefix is let pass at once, and the next published copy supports it |
| `Dcql_proofs` | `QuerySurvives` | a query whose names are what they say is read as it was before it was written |
| | `WrittenQueryIsKept` | what is read of any written query is written as it was |
| `RequestBuilding_proofs` | `BuildingTypeOK` | `[]TypeOK` |
| | `BuiltIsReadable`, `ClientOverrides` | `[]BuiltRequestIsReadable`, `[]RequestNamesItsClient` |
| | `AnswersReturnToTheVerifier` | `[]AnswersGoToTheVerifier` |
| | `AnswersAreKeyed`, `QueryArrives` | `[]AnswersAreUnambiguous`, `[]QueryArrivesUnchanged` |
| `PresentationFlow_proofs` | `FlowTypeOK` | `[]TypeOK` |
| | `DecodedWasSent`, `OkIsDelivered` | `[]DecodedIsWhatWasSent`, `[]OkMeansDelivered` |
| | `AskerIsAnswered`, `TransactionIsShown` | `[]AnswersReachTheAsker`, `[]TransactionDataIsShown` |
| | `BuiltIsNotRefused` | `[]BuiltRequestIsNotRefused` |
| | `DecodedIsFollowed`, `ChangesAreFollowed` | a wallet whose metadata was decoded, and then changed in any way but by `insert`, follows what it publishes |
| | `FormsDecode`, `EncodableArrives` | a form decodes to its response unless that has a `vp_token` of one string or names a hash algorithm; a response without these is read as submitted |
| | `FlowIsAnExchange` | `Spec => ImplementsExchange` |
| | `ExchangeKeepsPromises` | `ImplementsExchange` alone entails that what is accepted was asked, what is answered was accepted and what is told has happened |
| `SessionStore_proofs` | `TypeCorrect`, `EntriesAreCurrent` | `[]TypeOK`, `[]EntryIsCurrent` |
| | `StoreIsAMap` | `Spec => ImplementsSessionMap` |
| | `BusyOnlyWhileAnotherIsInside` | the action property `BusyMeansAnotherIsInside` |
| | `SessionsChangeOnRequest` | `ImplementsSessionMap` alone changes a session only as a pending operation asks, which is then answered `ok` |
| `SubmissionInputs_proofs` | `TypeCorrect` | `[]TypeOK` |
| | `InputsAreAForest` | `[]InputsFormAForest` |
| | `AcceptanceIsSound` | `[]AcceptedSatisfiesDefinition` |
| | `SearchEnds` | the action property `SearchMovesForward` |
| | `FlatSubmissionsAreCounted` | without `path_nested`, a Pick rule counts what the descriptor maps found |
| `CredentialSelection_proofs` | `SearchIsExact` | `[]FindsWhatIsSelected` |
| | `AnswersAreAccepted` | `[]ConformingIsAccepted` |
| | `MatchesAreKept` | `Spec => MatchIsKept` |
| | `SatisfyingIsMatch` | a credential that satisfies all descriptors is a match for the wallet |

Assumptions are named in the modules that declare the constants, and TLC evaluates all of them on its instances:

- `ConstantsAssumption`, `UrlKinds` (`RequestResolution`): a URL is of one of four kinds, and a JWT in a URL is one of `Jwts`.
- `MetadataAssumption` (`MetadataExchange`): lists are sets of names, objects have the keys of metadata, defaults are lists.
- `DcqlAssumption` (`Dcql`): `Absent` is distinct from `Bad` and from an empty list, and is no illegal id.
- `BuildingAssumption` (`RequestBuilding`): a client's id has a prefix, as `ClientId::new` gives it one.
- `StoreAssumption` (`SessionStore`): `None` is no task, status or operation.
- `ItemsAssumption`, `SubmissionsAssumption` (`SubmissionInputs`): a path finds a sequence of items; a descriptor map has at least one level.
- `DefinitionsAssumption`, `HoldsAssumption` (`CredentialSelection`): descriptors and paths are lists; the table `Holds` of `SubmissionInputs` says what `ConstraintsField::query` finds.
- `TextsAssumption` (`PresentationFlow`): a text is not `Absent`, and a response has the six members of the form.
- `WalletAssumption` (`PresentationFlow`): the object in a wallet's metadata has all keys (a missing member is `Absent`), and the two members with defaults are optional ones.
- `ClientAssumption` (`PresentationFlow`): clients are those of `verifier/client.rs`: ids have a prefix, the one with `redirect_uri` does not sign, the key of a DID client's signer has been compared with the DID, and an `x509_hash` client is named after its own certificate, by a hash that does not repeat the prefix. Nothing is assumed of the signer of a client with a certificate, which `X509Client::new` does not compare with it.
- `VerifierAssumption` (`PresentationFlow`): nothing is built at the start; nobody else signs with the verifier's key or that of its certificate, has another certificate with the same hash, or hands out a plain request with its client id; an application gives transaction data as items.

**Requests.** `CheckedBeforeUse` is the inductive invariant. None of the three acceptance properties is inductive on its own: each speaks of a call that has ended, and what it says was established two awaits before. `CheckedSoFar` says for every await what has been checked of the object the call carries. The proof runs in two layers: for each function of the code between two awaits (`Started`, `AfterFetch`, `AfterVerdict`, `AfterNonce`) a lemma that it keeps `CheckedSoFar`, then one step per action. The acceptance properties follow from the state it describes for `pc = "done"`.

`CallsGoForward` gives each `pc` a place: a step leaves a call as it is or takes it to a higher place, so that a call awaits four things at most and retries nothing. `RefusalsExplained` says that an object which passes every other check is refused only where the URL's client id is not the object's id as `get_full_id` writes it; for an id with a prefix, these differ only if the two ids do.

**Nonces.** `NonceAcceptedOnce` is not inductive either: that two calls do not share a nonce follows from each being the call in `spentBy`. `NoncesAccountedFor` says so, for calls that have been let in and for those the store has answered and that have not resumed; and that the call which spent a nonce is one of these or has ended, so that it is not asked again. `NonceIsNotWasted` takes this to the end of the call: of what follows `nonce_valid`, only the comparison of client ids (`authorization_request/mod.rs:593`, two lines after the nonce), the application and its store can turn the request down. The refinement maps `ValidateNonce` to `Spend`, and `NonceAccepted` to `Admit` or `Close`; every other way out of the await, dropping the future after the store has acted included, is a `Close`. `GateAdmitsOnce` is proved from the actions of `NonceGate` only, by `GateInv`, that an admission on a nonce is recorded in `spentBy`: it is a check of the abstract specification, and through `NonceGateImplemented` holds of the code.

**Sessions.** `TypeOK /\ EntryIsCurrent`: the map changes only in `Act`, whose task holds the mutex, and no other task can then be between its search and its use. The refinement is one step per action. `OwnerIsInside` is the converse, that a mutex which is taken has an owner inside a method; it is what each early return could break, and with it a task that fails to lock has another task to blame. It also says what a caller that is turned away may do: try again, for the other one is about to leave. `SessionsChangeOnRequest` is about `SessionMap` alone: its steps give every change an operation that asked for it, so that a late update of a removed session does not bring it back.

**Inputs.** `Inv` adds to the types that every frame but the top one has an item left, the one its callee works in. `Forest` splits `InputsFormAForest` into four parts; `Covered`, that every input is referred to from some input, frame or finished map, is the one that `ReturnNested` disturbs in both its cases, since it moves the callee's references into a new input. `Sound` says that every input suits its descriptor, that every frame of the stack was entered with an allowed format, and that an accepting verdict was the one `validate` gives; acceptance follows. `Forward` is the variant of the search, in the order of verdict, descriptor map, and frames: a step ends the search, goes to the next map, leaves a level, takes an item from the innermost level, or enters the next level of the same map. For Pick rules, `Judged` keeps the verdict of `validate` in the state, and `Unnested` says that without `path_nested` every input has been found by a descriptor map itself, so that what the rule counts and what its comment speaks of are the same set.

**Selection.** `FindsWhatIsSelected` compares a finished search with what the maps select by definition. `Tracked` is its invariant: there is a choice of values read so far, one set per frame of the stack, such that each frame has exactly the rest of its path before it (`FrameHolds`) and the inputs kept are what the finished maps and these values yield. Each action moves one value from one of these sets to another; when the last frame has returned, the choice is empty and the yield is the selection. `BelowLast` and `BelowStep` say what the last level and a level above it select in a value, which is how the returns of the recursion put it together. `Explained` adds that an error has a cause in the submission, from which it follows that a conforming submission is not refused. `MatchIsKept` compares two searches that read the paths of a field in different order; `QueryFindsWhatPasses` reduces the verifier's to "some path has a value that passes".

**Metadata.** `Sound` describes the object the wallet holds: all keys there, lists or nothing readable under the two list keys, typed copies always readable. `PublishingIsFaithful` compares encoding and decoding under it, default by default. Response types and subject syntax types are published from the untyped object alone (`metadata/mod.rs:192`), and enforced from the typed copy; `Agree` says that the two are the same under every key that is not in `apart`, and `RestAgrees` that they stay so. The restriction is the code's: `WalletMetadata::new` takes both values, and `insert` changes one. `AddedPrefixTakesEffect` needs both: what `add_client_id_prefixes_supported` appends is enforced by the untyped object at once, and published from there.

**Builder.** `Sealed` is the part that does the work: from `Build` on, everything `build` has checked (`Checked`) still holds of the parameters, while a builder method has no access any more. The properties of built requests follow from it and from `ArrivesAsBuilt` and `UrlParses`, which say what the URL or the JWT does to the object. `QueryArrives` is `QuerySurvives` and `WrittenQueryIsKept` of `Dcql_proofs` applied to the query in it.

**The whole.** `Inv` has a part for each actor: `Offered` (what was built sends answers to the verifier's endpoint and names its client), `CallsHold` (for each await, where the request came from and what has been verified of it), `Ordered` (accept, resolve, submit), `SubmissionsHold` (what a call has posted is what arrived, if anything did). `AcceptedIsBuilt` is the central lemma: a request accepted in the verifier's name is the one it built, up to a wallet nonce, since it is signed by the key the client id stands for, a DID's own or that of the one certificate with this hash (`HolderMadeIt`), and nobody but the verifier signs with that key (`BuiltByTheVerifier`). There is no such lemma for `x509_san_dns`, and it would not hold. For the refinement, `UnbuiltIsUnaccepted` says that nothing is accepted in its name before it is built, and one lemma per actor (`VerifierSimulates`, `CallSimulates`, `AnswerSimulates`, `OthersStutter`) maps its steps. `Promises` is then an invariant of the abstract steps alone.

`BuiltRequestIsNotRefused` has an invariant of its own, `TreatInv`, which follows the built object through a call: at each await, a call that holds it has not found a fault with it (`Unfaulted`, `Passable`), whatever the other calls do. It is not asked a nonce, as the property is about requests built without one and replies that add none. Each check of the wallet is matched with the check of `build` it repeats. The property supposes a wallet that `FollowsWhatItPublishes`; `DecodedIsFollowed` and `ChangesAreFollowed` show that this is every wallet whose metadata was decoded and then changed by the methods for it.

Model-checked only: `OperationsReturn`, as liveness under fairness is out of the prover's reach. Its safety half is proved: a method of the store has three steps and waits for nothing, and `BusyOnlyWhileAnotherIsInside` says why it may be turned away. `SearchEnds` likewise gives the variant of the search and leaves the induction over it to the reader. The conversions of recursive data (JSON values, definitions nested in requirements) are tables here, for which there is nothing to prove.

## Findings

Each of these has a run whose counterexample shows it; for all but the first a theorem says how far it reaches.

1. `error_kinds`: `Wallet::validate_request` adds a context to every error, which makes it an `Error::Internal`; a caller cannot treat protocol errors "like 400 errors" (`src/core/error.rs:68`).
2. `bare_client_id`: equal bare client ids in URL and object are refused as different, because the comparison writes a prefix before one of them (`src/core/authorization_request/mod.rs:593`). No other ids are (`PrefixedClientIdsAgree`).
3. `added_prefix`: a prefix added to the metadata is not supported according to `is_client_id_prefix_supported` of the same value (`src/core/metadata/mod.rs:108`). The wallet lets it pass all the same, and the copy a verifier decodes supports it (`AddedPrefixTakesEffect`).
4. `round_trip`: a `vp_token` that is one string loses its quotes on encoding and cannot be decoded (`src/core/response/parameters.rs:140`). Apart from the hash algorithm below, every other response is read as it was sent (`FormsDecode`).
5. `pick_count`: a Pick rule counts the inputs of all nesting levels, not only those the submission's descriptor maps have found (`src/core/presentation_definition.rs:326`). Without `path_nested` the two are the same (`FlatSubmissionsAreCounted`).

Further disagreements, found while reading, that the models contain as the code has them and that have no run:

- a signed request under an `x509_san_dns` client id is accepted from anyone whose certificate carries that name: the chain is not verified, and the roots that the caller of `validate` trusts are ignored ("TODO: Verify chain to root", `verification/x509_san.rs:86`);
- a request object without a `wallet_nonce` is accepted any number of times even if the wallet sent a nonce (`authorization_request/mod.rs:673`, against `wallet.rs:31`);
- the `redirect_uri` callback is called for every plain request with a return URI, whatever its prefix (`verification/mod.rs:174`, against the comment at `:69`);
- metadata made by `WalletMetadata::new` may serialise to an object that does not decode, since only two of the typed copies are written back (`metadata/mod.rs:192`);
- `transaction_data` and `expected_origins` do not survive a plain URL, where they arrive as texts;
- `build` removes the `client_id` of a plain DC API request and then cannot make the typed object, which needs one (`request_builder.rs:192`, `authorization_request/mod.rs:42`);
- `fragment.jwt` takes only an unencoded response (`wallet.rs:87`);
- a `transaction_data_hashes_alg` is encoded as quoted JSON and decoded as a plain name (`response/mod.rs:68` and `:49`);
- `is_credential_match` lets a credential pass that lacks a required field without a filter (`presentation_definition.rs:246`), which `Constraints::matches` does not, and demands the filtered fields of all descriptors of the one credential, although each descriptor may be answered with another;
- `set_optional` says that a value of an optional field "MUST validate against the JSON Schema filter" (`input_descriptor.rs:479`), which neither end demands;
- "a constraint object MAY be empty" (`input_descriptor.rs:190`), but `{}` cannot be read, as `fields` has no default;
- the id "MUST be the same for each level of nesting" (`presentation_submission.rs:224`), but `set_path_nested` copies it one level down only, and nothing compares the ids that are read;
- `definition_id` of a submission is never compared with the definition's id (`presentation_submission.rs:61`);
- transaction data in padded base64url is refused, while key identifiers in padded base64url are read;
- a transaction data item of the one known type whose members do not fit is read as an item of an unknown type;
- claim sets, credential sets and transaction data may name claims and credentials that the query does not have;

## What is not modelled

- Cryptography, JWT and JSON syntax, JSON path and JSON schema evaluation: a signature is its signer, a path a table, a filter a set of fields that pass.
- DID documents beyond their key, and X.509 certificates beyond names, hash and key; of a chain, the code reads the first certificate only.
- The contents of DCQL's `meta` and of claim values, which are carried unchanged; matching credentials against a DCQL query, which the library leaves to the application.
- `credential_types_hint` and `fields_by_type`, which sort texts by substring for display; `limit_disclosure`, which is carried and never read; a `predicate`, which only changes the form of the result of `ConstraintsField::query`, not whether there is one.
- `verifier_info`, the key sets of `client_metadata` and ID tokens, which are passed on; `generate_did_based_id_token`, which signs what it is given.
- `ClaimFormat`, `add_alg` and `add_proof_type`: a value and its constructors that only tests use.
- HTTP headers, and the wording of the JWT headers that DID and X.509 clients write: the DID and the certificate they name are in the model.
- A `vp_token` of one string that is itself JSON text, such as `{}`, which would decode once its quotes are gone; presentations are JWTs or objects.
- `src/signer.rs`, `src/utils.rs`: wrappers around other libraries.
- Process-level failure: no part of the library persists anything.
- `src/verifier/session.rs` is modelled although no module declares it at this commit; its trait is what an application would use.

## Plan

Written, in this order: `RequestObject`, `Metadata`, `RequestResolution` with proofs, `RequestBuilding`, `MetadataExchange`, `SessionMap` and `SessionStore` with proofs, `AuthorizationResponse`, `ResponseSubmission`, `Exchange` and `PresentationFlow`, `SubmissionInputs` with proofs; then `NonceGate` and its refinement, `CredentialSelection` with proofs, `Dcql` with proofs, `TransactionData`, and the proofs of `MetadataExchange`, `RequestBuilding` and `PresentationFlow`, the refinement of `Exchange` included.

Then the proof of `BuiltRequestIsNotRefused`, the variants, the promises of the three abstract specifications, and the extent of the findings.

Left:

1. *Model.* `credential_types_hint` against the formats a definition allows; the payloads of `ClaimFormat`.
2. *Proofs.* Transaction data items and the response modes, operator by operator, as `Dcql_proofs` has it for queries.
