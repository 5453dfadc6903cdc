------------------------ MODULE AuthorizationResponse ------------------------
(***************************************************************************)
(* Authorization responses: how a response is made from an untyped object, *)
(* how the wallet encodes it as a form and how the verifier decodes that   *)
(* form (core/response/mod.rs, core/response/parameters.rs).               *)
(*                                                                         *)
(* A value in a form is a text: the JSON text of a value, or a plain text  *)
(* that is not JSON (a JWT, a name).  An item of a vp_token is a JSON      *)
(* object or a string.                                                     *)
(***************************************************************************)
EXTENDS RequestObject, Sequences

ResponseKeys ==
  {"vp_token", "presentation_submission", "id_token", "state",
   "transaction_data_hashes", "transaction_data_hashes_alg"}

FormKeys == ResponseKeys \cup {"response"}

HashAlgorithms == {"sha-256", "sha-384", "sha-512"}

----------------------------------------------------------------------------
(* Responses *)

Jwt(text) == [kind |-> "jwt", response |-> text]

Unencoded(fields) == [kind |-> "unencoded", fields |-> fields]

\* TryFrom<UntypedObject>: an algorithm without hashes is dropped.
ResponseFromObject(o) ==
  IF ~Readable(o, "vp_token") \/ \E k \in ResponseKeys : o[k] = Bad THEN Bad
  ELSE Unencoded(
    [o EXCEPT !.transaction_data_hashes_alg = IF o.transaction_data_hashes = Absent THEN Absent ELSE @])

----------------------------------------------------------------------------
(* Texts *)

JsonText(v) == IF v = Absent THEN Absent ELSE [json |-> TRUE, value |-> v]
PlainText(v) == IF v = Absent THEN Absent ELSE [json |-> FALSE, value |-> v]

\* serde_json::from_str.
FromJsonText(text) ==
  IF text = Absent THEN Absent ELSE IF text.json THEN text.value ELSE Bad

\* A text taken as it is; the JSON text of a string has quotes around it.
FromPlainText(text) ==
  IF text = Absent THEN Absent ELSE IF text.json THEN Bad ELSE text.value

----------------------------------------------------------------------------
(* Encoding *)

\* VpToken::format_to_string takes the quotes off a single string.
FormatToString(token) ==
  IF Len(token) = 1 /\ token[1].kind = "string" THEN PlainText(token) ELSE JsonText(token)

NoFields == [k \in FormKeys |-> Absent]

\* The two into_x_www_form_urlencoded.
IntoForm(r) ==
  IF r.kind = "jwt" THEN [NoFields EXCEPT !.response = PlainText(r.response)]
  ELSE [NoFields EXCEPT
    !.vp_token = FormatToString(r.fields.vp_token),
    !.presentation_submission = JsonText(r.fields.presentation_submission),
    !.id_token = PlainText(r.fields.id_token),
    !.state = PlainText(r.fields.state),
    !.transaction_data_hashes = JsonText(r.fields.transaction_data_hashes),
    !.transaction_data_hashes_alg = JsonText(r.fields.transaction_data_hashes_alg)]

----------------------------------------------------------------------------
(* Decoding *)

\* TryFrom<JsonTransactionDataResponse>; without hashes the algorithm is not
\* looked at.
AlgFromForm(form) ==
  LET alg == FromPlainText(form.transaction_data_hashes_alg) IN
  IF form.transaction_data_hashes = Absent THEN Absent
  ELSE IF alg \in HashAlgorithms \cup {Absent} THEN alg ELSE Bad

\* The fields of TryFrom<JsonEncodedAuthorizationResponse>.
FieldsFromForm(form) ==
  [vp_token |-> FromJsonText(form.vp_token),
   presentation_submission |-> FromJsonText(form.presentation_submission),
   id_token |-> FromPlainText(form.id_token),
   state |-> IF form.state = Absent THEN Absent ELSE form.state.value,
   transaction_data_hashes |-> FromJsonText(form.transaction_data_hashes),
   transaction_data_hashes_alg |-> AlgFromForm(form)]

\* AuthorizationResponse::from_x_www_form_urlencoded: a form with a response
\* is a JWT response, whatever else it holds.
FromForm(form) ==
  IF form.response # Absent THEN Jwt(form.response.value)
  ELSE IF form.vp_token = Absent THEN Bad
  ELSE LET fields == FieldsFromForm(form) IN
       IF \E k \in ResponseKeys : fields[k] = Bad THEN Bad ELSE Unencoded(fields)

============================================================================
