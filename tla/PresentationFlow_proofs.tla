------------------------ MODULE PresentationFlow_proofs ------------------------
(***************************************************************************)
(* Theorems about PresentationFlow, for every set of calls, requests,      *)
(* request objects and responses.                                          *)
(***************************************************************************)
EXTENDS PresentationFlow, TLAPS

Pairs == Calls \X Attempts

----------------------------------------------------------------------------
(* Forms *)

\* A text of a value is that value, or Absent for none.
LEMMA TextsAreRead ==
  ASSUME NEW o \in ResponseObjects, NEW k \in DOMAIN o, NEW v, v \in {o[k], Absent}
  PROVE  /\ Submission!FromJsonText(Submission!JsonText(v)) = v
         /\ Submission!FromPlainText(Submission!PlainText(v)) = v
         /\ Submission!FromJsonText(Submission!PlainText(v)) = (IF v = Absent THEN Absent ELSE Bad)
         /\ Submission!FromPlainText(Submission!JsonText(v)) = (IF v = Absent THEN Absent ELSE Bad)
         /\ (Submission!JsonText(v) = Absent) = (v = Absent)
         /\ (Submission!PlainText(v) = Absent) = (v = Absent)
         /\ v # Absent => Submission!PlainText(v).value = v
<1>1. \A json \in BOOLEAN : v # Absent => [json |-> json, value |-> v] # Absent
  BY TextsAssumption
<1> QED
  BY <1>1 DEF Submission!FromJsonText, Submission!JsonText, Submission!FromPlainText,
              Submission!PlainText

\* What the form of a response with fields holds.
LEMMA FormOfFields ==
  ASSUME NEW f, NEW form, form = Submission!IntoForm([kind |-> "unencoded", fields |-> f])
  PROVE  /\ form.response = Absent
         /\ form.vp_token = Submission!FormatToString(f.vp_token)
         /\ form.presentation_submission = Submission!JsonText(f.presentation_submission)
         /\ form.id_token = Submission!PlainText(f.id_token)
         /\ form.state = Submission!PlainText(f.state)
         /\ form.transaction_data_hashes = Submission!JsonText(f.transaction_data_hashes)
         /\ form.transaction_data_hashes_alg = Submission!JsonText(f.transaction_data_hashes_alg)
<1> DEFINE r == [kind |-> "unencoded", fields |-> f]
           token == Submission!FormatToString(f.vp_token)
           submission == Submission!JsonText(f.presentation_submission)
           id == Submission!PlainText(f.id_token)
           state == Submission!PlainText(f.state)
           hashes == Submission!JsonText(f.transaction_data_hashes)
           alg == Submission!JsonText(f.transaction_data_hashes_alg)
<1>1. r.kind # "jwt" /\ r.fields = f
  OBVIOUS
<1>2. form = [Submission!NoFields EXCEPT
               !.vp_token = token, !.presentation_submission = submission, !.id_token = id,
               !.state = state, !.transaction_data_hashes = hashes,
               !.transaction_data_hashes_alg = alg]
  BY <1>1 DEF Submission!IntoForm
<1> HIDE DEF token, submission, id, state, hashes, alg
<1>3. /\ form.response = Absent /\ form.vp_token = token
      /\ form.presentation_submission = submission /\ form.id_token = id /\ form.state = state
      /\ form.transaction_data_hashes = hashes /\ form.transaction_data_hashes_alg = alg
  BY <1>2 DEF Submission!NoFields, Submission!FormKeys, Submission!ResponseKeys
<1> QED BY <1>3 DEF token, submission, id, state, hashes, alg

SingleString(token) == Len(token) = 1 /\ token[1].kind = "string"

\* The responses whose form decodes: the two encoders and the two decoders
\* agree on everything but a single string and a hash algorithm.
Encodable(r) ==
  \/ r.kind = "jwt"
  \/ ~SingleString(r.fields.vp_token) /\ r.fields.transaction_data_hashes_alg = Absent

\* The form of a response decodes to the response if it is Encodable, and not
\* at all if not.
THEOREM FormsDecode ==
  ASSUME NEW r \in Responses
  PROVE  /\ Submission!FromForm(Submission!IntoForm(r)) = IF Encodable(r) THEN r ELSE Bad
         /\ r.kind \in {"jwt", "unencoded"}
<1>1. CASE \E text \in ResponseJwts : r = Submission!Jwt(text)
  <2>1. PICK text \in ResponseJwts : r = [kind |-> "jwt", response |-> text] /\ text # Absent
    BY <1>1, TextsAssumption DEF Submission!Jwt
  <2> DEFINE form == Submission!IntoForm(r)
             plain == [json |-> FALSE, value |-> text]
  <2>2. form = [Submission!NoFields EXCEPT !.response = plain]
    BY <2>1 DEF Submission!IntoForm, Submission!PlainText
  <2>3. form.response = plain /\ plain.value = text
    <3> HIDE DEF plain
    <3>1. form.response = plain
      BY <2>2 DEF Submission!NoFields, Submission!FormKeys
    <3> QED BY <3>1 DEF plain
  <2>4. plain # Absent
    BY TextsAssumption
  <2> HIDE DEF form, plain
  <2>5. Submission!FromForm(form) = r
    BY <2>1, <2>3, <2>4 DEF Submission!FromForm, Submission!Jwt
  <2> QED BY <2>1, <2>5 DEF form, Encodable
<1>2. CASE \E o \in ResponseObjects : r = Submission!ResponseFromObject(o) /\ r # Bad
  <2>1. PICK o \in ResponseObjects : r = Submission!ResponseFromObject(o) /\ r # Bad
    BY <1>2
  <2> DEFINE alg == IF o.transaction_data_hashes = Absent THEN Absent
                    ELSE o.transaction_data_hashes_alg
             f == [vp_token |-> o.vp_token, presentation_submission |-> o.presentation_submission,
                   id_token |-> o.id_token, state |-> o.state,
                   transaction_data_hashes |-> o.transaction_data_hashes,
                   transaction_data_hashes_alg |-> alg]
             form == Submission!IntoForm(r)
             read == Submission!FieldsFromForm(form)
  <2>2. r = [kind |-> "unencoded", fields |-> f]
    <3>1. r = [kind |-> "unencoded", fields |-> [o EXCEPT !.transaction_data_hashes_alg = alg]]
      BY <2>1 DEF Submission!ResponseFromObject, Submission!Unencoded
    <3> HIDE DEF alg
    <3>2. [o EXCEPT !.transaction_data_hashes_alg = alg] = f
      BY TextsAssumption
    <3> QED BY <3>1, <3>2
  <2>3. /\ form.response = Absent
        /\ form.vp_token = Submission!FormatToString(f.vp_token)
        /\ form.presentation_submission = Submission!JsonText(f.presentation_submission)
        /\ form.id_token = Submission!PlainText(f.id_token)
        /\ form.state = Submission!PlainText(f.state)
        /\ form.transaction_data_hashes = Submission!JsonText(f.transaction_data_hashes)
        /\ form.transaction_data_hashes_alg = Submission!JsonText(f.transaction_data_hashes_alg)
    <3> HIDE DEF f
    <3> QED BY <2>2, FormOfFields
  <2> DEFINE keys == {"vp_token", "presentation_submission", "id_token", "state",
                      "transaction_data_hashes", "transaction_data_hashes_alg"}
  <2>4. DOMAIN o = keys
    BY TextsAssumption
  <2>5. \A k \in keys :
          LET v == o[k] IN
          /\ Submission!FromJsonText(Submission!JsonText(v)) = v
          /\ Submission!FromPlainText(Submission!PlainText(v)) = v
          /\ Submission!FromJsonText(Submission!PlainText(v)) = (IF v = Absent THEN Absent ELSE Bad)
          /\ Submission!FromPlainText(Submission!JsonText(v)) = (IF v = Absent THEN Absent ELSE Bad)
          /\ (Submission!JsonText(v) = Absent) = (v = Absent)
          /\ (Submission!PlainText(v) = Absent) = (v = Absent)
          /\ v # Absent => Submission!PlainText(v).value = v
    BY <2>4, TextsAreRead
  <2>6. /\ read.presentation_submission = f.presentation_submission
        /\ read.id_token = f.id_token /\ read.state = f.state
        /\ read.transaction_data_hashes = f.transaction_data_hashes
    BY <2>3, <2>5 DEF Submission!FieldsFromForm
  <2>7. /\ \A k \in keys : o[k] # Bad
        /\ o.vp_token # Absent /\ (alg = Absent => Absent # Bad)
    BY <2>1 DEF Submission!ResponseFromObject, Submission!Readable, Submission!ResponseKeys
  <2>8. read.vp_token = IF SingleString(o.vp_token) THEN Bad ELSE o.vp_token
    <3>1. Submission!FormatToString(o.vp_token) =
            IF SingleString(o.vp_token) THEN Submission!PlainText(o.vp_token)
            ELSE Submission!JsonText(o.vp_token)
      BY DEF Submission!FormatToString, SingleString
    <3> QED BY <2>3, <2>5, <2>7, <3>1 DEF Submission!FieldsFromForm
  <2>9. read.transaction_data_hashes_alg = IF alg = Absent THEN Absent ELSE Bad
    <3>1. read.transaction_data_hashes_alg = Submission!AlgFromForm(form)
      BY DEF Submission!FieldsFromForm
    <3>2. CASE o.transaction_data_hashes = Absent
      <4>1. form.transaction_data_hashes = Absent
        BY <2>3, <2>5, <3>2
      <4> QED BY <3>1, <3>2, <4>1 DEF Submission!AlgFromForm
    <3>3. CASE o.transaction_data_hashes # Absent
      <4>1. form.transaction_data_hashes # Absent
            /\ form.transaction_data_hashes_alg = Submission!JsonText(o.transaction_data_hashes_alg)
        BY <2>3, <2>5, <3>3
      <4>2. Submission!FromPlainText(form.transaction_data_hashes_alg) =
              IF o.transaction_data_hashes_alg = Absent THEN Absent ELSE Bad
        BY <2>5, <4>1
      <4> QED BY <3>1, <3>3, <4>1, <4>2 DEF Submission!AlgFromForm
    <3> QED BY <3>2, <3>3
  <2>10. read = [vp_token |-> read.vp_token,
                 presentation_submission |-> read.presentation_submission,
                 id_token |-> read.id_token, state |-> read.state,
                 transaction_data_hashes |-> read.transaction_data_hashes,
                 transaction_data_hashes_alg |-> read.transaction_data_hashes_alg]
    BY DEF Submission!FieldsFromForm
  <2>11. /\ r.kind = "unencoded"
         /\ Encodable(r) <=> ~SingleString(o.vp_token) /\ alg = Absent
    <3> HIDE DEF alg
    <3> QED BY <2>2 DEF Encodable
  <2>12. form.vp_token # Absent
    BY <2>3, <2>5, <2>7 DEF Submission!FormatToString
  <2>13. CASE ~Encodable(r)
    <3>1. read.vp_token = Bad \/ read.transaction_data_hashes_alg = Bad
      BY <2>8, <2>9, <2>11, <2>13
    <3>2. \E k \in Submission!ResponseKeys : read[k] = Bad
      BY <3>1 DEF Submission!ResponseKeys
    <3>3. Submission!FromForm(form) = Bad
      BY <2>3, <3>2 DEF Submission!FromForm
    <3> QED BY <2>11, <2>13, <3>3
  <2>14. CASE Encodable(r)
    <3>1. read = f
      BY <2>6, <2>8, <2>9, <2>10, <2>11, <2>14
    <3>2. \A k \in Submission!ResponseKeys : f[k] # Bad
      <4>1. alg # Bad
        BY <2>7, <2>11, <2>14
      <4> HIDE DEF alg
      <4> QED BY <2>7, <4>1 DEF Submission!ResponseKeys
    <3>3. Submission!FromForm(form) = Submission!Unencoded(f)
      BY <2>3, <2>12, <3>1, <3>2 DEF Submission!FromForm
    <3> QED BY <2>2, <2>11, <2>14, <3>3 DEF Submission!Unencoded
  <2> QED BY <2>13, <2>14
<1> QED BY <1>1, <1>2 DEF Responses

----------------------------------------------------------------------------
(* The invariant *)

\* A submission, and what has arrived of it.
Posted(t, arrived) ==
  /\ t = [pc |-> t.pc, uri |-> t.uri, mode |-> t.mode, response |-> t.response,
          form |-> t.form, outcome |-> t.outcome]
  /\ t.pc \in {"idle", "posting", "returned"} /\ t.outcome \in Submission!Outcomes
  /\ (t.pc = "returned") <=> (t.outcome # "pending")
  /\ t.pc = "idle" => t.form = None
  /\ t.pc = "posting" \/ t.outcome \in {"sent", "redirected"} =>
       Submission!Takes(t.mode, t.response)
  /\ t.form # None =>
       /\ t.response \in Responses /\ Submission!Takes(t.mode, t.response)
       /\ t.form = Submission!IntoForm(t.response)
  /\ arrived # None =>
       t.form # None /\ arrived = [uri |-> t.uri, response |-> Submission!FromForm(t.form)]
  /\ t.mode \in Submission!DirectPostModes /\ t.outcome \in {"sent", "redirected"} =>
       arrived # None /\ arrived.response # Bad

SubmissionsHold ==
  /\ DOMAIN sub = Pairs /\ DOMAIN inbox = Pairs
  /\ \A s \in Pairs : Posted(sub[s], inbox[s])

\* Request objects there are: other verifiers' and, once it is built, the
\* verifier's, perhaps with a wallet nonce.
Known(j) ==
  \/ j \in OtherJwts
  \/ \E u \in OtherUrls : u.kind = "value" /\ j = u.jwt
  \/ /\ builder.phase = "built" /\ builder.type # "plain"
     /\ j = BuiltJwt \/ \E n \in issued : j = [BuiltJwt EXCEPT !.obj.wallet_nonce = n]

\* What a call has been handed, and what it has verified of it so far.
Handed(s) ==
  /\ s = [pc |-> s.pc, op |-> s.op, url |-> s.url, sent |-> s.sent, jwt |-> s.jwt,
          outcome |-> s.outcome]
  /\ s.op = "validate_request" /\ (s.pc # "done" => s.outcome = "pending")
  /\ s.url \in OtherUrls \/ s.url \in BuiltUrls \/ s.pc = "idle"
  /\ s.pc \in {"verifying"} \cup Resolution!NoncePoints \/ s.outcome = NoError =>
       s.url.kind = "plain" \/ Known(s.jwt)
  /\ s.pc \in Resolution!NoncePoints \/ s.outcome = NoError =>
       s.url.kind = "plain" \/ NoError \in Resolution!JwtVerdicts(wallet, s.jwt)
  /\ s.pc \in Resolution!NoncePoints => s.url.kind # "plain"
  /\ s.outcome = NoError =>
       s.url.kind = "plain"
       \/ s.url.client_id = Resolution!FullId(Resolution!ClientId(s.jwt.obj.client_id))

CallsHold == DOMAIN call = Calls /\ \A c \in Calls : Handed(call[c])

\* What the verifier has built sends answers to its endpoint, if anywhere, and
\* names its client.
Offered ==
  /\ \E p \in Prepared :
       verifier = p[1] /\ builder.params.transaction_data = p[2].params.transaction_data
  /\ builder = [phase |-> builder.phase, params |-> builder.params, dcql |-> builder.dcql,
                definition |-> builder.definition, metadata |-> builder.metadata,
                type |-> builder.type]
  /\ DOMAIN builder.params = Building!ObjectKeys
  /\ builder.phase \in {"signing", "built"} =>
       /\ ReturnUri(builder.params) \in {Absent, verifier.endpoint}
       /\ builder.params.client_id = verifier.client.id

\* The wallet's steps in their order.
Ordered ==
  /\ query \in [Calls -> QueryStates]
  /\ \A c \in Calls : query[c] # "unresolved" => call[c].outcome = NoError
  /\ \A c \in Calls, k \in Attempts : sub[<<c, k>>].pc # "idle" =>
       /\ query[c] = "resolved"
       /\ sub[<<c, k>>].uri = ReturnUri(Request(c)) /\ sub[<<c, k>>].uri # Absent

Inv == SubmissionsHold /\ CallsHold /\ Offered /\ Ordered

----------------------------------------------------------------------------
(* Submissions *)

\* A step of one submission concerns no other.
LEMMA OneSubmission ==
  ASSUME SubmissionsHold, NEW s \in Pairs,
         DOMAIN sub' = Pairs, DOMAIN inbox' = Pairs,
         \A x \in Pairs \ {s} : sub'[x] = sub[x] /\ inbox'[x] = inbox[x],
         Posted(sub'[s], inbox'[s])
  PROVE  SubmissionsHold'
<1>1. \A x \in Pairs : Posted(sub'[x], inbox'[x])
  <2> TAKE x \in Pairs
  <2>1. CASE x = s
    BY <2>1
  <2>2. CASE x # s
    BY <2>2 DEF SubmissionsHold
  <2> QED BY <2>1, <2>2
<1> QED BY <1>1 DEF SubmissionsHold

\* submit_response up to its await.
LEMMA CalledIsPosted ==
  ASSUME NEW uri, NEW mode, NEW r \in Responses, NEW t, t = Submission!Called(uri, mode, r)
  PROVE  Posted(t, None) /\ t.uri = uri /\ t.pc # "idle"
<1> DEFINE form == Submission!IntoForm(r)
<1>1. CASE ~Submission!Takes(mode, r)
  <2>1. t = [pc |-> "returned", uri |-> uri, mode |-> mode, response |-> r, form |-> None,
             outcome |-> "failed"]
    BY <1>1 DEF Submission!Called, Submission!Unsent, Submission!Returned
  <2> QED BY <2>1 DEF Posted, Submission!Outcomes
<1>2. CASE Submission!Takes(mode, r) /\ mode \in Submission!DirectPostModes
  <2>1. t = [pc |-> "posting", uri |-> uri, mode |-> mode, response |-> r, form |-> form,
             outcome |-> "pending"]
    BY <1>2 DEF Submission!Called, Submission!Unsent
  <2> QED BY <1>2, <2>1 DEF Posted, Submission!Outcomes
<1>3. CASE Submission!Takes(mode, r) /\ mode \notin Submission!DirectPostModes
  <2>1. t = [pc |-> "returned", uri |-> uri, mode |-> mode, response |-> r, form |-> form,
             outcome |-> "redirected"]
    BY <1>3 DEF Submission!Called, Submission!Unsent, Submission!Returned
  <2> QED BY <1>3, <2>1 DEF Posted, Submission!Outcomes
<1> QED BY <1>1, <1>2, <1>3

\* How a submission that was made goes on.
LEMMA ReturnedIsPosted ==
  ASSUME NEW t, NEW arrived, Posted(t, arrived), t.pc = "posting",
         NEW outcome \in {"sent", "redirected", "failed", "dropped"},
         outcome \in {"sent", "redirected"} => arrived # None /\ arrived.response # Bad
  PROVE  Posted(Submission!Returned(t, outcome), arrived)
<1> DEFINE n == Submission!Returned(t, outcome)
<1>1. n = [pc |-> "returned", uri |-> t.uri, mode |-> t.mode, response |-> t.response,
           form |-> t.form, outcome |-> outcome]
  <2> DEFINE uri == t.uri
             mode == t.mode
             response == t.response
             form == t.form
             before == t.outcome
  <2>0. n = [t EXCEPT !.pc = "returned", !.outcome = outcome]
    BY DEF Submission!Returned
  <2>1. t = [pc |-> "posting", uri |-> uri, mode |-> mode, response |-> response, form |-> form,
             outcome |-> before]
    BY DEF Posted
  <2> HIDE DEF uri, mode, response, form, before, n
  <2>2. n = [pc |-> "returned", uri |-> uri, mode |-> mode, response |-> response, form |-> form,
             outcome |-> outcome]
    BY <2>0, <2>1
  <2> QED BY <2>2 DEF uri, mode, response, form
<1> HIDE DEF n
<1>2. /\ n.pc = "returned" /\ n.outcome = outcome /\ n.uri = t.uri /\ n.mode = t.mode
      /\ n.response = t.response /\ n.form = t.form
  BY <1>1
<1>3. Posted(n, arrived)
  BY <1>1, <1>2 DEF Posted, Submission!Outcomes
<1> QED BY <1>3 DEF n

\* The steps of a submission after the call: where it goes to stays as it is,
\* and it has been called.
LEMMA SubmissionSteps ==
  ASSUME SubmissionsHold, NEW s \in Pairs,
         Submission!Progress(s) \/ Submission!Arrive(s) \/ Submission!Drop(s)
  PROVE  /\ SubmissionsHold'
         /\ \A x \in Pairs : /\ sub'[x].uri = sub[x].uri
                             /\ sub'[x].pc # "idle" => sub[x].pc # "idle"
         /\ \A x \in Pairs \ {s} : sub'[x] = sub[x] /\ inbox'[x] = inbox[x]
         /\ \/ sub' = sub /\ inbox[s] = None
            \/ inbox' = inbox /\ sub[s].pc = "posting"
<1>1. Posted(sub[s], inbox[s]) /\ DOMAIN sub = Pairs /\ DOMAIN inbox = Pairs
  BY DEF SubmissionsHold
<1>2. CASE Submission!Arrive(s)
  <2> DEFINE arrived == [uri |-> sub[s].uri, response |-> Submission!FromForm(sub[s].form)]
  <2>1. /\ sub[s].form # None /\ sub' = sub /\ inbox' = [inbox EXCEPT ![s] = arrived]
        /\ inbox[s] = None
    BY <1>2 DEF Submission!Arrive
  <2>2. Posted(sub[s], arrived)
    BY <1>1, <2>1 DEF Posted
  <2> HIDE DEF arrived
  <2>3. DOMAIN inbox' = Pairs /\ inbox'[s] = arrived /\ \A x \in Pairs \ {s} : inbox'[x] = inbox[x]
    BY <1>1, <2>1
  <2> QED BY <1>1, <2>1, <2>2, <2>3, OneSubmission
<1>3. CASE Submission!Progress(s) \/ Submission!Drop(s)
  <2>1. PICK outcome \in {"sent", "redirected", "failed", "dropped"} :
          /\ sub[s].pc = "posting" /\ inbox' = inbox
          /\ sub' = [sub EXCEPT ![s] = Submission!Returned(sub[s], outcome)]
          /\ outcome \in {"sent", "redirected"} => inbox[s] # None /\ inbox[s].response # Bad
    <3>1. CASE \E success, redirect \in BOOLEAN : Submission!Reply(s, success, redirect)
      <4>1. PICK success \in BOOLEAN, redirect \in BOOLEAN : Submission!Reply(s, success, redirect)
        BY <3>1
      <4> DEFINE outcome == IF ~success THEN "failed" ELSE IF redirect THEN "redirected" ELSE "sent"
      <4>2. outcome \in {"sent", "redirected", "failed", "dropped"}
            /\ (outcome \in {"sent", "redirected"} => success)
        OBVIOUS
      <4>3. /\ sub[s].pc = "posting" /\ inbox' = inbox /\ inbox[s] # None
            /\ sub' = [sub EXCEPT ![s] = Submission!Returned(sub[s], outcome)]
            /\ success => inbox[s].response # Bad
        BY <4>1 DEF Submission!Reply
      <4> HIDE DEF outcome
      <4> QED BY <4>2, <4>3
    <3>2. CASE Submission!Fail(s)
      BY <3>2 DEF Submission!Fail
    <3>3. CASE Submission!Drop(s)
      BY <3>3 DEF Submission!Drop
    <3> QED BY <1>3, <3>1, <3>2, <3>3 DEF Submission!Progress
  <2> DEFINE t == Submission!Returned(sub[s], outcome)
  <2>2. Posted(t, inbox[s]) /\ t.uri = sub[s].uri
    <3>1. Posted(t, inbox[s])
      BY <1>1, <2>1, ReturnedIsPosted
    <3>2. t = [sub[s] EXCEPT !.pc = "returned", !.outcome = outcome]
      BY DEF Submission!Returned
    <3> HIDE DEF t
    <3> QED BY <1>1, <3>1, <3>2 DEF Posted
  <2> HIDE DEF t
  <2>3. DOMAIN sub' = Pairs /\ sub'[s] = t /\ \A x \in Pairs \ {s} : sub'[x] = sub[x]
    BY <1>1, <2>1 DEF t
  <2> QED BY <1>1, <2>1, <2>2, <2>3, OneSubmission
<1> QED BY <1>2, <1>3

----------------------------------------------------------------------------
(* Calls *)

\* The members of a call that runs, and the request it was handed.
Runs(s) ==
  /\ s = [pc |-> s.pc, op |-> s.op, url |-> s.url, sent |-> s.sent, jwt |-> s.jwt,
          outcome |-> s.outcome]
  /\ s.op = "validate_request" /\ s.outcome = "pending"
  /\ s.url \in OtherUrls \/ s.url \in BuiltUrls

\* A call is a record with six members.
LEMMA RecordEnds ==
  ASSUME NEW s, NEW point, NEW op, NEW url, NEW nonce, NEW token, NEW end, NEW t, NEW outcome,
         s = [pc |-> point, op |-> op, url |-> url, sent |-> nonce, jwt |-> token, outcome |-> end],
         t = [s EXCEPT !.pc = "done", !.outcome = outcome]
  PROVE  t = [pc |-> "done", op |-> op, url |-> url, sent |-> nonce, jwt |-> token,
              outcome |-> outcome]
OBVIOUS

LEMMA CallChanges ==
  ASSUME NEW s,
         s = [pc |-> s.pc, op |-> s.op, url |-> s.url, sent |-> s.sent, jwt |-> s.jwt,
              outcome |-> s.outcome],
         NEW pc, NEW sent, NEW jwt, NEW outcome
  PROVE  /\ [s EXCEPT !.pc = "done", !.outcome = outcome] =
              [pc |-> "done", op |-> s.op, url |-> s.url, sent |-> s.sent, jwt |-> s.jwt,
               outcome |-> outcome]
         /\ [s EXCEPT !.pc = pc] =
              [pc |-> pc, op |-> s.op, url |-> s.url, sent |-> s.sent, jwt |-> s.jwt,
               outcome |-> s.outcome]
         /\ [s EXCEPT !.sent = sent] =
              [pc |-> s.pc, op |-> s.op, url |-> s.url, sent |-> sent, jwt |-> s.jwt,
               outcome |-> s.outcome]
         /\ [s EXCEPT !.jwt = jwt] =
              [pc |-> s.pc, op |-> s.op, url |-> s.url, sent |-> s.sent, jwt |-> jwt,
               outcome |-> s.outcome]
<1> DEFINE point == s.pc
           op == s.op
           url == s.url
           nonce == s.sent
           token == s.jwt
           end == s.outcome
<1>1. s = [pc |-> point, op |-> op, url |-> url, sent |-> nonce, jwt |-> token, outcome |-> end]
  OBVIOUS
<1> HIDE DEF point, op, url, nonce, token, end
<1>2. [s EXCEPT !.pc = "done", !.outcome = outcome] =
        [pc |-> "done", op |-> op, url |-> url, sent |-> nonce, jwt |-> token, outcome |-> outcome]
  <2>1. ASSUME NEW t, t = [s EXCEPT !.pc = "done", !.outcome = outcome]
        PROVE  t = [pc |-> "done", op |-> op, url |-> url, sent |-> nonce, jwt |-> token,
                    outcome |-> outcome]
    BY <1>1, <2>1, RecordEnds
  <2> QED BY <2>1
<1>3. [s EXCEPT !.pc = pc] =
        [pc |-> pc, op |-> op, url |-> url, sent |-> nonce, jwt |-> token, outcome |-> end]
  BY <1>1
<1>4. [s EXCEPT !.sent = sent] =
        [pc |-> point, op |-> op, url |-> url, sent |-> sent, jwt |-> token, outcome |-> end]
  BY <1>1
<1>5. [s EXCEPT !.jwt = jwt] =
        [pc |-> point, op |-> op, url |-> url, sent |-> nonce, jwt |-> jwt, outcome |-> end]
  BY <1>1
<1> QED BY <1>2, <1>3, <1>4, <1>5 DEF point, op, url, nonce, token, end

\* The kinds of error are none of NoError.
LEMMA ErrorsAreNot ==
  /\ Resolution!Internal # Resolution!NoError /\ "invalid_request" # Resolution!NoError
  /\ "cancelled" # Resolution!NoError /\ "pending" # Resolution!NoError
  /\ Resolution!NoError = NoError /\ Internal # NoError
BY DEF Resolution!Internal, Resolution!NoError, NoError, Internal

\* A call that ends with an error claims nothing.
LEMMA EndedIsHanded ==
  ASSUME NEW s, Runs(s), NEW e, e # NoError
  PROVE  Handed(Resolution!Ended(s, e))
<1> DEFINE t == Resolution!Ended(s, e)
<1>1. t = [pc |-> "done", op |-> s.op, url |-> s.url, sent |-> s.sent, jwt |-> s.jwt, outcome |-> e]
  BY CallChanges DEF Resolution!Ended, Runs
<1> HIDE DEF t
<1>2. Handed(t)
  BY <1>1 DEF Handed, Runs, Resolution!NoncePoints
<1> QED BY <1>2 DEF t

\* A call that goes on to an await point claims what it has verified.
LEMMA AwaitingIsHanded ==
  ASSUME NEW s, Runs(s),
         NEW point \in {"generating", "fetching", "verifying"} \cup Resolution!NoncePoints,
         point \notin {"generating", "fetching"} => s.url.kind = "plain" \/ Known(s.jwt),
         point \in Resolution!NoncePoints =>
           s.url.kind # "plain" /\ NoError \in Resolution!JwtVerdicts(wallet, s.jwt)
  PROVE  Handed(Resolution!At(s, point))
<1> DEFINE t == Resolution!At(s, point)
<1>1. t = [pc |-> point, op |-> s.op, url |-> s.url, sent |-> s.sent, jwt |-> s.jwt,
           outcome |-> s.outcome]
  BY CallChanges DEF Resolution!At, Runs
<1> HIDE DEF t
<1>2. t.outcome # NoError
  BY <1>1, ErrorsAreNot DEF Runs
<1>3. Handed(t)
  BY <1>1, <1>2 DEF Handed, Runs, Resolution!NoncePoints
<1> QED BY <1>3 DEF t

\* What resolve_auth_request returns was verified, and its client id compared.
LEMMA AfterNonceIsHanded ==
  ASSUME NEW s, Runs(s), s.url.kind # "plain", Known(s.jwt),
         NoError \in Resolution!JwtVerdicts(wallet, s.jwt)
  PROVE  Handed(Resolution!AfterNonce(s))
<1>1. CASE s.url.client_id # Resolution!FullId(Resolution!ClientId(s.jwt.obj.client_id))
  <2>1. Resolution!AfterNonce(s) = Resolution!Ended(s, "invalid_request")
    BY <1>1 DEF Resolution!AfterNonce, Runs
  <2> QED BY <2>1, EndedIsHanded, ErrorsAreNot
<1>2. CASE s.url.client_id = Resolution!FullId(Resolution!ClientId(s.jwt.obj.client_id))
  <2> DEFINE t == Resolution!Ended(s, NoError)
  <2>1. Resolution!AfterNonce(s) = t
    BY <1>2, ErrorsAreNot DEF Resolution!AfterNonce
  <2>2. t = [pc |-> "done", op |-> s.op, url |-> s.url, sent |-> s.sent, jwt |-> s.jwt,
             outcome |-> NoError]
    BY CallChanges DEF Resolution!Ended, Runs
  <2> HIDE DEF t
  <2>3. Handed(t)
    BY <1>2, <2>2 DEF Handed, Runs
  <2> QED BY <2>1, <2>3
<1> QED BY <1>1, <1>2

\* The object is verified, its nonce comes next.
LEMMA ToNonceCheckIsHanded ==
  ASSUME NEW s, Runs(s), s.url.kind # "plain", Known(s.jwt),
         NoError \in Resolution!JwtVerdicts(wallet, s.jwt)
  PROVE  Handed(Resolution!ToNonceCheck(s))
<1>1. CASE s.jwt.obj.wallet_nonce = Absent
  BY <1>1, AfterNonceIsHanded DEF Resolution!ToNonceCheck
<1>2. CASE s.jwt.obj.wallet_nonce # Absent /\ s.jwt.obj.wallet_nonce = Bad
  BY <1>2, EndedIsHanded, ErrorsAreNot DEF Resolution!ToNonceCheck
<1>3. CASE s.jwt.obj.wallet_nonce # Absent /\ s.jwt.obj.wallet_nonce # Bad
  BY <1>3, AwaitingIsHanded DEF Resolution!ToNonceCheck, Resolution!NoncePoints
<1> QED BY <1>1, <1>2, <1>3

\* A callback has answered, or none was asked of a plain request.
LEMMA AfterVerdictIsHanded ==
  ASSUME NEW s, Runs(s), s.url.kind = "plain" \/ Known(s.jwt), NEW e,
         e = NoError => s.url.kind = "plain" \/ NoError \in Resolution!JwtVerdicts(wallet, s.jwt)
  PROVE  Handed(Resolution!AfterVerdict(wallet, s, e))
<1> DEFINE error == Resolution!MetadataError(wallet.metadata, Resolution!RequestOf(s))
<1>1. CASE e # NoError
  BY <1>1, EndedIsHanded, ErrorsAreNot DEF Resolution!AfterVerdict
<1>2. CASE e = NoError /\ error # NoError
  BY <1>2, EndedIsHanded, ErrorsAreNot DEF Resolution!AfterVerdict
<1>3. CASE e = NoError /\ error = NoError /\ s.url.kind = "plain"
  <2> DEFINE t == Resolution!Ended(s, NoError)
  <2>1. Resolution!AfterVerdict(wallet, s, e) = t
    BY <1>3, ErrorsAreNot DEF Resolution!AfterVerdict
  <2>2. t = [pc |-> "done", op |-> s.op, url |-> s.url, sent |-> s.sent, jwt |-> s.jwt,
             outcome |-> NoError]
    BY CallChanges DEF Resolution!Ended, Runs
  <2> HIDE DEF t
  <2>3. Handed(t)
    BY <1>3, <2>2 DEF Handed, Runs, Resolution!NoncePoints
  <2> QED BY <2>1, <2>3
<1>4. CASE e = NoError /\ error = NoError /\ s.url.kind # "plain"
  BY <1>4, ToNonceCheckIsHanded, ErrorsAreNot DEF Resolution!AfterVerdict
<1> QED BY <1>1, <1>2, <1>3, <1>4

\* A request object has been retrieved.
LEMMA AfterFetchIsHanded ==
  ASSUME NEW s, Runs(s), NEW j, Known(j)
  PROVE  Handed(Resolution!AfterFetch(s, j))
<1> DEFINE t == [s EXCEPT !.jwt = j]
           error == Resolution!ParseError(j.obj)
<1>1. t = [pc |-> s.pc, op |-> s.op, url |-> s.url, sent |-> s.sent, jwt |-> j,
           outcome |-> s.outcome]
  BY CallChanges DEF Runs
<1>2. Resolution!AfterFetch(s, j) =
        IF ~j.decodable THEN Resolution!Ended(t, "invalid_request")
        ELSE IF error # NoError THEN Resolution!Ended(t, error)
        ELSE Resolution!At(t, "verifying")
  BY ErrorsAreNot DEF Resolution!AfterFetch, Runs
<1> HIDE DEF t, error
<1>3. Runs(t) /\ t.jwt = j
  BY <1>1 DEF Runs
<1>4. Handed(Resolution!Ended(t, "invalid_request"))
  BY <1>3, EndedIsHanded, ErrorsAreNot
<1>5. error # NoError => Handed(Resolution!Ended(t, error))
  BY <1>3, EndedIsHanded
<1>6. Handed(Resolution!At(t, "verifying"))
  BY <1>3, AwaitingIsHanded DEF Resolution!NoncePoints
<1> QED BY <1>2, <1>4, <1>5, <1>6

\* A call starts with a URL; one with a request object holds a known one.
LEMMA StartedIsHanded ==
  ASSUME NEW s, Runs(s)
  PROVE  Handed(Resolution!Started(wallet, s))
<1> DEFINE o == s.url.obj
           error == Resolution!ParseError(o)
<1>1. CASE s.url.kind = "malformed"
  BY <1>1, EndedIsHanded, ErrorsAreNot DEF Resolution!Started
<1>2. CASE s.url.kind = "plain"
  <2>1. Resolution!Started(wallet, s) =
          IF error # NoError THEN Resolution!Ended(s, error)
          ELSE IF Resolution!ReturnUri(o) = Absent THEN Resolution!AfterVerdict(wallet, s, NoError)
          ELSE Resolution!At(s, "verifying")
    BY <1>2, ErrorsAreNot DEF Resolution!Started, Resolution!PlainRequest
  <2> HIDE DEF error, o
  <2>2. error # NoError => Handed(Resolution!Ended(s, error))
    BY EndedIsHanded
  <2>3. Handed(Resolution!AfterVerdict(wallet, s, NoError))
    BY <1>2, AfterVerdictIsHanded
  <2>4. Handed(Resolution!At(s, "verifying"))
    BY <1>2, AwaitingIsHanded DEF Resolution!NoncePoints
  <2> QED BY <2>1, <2>2, <2>3, <2>4
<1>3. CASE s.url.kind = "value"
  <2>1. Known(s.url.jwt)
    BY <1>3 DEF Runs, Known, BuiltUrls
  <2>2. Resolution!Started(wallet, s) = Resolution!AfterFetch(s, s.url.jwt)
    BY <1>3 DEF Resolution!Started
  <2> QED BY <2>1, <2>2, AfterFetchIsHanded
<1>4. CASE s.url.kind \notin {"malformed", "plain", "value"}
  <2>1. PICK point \in {"generating", "fetching"} :
          Resolution!Started(wallet, s) = Resolution!At(s, point)
    BY <1>4 DEF Resolution!Started
  <2> QED BY <2>1, AwaitingIsHanded DEF Resolution!NoncePoints
<1> QED BY <1>1, <1>2, <1>3, <1>4

\* What was handed out stays known: a request that was built does not change.
LEMMA HandedStays ==
  ASSUME NEW s, Handed(s), wallet' = wallet, issued \subseteq issued',
         builder.phase = "built" => builder' = builder /\ verifier' = verifier
  PROVE  Handed(s)'
<1>1. BuiltUrls \subseteq BuiltUrls'
  <2>1. CASE builder.phase = "built"
    BY <2>1 DEF BuiltUrls, BuiltJwt, Building!Received, Building!UrlClientId
  <2>2. CASE builder.phase # "built"
    BY <2>2 DEF BuiltUrls
  <2> QED BY <2>1, <2>2
<1>2. \A j : Known(j) => Known(j)'
  <2> TAKE j
  <2>1. CASE builder.phase = "built"
    BY <2>1 DEF Known, BuiltJwt
  <2>2. CASE builder.phase # "built"
    BY <2>2 DEF Known
  <2> QED BY <2>1, <2>2
<1>3. Known(s.jwt) => Known(s.jwt)'
  BY <1>2
<1>4. Resolution!JwtVerdicts(wallet', s.jwt) = Resolution!JwtVerdicts(wallet, s.jwt)
  OBVIOUS
<1> QED BY <1>1, <1>3, <1>4 DEF Handed

LEMMA CallsStay ==
  ASSUME CallsHold, call' = call, wallet' = wallet, issued' = issued,
         builder.phase = "built" => builder' = builder /\ verifier' = verifier
  PROVE  CallsHold'
<1>1. \A c \in Calls : Handed(call[c])'
  <2> TAKE c \in Calls
  <2> PICK v : v = call[c]
    OBVIOUS
  <2>1. Handed(v)
    BY DEF CallsHold
  <2>2. Handed(v)'
    BY <2>1, HandedStays
  <2>3. v = call'[c]
    OBVIOUS
  <2> QED BY <2>2, <2>3 DEF Handed, Known
<1> QED BY <1>1 DEF CallsHold

\* A step of one call: the others keep what they have verified.
LEMMA OneCall ==
  ASSUME CallsHold, NEW c \in Calls, NEW t, call' = [call EXCEPT ![c] = t], Handed(t),
         call[c].pc # "done",
         wallet' = wallet, issued \subseteq issued', UNCHANGED verifierSide
  PROVE  /\ CallsHold' /\ wallet' = wallet /\ issued \subseteq issued'
         /\ \A x \in Calls : call[x].outcome = NoError => call'[x] = call[x]
<1>0. builder' = builder /\ verifier' = verifier
  BY DEF verifierSide
<1>1. DOMAIN call' = Calls /\ call'[c] = t /\ \A x \in Calls \ {c} : call'[x] = call[x]
  BY DEF CallsHold
<1>2. Handed(t)'
  BY <1>0, HandedStays
<1>3. \A x \in Calls : Handed(call[x])'
  <2> TAKE x \in Calls
  <2> PICK v : v = call'[x]
    OBVIOUS
  <2>1. CASE x = c
    <3>1. v = t
      BY <1>1, <2>1
    <3>2. Handed(v)'
      BY <1>2, <3>1
    <3> QED BY <3>2 DEF Handed, Known
  <2>2. CASE x # c
    <3>1. Handed(v)
      BY <1>1, <2>2 DEF CallsHold
    <3>2. Handed(v)'
      BY <1>0, <3>1, HandedStays
    <3> QED BY <3>2 DEF Handed, Known
  <2> QED BY <2>1, <2>2
<1>4. call[c].outcome # NoError
  BY ErrorsAreNot DEF CallsHold, Handed
<1> QED BY <1>1, <1>3, <1>4 DEF CallsHold

\* The wallet is handed a URL, or a call of its goes on or is dropped.
LEMMA CallSteps ==
  ASSUME CallsHold, NEW c \in Calls, Validate(c) \/ CallProgress(c) \/ Cancel(c)
  PROVE  /\ CallsHold' /\ wallet' = wallet /\ issued \subseteq issued'
         /\ \A x \in Calls : call[x].outcome = NoError => call'[x] = call[x]
<1> DEFINE s == call[c]
<1>1. Handed(s) /\ UNCHANGED verifierSide
  BY DEF CallsHold, Validate, CallProgress, Cancel
<1>2. s.pc \notin {"idle", "done"} => Runs(s)
  BY <1>1 DEF Handed, Runs
<1>3. SUFFICES \E t : /\ call' = [call EXCEPT ![c] = t] /\ Handed(t) /\ s.pc # "done"
                      /\ wallet' = wallet /\ issued \subseteq issued'
  BY <1>1, OneCall
<1>4. CASE Validate(c)
  <2>1. PICK u \in BuiltUrls \cup OtherUrls : Resolution!Start(c, "validate_request", u)
    BY <1>4 DEF Validate
  <2> DEFINE from == [Resolution!Idle EXCEPT !.op = "validate_request", !.url = u]
  <2>2. /\ call' = [call EXCEPT ![c] = Resolution!Started(wallet, from)] /\ s.pc = "idle"
        /\ wallet' = wallet /\ issued' = issued
    BY <2>1 DEF Resolution!Start
  <2>3. from = [pc |-> "idle", op |-> "validate_request", url |-> u, sent |-> None, jwt |-> None,
                outcome |-> "pending"]
    <3> DEFINE idle == Resolution!Idle
    <3>1. from = [idle EXCEPT !.op = "validate_request", !.url = u]
      OBVIOUS
    <3>2. idle = [pc |-> "idle", op |-> "validate_request", url |-> None, sent |-> None,
                  jwt |-> None, outcome |-> "pending"]
      BY DEF Resolution!Idle
    <3> HIDE DEF idle, from
    <3> QED BY <3>1, <3>2
  <2> HIDE DEF from
  <2>4. Runs(from)
    BY <2>3 DEF Runs
  <2> QED BY <2>2, <2>4, StartedIsHanded
<1>5. CASE Resolution!GenerateNonce(c)
  <2>1. s.pc = "generating" /\ wallet' = wallet /\ issued \subseteq issued' /\ Runs(s)
    BY <1>2, <1>5 DEF Resolution!GenerateNonce
  <2> DEFINE t == Resolution!At(s, "fetching")
  <2>2. Handed(t)
    BY <2>1, AwaitingIsHanded DEF Resolution!NoncePoints
  <2>3. CASE call' = [call EXCEPT ![c] = t]
    BY <2>1, <2>2, <2>3
  <2>4. CASE \E n \in Nonces : call' = [call EXCEPT ![c] = [t EXCEPT !.sent = n]]
    <3>1. PICK n \in Nonces : call' = [call EXCEPT ![c] = [t EXCEPT !.sent = n]]
      BY <2>4
    <3> DEFINE m == [t EXCEPT !.sent = n]
    <3>2. /\ t = [pc |-> "fetching", op |-> s.op, url |-> s.url, sent |-> s.sent, jwt |-> s.jwt,
                  outcome |-> s.outcome]
      BY <2>1, CallChanges DEF Resolution!At, Runs
    <3> HIDE DEF t
    <3>3. m = [pc |-> t.pc, op |-> t.op, url |-> t.url, sent |-> n, jwt |-> t.jwt,
               outcome |-> t.outcome]
      BY <2>2, CallChanges DEF Handed
    <3>4. t.pc = "fetching"
      BY <3>2
    <3> HIDE DEF m
    <3>5. Handed(m)
      BY <2>2, <3>3, <3>4 DEF Handed
    <3> QED BY <2>1, <3>1, <3>5 DEF m
  <2> QED BY <1>5, <2>3, <2>4 DEF Resolution!GenerateNonce
<1>6. CASE \E j \in Replies(c) : Resolution!FetchReply(c, j)
  <2>1. PICK j \in Replies(c) : Resolution!FetchReply(c, j)
    BY <1>6
  <2>2. s.pc = "fetching" /\ wallet' = wallet /\ issued' = issued /\ Runs(s)
        /\ call' = [call EXCEPT ![c] = Resolution!AfterFetch(s, j)]
    BY <1>2, <2>1 DEF Resolution!FetchReply
  <2>3. Known(j)
    BY DEF Replies, Known
  <2> QED BY <2>2, <2>3, AfterFetchIsHanded
<1>7. CASE Resolution!FetchFails(c)
  <2>1. s.pc = "fetching" /\ wallet' = wallet /\ issued' = issued /\ Runs(s)
        /\ call' = [call EXCEPT ![c] = Resolution!Ended(s, Resolution!Internal)]
    BY <1>2, <1>7 DEF Resolution!FetchFails
  <2> QED BY <2>1, EndedIsHanded, ErrorsAreNot
<1>8. CASE Resolution!Verdict(c)
  <2>1. PICK e \in IF s.url.kind = "plain" THEN Resolution!RedirectUriVerdicts(wallet, s.url.obj)
                   ELSE Resolution!JwtVerdicts(wallet, s.jwt) :
          call' = [call EXCEPT ![c] = Resolution!AfterVerdict(wallet, s, e)]
    BY <1>8 DEF Resolution!Verdict
  <2>2. s.pc = "verifying" /\ wallet' = wallet /\ issued' = issued /\ Runs(s)
    BY <1>2, <1>8 DEF Resolution!Verdict
  <2>3. s.url.kind = "plain" \/ Known(s.jwt)
    BY <1>1, <2>2 DEF Handed
  <2>4. e = NoError => s.url.kind = "plain" \/ NoError \in Resolution!JwtVerdicts(wallet, s.jwt)
    OBVIOUS
  <2> HIDE DEF s
  <2>5. Handed(Resolution!AfterVerdict(wallet, s, e))
    BY <2>2, <2>3, <2>4, AfterVerdictIsHanded
  <2> QED BY <2>1, <2>2, <2>5 DEF s
<1>9. CASE Resolution!NonceAccepted(c)
  <2>1. s.pc = "nonce_valid" /\ wallet' = wallet /\ issued' = issued /\ Runs(s)
        /\ call' = [call EXCEPT ![c] = Resolution!AfterNonce(s)]
    BY <1>2, <1>9 DEF Resolution!NonceAccepted
  <2>2. s.url.kind # "plain" /\ Known(s.jwt) /\ NoError \in Resolution!JwtVerdicts(wallet, s.jwt)
    BY <1>1, <2>1 DEF Handed, Resolution!NoncePoints
  <2> QED BY <2>1, <2>2, AfterNonceIsHanded
<1>10. CASE Resolution!NonceRefused(c) \/ Resolution!NonceCheckFails(c) \/ Cancel(c)
  <2>1. PICK e \in {"invalid_request", Resolution!Internal, "cancelled"} :
          /\ s.pc \notin {"idle", "done"} /\ wallet' = wallet /\ issued' = issued
          /\ call' = [call EXCEPT ![c] = Resolution!Ended(s, e)]
    BY <1>10 DEF Resolution!NonceRefused, Resolution!NonceCheckFails, Resolution!NoncePoints,
                 Cancel, Resolution!Cancel
  <2> QED BY <1>2, <2>1, EndedIsHanded, ErrorsAreNot
<1>11. CASE Resolution!ValidateNonce(c)
  <2>1. PICK point \in {"nonce_valid", "nonce_invalid"} :
          /\ s.pc = "checking" /\ wallet' = wallet /\ issued' = issued /\ Runs(s)
          /\ call' = [call EXCEPT ![c] = Resolution!At(s, point)]
    BY <1>2, <1>11 DEF Resolution!ValidateNonce
  <2>2. s.url.kind # "plain" /\ Known(s.jwt) /\ NoError \in Resolution!JwtVerdicts(wallet, s.jwt)
    BY <1>1, <2>1 DEF Handed, Resolution!NoncePoints
  <2>3. Handed(Resolution!At(s, point))
    BY <2>1, <2>2, AwaitingIsHanded DEF Resolution!NoncePoints
  <2> QED BY <2>1, <2>3
<1> QED BY <1>4, <1>5, <1>6, <1>7, <1>8, <1>9, <1>10, <1>11 DEF CallProgress

----------------------------------------------------------------------------
(* The verifier *)

\* build_helper overrides the return address of the parameters.
LEMMA ReturnUriIsTheEndpoint ==
  ASSUME NEW o, DOMAIN o = Building!ObjectKeys, NEW endpoint, NEW type,
         NEW done, done = Building!WithReturnUri(o, endpoint, type),
         Building!ParseError(done) = Building!NoError
  PROVE  /\ DOMAIN done = Building!ObjectKeys /\ ReturnUri(done) \in {Absent, endpoint}
         /\ done.transaction_data = o.transaction_data /\ done.client_id = o.client_id
<1> USE DEF Building!DirectPostModes, Building!FragmentModes, Building!DcApiModes
<1>1. Building!UrisFitMode(done) /\ done.client_id # Absent
  BY DEF Building!ParseError, Building!NoError, Building!Internal, Building!Readable
<1>2. CASE Building!Mode(o) \in Building!DirectPostModes
  <2>1. done = [o EXCEPT !.response_uri = endpoint]
    BY <1>2 DEF Building!WithReturnUri
  <2>2. /\ DOMAIN done = Building!ObjectKeys /\ done.response_uri = endpoint
        /\ done.transaction_data = o.transaction_data /\ done.client_id = o.client_id
        /\ done.response_mode = o.response_mode
    BY <2>1 DEF Building!ObjectKeys
  <2> QED BY <1>2, <2>2 DEF ReturnUri, Mode, Building!Mode, FragmentModes
<1>3. CASE Building!Mode(o) \in Building!FragmentModes
  <2>1. done = [o EXCEPT !.redirect_uri = endpoint]
    BY <1>3 DEF Building!WithReturnUri
  <2>2. /\ DOMAIN done = Building!ObjectKeys /\ done.redirect_uri = endpoint
        /\ done.transaction_data = o.transaction_data /\ done.client_id = o.client_id
        /\ done.response_mode = o.response_mode
    BY <2>1 DEF Building!ObjectKeys
  <2> QED BY <1>3, <2>2 DEF ReturnUri, Mode, Building!Mode, FragmentModes
<1>4. CASE Building!Mode(o) \notin Building!DirectPostModes \cup Building!FragmentModes
  <2>1. PICK id \in {Absent, o.client_id} :
          done = [o EXCEPT !.client_id = id, !.response_uri = Absent, !.redirect_uri = Absent]
    BY <1>4 DEF Building!WithReturnUri
  <2>2. /\ DOMAIN done = Building!ObjectKeys /\ done.redirect_uri = Absent /\ done.client_id = id
        /\ done.response_uri = Absent /\ done.transaction_data = o.transaction_data
    BY <2>1 DEF Building!ObjectKeys
  <2> QED BY <1>1, <2>2 DEF ReturnUri
<1> QED BY <1>2, <1>3, <1>4

\* build, and the signature; what was built stays.
LEMMA VerifierSteps ==
  ASSUME Offered, Sign \/ \E type \in Building!RequestTypes : Build(type)
  PROVE  /\ Offered' /\ UNCHANGED <<callSide, query, answerSide>>
         /\ builder.phase # "built" /\ verifier' = verifier
<1>1. CASE Sign
  <2>1. /\ builder.phase = "signing" /\ verifier' = verifier
        /\ UNCHANGED <<callSide, query, answerSide>>
    BY <1>1 DEF Sign, Building!Sign
  <2>2. PICK phase \in {"built", "failed"} : builder' = [builder EXCEPT !.phase = phase]
    BY <1>1 DEF Sign, Building!Sign
  <2>3. Offered'
    BY <2>1, <2>2 DEF Offered
  <2> QED BY <2>1, <2>3
<1>2. ASSUME NEW type \in Building!RequestTypes, Build(type)
      PROVE  /\ Offered' /\ UNCHANGED <<callSide, query, answerSide>>
             /\ builder.phase # "built" /\ verifier' = verifier
  <2> DEFINE m == FromObject(Published)
             with == Building!WithQuery(builder, verifier.client)
             o == Building!Completed(builder, type)
  <2>1. /\ Building!Build(m, type) /\ UNCHANGED <<callSide, query, answerSide>>
        /\ builder.phase = "configuring" /\ verifier' = verifier
    BY <1>2 DEF Build, Building!Build, Building!Preparing
  <2>2. CASE ~Building!Builds(builder, m, type)
    <3>1. builder' = [builder EXCEPT !.metadata = m, !.type = type, !.params = @, !.phase = "failed"]
      BY <2>1, <2>2 DEF Building!Build, Building!Preparing
    <3> HIDE DEF m
    <3>2. Offered'
      BY <2>1, <3>1 DEF Offered
    <3> QED BY <2>1, <3>2
  <2>3. CASE Building!Builds(builder, m, type)
    <3> DEFINE phase == IF type = "plain" THEN "built" ELSE "signing"
    <3>1. builder' = [builder EXCEPT !.metadata = m, !.type = type, !.params = o, !.phase = phase]
      BY <2>1, <2>3 DEF Building!Build, Building!Preparing
    <3>2. /\ DOMAIN with = Building!ObjectKeys
          /\ with.transaction_data = builder.params.transaction_data
          /\ with.client_id = verifier.client.id
      BY DEF Building!WithQuery, Building!ObjectKeys, Offered
    <3>3. Building!ParseError(o) = Building!NoError
          /\ o = Building!WithReturnUri(with, verifier.endpoint, type)
      BY <2>3 DEF Building!Builds, Building!Completed
    <3>4. /\ DOMAIN o = Building!ObjectKeys /\ ReturnUri(o) \in {Absent, verifier.endpoint}
          /\ o.transaction_data = builder.params.transaction_data
          /\ o.client_id = verifier.client.id
      <4> HIDE DEF with, o
      <4> QED BY <3>2, <3>3, ReturnUriIsTheEndpoint
    <3> HIDE DEF m, o, phase
    <3>5. Offered'
      <4>1. /\ builder'.params = o /\ builder'.phase = phase
            /\ builder' = [phase |-> builder'.phase, params |-> builder'.params,
                           dcql |-> builder'.dcql, definition |-> builder'.definition,
                           metadata |-> builder'.metadata, type |-> builder'.type]
        BY <3>1 DEF Offered
      <4> QED BY <2>1, <3>4, <4>1 DEF Offered
    <3> QED BY <2>1, <3>5
  <2> QED BY <2>2, <2>3
<1> QED BY <1>1, <1>2

----------------------------------------------------------------------------
(* Every step *)

LEMMA InitIsInv == Init => Inv
<1> SUFFICES ASSUME Init PROVE Inv
  OBVIOUS
<1>1. SubmissionsHold
  BY DEF Init, Submission!Init, Submission!Unsent, Pairs, SubmissionsHold, Posted,
         Submission!Outcomes
<1>2. CallsHold
  <2>1. \A c \in Calls : call[c] = Resolution!Idle
    BY DEF Init, Resolution!Init
  <2>2. Handed(Resolution!Idle)
    BY ErrorsAreNot DEF Handed, Resolution!Idle, Resolution!NoncePoints
  <2>3. DOMAIN call = Calls
    BY DEF Init, Resolution!Init
  <2> QED BY <2>1, <2>2, <2>3 DEF CallsHold
<1>3. Offered
  <2>1. PICK p \in Prepared : verifier = p[1] /\ builder = p[2]
    BY DEF Init
  <2>2. /\ builder = [phase |-> "configuring", params |-> builder.params, dcql |-> builder.dcql,
                      definition |-> builder.definition, metadata |-> builder.metadata,
                      type |-> builder.type]
        /\ DOMAIN builder.params = Building!ObjectKeys
    BY <2>1, VerifierAssumption
  <2>3. builder.phase = "configuring"
    BY <2>2
  <2> QED BY <2>1, <2>2, <2>3 DEF Offered
<1>4. Ordered
  BY DEF Init, Submission!Init, Submission!Unsent, Ordered, QueryStates
<1> QED BY <1>1, <1>2, <1>3, <1>4 DEF Inv

\* A verifier's step concerns the wallet only by what it offers.
LEMMA VerifierKeepsInv ==
  ASSUME Inv, Sign \/ \E type \in Building!RequestTypes : Build(type)
  PROVE  Inv'
<1>1. /\ Offered' /\ UNCHANGED <<callSide, query, answerSide>>
      /\ builder.phase # "built" /\ verifier' = verifier
  BY VerifierSteps DEF Inv
<1>2. /\ call' = call /\ wallet' = wallet /\ issued' = issued /\ query' = query
      /\ sub' = sub /\ inbox' = inbox
  BY <1>1 DEF callSide, answerSide
<1>3. SubmissionsHold'
  BY <1>2 DEF Inv, SubmissionsHold
<1>4. CallsHold'
  BY <1>1, <1>2, CallsStay DEF Inv
<1>5. Ordered'
  BY <1>2 DEF Inv, Ordered, Request
<1> QED BY <1>1, <1>3, <1>4, <1>5 DEF Inv

\* A step of a call changes no call that was accepted.
LEMMA CallKeepsInv ==
  ASSUME Inv, NEW c \in Calls, Validate(c) \/ CallProgress(c) \/ Cancel(c)
  PROVE  Inv'
<1>1. /\ CallsHold' /\ wallet' = wallet /\ issued \subseteq issued'
      /\ \A x \in Calls : call[x].outcome = NoError => call'[x] = call[x]
  BY CallSteps DEF Inv
<1>2. /\ verifier' = verifier /\ builder' = builder /\ query' = query
      /\ sub' = sub /\ inbox' = inbox
  BY DEF Validate, CallProgress, Cancel, verifierSide, answerSide
<1>3. SubmissionsHold' /\ Offered'
  BY <1>2 DEF Inv, SubmissionsHold, Offered
<1>4. Ordered'
  <2>1. \A x \in Calls : query[x] # "unresolved" => call'[x] = call[x] /\ call[x].outcome = NoError
    BY <1>1 DEF Inv, Ordered
  <2>2. \A x \in Calls : query'[x] # "unresolved" => call'[x].outcome = NoError
    BY <1>2, <2>1
  <2>3. ASSUME NEW x \in Calls, NEW k \in Attempts, sub'[<<x, k>>].pc # "idle"
        PROVE  /\ query'[x] = "resolved"
               /\ sub'[<<x, k>>].uri = ReturnUri(Request(x))' /\ sub'[<<x, k>>].uri # Absent
    <3>1. /\ query[x] = "resolved" /\ sub[<<x, k>>].uri = ReturnUri(Request(x))
          /\ sub[<<x, k>>].uri # Absent
      BY <1>2, <2>3 DEF Inv, Ordered
    <3>2. call'[x] = call[x]
      BY <2>1, <3>1
    <3>3. ReturnUri(Request(x))' = ReturnUri(Request(x))
      BY <3>2 DEF Request
    <3> QED BY <1>2, <3>1, <3>3
  <2> QED BY <1>2, <2>2, <2>3 DEF Inv, Ordered
<1> QED BY <1>1, <1>3, <1>4 DEF Inv

\* The query of an accepted request is resolved.
LEMMA QueryKeepsInv ==
  ASSUME Inv, NEW c \in Calls, ResolveQuery(c) \/ DefinitionReply(c)
  PROVE  Inv'
<1>1. PICK state \in QueryStates : QueryBecomes(c, state)
  BY DEF ResolveQuery, DefinitionReply, QueryStates
<1>2. /\ query' = [query EXCEPT ![c] = state] /\ UNCHANGED <<verifierSide, callSide, answerSide>>
      /\ call[c].outcome = NoError /\ query[c] # "resolved"
  BY <1>1 DEF QueryBecomes, ResolveQuery, DefinitionReply, Resolution!Accepted, Inv, Ordered,
              Resolution!NoError, NoError
<1>3. /\ verifier' = verifier /\ builder' = builder /\ wallet' = wallet /\ call' = call
      /\ issued' = issued /\ sub' = sub /\ inbox' = inbox
  BY <1>2 DEF verifierSide, callSide, answerSide
<1>4. SubmissionsHold' /\ CallsHold' /\ Offered'
  BY <1>3, CallsStay DEF Inv, SubmissionsHold, Offered
<1>5. Ordered'
  BY <1>2, <1>3 DEF Inv, Ordered, Request
<1> QED BY <1>4, <1>5 DEF Inv

\* An answer goes where the accepted request says.
LEMMA AnswerKeepsInv ==
  ASSUME Inv, NEW c \in Calls, NEW k \in Attempts,
         \/ \E r \in Responses : Answer(c, k, r)
         \/ AnswerProgress(c, k) \/ Arrive(c, k) \/ Drop(c, k)
  PROVE  Inv'
<1> DEFINE s == <<c, k>>
<1>1. /\ verifier' = verifier /\ builder' = builder /\ wallet' = wallet /\ call' = call
      /\ issued' = issued /\ query' = query /\ s \in Pairs
  BY DEF Answer, AnswerProgress, Arrive, Drop, verifierSide, callSide, Pairs
<1>2. CallsHold' /\ Offered'
  BY <1>1, CallsStay DEF Inv, Offered
<1>3. \A x \in Calls : ReturnUri(Request(x))' = ReturnUri(Request(x))
  BY <1>1 DEF Request
<1>4. CASE \E r \in Responses : Answer(c, k, r)
  <2>1. PICK r \in Responses : Answer(c, k, r)
    BY <1>4
  <2> DEFINE uri == ReturnUri(Request(c))
             t == Submission!Called(uri, Mode(Request(c)), r)
  <2>2. /\ query[c] = "resolved" /\ uri # Absent /\ sub[s].pc = "idle"
        /\ sub' = [sub EXCEPT ![s] = t] /\ inbox' = inbox
    BY <2>1 DEF Answer, Submission!Submit
  <2>3. Posted(t, None) /\ t.uri = uri
    BY CalledIsPosted
  <2> HIDE DEF t, uri
  <2>4. inbox[s] = None
    <3>1. Posted(sub[s], inbox[s])
      BY <1>1 DEF Inv, SubmissionsHold
    <3> QED BY <2>2, <3>1 DEF Posted
  <2>5. DOMAIN sub' = Pairs /\ sub'[s] = t /\ \A x \in Pairs \ {s} : sub'[x] = sub[x]
    BY <1>1, <2>2 DEF Inv, SubmissionsHold
  <2>6. SubmissionsHold'
    BY <1>1, <2>2, <2>3, <2>4, <2>5, OneSubmission DEF Inv, SubmissionsHold
  <2>7. ASSUME NEW x \in Calls, NEW l \in Attempts, sub'[<<x, l>>].pc # "idle"
        PROVE  /\ query[x] = "resolved"
               /\ sub'[<<x, l>>].uri = ReturnUri(Request(x)) /\ sub'[<<x, l>>].uri # Absent
    <3>1. CASE <<x, l>> = s
      BY <2>2, <2>3, <2>5, <3>1 DEF uri
    <3>2. CASE <<x, l>> # s
      BY <2>5, <2>7, <3>2 DEF Inv, Ordered, Pairs
    <3> QED BY <3>1, <3>2
  <2>8. Ordered'
    BY <1>1, <1>3, <2>7 DEF Inv, Ordered
  <2> QED BY <1>2, <2>6, <2>8 DEF Inv
<1>5. CASE AnswerProgress(c, k) \/ Arrive(c, k) \/ Drop(c, k)
  <2>1. Submission!Progress(s) \/ Submission!Arrive(s) \/ Submission!Drop(s)
    BY <1>5 DEF AnswerProgress, Arrive, Drop
  <2>2. /\ SubmissionsHold'
        /\ \A x \in Pairs : sub'[x].uri = sub[x].uri /\ (sub'[x].pc # "idle" => sub[x].pc # "idle")
    BY <1>1, <2>1, SubmissionSteps DEF Inv
  <2>3. Ordered'
    BY <1>1, <1>3, <2>2 DEF Inv, Ordered, Pairs
  <2> QED BY <1>2, <2>2, <2>3 DEF Inv
<1> QED BY <1>4, <1>5

LEMMA StepKeepsInv == Inv /\ [Next]_vars => Inv'
<1> SUFFICES ASSUME Inv, [Next]_vars PROVE Inv'
  OBVIOUS
<1>1. CASE Sign \/ \E type \in Building!RequestTypes : Build(type)
  BY <1>1, VerifierKeepsInv
<1>2. CASE \E c \in Calls : Validate(c) \/ CallProgress(c) \/ Cancel(c)
  BY <1>2, CallKeepsInv
<1>3. CASE \E c \in Calls : ResolveQuery(c) \/ DefinitionReply(c)
  BY <1>3, QueryKeepsInv
<1>4. CASE \E c \in Calls, k \in Attempts :
             \/ \E r \in Responses : Answer(c, k, r)
             \/ AnswerProgress(c, k) \/ Arrive(c, k) \/ Drop(c, k)
  BY <1>4, AnswerKeepsInv
<1>5. CASE UNCHANGED vars
  <2>1. /\ verifier' = verifier /\ builder' = builder /\ wallet' = wallet /\ call' = call
        /\ issued' = issued /\ query' = query /\ sub' = sub /\ inbox' = inbox
    BY <1>5 DEF vars
  <2>2. SubmissionsHold' /\ CallsHold' /\ Offered'
    BY <2>1, CallsStay DEF Inv, SubmissionsHold, Offered
  <2>3. Ordered'
    BY <2>1 DEF Inv, Ordered, Request
  <2> QED BY <2>2, <2>3 DEF Inv
<1> QED BY <1>1, <1>2, <1>3, <1>4, <1>5 DEF Next

LEMMA InvHolds == Spec => []Inv
BY InitIsInv, StepKeepsInv, PTL DEF Spec

----------------------------------------------------------------------------
(* What an exchange keeps *)

\* Calls and submissions are well-formed, and the wallet's steps come in their
\* order: accepted, resolved, submitted.
THEOREM FlowTypeOK == Spec => []TypeOK
<1>1. Inv => TypeOK
  <2> SUFFICES ASSUME Inv PROVE TypeOK
    OBVIOUS
  <2>1. Submission!TypeOK
    <3>1. \A s \in Pairs : Posted(sub[s], inbox[s])
      BY DEF Inv, SubmissionsHold
    <3> QED BY <3>1 DEF Pairs, Posted, Submission!TypeOK, Submission!Unsent
  <2>2. \A c \in Calls : DOMAIN call[c] = DOMAIN Resolution!Idle
    BY DEF Inv, CallsHold, Handed, Resolution!Idle
  <2>3. \A c \in Calls : query[c] # "unresolved" => Resolution!Accepted(c)
    <3>1. \A c \in Calls : call[c].op = "validate_request"
      BY DEF Inv, CallsHold, Handed
    <3> QED BY <3>1, ErrorsAreNot DEF Inv, Ordered, Resolution!Accepted
  <2> QED BY <2>1, <2>2, <2>3 DEF TypeOK, Inv, Ordered
<1> QED BY <1>1, InvHolds, PTL

\* What arrives of a response decodes to that response, of the form its mode
\* calls for, or does not decode.
THEOREM DecodedWasSent == Spec => []DecodedIsWhatWasSent
<1>1. Inv => DecodedIsWhatWasSent
  <2> SUFFICES ASSUME Inv, NEW s \in Pairs, inbox[s] # None, inbox[s].response # Bad
               PROVE  /\ inbox[s].response = sub[s].response
                      /\ (sub[s].mode = "direct_post.jwt") <=> (inbox[s].response.kind = "jwt")
    BY DEF DecodedIsWhatWasSent, Submission!DecodedIsWhatWasSent, Pairs
  <2>1. /\ sub[s].response \in Responses /\ Submission!Takes(sub[s].mode, sub[s].response)
        /\ inbox[s] = [uri |-> sub[s].uri,
                       response |-> Submission!FromForm(Submission!IntoForm(sub[s].response))]
    BY DEF Inv, SubmissionsHold, Posted
  <2>2. inbox[s].response = sub[s].response /\ sub[s].response.kind \in {"jwt", "unencoded"}
    BY <2>1, FormsDecode
  <2> QED BY <2>1, <2>2 DEF Submission!Takes, Submission!FragmentModes
<1> QED BY <1>1, InvHolds, PTL

\* When submit_response returns Ok for a POST, the verifier holds what was
\* submitted.
THEOREM OkIsDelivered == Spec => []OkMeansDelivered
<1>1. Inv => OkMeansDelivered
  <2> SUFFICES ASSUME Inv, NEW s \in Pairs, sub[s].mode \in Submission!DirectPostModes,
                      sub[s].outcome \in {"sent", "redirected"}
               PROVE  inbox[s] = [uri |-> sub[s].uri, response |-> sub[s].response]
    BY DEF OkMeansDelivered, Submission!OkMeansDelivered, Pairs
  <2>1. /\ sub[s].response \in Responses /\ inbox[s].response # Bad
        /\ inbox[s] = [uri |-> sub[s].uri,
                       response |-> Submission!FromForm(Submission!IntoForm(sub[s].response))]
    BY DEF Inv, SubmissionsHold, Posted
  <2>2. inbox[s].response = sub[s].response
    BY <2>1, FormsDecode
  <2> QED BY <2>1, <2>2
<1> QED BY <1>1, InvHolds, PTL

\* The verifier reads a response that was submitted, whatever has become of the
\* call, unless its vp_token is a single string or it names a hash algorithm;
\* those the verifier cannot decode.  WhatIsSentDecodes fails for them alone.
EncodableIsRead ==
  \A s \in Pairs : inbox[s] # None =>
    inbox[s].response = IF Encodable(sub[s].response) THEN sub[s].response ELSE Bad

THEOREM EncodableArrives == Spec => []EncodableIsRead
<1>1. Inv => EncodableIsRead
  <2> SUFFICES ASSUME Inv, NEW s \in Pairs, inbox[s] # None
               PROVE  inbox[s].response = IF Encodable(sub[s].response) THEN sub[s].response ELSE Bad
    BY DEF EncodableIsRead
  <2>1. /\ sub[s].response \in Responses
        /\ inbox[s] = [uri |-> sub[s].uri,
                       response |-> Submission!FromForm(Submission!IntoForm(sub[s].response))]
    BY DEF Inv, SubmissionsHold, Posted
  <2>2. inbox[s].response = Submission!FromForm(Submission!IntoForm(sub[s].response))
    BY <2>1
  <2> QED BY <2>1, <2>2, FormsDecode
<1> QED BY <1>1, InvHolds, PTL

\* A request object that verifies under a client id that stands for one key was
\* made with that key.
LEMMA HolderMadeIt ==
  ASSUME NEW p \in Prepared, NEW j,
         p[1].client.id = Resolution!FullId(Resolution!ClientId(j.obj.client_id)),
         p[1].client.id.prefix \in VerifiedPrefixes, NoError \in Resolution!JwtVerdicts(wallet, j)
  PROVE  ~MadeByAnother(j, p[1].client)
<1> DEFINE client == p[1].client
           who == Resolution!ClientId(j.obj.client_id)
<1>1. who = client.id
  BY DEF Resolution!FullId
<1>2. CASE client.id.prefix = "decentralized_identifier"
  <2>1. NoError \in Resolution!DidVerdicts(wallet, j)
    BY <1>1, <1>2, ErrorsAreNot DEF Resolution!JwtVerdicts, NoError
  <2>2. Resolution!DidHeaderError(wallet, j) = NoError /\ j.signer = j.kid
    BY <2>1, ErrorsAreNot DEF Resolution!DidVerdicts, NoError
  <2>3. j.kid = who.id
    BY <2>2, ErrorsAreNot DEF Resolution!DidHeaderError, NoError
  <2>4. j.signer = client.key
    BY <1>1, <1>2, <2>2, <2>3, ClientAssumption
  <2> QED BY <2>4 DEF MadeByAnother
<1>3. CASE client.id.prefix = "x509_hash"
  <2>1. NoError \in Resolution!X509Verdicts(wallet, j)
    BY <1>1, <1>3, ErrorsAreNot DEF Resolution!JwtVerdicts, NoError
  <2>2. /\ j.leaf \notin {Absent, Bad} /\ j.signer = j.leaf.key
        /\ j.leaf.hash = Resolution!Named(who)
    BY <1>1, <1>3, <2>1, ErrorsAreNot
    DEF Resolution!X509Verdicts, Resolution!X509Accepts, Resolution!LeafMatches
  <2>3. Resolution!Named(who) = client.leaf.hash
    BY <1>1, <1>3, ClientAssumption DEF Resolution!Named
  <2> QED BY <1>3, <2>2, <2>3 DEF MadeByAnother
<1> QED BY <1>2, <1>3 DEF VerifiedPrefixes

\* What the verifier has built is its own.
LEMMA BuiltByTheVerifier ==
  /\ ~MadeByAnother(BuiltJwt, verifier.client)
  /\ \A n : ~MadeByAnother([BuiltJwt EXCEPT !.obj.wallet_nonce = n], verifier.client)
BY DEF BuiltJwt, MadeByAnother

\* The object of a request that was accepted in the verifier's name is the one
\* the verifier has built, but for the wallet nonce.
LEMMA AcceptedIsBuilt ==
  ASSUME Inv, NEW c \in Calls, InTheVerifiersName(c), call[c].outcome = NoError
  PROVE  \/ call[c].url.kind = "plain" /\ Request(c) = Building!Received /\ builder.type = "plain"
         \/ /\ call[c].url.kind # "plain" /\ builder.type # "plain"
            /\ \/ Request(c) = builder.params
               \/ \E n \in issued : Request(c) = [builder.params EXCEPT !.wallet_nonce = n]
<1> DEFINE s == call[c]
           id == s.url.client_id
<1>1. Handed(s) /\ builder.phase = "built"
  BY DEF Inv, CallsHold, InTheVerifiersName
<1>2. CASE s.url.kind = "plain"
  <2>1. s.url \in BuiltUrls
    BY <1>2 DEF InTheVerifiersName
  <2>2. builder.type = "plain" /\ s.url = [kind |-> "plain", obj |-> Building!Received]
    BY <1>1, <1>2, <2>1 DEF BuiltUrls
  <2> QED BY <1>2, <2>2 DEF Request, Resolution!RequestOf
<1>3. CASE s.url.kind # "plain"
  <2>1. /\ id = Building!UrlClientId /\ id.prefix \in VerifiedPrefixes
        /\ Known(s.jwt) /\ NoError \in Resolution!JwtVerdicts(wallet, s.jwt)
        /\ id = Resolution!FullId(Resolution!ClientId(s.jwt.obj.client_id))
    BY <1>1, <1>3 DEF InTheVerifiersName, Handed
  <2>2. PICK p \in Prepared : verifier = p[1]
    BY DEF Inv, Offered
  <2>3. id = verifier.client.id
    BY <2>1 DEF Building!UrlClientId, Building!FullId
  <2>4. ~MadeByAnother(s.jwt, verifier.client)
    BY <2>1, <2>2, <2>3, HolderMadeIt
  <2>5. /\ builder.type # "plain"
        /\ \/ s.jwt = BuiltJwt
           \/ \E n \in issued : s.jwt = [BuiltJwt EXCEPT !.obj.wallet_nonce = n]
    <3>1. s.jwt \notin OtherJwts
      BY <2>2, <2>4, VerifierAssumption
    <3>2. \A u \in OtherUrls : u.kind = "value" => s.jwt # u.jwt
      BY <2>2, <2>4, VerifierAssumption
    <3> QED BY <2>1, <3>1, <3>2 DEF Known
  <2>6. Request(c) = s.jwt.obj
    BY <1>3 DEF Request, Resolution!RequestOf
  <2>7. CASE s.jwt = BuiltJwt
    BY <1>3, <2>5, <2>6, <2>7 DEF BuiltJwt
  <2>8. CASE \E n \in issued : s.jwt = [BuiltJwt EXCEPT !.obj.wallet_nonce = n]
    <3>1. PICK n \in issued : s.jwt = [BuiltJwt EXCEPT !.obj.wallet_nonce = n]
      BY <2>8
    <3>2. s.jwt.obj = [builder.params EXCEPT !.wallet_nonce = n]
      BY <3>1 DEF BuiltJwt
    <3> QED BY <1>3, <2>5, <2>6, <3>2
  <2> QED BY <2>5, <2>7, <2>8
<1> QED BY <1>2, <1>3

\* Whatever request objects others serve or hand over, an answer to a request
\* accepted in the name of a verifier with a DID or an x509_hash client, or to
\* the plain request it built, goes to the endpoint of the verifier: signature,
\* client id of the URL and build agree on it.  For x509_san_dns they need not.
THEOREM AskerIsAnswered == Spec => []AnswersReachTheAsker
<1>1. Inv => AnswersReachTheAsker
  <2> SUFFICES ASSUME Inv, NEW c \in Calls, NEW k \in Attempts, InTheVerifiersName(c),
                      sub[<<c, k>>].pc # "idle"
               PROVE  sub[<<c, k>>].uri = verifier.endpoint
    BY DEF AnswersReachTheAsker
  <2>1. /\ call[c].outcome = NoError /\ sub[<<c, k>>].uri = ReturnUri(Request(c))
        /\ ReturnUri(Request(c)) # Absent
    BY DEF Inv, Ordered
  <2>2. /\ builder.phase = "built" /\ DOMAIN builder.params = Building!ObjectKeys
        /\ ReturnUri(builder.params) \in {Absent, verifier.endpoint}
    BY DEF Inv, Offered, InTheVerifiersName
  <2>3. PICK o : /\ o = Request(c) /\ o.response_mode = builder.params.response_mode
                 /\ o.redirect_uri = builder.params.redirect_uri
                 /\ o.response_uri = builder.params.response_uri
    <3>1. CASE Request(c) = Building!Received /\ builder.type = "plain"
      BY <2>2, <3>1 DEF Building!Received, Building!ReadFromUrl, Building!ObjectKeys,
                        Building!ArrayParameters
    <3>2. CASE Request(c) = builder.params
      BY <3>2
    <3>3. CASE \E n \in issued : Request(c) = [builder.params EXCEPT !.wallet_nonce = n]
      BY <2>2, <3>3 DEF Building!ObjectKeys
    <3> QED BY <2>1, <3>1, <3>2, <3>3, AcceptedIsBuilt
  <2>4. ReturnUri(o) = ReturnUri(builder.params)
    BY <2>3 DEF ReturnUri, Mode
  <2> QED BY <2>1, <2>2, <2>3, <2>4
<1> QED BY <1>1, InvHolds, PTL

\* What the verifier put into a request accepted in its name (a DID's, or that
\* of an x509_hash client) is what the wallet's application reads, item by item.
THEOREM TransactionIsShown == Spec => []TransactionDataIsShown
<1>1. Inv => TransactionDataIsShown
  <2> DEFINE given == builder.params.transaction_data
  <2> SUFFICES ASSUME Inv, NEW c \in Calls, AcceptedFromVerifier(c), builder.type # "plain",
                      given # Absent
               PROVE  LET items == TransactionDataItems(Request(c)) IN
                      /\ items \notin {Absent, Bad}
                      /\ DOMAIN items = DOMAIN given
                      /\ \A k \in DOMAIN items : WriteItem(items[k]) = given[k]
    BY DEF TransactionDataIsShown
  <2>1. InTheVerifiersName(c) /\ call[c].outcome = NoError
    BY ErrorsAreNot DEF AcceptedFromVerifier, Resolution!Accepted
  <2>2. PICK p \in Prepared : given = p[2].params.transaction_data
    BY DEF Inv, Offered
  <2>3. AreItems(given)
    BY <2>2, VerifierAssumption
  <2>4. DOMAIN builder.params = Building!ObjectKeys
    BY <2>1 DEF Inv, Offered, InTheVerifiersName
  <2>5. Request(c).transaction_data = given
    <3>1. CASE Request(c) = builder.params
      BY <3>1
    <3>2. CASE \E n \in issued : Request(c) = [builder.params EXCEPT !.wallet_nonce = n]
      BY <2>4, <3>2 DEF Building!ObjectKeys
    <3> QED BY <2>1, <3>1, <3>2, AcceptedIsBuilt
  <2>6. given \notin {Absent, Bad}
    BY <2>3 DEF AreItems
  <2>7. \A k \in DOMAIN given : ReadItem(given[k]) # Bad /\ WriteItem(ReadItem(given[k])) = given[k]
    <3> TAKE k \in DOMAIN given
    <3>1. PICK j : j = given[k].json /\ IsItem(j) /\ ItemOf(j) # Bad /\ given[k] = WriteItem(j)
      BY <2>3 DEF AreItems
    <3>2. ~given[k].padded
      BY <3>1 DEF WriteItem
    <3>3. PICK i : i = ReadItem(given[k]) /\ i = ItemOf(j)
      BY <3>1, <3>2 DEF ReadItem
    <3>4. \A m \in {"credential_ids", "algs", "type", "payload"} : i[m] = j[m]
      BY <3>3 DEF ItemOf
    <3>5. WriteItem(i) = WriteItem(j)
      BY <3>4 DEF WriteItem
    <3> QED BY <3>1, <3>3, <3>5
  <2>8. TransactionDataItems(Request(c)) = [k \in DOMAIN given |-> ReadItem(given[k])]
    <3>1. Readable(Request(c), "transaction_data")
      BY <2>5, <2>6 DEF Readable
    <3> QED BY <2>5, <2>7, <3>1 DEF TransactionDataItems
  <2>9. [k \in DOMAIN given |-> ReadItem(given[k])] \notin {Absent, Bad}
    BY <2>3 DEF AreItems
  <2> HIDE DEF given
  <2> QED BY <2>7, <2>8, <2>9
<1> QED BY <1>1, InvHolds, PTL

----------------------------------------------------------------------------
(* The exchange implements the abstract one *)

LEMMA AcceptedInName ==
  ASSUME Inv, NEW c \in Calls
  PROVE  AcceptedFromVerifier(c) <=> InTheVerifiersName(c) /\ call[c].outcome = NoError
BY ErrorsAreNot DEF Inv, CallsHold, Handed, AcceptedFromVerifier, Resolution!Accepted

\* What is accepted in the verifier's name is what the verifier asked.
LEMMA AcceptedIsAsked ==
  Inv => \A c \in Calls : AcceptedFromVerifier(c) => AcceptedAs(c) = Asked /\ Asked # {}
<1> SUFFICES ASSUME Inv, NEW c \in Calls, AcceptedFromVerifier(c)
             PROVE  AcceptedAs(c) = Asked /\ Asked # {}
  OBVIOUS
<1>1. InTheVerifiersName(c) /\ call[c].outcome = NoError /\ builder.phase = "built"
  BY AcceptedInName DEF InTheVerifiersName
<1>2. CASE Request(c) = Building!Received
  BY <1>1, <1>2 DEF AcceptedAs, Asked
<1>3. CASE builder.type # "plain" /\ Request(c) = builder.params
  BY <1>1, <1>3 DEF AcceptedAs, Asked, Building!Received
<1>4. CASE builder.type # "plain" /\ \E n \in issued : Request(c) = [builder.params EXCEPT !.wallet_nonce = n]
  <2>1. Essence(Request(c)) = Essence(builder.params)
    BY <1>4 DEF Essence
  <2> QED BY <1>1, <1>4, <2>1 DEF AcceptedAs, Asked, Building!Received
<1> QED BY <1>1, <1>2, <1>3, <1>4, AcceptedIsBuilt

LEMMA AcceptedIsAskedNext ==
  Inv' => (\A c \in Calls : AcceptedFromVerifier(c) => AcceptedAs(c) = Asked /\ Asked # {})'
BY AcceptedIsAsked, PTL

\* No request is accepted in the verifier's name before it is built.
LEMMA UnbuiltIsUnaccepted ==
  ASSUME Inv, Sign \/ \E type \in Building!RequestTypes : Build(type),
         NEW c \in Calls, call[c].outcome = NoError
  PROVE  ~InTheVerifiersName(c)'
<1> DEFINE s == call[c]
<1>1. /\ Offered' /\ UNCHANGED <<callSide, query, answerSide>>
      /\ builder.phase # "built" /\ verifier' = verifier
  BY VerifierSteps DEF Inv
<1>2. call' = call
  BY <1>1 DEF callSide
<1>3. Handed(s) /\ s.url \in OtherUrls
  BY <1>1, ErrorsAreNot DEF Inv, CallsHold, Handed, BuiltUrls, NoError
<1>4. PICK p \in Prepared : verifier = p[1]
  BY DEF Inv, Offered
<1> SUFFICES ASSUME InTheVerifiersName(c)' PROVE FALSE
  OBVIOUS
<1>5. CASE s.url.kind = "plain"
  <2>1. builder'.phase = "built" /\ s.url \in BuiltUrls'
    BY <1>2, <1>5 DEF InTheVerifiersName
  <2>2. s.url.obj = Building!Received'
    BY <1>5, <2>1 DEF BuiltUrls
  <2>3. Building!Received'.client_id = builder'.params.client_id
    <3>1. DOMAIN builder'.params = Building!ObjectKeys
      BY <1>1 DEF Offered
    <3> QED BY <3>1 DEF Building!Received, Building!ReadFromUrl, Building!ObjectKeys,
                        Building!ArrayParameters
  <2>4. builder'.params.client_id = verifier.client.id
    BY <1>1, <2>1 DEF Offered
  <2> QED BY <1>3, <1>4, <1>5, <2>2, <2>3, <2>4, VerifierAssumption
<1>6. CASE s.url.kind # "plain"
  <2>1. s.url.client_id = Building!UrlClientId' /\ s.url.client_id.prefix \in VerifiedPrefixes
    BY <1>2, <1>6 DEF InTheVerifiersName
  <2>2. s.url.client_id = verifier.client.id
    BY <1>1, <2>1 DEF Building!UrlClientId, Building!FullId
  <2>3. /\ Known(s.jwt) /\ NoError \in Resolution!JwtVerdicts(wallet, s.jwt)
        /\ s.url.client_id = Resolution!FullId(Resolution!ClientId(s.jwt.obj.client_id))
    BY <1>3, <1>6 DEF Handed
  <2>4. ~MadeByAnother(s.jwt, verifier.client)
    BY <1>4, <2>1, <2>2, <2>3, HolderMadeIt
  <2> QED BY <1>1, <1>4, <2>3, <2>4, VerifierAssumption DEF Known
<1> QED BY <1>5, <1>6

\* Nobody has accepted, nobody is answered.
LEMMA NothingAccepted ==
  ASSUME NEW c \in Calls, ~AcceptedFromVerifier(c)
  PROVE  /\ AcceptedAs(c) = {}
         /\ \A k \in Attempts : AnswerHeld(<<c, k>>) = {} /\ ToldOf(<<c, k>>) = "nothing"
BY DEF AcceptedAs, AnswerHeld, ToldOf

\* The abstract state of a call that has not submitted.
LEMMA NothingSubmitted ==
  ASSUME Inv, NEW s \in Pairs, sub[s].pc = "idle"
  PROVE  AnswerHeld(s) = {} /\ ToldOf(s) = "nothing" /\ inbox[s] = None
<1>1. Posted(sub[s], inbox[s])
  BY DEF Inv, SubmissionsHold
<1> QED BY <1>1 DEF Posted, AnswerHeld, ToldOf

LEMMA InitIsAbstract == Init => Abstract!Init
<1> SUFFICES ASSUME Init PROVE Abstract!Init
  OBVIOUS
<1>1. Inv
  BY InitIsInv
<1>2. builder.phase = "configuring"
  <2>1. PICK p \in Prepared : builder = p[2]
    BY DEF Init
  <2>2. builder = [phase |-> "configuring", params |-> builder.params, dcql |-> builder.dcql,
                   definition |-> builder.definition, metadata |-> builder.metadata,
                   type |-> builder.type]
    BY <2>1, VerifierAssumption
  <2> QED BY <2>2
<1>3. \A c \in Calls : ~AcceptedFromVerifier(c)
  BY <1>2 DEF AcceptedFromVerifier, InTheVerifiersName
<1>4. Asked = {}
  BY <1>2 DEF Asked
<1>5. \A s \in Pairs : AnswerHeld(s) = {} /\ ToldOf(s) = "nothing"
  BY <1>3 DEF AnswerHeld, ToldOf, Pairs
<1>6. \A c \in Calls : AcceptedAs(c) = {}
  BY <1>3 DEF AcceptedAs
<1> QED BY <1>4, <1>5, <1>6 DEF Abstract!Init, Pairs

\* A step of the exchange by what it does to the abstract state.
LEMMA AbstractStutter ==
  ASSUME Asked' = Asked, \A c \in Calls : AcceptedAs(c)' = AcceptedAs(c),
         \A s \in Pairs : AnswerHeld(s)' = AnswerHeld(s) /\ ToldOf(s)' = ToldOf(s)
  PROVE  UNCHANGED Abstract!vars
BY DEF Abstract!vars, Pairs

\* build and the signature: the verifier has asked, or not yet.
LEMMA VerifierSimulates ==
  ASSUME Inv, Inv', Sign \/ \E type \in Building!RequestTypes : Build(type)
  PROVE  [Abstract!Next]_Abstract!vars
<1>1. /\ UNCHANGED <<callSide, query, answerSide>>
      /\ builder.phase # "built" /\ verifier' = verifier
  BY VerifierSteps DEF Inv
<1>2. call' = call /\ sub' = sub /\ inbox' = inbox
  BY <1>1 DEF callSide, answerSide
<1>3. \A c \in Calls : ~AcceptedFromVerifier(c)
  BY <1>1 DEF AcceptedFromVerifier, InTheVerifiersName
<1>4. \A c \in Calls : ~AcceptedFromVerifier(c)'
  <2> SUFFICES ASSUME NEW c \in Calls, AcceptedFromVerifier(c)' PROVE FALSE
    OBVIOUS
  <2>1. InTheVerifiersName(c)' /\ call'[c].outcome = NoError
    BY ErrorsAreNot DEF AcceptedFromVerifier, Resolution!Accepted
  <2> QED BY <1>2, <2>1, UnbuiltIsUnaccepted
<1>5. \A c \in Calls : AcceptedAs(c) = {} /\ AcceptedAs(c)' = {}
  BY <1>3, <1>4 DEF AcceptedAs
<1>6. \A s \in Pairs : /\ AnswerHeld(s) = {} /\ AnswerHeld(s)' = {}
                      /\ ToldOf(s) = "nothing" /\ ToldOf(s)' = "nothing"
  BY <1>3, <1>4 DEF AnswerHeld, ToldOf, Pairs
<1>7. Asked = {}
  BY <1>1 DEF Asked
<1>8. CASE Asked' = {}
  BY <1>5, <1>6, <1>7, <1>8, AbstractStutter
<1>9. CASE Asked' # {}
  <2>1. Abstract!Ask
    BY <1>5, <1>6, <1>7, <1>9 DEF Abstract!Ask, Pairs
  <2> QED BY <2>1 DEF Abstract!Next
<1> QED BY <1>8, <1>9

\* Who is in the verifier's name, and what is accepted in it, depends on the
\* call and on what is built.
LEMMA SameCallSameRequest ==
  ASSUME UNCHANGED verifierSide, NEW c \in Calls, call'[c] = call[c]
  PROVE  AcceptedFromVerifier(c)' = AcceptedFromVerifier(c) /\ AcceptedAs(c)' = AcceptedAs(c)
<1>1. builder' = builder /\ verifier' = verifier
  BY DEF verifierSide
<1>2. BuiltUrls' = BuiltUrls
  BY <1>1 DEF BuiltUrls, BuiltJwt, Building!Received, Building!UrlClientId
<1>3. InTheVerifiersName(c)' = InTheVerifiersName(c)
  BY <1>1, <1>2 DEF InTheVerifiersName, Building!UrlClientId
<1>4. Request(c)' = Request(c) /\ Resolution!Accepted(c)' = Resolution!Accepted(c)
  BY DEF Request, Resolution!Accepted
<1> QED BY <1>3, <1>4 DEF AcceptedFromVerifier, AcceptedAs

\* A step of a call: it may have accepted the verifier's request.
LEMMA CallSimulates ==
  ASSUME Inv, Inv', NEW c \in Calls, Validate(c) \/ CallProgress(c) \/ Cancel(c)
  PROVE  [Abstract!Next]_Abstract!vars
<1>1. \A x \in Calls : call[x].outcome = NoError => call'[x] = call[x]
  BY CallSteps DEF Inv
<1>2. UNCHANGED verifierSide /\ query' = query /\ sub' = sub /\ inbox' = inbox
  BY DEF Validate, CallProgress, Cancel, answerSide
<1>3. \A x \in Calls \ {c} : call'[x] = call[x]
  <2>1. \E t : call' = [call EXCEPT ![c] = t]
    BY DEF Validate, CallProgress, Cancel, Resolution!Start, Resolution!GenerateNonce,
           Resolution!FetchReply, Resolution!FetchFails, Resolution!Verdict,
           Resolution!ValidateNonce, Resolution!NonceAccepted, Resolution!NonceRefused,
           Resolution!NonceCheckFails, Resolution!Cancel
  <2> QED BY <2>1 DEF Inv, CallsHold
<1>4. \A x \in Calls \ {c} : AcceptedFromVerifier(x)' = AcceptedFromVerifier(x)
                             /\ AcceptedAs(x)' = AcceptedAs(x)
  BY <1>2, <1>3, SameCallSameRequest
<1>5. Asked' = Asked
  BY <1>2 DEF Asked, Building!Received, verifierSide
<1>6. \A x \in Calls \ {c}, k \in Attempts : AnswerHeld(<<x, k>>)' = AnswerHeld(<<x, k>>)
                                            /\ ToldOf(<<x, k>>)' = ToldOf(<<x, k>>)
  BY <1>2, <1>4 DEF AnswerHeld, ToldOf
<1>7. CASE call'[c] = call[c]
  <2>1. AcceptedFromVerifier(c)' = AcceptedFromVerifier(c) /\ AcceptedAs(c)' = AcceptedAs(c)
    BY <1>2, <1>7, SameCallSameRequest
  <2>2. \A k \in Attempts : AnswerHeld(<<c, k>>)' = AnswerHeld(<<c, k>>)
                           /\ ToldOf(<<c, k>>)' = ToldOf(<<c, k>>)
    BY <1>2, <2>1 DEF AnswerHeld, ToldOf
  <2>3. \A s \in Pairs : AnswerHeld(s)' = AnswerHeld(s) /\ ToldOf(s)' = ToldOf(s)
    BY <1>6, <2>2 DEF Pairs
  <2> QED BY <1>4, <1>5, <2>1, <2>3, AbstractStutter
<1>8. CASE call'[c] # call[c]
  <2>1. ~AcceptedFromVerifier(c) /\ call[c].outcome # NoError
    BY <1>1, <1>8, AcceptedInName
  <2>2. \A k \in Attempts : sub[<<c, k>>].pc = "idle"
    BY <2>1 DEF Inv, Ordered
  <2>3. \A k \in Attempts : /\ AnswerHeld(<<c, k>>) = {} /\ ToldOf(<<c, k>>) = "nothing"
                           /\ inbox[<<c, k>>] = None
    BY <2>2, NothingSubmitted DEF Pairs
  <2>4. \A k \in Attempts : AnswerHeld(<<c, k>>)' = {} /\ ToldOf(<<c, k>>)' = "nothing"
    BY <1>2, <2>2, <2>3 DEF AnswerHeld, ToldOf
  <2>5. \A s \in Pairs : AnswerHeld(s)' = AnswerHeld(s) /\ ToldOf(s)' = ToldOf(s)
    BY <1>6, <2>3, <2>4 DEF Pairs
  <2>6. AcceptedAs(c) = {}
    BY <2>1 DEF AcceptedAs
  <2>7. CASE ~AcceptedFromVerifier(c)'
    <3>1. AcceptedAs(c)' = {}
      BY <2>7 DEF AcceptedAs
    <3> QED BY <1>4, <1>5, <2>5, <2>6, <3>1, AbstractStutter
  <2>8. CASE AcceptedFromVerifier(c)'
    <3>1. AcceptedAs(c)' = Asked' /\ Asked' # {}
      BY <2>8, AcceptedIsAskedNext
    <3>2. Abstract!Accept(c)
      BY <1>4, <1>5, <2>5, <2>6, <3>1 DEF Abstract!Accept, Pairs
    <3> QED BY <3>2 DEF Abstract!Next
  <2> QED BY <2>7, <2>8
<1> QED BY <1>7, <1>8

\* An answer arrives, or the wallet is told of it.
LEMMA AnswerSimulates ==
  ASSUME Inv, Inv', NEW c \in Calls, NEW k \in Attempts,
         \/ \E r \in Responses : Answer(c, k, r)
         \/ AnswerProgress(c, k) \/ Arrive(c, k) \/ Drop(c, k)
  PROVE  [Abstract!Next]_Abstract!vars
<1> DEFINE s == <<c, k>>
<1>1. UNCHANGED verifierSide /\ call' = call /\ s \in Pairs
  BY DEF Answer, AnswerProgress, Arrive, Drop, callSide, Pairs
<1>2. /\ \A x \in Pairs \ {s} : sub'[x] = sub[x] /\ inbox'[x] = inbox[x]
      /\ \/ sub' = sub /\ inbox[s] = None
         \/ inbox' = inbox /\ sub[s].pc # "returned"
  <2>1. CASE \E r \in Responses : Answer(c, k, r)
    <3>1. PICK t : sub[s].pc = "idle" /\ sub' = [sub EXCEPT ![s] = t] /\ inbox' = inbox
      BY <2>1 DEF Answer, Submission!Submit
    <3> QED BY <3>1 DEF Inv, SubmissionsHold
  <2>2. CASE AnswerProgress(c, k) \/ Arrive(c, k) \/ Drop(c, k)
    <3>1. Submission!Progress(s) \/ Submission!Arrive(s) \/ Submission!Drop(s)
      BY <2>2 DEF AnswerProgress, Arrive, Drop
    <3> QED BY <1>1, <3>1, SubmissionSteps DEF Inv
  <2> QED BY <2>1, <2>2
<1>3. \A x \in Calls : AcceptedFromVerifier(x)' = AcceptedFromVerifier(x)
                       /\ AcceptedAs(x)' = AcceptedAs(x)
  BY <1>1, SameCallSameRequest
<1>4. Asked' = Asked
  BY <1>1 DEF Asked, Building!Received, verifierSide
<1>5. \A x \in Pairs \ {s} : AnswerHeld(x)' = AnswerHeld(x) /\ ToldOf(x)' = ToldOf(x)
  BY <1>2, <1>3 DEF AnswerHeld, ToldOf, Pairs
<1>6. CASE AnswerHeld(s)' = AnswerHeld(s) /\ ToldOf(s)' = ToldOf(s)
  <2>1. \A x \in Pairs : AnswerHeld(x)' = AnswerHeld(x) /\ ToldOf(x)' = ToldOf(x)
    BY <1>5, <1>6
  <2> QED BY <1>3, <1>4, <2>1, AbstractStutter
<1>7. CASE ~(AnswerHeld(s)' = AnswerHeld(s) /\ ToldOf(s)' = ToldOf(s))
  <2>1. AcceptedFromVerifier(c) /\ AcceptedFromVerifier(c)' /\ AcceptedAs(c) # {}
    <3>1. AcceptedFromVerifier(c)
      <4> SUFFICES ASSUME ~AcceptedFromVerifier(c) PROVE FALSE
        OBVIOUS
      <4>1. ~AcceptedFromVerifier(c)'
        BY <1>3
      <4>2. AnswerHeld(s) = {} /\ ToldOf(s) = "nothing"
        BY DEF AnswerHeld, ToldOf
      <4>3. AnswerHeld(s)' = {} /\ ToldOf(s)' = "nothing"
        BY <4>1 DEF AnswerHeld, ToldOf
      <4> QED BY <1>7, <4>2, <4>3
    <3> QED BY <1>3, <3>1 DEF AcceptedAs
  <2>2. CASE sub' = sub /\ inbox[s] = None
    <3>1. AnswerHeld(s) = {} /\ ToldOf(s)' = ToldOf(s)
      BY <1>3, <2>1, <2>2 DEF AnswerHeld, ToldOf
    <3>2. Abstract!Answer(c, k)
      BY <1>1, <1>3, <1>4, <1>5, <2>1, <3>1 DEF Abstract!Answer, Pairs
    <3> QED BY <3>2 DEF Abstract!Next
  <2>3. CASE inbox' = inbox /\ sub[s].pc # "returned"
    <3>1. AnswerHeld(s)' = AnswerHeld(s) /\ ToldOf(s) = "nothing" /\ ToldOf(s)' # "nothing"
      BY <1>3, <1>7, <2>1, <2>3 DEF AnswerHeld, ToldOf
    <3>2. ToldOf(s)' \in {"delivered", "failed"}
      BY <3>1 DEF ToldOf
    <3>3. ToldOf(s)' = "delivered" => AnswerHeld(s) # {}
      <4> SUFFICES ASSUME ToldOf(s)' = "delivered" PROVE AnswerHeld(s) # {}
        OBVIOUS
      <4>1. /\ sub'[s].outcome \in {"sent", "redirected"} /\ sub'[s].mode \notin FragmentModes
        BY DEF ToldOf
      <4>2. Posted(sub'[s], inbox'[s])
        <5> PICK t, arrived : t = sub'[s] /\ arrived = inbox'[s]
          OBVIOUS
        <5>1. Posted(t, arrived)'
          BY <1>1 DEF Inv, SubmissionsHold, Posted
        <5> QED BY <5>1 DEF Posted
      <4>3. sub'[s].mode \in Submission!DirectPostModes
        BY <4>1, <4>2 DEF Posted, Submission!Takes, FragmentModes, Submission!FragmentModes,
                          Submission!DirectPostModes
      <4>4. inbox[s] # None /\ inbox[s].response # Bad
        BY <2>3, <4>1, <4>2, <4>3 DEF Posted
      <4> QED BY <2>1, <4>4 DEF AnswerHeld
    <3>4. Abstract!Tell(c, k)
      BY <1>1, <1>3, <1>4, <1>5, <2>1, <3>1, <3>2, <3>3 DEF Abstract!Tell, Pairs
    <3> QED BY <3>4 DEF Abstract!Next
  <2> QED BY <1>2, <2>2, <2>3
<1> QED BY <1>6, <1>7

\* Steps that concern no request of the verifier's.
LEMMA OthersStutter ==
  ASSUME UNCHANGED <<verifierSide, callSide, answerSide>>
  PROVE  [Abstract!Next]_Abstract!vars
<1>1. UNCHANGED verifierSide /\ call' = call /\ sub' = sub /\ inbox' = inbox
  BY DEF callSide, answerSide
<1>2. \A c \in Calls : AcceptedFromVerifier(c)' = AcceptedFromVerifier(c)
                       /\ AcceptedAs(c)' = AcceptedAs(c)
  BY <1>1, SameCallSameRequest
<1>3. Asked' = Asked
  BY <1>1 DEF Asked, Building!Received, verifierSide
<1>4. \A s \in Pairs : AnswerHeld(s)' = AnswerHeld(s) /\ ToldOf(s)' = ToldOf(s)
  BY <1>1, <1>2 DEF AnswerHeld, ToldOf, Pairs
<1> QED BY <1>2, <1>3, <1>4, AbstractStutter

\* The exchange implements the abstract one, whatever requests and request
\* objects there are besides: what a wallet accepts in the name of a DID or of
\* an x509_hash client, or as the plain URL, is what the verifier asked, the
\* verifier holds answers only of wallets that accepted, and a wallet is told of
\* a delivery only when it has taken place.
THEOREM FlowIsAnExchange == Spec => ImplementsExchange
<1>1. Init => Abstract!Init
  BY InitIsAbstract
<1>2. Inv /\ Inv' /\ [Next]_vars => [Abstract!Next]_Abstract!vars
  <2> SUFFICES ASSUME Inv, Inv', [Next]_vars PROVE [Abstract!Next]_Abstract!vars
    OBVIOUS
  <2>1. CASE Sign \/ \E type \in Building!RequestTypes : Build(type)
    BY <2>1, VerifierSimulates
  <2>2. CASE \E c \in Calls : Validate(c) \/ CallProgress(c) \/ Cancel(c)
    BY <2>2, CallSimulates
  <2>3. CASE \E c \in Calls : ResolveQuery(c) \/ DefinitionReply(c)
    <3>1. UNCHANGED <<verifierSide, callSide, answerSide>>
      BY <2>3 DEF ResolveQuery, DefinitionReply, QueryBecomes
    <3> QED BY <3>1, OthersStutter
  <2>4. CASE \E c \in Calls, k \in Attempts :
               \/ \E r \in Responses : Answer(c, k, r)
               \/ AnswerProgress(c, k) \/ Arrive(c, k) \/ Drop(c, k)
    BY <2>4, AnswerSimulates
  <2>5. CASE UNCHANGED vars
    <3>1. UNCHANGED <<verifierSide, callSide, answerSide>>
      BY <2>5 DEF vars, verifierSide, callSide, answerSide
    <3> QED BY <3>1, OthersStutter
  <2> QED BY <2>1, <2>2, <2>3, <2>4, <2>5 DEF Next
<1> QED BY <1>1, <1>2, InvHolds, PTL DEF Spec, ImplementsExchange, Abstract!Spec

\* The promises, in terms of the exchange: what is accepted is what was asked,
\* an answer is that of a wallet that accepted, and a delivery that the wallet
\* was told of has taken place.
Promises ==
  /\ \A c \in Calls : AcceptedAs(c) # {} => AcceptedAs(c) = Asked
  /\ \A s \in Pairs :
       /\ AnswerHeld(s) # {} => AcceptedAs(s[1]) # {}
       /\ ToldOf(s) = "delivered" => AnswerHeld(s) # {}

LEMMA PromisesStep == ASSUME Promises, [Abstract!Next]_(Abstract!vars) PROVE Promises'
<1> DEFINE acc == [c \in Calls |-> AcceptedAs(c)]
           ans == [s \in Calls \X Attempts |-> AnswerHeld(s)]
           told == [s \in Calls \X Attempts |-> ToldOf(s)]
<1>0. /\ \A c \in Calls : acc[c] = AcceptedAs(c) /\ acc'[c] = AcceptedAs(c)'
      /\ \A s \in Pairs : ans[s] = AnswerHeld(s) /\ ans'[s] = AnswerHeld(s)'
      /\ \A s \in Pairs : told[s] = ToldOf(s) /\ told'[s] = ToldOf(s)'
      /\ \A s \in Pairs : s[1] \in Calls
      /\ \A c \in Calls, k \in Attempts : <<c, k>> \in Pairs /\ <<c, k>>[1] = c
  BY DEF Pairs
<1>1. CASE UNCHANGED Abstract!vars
  <2>1. Asked' = Asked /\ acc' = acc /\ ans' = ans /\ told' = told
    BY <1>1 DEF Abstract!vars
  <2> HIDE DEF acc, ans, told
  <2> QED BY <1>0, <2>1 DEF Promises
<1>2. CASE Abstract!Ask
  <2>1. Asked = {} /\ acc' = acc /\ ans' = ans /\ told' = told
    BY <1>2 DEF Abstract!Ask
  <2> HIDE DEF acc, ans, told
  <2> QED BY <1>0, <2>1 DEF Promises
<1>3. ASSUME NEW c \in Calls, Abstract!Accept(c) PROVE Promises'
  <2>1. /\ acc[c] = {} /\ acc' = [acc EXCEPT ![c] = Asked] /\ Asked # {}
        /\ Asked' = Asked /\ ans' = ans /\ told' = told
    BY <1>3 DEF Abstract!Accept
  <2>2. \A d \in Calls : acc'[d] = IF d = c THEN Asked ELSE acc[d]
    BY <2>1
  <2> HIDE DEF acc, ans, told
  <2> QED BY <1>0, <2>1, <2>2 DEF Promises
<1>4. ASSUME NEW c \in Calls, NEW k \in Attempts, Abstract!Answer(c, k) PROVE Promises'
  <2>1. /\ acc[c] # {} /\ ans[<<c, k>>] = {} /\ \A s \in Pairs : s # <<c, k>> => ans'[s] = ans[s]
        /\ Asked' = Asked /\ acc' = acc /\ told' = told
    BY <1>4 DEF Abstract!Answer, Pairs
  <2> HIDE DEF acc, ans, told
  <2> QED BY <1>0, <2>1 DEF Promises
<1>5. ASSUME NEW c \in Calls, NEW k \in Attempts, Abstract!Tell(c, k) PROVE Promises'
  <2>1. PICK news \in {"failed"} \cup {n \in {"delivered"} : ans[<<c, k>>] # {}} :
          told' = [told EXCEPT ![<<c, k>>] = news]
    BY <1>5 DEF Abstract!Tell
  <2>2. Asked' = Asked /\ acc' = acc /\ ans' = ans
    BY <1>5 DEF Abstract!Tell
  <2>3. \A s \in Pairs : told'[s] = IF s = <<c, k>> THEN news ELSE told[s]
    BY <2>1 DEF Pairs
  <2> HIDE DEF acc, ans, told
  <2> QED BY <1>0, <2>1, <2>2, <2>3 DEF Promises
<1> QED BY <1>1, <1>2, <1>3, <1>4, <1>5 DEF Abstract!Next

\* What Exchange promises follows from Exchange alone, so that it holds of
\* whatever implements it, this composition of the two sides included.
THEOREM ExchangeKeepsPromises == ImplementsExchange => []Promises
<1>1. Abstract!Init => Promises
  <2> SUFFICES ASSUME Abstract!Init PROVE Promises
    OBVIOUS
  <2>1. /\ [c \in Calls |-> AcceptedAs(c)] = [c \in Calls |-> {}]
        /\ [s \in Calls \X Attempts |-> AnswerHeld(s)] = [s \in Calls \X Attempts |-> {}]
        /\ [s \in Calls \X Attempts |-> ToldOf(s)] = [s \in Calls \X Attempts |-> "nothing"]
    BY DEF Abstract!Init
  <2>2. \A c \in Calls : AcceptedAs(c) = {}
    BY <2>1
  <2>3. \A s \in Pairs : AnswerHeld(s) = {}
    BY <2>1 DEF Pairs
  <2>4. \A s \in Pairs : ToldOf(s) = "nothing"
    BY <2>1 DEF Pairs
  <2> QED BY <2>2, <2>3, <2>4 DEF Promises
<1> QED BY <1>1, PromisesStep, PTL DEF ImplementsExchange, Abstract!Spec

----------------------------------------------------------------------------
(* A request that was built is not refused                                 *)
(*                                                                         *)
(* What build has checked against the published copy of the metadata holds *)
(* of what is served, and what a call makes of it is followed from one     *)
(* await point to the next.                                                *)

\* Builder, wallet and this module read an object alike.
LEMMA ReadAlike ==
  ASSUME NEW o
  PROVE  /\ Building!ParseError(o) = ParseError(o) /\ Resolution!ParseError(o) = ParseError(o)
         /\ Building!NoError = NoError /\ Resolution!NoError = NoError
         /\ Building!Internal = Internal /\ Resolution!Internal = Internal
<1>1. /\ Building!NoError = NoError /\ Resolution!NoError = NoError
      /\ Building!Internal = Internal /\ Resolution!Internal = Internal
  BY DEF Building!NoError, Resolution!NoError, NoError, Building!Internal, Resolution!Internal,
         Internal
<1>2. \A k : Building!Readable(o, k) = Readable(o, k) /\ Resolution!Readable(o, k) = Readable(o, k)
  BY DEF Building!Readable, Resolution!Readable, Readable
<1>3. Building!Mode(o) = Mode(o) /\ Resolution!Mode(o) = Mode(o)
  BY DEF Building!Mode, Resolution!Mode, Mode
<1>4. Building!ReturnUri(o) = ReturnUri(o) /\ Resolution!ReturnUri(o) = ReturnUri(o)
  BY <1>3 DEF Building!ReturnUri, Resolution!ReturnUri, ReturnUri, Building!FragmentModes,
       Resolution!FragmentModes, FragmentModes, Building!DirectPostModes,
       Resolution!DirectPostModes, DirectPostModes
<1>5. Building!UrisFitMode(o) = UrisFitMode(o) /\ Resolution!UrisFitMode(o) = UrisFitMode(o)
  BY <1>3 DEF Building!UrisFitMode, Resolution!UrisFitMode, UrisFitMode, Building!FragmentModes,
       Resolution!FragmentModes, FragmentModes, Building!DirectPostModes,
       Resolution!DirectPostModes, DirectPostModes, Building!DcApiModes, Resolution!DcApiModes,
       DcApiModes
<1>6. Building!QueryError(o) = QueryError(o) /\ Resolution!QueryError(o) = QueryError(o)
  <2>1. Building!QueriesOf(o) = QueriesOf(o) /\ Resolution!QueriesOf(o) = QueriesOf(o)
    BY DEF Building!QueriesOf, Resolution!QueriesOf, QueriesOf, Building!QueryParameters,
           Resolution!QueryParameters, QueryParameters
  <2> QED BY <1>1, <2>1 DEF Building!QueryError, Resolution!QueryError, QueryError,
             Building!QueryParameters, Resolution!QueryParameters, QueryParameters
<1> QED BY <1>1, <1>2, <1>3, <1>4, <1>5, <1>6
         DEF Building!ParseError, Resolution!ParseError, ParseError

\* A text where an array was does not change whether an object parses.
LEMMA UrlParses ==
  ASSUME NEW o, DOMAIN o = Building!ObjectKeys, NEW r, r = Building!ReadFromUrl(o)
  PROVE  /\ ParseError(r) = ParseError(o)
         /\ r.client_id = o.client_id /\ r.response_type = o.response_type
         /\ r.client_metadata = o.client_metadata
<1>1. /\ r.client_id = o.client_id /\ r.redirect_uri = o.redirect_uri
      /\ r.response_uri = o.response_uri /\ r.response_mode = o.response_mode
      /\ r.response_type = o.response_type /\ r.dcql_query = o.dcql_query
      /\ r.presentation_definition = o.presentation_definition
      /\ r.presentation_definition_uri = o.presentation_definition_uri
      /\ r.nonce = o.nonce /\ r.client_metadata = o.client_metadata
  BY DEF Building!ReadFromUrl, Building!ObjectKeys, Building!ArrayParameters
<1>2. Mode(r) = Mode(o) /\ ReturnUri(r) = ReturnUri(o)
  BY <1>1 DEF Mode, ReturnUri
<1>3. UrisFitMode(r) = UrisFitMode(o)
  BY <1>1, <1>2 DEF UrisFitMode
<1>4. QueriesOf(r) = QueriesOf(o)
  BY <1>1 DEF QueriesOf, QueryParameters
<1>5. QueryError(r) = QueryError(o)
  BY <1>1, <1>4 DEF QueryError
<1> QED BY <1>1, <1>2, <1>3, <1>5 DEF ParseError, Readable

\* What build has checked of what it wrote.
Fitting ==
  builder.phase \in {"signing", "built"} =>
    /\ Decodable(Published)
    /\ ParseError(builder.params) = NoError
    /\ Building!ResponseTypeFits(FromObject(Published), builder.params)
    /\ Building!IsClientIdPrefixSupported(FromObject(Published), verifier.client.id.prefix)
    /\ builder.phase = "built" /\ builder.type # "plain" => verifier.client.signs

\* build writes the client id, the query and the return address only.
LEMMA BuildWrites ==
  ASSUME Offered, NEW type, NEW o, o = Building!Completed(builder, type)
  PROVE  /\ o.response_type = Building!WithQuery(builder, verifier.client).response_type
         /\ o.client_metadata = Building!WithQuery(builder, verifier.client).client_metadata
         /\ o.wallet_nonce = builder.params.wallet_nonce
<1> DEFINE with == Building!WithQuery(builder, verifier.client)
<1>1. DOMAIN with = Building!ObjectKeys /\ with.wallet_nonce = builder.params.wallet_nonce
  BY DEF Building!WithQuery, Building!ObjectKeys, Offered
<1>2. o = Building!WithReturnUri(with, verifier.endpoint, type)
  BY DEF Building!Completed
<1> HIDE DEF with
<1>3. CASE Building!Mode(with) \in Building!DirectPostModes
  <2>1. o = [with EXCEPT !.response_uri = verifier.endpoint]
    BY <1>2, <1>3 DEF Building!WithReturnUri
  <2> QED BY <1>1, <2>1 DEF Building!ObjectKeys, with
<1>4. CASE Building!Mode(with) \notin Building!DirectPostModes
           /\ Building!Mode(with) \in Building!FragmentModes
  <2>1. o = [with EXCEPT !.redirect_uri = verifier.endpoint]
    BY <1>2, <1>4 DEF Building!WithReturnUri
  <2> QED BY <1>1, <2>1 DEF Building!ObjectKeys, with
<1>5. CASE Building!Mode(with) \notin Building!DirectPostModes \cup Building!FragmentModes
  <2>1. PICK id :
          o = [with EXCEPT !.client_id = id, !.response_uri = Absent, !.redirect_uri = Absent]
    BY <1>2, <1>5 DEF Building!WithReturnUri
  <2> QED BY <1>1, <2>1 DEF Building!ObjectKeys, with
<1> QED BY <1>3, <1>4, <1>5

\* build and the signature keep their promises; nothing else touches them.
LEMMA FittingSteps ==
  ASSUME Offered, Fitting, wallet' = wallet,
         \/ Sign \/ \E type \in Building!RequestTypes : Build(type)
         \/ UNCHANGED verifierSide
  PROVE  Fitting' /\ builder'.params.wallet_nonce = builder.params.wallet_nonce
<1>0. Published' = Published
  BY DEF Published
<1>1. CASE UNCHANGED verifierSide
  BY <1>0, <1>1 DEF Fitting, verifierSide
<1>2. CASE Sign
  <2>1. PICK phase \in {"built", "failed"} :
          /\ builder.phase = "signing" /\ verifier' = verifier
          /\ phase = "built" => verifier.client.signs
          /\ builder' = [builder EXCEPT !.phase = phase]
    BY <1>2 DEF Sign, Building!Sign
  <2>2. /\ builder'.phase = phase /\ builder'.params = builder.params
    BY <2>1 DEF Offered
  <2> QED BY <1>0, <2>1, <2>2 DEF Fitting
<1>3. ASSUME NEW type \in Building!RequestTypes, Build(type)
      PROVE  Fitting' /\ builder'.params.wallet_nonce = builder.params.wallet_nonce
  <2> DEFINE m == FromObject(Published)
             with == Building!WithQuery(builder, verifier.client)
             o == Building!Completed(builder, type)
             phase == IF type = "plain" THEN "built" ELSE "signing"
  <2>1. /\ Building!Build(m, type) /\ Decodable(Published) /\ verifier' = verifier
    BY <1>3 DEF Build, Building!Build, Building!Preparing
  <2>2. CASE ~Building!Builds(builder, m, type)
    <3>1. builder' = [builder EXCEPT !.metadata = m, !.type = type, !.params = @, !.phase = "failed"]
      BY <2>1, <2>2 DEF Building!Build, Building!Preparing
    <3> HIDE DEF m
    <3>2. builder'.phase = "failed" /\ builder'.params = builder.params
      BY <3>1 DEF Offered
    <3> QED BY <3>2 DEF Fitting
  <2>3. CASE Building!Builds(builder, m, type)
    <3>1. builder' = [builder EXCEPT !.metadata = m, !.type = type, !.params = o, !.phase = phase]
      BY <2>1, <2>3 DEF Building!Build, Building!Preparing
    <3>2. /\ Building!ParseError(o) = Building!NoError
          /\ Building!ResponseTypeFits(m, with)
          /\ Building!IsClientIdPrefixSupported(m, verifier.client.id.prefix)
      BY <2>3 DEF Building!Builds
    <3>3. /\ o.response_type = with.response_type /\ o.client_metadata = with.client_metadata
          /\ o.wallet_nonce = builder.params.wallet_nonce
      BY BuildWrites
    <3> HIDE DEF m, o, with, phase
    <3>4. builder'.params = o /\ builder'.phase = phase /\ builder'.type = type
      BY <3>1 DEF Offered
    <3>5. Building!ResponseTypeFits(m, o)
      BY <3>2, <3>3 DEF Building!ResponseTypeFits, Building!Readable
    <3>6. ParseError(o) = NoError
      BY <3>2, ReadAlike
    <3>7. phase = "built" => type = "plain"
      BY DEF phase
    <3>8. Fitting'
      BY <1>0, <2>1, <3>2, <3>4, <3>5, <3>6, <3>7 DEF Fitting, m
    <3> QED BY <3>3, <3>4, <3>8
  <2> QED BY <2>2, <2>3
<1> QED BY <1>1, <1>2, <1>3

\* The request objects that may be served in place of the one that was built.
Foreign ==
  (OtherJwts \cup
     (IF builder.phase = "built" /\ builder.type = "reference"
        THEN {[BuiltJwt EXCEPT !.obj.wallet_nonce = n] : n \in issued} ELSE {})) \ {BuiltJwt}

\* The ways a call may end that are not the request's fault.
Passable == {NoError, "pending", "cancelled", Internal, "access_denied", "vp_formats_not_supported"}

\* No fault has been found: what is being verified is what was built.
Unfaulted(s) ==
  /\ s.outcome \in Passable /\ s.pc \notin Resolution!NoncePoints
  /\ s.pc \in {"generating", "fetching"} => s.url.kind = "reference"
  /\ s.pc = "verifying" => s.url \in BuiltUrls /\ (s.url.kind = "plain" \/ s.jwt = BuiltJwt)

\* The request is another one.
NotOurs(s) ==
  \/ s.url \in OtherUrls /\ s.url.kind # "reference"
  \/ builder.phase = "built" /\ s.url \notin BuiltUrls

Treated(s) ==
  \/ s.pc = "idle" \/ NotOurs(s)
  \/ s.url.kind = "reference" /\ s.jwt \in Foreign
  \/ Unfaulted(s)

\* The case the property is about; neither side changes it.
Undisturbed == FollowsWhatItPublishes(wallet.metadata) /\ builder.params.wallet_nonce = Absent

TreatInv ==
  /\ Inv /\ Fitting /\ wallet \in Wallets
  /\ Undisturbed => \A c \in Calls : Treated(call[c])

\* The metadata checks pass what build has let pass, formats excepted.
LEMMA MetadataAgrees ==
  ASSUME TreatInv, Undisturbed, builder.phase = "built",
         NEW o, o \in {builder.params, Building!Received}
  PROVE  Resolution!MetadataError(wallet.metadata, o) \in {NoError, Internal, "vp_formats_not_supported"}
<1> DEFINE m == wallet.metadata
           copy == FromObject(Published)
           prefix == verifier.client.id.prefix
<1>1. /\ o.client_id = verifier.client.id /\ o.response_type = builder.params.response_type
      /\ o.client_metadata = builder.params.client_metadata
  <2>1. DOMAIN builder.params = Building!ObjectKeys /\ builder.params.client_id = verifier.client.id
    BY DEF TreatInv, Inv, Offered
  <2>2. Building!Received \in {builder.params, Building!ReadFromUrl(builder.params)}
    BY DEF Building!Received
  <2> QED BY <2>1, <2>2, UrlParses
<1>2. /\ Decodable(Published) /\ Building!ResponseTypeFits(copy, builder.params)
      /\ Building!IsClientIdPrefixSupported(copy, prefix)
  BY DEF TreatInv, Fitting
<1>3. Resolution!ClientId(o.client_id).prefix = prefix
  <2>1. PICK p \in Prepared : verifier = p[1]
    BY DEF TreatInv, Inv, Offered
  <2>2. prefix # Resolution!Bare
    BY <2>1, ClientAssumption DEF Bare, Resolution!Bare
  <2> QED BY <1>1, <2>2 DEF Resolution!ClientId
<1>4. m.raw[Prefixes] # Bad => prefix \in Resolution!ValueOrDefault(m.raw, Prefixes)
  <2>1. Prefixes \in DOMAIN m.raw /\ Prefixes \in MetadataKeys
    BY WalletAssumption DEF TreatInv, MetadataKeys
  <2>2. Published[Prefixes] = m.raw[Prefixes]
    BY <2>1 DEF Published, ToObject, Prefixes
  <2>3. copy.typed[Prefixes] =
          IF Readable(Published, Prefixes) THEN Published[Prefixes] ELSE ListDefault[Prefixes]
    BY <2>1 DEF FromObject
  <2>4. prefix \in copy.typed[Prefixes]
    BY <1>2 DEF Building!IsClientIdPrefixSupported, Prefixes
  <2> QED BY <2>2, <2>3, <2>4 DEF Readable, Resolution!ValueOrDefault
<1>5. Resolution!ResponseTypeError(m, o) = NoError
  <2>1. \A k \in {"response_types_supported", "subject_syntax_types_supported"} :
          copy.typed[k] \subseteq m.typed[k]
    BY <1>2 DEF Undisturbed, FollowsWhatItPublishes, Published
  <2> HIDE DEF copy, m
  <2>2. o.response_type \in m.typed.response_types_supported
    BY <1>1, <1>2, <2>1 DEF Building!ResponseTypeFits
  <2>3. o.response_type = "vp_token id_token" =>
          LET syntax == o.client_metadata.subject_syntax_types_supported IN
          syntax \notin {Absent, Bad} /\ syntax \subseteq m.typed.subject_syntax_types_supported
    <3> SUFFICES ASSUME o.response_type = "vp_token id_token"
                 PROVE  LET syntax == o.client_metadata.subject_syntax_types_supported IN
                        syntax \notin {Absent, Bad}
                        /\ syntax \subseteq m.typed.subject_syntax_types_supported
      OBVIOUS
    <3> PICK syntax : syntax = o.client_metadata.subject_syntax_types_supported
      OBVIOUS
    <3>1. syntax \notin {Absent, Bad} /\ syntax \subseteq copy.typed.subject_syntax_types_supported
      BY <1>1, <1>2 DEF Building!ResponseTypeFits, Building!Readable
    <3> QED BY <2>1, <3>1
  <2> QED BY <2>2, <2>3, ReadAlike DEF Resolution!ResponseTypeError
<1>6. Resolution!FormatsError(m, o) \in {NoError, "vp_formats_not_supported"}
  BY ReadAlike DEF Resolution!FormatsError
<1> HIDE DEF m, prefix
<1>7. m.raw[Resolution!Prefixes] # Bad =>
        prefix \in Resolution!ValueOrDefault(m.raw, Resolution!Prefixes)
  BY <1>4 DEF Prefixes, Resolution!Prefixes
<1> QED BY <1>3, <1>5, <1>6, <1>7, ReadAlike DEF Resolution!MetadataError, m

\* The members of a call after a step.
LEMMA MembersAfter ==
  ASSUME NEW s, Runs(s), NEW e, NEW point
  PROVE  /\ Resolution!Ended(s, e).pc = "done" /\ Resolution!Ended(s, e).outcome = e
         /\ Resolution!At(s, point).pc = point /\ Resolution!At(s, point).outcome = "pending"
         /\ Resolution!At(s, point).url = s.url /\ Resolution!At(s, point).jwt = s.jwt
         /\ Resolution!Ended(s, e).url = s.url /\ Resolution!Ended(s, e).jwt = s.jwt
<1>1. Resolution!Ended(s, e) =
        [pc |-> "done", op |-> s.op, url |-> s.url, sent |-> s.sent, jwt |-> s.jwt, outcome |-> e]
  BY CallChanges DEF Resolution!Ended, Runs
<1>2. Resolution!At(s, point) =
        [pc |-> point, op |-> s.op, url |-> s.url, sent |-> s.sent, jwt |-> s.jwt,
         outcome |-> s.outcome]
  BY CallChanges DEF Resolution!At, Runs
<1> QED BY <1>1, <1>2 DEF Runs

\* No step changes the URL a call was handed, and none after the reply the
\* request object.
LEMMA JudgedUrl ==
  ASSUME NEW s, Runs(s), NEW t,
         \/ \E e : t = Resolution!AfterVerdict(wallet, s, e)
         \/ t = Resolution!ToNonceCheck(s) \/ t = Resolution!AfterNonce(s)
  PROVE  t.url = s.url /\ t.jwt = s.jwt /\ t.pc # "idle"
<1>1. (\E e : t = Resolution!Ended(s, e)) \/ t = Resolution!At(s, "checking")
  BY DEF Resolution!AfterVerdict, Resolution!ToNonceCheck, Resolution!AfterNonce
<1> QED BY <1>1, MembersAfter

LEMMA FetchedUrl ==
  ASSUME NEW s, Runs(s), NEW j, NEW t, t = Resolution!AfterFetch(s, j)
  PROVE  t.url = s.url /\ t.jwt = j /\ t.pc # "idle"
<1> DEFINE r == [s EXCEPT !.jwt = j]
<1>1. r = [pc |-> s.pc, op |-> s.op, url |-> s.url, sent |-> s.sent, jwt |-> j,
           outcome |-> s.outcome]
  BY CallChanges DEF Runs
<1>2. (\E e : t = Resolution!Ended(r, e)) \/ t = Resolution!At(r, "verifying")
  BY DEF Resolution!AfterFetch, Runs
<1> HIDE DEF r
<1>3. Runs(r) /\ r.url = s.url /\ r.jwt = j
  BY <1>1 DEF Runs
<1> QED BY <1>2, <1>3, MembersAfter

LEMMA StartedIsUnderWay ==
  ASSUME NEW s, Runs(s)
  PROVE  Resolution!Started(wallet, s).pc # "idle"
<1> DEFINE t == Resolution!Started(wallet, s)
<1>1. \/ \E e : t = Resolution!Ended(s, e)
      \/ \E j : t = Resolution!AfterFetch(s, j)
      \/ \E e : t = Resolution!AfterVerdict(wallet, s, e)
      \/ \E point \in {"verifying", "generating", "fetching"} : t = Resolution!At(s, point)
  BY DEF Resolution!Started, Resolution!PlainRequest
<1> HIDE DEF t
<1>2. t.pc # "idle"
  BY <1>1, MembersAfter, FetchedUrl, JudgedUrl
<1> QED BY <1>2 DEF t

\* A call that ends without blaming the request.
LEMMA EndedIsUnfaulted ==
  ASSUME NEW s, Runs(s), NEW e \in Passable
  PROVE  Unfaulted(Resolution!Ended(s, e))
<1> DEFINE t == Resolution!Ended(s, e)
<1>1. t.pc = "done" /\ t.outcome = e
  BY MembersAfter
<1> HIDE DEF t
<1>2. Unfaulted(t)
  BY <1>1 DEF Unfaulted, Resolution!NoncePoints
<1> QED BY <1>2 DEF t

\* A call that awaits a nonce or a reply, or verifies what was built.
LEMMA AwaitingIsUnfaulted ==
  ASSUME NEW s, Runs(s), NEW point \in {"generating", "fetching", "verifying"},
         point # "verifying" => s.url.kind = "reference",
         point = "verifying" => s.url \in BuiltUrls /\ (s.url.kind = "plain" \/ s.jwt = BuiltJwt)
  PROVE  Unfaulted(Resolution!At(s, point))
<1> DEFINE t == Resolution!At(s, point)
<1>1. t.pc = point /\ t.outcome = "pending" /\ t.url = s.url /\ t.jwt = s.jwt
  BY MembersAfter
<1> HIDE DEF t
<1>2. Unfaulted(t)
  BY <1>1 DEF Unfaulted, Passable, Resolution!NoncePoints
<1> QED BY <1>2 DEF t

\* What a callback may say of the object that was built.
LEMMA BuiltVerdicts ==
  ASSUME TreatInv, builder.phase = "built", builder.type # "plain",
         NEW e \in Resolution!JwtVerdicts(wallet, BuiltJwt)
  PROVE  e \in {NoError, Internal, "access_denied"}
<1> DEFINE prefix == Resolution!ClientId(BuiltJwt.obj.client_id).prefix
<1>1. PICK p \in Prepared : verifier = p[1]
  BY DEF TreatInv, Inv, Offered
<1>2. verifier.client.signs /\ builder.params.client_id = verifier.client.id
  BY DEF TreatInv, Inv, Offered, Fitting
<1>3. BuiltJwt.obj = builder.params
  BY DEF BuiltJwt
<1>4. prefix # "redirect_uri"
  BY <1>1, <1>2, <1>3, ClientAssumption DEF Resolution!ClientId, Resolution!Bare, Bare
<1>5. \/ e = "access_denied"
      \/ e \in Resolution!DidVerdicts(wallet, BuiltJwt)
      \/ e \in Resolution!X509Verdicts(wallet, BuiltJwt)
      \/ \E who : e \in Resolution!PolicyVerdicts(wallet, who)
  BY <1>4 DEF Resolution!JwtVerdicts
<1>6. Resolution!NoError = NoError /\ Resolution!Internal = Internal
  BY ReadAlike
<1>7. Resolution!DidHeaderError(wallet, BuiltJwt) \in {NoError, Internal, "access_denied"}
  BY <1>6 DEF Resolution!DidHeaderError
<1>8. ASSUME e \in Resolution!DidVerdicts(wallet, BuiltJwt)
      PROVE  e \in {NoError, Internal, "access_denied"}
  BY <1>6, <1>7, <1>8 DEF Resolution!DidVerdicts
<1>9. ASSUME e \in Resolution!X509Verdicts(wallet, BuiltJwt)
      PROVE  e \in {NoError, Internal, "access_denied"}
  BY <1>6, <1>9 DEF Resolution!X509Verdicts
<1>10. ASSUME NEW who, e \in Resolution!PolicyVerdicts(wallet, who)
       PROVE  e \in {NoError, Internal, "access_denied"}
  BY <1>6, <1>10 DEF Resolution!PolicyVerdicts
<1> QED BY <1>5, <1>8, <1>9, <1>10

\* The callback has answered on what was built.
LEMMA AfterVerdictIsUnfaulted ==
  ASSUME TreatInv, Undisturbed, NEW s, Runs(s), s.url \in BuiltUrls,
         s.url.kind = "plain" \/ s.jwt = BuiltJwt,
         NEW e \in {NoError, Internal, "access_denied"}
  PROVE  Unfaulted(Resolution!AfterVerdict(wallet, s, e))
<1> DEFINE o == Resolution!RequestOf(s)
           error == Resolution!MetadataError(wallet.metadata, o)
<1>0. builder.phase = "built" /\ Resolution!NoError = NoError /\ e \in Passable
  BY ReadAlike DEF BuiltUrls, Passable
<1>1. s.url.kind = "plain" => o = Building!Received
  <2>1. s.url.kind = "plain" => s.url = [kind |-> "plain", obj |-> Building!Received]
    BY DEF BuiltUrls
  <2> QED BY <2>1 DEF Resolution!RequestOf
<1>2. s.url.kind # "plain" => o = builder.params /\ s.jwt.obj = builder.params
  BY DEF Resolution!RequestOf, BuiltJwt
<1>3. error \in {NoError, Internal, "vp_formats_not_supported"}
  <2> HIDE DEF o
  <2> QED BY <1>0, <1>1, <1>2, MetadataAgrees
<1>4. Resolution!AfterVerdict(wallet, s, e) =
        IF e # NoError THEN Resolution!Ended(s, e)
        ELSE IF error # NoError THEN Resolution!Ended(s, error)
        ELSE IF s.url.kind = "plain" THEN Resolution!Ended(s, NoError)
        ELSE Resolution!ToNonceCheck(s)
  BY <1>0 DEF Resolution!AfterVerdict
<1>5. s.url.kind # "plain" => Resolution!ToNonceCheck(s) = Resolution!Ended(s, NoError)
  <2> SUFFICES ASSUME s.url.kind # "plain"
               PROVE  Resolution!ToNonceCheck(s) = Resolution!Ended(s, NoError)
    OBVIOUS
  <2>1. Resolution!ToNonceCheck(s) = Resolution!AfterNonce(s)
    BY <1>2 DEF Resolution!ToNonceCheck, Undisturbed
  <2>2. s.url.client_id = verifier.client.id
    BY DEF BuiltUrls, Building!UrlClientId, Building!FullId
  <2>3. PICK p \in Prepared : verifier = p[1]
    BY DEF TreatInv, Inv, Offered
  <2>4. Resolution!FullId(Resolution!ClientId(s.jwt.obj.client_id)) = verifier.client.id
    BY <1>0, <1>2, <2>3, ClientAssumption DEF TreatInv, Inv, Offered, Resolution!FullId,
         Resolution!ClientId, Resolution!Bare, Bare
  <2> QED BY <1>0, <2>1, <2>2, <2>4 DEF Resolution!AfterNonce
<1> HIDE DEF error
<1>6. error \in Passable /\ NoError \in Passable
  BY <1>3 DEF Passable
<1> QED BY <1>0, <1>4, <1>5, <1>6, EndedIsUnfaulted

\* What was built is read without fault, and goes on to its callback.
LEMMA AfterFetchIsUnfaulted ==
  ASSUME TreatInv, NEW s, Runs(s), s.url \in BuiltUrls, s.url.kind # "plain"
  PROVE  Unfaulted(Resolution!AfterFetch(s, BuiltJwt))
<1> DEFINE t == [s EXCEPT !.jwt = BuiltJwt]
<1>1. t = [pc |-> s.pc, op |-> s.op, url |-> s.url, sent |-> s.sent, jwt |-> BuiltJwt,
           outcome |-> s.outcome]
  BY CallChanges DEF Runs
<1>2. builder.phase = "built"
  BY DEF BuiltUrls
<1>3. BuiltJwt.decodable /\ BuiltJwt.obj = builder.params
  BY DEF BuiltJwt
<1>4. Resolution!ParseError(BuiltJwt.obj) = Resolution!NoError
  BY <1>2, <1>3, ReadAlike DEF TreatInv, Fitting
<1>5. Resolution!AfterFetch(s, BuiltJwt) = Resolution!At(t, "verifying")
  BY <1>3, <1>4 DEF Resolution!AfterFetch, Runs
<1> HIDE DEF t
<1>6. Runs(t) /\ t.url \in BuiltUrls /\ t.jwt = BuiltJwt
  BY <1>1 DEF Runs
<1> QED BY <1>5, <1>6, AwaitingIsUnfaulted

\* A call starts: what was built is read without fault.
LEMMA StartedIsTreated ==
  ASSUME TreatInv, Undisturbed, NEW s, Runs(s), NEW t, t = Resolution!Started(wallet, s)
  PROVE  Unfaulted(t) \/ (t.url = s.url /\ NotOurs(s))
<1>1. CASE s.url.kind = "reference"
  <2>1. PICK point \in {"generating", "fetching"} : t = Resolution!At(s, point)
    BY <1>1 DEF Resolution!Started
  <2>2. Unfaulted(Resolution!At(s, point))
    <3>1. point # "verifying" /\ point \in {"generating", "fetching", "verifying"}
      OBVIOUS
    <3> QED BY <1>1, <3>1, AwaitingIsUnfaulted
  <2> QED BY <2>1, <2>2
<1>2. CASE s.url \in BuiltUrls /\ s.url.kind # "reference" /\ s.url.kind # "plain"
  <2>1. s.url.kind = "value" /\ s.url.jwt = BuiltJwt
    BY <1>2 DEF BuiltUrls
  <2>2. t = Resolution!AfterFetch(s, BuiltJwt)
    BY <2>1 DEF Resolution!Started
  <2> QED BY <1>2, <2>2, AfterFetchIsUnfaulted
<1>3. CASE s.url \in BuiltUrls /\ s.url.kind = "plain"
  <2>1. builder.phase = "built" /\ builder.type = "plain" /\ s.url.obj = Building!Received
    BY <1>3 DEF BuiltUrls
  <2>2. Building!Received = Building!ReadFromUrl(builder.params)
    BY <2>1 DEF Building!Received
  <2>3. ParseError(builder.params) = NoError /\ DOMAIN builder.params = Building!ObjectKeys
    BY <2>1 DEF TreatInv, Inv, Offered, Fitting
  <2>4. Resolution!ParseError(s.url.obj) = Resolution!NoError
    BY <2>1, <2>2, <2>3, UrlParses, ReadAlike
  <2>5. t = IF Resolution!ReturnUri(s.url.obj) = Absent
              THEN Resolution!AfterVerdict(wallet, s, NoError) ELSE Resolution!At(s, "verifying")
    BY <1>3, <2>4, ReadAlike DEF Resolution!Started, Resolution!PlainRequest
  <2> QED BY <1>3, <2>5, AfterVerdictIsUnfaulted, AwaitingIsUnfaulted
<1>4. CASE s.url \notin BuiltUrls /\ s.url.kind # "reference"
  <2>1. s.url \in OtherUrls /\ NotOurs(s)
    BY <1>4 DEF Runs, NotOurs
  <2>2. t.url = s.url
    <3>1. CASE \/ \E e : t = Resolution!Ended(s, e)
               \/ \E point : t = Resolution!At(s, point)
      BY <3>1, MembersAfter
    <3>2. CASE \E j : t = Resolution!AfterFetch(s, j)
      BY <3>2, FetchedUrl
    <3>3. CASE \E e : t = Resolution!AfterVerdict(wallet, s, e)
      BY <3>3, JudgedUrl
    <3> QED BY <1>4, <3>1, <3>2, <3>3 DEF Resolution!Started, Resolution!PlainRequest
  <2> QED BY <2>1, <2>2
<1> QED BY <1>1, <1>2, <1>3, <1>4

\* What is known of a call stays known until its next step.
LEMMA TreatedStays ==
  ASSUME NEW s, Inv, Treated(s), issued \subseteq issued',
         verifier' = verifier, builder.phase = "built" => builder' = builder
  PROVE  Treated(s)'
<1>1. PICK p \in Prepared : verifier = p[1]
  BY DEF Inv, Offered
<1>2. CASE s.pc = "idle"
  BY <1>2 DEF Treated
<1>3. CASE builder.phase = "built"
  <2>1. BuiltUrls' = BuiltUrls /\ BuiltJwt' = BuiltJwt /\ builder' = builder
    BY <1>3 DEF BuiltUrls, BuiltJwt, Building!Received, Building!UrlClientId
  <2>2. Foreign \subseteq Foreign'
    BY <2>1 DEF Foreign
  <2>3. NotOurs(s) => NotOurs(s)'
    BY <2>1 DEF NotOurs
  <2>4. Unfaulted(s) => Unfaulted(s)'
    BY <2>1 DEF Unfaulted
  <2> QED BY <2>2, <2>3, <2>4 DEF Treated
<1>4. CASE builder.phase # "built"
  <2>1. Foreign \subseteq Foreign'
    <3>1. ~MadeByAnother(BuiltJwt', verifier.client)
      BY DEF BuiltJwt, MadeByAnother
    <3>2. BuiltJwt' \notin OtherJwts
      BY <1>1, <3>1, VerifierAssumption
    <3> QED BY <1>4, <3>2 DEF Foreign
  <2>2. NotOurs(s) => NotOurs(s)'
    BY <1>4 DEF NotOurs
  <2>3. Unfaulted(s) => Unfaulted(s)'
    BY <1>4 DEF Unfaulted, BuiltUrls
  <2> QED BY <2>1, <2>2, <2>3 DEF Treated
<1> QED BY <1>2, <1>3, <1>4

\* A step of one call treats it no worse.
LEMMA CallIsTreated ==
  ASSUME TreatInv, Undisturbed, NEW c \in Calls, Validate(c) \/ CallProgress(c) \/ Cancel(c)
  PROVE  \E t : /\ call' = [call EXCEPT ![c] = t] /\ Treated(t) /\ t.pc # "idle"
                /\ issued \subseteq issued'
<1> DEFINE s == call[c]
<1>1. Handed(s) /\ Treated(s)
  BY DEF TreatInv, Inv, CallsHold
<1>2. s.pc \notin {"idle", "done"} => Runs(s)
  BY <1>1 DEF Handed, Runs
<1>3. ASSUME NEW t, Unfaulted(t) PROVE Treated(t)
  BY <1>3 DEF Treated
<1>4. ASSUME NEW t, s.pc # "idle", t.url = s.url, t.jwt = s.jwt, ~Unfaulted(s)
      PROVE  Treated(t)
  BY <1>1, <1>4 DEF Treated, NotOurs
<1>5. \A e \in {"cancelled", Internal, "access_denied", NoError} : e \in Passable
  BY DEF Passable
<1> HIDE DEF s
<1>6. CASE Validate(c)
  <2>1. PICK u \in BuiltUrls \cup OtherUrls : Resolution!Start(c, "validate_request", u)
    BY <1>6 DEF Validate
  <2> DEFINE from == [Resolution!Idle EXCEPT !.op = "validate_request", !.url = u]
             t == Resolution!Started(wallet, from)
  <2>2. call' = [call EXCEPT ![c] = t] /\ issued' = issued
    BY <2>1 DEF Resolution!Start
  <2>3. from = [pc |-> "idle", op |-> "validate_request", url |-> u, sent |-> None, jwt |-> None,
                outcome |-> "pending"]
    <3> DEFINE idle == Resolution!Idle
    <3>1. from = [idle EXCEPT !.op = "validate_request", !.url = u]
      OBVIOUS
    <3>2. idle = [pc |-> "idle", op |-> "validate_request", url |-> None, sent |-> None,
                  jwt |-> None, outcome |-> "pending"]
      BY DEF Resolution!Idle
    <3> HIDE DEF idle, from
    <3> QED BY <3>1, <3>2
  <2>4. Runs(from) /\ from.url = u
    BY <2>3 DEF Runs
  <2> HIDE DEF from
  <2>5. t.pc # "idle"
    BY <2>4, StartedIsUnderWay
  <2> HIDE DEF t
  <2>6. Unfaulted(t) \/ (t.url = from.url /\ NotOurs(from))
    BY <2>4, StartedIsTreated DEF t
  <2>7. Treated(t)
    BY <2>6, <1>3 DEF Treated, NotOurs
  <2> QED BY <2>2, <2>5, <2>7
<1>7. CASE Resolution!GenerateNonce(c)
  <2>1. s.pc = "generating" /\ issued \subseteq issued' /\ Runs(s)
    BY <1>2, <1>7 DEF Resolution!GenerateNonce, s
  <2> DEFINE t == Resolution!At(s, "fetching")
  <2>2. t = [pc |-> "fetching", op |-> s.op, url |-> s.url, sent |-> s.sent, jwt |-> s.jwt,
             outcome |-> s.outcome]
    BY <2>1, CallChanges DEF Resolution!At, Runs
  <2>3. PICK m : /\ call' = [call EXCEPT ![c] = m]
                 /\ m = t \/ \E n \in Nonces : m = [t EXCEPT !.sent = n]
    BY <1>7 DEF Resolution!GenerateNonce, s
  <2> HIDE DEF t
  <2>4. m.pc = "fetching" /\ m.outcome = "pending" /\ m.url = s.url /\ m.jwt = s.jwt
    BY <2>1, <2>2, <2>3 DEF Runs
  <2>5. Unfaulted(s) => Unfaulted(m)
    BY <2>1, <2>4 DEF Unfaulted, Passable, Resolution!NoncePoints
  <2> QED BY <1>3, <1>4, <2>1, <2>3, <2>4, <2>5
<1>8. CASE \E j \in Replies(c) : Resolution!FetchReply(c, j)
  <2>1. PICK j \in Replies(c) : Resolution!FetchReply(c, j)
    BY <1>8
  <2> DEFINE t == Resolution!AfterFetch(s, j)
  <2>2. s.pc = "fetching" /\ issued' = issued /\ Runs(s) /\ call' = [call EXCEPT ![c] = t]
    BY <1>2, <2>1 DEF Resolution!FetchReply, s
  <2>3. t.url = s.url /\ t.jwt = j /\ t.pc # "idle"
    BY <2>2, FetchedUrl
  <2>4. s.url.kind = "reference" \/ NotOurs(s)
    BY <1>1, <2>2 DEF Treated, Unfaulted
  <2>5. CASE NotOurs(s)
    <3> HIDE DEF t
    <3>1. Treated(t)
      BY <2>3, <2>5 DEF Treated, NotOurs
    <3> QED BY <2>2, <2>3, <3>1 DEF t
  <2>6. CASE s.url.kind = "reference" /\ j # BuiltJwt
    <3>1. j \in Foreign
      BY <2>6 DEF Replies, Foreign
    <3> HIDE DEF t
    <3>2. Treated(t)
      BY <2>3, <2>6, <3>1 DEF Treated
    <3> QED BY <2>2, <2>3, <3>2 DEF t
  <2>7. CASE s.url.kind = "reference" /\ j = BuiltJwt /\ s.url \in BuiltUrls
    <3>1. Unfaulted(t)
      BY <2>2, <2>7, AfterFetchIsUnfaulted
    <3> HIDE DEF t
    <3> QED BY <1>3, <2>2, <2>3, <3>1 DEF t
  <2>8. CASE j = BuiltJwt /\ s.url \notin BuiltUrls
    <3>1. BuiltJwt \notin OtherJwts
      <4>1. PICK p \in Prepared : verifier = p[1]
        BY DEF TreatInv, Inv, Offered
      <4> QED BY <4>1, BuiltByTheVerifier, VerifierAssumption
    <3>2. builder.phase = "built"
      BY <2>8, <3>1 DEF Replies
    <3>3. NotOurs(s)
      BY <2>8, <3>2 DEF NotOurs
    <3> QED BY <2>5, <3>3
  <2> QED BY <2>4, <2>5, <2>6, <2>7, <2>8
<1>9. CASE Resolution!FetchFails(c) \/ Resolution!NonceCheckFails(c) \/ Cancel(c)
  <2>1. PICK e \in {Internal, "cancelled"} :
          call' = [call EXCEPT ![c] = Resolution!Ended(s, e)] /\ issued' = issued /\ Runs(s)
    <3>1. CASE Cancel(c)
      BY <1>2, <3>1 DEF Cancel, Resolution!Cancel, s
    <3>2. CASE Resolution!FetchFails(c) \/ Resolution!NonceCheckFails(c)
      BY <1>2, <3>2, ReadAlike DEF Resolution!FetchFails, Resolution!NonceCheckFails,
                       Resolution!NoncePoints, s
    <3> QED BY <1>9, <3>1, <3>2
  <2>2. Unfaulted(Resolution!Ended(s, e)) /\ Resolution!Ended(s, e).pc = "done"
    BY <1>5, <2>1, EndedIsUnfaulted, MembersAfter
  <2> QED BY <1>3, <2>1, <2>2
<1>10. CASE Resolution!Verdict(c)
  <2>1. PICK e \in IF s.url.kind = "plain" THEN Resolution!RedirectUriVerdicts(wallet, s.url.obj)
                   ELSE Resolution!JwtVerdicts(wallet, s.jwt) :
          call' = [call EXCEPT ![c] = Resolution!AfterVerdict(wallet, s, e)]
    BY <1>10 DEF Resolution!Verdict, s
  <2> DEFINE t == Resolution!AfterVerdict(wallet, s, e)
  <2>2. s.pc = "verifying" /\ issued' = issued /\ Runs(s)
    BY <1>2, <1>10 DEF Resolution!Verdict, s
  <2>3. t.url = s.url /\ t.jwt = s.jwt /\ t.pc # "idle"
    BY <2>2, JudgedUrl
  <2>4. CASE Unfaulted(s)
    <3>1. s.url \in BuiltUrls /\ (s.url.kind = "plain" \/ s.jwt = BuiltJwt)
      BY <2>2, <2>4 DEF Unfaulted
    <3>2. e \in {NoError, Internal, "access_denied"}
      <4>1. CASE s.url.kind = "plain"
        BY <4>1, ReadAlike DEF Resolution!RedirectUriVerdicts, Resolution!PolicyVerdicts
      <4>2. CASE s.url.kind # "plain"
        <5>1. builder.phase = "built" /\ builder.type # "plain"
          BY <3>1, <4>2 DEF BuiltUrls
        <5> QED BY <3>1, <4>2, <5>1, BuiltVerdicts
      <4> QED BY <4>1, <4>2
    <3>3. Unfaulted(t)
      BY <2>2, <3>1, <3>2, AfterVerdictIsUnfaulted
    <3> HIDE DEF t
    <3> QED BY <1>3, <2>1, <2>2, <2>3, <3>3 DEF t
  <2>5. CASE ~Unfaulted(s)
    <3> HIDE DEF t
    <3>1. Treated(t)
      BY <1>4, <2>2, <2>3, <2>5
    <3> QED BY <2>1, <2>2, <2>3, <3>1 DEF t
  <2> QED BY <2>4, <2>5
<1>11. CASE Resolution!ValidateNonce(c) \/ Resolution!NonceAccepted(c) \/ Resolution!NonceRefused(c)
  <2>1. PICK t : /\ call' = [call EXCEPT ![c] = t] /\ issued' = issued
                 /\ s.pc \in Resolution!NoncePoints
                 /\ \/ t = Resolution!AfterNonce(s) \/ t = Resolution!Ended(s, "invalid_request")
                    \/ \E point \in {"nonce_valid", "nonce_invalid"} : t = Resolution!At(s, point)
    BY <1>11 DEF Resolution!ValidateNonce, Resolution!NonceAccepted, Resolution!NonceRefused,
                 Resolution!NoncePoints, s
  <2>2. Runs(s) /\ ~Unfaulted(s)
    BY <1>2, <2>1 DEF Unfaulted, Resolution!NoncePoints
  <2>3. t.url = s.url /\ t.jwt = s.jwt /\ t.pc # "idle"
    BY <2>1, <2>2, JudgedUrl, MembersAfter
  <2> QED BY <1>4, <2>1, <2>2, <2>3 DEF Resolution!NoncePoints
<1> QED BY <1>6, <1>7, <1>8, <1>9, <1>10, <1>11 DEF CallProgress

LEMMA TreatInit == Init => TreatInv
<1> SUFFICES ASSUME Init PROVE TreatInv
  OBVIOUS
<1>1. Inv
  BY InitIsInv
<1>2. Fitting
  <2>1. PICK p \in Prepared : builder = p[2]
    BY DEF Init
  <2>2. builder = [phase |-> "configuring", params |-> builder.params, dcql |-> builder.dcql,
                   definition |-> builder.definition, metadata |-> builder.metadata,
                   type |-> builder.type]
    BY <2>1, VerifierAssumption
  <2>3. builder.phase = "configuring"
    BY <2>2
  <2> QED BY <2>3 DEF Fitting
<1>3. wallet \in Wallets /\ \A c \in Calls : call[c].pc = "idle"
  BY DEF Init, Resolution!Init, Resolution!Idle
<1> QED BY <1>1, <1>2, <1>3 DEF TreatInv, Treated

\* What is handed out, served and verified of a built request stays in order.
LEMMA TreatStep == TreatInv /\ [Next]_vars => TreatInv'
<1> SUFFICES ASSUME TreatInv, [Next]_vars PROVE TreatInv'
  OBVIOUS
<1>1. Inv /\ Inv' /\ Offered
  BY StepKeepsInv DEF TreatInv, Inv
<1>2. CASE Sign \/ \E type \in Building!RequestTypes : Build(type)
  <2>1. /\ wallet' = wallet /\ call' = call /\ issued' = issued /\ verifier' = verifier
        /\ builder.phase # "built"
    BY <1>1, <1>2, VerifierSteps DEF callSide
  <2>2. Fitting' /\ builder'.params.wallet_nonce = builder.params.wallet_nonce
    BY <1>1, <1>2, <2>1, FittingSteps DEF TreatInv
  <2>3. Undisturbed' => Undisturbed
    BY <2>1, <2>2 DEF Undisturbed
  <2>4. Undisturbed' => \A c \in Calls : Treated(call[c])'
    <3> SUFFICES ASSUME Undisturbed', NEW c \in Calls PROVE Treated(call[c])'
      OBVIOUS
    <3> PICK v : v = call[c]
      OBVIOUS
    <3>1. Treated(v)
      BY <1>1, <2>3 DEF TreatInv
    <3>2. Treated(v)'
      BY <1>1, <2>1, <3>1, TreatedStays
    <3>3. v = call'[c]
      BY <2>1
    <3> QED BY <3>2, <3>3 DEF Treated, NotOurs, Unfaulted
  <2> QED BY <1>1, <2>1, <2>2, <2>4 DEF TreatInv
<1>3. CASE \E c \in Calls : Validate(c) \/ CallProgress(c) \/ Cancel(c)
  <2>1. PICK c \in Calls : Validate(c) \/ CallProgress(c) \/ Cancel(c)
    BY <1>3
  <2>2. wallet' = wallet /\ builder' = builder /\ verifier' = verifier
    <3>1. wallet' = wallet
      BY <1>1, <2>1, CallSteps DEF Inv
    <3> QED BY <2>1, <3>1 DEF Validate, CallProgress, Cancel, verifierSide
  <2>3. Fitting'
    BY <1>1, <2>2, FittingSteps DEF TreatInv, verifierSide
  <2>4. Undisturbed' = Undisturbed
    BY <2>2 DEF Undisturbed
  <2>5. Undisturbed => \A x \in Calls : Treated(call[x])'
    <3> SUFFICES ASSUME Undisturbed, NEW x \in Calls PROVE Treated(call[x])'
      OBVIOUS
    <3>1. PICK t : /\ call' = [call EXCEPT ![c] = t] /\ Treated(t) /\ t.pc # "idle"
                   /\ issued \subseteq issued'
      BY <2>1, CallIsTreated
    <3> PICK v : v = call'[x]
      OBVIOUS
    <3>2. Treated(v)
      <4>1. v = t \/ v = call[x]
        BY <1>1, <3>1 DEF Inv, CallsHold
      <4>2. Treated(call[x])
        BY DEF TreatInv
      <4> QED BY <3>1, <4>1, <4>2
    <3>3. Treated(v)'
      BY <1>1, <2>2, <3>1, <3>2, TreatedStays
    <3> QED BY <3>3 DEF Treated, NotOurs, Unfaulted
  <2> QED BY <1>1, <2>2, <2>3, <2>4, <2>5 DEF TreatInv
<1>4. CASE UNCHANGED <<verifierSide, callSide>>
  <2>1. wallet' = wallet /\ builder' = builder /\ verifier' = verifier /\ call' = call
        /\ issued' = issued
    BY <1>4 DEF verifierSide, callSide
  <2>2. Fitting'
    BY <1>1, <2>1, FittingSteps DEF TreatInv, verifierSide
  <2>3. Undisturbed' => \A c \in Calls : Treated(call[c])'
    <3> SUFFICES ASSUME Undisturbed', NEW c \in Calls PROVE Treated(call[c])'
      OBVIOUS
    <3> PICK v : v = call'[c]
      OBVIOUS
    <3>1. Undisturbed
      BY <2>1 DEF Undisturbed
    <3>2. Treated(v)
      BY <1>1, <2>1, <3>1 DEF TreatInv
    <3>3. Treated(v)'
      BY <1>1, <2>1, <3>2, TreatedStays
    <3> QED BY <3>3 DEF Treated, NotOurs, Unfaulted
  <2> QED BY <1>1, <2>1, <2>2, <2>3 DEF TreatInv
<1>5. CASE \E c \in Calls :
             \/ ResolveQuery(c) \/ DefinitionReply(c)
             \/ \E k \in Attempts :
                  \/ \E r \in Responses : Answer(c, k, r)
                  \/ AnswerProgress(c, k) \/ Arrive(c, k) \/ Drop(c, k)
  <2>1. UNCHANGED <<verifierSide, callSide>>
    BY <1>5 DEF ResolveQuery, DefinitionReply, QueryBecomes, Answer, AnswerProgress, Arrive, Drop
  <2> QED BY <1>4, <2>1
<1>6. CASE UNCHANGED vars
  BY <1>4, <1>6 DEF vars, verifierSide, callSide
<1> QED BY <1>2, <1>3, <1>5, <1>6 DEF Next

\* A wallet that enforces no less than it publishes finds no fault with a
\* request that was built for what it publishes: whatever is checked again on
\* the way, by the parser, the callbacks and the metadata checks, agrees with
\* what build has checked, however calls, replies and other requests interleave.
THEOREM BuiltIsNotRefused == Spec => []BuiltRequestIsNotRefused
<1>1. TreatInv => BuiltRequestIsNotRefused
  <2> SUFFICES ASSUME TreatInv, Undisturbed, NEW c \in Calls,
                      call[c].url \in BuiltUrls, call[c].pc = "done",
                      call[c].url.kind = "reference" => call[c].jwt \notin Replies(c) \ {BuiltJwt}
               PROVE  call[c].outcome \notin
                        ProtocolErrors \ {"access_denied", "vp_formats_not_supported"}
    BY DEF BuiltRequestIsNotRefused, Undisturbed
  <2> DEFINE s == call[c]
  <2>1. Treated(s) /\ builder.phase = "built"
    BY DEF TreatInv, BuiltUrls
  <2>2. PICK p \in Prepared : verifier = p[1]
    BY DEF TreatInv, Inv, Offered
  <2>3. ~NotOurs(s)
    <3> SUFFICES ASSUME s.url \in OtherUrls, s.url.kind # "reference" PROVE FALSE
      BY DEF NotOurs
    <3>1. CASE s.url.kind = "plain"
      <4>1. s.url.obj = Building!Received
        BY <3>1 DEF BuiltUrls
      <4>2. DOMAIN builder.params = Building!ObjectKeys
            /\ builder.params.client_id = verifier.client.id
        BY <2>1 DEF TreatInv, Inv, Offered
      <4>3. Building!Received.client_id = verifier.client.id
        BY <4>2, UrlParses DEF Building!Received
      <4> QED BY <2>2, <3>1, <4>1, <4>3, VerifierAssumption
    <3>2. CASE s.url.kind = "value"
      <4>1. s.url.jwt = BuiltJwt
        BY <3>2 DEF BuiltUrls
      <4> QED BY <2>2, <3>2, <4>1, BuiltByTheVerifier, VerifierAssumption
    <3> QED BY <3>1, <3>2 DEF BuiltUrls
  <2>4. ~(s.url.kind = "reference" /\ s.jwt \in Foreign)
    BY DEF Foreign, Replies
  <2>5. Unfaulted(s)
    BY <2>1, <2>3, <2>4 DEF Treated
  <2> QED BY <2>5 DEF Unfaulted, Passable, ProtocolErrors, NoError, Internal
<1> QED BY <1>1, TreatInit, TreatStep, PTL DEF Spec

\* Metadata that was decoded is followed by its wallet: what it publishes
\* decodes to the metadata itself.
THEOREM DecodedIsFollowed ==
  ASSUME NEW o, DOMAIN o = MetadataKeys, o = [k \in MetadataKeys |-> o[k]], Decodable(o)
  PROVE  ToObject(FromObject(o)) = o /\ FollowsWhatItPublishes(FromObject(o))
<1> DEFINE m == FromObject(o)
<1>1. /\ m.raw = o /\ m.typed.authorization_endpoint = o.authorization_endpoint
      /\ m.typed.vp_formats_supported = o.vp_formats_supported
  BY DEF FromObject, Decodable, Required, MetadataKeys
<1>2. ToObject(m) = [o EXCEPT !.authorization_endpoint = o.authorization_endpoint,
                              !.vp_formats_supported = o.vp_formats_supported]
  BY <1>1 DEF ToObject
<1>3. ToObject(m) = o
  BY <1>2
<1> QED BY <1>3 DEF FollowsWhatItPublishes

\* The lists FollowsWhatItPublishes is about.
FollowedKeys == {"response_types_supported", "subject_syntax_types_supported"}

\* What is published of metadata, key by key.
LEMMA PublishedKeys ==
  ASSUME NEW m, DOMAIN m.raw = MetadataKeys
  PROVE  /\ \A k \in FollowedKeys : ToObject(m)[k] = m.raw[k]
         /\ ToObject(m).authorization_endpoint = m.typed.authorization_endpoint
         /\ ToObject(m).vp_formats_supported = m.typed.vp_formats_supported
<1>1. FollowedKeys \cup Required \subseteq MetadataKeys
  BY WalletAssumption DEF FollowedKeys, MetadataKeys, Required
<1> QED BY <1>1 DEF ToObject, FollowedKeys, Required

\* It stays so when prefixes or algorithms are appended or the formats are set,
\* any number of times; only insert, which DerefMut lends, can end it.
THEOREM ChangesAreFollowed ==
  ASSUME NEW raw, NEW typed, DOMAIN raw = MetadataKeys, DOMAIN typed = MetadataKeys,
         NEW m, m = [raw |-> raw, typed |-> typed],
         Decodable(ToObject(m)), FollowsWhatItPublishes(m), NEW n,
         \/ \E key \in {Prefixes, SigningAlgs} : \E values : n = AppendList(m, key, values)
         \/ \E formats : formats \notin {Absent, Bad} /\ n = SetFormats(m, formats)
  PROVE  Decodable(ToObject(n)) /\ FollowsWhatItPublishes(n)
<1>1. FollowedKeys \cup Required \subseteq MetadataKeys
  BY WalletAssumption DEF FollowedKeys, MetadataKeys, Required
<1>2. /\ DOMAIN n.raw = MetadataKeys /\ \A k \in FollowedKeys : n.raw[k] = raw[k]
      /\ \A k \in MetadataKeys \ {"vp_formats_supported"} : n.typed[k] = typed[k]
      /\ n.typed.vp_formats_supported \notin {Absent, Bad}
  <2>1. CASE \E key \in {Prefixes, SigningAlgs} : \E values : n = AppendList(m, key, values)
    <3>1. PICK key \in {Prefixes, SigningAlgs} : \E value : n = [m EXCEPT !.raw[key] = value]
      BY <2>1 DEF AppendList
    <3>2. (\E value : n.raw = [raw EXCEPT ![key] = value]) /\ n.typed = typed
      BY <3>1
    <3>3. key \notin FollowedKeys
      BY DEF Prefixes, SigningAlgs, FollowedKeys
    <3>4. typed.vp_formats_supported \notin {Absent, Bad}
      BY PublishedKeys DEF Decodable, Required, Readable
    <3> QED BY <1>1, <3>2, <3>3, <3>4
  <2>2. CASE \E formats : formats \notin {Absent, Bad} /\ n = SetFormats(m, formats)
    <3>1. PICK formats : formats \notin {Absent, Bad} /\ n = SetFormats(m, formats)
      BY <2>2
    <3>2. n.raw = raw /\ n.typed = [typed EXCEPT !.vp_formats_supported = formats]
      BY <3>1 DEF SetFormats
    <3> QED BY <1>1, <3>1, <3>2 DEF Required
  <2> QED BY <2>1, <2>2
<1>3. \A k \in FollowedKeys : ToObject(n)[k] = ToObject(m)[k] /\ n.typed[k] = m.typed[k]
  BY <1>1, <1>2, PublishedKeys DEF FollowedKeys
<1>4. Decodable(ToObject(n))
  <2>1. /\ ToObject(n).authorization_endpoint = ToObject(m).authorization_endpoint
        /\ ToObject(n).vp_formats_supported \notin {Absent, Bad}
        /\ ToObject(n).response_types_supported = ToObject(m).response_types_supported
    BY <1>1, <1>2, <1>3, PublishedKeys DEF Required, FollowedKeys
  <2> QED BY <2>1 DEF Decodable, Required, Readable
<1>5. \A k \in FollowedKeys : FromObject(ToObject(n)).typed[k] = FromObject(ToObject(m)).typed[k]
  BY <1>1, <1>3 DEF FromObject, Readable
<1> QED BY <1>3, <1>4, <1>5 DEF FollowsWhatItPublishes, FollowedKeys

============================================================================
