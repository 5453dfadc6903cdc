-------------------------- MODULE ResponseSubmission --------------------------
(***************************************************************************)
(* Wallet::submit_response (wallet.rs) between a wallet that may submit    *)
(* again what has failed and a network that may lose a request or its      *)
(* reply, or bring the request when the wallet has given it up.            *)
(*                                                                         *)
(* At the other end is an application that decodes what arrives with       *)
(* AuthorizationResponse::from_x_www_form_urlencoded and answers with a    *)
(* success status only when that worked; a response in a fragment is       *)
(* brought there by the user agent.                                        *)
(***************************************************************************)
EXTENDS AuthorizationResponse

CONSTANTS
  None,
  Submissions     \* the calls of submit_response

VARIABLES
  sub,            \* sub[s]: the local state of a call
  inbox           \* inbox[s]: what has arrived of submission s, or None

vars == <<sub, inbox>>

Unsent == [pc |-> "idle", uri |-> None, mode |-> None, response |-> None,
           form |-> None, outcome |-> "pending"]

Returned(s, outcome) == [s EXCEPT !.pc = "returned", !.outcome = outcome]

Outcomes == {"pending", "sent", "redirected", "failed", "dropped"}

TypeOK ==
  \A s \in Submissions :
    /\ DOMAIN sub[s] = DOMAIN Unsent
    /\ sub[s].pc \in {"idle", "posting", "returned"} /\ sub[s].outcome \in Outcomes
    /\ (sub[s].pc = "returned") <=> (sub[s].outcome # "pending")
    /\ inbox[s] # None => DOMAIN inbox[s] = {"uri", "response"}

----------------------------------------------------------------------------
\* The form of the response each mode takes.
Takes(mode, r) ==
  \/ mode \in {"direct_post"} \cup FragmentModes /\ r.kind = "unencoded"
  \/ mode = "direct_post.jwt" /\ r.kind = "jwt"

\* Faulty variant: the form of the response is not looked at.
CalledUnchecked(uri, mode, r) ==
  LET s == [Unsent EXCEPT !.uri = uri, !.mode = mode, !.response = r, !.form = IntoForm(r)] IN
  IF mode \in DirectPostModes THEN [s EXCEPT !.pc = "posting"] ELSE Returned(s, "redirected")

\* submit_response up to its await; a fragment needs none.
Called(uri, mode, r) ==
  LET s == [Unsent EXCEPT !.uri = uri, !.mode = mode, !.response = r] IN
  IF ~Takes(mode, r) THEN Returned(s, "failed")
  ELSE IF mode \in DirectPostModes THEN [s EXCEPT !.pc = "posting", !.form = IntoForm(r)]
  ELSE [Returned(s, "redirected") EXCEPT !.form = IntoForm(r)]

Init ==
  /\ sub = [s \in Submissions |-> Unsent]
  /\ inbox = [s \in Submissions |-> None]

Submit(s, uri, mode, r) ==
  /\ sub[s].pc = "idle"
  /\ sub' = [sub EXCEPT ![s] = Called(uri, mode, r)]
  /\ UNCHANGED inbox

\* The POST request, or the user agent with the fragment, arrives; perhaps
\* after the call has failed or was dropped.
Arrive(s) ==
  /\ sub[s].form # None /\ inbox[s] = None
  /\ inbox' = [inbox EXCEPT ![s] = [uri |-> sub[s].uri, response |-> FromForm(sub[s].form)]]
  /\ UNCHANGED sub

\* Faulty variant: the status is not looked at.
ReplyAnyStatus(s, success, redirect) ==
  /\ sub[s].pc = "posting" /\ inbox[s] # None
  /\ success => inbox[s].response # Bad
  /\ sub' = [sub EXCEPT ![s] = Returned(@, IF redirect THEN "redirected" ELSE "sent")]
  /\ UNCHANGED inbox

\* A reply: with a success status, its body may be a PostRedirection.
Reply(s, success, redirect) ==
  /\ sub[s].pc = "posting" /\ inbox[s] # None
  /\ success => inbox[s].response # Bad
  /\ sub' = [sub EXCEPT ![s] =
       Returned(@, IF ~success THEN "failed" ELSE IF redirect THEN "redirected" ELSE "sent")]
  /\ UNCHANGED inbox

\* A transport error, or a failing status from something on the way.
Fail(s) ==
  /\ sub[s].pc = "posting"
  /\ sub' = [sub EXCEPT ![s] = Returned(@, "failed")]
  /\ UNCHANGED inbox

\* The application drops the future.
Drop(s) ==
  /\ sub[s].pc = "posting"
  /\ sub' = [sub EXCEPT ![s] = Returned(@, "dropped")]
  /\ UNCHANGED inbox

Progress(s) ==
  \/ \E success, redirect \in BOOLEAN : Reply(s, success, redirect)
  \/ Fail(s)

----------------------------------------------------------------------------
(* Properties *)

\* submit_response returns Ok for a POST only when the verifier holds the very
\* response that was submitted: status, encoding and decoding agree.
OkMeansDelivered ==
  \A s \in Submissions :
    sub[s].mode \in DirectPostModes /\ sub[s].outcome \in {"sent", "redirected"} =>
      inbox[s] = [uri |-> sub[s].uri, response |-> sub[s].response]

\* What arrives decodes to the response that was submitted, in the form the
\* response mode calls for, or does not decode at all.
DecodedIsWhatWasSent ==
  \A s \in Submissions :
    inbox[s] # None /\ inbox[s].response # Bad =>
      /\ inbox[s].response = sub[s].response
      /\ (sub[s].mode = "direct_post.jwt") <=> (inbox[s].response.kind = "jwt")

----------------------------------------------------------------------------
(* What the documentation says, and the code does not do *)

\* response/mod.rs: "`vp_token` is JSON string encoded" in the form the wallet
\* encodes and the verifier decodes; then what a wallet sends can be decoded.
WhatIsSentDecodes ==
  \A s \in Submissions : inbox[s] # None => inbox[s].response # Bad

============================================================================
