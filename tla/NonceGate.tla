----------------------------- MODULE NonceGate ------------------------------
(***************************************************************************)
(* What Wallet::generate_nonce and Wallet::validate_nonce are there for    *)
(* (wallet.rs): a nonce lets at most one request in.  A nonce is issued,   *)
(* then spent by one request, then that request may be let in on it.  The  *)
(* request may be turned down at any time, a spent nonce is not given      *)
(* back, and a request that has spent one cannot pass for one without.     *)
(***************************************************************************)
CONSTANTS
  Calls,      \* requests that are being decided on
  Nonces,     \* nonces that can be issued
  None        \* no call

VARIABLES
  issued,     \* the nonces given out
  spentBy,    \* spentBy[n]: the call that has spent n, or None
  result      \* result[c]: "open", "closed", "admitted", or the nonce that let c in

vars == <<issued, spentBy, result>>

Init ==
  /\ issued = {}
  /\ spentBy = [n \in Nonces |-> None]
  /\ result = [c \in Calls |-> "open"]

Issue ==
  /\ \E n \in Nonces \ issued : issued' = issued \cup {n}
  /\ UNCHANGED <<spentBy, result>>

\* The request came with n, and has not come with another.
Spend(c, n) ==
  /\ result[c] = "open"
  /\ \A m \in Nonces : spentBy[m] # c
  /\ n \in issued /\ spentBy[n] = None
  /\ spentBy' = [spentBy EXCEPT ![n] = c]
  /\ UNCHANGED <<issued, result>>

\* The request is let in on the nonce it has spent.
Admit(c, n) ==
  /\ result[c] = "open" /\ spentBy[n] = c
  /\ result' = [result EXCEPT ![c] = n]
  /\ UNCHANGED <<issued, spentBy>>

\* The request came without a nonce, and is decided on by other means.
AdmitWithout(c) ==
  /\ result[c] = "open"
  /\ \A m \in Nonces : spentBy[m] # c
  /\ result' = [result EXCEPT ![c] = "admitted"]
  /\ UNCHANGED <<issued, spentBy>>

\* The request is turned down or given up.
Close(c) ==
  /\ result[c] = "open"
  /\ result' = [result EXCEPT ![c] = "closed"]
  /\ UNCHANGED <<issued, spentBy>>

Next ==
  \/ Issue
  \/ \E c \in Calls : AdmitWithout(c) \/ Close(c)
  \/ \E c \in Calls, n \in Nonces : Spend(c, n) \/ Admit(c, n)

Spec == Init /\ [][Next]_vars

=============================================================================
