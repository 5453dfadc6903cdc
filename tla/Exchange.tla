------------------------------- MODULE Exchange -------------------------------
(***************************************************************************)
(* What an exchange between a verifier and a wallet promises, whatever     *)
(* happens on the way: a wallet that accepts a request of the verifier     *)
(* accepts what the verifier asked, an answer reaches the verifier only    *)
(* from a wallet that has accepted, and a wallet is told that its answer   *)
(* was delivered only when the verifier has it.                            *)
(***************************************************************************)
CONSTANTS
  Calls,          \* a wallet's attempts to validate the request
  Attempts        \* its attempts to submit a response, for each of them

VARIABLES
  asked,          \* the request of the verifier: a set of at most one
  accepted,       \* accepted[c]: the request as the wallet has accepted it, likewise
  answer,         \* answer[c, k]: the response the verifier has, likewise
  told            \* told[c, k]: what the wallet knows of that response

vars == <<asked, accepted, answer, told>>

Init ==
  /\ asked = {}
  /\ accepted = [c \in Calls |-> {}]
  /\ answer = [s \in Calls \X Attempts |-> {}]
  /\ told = [s \in Calls \X Attempts |-> "nothing"]

Ask ==
  /\ asked = {} /\ asked' # {}
  /\ UNCHANGED <<accepted, answer, told>>

Accept(c) ==
  /\ asked # {} /\ accepted[c] = {}
  /\ accepted' = [accepted EXCEPT ![c] = asked]
  /\ UNCHANGED <<asked, answer, told>>

Answer(c, k) ==
  /\ accepted[c] # {} /\ answer[<<c, k>>] = {}
  /\ \A s \in Calls \X Attempts : s # <<c, k>> => answer'[s] = answer[s]
  /\ DOMAIN answer' = Calls \X Attempts
  /\ UNCHANGED <<asked, accepted, told>>

Tell(c, k) ==
  /\ accepted[c] # {} /\ told[<<c, k>>] = "nothing"
  /\ \E news \in {"failed"} \cup {n \in {"delivered"} : answer[<<c, k>>] # {}} :
       told' = [told EXCEPT ![<<c, k>>] = news]
  /\ UNCHANGED <<asked, accepted, answer>>

Next ==
  \/ Ask
  \/ \E c \in Calls : Accept(c)
  \/ \E c \in Calls, k \in Attempts : Answer(c, k) \/ Tell(c, k)

Spec == Init /\ [][Next]_vars

============================================================================
