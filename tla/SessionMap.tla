----------------------------- MODULE SessionMap -----------------------------
(***************************************************************************)
(* What the SessionStore trait promises (verifier/session.rs): a map from  *)
(* session ids to sessions whose operations take effect one at a time.  An *)
(* operation that is turned away has no effect.  Of a session only the     *)
(* status is kept: the other fields never change after initiate.           *)
(***************************************************************************)
CONSTANTS
  Callers,     \* tasks that use the store
  Uuids,       \* session ids
  Statuses,    \* values of Status
  None         \* no session, no request

VARIABLES
  sessions,    \* sessions[u]: the status of session u, or None
  request,     \* request[c]: the operation c waits for, or None
  answer       \* answer[c]: the result of the last operation of c

vars == <<sessions, request, answer>>

\* initiate, update_status, get_session, remove_session
Operation ==
  [kind : {"initiate", "update_status"}, uuid : Uuids, status : Statuses] \cup
  [kind : {"get_session", "remove_session"}, uuid : Uuids]

\* The result of an operation on a map, and the map after it.
Result(op, map) ==
  IF op.kind = "initiate" THEN "ok"
  ELSE IF map[op.uuid] = None THEN "session not found"
  ELSE IF op.kind = "get_session" THEN map[op.uuid] ELSE "ok"

Effect(op, map) ==
  IF op.kind = "initiate" THEN [map EXCEPT ![op.uuid] = op.status]
  ELSE IF map[op.uuid] = None THEN map
  ELSE IF op.kind = "update_status" THEN [map EXCEPT ![op.uuid] = op.status]
  ELSE IF op.kind = "remove_session" THEN [map EXCEPT ![op.uuid] = None] ELSE map

----------------------------------------------------------------------------
Init ==
  /\ sessions = [u \in Uuids |-> None]
  /\ request = [c \in Callers |-> None]
  /\ answer = [c \in Callers |-> "none"]

Ask(c, op) ==
  /\ request[c] = None
  /\ request' = [request EXCEPT ![c] = op]
  /\ answer' = [answer EXCEPT ![c] = "none"]
  /\ UNCHANGED sessions

Perform(c) ==
  /\ request[c] # None
  /\ sessions' = Effect(request[c], sessions)
  /\ answer' = [answer EXCEPT ![c] = Result(request[c], sessions)]
  /\ request' = [request EXCEPT ![c] = None]

TurnAway(c) ==
  /\ request[c] # None
  /\ answer' = [answer EXCEPT ![c] = "busy"]
  /\ request' = [request EXCEPT ![c] = None]
  /\ UNCHANGED sessions

Next ==
  \E c \in Callers :
    \/ \E op \in Operation : Ask(c, op)
    \/ Perform(c)
    \/ TurnAway(c)

Spec == Init /\ [][Next]_vars

=============================================================================
