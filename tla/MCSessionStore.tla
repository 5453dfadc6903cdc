--------------------------- MODULE MCSessionStore ---------------------------
(* A small instance of SessionStore: three tasks, one session, two statuses. *)
EXTENDS SessionStore

CONSTANTS t1, t2, t3, u1

=============================================================================
