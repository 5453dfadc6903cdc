---------------------------- MODULE SessionStore ----------------------------
(***************************************************************************)
(* MemoryStore (verifier/session.rs): a BTreeMap behind a mutex that is    *)
(* only ever tried.  A task that finds the mutex taken gets an error; one  *)
(* that takes it looks its session up, then acts on the entry it found,    *)
(* and releases the mutex as the guard goes out of scope.                  *)
(***************************************************************************)
CONSTANTS
  Callers,     \* tasks, on as many threads
  Uuids,
  Statuses,    \* values of Status (oid4vp-frontend/src/lib.rs)
  None         \* no session, no operation, no holder of the mutex

ASSUME StoreAssumption ==
  /\ None \notin Callers /\ None \notin Statuses
  /\ None \notin
       [kind : {"initiate", "update_status"}, uuid : Uuids, status : Statuses] \cup
       [kind : {"get_session", "remove_session"}, uuid : Uuids]

VARIABLES
  store,       \* store[u]: the status of session u, or None
  lock,        \* the task that holds the mutex, or None
  task         \* task[c]: [pc, op, found, answer]

vars == <<store, lock, task>>

Operation ==
  [kind : {"initiate", "update_status"}, uuid : Uuids, status : Statuses] \cup
  [kind : {"get_session", "remove_session"}, uuid : Uuids]

Answers == Statuses \cup {"none", "ok", "busy", "session not found"}

Idle == [pc |-> "idle", op |-> None, found |-> None, answer |-> "none"]

TypeOK ==
  /\ store \in [Uuids -> Statuses \cup {None}]
  /\ lock \in Callers \cup {None}
  /\ task \in [Callers -> [pc : {"idle", "called", "locked", "found", "unlocking"},
                           op : Operation \cup {None}, found : Statuses \cup {None},
                           answer : Answers]]

----------------------------------------------------------------------------
Init ==
  /\ store = [u \in Uuids |-> None]
  /\ lock = None
  /\ task = [c \in Callers |-> Idle]

Call(c, op) ==
  /\ task[c].pc = "idle"
  /\ task' = [task EXCEPT ![c] = [Idle EXCEPT !.pc = "called", !.op = op]]
  /\ UNCHANGED <<store, lock>>

\* Faulty variant: does not look whether the mutex is taken.
TryLockAnyway(c) ==
  /\ task[c].pc = "called"
  /\ lock' = c
  /\ task' = [task EXCEPT ![c].pc = "locked"]
  /\ UNCHANGED store

\* Faulty variant: a task that finds the mutex taken tries again for ever.
TryLockAgain(c) ==
  /\ task[c].pc = "called"
  /\ IF lock = None
     THEN lock' = c /\ task' = [task EXCEPT ![c].pc = "locked"]
     ELSE UNCHANGED <<lock, task>>
  /\ UNCHANGED store

\* try_lock()?
TryLock(c) ==
  /\ task[c].pc = "called"
  /\ IF lock = None
     THEN /\ lock' = c
          /\ task' = [task EXCEPT ![c].pc = "locked"]
     ELSE /\ task' = [task EXCEPT ![c] = [Idle EXCEPT !.answer = "busy"]]
          /\ UNCHANGED lock
  /\ UNCHANGED store

\* get, get_mut and the search of insert and remove.
LookUp(c) ==
  /\ task[c].pc = "locked"
  /\ task' = [task EXCEPT ![c].pc = "found", ![c].found = store[task[c].op.uuid]]
  /\ UNCHANGED <<store, lock>>

\* Faulty variant: the entry is handed out without looking whether it is there.
ActUnchecked(c) ==
  /\ task[c].pc = "found"
  /\ LET op == task[c].op IN
       /\ store' = IF op.kind \in {"initiate", "update_status"}
                   THEN [store EXCEPT ![op.uuid] = op.status]
                   ELSE IF op.kind = "remove_session" THEN [store EXCEPT ![op.uuid] = None]
                   ELSE store
       /\ task' = [task EXCEPT ![c].pc = "unlocking",
                    ![c].answer = IF op.kind = "get_session" THEN task[c].found ELSE "ok"]
  /\ UNCHANGED lock

\* Faulty variant: a status for a session that is not there makes a session.
ActUpserting(c) ==
  /\ task[c].pc = "found"
  /\ LET op == task[c].op
         found == task[c].found IN
       /\ store' =
            IF op.kind \in {"initiate", "update_status"}
              THEN [store EXCEPT ![op.uuid] = op.status]
            ELSE IF op.kind = "remove_session" THEN [store EXCEPT ![op.uuid] = None]
            ELSE store
       /\ task' = [task EXCEPT ![c].pc = "unlocking",
                    ![c].answer = IF op.kind \in {"initiate", "update_status"} THEN "ok"
                                  ELSE IF found = None THEN "session not found"
                                  ELSE IF op.kind = "get_session" THEN found ELSE "ok"]
  /\ UNCHANGED lock

\* What is done with the entry that was found, or with its absence.
Act(c) ==
  /\ task[c].pc = "found"
  /\ LET op == task[c].op
         found == task[c].found IN
       /\ store' =
            IF op.kind = "initiate" THEN [store EXCEPT ![op.uuid] = op.status]
            ELSE IF found = None THEN store
            ELSE IF op.kind = "update_status" THEN [store EXCEPT ![op.uuid] = op.status]
            ELSE IF op.kind = "remove_session" THEN [store EXCEPT ![op.uuid] = None]
            ELSE store
       /\ task' = [task EXCEPT ![c].pc = "unlocking",
                    ![c].answer = IF op.kind = "initiate" THEN "ok"
                                  ELSE IF found = None THEN "session not found"
                                  ELSE IF op.kind = "get_session" THEN found ELSE "ok"]
  /\ UNCHANGED lock

\* Faulty variant: a method that returns early keeps the mutex.
UnlockUnlessNotFound(c) ==
  /\ task[c].pc = "unlocking"
  /\ lock' = IF task[c].answer = "session not found" THEN lock ELSE None
  /\ task' = [task EXCEPT ![c] = [Idle EXCEPT !.answer = task[c].answer]]
  /\ UNCHANGED store

\* The guard goes out of scope and the result is returned.
Unlock(c) ==
  /\ task[c].pc = "unlocking"
  /\ lock' = None
  /\ task' = [task EXCEPT ![c] = [Idle EXCEPT !.answer = task[c].answer]]
  /\ UNCHANGED store

Run(c) == TryLock(c) \/ LookUp(c) \/ Act(c) \/ Unlock(c)

Next == \E c \in Callers : (\E op \in Operation : Call(c, op)) \/ Run(c)

\* No operation awaits anything: a task that has called one runs on.
Fairness == \A c \in Callers : WF_vars(Run(c))

Spec == Init /\ [][Next]_vars /\ Fairness

----------------------------------------------------------------------------
(* Properties *)

\* The holder of the mutex is the one task between try_lock and the end of
\* the guard, and the entry it has looked up is still the one in the map when
\* it acts on it.
EntryIsCurrent ==
  \A c \in Callers :
    /\ task[c].pc \in {"locked", "found", "unlocking"} => lock = c
    /\ task[c].pc \in {"called", "locked", "found"} => task[c].op \in Operation
    /\ task[c].pc = "found" => task[c].found = store[task[c].op.uuid]

\* Seen from outside, the operations take effect one at a time, and one that
\* is turned away because the mutex is taken changes nothing.
Pending(c) == task[c].pc \in {"called", "locked", "found"}

Map == INSTANCE SessionMap WITH
  sessions <- store,
  request <- [c \in Callers |-> IF Pending(c) THEN task[c].op ELSE None],
  answer <- [c \in Callers |-> IF Pending(c) THEN "none" ELSE task[c].answer]

ImplementsSessionMap == Map!Spec

Inside(c) == task[c].pc \in {"locked", "found", "unlocking"}

\* An operation is turned away only while another one is at work: no method
\* returns and leaves the mutex taken, which would turn away every operation
\* from then on (try_lock never waits for it).
BusyMeansAnotherIsInside ==
  [][\A c \in Callers : task[c].pc = "called" /\ task'[c].pc = "idle" =>
       \E d \in Callers \ {c} : Inside(d)]_vars

\* Every operation returns: nobody waits for a mutex, so that no set of tasks
\* can wait for each other.
OperationsReturn == \A c \in Callers : (task[c].pc # "idle") ~> (task[c].pc = "idle")

=============================================================================
