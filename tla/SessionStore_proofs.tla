------------------------ MODULE SessionStore_proofs ------------------------
(***************************************************************************)
(* Theorems about SessionStore.  The inductive invariant is TypeOK with    *)
(* EntryIsCurrent: the mutex belongs to the one task between try_lock and  *)
(* the end of its guard, so that the entry it has looked up cannot change  *)
(* before it acts on it.  That is also what the refinement rests on: Act   *)
(* is the step of SessionMap that performs the operation, TryLock is the   *)
(* one that turns it away when the mutex is taken, Call is Ask, and the    *)
(* other steps stutter.  That a task is turned away only while another is  *)
(* inside needs the converse as well, OwnerIsInside: a mutex that is taken *)
(* has an owner that will release it.                                      *)
(***************************************************************************)
EXTENDS SessionStore, TLAPS

Inv == TypeOK /\ EntryIsCurrent

\* Nobody holds the mutex of a new MemoryStore, and nobody uses it.
LEMMA InitIsTyped == Init => Inv
<1> SUFFICES ASSUME Init PROVE Inv
  OBVIOUS
<1>1. store \in [Uuids -> Statuses \cup {None}] /\ lock = None
  BY DEF Init
<1>2. task \in [Callers -> {Idle}]
  BY DEF Init
<1>3. \A c \in Callers : task[c].pc = "idle"
  BY <1>2 DEF Idle
<1>4. Idle \in [pc : {"idle", "called", "locked", "found", "unlocking"},
                op : Operation \cup {None}, found : Statuses \cup {None}, answer : Answers]
  BY DEF Idle, Answers
<1> QED BY <1>1, <1>2, <1>3, <1>4 DEF Inv, TypeOK, EntryIsCurrent

\* What a task may be, as a set of its own: a step replaces one task, and the
\* replacement is looked at by itself.
TaskStates == [pc : {"idle", "called", "locked", "found", "unlocking"},
               op : Operation \cup {None}, found : Statuses \cup {None}, answer : Answers]

\* Replacing one task by one of the known states keeps the types.
LEMMA OneTaskTyped ==
  ASSUME Inv, NEW c \in Callers, NEW t \in TaskStates, task' = [task EXCEPT ![c] = t],
         store' = store, lock' \in Callers \cup {None}
  PROVE  TypeOK'
<1>1. task \in [Callers -> TaskStates]
  BY DEF Inv, TypeOK, TaskStates
<1>2. task' \in [Callers -> TaskStates]
  BY <1>1
<1>3. store' \in [Uuids -> Statuses \cup {None}]
  BY DEF Inv, TypeOK
<1> QED BY <1>2, <1>3 DEF TypeOK, TaskStates

\* A call of a trait method, or a step of one, keeps the types.
LEMMA StepTyped == ASSUME Inv, [Next]_vars PROVE TypeOK'
<1>0. lock \in Callers \cup {None} /\ \A c \in Callers : task[c] \in TaskStates
  BY DEF Inv, TypeOK, TaskStates
<1>1. ASSUME NEW c \in Callers, NEW op \in Operation, Call(c, op) PROVE TypeOK'
  <2>1. [Idle EXCEPT !.pc = "called", !.op = op] \in TaskStates
    BY DEF Idle, Answers, TaskStates
  <2>2. /\ task' = [task EXCEPT ![c] = [Idle EXCEPT !.pc = "called", !.op = op]]
        /\ store' = store /\ lock' = lock
    BY <1>1 DEF Call
  <2> QED BY <1>0, <2>1, <2>2, OneTaskTyped
<1>2. ASSUME NEW c \in Callers, TryLock(c) PROVE TypeOK'
  <2>1. CASE lock = None
    <3>1. [task[c] EXCEPT !.pc = "locked"] \in TaskStates
      BY <1>0 DEF TaskStates
    <3>2. /\ task' = [task EXCEPT ![c] = [task[c] EXCEPT !.pc = "locked"]]
          /\ store' = store /\ lock' = c
      BY <1>2, <2>1 DEF TryLock
    <3> QED BY <3>1, <3>2, OneTaskTyped
  <2>2. CASE lock # None
    <3>1. [Idle EXCEPT !.answer = "busy"] \in TaskStates
      BY DEF Idle, Answers, TaskStates
    <3>2. /\ task' = [task EXCEPT ![c] = [Idle EXCEPT !.answer = "busy"]]
          /\ store' = store /\ lock' = lock
      BY <1>2, <2>2 DEF TryLock
    <3> QED BY <1>0, <3>1, <3>2, OneTaskTyped
  <2> QED BY <2>1, <2>2
<1>3. ASSUME NEW c \in Callers, LookUp(c) PROVE TypeOK'
  <2>1. task[c].op.uuid \in Uuids
    BY <1>3 DEF LookUp, Inv, EntryIsCurrent, Operation
  <2>2. store[task[c].op.uuid] \in Statuses \cup {None}
    BY <2>1 DEF Inv, TypeOK
  <2> DEFINE t == [task[c] EXCEPT !.pc = "found", !.found = store[task[c].op.uuid]]
  <2>3. t \in TaskStates
    BY <1>0, <2>2 DEF TaskStates
  <2>4. task' = [task EXCEPT ![c] = t] /\ store' = store /\ lock' = lock
    BY <1>3 DEF LookUp
  <2> QED BY <1>0, <2>3, <2>4, OneTaskTyped
<1>4. ASSUME NEW c \in Callers, Act(c) PROVE TypeOK'
  <2>1. task[c].op \in Operation /\ task[c].op.uuid \in Uuids
    BY <1>4 DEF Act, Inv, EntryIsCurrent, Operation
  <2>2. task[c].op.kind \in {"initiate", "update_status"} => task[c].op.status \in Statuses
    BY <2>1 DEF Operation
  <2>3. store' \in [Uuids -> Statuses \cup {None}]
    BY <1>4, <2>1, <2>2 DEF Act, Inv, TypeOK
  <2>4. task[c].found \in Statuses \cup {None}
    BY <1>0 DEF TaskStates
  <2> DEFINE answer == IF task[c].op.kind = "initiate" THEN "ok"
                       ELSE IF task[c].found = None THEN "session not found"
                       ELSE IF task[c].op.kind = "get_session" THEN task[c].found ELSE "ok"
             t      == [task[c] EXCEPT !.pc = "unlocking", !.answer = answer]
  <2>5. answer \in Answers
    BY <2>4 DEF Answers
  <2>6. task' = [task EXCEPT ![c] = t] /\ lock' = lock
    BY <1>4 DEF Act
  <2>7. t \in TaskStates
    <3> HIDE DEF answer
    <3> QED BY <1>0, <2>5 DEF TaskStates
  <2>8. task' \in [Callers -> TaskStates]
    <3> HIDE DEF t
    <3>1. task \in [Callers -> TaskStates]
      BY DEF Inv, TypeOK, TaskStates
    <3> QED BY <2>6, <2>7, <3>1
  <2> QED BY <1>0, <2>3, <2>6, <2>8 DEF TypeOK, TaskStates
<1>5. ASSUME NEW c \in Callers, Unlock(c) PROVE TypeOK'
  <2>1. [Idle EXCEPT !.answer = task[c].answer] \in TaskStates
    BY <1>0 DEF Idle, TaskStates
  <2>2. /\ task' = [task EXCEPT ![c] = [Idle EXCEPT !.answer = task[c].answer]]
        /\ store' = store /\ lock' = None
    BY <1>5 DEF Unlock
  <2> QED BY <2>1, <2>2, OneTaskTyped
<1>6. CASE UNCHANGED vars
  BY <1>6 DEF vars, Inv, TypeOK
<1> QED BY <1>1, <1>2, <1>3, <1>4, <1>5, <1>6 DEF Next, Run

\* No step of another task comes between a task's search and its action: it
\* would need the mutex.
LEMMA StepCurrent == ASSUME Inv, [Next]_vars PROVE EntryIsCurrent'
<1> USE DEF Inv, TypeOK, EntryIsCurrent
<1>1. ASSUME NEW c \in Callers, NEW op \in Operation, Call(c, op) PROVE EntryIsCurrent'
  BY <1>1 DEF Call, Idle
<1>2. ASSUME NEW c \in Callers, TryLock(c) PROVE EntryIsCurrent'
  BY <1>2, StoreAssumption DEF TryLock, Idle
<1>3. ASSUME NEW c \in Callers, LookUp(c) PROVE EntryIsCurrent'
  BY <1>3 DEF LookUp
<1>4. ASSUME NEW c \in Callers, Act(c) PROVE EntryIsCurrent'
  <2>1. \A d \in Callers \ {c} : task[d].pc \notin {"locked", "found", "unlocking"}
    BY <1>4 DEF Act
  <2>2. \A d \in Callers \ {c} : task'[d] = task[d]
    BY <1>4 DEF Act
  <2>3. task'[c].pc = "unlocking" /\ lock' = c
    BY <1>4 DEF Act
  <2> QED BY <2>1, <2>2, <2>3
<1>5. ASSUME NEW c \in Callers, Unlock(c) PROVE EntryIsCurrent'
  <2>1. \A d \in Callers \ {c} : task[d].pc \notin {"locked", "found", "unlocking"}
    BY <1>5 DEF Unlock
  <2> QED BY <1>5, <2>1 DEF Unlock, Idle
<1>6. CASE UNCHANGED vars
  BY <1>6 DEF vars
<1> QED BY <1>1, <1>2, <1>3, <1>4, <1>5, <1>6 DEF Next, Run

\* The invariant holds in every state of every behaviour.
LEMMA Invariance == Spec => []Inv
<1>1. Inv /\ [Next]_vars => Inv'
  BY StepTyped, StepCurrent DEF Inv
<1> QED BY InitIsTyped, <1>1, PTL DEF Spec

\* Every answer of MemoryStore is one the trait knows, and the map only ever
\* holds statuses.
THEOREM TypeCorrect == Spec => []TypeOK
  BY Invariance, PTL DEF Inv

\* Under any number of tasks the entry a method has looked up is the entry
\* in the map when the method reads, changes or removes it.
THEOREM EntriesAreCurrent == Spec => []EntryIsCurrent
  BY Invariance, PTL DEF Inv

----------------------------------------------------------------------------
(* MemoryStore implements SessionMap *)

\* An empty store is an empty map.
LEMMA InitRefines == Init => Map!Init
  BY DEF Init, Map!Init, Pending, Idle

\* Every step is one of SessionMap or leaves it as it is.
LEMMA StepRefines == ASSUME Inv, [Next]_vars PROVE [Map!Next]_(Map!vars)
<1> USE DEF Inv, TypeOK
<1> DEFINE req == [c \in Callers |-> IF Pending(c) THEN task[c].op ELSE None]
           ans == [c \in Callers |-> IF Pending(c) THEN "none" ELSE task[c].answer]
<1>1. ASSUME NEW c \in Callers, NEW op \in Operation, Call(c, op) PROVE Map!Ask(c, op)
  <2>1. req[c] = None
    BY <1>1 DEF Call, Pending
  <2>2. req' = [req EXCEPT ![c] = op]
    BY <1>1 DEF Call, Pending, Idle
  <2>3. ans' = [ans EXCEPT ![c] = "none"]
    BY <1>1 DEF Call, Pending, Idle
  <2> QED BY <1>1, <2>1, <2>2, <2>3 DEF Call, Map!Ask
<1>2. ASSUME NEW c \in Callers, TryLock(c) PROVE Map!TurnAway(c) \/ UNCHANGED Map!vars
  <2>1. CASE lock = None
    <3>1. req' = req /\ ans' = ans
      BY <1>2, <2>1 DEF TryLock, Pending
    <3> QED BY <1>2, <3>1 DEF TryLock, Map!vars
  <2>2. CASE lock # None
    <3>1. req[c] # None
      BY <1>2, StoreAssumption DEF TryLock, Pending, EntryIsCurrent, Operation
    <3>2. req' = [req EXCEPT ![c] = None]
      BY <1>2, <2>2 DEF TryLock, Pending, Idle
    <3>3. ans' = [ans EXCEPT ![c] = "busy"]
      BY <1>2, <2>2 DEF TryLock, Pending, Idle
    <3> QED BY <1>2, <3>1, <3>2, <3>3 DEF TryLock, Map!TurnAway
  <2> QED BY <2>1, <2>2
<1>3. ASSUME NEW c \in Callers, LookUp(c) PROVE UNCHANGED Map!vars
  <2>1. req' = req /\ ans' = ans
    BY <1>3 DEF LookUp, Pending
  <2> QED BY <1>3, <2>1 DEF LookUp, Map!vars
<1>4. ASSUME NEW c \in Callers, Act(c) PROVE Map!Perform(c)
  <2>1. /\ req[c] = task[c].op
        /\ task[c].op \in Operation /\ task[c].op # None
        /\ task[c].found = store[task[c].op.uuid]
    BY <1>4, StoreAssumption DEF Act, Pending, EntryIsCurrent, Operation
  <2>2. store' = Map!Effect(req[c], store)
    BY <1>4, <2>1 DEF Act, Map!Effect, Operation
  <2>3. task'[c].answer = Map!Result(req[c], store)
    BY <1>4, <2>1 DEF Act, Map!Result
  <2>4. req' = [req EXCEPT ![c] = None]
    BY <1>4 DEF Act, Pending
  <2>5. task'[c].pc = "unlocking" /\ \A d \in Callers \ {c} : task'[d] = task[d]
    BY <1>4 DEF Act
  <2>6. ans' = [ans EXCEPT ![c] = Map!Result(req[c], store)]
    BY <2>3, <2>5 DEF Pending
  <2> QED BY <2>1, <2>2, <2>4, <2>6 DEF Map!Perform
<1>5. ASSUME NEW c \in Callers, Unlock(c) PROVE UNCHANGED Map!vars
  <2>1. req' = req /\ ans' = ans
    BY <1>5 DEF Unlock, Pending, Idle
  <2> QED BY <1>5, <2>1 DEF Unlock, Map!vars
<1>6. CASE UNCHANGED vars
  BY <1>6 DEF vars, Map!vars, Pending
<1>7. Operation = Map!Operation
  BY DEF Operation, Map!Operation
<1> QED BY <1>1, <1>2, <1>3, <1>4, <1>5, <1>6, <1>7 DEF Next, Run, Map!Next

\* session.rs: whatever tasks share a MemoryStore, its methods take effect
\* one at a time, and a method that is turned away changes nothing.
THEOREM StoreIsAMap == Spec => ImplementsSessionMap
<1>1. Init => Map!Init
  BY InitRefines
<1>2. Inv /\ [Next]_vars => [Map!Next]_(Map!vars)
  BY StepRefines
<1> QED BY <1>1, <1>2, Invariance, PTL DEF Spec, ImplementsSessionMap, Map!Spec

----------------------------------------------------------------------------
(* The mutex is never left taken *)

\* Whoever holds the mutex is between its try_lock and the end of its guard.
\* EntryIsCurrent says the converse: who is there holds it.
OwnerIsInside == lock # None => lock \in Callers /\ Inside(lock)

\* Only a task that finds the mutex free takes it, and it gives it back on
\* every way out of a method, found or not.
LEMMA StepOwner == ASSUME Inv, OwnerIsInside, [Next]_vars PROVE OwnerIsInside'
<1> USE DEF Inv, TypeOK, EntryIsCurrent, OwnerIsInside, Inside
<1>1. ASSUME NEW c \in Callers, NEW op \in Operation, Call(c, op) PROVE OwnerIsInside'
  <2>1. lock # None => lock # c
    BY <1>1 DEF Call
  <2>2. lock' = lock /\ \A d \in Callers \ {c} : task'[d] = task[d]
    BY <1>1 DEF Call
  <2> QED BY <2>1, <2>2
<1>2. ASSUME NEW c \in Callers, TryLock(c) PROVE OwnerIsInside'
  <2>1. CASE lock = None
    <3>1. lock' = c /\ task'[c].pc = "locked"
      BY <1>2, <2>1 DEF TryLock
    <3> QED BY <3>1
  <2>2. CASE lock # None
    <3>1. lock # c
      BY <1>2, <2>2 DEF TryLock
    <3>2. lock' = lock /\ \A d \in Callers \ {c} : task'[d] = task[d]
      BY <1>2, <2>2 DEF TryLock
    <3> QED BY <2>2, <3>1, <3>2
  <2> QED BY <2>1, <2>2
<1>3. ASSUME NEW c \in Callers, LookUp(c) PROVE OwnerIsInside'
  <2>1. lock' = c /\ task'[c].pc = "found"
    BY <1>3 DEF LookUp
  <2> QED BY <2>1
<1>4. ASSUME NEW c \in Callers, Act(c) PROVE OwnerIsInside'
  <2>1. lock' = c /\ task'[c].pc = "unlocking"
    BY <1>4 DEF Act
  <2> QED BY <2>1
<1>5. ASSUME NEW c \in Callers, Unlock(c) PROVE OwnerIsInside'
  BY <1>5 DEF Unlock
<1>6. CASE UNCHANGED vars
  BY <1>6 DEF vars
<1> QED BY <1>1, <1>2, <1>3, <1>4, <1>5, <1>6 DEF Next, Run

\* The one step from "called" back to "idle" is a try_lock that finds the
\* mutex taken, and then by another task.
LEMMA StepBusy ==
  ASSUME Inv, OwnerIsInside, [Next]_vars, NEW c \in Callers,
         task[c].pc = "called", task'[c].pc = "idle"
  PROVE  \E d \in Callers \ {c} : Inside(d)
<1> USE DEF Inv, TypeOK
<1>1. ASSUME NEW d \in Callers, NEW op \in Operation, Call(d, op) PROVE FALSE
  BY <1>1 DEF Call, Idle
<1>2. ASSUME NEW d \in Callers, TryLock(d) PROVE lock # None
  BY <1>2 DEF TryLock
<1>3. ASSUME NEW d \in Callers, LookUp(d) \/ Act(d) PROVE FALSE
  BY <1>3 DEF LookUp, Act
<1>4. ASSUME NEW d \in Callers, Unlock(d) PROVE FALSE
  BY <1>4 DEF Unlock
<1>5. lock # None
  BY <1>1, <1>2, <1>3, <1>4 DEF Next, Run, vars
<1>6. lock \in Callers /\ Inside(lock) /\ lock # c
  BY <1>5 DEF OwnerIsInside, Inside
<1> QED BY <1>6

\* session.rs: an operation is turned away only while another task is inside
\* one; no sequence of operations, found, not found or turned away, leaves the
\* mutex taken with nobody to release it.
THEOREM BusyOnlyWhileAnotherIsInside == Spec => BusyMeansAnotherIsInside
<1> DEFINE Turned == \A c \in Callers : task[c].pc = "called" /\ task'[c].pc = "idle" =>
                       \E d \in Callers \ {c} : Inside(d)
<1>1. Init => OwnerIsInside
  BY DEF Init, OwnerIsInside
<1>2. Inv /\ OwnerIsInside /\ [Next]_vars => OwnerIsInside'
  BY StepOwner
<1>3. Inv /\ OwnerIsInside /\ [Next]_vars => [Turned]_vars
  BY StepBusy
<1>4. Spec => [][Turned]_vars
  <2> HIDE DEF Turned
  <2> QED BY <1>1, <1>2, <1>3, Invariance, PTL DEF Spec
<1> QED BY <1>4 DEF BusyMeansAnotherIsInside

----------------------------------------------------------------------------
(* What the map promises *)

\* A session changes only as an operation asks that is pending, which is then
\* answered "ok", and no other session changes with it: initiate alone brings
\* a session into the map, remove_session alone takes one out.
OnlyOnRequest ==
  \A u \in Uuids : store'[u] # store[u] =>
    \E c \in Callers :
      LET op == task[c].op IN
      /\ Pending(c) /\ op \in Operation /\ op.uuid = u
      /\ ~Pending(c)' /\ task'[c].answer = "ok"
      /\ \A v \in Uuids \ {u} : store'[v] = store[v]
      /\ IF store'[u] = None THEN op.kind = "remove_session"
         ELSE /\ op.kind \in {"initiate", "update_status"} /\ op.status = store'[u]
              /\ store[u] = None => op.kind = "initiate"

\* What a caller waits for is an operation of the trait.
MapInv ==
  /\ store \in [Uuids -> Statuses \cup {None}]
  /\ \A c \in Callers : Pending(c) /\ task[c].op # None => task[c].op \in Operation

\* An operation that is performed changes its own session, if it is there or
\* to be there.
LEMMA EffectIsLocal ==
  ASSUME NEW map \in [Uuids -> Statuses \cup {None}], NEW op \in Operation
  PROVE  /\ Map!Effect(op, map) \in [Uuids -> Statuses \cup {None}]
         /\ \A u \in Uuids : Map!Effect(op, map)[u] # map[u] =>
              /\ op.uuid = u /\ Map!Result(op, map) = "ok"
              /\ \A v \in Uuids \ {u} : Map!Effect(op, map)[v] = map[v]
              /\ IF Map!Effect(op, map)[u] = None THEN op.kind = "remove_session"
                 ELSE /\ op.kind \in {"initiate", "update_status"}
                      /\ op.status = Map!Effect(op, map)[u]
                      /\ map[u] = None => op.kind = "initiate"
<1>1. op.uuid \in Uuids /\ (op.kind \in {"initiate", "update_status"} => op.status \in Statuses)
  BY DEF Operation
<1>2. op.kind \in {"initiate", "update_status", "get_session", "remove_session"}
  BY DEF Operation
<1>3. CASE op.kind = "initiate" \/ (op.kind = "update_status" /\ map[op.uuid] # None)
  <2>1. /\ Map!Effect(op, map) = [map EXCEPT ![op.uuid] = op.status]
        /\ Map!Result(op, map) = "ok"
    BY <1>3 DEF Map!Effect, Map!Result
  <2>2. op.status # None
    BY <1>1, <1>3, StoreAssumption
  <2> QED BY <1>1, <1>3, <2>1, <2>2
<1>4. CASE op.kind = "remove_session" /\ map[op.uuid] # None
  <2>1. /\ Map!Effect(op, map) = [map EXCEPT ![op.uuid] = None]
        /\ Map!Result(op, map) = "ok"
    BY <1>4 DEF Map!Effect, Map!Result
  <2> QED BY <1>1, <1>4, <2>1
<1>5. CASE op.kind = "get_session" \/ (op.kind # "initiate" /\ map[op.uuid] = None)
  <2>1. Map!Effect(op, map) = map
    BY <1>5 DEF Map!Effect
  <2> QED BY <2>1
<1> QED BY <1>2, <1>3, <1>4, <1>5

LEMMA MapStep ==
  ASSUME MapInv, [Map!Next]_(Map!vars)
  PROVE  MapInv' /\ [OnlyOnRequest]_store
<1> DEFINE req == [c \in Callers |-> IF Pending(c) THEN task[c].op ELSE None]
           ans == [c \in Callers |-> IF Pending(c) THEN "none" ELSE task[c].answer]
           Asked == \A c \in Callers : req[c] # None => req[c] \in Operation
           Typed == store \in [Uuids -> Statuses \cup {None}]
<1>0. /\ \A c \in Callers : req[c] # None => Pending(c) /\ req[c] = task[c].op
      /\ \A c \in Callers : ans'[c] = "ok" => ~Pending(c)' /\ task'[c].answer = "ok"
  OBVIOUS
<1>1. (MapInv <=> Typed /\ Asked) /\ (MapInv' <=> Typed' /\ Asked')
  BY DEF MapInv
<1>2. CASE UNCHANGED Map!vars
  <2>1. store' = store /\ req' = req
    BY <1>2 DEF Map!vars
  <2> HIDE DEF req
  <2> QED BY <1>1, <2>1
<1>3. ASSUME NEW c \in Callers, NEW op \in Map!Operation, Map!Ask(c, op)
      PROVE  MapInv' /\ [OnlyOnRequest]_store
  <2>1. store' = store /\ req' = [req EXCEPT ![c] = op] /\ op \in Operation
    BY <1>3 DEF Map!Ask, Map!Operation, Operation
  <2>2. \A d \in Callers : req'[d] = IF d = c THEN op ELSE req[d]
    BY <2>1
  <2> HIDE DEF req
  <2> QED BY <1>1, <2>1, <2>2
<1>4. ASSUME NEW c \in Callers, Map!TurnAway(c)
      PROVE  MapInv' /\ [OnlyOnRequest]_store
  <2>1. store' = store /\ req' = [req EXCEPT ![c] = None]
    BY <1>4 DEF Map!TurnAway
  <2>2. \A d \in Callers : req'[d] = IF d = c THEN None ELSE req[d]
    BY <2>1
  <2> HIDE DEF req
  <2> QED BY <1>1, <2>1, <2>2
<1>5. ASSUME NEW c \in Callers, Map!Perform(c)
      PROVE  MapInv' /\ [OnlyOnRequest]_store
  <2>1. /\ req[c] # None /\ store' = Map!Effect(req[c], store)
        /\ ans' = [ans EXCEPT ![c] = Map!Result(req[c], store)]
        /\ req' = [req EXCEPT ![c] = None]
    BY <1>5 DEF Map!Perform
  <2>2. ans'[c] = Map!Result(req[c], store)
    BY <2>1
  <2>3. \A d \in Callers : req'[d] = IF d = c THEN None ELSE req[d]
    BY <2>1
  <2>4. Pending(c) /\ req[c] = task[c].op /\ task[c].op \in Operation
    BY <1>0, <1>1, <2>1
  <2> HIDE DEF req, ans
  <2>5. store' \in [Uuids -> Statuses \cup {None}]
    BY <1>1, <2>1, <2>4, EffectIsLocal
  <2>6. OnlyOnRequest
    <3> SUFFICES ASSUME NEW u \in Uuids, store'[u] # store[u]
                 PROVE  LET op == task[c].op IN
                        /\ Pending(c) /\ op \in Operation /\ op.uuid = u
                        /\ ~Pending(c)' /\ task'[c].answer = "ok"
                        /\ \A v \in Uuids \ {u} : store'[v] = store[v]
                        /\ IF store'[u] = None THEN op.kind = "remove_session"
                           ELSE /\ op.kind \in {"initiate", "update_status"} /\ op.status = store'[u]
                                /\ store[u] = None => op.kind = "initiate"
      BY DEF OnlyOnRequest
    <3>1. store \in [Uuids -> Statuses \cup {None}]
      BY DEF MapInv
    <3> QED BY <1>0, <2>1, <2>2, <2>4, <3>1, EffectIsLocal
  <2> QED BY <1>1, <2>3, <2>5, <2>6
<1> QED BY <1>2, <1>3, <1>4, <1>5 DEF Map!Next

\* The SessionStore trait: a session that is removed stays so until it is
\* initiated again, whatever updates of it are late; and an operation that is
\* refused or turned away has changed nothing.  This follows from SessionMap
\* alone, for any implementation of the trait that is such a map.
THEOREM SessionsChangeOnRequest == ImplementsSessionMap => [][OnlyOnRequest]_store
<1>1. Map!Init => MapInv
  BY DEF Map!Init, MapInv
<1>2. MapInv /\ [Map!Next]_(Map!vars) => MapInv' /\ [OnlyOnRequest]_store
  BY MapStep
<1> QED BY <1>1, <1>2, PTL DEF ImplementsSessionMap, Map!Spec

=============================================================================
