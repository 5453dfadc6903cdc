\* Three tasks, one session.
CONSTANTS
  None = None
  t1 = t1
  t2 = t2
  t3 = t3
  u1 = u1
  Callers = {t1, t2, t3}
  Uuids = {u1}
  Statuses = {"SentRequest", "Complete"}
SPECIFICATION Spec
INVARIANTS
  TypeOK
  EntryIsCurrent
PROPERTIES
  ImplementsSessionMap
  BusyMeansAnotherIsInside
  OperationsReturn
