SPECIFICATION Spec
CONSTANTS
  t1 = t1  t2 = t2  p1 = p1  p2 = p2  p3 = p3
  Tasks = {t1, t2}
  Ports = {p1, p2}
  Owner <- MCOwner2
  Messages = {m1, m2}
  Ext = Ext
  NoMsg = NoMsg
  MemoryMayFail = TRUE
SYMMETRY MessageSymmetry
INVARIANTS TypeOK QueuesMatchMessages ReplyAccounting DeletedPortUnused NoLostWakeup NoSendDeadlock
PROPERTIES KeepsPromise
CHECK_DEADLOCK FALSE
