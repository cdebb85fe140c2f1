SPECIFICATION FairSpec
CONSTANTS
  t1 = t1  t2 = t2  p1 = p1  p2 = p2  p3 = p3
  Tasks = {t1}
  Ports = {p1,p3}
  Owner <- MCOwner13
  Messages = {m1, m2}
  Ext = Ext
  NoMsg = NoMsg
  MemoryMayFail = FALSE
PROPERTIES ReplyIsNoticed ClosingPortAnswers CloseEndsOnceAnswered
CHECK_DEADLOCK FALSE
