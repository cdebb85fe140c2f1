SPECIFICATION FairSpec
CONSTANTS
  Clients = {c1, c2, c3}
  Commands <- AllCommands
INVARIANTS EveryClientAccountedFor NothingUnderWay
PROPERTIES AnsweredOrOverslept FunctionsReturn
CHECK_DEADLOCK FALSE
