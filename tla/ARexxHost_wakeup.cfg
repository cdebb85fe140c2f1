SPECIFICATION FairSpec
CONSTANTS
  Clients = {c1, c2}
  Commands <- CalmCommands
PROPERTIES EveryCommandAnswered
CHECK_DEADLOCK FALSE
