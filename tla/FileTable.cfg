SPECIFICATION Spec
CONSTANTS
  Files = {f1, f2}
  Sockets = {s1, s2}
  Console = Console
  None = None
  MaxFd = 3
  NStd = 1
  MemoryMayFail = TRUE
  LateTCP = TRUE
INVARIANTS HandlesOwned NamesOwned SocketsHaveUFBs
PROPERTIES DescriptorsKept
