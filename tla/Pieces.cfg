SPECIFICATION SpecPieces
CONSTANTS
  NPendingCalls = 3
  MaxNesting = 2
  Calls = {c1, c2, c3, c4}
  Presses = {c2, c3, c4}
  None = None
  Size = 6
  Keys = {1, 2}
  NoOrder = NoOrder
  MINSIZE = 4
  MINPARTITIONSIZE = 2
  MAXMERGE = 1
  STACKSIZE = 2
  SampleBits <- MCSampleBits
  Numbers = {0, 2}
  LONG_BIT = 8
  SHIFT = 3
  Left <- MCLeft
  Right <- MCRight
  Moduli <- MCModuli
  Texts <- MCTexts
  WriteLengths = {1, 2, 3}
  ReadLength = 3
  LF = LF
  CR = CR
  CtrlZ = CtrlZ
  Bytes = {LF, Char}
  Number = 5
  PyTrash_UNWIND_LEVEL = 3
  Graphs <- MCGraphs
  Containers = {1, 2, 4, 5}
  Hashes <- MCHashes
  MaxBits = 10
INVARIANTS NoneForgotten SortCorrect LongsAreIntegers IntsAreExact TextComesBack GarbageFreed VisitsAll
PROPERTIES IsQueue AcceptedRuns
CHECK_DEADLOCK FALSE
