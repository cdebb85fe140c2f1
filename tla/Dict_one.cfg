SPECIFICATION Spec
CONSTANTS
  Dicts = {d1}
  one = one
  oneF = oneF
  strA = strA
  strB = strB
  strC = strC
  Keys <- MCKeys
  Values = {v1, v2}
  Same <- MCSame
  StringKeys <- MCStrings
  Hash <- MCHash
  Sizes <- MCSizes
  Probe <- MCProbe
  MemoryMayFail = FALSE
  NoKey = NoKey
  Dummy = Dummy
  NoValue = NoValue
  NoDict = NoDict
INVARIANTS Counted FreeSlot Findable StringsOnly
PROPERTIES IsMapping
