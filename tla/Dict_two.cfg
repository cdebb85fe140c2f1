SPECIFICATION Spec
CONSTANTS
  Dicts = {d1, d2}
  one = one
  oneF = oneF
  strA = strA
  strB = strB
  strC = strC
  Keys <- FewKeys
  Values = {v1}
  Same <- FewSame
  StringKeys <- FewStrings
  Hash <- MCHash
  Sizes <- MCSizes
  Probe <- MCProbe
  MemoryMayFail = FALSE
  NoKey = NoKey
  Dummy = Dummy
  NoValue = NoValue
  NoDict = NoDict
SYMMETRY DictSymmetry
PROPERTIES IsMapping UpdateCopiesAll
