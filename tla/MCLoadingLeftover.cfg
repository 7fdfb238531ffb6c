\* Optional files that are all away again after a reload that read some of them was rejected.
SPECIFICATION LoadingSpec
CONSTANTS
  base = base
  overlay = overlay
  rules = rules
  garbled = 3
  refused = 2
  Callers = {a, b}
  Builder = builder
  Closers = {}
  Contents <- MCContents
  Decodable <- MCContents
  Valid <- MCValid
  None = nil
  MaxCalls = 2
  Nil = null
  DefaultDebounce = 1
  DefaultEventBuffer = 2
  Files = {base, overlay}
  Given <- OnlyOptional
  Adopted <- Fresh
  Garbled <- MCGarbled
  Witnesses = {}
  MaxChanges = 4
INVARIANT
  NothingIsLeftOver
SYMMETRY Symmetry
