\* Files named or found that change at any moment, read by the constructor and by two overlapping reloads.
SPECIFICATION LoadingSpec
CONSTANTS
  base = base
  overlay = overlay
  rules = rules
  garbled = 3
  refused = 2
  Callers = {a, b}
  Builder = builder
  Closers = {}
  Contents <- MCContents
  Decodable <- MCContents
  Valid <- MCValid
  None = nil
  MaxCalls = 2
  Nil = null
  DefaultDebounce = 1
  DefaultEventBuffer = 2
  Files = {base, overlay}
  Given <- MCGiven
  Adopted <- MCAdopted
  Garbled <- MCGarbled
  Witnesses = {a, b}
  MaxChanges = 3
INVARIANTS
  LoadingTypeOK
  RequiredFilesAreRead
  FilesBelongToSnapshot
  StampsAreNotNewer
  ReloadSeesEarlierWrites
PROPERTY
  MistakesTouchNothing
SYMMETRY Symmetry
