\* Two required files that change at any moment, read by a watch and by a caller of Reload.
SPECIFICATION WatchSpec
CONSTANTS
  base = base
  overlay = overlay
  rules = rules
  refused = 2
  garbled = 9
  Callers = {a, m}
  Watchers = {a}
  Builder = builder
  Closers = {}
  Contents <- MCContents
  Decodable <- MCContents
  Valid <- MCValid
  None = nil
  MaxCalls = 8
  Nil = null
  DefaultDebounce = 1
  DefaultEventBuffer = 2
  Files <- TwoFiles
  Given <- BothRequired
  Adopted <- Fresh
  Garbled <- MCGarbled
  Witnesses = {}
  Dirs = {"etc"}
  DirOf <- MCDirOf
  EventQueue = 1
  MaxChanges = 2
  MaxRemovals = 0
  MaxRetries = 0
INVARIANTS
  NothingIsMissed
