\* Two calls of Watch, cancelled or not, and Close.
SPECIFICATION FairWatchSpec
CONSTANTS
  base = base
  overlay = overlay
  rules = rules
  refused = 2
  garbled = 9
  Callers = {a, b}
  Watchers = {a, b}
  Builder = builder
  Closers = {k}
  Contents <- MCContents
  Decodable <- MCContents
  Valid <- MCValid
  None = nil
  MaxCalls = 8
  Nil = null
  DefaultDebounce = 1
  DefaultEventBuffer = 2
  Files <- OneFile
  Given <- BaseRequired
  Adopted <- Fresh
  Garbled <- MCGarbled
  Witnesses = {}
  Dirs = {"etc"}
  DirOf <- MCDirOf
  EventQueue = 1
  MaxChanges = 1
  MaxRemovals = 0
  MaxRetries = 0
INVARIANTS
  WatchTypeOK
  OneWatchAtATime
  ClosedWatchSaysSo
PROPERTIES
  WatchReturns
