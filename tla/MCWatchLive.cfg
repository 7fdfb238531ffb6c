\* One watch of one optional file, whose directory may go and come back while events are lost.
SPECIFICATION FairWatchSpec
CONSTANTS
  base = base
  overlay = overlay
  rules = rules
  refused = 9
  garbled = 2
  Callers = {a}
  Watchers = {a}
  Builder = builder
  Closers = {}
  Contents <- MCContents
  Decodable <- MCContents
  Valid <- MCValid
  None = nil
  MaxCalls = 8
  Nil = null
  DefaultDebounce = 1
  DefaultEventBuffer = 2
  Files <- OneFile
  Given <- BaseOptional
  Adopted <- Fresh
  Garbled <- MCGarbled
  Witnesses = {}
  Dirs = {"etc"}
  DirOf <- MCDirOf
  EventQueue = 1
  MaxChanges = 3
  MaxRemovals = 1
  MaxRetries = 1
INVARIANTS
  NothingIsMissed
PROPERTIES
  FilesAreFollowed
