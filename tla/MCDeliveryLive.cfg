\* A handler that reloads, closes, panics and may hang, with one other caller.
SPECIFICATION FairDeliverySpec
CONSTANTS
  w = w
  kw = kw
  h1 = h1
  h2 = h2
  e1 = e1
  good = good
  Callers = {c1, w}
  Worker = w
  Builder = builder
  Closers = {kw}
  WorkerCloser = kw
  Contents = {good}
  Decodable = {good}
  Valid = {good}
  None = nil
  MaxCalls = 2
  ChangeHandlers = {h1}
  ErrorHandlers = {e1}
  Reentrant = {h1}
  Closing = {h1}
  Panicky = {h1}
  Hanging = {h1}
  Buffer = 1
PROPERTIES
  EveryChangeIsSettled
  ReloadNeverWaitsForHandlers
  CloseNeverWaitsForEver
