\* What a queue that Close abandoned still holds.
SPECIFICATION DeliverySpec
CONSTANTS
  w = w
  kw = kw
  h1 = h1
  h2 = h2
  e1 = e1
  good = good
  Callers = {c1, c2, w}
  Worker = w
  Builder = builder
  Closers = {k1, kw}
  WorkerCloser = kw
  Contents = {good}
  Decodable = {good}
  Valid = {good}
  None = nil
  MaxCalls = 2
  ChangeHandlers = {h1}
  ErrorHandlers = {}
  Reentrant = {}
  Closing = {}
  Panicky = {}
  Hanging = {}
  Buffer = 2
INVARIANT
  ClosedRetainsNoHandler
SYMMETRY Symmetry
