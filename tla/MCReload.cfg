\* Two callers of Reload racing two callers of Close.
SPECIFICATION Spec
CONSTANTS
  good = good
  better = better
  garbled = garbled
  refused = refused
  Callers = {c1, c2}
  Builder = builder
  Closers = {k1, k2}
  Contents <- MCContents
  Decodable <- MCDecodable
  Valid <- MCValid
  None = nil
  MaxCalls = 3
INVARIANTS
  TypeOK
  EngineBelongsToTransaction
  CounterAgreement
  ChangesChain
  OnlyAcceptedIsPublished
  IInv
PROPERTIES
  FrozenByClose
  PublishesLikeRegister
SYMMETRY Symmetry
