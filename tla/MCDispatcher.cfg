\* Two submitters overflow a queue of two while two goroutines stop it.
SPECIFICATION FairSpec
CONSTANTS
  t1 = t1
  t2 = t2
  t3 = t3
  t4 = t4
  Submitters = {s1, s2}
  Stoppers = {k1, k2}
  Tasks = {t1, t2, t3, t4}
  Stuck = {t4}
  Nil = nil
  Buffer = 2
INVARIANTS
  TypeOK
  FirstInFirstOut
  DropsAreCounted
  AtMostOneLateStart
  FinishedIsFinal
PROPERTIES
  SubmitReturns
  QueuedIsSettled
  StoppedWorkerExits
