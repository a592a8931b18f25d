SPECIFICATION Spec
CONSTANTS
  t1 = t1
  t2 = t2
  t3 = t3
  w1 = w1
  w2 = w2
  a1 = a1
  a2 = a2
  Workers = {w1, w2}
  Threads = {t1, t2, t3}
  WorkerOf <- MCWorkerOf
  IPs = {a1, a2}
  MaxSolves = 2
  StaleAfter = 2
  HoldLimit = 1
  MaxCrashes = 1
  NoIP = NoIP
  Free = Free
  NoFile = NoFile
  Gone = Gone
INVARIANTS TypeOK PermitAccounting LockOwnership
PROPERTIES StaleVerdictsJustified RefinesAdmission
SYMMETRY Symmetry
