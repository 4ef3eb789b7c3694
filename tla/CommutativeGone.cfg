CONSTANTS
  Threads = {t1, t2, t3}
  Master = t1
  Main = Main
  A = A
  B = B
  C = C
  D = D
  x = x
  y = y
  None = None
  Tasks = {A, B, C, D}
  Parent <- MCParent
  After <- MCAfter
  Accesses <- MCAccesses
SPECIFICATION FairSpec
INVARIANT NoneGone
CHECK_DEADLOCK FALSE
