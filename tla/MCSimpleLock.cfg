SPECIFICATION LockSpec
CONSTANTS
  Threads = {t1, t2, t3}
  NoThread = none
  MaxDepth = 3
INVARIANTS
  ReleaseNeverAsserts
  AnswersTruly
PROPERTY
  ImplementsReentrantLock
