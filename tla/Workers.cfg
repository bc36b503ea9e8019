SPECIFICATION FairSpec
CONSTANTS
  Threads = {t1, t2, t3}
  NoThread = NoThread
  MayRaise = TRUE
INVARIANTS TypeOK NewestLives LateWork
PROPERTIES StopsEventually
