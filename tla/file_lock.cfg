CONSTANTS
  t1 = t1
  t2 = t2
  t3 = t3
  here = here
  there = there
  Threads = {t1, t2, t3}
  Objects = {here, there}
  ObjectOf <- MCObjectOf
  Free = Free
  MaxDrops = 1
  MaxDeaths = 1
SPECIFICATION Spec
INVARIANTS TypeOK ExclusiveOnPath
PROPERTIES PollEnds RLockReleased
