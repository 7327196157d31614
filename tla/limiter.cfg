SPECIFICATION FairSpec
CONSTANTS
  r1 = r1
  r2 = r2
  r3 = r3
  Subjects = {s1}
  Requests = {r1, r2, r3}
  Buckets = {b1, b2, b3, b4}
  None = none
  Unit = 2
  Rate = 1
  Burst = 4
  EvictAfter = 13
  MaxDelay = 1
  MaxAge = 15
INVARIANTS
  TypeOK
  OverdraftBounded
PROPERTIES
  EvictionForgetsNothing
  RefusedOnlyWhenSpent
  QuietSubjectForgotten
