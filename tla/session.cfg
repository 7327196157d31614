SPECIFICATION FairSpec
CONSTANTS
  h1 = h1
  h2 = h2
  u1 = u1
  u2 = u2
  s1 = s1
  s2 = s2
  None = none
  Handlers = {h1, h2}
  Subjects = {u1, u2}
  Sessions = {s1}
  Kinds = {"initialize", "initialized", "ping", "forward", "stream", "delete"}
  Idle = 2
  MaxDelay = 1
  MaxTime = 4
INVARIANTS
  TypeOK
PROPERTIES
  ChangedByOwner
  GoneIsFinal
  ExpiryNeedsIdleness
  QuietSessionExpires
