SPECIFICATION Spec
CONSTANTS
  Handlers = {h1, h2}
  Requests <- MCRequests
  Sessions = {s1, s2}
  None = None
  Minted <- MCMinted
  AllowedOrigins = {}
  SupportedProtocolVersions = {"2025-11-25", "2025-03-26"}
  FallbackVersion = "2025-03-26"
  Absent = Absent
  APIKeys <- MCAPIKeys
  Audience = here
  NoAudience = NoAudience
  NoSubject = NoSubject
  Grants <- MCGrants
  Burst = 2
  Modes = {"shared", "isolate"}
  SharedKey = sharedKey
  Insts = {i0, i1}
  MaxWire = 2
  here = here
  there = there
  evil = evil
  old = old
  alice = alice
  tokA = tokA
  tokA2 = tokA2
  tokN = tokN
  tokX = tokX
  use = use
  admin = admin
  read = read
  drop = drop
  s1 = s1
  s2 = s2
CHECK_DEADLOCK FALSE
INVARIANTS
  CancelHitsOwn
