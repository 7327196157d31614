SPECIFICATION Spec
CONSTANTS
  n1 = n1
  n2 = n2
  g = g
  Scopes = {a, b}
  Names = {n1, n2}
  Patterns = {n1, g, star}
  Star = star
  PathMatch <- GlobsMatchSecond
  Kinds = {"tools", "resources"}
  Offers <- OneEach
  None = none
  Raw = raw
INVARIANTS
  TypeOK
  UseFollowsGrant
  ListAgreesWithUse
  AnnouncedIfListed
