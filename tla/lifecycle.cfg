SPECIFICATION FairSpec
CONSTANTS
  Requests = {r1, r2}
  Runners = {w, i1, i2}
  WarmRunner = w
  None = None
  FileConfigs <- MCFileConfigs
  ListenFlags = {NoAddr}
  EmbeddedConfigs <- MCEmbeddedConfigs
  BwrapFound = TRUE
  MayHang = {w, i1}
  Word = 16
  Second = 5
  DefaultListenAddr = loopback
  NoAddr = NoAddr
  DefaultIdleTimeout = 12
  DefaultSweepInterval = 2
  DefaultPoolIdleTimeout = 9
  NoBackend = NoBackend
  usr = usr
  bin = bin
  proc_ = proc_
  tmp = tmp
  data = data
  secret = secret
  rel = rel
  home = home
  Paths <- MCPaths
  AbsPaths <- MCAbsPaths
  Covers <- MCCovers
  DefaultROBinds <- MCDefaults
  FreshViews <- MCFresh
  NoKey = NoKey
  NilPolicy = NilPolicy
  Error = Error
CHECK_DEADLOCK FALSE
INVARIANTS
  TypeOK
PROPERTIES
  ImplementsService
  SignalEndsRun
  StoresSwept
