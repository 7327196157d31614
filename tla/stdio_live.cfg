SPECIFICATION FairSpec
CONSTANTS
  c1 = c1
  c2 = c2
  NoCall = NoCall
  Calls = {init, c1}
  Notes = {ready}
  InitCall = init
  InitNote = ready
  Stoppers = {s1, s2}
  Starter = starter
  PipeCap = 1
  ServerIDs = {2}
  Behaviours = {"crash", "mute", "hang", "nospawn", "duplicate", "longline"}
CHECK_DEADLOCK FALSE
PROPERTIES
  ImplementsContract
  StopReturns
  CancelledCallReturns
  CallReturns
