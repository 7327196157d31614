SPECIFICATION FairSpec
CONSTANTS
  c1 = c1
  c2 = c2
  NoCall = NoCall
  Calls = {init, c1}
  Notes = {ready}
  InitCall = init
  InitNote = ready
  Stoppers = {s1}
  Starter = starter
  PipeCap = 1
  ServerIDs = {2}
  Behaviours = {"hang"}
CHECK_DEADLOCK FALSE
PROPERTIES
  StopTerminates
