SPECIFICATION Spec
CONSTANTS
  c1 = c1
  c2 = c2
  NoCall = NoCall
  Calls = {init, c1, c2}
  Notes = {ready, n1}
  InitCall = init
  InitNote = ready
  Stoppers = {s1}
  Starter = starter
  PipeCap = 1
  ServerIDs = {2}
  Behaviours = {"refuse", "crash", "chatter"}
INVARIANTS
  TypeOK
  OwnResponse
  ReaderNotWedged
  NoCallStranded
  StopComplete
  FailedStartIsClean
PROPERTIES
  ImplementsContract
