SPECIFICATION BusyMachine
CONSTANTS
  Slots = {s1, s2, s3, s4}
  MaxWorkers = 2
  WorkerTtl = 1
  Timeout = 1
  StallLimit = 1
  MaxDeaths = 1
INVARIANTS
  MachineTypeOK
  WorkersBounded
  BrowsersBounded
PROPERTIES
  HangsAreCleared
