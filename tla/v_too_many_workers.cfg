SPECIFICATION MachineSpec
CONSTANTS
  Slots = {s1, s2}
  MaxWorkers = 1
  WorkerTtl = 1
  Timeout = 1
  StallLimit = 1
  MaxDeaths = 0
INVARIANTS
  WorkersWithinMaximum
