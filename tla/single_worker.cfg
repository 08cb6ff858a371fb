SPECIFICATION Spec
CONSTANTS
  u1 = u1  u2 = u2  ghost = ghost  late = late  junk = junk
  q1 = q1  q2 = q2  w1 = w1  w2 = w2  r1 = r1  r2 = r2
  Urls = {u1, ghost, late}
  Ghosts = {ghost}
  Late = {late}
  RootUrls = {u1}
  Malformed = {junk}
  Queues = {q1}
  QueueOf <- OneQueue
  Rank <- NoRank
  Workers = {w1}
  ReTesters = {r1}
  NoMessage = NoMessage
  NoQueue = NoQueue
  FloodingThreshold = 1
  RowExpiry = 1
  RetestThreshold = 1
  MaxFailedTestRuns = 2
  WorkerTtl = 1
  Faults = {"storage", "result", "solr", "read", "workerCrash", "reTesterCrash"}
  MaxFaults = 1
INVARIANTS
  TypeOK
PROPERTIES
  FloodingRespected
