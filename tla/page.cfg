SPECIFICATION Spec
CONSTANTS
  PageCallbacks = {"f", "g"}
  MaxOps = 4
  MaxHolds = 2
  Elements = {"e1", "e2"}
  MaxWrites = 4
  MaxEffects = 5
  HandlerNames = {"f"}
  MaxEventOps = 4
  MaxRequests = 3
  Size = 4
  MaxQueries = 2
  Tests = {"t1", "t2"}
  MaxPages = 2
  MaxLoads = 3
INVARIANTS
  FiresAreCarriedOut
  CalledOnceForTheOutcome
  ThenFollows
  WhenCollects
  ReadyComes
  DataIsTheElements
  AnimationsAreDriven
  OneAtATime
  ListenersFollowHandlers
  CalledOncePerEvent
  ActiveCounts
  AnswersReachTheirRequest
  SelectsWhatMatches
  ReportsArrive
PROPERTIES
  CallsEachInTurn
  ReadyIsReleased
  PromisesResolve
\* Every part stops at its bounds.
CHECK_DEADLOCK FALSE
