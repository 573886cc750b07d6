CONSTANTS
  Calls <- AllCalls
  Batches <- SomeBatches
  Registries <- TwoRegistries
  NoCall = NoCall
  MaxSteps = 2
  LoopTrip = 2
  PollTrip = 2
  Retries = 1
  StopGateCap = 1
  MaxPushes = 2
  MaxCrashes = 1
SPECIFICATION FairSpec
INVARIANTS
  EveryCrashPointResumes
  WroteIsRemembered
  WritesAreConsented
  InterruptsInOrder
  EveryCallAnswered
  CancelStopsWork
PROPERTIES
  NoStaleAnswer
  TurnEnds
