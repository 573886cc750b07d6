\* Room for two complete sandwiches in one session.
CONSTANTS
  Contracts = {"idempotent", "guarded", "never"}
  NoIntent = NoIntent
  MaxSeq = 4
  MaxRuns = 2
SPECIFICATION Spec
INVARIANTS
  EveryCrashPointRecovers
  NeverRunsTwice
