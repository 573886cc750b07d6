\* Shared: two sessions make one call each, and one of them can be live.
\* Aging: two approvals, one tick.  Race: two clients, one approval, one
\* commit that fails.
CONSTANTS
  Sessions = {s, t}
  Calls = {c}
  Handlers = {h, k}
  One = s
  Client = h
  MaxIds = 2
  MaxPoisoned = 1
  Expiry = 0
  MaxTime = 1
SPECIFICATION PartsSpec
INVARIANTS
  RunsNeedApprovals
  AnsweredIsAudited
PROPERTIES
  EachDecisionIsAnswered
