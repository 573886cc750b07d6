\* A grant outlives its budget.
CONSTANTS
  Sessions = {s}
  Calls = {c}
  Handlers = {h}
  MaxIds = 2
  MaxPoisoned = 0
  Expiry = 1
  MaxTime = 2
SPECIFICATION FairSpec
PROPERTIES
  StaleGrantIsNotUsed
