\* ACP: two sessions of which one can be live, and two prompts of one call
\* each.  MCP: two sessions of which one can be live, and two calls at once.
\* Screen: a prompt, a steering and a follow-up.  Lines: three messages.
CONSTANTS
  Sessions = {s, t}
  MaxLive = 1
  Free = Free
  Models = {m, n}
  EnvModel = m
  MaxPrompts = 2
  MaxCalls = 1
  McpSessions = {a, b}
  McpMaxLive = 1
  Threads = {t1, t2}
  Texts = {x, y, z}
  MaxQueue = 1
  MaxPending = 1
  MaxRecalls = 1
  Messages = {x, y, z}
  Retries = 2
  MaxKills = 1
  Nothing = Nothing
SPECIFICATION FacesSpec
INVARIANTS
  ConsentIsOwn
  ReaderNeverWaitsForATurn
  BusyIsTheTurn
  NothingIsLost
\* A client may stay silent, and the sessions and prompts are bounded.
CHECK_DEADLOCK FALSE
