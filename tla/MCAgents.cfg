\* Two sessions start and poll at most one child at once, of two.  Two
\* children share a file and a log of four lines; one watcher is followed.
\* Lists of two patterns; one project whose config two processes judge.
\* A search backend and another host, two redirects.
CONSTANTS
  Agents = {a, b}
  Parents = {p, q}
  MaxConcurrent = 1
  Children = {c, d}
  Watchers = {c}
  Paths = {f}
  MaxTracked = 2
  MaxLines = 4
  Nobody = Nobody
  Projects = {p}
  Contents = {c, d}
  Procs = {x, y}
  Untrusted = Untrusted
  Prefixes = 2
  Letters <- SomeLetters
  Patterns <- SomePatterns
  Requests <- SomeRequests
  Runner <- RunnerName
  SubmitTool <- SubmitName
  Guard <- GuardText
  Wrappers <- SomeWrappers
  MaxListed = 2
  Hosts = {h1, h2}
  Backend = h2
  MaxRedirects = 2
SPECIFICATION AgentsSpec
INVARIANTS
  PollsAreSound
  TrackedOrTold
  ChildIsNarrower
  ConfigIsSound
  EachEffectIsAllowed
  EachFetchIsVetted
\* The children are bounded, and so is the log.
CHECK_DEADLOCK FALSE
