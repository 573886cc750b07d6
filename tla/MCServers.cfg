\* Two threads wait for one server; a call may take two ticks, a list one.
\* Two jobs and a queue of one.  A chain of two providers, one retry, two
\* steps of one turn, and a thread more than the turn needs.  A pipe of one
\* block and a child that writes four.  Three steps and two ticks of a
\* mission that may be killed once.  Two of three
\* connections at once, of one address, and one of two sessions in the map.
\* The faces with a queue for the notices of jobs and those without, the
\* missions with a --verify command and those without, and a call on the
\* host's own thread are all in it.
CONSTANTS
  Servers = {v}
  Callers = 2
  CallTimeout = 2
  ListTimeout = 1
  Margin = 1
  MaxRequests = 3
  Jobs = {j, l}
  MaxPending = 1
  Owner = Owner
  Links = 2
  Threads = 2
  Retries = 1
  Cooldown = 1
  MaxTime = 2
  MaxTurns = 1
  MaxSteps = 2
  Pipe = 1
  Capture = 2
  Output = 4
  Input = 2
  MissionSteps = 3
  TurnSteps = 2
  MissionTime = 2
  FailureCap = 2
  MaxKills = 1
  Peers = {p}
  Sessions = {s, t}
  Free = Free
  MaxConnections = 2
  MaxFailures = 1
  Window = 1
  Deadline = 1
  MaxLive = 1
  MaxAccepts = 3
SPECIFICATION ServersSpec
INVARIANTS
  VerdictBeatsTheCaller
  OneVoice
  FrontIsBounded
PROPERTIES
  EveryRequestIsSettled
  EachWaitEnds
  MissionIsJudged
  EachSlotComesBack
\* Requests, jobs, turns and connections are bounded.
CHECK_DEADLOCK FALSE
