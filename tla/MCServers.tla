---------------------------- MODULE MCServers ----------------------------
(***************************************************************************)
(* Model checking of what a turn waits for and of what chains turns: the   *)
(* reactor of the tool servers ("tools", module ToolServers), the watchers *)
(* of the background jobs ("jobs", BackgroundJobs), the call of a provider *)
(* ("call", ProviderCall), a command ("command", Subprocess), a mission    *)
(* ("mission", Mission) and the front of serve ("front", HttpFront).  The  *)
(* variable "part" is the one that a behaviour is about.                   *)
(***************************************************************************)
EXTENDS ProviderCall

CONSTANTS
  Servers, Callers, CallTimeout, ListTimeout, Margin, MaxRequests,           \* of ToolServers
  Jobs, MaxPending, Owner,                                                   \* of BackgroundJobs
  Pipe, Capture, Output, Input,                                              \* of Subprocess
  MissionSteps, TurnSteps, MissionTime, FailureCap, MaxKills,                \* of Mission
  Peers, Sessions, Free, MaxConnections, MaxFailures, Window, Deadline,      \* of HttpFront
  MaxLive, MaxAccepts

VARIABLES
  part,
  configs, conns, requests, elapsed,
  jobs, pending, host, wired,
  caller, child, out, in, reader, writer, heir,
  mission, session, time, work, kills,
  face, sockets, counter, limiter, mapLock, live, storage, busy

Tools == INSTANCE ToolServers
Background == INSTANCE BackgroundJobs
Command == INSTANCE Subprocess
Chained == INSTANCE Mission
             WITH host <- mission, clock <- time,
                  MaxSteps <- MissionSteps, MaxTime <- MissionTime
Front == INSTANCE HttpFront WITH conns <- sockets

ASSUME TicksAreCounted ==
  {Callers, CallTimeout, ListTimeout, Margin, MaxRequests} \subseteq Nat \ {0}
ASSUME QueueIsBounded == MaxPending \in Nat \ {0} /\ Owner \notin Jobs
ASSUME FrontIsSized ==
  {MaxConnections, Window, Deadline} \subseteq Nat /\ MaxFailures \in Nat \ {0}
ASSUME NobodyIsNoConnection == Free \notin Nat \cup Sessions \cup Peers

toolVars == <<configs, conns, requests, elapsed>>
jobVars == <<jobs, pending, host, wired>>
commandVars == <<caller, child, out, in, reader, writer, heir>>
missionVars == <<mission, session, time, work, kills>>
frontVars == <<face, sockets, counter, limiter, mapLock, live, storage, busy>>
serverVars ==
  <<part, toolVars, jobVars, vars, commandVars, missionVars, frontVars>>

ServersInit ==
  /\ part \in {"tools", "jobs", "call", "command", "mission", "front"}
  /\ Tools!Init /\ Init /\ Command!Init /\ Chained!Init
  \* The parts that a behaviour is not about stay as they are in one state.
  /\ Background!Init /\ (part # "jobs" => wired)
  /\ Front!Init /\ (part # "front" => face = "rest" /\ live = {})

ServersNext ==
  \/ /\ part = "tools" /\ Tools!Next
     /\ UNCHANGED <<part, jobVars, vars, commandVars, missionVars, frontVars>>
  \/ /\ part = "jobs" /\ Background!Next
     /\ UNCHANGED <<part, toolVars, vars, commandVars, missionVars, frontVars>>
  \/ /\ part = "call" /\ Next
     /\ UNCHANGED <<part, toolVars, jobVars, commandVars, missionVars, frontVars>>
  \/ /\ part = "command" /\ Command!Next
     /\ UNCHANGED <<part, toolVars, jobVars, vars, missionVars, frontVars>>
  \/ /\ part = "mission" /\ Chained!Next
     /\ UNCHANGED <<part, toolVars, jobVars, vars, commandVars, frontVars>>
  \/ /\ part = "front" /\ Front!Next
     /\ UNCHANGED <<part, toolVars, jobVars, vars, commandVars, missionVars>>

\* The fairness of each module, of the part that goes on.
ToolTick == part = "tools" /\ Tools!Tick
Take(r) == part = "tools" /\ r \in DOMAIN requests /\ Tools!Take(r)
Expire(r) == part = "tools" /\ r \in DOMAIN requests /\ Tools!Expire(r)
Abandon(r) == part = "tools" /\ r \in DOMAIN requests /\ Tools!Abandon(r)
SeesExit(j) == part = "jobs" /\ Background!SeesExit(j)
Handles(c) == part = "front" /\ Front!Handles(c)

ServersFairness ==
  /\ \A r \in 1 .. MaxRequests :
       WF_toolVars(Take(r)) /\ WF_toolVars(Expire(r)) /\ WF_toolVars(Abandon(r))
  /\ WF_toolVars(ToolTick)
  /\ \A j \in Jobs : WF_jobVars(SeesExit(j))
  /\ WF_vars(part = "call" /\ Host)
  /\ WF_commandVars(part = "command" /\ Command!SeesExit)
  /\ WF_commandVars(part = "command" /\ Command!Timeout)
  /\ WF_commandVars(part = "command" /\ Command!Return)
  /\ WF_commandVars(part = "command" /\ Command!Drain)
  /\ WF_commandVars(part = "command" /\ Command!Feed)
  /\ WF_missionVars(part = "mission" /\ Chained!Goes)
  /\ WF_missionVars(part = "mission" /\ Chained!Tick)
  /\ WF_frontVars(part = "front" /\ Front!Tick)
  /\ \A c \in 1 .. MaxAccepts : WF_frontVars(Handles(c))

ServersSpec == ServersInit /\ [][ServersNext]_serverVars /\ ServersFairness

-----------------------------------------------------------------------------
(* The properties are explained where they are defined. *)

VerdictBeatsTheCaller == Tools!VerdictBeatsTheCaller
EveryRequestIsSettled == Tools!EveryRequestIsSettled
EachWaitEnds ==
  Background!ExitIsToldOf /\ CancelEndsTheTurn /\ Command!RunReturns
MissionIsJudged == []Chained!ZeroIsVerified /\ Chained!MissionEnds
FrontIsBounded == Front!GuessesAreBounded /\ Front!ThreadsAreBounded
EachSlotComesBack == Front!EachSlotComesBack

=============================================================================
