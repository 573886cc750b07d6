---------------------------- MODULE MCApprovals ----------------------------
(***************************************************************************)
(* Model checking of the remote approvals, of the behaviours that stay     *)
(* within one of three limits.  "shared": the sessions make the same calls *)
(* and one client decides.  "aging": approvals of one session expire while *)
(* they are decided on.  "race": the clients of Handlers decide on one     *)
(* approval of one session, whose commits may fail.                        *)
(***************************************************************************)
EXTENDS RemoteApprovals

CONSTANTS One, Client   \* the session and the client that are alone in a part

ASSUME OneOfEach == One \in Sessions /\ Client \in Handlers

VARIABLE part

OneClient == \A h \in Handlers \ {Client} : handler'[h] = handler[h]
OneSession == \A s \in Sessions \ {One} : turn'[s] = turn[s] /\ s \in live'
Reliable == poisoned' = {}
Timeless == now' = 0

\* What a step of a part does not do.
Within ==
  /\ part = "shared" => OneClient /\ Reliable /\ Timeless
  /\ part = "aging" => OneClient /\ OneSession /\ Reliable
  /\ part = "race" => OneSession /\ Len(origin') <= 1
  /\ UNCHANGED part

PartsInit == Init /\ part \in {"shared", "aging", "race"}
PartsNext == Next /\ Within

\* The fairness of RemoteApprovals, for the threads of the race.
RaceFairness ==
  /\ WF_<<part, vars>>(part = "race" /\ TurnStep(One) /\ Within)
  /\ \A h \in Handlers : SF_<<part, vars>>(part = "race" /\ HandlerStep(h) /\ Within)

PartsSpec == PartsInit /\ [][PartsNext]_<<part, vars>> /\ RaceFairness

-----------------------------------------------------------------------------
\* DecisionsAreAnswered, which is explained in RemoteApprovals.
EachDecisionIsAnswered ==
  \A h \in Handlers :
    part = "race" /\ handler[h].at = "decided" ~> part = "race" /\ handler[h].at = "idle"

=============================================================================
