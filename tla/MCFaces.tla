------------------------------ MODULE MCFaces ------------------------------
(***************************************************************************)
(* Model checking of the faces that a user or an editor talks to.  The     *)
(* variable "part" is the face that a behaviour is about: "acp" (module    *)
(* AcpHost), "mcp" (module McpHost, whose registry has the variables       *)
(* mcpFiles, mcpLive and mcpBusy: no process serves both), "screen"        *)
(* (module Terminal) or "lines" (module ChatLoop).                         *)
(***************************************************************************)
EXTENDS AcpHost

CONSTANTS
  McpSessions, McpMaxLive, Threads,           \* of McpHost
  Texts, MaxQueue, MaxPending, MaxRecalls,    \* of Terminal
  Messages, Retries, MaxKills, Nothing        \* of ChatLoop

VARIABLES
  part,
  mcpFiles, mcpLive, mcpBusy, detached, steered, orphans, calls,
  ui, editor, app, turn, interrupts, escaped, parked, told, missed, typed, browsed,
  session, host, operator, memory, kills

Mcp == INSTANCE McpHost
         WITH Sessions <- McpSessions, MaxLive <- McpMaxLive, Server <- Free,
              files <- mcpFiles, live <- mcpLive, busy <- mcpBusy
Screen == INSTANCE Terminal WITH cancelled <- escaped
Lines == INSTANCE ChatLoop

ASSUME FreeIsNoMcpSession == Free \notin McpSessions
ASSUME SomeMcpSessionFits == McpMaxLive \in Nat \ {0}
ASSUME NothingIsNoMessage == Nothing \notin Messages

mcpVars == <<mcpFiles, mcpLive, mcpBusy, detached, steered, orphans, calls>>
screenVars ==
  <<ui, editor, app, turn, interrupts, escaped, parked, told, missed, typed, browsed>>
lineVars == <<session, host, operator, memory, kills>>

FacesInit ==
  /\ part \in {"acp", "mcp", "screen", "lines"}
  /\ Init /\ Mcp!Init /\ Screen!Init /\ Lines!Init
  /\ part # "screen" => ~parked

FacesNext ==
  \/ part = "acp" /\ Next /\ UNCHANGED <<part, mcpVars, screenVars, lineVars>>
  \/ part = "mcp" /\ Mcp!Next /\ UNCHANGED <<part, vars, screenVars, lineVars>>
  \/ part = "screen" /\ Screen!Next /\ UNCHANGED <<part, vars, mcpVars, lineVars>>
  \/ part = "lines" /\ Lines!Next /\ UNCHANGED <<part, vars, mcpVars, screenVars>>

FacesSpec == FacesInit /\ [][FacesNext]_<<part, vars, mcpVars, screenVars, lineVars>>

-----------------------------------------------------------------------------
(* The properties are explained where they are defined. *)

BusyIsTheTurn == Mcp!BusyIsOneTurn /\ Screen!ScreenIsTheTurn
NothingIsLost == Screen!NothingIsLost /\ Lines!RecordedOrTold

=============================================================================
