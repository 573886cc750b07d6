------------------------------- MODULE Roster -------------------------------
(***************************************************************************)
(* What a process lets a model do: the flags that each face accepts        *)
(* (dispatch() of crates/tole-cli/src/main.rs), the tools that it          *)
(* registers (tool_roster.rs, tool.rs), and what decides on a call: the    *)
(* approver of the face (approver.rs, approval.rs, approvals.rs), then the *)
(* hooks (hooks.rs), in the order of gate.rs.                              *)
(*                                                                         *)
(* A tool stands for those that are registered under the same conditions   *)
(* with the same risk.  What an allow list says of a call is a verdict     *)
(* here; module AllowLists has the patterns.                               *)
(***************************************************************************)
EXTENDS FiniteSets

VARIABLES
  setup,     \* the command line, the environment and the servers' offers
  stage,     \* of the process
  registry,  \* the tools that are registered
  listed,    \* what the allow list says of a call of a tool
  granted,   \* tools of "always allow"
  auto,      \* auto-write: --yes, or the ACP option "approval"
  oneShot,   \* calls that a remote client has approved
  call       \* the call at hand

vars == <<setup, stage, registry, listed, granted, auto, oneShot, call>>

-----------------------------------------------------------------------------
(* The faces.  "cli": run, chat, resume and tui; "rest": the sessions of   *)
(* serve; "mcp": the tool server and the sessions of its HTTP transport.   *)

Faces == {"cli", "mission", "acp", "rest", "mcp"}

\* A child process is one of depth 1, with a role of its own: it hands its
\* work off.  `client`: --skill, --no-skills or --mcp-server, for sessions of
\* the command line only.  `offers`: of the MCP server "cora", which is
\* attached without a flag.
Setups ==
  [face : Faces, plan : BOOLEAN, child : BOOLEAN, client : BOOLEAN,
   hooks : {"none", "pretool", "turnend"}, offers : SUBSET {"tools", "resources"},
   trust : {"none", "workspace"}, root : {"implicit", "project", "home"}]

Interactive(s) == s.face \in {"cli", "mission", "acp"}

\* build_registry(): only the command line's registries attach MCP servers.
AttachesServers(s) == s.face \in {"cli", "mission"}

\* check_client_session_flags()
ClientFlags(s) == s.client /\ s.face # "cli"

\* A face that cannot run a hook or a mode refuses it.
Unhonoured(s) ==
  \/ s.hooks = "pretool" /\ s.face # "cli"
  \/ s.hooks = "turnend" /\ s.face \in {"mission", "mcp"}
  \/ s.plan /\ s.face = "mission"

\* check_workspace_root(): the preset that lets files be written needs a
\* workspace that was named, and that is no home.
NoWorkspace(s) == s.trust = "workspace" /\ s.root # "project"

Refused(s) == NoWorkspace(s) \/ Unhonoured(s) \/ ClientFlags(s)

-----------------------------------------------------------------------------
(* The tools *)

ReadTools == {"read_file", "cora_search", "mcp_read", "load_skill", "todo_read"}
WriteTools == {"write_file", "agent_start", "mcp_tool", "todo_write", "handoff"}
Tools == ReadTools \cup WriteTools \cup {"delete_file"}

RiskOf(t) ==
  IF t \in ReadTools THEN "ReadOnly" ELSE IF t = "delete_file" THEN "Destructive" ELSE "Write"

If(condition, tools) == IF condition THEN tools ELSE {}

\* retain_read_only()
ReadOnly(tools) == {t \in tools : RiskOf(t) = "ReadOnly"}

Native(s) ==
  {"read_file"}
    \cup If(s.child, {"handoff"})
    \cup If(~s.plan, {"write_file"})
    \cup If(~s.plan /\ ~s.child /\ s.face # "mcp", {"agent_start"})
    \cup If(~s.plan /\ Interactive(s), {"delete_file"})

\* register_server_tools(): every tool of a server is a Write.  The native
\* search is the fallback for a server that has registered none.
Served(s) ==
  IF AttachesServers(s) /\ "tools" \in s.offers THEN {"mcp_tool"} ELSE {"cora_search"}

Resources(s) == If(AttachesServers(s) /\ "resources" \in s.offers, {"mcp_read"})

\* build()
Built(s) ==
  LET all == Native(s) \cup Served(s) \cup Resources(s)
  IN IF s.plan THEN ReadOnly(all) ELSE all

\* register_todo() and apply_skills(), when the session is there.
Joined(s) ==
  If(s.face # "mcp", {"todo_read"} \cup If(~s.plan, {"todo_write"}))
    \cup If(s.face = "cli" /\ s.client, {"load_skill"})

-----------------------------------------------------------------------------
(* The process starts *)

Verdicts == {"allow", "deny", "ask", "no_match"}
NoCall == [tool |-> "read_file", at |-> "none", auto |-> FALSE, yes |-> FALSE, hooked |-> FALSE]

\* The list that a process is given; it says the same of the other tools.
SomeLists ==
  {[t \in Tools |-> IF t = "write_file" THEN v ELSE IF t = "delete_file" THEN w ELSE "no_match"]
     : v \in Verdicts, w \in {"allow", "deny"}}

Refuse ==
  /\ stage = "starting"
  /\ Refused(setup)
  /\ stage' = "refused"
  /\ UNCHANGED <<setup, registry, listed, granted, auto, oneShot, call>>

Start ==
  /\ stage = "starting"
  /\ ~Refused(setup)
  /\ stage' = "serving"
  /\ registry' = Built(setup) \cup Joined(setup)
  /\ listed' \in SomeLists
  /\ auto' \in {FALSE} \cup {Interactive(setup)}
  /\ UNCHANGED <<setup, granted, oneShot, call>>

-----------------------------------------------------------------------------
(* A call *)

AtRest == stage = "serving" /\ call.at \in {"none", "ran", "denied"}
Is(at) == stage = "serving" /\ call.at = at
Policy == <<setup, stage, registry, listed>>

\* The model names any tool.  One that only reads runs at once.
Ask(t) ==
  /\ AtRest
  /\ call' = [NoCall EXCEPT !.tool = t,
                !.at = IF t \notin registry THEN "denied"
                       ELSE IF RiskOf(t) = "ReadOnly" THEN "ran" ELSE "asked"]
  /\ UNCHANGED <<granted, auto, oneShot>>
  /\ UNCHANGED Policy

\* InteractiveApprover::decide() takes the mode first, the patterns next.
LookAtMode ==
  /\ Is("asked")
  /\ Interactive(setup)
  /\ call' = IF RiskOf(call.tool) = "Destructive"
             THEN [call EXCEPT !.at = "prompted"]
             ELSE [call EXCEPT !.at = "looked", !.auto = auto]
  /\ UNCHANGED <<granted, auto, oneShot>>
  /\ UNCHANGED Policy

\* The preset lets the files of the workspace be written.
Preset(t) == setup.trust = "workspace" /\ t = "write_file"

\* pattern_verdict(), of the list, its presets and what was granted.
VerdictOn(t) ==
  IF listed[t] \in {"deny", "ask"} THEN listed[t]
  ELSE IF listed[t] = "allow" \/ Preset(t) \/ t \in granted THEN "allow"
  ELSE "no_match"

\* Mutant: the mode is looked at before the denies.
AutoFirst(v, mode) ==
  IF mode \/ v = "allow" THEN "allowed" ELSE IF v = "deny" THEN "denied" ELSE "prompted"

Answered(v, mode) ==
  CASE v = "deny" -> "denied"
    [] v = "ask" -> "prompted"
    [] v = "allow" -> "allowed"
    [] v = "no_match" -> IF mode THEN "allowed" ELSE "prompted"

LookAtPatterns ==
  /\ Is("looked")
  /\ call' = [call EXCEPT !.at = Answered(VerdictOn(call.tool), call.auto)]
  /\ UNCHANGED <<granted, auto, oneShot>>
  /\ UNCHANGED Policy

\* The human at the terminal or the editor; no answer is a no.
HumanAnswers ==
  /\ Is("prompted")
  /\ \/ call' = [call EXCEPT !.at = "allowed", !.yes = TRUE]
     \/ call' = [call EXCEPT !.at = "denied"]
  /\ UNCHANGED <<granted, auto, oneShot>>
  /\ UNCHANGED Policy

\* The editor's third option, which is there for writes only.
AllowAlways ==
  /\ Is("prompted")
  /\ setup.face = "acp"
  /\ RiskOf(call.tool) = "Write"
  /\ granted' = granted \cup {call.tool}
  /\ call' = [call EXCEPT !.at = "allowed", !.yes = TRUE]
  /\ UNCHANGED <<auto, oneShot>>
  /\ UNCHANGED Policy

\* The reader of ACP changes the mode while a turn decides.
SetApproval ==
  /\ stage = "serving"
  /\ setup.face = "acp"
  /\ auto' = ~auto
  /\ UNCHANGED <<granted, oneShot, call>>
  /\ UNCHANGED Policy

\* AllowlistApprover: nobody to ask.
AllowlistDecides ==
  /\ Is("asked")
  /\ setup.face = "mcp"
  /\ call' = [call EXCEPT !.at = IF VerdictOn(call.tool) = "allow" THEN "allowed" ELSE "denied"]
  /\ UNCHANGED <<granted, auto, oneShot>>
  /\ UNCHANGED Policy

\* QueueApprover: whatever the list does not allow waits for a remote yes to
\* the same call, one that the list denies too.
QueueDecides ==
  /\ Is("asked")
  /\ setup.face = "rest"
  /\ \/ /\ VerdictOn(call.tool) = "allow"
        /\ call' = [call EXCEPT !.at = "allowed"]
        /\ UNCHANGED oneShot
     \/ /\ VerdictOn(call.tool) # "allow" /\ call.tool \in oneShot
        /\ call' = [call EXCEPT !.at = "allowed", !.yes = TRUE]
        /\ oneShot' = oneShot \ {call.tool}
     \/ /\ VerdictOn(call.tool) # "allow" /\ call.tool \notin oneShot
        /\ call' = [call EXCEPT !.at = "denied"]
        /\ UNCHANGED oneShot
  /\ UNCHANGED <<granted, auto>>
  /\ UNCHANGED Policy

\* The client approves a call that was denied: it is asked for again.
RemoteYes ==
  /\ Is("denied")
  /\ setup.face = "rest"
  /\ RiskOf(call.tool) = "Write" /\ call.tool \in registry
  /\ oneShot' = oneShot \cup {call.tool}
  /\ UNCHANGED <<granted, auto, call>>
  /\ UNCHANGED Policy

\* The hooks are wired for sessions of the command line.
Hooked == setup.hooks = "pretool" /\ setup.face = "cli"

\* ProcessHook::run(): an exit code of 2 denies; a hook that fails does not.
HookDenies ==
  /\ Is("allowed") /\ Hooked
  /\ call' = [call EXCEPT !.at = "denied"]
  /\ UNCHANGED <<granted, auto, oneShot>>
  /\ UNCHANGED Policy

\* pre_hook_denial() has found nothing against the call.
Execute ==
  /\ Is("allowed")
  /\ call' = [call EXCEPT !.at = "ran", !.hooked = Hooked]
  /\ UNCHANGED <<granted, auto, oneShot>>
  /\ UNCHANGED Policy

-----------------------------------------------------------------------------

Init ==
  /\ setup \in Setups
  /\ stage = "starting"
  /\ registry = {} /\ granted = {} /\ oneShot = {}
  /\ listed = [t \in Tools |-> "no_match"]
  /\ auto = FALSE
  /\ call = NoCall

Next ==
  \/ Refuse \/ Start
  \/ \E t \in Tools : Ask(t)
  \/ LookAtMode \/ LookAtPatterns \/ HumanAnswers \/ AllowAlways \/ SetApproval
  \/ AllowlistDecides \/ QueueDecides \/ RemoteYes \/ HookDenies \/ Execute

Spec == Init /\ [][Next]_vars

-----------------------------------------------------------------------------
(* Properties *)

\* Plan mode is the absence of every tool that writes, on every face,
\* whatever the servers offer and whoever registers a tool late (tool.rs,
\* lines 266-271).
PlanOnlyReads == setup.plan => \A t \in registry : RiskOf(t) = "ReadOnly"

\* What may let a call run without a human's yes to it.
Unattended(t) ==
  \/ listed[t] = "allow" \/ t \in granted \/ call.auto
  \/ setup.trust = "workspace" /\ setup.root = "project" /\ t = "write_file"

\* An effect has what it needs, on every face: a destructive one the yes of
\* a human, whatever is listed, for or against it, or granted; another one
\* that the list denies no way around it but a remote yes; each one its
\* hook, since a face that runs no hooks does not start with them
\* (approver.rs, lines 66-72 and 165-179; main.rs, lines 970-974).
EachEffectIsAllowed ==
  (call.at = "ran" /\ RiskOf(call.tool) # "ReadOnly") =>
    /\ call.yes \/ Unattended(call.tool)
    /\ RiskOf(call.tool) = "Destructive" => call.yes
    /\ listed[call.tool] = "deny" =>
         call.yes /\ (setup.face = "rest" \/ RiskOf(call.tool) = "Destructive")
    /\ setup.hooks = "pretool" => call.hooked

=============================================================================
