------------------------------ MODULE McpHost ------------------------------
(***************************************************************************)
(* tole as an MCP server of several sessions: the calls of                 *)
(* crates/tole-core/src/mcp_server.rs and the tole_session_* tools of      *)
(* crates/tole-cli/src/session_tools.rs over the registry of live sessions *)
(* (session_host.rs).                                                      *)
(*                                                                         *)
(* Each call of the client runs in a thread of the blocking pool, so calls *)
(* run at once: several sessions are opened while others run turns, are    *)
(* steered, detached and evicted.  The registry's lock is held for one     *)
(* step here, never from one step to the next.  A session's flags outlive  *)
(* its eviction: a call that looked it up still holds them.                *)
(*                                                                         *)
(* Ids are new at every start (new_session_id()), and the tools re-open    *)
(* nothing.  Which paths a session may be rooted at is left out.           *)
(***************************************************************************)
EXTENDS Naturals, FiniteSets

CONSTANTS
  Sessions,
  Threads,   \* the threads of the blocking pool
  MaxLive,   \* MAX_SESSIONS, not zero
  Server     \* no session: the registry of the server itself; also "no session"

VARIABLES
  files,     \* the sessions whose log exists
  live,      \* Sessions.map
  busy,      \* the sessions whose busy flag is up
  detached,  \* the sessions whose detach flag is up, and the turn it was meant for
  steered,   \* the sessions with an interrupt in the queue
  orphans,   \* the sessions that were opened and refused
  calls      \* what each thread does

vars == <<files, live, busy, detached, steered, orphans, calls>>

\* "for" is a ghost, the turn that a check saw; "raced" is one, too: the
\* registry has changed since this call made room.
Idle == [op |-> "idle", session |-> Server, for |-> Server, raced |-> FALSE]
Ops == {"idle", "room", "opened", "prompt", "turn", "detach", "detach_seen", "interrupt",
        "interrupt_seen", "tool"}

TypeOK ==
  /\ live \subseteq files /\ files \subseteq Sessions
  /\ detached \subseteq [session : Sessions, for : Threads \cup {Server}]
  /\ busy \subseteq Sessions /\ steered \subseteq Sessions
  /\ orphans \subseteq files
  /\ \A t \in Threads : /\ calls[t].op \in Ops
                        /\ calls[t].session \in Sessions \cup {Server}
                        /\ calls[t].for \in Threads \cup {Server}
                        /\ calls[t].raced \in BOOLEAN

Init ==
  /\ files = {} /\ live = {} /\ busy = {} /\ detached = {} /\ steered = {} /\ orphans = {}
  /\ calls = [t \in Threads |-> Idle]

Does(t, op) == calls[t].op = op
SessionOf(t) == calls[t].session
Returns(t) == calls' = [calls EXCEPT ![t] = Idle]
Goes(t, op, s) == calls' = [calls EXCEPT ![t] = [Idle EXCEPT !.op = op, !.session = s]]

\* The turn of a session, named by its thread.
TurnOf(s) == IF \E t \in Threads : Does(t, "turn") /\ SessionOf(t) = s
             THEN CHOOSE t \in Threads : Does(t, "turn") /\ SessionOf(t) = s
             ELSE Server

\* Ghosts: another call that had made room sees the registry change, and a
\* turn that ends is forgotten by nobody but the checks that saw it.
Raced(others) == [t \in Threads |-> [others[t] EXCEPT !.raced = @ \/ others[t].op \in {"room", "opened"}]]
Races(t, call) == calls' = [Raced(calls) EXCEPT ![t] = call]

\* evict_for_insert(): idle sessions go until there is room for one.
Evictions ==
  IF Cardinality(live) < MaxLive THEN {{}}
  ELSE {E \in SUBSET (live \ busy) : Cardinality(live \ E) = MaxLive - 1}

-----------------------------------------------------------------------------
(* tole_session_new *)

\* ensure_room(), before anything is created.
EnsureRoom(t) ==
  /\ Does(t, "idle")
  /\ \E E \in Evictions : /\ live' = live \ E
                          /\ IF E = {} THEN Goes(t, "room", Server)
                             ELSE Races(t, [Idle EXCEPT !.op = "room"])
  /\ UNCHANGED <<files, busy, detached, steered, orphans>>

\* open_session() creates the log.
Open(t, s) ==
  /\ Does(t, "room")
  /\ s \notin files
  /\ files' = files \cup {s}
  /\ calls' = [calls EXCEPT ![t].op = "opened", ![t].session = s]
  /\ UNCHANGED <<live, busy, detached, steered, orphans>>

\* admit() looks again, in the critical section of the insertion.
Admit(t) ==
  LET s == SessionOf(t) IN
  /\ Does(t, "opened")
  /\ \/ \E E \in Evictions : /\ live' = (live \ E) \cup {s}
                             /\ Races(t, Idle)
                             /\ UNCHANGED orphans
     \/ /\ Evictions = {}
        /\ orphans' = IF calls[t].raced THEN orphans ELSE orphans \cup {s}
        /\ Returns(t)
        /\ UNCHANGED live
  /\ UNCHANGED <<files, busy, detached, steered>>

-----------------------------------------------------------------------------
(* tole_session_prompt, and the tools that reach into its turn *)

\* resolve_id(): the id given, or the only live session.
Resolved(s) == s \in live \/ live = {s}

Prompt(t, s) ==
  /\ Does(t, "idle")
  /\ s \in files
  /\ Goes(t, "prompt", s)
  /\ UNCHANGED <<files, live, busy, detached, steered, orphans>>

\* Mutant: the flag is raised without a look at it.
ClaimBusyToo(t) ==
  LET s == SessionOf(t) IN
  /\ Does(t, "prompt")
  /\ s \in live
  /\ busy' = busy \cup {s}
  /\ detached' = {d \in detached : d.session # s}
  /\ Races(t, [Idle EXCEPT !.op = "turn", !.session = s])
  /\ UNCHANGED <<files, live, steered, orphans>>

\* claim_turn(): one critical section marks the session busy and clears the
\* token, with its detach flag.
Claim(t) ==
  LET s == SessionOf(t) IN
  /\ Does(t, "prompt")
  /\ s \in live \ busy
  /\ busy' = busy \cup {s}
  /\ detached' = {d \in detached : d.session # s}
  /\ Races(t, [Idle EXCEPT !.op = "turn", !.session = s])
  /\ UNCHANGED <<files, live, steered, orphans>>

\* Evicted since it was resolved, or busy: an error.
ClaimFails(t) ==
  /\ Does(t, "prompt")
  /\ SessionOf(t) \notin live \ busy
  /\ Returns(t)
  /\ UNCHANGED <<files, live, busy, detached, steered, orphans>>

\* The turn's next safe point takes what is in the queue.
TakeInterrupt(t) ==
  /\ Does(t, "turn")
  /\ SessionOf(t) \in steered
  /\ steered' = steered \ {SessionOf(t)}
  /\ UNCHANGED <<files, live, busy, detached, orphans, calls>>

\* The turn ends by itself, detached, cancelled or by a panic: its guard takes
\* the flag down.
EndTurn(t) ==
  /\ Does(t, "turn")
  /\ busy' = busy \ {SessionOf(t)}
  /\ calls' = [u \in Threads |->
                 IF u = t THEN Idle
                 ELSE IF calls[u].for = t THEN [calls[u] EXCEPT !.for = Server]
                 ELSE calls[u]]
  /\ UNCHANGED <<files, live, detached, steered, orphans>>

\* tole_session_interrupt and tole_session_detach look the session up.
Reach(t, op, s) ==
  /\ Does(t, "idle")
  /\ Resolved(s)
  /\ Goes(t, op, s)
  /\ UNCHANGED <<files, live, busy, detached, steered, orphans>>

\* Then its busy flag: with no turn the call is refused.
SeesTurn(t, op, seen) ==
  /\ Does(t, op)
  /\ IF SessionOf(t) \in busy
       THEN calls' = [calls EXCEPT ![t].op = seen, ![t].for = TurnOf(SessionOf(t))]
       ELSE Returns(t)
  /\ UNCHANGED <<files, live, busy, detached, steered, orphans>>

\* interrupt_session() queues the message, which may wait for a later turn.
Interrupt(t) ==
  /\ Does(t, "interrupt_seen")
  /\ steered' = steered \cup {SessionOf(t)}
  /\ Returns(t)
  /\ UNCHANGED <<files, live, busy, detached, orphans>>

\* detach_session() raises the flag.
Detach(t) ==
  /\ Does(t, "detach_seen")
  /\ detached' = detached \cup {[session |-> SessionOf(t), for |-> calls[t].for]}
  /\ Returns(t)
  /\ UNCHANGED <<files, live, busy, steered, orphans>>

-----------------------------------------------------------------------------
(* Any other tool: execute_checked() *)

\* With an id, the registry of that session or a loud error; without one, the
\* server's, unless two sessions are open.  A destructive tool is refused and
\* a write needs a pattern, which changes nothing here.
Route(t, s) ==
  /\ Does(t, "idle")
  /\ \/ s \in live
     \/ s = Server /\ Cardinality(live) <= 1
  /\ Goes(t, "tool", s)
  /\ UNCHANGED <<files, live, busy, detached, steered, orphans>>

Execute(t) ==
  /\ Does(t, "tool")
  /\ Returns(t)
  /\ UNCHANGED <<files, live, busy, detached, steered, orphans>>

-----------------------------------------------------------------------------
Call(t) ==
  \/ EnsureRoom(t)
  \/ \E s \in Sessions : Open(t, s)
  \/ Admit(t)
  \/ \E s \in Sessions : Prompt(t, s)
  \/ Claim(t)
  \/ ClaimFails(t)
  \/ TakeInterrupt(t)
  \/ EndTurn(t)
  \/ \E s \in Sessions : Reach(t, "detach", s) \/ Reach(t, "interrupt", s)
  \/ SeesTurn(t, "detach", "detach_seen")
  \/ SeesTurn(t, "interrupt", "interrupt_seen")
  \/ Interrupt(t)
  \/ Detach(t)
  \/ \E s \in Sessions \cup {Server} : Route(t, s)
  \/ Execute(t)

Next == \E t \in Threads : Call(t)

Spec == Init /\ [][Next]_vars

-----------------------------------------------------------------------------
(* Properties *)

\* However many calls open sessions at once, the map keeps to its capacity.
MapKeepsItsCap == Cardinality(live) <= MaxLive

\* session_tools.rs:153-156: a session whose opening is refused leaves no log
\* behind, unless another call took the room in between.
OrphansNeedARace == orphans = {}

\* A session's flag is up for as long as one turn runs, and no second one
\* runs with it: what is evicted, steered and detached goes by that flag.
BusyIsOneTurn ==
  \A s \in Sessions :
    Cardinality({t \in Threads : Does(t, "turn") /\ SessionOf(t) = s}) = IF s \in busy THEN 1 ELSE 0

\* session_host.rs:70-72: "a stale flag must not detach the next, unrelated
\* turn".
DetachHitsItsTurn == \A d \in detached : d.session \in busy => TurnOf(d.session) = d.for

=============================================================================
