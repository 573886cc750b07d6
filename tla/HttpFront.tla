----------------------------- MODULE HttpFront -----------------------------
(***************************************************************************)
(* The front of "tole serve": the connections, the authentication and the  *)
(* routes of crates/tole-cli/src/serve.rs (face "rest"), and the transport *)
(* of mcp_http.rs (face "mcp"), which keeps a connection for several       *)
(* requests.  One thread or task serves one connection.  A request of the  *)
(* MCP face is a call of a tool, which may run a whole turn and streams    *)
(* its answer (modules McpHost and TurnLoop), or a stream of notices that  *)
(* stays open: neither has a time limit.                                   *)
(*                                                                         *)
(* The map of the sessions and the storage of a session are locks; a turn  *)
(* holds its session's storage for as long as it runs, which may be for    *)
(* ever.  Which sessions the map keeps is modelled in McpHost, and what    *)
(* becomes of a decision in RemoteApprovals.                               *)
(***************************************************************************)
EXTENDS Naturals, Sequences, FiniteSets

CONSTANTS
  Peers,           \* the addresses that connect
  Sessions,
  Free,            \* the holder of a lock that nobody holds; no address
  MaxConnections,  \* of serve.rs and mcp_http.rs
  MaxFailures,     \* MAX_AUTH_FAILURES
  Window,          \* AUTH_WINDOW_SECS
  Deadline,        \* REQUEST_READ_DEADLINE; the header and body timeouts of hyper
  MaxLive,         \* MAX_LIVE_SESSIONS
  MaxAccepts       \* bound on the connections

VARIABLES
  face,       \* "rest" or "mcp"
  conns,      \* the connections, in the order in which they were accepted
  counter,    \* live_connections; the permits that are taken
  limiter,    \* AuthLimiter
  mapLock,    \* the connection that holds the map of the sessions
  live,       \* the sessions in the map
  storage,    \* the connection that holds a session's storage
  busy        \* the sessions with a turn

frontVars == <<conns, counter, limiter>>
sessionVars == <<mapLock, live, storage, busy>>
vars == <<face, frontVars, sessionVars>>

-----------------------------------------------------------------------------
(* Connections *)

Routes == {"status", "control", "prompt", "decision", "create"}

\* `left`: the time until the read is given up.
Accepted(p) ==
  [at |-> "reading", peer |-> p, left |-> Deadline,
   route |-> "none", session |-> Free]

Is(c, at) == conns[c].at = at
Reads(c) == conns[c].at \in {"reading", "body"}
Open(c) == conns[c].at # "closed"

Goes(c, at) == conns' = [conns EXCEPT ![c].at = at]

Closed == [Accepted(Free) EXCEPT !.at = "closed", !.left = 0]

\* ConnGuard: however the handler ends, the slot comes back.
Closes(c) == conns' = [conns EXCEPT ![c] = Closed] /\ counter' = counter - 1

\* The MCP transport waits for the next request of the connection.
Answers(c) ==
  IF face = "rest"
  THEN Closes(c)
  ELSE /\ conns' = [conns EXCEPT ![c] = Accepted(conns[c].peer)]
       /\ UNCHANGED counter

\* At capacity, the connection is dropped.  One thread accepts: nobody else
\* adds between its look at the counter and its addition.
Accept(p) ==
  /\ counter < MaxConnections
  /\ Len(conns) < MaxAccepts
  /\ conns' = Append(conns, Accepted(p))
  /\ counter' = counter + 1
  /\ UNCHANGED <<face, limiter, sessionVars>>

\* DeadlineReader::read(): the deadline is for the whole request.
Rearmed(left) == left

\* A part of the request comes in.
Trickle(c) ==
  /\ Reads(c)
  /\ conns[c].left > 0
  /\ conns' = [conns EXCEPT ![c].left = Rearmed(@)]
  /\ UNCHANGED <<face, counter, limiter, sessionVars>>

\* read_request() of the REST face reads the body too; the MCP face asks for
\* the token first.  A malformed or too large request is answered.
ReadRequest(c) ==
  /\ Is(c, "reading")
  /\ conns[c].left > 0
  /\ Goes(c, "checking") /\ UNCHANGED counter
  /\ UNCHANGED <<face, limiter, sessionVars>>

Refuse(c) ==
  /\ Reads(c)
  /\ conns[c].left > 0
  /\ face = "mcp" => Is(c, "body")
  /\ Answers(c)
  /\ UNCHANGED <<face, limiter, sessionVars>>

\* The client is gone, or out of time.
GiveUp(c) ==
  /\ Reads(c)
  /\ Closes(c)
  /\ UNCHANGED <<face, limiter, sessionVars>>

Expire(c) == conns[c].left = 0 /\ GiveUp(c)

\* collect_body_bounded(): an error is an answer, never an empty body.  The
\* MCP service is called.
ReadBody(c) ==
  /\ Is(c, "body")
  /\ conns[c].left > 0
  /\ Goes(c, "calling")
  /\ UNCHANGED <<face, counter, limiter, sessionVars>>

-----------------------------------------------------------------------------
(* Authentication *)

NoFailures == [age |-> Window + 1, count |-> 0]

\* Mutant: one failure too many.
IsLimitedLate(p) == limiter[p].age <= Window /\ limiter[p].count > MaxFailures

IsLimited(p) == limiter[p].age <= Window /\ limiter[p].count >= MaxFailures

\* record_failure_at(): a window that is over is replaced by a new one.
Recorded(entry) ==
  IF entry.age > Window
  THEN [age |-> 0, count |-> 1]
  ELSE [entry EXCEPT !.count = @ + 1]

\* peer_addr() of the REST face may fail: then no limit holds.
Unnamed(c) ==
  /\ face = "rest"
  /\ conns' = [conns EXCEPT ![c].at = "judging", ![c].peer = Free]

Check(c) ==
  /\ Is(c, "checking")
  /\ \/ IsLimited(conns[c].peer) /\ Answers(c)
     \/ ~IsLimited(conns[c].peer) /\ Goes(c, "judging") /\ UNCHANGED counter
     \/ Unnamed(c) /\ UNCHANGED counter
  /\ UNCHANGED <<face, limiter, sessionVars>>

\* The token is wrong.
Reject(c) ==
  /\ Is(c, "judging")
  /\ limiter' = [p \in Peers |-> IF p = conns[c].peer THEN Recorded(limiter[p]) ELSE limiter[p]]
  /\ Answers(c)
  /\ UNCHANGED <<face, sessionVars>>

\* A created session has a new id.
IsNew(s) ==
  /\ s \notin live
  /\ \A c \in DOMAIN conns :
       Open(c) => ~(conns[c].route = "create" /\ conns[c].session = s)

\* The token is right, or the path is /health.  The MCP face reads the body now.
Admit(c) ==
  /\ Is(c, "judging")
  /\ \/ /\ face = "rest"
        /\ \E r \in Routes, s \in Sessions :
             /\ r = "create" => IsNew(s)
             /\ conns' = [conns EXCEPT ![c].at = "routing", ![c].left = Deadline,
                                       ![c].route = r, ![c].session = s]
     \/ /\ face = "mcp"
        /\ conns' = [conns EXCEPT ![c].at = "body", ![c].left = Deadline]
  /\ UNCHANGED <<face, counter, limiter, sessionVars>>

\* The tool has answered and its stream is over.
EndCall(c) ==
  /\ Is(c, "calling")
  /\ Answers(c)
  /\ UNCHANGED <<face, limiter, sessionVars>>

\* The client leaves in the middle of it.
HangUp(c) ==
  /\ Is(c, "calling")
  /\ Closes(c)
  /\ UNCHANGED <<face, limiter, sessionVars>>

-----------------------------------------------------------------------------
(* Routes *)

RoutesTo(c, r) == Is(c, "routing") /\ conns[c].route = r /\ mapLock = Free

\* GET /health, GET /sessions, GET /approvals, and the cancel, the interrupt
\* and the detach of a session: the map for a moment, never a storage.
Control(c) ==
  /\ RoutesTo(c, "control")
  /\ Answers(c)
  /\ UNCHANGED <<face, limiter, sessionVars>>

\* GET /sessions/<id>: with the map in hand it asks for the storage.
Look(c) ==
  /\ RoutesTo(c, "status")
  /\ IF conns[c].session \in live
     THEN mapLock' = c /\ Goes(c, "looking") /\ UNCHANGED counter
     ELSE Closes(c) /\ UNCHANGED mapLock
  /\ UNCHANGED <<face, limiter, live, storage, busy>>

\* Mutant: it waits for the storage.
WaitsForTurn(s) == storage[s] = Free

\* try_lock(): what a turn holds is left out of the answer.
CanTell(s) == TRUE

Tell(c) ==
  /\ Is(c, "looking")
  /\ CanTell(conns[c].session)
  /\ mapLock' = Free
  /\ Closes(c)
  /\ UNCHANGED <<face, limiter, live, storage, busy>>

\* POST /sessions/<id>/prompt: unknown (500), busy (409), or claimed.
Prompt(c) ==
  LET s == conns[c].session IN
  /\ RoutesTo(c, "prompt")
  /\ IF s \in live /\ s \notin busy
     THEN busy' = busy \cup {s} /\ Goes(c, "waiting") /\ UNCHANGED counter
     ELSE Closes(c) /\ UNCHANGED busy
  /\ UNCHANGED <<face, limiter, mapLock, live, storage>>

\* The decision's audit: the handle is cloned and the map is given back
\* before the storage is waited for.  An evicted session's file is opened.
Audit(c) ==
  /\ RoutesTo(c, "decision")
  /\ IF conns[c].session \in live
     THEN Goes(c, "auditing") /\ UNCHANGED counter
     ELSE Closes(c)
  /\ UNCHANGED <<face, limiter, sessionVars>>

StartTurn(c) ==
  /\ Is(c, "waiting")
  /\ storage[conns[c].session] = Free
  /\ storage' = [storage EXCEPT ![conns[c].session] = c]
  /\ Goes(c, "turn")
  /\ UNCHANGED <<face, counter, limiter, mapLock, live, busy>>

EndTurn(c) ==
  /\ Is(c, "turn")
  /\ storage' = [storage EXCEPT ![conns[c].session] = Free]
  /\ busy' = busy \ {conns[c].session}
  /\ Closes(c)
  /\ UNCHANGED <<face, limiter, mapLock, live>>

CommitAudit(c) ==
  /\ Is(c, "auditing")
  /\ storage[conns[c].session] = Free
  /\ Closes(c)
  /\ UNCHANGED <<face, limiter, sessionVars>>

\* POST /sessions: the directory is checked and there must be room before a
\* file is created, and again when the session joins the map.
HasRoom == Cardinality(live) < MaxLive \/ live \ busy # {}

Create(c) ==
  /\ RoutesTo(c, "create")
  /\ \/ HasRoom /\ Goes(c, "opening") /\ UNCHANGED counter
     \/ Closes(c)
  /\ UNCHANGED <<face, limiter, sessionVars>>

Join(c) ==
  /\ Is(c, "opening")
  /\ mapLock = Free
  /\ \E idle \in {S \in SUBSET (live \ busy) : Cardinality(S) <= 1} :
       /\ Cardinality(live \ idle) < MaxLive
       /\ idle # {} => Cardinality(live) >= MaxLive
       /\ live' = (live \ idle) \cup {conns[c].session}
  /\ Closes(c)
  /\ UNCHANGED <<face, limiter, mapLock, storage, busy>>

JoinsNot(c) ==
  /\ Is(c, "opening")
  /\ mapLock = Free
  /\ ~HasRoom
  /\ Closes(c)
  /\ UNCHANGED <<face, limiter, sessionVars>>

-----------------------------------------------------------------------------
(* Time *)

Aged(entry) == [entry EXCEPT !.age = IF @ > Window THEN @ ELSE @ + 1]

Tick ==
  /\ conns' = [c \in DOMAIN conns |->
                 IF Reads(c) /\ conns[c].left > 0
                 THEN [conns[c] EXCEPT !.left = @ - 1]
                 ELSE conns[c]]
  /\ limiter' = [p \in Peers |-> Aged(limiter[p])]
  /\ <<conns, limiter>>' # <<conns, limiter>>
  /\ UNCHANGED <<face, counter, sessionVars>>

-----------------------------------------------------------------------------

Init ==
  /\ face \in {"rest", "mcp"}
  /\ conns = <<>>
  /\ counter = 0
  /\ limiter = [p \in Peers |-> NoFailures]
  /\ mapLock = Free
  /\ live \in {S \in SUBSET Sessions : Cardinality(S) <= MaxLive}
  /\ storage = [s \in Sessions |-> Free]
  /\ busy = {}

\* What a handler does by itself.
Serves(c) ==
  \/ Check(c) \/ Reject(c) \/ Admit(c)
  \/ Control(c) \/ Look(c) \/ Tell(c) \/ Prompt(c) \/ Audit(c)
  \/ StartTurn(c) \/ CommitAudit(c) \/ Create(c) \/ Join(c) \/ JoinsNot(c)

Handles(c) == c \in DOMAIN conns /\ (Serves(c) \/ Expire(c))

Next ==
  \/ \E p \in Peers : Accept(p)
  \/ \E c \in DOMAIN conns :
       Trickle(c) \/ ReadRequest(c) \/ Refuse(c) \/ GiveUp(c) \/ ReadBody(c)
  \/ \E c \in DOMAIN conns : Serves(c) \/ EndTurn(c) \/ EndCall(c) \/ HangUp(c)
  \/ Tick

\* Time passes, and a thread that can go on does.  Nothing is assumed of the
\* clients, and a turn or a call need not end.
Spec ==
  /\ Init /\ [][Next]_vars
  /\ WF_vars(Tick)
  /\ \A c \in 1 .. MaxAccepts : WF_vars(Handles(c))

-----------------------------------------------------------------------------
(* Properties *)

\* An address tries at most MaxFailures wrong tokens in a window, and one
\* more for each connection that had passed the check when the last of them
\* was recorded (auth.rs, lines 11-14; serve.rs, lines 362-372).
GuessesAreBounded ==
  \A p \in Peers : limiter[p].count <= MaxFailures + MaxConnections - 1

\* The counter is the number of the open connections, and the cap holds.
ThreadsAreBounded ==
  /\ counter = Cardinality({c \in DOMAIN conns : Open(c)})
  /\ counter <= MaxConnections

\* A turn that never ends keeps nobody else: each connection ends, whatever
\* its client does and however slowly, unless it runs a turn or waits for the
\* storage of a session whose turn goes on (serve.rs, lines 80-86 and
\* 552-558).  A connection that the MCP face keeps is heard of again: it ends,
\* or its next request has come in, or is being carried out.
EachSlotComesBack ==
  \A c \in 1 .. MaxAccepts :
    (c \in DOMAIN conns /\ Open(c)) ~>
      \/ c \in DOMAIN conns /\ (~Open(c) \/ Is(c, "turn"))
      \/ c \in DOMAIN conns /\ Is(c, "auditing")
           /\ storage[conns[c].session] # Free
      \/ c \in DOMAIN conns /\ face = "mcp" /\ (Is(c, "checking") \/ Is(c, "calling"))

=============================================================================
