------------------------------ MODULE AcpHost ------------------------------
(***************************************************************************)
(* The ACP face (crates/tole-cli/src/acp.rs) over the registry of live     *)
(* sessions (session_host.rs) and the interactive approver (approver.rs).  *)
(*                                                                         *)
(* One reader thread takes the client's messages in order.  A prompt runs  *)
(* its turn in a thread of its own, which asks the client for permission   *)
(* and waits for the answer that the reader routes to it.  The reader      *)
(* therefore must never wait for a turn.  What they share is the map of    *)
(* live sessions, each session's busy flag, cancel token and storage       *)
(* mutex, the approval settings, and the table of pending requests.        *)
(*                                                                         *)
(* A live session's handle owns the writer lock of its log (module         *)
(* SessionLog): a log that is live or being opened cannot be opened again. *)
(* Deny patterns and the startup allowlist never change and are left out;  *)
(* what a turn does between its calls is in module TurnLoop.               *)
(***************************************************************************)
EXTENDS Naturals, Sequences, FiniteSets, Functions

CONSTANTS
  Sessions,
  Models,       \* what the provider or TOLE_MODELS advertises
  EnvModel,     \* the model of the environment
  MaxLive,      \* MAX_SESSIONS
  MaxPrompts,   \* bound on the prompts of one process
  MaxCalls,     \* bound on the tool calls of one turn
  Free          \* no session is being opened

ASSUME EnvModelIsAModel == EnvModel \in Models
ASSUME FreeIsNoSession == Free \notin Sessions
ASSUME BoundsAreNumbers == {MaxLive, MaxPrompts, MaxCalls} \subseteq Nat

VARIABLES
  files,      \* the sessions whose log exists
  register,   \* the durable fact/model of each session
  live,       \* Sessions.map
  poisoned,   \* the live sessions whose handle refuses commits
  busy,       \* the sessions whose busy flag is up
  cancelled,  \* the sessions whose cancel token is set
  settings,   \* approval_states: auto-write and the model shown, by session
  remembered, \* the sessions whose pattern store holds the tool
  reader,     \* where the reader thread is
  prompts,    \* the prompt threads, in the order they were started
  requests    \* the permission requests sent: thread, risk, and the reply

vars == <<files, register, live, poisoned, busy, cancelled, settings, remembered, reader,
          prompts, requests>>

Overrides == [Sessions -> Models \cup {Free}]
Settings == [auto : BOOLEAN, model : Models]
\* An error or a malformed reply is routed as a cancelled outcome, a refusal.
Answers == {"once", "always", "reject"}
Risks == {"write", "destructive"}
\* A reply carries the id it was sent for.
Replies == [is : {"none", "closed"}, to : {0}]
             \cup [is : Answers, to : 1 .. MaxPrompts * MaxCalls]
Requests == [prompt : 1 .. MaxPrompts, risk : Risks, reply : Replies]
Places == {"spawned", "running", "waiting", "allowed", "ended", "done"}
Readers == [at : {"idle"}, session : {Free}] \cup [at : {"opened", "setting"}, session : Sessions]

TypeOK ==
  /\ files \subseteq Sessions
  /\ register \in Overrides
  /\ live \subseteq files
  /\ poisoned \subseteq live
  /\ busy \subseteq Sessions
  /\ cancelled \subseteq Sessions
  /\ DOMAIN settings \subseteq Sessions
  /\ \A s \in DOMAIN settings : settings[s] \in Settings
  /\ remembered \subseteq Sessions
  /\ reader \in Readers
  /\ \A p \in DOMAIN prompts : /\ prompts[p].session \in Sessions
                               /\ prompts[p].at \in Places
                               /\ prompts[p].calls \in 0 .. MaxCalls
  /\ \A r \in DOMAIN requests : requests[r] \in Requests

Init ==
  /\ files = {}
  /\ register = [s \in Sessions |-> Free]
  /\ live = {}
  /\ poisoned = {}
  /\ busy = {}
  /\ cancelled = {}
  /\ settings = <<>>
  /\ remembered = {}
  /\ reader = [at |-> "idle", session |-> Free]
  /\ prompts = <<>>
  /\ requests = <<>>

Without(f, S) == Restrict(f, DOMAIN f \ S)
With(f, x, v) == [y \in DOMAIN f \cup {x} |-> IF y = x THEN v ELSE f[y]]

-----------------------------------------------------------------------------
(* The reader thread *)

ReaderIs(at) == reader.at = at
Reads(at, s) == reader' = [at |-> at, session |-> s]
ReaderIsFree == Reads("idle", Free)

\* What resolve_model_list() may give: TOLE_MODELS or the answer of the probe,
\* or nothing while the provider does not answer.
ModelLists == {Models, {}}

\* session/new: create_with() refuses a name that exists.
New(s) ==
  /\ ReaderIs("idle")
  /\ s \notin files
  /\ files' = files \cup {s}
  /\ Reads("opened", s)
  /\ UNCHANGED <<register, live, poisoned, busy, cancelled, settings, remembered, prompts,
                 requests>>

\* session/load: a log whose handle is live is locked, and its load an error.
Load(s) ==
  /\ ReaderIs("idle")
  /\ s \in files \ live
  /\ Reads("opened", s)
  /\ UNCHANGED <<files, register, live, poisoned, busy, cancelled, settings, remembered,
                 prompts, requests>>

\* session_model_override(), or else the model of the environment.
ModelOf(s) == IF register[s] = Free THEN EnvModel ELSE register[s]

Fresh(s) == [auto |-> FALSE, model |-> ModelOf(s)]

\* admit() inserts a fresh state; run_acp() prunes the side map.
Insert(s, evicted) ==
  /\ live' = (live \ evicted) \cup {s}
  /\ poisoned' = poisoned \ evicted
  /\ settings' = With(Without(settings, evicted), s, Fresh(s))
  /\ cancelled' = cancelled \ {s}
  /\ remembered' = remembered \ {s}

\* evict_for_insert(): one idle session when the map is full.
Evictions == IF Cardinality(live) < MaxLive THEN {{}} ELSE {{s} : s \in live \ busy}

\* The end of session/new and session/load.  The id cannot be live: its log
\* was opened by this thread.
Admit ==
  /\ ReaderIs("opened")
  /\ ReaderIsFree
  /\ \/ \E evicted \in Evictions : Insert(reader.session, evicted)
     \/ /\ Evictions = {}
        /\ UNCHANGED <<live, poisoned, settings, cancelled, remembered>>
  /\ UNCHANGED <<files, register, busy, prompts, requests>>

\* session/prompt: the turn gets a thread; everything else happens there.
Prompt(s) ==
  /\ ReaderIs("idle")
  /\ Len(prompts) < MaxPrompts
  /\ prompts' = Append(prompts, [session |-> s, at |-> "spawned", calls |-> 0,
                                 by |-> 0, early |-> FALSE])
  /\ UNCHANGED <<files, register, live, poisoned, busy, cancelled, settings, remembered, reader,
                 requests>>

\* session/cancel: Sessions::cancel() of a live session.  The mark is a ghost:
\* the client sent this prompt before the cancel.
Cancel(s) ==
  /\ ReaderIs("idle")
  /\ s \in live
  /\ cancelled' = cancelled \cup {s}
  /\ prompts' = [p \in DOMAIN prompts |->
                   IF prompts[p].session = s /\ prompts[p].at = "spawned"
                   THEN [prompts[p] EXCEPT !.early = TRUE]
                   ELSE prompts[p]]
  /\ UNCHANGED <<files, register, live, poisoned, busy, settings, remembered, reader,
                 requests>>

\* set_approval_option(): flips the flag the session's approver shares, in the
\* middle of a turn too.
SetApproval(s) ==
  /\ ReaderIs("idle")
  /\ s \in DOMAIN settings
  /\ settings' = [settings EXCEPT ![s].auto = ~@]
  /\ UNCHANGED <<files, register, live, poisoned, busy, cancelled, remembered, reader,
                 prompts, requests>>

\* Mutant: the busy flag is not looked at.
SetModelAnytime(s, m) ==
  /\ ReaderIs("idle")
  /\ \E listed \in ModelLists : m \in listed \cup {EnvModel}
  /\ s \in live
  /\ Reads("setting", s)
  /\ UNCHANGED <<files, register, live, poisoned, busy, cancelled, settings, remembered,
                 prompts, requests>>

\* set_model_option() up to the storage mutex, which it takes with the map
\* still locked.
SetModel(s, m) ==
  /\ ReaderIs("idle")
  /\ \E listed \in ModelLists : m \in listed \cup {EnvModel}
  /\ s \in live \ busy
  /\ Reads("setting", s)
  /\ UNCHANGED <<files, register, live, poisoned, busy, cancelled, settings, remembered,
                 prompts, requests>>

\* The commit of the register and, when it succeeds, what the picker shows.
StoreModel(m) ==
  LET s == reader.session IN
  \/ /\ s \notin poisoned
     /\ register' = [register EXCEPT ![s] = m]
     /\ settings' = [settings EXCEPT ![s].model = m]
     /\ UNCHANGED poisoned
  \/ /\ poisoned' = poisoned \cup {s}
     /\ UNCHANGED <<register, settings>>

\* The storage mutex is free: no turn of the session runs.
SetModelLocked(m) ==
  /\ ReaderIs("setting")
  /\ reader.session \notin busy
  /\ StoreModel(m)
  /\ ReaderIsFree
  /\ UNCHANGED <<files, live, busy, cancelled, remembered, prompts, requests>>

Waits(r) == requests[r].reply.is = "none"

\* Mutant: a reply goes to the latest request that waits.
RouteToLatest(r, a) ==
  IF \E q \in DOMAIN requests : Waits(q)
  THEN LET q == CHOOSE x \in DOMAIN requests :
                  Waits(x) /\ \A y \in DOMAIN requests : Waits(y) => y <= x
       IN  requests' = [requests EXCEPT ![q].reply = [is |-> a, to |-> r]]
  ELSE UNCHANGED requests

\* route(): a reply to a request that was given up, or answered, finds no
\* waiter.
Route(r, a) ==
  IF Waits(r) THEN requests' = [requests EXCEPT ![r].reply = [is |-> a, to |-> r]]
  ELSE UNCHANGED requests

\* The client answers a request, however late.
Answer(r, a) ==
  /\ ReaderIs("idle")
  /\ r \in DOMAIN requests
  /\ Route(r, a)
  /\ UNCHANGED <<files, register, live, poisoned, busy, cancelled, settings, remembered,
                 reader, prompts>>

-----------------------------------------------------------------------------
(* A prompt's thread *)

At(p, at) == prompts[p].at = at
SessionOf(p) == prompts[p].session
Goes(p, at) == prompts' = [prompts EXCEPT ![p].at = at]
Over(p, at) == [prompts[p] EXCEPT !.at = at, !.calls = 0, !.by = 0, !.early = FALSE]
Leaves(p, at) == prompts' = [prompts EXCEPT ![p].at = at, ![p].by = 0]
MapIsFree == ~ReaderIs("setting")

\* claim_turn(), which clears the token, and the storage mutex.
Claim(p) ==
  /\ At(p, "spawned")
  /\ MapIsFree
  /\ SessionOf(p) \in live \ busy
  /\ busy' = busy \cup {SessionOf(p)}
  /\ cancelled' = cancelled \ {SessionOf(p)}
  /\ Goes(p, "running")
  /\ UNCHANGED <<files, register, live, poisoned, settings, remembered, reader,
                 requests>>

\* An unknown or busy session: the error is the answer.
Refused(p) ==
  /\ At(p, "spawned")
  /\ MapIsFree
  /\ SessionOf(p) \notin live \ busy
  /\ prompts' = [prompts EXCEPT ![p] = Over(p, "done")]
  /\ UNCHANGED <<files, register, live, poisoned, busy, cancelled, settings, remembered,
                 reader, requests>>

\* decide(): a destructive call always asks; a write asks unless a pattern
\* or the flag allows it.
Asks(s, risk) == risk = "destructive" \/ (s \notin remembered /\ ~settings[s].auto)

CallByPolicy(p) ==
  /\ At(p, "running")
  /\ prompts[p].calls < MaxCalls
  /\ SessionOf(p) \notin poisoned
  /\ ~Asks(SessionOf(p), "write")
  /\ prompts' = [prompts EXCEPT ![p].at = "allowed", ![p].calls = @ + 1]
  /\ UNCHANGED <<files, register, live, poisoned, busy, cancelled, settings, remembered,
                 reader, requests>>

\* AcpPrompt::prompt(): open_request() sends one request under a new id.
CallAsks(p, risk) ==
  /\ At(p, "running")
  /\ prompts[p].calls < MaxCalls
  /\ SessionOf(p) \notin poisoned
  /\ Asks(SessionOf(p), risk)
  /\ requests' = Append(requests, [prompt |-> p, risk |-> risk,
                                   reply |-> [is |-> "none", to |-> 0]])
  /\ prompts' = [prompts EXCEPT ![p].at = "waiting", ![p].calls = @ + 1, ![p].by = Len(requests')]
  /\ UNCHANGED <<files, register, live, poisoned, busy, cancelled, settings, remembered, reader>>

\* map_option_choice(): only a write is remembered.
Remembers(r) == requests[r].reply.is = "always" /\ requests[r].risk = "write"

\* Nobody waits for the requests of a turn that is over; what was always
\* allowed stays on record.
Closed(p) ==
  [r \in DOMAIN requests |->
     IF requests[r].prompt = p /\ requests[r].reply.is # "always"
     THEN [requests[r] EXCEPT !.reply = [is |-> "closed", to |-> 0]]
     ELSE requests[r]]
EndsTurn(p, at) ==
  /\ requests' = Closed(p)
  /\ prompts' = [prompts EXCEPT ![p] = Over(p, at)]
  /\ busy' = busy \ {SessionOf(p)}

\* wait_permission() receives the answer; a refusal ends the turn.
Receive(p) ==
  LET r == prompts[p].by IN
  /\ At(p, "waiting")
  /\ requests[r].reply.is \in Answers
  /\ remembered' = IF Remembers(r) THEN remembered \cup {SessionOf(p)} ELSE remembered
  /\ \/ requests[r].reply.is # "reject" /\ Goes(p, "allowed") /\ UNCHANGED <<busy, requests>>
     \/ requests[r].reply.is = "reject" /\ EndsTurn(p, "ended")
  /\ UNCHANGED <<files, register, live, poisoned, cancelled, settings, reader>>

\* PERMISSION_TIMEOUT is over, or the token is set: the request is abandoned
\* and the call denied.
GiveUp(p) ==
  /\ At(p, "waiting")
  /\ EndsTurn(p, "ended")
  /\ UNCHANGED <<files, register, live, poisoned, cancelled, settings, remembered, reader>>

\* The checkpoint after the intent, then the effect.
Execute(p) ==
  /\ At(p, "allowed")
  /\ \/ SessionOf(p) \in cancelled /\ EndsTurn(p, "ended")
     \/ SessionOf(p) \notin cancelled /\ Leaves(p, "running") /\ UNCHANGED <<busy, requests>>
  /\ UNCHANGED <<files, register, live, poisoned, cancelled, settings, remembered, reader>>

\* The turn ends or its commit fails; a panic, whose thread answers nothing.
\* Either way the guard takes the busy flag down.
Finish(p) ==
  /\ At(p, "running")
  /\ EndsTurn(p, "ended") \/ EndsTurn(p, "done")
  /\ UNCHANGED <<files, register, live, poisoned, cancelled, settings, remembered, reader>>

Reply(p) ==
  /\ At(p, "ended")
  /\ Goes(p, "done")
  /\ UNCHANGED <<files, register, live, poisoned, busy, cancelled, settings, remembered,
                 reader, requests>>

-----------------------------------------------------------------------------
Thread(p) ==
  \/ Claim(p)
  \/ Refused(p)
  \/ CallByPolicy(p)
  \/ \E risk \in Risks : CallAsks(p, risk)
  \/ Receive(p)
  \/ GiveUp(p)
  \/ Execute(p)
  \/ Finish(p)
  \/ Reply(p)

Reader ==
  \/ \E s \in Sessions : New(s) \/ Load(s) \/ Prompt(s) \/ Cancel(s) \/ SetApproval(s)
  \/ \E s \in Sessions, m \in Models : SetModel(s, m)
  \/ Admit
  \/ \E m \in Models : SetModelLocked(m)
  \/ \E r \in DOMAIN requests, a \in Answers : Answer(r, a)

Next ==
  \/ Reader
  \/ \E p \in DOMAIN prompts : Thread(p)

Spec == Init /\ [][Next]_vars

-----------------------------------------------------------------------------
(* Properties *)

\* A call that runs after a request was allowed by the client's answer to the
\* request that its own thread sent for it, however many requests were open
\* and however late the answers came; and a session's pattern store holds the
\* tool only when the client said "always" to a write of that session.
ConsentIsOwn ==
  /\ \A p \in DOMAIN prompts : LET r == prompts[p].by IN
       (At(p, "allowed") /\ r # 0) =>
         /\ requests[r].prompt = p
         /\ requests[r].reply.to = r
         /\ requests[r].reply.is \in {"once", "always"}
  /\ \A s \in remembered : \E r \in DOMAIN requests :
       /\ SessionOf(requests[r].prompt) = s
       /\ requests[r].risk = "write"
       /\ requests[r].reply.is = "always"

\* The reader, which routes the answers that turns wait for, never waits for
\* the storage of a session with a turn.
ReaderNeverWaitsForATurn == ReaderIs("setting") => reader.session \notin busy

\* The side map has the live sessions, and the model it shows is the one the
\* session's next turn uses, after commits that fail, evictions and restarts.
PickerTellsTheModel ==
  /\ DOMAIN settings = live
  /\ \A s \in live : settings[s].model = ModelOf(s)

\* cancel.rs:57-61: "a cancel can only be lost if it arrives before the turn
\* it targets was accepted -- at which point no turn was in flight and wiping
\* is correct".
CancelIsNotLost ==
  \A p \in DOMAIN prompts :
    (prompts[p].early /\ prompts[p].at \in {"running", "waiting", "allowed"})
      => SessionOf(p) \in cancelled

=============================================================================
