---------------------------- MODULE RemoteApprovals ----------------------------
(***************************************************************************)
(* Remote approvals of the serve face (crates/tole-cli/src/approvals.rs,   *)
(* serve.rs and session_host.rs).                                          *)
(*                                                                         *)
(* A write that is not pre-authorized is queued and denied, and its turn   *)
(* ends.  A client of the daemon allows or denies the queued entry: the    *)
(* verdict goes into the queue, then into the session's log, and an        *)
(* allowed call gets a one-shot grant and a resume of its session.         *)
(* Connections, turns and the resume run in threads of their own; what     *)
(* they share is the queue's two mutexes, the map of live sessions, and    *)
(* the storage mutex and busy flag of each session.                        *)
(*                                                                         *)
(* The calls here are those that need a remote approval; a call stands for *)
(* its fingerprint.  Other work of a turn is in module TurnLoop.  The      *)
(* queue lives in memory: the model is one life of the daemon.             *)
(***************************************************************************)
EXTENDS Integers, Sequences, Functions, FiniteSets

CONSTANTS
  Sessions, Calls,
  Handlers,   \* threads that serve decision requests
  MaxIds,       \* bound on the approvals queued
  MaxPoisoned,  \* bound on the sessions whose commits fail
  Expiry,     \* EXPIRY_SECS
  MaxTime     \* bound on the clock

ASSUME BoundsAssumption ==
  {MaxIds, MaxPoisoned, Expiry, MaxTime} \subseteq Nat

VARIABLES
  now,       \* now_ms()
  origin,    \* the session and call of every approval id given out
  entries,   \* the queue: a function from approval ids
  grants,    \* the one-shot approvals
  live,      \* the sessions in the map
  turn,      \* the thread that runs a session's turn
  busy,      \* the sessions' busy flags
  open,      \* the session has an unfinished turn that resume_turn() takes up
  poisoned,  \* the sessions whose handle refuses commits
  handler,   \* the decision threads
  facts,     \* the durable fact/approval_<id> registers
  approved,  \* ghost: the ids that were allowed while pending
  runs       \* ghost: how often a session ran a call

queue == <<origin, entries, grants>>
hosts == <<live, turn, busy, open, poisoned>>
ghosts == <<approved, runs>>
vars == <<now, queue, hosts, handler, facts, ghosts>>

-----------------------------------------------------------------------------
(* The queue *)

Ids == 1 .. MaxIds
Statuses == {"pending", "approved", "denied", "expired"}
Entry == [session : Sessions, call : Calls, created : 0 .. MaxTime, status : Statuses]
Grant == [session : Sessions, call : Calls, at : 0 .. MaxTime]

Old(t) == now - t > Expiry

\* prune_expired(): pending entries expire; terminal ones leave the queue at
\* the same age, so that one which expires leaves at once.
Marked ==
  [i \in DOMAIN entries |->
     IF entries[i].status = "pending" /\ Old(entries[i].created)
     THEN [entries[i] EXCEPT !.status = "expired"]
     ELSE entries[i]]

Retained == {i \in DOMAIN entries : Marked[i].status = "pending" \/ ~Old(Marked[i].created)}
PrunedEntries == Restrict(Marked, Retained)
PrunedGrants == {g \in grants : ~Old(g.at)}

Pruned == entries' = PrunedEntries /\ grants' = PrunedGrants

NextId == Len(origin) + 1

\* queue_entry()
Queue(s, c) ==
  /\ Len(origin) < MaxIds
  /\ origin' = Append(origin, <<s, c>>)
  /\ LET e == [session |-> s, call |-> c, created |-> now, status |-> "pending"]
     IN  entries' = [i \in DOMAIN PrunedEntries \cup {NextId} |->
                       IF i = NextId THEN e ELSE PrunedEntries[i]]
  /\ grants' = PrunedGrants

\* Mutant: the grant of any session will do.
GrantsForCall(s, c) == {g \in grants : g.call = c}

GrantsFor(s, c) == {g \in grants : g.session = s /\ g.call = c}

\* take_one_shot(): no look at the clock.
TakeOneShot(s, c) ==
  /\ GrantsFor(s, c) # {}
  /\ grants' = grants \ GrantsFor(s, c)
  /\ UNCHANGED <<origin, entries>>

-----------------------------------------------------------------------------
(* Turns *)

\* "prompt" and "resume": the turn is claimed and has not locked its storage.
Locations == {"none", "prompt", "resume", "running", "returning", "released"}
HoldsStorage(s) == turn[s] \in {"running", "returning"}
Goes(s, location) == turn' = [turn EXCEPT ![s] = location]

\* A failed commit poisons the session's handle.
Poisons(s) ==
  /\ poisoned' = poisoned \cup {s}
  /\ Cardinality(poisoned') <= MaxPoisoned

\* claim_turn(), under the map's lock.
Claim(s, kind) ==
  /\ s \in live
  /\ ~busy[s]
  /\ busy' = [busy EXCEPT ![s] = TRUE]
  /\ Goes(s, kind)

Prompt(s) ==
  /\ Claim(s, "prompt")
  /\ UNCHANGED <<now, queue, live, open, poisoned, handler, facts, ghosts>>

\* The turn locks its storage.  A prompt opens a turn, a resume needs one.
Start(s) ==
  /\ turn[s] \in {"prompt", "resume"}
  /\ Goes(s, IF turn[s] = "resume" /\ ~open[s] THEN "returning" ELSE "running")
  /\ open' = [open EXCEPT ![s] = @ \/ (turn[s] = "prompt" /\ s \notin poisoned)]
  /\ UNCHANGED <<now, queue, live, busy, poisoned, handler, facts, ghosts>>

\* QueueApprover::decide() finds a grant and the call runs, unless the
\* commit of its intent fails.
ConsultGranted(s, c) ==
  /\ turn[s] = "running"
  /\ TakeOneShot(s, c)
  /\ \/ /\ s \notin poisoned
        /\ runs' = [runs EXCEPT ![<<s, c>>] = @ + 1]
        /\ UNCHANGED <<turn, poisoned>>
     \/ /\ Poisons(s)
        /\ Goes(s, "returning")
        /\ UNCHANGED runs
  /\ UNCHANGED <<now, live, busy, open, handler, facts, approved>>

\* ... or it queues an entry and denies, which ends the turn.
ConsultQueued(s, c) ==
  /\ turn[s] = "running"
  /\ GrantsFor(s, c) = {}
  /\ Queue(s, c)
  /\ Goes(s, "returning")
  /\ UNCHANGED <<now, live, busy, open, poisoned, handler, facts, ghosts>>

Finish(s) ==
  /\ turn[s] = "running"
  /\ s \notin poisoned
  /\ Goes(s, "returning")
  /\ open' = [open EXCEPT ![s] = FALSE]
  /\ UNCHANGED <<now, queue, live, busy, poisoned, handler, facts, ghosts>>

\* Some commit of the turn fails.
Fail(s) ==
  /\ turn[s] = "running"
  /\ Goes(s, "returning")
  /\ Poisons(s)
  /\ UNCHANGED <<now, queue, live, busy, open, handler, facts, ghosts>>

\* Mutant: a turn with a final answer keeps its storage guard.
ReleaseUnfinished(s) ==
  /\ turn[s] = "returning"
  /\ open[s]
  /\ Goes(s, "released")
  /\ UNCHANGED <<now, queue, live, busy, open, poisoned, handler, facts, ghosts>>

\* The storage guard is dropped before the busy guard.
Release(s) ==
  /\ turn[s] = "returning"
  /\ Goes(s, "released")
  /\ UNCHANGED <<now, queue, live, busy, open, poisoned, handler, facts, ghosts>>

\* BusyGuard is dropped.
Unclaim(s) ==
  /\ turn[s] = "released"
  /\ Goes(s, "none")
  /\ busy' = [busy EXCEPT ![s] = FALSE]
  /\ UNCHANGED <<now, queue, live, open, poisoned, handler, facts, ghosts>>

\* A session created by another client takes the room of an idle one.
Evict(s) ==
  /\ s \in live
  /\ ~busy[s]
  /\ live' = live \ {s}
  /\ UNCHANGED <<now, queue, turn, busy, open, poisoned, handler, facts, ghosts>>

-----------------------------------------------------------------------------
(* Decisions *)

Idle == [at |-> "idle"]
HandlerGoes(h, location) == handler' = [handler EXCEPT ![h].at = location]

\* GET /approvals
List ==
  /\ Pruned
  /\ UNCHANGED <<now, origin, hosts, handler, facts, ghosts>>

\* The entry is pending once the queue has been pruned.
Standing(i) == i \in DOMAIN PrunedEntries /\ PrunedEntries[i].status = "pending"

\* ApprovalQueue::decide() on an entry that is still in the queue.  One that
\* is not pending keeps its verdict, and the route goes on with it.
Decide(h, i, allow) ==
  /\ handler[h] = Idle
  /\ i \in DOMAIN PrunedEntries
  /\ LET e == entries[i]
         one == [session |-> e.session, call |-> e.call, at |-> now]
         others == {g \in PrunedGrants : g.session # e.session \/ g.call # e.call}
     IN  /\ IF Standing(i)
            THEN /\ entries' = [PrunedEntries EXCEPT
                                  ![i].status = IF allow THEN "approved" ELSE "denied"]
                 /\ grants' = IF allow THEN others \cup {one} ELSE PrunedGrants
                 /\ approved' = IF allow THEN approved \cup {i} ELSE approved
            ELSE Pruned /\ UNCHANGED approved
         /\ handler' = [handler EXCEPT ![h] =
              [at |-> "decided", id |-> i, allow |-> allow, session |-> e.session]]
  /\ UNCHANGED <<now, origin, hosts, facts, runs>>

\* An id that is not, or no longer, in the queue: 404.
DecideUnknown(h, i) ==
  /\ handler[h] = Idle
  /\ i \notin DOMAIN PrunedEntries
  /\ Pruned
  /\ UNCHANGED <<now, origin, hosts, handler, facts, ghosts>>

\* The session's file is locked by its handle, which a waiting audit keeps
\* alive after an eviction, or by an audit that has reopened it.
FileLocked(s) ==
  \/ s \in live
  \/ \E h \in Handlers :
       handler[h].at \in {"waiting", "reopened"} /\ handler[h].session = s

HasPath(s) == \E i \in DOMAIN PrunedEntries : PrunedEntries[i].session = s

\* write_approval_audit(): the live handle, or the file named by an entry of
\* the session.
FindStorage(h) ==
  /\ handler[h].at = "decided"
  /\ LET s == handler[h].session
     IN  IF s \in live
         THEN HandlerGoes(h, "waiting") /\ UNCHANGED <<entries, grants>>
         ELSE /\ Pruned
              /\ \/ HasPath(s) /\ ~FileLocked(s) /\ HandlerGoes(h, "reopened")
                 \/ HandlerGoes(h, "failed")
  /\ UNCHANGED <<now, origin, hosts, facts, ghosts>>

Recorded(h) ==
  facts' = [facts EXCEPT ![handler[h].id] = IF handler[h].allow THEN "allow" ELSE "deny"]

\* Mutant: an eviction between the decision and its audit is passed over.
AuditIfLive(h) ==
  LET s == handler[h].session
  IN  /\ \/ handler[h].at = "waiting" /\ ~HoldsStorage(s)
         \/ handler[h].at = "reopened"
      /\ IF s \in live /\ s \notin poisoned THEN Recorded(h) ELSE UNCHANGED facts
      /\ HandlerGoes(h, "ok")
      /\ UNCHANGED <<now, queue, hosts, ghosts>>

\* The commit of the audit register, once no turn holds the storage mutex.
Audit(h) ==
  LET s == handler[h].session
  IN  /\ \/ handler[h].at = "waiting" /\ ~HoldsStorage(s) /\ s \notin poisoned
         \/ handler[h].at = "reopened"
      /\ Recorded(h)
      /\ HandlerGoes(h, "ok")
      /\ UNCHANGED <<now, queue, hosts, ghosts>>

\* A failed commit poisons the handle; one that was reopened is dropped.
AuditFails(h) ==
  LET s == handler[h].session
  IN  /\ \/ /\ handler[h].at = "waiting" /\ ~HoldsStorage(s)
            /\ Poisons(s)
         \/ handler[h].at = "reopened" /\ UNCHANGED poisoned
      /\ HandlerGoes(h, "failed")
      /\ UNCHANGED <<now, queue, live, turn, busy, open, facts, ghosts>>

\* 200, or 202 and a thread that resumes the session, or 500.
Answer(h) ==
  /\ \/ handler[h].at = "ok"
     \/ handler[h].at = "failed"
  /\ handler' = [handler EXCEPT ![h] =
       IF @.at = "ok" /\ @.allow THEN [@ EXCEPT !.at = "resuming"] ELSE Idle]
  /\ UNCHANGED <<now, queue, hosts, facts, ghosts>>

\* resume_session_turn() in the thread of an accepted allow.
Resume(h) ==
  /\ handler[h].at = "resuming"
  /\ Claim(handler[h].session, "resume")
  /\ handler' = [handler EXCEPT ![h] = Idle]
  /\ UNCHANGED <<now, queue, live, open, poisoned, facts, ghosts>>

\* The session has been evicted or runs a turn: a line on stderr.
ResumeRefused(h) ==
  /\ handler[h].at = "resuming"
  /\ handler[h].session \notin live \/ busy[handler[h].session]
  /\ HandlerGoes(h, "refused")
  /\ UNCHANGED <<now, queue, hosts, facts, ghosts>>

Forgotten(h) ==
  /\ handler[h].at = "refused"
  /\ handler' = [handler EXCEPT ![h] = Idle]
  /\ UNCHANGED <<now, queue, hosts, facts, ghosts>>

Tick ==
  /\ now < MaxTime
  /\ now' = now + 1
  /\ UNCHANGED <<queue, hosts, handler, facts, ghosts>>

-----------------------------------------------------------------------------

Init ==
  /\ now = 0
  /\ origin = <<>>
  /\ entries = [i \in {} |-> Idle]
  /\ grants = {}
  /\ live = Sessions
  /\ turn = [s \in Sessions |-> "none"]
  /\ busy = [s \in Sessions |-> FALSE]
  /\ open = [s \in Sessions |-> FALSE]
  /\ poisoned = {}
  /\ handler = [h \in Handlers |-> Idle]
  /\ facts = [i \in Ids |-> "none"]
  /\ approved = {}
  /\ runs = [k \in Sessions \X Calls |-> 0]

TurnStep(s) ==
  \/ Start(s)
  \/ \E c \in Calls : ConsultGranted(s, c) \/ ConsultQueued(s, c)
  \/ Finish(s) \/ Fail(s)
  \/ Release(s) \/ Unclaim(s)

HandlerStep(h) ==
  \/ FindStorage(h) \/ Audit(h) \/ AuditFails(h)
  \/ Answer(h) \/ Resume(h) \/ ResumeRefused(h) \/ Forgotten(h)

Next ==
  \/ \E s \in Sessions : Prompt(s) \/ TurnStep(s) \/ Evict(s)
  \/ List
  \/ \E h \in Handlers :
       \/ \E i \in Ids : DecideUnknown(h, i) \/ \E allow \in BOOLEAN : Decide(h, i, allow)
       \/ HandlerStep(h)
  \/ Tick

Spec == Init /\ [][Next]_vars

\* Threads run on and turns end.  A thread that waits for a session's
\* storage mutex is not passed over for ever by the turns of that session.
Fairness ==
  /\ \A s \in Sessions : WF_vars(TurnStep(s))
  /\ \A h \in Handlers : SF_vars(HandlerStep(h))

FairSpec == Spec /\ Fairness

-----------------------------------------------------------------------------
(* Properties *)

TypeOK ==
  /\ now \in 0 .. MaxTime
  /\ origin \in Seq(Sessions \X Calls) /\ Len(origin) <= MaxIds
  /\ DOMAIN entries \subseteq DOMAIN origin
  /\ \A i \in DOMAIN entries : entries[i] \in Entry
  /\ grants \subseteq Grant
  /\ live \subseteq Sessions
  /\ turn \in [Sessions -> Locations]
  /\ busy \in [Sessions -> BOOLEAN]
  /\ open \in [Sessions -> BOOLEAN]
  /\ poisoned \subseteq Sessions
  /\ facts \in [Ids -> {"none", "allow", "deny"}]
  /\ approved \subseteq Ids
  /\ runs \in [Sessions \X Calls -> Nat]

\* A decision is "a one-shot for exactly one queued effect" of its session
\* (threat-model.md:331): whatever turns, repeated decisions and
\* evictions do, a session has not run a call more often than that call of
\* that session was allowed, the grant at hand included.
Allowed(s, c) == {i \in approved : origin[i] = <<s, c>>}
Granted(s, c) == {g \in grants : g.session = s /\ g.call = c}

RunsNeedApprovals ==
  \A s \in Sessions, c \in Calls :
    runs[<<s, c>>] + Cardinality(Granted(s, c)) <= Cardinality(Allowed(s, c))

\* "A total failure is a 5xx, never a silent skip" (serve.rs:577): a
\* decision that is answered with success is in the log of its session, even
\* if the session was evicted or busy in between.
AnsweredIsAudited ==
  \A h \in Handlers :
    handler[h].at \in {"ok", "resuming"} => facts[handler[h].id] # "none"

\* Busy sessions are never evicted (serve.rs:521-522): a turn keeps its
\* session in the map from its claim to its last step.
TurnsAreLive == \A s \in Sessions : turn[s] # "none" => s \in live

\* Every decision is answered, whatever turn holds the session's storage.
DecisionsAreAnswered ==
  \A h \in Handlers : handler[h].at = "decided" ~> handler[h].at = "idle"

\* "Stale one-shots (a resumed turn that never replayed) die with the same
\* budget - no forever-granted authorization" (approvals.rs:117-118).
StaleGrantIsNotUsed ==
  [][\A s \in Sessions, c \in Calls :
       runs'[<<s, c>>] > runs[<<s, c>>] => \E g \in Granted(s, c) : now - g.at <= Expiry]_vars

=============================================================================
