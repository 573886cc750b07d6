---------------------------- MODULE ChildAgents ----------------------------
(***************************************************************************)
(* Child agents (crates/tole-core/src/agents.rs): sessions, each in a      *)
(* process of its own here, start children in one agents directory, and    *)
(* poll them.  A child is a process that outlives its parent.  Its result  *)
(* is what it left in its mailbox room of the memory store (memory.rs) and *)
(* the handoff document of its role (handoff.rs).                          *)
(*                                                                         *)
(* What the file system and "ps" keep is a record for each agent; what a   *)
(* parent knows is in its own variable and dies with it.  The memory store *)
(* is external: it may fail, and cleaning a room is best effort.           *)
(*                                                                         *)
(* The poll tool's mutex belongs to one session, whose calls are executed  *)
(* one after the other: it never makes two sessions wait.  Prompts, logs,  *)
(* allow patterns and worktrees are left out, their failures are not.      *)
(***************************************************************************)
EXTENDS Naturals, FiniteSets

CONSTANTS
  Agents,
  Parents,        \* sessions that start and poll
  MaxConcurrent,  \* max_concurrent
  Nobody

VARIABLES
  lock,     \* the holder of the flock of agents_root_lock()
  agents,   \* the directory, the process, the mailbox and the handoff of each
  parents,  \* what each parent does
  reports   \* what polls have reported: the agent and its gate

vars == <<lock, agents, parents, reports>>

Roles == {"none", "explore", "implement"}   \* "verify" is as "explore", "fix" as "implement"
RequiresVerification(role) == role = "implement"

\* A valid document, by its verification; one that is not valid counts as none.
Documents == {"unverified", "failed", "passed"}
Gates == {"no_role", "no_handoff", "closed", "unverified", "verify_failed"}

NoAgent == [dir |-> "none", process |-> "none", role |-> "none", handoff |-> "none",
            mailbox |-> "empty", consumed |-> FALSE, wrote |-> FALSE,
            recalled |-> FALSE, again |-> FALSE, orphan |-> FALSE]
Idle == [at |-> "idle", agent |-> Nobody, consumed |-> FALSE]

TypeOK ==
  /\ lock \in Parents \cup {Nobody}
  /\ \A a \in Agents :
       /\ agents[a].dir \in {"none", "made", "meta", "pid"}
       /\ agents[a].process \in {"none", "up", "over"}
       /\ agents[a].role \in Roles
       /\ agents[a].handoff \in Documents \cup {"none"}
       /\ agents[a].mailbox \in {"empty", "full", "cleaned"}
  /\ \A p \in Parents :
       /\ parents[p].at \in {"idle", "locked", "prepared", "spawned", "settled", "recalled",
                             "cleaned"}
       /\ parents[p].agent \in Agents \cup {Nobody}
  /\ reports \subseteq Agents \X Gates

Init ==
  /\ lock = Nobody
  /\ agents = [a \in Agents |-> NoAgent]
  /\ parents = [p \in Parents |-> Idle]
  /\ reports = {}

At(p, at) == parents[p].at = at
AgentOf(p) == parents[p].agent
Becomes(p, at) == parents' = [parents EXCEPT ![p].at = at]
Returns(p) == parents' = [parents EXCEPT ![p] = Idle]

-----------------------------------------------------------------------------
(* agent_start *)

\* Mutant: flock() of a file that each session opens for itself.
LockOwnFile(p) ==
  /\ At(p, "idle")
  /\ Becomes(p, "locked")
  /\ lock' = p
  /\ UNCHANGED <<agents, reports>>

\* agents_root_lock() waits for the holder.
Lock(p) ==
  /\ At(p, "idle")
  /\ lock = Nobody
  /\ lock' = p
  /\ Becomes(p, "locked")
  /\ UNCHANGED <<agents, reports>>

Unlocks(p) == lock' = IF lock = p THEN Nobody ELSE lock

\* live_agents(): a pid file, and a process that agent_alive() takes for the
\* child's.
LiveAgents == {a \in Agents : agents[a].dir = "pid" /\ agents[a].process = "up"}

\* At the cap, or "ps" cannot be run, or nothing can be created.
StartRefused(p) ==
  /\ At(p, "locked")
  /\ Returns(p)
  /\ Unlocks(p)
  /\ UNCHANGED <<agents, reports>>

\* The directory; then the worktree, meta.json and the log, which may fail.
Prepare(p, a) ==
  /\ At(p, "locked")
  /\ Cardinality(LiveAgents) < MaxConcurrent
  /\ agents[a].dir = "none"
  /\ \/ /\ \E role \in Roles :
             agents' = [agents EXCEPT ![a].dir = "meta", ![a].role = role]
        /\ parents' = [parents EXCEPT ![p] = [Idle EXCEPT !.at = "prepared", !.agent = a]]
        /\ UNCHANGED lock
     \/ /\ agents' = [agents EXCEPT ![a].dir = "made"]
        /\ Returns(p)
        /\ Unlocks(p)
  /\ UNCHANGED reports

Spawn(p) ==
  /\ At(p, "prepared")
  /\ \/ /\ agents' = [agents EXCEPT ![AgentOf(p)].process = "up"]
        /\ Becomes(p, "spawned")
        /\ UNCHANGED lock
     \/ /\ Returns(p)
        /\ Unlocks(p)
        /\ UNCHANGED agents
  /\ UNCHANGED reports

\* The pid file, or the child is killed.
Register(p) ==
  /\ At(p, "spawned")
  /\ \/ agents' = [agents EXCEPT ![AgentOf(p)].dir = "pid"]
     \/ agents' = [agents EXCEPT ![AgentOf(p)].process = "over"]
  /\ Returns(p)
  /\ Unlocks(p)
  /\ UNCHANGED reports

\* The parent dies anywhere: the system releases its flock, and a child it
\* had not registered yet is an orphan (ghost).  A new process takes over.
ParentDies(p) ==
  /\ parents[p] # Idle
  /\ Returns(p)
  /\ Unlocks(p)
  /\ agents' = IF At(p, "spawned") THEN [agents EXCEPT ![AgentOf(p)].orphan = TRUE] ELSE agents
  /\ UNCHANGED reports

-----------------------------------------------------------------------------
(* The child *)

Up(a) == agents[a].process = "up"

\* handoff_submit replaces the document in one rename.
Submit(a, document) ==
  /\ Up(a)
  /\ agents[a].role # "none"
  /\ agents[a].handoff # document
  /\ agents' = [agents EXCEPT ![a].handoff = document]
  /\ UNCHANGED <<lock, parents, reports>>

\* remember(), at the end of the child's run; it may fail.
Remember(a) ==
  /\ Up(a)
  /\ agents[a].mailbox = "empty"
  /\ agents' = [agents EXCEPT ![a].mailbox = "full", ![a].wrote = TRUE]
  /\ UNCHANGED <<lock, parents, reports>>

Exit(a) ==
  /\ Up(a)
  /\ agents' = [agents EXCEPT ![a].process = "over"]
  /\ UNCHANGED <<lock, parents, reports>>

-----------------------------------------------------------------------------
(* agent_poll *)

\* Handoff::gate() and what attach_handoff() makes of a missing or invalid
\* document.
GateOf(a) ==
  LET gated == RequiresVerification(agents[a].role)
      document == agents[a].handoff IN
  CASE agents[a].role = "none" -> "no_role"
    [] ~gated /\ agents[a].role # "none" -> IF document = "none" THEN "no_handoff" ELSE "closed"
    [] gated /\ document = "passed" -> "closed"
    [] gated /\ document = "failed" -> "verify_failed"
    [] gated /\ document \in {"none", "unverified"} -> "unverified"

\* The pid file, meta.json and agent_alive(): a child that runs is reported
\* as running and nothing else happens.
Poll(p, a) ==
  /\ At(p, "idle")
  /\ agents[a].dir = "pid"
  /\ ~Up(a)
  /\ parents' = [parents EXCEPT ![p] = [at |-> "settled", agent |-> a,
                                        consumed |-> agents[a].consumed]]
  /\ reports' = reports \cup {<<a, GateOf(a)>>}
  /\ UNCHANGED <<lock, agents>>

\* consume_mailbox(), which was given the meta.json of the start of the poll.
AlreadyConsumed(p) ==
  /\ At(p, "settled")
  /\ parents[p].consumed
  /\ Returns(p)
  /\ UNCHANGED <<lock, agents, reports>>

\* recall(): its hits are the summary; an error keeps everything for the
\* next poll.
Recall(p) ==
  LET a == AgentOf(p) IN
  /\ At(p, "settled")
  /\ ~parents[p].consumed
  /\ \/ /\ agents' = [agents EXCEPT ![a].recalled = @ \/ agents[a].mailbox = "full",
                                    ![a].again = @ \/ agents[a].mailbox = "cleaned"]
        /\ Becomes(p, "recalled")
     \/ /\ Returns(p)
        /\ UNCHANGED agents
  /\ UNCHANGED <<lock, reports>>

\* clean_mailbox(); a mailbox that is to be kept, or that the store does not
\* forget, stays as it is.
Clean(p) ==
  /\ At(p, "recalled")
  /\ \/ agents' = [agents EXCEPT ![AgentOf(p)].mailbox = "cleaned"]
     \/ UNCHANGED agents
  /\ Becomes(p, "cleaned")
  /\ UNCHANGED <<lock, reports>>

\* write_meta(), whose failure is a warning.
MarkConsumed(p) ==
  /\ At(p, "cleaned")
  /\ \/ agents' = [agents EXCEPT ![AgentOf(p)].consumed = TRUE]
     \/ UNCHANGED agents
  /\ Returns(p)
  /\ UNCHANGED <<lock, reports>>

-----------------------------------------------------------------------------
Start(p) ==
  \/ Lock(p)
  \/ StartRefused(p)
  \/ \E a \in Agents : Prepare(p, a)
  \/ Spawn(p)
  \/ Register(p)

Collect(p) ==
  \/ \E a \in Agents : Poll(p, a)
  \/ AlreadyConsumed(p)
  \/ Recall(p)
  \/ Clean(p)
  \/ MarkConsumed(p)

Child(a) ==
  \/ \E document \in Documents : Submit(a, document)
  \/ Remember(a)
  \/ Exit(a)

Next ==
  \/ \E p \in Parents : Start(p) \/ Collect(p) \/ ParentDies(p)
  \/ \E a \in Agents : Child(a)

Spec == Init /\ [][Next]_vars

-----------------------------------------------------------------------------
(* Properties *)

\* agent_start keeps to its cap when several sessions start children at
\* once: those that are registered and those that a start is about to
\* register.  Only the orphan of a parent that died in between is outside it.
CapIsKept ==
  Cardinality({a \in Agents : Up(a) /\ ~agents[a].orphan}) <= MaxConcurrent

\* A start that reports an error leaves no child behind: a child that runs
\* is registered, or being registered, or its parent died (agents.rs, "a
\* spawn that reports failure must not leave a live orphan").
NoStrayChild ==
  \A a \in Agents : Up(a) =>
    \/ agents[a].dir = "pid"
    \/ agents[a].orphan
    \/ \E p \in Parents : At(p, "spawned") /\ AgentOf(p) = a

\* The summary that a child left is not lost by a poll: when its mailbox is
\* cleaned, or marked as consumed, a recall has returned it, whatever failed
\* and whenever the polls came.
ResultIsRecalled ==
  \A a \in Agents :
    (agents[a].wrote /\ (agents[a].consumed \/ agents[a].mailbox = "cleaned"))
      => agents[a].recalled

\* All polls report the same gate, the one of the document that the child
\* left in the end: work is not reported as closed and then re-opened.
GateIsFinal == \A r \in reports : ~Up(r[1]) /\ r[2] = GateOf(r[1])

\* agents.rs:994-997: "The consumed flag is PERSISTED in meta.json (issue
\* #234) so a later poll -- possibly from another parent process -- does not
\* resurrect a cleaned mailbox."
CleanedStaysCleaned == \A a \in Agents : ~agents[a].again

=============================================================================
