-------------------------- MODULE BackgroundJobs --------------------------
(***************************************************************************)
(* Background jobs (crates/tole-core/src/jobs.rs) and the queue that their *)
(* notices share with the owner's messages (interrupt.rs).                 *)
(*                                                                         *)
(* job_start detaches a process and, when its face has given the tool the  *)
(* queue, starts one watcher thread for it; the one-shot runs of the CLI   *)
(* and "tole mcp" give none, and their jobs are only polled.  The process  *)
(* outlives the host, the watcher does not.  The watcher asks "ps"         *)
(* again and again; an error of "ps" counts as the end of the job.  The    *)
(* queue is bounded, and its messages wait for the next safe point of a    *)
(* turn (module TurnLoop).  job_poll changes nothing.                      *)
(***************************************************************************)
EXTENDS Naturals, Sequences

CONSTANTS
  Jobs,
  MaxPending,  \* of the interrupt queue
  Owner        \* the source of a message that is no notice

VARIABLES
  jobs,     \* the pid file, the process and the watcher of each job
  pending,  \* the queue: the job of a notice, or the owner
  host,     \* the process of the session is alive
  wired     \* its face has given job_start the queue

vars == <<jobs, pending, host, wired>>

NoJob == [pid |-> "none", process |-> "none", watcher |-> "none", told |-> "no"]

TypeOK ==
  /\ \A j \in Jobs : /\ jobs[j].pid \in {"none", "starting", "written"}
                     /\ jobs[j].process \in {"none", "up", "over"}
                     /\ jobs[j].watcher \in {"none", "on", "off"}
                     /\ jobs[j].told \in {"no", "queued", "dropped"}
  /\ pending \in Seq(Jobs \cup {Owner}) /\ Len(pending) <= MaxPending
  /\ host \in BOOLEAN /\ wired \in BOOLEAN

Init ==
  /\ jobs = [j \in Jobs |-> NoJob]
  /\ pending = <<>>
  /\ host = TRUE
  /\ wired \in BOOLEAN

Full == Len(pending) = MaxPending

\* The session's calls are executed one after the other.
Spawn(j) ==
  /\ host
  /\ \A i \in Jobs : jobs[i].pid # "starting"
  /\ jobs[j] = NoJob
  /\ jobs' = [jobs EXCEPT ![j] = [NoJob EXCEPT !.pid = "starting", !.process = "up"]]
  /\ UNCHANGED <<pending, host, wired>>

\* The pid file, and the watcher if there is a queue; or the process is killed.
Register(j) ==
  /\ host
  /\ jobs[j].pid = "starting"
  /\ \/ jobs' = [jobs EXCEPT ![j].pid = "written",
                             ![j].watcher = IF wired THEN "on" ELSE "none"]
     \/ jobs' = [jobs EXCEPT ![j].pid = "none", ![j].process = "over"]
  /\ UNCHANGED <<pending, host, wired>>

Exit(j) ==
  /\ jobs[j].process = "up"
  /\ jobs' = [jobs EXCEPT ![j].process = "over"]
  /\ UNCHANGED <<pending, host, wired>>

\* Mutant: the watcher waits for room.
TellsWhenRoom(j) ==
  /\ ~Full
  /\ pending' = Append(pending, j)
  /\ jobs' = [jobs EXCEPT ![j].watcher = "off", ![j].told = "queued"]

\* push_notice(): a full queue drops it.
Tells(j) ==
  IF Full
  THEN /\ jobs' = [jobs EXCEPT ![j].watcher = "off", ![j].told = "dropped"]
       /\ UNCHANGED pending
  ELSE /\ pending' = Append(pending, j)
       /\ jobs' = [jobs EXCEPT ![j].watcher = "off", ![j].told = "queued"]

SeesExit(j) ==
  /\ host
  /\ jobs[j].watcher = "on"
  /\ jobs[j].process = "over"
  /\ Tells(j)
  /\ UNCHANGED <<host, wired>>

\* pid_alive() failed: unwrap_or(false).
TakesErrorForExit(j) ==
  /\ host
  /\ jobs[j].watcher = "on"
  /\ jobs[j].process = "up"
  /\ Tells(j)
  /\ UNCHANGED <<host, wired>>

\* InterruptQueue::push(): refused when full.
OwnerPushes ==
  /\ host
  /\ ~Full
  /\ pending' = Append(pending, Owner)
  /\ UNCHANGED <<jobs, host, wired>>

\* drain(), at a safe point of a turn.
Drain ==
  /\ host
  /\ pending # <<>>
  /\ pending' = <<>>
  /\ UNCHANGED <<jobs, host, wired>>

HostDies ==
  /\ host
  /\ host' = FALSE
  /\ pending' = <<>>
  /\ jobs' = [j \in Jobs |-> [jobs[j] EXCEPT !.watcher = IF @ = "on" THEN "off" ELSE @]]
  /\ UNCHANGED wired

Next ==
  \/ \E j \in Jobs : Spawn(j) \/ Register(j) \/ Exit(j) \/ SeesExit(j) \/ TakesErrorForExit(j)
  \/ OwnerPushes
  \/ Drain
  \/ HostDies

\* The watcher's loop goes on while its process lives; a job need not end,
\* and no turn need reach a safe point.
Fairness == \A j \in Jobs : WF_vars(SeesExit(j))

Spec == Init /\ [][Next]_vars
FairSpec == Spec /\ Fairness

-----------------------------------------------------------------------------
(* Properties *)

\* On a face with a queue, the end of a job that job_start reported as started
\* is told of, or the queue was full: the watcher does not wait for a turn that
\* never comes.
ExitIsToldOf ==
  \A j \in Jobs :
    (wired /\ jobs[j].pid = "written" /\ jobs[j].process = "over") ~>
      (jobs[j].told # "no" \/ ~host)

=============================================================================
