------------------------------ MODULE Mission ------------------------------
(***************************************************************************)
(* A mission (tole-cli/src/mission.rs): turns chained towards a goal until *)
(* it is declared and verified, or a budget trips.  Budgets are looked at  *)
(* before each turn; steps and tokens are counted in the session's ledger, *)
(* the time and the failures of the verification in the process.  Each     *)
(* process is started with a --verify command or without one.              *)
(*                                                                         *)
(* A turn is abstract: it adds at most TurnSteps rows to the ledger, a     *)
(* provider may report none.  Tokens are counted like steps.               *)
(***************************************************************************)
EXTENDS Naturals

CONSTANTS
  MaxSteps,    \* --max-steps
  TurnSteps,   \* the step budget of one turn
  MaxTime,     \* --max-minutes
  FailureCap,  \* VERIFY_FAILURE_CAP
  MaxKills     \* bound on the kills

VARIABLES
  session,     \* the file: is, steps, and the summary in fact/mission
  host,        \* the process
  clock,       \* since the process started
  work,        \* what the workspace is: changed since it was verified?
  kills

vars == <<session, host, clock, work, kills>>

Statuses == {"none", "complete", "exhausted_steps", "exhausted_time", "verify_failed",
             "stopped", "error"}
Off == [is |-> "off", verified |-> FALSE, declares |-> FALSE, failures |-> 0,
        status |-> "none", exit |-> "none"]

TypeOK ==
  /\ session \in [is : {"none", "idle", "open", "final"}, steps : Nat, summary : Statuses]
  /\ host \in [is : {"off", "checking", "turn", "settled", "summing"}, verified : BOOLEAN,
               declares : BOOLEAN, failures : 0 .. FailureCap, status : Statuses,
               exit : {"none", "zero", "nonzero"}]
  /\ clock \in 0 .. MaxTime /\ kills \in 0 .. MaxKills
  /\ work \in {"good", "bad", "unknown"}

Init ==
  /\ session = [is |-> "none", steps |-> 0, summary |-> "none"]
  /\ host = Off
  /\ clock = 0
  /\ work = "unknown"
  /\ kills = 0

-----------------------------------------------------------------------------
(* The process *)

\* A new session, or --resume of the one there is: a fresh clock, no failures
\* counted, the same ledger.
Start ==
  /\ host.is = "off"
  /\ session' = IF session.is = "none" THEN [session EXCEPT !.is = "idle"] ELSE session
  /\ \E verified \in BOOLEAN : host' = [Off EXCEPT !.is = "checking", !.verified = verified]
  /\ clock' = 0
  /\ UNCHANGED <<work, kills>>

Settle(status) == host' = [host EXCEPT !.is = "summing", !.status = status]

\* Mutant: the deadline is looked at only when the ledger has rows.
TimeIsUpIfCounted == clock = MaxTime /\ session.steps > 0

TimeIsUp == clock = MaxTime

\* The pass of the compaction, which may add a row.
Compacted(is) == \E n \in 0 .. 1 : session' = [session EXCEPT !.is = is, !.steps = @ + n]

\* The budgets, the compaction, then a turn, which is refused when the session
\* is in the middle of one.
Check ==
  /\ host.is = "checking"
  /\ CASE session.steps >= MaxSteps -> Settle("exhausted_steps") /\ UNCHANGED session
       [] session.steps < MaxSteps /\ TimeIsUp -> Settle("exhausted_time") /\ UNCHANGED session
       [] OTHER ->
            \/ session.is = "open" /\ Compacted("open") /\ Settle("error")
            \/ session.is # "open" /\ Compacted("open") /\ host' = [host EXCEPT !.is = "turn"]
  /\ UNCHANGED <<clock, work, kills>>

\* The turn comes to its end: an answer, or another outcome (an approval
\* that nobody gave, a provider that failed).  Both settle the session.
TurnEnds ==
  /\ host.is = "turn"
  /\ \E n \in 0 .. TurnSteps : session' = [session EXCEPT !.is = "final", !.steps = @ + n]
  /\ work' = "unknown"
  /\ \/ \E declares \in BOOLEAN : host' = [host EXCEPT !.is = "settled", !.declares = declares]
     \/ Settle("stopped")
  /\ UNCHANGED <<clock, kills>>

\* A commit of the turn fails: the summary is written all the same.
TurnBreaks ==
  /\ host.is = "turn"
  /\ Settle("error")
  /\ work' = "unknown"
  /\ UNCHANGED <<session, clock, kills>>

GoOn == host' = [host EXCEPT !.is = "checking"]

\* Without a command the declaration is enough.
DeclaredUnverified == ~host.verified /\ host.declares

\* After each answer: the command, then the declaration.
Judge ==
  /\ host.is = "settled"
  /\ CASE DeclaredUnverified -> Settle("complete") /\ UNCHANGED work
       [] ~DeclaredUnverified /\ ~host.verified -> GoOn /\ UNCHANGED work
       [] OTHER ->
            \/ /\ work' = "good"
               /\ IF host.declares THEN Settle("complete") ELSE GoOn
            \/ /\ work' = "bad"
               /\ host' = [host EXCEPT !.failures = @ + 1,
                    !.is = IF host.failures + 1 >= FailureCap THEN "summing" ELSE "checking",
                    !.status = IF host.failures + 1 >= FailureCap THEN "verify_failed" ELSE "none"]
  /\ UNCHANGED <<session, clock, kills>>

\* The summary is committed, or the commit fails; only a complete mission
\* exits with zero.
Summarize ==
  /\ host.is = "summing"
  /\ \/ /\ session' = [session EXCEPT !.summary = host.status]
        /\ host' = [Off EXCEPT !.verified = host.verified, !.status = host.status,
                               !.exit = IF host.status = "complete" THEN "zero" ELSE "nonzero"]
     \/ host' = [Off EXCEPT !.status = host.status, !.exit = "nonzero"] /\ UNCHANGED session
  /\ UNCHANGED <<clock, work, kills>>

Kill ==
  /\ host.is # "off" /\ kills < MaxKills
  /\ kills' = kills + 1
  /\ host' = Off
  /\ UNCHANGED <<session, clock, work>>

Tick ==
  /\ clock < MaxTime
  /\ clock' = clock + 1
  /\ UNCHANGED <<session, host, work, kills>>

Next ==
  \/ Start \/ Check \/ TurnEnds \/ TurnBreaks \/ Judge \/ Summarize \/ Kill \/ Tick

\* A turn ends (module TurnLoop), the command has a timeout, and time passes.
Goes == Check \/ TurnEnds \/ Judge \/ Summarize
Fairness == WF_vars(Goes) /\ WF_vars(Tick)

Spec == Init /\ [][Next]_vars /\ Fairness

-----------------------------------------------------------------------------
(* Properties *)

\* A mission exits with zero only if the session says so too, and the work
\* that the last turn left is what the command has passed, if there is one.
ZeroIsVerified ==
  host.exit = "zero" => session.summary = "complete" /\ (host.verified => work = "good")

\* A mission comes to an end, though its provider reports no usage and its
\* model never declares anything.
MissionEnds == host.is # "off" ~> host.is = "off"

\* "A crash mid-mission resumes exactly where it stopped" (mission.rs:8-9):
\* a mission whose turns are committed does not end in an error.
CrashResumes == [][session.is = "open" /\ host.is = "checking" => host'.status # "error"]_vars

=============================================================================
