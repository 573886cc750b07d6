---------------------------- MODULE EffectSandwich ----------------------------
(***************************************************************************)
(* The effect sandwich of crates/tole-core/src/machine.rs over a durable    *)
(* session (crates/tole-core/src/storage.rs).                              *)
(*                                                                         *)
(* A tool effect is wrapped in two commits.  `begin` makes the intent      *)
(* durable, sets the `pending` register and moves the program counter to   *)
(* Executing, in one line of the session file.  The effect then runs with  *)
(* no storage involved.  `settle_ok` or `settle_err` writes the result     *)
(* entry, clears the register and moves the counter on, in one line again. *)
(* The process may be killed and the machine may lose power anywhere; a    *)
(* reopened session is inspected by `resume`.                              *)
(*                                                                         *)
(* The session file is abstracted to the set of sessions that a reopening  *)
(* after a power cut may find: a durable commit leaves one, a commit with  *)
(* a deferred fdatasync adds one (module SessionLog has the lines and the  *)
(* syncs).  A kill loses nothing that reached the page cache.              *)
(***************************************************************************)
EXTENDS Integers, TurnState

CONSTANTS
  Contracts,    \* the replay contracts in use (enum ReplaySafety)
  NoIntent,     \* the `pending` register is not set; no effect in flight
  MaxSeq,       \* bound on the sequence numbers of one session
  MaxRuns       \* bound on how often one effect is run

ASSUME ContractsAssumption ==
  Contracts \subseteq {"idempotent", "guarded", "never"}
ASSUME NoIntentAssumption == NoIntent \notin Nat
ASSUME MaxSeqAssumption == MaxSeq \in Nat
ASSUME MaxRunsAssumption == MaxRuns \in Nat \ {0}

VARIABLES
  session,      \* what the open handle (or the page cache) holds
  recoverable,  \* the sessions that a power cut may leave on the disk
  alive,        \* a process has the session open
  handles,      \* the EffectHandles this process was given
  inFlight,     \* the handle of the effect this process is at, or NoIntent
  phase,        \* how far that effect is
  origin,       \* what handed it out: "begin" or "resume"
  ran           \* ran[i]: how often the effect of intent i was run

host == <<handles, inFlight, phase, origin>>
vars == <<session, recoverable, alive, host, ran>>

\* none: no effect; armed: it may run; ran: the tool returned; barred: the
\* contract forbids a replay
Phases == {"none", "armed", "ran", "barred"}

-----------------------------------------------------------------------------
(* Sessions *)

Ids == 0 .. MaxSeq

\* The entries the sandwich writes; `of` is the id of their intent.  `seq`
\* numbers the entries alone: the register and state records of a commit
\* take numbers too, which only widens the gaps.
IntentEntries == [seq : Ids, kind : {"intent"}, of : Ids, replay : Contracts]
SettlementEntries == [seq : Ids, kind : {"tool_result", "error"}, of : Ids]
Entries == IntentEntries \cup SettlementEntries

Sessions ==
  [pc : Pcs, seq : Ids, pending : Ids \cup {NoIntent}, entries : SUBSET Entries]

EmptySession == [pc |-> "Idle", seq |-> 0, pending |-> NoIntent, entries |-> {}]

Intents(s) == {e \in s.entries : e.kind = "intent"}
Settlements(s) == {e \in s.entries : e.kind # "intent"}
HasIntent(s, i) == \E e \in Intents(s) : e.of = i
Settled(s, i) == \E e \in Settlements(s) : e.of = i

-----------------------------------------------------------------------------
(* Commits: one line appended, in full or not at all *)

\* The line is in the file and, unless its sync is deferred, on the disk.
\* An fdatasync persists every line before it as well.
Committed(new, deferred) ==
  /\ session' = new
  /\ recoverable' = IF deferred THEN recoverable \cup {new} ELSE {new}
  /\ UNCHANGED alive

\* The commit does not return: the process is killed during append_line, or
\* the append fails and poisons the handle.  The line may have reached the
\* page cache in full; a torn line is discarded by the next open.
CutShort(new) ==
  /\ session' \in {session, new}
  /\ recoverable' = recoverable \cup {session'}
  /\ alive' = FALSE

-----------------------------------------------------------------------------
(* machine.rs *)

\* The host forgets what it was doing: its process is gone.
HostLost ==
  /\ handles' = {}
  /\ inFlight' = NoIntent
  /\ phase' = "none"
  /\ origin' = "resume"

\* begin(): refused while an intent is pending.  The intent id is the
\* sequence number observed before the commit.  MaxSeq leaves room for the
\* settlement.
CanBegin ==
  /\ alive
  /\ session.pending = NoIntent
  /\ CanTransition(session.pc, "Executing")
  /\ session.seq + 2 <= MaxSeq

BegunSession(contract) ==
  [pc |-> "Executing", seq |-> session.seq + 1, pending |-> session.seq,
   entries |-> session.entries \cup
     {[seq |-> session.seq + 1, kind |-> "intent", of |-> session.seq,
       replay |-> contract]}]

Begin(contract) ==
  /\ CanBegin
  /\ Committed(BegunSession(contract), FALSE)
  /\ handles' = handles \cup {session.seq}
  /\ inFlight' = session.seq
  /\ phase' = "armed"
  /\ origin' = "begin"
  /\ ran' = [ran EXCEPT ![session.seq] = 0]

BeginCutShort(contract) ==
  /\ CanBegin
  /\ CutShort(BegunSession(contract))
  /\ HostLost
  /\ ran' = [ran EXCEPT ![session.seq] = 0]

\* The caller runs the tool, once per begin() or ReExecute.
RunEffect ==
  /\ alive
  /\ phase = "armed"
  /\ ran[inFlight] < MaxRuns
  /\ ran' = [ran EXCEPT ![inFlight] = @ + 1]
  /\ phase' = "ran"
  /\ UNCHANGED <<session, recoverable, alive, handles, inFlight, origin>>

\* Mutant: any pending intent will do, as if only the presence of the
\* register were checked.
VerifyAnyPending(h) == h \in Ids /\ session.pending # NoIntent

\* The register still holds the intent of this handle.
VerifyPending(h) == session.pending = h

AfterSettlement(ok) == IF ok THEN "Settling" ELSE "Planning"

SettledSession(h, ok) ==
  [pc |-> AfterSettlement(ok), seq |-> session.seq + 1, pending |-> NoIntent,
   entries |-> session.entries \cup
     {[seq |-> session.seq + 1, kind |-> IF ok THEN "tool_result" ELSE "error",
       of |-> h]}]

\* settle_ok() needs the tool's output; settle_err() also settles an effect
\* that was not run (a cancel, a gate that refuses, a barred replay).  A
\* host may present any handle it was ever given.
CanSettle(h, ok) ==
  /\ alive
  /\ h \in handles
  /\ phase # "none"
  /\ ok => phase = "ran"
  /\ VerifyPending(h)
  /\ CanTransition(session.pc, AfterSettlement(ok))
  /\ session.seq + 1 <= MaxSeq

\* Only settle_ok() may leave its sync to finish().
Settle(h, ok, deferred) ==
  /\ CanSettle(h, ok)
  /\ deferred => ok
  /\ Committed(SettledSession(h, ok), deferred)
  /\ inFlight' = NoIntent
  /\ phase' = "none"
  /\ UNCHANGED <<handles, origin, ran>>

SettleCutShort(h, ok) ==
  /\ CanSettle(h, ok)
  /\ CutShort(SettledSession(h, ok))
  /\ HostLost
  /\ UNCHANGED ran

\* Every commit that carries no sandwich: finish() (Settling to Planning)
\* and the transitions of the turn loop, which defers Planning to ToolCall.
AdvancedSession(pc) == [session EXCEPT !.pc = pc]

CanAdvance(pc) ==
  /\ alive
  /\ "Executing" \notin {session.pc, pc}
  /\ CanTransition(session.pc, pc)

Advance(pc) ==
  /\ CanAdvance(pc)
  /\ Committed(AdvancedSession(pc), pc = "ToolCall")
  /\ UNCHANGED <<host, ran>>

AdvanceCutShort(pc) ==
  /\ CanAdvance(pc)
  /\ CutShort(AdvancedSession(pc))
  /\ HostLost
  /\ UNCHANGED ran

-----------------------------------------------------------------------------
(* Crashes and recovery *)

\* SIGKILL between two commits: every line is in the page cache.
Kill ==
  /\ alive
  /\ alive' = FALSE
  /\ HostLost
  /\ UNCHANGED <<session, recoverable, ran>>

\* The disk keeps one of the recoverable sessions.
PowerCut ==
  /\ session' \in recoverable
  /\ recoverable' = {session'}
  /\ alive' = FALSE
  /\ HostLost
  /\ UNCHANGED ran

\* Mutant: `never` is treated like `guarded`.
ReplayableAlways(s, i) == \E e \in Intents(s) : e.of = i

\* The contract recorded in the intent entry, the authoritative record.
Replayable(s, i) == \E e \in Intents(s) : e.of = i /\ e.replay # "never"

\* The session is reopened and resume() inspects it: with no pending intent
\* it is Clean, a `never` intent must be settled as failed (Fail), any other
\* may run again (ReExecute).
Reopen ==
  /\ ~alive
  /\ alive' = TRUE
  /\ inFlight' = session.pending
  /\ handles' = {session.pending} \ {NoIntent}
  /\ phase' = IF session.pending = NoIntent THEN "none"
              ELSE IF Replayable(session, session.pending) THEN "armed"
              ELSE "barred"
  /\ origin' = "resume"
  /\ UNCHANGED <<session, recoverable, ran>>

-----------------------------------------------------------------------------

Init ==
  /\ session = EmptySession
  /\ recoverable = {EmptySession}
  /\ alive = TRUE
  /\ handles = {}
  /\ inFlight = NoIntent
  /\ phase = "none"
  /\ origin = "begin"
  /\ ran = [i \in Ids |-> 0]

SettleAny == \E h \in handles, ok, deferred \in BOOLEAN : Settle(h, ok, deferred)

Next ==
  \/ \E contract \in Contracts : Begin(contract) \/ BeginCutShort(contract)
  \/ RunEffect
  \/ SettleAny
  \/ \E h \in handles, ok \in BOOLEAN : SettleCutShort(h, ok)
  \/ \E pc \in Pcs : Advance(pc) \/ AdvanceCutShort(pc)
  \/ Kill
  \/ PowerCut
  \/ Reopen

Spec == Init /\ [][Next]_vars

-----------------------------------------------------------------------------
(* Properties *)

TypeOK ==
  /\ session \in Sessions
  /\ recoverable \subseteq Sessions
  /\ alive \in BOOLEAN
  /\ handles \subseteq Ids
  /\ inFlight \in Ids \cup {NoIntent}
  /\ phase \in Phases
  /\ origin \in {"begin", "resume"}
  /\ ran \in [Ids -> Nat]

\* At most one effect is in flight, whatever commit the crash cut the log
\* at: an intent without a settlement is the one in the `pending` register,
\* and that one has no settlement.
OneUnsettled(s) ==
  \A i \in Ids : (HasIntent(s, i) /\ ~Settled(s, i)) <=> s.pending = i

\* The register and the program counter tell the same story.
PendingIffExecuting(s) == s.pending # NoIntent <=> s.pc = "Executing"

\* Settlement is exactly once: no intent has two settlement entries, and
\* none is settled without having begun.
SettledOnce(s) ==
  /\ \A e, f \in Settlements(s) : e.of = f.of => e = f
  /\ \A e \in Settlements(s) : HasIntent(s, e.of)

\* Every session a reopening may find is one that resume() can read
\* (architecture.md, section 6: a crash at any point can be recovered).
EveryCrashPointRecovers ==
  \A s \in recoverable \cup {session} :
    OneUnsettled(s) /\ PendingIffExecuting(s) /\ SettledOnce(s)

\* A `never` effect is run at most once over all crashes and reopenings.
NeverRunsTwice ==
  \A e \in Intents(session) : e.replay = "never" => ran[e.of] <= 1

\* While an effect that this process began is in flight, its intent is on
\* the disk: the first run cannot be forgotten by a power cut.
BegunIsDurable ==
  (phase # "none" /\ origin = "begin") =>
     \A s \in recoverable : s.pending = inFlight

\* A settled intent is never run again, by a stale handle or by a resume.
SettledNeverReruns ==
  [][\A i \in Ids : ran'[i] > ran[i] => ~Settled(session, i)]_vars

=============================================================================
