------------------------------- MODULE TurnLoop -------------------------------
(***************************************************************************)
(* One turn of crates/tole-core/src/turn.rs: run_turn(), resume_turn() and *)
(* the loop drive() that they share, with the gate of gate.rs, the cancel  *)
(* flags of cancel.rs and the interrupt queue of interrupt.rs.             *)
(*                                                                         *)
(* The loop is one sequential program; each of its steps up to a commit is *)
(* an action, so a kill or a power cut may fall between any two commits.   *)
(* The owner of the session cancels, detaches and interrupts it from other *)
(* threads at any time.  The provider, the approver, the hooks and the     *)
(* tools answer as they like.                                              *)
(*                                                                         *)
(* The session file is abstracted to what the loop and the properties read *)
(* in it.  As in EffectSandwich, `recoverable` holds the sessions that a   *)
(* power cut may leave.                                                    *)
(***************************************************************************)
EXTENDS Integers, Sequences, SequencesExt, FiniteSets, TurnState

CONSTANTS
  Calls,         \* the tool calls the model may make: a tool and its input
  Batches,       \* the sequences of calls one response may carry
  Registries,    \* the risk of each call's tool, for each host start
  NoCall,        \* no tool call
  MaxSteps, LoopTrip, PollTrip, Retries, StopGateCap,  \* limits of turn.rs
  MaxPushes,     \* bound on the interrupts accepted
  MaxCrashes     \* bound on the kills and power cuts

Risks == {"read", "poll", "write", "unknown"}

ASSUME CallsAssumption ==
  /\ NoCall \notin Calls
  /\ Batches \subseteq Seq(Calls) \ {<<>>}
  /\ Registries \subseteq [Calls -> Risks]
ASSUME LimitsAssumption ==
  {MaxSteps, LoopTrip, PollTrip, Retries, StopGateCap, MaxPushes, MaxCrashes}
    \subseteq Nat

VARIABLES
  session,      \* the open session
  recoverable,  \* the sessions a power cut may leave
  dirty,        \* this process wrote a line and has not synced since
  risk,         \* the tool registry of this process
  at,           \* where the loop is
  replay,       \* the call at hand is an intent that a crash left pending
  loop,         \* the counters of drive()
  answer,       \* the provider's last output
  todo,         \* the calls of the batch that are not done
  permit,       \* the approver and the hooks allowed the call at hand
  cancelled, detached,  \* the flags of the CancelToken
  queue,        \* its interrupts
  drained,      \* the interrupts taken from the queue and not yet committed
  crashes,
  late, spared, ghost  \* what only the properties read

disk == <<session, recoverable, dirty>>
control == <<at, replay, loop, answer, todo, permit>>
token == <<cancelled, detached, queue>>
overrun == <<late, spared>>
vars == <<disk, risk, control, token, drained, crashes, overrun, ghost>>

-----------------------------------------------------------------------------
(* The session *)

NoIntent == [call |-> NoCall, guarded |-> FALSE, malformed |-> FALSE]

\* `parked`: the last entry is a denial note.  `wrote`: the register
\* fact/wrote_this_turn.  `settledWrite`: some write has been settled as ok.
EmptySession ==
  [pc |-> "Idle", pending |-> NoIntent, parked |-> FALSE,
   wrote |-> FALSE, settledWrite |-> FALSE]

Commit(new) ==
  session' = new /\ recoverable' = {new} /\ dirty' = FALSE

\* Commit::defer_sync()
CommitDeferred(new) ==
  session' = new /\ recoverable' = recoverable \cup {new} /\ dirty' = TRUE

\* append_turn_error(), the user message, a delivered interrupt, ...
WithEntry(s) == [s EXCEPT !.parked = FALSE]
WithPc(s, pc) == [s EXCEPT !.pc = pc]

Begun(s, call, guarded, malformed) ==
  [WithEntry(WithPc(s, "Executing")) EXCEPT
     !.pending = [call |-> call, guarded |-> guarded, malformed |-> malformed]]

\* Mutant: the pending register is not deleted.
SettledErrPending(s) == WithEntry(WithPc(s, "Planning"))

SettledErr(s) ==
  [WithEntry(WithPc(s, "Planning")) EXCEPT !.pending = NoIntent]

SettledOk(s, write) ==
  [WithEntry(WithPc(s, "Settling")) EXCEPT !.pending = NoIntent,
                                           !.settledWrite = @ \/ write]

\* What run_turn() and resume_turn() accept.
Promptable(s) == s.pc \in {"Idle", "Final"} \/ (s.pc = "Planning" /\ s.parked)
Resumable(s) ==
  s.pending # NoIntent \/ s.pc \in {"Settling", "Planning", "ToolCall"}

-----------------------------------------------------------------------------
(* The loop *)

FreshLoop ==
  [steps |-> 0, polls |-> 0, retries |-> Retries, denials |-> 0,
   last |-> NoCall, streak |-> 0, first |-> TRUE]

NoAnswer == [kind |-> "none"]

\* late, spared: the provider calls and effects that began in this turn after a
\* cancel; the cancel fell behind the checkpoint of what is at hand.
Begins == late' = (IF cancelled THEN late + 1 ELSE late) /\ spared' = spared

\* failed, owed: a call of the batch has failed; its calls without an intent.
\* pushes, heard, delivered: the interrupts accepted, accepted before the last
\* final answer, and committed.
FreshGhost(g) == [g EXCEPT !.failed = FALSE, !.owed = 0]

Running == at \notin {"idle", "down"}
Current == IF replay THEN session.pending.call ELSE Head(todo)
Writes(call) == risk[call] = "write"

Go(location) ==
  at' = location /\ UNCHANGED <<replay, loop, answer, todo, permit>>

\* drive() is left, and what it knows goes with it.
Leave(location) ==
  /\ at' = location
  /\ replay' = FALSE
  /\ loop' = FreshLoop
  /\ answer' = NoAnswer
  /\ todo' = <<>>
  /\ permit' = FALSE

\* The call at hand is done with.
CallDone(location, rest) ==
  /\ at' = location
  /\ replay' = FALSE
  /\ todo' = rest
  /\ permit' = FALSE
  /\ UNCHANGED <<loop, answer>>

\* Only the location and the disk change.
Unmoved == UNCHANGED <<risk, token, drained, crashes, overrun, ghost>>

Owner == {n \in DOMAIN queue : queue[n].source = "owner"}
Urgent == {n \in DOMAIN queue : queue[n].urgent}

\* A turn is claimed: the flags are cleared, the queue is not.
Claim ==
  /\ at = "idle"
  /\ at' \in {"opening", "resuming"}
  /\ cancelled' = FALSE
  /\ detached' = FALSE
  /\ replay' = FALSE
  /\ loop' = FreshLoop
  /\ answer' = NoAnswer
  /\ todo' = <<>>
  /\ permit' = FALSE
  /\ late' = 0
  /\ spared' = FALSE
  /\ ghost' = FreshGhost(ghost)
  /\ UNCHANGED <<disk, risk, queue, drained, crashes>>

\* run_turn(): a parked turn is settled first; then the user message.
SettleParked ==
  /\ at = "opening"
  /\ session.pc = "Planning" /\ session.parked
  /\ Commit(WithPc(session, "Final"))
  /\ Go("opening")
  /\ Unmoved

OpenTurn ==
  /\ at = "opening"
  /\ session.pc \in {"Idle", "Final"}
  /\ Commit(WithEntry(WithPc(session, "Planning")))
  /\ Go("top")
  /\ Unmoved

RefuseTurn ==
  /\ \/ at = "opening" /\ ~Promptable(session)
     \/ at = "resuming" /\ ~Resumable(session)
  /\ Leave("idle")
  /\ UNCHANGED disk
  /\ Unmoved

\* resume_turn() with no pending intent.
ResumeClean ==
  /\ at = "resuming"
  /\ session.pending = NoIntent
  /\ \/ session.pc = "Planning" /\ UNCHANGED disk
     \/ session.pc \in {"Settling", "ToolCall"} /\ Commit(WithPc(session, "Planning"))
  /\ Go("top")
  /\ Unmoved

\* A pending intent that cannot run: its arguments were malformed, or its
\* tool is gone, which ends the turn when it was guarded.
ResumeUnrunnable ==
  /\ at = "resuming"
  /\ session.pending # NoIntent
  /\ \/ session.pending.malformed /\ Go("top")
     \/ /\ ~session.pending.malformed
        /\ risk[session.pending.call] = "unknown"
        /\ Go(IF session.pending.guarded THEN "aborting" ELSE "top")
  /\ Commit(SettledErr(session))
  /\ Unmoved

\* Mutant: the gate goes by the contract of the intent, which is that of the
\* tool as it was when the intent was written.
ReplayAsRecorded(intent) == intent.guarded

ReplayNeedsConsent(intent) == Writes(intent.call)

\* replay_intent(): the gate asks again, by the tool's risk of today.
ResumeReplay ==
  /\ at = "resuming"
  /\ session.pending # NoIntent
  /\ ~session.pending.malformed
  /\ risk[session.pending.call] # "unknown"
  /\ at' = IF ReplayNeedsConsent(session.pending) THEN "consulting" ELSE "running"
  /\ replay' = TRUE
  /\ permit' = FALSE
  /\ IF at' = "running" THEN Begins ELSE UNCHANGED overrun
  /\ UNCHANGED <<loop, answer, todo, disk, risk, token, drained, crashes, ghost>>

-----------------------------------------------------------------------------
(* The top of the loop and the provider *)

OutOfBudget == loop.steps >= MaxSteps \/ loop.polls >= PollTrip

\* The budgets, the cancel flag, the detach flag, then the safe point.
TopStops ==
  /\ at = "top"
  /\ OutOfBudget \/ cancelled \/ detached
  /\ Leave("aborting")
  /\ UNCHANGED disk
  /\ Unmoved

Drain ==
  /\ at = "top"
  /\ ~OutOfBudget /\ ~cancelled /\ ~detached
  /\ at' = "delivering"
  /\ loop' = [loop EXCEPT !.steps = @ + 1]
  /\ drained' = queue
  /\ queue' = <<>>
  /\ replay' = FALSE
  /\ UNCHANGED <<answer, todo, permit, disk, risk, cancelled, detached, crashes, overrun,
                 ghost>>

Deliver ==
  /\ at = "delivering"
  /\ drained # <<>>
  /\ Commit(WithEntry(session))
  /\ drained' = Tail(drained)
  /\ ghost' = [ghost EXCEPT !.delivered = Append(@, Head(drained).id)]
  /\ UNCHANGED <<risk, control, token, crashes, overrun>>

Ask ==
  /\ at = "delivering"
  /\ drained = <<>>
  /\ Go("asking")
  /\ Begins
  /\ ghost' = [ghost EXCEPT !.failed = FALSE]
  /\ UNCHANGED <<disk, risk, token, drained, crashes>>

\* A batch runs in full only if every call is to a registered read-only tool.
Runnable(batch) ==
  IF \A i \in DOMAIN batch : risk[batch[i]] \in {"read", "poll"}
  THEN batch
  ELSE <<Head(batch)>>

Answers ==
  [kind : {"final", "calls"}] \cup [kind : {"invalid"}, call : Calls]

\* The answer, with or without a usage row (deferred).
ProviderAnswers ==
  /\ at = "asking"
  /\ answer' \in Answers
  /\ IF answer'.kind = "calls" THEN \E batch \in Batches : todo' = Runnable(batch)
     ELSE todo' = <<>>
  /\ ghost' = [ghost EXCEPT !.owed = Len(todo'),
                             !.heard = IF answer'.kind = "final" THEN ghost.pushes ELSE 0]
  /\ at' = "answered"
  /\ loop' = [loop EXCEPT !.first = TRUE]
  /\ dirty' \in {dirty, TRUE}
  /\ UNCHANGED <<session, recoverable, risk, replay, permit, token, drained, crashes, overrun>>

\* A cancelled call is not a failure; a transient one is retried after an
\* error record; any other ends the turn.
ProviderFails ==
  /\ at = "asking"
  /\ \/ Leave("aborting") /\ UNCHANGED disk
     \/ /\ ~cancelled
        /\ loop.retries > 0
        /\ at' = "top"
        /\ loop' = [loop EXCEPT !.retries = @ - 1]
        /\ Commit(WithEntry(session))
        /\ UNCHANGED <<replay, answer, todo, permit>>
  /\ Unmoved

\* Mutant: only an urgent interrupt withdraws an answer of any kind.
SupersededByUrgent == Urgent # {}
Superseded == IF answer.kind = "final" THEN Owner # {} ELSE Urgent # {}

\* A late answer is discarded after a cancel, and withdrawn with an error
\* record after an interrupt.
DropAnswer ==
  /\ at = "answered"
  /\ \/ cancelled /\ Leave("aborting") /\ UNCHANGED disk
     \/ ~cancelled /\ Superseded /\ Go("top") /\ Commit(WithEntry(session))
  /\ Unmoved

TakeAnswer ==
  /\ at = "answered"
  /\ ~cancelled /\ ~Superseded
  /\ at' = CASE answer.kind = "final" -> "judging"
             [] answer.kind = "calls" -> "calls"
             [] answer.kind = "invalid" -> "invalid"
  /\ answer' = IF answer.kind = "invalid" THEN answer ELSE NoAnswer
  /\ UNCHANGED <<replay, loop, todo, permit, disk>>
  /\ Unmoved

\* The stop gate denies: its reason becomes a message, up to the cap.
StopGateDenies ==
  /\ at = "judging"
  /\ loop' = [loop EXCEPT !.denials = @ + 1]
  /\ IF loop.denials >= StopGateCap
     THEN at' = "aborting" /\ UNCHANGED disk
     ELSE at' = "top" /\ Commit(WithEntry(session))
  /\ UNCHANGED <<replay, answer, todo, permit>>
  /\ Unmoved

FinalAnswer ==
  /\ at = "judging"
  /\ Commit(WithEntry(WithPc(session, "Final")))
  /\ Leave("idle")
  /\ Unmoved

\* Mutant: the model is asked again at once, past the budgets.
InvalidArgsAskAgain ==
  /\ at = "invalid"
  /\ \/ /\ session.pc = "Planning"
        /\ Commit(WithPc(session, "ToolCall"))
        /\ Go("invalid")
     \/ /\ session.pc = "ToolCall"
        /\ Commit(Begun(session, answer.call, Writes(answer.call), TRUE))
        /\ Go("invalid")
     \/ /\ session.pc = "Executing"
        /\ Commit(SettledErr(session))
        /\ Go("asking")
  /\ Unmoved

\* Malformed arguments: a sandwich that is settled as an error and never
\* runs.  The error record between its commits is left out.
InvalidArgs ==
  /\ at = "invalid"
  /\ \/ /\ session.pc = "Planning"
        /\ Commit(WithPc(session, "ToolCall"))
        /\ Go("invalid")
     \/ /\ session.pc = "ToolCall"
        /\ Commit(Begun(session, answer.call, Writes(answer.call), TRUE))
        /\ Go("invalid")
     \/ /\ session.pc = "Executing"
        /\ Commit(SettledErr(session))
        /\ Go("top")
  /\ Unmoved

-----------------------------------------------------------------------------
(* The calls of a batch *)

\* The batch is done, or a call that has not started yields to an urgent
\* interrupt.
EndBatch ==
  /\ at = "calls"
  /\ todo = <<>> \/ (~loop.first /\ Urgent # {})
  /\ at' = "top"
  /\ todo' = <<>>
  /\ ghost' = [ghost EXCEPT !.owed = 0]
  /\ UNCHANGED <<replay, loop, answer, permit, disk, risk, token, drained, crashes, overrun>>

\* The loop guard and the budgets see every call, the refused ones too.
Counted(call) ==
  LET poll == risk[call] = "poll"
  IN  [loop EXCEPT !.streak = IF loop.last = call THEN @ + 1 ELSE 1,
                   !.last = call,
                   !.polls = IF poll THEN @ + 1 ELSE @,
                   !.steps = IF poll /\ loop.first THEN @ - 1 ELSE @,
                   !.first = FALSE]

Tripped(call) ==
  Counted(call).streak >= IF risk[call] = "poll" THEN PollTrip ELSE LoopTrip

NextCall ==
  /\ at = "calls"
  /\ todo # <<>>
  /\ loop.first \/ Urgent = {}
  /\ LET call == Head(todo)
     IN  /\ loop' = Counted(call)
         /\ at' = IF Tripped(call) \/ risk[call] = "unknown" THEN "aborting"
                  ELSE IF Writes(call) THEN "consulting" ELSE "entering"
  /\ permit' = FALSE
  /\ UNCHANGED <<replay, answer, todo, disk>>
  /\ Unmoved

ConsultAllows ==
  /\ at = "consulting"
  /\ at' = IF replay THEN "running" ELSE "entering"
  /\ permit' = TRUE
  /\ IF at' = "running" THEN Begins ELSE UNCHANGED overrun
  /\ UNCHANGED <<replay, loop, answer, todo, disk, risk, token, drained, crashes, ghost>>

\* A denied fresh call leaves no intent; a denied replay settles its own.
\* After a cancel, the approver's denial is the cancel's doing.
ConsultDenies ==
  /\ at = "consulting"
  /\ IF replay THEN Commit(SettledErr(session)) ELSE UNCHANGED disk
  /\ \/ Go("denied")
     \/ cancelled /\ Leave("aborting")
  /\ Unmoved

\* An error record, a denial note, and the turn is parked in Planning.
Denied ==
  /\ at = "denied"
  /\ Commit(WithEntry(session))
  /\ Go("noting")
  /\ Unmoved

Note ==
  /\ at = "noting"
  /\ Commit([session EXCEPT !.parked = TRUE])
  /\ Leave("idle")
  /\ Unmoved

\* Planning to ToolCall (deferred), then begin() (durable).
EnterToolCall ==
  /\ at = "entering"
  /\ session.pc = "Planning"
  /\ CommitDeferred(WithPc(session, "ToolCall"))
  /\ Go("entering")
  /\ Unmoved

Begin ==
  /\ at = "entering"
  /\ session.pc = "ToolCall"
  /\ Commit(Begun(session, Current, Writes(Current), FALSE))
  /\ Go("begun")
  /\ ghost' = [ghost EXCEPT !.owed = @ - 1]
  /\ UNCHANGED <<risk, token, drained, crashes, overrun>>

\* Mutant: the checkpoint after begin() is missing.
PassUnchecked ==
  /\ at = "begun"
  /\ Go("started")
  /\ UNCHANGED disk
  /\ Unmoved

\* The checkpoint is passed; the observer is told, which takes its time.
PassCheckpoint ==
  /\ at = "begun"
  /\ ~cancelled
  /\ Go("started")
  /\ UNCHANGED disk
  /\ Unmoved

StartEffect ==
  /\ at = "started"
  /\ Go("running")
  /\ Begins
  /\ UNCHANGED <<disk, risk, token, drained, crashes, ghost>>

CancelBeforeEffect ==
  /\ at = "begun"
  /\ cancelled
  /\ Commit(SettledErr(session))
  /\ Leave("aborting")
  /\ Unmoved

\* Mutant: a replayed write is not recorded.
EffectSucceedsUnseen ==
  /\ at = "running"
  /\ Go(IF Writes(Current) /\ ~replay THEN "recording" ELSE "settling")
  /\ UNCHANGED disk
  /\ Unmoved

EffectSucceeds ==
  /\ at = "running"
  /\ Go(IF Writes(Current) THEN "recording" ELSE "settling")
  /\ UNCHANGED disk
  /\ Unmoved

\* record_wrote(), before the settlement.
RecordWrote ==
  /\ at = "recording"
  /\ CommitDeferred([session EXCEPT !.wrote = TRUE])
  /\ Go("settling")
  /\ Unmoved

\* settle_ok(), deferred when finish() follows in the same loop step.
Settle ==
  /\ at = "settling"
  /\ LET new == SettledOk(session, Writes(Current))
     IN  IF replay THEN Commit(new) ELSE CommitDeferred(new)
  /\ Go("finishing")
  /\ Unmoved

Finish ==
  /\ at = "finishing"
  /\ Commit(WithPc(session, "Planning"))
  /\ IF replay THEN CallDone("top", todo) ELSE CallDone("calls", Tail(todo))
  /\ Unmoved

\* Mutant: the rest of the batch is dropped without a result.
FailAndDropRest ==
  /\ at = "running"
  /\ Commit(SettledErr(session))
  /\ CallDone("top", <<>>)
  /\ ghost' = [ghost EXCEPT !.failed = ~replay]
  /\ UNCHANGED <<risk, token, drained, crashes, overrun>>

EffectFails ==
  /\ at = "running"
  /\ Commit(SettledErr(session))
  /\ IF replay THEN CallDone("top", todo) ELSE CallDone("stubbing", Tail(todo))
  /\ ghost' = [ghost EXCEPT !.failed = ~replay]
  /\ UNCHANGED <<risk, token, drained, crashes, overrun>>

\* stub_call(): a sandwich for each call that will not be executed.
Stub ==
  /\ at = "stubbing"
  /\ todo # <<>>
  /\ \/ /\ session.pc = "Planning"
        /\ Commit(WithPc(session, "ToolCall"))
        /\ UNCHANGED <<todo, ghost>>
     \/ /\ session.pc = "ToolCall"
        /\ Commit(Begun(session, Head(todo), FALSE, FALSE))
        /\ ghost' = [ghost EXCEPT !.owed = @ - 1]
        /\ UNCHANGED todo
     \/ /\ session.pc = "Executing"
        /\ Commit(SettledErr(session))
        /\ todo' = Tail(todo)
        /\ UNCHANGED ghost
  /\ UNCHANGED <<risk, at, replay, loop, answer, permit, token, drained, crashes, overrun>>

StubsDone ==
  /\ at = "stubbing"
  /\ todo = <<>>
  /\ Go("top")
  /\ UNCHANGED disk
  /\ Unmoved

\* Every other end of a turn: an error record, then Final.
Abort ==
  /\ at = "aborting"
  /\ Commit(WithEntry(session))
  /\ Go("closing")
  /\ Unmoved

Close ==
  /\ at = "closing"
  /\ Commit(WithPc(session, "Final"))
  /\ Leave("idle")
  /\ Unmoved

-----------------------------------------------------------------------------
(* The owner, the host and the machine *)

\* The next provider call or effect is not checked any more.  The one intent
\* that a resume replays never is.
PastCheckpoint ==
  \/ at \in {"delivering", "started", "resuming"}
  \/ at = "consulting" /\ replay

Cancel ==
  /\ at # "down"
  /\ ~cancelled
  /\ cancelled' = TRUE
  /\ spared' = PastCheckpoint
  /\ UNCHANGED <<disk, risk, control, detached, queue, drained, crashes, late, ghost>>

Detach ==
  /\ at # "down"
  /\ ~detached
  /\ detached' = TRUE
  /\ UNCHANGED <<disk, risk, control, cancelled, queue, drained, crashes, overrun, ghost>>

\* The kinds of interrupt: a notice is never urgent.
Kinds == [source : {"owner"}, urgent : BOOLEAN] \cup [source : {"notice"}, urgent : {FALSE}]

Interrupt(k) == [id |-> ghost.pushes + 1, source |-> k.source, urgent |-> k.urgent]

\* Mutant: an urgent interrupt jumps the queue.
PushedUrgentFirst(k) ==
  IF k.urgent THEN <<Interrupt(k)>> \o queue ELSE Append(queue, Interrupt(k))

Pushed(k) == Append(queue, Interrupt(k))

Push ==
  /\ at # "down"
  /\ ghost.pushes < MaxPushes
  /\ \E k \in Kinds : queue' = Pushed(k)
  /\ ghost' = [ghost EXCEPT !.pushes = @ + 1]
  /\ UNCHANGED <<disk, risk, control, cancelled, detached, drained, crashes, overrun>>

\* The process is gone, and with it everything but the file.
Lost ==
  /\ crashes < MaxCrashes
  /\ crashes' = crashes + 1
  /\ at' = "down"
  /\ dirty' = FALSE
  /\ replay' = FALSE
  /\ loop' = FreshLoop
  /\ answer' = NoAnswer
  /\ todo' = <<>>
  /\ permit' = FALSE
  /\ cancelled' = FALSE
  /\ detached' = FALSE
  /\ queue' = <<>>
  /\ drained' = <<>>
  /\ late' = 0
  /\ spared' = FALSE
  /\ ghost' = [FreshGhost(ghost) EXCEPT !.pushes = 0, !.heard = 0, !.delivered = <<>>]
  /\ UNCHANGED risk

Kill ==
  /\ at # "down"
  /\ Lost
  /\ UNCHANGED <<session, recoverable>>

PowerCut ==
  /\ Lost
  /\ session' \in recoverable
  /\ recoverable' = {session'}

\* The host starts again, perhaps wired with other tools.
Restart ==
  /\ at = "down"
  /\ at' = "idle"
  /\ risk' \in Registries
  /\ UNCHANGED <<disk, replay, loop, answer, todo, permit, token, drained, crashes, overrun,
                 ghost>>

-----------------------------------------------------------------------------

Init ==
  /\ session = EmptySession
  /\ recoverable = {EmptySession}
  /\ dirty = FALSE
  /\ risk \in Registries
  /\ at = "idle"
  /\ replay = FALSE
  /\ loop = FreshLoop
  /\ answer = NoAnswer
  /\ todo = <<>>
  /\ permit = FALSE
  /\ cancelled = FALSE
  /\ detached = FALSE
  /\ queue = <<>>
  /\ drained = <<>>
  /\ crashes = 0
  /\ late = 0
  /\ spared = FALSE
  /\ ghost = [failed |-> FALSE, owed |-> 0, pushes |-> 0, heard |-> 0, delivered |-> <<>>]

Opening == SettleParked \/ OpenTurn \/ RefuseTurn
Resuming == ResumeClean \/ ResumeUnrunnable \/ ResumeReplay
Asking == Drain \/ Deliver \/ Ask \/ ProviderAnswers \/ ProviderFails
Answering ==
  DropAnswer \/ TakeAnswer \/ StopGateDenies \/ FinalAnswer \/ InvalidArgs
Authorizing ==
  EndBatch \/ NextCall \/ ConsultAllows \/ ConsultDenies \/ Denied \/ Note
Executing ==
  \/ EnterToolCall \/ Begin \/ PassCheckpoint \/ StartEffect \/ CancelBeforeEffect
  \/ EffectSucceeds \/ EffectFails \/ RecordWrote \/ Settle \/ Finish
  \/ Stub \/ StubsDone
Ending == TopStops \/ Abort \/ Close

\* One step of the loop.
Step ==
  Opening \/ Resuming \/ Asking \/ Answering \/ Authorizing \/ Executing \/ Ending

Next ==
  \/ Claim \/ Step
  \/ Cancel \/ Detach \/ Push
  \/ Kill \/ PowerCut \/ Restart

Spec == Init /\ [][Next]_vars

\* The loop runs on; the provider, the approver, the hooks and the tools
\* return in the end.
FairSpec == Spec /\ WF_vars(Step)

-----------------------------------------------------------------------------
(* Properties *)

Locations ==
  {"idle", "down", "opening", "resuming", "top", "delivering", "asking",
   "answered", "judging", "invalid", "calls", "consulting", "denied", "noting",
   "entering", "begun", "started", "running", "recording", "settling", "finishing",
   "stubbing", "aborting", "closing"}

Sessions ==
  [pc : Pcs,
   pending : [call : Calls \cup {NoCall}, guarded : BOOLEAN, malformed : BOOLEAN],
   parked : BOOLEAN, wrote : BOOLEAN, settledWrite : BOOLEAN]

TypeOK ==
  /\ session \in Sessions
  /\ recoverable \subseteq Sessions
  /\ at \in Locations
  /\ loop.steps \in 0 .. MaxSteps
  /\ loop.last \in Calls \cup {NoCall}
  /\ todo \in Seq(Calls)
  /\ ghost.owed \in Nat

\* Whatever commit a crash cuts the session at, the next process can go on
\* with it: run_turn() or resume_turn() accepts it, an intent is pending
\* exactly in Executing, and every transition of the loop is a legal one.
EveryCrashPointResumes ==
  \A s \in recoverable \cup {session} :
    /\ Promptable(s) \/ Resumable(s)
    /\ s.pending # NoIntent <=> s.pc = "Executing"

OnlyLegalSteps ==
  [][(at' # "down" /\ session'.pc # session.pc) =>
       CanTransition(session.pc, session'.pc)]_vars

\* A settled write is never forgotten: wherever a power cut cuts the
\* session, one that shows a write as settled has the fact register set.
WroteIsRemembered ==
  \A s \in recoverable : s.settledWrite => s.wrote

\* Deferred lines are on the disk before the next provider call, before the
\* turn returns and before a fresh effect runs (architecture.md, line 65).
DeferredIsCovered ==
  (at \in {"asking", "idle", "begun", "started"} \/ (at = "running" /\ ~replay)) => ~dirty

\* A write runs only with the approver's consent to this very execution,
\* given since the last crash.
WritesAreConsented == (at = "running" /\ Writes(Current)) => permit

\* Once the owner has cancelled, nothing begins in the turn, neither a provider
\* call nor an effect, but the one whose checkpoint was passed before; and
\* that is the last, whatever is left of its batch.
CancelStopsWork == late <= IF spared THEN 1 ELSE 0

\* No final answer is delivered over the head of the owner: every message
\* that was accepted before the answer arrived has reached the model.
NoStaleAnswer ==
  [][(at = "judging" /\ at' = "idle") =>
       \A n \in Owner : queue[n].id > ghost.heard]_vars

\* Interrupts are delivered once, in the order in which they were accepted,
\* across turns; none is lost while the process lives.
InterruptsInOrder ==
  ghost.delivered \o [n \in DOMAIN drained |-> drained[n].id]
    \o [n \in DOMAIN queue |-> queue[n].id]
  = [n \in 1 .. ghost.pushes |-> n]

\* When a call of a batch fails, every call of the batch has an intent and a
\* result before the provider sees the transcript again.
EveryCallAnswered ==
  (at = "delivering" /\ ghost.failed) =>
     ghost.owed = 0 /\ session.pending = NoIntent

\* Every turn ends.
TurnEnds == Running ~> ~Running

=============================================================================
