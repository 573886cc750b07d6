---------------------------- MODULE TurnLoopProofs ----------------------------
(***************************************************************************)
(* Proofs about TurnLoop: for every set of calls, batches and registries,  *)
(* all limits, and every schedule of cancels, detaches, interrupts, kills  *)
(* and power cuts.                                                         *)
(***************************************************************************)
EXTENDS TurnLoop, SequenceTheorems, TLAPS

-----------------------------------------------------------------------------
(* What the commits do to a session *)

\* A session that the next process can go on with: an intent, of a real
\* call, is pending exactly in Executing, no session rests in
\* AwaitingApproval, and a settled write is on record.
Sound(s) ==
  /\ s \in Sessions
  /\ s.pc # "AwaitingApproval"
  /\ s.pending # NoIntent <=> s.pc = "Executing"
  /\ s.pending # NoIntent => s.pending.call \in Calls
  /\ s.settledWrite => s.wrote

\* Only the counter, the register of the pending intent and the facts of a
\* session matter below.
Same(s, t) ==
  /\ t.pc = s.pc
  /\ t.pending = s.pending
  /\ t.wrote = s.wrote
  /\ t.settledWrite = s.settledWrite

LEMMA NoIntentTyped ==
  /\ NoIntent \in [call : Calls \cup {NoCall}, guarded : BOOLEAN, malformed : BOOLEAN]
  /\ NoIntent.call = NoCall
BY DEF NoIntent

LEMMA EntryFacts ==
  ASSUME NEW s \in Sessions
  PROVE  WithEntry(s) \in Sessions /\ Same(s, WithEntry(s))
BY DEF WithEntry, Same, Sessions

LEMMA ParkedFacts ==
  ASSUME NEW s \in Sessions
  PROVE  [s EXCEPT !.parked = TRUE] \in Sessions /\ Same(s, [s EXCEPT !.parked = TRUE])
BY DEF Same, Sessions

LEMMA PcFacts ==
  ASSUME NEW s \in Sessions, NEW pc \in Pcs
  PROVE  /\ WithPc(s, pc) \in Sessions
         /\ WithPc(s, pc).pc = pc
         /\ WithPc(s, pc).pending = s.pending
         /\ WithPc(s, pc).wrote = s.wrote
         /\ WithPc(s, pc).settledWrite = s.settledWrite
BY DEF WithPc, Sessions

LEMMA PendingFacts ==
  ASSUME NEW s \in Sessions,
         NEW i \in [call : Calls \cup {NoCall}, guarded : BOOLEAN, malformed : BOOLEAN]
  PROVE  /\ [s EXCEPT !.pending = i] \in Sessions
         /\ [s EXCEPT !.pending = i].pc = s.pc
         /\ [s EXCEPT !.pending = i].pending = i
         /\ [s EXCEPT !.pending = i].wrote = s.wrote
         /\ [s EXCEPT !.pending = i].settledWrite = s.settledWrite
BY DEF Sessions

LEMMA WroteFacts ==
  ASSUME NEW s \in Sessions
  PROVE  /\ [s EXCEPT !.wrote = TRUE] \in Sessions
         /\ [s EXCEPT !.wrote = TRUE].pc = s.pc
         /\ [s EXCEPT !.wrote = TRUE].pending = s.pending
         /\ [s EXCEPT !.wrote = TRUE].wrote = TRUE
         /\ [s EXCEPT !.wrote = TRUE].settledWrite = s.settledWrite
BY DEF Sessions

LEMMA BegunFacts ==
  ASSUME NEW s \in Sessions, NEW call \in Calls, NEW guarded \in BOOLEAN, NEW malformed \in BOOLEAN
  PROVE  /\ Begun(s, call, guarded, malformed) \in Sessions
         /\ Begun(s, call, guarded, malformed).pc = "Executing"
         /\ Begun(s, call, guarded, malformed).pending # NoIntent
         /\ Begun(s, call, guarded, malformed).pending.call = call
         /\ Begun(s, call, guarded, malformed).wrote = s.wrote
         /\ Begun(s, call, guarded, malformed).settledWrite = s.settledWrite
<1> DEFINE i == [call |-> call, guarded |-> guarded, malformed |-> malformed]
           t == WithEntry(WithPc(s, "Executing"))
<1>1. /\ t \in Sessions /\ t.pc = "Executing"
      /\ t.wrote = s.wrote /\ t.settledWrite = s.settledWrite
  BY PcFacts, EntryFacts DEF Pcs, Same
<1>2. i \in [call : Calls \cup {NoCall}, guarded : BOOLEAN, malformed : BOOLEAN]
  OBVIOUS
<1>3. i.call = call /\ i # NoIntent
  BY CallsAssumption, NoIntentTyped
<1>4. Begun(s, call, guarded, malformed) = [t EXCEPT !.pending = i]
  BY DEF Begun
<1> HIDE DEF i, t
<1> QED
  BY <1>1, <1>2, <1>3, <1>4, PendingFacts

LEMMA SettledErrFacts ==
  ASSUME NEW s \in Sessions
  PROVE  /\ SettledErr(s) \in Sessions
         /\ SettledErr(s).pc = "Planning"
         /\ SettledErr(s).pending = NoIntent
         /\ SettledErr(s).wrote = s.wrote
         /\ SettledErr(s).settledWrite = s.settledWrite
<1> DEFINE t == WithEntry(WithPc(s, "Planning"))
<1>1. /\ t \in Sessions /\ t.pc = "Planning"
      /\ t.wrote = s.wrote /\ t.settledWrite = s.settledWrite
  BY PcFacts, EntryFacts DEF Pcs, Same
<1>2. SettledErr(s) = [t EXCEPT !.pending = NoIntent]
  BY DEF SettledErr
<1> HIDE DEF t
<1> QED
  BY <1>1, <1>2, PendingFacts, NoIntentTyped

LEMMA SettledOkFacts ==
  ASSUME NEW s \in Sessions, NEW write \in BOOLEAN
  PROVE  /\ SettledOk(s, write) \in Sessions
         /\ SettledOk(s, write).pc = "Settling"
         /\ SettledOk(s, write).pending = NoIntent
         /\ SettledOk(s, write).wrote = s.wrote
         /\ SettledOk(s, write).settledWrite <=> (s.settledWrite \/ write)
<1> DEFINE t == WithEntry(WithPc(s, "Settling"))
           u == [t EXCEPT !.pending = NoIntent]
           w == (t.settledWrite \/ write)
<1>1. /\ t \in Sessions /\ t.pc = "Settling"
      /\ t.wrote = s.wrote /\ t.settledWrite = s.settledWrite
  BY PcFacts, EntryFacts DEF Pcs, Same
<1>2. SettledOk(s, write) = [t EXCEPT !.pending = NoIntent, !.settledWrite = w]
  BY DEF SettledOk
<1>3. w \in BOOLEAN /\ (w <=> (s.settledWrite \/ write))
  BY <1>1
<1> HIDE DEF t, w
<1>4. DOMAIN t = {"pc", "pending", "parked", "wrote", "settledWrite"}
  BY <1>1 DEF Sessions
<1>5. [t EXCEPT !.pending = NoIntent, !.settledWrite = w]
        = [f \in DOMAIN t |-> CASE f = "pending" -> NoIntent [] f = "settledWrite" -> w
                               [] OTHER -> t[f]]
  BY <1>4
<1> QED
  BY <1>1, <1>2, <1>3, <1>4, <1>5, NoIntentTyped DEF Sessions

-----------------------------------------------------------------------------
(***************************************************************************)
(* The inductive invariant.  SessionsInv: the open session is sound and so *)
(* is every session that a power cut may leave.  PcInv: where the loop is  *)
(* says where the session's counter is.  ReplayInv: an intent is replayed  *)
(* from the gate to its settlement.  TodoInv: there is a call at hand, and *)
(* it is a call.  ConsentInv: a write that is about to begin, has begun or *)
(* runs was consented to.  WroteInv: the register is set before a write is *)
(* settled.                                                                *)
(***************************************************************************)
SessionsInv == Sound(session) /\ \A s \in recoverable : Sound(s)

Planned ==
  {"top", "delivering", "asking", "answered", "judging", "calls", "denied", "noting",
   "aborting", "closing"}
InFlight == {"begun", "started", "running", "recording", "settling"}

PcInv ==
  /\ at \in Planned => session.pc = "Planning"
  /\ at = "consulting" => session.pc = IF replay THEN "Executing" ELSE "Planning"
  /\ at = "entering" => session.pc \in {"Planning", "ToolCall"}
  /\ at \in InFlight => session.pc = "Executing"
  /\ at = "finishing" => session.pc = "Settling"
  /\ at \in {"invalid", "stubbing"} => session.pc \in {"Planning", "ToolCall", "Executing"}
  /\ at = "stubbing" /\ todo = <<>> => session.pc = "Planning"

ReplayInv ==
  /\ replay \in BOOLEAN
  /\ at \in {"down", "opening", "resuming", "delivering", "asking", "answered", "judging",
             "invalid", "calls", "entering", "begun", "started", "stubbing"} => ~replay

TodoInv ==
  /\ todo \in Seq(Calls)
  /\ (~replay /\ at \in InFlight \cup {"consulting", "entering", "finishing"}) => todo # <<>>
  /\ at = "answered" => answer \in Answers
  /\ at = "invalid" => answer.call \in Calls

ConsentInv ==
  (at \in {"entering", "begun", "started", "running"} /\ Writes(Current)) => permit

WroteInv == (at = "settling" /\ Writes(Current)) => session.wrote

IInv ==
  /\ risk \in [Calls -> Risks]
  /\ at \in Locations
  /\ SessionsInv
  /\ PcInv
  /\ ReplayInv
  /\ TodoInv
  /\ ConsentInv
  /\ WroteInv

LEMMA InitIInv == Init => IInv
<1> SUFFICES ASSUME Init PROVE IInv
  OBVIOUS
<1>1. Sound(EmptySession)
  BY NoIntentTyped DEF Sound, EmptySession, Sessions, Pcs
<1>2. SessionsInv
  BY <1>1 DEF Init, SessionsInv
<1>3. risk \in [Calls -> Risks]
  BY CallsAssumption DEF Init
<1>4. at = "idle" /\ ~replay /\ replay \in BOOLEAN /\ todo = <<>>
  BY DEF Init
<1> QED
  BY <1>2, <1>3, <1>4
  DEF IInv, Locations, PcInv, Planned, InFlight, ReplayInv, TodoInv, ConsentInv, WroteInv

\* A commit of a sound session leaves sound sessions.
LEMMA CommitSound ==
  ASSUME SessionsInv, NEW new, Sound(new), Commit(new) \/ CommitDeferred(new)
  PROVE  SessionsInv' /\ session' = new
BY DEF SessionsInv, Commit, CommitDeferred

\* drive() is left with nothing at hand.
LEMMA LeaveFacts ==
  ASSUME NEW location, Leave(location)
  PROVE  at' = location /\ ~replay' /\ replay' \in BOOLEAN /\ todo' \in Seq(Calls)
<1>1. ~replay' /\ replay' \in BOOLEAN /\ at' = location
  BY DEF Leave
<1>2. todo' \in Seq(Calls)
  BY DEF Leave
<1> QED
  BY <1>1, <1>2

\* The owner's threads touch neither the loop nor the file.
LEMMA OwnerKeepsIInv ==
  ASSUME IInv, UNCHANGED <<disk, risk, control>>
  PROVE  IInv'
BY DEF IInv, disk, control, SessionsInv, PcInv, ReplayInv, TodoInv, ConsentInv, WroteInv,
       Planned, InFlight, Writes, Current

-----------------------------------------------------------------------------
(* The steps that open and resume a turn *)

LEMMA OpeningKeepsIInv == ASSUME IInv, Opening PROVE IInv'
<1>1. session \in Sessions /\ Sound(session)
  BY DEF IInv, SessionsInv, Sound
<1> USE DEF IInv, Locations, PcInv, Planned, InFlight, ReplayInv, TodoInv, ConsentInv, WroteInv
<1>2. CASE SettleParked
  <2> DEFINE new == WithPc(session, "Final")
  <2>1. Sound(new)
    BY <1>1, <1>2, PcFacts DEF Sound, SettleParked, Pcs
  <2>2. SessionsInv' /\ session' = new
    BY <1>2, <2>1, CommitSound DEF SettleParked
  <2> HIDE DEF new
  <2> QED
    BY <1>2, <2>2 DEF SettleParked, Go, Unmoved
<1>3. CASE OpenTurn
  <2> DEFINE s == WithPc(session, "Planning")
             new == WithEntry(s)
  <2>1. s \in Sessions /\ s.pc = "Planning" /\ s.pending = session.pending
        /\ s.wrote = session.wrote /\ s.settledWrite = session.settledWrite
    BY <1>1, PcFacts DEF Pcs
  <2>2. Sound(new) /\ new.pc = "Planning"
    <3> HIDE DEF s
    <3> QED
      BY <1>1, <1>3, <2>1, EntryFacts DEF Sound, Same, OpenTurn
  <2>3. SessionsInv' /\ session' = new
    BY <1>3, <2>2, CommitSound DEF OpenTurn
  <2> HIDE DEF new
  <2> QED
    BY <1>3, <2>2, <2>3 DEF OpenTurn, Go, Unmoved
<1>4. CASE RefuseTurn
  BY <1>4, LeaveFacts DEF RefuseTurn, Unmoved, disk, SessionsInv
<1> QED
  BY <1>2, <1>3, <1>4 DEF Opening

LEMMA ResumingKeepsIInv == ASSUME IInv, Resuming PROVE IInv'
<1>1. session \in Sessions /\ Sound(session)
  BY DEF IInv, SessionsInv, Sound
<1> USE DEF IInv, Locations, PcInv, Planned, InFlight, ReplayInv, TodoInv, ConsentInv, WroteInv
<1>2. CASE ResumeClean
  <2>1. CASE UNCHANGED disk /\ session.pc = "Planning"
    BY <1>2, <2>1 DEF ResumeClean, Go, Unmoved, disk, SessionsInv
  <2>2. CASE Commit(WithPc(session, "Planning"))
    <3> DEFINE new == WithPc(session, "Planning")
    <3>1. Sound(new) /\ new.pc = "Planning"
      BY <1>1, <1>2, PcFacts DEF Sound, ResumeClean, Pcs
    <3>2. SessionsInv' /\ session' = new
      BY <2>2, <3>1, CommitSound
    <3> HIDE DEF new
    <3> QED
      BY <1>2, <3>1, <3>2 DEF ResumeClean, Go, Unmoved
  <2> QED
    BY <1>2, <2>1, <2>2 DEF ResumeClean
<1>3. CASE ResumeUnrunnable
  <2>1. Sound(SettledErr(session)) /\ SettledErr(session).pc = "Planning"
    BY <1>1, SettledErrFacts DEF Sound
  <2>2. SessionsInv' /\ session' = SettledErr(session)
    BY <1>3, <2>1, CommitSound DEF ResumeUnrunnable
  <2>3. at' \in {"top", "aborting"} /\ UNCHANGED <<replay, todo, answer, permit, risk>>
    BY <1>3 DEF ResumeUnrunnable, Go, Unmoved
  <2> QED
    BY <2>1, <2>2, <2>3
<1>4. CASE ResumeReplay
  <2>1. /\ session.pc = "Executing" /\ session' = session /\ SessionsInv'
        /\ at' \in {"consulting", "running"} /\ replay' = TRUE
        /\ UNCHANGED <<todo, answer, risk>>
    BY <1>1, <1>4 DEF ResumeReplay, Unmoved, disk, SessionsInv, Sound
  <2>2. at' = "running" => ~Writes(Current)'
    BY <1>4, <2>1 DEF ResumeReplay, ReplayNeedsConsent, Writes, Current
  <2> QED
    BY <2>1, <2>2
<1> QED
  BY <1>2, <1>3, <1>4 DEF Resuming

\* begin() writes the intent and keeps the facts.
LEMMA BegunSound ==
  ASSUME NEW s, Sound(s), NEW call \in Calls, NEW guarded \in BOOLEAN,
         NEW malformed \in BOOLEAN, NEW t, t = Begun(s, call, guarded, malformed)
  PROVE  Sound(t) /\ t.pc = "Executing"
<1>1. s \in Sessions
  BY DEF Sound
<1>2. /\ t \in Sessions
      /\ t.pc = "Executing"
      /\ t.pending # NoIntent
      /\ t.pending.call = call
      /\ t.wrote = s.wrote
      /\ t.settledWrite = s.settledWrite
  BY <1>1, BegunFacts
<1> QED
  BY <1>2 DEF Sound

-----------------------------------------------------------------------------
(* The steps around the provider *)

\* An entry alone, or a denial note, changes nothing that the invariant reads.
LEMMA EntryCommit ==
  ASSUME IInv, Commit(WithEntry(session)) \/ Commit([session EXCEPT !.parked = TRUE])
  PROVE  SessionsInv' /\ session'.pc = session.pc
<1>1. session \in Sessions /\ Sound(session)
  BY DEF IInv, SessionsInv, Sound
<1>2. Sound(WithEntry(session)) /\ WithEntry(session).pc = session.pc
  BY <1>1, EntryFacts DEF Sound, Same
<1>3. /\ Sound([session EXCEPT !.parked = TRUE])
      /\ [session EXCEPT !.parked = TRUE].pc = session.pc
  BY <1>1, ParkedFacts DEF Sound, Same
<1> QED
  BY <1>2, <1>3, CommitSound DEF IInv

LEMMA RunnableTyped ==
  ASSUME NEW batch \in Batches
  PROVE  Runnable(batch) \in Seq(Calls)
<1>1. batch \in Seq(Calls) /\ batch # <<>>
  BY CallsAssumption
<1>2. Head(batch) \in Calls
  BY <1>1
<1> QED
  BY <1>1, <1>2 DEF Runnable

LEMMA AskingKeepsIInv == ASSUME IInv, Asking PROVE IInv'
<1> USE DEF IInv, Locations, PcInv, Planned, InFlight, ReplayInv, TodoInv, ConsentInv, WroteInv
<1>1. CASE Drain
  BY <1>1 DEF Drain, disk, SessionsInv
<1>2. CASE Deliver
  <2>1. SessionsInv' /\ session'.pc = session.pc
    BY <1>2, EntryCommit DEF Deliver
  <2> QED
    BY <1>2, <2>1 DEF Deliver, control
<1>3. CASE Ask
  BY <1>3 DEF Ask, Go, disk, SessionsInv
<1>4. CASE ProviderAnswers
  <2>1. answer' \in Answers
    BY <1>4 DEF ProviderAnswers
  <2>2. todo' \in Seq(Calls)
    <3>1. todo' = <<>> \/ \E batch \in Batches : todo' = Runnable(batch)
      BY <1>4 DEF ProviderAnswers
    <3>2. <<>> \in Seq(Calls)
      OBVIOUS
    <3> QED
      BY <3>1, <3>2, RunnableTyped
  <2>3. /\ SessionsInv' /\ session' = session /\ at' = "answered"
        /\ UNCHANGED <<risk, replay, permit>>
    BY <1>4 DEF ProviderAnswers, SessionsInv
  <2>4. at = "asking"
    BY <1>4 DEF ProviderAnswers
  <2> QED
    BY <2>1, <2>2, <2>3, <2>4
<1>5. CASE ProviderFails
  <2>1. SessionsInv' /\ session'.pc = session.pc
    BY <1>5, EntryCommit DEF ProviderFails, disk, SessionsInv
  <2>2. /\ at' \in {"aborting", "top"} /\ at = "asking" /\ UNCHANGED risk
        /\ replay' \in BOOLEAN /\ todo' \in Seq(Calls)
    BY <1>5, LeaveFacts DEF ProviderFails, Unmoved
  <2> QED
    BY <2>1, <2>2
<1> QED
  BY <1>1, <1>2, <1>3, <1>4, <1>5 DEF Asking

LEMMA AnsweringKeepsIInv == ASSUME IInv, Answering PROVE IInv'
<1>1. session \in Sessions /\ Sound(session)
  BY DEF IInv, SessionsInv, Sound
<1> USE DEF IInv, Locations, PcInv, Planned, InFlight, ReplayInv, TodoInv, ConsentInv, WroteInv
<1>2. CASE DropAnswer
  <2>1. SessionsInv' /\ session'.pc = session.pc
    BY <1>2, EntryCommit DEF DropAnswer, disk, SessionsInv
  <2>2. /\ at' \in {"aborting", "top"} /\ at = "answered" /\ UNCHANGED risk
        /\ replay' \in BOOLEAN /\ todo' \in Seq(Calls)
    BY <1>2, LeaveFacts DEF DropAnswer, Go, Unmoved
  <2> QED
    BY <2>1, <2>2
<1>3. CASE TakeAnswer
  <2>1. /\ at = "answered" /\ answer \in Answers /\ SessionsInv' /\ session' = session
        /\ UNCHANGED <<risk, replay, permit, todo>>
    BY <1>3 DEF TakeAnswer, Unmoved, disk, SessionsInv
  <2>2. answer.kind \in {"final", "calls", "invalid"}
    BY <2>1 DEF Answers
  <2>3. answer.kind = "invalid" => answer.call \in Calls
    BY <2>1 DEF Answers
  <2>4. /\ at' \in {"judging", "calls", "invalid"}
        /\ at' = "invalid" => answer.kind = "invalid" /\ answer' = answer
    BY <1>3, <2>2 DEF TakeAnswer
  <2> QED
    BY <2>1, <2>3, <2>4
<1>4. CASE StopGateDenies
  <2>1. SessionsInv' /\ session'.pc = session.pc
    BY <1>4, EntryCommit DEF StopGateDenies, disk, SessionsInv
  <2>2. /\ at' \in {"aborting", "top"} /\ at = "judging"
        /\ UNCHANGED <<risk, replay, permit, answer, todo>>
    BY <1>4 DEF StopGateDenies, Unmoved
  <2> QED
    BY <2>1, <2>2
<1>5. CASE FinalAnswer
  <2> DEFINE s == WithPc(session, "Final")
             new == WithEntry(s)
  <2>1. s \in Sessions /\ s.pc = "Final" /\ s.pending = session.pending
        /\ s.wrote = session.wrote /\ s.settledWrite = session.settledWrite
    BY <1>1, PcFacts DEF Pcs
  <2>2. session.pc = "Planning"
    BY <1>5 DEF FinalAnswer
  <2>3. Sound(new)
    <3> HIDE DEF s
    <3> QED
      BY <1>1, <2>1, <2>2, EntryFacts DEF Sound, Same
  <2>4. SessionsInv'
    BY <1>5, <2>3, CommitSound DEF FinalAnswer
  <2> QED
    BY <1>5, <2>4, LeaveFacts DEF FinalAnswer, Unmoved
<1>6. CASE InvalidArgs
  <2>1. /\ at = "invalid" /\ answer.call \in Calls
        /\ UNCHANGED <<risk, replay, permit, answer, todo>>
    BY <1>6 DEF InvalidArgs, Go, Unmoved
  <2>2. CASE session.pc = "Planning"
    <3> DEFINE new == WithPc(session, "ToolCall")
    <3>1. Sound(new) /\ new.pc = "ToolCall"
      BY <1>1, <2>2, PcFacts DEF Sound, Pcs
    <3>2. Commit(new) /\ at' = "invalid"
      BY <1>6, <2>2 DEF InvalidArgs, Go
    <3> HIDE DEF new
    <3>3. SessionsInv' /\ session' = new
      BY <3>1, <3>2, CommitSound
    <3> QED
      BY <2>1, <3>1, <3>2, <3>3
  <2>3. CASE session.pc = "ToolCall"
    <3> DEFINE guarded == Writes(answer.call)
               malformed == TRUE
               new == Begun(session, answer.call, guarded, malformed)
    <3>1. Commit(new) /\ at' = "invalid"
      BY <1>6, <2>3 DEF InvalidArgs, Go
    <3>2. guarded \in BOOLEAN /\ malformed \in BOOLEAN
      BY DEF Writes
    <3> HIDE DEF guarded, malformed
    <3>3. new = Begun(session, answer.call, guarded, malformed)
      OBVIOUS
    <3> HIDE DEF new
    <3>4. Sound(new) /\ new.pc = "Executing"
      BY <1>1, <2>1, <3>2, <3>3, BegunSound
    <3>5. SessionsInv' /\ session' = new
      BY <3>1, <3>4, CommitSound
    <3> QED
      BY <2>1, <3>1, <3>4, <3>5
  <2>4. CASE session.pc = "Executing"
    <3>1. Sound(SettledErr(session)) /\ SettledErr(session).pc = "Planning"
      BY <1>1, SettledErrFacts DEF Sound
    <3>2. Commit(SettledErr(session)) /\ at' = "top"
      BY <1>6, <2>4 DEF InvalidArgs, Go
    <3>3. SessionsInv' /\ session' = SettledErr(session)
      BY <3>1, <3>2, CommitSound
    <3> QED
      BY <2>1, <3>1, <3>2, <3>3
  <2> QED
    BY <1>6, <2>2, <2>3, <2>4 DEF InvalidArgs
<1> QED
  BY <1>2, <1>3, <1>4, <1>5, <1>6 DEF Answering

-----------------------------------------------------------------------------
(* The steps of a batch *)

\* A failure settles the intent and leaves the session in Planning.
LEMMA SettledErrCommit ==
  ASSUME IInv, Commit(SettledErr(session))
  PROVE  SessionsInv' /\ session'.pc = "Planning" /\ session'.wrote = session.wrote
<1>1. session \in Sessions /\ Sound(session)
  BY DEF IInv, SessionsInv, Sound
<1>2. /\ Sound(SettledErr(session)) /\ SettledErr(session).pc = "Planning"
      /\ SettledErr(session).wrote = session.wrote
  BY <1>1, SettledErrFacts DEF Sound
<1> QED
  BY <1>2, CommitSound DEF IInv

\* Between two sandwiches, a step of the counter alone keeps the session sound.
LEMMA PcCommit ==
  ASSUME IInv, session.pc # "Executing", NEW pc \in Pcs \ {"Executing", "AwaitingApproval"},
         Commit(WithPc(session, pc)) \/ CommitDeferred(WithPc(session, pc))
  PROVE  SessionsInv' /\ session'.pc = pc
<1>1. session \in Sessions /\ Sound(session)
  BY DEF IInv, SessionsInv, Sound
<1>2. Sound(WithPc(session, pc)) /\ WithPc(session, pc).pc = pc
  BY <1>1, PcFacts DEF Sound
<1> QED
  BY <1>2, CommitSound DEF IInv

LEMMA AuthorizingKeepsIInv == ASSUME IInv, Authorizing PROVE IInv'
<1> USE DEF IInv, Locations, PcInv, Planned, InFlight, ReplayInv, TodoInv, ConsentInv, WroteInv
<1>1. CASE EndBatch
  BY <1>1 DEF EndBatch, Unmoved, disk, SessionsInv
<1>2. CASE NextCall
  <2>1. /\ at = "calls" /\ todo # <<>> /\ SessionsInv' /\ session' = session
        /\ at' \in {"aborting", "consulting", "entering"}
        /\ UNCHANGED <<risk, replay, answer, todo>>
    BY <1>2 DEF NextCall, Unmoved, disk, SessionsInv
  <2>2. at' = "entering" => ~Writes(Head(todo))
    BY <1>2 DEF NextCall
  <2>3. Writes(Current)' = Writes(Head(todo))
    BY <2>1 DEF Writes, Current
  <2> QED
    BY <2>1, <2>2, <2>3
<1>3. CASE ConsultAllows
  <2>1. /\ at = "consulting" /\ SessionsInv' /\ session' = session
        /\ at' = IF replay THEN "running" ELSE "entering"
        /\ permit' = TRUE
        /\ UNCHANGED <<risk, replay, answer, todo>>
    BY <1>3 DEF ConsultAllows, Unmoved, disk, SessionsInv
  <2> QED
    BY <2>1
<1>4. CASE ConsultDenies
  <2>1. SessionsInv' /\ session'.pc = "Planning"
    BY <1>4, SettledErrCommit DEF ConsultDenies, disk, SessionsInv
  <2>2. /\ at' \in {"denied", "aborting"} /\ at = "consulting" /\ UNCHANGED risk
        /\ replay' \in BOOLEAN /\ todo' \in Seq(Calls)
    BY <1>4, LeaveFacts DEF ConsultDenies, Go, Unmoved
  <2> QED
    BY <2>1, <2>2
<1>5. CASE Denied
  <2>1. SessionsInv' /\ session'.pc = session.pc
    BY <1>5, EntryCommit DEF Denied
  <2> QED
    BY <1>5, <2>1 DEF Denied, Go, Unmoved
<1>6. CASE Note
  <2>1. SessionsInv' /\ session'.pc = session.pc
    BY <1>6, EntryCommit DEF Note
  <2> QED
    BY <1>6, <2>1, LeaveFacts DEF Note, Unmoved
<1> QED
  BY <1>1, <1>2, <1>3, <1>4, <1>5, <1>6 DEF Authorizing

LEMMA EndingKeepsIInv == ASSUME IInv, Ending PROVE IInv'
<1> USE DEF IInv, Locations, PcInv, Planned, InFlight, ReplayInv, TodoInv, ConsentInv, WroteInv
<1>1. CASE TopStops
  BY <1>1, LeaveFacts DEF TopStops, Unmoved, disk, SessionsInv
<1>2. CASE Abort
  <2>1. SessionsInv' /\ session'.pc = session.pc
    BY <1>2, EntryCommit DEF Abort
  <2> QED
    BY <1>2, <2>1 DEF Abort, Go, Unmoved
<1>3. CASE Close
  <2>1. SessionsInv'
    BY <1>3, PcCommit DEF Close, Pcs
  <2> QED
    BY <1>3, <2>1, LeaveFacts DEF Close, Unmoved
<1> QED
  BY <1>1, <1>2, <1>3 DEF Ending

LEMMA StubKeepsIInv == ASSUME IInv, Stub PROVE IInv'
<1> USE DEF IInv, Locations, PcInv, Planned, InFlight, ReplayInv, TodoInv, ConsentInv, WroteInv
<1>1. /\ at = "stubbing" /\ todo # <<>> /\ Sound(session)
      /\ UNCHANGED <<risk, at, replay, answer, permit>>
  BY DEF Stub, SessionsInv
<1>2. Head(todo) \in Calls /\ Tail(todo) \in Seq(Calls)
  BY <1>1
<1>3. CASE session.pc = "Planning"
  <2>1. SessionsInv' /\ session'.pc = "ToolCall" /\ todo' = todo
    BY <1>3, PcCommit DEF Stub, Pcs
  <2> QED
    BY <1>1, <2>1
<1>4. CASE session.pc = "ToolCall"
  <2> DEFINE guarded == FALSE
             malformed == FALSE
             new == Begun(session, Head(todo), guarded, malformed)
  <2>1. Commit(new) /\ todo' = todo
    BY <1>4 DEF Stub
  <2>2. guarded \in BOOLEAN /\ malformed \in BOOLEAN
    OBVIOUS
  <2> HIDE DEF guarded, malformed
  <2>3. new = Begun(session, Head(todo), guarded, malformed)
    OBVIOUS
  <2> HIDE DEF new
  <2>4. Sound(new) /\ new.pc = "Executing"
    BY <1>1, <1>2, <2>2, <2>3, BegunSound
  <2>5. SessionsInv' /\ session' = new
    BY <2>1, <2>4, CommitSound
  <2> QED
    BY <1>1, <2>1, <2>4, <2>5
<1>5. CASE session.pc = "Executing"
  <2>1. SessionsInv' /\ session'.pc = "Planning" /\ todo' = Tail(todo)
    BY <1>5, SettledErrCommit DEF Stub
  <2> QED
    BY <1>1, <1>2, <2>1
<1> QED
  BY <1>3, <1>4, <1>5 DEF Stub

-----------------------------------------------------------------------------
(* The steps of an effect *)

\* A replayed intent is at hand as long as it is pending, a fresh call as
\* long as it heads the batch.
LEMMA CurrentCall ==
  ASSUME IInv, at \in InFlight \cup {"consulting", "entering"}
  PROVE  Current \in Calls
<1>1. CASE replay
  BY <1>1 DEF IInv, PcInv, SessionsInv, Sound, Current, InFlight, ReplayInv
<1>2. CASE ~replay
  BY <1>2 DEF IInv, TodoInv, Current
<1> QED
  BY <1>1, <1>2

LEMMA BeginningKeepsIInv == ASSUME IInv, EnterToolCall \/ Begin PROVE IInv'
<1> USE DEF IInv, Locations, PcInv, Planned, InFlight, ReplayInv, TodoInv, ConsentInv, WroteInv
<1>1. /\ at = "entering" /\ ~replay /\ Sound(session)
      /\ UNCHANGED <<risk, replay, answer, todo, permit>>
  BY DEF EnterToolCall, Begin, Go, Unmoved, SessionsInv
<1>2. Writes(Current)' = Writes(Current)
  BY <1>1 DEF Writes, Current
<1>3. CASE EnterToolCall
  <2>1. SessionsInv' /\ session'.pc = "ToolCall" /\ at' = "entering"
    BY <1>3, PcCommit DEF EnterToolCall, Pcs, Go
  <2> QED
    BY <1>1, <1>2, <2>1
<1>4. CASE Begin
  <2> DEFINE call == Current
             guarded == Writes(Current)
             malformed == FALSE
             new == Begun(session, call, guarded, malformed)
  <2>1. Commit(new) /\ at' = "begun"
    BY <1>4 DEF Begin, Go
  <2>2. call \in Calls /\ guarded \in BOOLEAN /\ malformed \in BOOLEAN
    BY <1>1, CurrentCall DEF Writes
  <2> HIDE DEF call, guarded, malformed
  <2>3. new = Begun(session, call, guarded, malformed)
    OBVIOUS
  <2> HIDE DEF new
  <2>4. Sound(new) /\ new.pc = "Executing"
    BY ZenonT(30), <1>1, <2>2, <2>3, BegunSound
  <2>5. SessionsInv' /\ session' = new
    BY <2>1, <2>4, CommitSound
  <2> QED
    BY <1>1, <1>2, <2>1, <2>4, <2>5
<1> QED
  BY <1>3, <1>4

\* The register is set before the settlement, so a settled write shows it.
LEMMA SettlingKeepsIInv == ASSUME IInv, RecordWrote \/ Settle \/ Finish PROVE IInv'
<1> USE DEF IInv, Locations, PcInv, Planned, InFlight, ReplayInv, TodoInv, ConsentInv, WroteInv
<1>1. session \in Sessions /\ Sound(session)
  BY DEF SessionsInv, Sound
<1>2. CASE RecordWrote
  <2> DEFINE new == [session EXCEPT !.wrote = TRUE]
  <2>1. CommitDeferred(new)
    BY <1>2 DEF RecordWrote
  <2>2. /\ new \in Sessions /\ new.pc = session.pc /\ new.pending = session.pending
        /\ new.wrote /\ new.settledWrite = session.settledWrite
    BY <1>1, WroteFacts
  <2> HIDE DEF new
  <2>3. Sound(new)
    BY <1>1, <2>2 DEF Sound
  <2>4. SessionsInv' /\ session' = new
    BY <2>1, <2>3, CommitSound
  <2>5. at = "recording" /\ at' = "settling" /\ UNCHANGED <<risk, replay, answer, todo, permit>>
    BY <1>2 DEF RecordWrote, Go, Unmoved
  <2> QED
    BY <2>2, <2>4, <2>5
<1>3. CASE Settle
  <2> DEFINE write == Writes(Current)
             new == SettledOk(session, write)
  <2>1. Commit(new) \/ CommitDeferred(new)
    BY <1>3 DEF Settle
  <2>2. write \in BOOLEAN /\ (write => session.wrote)
    BY <1>3 DEF Writes, Settle
  <2> HIDE DEF write
  <2>3. /\ new \in Sessions /\ new.pc = "Settling" /\ new.pending = NoIntent
        /\ new.wrote = session.wrote
        /\ new.settledWrite <=> (session.settledWrite \/ write)
    BY <1>1, <2>2, SettledOkFacts
  <2> HIDE DEF new
  <2>4. Sound(new)
    BY <1>1, <2>2, <2>3 DEF Sound
  <2>5. SessionsInv' /\ session' = new
    BY <2>1, <2>4, CommitSound
  <2>6. at = "settling" /\ at' = "finishing" /\ UNCHANGED <<risk, replay, answer, todo, permit>>
    BY <1>3 DEF Settle, Go, Unmoved
  <2> QED
    BY <2>3, <2>5, <2>6
<1>4. CASE Finish
  <2>1. SessionsInv' /\ session'.pc = "Planning"
    BY <1>4, PcCommit DEF Finish, Pcs
  <2>2. /\ at = "finishing" /\ at' = IF replay THEN "top" ELSE "calls"
        /\ todo' = IF replay THEN todo ELSE Tail(todo)
        /\ UNCHANGED <<risk, answer>> /\ replay' = FALSE
    BY <1>4 DEF Finish, CallDone, Unmoved
  <2>3. todo' \in Seq(Calls)
    BY <2>2
  <2> QED
    BY <2>1, <2>2, <2>3
<1> QED
  BY <1>2, <1>3, <1>4

LEMMA ExecutingKeepsIInv == ASSUME IInv, Executing PROVE IInv'
<1> USE DEF IInv, Locations, PcInv, Planned, InFlight, ReplayInv, TodoInv, ConsentInv, WroteInv
<1>1. CASE PassCheckpoint \/ StartEffect
  <2>1. /\ \/ at = "begun" /\ at' = "started"
           \/ at = "started" /\ at' = "running"
        /\ SessionsInv' /\ session' = session
        /\ UNCHANGED <<risk, replay, answer, todo, permit>>
    BY <1>1 DEF PassCheckpoint, StartEffect, Go, Unmoved, disk, SessionsInv
  <2>2. Writes(Current)' = Writes(Current)
    BY <2>1 DEF Writes, Current
  <2> QED
    BY <2>1, <2>2
<1>2. CASE CancelBeforeEffect
  <2>1. SessionsInv' /\ session'.pc = "Planning"
    BY <1>2, SettledErrCommit DEF CancelBeforeEffect
  <2> QED
    BY <1>2, <2>1, LeaveFacts DEF CancelBeforeEffect, Unmoved
<1>3. CASE EffectSucceeds
  <2>1. /\ at = "running" /\ SessionsInv' /\ session' = session
        /\ at' = IF Writes(Current) THEN "recording" ELSE "settling"
        /\ UNCHANGED <<risk, replay, answer, todo, permit>>
    BY <1>3 DEF EffectSucceeds, Go, Unmoved, disk, SessionsInv
  <2>2. Writes(Current)' = Writes(Current)
    BY <2>1 DEF Writes, Current
  <2> QED
    BY <2>1, <2>2
<1>4. CASE EffectFails
  <2>1. SessionsInv' /\ session'.pc = "Planning"
    BY <1>4, SettledErrCommit DEF EffectFails
  <2>2. /\ at = "running" /\ at' = IF replay THEN "top" ELSE "stubbing"
        /\ todo' = IF replay THEN todo ELSE Tail(todo)
        /\ UNCHANGED <<risk, answer>> /\ replay' = FALSE
    BY <1>4 DEF EffectFails, CallDone
  <2>3. todo' \in Seq(Calls)
    BY <2>2
  <2> QED
    BY <2>1, <2>2, <2>3
<1>5. CASE StubsDone
  BY <1>5 DEF StubsDone, Go, Unmoved, disk, SessionsInv
<1> QED
  BY <1>1, <1>2, <1>3, <1>4, <1>5, BeginningKeepsIInv, SettlingKeepsIInv, StubKeepsIInv
  DEF Executing

-----------------------------------------------------------------------------
(* Claims, crashes and restarts *)

LEMMA OutsideKeepsIInv == ASSUME IInv, Claim \/ Kill \/ PowerCut \/ Restart PROVE IInv'
<1> USE DEF IInv, Locations, PcInv, Planned, InFlight, ReplayInv, TodoInv, ConsentInv, WroteInv
<1>1. CASE Claim
  <2>1. SessionsInv' /\ at' \in {"opening", "resuming"} /\ risk' = risk
    BY <1>1 DEF Claim, disk, SessionsInv
  <2>2. ~replay' /\ replay' \in BOOLEAN /\ todo' = <<>>
    BY <1>1 DEF Claim
  <2> QED
    BY <2>1, <2>2
<1>2. CASE Kill
  <2>1. SessionsInv' /\ at' = "down" /\ ~replay' /\ replay' \in BOOLEAN /\ todo' = <<>>
        /\ risk' = risk
    BY <1>2 DEF Kill, Lost, SessionsInv
  <2> QED
    BY <2>1
<1>3. CASE PowerCut
  <2>1. SessionsInv'
    BY <1>3 DEF PowerCut, SessionsInv
  <2>2. at' = "down" /\ ~replay' /\ replay' \in BOOLEAN /\ todo' = <<>> /\ risk' = risk
    BY <1>3 DEF PowerCut, Lost
  <2> QED
    BY <2>1, <2>2
<1>4. CASE Restart
  <2>1. risk' \in [Calls -> Risks]
    BY <1>4, CallsAssumption DEF Restart
  <2>2. /\ SessionsInv' /\ session' = session /\ at = "down" /\ at' = "idle"
        /\ UNCHANGED <<replay, answer, todo, permit>>
    BY <1>4 DEF Restart, disk, SessionsInv
  <2> QED
    BY <2>1, <2>2
<1> QED
  BY <1>1, <1>2, <1>3, <1>4

LEMMA NextKeepsIInv == IInv /\ [Next]_vars => IInv'
<1> SUFFICES ASSUME IInv, [Next]_vars PROVE IInv'
  OBVIOUS
<1>1. CASE Cancel \/ Detach \/ Push
  BY <1>1, OwnerKeepsIInv DEF Cancel, Detach, Push
<1>2. CASE UNCHANGED vars
  BY <1>2, OwnerKeepsIInv DEF vars
<1> QED
  BY <1>1, <1>2, OpeningKeepsIInv, ResumingKeepsIInv, AskingKeepsIInv, AnsweringKeepsIInv,
     AuthorizingKeepsIInv, ExecutingKeepsIInv, EndingKeepsIInv, OutsideKeepsIInv
  DEF Next, Step

LEMMA InvariantIInv == Spec => []IInv
BY InitIInv, NextKeepsIInv, PTL DEF Spec

-----------------------------------------------------------------------------
(* The theorems *)

\* Whatever commit a kill or a power cut cuts the session at, run_turn() or
\* resume_turn() accepts what is left, and an intent is pending exactly in
\* Executing (the resume decision of machine.rs).
THEOREM EveryCutResumes == Spec => []EveryCrashPointResumes
<1>1. ASSUME NEW s, Sound(s)
      PROVE  /\ Promptable(s) \/ Resumable(s)
             /\ s.pending # NoIntent <=> s.pc = "Executing"
  BY <1>1 DEF Sound, Sessions, Pcs, Promptable, Resumable
<1>2. IInv => EveryCrashPointResumes
  BY <1>1 DEF IInv, SessionsInv, EveryCrashPointResumes
<1> QED
  BY <1>2, InvariantIInv, PTL

\* A session that shows a write as settled has fact/wrote_this_turn set,
\* wherever a power cut cuts it (record_wrote() before settle_ok()).
THEOREM WritesAreRemembered == Spec => []WroteIsRemembered
<1>1. IInv => WroteIsRemembered
  BY DEF IInv, SessionsInv, Sound, WroteIsRemembered
<1> QED
  BY <1>1, InvariantIInv, PTL

\* A write runs, fresh or replayed, only with the approver's consent to this
\* very execution (the gate of drive() and replay_intent()).
THEOREM WritesNeedConsent == Spec => []WritesAreConsented
<1>1. IInv => WritesAreConsented
  BY DEF IInv, ConsentInv, WritesAreConsented
<1> QED
  BY <1>1, InvariantIInv, PTL

-----------------------------------------------------------------------------
(***************************************************************************)
(* The cancel.  LateInv: nothing is late before a cancel, and one thing at *)
(* most if the cancel fell past a checkpoint; where the next thing is past *)
(* its checkpoint, the cancel fell there and nothing has begun since.      *)
(***************************************************************************)
LateInv ==
  /\ late \in Nat /\ spared \in BOOLEAN
  /\ ~cancelled => late = 0
  /\ late <= IF spared THEN 1 ELSE 0
  /\ (cancelled /\ PastCheckpoint) => (late = 0 /\ spared)

\* A step that begins nothing and passes no checkpoint.
LEMMA QuietKeepsLate ==
  ASSUME LateInv, UNCHANGED <<late, spared, cancelled>>, PastCheckpoint' => PastCheckpoint
  PROVE  LateInv'
BY DEF LateInv

\* What begins was past its checkpoint.
LEMMA BeginsKeepsLate ==
  ASSUME LateInv, PastCheckpoint, Begins, cancelled' = cancelled, ~PastCheckpoint'
  PROVE  LateInv'
BY DEF LateInv, Begins

\* A turn that is claimed and a process that dies leave no cancel.
LEMMA ClearedLate ==
  ASSUME late' = 0, spared' \in BOOLEAN, ~cancelled'
  PROVE  LateInv'
BY DEF LateInv

LEMMA AskingKeepsLate == ASSUME IInv, LateInv, Asking PROVE LateInv'
<1>1. CASE Drain
  BY <1>1 DEF Drain, LateInv, overrun
<1>2. CASE Deliver
  BY <1>2, QuietKeepsLate DEF Deliver, token, control, overrun, PastCheckpoint
<1>3. CASE Ask
  BY <1>3, BeginsKeepsLate DEF Ask, Go, token, PastCheckpoint
<1>4. CASE ProviderAnswers \/ ProviderFails
  BY <1>4, QuietKeepsLate
  DEF ProviderAnswers, ProviderFails, Leave, Unmoved, token, overrun, PastCheckpoint
<1> QED
  BY <1>1, <1>2, <1>3, <1>4 DEF Asking

LEMMA ResumingKeepsLate == ASSUME IInv, LateInv, Resuming PROVE LateInv'
<1>1. CASE ResumeReplay
  <2>1. at = "resuming" /\ UNCHANGED <<cancelled>> /\ replay' = TRUE
    BY <1>1 DEF ResumeReplay, token
  <2>2. CASE at' = "running"
    BY <1>1, <2>1, <2>2, BeginsKeepsLate DEF ResumeReplay, PastCheckpoint
  <2>3. CASE at' # "running"
    BY <1>1, <2>1, <2>3, QuietKeepsLate DEF ResumeReplay, overrun, PastCheckpoint
  <2> QED
    BY <2>2, <2>3
<1>2. CASE ResumeClean \/ ResumeUnrunnable
  BY <1>2, QuietKeepsLate
  DEF ResumeClean, ResumeUnrunnable, Go, Unmoved, token, overrun, PastCheckpoint
<1> QED
  BY <1>1, <1>2 DEF Resuming

LEMMA AuthorizingKeepsLate == ASSUME IInv, LateInv, Authorizing PROVE LateInv'
<1>1. CASE ConsultAllows
  <2>1. at = "consulting" /\ UNCHANGED <<cancelled, replay>>
    BY <1>1 DEF ConsultAllows, token
  <2>2. CASE replay
    BY <1>1, <2>1, <2>2, BeginsKeepsLate DEF ConsultAllows, PastCheckpoint
  <2>3. CASE ~replay
    BY <1>1, <2>1, <2>3, QuietKeepsLate DEF ConsultAllows, overrun, PastCheckpoint
  <2> QED
    BY <2>2, <2>3
<1>2. CASE NextCall
  <2>1. ~replay
    BY <1>2 DEF NextCall, IInv, ReplayInv
  <2> QED
    BY <1>2, <2>1, QuietKeepsLate DEF NextCall, Unmoved, token, overrun, PastCheckpoint
<1>3. CASE EndBatch \/ ConsultDenies \/ Denied \/ Note
  BY <1>3, QuietKeepsLate DEF EndBatch, ConsultDenies, Denied, Note, Go, Leave, Unmoved, token,
     overrun, PastCheckpoint
<1> QED
  BY <1>1, <1>2, <1>3 DEF Authorizing

LEMMA ExecutingKeepsLate == ASSUME IInv, LateInv, Executing PROVE LateInv'
<1>1. CASE PassCheckpoint
  BY <1>1 DEF PassCheckpoint, Go, Unmoved, token, overrun, LateInv
<1>2. CASE StartEffect
  BY <1>2, BeginsKeepsLate DEF StartEffect, Go, token, PastCheckpoint
<1>3. CASE Executing /\ ~PassCheckpoint /\ ~StartEffect
  BY <1>3, QuietKeepsLate DEF Executing, EnterToolCall, Begin, CancelBeforeEffect,
     EffectSucceeds, EffectFails, RecordWrote, Settle, Finish, Stub, StubsDone, Go, Leave,
     CallDone, Unmoved, token, overrun, PastCheckpoint
<1> QED
  BY <1>1, <1>2, <1>3

LEMMA NextKeepsLate == IInv /\ LateInv /\ [Next]_vars => LateInv'
<1> SUFFICES ASSUME IInv, LateInv, [Next]_vars PROVE LateInv'
  OBVIOUS
<1>1. CASE Opening \/ Ending
  BY <1>1, QuietKeepsLate DEF Opening, SettleParked, OpenTurn, RefuseTurn, Ending, TopStops,
     Abort, Close, Go, Leave, Unmoved, token, overrun, PastCheckpoint
<1>2. CASE Answering
  <2>1. CASE TakeAnswer
    <3>1. answer.kind \in {"final", "calls", "invalid"}
      BY <2>1 DEF TakeAnswer, IInv, TodoInv, Answers
    <3>2. at' \in {"judging", "calls", "invalid"}
      BY <2>1, <3>1 DEF TakeAnswer
    <3> QED
      BY <2>1, <3>2, QuietKeepsLate DEF TakeAnswer, Unmoved, token, overrun, PastCheckpoint
  <2>2. CASE DropAnswer \/ StopGateDenies \/ FinalAnswer \/ InvalidArgs
    BY <2>2, QuietKeepsLate DEF DropAnswer, StopGateDenies, FinalAnswer, InvalidArgs, Go, Leave,
       Unmoved, token, overrun, PastCheckpoint
  <2> QED
    BY <1>2, <2>1, <2>2 DEF Answering
<1>3. CASE Cancel
  BY <1>3 DEF Cancel, LateInv, control, PastCheckpoint
<1>4. CASE Detach \/ Push \/ Restart
  BY <1>4, QuietKeepsLate DEF Detach, Push, Restart, control, token, overrun, PastCheckpoint
<1>5. CASE Claim \/ Kill \/ PowerCut
  <2>1. late' = 0 /\ spared' \in BOOLEAN
    BY <1>5 DEF Claim, Kill, PowerCut, Lost
  <2>2. ~cancelled'
    BY <1>5 DEF Claim, Kill, PowerCut, Lost
  <2> QED
    BY <2>1, <2>2, ClearedLate
<1>6. CASE UNCHANGED vars
  BY <1>6, QuietKeepsLate DEF vars, control, token, overrun, PastCheckpoint
<1> QED
  BY <1>1, <1>2, <1>3, <1>4, <1>5, <1>6, AskingKeepsLate, ResumingKeepsLate,
     AuthorizingKeepsLate, ExecutingKeepsLate
  DEF Next, Step

\* Once the owner has cancelled, one provider call or effect begins in the
\* turn at most, the one whose checkpoint was passed before (the checkpoints
\* of drive() at the top of the loop and after begin()).
THEOREM CancelStops == Spec => []CancelStopsWork
<1>1. Init => LateInv
  <2> SUFFICES ASSUME Init PROVE LateInv
    OBVIOUS
  <2>1. late = 0 /\ spared \in BOOLEAN /\ ~cancelled
    BY DEF Init
  <2> QED
    BY <2>1 DEF LateInv
<1>2. LateInv => CancelStopsWork
  BY DEF LateInv, CancelStopsWork
<1> QED
  BY <1>1, <1>2, NextKeepsLate, InvariantIInv, PTL DEF Spec

-----------------------------------------------------------------------------
(***************************************************************************)
(* What the provider is told.  OwedInv: the calls of the batch without an  *)
(* intent are those at hand, and a failed batch reaches the provider only  *)
(* with none.  HeardInv: nothing that the owner said before the answer     *)
(* waits while the stop gate judges it.                                    *)
(***************************************************************************)
Interrupts == [id : Nat, source : {"owner", "notice"}, urgent : BOOLEAN]

GhostTyped(g) ==
  /\ DOMAIN g = {"failed", "owed", "pushes", "heard", "delivered"}
  /\ g.failed \in BOOLEAN
  /\ g.owed \in Int
  /\ g.pushes \in Nat
  /\ g.heard \in Nat
  /\ g.heard <= g.pushes

OwedInv ==
  /\ at \in {"answered", "calls", "entering"} => ghost.owed = Len(todo)
  /\ (at = "consulting" /\ ~replay) => ghost.owed = Len(todo)
  /\ (at \in InFlight \cup {"finishing"} /\ ~replay) => ghost.owed = Len(todo) - 1
  /\ at = "stubbing" =>
       ghost.owed = IF session.pc = "Executing" THEN Len(todo) - 1 ELSE Len(todo)
  /\ ghost.failed =>
       at \in {"stubbing", "top", "delivering", "aborting", "closing", "idle"}
  /\ (at \in {"top", "delivering"} /\ ghost.failed) => ghost.owed = 0

HeardInv == at = "judging" => \A n \in Owner : queue[n].id > ghost.heard

GInv == queue \in Seq(Interrupts) /\ GhostTyped(ghost) /\ OwedInv /\ HeardInv

\* What the steps do to the ghost.
LEMMA FreshGhostFacts ==
  ASSUME NEW g, GhostTyped(g)
  PROVE  /\ GhostTyped(FreshGhost(g))
         /\ ~FreshGhost(g).failed
         /\ FreshGhost(g).pushes = g.pushes
<1>1. FreshGhost(g) = [f \in DOMAIN g |-> CASE f = "failed" -> FALSE [] f = "owed" -> 0
                                            [] OTHER -> g[f]]
  BY DEF FreshGhost, GhostTyped
<1> QED
  BY <1>1 DEF GhostTyped

LEMMA AnswerFacts ==
  ASSUME NEW g, GhostTyped(g), NEW n, n \in Int,
         NEW m, m \in {0, g.pushes},
         NEW k, k = [g EXCEPT !.owed = n], NEW h, h = [k EXCEPT !.heard = m]
  PROVE  GhostTyped(h) /\ h.owed = n /\ h.failed = g.failed
<1>1. /\ DOMAIN k = DOMAIN g /\ k.owed = n
      /\ \A f \in DOMAIN g : f # "owed" => k[f] = g[f]
  BY DEF GhostTyped
<1>2. /\ DOMAIN h = DOMAIN k /\ h.heard = m
      /\ \A f \in DOMAIN k : f # "heard" => h[f] = k[f]
  BY <1>1 DEF GhostTyped
<1> QED
  BY <1>1, <1>2 DEF GhostTyped

LEMMA OwedFacts ==
  ASSUME NEW g, GhostTyped(g), NEW h, h = [g EXCEPT !.owed = @ - 1]
  PROVE  /\ GhostTyped(h) /\ h.owed = g.owed - 1
         /\ h.failed = g.failed /\ h.heard = g.heard
BY DEF GhostTyped

LEMMA OwedSetFacts ==
  ASSUME NEW g, GhostTyped(g), NEW n \in Int, NEW h, h = [g EXCEPT !.owed = n]
  PROVE  GhostTyped(h) /\ h.failed = g.failed
BY DEF GhostTyped

LEMMA FailedFacts ==
  ASSUME NEW g, GhostTyped(g), NEW b \in BOOLEAN, NEW h, h = [g EXCEPT !.failed = b]
  PROVE  GhostTyped(h) /\ h.failed = b /\ h.owed = g.owed
BY DEF GhostTyped

LEMMA PushesFacts ==
  ASSUME NEW g, GhostTyped(g), NEW h, h = [g EXCEPT !.pushes = @ + 1]
  PROVE  /\ GhostTyped(h) /\ h.owed = g.owed
         /\ h.failed = g.failed /\ h.heard = g.heard
BY DEF GhostTyped

LEMMA DeliveredFacts ==
  ASSUME NEW g, GhostTyped(g), NEW d, NEW h, h = [g EXCEPT !.delivered = d]
  PROVE  GhostTyped(h) /\ h.owed = g.owed /\ h.failed = g.failed
BY DEF GhostTyped

LEMMA LostFacts ==
  ASSUME NEW g, GhostTyped(g),
         NEW h, h = [FreshGhost(g) EXCEPT !.pushes = 0, !.heard = 0, !.delivered = <<>>]
  PROVE  GhostTyped(h) /\ ~h.failed
<1> DEFINE e == FreshGhost(g)
           d == <<>>
<1>1. GhostTyped(e) /\ ~e.failed
  BY FreshGhostFacts
<1> DEFINE k == [e EXCEPT !.pushes = 0, !.heard = 0]
<1>2. h = [k EXCEPT !.delivered = d]
  OBVIOUS
<1> HIDE DEF e, d
<1>3. k = [f \in DOMAIN e |-> CASE f = "pushes" -> 0 [] f = "heard" -> 0 [] OTHER -> e[f]]
  BY <1>1 DEF GhostTyped
<1>4. GhostTyped(k) /\ ~k.failed
  BY <1>1, <1>3 DEF GhostTyped
<1> HIDE DEF k
<1> QED
  BY <1>2, <1>4, DeliveredFacts

LEMMA InitGInv == Init => GInv
BY DEF Init, GInv, GhostTyped, OwedInv, HeardInv, InFlight

\* A step that leaves the ghost and the queue alone, and is not about a batch.
LEMMA QuietKeepsGInv ==
  ASSUME GInv, UNCHANGED <<queue, ghost>>, at' # "judging",
         at' \notin {"answered", "calls", "entering", "stubbing"},
         at' \in InFlight \cup {"consulting", "finishing"} => replay',
         ghost.failed =>
           /\ at' \in {"top", "delivering", "aborting", "closing", "idle"}
           /\ at' \in {"top", "delivering"} => ghost.owed = 0
  PROVE  GInv'
BY DEF GInv, GhostTyped, OwedInv, HeardInv, InFlight

LEMMA OpeningKeepsGInv == ASSUME IInv, GInv, Opening \/ Resuming \/ Ending PROVE GInv'
<1> USE DEF GInv, OwedInv
<1>1. CASE Opening
  BY <1>1, QuietKeepsGInv
  DEF Opening, SettleParked, OpenTurn, RefuseTurn, Go, Leave, Unmoved, token, InFlight
<1>2. CASE Resuming
  BY <1>2, QuietKeepsGInv DEF Resuming, ResumeClean, ResumeUnrunnable,
     ResumeReplay, Go, Begins, Unmoved, token, InFlight
<1>3. CASE Ending
  BY <1>3, QuietKeepsGInv DEF Ending, TopStops, Abort, Close, Go, Leave, Unmoved, token,
     InFlight
<1> QED
  BY <1>1, <1>2, <1>3

LEMMA AskingKeepsGInv == ASSUME IInv, GInv, Asking PROVE GInv'
<1> USE DEF GInv, OwedInv
<1>1. CASE Drain
  <2>1. queue' \in Seq(Interrupts) /\ at = "top" /\ at' = "delivering" /\ ghost' = ghost
    BY <1>1 DEF Drain
  <2> QED
    BY <2>1 DEF InFlight, HeardInv, GhostTyped
<1>2. CASE Deliver
  <2> DEFINE d == Append(ghost.delivered, Head(drained).id)
  <2>1. ghost' = [ghost EXCEPT !.delivered = d] /\ UNCHANGED <<queue, control>>
    BY <1>2 DEF Deliver, token
  <2>2. at = "delivering"
    BY <1>2 DEF Deliver
  <2> HIDE DEF d
  <2>3. GhostTyped(ghost') /\ ghost'.owed = ghost.owed /\ ghost'.failed = ghost.failed
    BY <2>1, DeliveredFacts
  <2> QED
    BY <2>1, <2>2, <2>3 DEF control, InFlight, HeardInv, GhostTyped
<1>3. CASE Ask
  <2> DEFINE b == FALSE
  <2>1. /\ ghost' = [ghost EXCEPT !.failed = b] /\ b \in BOOLEAN /\ ~b
        /\ at' = "asking" /\ queue' = queue
    BY <1>3 DEF Ask, token, Go
  <2> HIDE DEF b
  <2>2. GhostTyped(ghost') /\ ~ghost'.failed
    BY <2>1, FailedFacts
  <2> QED
    BY <2>1, <2>2 DEF InFlight, HeardInv, GhostTyped
<1>4. CASE ProviderAnswers
  <2>1. at = "asking" /\ at' = "answered" /\ queue' = queue /\ ~ghost.failed
    BY <1>4 DEF ProviderAnswers, token
  <2>2. IInv'
    BY <1>4, AskingKeepsIInv DEF Asking
  <2>3. todo' \in Seq(Calls)
    BY <2>2 DEF IInv, TodoInv
  <2> DEFINE n == Len(todo')
             m == IF answer'.kind = "final" THEN ghost.pushes ELSE 0
             k == [ghost EXCEPT !.owed = n]
  <2>4. n \in Int
    BY <2>3
  <2>5. ghost' = [k EXCEPT !.heard = m]
    BY <1>4 DEF ProviderAnswers
  <2>5a. m \in {0, ghost.pushes}
    OBVIOUS
  <2> HIDE DEF n, m
  <2>6. k = [ghost EXCEPT !.owed = n] /\ GhostTyped(ghost)
    OBVIOUS
  <2> HIDE DEF k, GInv, OwedInv
  <2>7. GhostTyped(ghost')
    BY <2>4, <2>5, <2>5a, <2>6, AnswerFacts
  <2>8. ghost'.owed = n
    BY <2>4, <2>5, <2>5a, <2>6, AnswerFacts
  <2>9. ghost'.failed = ghost.failed
    BY <2>4, <2>5, <2>5a, <2>6, AnswerFacts
  <2> USE DEF GInv, OwedInv
  <2> QED
    BY <2>1, <2>7, <2>8, <2>9 DEF n, InFlight, HeardInv, GhostTyped
<1>5. CASE ProviderFails
  BY <1>5, QuietKeepsGInv DEF ProviderFails, Leave, Unmoved, token, InFlight
<1> QED
  BY <1>1, <1>2, <1>3, <1>4, <1>5 DEF Asking

LEMMA AnsweringKeepsGInv == ASSUME IInv, GInv, Answering PROVE GInv'
<1> USE DEF GInv, OwedInv
<1>1. CASE TakeAnswer
  <2>1. /\ at = "answered" /\ answer \in Answers /\ ~Superseded
        /\ UNCHANGED <<queue, ghost, todo, replay>>
    BY <1>1 DEF TakeAnswer, Unmoved, token, IInv, TodoInv
  <2>2. answer.kind \in {"final", "calls", "invalid"}
    BY <2>1 DEF Answers
  <2>3. /\ at' \in {"judging", "calls", "invalid"}
        /\ at' = "judging" => answer.kind = "final"
    BY <1>1, <2>2 DEF TakeAnswer
  <2>4. HeardInv'
    BY <2>1, <2>3 DEF HeardInv, Superseded, Owner
  <2> QED
    BY <2>1, <2>3, <2>4 DEF InFlight, GhostTyped
<1>2. CASE DropAnswer \/ StopGateDenies \/ FinalAnswer \/ InvalidArgs
  BY <1>2, QuietKeepsGInv
  DEF DropAnswer, StopGateDenies, FinalAnswer, InvalidArgs, Go, Leave, Unmoved, token, InFlight
<1> QED
  BY <1>1, <1>2 DEF Answering

LEMMA AuthorizingKeepsGInv == ASSUME IInv, GInv, Authorizing PROVE GInv'
<1> USE DEF GInv, OwedInv
<1>1. CASE NextCall
  <2>1. /\ at = "calls" /\ at' \in {"aborting", "consulting", "entering"}
        /\ UNCHANGED <<queue, ghost, todo, replay>>
    BY <1>1 DEF NextCall, Unmoved, token
  <2> QED
    BY <2>1 DEF InFlight, HeardInv, GhostTyped
<1>2. CASE ConsultAllows
  <2>1. /\ at = "consulting" /\ at' = IF replay THEN "running" ELSE "entering"
        /\ UNCHANGED <<queue, ghost, todo, replay>>
    BY <1>2 DEF ConsultAllows, Unmoved, token
  <2> QED
    BY <2>1 DEF InFlight, HeardInv, GhostTyped
<1>3. CASE ConsultDenies \/ Denied \/ Note
  BY <1>3, QuietKeepsGInv DEF ConsultDenies, Denied, Note, Go, Leave, Unmoved, token, InFlight
<1>4. CASE EndBatch
  <2> DEFINE n == 0
  <2>1. /\ ghost' = [ghost EXCEPT !.owed = n] /\ n \in Int /\ at = "calls" /\ at' = "top"
        /\ queue' = queue
    BY <1>4 DEF EndBatch, token
  <2> HIDE DEF n
  <2>2. GhostTyped(ghost') /\ ghost'.failed = ghost.failed
    BY <2>1, OwedSetFacts
  <2> QED
    BY <2>1, <2>2 DEF InFlight, HeardInv, GhostTyped
<1> QED
  BY <1>1, <1>2, <1>3, <1>4 DEF Authorizing

LEMMA ExecutingKeepsGInv == ASSUME IInv, GInv, Executing PROVE GInv'
<1> USE DEF GInv, OwedInv
<1>1. CASE EnterToolCall
  <2>1. at = "entering" /\ at' = "entering" /\ UNCHANGED <<queue, ghost, todo, replay>>
    BY <1>1 DEF EnterToolCall, Go, Unmoved, token
  <2> QED
    BY <2>1 DEF InFlight, HeardInv, GhostTyped
<1>2. CASE Begin
  <2>1. /\ ghost' = [ghost EXCEPT !.owed = @ - 1]
        /\ at = "entering" /\ at' = "begun" /\ UNCHANGED <<queue, todo, replay>>
    BY <1>2 DEF Begin, Go, token
  <2>2. /\ GhostTyped(ghost') /\ ghost'.owed = ghost.owed - 1
        /\ ghost'.failed = ghost.failed
    BY <2>1, OwedFacts
  <2> QED
    BY <2>1, <2>2 DEF InFlight, HeardInv, GhostTyped
<1>3. CASE PassCheckpoint \/ StartEffect \/ EffectSucceeds \/ RecordWrote \/ Settle
  <2>1. /\ at \in InFlight /\ at' \in InFlight \cup {"finishing"}
        /\ UNCHANGED <<queue, ghost, todo, replay>>
    BY <1>3 DEF PassCheckpoint, StartEffect, EffectSucceeds, RecordWrote, Settle, Go, Unmoved,
       token, InFlight
  <2> QED
    BY <2>1 DEF InFlight, HeardInv, GhostTyped
<1>4. CASE Finish
  <2>1. /\ at = "finishing" /\ at' = IF replay THEN "top" ELSE "calls"
        /\ todo' = IF replay THEN todo ELSE Tail(todo)
        /\ UNCHANGED <<queue, ghost>> /\ replay' = FALSE
    BY <1>4 DEF Finish, CallDone, Unmoved, token
  <2>2. ~replay => Len(Tail(todo)) = Len(todo) - 1
    BY <2>1 DEF IInv, TodoInv
  <2> QED
    BY <2>1, <2>2 DEF InFlight, HeardInv, GhostTyped
<1>5. CASE EffectFails
  <2> DEFINE b == ~replay
  <2>1. /\ at = "running" /\ at' = IF replay THEN "top" ELSE "stubbing"
        /\ todo' = IF replay THEN todo ELSE Tail(todo)
        /\ ghost' = [ghost EXCEPT !.failed = b]
        /\ queue' = queue /\ replay' = FALSE
    BY <1>5 DEF EffectFails, CallDone, token
  <2>2. b \in BOOLEAN
    OBVIOUS
  <2>3. ~replay => Len(Tail(todo)) = Len(todo) - 1
    BY <2>1 DEF IInv, TodoInv, InFlight
  <2>4. session'.pc = "Planning"
    BY <1>5, SettledErrCommit DEF EffectFails
  <2> HIDE DEF b
  <2>5. GhostTyped(ghost') /\ ghost'.failed = b /\ ghost'.owed = ghost.owed
    BY <2>1, <2>2, FailedFacts
  <2> QED
    BY <2>1, <2>3, <2>4, <2>5 DEF b, InFlight, HeardInv, GhostTyped
<1>6. CASE Stub
  <2>1. at = "stubbing" /\ at' = at /\ todo # <<>> /\ UNCHANGED <<queue, replay>>
    BY <1>6 DEF Stub, token
  <2>2. Len(Tail(todo)) = Len(todo) - 1
    BY <2>1 DEF IInv, TodoInv
  <2>3. CASE session.pc = "Planning"
    <3>1. session'.pc = "ToolCall" /\ UNCHANGED <<todo, ghost>>
      BY <1>6, <2>3, PcCommit DEF Stub, Pcs
    <3> QED
      BY <2>1, <2>3, <3>1 DEF InFlight, HeardInv, GhostTyped
  <2>4. CASE session.pc = "ToolCall"
    <3>1. ghost' = [ghost EXCEPT !.owed = @ - 1] /\ todo' = todo
      BY <1>6, <2>4 DEF Stub
    <3>2. /\ GhostTyped(ghost') /\ ghost'.owed = ghost.owed - 1
          /\ ghost'.failed = ghost.failed
      BY <3>1, OwedFacts
    <3>3. session'.pc = "Executing"
      <4> DEFINE guarded == FALSE
                 malformed == FALSE
                 new == Begun(session, Head(todo), guarded, malformed)
      <4>1. session' = new
        BY <1>6, <2>4 DEF Stub, Commit
      <4>2. guarded \in BOOLEAN /\ malformed \in BOOLEAN /\ Head(todo) \in Calls
            /\ Sound(session)
        BY <2>1 DEF IInv, TodoInv, SessionsInv
      <4> HIDE DEF guarded, malformed
      <4>3. new = Begun(session, Head(todo), guarded, malformed)
        OBVIOUS
      <4> HIDE DEF new
      <4> QED
        BY <4>1, <4>2, <4>3, BegunSound
    <3> QED
      BY <2>1, <2>4, <3>1, <3>2, <3>3 DEF InFlight, HeardInv, GhostTyped
  <2>5. CASE session.pc = "Executing"
    <3>1. session'.pc = "Planning" /\ todo' = Tail(todo) /\ ghost' = ghost
      BY <1>6, <2>5, SettledErrCommit DEF Stub
    <3> QED
      BY <2>1, <2>2, <2>5, <3>1 DEF InFlight, HeardInv, GhostTyped
  <2> QED
    BY <1>6, <2>3, <2>4, <2>5 DEF Stub
<1>7. CASE StubsDone
  <2>1. ghost.owed = 0
    BY <1>7 DEF StubsDone, IInv, PcInv
  <2> QED
    BY <1>7, <2>1, QuietKeepsGInv DEF StubsDone, Go, Unmoved, token, InFlight
<1>8. CASE CancelBeforeEffect
  BY <1>8, QuietKeepsGInv DEF CancelBeforeEffect, Leave, Unmoved, token, InFlight
<1> QED
  BY <1>1, <1>2, <1>3, <1>4, <1>5, <1>6, <1>7, <1>8 DEF Executing

\* A message that arrives while the stop gate judges is newer than the answer.
LEMMA PushKeepsGInv == ASSUME IInv, GInv, Push PROVE GInv'
<1> USE DEF GInv, OwedInv
<1>1. PICK k \in Kinds : queue' = Pushed(k)
  BY DEF Push
<1> DEFINE i == [id |-> ghost.pushes + 1, source |-> k.source, urgent |-> k.urgent]
<1>2. queue' = Append(queue, i)
  BY <1>1 DEF Pushed, Interrupt
<1>2a. k.source \in {"owner", "notice"} /\ k.urgent \in BOOLEAN /\ ghost.pushes + 1 \in Nat
  <2>1. CASE k \in [source : {"owner"}, urgent : BOOLEAN]
    BY <2>1 DEF GhostTyped
  <2>2. CASE k \in [source : {"notice"}, urgent : {FALSE}]
    <3>1. k.urgent \in {FALSE} /\ k.source = "notice"
      BY <2>2
    <3>2. k.urgent \in BOOLEAN
      BY <3>1, Zenon
    <3> QED
      BY <3>1, <3>2 DEF GhostTyped
  <2> QED
    BY <2>1, <2>2 DEF Kinds
<1>3. i \in Interrupts /\ i.id = ghost.pushes + 1
  BY <1>2a DEF Interrupts
<1> HIDE DEF i
<1>4. /\ queue' \in Seq(Interrupts)
      /\ \A n \in DOMAIN queue' :
           queue'[n].id = ghost.pushes + 1 \/ (n \in DOMAIN queue /\ queue'[n] = queue[n])
  BY <1>2, <1>3
<1>5. ghost' = [ghost EXCEPT !.pushes = @ + 1] /\ UNCHANGED <<disk, control>>
  BY DEF Push
<1>6. /\ GhostTyped(ghost') /\ ghost'.owed = ghost.owed
      /\ ghost'.failed = ghost.failed /\ ghost'.heard = ghost.heard
  BY <1>5, PushesFacts
<1>7. HeardInv'
  BY <1>4, <1>5, <1>6 DEF HeardInv, Owner, control, GhostTyped
<1> QED
  BY <1>4, <1>5, <1>6, <1>7 DEF control, disk, InFlight

LEMMA OutsideKeepsGInv ==
  ASSUME IInv, GInv, Claim \/ Kill \/ PowerCut \/ Restart
  PROVE  GInv'
<1> USE DEF GInv, OwedInv
<1>1. CASE Claim
  <2>1. /\ ghost' = FreshGhost(ghost) /\ queue' = queue
        /\ at' \in {"opening", "resuming"}
    BY <1>1 DEF Claim
  <2>2. GhostTyped(ghost') /\ ~ghost'.failed
    BY <2>1, FreshGhostFacts
  <2> QED
    BY <2>1, <2>2 DEF InFlight, HeardInv, GhostTyped
<1>2. CASE Kill \/ PowerCut
  <2> DEFINE d == <<>>
  <2>1. /\ ghost' = [FreshGhost(ghost) EXCEPT !.pushes = 0, !.heard = 0, !.delivered = <<>>]
        /\ queue' = <<>> /\ at' = "down"
    BY <1>2 DEF Kill, PowerCut, Lost
  <2>2. GhostTyped(ghost') /\ ~ghost'.failed
    BY <2>1, LostFacts
  <2> QED
    BY <2>1, <2>2 DEF InFlight, HeardInv, GhostTyped
<1>3. CASE Restart
  BY <1>3, QuietKeepsGInv DEF Restart, token, InFlight
<1> QED
  BY <1>1, <1>2, <1>3

LEMMA NextKeepsGInv == IInv /\ GInv /\ [Next]_vars => GInv'
<1> SUFFICES ASSUME IInv, GInv, [Next]_vars PROVE GInv'
  OBVIOUS
<1>1. CASE Cancel \/ Detach
  BY <1>1 DEF Cancel, Detach, GInv, OwedInv, HeardInv, GhostTyped, Owner, InFlight, control, disk
<1>2. CASE UNCHANGED vars
  BY <1>2 DEF vars, GInv, OwedInv, HeardInv, GhostTyped, Owner, InFlight, control, disk, token
<1> QED
  BY <1>1, <1>2, OpeningKeepsGInv, AskingKeepsGInv, AnsweringKeepsGInv, AuthorizingKeepsGInv,
     ExecutingKeepsGInv, PushKeepsGInv, OutsideKeepsGInv
  DEF Next, Step

LEMMA InvariantGInv == Spec => []GInv
BY InitIInv, InitGInv, NextKeepsGInv, InvariantIInv, PTL DEF Spec

\* When a call of a batch fails, every call of the batch has an intent and a
\* result before the provider is asked again (stub_call() in drive()).
THEOREM EveryCallIsAnswered == Spec => []EveryCallAnswered
<1>1. IInv /\ GInv => EveryCallAnswered
  BY DEF IInv, SessionsInv, Sound, PcInv, Planned, GInv, OwedInv, EveryCallAnswered
<1> QED
  BY <1>1, InvariantIInv, InvariantGInv, PTL

\* A final answer is delivered only when no message of the owner from before
\* the answer is waiting (the superseded check of drive()).
THEOREM NoAnswerIsStale == Spec => NoStaleAnswer
<1>1. GInv /\ [Next]_vars =>
        [(at = "judging" /\ at' = "idle") => \A n \in Owner : queue[n].id > ghost.heard]_vars
  BY DEF GInv, HeardInv
<1> QED
  BY <1>1, InvariantGInv, PTL DEF Spec, NoStaleAnswer

-----------------------------------------------------------------------------
(***************************************************************************)
(* The interrupts.  OrderInv: what was delivered, what is drained and what *)
(* is queued are the numbers of the interrupts accepted, counted through   *)
(* the three; an interrupt is drained only while the loop delivers.        *)
(***************************************************************************)
OrderInv ==
  /\ ghost.delivered \in Seq(Nat)
  /\ drained \in Seq(Interrupts)
  /\ drained # <<>> => at = "delivering"
  /\ ghost.pushes = Len(ghost.delivered) + Len(drained) + Len(queue)
  /\ \A n \in 1 .. Len(ghost.delivered) : ghost.delivered[n] = n
  /\ \A n \in 1 .. Len(drained) : drained[n].id = Len(ghost.delivered) + n
  /\ \A n \in 1 .. Len(queue) : queue[n].id = Len(ghost.delivered) + Len(drained) + n

LEMMA InitOrderInv == Init => OrderInv
BY DEF Init, OrderInv

\* A step that moves no interrupt.
LEMMA QuietKeepsOrder ==
  ASSUME OrderInv, UNCHANGED <<queue, drained>>, at # "delivering" \/ at' = at \/ drained = <<>>,
         ghost'.delivered = ghost.delivered, ghost'.pushes = ghost.pushes
  PROVE  OrderInv'
BY DEF OrderInv

\* The ghost's other fields count calls, not interrupts.
LEMMA CountersKeepOrder ==
  ASSUME GhostTyped(ghost),
         \/ ghost' = ghost
         \/ ghost' = FreshGhost(ghost)
         \/ \E n, m : ghost' = [ghost EXCEPT !.owed = n, !.heard = m]
         \/ \E n : ghost' = [ghost EXCEPT !.owed = n]
         \/ \E b : ghost' = [ghost EXCEPT !.failed = b]
  PROVE  ghost'.delivered = ghost.delivered /\ ghost'.pushes = ghost.pushes
<1>1. CASE ghost' = FreshGhost(ghost)
  <2>1. ghost' = [f \in DOMAIN ghost |-> CASE f = "failed" -> FALSE [] f = "owed" -> 0
                                            [] OTHER -> ghost[f]]
    BY <1>1 DEF FreshGhost, GhostTyped
  <2> QED
    BY <2>1 DEF GhostTyped
<1>3. ASSUME NEW n, NEW m, ghost' = [ghost EXCEPT !.owed = n, !.heard = m]
      PROVE  ghost'.delivered = ghost.delivered /\ ghost'.pushes = ghost.pushes
  <2>1. ghost' = [f \in DOMAIN ghost |-> CASE f = "owed" -> n [] f = "heard" -> m
                                            [] OTHER -> ghost[f]]
    BY <1>3 DEF GhostTyped
  <2> QED
    BY <2>1 DEF GhostTyped
<1>4. ASSUME NEW n, ghost' = [ghost EXCEPT !.owed = n] \/ ghost' = [ghost EXCEPT !.failed = n]
      PROVE  ghost'.delivered = ghost.delivered /\ ghost'.pushes = ghost.pushes
  BY <1>4 DEF GhostTyped
<1> QED
  BY <1>1, <1>3, <1>4

\* The queue is taken whole, and only when nothing is left to deliver.
LEMMA DrainKeepsOrder == ASSUME GInv, OrderInv, Drain PROVE OrderInv'
<1>1. /\ drained = <<>> /\ drained' = queue /\ queue' = <<>>
      /\ at' = "delivering" /\ ghost' = ghost
  BY DEF Drain, OrderInv
<1> QED
  BY <1>1 DEF GInv, OrderInv

LEMMA DeliverKeepsOrder == ASSUME GInv, OrderInv, Deliver PROVE OrderInv'
<1> DEFINE d == ghost.delivered
           e == Append(d, Head(drained).id)
<1>1. /\ drained # <<>> /\ drained' = Tail(drained) /\ queue' = queue
      /\ at = "delivering" /\ at' = at /\ ghost' = [ghost EXCEPT !.delivered = e]
  BY DEF Deliver, token, control
<1>2. ghost'.delivered = e /\ ghost'.pushes = ghost.pushes
  <2> HIDE DEF e
  <2> QED
    BY <1>1 DEF GInv, GhostTyped
<1>3. /\ d \in Seq(Nat) /\ Head(drained).id = Len(d) + 1
      /\ Len(drained) > 0
  <2>1. d \in Seq(Nat) /\ drained \in Seq(Interrupts)
    BY DEF OrderInv
  <2>2. Head(drained) = drained[1] /\ Len(drained) \in Nat /\ Len(drained) > 0
    BY <1>1, <2>1, EmptySeq
  <2> QED
    BY <2>1, <2>2 DEF OrderInv
<1>4. /\ e \in Seq(Nat) /\ Len(e) = Len(d) + 1
      /\ \A n \in 1 .. Len(e) : e[n] = n
  BY <1>3 DEF OrderInv
<1>5. /\ drained' \in Seq(Interrupts) /\ Len(drained') = Len(drained) - 1
      /\ \A n \in 1 .. Len(drained') : drained'[n] = drained[n + 1]
  BY <1>1, <1>3 DEF OrderInv
<1> HIDE DEF e
<1>6. /\ \A n \in 1 .. Len(drained') : drained'[n].id = Len(e) + n
      /\ \A n \in 1 .. Len(queue) : queue[n].id = Len(e) + Len(drained') + n
      /\ ghost.pushes = Len(e) + Len(drained') + Len(queue)
  <2> DEFINE D == Len(d)
             R == Len(drained)
             Q == Len(queue)
  <2>1. D \in Nat /\ R \in Nat /\ Q \in Nat
    BY <1>3, LenProperties DEF OrderInv, GInv
  <2>2. /\ ghost.pushes = D + R + Q /\ Len(e) = D + 1 /\ Len(drained') = R - 1
        /\ R > 0
    BY <1>3, <1>4, <1>5 DEF OrderInv
  <2>3. /\ \A n \in 1 .. R : drained[n].id = D + n
        /\ \A n \in 1 .. Q : queue[n].id = D + R + n
        /\ \A n \in 1 .. R - 1 : drained'[n] = drained[n + 1]
    BY <1>5, <2>2 DEF OrderInv
  <2> HIDE DEF D, R
  <2>4. \A n \in 1 .. R - 1 : drained'[n].id = D + (n + 1)
    BY <2>1, <2>3
  <2> HIDE DEF Q
  <2>5. \A n \in 1 .. Q : queue[n].id = (D + 1) + (R - 1) + n
    BY <2>1, <2>3
  <2>6. \A n \in 1 .. R - 1 : drained'[n].id = (D + 1) + n
    BY <2>1, <2>4
  <2>7. ghost.pushes = (D + 1) + (R - 1) + Q
    BY <2>1, <2>2
  <2> QED
    BY <2>2, <2>5, <2>6, <2>7 DEF Q
<1> QED
  BY <1>1, <1>2, <1>4, <1>5, <1>6 DEF OrderInv

LEMMA PushKeepsOrder == ASSUME GInv, OrderInv, Push PROVE OrderInv'
<1>1. PICK k \in Kinds : queue' = Pushed(k)
  BY DEF Push
<1> DEFINE i == [id |-> ghost.pushes + 1, source |-> k.source, urgent |-> k.urgent]
<1>2. queue' = Append(queue, i) /\ i.id = ghost.pushes + 1
  BY <1>1 DEF Pushed, Interrupt
<1> HIDE DEF i
<1>3. ghost' = [ghost EXCEPT !.pushes = @ + 1] /\ UNCHANGED <<drained, at>>
  BY DEF Push, control
<1>4. ghost'.pushes = ghost.pushes + 1 /\ ghost'.delivered = ghost.delivered
  BY <1>3 DEF GInv, GhostTyped
<1>5. /\ Len(queue') = Len(queue) + 1
      /\ \A n \in 1 .. Len(queue') : queue'[n] = IF n = Len(queue) + 1 THEN i ELSE queue[n]
      /\ Len(queue) \in Nat
  BY <1>2 DEF GInv
<1> DEFINE D == Len(ghost.delivered)
           R == Len(drained)
           Q == Len(queue)
<1>6. /\ D \in Nat /\ R \in Nat /\ Q \in Nat /\ Len(queue') = Q + 1
      /\ ghost.pushes = D + R + Q /\ \A n \in 1 .. Q : queue[n].id = D + R + n
      /\ \A n \in 1 .. Q + 1 : queue'[n] = IF n = Q + 1 THEN i ELSE queue[n]
  BY <1>5, LenProperties DEF OrderInv
<1>7. /\ ghost'.pushes = Len(ghost'.delivered) + Len(drained') + Len(queue')
      /\ \A n \in 1 .. Len(queue') :
           queue'[n].id = Len(ghost'.delivered) + Len(drained') + n
  <2>1. Len(ghost'.delivered) = D /\ Len(drained') = R
    BY <1>3, <1>4
  <2> HIDE DEF D, R, Q
  <2>2. ghost'.pushes = D + R + (Q + 1)
    BY <1>4, <1>6
  <2>3. ASSUME NEW n \in 1 .. Q + 1 PROVE queue'[n].id = D + R + n
    BY <1>2, <1>6
  <2> QED
    BY <1>6, <2>1, <2>2, <2>3
<1> QED
  BY <1>3, <1>4, <1>7 DEF OrderInv

LEMMA LostKeepsOrder == ASSUME GInv, Kill \/ PowerCut PROVE OrderInv'
<1> DEFINE e == FreshGhost(ghost)
           d == <<>>
<1>1. /\ ghost' = [e EXCEPT !.pushes = 0, !.heard = 0, !.delivered = d]
      /\ queue' = <<>> /\ drained' = <<>>
  BY DEF Kill, PowerCut, Lost
<1>2. GhostTyped(e)
  BY FreshGhostFacts DEF GInv
<1> HIDE DEF e, d
<1>3. ghost' = [f \in DOMAIN e |-> CASE f = "pushes" -> 0 [] f = "heard" -> 0
                                     [] f = "delivered" -> d [] OTHER -> e[f]]
  BY <1>1, <1>2 DEF GhostTyped
<1>4. ghost'.pushes = 0 /\ ghost'.delivered = d
  BY <1>2, <1>3 DEF GhostTyped
<1> QED
  BY <1>1, <1>4 DEF OrderInv, d

LEMMA StepKeepsOrder == ASSUME GInv, OrderInv, Step PROVE OrderInv'
<1>1. CASE Opening \/ Resuming \/ Ending
  BY <1>1, QuietKeepsOrder DEF Opening, SettleParked, OpenTurn, RefuseTurn, Resuming, ResumeClean,
     ResumeUnrunnable, ResumeReplay, Ending, TopStops, Abort, Close, Unmoved, token
<1>2. CASE (Answering \/ Authorizing) /\ ~EndBatch
  BY <1>2, QuietKeepsOrder DEF Answering, DropAnswer, TakeAnswer, StopGateDenies, FinalAnswer,
     InvalidArgs, Authorizing, NextCall, ConsultAllows, ConsultDenies, Denied, Note,
     Unmoved, token
<1>3. CASE Ask
  <2>1. UNCHANGED <<queue, drained>> /\ drained = <<>>
        /\ \E b : ghost' = [ghost EXCEPT !.failed = b]
    BY <1>3 DEF Ask, token
  <2> QED
    BY <2>1, CountersKeepOrder, QuietKeepsOrder DEF GInv
<1>4. CASE ProviderAnswers
  <2>1. UNCHANGED <<queue, drained>> /\ at = "asking"
        /\ \E n, m : ghost' = [ghost EXCEPT !.owed = n, !.heard = m]
    BY <1>4 DEF ProviderAnswers, token
  <2> QED
    BY <2>1, CountersKeepOrder, QuietKeepsOrder DEF GInv
<1>5. CASE ProviderFails
  BY <1>5, QuietKeepsOrder DEF ProviderFails, Unmoved, token
<1>6. CASE EndBatch \/ Begin \/ EffectFails \/ Stub
  <2>1. /\ UNCHANGED <<queue, drained>> /\ at # "delivering"
        /\ \/ ghost' = ghost
           \/ \E n : ghost' = [ghost EXCEPT !.owed = n]
           \/ \E b : ghost' = [ghost EXCEPT !.failed = b]
    BY <1>6 DEF EndBatch, Begin, EffectFails, Stub, token
  <2> QED
    BY <2>1, CountersKeepOrder, QuietKeepsOrder DEF GInv
<1>7. CASE Executing /\ ~(Begin \/ EffectFails \/ Stub)
  BY <1>7, QuietKeepsOrder DEF Executing, EnterToolCall, PassCheckpoint, StartEffect,
     CancelBeforeEffect, EffectSucceeds, RecordWrote, Settle, Finish, StubsDone, Unmoved, token
<1> QED
  BY <1>1, <1>2, <1>3, <1>4, <1>5, <1>6, <1>7, DrainKeepsOrder, DeliverKeepsOrder
  DEF Step, Asking

LEMMA NextKeepsOrder == GInv /\ OrderInv /\ [Next]_vars => OrderInv'
<1> SUFFICES ASSUME GInv, OrderInv, [Next]_vars PROVE OrderInv'
  OBVIOUS
<1>1. CASE Claim
  <2>1. UNCHANGED <<queue, drained>> /\ at = "idle" /\ ghost' = FreshGhost(ghost)
    BY <1>1 DEF Claim
  <2> QED
    BY <2>1, CountersKeepOrder, QuietKeepsOrder DEF GInv
<1>2. CASE Cancel \/ Detach \/ Restart
  BY <1>2, QuietKeepsOrder DEF Cancel, Detach, Restart, token, control
<1>3. CASE UNCHANGED vars
  BY <1>3, QuietKeepsOrder DEF vars, token, control
<1> QED
  BY <1>1, <1>2, <1>3, StepKeepsOrder, PushKeepsOrder, LostKeepsOrder DEF Next

\* The ids of interrupts that are numbered from k on.
LEMMA IdsFacts ==
  ASSUME NEW S \in Seq(Interrupts), NEW k \in Nat,
         \A n \in 1 .. Len(S) : S[n].id = k + n,
         NEW r, r = [n \in DOMAIN S |-> S[n].id]
  PROVE  r \in Seq(Nat) /\ Len(r) = Len(S) /\ \A n \in 1 .. Len(r) : r[n] = k + n
<1>1. Len(S) \in Nat /\ DOMAIN S = 1 .. Len(S)
  BY LenProperties
<1>2. r = [n \in 1 .. Len(S) |-> k + n]
  BY <1>1
<1> QED
  BY <1>1, <1>2

\* Two sequences of numbers, the second one counting on where the first ends.
LEMMA CountedOn ==
  ASSUME NEW s \in Seq(Nat), NEW t \in Seq(Nat),
         \A n \in 1 .. Len(s) : s[n] = n,
         \A n \in 1 .. Len(t) : t[n] = Len(s) + n,
         NEW u, u = s \o t
  PROVE  /\ u \in Seq(Nat) /\ Len(u) = Len(s) + Len(t)
         /\ \A n \in 1 .. Len(u) : u[n] = n
<1>1. /\ u \in Seq(Nat) /\ Len(u) = Len(s) + Len(t)
      /\ \A n \in 1 .. Len(s) + Len(t) :
           u[n] = IF n <= Len(s) THEN s[n] ELSE t[n - Len(s)]
  BY ConcatProperties
<1>2. Len(s) \in Nat /\ Len(t) \in Nat
  BY LenProperties
<1>3. ASSUME NEW n \in 1 .. Len(s) + Len(t) PROVE u[n] = n
  <2>1. CASE n <= Len(s)
    BY <1>1, <1>2, <2>1
  <2>2. CASE n > Len(s)
    <3>1. n - Len(s) \in 1 .. Len(t)
      BY <1>2, <2>2
    <3>2. u[n] = t[n - Len(s)]
      BY <1>1, <1>2, <2>2
    <3> QED
      BY <1>2, <3>1, <3>2
  <2> QED
    BY <1>2, <2>1, <2>2
<1> QED
  BY <1>1, <1>3

\* Every interrupt accepted since the process started was delivered, is
\* being delivered or is queued, once and in the order of acceptance
\* (interrupt.rs, drained at the safe point of drive()).
THEOREM InterruptsKeepOrder == Spec => []InterruptsInOrder
<1>1. ASSUME GInv, OrderInv PROVE InterruptsInOrder
  <2> DEFINE d == ghost.delivered
             r == [n \in DOMAIN drained |-> drained[n].id]
             q == [n \in DOMAIN queue |-> queue[n].id]
  <2>1. d \in Seq(Nat) /\ \A n \in 1 .. Len(d) : d[n] = n
    BY <1>1 DEF OrderInv
  <2>2. /\ drained \in Seq(Interrupts) /\ queue \in Seq(Interrupts)
        /\ Len(d) \in Nat /\ Len(drained) \in Nat
        /\ \A n \in 1 .. Len(drained) : drained[n].id = Len(d) + n
        /\ \A n \in 1 .. Len(queue) : queue[n].id = (Len(d) + Len(drained)) + n
        /\ ghost.pushes = Len(d) + Len(drained) + Len(queue)
    BY <1>1, <2>1, LenProperties DEF GInv, OrderInv
  <2>3. InterruptsInOrder <=> (d \o r) \o q = [n \in 1 .. ghost.pushes |-> n]
    BY DEF InterruptsInOrder
  <2>4. r = [n \in DOMAIN drained |-> drained[n].id] /\ q = [n \in DOMAIN queue |-> queue[n].id]
    OBVIOUS
  <2> HIDE DEF d, r, q
  <2>5. /\ r \in Seq(Nat) /\ Len(r) = Len(drained)
        /\ \A n \in 1 .. Len(r) : r[n] = Len(d) + n
    <3> DEFINE k == Len(d)
    <3>1. k \in Nat /\ \A n \in 1 .. Len(drained) : drained[n].id = k + n
      BY <2>2
    <3> HIDE DEF k
    <3>2. /\ r \in Seq(Nat) /\ Len(r) = Len(drained)
          /\ \A n \in 1 .. Len(r) : r[n] = k + n
      <4>1. drained \in Seq(Interrupts) /\ r = [n \in DOMAIN drained |-> drained[n].id]
        BY <2>2, <2>4
      <4> QED
        BY ONLY ZenonT(60), <3>1, <4>1, IdsFacts
    <3> QED
      BY <3>2 DEF k
  <2> DEFINE s == d \o r
             u == s \o q
  <2>6. s = d \o r /\ u = s \o q
    OBVIOUS
  <2> HIDE DEF s, u
  <2>7. /\ s \in Seq(Nat) /\ Len(s) = Len(d) + Len(drained)
        /\ \A n \in 1 .. Len(s) : s[n] = n
    <3>1. /\ s \in Seq(Nat) /\ Len(s) = Len(d) + Len(r)
          /\ \A n \in 1 .. Len(s) : s[n] = n
      BY <2>1, <2>5, <2>6, CountedOn
    <3> QED
      BY <2>5, <3>1
  <2>8. /\ q \in Seq(Nat) /\ Len(q) = Len(queue)
        /\ \A n \in 1 .. Len(q) : q[n] = Len(s) + n
    <3> DEFINE k == Len(s)
    <3>1. k \in Nat /\ k = Len(d) + Len(drained)
      BY <2>2, <2>7
    <3> HIDE DEF k
    <3>2. \A n \in 1 .. Len(queue) : queue[n].id = k + n
      BY <2>2, <3>1
    <3>3. q \in Seq(Nat) /\ Len(q) = Len(queue) /\ \A n \in 1 .. Len(q) : q[n] = k + n
      <4>1. /\ queue \in Seq(Interrupts) /\ k \in Nat
            /\ q = [n \in DOMAIN queue |-> queue[n].id]
        BY <2>2, <2>4, <3>1
      <4> QED
        BY ONLY ZenonT(60), <3>2, <4>1, IdsFacts
    <3> QED
      BY <3>3 DEF k
  <2>9. /\ u \in Seq(Nat) /\ Len(u) = ghost.pushes
        /\ \A n \in 1 .. Len(u) : u[n] = n
    <3>1. /\ u \in Seq(Nat) /\ Len(u) = Len(s) + Len(q)
          /\ \A n \in 1 .. Len(u) : u[n] = n
      BY <2>6, <2>7, <2>8, CountedOn
    <3>2. ghost.pushes = Len(s) + Len(q)
      BY <2>2, <2>7, <2>8
    <3> QED
      BY <3>1, <3>2
  <2>10. u = [n \in 1 .. ghost.pushes |-> n]
    BY <2>9
  <2> QED
    BY <2>3, <2>6, <2>10
<1> QED
  BY <1>1, InitOrderInv, NextKeepsOrder, InvariantGInv, PTL DEF Spec

=============================================================================
