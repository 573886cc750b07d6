------------------------ MODULE EffectSandwichProofs ------------------------
(***************************************************************************)
(* Proofs about EffectSandwich: for every bound, set of contracts and      *)
(* schedule of kills, failed appends and power cuts.                       *)
(***************************************************************************)
EXTENDS EffectSandwich, TLAPS

(***************************************************************************)
(* The inductive invariant.  A session is Sound when its register, counter *)
(* and entries agree; sequence numbers keep intent ids apart.  Recoverable *)
(* sessions are earlier states of the open one.  The host never holds an   *)
(* effect that the open session does not have pending.                     *)
(***************************************************************************)
IdsBelowSeq(s) == \A e \in s.entries : e.of < s.seq

UniqueIntents(s) == \A e, f \in Intents(s) : e.of = f.of => e = f

Sound(s) ==
  /\ OneUnsettled(s)
  /\ PendingIffExecuting(s)
  /\ SettledOnce(s)
  /\ IdsBelowSeq(s)
  /\ UniqueIntents(s)

LogInv ==
  /\ session \in recoverable
  /\ \A s \in recoverable : Sound(s) /\ s.entries \subseteq session.entries

HostInv ==
  /\ ~alive => phase = "none"
  /\ phase # "none" => inFlight # NoIntent /\ session.pending = inFlight
  /\ (phase # "none" /\ origin = "begin") => recoverable = {session}

RunsInv ==
  /\ NeverRunsTwice
  /\ (phase = "armed" /\ origin = "begin") => ran[inFlight] = 0
  /\ (phase = "armed" /\ origin = "resume") => Replayable(session, inFlight)

IInv == TypeOK /\ LogInv /\ HostInv /\ RunsInv

-----------------------------------------------------------------------------
(* What each commit does to a sound session *)

\* begin() adds one unsettled intent, with an id no entry has yet.
LEMMA BegunSound ==
  ASSUME TypeOK, Sound(session), CanBegin, NEW contract \in Contracts
  PROVE  /\ BegunSession(contract) \in Sessions
         /\ Sound(BegunSession(contract))
         /\ session.entries \subseteq BegunSession(contract).entries
<1> DEFINE e0 == [seq |-> session.seq + 1, kind |-> "intent",
                  of |-> session.seq, replay |-> contract]
           new == BegunSession(contract)
<1>1. /\ session.seq \in Ids /\ session.seq + 1 \in Ids
      /\ session.entries \subseteq Entries
  BY MaxSeqAssumption DEF TypeOK, Sessions, Ids, CanBegin
<1>2. e0 \in IntentEntries
  BY <1>1 DEF IntentEntries
<1>3. new \in Sessions
  BY <1>1, <1>2 DEF BegunSession, Sessions, Entries, Pcs
<1>4. /\ new.entries = session.entries \cup {e0}
      /\ new.pending = session.seq /\ new.pc = "Executing"
      /\ new.seq = session.seq + 1
  BY DEF BegunSession
<1>5. /\ Intents(new) = Intents(session) \cup {e0}
      /\ Settlements(new) = Settlements(session)
  BY <1>4 DEF Intents, Settlements
<1>6. \A e \in session.entries : e.of \in Ids /\ e.of < session.seq
  BY <1>1 DEF Sound, IdsBelowSeq, Entries, IntentEntries, SettlementEntries
<1>7. \A e \in session.entries : e.of # session.seq
  BY <1>1, <1>6 DEF Ids
<1>8. OneUnsettled(new)
  <2> SUFFICES ASSUME NEW i \in Ids
               PROVE  (HasIntent(new, i) /\ ~Settled(new, i)) <=> new.pending = i
    BY DEF OneUnsettled
  <2>1. CASE i = session.seq
    <3>1. HasIntent(new, i)
      <4>1. e0 \in Intents(new) /\ e0.of = i
        BY <1>5, <2>1
      <4> HIDE DEF e0
      <4> QED BY <4>1 DEF HasIntent
    <3>2. ~Settled(new, i)
      BY <1>5, <1>7, <2>1 DEF Settled, Settlements
    <3> QED BY <3>1, <3>2, <1>4, <2>1
  <2>2. CASE i # session.seq
    <3>1. HasIntent(new, i) <=> HasIntent(session, i)
      BY <1>5, <2>2 DEF HasIntent
    <3>2. Settled(new, i) <=> Settled(session, i)
      BY <1>5 DEF Settled
    <3>3. ~(HasIntent(session, i) /\ ~Settled(session, i))
      BY NoIntentAssumption DEF Sound, OneUnsettled, CanBegin, Ids
    <3> QED BY <3>1, <3>2, <3>3, <1>4, <2>2
  <2> QED BY <2>1, <2>2
<1>9. PendingIffExecuting(new)
  BY <1>1, <1>4, NoIntentAssumption, MaxSeqAssumption
  DEF PendingIffExecuting, Ids
<1>10. SettledOnce(new)
  BY <1>5 DEF Sound, SettledOnce, HasIntent
<1>11. IdsBelowSeq(new)
  <2> SUFFICES ASSUME NEW e \in new.entries PROVE e.of < new.seq
    BY DEF IdsBelowSeq
  <2>1. e.of \in Int /\ session.seq \in Int /\ e.of <= session.seq
    BY <1>1, <1>4, <1>6 DEF Ids
  <2> QED BY <2>1, <1>4
<1>12. UniqueIntents(new)
  BY <1>5, <1>7 DEF Sound, UniqueIntents, Intents
<1> QED BY <1>3, <1>4, <1>8, <1>9, <1>10, <1>11, <1>12 DEF Sound

\* A settlement closes the pending intent and opens none.
LEMMA SettledSound ==
  ASSUME TypeOK, Sound(session), NEW h \in handles, NEW ok \in BOOLEAN,
         CanSettle(h, ok)
  PROVE  /\ SettledSession(h, ok) \in Sessions
         /\ Sound(SettledSession(h, ok))
         /\ session.entries \subseteq SettledSession(h, ok).entries
<1> DEFINE e0 == [seq |-> session.seq + 1,
                  kind |-> IF ok THEN "tool_result" ELSE "error", of |-> h]
           new == SettledSession(h, ok)
<1>1. /\ session.seq \in Ids /\ session.seq + 1 \in Ids /\ h \in Ids
      /\ session.entries \subseteq Entries /\ session.pending = h
  BY MaxSeqAssumption DEF TypeOK, Sessions, Ids, CanSettle, VerifyPending
<1>2. e0 \in SettlementEntries /\ e0.kind # "intent" /\ e0.of = h
  BY <1>1 DEF SettlementEntries
<1>3. new \in Sessions
  BY <1>1, <1>2 DEF SettledSession, AfterSettlement, Sessions, Entries, Pcs
<1>4. /\ new.entries = session.entries \cup {e0}
      /\ new.pending = NoIntent /\ new.pc # "Executing"
      /\ new.seq = session.seq + 1
  BY DEF SettledSession, AfterSettlement
<1>5. /\ Intents(new) = Intents(session)
      /\ Settlements(new) = Settlements(session) \cup {e0}
  BY <1>2, <1>4 DEF Intents, Settlements
<1>6. HasIntent(session, h) /\ ~Settled(session, h)
  BY <1>1 DEF Sound, OneUnsettled
<1>7. OneUnsettled(new)
  <2> SUFFICES ASSUME NEW i \in Ids
               PROVE  ~(HasIntent(new, i) /\ ~Settled(new, i)) /\ new.pending # i
    BY DEF OneUnsettled
  <2>1. new.pending # i
    BY <1>4, NoIntentAssumption DEF Ids
  <2>2. CASE i = h
    BY <1>2, <1>5, <2>1, <2>2 DEF Settled
  <2>3. CASE i # h
    <3>1. ~(HasIntent(session, i) /\ ~Settled(session, i))
      BY <1>1, <2>3 DEF Sound, OneUnsettled
    <3> QED BY <3>1, <1>5, <2>1 DEF HasIntent, Settled
  <2> QED BY <2>2, <2>3
<1>8. PendingIffExecuting(new)
  BY <1>4 DEF PendingIffExecuting
<1>9. SettledOnce(new)
  BY <1>2, <1>5, <1>6 DEF Sound, SettledOnce, HasIntent, Settled
<1>10. IdsBelowSeq(new)
  <2> SUFFICES ASSUME NEW e \in new.entries PROVE e.of < new.seq
    BY DEF IdsBelowSeq
  <2>1. PICK f \in session.entries : f.of = h
    BY <1>6 DEF HasIntent, Intents
  <2>2. e.of \in Int /\ session.seq \in Int /\ e.of < session.seq
    BY <1>1, <1>2, <1>4, <2>1
    DEF Ids, Sound, IdsBelowSeq, Entries, IntentEntries, SettlementEntries
  <2> QED BY <2>2, <1>4
<1>11. UniqueIntents(new)
  BY <1>5 DEF Sound, UniqueIntents
<1> QED BY <1>3, <1>4, <1>7, <1>8, <1>9, <1>10, <1>11 DEF Sound

\* A commit outside a sandwich leaves entries and register alone.
LEMMA AdvancedSound ==
  ASSUME TypeOK, Sound(session), NEW pc \in Pcs, CanAdvance(pc)
  PROVE  /\ AdvancedSession(pc) \in Sessions
         /\ Sound(AdvancedSession(pc))
         /\ session.entries \subseteq AdvancedSession(pc).entries
<1> DEFINE new == AdvancedSession(pc)
<1>1. /\ new \in Sessions /\ new.pc = pc /\ new.entries = session.entries
      /\ new.pending = session.pending /\ new.seq = session.seq
  BY DEF TypeOK, Sessions, AdvancedSession
<1>2. /\ Intents(new) = Intents(session)
      /\ Settlements(new) = Settlements(session)
  BY <1>1 DEF Intents, Settlements
<1>3. OneUnsettled(new) /\ SettledOnce(new)
  BY <1>1, <1>2 DEF Sound, OneUnsettled, SettledOnce, HasIntent, Settled
<1>4. PendingIffExecuting(new)
  BY <1>1 DEF Sound, PendingIffExecuting, CanAdvance
<1> QED BY <1>1, <1>2, <1>3, <1>4 DEF Sound, IdsBelowSeq, UniqueIntents

\* A commit that extends the session keeps the log invariant, whether it is
\* synced, deferred or cut short.
LEMMA CommitKeepsLog ==
  ASSUME TypeOK, LogInv, NEW new \in Sessions, Sound(new),
         session.entries \subseteq new.entries, NEW deferred \in BOOLEAN,
         Committed(new, deferred) \/ CutShort(new)
  PROVE  /\ LogInv'
         /\ session' \in Sessions /\ recoverable' \subseteq Sessions
         /\ alive' \in BOOLEAN
<1>1. CASE Committed(new, deferred)
  BY <1>1 DEF Committed, LogInv, TypeOK
<1>2. CASE CutShort(new)
  BY <1>2 DEF CutShort, LogInv, TypeOK
<1> QED BY <1>1, <1>2

-----------------------------------------------------------------------------
(* The invariant *)

LEMMA InitIInv == Init => IInv
<1> SUFFICES ASSUME Init PROVE IInv
  OBVIOUS
<1>1. EmptySession \in Sessions
  BY MaxSeqAssumption DEF EmptySession, Sessions, Ids, Pcs
<1>2. Intents(EmptySession) = {} /\ Settlements(EmptySession) = {}
  BY DEF EmptySession, Intents, Settlements
<1>3. Sound(EmptySession)
  BY <1>2, NoIntentAssumption
  DEF EmptySession, Sound, OneUnsettled, PendingIffExecuting, SettledOnce,
      IdsBelowSeq, UniqueIntents, HasIntent, Ids
<1>4. TypeOK
  BY <1>1 DEF Init, TypeOK, Phases
<1> QED BY <1>2, <1>3, <1>4 DEF Init, IInv, LogInv, HostInv, RunsInv, NeverRunsTwice

\* A process that is gone holds no effect, and the runs it made stay within
\* the contracts of every session it can leave behind.
LEMMA HostLostKeepsInv ==
  ASSUME IInv, HostLost, LogInv', alive' \in BOOLEAN,
         session' \in Sessions, recoverable' \subseteq Sessions,
         ran' \in [Ids -> Nat],
         \A e \in Intents(session') : e.replay = "never" => ran'[e.of] <= 1
  PROVE  IInv'
BY DEF IInv, HostLost, TypeOK, HostInv, RunsInv, NeverRunsTwice, Phases

LEMMA BeginKeepsInv ==
  ASSUME IInv, NEW contract \in Contracts,
         Begin(contract) \/ BeginCutShort(contract)
  PROVE  IInv'
<1> DEFINE new == BegunSession(contract)
<1>1. TypeOK /\ Sound(session) /\ CanBegin /\ LogInv
  BY DEF IInv, LogInv, Begin, BeginCutShort
<1>2. new \in Sessions /\ Sound(new) /\ session.entries \subseteq new.entries
  BY <1>1, BegunSound
<1>3. /\ LogInv' /\ session' \in Sessions /\ recoverable' \subseteq Sessions
      /\ alive' \in BOOLEAN
  <2>1. Committed(new, FALSE) \/ CutShort(new)
    BY DEF Begin, BeginCutShort
  <2> QED BY <1>1, <1>2, <2>1, CommitKeepsLog
<1>4. session.seq \in Ids /\ session.seq # NoIntent /\ ran \in [Ids -> Nat]
  BY <1>1, NoIntentAssumption DEF TypeOK, Sessions, Ids
<1>5. ran' = [ran EXCEPT ![session.seq] = 0] /\ ran' \in [Ids -> Nat]
  <2>1. ran' = [ran EXCEPT ![session.seq] = 0]
    BY DEF Begin, BeginCutShort
  <2> QED BY <1>4, <2>1
<1>6. \A e \in Intents(new) : e.replay = "never" => ran'[e.of] <= 1
  <2> SUFFICES ASSUME NEW e \in Intents(new), e.replay = "never"
               PROVE  ran'[e.of] <= 1
    OBVIOUS
  <2>1. e \in Intents(session) \/ e.of = session.seq
    BY DEF BegunSession, Intents
  <2>2. CASE e.of = session.seq
    BY <2>2, <1>4, <1>5
  <2>3. CASE e \in Intents(session) /\ e.of # session.seq
    <3>1. ran[e.of] <= 1
      BY <2>3 DEF IInv, RunsInv, NeverRunsTwice
    <3>2. e.of \in Ids
      BY <2>3, <1>1
      DEF TypeOK, Sessions, Entries, IntentEntries, SettlementEntries, Intents
    <3> QED BY <3>1, <3>2, <2>3, <1>4, <1>5
  <2> QED BY <2>1, <2>2, <2>3
<1>7. CASE Begin(contract)
  <2>1. /\ session' = new /\ recoverable' = {new} /\ alive' = alive
        /\ handles' = handles \cup {session.seq}
        /\ inFlight' = session.seq /\ phase' = "armed" /\ origin' = "begin"
    BY <1>7 DEF Begin, Committed
  <2>2. TypeOK'
    BY <1>1, <1>3, <1>4, <1>5, <2>1 DEF TypeOK, Phases
  <2>3. new.pending = session.seq
    BY DEF BegunSession
  <2>4. HostInv'
    BY <1>1, <1>4, <2>1, <2>3 DEF HostInv, CanBegin
  <2>5. RunsInv'
    BY <1>4, <1>5, <1>6, <2>1 DEF RunsInv, NeverRunsTwice
  <2> QED BY <1>3, <2>2, <2>4, <2>5 DEF IInv
<1>8. CASE BeginCutShort(contract)
  <2>1. HostLost /\ session' \in {session, new}
    BY <1>8 DEF BeginCutShort, CutShort
  <2>2. Intents(session') \subseteq Intents(new)
    BY <1>2, <2>1 DEF Intents
  <2> QED BY <1>3, <1>5, <1>6, <2>1, <2>2, HostLostKeepsInv
<1> QED BY <1>7, <1>8

\* A run of a `never` effect is its first: resume() does not arm it.
LEMMA RunKeepsInv == ASSUME IInv, RunEffect PROVE IInv'
<1>1. /\ inFlight \in Ids /\ ran \in [Ids -> Nat]
      /\ session.pending = inFlight /\ phase = "armed" /\ session \in recoverable
  BY DEF IInv, TypeOK, HostInv, LogInv, RunEffect
<1>2. ran' = [ran EXCEPT ![inFlight] = ran[inFlight] + 1]
  BY DEF RunEffect
<1>3. TypeOK' /\ LogInv' /\ HostInv'
  BY <1>1, <1>2 DEF IInv, RunEffect, TypeOK, LogInv, HostInv, Phases
<1>4. NeverRunsTwice'
  <2> SUFFICES ASSUME NEW e \in Intents(session), e.replay = "never"
               PROVE  ran'[e.of] <= 1
    BY DEF NeverRunsTwice, RunEffect
  <2>1. e.of \in Ids /\ ran[e.of] <= 1
    BY DEF IInv, TypeOK, RunsInv, NeverRunsTwice, Sessions, Entries,
           IntentEntries, SettlementEntries, Intents
  <2>2. CASE e.of # inFlight
    BY <1>1, <1>2, <2>1, <2>2
  <2>3. CASE e.of = inFlight
    <3>1. ~Replayable(session, inFlight)
      BY <1>1, <2>3 DEF IInv, LogInv, Sound, UniqueIntents, Replayable
    <3>2. ran[inFlight] = 0
      BY <1>1, <3>1 DEF IInv, RunsInv, TypeOK
    <3> QED BY <1>1, <1>2, <2>3, <3>2
  <2> QED BY <2>2, <2>3
<1>5. RunsInv'
  BY <1>4 DEF RunsInv, RunEffect
<1> QED BY <1>3, <1>5 DEF IInv

LEMMA SettleKeepsInv ==
  ASSUME IInv, NEW h \in handles, NEW ok \in BOOLEAN, NEW deferred \in BOOLEAN,
         Settle(h, ok, deferred) \/ SettleCutShort(h, ok)
  PROVE  IInv'
<1> DEFINE new == SettledSession(h, ok)
<1>1. TypeOK /\ Sound(session) /\ CanSettle(h, ok) /\ LogInv
  BY DEF IInv, LogInv, Settle, SettleCutShort
<1>2. new \in Sessions /\ Sound(new) /\ session.entries \subseteq new.entries
  BY <1>1, SettledSound
<1>3. /\ LogInv' /\ session' \in Sessions /\ recoverable' \subseteq Sessions
      /\ alive' \in BOOLEAN
  <2>1. Committed(new, deferred) \/ CutShort(new)
    BY DEF Settle, SettleCutShort
  <2> QED BY <1>1, <1>2, <2>1, CommitKeepsLog
<1>4. ran' = ran /\ ran' \in [Ids -> Nat]
  BY <1>1 DEF Settle, SettleCutShort, TypeOK
<1>5. Intents(new) = Intents(session)
  BY DEF SettledSession, Intents
<1>6. Intents(session') = Intents(session)
  BY <1>5 DEF Settle, SettleCutShort, Committed, CutShort
<1>7. \A e \in Intents(session') : e.replay = "never" => ran'[e.of] <= 1
  BY <1>4, <1>6 DEF IInv, RunsInv, NeverRunsTwice
<1>8. CASE Settle(h, ok, deferred)
  <2>1. /\ handles' = handles /\ inFlight' = NoIntent /\ phase' = "none"
        /\ origin' = origin
    BY <1>8 DEF Settle
  <2>2. TypeOK'
    BY <1>1, <1>3, <1>4, <2>1 DEF TypeOK, Phases
  <2> QED BY <1>3, <1>7, <2>1, <2>2 DEF IInv, HostInv, RunsInv, NeverRunsTwice
<1>9. CASE SettleCutShort(h, ok)
  <2>1. HostLost
    BY <1>9 DEF SettleCutShort
  <2> QED BY <1>3, <1>4, <1>7, <2>1, HostLostKeepsInv
<1> QED BY <1>8, <1>9

\* Outside a sandwich the register is clear, so no effect is in flight.
LEMMA AdvanceKeepsInv ==
  ASSUME IInv, NEW pc \in Pcs, Advance(pc) \/ AdvanceCutShort(pc)
  PROVE  IInv'
<1> DEFINE new == AdvancedSession(pc)
<1>1. TypeOK /\ Sound(session) /\ CanAdvance(pc) /\ LogInv
  BY DEF IInv, LogInv, Advance, AdvanceCutShort
<1>2. new \in Sessions /\ Sound(new) /\ session.entries \subseteq new.entries
  BY <1>1, AdvancedSound
<1>3. /\ LogInv' /\ session' \in Sessions /\ recoverable' \subseteq Sessions
      /\ alive' \in BOOLEAN
  <2>1. Committed(new, pc = "ToolCall") \/ CutShort(new)
    BY DEF Advance, AdvanceCutShort
  <2> QED BY <1>1, <1>2, <2>1, CommitKeepsLog
<1>4. ran' = ran /\ ran' \in [Ids -> Nat]
  BY <1>1 DEF Advance, AdvanceCutShort, TypeOK
<1>5. Intents(session') = Intents(session)
  BY <1>1 DEF Advance, AdvanceCutShort, Committed, CutShort, AdvancedSession,
              Intents, TypeOK, Sessions
<1>6. \A e \in Intents(session') : e.replay = "never" => ran'[e.of] <= 1
  BY <1>4, <1>5 DEF IInv, RunsInv, NeverRunsTwice
<1>7. CASE Advance(pc)
  <2>1. phase = "none"
    BY <1>1 DEF IInv, HostInv, Sound, PendingIffExecuting, CanAdvance
  <2>2. /\ handles' = handles /\ inFlight' = inFlight /\ phase' = phase
        /\ origin' = origin
    BY <1>7 DEF Advance, host
  <2>3. TypeOK'
    BY <1>1, <1>3, <1>4, <2>2 DEF TypeOK
  <2> QED BY <1>3, <1>6, <2>1, <2>2, <2>3 DEF IInv, HostInv, RunsInv, NeverRunsTwice
<1>8. CASE AdvanceCutShort(pc)
  <2>1. HostLost
    BY <1>8 DEF AdvanceCutShort
  <2> QED BY <1>3, <1>4, <1>6, <2>1, HostLostKeepsInv
<1> QED BY <1>7, <1>8

LEMMA CrashKeepsInv == ASSUME IInv, Kill \/ PowerCut PROVE IInv'
<1>1. /\ LogInv' /\ session' \in Sessions /\ recoverable' \subseteq Sessions
      /\ alive' \in BOOLEAN
  BY DEF IInv, TypeOK, LogInv, Kill, PowerCut
<1>2. HostLost /\ ran' = ran /\ ran \in [Ids -> Nat]
  BY DEF IInv, TypeOK, Kill, PowerCut
<1>3. Intents(session') \subseteq Intents(session)
  BY DEF IInv, LogInv, Kill, PowerCut, Intents
<1>4. \A e \in Intents(session') : e.replay = "never" => ran'[e.of] <= 1
  BY <1>2, <1>3 DEF IInv, RunsInv, NeverRunsTwice
<1> QED BY <1>1, <1>2, <1>4, HostLostKeepsInv

LEMMA ReopenKeepsInv == ASSUME IInv, Reopen PROVE IInv'
<1>1. TypeOK'
  BY DEF IInv, TypeOK, Reopen, Phases, Sessions
<1>2. LogInv'
  BY DEF IInv, LogInv, Reopen
<1>3. HostInv'
  BY DEF HostInv, Reopen
<1>4. RunsInv'
  BY DEF IInv, RunsInv, NeverRunsTwice, Reopen, Replayable
<1> QED BY <1>1, <1>2, <1>3, <1>4 DEF IInv

\* Each action of the specification keeps the invariant.
LEMMA NextKeepsIInv == IInv /\ [Next]_vars => IInv'
<1> SUFFICES ASSUME IInv, [Next]_vars PROVE IInv'
  OBVIOUS
<1>1. CASE \E contract \in Contracts : Begin(contract) \/ BeginCutShort(contract)
  BY <1>1, BeginKeepsInv
<1>2. CASE RunEffect
  BY <1>2, RunKeepsInv
<1>3. CASE SettleAny
  BY <1>3, SettleKeepsInv DEF SettleAny
<1>4. CASE \E h \in handles, ok \in BOOLEAN : SettleCutShort(h, ok)
  BY <1>4, SettleKeepsInv
<1>5. CASE \E pc \in Pcs : Advance(pc) \/ AdvanceCutShort(pc)
  BY <1>5, AdvanceKeepsInv
<1>6. CASE Kill \/ PowerCut
  BY <1>6, CrashKeepsInv
<1>7. CASE Reopen
  BY <1>7, ReopenKeepsInv
<1>8. CASE UNCHANGED vars
  BY <1>8 DEF vars, host, IInv, TypeOK, LogInv, HostInv, RunsInv, NeverRunsTwice,
     Sound, OneUnsettled, PendingIffExecuting, SettledOnce, IdsBelowSeq,
     UniqueIntents, HasIntent, Settled, Intents, Settlements, Replayable
<1> QED BY <1>1, <1>2, <1>3, <1>4, <1>5, <1>6, <1>7, <1>8 DEF Next

THEOREM Invariance == Spec => []IInv
<1>1. Init => IInv
  BY InitIInv
<1>2. IInv /\ [Next]_vars => IInv'
  BY NextKeepsIInv
<1> QED BY <1>1, <1>2, PTL DEF Spec

-----------------------------------------------------------------------------
(* The properties *)

\* The variables keep their types.
THEOREM TypeCorrect == Spec => []TypeOK
<1>1. IInv => TypeOK
  BY DEF IInv
<1> QED BY <1>1, Invariance, PTL

\* machine.rs, begin() and settle_*(): wherever a crash cuts the log, at most
\* one intent is unsettled, the register names it, and every other intent has
\* exactly one settlement.
THEOREM CrashPointsRecover == Spec => []EveryCrashPointRecovers
<1>1. IInv => EveryCrashPointRecovers
  BY DEF IInv, LogInv, Sound, EveryCrashPointRecovers
<1> QED BY <1>1, Invariance, PTL

\* machine.rs, resume(): a `never` effect is not run again by any sequence of
\* crashes and reopenings.
THEOREM NeverMeansOnce == Spec => []NeverRunsTwice
<1>1. IInv => NeverRunsTwice
  BY DEF IInv, RunsInv
<1> QED BY <1>1, Invariance, PTL

\* machine.rs, begin(): the commit that arms an effect is durable.
THEOREM BeginIsDurable == Spec => []BegunIsDurable
<1>1. IInv => BegunIsDurable
  BY DEF IInv, HostInv, BegunIsDurable
<1> QED BY <1>1, Invariance, PTL

\* machine.rs, settle_*() and resume(): no step runs the effect of an intent
\* that the session has settled.
THEOREM SettledIsFinal == Spec => SettledNeverReruns
<1> DEFINE Bar == \A i \in Ids : ran'[i] > ran[i] => ~Settled(session, i)
<1>1. IInv /\ [Next]_vars => [Bar]_vars
  <2> SUFFICES ASSUME IInv, Next, NEW i \in Ids, ran'[i] > ran[i]
               PROVE  ~Settled(session, i)
    BY DEF vars
  <2>1. ran \in [Ids -> Nat] /\ session \in Sessions
    BY DEF IInv, TypeOK
  <2>2. CASE RunEffect
    <3>1. i = inFlight
      BY <2>1, <2>2 DEF RunEffect, IInv, TypeOK
    <3>2. session.pending = i /\ Sound(session)
      BY <2>2, <3>1 DEF IInv, HostInv, LogInv, RunEffect
    <3> QED BY <3>2 DEF Sound, OneUnsettled
  <2>3. CASE \E contract \in Contracts : Begin(contract) \/ BeginCutShort(contract)
    <3>1. ran' = [ran EXCEPT ![session.seq] = 0]
      BY <2>3 DEF Begin, BeginCutShort
    <3>2. ran[i] \in Nat /\ (ran'[i] = ran[i] \/ ran'[i] = 0)
      BY <2>1, <3>1 DEF Sessions
    <3> QED BY <3>2
  <2>4. CASE ran' = ran
    BY <2>1, <2>4
  <2>5. RunEffect \/ ran' = ran
        \/ \E contract \in Contracts : Begin(contract) \/ BeginCutShort(contract)
    BY DEF Next, SettleAny, Settle, SettleCutShort, Advance, AdvanceCutShort,
           Kill, PowerCut, Reopen
  <2> QED BY <2>2, <2>3, <2>4, <2>5
<1> QED BY <1>1, Invariance, PTL DEF Spec, SettledNeverReruns

=============================================================================
