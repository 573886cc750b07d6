---------------------------- MODULE RecordsProofs ----------------------------
(***************************************************************************)
(* Proofs about the parts of MCRecords.  The ids (SessionFork): for every  *)
(* set of sessions and every bound on their sequence numbers.  The view    *)
(* (Compaction), the reports (Reports) and the messages of a request       *)
(* (Transcript): for logs of every length.  The index (SessionIndex): for  *)
(* every number of projects and sessions.  The edits (FileTools): for all  *)
(* workers and processes.                                                  *)
(*                                                                         *)
(* What the runs check of these parts is not inductive; the invariants     *)
(* that are stand before the lemmas that use them.                         *)
(***************************************************************************)
EXTENDS MCRecords, FiniteSetTheorems, SequenceTheorems, WellFoundedInduction, TLAPS

-----------------------------------------------------------------------------
(* The ids and the forks *)

(***************************************************************************)
(* The inductive invariant.  An entry that a session has named itself has  *)
(* a number that the session has passed; a fork and its source agree on    *)
(* the entries up to the cut, which both have.                             *)
(***************************************************************************)
Passed(id, seq) ==
  /\ id.space = "e" => id.n <= seq
  /\ id.space = "intent" => id.n < seq

NumbersInv ==
  \A n \in Existing : sessions[n].from = Absent =>
    \A i \in DOMAIN sessions[n].entries :
      Passed(sessions[n].entries[i].id, sessions[n].seq)

Agree(s, t, k) ==
  /\ k <= Len(s.entries)
  /\ k <= Len(t.entries)
  /\ \A i \in 1 .. k : s.entries[i] = t.entries[i]

LineageInv ==
  \A n \in Existing : sessions[n].from # Absent =>
    /\ sessions[n].from \in Existing
    /\ Agree(sessions[n], sessions[sessions[n].from], sessions[n].cut)

IInv == TypeOK /\ NumbersInv /\ LineageInv

LEMMA ExistingTyped ==
  ASSUME TypeOK, NEW n \in Existing
  PROVE  n \in Names /\ sessions[n] \in SessionRecords
BY DEF TypeOK, Existing

LEMMA InitIInv == Init => IInv
<1> SUFFICES ASSUME Init PROVE IInv
  OBVIOUS
<1>1. Existing = {}
  BY DEF Init, Existing
<1>2. TypeOK
  BY DEF Init, TypeOK
<1> QED
  BY <1>1, <1>2 DEF IInv, NumbersInv, LineageInv

-----------------------------------------------------------------------------
(* Commits: entries are only ever appended *)

\* A step that changes one session, keeps its origin and extends its entries
\* keeps every lineage.
LEMMA GrowthKeepsLineage ==
  ASSUME TypeOK, TypeOK', LineageInv,
         NEW n \in Existing,
         \A m \in Names \ {n} : sessions'[m] = sessions[m],
         sessions'[n].from = sessions[n].from,
         sessions'[n].cut = sessions[n].cut,
         sessions'[n] # Absent,
         Len(sessions[n].entries) <= Len(sessions'[n].entries),
         \A i \in DOMAIN sessions[n].entries :
           sessions'[n].entries[i] = sessions[n].entries[i]
  PROVE  LineageInv'
<1>1. Existing' = Existing
  BY DEF Existing
<1>2. ASSUME NEW m \in Existing
      PROVE  /\ sessions'[m].from = sessions[m].from
             /\ sessions'[m].cut = sessions[m].cut
             /\ Len(sessions[m].entries) \in Nat
             /\ Len(sessions'[m].entries) \in Nat
             /\ Len(sessions[m].entries) <= Len(sessions'[m].entries)
             /\ \A i \in 1 .. Len(sessions[m].entries) :
                  sessions'[m].entries[i] = sessions[m].entries[i]
  <2>1. /\ sessions[m] \in SessionRecords
        /\ sessions'[m] \in SessionRecords
        /\ m \in Names
    BY <1>1, ExistingTyped DEF TypeOK, Existing
  <2> QED
    BY <2>1 DEF SessionRecords
<1>3. SUFFICES ASSUME NEW m \in Existing, sessions[m].from # Absent
               PROVE  Agree(sessions'[m], sessions'[sessions[m].from], sessions[m].cut)
  BY <1>1, <1>2 DEF LineageInv
<1> DEFINE f == sessions[m].from
           k == sessions[m].cut
<1>4. /\ f \in Existing
      /\ Agree(sessions[m], sessions[f], k)
  BY <1>3 DEF LineageInv
<1>5. k \in Nat
  BY ExistingTyped DEF SessionRecords
<1> HIDE DEF f, k
<1>6. k <= Len(sessions'[m].entries) /\ k <= Len(sessions'[f].entries)
  BY SMTT(30), <1>2, <1>4, <1>5 DEF Agree
<1>7. ASSUME NEW i \in 1 .. k
      PROVE  sessions'[m].entries[i] = sessions'[f].entries[i]
  <2>1. i \in 1 .. Len(sessions[m].entries) /\ i \in 1 .. Len(sessions[f].entries)
    BY <1>2, <1>4, <1>5 DEF Agree
  <2> QED
    BY <1>2, <1>4, <2>1 DEF Agree
<1> QED
  BY <1>6, <1>7 DEF Agree, f, k

LEMMA CommitKeepsInv ==
  ASSUME IInv, NEW n \in Existing, NEW kind \in EntryKinds, NEW id, NEW extra \in Nat,
         NEW pc \in Pcs, Commit(n, kind, id, extra, pc),
         \/ id = AutoId(sessions[n].seq + 1)
         \/ id = IntentId(sessions[n].seq) /\ extra >= 1
  PROVE  IInv'
<1> DEFINE s == sessions[n]
           e == [id |-> id, kind |-> kind]
           t == [s EXCEPT !.pc = pc, !.seq = @ + 1 + extra, !.entries = Append(@, e)]
<1>1. n \in Names /\ s \in SessionRecords
  BY ExistingTyped DEF IInv
<1>2. /\ s.seq \in 0 .. MaxSeq
      /\ s.entries \in Seq(EntryRecords)
      /\ s.seq + 1 + extra <= MaxSeq
  BY <1>1 DEF SessionRecords, Commit
<1>3. id \in IdRecords /\ Passed(id, s.seq + 1 + extra)
  BY <1>2, MaxSeqAssumption DEF IdRecords, AutoId, IntentId, Passed
<1>4. e \in EntryRecords
  BY <1>3 DEF EntryRecords
<1>5. Append(s.entries, e) \in Seq(EntryRecords)
  BY <1>2, <1>4
<1>6. t \in SessionRecords
  <2>1. [s EXCEPT !.pc = pc] \in SessionRecords
    BY <1>1 DEF SessionRecords
  <2>2. s.seq + 1 + extra \in 0 .. MaxSeq
    BY <1>2, MaxSeqAssumption
  <2>3. ASSUME NEW r \in SessionRecords, NEW q \in 0 .. MaxSeq
        PROVE  [r EXCEPT !.seq = q] \in SessionRecords
    BY DEF SessionRecords
  <2>4. ASSUME NEW r \in SessionRecords, NEW es \in Seq(EntryRecords)
        PROVE  [r EXCEPT !.entries = es] \in SessionRecords
    BY DEF SessionRecords
  <2> QED
    BY <1>5, <2>1, <2>2, <2>3, <2>4, Zenon
<1>7. sessions' = [sessions EXCEPT ![n] = t]
  BY DEF Commit
<1>8. sessions'[n] = t /\ \A m \in Names \ {n} : sessions'[m] = sessions[m]
  BY <1>1, <1>7 DEF IInv, TypeOK
<1>9. TypeOK'
  BY <1>6, <1>7 DEF IInv, TypeOK
<1>10. /\ t.from = s.from /\ t.cut = s.cut /\ t.seq = s.seq + 1 + extra
       /\ t.entries = Append(s.entries, e)
  BY <1>1 DEF SessionRecords
<1>11. /\ Len(s.entries) \in Nat
       /\ Len(t.entries) = Len(s.entries) + 1
       /\ DOMAIN s.entries = 1 .. Len(s.entries)
       /\ DOMAIN t.entries = 1 .. Len(s.entries) + 1
       /\ \A i \in DOMAIN s.entries : t.entries[i] = s.entries[i]
       /\ t.entries[Len(s.entries) + 1] = e
  BY <1>2, <1>4, <1>10
<1>12. NumbersInv'
  <2> SUFFICES ASSUME NEW m \in Existing', sessions'[m].from = Absent,
                      NEW i \in DOMAIN sessions'[m].entries
               PROVE  Passed(sessions'[m].entries[i].id, sessions'[m].seq)
    BY DEF NumbersInv
  <2>1. CASE m # n
    <3>1. m \in Existing /\ sessions'[m] = sessions[m]
      BY <1>8, <2>1 DEF Existing
    <3> QED
      BY <3>1 DEF IInv, NumbersInv
  <2>2. CASE m = n /\ i \in DOMAIN s.entries
    <3>1. Passed(s.entries[i].id, s.seq)
      BY <1>8, <1>10, <2>2 DEF IInv, NumbersInv
    <3>2. s.entries[i] \in EntryRecords
      BY <1>2, <2>2
    <3>3. s.entries[i].id.n \in 0 .. MaxSeq
      BY <3>2 DEF EntryRecords, IdRecords
    <3>4. Passed(s.entries[i].id, s.seq + 1 + extra)
      BY SMTT(30), <1>2, <3>1, <3>3, MaxSeqAssumption DEF Passed
    <3>5. t.entries[i] = s.entries[i]
      BY <1>11, <2>2
    <3> HIDE DEF s, t
    <3> QED
      BY <1>8, <1>10, <2>2, <3>4, <3>5
  <2>3. CASE m = n /\ i \notin DOMAIN s.entries
    <3>1. i = Len(s.entries) + 1
      <4> HIDE DEF s, t
      <4> QED
        BY <1>8, <1>11, <2>3
    <3>2. t.entries[i].id = id
      BY <1>11, <3>1
    <3> HIDE DEF s, t
    <3> QED
      BY <1>3, <1>8, <1>10, <2>3, <3>2
  <2> QED
    BY <2>1, <2>2, <2>3
<1>13. t # Absent
  BY <1>6, AbsentIsNoSession
<1>14. Len(s.entries) <= Len(t.entries)
  BY <1>11
<1>15. LineageInv'
  BY <1>8, <1>9, <1>10, <1>11, <1>13, <1>14, GrowthKeepsLineage DEF IInv
<1> QED
  BY <1>9, <1>12, <1>15 DEF IInv

LEMMA RecordKeepsInv ==
  ASSUME IInv, NEW n \in Existing, NEW pc \in Pcs, CommitRecord(n, pc)
  PROVE  IInv'
<1> DEFINE s == sessions[n]
           t == [s EXCEPT !.pc = pc, !.seq = @ + 1]
<1>1. n \in Names /\ s \in SessionRecords
  BY ExistingTyped DEF IInv
<1>2. /\ s.seq \in 0 .. MaxSeq /\ s.seq + 1 \in 0 .. MaxSeq
      /\ s.entries \in Seq(EntryRecords)
  BY <1>1, MaxSeqAssumption DEF SessionRecords, CommitRecord
<1>3. t \in SessionRecords
  <2>1. [s EXCEPT !.pc = pc] \in SessionRecords
    BY <1>1 DEF SessionRecords
  <2>2. ASSUME NEW r \in SessionRecords, NEW q \in 0 .. MaxSeq
        PROVE  [r EXCEPT !.seq = q] \in SessionRecords
    BY DEF SessionRecords
  <2> QED
    BY <1>2, <2>1, <2>2, Zenon
<1>4. sessions' = [sessions EXCEPT ![n] = t]
  BY DEF CommitRecord
<1>5. sessions'[n] = t /\ \A m \in Names \ {n} : sessions'[m] = sessions[m]
  BY <1>1, <1>4 DEF IInv, TypeOK
<1>6. TypeOK'
  BY <1>3, <1>4 DEF IInv, TypeOK
<1>7. /\ t.from = s.from /\ t.cut = s.cut /\ t.seq = s.seq + 1
      /\ t.entries = s.entries
  BY <1>1 DEF SessionRecords
<1>8. t # Absent
  BY <1>3, AbsentIsNoSession
<1>9. NumbersInv'
  <2> SUFFICES ASSUME NEW m \in Existing', sessions'[m].from = Absent,
                      NEW i \in DOMAIN sessions'[m].entries
               PROVE  Passed(sessions'[m].entries[i].id, sessions'[m].seq)
    BY DEF NumbersInv
  <2>1. CASE m # n
    <3>1. m \in Existing /\ sessions'[m] = sessions[m]
      BY <1>5, <2>1 DEF Existing
    <3> QED
      BY <3>1 DEF IInv, NumbersInv
  <2>2. CASE m = n
    <3>1. i \in DOMAIN s.entries /\ Passed(s.entries[i].id, s.seq)
      BY <1>5, <1>7, <2>2 DEF IInv, NumbersInv
    <3>2. s.entries[i] \in EntryRecords
      BY <1>2, <3>1
    <3>3. s.entries[i].id.n \in 0 .. MaxSeq
      BY <3>2 DEF EntryRecords, IdRecords
    <3>4. Passed(s.entries[i].id, s.seq + 1)
      BY <1>2, <3>1, <3>3, MaxSeqAssumption DEF Passed
    <3> HIDE DEF s, t
    <3> QED
      BY <1>5, <1>7, <2>2, <3>4
  <2> QED
    BY <2>1, <2>2
<1>10. Len(s.entries) \in Nat
  BY <1>2
<1>11. LineageInv'
  <2> HIDE DEF t
  <2> QED
    BY <1>5, <1>6, <1>7, <1>8, <1>10, GrowthKeepsLineage DEF IInv
<1> QED
  BY <1>6, <1>9, <1>11 DEF IInv

-----------------------------------------------------------------------------
(* New sessions *)

LEMMA CreateKeepsInv ==
  ASSUME IInv, NEW n \in Names, Create(n)
  PROVE  IInv'
<1>1. NewSession \in SessionRecords
  BY MaxSeqAssumption DEF NewSession, SessionRecords, Pcs
<1>2. TypeOK'
  BY <1>1 DEF IInv, TypeOK, Create
<1>3. sessions'[n] = NewSession /\ \A m \in Names \ {n} : sessions'[m] = Absent
  BY DEF IInv, TypeOK, Create, Existing
<1>4. \A m \in Existing' : sessions'[m] = NewSession
  BY <1>3 DEF Existing
<1>5. NewSession.from = Absent /\ DOMAIN NewSession.entries = {}
  BY DEF NewSession
<1> QED
  BY <1>2, <1>4, <1>5 DEF IInv, NumbersInv, LineageInv

\* A fork does not touch its source; its own numbers are free to meet the
\* ids that it copied, which is why NumbersInv leaves forks out.
LEMMA ForkKeepsInv ==
  ASSUME IInv, NEW n \in Existing, NEW m \in Names,
         NEW k \in DOMAIN sessions[n].entries, Fork(n, m, k)
  PROVE  IInv'
<1> DEFINE s == sessions[n]
           t == [pc |-> "Final", seq |-> k + 2, entries |-> Lineage(s, k),
                 from |-> n, cut |-> k]
<1>1. n \in Names /\ s \in SessionRecords /\ m \notin Existing /\ m # n
  BY ExistingTyped DEF IInv, Fork, Existing
<1>2. s.entries \in Seq(EntryRecords)
  BY <1>1 DEF SessionRecords
<1>3. k \in 1 .. Len(s.entries) /\ Len(s.entries) \in Nat
  BY <1>2
<1>4. /\ Lineage(s, k) \in Seq(EntryRecords)
      /\ Len(Lineage(s, k)) = k
      /\ \A i \in 1 .. k : Lineage(s, k)[i] = s.entries[i]
  BY <1>2, <1>3 DEF Lineage
<1>5. k + 2 \in 0 .. MaxSeq
  BY <1>3, MaxSeqAssumption DEF Fork
<1>6. t \in SessionRecords
  BY <1>1, <1>3, <1>4, <1>5 DEF SessionRecords, Pcs
<1>7. sessions' = [sessions EXCEPT ![m] = t]
  BY DEF Fork
<1>8. TypeOK'
  BY <1>6, <1>7 DEF IInv, TypeOK
<1>9. sessions'[m] = t /\ \A o \in Names \ {m} : sessions'[o] = sessions[o]
  BY <1>7 DEF IInv, TypeOK
<1>10. t # Absent /\ n # Absent
  BY <1>1, <1>6, AbsentAssumption, AbsentIsNoSession
<1>11. Existing' = Existing \cup {m}
  BY <1>9, <1>10 DEF Existing
<1>12. NumbersInv'
  <2> SUFFICES ASSUME NEW o \in Existing', sessions'[o].from = Absent
               PROVE  \A i \in DOMAIN sessions'[o].entries :
                        Passed(sessions'[o].entries[i].id, sessions'[o].seq)
    BY DEF NumbersInv
  <2>1. o # m
    BY <1>9, <1>10
  <2>2. o \in Existing /\ sessions'[o] = sessions[o]
    BY <1>9, <1>11, <2>1 DEF Existing
  <2> QED
    BY <2>2 DEF IInv, NumbersInv
<1>13. LineageInv'
  <2> SUFFICES ASSUME NEW o \in Existing', sessions'[o].from # Absent
               PROVE  /\ sessions'[o].from \in Existing'
                      /\ Agree(sessions'[o], sessions'[sessions'[o].from], sessions'[o].cut)
    BY DEF LineageInv
  <2>1. CASE o = m
    <3>1. Agree(t, s, k)
      BY <1>3, <1>4 DEF Agree
    <3>2. t.from = n /\ t.cut = k
      OBVIOUS
    <3> HIDE DEF t
    <3> QED
      BY <1>1, <1>9, <1>11, <2>1, <3>1, <3>2
  <2>2. CASE o # m
    <3>1. o \in Existing /\ sessions'[o] = sessions[o]
      BY <1>9, <1>11, <2>2 DEF Existing
    <3>2. /\ sessions[o].from \in Existing
          /\ Agree(sessions[o], sessions[sessions[o].from], sessions[o].cut)
      BY <2>2, <3>1 DEF IInv, LineageInv
    <3>3. sessions'[sessions[o].from] = sessions[sessions[o].from]
      BY <1>1, <1>9, <3>2 DEF Existing
    <3> QED
      BY <1>11, <3>1, <3>2, <3>3
  <2> QED
    BY <2>1, <2>2
<1> QED
  BY <1>8, <1>12, <1>13 DEF IInv

-----------------------------------------------------------------------------
(* The theorems *)

LEMMA NextKeepsIInv == IInv /\ [Next]_vars => IInv'
<1> SUFFICES ASSUME IInv, [Next]_vars PROVE IInv'
  OBVIOUS
<1> USE DEF EntryKinds, Pcs
<1>1. ASSUME NEW n \in Names, Create(n) PROVE IInv'
  BY <1>1, CreateKeepsInv
<1>2. ASSUME NEW n \in Names, Prompt(n) PROVE IInv'
  <2>1. n \in Existing
    BY <1>2 DEF Prompt, At, Existing
  <2>2. Commit(n, "user", AutoId(sessions[n].seq + 1), 1, "Planning")
    BY <1>2 DEF Prompt, NextId
  <2> QED
    BY <2>1, <2>2, CommitKeepsInv
<1>3. ASSUME NEW n \in Names, Error(n) PROVE IInv'
  <2>1. n \in Existing
    BY <1>3 DEF Error, At, Existing
  <2>2. Commit(n, "error", AutoId(sessions[n].seq + 1), 0, "Planning")
    BY <1>3 DEF Error, NextId
  <2> QED
    BY <2>1, <2>2, CommitKeepsInv
<1>4. ASSUME NEW n \in Names, Answer(n) PROVE IInv'
  <2>1. n \in Existing
    BY <1>4 DEF Answer, At, Existing
  <2>2. Commit(n, "answer", AutoId(sessions[n].seq + 1), 1, "Final")
    BY <1>4 DEF Answer, NextId
  <2> QED
    BY <2>1, <2>2, CommitKeepsInv
<1>5. ASSUME NEW n \in Names, Begin(n) PROVE IInv'
  <2>1. n \in Existing
    BY <1>5 DEF Begin, At, Existing
  <2>2. Commit(n, "intent", IntentId(sessions[n].seq), 2, "Executing")
    BY <1>5 DEF Begin
  <2> QED
    BY <2>1, <2>2, CommitKeepsInv
<1>6. ASSUME NEW n \in Names, Settle(n) PROVE IInv'
  <2>1. n \in Existing
    BY <1>6 DEF Settle, At, Existing
  <2>2. PICK pc \in {"Settling", "Planning"} :
          Commit(n, "result", AutoId(sessions[n].seq + 1), 2, pc)
    BY <1>6 DEF Settle, NextId
  <2> QED
    BY <2>1, <2>2, CommitKeepsInv
<1>7. ASSUME NEW n \in Names, Record(n) PROVE IInv'
  <2>1. n \in Existing
    BY <1>7 DEF Record, At, Existing
  <2>2. sessions[n].pc \in Pcs
    BY <2>1, ExistingTyped DEF IInv, SessionRecords
  <2>3. PICK pc \in Pcs : CommitRecord(n, pc)
    BY <1>7, <2>2 DEF Record
  <2> QED
    BY <2>1, <2>3, RecordKeepsInv
<1>8. ASSUME NEW n \in Names, Compact(n) PROVE IInv'
  <2>1. n \in Existing
    BY <1>8 DEF Compact, Existing
  <2>2. sessions[n].pc \in Pcs /\ CommitRecord(n, sessions[n].pc)
    BY <1>8, <2>1, ExistingTyped DEF IInv, SessionRecords, Compact
  <2> QED
    BY <2>1, <2>2, RecordKeepsInv
<1>9. ASSUME NEW n \in Existing, NEW m \in Names,
             NEW k \in DOMAIN sessions[n].entries, Fork(n, m, k)
      PROVE  IInv'
  BY <1>9, ForkKeepsInv
<1>10. CASE UNCHANGED vars
  BY <1>10 DEF vars, IInv, TypeOK, NumbersInv, LineageInv, Existing
<1> QED
  BY <1>1, <1>2, <1>3, <1>4, <1>5, <1>6, <1>7, <1>8, <1>9, <1>10 DEF Next

\* The inductive invariant holds in every state: sessions number their own
\* entries upwards, and forks agree with their sources (storage.rs).
THEOREM Invariance == Spec => []IInv
<1>1. Init => IInv
  BY InitIInv
<1>2. IInv /\ [Next]_vars => IInv'
  BY NextKeepsIInv
<1> QED
  BY <1>1, <1>2, PTL DEF Spec

\* Every session has its type, and its numbers stay within the bound.
THEOREM TypeCorrect == Spec => []TypeOK
<1>1. IInv => TypeOK
  BY DEF IInv
<1> QED
  BY <1>1, Invariance, PTL

\* No commit of a session that is not a fork is ever refused for its id
\* (machine.rs:127-128, storage.rs:1150-1153).
THEOREM OwnIdsAreFresh == Spec => []OwnIdsStayFresh
<1>1. IInv => OwnIdsStayFresh
  <2> SUFFICES ASSUME IInv, NEW n \in Existing, sessions[n].from = Absent
               PROVE  IdsFresh(sessions[n])
    BY DEF OwnIdsStayFresh
  <2> DEFINE s == sessions[n]
  <2>1. s.seq \in Nat /\ \A i \in DOMAIN s.entries : Passed(s.entries[i].id, s.seq)
    BY ExistingTyped DEF IInv, NumbersInv, SessionRecords
  <2> HIDE DEF s
  <2>2. AutoId(s.seq + 1) \notin IdsOf(s)
    BY <2>1 DEF IdsOf, AutoId, Passed
  <2>3. IntentId(s.seq) \notin IdsOf(s)
    BY <2>1 DEF IdsOf, IntentId, Passed
  <2> QED
    BY <2>2, <2>3 DEF IdsFresh, s
<1> QED
  BY <1>1, Invariance, PTL

\* A fork keeps its source's lineage, whatever either of them does after
\* the fork (storage.rs:500-560).
THEOREM ForksKeepLineage == Spec => []LineageIsKept
<1>1. IInv => LineageIsKept
  <2> SUFFICES ASSUME IInv, NEW n \in Existing, sessions[n].from # Absent
               PROVE  SubSeq(sessions[n].entries, 1, sessions[n].cut)
                        = SubSeq(sessions[sessions[n].from].entries, 1, sessions[n].cut)
    BY DEF LineageIsKept
  <2> DEFINE es == sessions[n].entries
             fs == sessions[sessions[n].from].entries
             k == sessions[n].cut
  <2>1. /\ es \in Seq(EntryRecords) /\ fs \in Seq(EntryRecords) /\ k \in Nat
        /\ k <= Len(es) /\ k <= Len(fs)
        /\ \A i \in 1 .. k : es[i] = fs[i]
    BY ExistingTyped DEF IInv, LineageInv, Agree, SessionRecords
  <2> HIDE DEF es, fs, k
  <2>2. SubSeq(es, 1, k) = [i \in 1 .. k |-> es[i]]
    BY <2>1
  <2>3. SubSeq(fs, 1, k) = [i \in 1 .. k |-> fs[i]]
    BY <2>1
  <2> QED
    BY <2>1, <2>2, <2>3 DEF es, fs, k
<1> QED
  BY <1>1, Invariance, PTL

-----------------------------------------------------------------------------
(* No fork in the middle of a sandwich *)

(***************************************************************************)
(* The counter says whether the last sandwich is open: an intent has no    *)
(* result exactly while the session executes.  Hence every answer stands   *)
(* behind as many results as intents, and so does every cut.               *)
(***************************************************************************)
SettledTo(s, k) == Count(s, k, "intent") = Count(s, k, "result")

Balanced(s) ==
  /\ s.pc # "Executing" => SettledTo(s, Len(s.entries))
  /\ s.pc = "Executing" =>
       Count(s, Len(s.entries), "intent") = Count(s, Len(s.entries), "result") + 1
  /\ \A k \in DOMAIN s.entries : s.entries[k].kind = "answer" => SettledTo(s, k)
  /\ s.cut <= Len(s.entries) /\ SettledTo(s, s.cut)

SandwichInv == \A n \in Existing : Balanced(sessions[n])

LEMMA CountsAgree ==
  ASSUME NEW s, NEW t, NEW k \in Nat, \A i \in 1 .. k : s.entries[i] = t.entries[i], NEW kind
  PROVE  Count(s, k, kind) = Count(t, k, kind)
<1>1. {i \in 1 .. k : s.entries[i].kind = kind} = {i \in 1 .. k : t.entries[i].kind = kind}
  OBVIOUS
<1> QED
  BY <1>1 DEF Count

LEMMA CountStep ==
  ASSUME NEW s, NEW k \in Nat, NEW kind
  PROVE  /\ Count(s, k, kind) \in Nat
         /\ s.entries[k + 1].kind = kind => Count(s, k + 1, kind) = Count(s, k, kind) + 1
         /\ s.entries[k + 1].kind # kind => Count(s, k + 1, kind) = Count(s, k, kind)
<1> DEFINE S == {i \in 1 .. k : s.entries[i].kind = kind}
           T == {i \in 1 .. k + 1 : s.entries[i].kind = kind}
<1>1. IsFiniteSet(S)
  <2>1. IsFiniteSet(1 .. k)
    BY FS_Interval
  <2>2. S \in SUBSET (1 .. k)
    OBVIOUS
  <2> QED
    BY <2>1, <2>2, FS_Subset
<1>2. Cardinality(S) \in Nat
  BY <1>1, FS_CardinalityType
<1>3. k + 1 \notin S
  OBVIOUS
<1>4. Cardinality(S \cup {k + 1}) = Cardinality(S) + 1
  BY <1>1, <1>3, FS_AddElement
<1>5. s.entries[k + 1].kind = kind => T = S \cup {k + 1}
  OBVIOUS
<1>6. s.entries[k + 1].kind # kind => T = S
  OBVIOUS
<1> QED
  BY <1>2, <1>4, <1>5, <1>6 DEF Count

LEMMA NoneCounted == \A s, kind : Count(s, 0, kind) = 0
<1>1. \A s, kind : {i \in 1 .. 0 : s.entries[i].kind = kind} = {}
  OBVIOUS
<1> QED
  BY <1>1, FS_EmptySet DEF Count

\* A commit of an entry: an intent opens the sandwich, a result closes it,
\* and no other entry is written while it is open.
LEMMA CommitBalances ==
  ASSUME NEW s \in SessionRecords, NEW t, NEW e, Balanced(s),
         t.entries = Append(s.entries, e), t.cut = s.cut,
         \/ s.pc # "Executing" /\ t.pc = "Executing" /\ e.kind = "intent"
         \/ s.pc = "Executing" /\ t.pc # "Executing" /\ e.kind = "result"
         \/ s.pc # "Executing" /\ t.pc # "Executing" /\ e.kind \notin {"intent", "result"}
  PROVE  Balanced(t)
<1> DEFINE len == Len(s.entries)
<1>1. s.entries \in Seq(EntryRecords) /\ s.cut \in Nat
  BY DEF SessionRecords
<1>2. /\ len \in Nat
      /\ Len(t.entries) = len + 1
      /\ DOMAIN s.entries = 1 .. len
      /\ DOMAIN t.entries = 1 .. len + 1
      /\ \A i \in 1 .. len : t.entries[i] = s.entries[i]
      /\ t.entries[len + 1] = e
  BY <1>1
<1> HIDE DEF len
<1>3. ASSUME NEW k \in 0 .. len, NEW kind PROVE Count(t, k, kind) = Count(s, k, kind)
  <2>1. k \in Nat /\ \A i \in 1 .. k : t.entries[i] = s.entries[i]
    BY <1>2
  <2>2. {i \in 1 .. k : t.entries[i].kind = kind} = {i \in 1 .. k : s.entries[i].kind = kind}
    BY <2>1
  <2> QED
    BY <2>2 DEF Count
<1>4. \A kind : /\ Count(t, len, kind) = Count(s, len, kind)
                /\ Count(s, len, kind) \in Nat
                /\ e.kind = kind => Count(t, len + 1, kind) = Count(s, len, kind) + 1
                /\ e.kind # kind => Count(t, len + 1, kind) = Count(s, len, kind)
  <2> TAKE kind
  <2>1. Count(t, len, kind) = Count(s, len, kind)
    BY <1>2, <1>3
  <2>2. /\ Count(t, len, kind) \in Nat
        /\ e.kind = kind => Count(t, len + 1, kind) = Count(t, len, kind) + 1
        /\ e.kind # kind => Count(t, len + 1, kind) = Count(t, len, kind)
    BY <1>2, CountStep
  <2> QED
    BY <2>1, <2>2
<1>5. /\ s.pc # "Executing" => Count(s, len, "intent") = Count(s, len, "result")
      /\ s.pc = "Executing" => Count(s, len, "intent") = Count(s, len, "result") + 1
  BY DEF Balanced, SettledTo, len
<1>6. /\ t.pc # "Executing" => Count(t, len + 1, "intent") = Count(t, len + 1, "result")
      /\ t.pc = "Executing" => Count(t, len + 1, "intent") = Count(t, len + 1, "result") + 1
  BY <1>4, <1>5
<1>7. ASSUME NEW k \in DOMAIN t.entries, t.entries[k].kind = "answer" PROVE SettledTo(t, k)
  <2>1. CASE k = len + 1
    <3>1. t.pc # "Executing"
      BY <1>2, <1>7, <2>1
    <3> QED
      BY <1>6, <2>1, <3>1 DEF SettledTo
  <2>2. CASE k # len + 1
    <3>1. k \in DOMAIN s.entries /\ s.entries[k].kind = "answer" /\ k \in 0 .. len
      BY <1>2, <1>7, <2>2
    <3>2. SettledTo(s, k)
      BY <3>1 DEF Balanced
    <3> QED
      BY <1>3, <3>1, <3>2 DEF SettledTo
  <2> QED
    BY <2>1, <2>2
<1>8. t.cut <= Len(t.entries) /\ SettledTo(t, t.cut)
  <2>1. s.cut \in 0 .. len /\ SettledTo(s, s.cut)
    BY <1>1, <1>2 DEF Balanced, len
  <2> QED
    BY <1>2, <1>3, <2>1 DEF SettledTo
<1> QED
  BY <1>2, <1>6, <1>7, <1>8 DEF Balanced, SettledTo

\* A commit of records leaves the entries alone, and neither opens nor closes
\* a sandwich.
LEMMA RecordBalances ==
  ASSUME NEW s, NEW t, Balanced(s), t.entries = s.entries, t.cut = s.cut,
         s.pc = "Executing" <=> t.pc = "Executing"
  PROVE  Balanced(t)
<1>1. \A k, kind : Count(t, k, kind) = Count(s, k, kind)
  BY DEF Count
<1> QED
  BY <1>1 DEF Balanced, SettledTo

\* A fork is cut at an answer, and rests at Final.
LEMMA ForkBalances ==
  ASSUME NEW s \in SessionRecords, NEW t, Balanced(s),
         NEW k \in DOMAIN s.entries, s.entries[k].kind = "answer",
         t.entries = SubSeq(s.entries, 1, k), t.pc = "Final", t.cut = k
  PROVE  Balanced(t)
<1>1. s.entries \in Seq(EntryRecords)
  BY DEF SessionRecords
<1>2. /\ k \in Nat
      /\ Len(t.entries) = k
      /\ DOMAIN t.entries = 1 .. k
      /\ 1 .. k \subseteq DOMAIN s.entries
      /\ \A i \in 1 .. k : t.entries[i] = s.entries[i]
  BY <1>1
<1>3. ASSUME NEW j \in 1 .. k, SettledTo(s, j) PROVE SettledTo(t, j)
  <2>1. j \in Nat /\ \A i \in 1 .. j : t.entries[i] = s.entries[i]
    BY <1>2
  <2>2. \A kind : Count(t, j, kind) = Count(s, j, kind)
    BY ZenonT(30), <2>1, CountsAgree
  <2> QED
    BY <1>3, <2>2 DEF SettledTo
<1>4. \A j \in 1 .. k : t.entries[j].kind = "answer" => SettledTo(t, j)
  BY <1>2, <1>3 DEF Balanced
<1>5. SettledTo(t, k)
  <2>1. k \in 1 .. k
    BY <1>1
  <2>2. t.entries[k].kind = "answer"
    BY <1>2, <2>1
  <2> QED
    BY <1>4, <2>1, <2>2
<1> QED
  BY <1>2, <1>4, <1>5 DEF Balanced

\* Only one session changes: it is enough that its new record is balanced.
LEMMA OneBalances ==
  ASSUME SandwichInv, NEW n \in Names, \A m \in Names \ {n} : sessions'[m] = sessions[m],
         Balanced(sessions'[n])
  PROVE  SandwichInv'
BY DEF SandwichInv, Existing

LEMMA NextBalances == IInv /\ IInv' /\ SandwichInv /\ [Next]_vars => SandwichInv'
<1> SUFFICES ASSUME IInv, IInv', SandwichInv, [Next]_vars PROVE SandwichInv'
  OBVIOUS
<1>1. ASSUME NEW n \in Existing, NEW kind \in EntryKinds, NEW id, NEW extra \in Nat,
             NEW pc \in Pcs, Commit(n, kind, id, extra, pc),
             \/ sessions[n].pc # "Executing" /\ pc = "Executing" /\ kind = "intent"
             \/ sessions[n].pc = "Executing" /\ pc # "Executing" /\ kind = "result"
             \/ sessions[n].pc # "Executing" /\ pc # "Executing"
                  /\ kind \notin {"intent", "result"}
      PROVE  SandwichInv'
  <2> DEFINE s == sessions[n]
             e == [id |-> id, kind |-> kind]
             t == [s EXCEPT !.pc = pc, !.seq = @ + 1 + extra, !.entries = Append(@, e)]
  <2>1. n \in Names /\ s \in SessionRecords /\ Balanced(s)
    BY ExistingTyped DEF IInv, SandwichInv
  <2>2. sessions' = [sessions EXCEPT ![n] = t]
    BY <1>1 DEF Commit
  <2>3. sessions'[n] = t /\ \A m \in Names \ {n} : sessions'[m] = sessions[m]
    BY <2>1, <2>2 DEF IInv, TypeOK
  <2>4. t.cut = s.cut /\ t.pc = pc /\ t.entries = Append(s.entries, e)
    BY <2>1 DEF SessionRecords
  <2> HIDE DEF t
  <2>5. Balanced(t)
    BY <1>1, <2>1, <2>4, CommitBalances
  <2> QED
    BY <2>1, <2>3, <2>5, OneBalances
<1>2. ASSUME NEW n \in Existing, NEW pc \in Pcs, CommitRecord(n, pc),
             sessions[n].pc = "Executing" <=> pc = "Executing"
      PROVE  SandwichInv'
  <2> DEFINE s == sessions[n]
             t == [s EXCEPT !.pc = pc, !.seq = @ + 1]
  <2>1. n \in Names /\ s \in SessionRecords /\ Balanced(s)
    BY ExistingTyped DEF IInv, SandwichInv
  <2>2. sessions' = [sessions EXCEPT ![n] = t]
    BY <1>2 DEF CommitRecord
  <2>3. sessions'[n] = t /\ \A m \in Names \ {n} : sessions'[m] = sessions[m]
    BY <2>1, <2>2 DEF IInv, TypeOK
  <2>4. t.cut = s.cut /\ t.pc = pc /\ t.entries = s.entries
    BY <2>1 DEF SessionRecords
  <2> HIDE DEF t
  <2>5. Balanced(t)
    BY <1>2, <2>1, <2>4, RecordBalances
  <2> QED
    BY <2>1, <2>3, <2>5, OneBalances
<1> USE DEF EntryKinds, Pcs
<1>3. ASSUME NEW n \in Names, Create(n) PROVE SandwichInv'
  <2>1. sessions'[n] = NewSession /\ \A m \in Names \ {n} : sessions'[m] = sessions[m]
    BY <1>3 DEF Create, IInv, TypeOK
  <2>2. NewSession.pc = "Idle" /\ NewSession.cut = 0 /\ Len(NewSession.entries) = 0
        /\ DOMAIN NewSession.entries = {}
    BY DEF NewSession
  <2>3. Balanced(NewSession)
    BY <2>2, NoneCounted DEF Balanced, SettledTo
  <2> QED
    BY <2>1, <2>3, OneBalances
<1>4. ASSUME NEW n \in Names, Prompt(n) PROVE SandwichInv'
  <2>1. n \in Existing /\ sessions[n].pc # "Executing"
    BY <1>4 DEF Prompt, At, Existing
  <2>2. Commit(n, "user", NextId(n), 1, "Planning")
    BY <1>4 DEF Prompt
  <2> QED
    BY <2>1, <2>2, <1>1
<1>5. ASSUME NEW n \in Names, Error(n) PROVE SandwichInv'
  <2>1. n \in Existing /\ sessions[n].pc # "Executing"
    BY <1>5 DEF Error, At, Existing
  <2>2. Commit(n, "error", NextId(n), 0, "Planning")
    BY <1>5 DEF Error
  <2> QED
    BY <2>1, <2>2, <1>1
<1>6. ASSUME NEW n \in Names, Answer(n) PROVE SandwichInv'
  <2>1. n \in Existing /\ sessions[n].pc # "Executing"
    BY <1>6 DEF Answer, At, Existing
  <2>2. Commit(n, "answer", NextId(n), 1, "Final")
    BY <1>6 DEF Answer
  <2> QED
    BY <2>1, <2>2, <1>1
<1>7. ASSUME NEW n \in Names, Begin(n) PROVE SandwichInv'
  <2>1. n \in Existing /\ sessions[n].pc # "Executing"
    BY <1>7 DEF Begin, At, Existing
  <2>2. Commit(n, "intent", IntentId(sessions[n].seq), 2, "Executing")
    BY <1>7 DEF Begin
  <2> QED
    BY <2>1, <2>2, <1>1
<1>8. ASSUME NEW n \in Names, Settle(n) PROVE SandwichInv'
  <2>1. n \in Existing /\ sessions[n].pc = "Executing"
    BY <1>8 DEF Settle, At, Existing
  <2>2. PICK pc \in {"Settling", "Planning"} : Commit(n, "result", NextId(n), 2, pc)
    BY <1>8 DEF Settle
  <2> QED
    BY <2>1, <2>2, <1>1
<1>9. ASSUME NEW n \in Names, Record(n) \/ Compact(n) PROVE SandwichInv'
  <2>1. n \in Existing
    BY <1>9 DEF Record, Compact, At, Existing
  <2>2. sessions[n].pc \in Pcs
    BY <2>1, ExistingTyped DEF IInv, SessionRecords
  <2>3. PICK pc \in Pcs :
          CommitRecord(n, pc) /\ (sessions[n].pc = "Executing" <=> pc = "Executing")
    BY <1>9, <2>2 DEF Record, Compact, At
  <2> QED
    BY <2>1, <2>3, <1>2
<1>10. ASSUME NEW n \in Existing, NEW m \in Names,
              NEW k \in DOMAIN sessions[n].entries, Fork(n, m, k)
       PROVE  SandwichInv'
  <2> DEFINE s == sessions[n]
             t == [pc |-> "Final", seq |-> k + 2, entries |-> Lineage(s, k),
                   from |-> n, cut |-> k]
  <2>1. s \in SessionRecords /\ Balanced(s) /\ s.entries[k].kind = "answer"
    BY <1>10, ExistingTyped DEF IInv, SandwichInv, Fork, SettledAt
  <2>2. sessions'[m] = t /\ \A o \in Names \ {m} : sessions'[o] = sessions[o]
    BY <1>10 DEF Fork, IInv, TypeOK
  <2>3. t.entries = SubSeq(s.entries, 1, k) /\ t.pc = "Final" /\ t.cut = k
    BY DEF Lineage
  <2> HIDE DEF t
  <2>4. Balanced(t)
    BY <2>1, <2>3, ForkBalances
  <2> QED
    BY <2>2, <2>4, OneBalances
<1>11. CASE UNCHANGED vars
  BY <1>11 DEF vars, SandwichInv, Existing
<1> QED
  BY <1>3, <1>4, <1>5, <1>6, <1>7, <1>8, <1>9, <1>10, <1>11 DEF Next

\* No fork, wherever it is cut and whatever its source does meanwhile, has an
\* intent without its result (storage.rs, fork()).
THEOREM ForksAreSettled == Spec => []NoOpenSandwichIsForked
<1>1. Init => SandwichInv
  BY DEF Init, SandwichInv, Existing
<1>2. SandwichInv => NoOpenSandwichIsForked
  BY DEF SandwichInv, Balanced, SettledTo, NoOpenSandwichIsForked
<1>3. IInv /\ IInv' /\ SandwichInv /\ [Next]_vars => SandwichInv'
  BY NextBalances
<1> QED
  BY <1>1, <1>2, <1>3, Invariance, PTL DEF Spec

-----------------------------------------------------------------------------
(* Numbers *)

\* Every set of numbers has a least one.
LEMMA LeastNumber ==
  ASSUME NEW T, T \subseteq Nat, T # {}
  PROVE \E m \in T : \A k \in T : m <= k
<1>1. PICK b \in T : TRUE
  OBVIOUS
<1> DEFINE Below(k) == 0 .. k
           F == {Below(k) : k \in {j \in T : j <= b}}
<1>2. IsFiniteSet(Below(b))
  BY FS_Interval
<1>3. F \subseteq SUBSET Below(b) /\ F # {}
  BY <1>1
<1>4. IsWellFoundedOn(StrictSubsetOrdering(Below(b)), FiniteSubsetsOf(Below(b)))
  BY <1>2, FS_StrictSubsetOrderingWellFounded
<1>5. F \subseteq FiniteSubsetsOf(Below(b))
  BY <1>3, <1>2, FS_Subset DEF FiniteSubsetsOf
<1>6. PICK x \in F : \A y \in F : <<y, x>> \notin StrictSubsetOrdering(Below(b))
  BY <1>3, <1>4, <1>5, WFMin
<1>7. PICK m \in T : m <= b /\ x = Below(m)
  BY <1>6
<1>8. ASSUME NEW k \in T, k < m PROVE FALSE
  <2>1. Below(k) \in F
    BY <1>7, <1>8
  <2>2. Below(k) \subseteq Below(m) /\ Below(k) # Below(m)
    BY <1>7, <1>8
  <2>3. <<Below(k), x>> \in (SUBSET Below(b)) \X (SUBSET Below(b))
    BY <2>1, <1>3, <1>7
  <2>4. <<Below(k), x>> \in StrictSubsetOrdering(Below(b))
    BY <2>2, <2>3, <1>7 DEF StrictSubsetOrdering
  <2> QED
    BY <1>6, <2>1, <2>4
<1> QED
  BY <1>7, <1>8

\* Induction on numbers, over a set instead of a predicate.
LEMMA NumberInduction ==
  ASSUME NEW T, 0 \in T, \A n \in Nat : n \in T => n + 1 \in T
  PROVE  \A n \in Nat : n \in T
<1> SUFFICES ASSUME {n \in Nat : n \notin T} # {} PROVE FALSE
  OBVIOUS
<1>1. PICK m \in {n \in Nat : n \notin T} : \A k \in {n \in Nat : n \notin T} : m <= k
  BY LeastNumber
<1>2. m - 1 \in Nat /\ m - 1 \in T
  BY <1>1
<1> QED
  BY <1>1, <1>2

\* The same, up to a bound.
LEMMA BoundedInduction ==
  ASSUME NEW T, NEW m \in Nat, 0 \in T, \A n \in 1 .. m : n - 1 \in T => n \in T
  PROVE  \A n \in 0 .. m : n \in T
<1> DEFINE U == {n \in Nat : n <= m => n \in T}
<1>1. 0 \in U
  OBVIOUS
<1>2. ASSUME NEW n \in Nat, n \in U PROVE n + 1 \in U
  <2> SUFFICES ASSUME n + 1 <= m PROVE n + 1 \in T
    OBVIOUS
  <2>1. n \in T /\ n + 1 \in 1 .. m /\ (n + 1) - 1 = n
    BY <1>2
  <2> QED
    BY <2>1
<1> HIDE DEF U
<1>3. \A n \in Nat : n \in U
  BY <1>1, <1>2, NumberInduction
<1> QED
  BY <1>3 DEF U

\* There is a function for each first value and each way to go on from one
\* value to the next.
LEMMA Recursion ==
  ASSUME NEW V, NEW b \in V, NEW m \in Nat, NEW step \in [1 .. m -> [V -> V]]
  PROVE  \E g \in [0 .. m -> V] :
           g[0] = b /\ \A n \in 1 .. m : g[n] = step[n][g[n - 1]]
<1> DEFINE Goes(n, g) == g[0] = b /\ \A i \in 1 .. n : g[i] = step[i][g[i - 1]]
           T == {n \in Nat : \E g \in [0 .. n -> V] : Goes(n, g)}
<1>1. 0 \in T
  <2>1. [i \in 0 .. 0 |-> b] \in [0 .. 0 -> V] /\ Goes(0, [i \in 0 .. 0 |-> b])
    OBVIOUS
  <2> QED
    BY <2>1
<1>2. ASSUME NEW n \in 1 .. m, n - 1 \in T PROVE n \in T
  <2>1. PICK g \in [0 .. n - 1 -> V] : Goes(n - 1, g)
    BY <1>2
  <2> DEFINE top == step[n][g[n - 1]]
             h == [i \in 0 .. n |-> IF i <= n - 1 THEN g[i] ELSE top]
  <2>2. top \in V
    <3>1. g[n - 1] \in V
      OBVIOUS
    <3> QED
      BY <3>1
  <2> HIDE DEF top
  <2>3. h \in [0 .. n -> V]
    <3>1. \A i \in 0 .. n : (IF i <= n - 1 THEN g[i] ELSE top) \in V
      BY <2>2
    <3> QED
      BY <3>1
  <2>4. h[0] = b
    BY <2>1
  <2>5. ASSUME NEW i \in 1 .. n PROVE h[i] = step[i][h[i - 1]]
    <3>1. h[i - 1] = g[i - 1]
      OBVIOUS
    <3>2. CASE i = n
      BY <3>1, <3>2 DEF top
    <3>3. CASE i # n
      <4>1. i \in 1 .. n - 1 /\ h[i] = g[i]
        BY <3>3
      <4> QED
        BY <2>1, <3>1, <4>1
    <3> QED
      BY <3>2, <3>3
  <2> HIDE DEF h
  <2>6. Goes(n, h)
    BY <2>4, <2>5
  <2> QED
    BY <2>3, <2>6
<1> HIDE DEF T
<1>3. \A n \in 0 .. m : n \in T
  BY <1>1, <1>2, BoundedInduction
<1>4. PICK g \in [0 .. m -> V] : Goes(m, g)
  BY <1>3 DEF T
<1> QED
  BY <1>4

-----------------------------------------------------------------------------
(* The view *)

(***************************************************************************)
(* The log of a session that is compacted.  ViewInv: the log begins with a *)
(* prompt; a compaction names a prompt before it, and its summary tells of *)
(* all that is before that prompt, up to the compactions.                  *)
(***************************************************************************)
Logged ==
  [is : View!Kinds, from : Nat, tells : SUBSET Nat]

Compactions(list) == View!Of(list, "compaction")

\* What the compaction c of a log has to say.
Covers(list, c) ==
  /\ list[c].from \in 1 .. c - 1
  /\ list[list[c].from].is = "prompt"
  /\ (1 .. list[c].from - 1) \ Compactions(list) \subseteq list[c].tells

ViewInv ==
  /\ messages \in Seq(Logged)
  /\ messages # <<>> => messages[1].is = "prompt"
  /\ phase = "turn" => messages # <<>>
  /\ \A c \in Compactions(messages) : Covers(messages, c)

\* The last of some places of a log.
LEMMA LastPlace ==
  ASSUME NEW n \in Nat, NEW S, S \subseteq 1 .. n, S # {}
  PROVE  /\ View!LastOf(S) \in S
         /\ \A j \in S : j <= View!LastOf(S)
<1> DEFINE Bounds == {m \in Nat : \A j \in S : j <= m}
<1>1. n \in Bounds
  OBVIOUS
<1>2. PICK m \in Bounds : \A k \in Bounds : m <= k
  BY <1>1, LeastNumber
<1>3. m \in S
  <2> SUFFICES ASSUME m \notin S PROVE FALSE
    OBVIOUS
  <2>1. PICK j \in S : TRUE
    OBVIOUS
  <2>2. m - 1 \in Nat
    BY <2>1, <1>2
  <2>3. \A k \in S : k <= m - 1
    BY <1>2
  <2> QED
    BY <1>2, <2>2, <2>3
<1>4. \E i \in S : \A j \in S : j <= i
  BY <1>2, <1>3
<1> QED
  BY <1>4 DEF View!LastOf

LEMMA InitView == View!Init => ViewInv
BY DEF View!Init, ViewInv, Compactions, View!Of

\* A log that grows by an entry keeps its compactions.
Grown(list, e, new) ==
  /\ new \in Seq(Logged) /\ Len(new) = Len(list) + 1 /\ Len(list) \in Nat
  /\ \A i \in 1 .. Len(list) : new[i] = list[i]
  /\ new[Len(list) + 1] = e
  /\ Compactions(list) \subseteq 1 .. Len(list)
  /\ \A i : i \in Compactions(new) <=>
       i \in Compactions(list) \/ (i = Len(list) + 1 /\ e.is = "compaction")

LEMMA GrownLog ==
  ASSUME NEW list \in Seq(Logged), NEW e \in Logged, NEW new, new = Append(list, e)
  PROVE  Grown(list, e, new)
<1>1. /\ new \in Seq(Logged) /\ Len(new) = Len(list) + 1 /\ Len(list) \in Nat
      /\ \A i \in 1 .. Len(list) : new[i] = list[i]
      /\ new[Len(list) + 1] = e
      /\ DOMAIN list = 1 .. Len(list) /\ DOMAIN new = 1 .. Len(list) + 1
  BY LenProperties
<1> QED
  BY <1>1 DEF Grown, Compactions, View!Of

LEMMA CoversGrows ==
  ASSUME NEW list \in Seq(Logged), NEW e \in Logged, NEW new, new = Append(list, e),
         NEW c \in Compactions(list), Covers(list, c)
  PROVE  Covers(new, c)
<1>0. Grown(list, e, new)
  BY GrownLog
<1>1. /\ c \in 1 .. Len(list) /\ Len(list) \in Nat /\ new[c] = list[c]
      /\ list[c].from \in 1 .. c - 1
  BY <1>0 DEF Covers, Grown
<1>2. new[list[c].from] = list[list[c].from]
  BY <1>0, <1>1 DEF Grown
<1>3. \A i \in 1 .. list[c].from - 1 : i \in Compactions(new) <=> i \in Compactions(list)
  <2>1. \A i : i \in Compactions(new) <=>
          i \in Compactions(list) \/ (i = Len(list) + 1 /\ e.is = "compaction")
    BY <1>0 DEF Grown
  <2>2. \A i \in 1 .. list[c].from - 1 : i # Len(list) + 1
    BY <1>1
  <2> QED
    BY <2>1, <2>2
<1> QED
  BY <1>1, <1>2, <1>3 DEF Covers

LEMMA AddKeepsView ==
  ASSUME ViewInv, NEW kind \in View!Kinds \ {"compaction"}, View!Add(kind),
         messages # <<>> \/ kind = "prompt"
  PROVE  ViewInv'
<1> DEFINE e == View!EntryOf(kind)
<1>1. e \in Logged /\ e.is = kind
  BY DEF Logged, View!EntryOf
<1>2. messages' = Append(messages, e)
  BY DEF View!Add
<1> HIDE DEF e
<1>3. \A c \in Compactions(messages) : Covers(messages', c)
  BY <1>1, <1>2, CoversGrows DEF ViewInv
<1>4. messages \in Seq(Logged)
  BY DEF ViewInv
<1>5. /\ messages' \in Seq(Logged)
      /\ \A i : i \in Compactions(messages') <=> i \in Compactions(messages)
      /\ messages' # <<>> /\ messages'[1].is = "prompt"
  <2>1. Grown(messages, e, messages')
    BY <1>1, <1>2, <1>4, GrownLog
  <2>2. messages'[1].is = "prompt"
    <3>1. CASE messages = <<>>
      BY <1>1, <2>1, <3>1 DEF Grown
    <3>2. CASE messages # <<>>
      BY <1>4, <2>1, <3>2, EmptySeq DEF ViewInv, Grown
    <3> QED
      BY <3>1, <3>2
  <2>3. \A i : i \in Compactions(messages') <=> i \in Compactions(messages)
    BY <1>1, <2>1 DEF Grown
  <2> QED
    BY <2>1, <2>2, <2>3, EmptySeq DEF Grown
<1> QED
  BY <1>3, <1>5 DEF ViewInv

\* Where a pass cuts: at a prompt, after every compaction.
LEMMA CutFacts ==
  ASSUME ViewInv, NEW keep, View!CutIndex(keep) # 0
  PROVE  /\ View!CutIndex(keep) \in 1 .. Len(messages)
         /\ messages[View!CutIndex(keep)].is = "prompt"
         /\ \A c \in Compactions(messages) : c < View!CutIndex(keep)
<1> DEFINE past == Compactions(messages)
           floor == IF past = {} THEN 1 ELSE messages[View!LastOf(past)].from
           starts == {i \in floor .. Len(messages) : View!OpensTurn(messages[i])}
           cuts == {i \in starts : View!Cardinality({j \in starts : j >= i}) = keep
                                     /\ View!CutIsAfterLast(i)}
<1>1. cuts # {} /\ View!CutIndex(keep) = CHOOSE i \in cuts : TRUE
  BY DEF View!CutIndex, Compactions
<1>2. View!CutIndex(keep) \in cuts
  <2> HIDE DEF cuts
  <2> QED
    BY <1>1
<1>3. Len(messages) \in Nat /\ past \subseteq 1 .. Len(messages)
  BY LenProperties DEF ViewInv, Compactions, View!Of
<1>4. floor \in Nat /\ floor >= 1
  <2>1. CASE past = {}
    BY <2>1
  <2>2. CASE past # {}
    <3>1. View!LastOf(past) \in past
      BY <1>3, <2>2, LastPlace
    <3>2. messages[View!LastOf(past)].from \in 1 .. View!LastOf(past) - 1
      BY <3>1 DEF ViewInv, Covers
    <3> QED
      BY <2>2, <3>2
  <2> QED
    BY <2>1, <2>2
<1> HIDE DEF floor
<1>5. /\ View!CutIndex(keep) \in 1 .. Len(messages)
      /\ View!OpensTurn(messages[View!CutIndex(keep)])
      /\ View!CutIsAfterLast(View!CutIndex(keep))
  BY <1>2, <1>3, <1>4
<1> HIDE DEF past, starts, cuts
<1>6. \A c \in Compactions(messages) : View!CutIndex(keep) > c
  BY <1>5 DEF View!CutIsAfterLast, Compactions
<1> QED
  BY <1>3, <1>5, <1>6 DEF View!OpensTurn, past

\* The summary of a pass tells of all that is before its cut.
LEMMA SummaryCovers ==
  ASSUME ViewInv, NEW cut \in 1 .. Len(messages),
         \A c \in Compactions(messages) : c < cut,
         NEW head, head = SubSeq(messages, 1, cut - 1)
  PROVE  /\ (1 .. cut - 1) \ Compactions(messages)
               \subseteq View!Verbatim(head) \cup View!Told(head)
         /\ View!Verbatim(head) \cup View!Told(head) \subseteq Nat
<1>1. /\ messages \in Seq(Logged) /\ Len(messages) \in Nat
      /\ Compactions(messages) \subseteq 1 .. cut - 1
  BY LenProperties DEF ViewInv, Compactions, View!Of
<1>2. /\ head \in Seq(Logged) /\ Len(head) = cut - 1
      /\ \A i \in 1 .. cut - 1 : head[i] = messages[i]
      /\ DOMAIN head = 1 .. cut - 1
  <2>1. \A i \in 1 .. cut - 1 : messages[i] \in Logged
    BY <1>1, ElementOfSeq
  <2>2. /\ head \in Seq(Logged) /\ Len(head) = cut - 1
        /\ \A i \in 1 .. cut - 1 : head[i] = messages[1 + i - 1]
    BY <2>1, SubSeqProperties
  <2> QED
    BY <2>2, LenProperties
<1>3. Compactions(head) = Compactions(messages)
  BY <1>1, <1>2, LenProperties DEF Compactions, View!Of
<1>4. CASE Compactions(messages) = {}
  <2>1. View!Verbatim(head) = 1 .. cut - 1 /\ View!Told(head) = {}
    BY <1>2, <1>3, <1>4 DEF View!Verbatim, View!Told, Compactions
  <2> QED
    BY <2>1
<1>5. CASE Compactions(messages) # {}
  <2> DEFINE last == View!LastOf(Compactions(messages))
  <2>1. last \in Compactions(messages)
    BY <1>1, <1>5, LastPlace
  <2>2. head[last] = messages[last] /\ messages[last] \in Logged
    BY <1>1, <1>2, <2>1, ElementOfSeq
  <2>3. /\ View!Verbatim(head) = (messages[last].from .. cut - 1) \ Compactions(messages)
        /\ View!Told(head) = messages[last].tells
    BY <1>2, <1>3, <1>5, <2>2 DEF View!Verbatim, View!Told, Compactions
  <2>4. /\ messages[last].from \in Nat
        /\ (1 .. messages[last].from - 1) \ Compactions(messages) \subseteq messages[last].tells
        /\ messages[last].tells \subseteq Nat
    BY <2>1, <2>2 DEF ViewInv, Covers, Logged
  <2> HIDE DEF last
  <2> QED
    BY <2>3, <2>4
<1> QED
  BY <1>4, <1>5

LEMMA CompactKeepsView ==
  ASSUME ViewInv, NEW keep, View!Compact(keep)
  PROVE  ViewInv'
<1> DEFINE cut == View!CutIndex(keep)
           head == SubSeq(messages, 1, cut - 1)
           tells == View!Verbatim(head) \cup View!Told(head)
           e == [is |-> "compaction", from |-> cut, tells |-> tells]
<1>1. messages' = Append(messages, e) /\ cut # 0
  BY DEF View!Compact
<1>2. phase' # "turn" /\ messages \in Seq(Logged) /\ Len(messages) \in Nat
  BY LenProperties DEF View!Compact, ViewInv
<1>3. /\ cut \in 1 .. Len(messages)
      /\ messages[cut].is = "prompt"
      /\ \A c \in Compactions(messages) : c < cut
  BY <1>1, CutFacts
<1> HIDE DEF cut
<1>4. (1 .. cut - 1) \ Compactions(messages) \subseteq tells /\ tells \subseteq Nat
  BY <1>3, SummaryCovers
<1> HIDE DEF tells
<1>5. e \in Logged /\ e.is = "compaction" /\ e.from = cut /\ e.tells = tells
  BY <1>3, <1>4 DEF Logged, View!Kinds
<1> HIDE DEF e
<1>6. /\ messages' \in Seq(Logged) /\ Len(messages') = Len(messages) + 1
      /\ \A i \in 1 .. Len(messages) : messages'[i] = messages[i]
      /\ messages'[Len(messages) + 1] = e
      /\ Compactions(messages) \subseteq 1 .. Len(messages)
      /\ \A i : i \in Compactions(messages') <=>
           i \in Compactions(messages) \/ i = Len(messages) + 1
  <2>1. Grown(messages, e, messages')
    BY <1>1, <1>2, <1>5, GrownLog
  <2> QED
    BY <1>5, <2>1 DEF Grown
<1>7. \A c \in Compactions(messages) : Covers(messages', c)
  BY <1>1, <1>2, <1>5, CoversGrows DEF ViewInv
<1>8. Covers(messages', Len(messages) + 1)
  <2>1. messages'[cut] = messages[cut]
    BY <1>3, <1>6
  <2>2. (1 .. cut - 1) \ Compactions(messages') \subseteq tells
    BY <1>4, <1>6
  <2> QED
    BY <1>2, <1>3, <1>5, <1>6, <2>1, <2>2 DEF Covers
<1>9. messages' # <<>> /\ messages'[1].is = "prompt"
  BY <1>2, <1>3, <1>6, EmptySeq DEF ViewInv
<1> QED
  BY <1>2, <1>6, <1>7, <1>8, <1>9 DEF ViewInv

LEMMA NextKeepsView == ViewInv /\ [View!Next]_viewVars => ViewInv'
<1> SUFFICES ASSUME ViewInv, [View!Next]_viewVars PROVE ViewInv'
  OBVIOUS
<1>1. CASE View!Prompt
  <2>1. View!Add("prompt") /\ "prompt" \in View!Kinds \ {"compaction"}
    BY <1>1 DEF View!Prompt, View!Kinds
  <2> QED
    BY <2>1, AddKeepsView
<1>2. CASE View!Step
  <2>1. messages # <<>>
    BY <1>2 DEF View!Step, ViewInv
  <2>2. \E kind \in View!Kinds \ {"compaction"} : View!Add(kind)
    BY <1>2 DEF View!Step, View!Kinds
  <2> QED
    BY <2>1, <2>2, AddKeepsView
<1>3. CASE \E keep \in Keeps : View!Compact(keep)
  BY <1>3, CompactKeepsView
<1>4. CASE View!Overflow \/ View!MarkOverflow \/ View!Clear
           \/ \E keep \in Keeps : View!NothingToDo(keep)
  BY <1>4 DEF View!Overflow, View!MarkOverflow, View!Clear, View!NothingToDo, ViewInv
<1>5. CASE UNCHANGED viewVars
  BY <1>5 DEF viewVars, ViewInv
<1> QED
  BY <1>1, <1>2, <1>3, <1>4, <1>5 DEF View!Next

\* What the provider is sent tells of every entry, and begins with a prompt.
LEMMA ViewIsSound == ViewInv => ViewIsWhole
<1> SUFFICES ASSUME ViewInv PROVE View!ViewIsWhole
  BY DEF ViewIsWhole
<1> DEFINE past == Compactions(messages)
           sent == View!Verbatim(messages)
           first == CHOOSE i \in sent : \A j \in sent : i <= j
<1>1. /\ messages \in Seq(Logged) /\ Len(messages) \in Nat
      /\ DOMAIN messages = 1 .. Len(messages) /\ past \subseteq 1 .. Len(messages)
  BY LenProperties DEF ViewInv, Compactions, View!Of
<1>2. SUFFICES /\ DOMAIN messages \ past \subseteq View!Told(messages) \cup sent
               /\ sent # {} => messages[first].is = "prompt"
  BY DEF View!ViewIsWhole, Compactions
<1>3. CASE past = {}
  <2>1. sent = 1 .. Len(messages)
    BY <1>1, <1>3 DEF View!Verbatim, Compactions
  <2>2. sent # {} => first = 1 /\ messages # <<>>
    <3> SUFFICES ASSUME sent # {} PROVE first = 1 /\ messages # <<>>
      OBVIOUS
    <3>1. 1 \in sent /\ \A j \in sent : 1 <= j
      BY <1>1, <2>1
    <3> HIDE DEF sent
    <3>2. first \in sent /\ \A j \in sent : first <= j
      BY <3>1
    <3> QED
      BY <1>1, <2>1, <3>1, <3>2, EmptySeq
  <2> QED
    BY <1>1, <2>1, <2>2 DEF ViewInv
<1>4. CASE past # {}
  <2> DEFINE last == View!LastOf(past)
             from == messages[last].from
  <2>1. last \in past
    BY <1>1, <1>4, LastPlace
  <2>2. /\ from \in 1 .. last - 1 /\ messages[from].is = "prompt"
        /\ (1 .. from - 1) \ past \subseteq messages[last].tells
    BY <2>1 DEF ViewInv, Covers
  <2>3. /\ sent = (from .. Len(messages)) \ past
        /\ View!Told(messages) = messages[last].tells
    BY <1>4 DEF View!Verbatim, View!Told, Compactions
  <2>4. from \notin past
    BY <2>2 DEF Compactions, View!Of
  <2>5. from \in sent /\ \A j \in sent : from <= j
    BY <1>1, <2>1, <2>2, <2>3, <2>4
  <2>6. DOMAIN messages \ past \subseteq View!Told(messages) \cup sent
    <3> HIDE DEF past, last, sent
    <3> QED
      BY <1>1, <2>2, <2>3
  <2> HIDE DEF sent
  <2>7. first \in sent /\ \A j \in sent : first <= j
    BY <2>5
  <2>8. first = from
    BY <1>1, <2>2, <2>3, <2>5, <2>7
  <2> QED
    BY <2>2, <2>6, <2>8
<1> QED
  BY <1>3, <1>4

-----------------------------------------------------------------------------
(* The index *)

(***************************************************************************)
(* The sessions of the projects.  An id is used once, in their order; that *)
(* of an imported transcript is used in every project.  So a fork is of a  *)
(* session with an earlier id, or of an imported one, which is no fork.    *)
(***************************************************************************)
SessionFile ==
  [dir : Dirs, id : Ids, name : Aliases \cup {NoName}, from : Ids \cup {0}, readable : BOOLEAN]

IndexInv ==
  /\ files \subseteq SessionFile
  /\ used \subseteq Ids
  /\ \A i \in used \ {Imported}, j \in Ids \ (used \cup {Imported}) : i < j
  /\ \A f \in files :
       /\ f.id \in used
       /\ f.id = Imported => f.from = 0
       /\ f.from # 0 => f.from = Imported \/ f.from < f.id

LEMMA InitIndex == Index!Init => IndexInv
BY DEF Index!Init, IndexInv

LEMMA CreateKeepsIndex ==
  ASSUME IndexInv, NEW d \in Dirs, NEW i \in Ids, NEW n \in Aliases \cup {NoName},
         NEW from \in Ids \cup {0}, Index!Create(d, i, n, from),
         i = Imported \/ Index!IsNew(i),
         i = Imported => from = 0,
         from # 0 => from \in used
  PROVE  IndexInv'
<1> DEFINE e == [dir |-> d, id |-> i, name |-> n, from |-> from, readable |-> TRUE]
<1>1. e \in SessionFile /\ e.id = i /\ e.from = from
  BY DEF SessionFile
<1>2. files' = files \cup {e} /\ used' = used \cup {i}
  BY DEF Index!Create
<1> HIDE DEF e
<1>3. i # Imported =>
        /\ i \in Ids \ (used \cup {Imported})
        /\ \A j \in Ids \ (used \cup {Imported}) : i <= j
  BY DEF Index!IsNew
<1>4. \A j \in used' \ {Imported}, k \in Ids \ (used' \cup {Imported}) : j < k
  <2> SUFFICES ASSUME NEW j \in used' \ {Imported}, NEW k \in Ids \ (used' \cup {Imported})
               PROVE  j < k
    OBVIOUS
  <2>1. CASE j \in used
    BY <1>2, <2>1 DEF IndexInv
  <2>2. CASE j \notin used
    <3>1. j = i /\ i # Imported /\ k # i /\ i <= k
      BY <1>2, <1>3, <2>2
    <3> QED
      BY <3>1, ImportedIsAnId
  <2> QED
    BY <2>1, <2>2
<1>5. from # 0 => from = Imported \/ from < i
  <2> SUFFICES ASSUME from # 0, from # Imported PROVE from < i
    OBVIOUS
  <2>1. from \in used \ {Imported} /\ i \in Ids \ (used \cup {Imported})
    BY <1>3
  <2> QED
    BY <2>1 DEF IndexInv
<1>6. \A f \in files' :
       /\ f.id \in used'
       /\ f.id = Imported => f.from = 0
       /\ f.from # 0 => f.from = Imported \/ f.from < f.id
  BY <1>1, <1>2, <1>5 DEF IndexInv
<1> QED
  BY <1>1, <1>2, <1>4, <1>6 DEF IndexInv

LEMMA DamageKeepsIndex == ASSUME IndexInv, NEW f \in files, Index!Damage(f) PROVE IndexInv'
<1> DEFINE e == [f EXCEPT !.readable = FALSE]
<1>1. e \in SessionFile /\ e.id = f.id /\ e.from = f.from
  BY DEF IndexInv, SessionFile
<1>2. files' = (files \ {f}) \cup {e} /\ used' = used
  BY DEF Index!Damage
<1> HIDE DEF e
<1> QED
  BY <1>1, <1>2 DEF IndexInv

LEMMA NextKeepsIndex == IndexInv /\ [Index!Next]_indexVars => IndexInv'
<1> SUFFICES ASSUME IndexInv, [Index!Next]_indexVars PROVE IndexInv'
  OBVIOUS
<1>1. ASSUME NEW d \in Dirs, NEW i \in Ids, NEW n \in Aliases \cup {NoName}, Index!Start(d, i, n)
      PROVE  IndexInv'
  <2>1. Index!Create(d, i, n, 0) /\ Index!IsNew(i) /\ i # Imported
    BY <1>1 DEF Index!Start, Index!NoSource, Index!IsNew
  <2> QED
    BY <2>1, CreateKeepsIndex
<1>2. ASSUME NEW d \in Dirs, Index!Import(d) PROVE IndexInv'
  <2>1. Index!Create(d, Imported, NoName, 0)
    BY <1>2 DEF Index!Import, Index!NoSource
  <2> QED
    BY <2>1, CreateKeepsIndex, ImportedIsAnId
<1>3. ASSUME NEW d \in Dirs, NEW i \in Ids, NEW j \in Ids, Index!Branch(d, i, j) PROVE IndexInv'
  <2>1. Index!Create(d, j, NoName, i) /\ Index!IsNew(j) /\ j # Imported
    BY <1>3 DEF Index!Branch, Index!IsNew
  <2>2. i \in used
    BY <1>3 DEF Index!Branch, Index!Listed, IndexInv
  <2> QED
    BY <2>1, <2>2, CreateKeepsIndex
<1>4. ASSUME NEW line \in recording, Index!Record(line) PROVE IndexInv'
  BY <1>4 DEF Index!Record, IndexInv
<1>5. ASSUME NEW f \in files, Index!Gone(f) \/ Index!Damage(f) PROVE IndexInv'
  BY <1>5, DamageKeepsIndex DEF Index!Gone, IndexInv
<1>6. CASE UNCHANGED indexVars
  BY <1>6 DEF indexVars, IndexInv
<1> QED
  BY <1>1, <1>2, <1>3, <1>4, <1>5, <1>6 DEF Index!Next

-----------------------------------------------------------------------------
(* The tree *)

\* The sessions of a project that are shown under some that are.
Under(d, S) ==
  S \cup {f \in Index!Listed(d) \ Index!Roots(d) : \E g \in S : f.from = g.id}

\* shown is the tree of d, level by level.
Shows(d, m, shown) ==
  shown = [n \in 0 .. m |-> IF n = 0 THEN Index!Roots(d) ELSE Under(d, shown[n - 1])]

LEMMA ShowsValue ==
  ASSUME NEW d, NEW m \in Nat, NEW g, Shows(d, m, g)
  PROVE  /\ g[0] = Index!Roots(d)
         /\ \A n \in 1 .. m : g[n] = Under(d, g[n - 1])
<1>1. \A n \in 0 .. m : g[n] = IF n = 0 THEN Index!Roots(d) ELSE Under(d, g[n - 1])
  BY Zenon DEF Shows
<1> QED
  BY <1>1

\* There are as many levels as one looks for.
LEMMA SomethingShows == ASSUME NEW d, NEW m \in Nat PROVE \E g : Shows(d, m, g)
<1> DEFINE T == {n \in Nat : \E g : Shows(d, n, g)}
<1>1. 0 \in T
  <2> DEFINE g == [n \in 0 .. 0 |-> Index!Roots(d)]
  <2>1. g = [n \in 0 .. 0 |-> IF n = 0 THEN Index!Roots(d) ELSE Under(d, g[n - 1])]
    OBVIOUS
  <2> HIDE DEF g
  <2>2. Shows(d, 0, g)
    BY <2>1 DEF Shows
  <2> QED
    BY <2>2
<1>2. ASSUME NEW n \in Nat, n \in T PROVE n + 1 \in T
  <2>1. PICK g : Shows(d, n, g)
    BY <1>2
  <2>2. g[0] = Index!Roots(d) /\ \A i \in 1 .. n : g[i] = Under(d, g[i - 1])
    BY <2>1, ShowsValue
  <2> DEFINE top == Under(d, g[n])
             h == [i \in 0 .. n + 1 |-> IF i <= n THEN g[i] ELSE top]
  <2> HIDE DEF top
  <2>3. \A i \in 0 .. n + 1 : h[i] = IF i = 0 THEN Index!Roots(d) ELSE Under(d, h[i - 1])
    <3> TAKE i \in 0 .. n + 1
    <3>1. CASE i = 0
      BY <2>2, <3>1
    <3>2. CASE i # 0 /\ i <= n
      <4>1. h[i] = g[i] /\ h[i - 1] = g[i - 1] /\ g[i] = Under(d, g[i - 1])
        BY <2>2, <3>2
      <4> QED
        BY <3>2, <4>1
    <3>3. CASE i = n + 1
      <4>1. h[i] = top /\ h[i - 1] = g[n] /\ i # 0
        BY <3>3
      <4> QED
        BY <3>3, <4>1 DEF top
    <3> QED
      BY <3>1, <3>2, <3>3
  <2>4. DOMAIN h = 0 .. n + 1 /\ h = [i \in 0 .. n + 1 |-> h[i]]
    BY Zenon
  <2> HIDE DEF h
  <2>5. h = [i \in 0 .. n + 1 |-> IF i = 0 THEN Index!Roots(d) ELSE Under(d, h[i - 1])]
    BY <2>3, <2>4
  <2>6. Shows(d, n + 1, h)
    BY <2>5 DEF Shows
  <2> QED
    BY <2>6
<1> HIDE DEF T
<1>3. m \in T
  BY <1>1, <1>2, NumberInduction
<1> QED
  BY <1>3 DEF T

\* The ids that come before an id in a line of forks.
Before(i) == IF i = Imported THEN {} ELSE {j \in Ids : j = Imported \/ j < i}

LEMMA BeforeFacts ==
  ASSUME NEW i \in Ids, NEW j \in Before(i)
  PROVE  j \in Ids /\ Before(j) \subseteq Before(i) /\ i \notin Before(i)
<1>1. j \in Ids /\ i # Imported /\ (j = Imported \/ j < i) /\ Ids \subseteq Nat
  BY ImportedIsAnId DEF Before
<1>2. i \notin Before(i)
  BY <1>1 DEF Before
<1>3. ASSUME NEW k \in Before(j) PROVE k \in Before(i)
  <2>1. k \in Ids /\ j # Imported /\ (k = Imported \/ k < j)
    BY <1>3 DEF Before
  <2> QED
    BY <1>1, <2>1 DEF Before
<1> QED
  BY <1>1, <1>2, <1>3

\* n other sessions of d stand above f, with ids that come before its own.
Above(d, n, f, line) ==
  /\ line \in [0 .. n -> Index!Listed(d)]
  /\ line[0] = f
  /\ \A i \in 0 .. n - 1 : line[i].from = line[i + 1].id
  /\ \A i \in 1 .. n : line[i].id \in Before(f.id)
  /\ \A i, j \in 0 .. n : line[i] = line[j] => i = j

\* A line grows by a fork of its lowest session.
LEMMA OneMoreAbove ==
  ASSUME NEW d, NEW n \in Nat, NEW f \in Index!Listed(d), NEW p \in Index!Listed(d),
         f.id \in Ids, f.from = p.id, p.id \in Before(f.id),
         NEW line, Above(d, n, p, line)
  PROVE  \E longer : Above(d, n + 1, f, longer)
<1> DEFINE longer == [i \in 0 .. n + 1 |-> IF i = 0 THEN f ELSE line[i - 1]]
<1>1. /\ p.id \in Ids /\ Before(p.id) \subseteq Before(f.id) /\ f.id \notin Before(f.id)
  BY BeforeFacts
<1>2. /\ line \in [0 .. n -> Index!Listed(d)] /\ line[0] = p
      /\ \A i \in 0 .. n - 1 : line[i].from = line[i + 1].id
      /\ \A i \in 1 .. n : line[i].id \in Before(p.id)
      /\ \A i, j \in 0 .. n : line[i] = line[j] => i = j
  BY DEF Above
<1>3. longer[0] = f /\ \A i \in 1 .. n + 1 : longer[i] = line[i - 1] /\ i - 1 \in 0 .. n
  OBVIOUS
<1>4. longer \in [0 .. n + 1 -> Index!Listed(d)]
  BY <1>2
<1> HIDE DEF longer
<1>5. \A i \in 0 .. n : line[i].id \in Before(f.id)
  <2> TAKE i \in 0 .. n
  <2>1. CASE i = 0
    BY <1>2, <2>1
  <2>2. CASE i # 0
    BY <1>1, <1>2, <2>2
  <2> QED
    BY <2>1, <2>2
<1>6. \A i \in 0 .. n : longer[i].from = longer[i + 1].id
  <2> TAKE i \in 0 .. n
  <2>1. CASE i = 0
    BY <1>2, <1>3, <2>1
  <2>2. CASE i # 0
    <3>1. longer[i] = line[i - 1] /\ longer[i + 1] = line[(i - 1) + 1] /\ i - 1 \in 0 .. n - 1
      BY <1>3, <2>2
    <3> QED
      BY <1>2, <3>1
  <2> QED
    BY <2>1, <2>2
<1>7. \A i \in 1 .. n + 1 : longer[i].id \in Before(f.id) /\ longer[i] # longer[0]
  BY <1>1, <1>3, <1>5
<1>8. \A i, j \in 0 .. n + 1 : longer[i] = longer[j] => i = j
  <2> SUFFICES ASSUME NEW i \in 0 .. n + 1, NEW j \in 0 .. n + 1, longer[i] = longer[j]
               PROVE  i = j
    OBVIOUS
  <2>1. CASE i = 0 \/ j = 0
    BY <1>7, <2>1
  <2>2. CASE i # 0 /\ j # 0
    <3>1. line[i - 1] = line[j - 1] /\ i - 1 \in 0 .. n /\ j - 1 \in 0 .. n
      BY <1>3, <2>2
    <3>2. i - 1 = j - 1
      BY <1>2, <3>1
    <3> QED
      BY <3>2
  <2> QED
    BY <2>1, <2>2
<1>9. Above(d, n + 1, f, longer)
  <2>1. (n + 1) - 1 = n
    OBVIOUS
  <2> QED
    BY <1>3, <1>4, <1>6, <1>7, <1>8, <2>1 DEF Above
<1> QED
  BY <1>9

\* What level n does not show has more than n others above it.
LEMMA LeftOutIsDeep ==
  ASSUME IndexInv, NEW d, NEW m \in Nat, NEW g, Shows(d, m, g)
  PROVE  \A n \in 0 .. m :
           /\ g[n] \subseteq Index!Listed(d)
           /\ \A f \in Index!Listed(d) \ g[n] : \E line : Above(d, n + 1, f, line)
<1> DEFINE Level(n) ==
             /\ Index!Roots(d) \subseteq g[n] /\ g[n] \subseteq Index!Listed(d)
             /\ \A f \in Index!Listed(d) \ g[n] : \E line : Above(d, n + 1, f, line)
           T == {n \in Nat : n <= m => Level(n)}
<1>1. g[0] = Index!Roots(d) /\ \A n \in 1 .. m : g[n] = Under(d, g[n - 1])
  BY ShowsValue
<1>2. ASSUME NEW f \in Index!Listed(d), f \notin Index!Roots(d)
      PROVE  /\ f.id \in Ids
             /\ \E p \in Index!Listed(d) : f.from = p.id /\ p.id \in Before(f.id)
  <2>1. f \in files /\ f \in SessionFile /\ f.id \in Ids /\ f.from \in Ids \cup {0}
    BY DEF Index!Listed, IndexInv, SessionFile
  <2>2. PICK p \in Index!Listed(d) : p.id = f.from
    BY <1>2 DEF Index!Roots
  <2>3. p.id \in Ids
    BY <2>2 DEF Index!Listed, IndexInv, SessionFile
  <2>4. f.from # 0 /\ f.id # Imported /\ (f.from = Imported \/ f.from < f.id)
    BY <2>1, <2>2, <2>3, ImportedIsAnId DEF IndexInv
  <2>5. p.id \in Before(f.id)
    BY <2>2, <2>3, <2>4 DEF Before
  <2> QED
    BY <2>1, <2>2, <2>5
<1>3. Index!Roots(d) \subseteq Index!Listed(d)
  BY DEF Index!Roots
<1>4. 0 \in T
  <2>1. ASSUME NEW f \in Index!Listed(d), f \notin g[0]
        PROVE  \E line : Above(d, 0 + 1, f, line)
    <3>1. PICK p \in Index!Listed(d) : f.from = p.id /\ p.id \in Before(f.id)
      BY <1>1, <1>2, <2>1
    <3> DEFINE line == [i \in 0 .. 0 |-> p]
    <3>2. Above(d, 0, p, line)
      BY DEF Above
    <3>3. f.id \in Ids /\ 0 \in Nat
      BY <1>1, <1>2, <2>1
    <3> HIDE DEF line
    <3> QED
      BY <3>1, <3>2, <3>3, OneMoreAbove
  <2> QED
    BY <1>1, <1>3, <2>1
<1>5. ASSUME NEW n \in Nat, n \in T PROVE n + 1 \in T
  <2> SUFFICES ASSUME n + 1 <= m PROVE Level(n + 1)
    OBVIOUS
  <2>1. g[n + 1] = Under(d, g[n]) /\ Level(n)
    <3>1. n + 1 \in 1 .. m /\ (n + 1) - 1 = n /\ n <= m
      OBVIOUS
    <3> QED
      BY <1>1, <1>5, <3>1
  <2>2. Index!Roots(d) \subseteq g[n + 1] /\ g[n + 1] \subseteq Index!Listed(d)
    BY <2>1 DEF Under
  <2>3. ASSUME NEW f \in Index!Listed(d), f \notin g[n + 1]
        PROVE  \E line : Above(d, (n + 1) + 1, f, line)
    <3>1. f \notin Index!Roots(d)
      BY <2>2, <2>3
    <3>2. PICK p \in Index!Listed(d) : f.from = p.id /\ p.id \in Before(f.id)
      BY <1>2, <3>1
    <3>3. p \notin g[n]
      BY <2>1, <2>3, <3>1, <3>2 DEF Under
    <3>4. PICK line : Above(d, n + 1, p, line)
      BY <2>1, <3>3
    <3>5. f.id \in Ids /\ n + 1 \in Nat
      BY <1>2, <3>1
    <3> QED
      BY <3>2, <3>4, <3>5, OneMoreAbove
  <2> QED
    BY <2>2, <2>3
<1> HIDE DEF T
<1>6. \A n \in Nat : n \in T
  BY <1>4, <1>5, NumberInduction
<1> QED
  BY <1>6 DEF T

LEMMA TreeIsCutBelow ==
  ASSUME IndexInv, NEW d
  PROVE  /\ Index!Tree(d) \subseteq Index!Listed(d)
         /\ \A f \in Index!Listed(d) \ Index!Tree(d) : Index!IsTooDeep(d, f)
<1> DEFINE C == CHOOSE g : Shows(d, MaxDepth, g)
<1>1. Shows(d, MaxDepth, C)
  BY DepthIsNat, SomethingShows
<1>2. Index!Tree(d) = C[MaxDepth]
  BY DEF Index!Tree, Shows, Under
<1> HIDE DEF C
<1>3. MaxDepth \in 0 .. MaxDepth /\ (MaxDepth + 1) - 1 = MaxDepth
  BY DepthIsNat
<1>4. /\ C[MaxDepth] \subseteq Index!Listed(d)
      /\ \A f \in Index!Listed(d) \ C[MaxDepth] : \E line : Above(d, MaxDepth + 1, f, line)
  BY <1>1, <1>3, DepthIsNat, LeftOutIsDeep
<1>5. ASSUME NEW f, NEW line, Above(d, MaxDepth + 1, f, line)
      PROVE  Index!IsTooDeep(d, f)
  <2>1. /\ line \in [0 .. MaxDepth + 1 -> Index!Listed(d)]
        /\ line[0] = f
        /\ \A n \in 0 .. MaxDepth : line[n].from = line[n + 1].id
        /\ \A i, j \in 0 .. MaxDepth + 1 : line[i] = line[j] => i = j
    BY <1>3, <1>5 DEF Above
  <2> QED
    BY <2>1 DEF Index!IsTooDeep
<1> QED
  BY <1>2, <1>4, <1>5

LEMMA IndexIsSound == IndexInv => SessionsAreFound
<1> SUFFICES ASSUME IndexInv PROVE Index!SessionsAreFound
  BY DEF SessionsAreFound
<1>1. ASSUME NEW k \in DOMAIN index, index[k].whole,
             Index!Exists(index[k].dir, index[k].id),
             \A j \in DOMAIN index :
               (index[j].whole /\ index[j].id = index[k].id) => j <= k,
             NEW d \in Dirs
      PROVE  \/ Index!Local(d, index[k].id) # {}
             \/ Index!Named(d, index[k].id) # {}
             \/ index[k] \in Index!Answers(d, index[k].id)
  <2>1. index[k] \in Index!Load
    BY <1>1 DEF Index!Load, Index!Read
  <2> QED
    BY <1>1, <2>1 DEF Index!Find, Index!Answers
<1>2. ASSUME NEW d \in Dirs, NEW what \in Ids \cup Aliases, NEW found \in Index!Answers(d, what)
      PROVE  \E f \in files :
               f.dir = found.dir /\ f.id = found.id /\ what \in {f.id, f.name}
  <2>1. CASE found \in Index!Local(d, what)
    BY <2>1 DEF Index!Local
  <2>2. CASE found \in Index!Named(d, what)
    BY <2>2 DEF Index!Named
  <2>3. CASE found \in Index!Find(what)
    BY <2>3 DEF Index!Find, Index!Exists
  <2> QED
    BY <1>2, <2>1, <2>2, <2>3 DEF Index!Answers
<1>3. \A d \in Dirs :
        /\ Index!Tree(d) \subseteq Index!Listed(d)
        /\ \A f \in Index!Listed(d) \ Index!Tree(d) : Index!IsTooDeep(d, f)
  BY TreeIsCutBelow
<1> QED
  BY <1>1, <1>2, <1>3 DEF Index!SessionsAreFound

-----------------------------------------------------------------------------
(* The edits *)

(***************************************************************************)
(* The tools that change a file.  HeldInv: a worker that has opened a      *)
(* temporary file is the only one that knows its inode, it is under no     *)
(* other name, and it has what the worker has written so far.  NamedInv:   *)
(* no two workers go by the same name.  KeptInv: a file that was never     *)
(* deleted has the mode that it had.                                       *)
(***************************************************************************)
Values == Parts \cup {Edits!Hole}
Texts == {t \in Seq(Values) : Len(t) <= 2}
Inodes == [inode : Nat, text : Texts, mode : {"none", "default", "own"}]

Filling == {"fill", "fill_rest", "mode", "place"}
Naming == {"open", "reopen"} \cup Filling
Writing == {"write", "write_rest", "edit"} \cup Naming

TempNames == {<<p, n>> : p \in Pids, n \in Nanos}
Turns ==
  [at : {"idle"} \cup Writing, seen : Texts \cup {Edits!Unread},
   text : Texts \cup {Edits!Unread}, temp : {<<>>} \cup TempNames, inode : Nat]

Holds(w) == turn[w].at \in Filling
NamesTemp(w) == turn[w].at \in Naming

EditsTyped ==
  /\ pid \in [Workers -> Pids]
  /\ file \in Inodes
  /\ IsFiniteSet(DOMAIN temps) /\ temps \in [DOMAIN temps -> Inodes]
  /\ turn \in [Workers -> Turns]
  /\ deletions \in Nat
  /\ \A w \in Workers : turn[w].at \in Writing => turn[w].text \in Texts /\ turn[w].text # <<>>

\* What a worker has filled its temporary file with.
FilledTo(t, text) ==
  /\ t.at = "fill" => text = <<>>
  /\ t.at = "fill_rest" => text = <<t.text[1]>>
  /\ t.at \in {"mode", "place"} => text = t.text

HeldInv(w) == Holds(w) =>
  /\ turn[w].temp \in DOMAIN temps
  /\ temps[turn[w].temp].inode = turn[w].inode
  /\ turn[w].inode # 0 /\ turn[w].inode # file.inode
  /\ \A n \in DOMAIN temps : temps[n].inode = turn[w].inode => n = turn[w].temp
  /\ \A v \in Workers : turn[v].inode = turn[w].inode => v = w
  /\ FilledTo(turn[w], temps[turn[w].temp].text)
  /\ deletions = 0 /\ turn[w].at = "place" => temps[turn[w].temp].mode = "own"

NamedInv(w) == NamesTemp(w) =>
  /\ turn[w].temp \in {<<pid[w], n>> : n \in Nanos}
  /\ \A v \in Workers : NamesTemp(v) /\ turn[v].temp = turn[w].temp => v = w

KeptInv == deletions = 0 => file.mode = "own"

EditsInv ==
  /\ EditsTyped
  /\ \A w \in Workers : HeldInv(w) /\ NamedInv(w)
  /\ KeptInv

LEMMA IdleTyped ==
  /\ Edits!Idle \in Turns /\ Edits!Idle.at = "idle" /\ Edits!Idle.inode = 0
BY DEF Edits!Idle, Turns, Writing, Naming

\* A text of two parts, and one that is written from its beginning on.
LEMMA TextFacts ==
  /\ <<>> \in Texts
  /\ \A v \in Parts : <<v, v>> \in Texts /\ <<v, v>> # <<>>
BY EmptySeq DEF Texts, Values

LEMMA EditedText ==
  ASSUME NEW t \in Texts, t # <<>>, NEW v \in Parts
  PROVE  Edits!Edited(t, v) \in Texts /\ Edits!Edited(t, v) # <<>>
<1>1. t \in Seq(Values) /\ Len(t) \in Nat /\ Len(t) <= 2 /\ Len(t) # 0 /\ v \in Values
  BY EmptySeq DEF Texts, Values
<1>2. /\ [t EXCEPT ![1] = v] \in Seq(Values)
      /\ Len([t EXCEPT ![1] = v]) = Len(t)
  BY <1>1, ExceptSeq
<1> QED
  BY <1>1, <1>2, EmptySeq DEF Edits!Edited, Texts

LEMMA WrittenText ==
  ASSUME NEW t \in Texts, NEW n \in {1, 2}, NEW v \in Values
  PROVE  Edits!Written(t, n, v) \in Texts
<1> DEFINE m == IF Len(t) < n THEN n ELSE Len(t)
<1>1. t \in Seq(Values) /\ Len(t) \in Nat /\ Len(t) <= 2 /\ m \in Nat /\ m <= 2
  BY LenProperties DEF Texts
<1>2. \A i \in 1 .. m : (IF i = n THEN v ELSE IF i <= Len(t) THEN t[i] ELSE Edits!Hole) \in Values
  BY <1>1 DEF Values
<1>3. Edits!Written(t, n, v)
        = [i \in 1 .. m |-> IF i = n THEN v ELSE IF i <= Len(t) THEN t[i] ELSE Edits!Hole]
  BY DEF Edits!Written
<1> HIDE DEF m
<1>4. Edits!Written(t, n, v) \in Seq(Values) /\ Len(Edits!Written(t, n, v)) = m
  BY <1>1, <1>2, <1>3
<1> QED
  BY <1>1, <1>4 DEF Texts

\* The first part, and then the second one, make the text.
LEMMA FilledText ==
  ASSUME NEW t \in Texts, t # <<>>
  PROVE  /\ 1 \in DOMAIN t
         /\ Edits!Written(<<>>, 1, t[1]) = <<t[1]>>
         /\ 2 \in DOMAIN t => Edits!Written(<<t[1]>>, 2, t[2]) = t
         /\ 2 \notin DOMAIN t => <<t[1]>> = t
<1>1. /\ t \in Seq(Values) /\ Len(t) \in {1, 2} /\ DOMAIN t = 1 .. Len(t)
      /\ t = [i \in 1 .. Len(t) |-> t[i]]
  <2>1. t \in Seq(Values) /\ Len(t) <= 2
    BY DEF Texts
  <2>2. Len(t) \in Nat \ {0}
    BY <2>1, EmptySeq
  <2>3. DOMAIN t = 1 .. Len(t) /\ t \in [1 .. Len(t) -> Values]
    BY <2>1, LenProperties
  <2> QED
    BY <2>1, <2>2, <2>3
<1>2. Edits!Written(<<>>, 1, t[1]) = <<t[1]>>
  BY DEF Edits!Written
<1>3. ASSUME Len(t) = 2 PROVE Edits!Written(<<t[1]>>, 2, t[2]) = t
  <2> DEFINE u == Edits!Written(<<t[1]>>, 2, t[2])
  <2>1. u = [i \in 1 .. 2 |-> IF i = 2 THEN t[2] ELSE IF i <= 1 THEN t[1] ELSE Edits!Hole]
    BY DEF Edits!Written
  <2>2. u = [i \in 1 .. 2 |-> t[i]]
    BY <2>1
  <2> HIDE DEF u
  <2> QED
    BY <1>1, <1>3, <2>2 DEF u
<1>4. ASSUME Len(t) = 1 PROVE <<t[1]>> = t
  BY <1>1, <1>4
<1> QED
  BY <1>1, <1>2, <1>3, <1>4

LEMMA FiniteImage ==
  ASSUME NEW S, IsFiniteSet(S), NEW f, DOMAIN f = S
  PROVE  IsFiniteSet({f[x] : x \in S})
<1> DEFINE T == {f[x] : x \in S}
           g == [x \in S |-> f[x]]
<1>1. g \in Surjection(S, T)
  BY DEF Surjection
<1> QED
  BY <1>1, FS_Surjection

\* A fresh inode is one that nobody has.
LEMMA FreshFacts ==
  ASSUME EditsTyped
  PROVE  Edits!Fresh \in Nat /\ Edits!Fresh \notin Edits!Used
<1> DEFINE A == {temps[n].inode : n \in DOMAIN temps}
           B == {turn[w].inode : w \in Workers}
           U == Edits!Used
           m == Cardinality(U)
<1>1. IsFiniteSet(A)
  <2> DEFINE f == [n \in DOMAIN temps |-> temps[n].inode]
  <2>1. IsFiniteSet({f[n] : n \in DOMAIN temps})
    BY FiniteImage DEF EditsTyped
  <2> QED
    BY <2>1
<1>2. IsFiniteSet(B)
  <2> DEFINE f == [w \in Workers |-> turn[w].inode]
  <2>1. IsFiniteSet({f[w] : w \in Workers})
    BY FiniteImage, WorkersAreFew
  <2> QED
    BY <2>1
<1>3. IsFiniteSet({0, file.inode})
  <2>1. IsFiniteSet({0}) /\ {0, file.inode} = {0} \cup {file.inode}
    BY FS_Singleton
  <2> QED
    BY <2>1, FS_AddElement
<1>4. U = ({0, file.inode} \cup A) \cup B
  BY DEF Edits!Used
<1> HIDE DEF A, B, U
<1>5. IsFiniteSet(U)
  BY <1>1, <1>2, <1>3, <1>4, FS_Union
<1>6. m \in Nat
  BY <1>5, FS_CardinalityType
<1> HIDE DEF m
<1>7. \E i \in 0 .. m : i \notin U
  <2> SUFFICES ASSUME 0 .. m \subseteq U PROVE FALSE
    OBVIOUS
  <2>1. Cardinality(0 .. m) = m + 1
    BY <1>6, FS_Interval
  <2>2. Cardinality(0 .. m) <= Cardinality(U)
    BY <1>5, FS_Subset
  <2> QED
    BY <1>6, <2>1, <2>2 DEF m
<1>8. Edits!Fresh = CHOOSE i \in 0 .. m : i \notin U
  <2>1. Edits!Cardinality(Edits!Used) = m
    BY DEF Edits!Cardinality, Cardinality, m, U
  <2> QED
    BY <2>1 DEF Edits!Fresh, U
<1>9. Edits!Fresh \in 0 .. m /\ Edits!Fresh \notin U
  BY <1>7, <1>8
<1> QED
  BY <1>6, <1>9 DEF U

LEMMA FreshIsNobodys ==
  ASSUME EditsTyped
  PROVE  /\ Edits!Fresh \in Nat /\ Edits!Fresh # 0 /\ Edits!Fresh # file.inode
         /\ \A n \in DOMAIN temps : temps[n].inode # Edits!Fresh
         /\ \A w \in Workers : turn[w].inode # Edits!Fresh
<1> DEFINE i == Edits!Fresh
<1>1. i \in Nat /\ i \notin Edits!Used
  BY FreshFacts
<1> HIDE DEF i
<1> QED
  BY <1>1 DEF Edits!Used, i

LEMMA CreatedFacts ==
  ASSUME NEW i \in Nat
  PROVE  /\ Edits!Created(i) \in Inodes /\ Edits!Created(i).inode = i
         /\ Edits!Created(i).text = <<>>
BY TextFacts DEF Edits!Created, Inodes

LEMMA InitEdits == Edits!Init => EditsInv
<1> SUFFICES ASSUME Edits!Init PROVE EditsInv
  OBVIOUS
<1> DEFINE v == CHOOSE u \in Parts : TRUE
<1>1. v \in Parts
  BY PartsAreSome
<1>2. file = [inode |-> 1, text |-> <<v, v>>, mode |-> "own"]
  BY DEF Edits!Init
<1> HIDE DEF v
<1>3. file \in Inodes /\ file.mode = "own"
  BY <1>1, <1>2, TextFacts DEF Inodes
<1>4. pid \in [Workers -> Pids] /\ deletions = 0
  BY DEF Edits!Init
<1>5. turn \in [Workers -> Turns] /\ \A w \in Workers : turn[w].at = "idle"
  BY IdleTyped DEF Edits!Init
<1>6. IsFiniteSet(DOMAIN temps) /\ temps \in [DOMAIN temps -> Inodes]
  <2>1. CASE temps = <<>>
    BY <2>1, FS_EmptySet
  <2>2. CASE temps # <<>>
    <3>1. PICK x : temps = [n \in {x} |-> Edits!Created(2)]
      BY <2>2 DEF Edits!Init
    <3>2. IsFiniteSet({x})
      BY FS_Singleton
    <3> QED
      BY <3>1, <3>2, CreatedFacts
  <2> QED
    BY <2>1, <2>2
<1>7. \A w \in Workers : ~Holds(w) /\ ~NamesTemp(w) /\ turn[w].at \notin Writing
  BY <1>5 DEF Holds, NamesTemp, Filling, Naming, Writing
<1> QED
  BY <1>3, <1>4, <1>5, <1>6, <1>7 DEF EditsInv, EditsTyped, HeldInv, NamedInv, KeptInv

-----------------------------------------------------------------------------
(* What a step of a worker leaves alone *)

\* Only the turn of w changes, to q.
Alone(w, q) == turn' = [turn EXCEPT ![w] = q] /\ pid' = pid

LEMMA AloneFacts ==
  ASSUME EditsTyped, NEW w \in Workers, NEW q, Alone(w, q)
  PROVE  turn'[w] = q /\ \A v \in Workers : v # w => turn'[v] = turn[v]
BY DEF EditsTyped, Alone

LEMMA AloneTyped ==
  ASSUME EditsTyped, NEW w \in Workers, NEW q \in Turns, Alone(w, q),
         q.at \in Writing => q.text \in Texts /\ q.text # <<>>,
         file' \in Inodes, IsFiniteSet(DOMAIN temps'), temps' \in [DOMAIN temps' -> Inodes],
         deletions' \in Nat
  PROVE  EditsTyped'
<1>1. turn'[w] = q /\ \A v \in Workers : v # w => turn'[v] = turn[v]
  BY AloneFacts
<1>2. turn' \in [Workers -> Turns]
  BY DEF Alone, EditsTyped
<1> QED
  BY <1>1, <1>2 DEF EditsTyped, Alone

\* What the step must leave to another worker that holds a temporary file.
Spares(v, w) == Holds(v) =>
  /\ turn'[w].inode # turn[v].inode
  /\ file'.inode # turn[v].inode
  /\ turn[v].temp \in DOMAIN temps'
  /\ temps'[turn[v].temp] = temps[turn[v].temp]
  /\ \A n \in DOMAIN temps' : temps'[n].inode = turn[v].inode => n = turn[v].temp
  /\ deletions' = 0 => deletions = 0

LEMMA SparedHolds ==
  ASSUME EditsInv, NEW w \in Workers, NEW q, Alone(w, q),
         NEW v \in Workers, v # w, Spares(v, w)
  PROVE  HeldInv(v)'
<1>1. turn'[w] = q /\ \A u \in Workers : u # w => turn'[u] = turn[u]
  BY AloneFacts DEF EditsInv
<1>2. SUFFICES ASSUME Holds(v) PROVE HeldInv(v)'
  BY <1>1 DEF HeldInv, Holds
<1>3. HeldInv(v) /\ turn'[v] = turn[v]
  BY <1>1 DEF EditsInv
<1>4. \A u \in Workers : turn'[u].inode = turn'[v].inode => u = v
  BY <1>1, <1>2, <1>3 DEF HeldInv, Spares
<1> QED
  BY <1>2, <1>3, <1>4 DEF HeldInv, Spares

\* A worker that keeps its name, or has none any more, disturbs no name.
LEMMA NamesKept ==
  ASSUME EditsInv, NEW w \in Workers, NEW q, Alone(w, q),
         q.at \in Naming => NamesTemp(w) /\ q.temp = turn[w].temp
  PROVE  \A v \in Workers : NamedInv(v)'
<1>1. turn'[w] = q /\ \A u \in Workers : u # w => turn'[u] = turn[u]
  BY AloneFacts DEF EditsInv
<1>2. \A u \in Workers : NamesTemp(u)' => NamesTemp(u) /\ turn'[u].temp = turn[u].temp
  BY <1>1 DEF NamesTemp
<1>3. pid' = pid /\ \A u \in Workers : NamedInv(u)
  BY DEF Alone, EditsInv
<1> QED
  BY <1>2, <1>3 DEF NamedInv

\* The end of what w does, when nothing else changes.
Quiet(w, q) ==
  /\ q \in Turns /\ Alone(w, q)
  /\ q.at \notin Naming
  /\ q.inode = 0 \/ (q.inode = turn[w].inode /\ ~Holds(w))
  /\ q.at \in Writing => q.text \in Texts /\ q.text # <<>>
  /\ UNCHANGED <<file, temps, deletions>>

LEMMA QuietKeepsEdits ==
  ASSUME EditsInv, NEW w \in Workers, NEW q, Quiet(w, q)
  PROVE  EditsInv'
<1> USE DEF Quiet
<1>1. turn'[w] = q /\ \A u \in Workers : u # w => turn'[u] = turn[u]
  BY AloneFacts DEF EditsInv
<1>2. EditsTyped'
  BY AloneTyped DEF EditsInv, EditsTyped
<1>3. \A v \in Workers : NamedInv(v)'
  BY NamesKept
<1>4. ~Holds(w)'
  BY <1>1 DEF Holds, Naming
<1>5. ASSUME NEW v \in Workers, v # w PROVE HeldInv(v)'
  <2>1. HeldInv(v)
    BY DEF EditsInv
  <2>2. Spares(v, w)
    BY <1>1, <1>5, <2>1 DEF Spares, HeldInv
  <2> QED
    BY <1>5, <2>2, SparedHolds
<1>6. HeldInv(w)'
  BY <1>4 DEF HeldInv
<1> QED
  BY <1>2, <1>3, <1>5, <1>6 DEF EditsInv, KeptInv

\* A step of w that spares the others, and leaves w and the file in order.
LEMMA StepKeepsEdits ==
  ASSUME EditsInv, NEW w \in Workers, NEW q \in Turns, Alone(w, q),
         q.at \in Writing => q.text \in Texts /\ q.text # <<>>,
         file' \in Inodes, IsFiniteSet(DOMAIN temps'), temps' \in [DOMAIN temps' -> Inodes],
         deletions' \in Nat,
         \A v \in Workers : v # w => Spares(v, w),
         \A v \in Workers : NamedInv(v)',
         HeldInv(w)', KeptInv'
  PROVE  EditsInv'
<1>1. EditsTyped'
  BY AloneTyped DEF EditsInv
<1>2. ASSUME NEW v \in Workers, v # w PROVE HeldInv(v)'
  <2>1. Spares(v, w)
    BY <1>2
  <2> QED
    BY <1>2, <2>1, SparedHolds
<1> QED
  BY <1>1, <1>2 DEF EditsInv

LEMMA EndedFacts ==
  ASSUME NEW s \in Texts \cup {Edits!Unread}
  PROVE  /\ [Edits!Idle EXCEPT !.seen = s] \in Turns
         /\ [Edits!Idle EXCEPT !.seen = s].at = "idle"
         /\ [Edits!Idle EXCEPT !.seen = s].inode = 0
BY DEF Edits!Idle, Turns, Writing, Naming

\* What is left when some names are removed.
LEMMA WithoutFacts ==
  ASSUME EditsTyped, NEW X, temps' = Edits!Without(X)
  PROVE  /\ DOMAIN temps' = DOMAIN temps \ X
         /\ \A n \in DOMAIN temps' : temps'[n] = temps[n]
         /\ IsFiniteSet(DOMAIN temps') /\ temps' \in [DOMAIN temps' -> Inodes]
<1>1. /\ DOMAIN temps' = DOMAIN temps \ X
      /\ \A n \in DOMAIN temps' : temps'[n] = temps[n]
      /\ temps' = [n \in DOMAIN temps \ X |-> temps[n]]
  BY DEF Edits!Without
<1>2. IsFiniteSet(DOMAIN temps')
  BY <1>1, FS_Subset DEF EditsTyped
<1> QED
  BY <1>1, <1>2 DEF EditsTyped

\* What a write of w does to an inode.
Touched(w, n, f) ==
  IF f.inode = turn[w].inode /\ n \in DOMAIN turn[w].text
  THEN [f EXCEPT !.text = Edits!Written(f.text, n, turn[w].text[n])]
  ELSE f

LEMMA TouchedFacts ==
  ASSUME EditsTyped, NEW w \in Workers, turn[w].at \in Writing, NEW n \in {1, 2},
         NEW f \in Inodes
  PROVE  /\ Touched(w, n, f) \in Inodes
         /\ Touched(w, n, f).inode = f.inode /\ Touched(w, n, f).mode = f.mode
         /\ f.inode # turn[w].inode => Touched(w, n, f) = f
         /\ f.inode = turn[w].inode =>
              Touched(w, n, f).text = IF n \in DOMAIN turn[w].text
                                      THEN Edits!Written(f.text, n, turn[w].text[n])
                                      ELSE f.text
<1> DEFINE t == turn[w].text
           u == Edits!Written(f.text, n, t[n])
<1>1. f.text \in Texts
  BY DEF Inodes
<1>2. t \in Seq(Values)
  BY DEF EditsTyped, Texts
<1>3. n \in DOMAIN t => t[n] \in Values
  BY <1>2, LenProperties
<1>4. n \in DOMAIN t => u \in Texts
  BY <1>1, <1>3, WrittenText
<1>5. Touched(w, n, f) = IF f.inode = turn[w].inode /\ n \in DOMAIN t
                         THEN [f EXCEPT !.text = u] ELSE f
  BY DEF Touched
<1> HIDE DEF u
<1>6. Touched(w, n, f) \in Inodes
  BY <1>4, <1>5 DEF Inodes
<1>7. /\ Touched(w, n, f).inode = f.inode /\ Touched(w, n, f).mode = f.mode
      /\ f.inode # turn[w].inode => Touched(w, n, f) = f
      /\ f.inode = turn[w].inode =>
           Touched(w, n, f).text = IF n \in DOMAIN t THEN u ELSE f.text
  BY <1>5 DEF Inodes
<1> QED
  BY <1>6, <1>7 DEF u

LEMMA PartFacts ==
  ASSUME EditsTyped, NEW w \in Workers, turn[w].at \in Writing, NEW n \in {1, 2},
         Edits!WritePart(w, n)
  PROVE  /\ file' \in Inodes /\ file'.inode = file.inode /\ file'.mode = file.mode
         /\ DOMAIN temps' = DOMAIN temps /\ temps' \in [DOMAIN temps' -> Inodes]
         /\ IsFiniteSet(DOMAIN temps')
         /\ \A m \in DOMAIN temps :
              temps[m] \in Inodes /\ temps'[m] = Touched(w, n, temps[m])
<1>1. file' = Touched(w, n, file) /\ temps' = [m \in DOMAIN temps |-> Touched(w, n, temps[m])]
  BY DEF Edits!WritePart, Touched
<1>2. file \in Inodes /\ \A m \in DOMAIN temps : temps[m] \in Inodes
  BY DEF EditsTyped
<1>3. \A m \in DOMAIN temps : Touched(w, n, temps[m]) \in Inodes
  BY <1>2, TouchedFacts
<1>4. file' \in Inodes /\ file'.inode = file.inode /\ file'.mode = file.mode
  BY <1>1, <1>2, TouchedFacts
<1>5. IsFiniteSet(DOMAIN temps') /\ DOMAIN temps' = DOMAIN temps
  BY <1>1 DEF EditsTyped
<1> QED
  BY <1>1, <1>2, <1>3, <1>4, <1>5

\* A write of w goes past what another worker holds.
LEMMA PartSpares ==
  ASSUME EditsInv, NEW w \in Workers, turn[w].at \in Writing, NEW n \in {1, 2},
         Edits!WritePart(w, n), NEW q, Alone(w, q), q.inode \in {0, turn[w].inode},
         deletions' = deletions, NEW v \in Workers, v # w
  PROVE  Spares(v, w)
<1> SUFFICES ASSUME Holds(v) PROVE Spares(v, w)
  BY DEF Spares
<1>1. HeldInv(v) /\ EditsTyped
  BY DEF EditsInv
<1>2. turn[w].inode # turn[v].inode /\ turn[v].inode # 0 /\ file.inode # turn[v].inode
  BY <1>1 DEF HeldInv
<1>3. turn'[w].inode # turn[v].inode
  BY <1>1, <1>2, AloneFacts
<1>4. /\ file'.inode = file.inode /\ DOMAIN temps' = DOMAIN temps
      /\ \A m \in DOMAIN temps : temps[m] \in Inodes /\ temps'[m] = Touched(w, n, temps[m])
  BY <1>1, PartFacts
<1>5. \A m \in DOMAIN temps :
         /\ temps'[m].inode = temps[m].inode
         /\ temps[m].inode # turn[w].inode => temps'[m] = temps[m]
  BY <1>1, <1>4, TouchedFacts
<1>6. /\ turn[v].temp \in DOMAIN temps /\ temps[turn[v].temp].inode = turn[v].inode
      /\ \A m \in DOMAIN temps : temps[m].inode = turn[v].inode => m = turn[v].temp
  BY <1>1 DEF HeldInv
<1>7. temps'[turn[v].temp] = temps[turn[v].temp]
  BY <1>2, <1>5, <1>6
<1>8. \A m \in DOMAIN temps' : temps'[m].inode = turn[v].inode => m = turn[v].temp
  BY <1>4, <1>5, <1>6
<1> QED
  BY <1>2, <1>3, <1>4, <1>6, <1>7, <1>8 DEF Spares

-----------------------------------------------------------------------------
(* Reading, writing and deleting *)

LEMMA ReadKeepsEdits ==
  ASSUME EditsInv, NEW w \in Workers, Edits!Read(w)
  PROVE  EditsInv'
<1> DEFINE q == [Edits!Idle EXCEPT !.seen = file.text]
<1>1. file.text \in Texts
  BY DEF EditsInv, EditsTyped, Inodes
<1>2. q \in Turns /\ q.at = "idle" /\ q.inode = 0
  BY <1>1, EndedFacts
<1>3. Alone(w, q) /\ UNCHANGED <<file, temps, deletions>>
  BY DEF Edits!Read, Edits!Becomes, Alone, Edits!counters
<1> HIDE DEF q
<1>4. Quiet(w, q)
  BY <1>2, <1>3 DEF Quiet, Writing, Naming, Filling
<1> QED
  BY <1>4, QuietKeepsEdits

\* A worker that gives up what it writes.
LEMMA EndKeepsEdits ==
  ASSUME EditsInv, NEW w \in Workers, Edits!Ends(w), pid' = pid,
         UNCHANGED <<file, temps, deletions>>
  PROVE  EditsInv'
<1> DEFINE q == [Edits!Idle EXCEPT !.seen = turn[w].seen]
<1>1. turn[w].seen \in Texts \cup {Edits!Unread}
  BY DEF EditsInv, EditsTyped, Turns
<1>2. q \in Turns /\ q.at = "idle" /\ q.inode = 0
  BY <1>1, EndedFacts
<1>3. Alone(w, q)
  BY DEF Edits!Ends, Edits!Becomes, Alone
<1> HIDE DEF q
<1>4. Quiet(w, q)
  BY <1>2, <1>3 DEF Quiet, Writing, Naming, Filling
<1> QED
  BY <1>4, QuietKeepsEdits

LEMMA StartWriteKeepsEdits ==
  ASSUME EditsInv, NEW w \in Workers, NEW u \in Parts, Edits!StartWrite(w, <<u, u>>)
  PROVE  EditsInv'
<1> DEFINE f == IF Edits!IsThere THEN [file EXCEPT !.text = <<>>]
                ELSE Edits!Created(Edits!Fresh)
           t == <<u, u>>
           q == [turn[w] EXCEPT !.at = "write", !.text = t, !.inode = f.inode]
<1>1. /\ file' = f /\ Alone(w, q) /\ temps' = temps /\ deletions' = deletions
      /\ turn[w].at = "idle"
  BY DEF Edits!StartWrite, Edits!Becomes, Edits!Is, Alone
<1>2. t \in Texts /\ t # <<>> /\ EditsTyped
  BY TextFacts DEF EditsInv
<1> HIDE DEF t
<1>3. /\ f \in Inodes
      /\ \A v \in Workers : Holds(v) => f.inode # turn[v].inode
      /\ deletions = 0 => f.mode = "own"
  <2>1. \A v \in Workers : Holds(v) => file.inode # turn[v].inode
    BY DEF EditsInv, HeldInv
  <2>2. CASE Edits!IsThere
    BY <1>2, <2>1, <2>2, TextFacts DEF EditsInv, EditsTyped, KeptInv, Inodes
  <2>3. CASE ~Edits!IsThere
    <3>1. deletions # 0
      BY <2>3 DEF EditsInv, KeptInv, Edits!IsThere, Edits!NoFile
    <3>2. f = Edits!Created(Edits!Fresh)
      BY <2>3
    <3>3. f \in Inodes /\ f.inode = Edits!Fresh
      BY <1>2, <3>2, FreshIsNobodys, CreatedFacts
    <3> QED
      BY <1>2, <3>1, <3>3, FreshIsNobodys
  <2> QED
    BY <2>2, <2>3
<1> HIDE DEF f
<1>4. q \in Turns /\ q.at = "write" /\ q.text = t /\ q.inode = f.inode
  <2>1. turn[w] \in Turns /\ f.inode \in Nat
    BY <1>2, <1>3 DEF EditsTyped, Inodes
  <2> QED
    BY <1>2, <2>1 DEF Turns, Writing, Naming
<1> HIDE DEF q
<1>5. turn'[w] = q /\ \A v \in Workers : v # w => turn'[v] = turn[v]
  BY <1>1, <1>2, AloneFacts
<1>6. \A v \in Workers : v # w => Spares(v, w)
  BY <1>1, <1>3, <1>4, <1>5 DEF EditsInv, HeldInv, Spares
<1>7. \A v \in Workers : NamedInv(v)'
  BY <1>1, <1>4, NamesKept DEF Naming, Filling
<1>8. HeldInv(w)'
  BY <1>4, <1>5 DEF HeldInv, Holds, Filling
<1>9. KeptInv'
  BY <1>1, <1>3 DEF KeptInv
<1>10. /\ file' \in Inodes /\ IsFiniteSet(DOMAIN temps') /\ temps' \in [DOMAIN temps' -> Inodes]
       /\ deletions' \in Nat
  BY <1>1, <1>2, <1>3 DEF EditsTyped
<1> QED
  BY <1>1, <1>2, <1>4, <1>6, <1>7, <1>8, <1>9, <1>10, StepKeepsEdits

LEMMA WriteKeepsEdits ==
  ASSUME EditsInv, NEW w \in Workers, Edits!Write(w)
  PROVE  EditsInv'
<1>1. pid' = pid /\ deletions' = deletions /\ EditsTyped
  BY DEF Edits!Write, Edits!counters, EditsInv
<1>2. CASE Edits!Ends(w) /\ UNCHANGED <<file, temps>>
  BY <1>1, <1>2, EndKeepsEdits
<1>3. ASSUME NEW n \in {1, 2}, turn[w].at \in {"write", "write_rest"}, Edits!WritePart(w, n),
             NEW q \in Turns, q.at \in {"idle", "write_rest"}, q.inode \in {0, turn[w].inode},
             q.at = "write_rest" => q.text = turn[w].text, turn' = [turn EXCEPT ![w] = q]
      PROVE  EditsInv'
  <2>1. Alone(w, q) /\ turn[w].at \in Writing
    BY <1>1, <1>3 DEF Alone, Writing
  <2>2. turn'[w] = q /\ \A v \in Workers : v # w => turn'[v] = turn[v]
    BY <1>1, <2>1, AloneFacts
  <2>3. /\ file' \in Inodes /\ file'.inode = file.inode /\ file'.mode = file.mode
        /\ temps' \in [DOMAIN temps' -> Inodes] /\ IsFiniteSet(DOMAIN temps')
    BY <1>1, <1>3, <2>1, PartFacts
  <2>4. \A v \in Workers : v # w => Spares(v, w)
    BY <1>1, <1>3, <2>1, PartSpares
  <2>5. \A v \in Workers : NamedInv(v)'
    BY <1>3, <2>1, NamesKept DEF Naming, Filling
  <2>6. HeldInv(w)'
    BY <1>3, <2>2 DEF HeldInv, Holds, Filling
  <2>7. KeptInv'
    BY <1>1, <2>3 DEF EditsInv, KeptInv
  <2>8. q.at \in Writing => q.text \in Texts /\ q.text # <<>>
    BY <1>1, <1>3, <2>1 DEF EditsTyped, Writing, Naming, Filling
  <2>9. deletions' \in Nat
    BY <1>1 DEF EditsTyped
  <2> QED
    BY <2>1, <2>3, <2>4, <2>5, <2>6, <2>7, <2>8, <2>9, StepKeepsEdits
<1>4. CASE Edits!Is(w, "write") /\ Edits!WritePart(w, 1) /\ Edits!Goes(w, "write_rest")
  <2> DEFINE q == [turn[w] EXCEPT !.at = "write_rest"]
  <2>1. /\ q \in Turns /\ q.at = "write_rest" /\ q.inode = turn[w].inode
        /\ q.text = turn[w].text
    BY <1>1 DEF EditsTyped, Turns, Writing
  <2>2. turn' = [turn EXCEPT ![w] = q] /\ turn[w].at = "write"
    BY <1>1, <1>4 DEF EditsTyped, Edits!Goes, Edits!Is
  <2> HIDE DEF q
  <2> QED
    BY <1>3, <1>4, <2>1, <2>2
<1>5. CASE Edits!Is(w, "write_rest") /\ Edits!WritePart(w, 2) /\ Edits!Ends(w)
  <2> DEFINE q == [Edits!Idle EXCEPT !.seen = turn[w].seen]
  <2>1. turn[w].seen \in Texts \cup {Edits!Unread}
    BY <1>1 DEF EditsTyped, Turns
  <2>2. q \in Turns /\ q.at = "idle" /\ q.inode = 0
    BY <2>1, EndedFacts
  <2>3. turn' = [turn EXCEPT ![w] = q] /\ turn[w].at = "write_rest"
    BY <1>5 DEF Edits!Ends, Edits!Becomes, Edits!Is
  <2> HIDE DEF q
  <2> QED
    BY <1>3, <1>5, <2>2, <2>3
<1> QED
  BY <1>2, <1>4, <1>5 DEF Edits!Write

LEMMA DeleteKeepsEdits ==
  ASSUME EditsInv, NEW w \in Workers, Edits!Delete(w)
  PROVE  EditsInv'
<1> DEFINE q == turn[w]
<1>1. /\ turn' = turn /\ pid' = pid /\ temps' = temps /\ file' = Edits!NoFile
      /\ deletions' = deletions + 1 /\ turn[w].at = "idle" /\ EditsTyped
  BY DEF Edits!Delete, Edits!Is, EditsInv
<1>2. Edits!NoFile \in Inodes /\ Edits!NoFile.inode = 0
  BY TextFacts DEF Edits!NoFile, Inodes
<1>3. EditsTyped'
  BY <1>1, <1>2 DEF EditsTyped
<1>4. ASSUME NEW v \in Workers PROVE HeldInv(v)' /\ NamedInv(v)'
  <2>1. HeldInv(v) /\ NamedInv(v)
    BY DEF EditsInv
  <2>2. deletions' # 0
    BY <1>1 DEF EditsTyped
  <2>3. HeldInv(v)'
    BY <1>1, <1>2, <2>1, <2>2 DEF HeldInv, Holds
  <2>4. NamedInv(v)'
    BY <1>1, <2>1 DEF NamedInv, NamesTemp
  <2> QED
    BY <2>3, <2>4
<1>5. KeptInv'
  BY <1>1 DEF KeptInv, EditsTyped
<1> QED
  BY <1>3, <1>4, <1>5 DEF EditsInv

-----------------------------------------------------------------------------
(* Editing *)

LEMMA StartEditKeepsEdits ==
  ASSUME EditsInv, NEW w \in Workers, NEW u \in Parts, Edits!StartEdit(w, u)
  PROVE  EditsInv'
<1> DEFINE t == Edits!Edited(turn[w].seen, u)
           q == [turn[w] EXCEPT !.at = "edit", !.text = t]
<1>1. /\ Alone(w, q) /\ UNCHANGED <<file, temps, deletions>> /\ turn[w].at = "idle"
      /\ turn[w].seen = file.text /\ turn[w].seen # <<>>
  BY DEF Edits!StartEdit, Edits!Becomes, Edits!Is, Alone
<1>2. file.text \in Texts /\ turn[w] \in Turns
  BY DEF EditsInv, EditsTyped, Inodes
<1>3. t \in Texts /\ t # <<>>
  BY <1>1, <1>2, EditedText
<1> HIDE DEF t
<1>4. q \in Turns /\ q.at = "edit" /\ q.text = t /\ q.inode = turn[w].inode
  BY <1>2, <1>3 DEF Turns, Writing
<1> HIDE DEF q
<1>5. Quiet(w, q)
  BY <1>1, <1>3, <1>4 DEF Quiet, Writing, Naming, Filling, Holds
<1> QED
  BY <1>5, QuietKeepsEdits

LEMMA NameTempKeepsEdits ==
  ASSUME EditsInv, NEW w \in Workers, Edits!NameTemp(w)
  PROVE  EditsInv'
<1>1. PICK n \in Nanos :
        /\ \A v \in Workers \ {w} : turn[v].temp # <<pid[w], n>>
        /\ turn' = [turn EXCEPT ![w] = [turn[w] EXCEPT !.at = "open", !.temp = <<pid[w], n>>]]
  BY DEF Edits!NameTemp, Edits!Becomes, Edits!Temp
<1> DEFINE x == <<pid[w], n>>
           q == [turn[w] EXCEPT !.at = "open", !.temp = x]
<1>2. /\ Alone(w, q) /\ file' = file /\ deletions' = deletions /\ turn[w].at = "edit"
      /\ temps' = Edits!Without({<<pid[w], Legacy>>})
  BY <1>1 DEF Edits!NameTemp, Edits!Is, Edits!counters, Alone
<1>3. EditsTyped /\ turn[w] \in Turns /\ pid[w] \in Pids /\ x \in TempNames
  BY DEF EditsInv, EditsTyped, TempNames
<1>4. \A m \in Nanos : <<pid[w], m>> # <<pid[w], Legacy>>
  BY LegacyIsNoNano
<1>5. \A v \in Workers : NamesTemp(v) => turn[v].temp # <<pid[w], Legacy>>
  BY <1>4, LegacyIsNoNano DEF EditsInv, NamedInv
<1>6. \A v \in Workers : v # w => turn[v].temp # x
  BY <1>1
<1>7. x \in {<<pid[w], m>> : m \in Nanos}
  OBVIOUS
<1> HIDE DEF x
<1>8. /\ q \in Turns /\ q.at = "open" /\ q.text = turn[w].text /\ q.inode = turn[w].inode
      /\ q.temp = x
  BY <1>3 DEF Turns, Writing, Naming
<1> HIDE DEF q
<1>9. turn'[w] = q /\ \A v \in Workers : v # w => turn'[v] = turn[v]
  BY <1>2, <1>3, AloneFacts
<1>10. /\ DOMAIN temps' = DOMAIN temps \ {<<pid[w], Legacy>>}
       /\ \A m \in DOMAIN temps' : temps'[m] = temps[m]
       /\ IsFiniteSet(DOMAIN temps') /\ temps' \in [DOMAIN temps' -> Inodes]
  BY <1>2, <1>3, WithoutFacts
<1>11. ASSUME NEW v \in Workers, v # w PROVE Spares(v, w)
  <2> SUFFICES ASSUME Holds(v) PROVE Spares(v, w)
    BY DEF Spares
  <2>1. HeldInv(v) /\ NamesTemp(v)
    BY DEF EditsInv, Holds, NamesTemp, Naming
  <2>2. turn[v].temp \in DOMAIN temps'
    BY <1>5, <1>10, <2>1 DEF HeldInv
  <2> QED
    BY <1>2, <1>8, <1>9, <1>10, <1>11, <2>1, <2>2 DEF HeldInv, Spares
<1>12. \A v \in Workers : NamedInv(v)'
  <2>1. \A v \in Workers : v # w => (NamesTemp(v)' <=> NamesTemp(v))
    BY <1>9 DEF NamesTemp
  <2>2. pid' = pid /\ \A v \in Workers : NamedInv(v)
    BY <1>2 DEF Alone, EditsInv
  <2>3. NamedInv(w)'
    BY <1>6, <1>7, <1>8, <1>9, <2>2 DEF NamedInv
  <2>4. ASSUME NEW v \in Workers, v # w PROVE NamedInv(v)'
    BY <1>6, <1>8, <1>9, <2>1, <2>2, <2>4 DEF NamedInv
  <2> QED
    BY <2>3, <2>4
<1>13. HeldInv(w)'
  BY <1>8, <1>9 DEF HeldInv, Holds, Filling
<1>14. KeptInv' /\ file' \in Inodes /\ deletions' \in Nat
  BY <1>2, <1>3 DEF EditsInv, KeptInv, EditsTyped
<1>15. q.at \in Writing => q.text \in Texts /\ q.text # <<>>
  BY <1>2, <1>3, <1>8 DEF EditsTyped, Writing
<1> QED
  BY <1>2, <1>8, <1>10, <1>11, <1>12, <1>13, <1>14, <1>15, StepKeepsEdits

LEMMA OpenTempKeepsEdits ==
  ASSUME EditsInv, NEW w \in Workers, Edits!OpenTemp(w)
  PROVE  EditsInv'
<1> DEFINE name == turn[w].temp
           i == Edits!Fresh
           q == [turn[w] EXCEPT !.at = "fill", !.inode = i]
<1>1. /\ turn' = [turn EXCEPT ![w] = q] /\ pid' = pid /\ file' = file /\ deletions' = deletions
      /\ turn[w].at \in {"open", "reopen"} /\ name \notin DOMAIN temps
      /\ temps' = [n \in DOMAIN temps \cup {name} |->
                     IF n = name THEN Edits!Created(i) ELSE temps[n]]
  BY DEF Edits!OpenTemp, Edits!Becomes, Edits!counters
<1>2. EditsTyped /\ turn[w] \in Turns /\ Alone(w, q)
  BY <1>1 DEF EditsInv, EditsTyped, Alone
<1>3. /\ i \in Nat /\ i # 0 /\ i # file.inode
      /\ \A n \in DOMAIN temps : temps[n].inode # i
      /\ \A v \in Workers : turn[v].inode # i
  BY <1>2, FreshIsNobodys
<1> HIDE DEF i
<1>4. Edits!Created(i) \in Inodes /\ Edits!Created(i).inode = i /\ Edits!Created(i).text = <<>>
  BY <1>3, CreatedFacts
<1>5. /\ q \in Turns /\ q.at = "fill" /\ q.text = turn[w].text /\ q.inode = i /\ q.temp = name
  BY <1>2, <1>3 DEF Turns, Writing, Naming, Filling
<1> HIDE DEF q
<1>6. turn'[w] = q /\ \A v \in Workers : v # w => turn'[v] = turn[v]
  BY <1>2, AloneFacts
<1>7. /\ DOMAIN temps' = DOMAIN temps \cup {name}
      /\ temps'[name] = Edits!Created(i)
      /\ \A n \in DOMAIN temps : temps'[n] = temps[n]
  BY <1>1
<1>8. IsFiniteSet(DOMAIN temps') /\ temps' \in [DOMAIN temps' -> Inodes]
  BY <1>1, <1>2, <1>4, <1>7, FS_AddElement DEF EditsTyped
<1>9. ASSUME NEW v \in Workers, v # w PROVE Spares(v, w)
  <2> SUFFICES ASSUME Holds(v) PROVE Spares(v, w)
    BY DEF Spares
  <2>1. HeldInv(v)
    BY DEF EditsInv
  <2>2. turn[v].temp \in DOMAIN temps /\ turn[v].inode # i
    BY <1>3, <2>1 DEF HeldInv
  <2> QED
    BY <1>1, <1>4, <1>5, <1>6, <1>7, <2>1, <2>2 DEF HeldInv, Spares
<1>10. \A v \in Workers : NamedInv(v)'
  BY <1>1, <1>2, <1>5, NamesKept DEF NamesTemp, Naming
<1>11. HeldInv(w)'
  <2>1. \A n \in DOMAIN temps' : temps'[n].inode = i => n = name
    BY <1>3, <1>7
  <2>2. \A v \in Workers : turn'[v].inode = i => v = w
    BY <1>3, <1>6
  <2>3. FilledTo(q, <<>>)
    BY <1>5 DEF FilledTo
  <2>4. q.at # "place"
    BY <1>5
  <2> QED
    BY <1>1, <1>3, <1>4, <1>5, <1>6, <1>7, <2>1, <2>2, <2>3, <2>4 DEF HeldInv
<1>12. KeptInv' /\ file' \in Inodes /\ deletions' \in Nat
  BY <1>1, <1>2 DEF EditsInv, KeptInv, EditsTyped
<1>13. q.at \in Writing => q.text \in Texts /\ q.text # <<>>
  BY <1>1, <1>2, <1>5 DEF EditsTyped, Writing, Naming
<1> QED
  BY <1>2, <1>5, <1>8, <1>9, <1>10, <1>11, <1>12, <1>13, StepKeepsEdits

\* A worker that removes its own temporary file removes nobody else's.
LEMMA RemovedSpares ==
  ASSUME EditsInv, NEW w \in Workers, NamesTemp(w), temps' = Edits!Without({turn[w].temp}),
         NEW q, Alone(w, q), q.inode \in {0, turn[w].inode},
         file'.inode \in {file.inode, turn[w].inode}, deletions' = deletions,
         NEW v \in Workers, v # w
  PROVE  Spares(v, w)
<1> SUFFICES ASSUME Holds(v) PROVE Spares(v, w)
  BY DEF Spares
<1>1. HeldInv(v) /\ NamesTemp(v) /\ NamedInv(w) /\ EditsTyped
  BY DEF EditsInv, Holds, NamesTemp, Naming
<1>2. turn[v].temp # turn[w].temp
  BY <1>1 DEF NamedInv
<1>3. /\ DOMAIN temps' = DOMAIN temps \ {turn[w].temp}
      /\ \A n \in DOMAIN temps' : temps'[n] = temps[n]
  BY <1>1, WithoutFacts
<1>4. turn[v].temp \in DOMAIN temps'
  BY <1>1, <1>2, <1>3 DEF HeldInv
<1>5. turn[v].inode # turn[w].inode /\ turn[v].inode # 0 /\ turn[v].inode # file.inode
  BY <1>1 DEF HeldInv
<1>6. turn'[w].inode # turn[v].inode
  BY <1>1, <1>5, AloneFacts
<1> QED
  BY <1>1, <1>3, <1>4, <1>5, <1>6 DEF HeldInv, Spares

LEMMA OpenFailsKeepsEdits ==
  ASSUME EditsInv, NEW w \in Workers, Edits!OpenFails(w)
  PROVE  EditsInv'
<1>1. pid' = pid /\ file' = file /\ deletions' = deletions /\ EditsTyped
  BY DEF Edits!OpenFails, Edits!counters, EditsInv
<1>2. CASE Edits!Is(w, "reopen") /\ Edits!Ends(w) /\ UNCHANGED temps
  BY <1>1, <1>2, EndKeepsEdits
<1>3. CASE /\ Edits!Is(w, "open") /\ temps' = Edits!Without({turn[w].temp})
           /\ Edits!Goes(w, "reopen")
  <2> DEFINE q == [turn[w] EXCEPT !.at = "reopen"]
  <2>1. /\ q \in Turns /\ q.at = "reopen" /\ q.inode = turn[w].inode
        /\ q.text = turn[w].text /\ q.temp = turn[w].temp
    BY <1>1 DEF EditsTyped, Turns, Writing, Naming
  <2>2. Alone(w, q) /\ turn[w].at = "open"
    BY <1>1, <1>3 DEF EditsTyped, Edits!Goes, Edits!Is, Alone
  <2> HIDE DEF q
  <2>3. turn'[w] = q
    BY <1>1, <2>2, AloneFacts
  <2>4. NamesTemp(w)
    BY <2>2 DEF NamesTemp, Naming
  <2>5. \A v \in Workers : v # w => Spares(v, w)
    BY <1>1, <1>3, <2>1, <2>2, <2>4, RemovedSpares
  <2>6. \A v \in Workers : NamedInv(v)'
    BY <2>1, <2>2, <2>4, NamesKept
  <2>7. HeldInv(w)'
    BY <2>1, <2>3 DEF HeldInv, Holds, Filling
  <2>8. KeptInv' /\ file' \in Inodes /\ deletions' \in Nat
    BY <1>1 DEF EditsInv, KeptInv, EditsTyped
  <2>9. q.at \in Writing => q.text \in Texts /\ q.text # <<>>
    BY <1>1, <2>1, <2>2 DEF EditsTyped, Writing, Naming
  <2>10. IsFiniteSet(DOMAIN temps') /\ temps' \in [DOMAIN temps' -> Inodes]
    BY <1>1, <1>3, WithoutFacts
  <2> QED
    BY <2>1, <2>2, <2>5, <2>6, <2>7, <2>8, <2>9, <2>10, StepKeepsEdits
<1> QED
  BY <1>2, <1>3 DEF Edits!OpenFails

LEMMA FillKeepsEdits ==
  ASSUME EditsInv, NEW w \in Workers, Edits!Fill(w)
  PROVE  EditsInv'
<1> DEFINE t == turn[w].text
<1>1. pid' = pid /\ deletions' = deletions /\ EditsTyped /\ HeldInv(w)
  BY DEF Edits!Fill, Edits!counters, EditsInv
<1>2. ASSUME NEW n \in {1, 2}, Holds(w), Edits!WritePart(w, n), NEW q \in Turns, Alone(w, q),
             q.at \in {"fill_rest", "mode"}, q.inode = turn[w].inode, q.text = t,
             q.temp = turn[w].temp,
             FilledTo(q, Touched(w, n, temps[turn[w].temp]).text)
      PROVE  EditsInv'
  <2>1. turn[w].at \in Writing /\ NamesTemp(w)
    BY <1>2 DEF Holds, NamesTemp, Writing, Naming
  <2>2. turn'[w] = q /\ \A v \in Workers : v # w => turn'[v] = turn[v]
    BY <1>1, <1>2, AloneFacts
  <2>3. /\ file' \in Inodes /\ file'.inode = file.inode /\ file'.mode = file.mode
        /\ temps' \in [DOMAIN temps' -> Inodes] /\ IsFiniteSet(DOMAIN temps')
        /\ DOMAIN temps' = DOMAIN temps
        /\ \A m \in DOMAIN temps :
             temps[m] \in Inodes /\ temps'[m] = Touched(w, n, temps[m])
    BY <1>1, <1>2, <2>1, PartFacts
  <2>4. \A m \in DOMAIN temps : temps'[m].inode = temps[m].inode
    BY <1>1, <2>1, <2>3, TouchedFacts
  <2>5. \A v \in Workers : v # w => Spares(v, w)
    BY <1>1, <1>2, <2>1, PartSpares
  <2>6. \A v \in Workers : NamedInv(v)'
    BY <1>2, <2>1, NamesKept
  <2>7. HeldInv(w)'
    <3>1. /\ q.temp \in DOMAIN temps' /\ temps'[q.temp].inode = q.inode
          /\ q.inode # 0 /\ q.inode # file'.inode
          /\ \A m \in DOMAIN temps' : temps'[m].inode = q.inode => m = q.temp
      BY <1>1, <1>2, <2>3, <2>4 DEF HeldInv
    <3>2. \A v \in Workers : turn'[v].inode = q.inode => v = w
      BY <1>1, <1>2, <2>2 DEF HeldInv
    <3>3. temps'[q.temp] = Touched(w, n, temps[turn[w].temp])
      BY <1>1, <1>2, <2>3 DEF HeldInv
    <3>4. q.at # "place"
      BY <1>2
    <3> QED
      BY <1>2, <2>2, <3>1, <3>2, <3>3, <3>4 DEF HeldInv
  <2>8. KeptInv' /\ deletions' \in Nat
    BY <1>1, <2>3 DEF EditsInv, KeptInv, EditsTyped
  <2>9. q.at \in Writing => q.text \in Texts /\ q.text # <<>>
    BY <1>1, <1>2, <2>1 DEF EditsTyped
  <2> QED
    BY <1>2, <2>3, <2>5, <2>6, <2>7, <2>8, <2>9, StepKeepsEdits
<1>3. ASSUME turn[w].at \in {"fill", "fill_rest"}
      PROVE  /\ t \in Texts /\ t # <<>> /\ Holds(w) /\ turn[w].at \in Writing
             /\ temps[turn[w].temp] \in Inodes
             /\ temps[turn[w].temp].inode = turn[w].inode
             /\ FilledTo(turn[w], temps[turn[w].temp].text)
  <2>1. Holds(w) /\ turn[w].at \in Writing
    BY <1>3 DEF Holds, Writing, Naming, Filling
  <2>2. t \in Texts /\ t # <<>>
    BY <1>1, <2>1 DEF EditsTyped
  <2>3. /\ turn[w].temp \in DOMAIN temps /\ temps[turn[w].temp].inode = turn[w].inode
        /\ FilledTo(turn[w], temps[turn[w].temp].text)
    BY <1>1, <2>1 DEF HeldInv
  <2> QED
    BY <1>1, <2>1, <2>2, <2>3 DEF EditsTyped
<1>4. CASE Edits!Is(w, "fill") /\ Edits!WritePart(w, 1) /\ Edits!Goes(w, "fill_rest")
  <2> DEFINE q == [turn[w] EXCEPT !.at = "fill_rest"]
  <2>1. /\ q \in Turns /\ q.at = "fill_rest" /\ q.inode = turn[w].inode /\ q.text = t
        /\ q.temp = turn[w].temp
    BY <1>1 DEF EditsTyped, Turns, Writing, Naming, Filling
  <2>2. Alone(w, q) /\ turn[w].at = "fill"
    BY <1>1, <1>4 DEF EditsTyped, Edits!Goes, Edits!Is, Alone
  <2> HIDE DEF q
  <2>3. temps[turn[w].temp].text = <<>>
    BY <1>3, <2>2 DEF FilledTo
  <2>4. 1 \in DOMAIN t /\ Edits!Written(<<>>, 1, t[1]) = <<t[1]>>
    BY <1>3, <2>2, FilledText
  <2>5. Touched(w, 1, temps[turn[w].temp]).text = <<t[1]>>
    BY <1>1, <1>3, <2>2, <2>3, <2>4, TouchedFacts
  <2>6. FilledTo(q, <<t[1]>>)
    BY <2>1 DEF FilledTo
  <2> QED
    BY <1>2, <1>3, <1>4, <2>1, <2>2, <2>5, <2>6
<1>5. CASE Edits!Is(w, "fill_rest") /\ Edits!WritePart(w, 2) /\ Edits!Goes(w, "mode")
  <2> DEFINE q == [turn[w] EXCEPT !.at = "mode"]
  <2>1. /\ q \in Turns /\ q.at = "mode" /\ q.inode = turn[w].inode /\ q.text = t
        /\ q.temp = turn[w].temp
    BY <1>1 DEF EditsTyped, Turns, Writing, Naming, Filling
  <2>2. Alone(w, q) /\ turn[w].at = "fill_rest"
    BY <1>1, <1>5 DEF EditsTyped, Edits!Goes, Edits!Is, Alone
  <2> HIDE DEF q
  <2>3. temps[turn[w].temp].text = <<t[1]>>
    BY <1>3, <2>2 DEF FilledTo
  <2>4. /\ 2 \in DOMAIN t => Edits!Written(<<t[1]>>, 2, t[2]) = t
        /\ 2 \notin DOMAIN t => <<t[1]>> = t
    BY <1>3, <2>2, FilledText
  <2>5. Touched(w, 2, temps[turn[w].temp]).text = t
    BY <1>1, <1>3, <2>2, <2>3, <2>4, TouchedFacts
  <2>6. FilledTo(q, t)
    BY <2>1 DEF FilledTo
  <2> QED
    BY <1>2, <1>3, <1>5, <2>1, <2>2, <2>5, <2>6
<1> QED
  BY <1>4, <1>5 DEF Edits!Fill

LEMMA KeepModeKeepsEdits ==
  ASSUME EditsInv, NEW w \in Workers, Edits!KeepMode(w)
  PROVE  EditsInv'
<1> DEFINE q == [turn[w] EXCEPT !.at = "place"]
           name == turn[w].temp
<1>1. /\ pid' = pid /\ deletions' = deletions /\ file' = file /\ EditsTyped /\ HeldInv(w)
      /\ turn[w].at = "mode" /\ turn' = [turn EXCEPT ![w] = q]
  BY DEF Edits!KeepMode, Edits!counters, Edits!Is, Edits!Goes, EditsInv, EditsTyped
<1>2. /\ q \in Turns /\ q.at = "place" /\ q.inode = turn[w].inode /\ q.text = turn[w].text
      /\ q.temp = name
  BY <1>1 DEF EditsTyped, Turns, Writing, Naming, Filling
<1> HIDE DEF q
<1>3. Alone(w, q) /\ Holds(w) /\ NamesTemp(w) /\ turn[w].at \in Writing
  BY <1>1 DEF Alone, Holds, NamesTemp, Filling, Naming, Writing
<1>4. turn'[w] = q /\ \A v \in Workers : v # w => turn'[v] = turn[v]
  BY <1>1, <1>3, AloneFacts
<1>5. /\ name \in DOMAIN temps /\ temps[name] \in Inodes /\ temps[name].inode = turn[w].inode
      /\ \A m \in DOMAIN temps : temps[m].inode = turn[w].inode => m = name
      /\ temps[name].text = turn[w].text
  BY <1>1, <1>3 DEF HeldInv, FilledTo, EditsTyped
<1>6. /\ DOMAIN temps' = DOMAIN temps
      /\ \A m \in DOMAIN temps : m # name => temps'[m] = temps[m]
      /\ temps'[name] \in Inodes /\ temps'[name].inode = temps[name].inode
      /\ temps'[name].text = temps[name].text
      /\ deletions = 0 => temps'[name].mode = "own"
      /\ temps' \in [DOMAIN temps' -> Inodes]
  <2>1. CASE ~Edits!IsThere /\ UNCHANGED temps
    <3>1. deletions # 0
      BY <2>1 DEF EditsInv, KeptInv, Edits!IsThere, Edits!NoFile
    <3> QED
      BY <1>1, <1>5, <2>1, <3>1 DEF EditsTyped
  <2>2. CASE temps' = [temps EXCEPT ![name].mode = file.mode]
    <3> DEFINE f == [temps[name] EXCEPT !.mode = file.mode]
    <3>1. /\ f \in Inodes /\ f.inode = temps[name].inode /\ f.text = temps[name].text
          /\ f.mode = file.mode
      BY <1>1, <1>5 DEF EditsTyped, Inodes
    <3>2. temps' = [temps EXCEPT ![name] = f]
      BY <2>2
    <3>3. deletions = 0 => f.mode = "own"
      BY <3>1 DEF EditsInv, KeptInv
    <3> HIDE DEF f
    <3> QED
      BY <1>1, <1>5, <3>1, <3>2, <3>3 DEF EditsTyped
  <2> QED
    BY <2>1, <2>2 DEF Edits!KeepMode
<1>7. ASSUME NEW v \in Workers, v # w PROVE Spares(v, w)
  <2> SUFFICES ASSUME Holds(v) PROVE Spares(v, w)
    BY DEF Spares
  <2>1. HeldInv(v)
    BY DEF EditsInv
  <2>2. turn[v].inode # turn[w].inode /\ turn[v].temp # name
    BY <1>5, <1>7, <2>1 DEF HeldInv
  <2>3. \A m \in DOMAIN temps' : temps'[m].inode = temps[m].inode
    BY <1>6
  <2> QED
    BY <1>1, <1>2, <1>4, <1>6, <2>1, <2>2, <2>3 DEF HeldInv, Spares
<1>8. \A v \in Workers : NamedInv(v)'
  BY <1>2, <1>3, NamesKept
<1>9. HeldInv(w)'
  <2>1. \A m \in DOMAIN temps' : temps'[m].inode = q.inode => m = name
    BY <1>2, <1>5, <1>6
  <2>2. \A v \in Workers : turn'[v].inode = q.inode => v = w
    BY <1>1, <1>2, <1>3, <1>4 DEF HeldInv
  <2>3. FilledTo(q, temps'[name].text)
    BY <1>2, <1>5, <1>6 DEF FilledTo
  <2>4. q.inode # 0 /\ q.inode # file'.inode
    BY <1>1, <1>2, <1>3 DEF HeldInv
  <2> QED
    BY <1>1, <1>2, <1>4, <1>5, <1>6, <2>1, <2>2, <2>3, <2>4 DEF HeldInv
<1>10. KeptInv' /\ file' \in Inodes /\ deletions' \in Nat /\ IsFiniteSet(DOMAIN temps')
  BY <1>1, <1>6 DEF EditsInv, KeptInv, EditsTyped
<1>11. q.at \in Writing => q.text \in Texts /\ q.text # <<>>
  BY <1>1, <1>2, <1>3 DEF EditsTyped
<1> QED
  BY <1>2, <1>3, <1>6, <1>7, <1>8, <1>9, <1>10, <1>11, StepKeepsEdits

\* A worker that is done with its temporary file, and what it leaves.
LEMMA DoneKeepsEdits ==
  ASSUME EditsInv, NEW w \in Workers, Holds(w), temps' = Edits!Without({turn[w].temp}),
         NEW q \in Turns, Alone(w, q), q.at = "idle", q.inode = 0,
         file' = file \/ (turn[w].at = "place" /\ file' = temps[turn[w].temp]),
         deletions' = deletions
  PROVE  EditsInv'
<1>1. EditsTyped /\ HeldInv(w) /\ NamesTemp(w)
  BY DEF EditsInv, Holds, NamesTemp, Naming
<1>2. turn'[w] = q
  BY <1>1, AloneFacts
<1>3. /\ file' \in Inodes /\ file'.inode \in {file.inode, turn[w].inode}
      /\ deletions = 0 => file'.mode = "own"
  BY <1>1 DEF EditsInv, EditsTyped, HeldInv, KeptInv
<1>4. \A v \in Workers : v # w => Spares(v, w)
  BY <1>1, <1>3, RemovedSpares
<1>5. \A v \in Workers : NamedInv(v)'
  BY NamesKept DEF Naming, Filling
<1>6. HeldInv(w)' /\ KeptInv'
  BY <1>2, <1>3 DEF HeldInv, Holds, Filling, KeptInv
<1>7. IsFiniteSet(DOMAIN temps') /\ temps' \in [DOMAIN temps' -> Inodes] /\ deletions' \in Nat
  BY <1>1, WithoutFacts DEF EditsTyped
<1>8. q.at \notin Writing
  BY DEF Writing, Naming, Filling
<1> QED
  BY <1>3, <1>4, <1>5, <1>6, <1>7, <1>8, StepKeepsEdits

LEMMA PlaceKeepsEdits ==
  ASSUME EditsInv, NEW w \in Workers, Edits!Place(w)
  PROVE  EditsInv'
<1> DEFINE q == [Edits!Idle EXCEPT !.seen = turn[w].text]
<1>1. turn[w].at = "place" /\ EditsTyped /\ HeldInv(w)
  BY DEF Edits!Place, Edits!Is, EditsInv
<1>2. Holds(w) /\ turn[w].at \in Writing
  BY <1>1 DEF Holds, Filling, Writing, Naming
<1>3. turn[w].temp \in DOMAIN temps /\ turn[w].text \in Texts
  BY <1>1, <1>2 DEF HeldInv, EditsTyped
<1>4. /\ file' = temps[turn[w].temp] /\ temps' = Edits!Without({turn[w].temp})
      /\ Alone(w, q) /\ deletions' = deletions
  BY <1>3 DEF Edits!Place, Edits!Becomes, Alone, Edits!counters
<1>5. q \in Turns /\ q.at = "idle" /\ q.inode = 0
  BY <1>3, EndedFacts
<1> HIDE DEF q
<1> QED
  BY <1>1, <1>2, <1>4, <1>5, DoneKeepsEdits

LEMMA GiveUpKeepsEdits ==
  ASSUME EditsInv, NEW w \in Workers, Edits!GiveUp(w)
  PROVE  EditsInv'
<1> DEFINE q == [Edits!Idle EXCEPT !.seen = turn[w].seen]
<1>1. /\ Holds(w) /\ temps' = Edits!Without({turn[w].temp}) /\ Alone(w, q)
      /\ file' = file /\ deletions' = deletions
  BY DEF Edits!GiveUp, Edits!Ends, Edits!Becomes, Edits!counters, Alone, Holds, Filling
<1>2. turn[w].seen \in Texts \cup {Edits!Unread}
  BY DEF EditsInv, EditsTyped, Turns
<1>3. q \in Turns /\ q.at = "idle" /\ q.inode = 0
  BY <1>2, EndedFacts
<1> HIDE DEF q
<1> QED
  BY <1>1, <1>3, DoneKeepsEdits

LEMMA KillKeepsEdits ==
  ASSUME EditsInv, NEW p \in Pids, Edits!Kill(p)
  PROVE  EditsInv'
<1>1. /\ turn' = [w \in Workers |-> IF pid[w] = p THEN Edits!Idle ELSE turn[w]]
      /\ pid' = pid /\ file' = file /\ temps' = temps /\ deletions' = deletions
  BY DEF Edits!Kill
<1>2. EditsTyped
  BY DEF EditsInv
<1>3. \A w \in Workers : \/ turn'[w] = turn[w]
                         \/ turn'[w].at = "idle" /\ turn'[w].inode = 0
  BY <1>1, IdleTyped
<1>4. turn' \in [Workers -> Turns]
  BY <1>1, <1>2, IdleTyped DEF EditsTyped
<1>5. \A w \in Workers : turn'[w].at = "idle" => turn'[w].at \notin Writing
  BY DEF Writing, Naming, Filling
<1>6. EditsTyped'
  BY <1>1, <1>2, <1>3, <1>4, <1>5 DEF EditsTyped
<1>7. ASSUME NEW w \in Workers PROVE HeldInv(w)' /\ NamedInv(w)'
  <2>1. HeldInv(w) /\ NamedInv(w)
    BY DEF EditsInv
  <2>2. CASE turn'[w].at = "idle"
    BY <2>2 DEF HeldInv, NamedInv, Holds, NamesTemp, Naming, Filling
  <2>3. CASE turn'[w] = turn[w]
    <3>1. HeldInv(w)'
      BY <1>1, <1>3, <2>1, <2>3 DEF HeldInv, Holds
    <3>2. \A v \in Workers : NamesTemp(v)' => NamesTemp(v) /\ turn'[v] = turn[v]
      BY <1>3 DEF NamesTemp, Naming, Filling
    <3>3. NamedInv(w)'
      BY <1>1, <2>1, <2>3, <3>2 DEF NamedInv
    <3> QED
      BY <3>1, <3>3
  <2> QED
    BY <1>3, <2>2, <2>3
<1>8. KeptInv'
  BY <1>1 DEF EditsInv, KeptInv
<1> QED
  BY <1>6, <1>7, <1>8 DEF EditsInv

LEMMA NextKeepsEdits ==
  ASSUME EditsInv, [Edits!Next]_Edits!vars
  PROVE  EditsInv'
<1>1. CASE UNCHANGED Edits!vars
  BY <1>1 DEF Edits!vars, EditsInv, EditsTyped, HeldInv, NamedInv, KeptInv, Holds, NamesTemp
<1>2. ASSUME NEW w \in Workers, NEW u \in Parts,
             Edits!StartWrite(w, <<u, u>>) \/ Edits!StartEdit(w, u)
      PROVE  EditsInv'
  BY <1>2, StartWriteKeepsEdits, StartEditKeepsEdits
<1>3. ASSUME NEW w \in Workers,
             \/ Edits!Read(w) \/ Edits!Write(w) \/ Edits!Delete(w)
             \/ Edits!NameTemp(w) \/ Edits!OpenTemp(w) \/ Edits!OpenFails(w)
             \/ Edits!Fill(w) \/ Edits!KeepMode(w) \/ Edits!Place(w) \/ Edits!GiveUp(w)
      PROVE  EditsInv'
  BY <1>3, ReadKeepsEdits, WriteKeepsEdits, DeleteKeepsEdits, NameTempKeepsEdits,
     OpenTempKeepsEdits, OpenFailsKeepsEdits, FillKeepsEdits, KeepModeKeepsEdits,
     PlaceKeepsEdits, GiveUpKeepsEdits
<1>4. ASSUME NEW p \in Pids, Edits!Kill(p) PROVE EditsInv'
  BY <1>4, KillKeepsEdits
<1> QED
  BY <1>1, <1>2, <1>3, <1>4 DEF Edits!Next

LEMMA EditsAreSound == EditsInv => EditsAreWhole
<1> SUFFICES ASSUME EditsInv PROVE EditsAreWhole
  OBVIOUS
<1>1. ASSUME NEW w \in Workers, Edits!Is(w, "place")
      PROVE  turn[w].temp \in DOMAIN temps /\ temps[turn[w].temp].text = turn[w].text
  BY <1>1 DEF EditsInv, HeldInv, Holds, Filling, FilledTo, Edits!Is
<1>2. deletions = 0 => file.mode = "own"
  BY DEF EditsInv, KeptInv
<1> QED
  BY <1>1, <1>2 DEF EditsAreWhole, Edits!EditsAreWhole

-----------------------------------------------------------------------------
(* The reports *)

(***************************************************************************)
(* What is derived from a log.  ReportsInv: the log begins with a prompt,  *)
(* so that every row of the ledger is of a turn; and what a replay was     *)
(* told is the oldest match among what it had not been told of before.     *)
(***************************************************************************)
Amounts == Nat \cup {Derived!Unknown}
Usages == [steps : Nat, prompt : Amounts, cached : Amounts]
LedgerRows == [at : Nat, says : BOOLEAN, prompt : Amounts, cached : Amounts]
LoggedEntries ==
  [kind : {"user", "other", "intent"}, call : Derived!ToolCalls \cup {Derived!NoCall}]

\* A row without the provider's usage has none of its counts.
SaysOrNot(row) ==
  ~row.says => row.prompt = Derived!Unknown /\ row.cached = Derived!Unknown

LedgerInv ==
  /\ log \in Seq(LoggedEntries)
  /\ log # <<>> => Derived!OpensTurn(log[1])
  /\ ledger \in Seq(LedgerRows)
  /\ \A k \in DOMAIN ledger :
       ledger[k].at \in 1 .. Len(log) /\ SaysOrNot(ledger[k])

ToldBefore(i) == {walk.told[k] : k \in 1 .. i - 1}

WalkInv ==
  /\ walk \in [is : {"none", "walking", "final", "diverged"},
               calls : Seq(Derived!ToolCalls), told : Seq(DOMAIN Derived!Recorded)]
  /\ walk.is = "none" => walk = Derived!NoWalk
  /\ Len(walk.told) <= Len(walk.calls)
  /\ walk.is \in {"walking", "final"} => Len(walk.told) = Len(walk.calls)
  /\ \A i \in DOMAIN walk.told :
       LET found == Derived!Match(walk.calls[i], ToldBefore(i))
       IN found # {} /\ walk.told[i] = Derived!Oldest(found)

ReportsInv == LedgerInv /\ WalkInv

-----------------------------------------------------------------------------
(* Adding up *)

LEMMA PlusFacts ==
  /\ \A x, y \in Amounts : Derived!Plus(x, y) \in Amounts
  /\ \A x, y \in Amounts : Derived!Plus(x, y) = Derived!Plus(y, x)
  /\ \A x, y, z \in Amounts :
       Derived!Plus(Derived!Plus(x, y), z) = Derived!Plus(x, Derived!Plus(y, z))
  /\ \A x \in Amounts :
       Derived!Plus(x, Derived!Unknown) = x /\ Derived!Plus(Derived!Unknown, x) = x
  /\ \A x, y \in Nat : Derived!Plus(x, y) = x + y
BY DEF Amounts, Derived!Plus, Derived!Unknown

\* The sum of the first n amounts of f.
SumsUp(f, m, g) ==
  g = [n \in 0 .. m |-> IF n = 0 THEN Derived!Unknown ELSE Derived!Plus(g[n - 1], f[n])]

LEMMA SumsUpValue ==
  ASSUME NEW f, NEW m \in Nat, NEW g, SumsUp(f, m, g)
  PROVE  /\ g[0] = Derived!Unknown
         /\ \A n \in 1 .. m : g[n] = Derived!Plus(g[n - 1], f[n])
<1>1. \A n \in 0 .. m : g[n] = IF n = 0 THEN Derived!Unknown ELSE Derived!Plus(g[n - 1], f[n])
  BY Zenon DEF SumsUp
<1> QED
  BY <1>1

LEMMA SomethingSumsUp ==
  ASSUME NEW m \in Nat, NEW f \in [1 .. m -> Amounts]
  PROVE  \E g : SumsUp(f, m, g)
<1> DEFINE step == [n \in 1 .. m |-> [v \in Amounts |-> Derived!Plus(v, f[n])]]
<1>1. step \in [1 .. m -> [Amounts -> Amounts]]
  BY PlusFacts
<1>2. \A n \in 1 .. m, v \in Amounts : step[n][v] = Derived!Plus(v, f[n])
  OBVIOUS
<1> HIDE DEF step
<1>3. Derived!Unknown \in Amounts
  BY DEF Amounts
<1>4. PICK g \in [0 .. m -> Amounts] :
        g[0] = Derived!Unknown /\ \A n \in 1 .. m : g[n] = step[n][g[n - 1]]
  BY <1>1, <1>3, Recursion
<1>5. \A n \in 0 .. m :
        g[n] = IF n = 0 THEN Derived!Unknown ELSE Derived!Plus(g[n - 1], f[n])
  BY <1>2, <1>4
<1>6. g = [n \in 0 .. m |-> g[n]]
  BY Zenon
<1>7. g = [n \in 0 .. m |->
             IF n = 0 THEN Derived!Unknown ELSE Derived!Plus(g[n - 1], f[n])]
  BY <1>5, <1>6
<1> QED
  BY <1>7 DEF SumsUp

LEMMA TotalSums ==
  ASSUME NEW m \in Nat, NEW f \in [1 .. m -> Amounts]
  PROVE  \E g \in [0 .. m -> Amounts] :
           /\ Derived!Total(f) = g[m]
           /\ g[0] = Derived!Unknown
           /\ \A n \in 1 .. m : g[n] = Derived!Plus(g[n - 1], f[n])
<1> DEFINE g == CHOOSE h : SumsUp(f, m, h)
<1>1. SumsUp(f, m, g)
  BY SomethingSumsUp
<1>2. Len(f) = m
  OBVIOUS
<1>3. Derived!Total(f) = g[m]
  BY <1>2 DEF Derived!Total, SumsUp
<1> HIDE DEF g
<1>4. /\ g[0] = Derived!Unknown
      /\ \A n \in 1 .. m : g[n] = Derived!Plus(g[n - 1], f[n])
  BY <1>1, SumsUpValue
<1>5. g = [n \in 0 .. m |-> g[n]]
  BY <1>1, Zenon DEF SumsUp
<1> DEFINE T == {n \in 0 .. m : g[n] \in Amounts}
<1>6. 0 \in T
  BY <1>4 DEF Amounts
<1>7. ASSUME NEW n \in 1 .. m, n - 1 \in T PROVE n \in T
  <2>1. /\ g[n] = Derived!Plus(g[n - 1], f[n])
        /\ g[n - 1] \in Amounts /\ f[n] \in Amounts
    BY <1>4, <1>7
  <2>2. g[n] \in Amounts
    BY <2>1, PlusFacts
  <2> QED
    BY <2>2
<1> HIDE DEF T
<1>8. \A n \in 0 .. m : n \in T
  BY <1>6, <1>7, BoundedInduction
<1>9. \A n \in 0 .. m : g[n] \in Amounts
  BY <1>8 DEF T
<1>10. g \in [0 .. m -> Amounts]
  BY <1>5, <1>9
<1> QED
  BY <1>3, <1>4, <1>10

\* Adding to one of the amounts adds to the sum.
LEMMA TotalGrows ==
  ASSUME NEW m \in Nat, NEW f \in [1 .. m -> Amounts], NEW h \in [1 .. m -> Amounts],
         NEW k \in 1 .. m, NEW x \in Amounts, h[k] = Derived!Plus(f[k], x),
         \A n \in 1 .. m : n # k => h[n] = f[n]
  PROVE  Derived!Total(h) = Derived!Plus(Derived!Total(f), x)
<1>1. PICK g \in [0 .. m -> Amounts] :
        /\ Derived!Total(f) = g[m] /\ g[0] = Derived!Unknown
        /\ \A n \in 1 .. m : g[n] = Derived!Plus(g[n - 1], f[n])
  BY TotalSums
<1>2. PICK j \in [0 .. m -> Amounts] :
        /\ Derived!Total(h) = j[m] /\ j[0] = Derived!Unknown
        /\ \A n \in 1 .. m : j[n] = Derived!Plus(j[n - 1], h[n])
  BY TotalSums
<1> DEFINE T == {n \in 0 .. m : j[n] = IF n < k THEN g[n] ELSE Derived!Plus(g[n], x)}
<1>3. 0 \in T
  BY <1>1, <1>2
<1>4. ASSUME NEW n \in 1 .. m, n - 1 \in T PROVE n \in T
  <2>1. /\ j[n - 1] = (IF n - 1 < k THEN g[n - 1] ELSE Derived!Plus(g[n - 1], x))
        /\ j[n] = Derived!Plus(j[n - 1], h[n]) /\ g[n] = Derived!Plus(g[n - 1], f[n])
        /\ g[n - 1] \in Amounts /\ f[n] \in Amounts
    BY <1>1, <1>2, <1>4
  <2>2. CASE n < k
    BY <2>1, <2>2
  <2>3. CASE n = k
    <3>1. j[n] = Derived!Plus(g[n - 1], Derived!Plus(f[n], x))
      BY <2>1, <2>3
    <3> QED
      BY <2>1, <2>3, <3>1, PlusFacts
  <2>4. CASE n > k
    <3>1. j[n] = Derived!Plus(Derived!Plus(g[n - 1], x), f[n])
      BY <2>1, <2>4
    <3>2. Derived!Plus(Derived!Plus(g[n - 1], x), f[n])
            = Derived!Plus(Derived!Plus(g[n - 1], f[n]), x)
      BY <2>1, PlusFacts
    <3> QED
      BY <2>1, <2>4, <3>1, <3>2
  <2> QED
    BY <2>2, <2>3, <2>4
<1> HIDE DEF T
<1>5. \A n \in 0 .. m : n \in T
  BY <1>3, <1>4, BoundedInduction
<1> QED
  BY <1>1, <1>2, <1>5 DEF T

-----------------------------------------------------------------------------
(* The turns *)

LEMMA WithRowFacts ==
  ASSUME NEW u \in Usages, NEW r \in LedgerRows, SaysOrNot(r)
  PROVE  LET v == Derived!WithRow(u, r) IN
         /\ v \in Usages
         /\ v.steps = Derived!Plus(u.steps, Derived!StepsOf(r))
         /\ v.prompt = Derived!Plus(u.prompt, r.prompt)
         /\ v.cached = Derived!Plus(u.cached, r.cached)
<1>1. /\ u.steps \in Nat /\ u.prompt \in Amounts /\ u.cached \in Amounts
      /\ r.says \in BOOLEAN /\ r.prompt \in Amounts /\ r.cached \in Amounts
  BY DEF Usages, LedgerRows
<1> DEFINE v == Derived!WithRow(u, r)
<1>2. CASE r.says
  <2>1. /\ v.steps = u.steps + 1 /\ v.prompt = Derived!Plus(u.prompt, r.prompt)
        /\ v.cached = Derived!Plus(u.cached, r.cached)
        /\ v = [steps |-> v.steps, prompt |-> v.prompt, cached |-> v.cached]
    BY <1>2 DEF Derived!WithRow
  <2> HIDE DEF v
  <2>2. v.steps \in Nat /\ v.prompt \in Amounts /\ v.cached \in Amounts
    <3>1. \A x, y \in Amounts : Derived!Plus(x, y) \in Amounts
      BY PlusFacts
    <3>2. /\ Derived!Plus(u.prompt, r.prompt) \in Amounts
          /\ Derived!Plus(u.cached, r.cached) \in Amounts
      BY <1>1, <3>1
    <3> QED
      BY <1>1, <2>1, <3>2
  <2>3. v \in Usages
    BY <2>1, <2>2 DEF Usages
  <2>4. v.steps = Derived!Plus(u.steps, Derived!StepsOf(r))
    BY <1>1, <1>2, <2>1 DEF Derived!Plus, Derived!StepsOf, Derived!Unknown
  <2> QED
    BY <2>1, <2>3, <2>4 DEF v
<1>3. CASE ~r.says
  <2>1. v = u
    BY <1>3 DEF Derived!WithRow
  <2>2. r.prompt = Derived!Unknown /\ r.cached = Derived!Unknown
    BY <1>3 DEF SaysOrNot
  <2>3. /\ u.prompt = Derived!Plus(u.prompt, r.prompt)
        /\ u.cached = Derived!Plus(u.cached, r.cached)
    BY <1>1, <2>2, PlusFacts
  <2>4. u.steps = Derived!Plus(u.steps, Derived!StepsOf(r))
    BY <1>1, <1>3 DEF Derived!Plus, Derived!StepsOf, Derived!Unknown
  <2> QED
    BY <2>1, <2>3, <2>4
<1> QED
  BY <1>1, <1>2, <1>3

\* The usage of the first rows of the ledger, as far as they are in a set.
Adds(rows, g) ==
  g = [k \in 0 .. Len(ledger) |->
         IF k = 0 THEN Derived!NoUsage
         ELSE IF k \in rows THEN Derived!WithRow(g[k - 1], ledger[k]) ELSE g[k - 1]]

IsUsage(rows, g) ==
  /\ g \in [0 .. Len(ledger) -> Usages]
  /\ Derived!UsageOf(rows) = g[Len(ledger)]
  /\ g[0] = Derived!NoUsage
  /\ \A k \in 1 .. Len(ledger) :
       g[k] = IF k \in rows THEN Derived!WithRow(g[k - 1], ledger[k]) ELSE g[k - 1]

LEMMA LedgerFacts ==
  ASSUME LedgerInv
  PROVE  /\ Len(ledger) \in Nat /\ Len(log) \in Nat
         /\ DOMAIN ledger = 1 .. Len(ledger) /\ DOMAIN log = 1 .. Len(log)
         /\ \A k \in 1 .. Len(ledger) :
              ledger[k] \in LedgerRows /\ SaysOrNot(ledger[k])
BY DEF LedgerInv

LEMMA NoUsageFacts ==
  /\ Derived!NoUsage \in Usages
  /\ Derived!NoUsage.steps = 0 /\ Derived!NoUsage.prompt = Derived!Unknown
  /\ Derived!NoUsage.cached = Derived!Unknown
BY DEF Derived!NoUsage, Usages, Amounts

LEMMA SomethingAdds == ASSUME LedgerInv, NEW rows PROVE \E g : Adds(rows, g)
<1> DEFINE m == Len(ledger)
           step == [k \in 1 .. m |-> [v \in Usages |->
                      IF k \in rows THEN Derived!WithRow(v, ledger[k]) ELSE v]]
<1>1. m \in Nat
  BY LedgerFacts
<1>2. step \in [1 .. m -> [Usages -> Usages]]
  <2>1. \A k \in 1 .. m, v \in Usages :
          (IF k \in rows THEN Derived!WithRow(v, ledger[k]) ELSE v) \in Usages
    BY LedgerFacts, WithRowFacts
  <2> QED
    BY <2>1
<1>3. \A k \in 1 .. m, v \in Usages :
        step[k][v] = IF k \in rows THEN Derived!WithRow(v, ledger[k]) ELSE v
  OBVIOUS
<1> HIDE DEF step, m
<1>4. PICK g \in [0 .. m -> Usages] :
        g[0] = Derived!NoUsage /\ \A k \in 1 .. m : g[k] = step[k][g[k - 1]]
  <2>1. Derived!NoUsage \in Usages
    BY NoUsageFacts
  <2> QED
    BY <1>1, <1>2, <2>1, Recursion
<1>5. \A k \in 0 .. m :
        g[k] = IF k = 0 THEN Derived!NoUsage
               ELSE IF k \in rows THEN Derived!WithRow(g[k - 1], ledger[k]) ELSE g[k - 1]
  <2> TAKE k \in 0 .. m
  <2>1. CASE k = 0
    BY <1>4, <2>1
  <2>2. CASE k # 0
    <3>1. k \in 1 .. m /\ g[k - 1] \in Usages /\ g[k] = step[k][g[k - 1]]
      BY <1>1, <1>4, <2>2
    <3> QED
      BY <1>3, <2>2, <3>1
  <2> QED
    BY <2>1, <2>2
<1>6. g = [k \in 0 .. m |-> g[k]]
  BY Zenon
<1>7. g = [k \in 0 .. m |->
             IF k = 0 THEN Derived!NoUsage
             ELSE IF k \in rows THEN Derived!WithRow(g[k - 1], ledger[k]) ELSE g[k - 1]]
  BY <1>5, <1>6
<1> QED
  BY <1>7 DEF Adds, m

LEMMA UsageAdds == ASSUME LedgerInv, NEW rows PROVE \E g : IsUsage(rows, g)
<1> DEFINE g == CHOOSE h : Adds(rows, h)
           m == Len(ledger)
<1>1. Adds(rows, g)
  BY SomethingAdds
<1>2. Derived!UsageOf(rows) = g[m]
  BY DEF Derived!UsageOf, Adds
<1>3. m \in Nat
  BY LedgerFacts
<1> HIDE DEF g
<1>4. \A k \in 0 .. m :
        g[k] = IF k = 0 THEN Derived!NoUsage
               ELSE IF k \in rows THEN Derived!WithRow(g[k - 1], ledger[k]) ELSE g[k - 1]
  BY <1>1, Zenon DEF Adds
<1>5. g = [k \in 0 .. m |-> g[k]]
  BY <1>1, Zenon DEF Adds
<1> HIDE DEF m
<1> DEFINE T == {k \in 0 .. m : g[k] \in Usages}
<1>6. 0 \in T
  BY <1>3, <1>4, NoUsageFacts
<1>7. ASSUME NEW k \in 1 .. m, k - 1 \in T PROVE k \in T
  <2>1. g[k - 1] \in Usages /\ ledger[k] \in LedgerRows /\ SaysOrNot(ledger[k])
    BY <1>7, LedgerFacts DEF m
  <2>2. g[k] = IF k \in rows THEN Derived!WithRow(g[k - 1], ledger[k]) ELSE g[k - 1]
    BY <1>3, <1>4
  <2>3. g[k] \in Usages
    BY <2>1, <2>2, WithRowFacts
  <2> QED
    BY <2>3
<1> HIDE DEF T
<1>8. \A k \in 0 .. m : k \in T
  BY <1>3, <1>6, <1>7, BoundedInduction
<1>9. \A k \in 0 .. m : g[k] \in Usages
  BY <1>8 DEF T
<1>10. g \in [0 .. m -> Usages]
  BY <1>5, <1>9
<1> QED
  BY <1>2, <1>3, <1>4, <1>10 DEF IsUsage, m

LEMMA SameCardinalityOfTurns == \A S : Derived!Cardinality(S) = Cardinality(S)
BY DEF Derived!Cardinality, Cardinality

LEMMA TurnsAreNumbered ==
  ASSUME LedgerInv
  PROVE  /\ Derived!Cardinality(Derived!TurnStarts) \in Nat
         /\ \A k \in DOMAIN ledger :
              Derived!OpenAt(ledger[k].at) \in 1 .. Derived!Cardinality(Derived!TurnStarts)
<1> DEFINE S == Derived!TurnStarts
<1>1. IsFiniteSet(S) /\ Cardinality(S) \in Nat
  <2>1. S \subseteq 1 .. Len(log) /\ Len(log) \in Nat
    BY LedgerFacts DEF Derived!TurnStarts
  <2>2. IsFiniteSet(1 .. Len(log))
    BY <2>1, FS_Interval
  <2>3. IsFiniteSet(S)
    BY <2>1, <2>2, FS_Subset
  <2> QED
    BY <2>3, FS_CardinalityType
<1>2. ASSUME NEW k \in DOMAIN ledger
      PROVE  Derived!OpenAt(ledger[k].at) \in 1 .. Cardinality(S)
  <2> DEFINE U == {i \in S : i <= ledger[k].at}
  <2>1. ledger[k].at \in 1 .. Len(log) /\ Len(log) \in Nat
    BY LedgerFacts DEF LedgerInv
  <2>2. 1 \in U
    <3>1. log # <<>> /\ 1 \in DOMAIN log
      BY <2>1, LedgerFacts
    <3> QED
      BY <2>1, <3>1 DEF LedgerInv, Derived!TurnStarts
  <2>3. IsFiniteSet(U) /\ Cardinality(U) \in Nat /\ Cardinality(U) <= Cardinality(S)
    <3>1. U \subseteq S
      OBVIOUS
    <3> QED
      BY <1>1, <3>1, FS_Subset, FS_CardinalityType
  <2>4. Cardinality(U) # 0
    BY <2>2, <2>3, FS_EmptySet
  <2>5. Derived!OpenAt(ledger[k].at) = Cardinality(U)
    BY SameCardinalityOfTurns DEF Derived!OpenAt
  <2> QED
    BY <1>1, <2>3, <2>4, <2>5
<1> QED
  BY <1>1, <1>2, SameCardinalityOfTurns

\* Zero or unknown in every turn is zero or unknown of the session.
LEMMA TotalOfNothing ==
  ASSUME NEW m \in Nat, NEW b \in {0, Derived!Unknown}, m # 0 \/ b = Derived!Unknown
  PROVE  Derived!Total([n \in 1 .. m |-> b]) = b
<1> DEFINE f == [n \in 1 .. m |-> b]
<1>1. f \in [1 .. m -> Amounts] /\ \A n \in 1 .. m : f[n] = b
  BY DEF Amounts
<1> HIDE DEF f
<1>2. PICK g \in [0 .. m -> Amounts] :
        /\ Derived!Total(f) = g[m] /\ g[0] = Derived!Unknown
        /\ \A n \in 1 .. m : g[n] = Derived!Plus(g[n - 1], f[n])
  BY <1>1, TotalSums
<1> DEFINE T == {n \in 0 .. m : g[n] = IF n = 0 THEN Derived!Unknown ELSE b}
<1>3. 0 \in T
  BY <1>2
<1>4. ASSUME NEW n \in 1 .. m, n - 1 \in T PROVE n \in T
  <2>1. g[n] = Derived!Plus(g[n - 1], b) /\ g[n - 1] \in {b, Derived!Unknown}
    BY <1>1, <1>2, <1>4
  <2> QED
    BY <2>1 DEF Derived!Plus, Derived!Unknown
<1> HIDE DEF T
<1>5. \A n \in 0 .. m : n \in T
  BY <1>3, <1>4, BoundedInduction
<1>6. g[m] = b
  BY <1>5 DEF T
<1> QED
  BY <1>2, <1>6 DEF f

TurnCount == Derived!Cardinality(Derived!TurnStarts)

\* Each row adds to a field of the usage what x has for the row.
IsAdded(field, x) ==
  /\ x \in [1 .. Len(ledger) -> Amounts]
  /\ \A u \in Usages : u[field] \in Amounts
  /\ \A u \in Usages, k \in 1 .. Len(ledger) :
       Derived!WithRow(u, ledger[k])[field] = Derived!Plus(u[field], x[k])
  /\ Derived!NoUsage[field] \in {0, Derived!Unknown}
  /\ TurnCount # 0 \/ Derived!NoUsage[field] = Derived!Unknown

AddsUp(field) ==
  Derived!Total([n \in 1 .. TurnCount |-> Derived!UsageOf(Derived!RowsOfTurn(n))[field]])
    = Derived!UsageOf(DOMAIN ledger)[field]

\* Each row is of one turn, so that what the turns report of a field follows
\* what the session does, row by row.
LEMMA TurnsFollowSession ==
  ASSUME LedgerInv, NEW field, NEW x, IsAdded(field, x)
  PROVE  AddsUp(field)
<1> DEFINE N == TurnCount
<1>1. /\ x \in [1 .. Len(ledger) -> Amounts]
      /\ \A u \in Usages : u[field] \in Amounts
      /\ \A u \in Usages, k \in 1 .. Len(ledger) :
           Derived!WithRow(u, ledger[k])[field] = Derived!Plus(u[field], x[k])
      /\ Derived!NoUsage[field] \in {0, Derived!Unknown}
      /\ N # 0 \/ Derived!NoUsage[field] = Derived!Unknown
  BY DEF IsAdded
<1>2. PICK G : \A n \in 1 .. N : IsUsage(Derived!RowsOfTurn(n), G[n])
  <2> DEFINE G == [n \in 1 .. N |-> CHOOSE g : IsUsage(Derived!RowsOfTurn(n), g)]
  <2>1. \A n \in 1 .. N :
          IsUsage(Derived!RowsOfTurn(n), CHOOSE g : IsUsage(Derived!RowsOfTurn(n), g))
    BY UsageAdds
  <2>2. \A n \in 1 .. N : IsUsage(Derived!RowsOfTurn(n), G[n])
    BY <2>1
  <2> QED
    BY <2>2
<1>3. PICK r : IsUsage(DOMAIN ledger, r)
  BY UsageAdds
<1> DEFINE m == Len(ledger)
           Reported(k) == [n \in 1 .. N |-> G[n][k][field]]
           T == {k \in 0 .. m : Derived!Total(Reported(k)) = r[k][field]}
<1>4. m \in Nat /\ N \in Nat
  BY LedgerFacts, TurnsAreNumbered DEF TurnCount
<1>5. /\ \A n \in 1 .. N, k \in 0 .. m : G[n][k] \in Usages
      /\ \A k \in 0 .. m : r[k] \in Usages
  BY <1>2, <1>3 DEF IsUsage
<1>6. \A k \in 0 .. m : Reported(k) \in [1 .. N -> Amounts]
  BY <1>1, <1>5
<1>7. 0 \in T
  <2>1. \A n \in 1 .. N : G[n][0] = Derived!NoUsage
    BY <1>4, <1>2 DEF IsUsage
  <2>2. r[0] = Derived!NoUsage
    BY <1>3 DEF IsUsage
  <2>3. Reported(0) = [n \in 1 .. N |-> Derived!NoUsage[field]]
    BY <2>1
  <2>4. Derived!Total(Reported(0)) = Derived!NoUsage[field]
    BY <1>4, <1>1, <2>3, TotalOfNothing
  <2> QED
    BY <1>4, <2>2, <2>4
<1>8. ASSUME NEW k \in 1 .. m, k - 1 \in T PROVE k \in T
  <2> DEFINE t == Derived!OpenAt(ledger[k].at)
  <2>1. t \in 1 .. N /\ k \in DOMAIN ledger /\ k - 1 \in 0 .. m
    BY <1>4, LedgerFacts, TurnsAreNumbered DEF TurnCount
  <2>2. ASSUME NEW n \in 1 .. N
        PROVE  G[n][k] = IF n = t THEN Derived!WithRow(G[n][k - 1], ledger[k])
                         ELSE G[n][k - 1]
    <3>1. n = t <=> k \in Derived!RowsOfTurn(n)
      BY <2>1 DEF Derived!RowsOfTurn
    <3> QED
      BY <1>2, <3>1 DEF IsUsage
  <2>3. r[k] = Derived!WithRow(r[k - 1], ledger[k])
    BY <1>3, <2>1 DEF IsUsage
  <2> DEFINE f == Reported(k - 1)
             h == Reported(k)
  <2>4. h[t] = Derived!Plus(f[t], x[k])
    <3>1. G[t][k] = Derived!WithRow(G[t][k - 1], ledger[k]) /\ G[t][k - 1] \in Usages
      BY <1>5, <2>1, <2>2
    <3> QED
      BY <1>1, <2>1, <3>1
  <2>5. \A n \in 1 .. N : n # t => h[n] = f[n]
    BY <2>2
  <2>6. f \in [1 .. N -> Amounts] /\ h \in [1 .. N -> Amounts] /\ x[k] \in Amounts
    BY <1>6, <1>1, <2>1
  <2> HIDE DEF f, h, t
  <2>7. Derived!Total(h) = Derived!Plus(Derived!Total(f), x[k])
    BY <1>4, <2>1, <2>4, <2>5, <2>6, TotalGrows
  <2>8. Derived!Total(f) = r[k - 1][field]
    BY <1>8 DEF f
  <2>9. Derived!Total(h) = r[k][field]
    BY <1>5, <1>1, <2>1, <2>3, <2>7, <2>8
  <2> QED
    BY <2>9 DEF h
<1> HIDE DEF T
<1>9. \A k \in 0 .. m : k \in T
  BY <1>4, <1>7, <1>8, BoundedInduction
<1>10. Derived!Total(Reported(m)) = r[m][field]
  BY <1>4, <1>9 DEF T
<1>11. Reported(m) = [n \in 1 .. N |-> Derived!UsageOf(Derived!RowsOfTurn(n))[field]]
  BY <1>2 DEF IsUsage
<1>12. r[m] = Derived!UsageOf(DOMAIN ledger)
  BY <1>3 DEF IsUsage
<1> QED
  BY <1>10, <1>11, <1>12 DEF AddsUp

\* The session's own fold is that of all the rows, with 0 for an unknown prompt.
AsReport(u) ==
  [steps |-> u.steps, prompt |-> Derived!OrZero(u.prompt), cached |-> u.cached]

SumsReport(g) ==
  g = [k \in 0 .. Len(ledger) |->
         IF k = 0 THEN Derived!NoReport ELSE Derived!Reported(g[k - 1], ledger[k])]

LEMMA SessionReads ==
  ASSUME LedgerInv PROVE Derived!UsageReport = AsReport(Derived!UsageOf(DOMAIN ledger))
<1> DEFINE m == Len(ledger)
<1>1. PICK r : IsUsage(DOMAIN ledger, r)
  BY UsageAdds
<1>2. m \in Nat /\ r[0] = Derived!NoUsage /\ \A k \in 0 .. m : r[k] \in Usages
  BY <1>1, LedgerFacts DEF IsUsage
<1>3. AsReport(r[0]) = Derived!NoReport
  BY <1>2 DEF AsReport, Derived!NoUsage, Derived!NoReport, Derived!OrZero
<1>4. ASSUME NEW k \in 1 .. m
      PROVE  Derived!Reported(AsReport(r[k - 1]), ledger[k]) = AsReport(r[k])
  <2> DEFINE u == r[k - 1]
             row == ledger[k]
  <2>1. u \in Usages /\ row \in LedgerRows /\ SaysOrNot(row)
    BY <1>2, LedgerFacts
  <2>2. r[k] = Derived!WithRow(u, row)
    BY <1>1, LedgerFacts DEF IsUsage
  <2> HIDE DEF u, row
  <2>3. /\ u.steps \in Nat /\ u.prompt \in Amounts
        /\ row.says \in BOOLEAN /\ row.prompt \in Amounts
    BY <2>1 DEF Usages, LedgerRows
  <2>4. u.steps + Derived!StepsOf(row) = Derived!WithRow(u, row).steps
    BY <2>3 DEF Derived!WithRow, Derived!StepsOf
  <2>5. Derived!OrZero(u.prompt) + Derived!OrZero(row.prompt)
          = Derived!OrZero(Derived!Plus(u.prompt, row.prompt))
    BY <2>3 DEF Derived!OrZero, Derived!Plus, Amounts, Derived!Unknown
  <2>6. /\ Derived!WithRow(u, row).prompt = Derived!Plus(u.prompt, row.prompt)
        /\ Derived!WithRow(u, row).cached = Derived!Plus(u.cached, row.cached)
    BY <2>1, WithRowFacts
  <2> QED
    BY <2>2, <2>4, <2>5, <2>6 DEF AsReport, Derived!Reported, u, row
<1> DEFINE s == [k \in 0 .. m |-> AsReport(r[k])]
<1>5. SumsReport(s)
  <2>1. ASSUME NEW k \in 0 .. m
        PROVE  s[k] = IF k = 0 THEN Derived!NoReport ELSE Derived!Reported(s[k - 1], ledger[k])
    BY <1>2, <1>3, <1>4
  <2>2. s = [k \in 0 .. m |->
               IF k = 0 THEN Derived!NoReport ELSE Derived!Reported(s[k - 1], ledger[k])]
    BY <2>1
  <2> HIDE DEF s
  <2> QED
    BY <2>2 DEF SumsReport
<1> DEFINE g == CHOOSE h : SumsReport(h)
<1>6. SumsReport(g)
  BY <1>5
<1>7. Derived!UsageReport = g[m]
  BY DEF Derived!UsageReport, SumsReport
<1> HIDE DEF g, m
<1>8. \A k \in 0 .. m :
        g[k] = IF k = 0 THEN Derived!NoReport ELSE Derived!Reported(g[k - 1], ledger[k])
  BY <1>6, Zenon DEF SumsReport, m
<1> DEFINE T == {k \in 0 .. m : g[k] = AsReport(r[k])}
<1>9. 0 \in T
  BY <1>2, <1>3, <1>8
<1>10. ASSUME NEW k \in 1 .. m, k - 1 \in T PROVE k \in T
  <2>1. g[k] = Derived!Reported(g[k - 1], ledger[k]) /\ g[k - 1] = AsReport(r[k - 1])
    BY <1>2, <1>8, <1>10
  <2>2. g[k] = AsReport(r[k])
    BY <1>4, <2>1
  <2> QED
    BY <1>2, <2>2
<1> HIDE DEF T
<1>11. \A k \in 0 .. m : k \in T
  BY <1>2, <1>9, <1>10, BoundedInduction
<1>12. g[m] = AsReport(r[m])
  BY <1>2, <1>11 DEF T
<1> QED
  BY <1>1, <1>7, <1>12 DEF IsUsage, m

\* A turn knows its prompt tokens just when one of its rows has them.
LEMMA UnknownInEveryRow ==
  ASSUME LedgerInv, NEW rows, rows \subseteq DOMAIN ledger
  PROVE  Derived!UsageOf(rows).prompt = Derived!Unknown
           <=> \A k \in rows : ledger[k].prompt = Derived!Unknown
<1> DEFINE m == Len(ledger)
<1>1. PICK g : IsUsage(rows, g)
  BY UsageAdds
<1>2. /\ m \in Nat /\ rows \subseteq 1 .. m
      /\ g[0].prompt = Derived!Unknown
      /\ \A k \in 0 .. m : g[k] \in Usages
  BY <1>1, LedgerFacts, NoUsageFacts DEF IsUsage
<1> DEFINE Unheard(k) == \A j \in rows : j <= k => ledger[j].prompt = Derived!Unknown
           T == {k \in 0 .. m : g[k].prompt = Derived!Unknown <=> Unheard(k)}
<1>3. 0 \in T
  BY <1>2
<1>4. ASSUME NEW k \in 1 .. m, k - 1 \in T PROVE k \in T
  <2>1. CASE k \in rows
    <3>1. g[k] = Derived!WithRow(g[k - 1], ledger[k]) /\ g[k - 1] \in Usages
      BY <1>1, <1>2, <2>1 DEF IsUsage
    <3>2. ledger[k] \in LedgerRows /\ SaysOrNot(ledger[k])
      BY LedgerFacts
    <3>3. g[k].prompt = Derived!Plus(g[k - 1].prompt, ledger[k].prompt)
      BY <3>1, <3>2, WithRowFacts
    <3>4. g[k - 1].prompt \in Amounts /\ ledger[k].prompt \in Amounts
      BY <3>1, <3>2 DEF Usages, LedgerRows
    <3>5. g[k].prompt = Derived!Unknown
            <=> g[k - 1].prompt = Derived!Unknown /\ ledger[k].prompt = Derived!Unknown
      BY <3>3, <3>4 DEF Derived!Plus, Amounts, Derived!Unknown
    <3>6. Unheard(k) <=> Unheard(k - 1) /\ ledger[k].prompt = Derived!Unknown
      BY <1>2, <2>1
    <3> QED
      BY <1>4, <3>5, <3>6
  <2>2. CASE k \notin rows
    <3>1. g[k] = g[k - 1]
      BY <1>1, <2>2 DEF IsUsage
    <3>2. Unheard(k) <=> Unheard(k - 1)
      BY <1>2, <2>2
    <3> QED
      BY <1>4, <3>1, <3>2
  <2> QED
    BY <2>1, <2>2
<1> HIDE DEF T
<1>5. \A k \in 0 .. m : k \in T
  BY <1>2, <1>3, <1>4, BoundedInduction
<1>6. g[m].prompt = Derived!Unknown <=> Unheard(m)
  BY <1>2, <1>5 DEF T
<1> QED
  BY <1>1, <1>2, <1>6 DEF IsUsage

LEMMA TurnsAddUpHolds == LedgerInv => Derived!TurnsAddUp
<1> SUFFICES ASSUME LedgerInv PROVE Derived!TurnsAddUp
  OBVIOUS
<1> DEFINE m == Len(ledger)
           All == Derived!UsageOf(DOMAIN ledger)
<1>1. \A u \in Usages, k \in 1 .. m :
        /\ u.steps \in Nat /\ u.prompt \in Amounts /\ u.cached \in Amounts
        /\ ledger[k].says \in BOOLEAN
        /\ ledger[k].prompt \in Amounts /\ ledger[k].cached \in Amounts
  BY LedgerFacts DEF Usages, LedgerRows
<1>2. DOMAIN Derived!TurnStats = 1 .. TurnCount
  BY DEF Derived!TurnStats, TurnCount
<1>3. \A n \in 1 .. TurnCount : Derived!TurnStats[n] = Derived!UsageOf(Derived!RowsOfTurn(n))
  BY DEF Derived!TurnStats, TurnCount
<1>4. AddsUp("prompt")
  <2> DEFINE x == [k \in 1 .. m |-> ledger[k].prompt]
  <2>1. x \in [1 .. m -> Amounts]
    BY LedgerFacts DEF LedgerRows
  <2>2. \A u \in Usages, k \in 1 .. m :
          Derived!WithRow(u, ledger[k]).prompt = Derived!Plus(u.prompt, x[k])
    BY WithRowFacts, LedgerFacts
  <2> HIDE DEF x
  <2>3. \A u \in Usages : u.prompt \in Amounts
    BY DEF Usages
  <2>4. IsAdded("prompt", x)
    BY <2>1, <2>2, <2>3, NoUsageFacts DEF IsAdded
  <2> QED
    BY <2>4, TurnsFollowSession
<1>5. AddsUp("cached")
  <2> DEFINE x == [k \in 1 .. m |-> ledger[k].cached]
  <2>1. x \in [1 .. m -> Amounts]
    BY LedgerFacts DEF LedgerRows
  <2>2. \A u \in Usages, k \in 1 .. m :
          Derived!WithRow(u, ledger[k]).cached = Derived!Plus(u.cached, x[k])
    BY WithRowFacts, LedgerFacts
  <2> HIDE DEF x
  <2>3. \A u \in Usages : u.cached \in Amounts
    BY DEF Usages
  <2>4. IsAdded("cached", x)
    BY <2>1, <2>2, <2>3, NoUsageFacts DEF IsAdded
  <2> QED
    BY <2>4, TurnsFollowSession
<1>6. ledger # <<>> => AddsUp("steps")
  <2> SUFFICES ASSUME ledger # <<>> PROVE AddsUp("steps")
    OBVIOUS
  <2> DEFINE x == [k \in 1 .. m |-> Derived!StepsOf(ledger[k])]
  <2>1. x \in [1 .. m -> Amounts]
    BY DEF Amounts, Derived!StepsOf
  <2>2. \A u \in Usages, k \in 1 .. m :
          Derived!WithRow(u, ledger[k]).steps = Derived!Plus(u.steps, x[k])
    BY WithRowFacts, LedgerFacts
  <2> HIDE DEF x
  <2>3. TurnCount # 0
    <3>1. 1 \in DOMAIN ledger
      BY LedgerFacts DEF LedgerInv
    <3> QED
      BY <3>1, TurnsAreNumbered DEF TurnCount
  <2>4. \A u \in Usages : u.steps \in Amounts
    BY DEF Amounts, Usages
  <2>5. IsAdded("steps", x)
    BY <2>1, <2>2, <2>3, <2>4, NoUsageFacts DEF IsAdded
  <2> QED
    BY <2>5, TurnsFollowSession
<1>7. /\ Derived!UsageReport.steps = All.steps
      /\ Derived!UsageReport.prompt = Derived!OrZero(All.prompt)
      /\ Derived!UsageReport.cached = All.cached
  BY SessionReads DEF AsReport
<1>8. ASSUME NEW field, AddsUp(field)
      PROVE  Derived!Total([n \in DOMAIN Derived!TurnStats |-> Derived!TurnStats[n][field]])
               = All[field]
  <2>1. [n \in DOMAIN Derived!TurnStats |-> Derived!TurnStats[n][field]]
          = [n \in 1 .. TurnCount |-> Derived!UsageOf(Derived!RowsOfTurn(n))[field]]
    BY <1>2, <1>3
  <2> QED
    BY <1>8, <2>1 DEF AddsUp
<1>9. ASSUME NEW n \in DOMAIN Derived!TurnStats
      PROVE  Derived!TurnStats[n].prompt = Derived!Unknown
               <=> \A k \in Derived!RowsOfTurn(n) : ledger[k].prompt = Derived!Unknown
  <2>1. Derived!RowsOfTurn(n) \subseteq DOMAIN ledger
    BY DEF Derived!RowsOfTurn
  <2> QED
    BY <1>2, <1>3, <2>1, UnknownInEveryRow
<1> HIDE DEF All
<1>10. /\ Derived!Total([n \in DOMAIN Derived!TurnStats |-> Derived!TurnStats[n].prompt])
            = All.prompt
       /\ Derived!Total([n \in DOMAIN Derived!TurnStats |-> Derived!TurnStats[n].cached])
            = All.cached
       /\ ledger # <<>> =>
            Derived!Total([n \in DOMAIN Derived!TurnStats |-> Derived!TurnStats[n].steps])
              = All.steps
  BY <1>4, <1>5, <1>6, <1>8
<1> QED
  BY <1>7, <1>9, <1>10 DEF Derived!TurnsAddUp

-----------------------------------------------------------------------------
(* The replay *)

Records(g) ==
  g = [n \in 0 .. Len(log) |->
         IF n = 0 THEN <<>>
         ELSE IF Derived!IsCall(log[n]) THEN Append(g[n - 1], log[n]) ELSE g[n - 1]]

LEMMA RecordedTyped == ASSUME LedgerInv PROVE Derived!Recorded \in Seq(LoggedEntries)
<1> DEFINE m == Len(log)
           V == Seq(LoggedEntries)
           step == [n \in 1 .. m |-> [v \in V |->
                      IF Derived!IsCall(log[n]) THEN Append(v, log[n]) ELSE v]]
<1>1. m \in Nat /\ \A n \in 1 .. m : log[n] \in LoggedEntries
  BY DEF LedgerInv
<1>2. step \in [1 .. m -> [V -> V]]
  <2>1. \A n \in 1 .. m, v \in V :
          (IF Derived!IsCall(log[n]) THEN Append(v, log[n]) ELSE v) \in V
    BY <1>1
  <2> QED
    BY <2>1
<1>3. \A n \in 1 .. m, v \in V :
        step[n][v] = IF Derived!IsCall(log[n]) THEN Append(v, log[n]) ELSE v
  OBVIOUS
<1> DEFINE none == <<>>
<1>4. none \in V
  OBVIOUS
<1> HIDE DEF step, m, V, none
<1>5. PICK g \in [0 .. m -> V] :
        g[0] = none /\ \A n \in 1 .. m : g[n] = step[n][g[n - 1]]
  <2>1. m \in Nat
    BY <1>1
  <2> QED
    BY <1>2, <1>4, <2>1, Recursion
<1>6. \A n \in 0 .. m :
        g[n] = IF n = 0 THEN <<>>
               ELSE IF Derived!IsCall(log[n]) THEN Append(g[n - 1], log[n]) ELSE g[n - 1]
  <2> TAKE n \in 0 .. m
  <2>1. CASE n = 0
    BY <1>5, <2>1 DEF none
  <2>2. CASE n # 0
    <3>1. n \in 1 .. m /\ g[n - 1] \in V /\ g[n] = step[n][g[n - 1]]
      BY <1>1, <1>5, <2>2
    <3> QED
      BY <1>3, <2>2, <3>1
  <2> QED
    BY <2>1, <2>2
<1>7. g = [n \in 0 .. m |-> g[n]]
  BY Zenon
<1>8. g = [n \in 0 .. m |->
             IF n = 0 THEN <<>>
             ELSE IF Derived!IsCall(log[n]) THEN Append(g[n - 1], log[n]) ELSE g[n - 1]]
  BY <1>6, <1>7
<1>9. Records(g)
  BY <1>8 DEF Records, m
<1> DEFINE h == CHOOSE c : Records(c)
<1>10. Records(h)
  BY <1>9
<1>11. Derived!Recorded = h[m]
  BY DEF Derived!Recorded, Records, m
<1> HIDE DEF h
<1>12. \A n \in 0 .. m :
         h[n] = IF n = 0 THEN <<>>
                ELSE IF Derived!IsCall(log[n]) THEN Append(h[n - 1], log[n]) ELSE h[n - 1]
  BY <1>10, Zenon DEF Records, m
<1> DEFINE T == {n \in 0 .. m : h[n] \in V}
<1>13. 0 \in T
  BY <1>1, <1>4, <1>12 DEF none
<1>14. ASSUME NEW n \in 1 .. m, n - 1 \in T PROVE n \in T
  <2>1. h[n - 1] \in V /\ log[n] \in LoggedEntries
    BY <1>1, <1>14
  <2>2. h[n] = IF Derived!IsCall(log[n]) THEN Append(h[n - 1], log[n]) ELSE h[n - 1]
    BY <1>1, <1>12
  <2>3. Append(h[n - 1], log[n]) \in V
    BY <2>1 DEF V
  <2> QED
    BY <2>1, <2>2, <2>3
<1> HIDE DEF T
<1>15. \A n \in 0 .. m : n \in T
  BY <1>1, <1>13, <1>14, BoundedInduction
<1>16. h[m] \in V
  BY <1>1, <1>15 DEF T
<1> QED
  BY <1>11, <1>16 DEF V

LEMMA OldestFacts ==
  ASSUME NEW S, S \subseteq Nat, S # {}
  PROVE  Derived!Oldest(S) \in S /\ \A j \in S : Derived!Oldest(S) <= j
BY LeastNumber DEF Derived!Oldest

\* A match is a recorded call that was not told of.
LEMMA MatchFacts ==
  ASSUME LedgerInv, NEW c, NEW S
  PROVE  /\ Derived!Match(c, S) \subseteq DOMAIN Derived!Recorded \ S
         /\ Derived!Match(c, S) \subseteq Nat
<1>1. DOMAIN Derived!Recorded \subseteq Nat
  BY RecordedTyped
<1> QED
  BY <1>1 DEF Derived!Match, Derived!MatchByTool

LEMMA ToldFacts ==
  ASSUME ReportsInv, NEW i \in DOMAIN walk.told
  PROVE  /\ walk.told[i] \in DOMAIN Derived!Recorded
         /\ walk.told[i] \notin ToldBefore(i)
         /\ \A j \in DOMAIN Derived!Recorded \ ToldBefore(i) :
              Derived!Recorded[j].call = walk.calls[i] =>
                /\ Derived!Recorded[walk.told[i]].call = walk.calls[i]
                /\ walk.told[i] <= j
<1> DEFINE S == ToldBefore(i)
           c == walk.calls[i]
           found == Derived!Match(c, S)
           exact == {j \in DOMAIN Derived!Recorded \ S : Derived!Recorded[j].call = c}
<1>1. found # {} /\ walk.told[i] = Derived!Oldest(found)
  BY DEF ReportsInv, WalkInv
<1>2. found \subseteq DOMAIN Derived!Recorded \ S /\ found \subseteq Nat
  BY MatchFacts DEF ReportsInv
<1> HIDE DEF S
<1>3. exact # {} => found = exact
  BY DEF Derived!Match
<1> HIDE DEF found
<1>4. walk.told[i] \in found /\ \A j \in found : walk.told[i] <= j
  BY <1>1, <1>2, OldestFacts
<1> QED
  BY <1>2, <1>3, <1>4 DEF S

LEMMA SameInjective == \A f : Derived!IsInjective(f) <=> IsInjective(f)
BY DEF Derived!IsInjective, IsInjective

\* A replay that agrees with each of n recorded calls, and made no other, was
\* told of each of them in turn.
LEMMA ExactIsTold ==
  ASSUME ReportsInv, NEW n \in Nat, DOMAIN Derived!Recorded = 1 .. n,
         DOMAIN walk.told = 1 .. n,
         \A i \in 1 .. n : Derived!Recorded[i].call = walk.calls[i]
  PROVE  \A i \in 1 .. n : walk.told[i] = i
<1> DEFINE T == {k \in 0 .. n : \A i \in 1 .. k : walk.told[i] = i}
<1>1. 0 \in T
  OBVIOUS
<1>2. ASSUME NEW k \in 1 .. n, k - 1 \in T PROVE k \in T
  <2>1. \A i \in 1 .. k - 1 : walk.told[i] = i
    BY <1>2
  <2>2. ToldBefore(k) = 1 .. k - 1
    BY <2>1 DEF ToldBefore
  <2>3. k \in DOMAIN Derived!Recorded \ ToldBefore(k)
    BY <2>2
  <2>4. walk.told[k] \in 1 .. n /\ walk.told[k] \notin 1 .. k - 1 /\ walk.told[k] <= k
    BY <2>2, <2>3, ToldFacts
  <2> QED
    BY <2>1, <2>4
<1> HIDE DEF T
<1>3. \A k \in 0 .. n : k \in T
  BY <1>1, <1>2, BoundedInduction
<1> QED
  BY <1>3 DEF T

LEMMA ReplayIsExactHolds == ReportsInv => Derived!ReplayIsExact
<1> SUFFICES ASSUME ReportsInv PROVE Derived!ReplayIsExact
  OBVIOUS
<1>1. ASSUME NEW i \in DOMAIN walk.told,
             Derived!Recorded[walk.told[i]].call # walk.calls[i],
             NEW j \in DOMAIN Derived!Recorded, Derived!Recorded[j].call = walk.calls[i]
      PROVE  \E k \in 1 .. i - 1 : walk.told[k] = j
  <2>1. j \in ToldBefore(i)
    BY <1>1, ToldFacts
  <2> QED
    BY <2>1 DEF ToldBefore
<1>2. Derived!IsInjective(walk.told)
  <2>1. DOMAIN walk.told \subseteq Nat
    BY DEF ReportsInv, WalkInv
  <2>2. ASSUME NEW i \in DOMAIN walk.told, NEW j \in DOMAIN walk.told, i < j
        PROVE  walk.told[i] # walk.told[j]
    <3>1. walk.told[i] \in ToldBefore(j)
      <4>1. i \in 1 .. j - 1
        BY <2>2 DEF ReportsInv, WalkInv
      <4> QED
        BY <4>1 DEF ToldBefore
    <3> QED
      BY <3>1, ToldFacts
  <2>3. \A i, j \in DOMAIN walk.told : walk.told[i] = walk.told[j] => i = j
    BY <2>1, <2>2
  <2> QED
    BY <2>3 DEF Derived!IsInjective
<1>3. ASSUME Derived!IsExact
      PROVE  walk.told = [i \in DOMAIN Derived!Recorded |-> i]
  <2> DEFINE n == Len(Derived!Recorded)
             c == Len(walk.calls)
             S == {i \in DOMAIN Derived!Recorded \cap DOMAIN walk.calls :
                     Derived!Recorded[i].call = walk.calls[i]}
  <2>1. /\ n \in Nat /\ DOMAIN Derived!Recorded = 1 .. n
        /\ c \in Nat /\ DOMAIN walk.calls = 1 .. c
        /\ walk.told \in Seq(DOMAIN Derived!Recorded) /\ Len(walk.told) = c
    BY <1>3, RecordedTyped DEF ReportsInv, WalkInv, Derived!IsExact
  <2>2. Cardinality(S) = IF n > c THEN n ELSE c
    BY <1>3, SameCardinalityOfTurns
    DEF Derived!IsExact, Derived!Agreement, Derived!Longest, Derived!StepsTaken
  <2> HIDE DEF n, c
  <2>3. S \subseteq 1 .. n /\ S \subseteq 1 .. c
    BY <2>1
  <2> HIDE DEF S
  <2>4. /\ IsFiniteSet(1 .. n) /\ Cardinality(1 .. n) = n
        /\ IsFiniteSet(1 .. c) /\ Cardinality(1 .. c) = c
    <3>1. ASSUME NEW k \in Nat PROVE IsFiniteSet(1 .. k) /\ Cardinality(1 .. k) = k
      <4>1. Cardinality(1 .. k) = IF 1 > k THEN 0 ELSE k - 1 + 1
        BY FS_Interval
      <4> QED
        BY <4>1, FS_Interval
    <3>2. n \in Nat /\ c \in Nat
      BY <2>1
    <3> QED
      BY <3>1, <3>2
  <2>5. /\ Cardinality(S) <= n /\ Cardinality(S) <= c /\ (Cardinality(S) = n => S = 1 .. n)
        /\ Cardinality(S) \in Nat
    BY <2>3, <2>4, FS_Subset, FS_CardinalityType
  <2>6. n = c /\ S = 1 .. n
    BY <2>1, <2>2, <2>5
  <2>7. \A i \in 1 .. n : Derived!Recorded[i].call = walk.calls[i]
    BY <2>6 DEF S
  <2>8. DOMAIN walk.told = 1 .. n
    BY <2>1, <2>6
  <2>9. \A i \in 1 .. n : walk.told[i] = i
    BY <2>1, <2>7, <2>8, ExactIsTold
  <2> QED
    BY <2>1, <2>8, <2>9
<1> QED
  BY <1>1, <1>2, <1>3 DEF Derived!ReplayIsExact

-----------------------------------------------------------------------------
(* Every step keeps ReportsInv *)

LEMMA InitReports == Derived!Init => ReportsInv
<1> SUFFICES ASSUME Derived!Init PROVE ReportsInv
  OBVIOUS
<1>1. /\ log = <<>> /\ ledger = <<>> /\ walk = Derived!NoWalk
      /\ walk.told = <<>> /\ walk.calls = <<>> /\ walk.is = "none"
  BY DEF Derived!Init, Derived!NoWalk
<1>2. LedgerInv
  <2>1. log \in Seq(LoggedEntries) /\ ledger \in Seq(LedgerRows)
    BY <1>1
  <2>2. DOMAIN ledger = {}
    BY <1>1
  <2> QED
    BY <1>1, <2>1, <2>2 DEF LedgerInv
<1>3. WalkInv
  <2>1. walk.told \in Seq(DOMAIN Derived!Recorded) /\ walk.calls \in Seq(Derived!ToolCalls)
    BY <1>1
  <2>2. DOMAIN walk.told = {} /\ Len(walk.told) = 0 /\ Len(walk.calls) = 0
    BY <1>1
  <2>3. walk = [is |-> "none", calls |-> walk.calls, told |-> walk.told]
    BY <1>1 DEF Derived!NoWalk
  <2>4. walk \in [is : {"none", "walking", "final", "diverged"},
                  calls : Seq(Derived!ToolCalls), told : Seq(DOMAIN Derived!Recorded)]
    BY <2>1, <2>3
  <2> QED
    BY <1>1, <2>2, <2>4 DEF WalkInv
<1> QED
  BY <1>2, <1>3 DEF ReportsInv

LEMMA GrownSequence ==
  ASSUME NEW S, NEW s \in Seq(S), NEW e \in S, NEW t, t \in {s, Append(s, e)}
  PROVE  /\ t \in Seq(S) /\ Len(s) <= Len(t)
         /\ \A k \in DOMAIN s : k \in DOMAIN t /\ t[k] = s[k]
         /\ \A k \in DOMAIN t : k \notin DOMAIN s => t[k] = e /\ t # s
<1>1. CASE t = s
  BY <1>1
<1>2. CASE t = Append(s, e)
  BY <1>2
<1> QED
  BY <1>1, <1>2

LEMMA StepKeepsLedger ==
  ASSUME LedgerInv, NEW e \in LoggedEntries, log' \in {log, Append(log, e)},
         log = <<>> => Derived!OpensTurn(e),
         NEW row \in LedgerRows, ledger' \in {ledger, Append(ledger, row)},
         ledger' # ledger => row.at \in 1 .. Len(log) /\ SaysOrNot(row)
  PROVE  LedgerInv'
<1>1. log' \in Seq(LoggedEntries) /\ ledger' \in Seq(LedgerRows) /\ Len(log) <= Len(log')
  BY GrownSequence DEF LedgerInv
<1>2. log' # <<>> => Derived!OpensTurn(log'[1])
  <2>1. CASE log = <<>>
    BY <2>1 DEF LedgerInv
  <2>2. CASE log # <<>>
    <3>1. Len(log) \in Nat /\ Len(log) # 0 /\ 1 \in DOMAIN log
      BY <2>2 DEF LedgerInv
    <3>2. Append(log, e)[1] = log[1]
      BY <3>1 DEF LedgerInv
    <3>3. log'[1] = log[1]
      BY <3>2
    <3> QED
      BY <2>2, <3>3 DEF LedgerInv
  <2> QED
    BY <2>1, <2>2
<1>3. ASSUME NEW k \in DOMAIN ledger'
      PROVE  ledger'[k].at \in 1 .. Len(log') /\ SaysOrNot(ledger'[k])
  <2>1. Len(log) \in Nat /\ Len(log') \in Nat
    BY <1>1 DEF LedgerInv
  <2>2. CASE k \in DOMAIN ledger
    <3>1. ledger'[k] = ledger[k]
      BY <2>2, GrownSequence DEF LedgerInv
    <3>2. ledger[k].at \in 1 .. Len(log) /\ SaysOrNot(ledger[k])
      BY <2>2 DEF LedgerInv
    <3> QED
      BY <1>1, <2>1, <3>1, <3>2
  <2>3. CASE k \notin DOMAIN ledger
    <3>1. ledger'[k] = row /\ ledger' # ledger
      BY <2>3, GrownSequence DEF LedgerInv
    <3> QED
      BY <1>1, <2>1, <3>1
  <2> QED
    BY <2>2, <2>3
<1> QED
  BY <1>1, <1>2, <1>3 DEF LedgerInv, SaysOrNot, Derived!OpensTurn

LEMMA SessionKeepsLedger ==
  ASSUME LedgerInv, Derived!Prompt \/ Derived!Note \/ Derived!Step
  PROVE  LedgerInv'
<1>1. CASE Derived!Prompt
  <2> DEFINE e == Derived!Entry("user", Derived!NoCall)
             row == [at |-> 0, says |-> TRUE, prompt |-> 0, cached |-> 0]
  <2>1. e \in LoggedEntries /\ Derived!OpensTurn(e)
    BY DEF LoggedEntries, Derived!Entry, Derived!OpensTurn
  <2>2. log' = Append(log, e) /\ ledger' = ledger /\ row \in LedgerRows
    BY <1>1 DEF Derived!Prompt, Derived!Add, LedgerRows, Amounts
  <2> HIDE DEF e, row
  <2> QED
    BY <2>1, <2>2, StepKeepsLedger
<1>2. CASE Derived!Note
  <2> DEFINE e == Derived!Entry("other", Derived!NoCall)
             row == [at |-> 0, says |-> TRUE, prompt |-> 0, cached |-> 0]
  <2>1. e \in LoggedEntries /\ log # <<>>
    BY <1>2 DEF LoggedEntries, Derived!Entry, Derived!Note
  <2>2. log' = Append(log, e) /\ ledger' = ledger /\ row \in LedgerRows
    BY <1>2 DEF Derived!Note, Derived!Add, LedgerRows, Amounts
  <2> HIDE DEF e, row
  <2> QED
    BY <2>1, <2>2, StepKeepsLedger
<1>3. CASE Derived!Step
  <2>1. PICK r \in Derived!Rows :
          ledger' = Append(ledger, [at |-> Len(log), says |-> r.says,
                                    prompt |-> r.prompt, cached |-> r.cached])
    BY <1>3 DEF Derived!Step
  <2> DEFINE row == [at |-> Len(log), says |-> r.says, prompt |-> r.prompt,
                     cached |-> r.cached]
  <2>2. /\ r.says \in BOOLEAN /\ r.prompt \in Amounts /\ r.cached \in Amounts
        /\ SaysOrNot(r)
    <3>1. CASE r \in [says : {TRUE}, prompt : {Derived!Unknown, 1, 2},
                      cached : {Derived!Unknown, 1}]
      <4>1. r.says = TRUE /\ r.prompt \in {Derived!Unknown, 1, 2}
            /\ r.cached \in {Derived!Unknown, 1}
        BY <3>1
      <4>2. {Derived!Unknown, 1, 2} \subseteq Amounts /\ {Derived!Unknown, 1} \subseteq Amounts
        BY DEF Amounts
      <4>3. r.prompt \in Amounts /\ r.cached \in Amounts
        BY <4>1, <4>2
      <4> QED
        BY <4>1, <4>3 DEF SaysOrNot
    <3>2. CASE r \in [says : {FALSE}, prompt : {Derived!Unknown},
                      cached : {Derived!Unknown}]
      <4>1. r.says = FALSE /\ r.prompt = Derived!Unknown /\ r.cached = Derived!Unknown
        BY <3>2
      <4>2. Derived!Unknown \in Amounts
        BY DEF Amounts
      <4> QED
        BY <4>1, <4>2 DEF SaysOrNot
    <3> QED
      BY <3>1, <3>2, Zenon DEF Derived!Rows
  <2>3. log # <<>> /\ Len(log) \in 1 .. Len(log)
    BY <1>3 DEF Derived!Step, LedgerInv
  <2>4. row \in LedgerRows /\ row.at \in 1 .. Len(log) /\ SaysOrNot(row)
    BY <2>2, <2>3 DEF LedgerRows, SaysOrNot
  <2>5. PICK e \in LoggedEntries : log' \in {log, Append(log, e)}
    <3>1. \A c \in Derived!ToolCalls : Derived!Entry("intent", c) \in LoggedEntries
      BY DEF LoggedEntries, Derived!Entry
    <3>2. Derived!Entry("other", Derived!NoCall) \in LoggedEntries
      BY DEF LoggedEntries, Derived!Entry
    <3> QED
      BY <1>3, <3>1, <3>2 DEF Derived!Step, Derived!Add
  <2>6. ledger' = Append(ledger, row)
    BY <2>1
  <2> HIDE DEF row
  <2> QED
    BY <2>3, <2>4, <2>5, <2>6, StepKeepsLedger
<1> QED
  BY <1>1, <1>2, <1>3

LEMMA RestKeepsWalk ==
  ASSUME WalkInv, walk.is = "none", walk' = walk
  PROVE  WalkInv'
BY DEF WalkInv, Derived!NoWalk

\* A step of the replay that tells nothing more.
LEMMA UntoldKeepsWalk ==
  ASSUME ReportsInv, log' = log, NEW w, walk' = w,
         w \in [is : {"walking", "final", "diverged"},
                calls : Seq(Derived!ToolCalls), told : {walk.told}],
         Len(walk.told) <= Len(w.calls),
         w.is \in {"walking", "final"} => Len(walk.told) = Len(w.calls),
         \A i \in DOMAIN walk.told : w.calls[i] = walk.calls[i]
  PROVE  WalkInv'
<1>1. Derived!Recorded' = Derived!Recorded
  BY DEF Derived!Recorded
<1>2. walk'.told = walk.told /\ walk'.is # "none"
  OBVIOUS
<1>3. ASSUME NEW i \in DOMAIN walk.told
      PROVE  LET found == Derived!Match(walk.calls[i], ToldBefore(i))' IN
             found # {} /\ walk'.told[i] = Derived!Oldest(found)
  <2>1. ToldBefore(i)' = ToldBefore(i)
    BY <1>2 DEF ToldBefore
  <2>2. walk'.calls[i] = walk.calls[i]
    OBVIOUS
  <2>3. Derived!Match(walk.calls[i], ToldBefore(i))' = Derived!Match(walk.calls[i], ToldBefore(i))
    BY <1>1, <2>1, <2>2 DEF Derived!Match, Derived!MatchByTool
  <2> QED
    BY <1>2, <2>3 DEF ReportsInv, WalkInv
<1>4. walk' \in [is : {"none", "walking", "final", "diverged"},
                 calls : Seq(Derived!ToolCalls), told : Seq(DOMAIN Derived!Recorded')]
  BY <1>1 DEF ReportsInv, WalkInv
<1>5. walk'.calls = w.calls /\ walk'.is = w.is
  OBVIOUS
<1> QED
  BY <1>2, <1>3, <1>4, <1>5 DEF WalkInv

LEMMA ReplayKeepsWalk ==
  ASSUME ReportsInv, NEW c \in Derived!ToolCalls, Derived!Replay(c)
  PROVE  WalkInv'
<1> DEFINE k == Len(walk.told)
           found == Derived!Match(c, Range(walk.told))
           called == [walk EXCEPT !.calls = Append(@, c)]
<1>1. /\ log' = log /\ walk.is = "walking"
      /\ walk.calls \in Seq(Derived!ToolCalls) /\ Len(walk.calls) = k
      /\ walk.told \in Seq(DOMAIN Derived!Recorded)
      /\ walk = [is |-> "walking", calls |-> walk.calls, told |-> walk.told]
  BY DEF Derived!Replay, Derived!Walks, ReportsInv, WalkInv
<1>2. walk' = IF found = {} THEN [called EXCEPT !.is = "diverged"]
              ELSE [called EXCEPT !.told = Append(@, Derived!Oldest(found))]
  BY DEF Derived!Replay, Derived!Range, Range
<1> HIDE DEF found
<1>3. CASE found = {}
  <2> DEFINE w == [is |-> "diverged", calls |-> Append(walk.calls, c), told |-> walk.told]
  <2>1. walk' = w
    BY <1>1, <1>2, <1>3
  <2>2. w \in [is : {"walking", "final", "diverged"},
               calls : Seq(Derived!ToolCalls), told : {walk.told}]
    BY <1>1
  <2>3. /\ Len(walk.told) <= Len(w.calls)
        /\ \A i \in DOMAIN walk.told : w.calls[i] = walk.calls[i]
    BY <1>1
  <2>4. w.is = "diverged"
    OBVIOUS
  <2> HIDE DEF w
  <2> QED
    BY <1>1, <2>1, <2>2, <2>3, <2>4, UntoldKeepsWalk
<1>4. CASE found # {}
  <2> DEFINE o == Derived!Oldest(found)
             w == [is |-> "walking", calls |-> Append(walk.calls, c),
                   told |-> Append(walk.told, o)]
  <2>1. walk' = w
    BY <1>1, <1>2, <1>4
  <2>2. o \in DOMAIN Derived!Recorded
    <3>1. found \subseteq DOMAIN Derived!Recorded /\ found \subseteq Nat
      BY MatchFacts DEF ReportsInv, found
    <3> QED
      BY <1>4, <3>1, OldestFacts
  <2>3. Derived!Recorded' = Derived!Recorded
    BY <1>1 DEF Derived!Recorded
  <2>4. /\ walk'.calls = Append(walk.calls, c) /\ walk'.told = Append(walk.told, o)
        /\ walk'.is = "walking"
    BY <2>1
  <2>5. /\ w.calls \in Seq(Derived!ToolCalls) /\ w.told \in Seq(DOMAIN Derived!Recorded)
        /\ Len(w.calls) = k + 1 /\ Len(w.told) = k + 1 /\ k \in Nat
        /\ \A i \in 1 .. k : w.calls[i] = walk.calls[i] /\ w.told[i] = walk.told[i]
        /\ w.calls[k + 1] = c /\ w.told[k + 1] = o
        /\ w = [is |-> "walking", calls |-> w.calls, told |-> w.told]
    BY <1>1, <2>2
  <2> HIDE DEF w, o
  <2>6. ASSUME NEW i \in 1 .. k + 1
        PROVE  LET again == Derived!Match(walk.calls[i], ToldBefore(i))' IN
               again # {} /\ walk'.told[i] = Derived!Oldest(again)
    <3>1. ToldBefore(i)' = ToldBefore(i)
      <4>1. \A j \in 1 .. i - 1 : walk'.told[j] = walk.told[j]
        BY <2>1, <2>5
      <4> QED
        BY <4>1 DEF ToldBefore
    <3>2. Derived!Match(walk.calls[i], ToldBefore(i))'
            = Derived!Match(walk'.calls[i], ToldBefore(i))
      BY <2>3, <3>1 DEF Derived!Match, Derived!MatchByTool
    <3>3. CASE i \in 1 .. k
      <4>1. walk'.calls[i] = walk.calls[i] /\ walk'.told[i] = walk.told[i]
        BY <2>1, <2>5, <3>3
      <4>2. i \in DOMAIN walk.told
        BY <1>1, <3>3
      <4> QED
        BY <3>2, <4>1, <4>2 DEF ReportsInv, WalkInv
    <3>4. CASE i = k + 1
      <4>1. ToldBefore(i) = Range(walk.told)
        <5>1. DOMAIN walk.told = 1 .. i - 1
          BY <1>1, <2>5, <3>4
        <5> QED
          BY <5>1 DEF ToldBefore, Range
      <4>2. walk'.calls[i] = c /\ walk'.told[i] = o
        BY <2>1, <2>5, <3>4
      <4>3. Derived!Match(walk.calls[i], ToldBefore(i))' = found
        BY <3>2, <4>1, <4>2 DEF found
      <4> QED
        BY <1>4, <4>2, <4>3 DEF o
    <3> QED
      BY <2>5, <3>3, <3>4
  <2>7. walk' \in [is : {"none", "walking", "final", "diverged"},
                   calls : Seq(Derived!ToolCalls), told : Seq(DOMAIN Derived!Recorded')]
    BY <2>1, <2>3, <2>5
  <2>8. /\ walk'.is = "walking" /\ Len(walk'.told) = k + 1 /\ Len(walk'.calls) = k + 1
        /\ DOMAIN walk'.told = 1 .. k + 1
    BY <2>1, <2>5
  <2> QED
    BY <2>5, <2>6, <2>7, <2>8 DEF WalkInv
<1> QED
  BY <1>3, <1>4

LEMMA NextKeepsReports ==
  ASSUME ReportsInv, [Derived!Next]_reportVars
  PROVE  ReportsInv'
<1>1. CASE UNCHANGED reportVars
  <2>1. Derived!Recorded' = Derived!Recorded /\ \A i : ToldBefore(i)' = ToldBefore(i)
    BY <1>1 DEF reportVars, Derived!Recorded, ToldBefore
  <2>2. \A c, S : Derived!Match(c, S)' = Derived!Match(c, S)
    BY <2>1 DEF Derived!Match, Derived!MatchByTool
  <2> QED
    BY <1>1, <2>1, <2>2 DEF reportVars, ReportsInv, LedgerInv, WalkInv
<1>2. CASE Derived!Prompt \/ Derived!Note \/ Derived!Step
  <2>1. LedgerInv'
    BY <1>2, SessionKeepsLedger DEF ReportsInv
  <2>2. walk.is = "none" /\ walk' = walk
    BY <1>2 DEF Derived!Prompt, Derived!Note, Derived!Step, Derived!Writable
  <2> QED
    BY <2>1, <2>2, RestKeepsWalk DEF ReportsInv
<1>3. CASE Derived!StartReplay
  <2> DEFINE w == [is |-> "walking", calls |-> <<>>, told |-> <<>>]
  <2>1. log' = log /\ ledger' = ledger /\ walk' = w /\ walk = Derived!NoWalk
    BY <1>3 DEF Derived!StartReplay, Derived!NoWalk, ReportsInv, WalkInv
  <2>2. walk.told = <<>> /\ w.calls = <<>> /\ w.is = "walking" /\ DOMAIN walk.told = {}
    BY <2>1 DEF Derived!NoWalk
  <2>3. w \in [is : {"walking", "final", "diverged"},
               calls : Seq(Derived!ToolCalls), told : {walk.told}]
    BY <2>2
  <2>4. Len(walk.told) = 0 /\ Len(w.calls) = 0
    BY <2>2
  <2> HIDE DEF w
  <2>5. WalkInv'
    BY <2>1, <2>2, <2>3, <2>4, UntoldKeepsWalk
  <2>6. LedgerInv'
    BY <2>1 DEF ReportsInv, LedgerInv
  <2> QED
    BY <2>5, <2>6 DEF ReportsInv
<1>4. CASE Derived!FinishReplay \/ Derived!EndReplay
  <2>1. PICK is \in {"final", "diverged"} : walk' = [walk EXCEPT !.is = is]
    BY <1>4 DEF Derived!FinishReplay, Derived!EndReplay
  <2>2. /\ log' = log /\ ledger' = ledger /\ walk.is = "walking"
    BY <1>4 DEF Derived!FinishReplay, Derived!EndReplay, Derived!Walks
  <2> DEFINE w == [is |-> is, calls |-> walk.calls, told |-> walk.told]
  <2>3. /\ walk' = w /\ w.is = is /\ w.calls = walk.calls
        /\ walk.calls \in Seq(Derived!ToolCalls)
        /\ Len(walk.told) = Len(walk.calls) /\ Len(walk.told) \in Nat
    BY <2>1, <2>2 DEF ReportsInv, WalkInv
  <2>4. w \in [is : {"walking", "final", "diverged"},
               calls : Seq(Derived!ToolCalls), told : {walk.told}]
    BY <2>3
  <2> HIDE DEF w
  <2>5. WalkInv'
    BY <2>2, <2>3, <2>4, UntoldKeepsWalk
  <2>6. LedgerInv'
    BY <2>2 DEF ReportsInv, LedgerInv
  <2> QED
    BY <2>5, <2>6 DEF ReportsInv
<1>5. ASSUME NEW c \in Derived!ToolCalls, Derived!Replay(c) PROVE ReportsInv'
  <2>1. log' = log /\ ledger' = ledger
    BY <1>5 DEF Derived!Replay
  <2>2. LedgerInv'
    BY <2>1 DEF ReportsInv, LedgerInv
  <2> QED
    BY <1>5, <2>2, ReplayKeepsWalk DEF ReportsInv
<1> QED
  BY <1>1, <1>2, <1>3, <1>4, <1>5 DEF Derived!Next

LEMMA ReportsAreSound == ReportsInv => ReportsAreTrue
BY TurnsAddUpHolds, ReplayIsExactHolds DEF ReportsInv, ReportsAreTrue

-----------------------------------------------------------------------------
(* The wire *)

(***************************************************************************)
(* What a provider is sent.  Owes: each message has its results behind it, *)
(* but the last one, of whose calls some are owed a result; GoodLog: the   *)
(* body of a log's request is like that, and has a result for every intent *)
(* that is not owed one.                                                   *)
(***************************************************************************)
Says == {"nobody", "user", "assistant"} \cup Lists \cup {NoList}
Askers == Calls \cup {"nobody"}
WireEntries ==
  [is : {"message", "intent", "tool_result", "error"}, of : Askers, says : Says,
   batch : BOOLEAN]
Chats == [role : Says \cup {"tool"}, calls : Seq(Askers)]

Intents(s) == {s[i].of : i \in {j \in DOMAIN s : Wire!IsIntent(s[j])}}

\* What an entry adds to the messages.
Adding(M, e, I) ==
  CASE e.is = "message" -> Append(M, Wire!Chat(e.says))
    [] e.is = "intent" -> Wire!WithCall(M, e)
    [] OTHER -> Wire!WithResult(M, e, I)

-----------------------------------------------------------------------------
(* The body of a request, entry by entry *)

\* The number of the last message that is no tool's, if there is one.
LEMMA LastSpokenFacts ==
  ASSUME NEW M \in Seq(Chats)
  PROVE  /\ Wire!LastSpoken(M) = 0 => \A i \in DOMAIN M : M[i].role = "tool"
         /\ Wire!LastSpoken(M) # 0 =>
              /\ Wire!LastSpoken(M) \in DOMAIN M
              /\ M[Wire!LastSpoken(M)].role # "tool"
              /\ \A j \in DOMAIN M : j > Wire!LastSpoken(M) => M[j].role = "tool"
<1> DEFINE S == {i \in DOMAIN M : M[i].role # "tool"}
<1>1. CASE S = {}
  BY <1>1 DEF Wire!LastSpoken
<1>2. CASE S # {}
  <2> DEFINE T == {Len(M) - i : i \in S}
  <2>1. T \subseteq Nat /\ T # {} /\ S \subseteq 1 .. Len(M) /\ Len(M) \in Nat
    BY <1>2
  <2>2. PICK m \in T : \A k \in T : m <= k
    BY <2>1, LeastNumber
  <2>3. PICK l \in S : m = Len(M) - l
    OBVIOUS
  <2>4. ASSUME NEW j \in S PROVE j <= l
    <3>1. Len(M) - j \in T
      OBVIOUS
    <3>2. m <= Len(M) - j
      BY <2>2, <3>1
    <3>3. j \in Nat /\ l \in Nat /\ Len(M) \in Nat
      BY <2>1
    <3> HIDE DEF S, T
    <3> QED
      BY <2>3, <3>2, <3>3
  <2> DEFINE c == CHOOSE i \in S : \A j \in S : j <= i
  <2>5. c \in S /\ \A j \in S : j <= c
    BY <2>4
  <2>6. Wire!LastSpoken(M) = c
    BY <1>2 DEF Wire!LastSpoken
  <2> HIDE DEF c
  <2>7. c \in DOMAIN M /\ M[c].role # "tool" /\ c # 0
    BY <2>1, <2>5
  <2>8. \A j \in DOMAIN M : j > c => M[j].role = "tool"
    BY <2>1, <2>5
  <2> QED
    BY <2>6, <2>7, <2>8
<1> QED
  BY <1>1, <1>2

LEMMA LastSpokenIs ==
  ASSUME NEW M \in Seq(Chats), NEW l \in DOMAIN M, M[l].role # "tool",
         \A j \in DOMAIN M : j > l => M[j].role = "tool"
  PROVE  Wire!LastSpoken(M) = l
<1> DEFINE n == Wire!LastSpoken(M)
<1>1. n # 0
  BY LastSpokenFacts
<1>2. n \in DOMAIN M /\ M[n].role # "tool" /\ \A j \in DOMAIN M : j > n => M[j].role = "tool"
  BY <1>1, LastSpokenFacts
<1>3. DOMAIN M \subseteq Nat
  OBVIOUS
<1> HIDE DEF n
<1>4. n = l
  BY <1>2, <1>3
<1> QED
  BY <1>4 DEF n

LEMMA ChatWithCall ==
  ASSUME NEW q \in Chats, NEW c
  PROVE  [q EXCEPT !.calls = Append(@, c)]
           = [role |-> q.role, calls |-> Append(q.calls, c)]
BY DEF Chats

LEMMA AddingTyped ==
  ASSUME NEW M \in Seq(Chats), NEW e \in WireEntries, NEW I
  PROVE  Adding(M, e, I) \in Seq(Chats)
<1>1. e.of \in Askers /\ e.says \in Says
  BY DEF WireEntries
<1>2. /\ Wire!Chat(e.says) \in Chats /\ Wire!Carries(<<e.of>>) \in Chats
      /\ Wire!Answers(e.of) \in Chats
  BY <1>1 DEF Chats, Wire!Chat, Wire!Carries, Wire!Answers, Says
<1>3. ASSUME NEW i \in DOMAIN M
      PROVE  [M EXCEPT ![i].calls = Append(@, e.of)] \in Seq(Chats)
  <2>1. M[i] \in Chats
    OBVIOUS
  <2>2. [M[i] EXCEPT !.calls = Append(@, e.of)] \in Chats
    <3>1. M[i].role \in Says \cup {"tool"} /\ M[i].calls \in Seq(Askers)
      BY <2>1 DEF Chats
    <3>2. Append(M[i].calls, e.of) \in Seq(Askers)
      BY <1>1, <3>1
    <3>3. [M[i] EXCEPT !.calls = Append(@, e.of)]
            = [role |-> M[i].role, calls |-> Append(M[i].calls, e.of)]
      BY <2>1, ChatWithCall
    <3> QED
      BY <3>1, <3>2, <3>3 DEF Chats
  <2> DEFINE q == [M[i] EXCEPT !.calls = Append(@, e.of)]
  <2>3. [M EXCEPT ![i].calls = Append(@, e.of)] = [M EXCEPT ![i] = q]
    OBVIOUS
  <2> HIDE DEF q
  <2>4. [M EXCEPT ![i] = q] \in Seq(Chats)
    BY <2>2, ExceptSeq DEF q
  <2> QED
    BY <2>3, <2>4
<1>4. Wire!WithCall(M, e) \in Seq(Chats)
  BY <1>2, <1>3, LastSpokenFacts DEF Wire!WithCall, Wire!Joins
<1>5. Wire!WithResult(M, e, I) \in Seq(Chats)
  BY <1>2 DEF Wire!WithResult
<1>6. Append(M, Wire!Chat(e.says)) \in Seq(Chats)
  BY <1>2
<1> QED
  BY <1>4, <1>5, <1>6 DEF Adding

Bodies(s, I, g) ==
  g = [n \in 0 .. Len(s) |->
         IF n = 0 THEN <<>>
         ELSE CASE s[n].is = "message" -> Append(g[n - 1], Wire!Chat(s[n].says))
                [] s[n].is = "intent" -> Wire!WithCall(g[n - 1], s[n])
                [] OTHER -> Wire!WithResult(g[n - 1], s[n], I)]

\* g has the messages of the first n entries of s, for each n.
IsBody(s, I, g) ==
  /\ g \in [0 .. Len(s) -> Seq(Chats)]
  /\ g[0] = <<>>
  /\ \A n \in 1 .. Len(s) : g[n] = Adding(g[n - 1], s[n], I)

Steps(V, b, m, step) == m \in Nat /\ b \in V /\ step \in [1 .. m -> [V -> V]]
Follows(V, b, m, step, g) ==
  g \in [0 .. m -> V] /\ g[0] = b /\ \A n \in 1 .. m : g[n] = step[n][g[n - 1]]

LEMMA Following ==
  ASSUME NEW V, NEW b, NEW m, NEW step, Steps(V, b, m, step)
  PROVE  \E g : Follows(V, b, m, step, g)
<1>1. m \in Nat /\ b \in V /\ step \in [1 .. m -> [V -> V]]
  BY DEF Steps
<1>2. PICK g \in [0 .. m -> V] : g[0] = b /\ \A n \in 1 .. m : g[n] = step[n][g[n - 1]]
  BY <1>1, Recursion
<1> QED
  BY <1>2 DEF Follows

LEMMA SomeBody == ASSUME NEW s \in Seq(WireEntries), NEW I PROVE \E g : IsBody(s, I, g)
<1> DEFINE m == Len(s)
           V == Seq(Chats)
           none == <<>>
           step == [n \in 1 .. m |-> [v \in V |-> Adding(v, s[n], I)]]
<1>0. m \in Nat
  OBVIOUS
<1>1. none \in V
  OBVIOUS
<1>2. step \in [1 .. m -> [V -> V]]
  <2>1. \A n \in 1 .. m, v \in V : Adding(v, s[n], I) \in V
    BY AddingTyped
  <2> QED
    BY <2>1
<1>3. \A n \in 1 .. m, v \in V : step[n][v] = Adding(v, s[n], I)
  OBVIOUS
<1> HIDE DEF step, m, V, none
<1>4. PICK g : Follows(V, none, m, step, g)
  <2>1. Steps(V, none, m, step)
    BY <1>0, <1>1, <1>2 DEF Steps
  <2> QED
    BY <2>1, Following
<1>5. \A n \in 1 .. m : g[n] = Adding(g[n - 1], s[n], I)
  <2> TAKE n \in 1 .. m
  <2>1. n - 1 \in 0 .. m
    BY <1>0
  <2>2. g[n - 1] \in V /\ g[n] = step[n][g[n - 1]]
    BY <1>4, <2>1 DEF Follows
  <2> QED
    BY <1>3, <2>2
<1> QED
  BY <1>4, <1>5 DEF IsBody, Follows, m, V, none

LEMMA BodiesAre ==
  ASSUME NEW s \in Seq(WireEntries), NEW I, NEW g
  PROVE  IsBody(s, I, g) <=> Bodies(s, I, g)
<1> DEFINE m == Len(s)
           next(n) == CASE s[n].is = "message" -> Append(g[n - 1], Wire!Chat(s[n].says))
                        [] s[n].is = "intent" -> Wire!WithCall(g[n - 1], s[n])
                        [] OTHER -> Wire!WithResult(g[n - 1], s[n], I)
<1>1. \A n : next(n) = Adding(g[n - 1], s[n], I)
  BY DEF Adding
<1>2. Bodies(s, I, g) <=> g = [n \in 0 .. m |-> IF n = 0 THEN <<>> ELSE next(n)]
  BY DEF Bodies
<1>3. m \in Nat
  OBVIOUS
<1> HIDE DEF next, m
<1>4. ASSUME IsBody(s, I, g) PROVE Bodies(s, I, g)
  <2>1. ASSUME NEW n \in 0 .. m PROVE g[n] = IF n = 0 THEN <<>> ELSE next(n)
    <3>1. CASE n = 0
      BY <1>4, <3>1 DEF IsBody
    <3>2. CASE n # 0
      <4>1. n \in 1 .. Len(s)
        BY <1>3, <3>2 DEF m
      <4> QED
        BY <1>1, <1>4, <3>2, <4>1 DEF IsBody
    <3> QED
      BY <3>1, <3>2
  <2>2. g = [n \in 0 .. m |-> g[n]]
    BY <1>4, Zenon DEF IsBody, m
  <2>3. g = [n \in 0 .. m |-> IF n = 0 THEN <<>> ELSE next(n)]
    BY <2>1, <2>2
  <2> QED
    BY <1>2, <2>3
<1>5. ASSUME Bodies(s, I, g) PROVE IsBody(s, I, g)
  <2>1. g = [n \in 0 .. m |-> IF n = 0 THEN <<>> ELSE next(n)]
    BY <1>2, <1>5
  <2>2. \A n \in 0 .. m : g[n] = IF n = 0 THEN <<>> ELSE next(n)
    BY <2>1, Zenon
  <2>3. g[0] = <<>>
    BY <1>3, <2>2
  <2>4. ASSUME NEW n \in 1 .. m PROVE g[n] = Adding(g[n - 1], s[n], I)
    <3>1. n \in 0 .. m /\ n # 0
      BY <1>3
    <3> QED
      BY <1>1, <2>2, <3>1
  <2> DEFINE T == {n \in 0 .. m : g[n] \in Seq(Chats)}
  <2>5. 0 \in T
    <3>1. 0 \in 0 .. m
      BY <1>3
    <3>2. <<>> \in Seq(Chats)
      OBVIOUS
    <3> QED
      BY <2>3, <3>1, <3>2
  <2>6. ASSUME NEW n \in 1 .. m, n - 1 \in T PROVE n \in T
    <3>1. s[n] \in WireEntries /\ g[n - 1] \in Seq(Chats)
      BY <2>6 DEF m
    <3>2. Adding(g[n - 1], s[n], I) \in Seq(Chats)
      BY <3>1, AddingTyped
    <3>3. n \in 0 .. m
      BY <1>3
    <3> QED
      BY <2>4, <3>2, <3>3
  <2> HIDE DEF T
  <2>7. \A n \in 0 .. m : n \in T
    BY <1>3, <2>5, <2>6, BoundedInduction
  <2>8. \A n \in 0 .. m : g[n] \in Seq(Chats)
    BY <2>7 DEF T
  <2>9. g = [n \in 0 .. m |-> g[n]]
    BY <2>1, Zenon
  <2>10. g \in [0 .. m -> Seq(Chats)]
    BY <2>8, <2>9
  <2> QED
    BY <2>3, <2>4, <2>10 DEF IsBody, m
<1> QED
  BY <1>4, <1>5

SameWire(s, t, I, J, m) ==
  /\ m <= Len(s) /\ m <= Len(t)
  /\ \A n \in 1 .. m :
       /\ s[n] = t[n]
       /\ s[n].is \in {"tool_result", "error"} => (s[n].of \in I <=> s[n].of \in J)

\* Bodies agree as far as the entries do, and what they are results of.
LEMMA BodiesAgree ==
  ASSUME NEW s \in Seq(WireEntries), NEW t \in Seq(WireEntries), NEW I, NEW J,
         NEW g, IsBody(s, I, g), NEW h, IsBody(t, J, h),
         NEW m \in Nat, SameWire(s, t, I, J, m)
  PROVE  g[m] = h[m]
<1> DEFINE T == {n \in 0 .. m : g[n] = h[n]}
<1>1. 0 \in T
  BY DEF IsBody, SameWire
<1>2. ASSUME NEW n \in 1 .. m, n - 1 \in T PROVE n \in T
  <2>1. /\ g[n] = Adding(g[n - 1], s[n], I) /\ h[n] = Adding(h[n - 1], t[n], J)
        /\ g[n - 1] = h[n - 1] /\ s[n] = t[n] /\ s[n] \in WireEntries
    BY <1>2 DEF IsBody, SameWire
  <2>2. s[n].is \in {"message", "intent", "tool_result", "error"}
    BY <2>1 DEF WireEntries
  <2>3. \A M : Adding(M, s[n], I) = Adding(M, s[n], J)
    BY <2>2 DEF Adding, Wire!WithResult, SameWire
  <2> QED
    BY <2>1, <2>3
<1> HIDE DEF T
<1>3. \A n \in 0 .. m : n \in T
  BY <1>1, <1>2, BoundedInduction
<1> QED
  BY <1>3 DEF T

LEMMA BodyIs ==
  ASSUME NEW s \in Seq(WireEntries), NEW g, IsBody(s, Intents(s), g)
  PROVE  Wire!RequestBody(s) = g[Len(s)]
<1> DEFINE I == Intents(s)
           h == CHOOSE c : Bodies(s, I, c)
<1>1. Bodies(s, I, h)
  BY SomeBody, BodiesAre
<1>2. IsBody(s, I, h)
  BY <1>1, BodiesAre
<1>3. Wire!RequestBody(s) = h[Len(s)]
  BY DEF Wire!RequestBody, Bodies, Intents
<1> HIDE DEF h, I
<1>4. h[Len(s)] = g[Len(s)]
  <2>1. Len(s) \in Nat /\ SameWire(s, s, I, I, Len(s))
    BY DEF SameWire
  <2> QED
    BY <1>2, <2>1, BodiesAgree DEF I
<1> QED
  BY <1>3, <1>4

LEMMA BodyOfNothing == Wire!RequestBody(<<>>) = <<>>
<1> DEFINE s == <<>>
<1>1. s \in Seq(WireEntries) /\ Len(s) = 0
  OBVIOUS
<1> HIDE DEF s
<1>2. PICK g : IsBody(s, Intents(s), g)
  BY <1>1, SomeBody
<1>3. Wire!RequestBody(s) = g[0]
  BY <1>1, <1>2, BodyIs
<1> QED
  BY <1>2, <1>3 DEF IsBody, s

\* An entry adds its own message, if no result is behind its intent already.
LEMMA BodyGrows ==
  ASSUME NEW s \in Seq(WireEntries), NEW e \in WireEntries,
         e.is = "intent" =>
           \A i \in DOMAIN s : s[i].is \in {"tool_result", "error"} => s[i].of # e.of
  PROVE  /\ Wire!RequestBody(Append(s, e))
              = Adding(Wire!RequestBody(s), e, Intents(Append(s, e)))
         /\ Wire!RequestBody(s) \in Seq(Chats)
<1> DEFINE t == Append(s, e)
           I == Intents(s)
           J == Intents(t)
           m == Len(s)
<1>1. /\ t \in Seq(WireEntries) /\ Len(t) = m + 1 /\ m \in Nat /\ t[m + 1] = e
      /\ \A n \in 1 .. m : s[n] = t[n]
  OBVIOUS
<1>2. \A n \in 1 .. m : s[n].is \in {"tool_result", "error"} => (s[n].of \in I <=> s[n].of \in J)
  BY DEF Intents, Wire!IsIntent
<1> HIDE DEF t, I, J
<1>3. PICK g : IsBody(s, I, g)
  BY SomeBody
<1>4. PICK h : IsBody(t, J, h)
  BY <1>1, SomeBody
<1>5. g[m] = h[m]
  <2>1. m \in Nat /\ t \in Seq(WireEntries)
    BY <1>1
  <2>2. SameWire(s, t, I, J, m)
    BY <1>1, <1>2 DEF SameWire
  <2> HIDE DEF m
  <2> QED
    BY <2>1, <2>2, <1>3, <1>4, BodiesAgree
<1>6. Wire!RequestBody(s) = g[m] /\ Wire!RequestBody(t) = h[m + 1]
  BY <1>1, <1>3, <1>4, BodyIs DEF I, J
<1>7. h[m + 1] = Adding(h[m], e, J)
  BY <1>1, <1>4 DEF IsBody
<1>8. g[m] \in Seq(Chats)
  BY <1>1, <1>3 DEF IsBody
<1> QED
  BY <1>5, <1>6, <1>7, <1>8 DEF t, J

-----------------------------------------------------------------------------
(* The calls and their results *)

Elements(s) == {s[i] : i \in DOMAIN s}
Answered(M, a, b) == {M[j].calls[1] : j \in a .. b}

\* What a provider demands of a message: the results of its calls are next.
Settled(M, i) ==
  LET n == Len(M[i].calls) IN
  /\ i + n <= Len(M)
  /\ \A j \in i + 1 .. i + n : M[j].role = "tool"
  /\ Answered(M, i + 1, i + n) = Elements(M[i].calls)
  /\ Cardinality(Elements(M[i].calls)) = n

\* The last message that is no tool's; the calls in O are owed their results.
Owing(M, O, l) ==
  /\ M[l].role # "tool"
  /\ \A j \in l + 1 .. Len(M) : M[j].role = "tool"
  /\ Elements(M[l].calls) = Answered(M, l + 1, Len(M)) \cup O
  /\ Answered(M, l + 1, Len(M)) \cap O = {}
  /\ Cardinality(Elements(M[l].calls)) = Len(M[l].calls)
  /\ Len(M[l].calls) = Len(M) - l + Cardinality(O)

SettledBefore(M, l) == \A i \in 1 .. l - 1 : M[i].role # "tool" => Settled(M, i)

Owes(M, O, I) ==
  /\ M \in Seq(Chats) /\ IsFiniteSet(O)
  /\ \A i \in DOMAIN M : Elements(M[i].calls) \subseteq I
  /\ \/ M = <<>> /\ O = {}
     \/ \E l \in DOMAIN M : Owing(M, O, l) /\ SettledBefore(M, l)

SameTo(M, N, k) == k <= Len(M) /\ k <= Len(N) /\ \A j \in 1 .. k : M[j] = N[j]

LEMMA ChatFacts ==
  ASSUME NEW M \in Seq(Chats), NEW i \in DOMAIN M
  PROVE  /\ i \in 1 .. Len(M) /\ i \in Nat /\ Len(M) \in Nat
         /\ M[i] \in Chats /\ M[i].calls \in Seq(Askers) /\ Len(M[i].calls) \in Nat
<1>1. M[i] \in Chats
  OBVIOUS
<1>2. M[i].calls \in Seq(Askers)
  BY <1>1 DEF Chats
<1> QED
  BY <1>1, <1>2

LEMMA SettledStays ==
  ASSUME NEW M \in Seq(Chats), NEW N \in Seq(Chats), NEW k \in Nat, SameTo(M, N, k),
         NEW i \in 1 .. k, Settled(M, i), i + Len(M[i].calls) <= k
  PROVE  Settled(N, i)
<1> DEFINE n == Len(M[i].calls)
<1>1. i \in DOMAIN M /\ N[i] = M[i]
  BY DEF SameTo
<1>2. n \in Nat
  BY <1>1, ChatFacts
<1>3. Len(N) \in Nat /\ k <= Len(N) /\ i + n <= k
  BY DEF SameTo
<1>4. /\ \A j \in i + 1 .. i + n : M[j].role = "tool"
      /\ Answered(M, i + 1, i + n) = Elements(M[i].calls)
      /\ Cardinality(Elements(M[i].calls)) = n
  BY DEF Settled
<1> HIDE DEF n
<1>5. \A j \in i + 1 .. i + n : N[j] = M[j]
  BY <1>2, <1>3 DEF SameTo
<1>6. Answered(N, i + 1, i + n) = Answered(M, i + 1, i + n)
  BY <1>5 DEF Answered
<1>7. Len(N[i].calls) = n
  BY <1>1 DEF n
<1>8. i + n <= Len(N)
  BY <1>2, <1>3
<1>9. \A j \in i + 1 .. i + n : N[j].role = "tool"
  BY <1>4, <1>5
<1>10. /\ Answered(N, i + 1, i + n) = Elements(N[i].calls)
       /\ Cardinality(Elements(N[i].calls)) = n
  BY <1>1, <1>4, <1>6
<1> QED
  BY <1>7, <1>8, <1>9, <1>10, Zenon DEF Settled

\* The results of a message end before the next one that is no tool's.
LEMMA EarlierStay ==
  ASSUME NEW M \in Seq(Chats), NEW N \in Seq(Chats), NEW l \in DOMAIN M,
         M[l].role # "tool", SettledBefore(M, l), SameTo(M, N, l - 1)
  PROVE  SettledBefore(N, l)
<1> SUFFICES ASSUME NEW i \in 1 .. l - 1, N[i].role # "tool" PROVE Settled(N, i)
  BY DEF SettledBefore
<1>1. l \in Nat /\ l - 1 \in Nat /\ l <= Len(M) /\ i \in DOMAIN M
  OBVIOUS
<1>2. N[i] = M[i]
  BY DEF SameTo
<1>3. Settled(M, i)
  BY <1>2 DEF SettledBefore
<1>4. Len(M[i].calls) \in Nat
  BY <1>1, ChatFacts
<1>5. i + Len(M[i].calls) <= l - 1
  <2> SUFFICES ASSUME l \in i + 1 .. i + Len(M[i].calls) PROVE FALSE
    BY <1>1, <1>4
  <2> QED
    BY <1>3 DEF Settled
<1> QED
  BY <1>1, <1>3, <1>5, SettledStays

LEMMA AllSettled ==
  ASSUME NEW M, NEW I, Owes(M, {}, I)
  PROVE  \A i \in DOMAIN M : M[i].role # "tool" => Settled(M, i)
<1> SUFFICES ASSUME NEW i \in DOMAIN M, M[i].role # "tool" PROVE Settled(M, i)
  OBVIOUS
<1>1. M \in Seq(Chats)
  BY DEF Owes
<1>2. PICK l \in DOMAIN M : Owing(M, {}, l) /\ SettledBefore(M, l)
  BY DEF Owes
<1>3. i \in 1 .. Len(M) /\ l \in 1 .. Len(M) /\ Len(M) \in Nat
  BY <1>1
<1>4. CASE i < l
  BY <1>2, <1>3, <1>4 DEF SettledBefore
<1>5. CASE i > l
  BY <1>2, <1>3, <1>5 DEF Owing
<1>6. CASE i = l
  <2>1. Len(M[l].calls) = Len(M) - l
    BY <1>2, <1>3, FS_EmptySet DEF Owing
  <2>2. l + Len(M[l].calls) = Len(M)
    <3> DEFINE n == Len(M[l].calls)
    <3>1. n = Len(M) - l
      BY <2>1
    <3> HIDE DEF n
    <3>2. l + n = Len(M)
      BY <1>3, <3>1
    <3> QED
      BY <3>2 DEF n
  <2> QED
    BY <1>2, <1>3, <1>6, <2>2 DEF Owing, Settled
<1> QED
  BY <1>3, <1>4, <1>5, <1>6

\* A message that is no tool's follows when nothing is owed.
LEMMA SpeakerFollows ==
  ASSUME NEW M, NEW I, Owes(M, {}, I),
         NEW q \in Chats, q.role # "tool", NEW O, O = Elements(q.calls), IsFiniteSet(O),
         Cardinality(O) = Len(q.calls), NEW J, I \subseteq J, O \subseteq J
  PROVE  Owes(Append(M, q), O, J)
<1> DEFINE N == Append(M, q)
           l == Len(M) + 1
<1>1. M \in Seq(Chats) /\ \A i \in DOMAIN M : Elements(M[i].calls) \subseteq I
  BY DEF Owes
<1>2. /\ N \in Seq(Chats) /\ Len(N) = l /\ N[l] = q /\ Len(M) \in Nat /\ l \in DOMAIN N
      /\ DOMAIN N = 1 .. l /\ DOMAIN M = 1 .. Len(M)
      /\ \A i \in 1 .. Len(M) : N[i] = M[i]
  BY <1>1
<1> HIDE DEF N
<1>3. \A i \in DOMAIN N : Elements(N[i].calls) \subseteq J
  <2> TAKE i \in DOMAIN N
  <2>1. CASE i = l
    BY <1>2, <2>1
  <2>2. CASE i # l
    <3>1. i \in DOMAIN M /\ N[i] = M[i]
      BY <1>2, <2>2
    <3> QED
      BY <1>1, <3>1
  <2> QED
    BY <2>1, <2>2
<1>4. Owing(N, O, l)
  <2>1. l + 1 .. Len(N) = {}
    BY <1>2
  <2>2. Answered(N, l + 1, Len(N)) = {}
    BY <2>1 DEF Answered
  <2>3. Len(q.calls) = Len(N) - l + Cardinality(O)
    <3>1. Len(N) - l = 0
      BY <1>2
    <3>2. Cardinality(O) \in Nat
      BY FS_CardinalityType
    <3> QED
      BY <3>1, <3>2
  <2> QED
    BY <1>2, <2>1, <2>2, <2>3 DEF Owing
<1>5. SettledBefore(N, l)
  <2> SUFFICES ASSUME NEW i \in 1 .. l - 1, N[i].role # "tool" PROVE Settled(N, i)
    BY DEF SettledBefore
  <2>1. i \in DOMAIN M /\ i \in 1 .. Len(M) /\ N[i] = M[i]
    BY <1>2
  <2>2. Settled(M, i)
    BY <2>1, AllSettled
  <2>3. SameTo(M, N, Len(M))
    BY <1>2 DEF SameTo
  <2>4. i + Len(M[i].calls) <= Len(M)
    BY <2>2 DEF Settled
  <2> QED
    BY <1>1, <1>2, <2>1, <2>2, <2>3, <2>4, SettledStays
<1> QED
  BY <1>2, <1>3, <1>4, <1>5 DEF Owes, N

LEMMA ElementsGrow ==
  ASSUME NEW S, NEW s \in Seq(S), NEW c \in S
  PROVE  Elements(Append(s, c)) = Elements(s) \cup {c}
<1> DEFINE t == Append(s, c)
<1>1. /\ DOMAIN t = 1 .. Len(s) + 1 /\ DOMAIN s = 1 .. Len(s) /\ Len(s) \in Nat
      /\ t[Len(s) + 1] = c /\ \A i \in 1 .. Len(s) : t[i] = s[i]
  OBVIOUS
<1> HIDE DEF t
<1>2. 1 .. Len(s) + 1 = (1 .. Len(s)) \cup {Len(s) + 1}
  BY <1>1
<1>3. Elements(t) = Elements(s) \cup {c}
  BY <1>1, <1>2 DEF Elements
<1> QED
  BY <1>3 DEF t

\* A call joins the last message that has calls.
LEMMA CallJoins ==
  ASSUME NEW M, NEW O, NEW I, Owes(M, O, I), NEW l \in DOMAIN M, l = Wire!LastSpoken(M),
         NEW c \in Askers, c \notin I
  PROVE  Owes([M EXCEPT ![l].calls = Append(@, c)], O \cup {c}, I \cup {c})
<1> DEFINE cs == M[l].calls
           q == [role |-> M[l].role, calls |-> Append(cs, c)]
           N == [M EXCEPT ![l].calls = Append(@, c)]
<1>1. M \in Seq(Chats) /\ \A i \in DOMAIN M : Elements(M[i].calls) \subseteq I
  BY DEF Owes
<1>2. M[l] \in Chats /\ cs \in Seq(Askers) /\ l \in Nat /\ Len(M) \in Nat
  BY <1>1, ChatFacts
<1>3. [M[l] EXCEPT !.calls = Append(@, c)] = q
  BY <1>2, ChatWithCall
<1>4. q \in Chats /\ q.calls = Append(cs, c) /\ q.role = M[l].role
  BY <1>2 DEF Chats
<1>5. N = [M EXCEPT ![l] = q]
  BY <1>3
<1> HIDE DEF N, q
<1>6. /\ N \in Seq(Chats) /\ Len(N) = Len(M) /\ DOMAIN N = DOMAIN M /\ N[l] = q
      /\ \A i \in DOMAIN M : i # l => N[i] = M[i]
  BY <1>1, <1>4, <1>5
<1>7. Elements(q.calls) = Elements(cs) \cup {c}
  BY <1>2, <1>4, ElementsGrow
<1>8. PICK k \in DOMAIN M : Owing(M, O, k) /\ SettledBefore(M, k)
  BY DEF Owes
<1>9. k = l
  <2>1. \A j \in DOMAIN M : j > k => M[j].role = "tool"
    BY <1>1, <1>8 DEF Owing
  <2> QED
    BY <1>1, <1>8, <2>1, LastSpokenIs DEF Owing
<1>10. Owing(M, O, l) /\ SettledBefore(M, l) /\ M[l].role # "tool"
  BY <1>8, <1>9 DEF Owing
<1>11. c \notin Elements(cs) /\ IsFiniteSet(Elements(cs)) /\ IsFiniteSet(O)
  <2>1. IsFiniteSet(Answered(M, l + 1, Len(M)))
    <3>1. IsFiniteSet(l + 1 .. Len(M))
      BY <1>2, FS_Interval
    <3> DEFINE J == l + 1 .. Len(M)
               F == [j \in J |-> M[j].calls[1]]
               A == Answered(M, l + 1, Len(M))
    <3>2. F \in Surjection(J, A)
      BY DEF Answered, Surjection
    <3> HIDE DEF F, J, A
    <3>3. IsFiniteSet(A)
      BY <3>1, <3>2, FS_Surjection DEF J
    <3> QED
      BY <3>3 DEF A
  <2>2. IsFiniteSet(O)
    BY DEF Owes
  <2>3. IsFiniteSet(Elements(cs))
    <3>1. Elements(cs) = Answered(M, l + 1, Len(M)) \cup O
      BY <1>10 DEF Owing
    <3> QED
      BY <2>1, <2>2, <3>1, FS_Union
  <2> QED
    BY <1>1, <2>2, <2>3
<1>12. c \notin O /\ c \notin Answered(M, l + 1, Len(M))
  BY <1>10, <1>11 DEF Owing
<1>13. Answered(N, l + 1, Len(N)) = Answered(M, l + 1, Len(M))
  <2>1. \A j \in l + 1 .. Len(M) : N[j] = M[j]
    BY <1>1, <1>2, <1>6
  <2> QED
    BY <1>6, <2>1 DEF Answered
<1>14. /\ Cardinality(Elements(q.calls)) = Cardinality(Elements(cs)) + 1
       /\ IsFiniteSet(O \cup {c}) /\ Cardinality(O \cup {c}) = Cardinality(O) + 1
       /\ Cardinality(O) \in Nat
  BY <1>7, <1>11, <1>12, FS_AddElement, FS_CardinalityType
<1>15. Len(q.calls) = Len(cs) + 1 /\ Len(cs) \in Nat
  BY <1>2, <1>4
<1>16. Owing(N, O \cup {c}, l)
  <2>a. \A j \in l + 1 .. Len(N) : N[j] = M[j]
    BY <1>1, <1>2, <1>6
  <2>1. N[l].role # "tool" /\ \A j \in l + 1 .. Len(N) : N[j].role = "tool"
    BY <1>4, <1>6, <1>10, <2>a DEF Owing
  <2>2. /\ Elements(N[l].calls) = Answered(N, l + 1, Len(N)) \cup (O \cup {c})
        /\ Answered(N, l + 1, Len(N)) \cap (O \cup {c}) = {}
    BY <1>6, <1>7, <1>10, <1>12, <1>13 DEF Owing
  <2>3. Cardinality(Elements(cs)) = Len(cs) /\ Len(cs) = Len(M) - l + Cardinality(O)
    BY <1>10 DEF Owing
  <2>4. Cardinality(Elements(N[l].calls)) = Len(N[l].calls)
    BY <1>6, <1>14, <1>15, <2>3
  <2>5. Len(N[l].calls) = Len(N) - l + Cardinality(O \cup {c})
    BY <1>2, <1>6, <1>14, <1>15, <2>3
  <2> QED
    BY <2>1, <2>2, <2>4, <2>5 DEF Owing
<1>17. SettledBefore(N, l)
  <2>1. SameTo(M, N, l - 1)
    BY <1>1, <1>2, <1>6 DEF SameTo
  <2> QED
    BY <1>1, <1>6, <1>10, <2>1, EarlierStay
<1>18. \A i \in DOMAIN N : Elements(N[i].calls) \subseteq I \cup {c}
  BY <1>1, <1>6, <1>7
<1> QED
  BY <1>6, <1>14, <1>16, <1>17, <1>18 DEF Owes, N

\* The result of a call that is owed one.
LEMMA AnswerFollows ==
  ASSUME NEW M, NEW O, NEW I, Owes(M, O, I), NEW c \in Askers, c \in O
  PROVE  Owes(Append(M, Wire!Answers(c)), O \ {c}, I)
<1> DEFINE q == Wire!Answers(c)
           N == Append(M, q)
<1>1. /\ M \in Seq(Chats) /\ \A i \in DOMAIN M : Elements(M[i].calls) \subseteq I
      /\ IsFiniteSet(O)
  BY DEF Owes
<1>2. /\ q \in Chats /\ q.role = "tool" /\ q.calls = <<c>> /\ q.calls[1] = c
      /\ Elements(q.calls) = {c}
  BY DEF Wire!Answers, Chats, Elements
<1> HIDE DEF q
<1>3. /\ N \in Seq(Chats) /\ Len(N) = Len(M) + 1 /\ N[Len(M) + 1] = q /\ Len(M) \in Nat
      /\ DOMAIN N = 1 .. Len(M) + 1 /\ DOMAIN M = 1 .. Len(M)
      /\ \A i \in 1 .. Len(M) : N[i] = M[i]
  BY <1>1, <1>2
<1> HIDE DEF N
<1>4. PICK l \in DOMAIN M : Owing(M, O, l) /\ SettledBefore(M, l)
  BY DEF Owes
<1>5. l \in Nat /\ l \in DOMAIN N /\ N[l] = M[l] /\ l <= Len(M)
  BY <1>3
<1>6. Answered(N, l + 1, Len(N)) = Answered(M, l + 1, Len(M)) \cup {c}
  <2>1. l + 1 .. Len(N) = (l + 1 .. Len(M)) \cup {Len(M) + 1}
    BY <1>3, <1>5
  <2>2. \A j \in l + 1 .. Len(M) : N[j] = M[j]
    BY <1>3, <1>5
  <2> QED
    BY <1>2, <1>3, <2>1, <2>2 DEF Answered
<1>7. /\ IsFiniteSet(O \ {c}) /\ Cardinality(O \ {c}) = Cardinality(O) - 1
      /\ Cardinality(O) \in Nat
  BY <1>1, FS_RemoveElement, FS_CardinalityType
<1>8. Owing(N, O \ {c}, l)
  <2>1. N[l].role # "tool" /\ \A j \in l + 1 .. Len(N) : N[j].role = "tool"
    BY <1>2, <1>3, <1>4, <1>5 DEF Owing
  <2>2. /\ Elements(N[l].calls) = Answered(N, l + 1, Len(N)) \cup (O \ {c})
        /\ Answered(N, l + 1, Len(N)) \cap (O \ {c}) = {}
    BY <1>4, <1>5, <1>6 DEF Owing
  <2>3. Len(N[l].calls) = Len(N) - l + Cardinality(O \ {c})
    BY <1>3, <1>4, <1>5, <1>7 DEF Owing
  <2> QED
    BY <1>4, <1>5, <2>1, <2>2, <2>3 DEF Owing
<1>9. SettledBefore(N, l)
  <2>1. SameTo(M, N, l - 1)
    BY <1>3, <1>5 DEF SameTo
  <2> QED
    BY <1>1, <1>3, <1>4, <2>1, EarlierStay DEF Owing
<1>10. \A i \in DOMAIN N : Elements(N[i].calls) \subseteq I
  <2>1. c \in I
    BY <1>1, <1>4 DEF Owing
  <2> TAKE i \in DOMAIN N
  <2>2. CASE i = Len(M) + 1
    BY <1>2, <1>3, <2>1, <2>2
  <2>3. CASE i # Len(M) + 1
    <3>1. i \in DOMAIN M /\ N[i] = M[i]
      BY <1>3, <2>3
    <3> QED
      BY <1>1, <3>1
  <2> QED
    BY <2>2, <2>3
<1> QED
  BY <1>3, <1>5, <1>7, <1>8, <1>9, <1>10 DEF Owes, N, q

-----------------------------------------------------------------------------
(* Logs *)

IntentEntries(s) == {e \in Elements(s) : Wire!IsIntent(e)}
ToolMessages(M) == {i \in DOMAIN M : M[i].role = "tool"}
IsResult(e) == e.is \in {"tool_result", "error"}

GoodLog(s, O) ==
  /\ s \in Seq(WireEntries)
  /\ Owes(Wire!RequestBody(s), O, Intents(s))
  /\ \A i \in DOMAIN s : IsResult(s[i]) => s[i].of \in Intents(s)
  /\ Cardinality(ToolMessages(Wire!RequestBody(s))) + Cardinality(O)
       = Cardinality(IntentEntries(s))

LEMMA FiniteParts ==
  ASSUME NEW S, NEW s \in Seq(S)
  PROVE  /\ IsFiniteSet(Elements(s)) /\ IsFiniteSet(IntentEntries(s))
         /\ IsFiniteSet(ToolMessages(s))
<1>1. IsFiniteSet(DOMAIN s)
  <2>1. DOMAIN s = 1 .. Len(s) /\ Len(s) \in Nat
    OBVIOUS
  <2>2. IsFiniteSet(1 .. Len(s))
    BY <2>1, FS_Interval
  <2> QED
    BY <2>1, <2>2
<1>2. s \in Surjection(DOMAIN s, Elements(s))
  BY DEF Surjection, Elements
<1>3. IsFiniteSet(Elements(s))
  BY <1>1, <1>2, FS_Surjection
<1>4. IntentEntries(s) \in SUBSET Elements(s) /\ ToolMessages(s) \in SUBSET DOMAIN s
  BY DEF IntentEntries, ToolMessages
<1> QED
  BY <1>1, <1>3, <1>4, FS_Subset

LEMMA GoodFacts ==
  ASSUME NEW s, NEW O, GoodLog(s, O)
  PROVE  /\ s \in Seq(WireEntries) /\ Wire!RequestBody(s) \in Seq(Chats)
         /\ IsFiniteSet(O) /\ O \subseteq Intents(s) /\ Cardinality(O) \in Nat
         /\ Cardinality(IntentEntries(s)) \in Nat
         /\ Cardinality(ToolMessages(Wire!RequestBody(s))) \in Nat
<1> DEFINE M == Wire!RequestBody(s)
           I == Intents(s)
<1>1. s \in Seq(WireEntries) /\ Owes(M, O, I)
  BY DEF GoodLog
<1> HIDE DEF M, I
<1>2. M \in Seq(Chats) /\ IsFiniteSet(O)
  BY <1>1 DEF Owes
<1>3. O \subseteq I
  BY <1>1 DEF Owes, Owing
<1>4. Cardinality(O) \in Nat
  BY <1>2, FS_CardinalityType
<1>5. Cardinality(IntentEntries(s)) \in Nat
  BY <1>1, FiniteParts, FS_CardinalityType
<1>6. Cardinality(ToolMessages(M)) \in Nat
  BY <1>2, FiniteParts, FS_CardinalityType
<1> QED
  BY <1>1, <1>2, <1>3, <1>4, <1>5, <1>6 DEF M, I

LEMMA AppendFacts ==
  ASSUME NEW S, NEW s \in Seq(S), NEW e \in S
  PROVE  /\ Append(s, e) \in Seq(S) /\ Len(Append(s, e)) = Len(s) + 1 /\ Len(s) \in Nat
         /\ DOMAIN Append(s, e) = (DOMAIN s) \cup {Len(s) + 1}
         /\ DOMAIN s = 1 .. Len(s) /\ Len(s) + 1 \notin DOMAIN s
         /\ Append(s, e)[Len(s) + 1] = e
         /\ \A i \in DOMAIN s : Append(s, e)[i] = s[i]
OBVIOUS

LEMMA IntentsGrow ==
  ASSUME NEW s \in Seq(WireEntries), NEW e \in WireEntries
  PROVE  /\ Intents(Append(s, e)) = IF Wire!IsIntent(e) THEN Intents(s) \cup {e.of} ELSE Intents(s)
         /\ IntentEntries(Append(s, e))
              = IF Wire!IsIntent(e) THEN IntentEntries(s) \cup {e} ELSE IntentEntries(s)
         /\ \A x \in IntentEntries(s) : x.of \in Intents(s)
<1> DEFINE t == Append(s, e)
           n == Len(s) + 1
<1>1. /\ DOMAIN t = (DOMAIN s) \cup {n} /\ n \notin DOMAIN s /\ t[n] = e
      /\ \A i \in DOMAIN s : t[i] = s[i]
  BY AppendFacts
<1>2. Elements(t) = Elements(s) \cup {e}
  BY ElementsGrow
<1> HIDE DEF t, n
<1>3. Intents(t) = IF Wire!IsIntent(e) THEN Intents(s) \cup {e.of} ELSE Intents(s)
  BY <1>1 DEF Intents
<1>4. IntentEntries(t) = IF Wire!IsIntent(e) THEN IntentEntries(s) \cup {e} ELSE IntentEntries(s)
  BY <1>2 DEF IntentEntries
<1>5. \A x \in IntentEntries(s) : x.of \in Intents(s)
  BY DEF IntentEntries, Intents, Elements
<1> QED
  BY <1>3, <1>4, <1>5 DEF t

\* The results of a log that grows are still of its calls.
LEMMA ResultsStay ==
  ASSUME NEW s, NEW O, GoodLog(s, O), NEW e \in WireEntries,
         IsResult(e) => e.of \in Intents(s)
  PROVE  /\ Append(s, e) \in Seq(WireEntries)
         /\ \A i \in DOMAIN Append(s, e) :
              IsResult(Append(s, e)[i]) => Append(s, e)[i].of \in Intents(Append(s, e))
<1>1. s \in Seq(WireEntries) /\ \A i \in DOMAIN s : IsResult(s[i]) => s[i].of \in Intents(s)
  BY DEF GoodLog
<1> DEFINE t == Append(s, e)
           n == Len(s) + 1
<1>2. /\ DOMAIN t = (DOMAIN s) \cup {n} /\ t[n] = e /\ t \in Seq(WireEntries)
      /\ \A i \in DOMAIN s : t[i] = s[i]
  BY <1>1, AppendFacts
<1>3. Intents(s) \subseteq Intents(t)
  BY <1>1, IntentsGrow
<1> HIDE DEF t, n
<1>4. \A i \in DOMAIN t : IsResult(t[i]) => t[i].of \in Intents(t)
  BY <1>1, <1>2, <1>3
<1> QED
  BY <1>2, <1>4 DEF t

LEMMA ToolMessagesGrow ==
  ASSUME NEW M \in Seq(Chats), NEW q \in Chats
  PROVE  /\ q.role # "tool" => ToolMessages(Append(M, q)) = ToolMessages(M)
         /\ q.role = "tool" =>
              Cardinality(ToolMessages(Append(M, q))) = Cardinality(ToolMessages(M)) + 1
<1> DEFINE N == Append(M, q)
           n == Len(M) + 1
<1>1. /\ DOMAIN N = (DOMAIN M) \cup {n} /\ n \notin DOMAIN M /\ N[n] = q
      /\ \A i \in DOMAIN M : N[i] = M[i]
  BY AppendFacts
<1> HIDE DEF N, n
<1>2. ASSUME q.role # "tool" PROVE ToolMessages(N) = ToolMessages(M)
  BY <1>1, <1>2 DEF ToolMessages
<1>3. ASSUME q.role = "tool"
      PROVE  Cardinality(ToolMessages(N)) = Cardinality(ToolMessages(M)) + 1
  <2>1. ToolMessages(N) = ToolMessages(M) \cup {n} /\ n \notin ToolMessages(M)
    BY <1>1, <1>3 DEF ToolMessages
  <2> QED
    BY <2>1, FiniteParts, FS_AddElement
<1> QED
  BY <1>2, <1>3 DEF N

\* A message when no call is owed its result.
LEMMA LogHears ==
  ASSUME NEW s, GoodLog(s, {}), NEW role \in {"user", "assistant"}
  PROVE  GoodLog(Append(s, Wire!Said(role)), {})
<1> DEFINE e == Wire!Said(role)
           t == Append(s, e)
           M == Wire!RequestBody(s)
           q == Wire!Chat(role)
           I == Intents(s)
<1>1. /\ e \in WireEntries /\ e.is = "message" /\ e.says = role /\ ~Wire!IsIntent(e)
      /\ ~IsResult(e)
  BY DEF WireEntries, Wire!Said, Wire!Nobody, Says, Askers, Wire!IsIntent, IsResult
<1>2. /\ q \in Chats /\ q.role # "tool" /\ Elements(q.calls) = {}
      /\ Cardinality({}) = Len(q.calls) /\ IsFiniteSet({})
  BY FS_EmptySet DEF Chats, Wire!Chat, Says, Elements
<1>3. s \in Seq(WireEntries) /\ Owes(M, {}, I) /\ M \in Seq(Chats)
  BY GoodFacts DEF GoodLog
<1> HIDE DEF e, q
<1>4. Intents(t) = I /\ IntentEntries(t) = IntentEntries(s)
  BY <1>1, <1>3, IntentsGrow
<1>5. Wire!RequestBody(t) = Append(M, q)
  <2>1. Wire!RequestBody(t) = Adding(M, e, Intents(t))
    BY <1>1, <1>3, BodyGrows
  <2> QED
    BY <1>1, <2>1 DEF Adding, q
<1>6. Owes(Append(M, q), {}, I)
  <2> HIDE DEF M, I
  <2>1. {} = Elements(q.calls)
    BY <1>2
  <2>2. {} \subseteq I /\ I \subseteq I
    OBVIOUS
  <2> QED
    BY <1>2, <1>3, <2>1, <2>2, SpeakerFollows
<1>7. ToolMessages(Append(M, q)) = ToolMessages(M)
  BY <1>2, <1>3, ToolMessagesGrow
<1>8. /\ t \in Seq(WireEntries)
      /\ \A i \in DOMAIN t : IsResult(t[i]) => t[i].of \in Intents(t)
  BY <1>1, ResultsStay
<1>9. Cardinality(ToolMessages(M)) + Cardinality({}) = Cardinality(IntentEntries(s))
  BY DEF GoodLog
<1> HIDE DEF M, I, t
<1>10. GoodLog(t, {})
  BY <1>4, <1>5, <1>6, <1>7, <1>8, <1>9 DEF GoodLog
<1> QED
  BY <1>10 DEF t, e

\* A call that the log does not have joins the ones that are owed a result.
LEMMA CallIsOwed ==
  ASSUME NEW M, NEW O, NEW I, Owes(M, O, I), NEW e \in WireEntries, e.of \notin I,
         O # {} => e.batch
  PROVE  /\ Owes(Wire!WithCall(M, e), O \cup {e.of}, I \cup {e.of})
         /\ ToolMessages(Wire!WithCall(M, e)) = ToolMessages(M)
<1> DEFINE l == Wire!LastSpoken(M)
           c == e.of
           q == Wire!Carries(<<c>>)
<1>1. M \in Seq(Chats) /\ c \in Askers
  BY DEF Owes, WireEntries
<1>2. CASE e.batch /\ l # 0 /\ M[l].calls # <<>>
  <2>1. Wire!WithCall(M, e) = [M EXCEPT ![l].calls = Append(@, c)]
    BY <1>2 DEF Wire!WithCall, Wire!Joins
  <2>2. l \in DOMAIN M
    BY <1>1, <1>2, LastSpokenFacts
  <2>3. Owes([M EXCEPT ![l].calls = Append(@, c)], O \cup {c}, I \cup {c})
    <3>1. l = Wire!LastSpoken(M) /\ c \notin I
      OBVIOUS
    <3> HIDE DEF l, c
    <3> QED
      BY <1>1, <2>2, <3>1, CallJoins
  <2>4. ToolMessages([M EXCEPT ![l].calls = Append(@, c)]) = ToolMessages(M)
    <3> HIDE DEF l, c
    <3> DEFINE a == Append(M[l].calls, c)
               r == [M[l] EXCEPT !.calls = a]
               N == [M EXCEPT ![l] = r]
    <3>1. M[l] \in Chats
      BY <1>1, <2>2
    <3>2. r = [role |-> M[l].role, calls |-> a]
      BY <3>1, ChatWithCall
    <3>3. r.role = M[l].role
      BY <3>2
    <3> HIDE DEF r
    <3>4. DOMAIN N = DOMAIN M /\ \A i \in DOMAIN M : N[i].role = M[i].role
      BY <1>1, <2>2, <3>3
    <3>5. ToolMessages(N) = ToolMessages(M)
      <4> HIDE DEF N
      <4> QED
        BY <3>4 DEF ToolMessages
    <3> QED
      BY <3>5 DEF r
  <2> QED
    BY <2>1, <2>3, <2>4
<1>3. CASE ~(e.batch /\ l # 0 /\ M[l].calls # <<>>)
  <2>1. Wire!WithCall(M, e) = Append(M, q)
    BY <1>3 DEF Wire!WithCall, Wire!Joins
  <2>2. O = {}
    <3> SUFFICES ASSUME O # {} PROVE FALSE
      OBVIOUS
    <3>1. PICK k \in DOMAIN M : Owing(M, O, k)
      BY DEF Owes
    <3>2. M[k].role # "tool" /\ \A j \in DOMAIN M : j > k => M[j].role = "tool"
      BY <1>1, <3>1 DEF Owing
    <3>3. l = k
      BY <1>1, <3>2, LastSpokenIs
    <3>4. k # 0
      BY <1>1
    <3>5. M[k].calls = <<>>
      BY <1>3, <3>3, <3>4
    <3>6. Elements(M[k].calls) = {}
      BY <3>5 DEF Elements
    <3> QED
      BY <3>1, <3>6 DEF Owing
  <2>3. q \in Chats /\ q.role # "tool" /\ q.calls = <<c>>
    BY <1>1 DEF Chats, Wire!Carries, Says
  <2>4. {c} = Elements(q.calls) /\ Len(q.calls) = 1
    BY <2>3 DEF Elements
  <2>5. IsFiniteSet({c}) /\ Cardinality({c}) = Len(q.calls)
    BY <2>4, FS_Singleton
  <2>6. Owes(M, {}, I) /\ I \subseteq I \cup {c} /\ {c} \subseteq I \cup {c}
    BY <2>2
  <2> HIDE DEF q
  <2>7. Owes(Append(M, q), {c}, I \cup {c})
    BY <2>3, <2>4, <2>5, <2>6, SpeakerFollows
  <2>8. ToolMessages(Append(M, q)) = ToolMessages(M)
    BY <1>1, <2>3, ToolMessagesGrow
  <2> QED
    BY <2>1, <2>2, <2>7, <2>8
<1> QED
  BY <1>2, <1>3

LEMMA LogAsks ==
  ASSUME NEW s, NEW O, GoodLog(s, O), NEW c \in Askers, c \notin Intents(s),
         NEW member \in BOOLEAN, O # {} => member
  PROVE  /\ GoodLog(Append(s, Wire!Asked(c, member)), O \cup {c})
         /\ Intents(Append(s, Wire!Asked(c, member))) = Intents(s) \cup {c}
<1> DEFINE e == Wire!Asked(c, member)
           t == Append(s, e)
           M == Wire!RequestBody(s)
           I == Intents(s)
<1>1. /\ e \in WireEntries /\ e.is = "intent" /\ e.of = c /\ e.batch = member
      /\ Wire!IsIntent(e) /\ ~IsResult(e)
  BY DEF WireEntries, Wire!Asked, Wire!Nobody, Says, Askers, Wire!IsIntent, IsResult
<1>2. /\ s \in Seq(WireEntries) /\ Owes(M, O, I) /\ M \in Seq(Chats)
      /\ \A i \in DOMAIN s : IsResult(s[i]) => s[i].of \in I
  BY GoodFacts DEF GoodLog
<1> HIDE DEF e
<1>3. /\ Intents(t) = I \cup {c} /\ IntentEntries(t) = IntentEntries(s) \cup {e}
      /\ e \notin IntentEntries(s)
  BY <1>1, <1>2, IntentsGrow
<1>4. Wire!RequestBody(t) = Wire!WithCall(M, e)
  <2>1. \A i \in DOMAIN s : s[i].is \in {"tool_result", "error"} => s[i].of # e.of
    BY <1>1, <1>2 DEF IsResult
  <2>2. Wire!RequestBody(t) = Adding(M, e, Intents(t))
    BY <1>1, <1>2, <2>1, BodyGrows
  <2> QED
    BY <1>1, <2>2 DEF Adding
<1>5. /\ Owes(Wire!WithCall(M, e), O \cup {c}, I \cup {c})
      /\ ToolMessages(Wire!WithCall(M, e)) = ToolMessages(M)
  BY <1>1, <1>2, CallIsOwed
<1>6. /\ t \in Seq(WireEntries)
      /\ \A i \in DOMAIN t : IsResult(t[i]) => t[i].of \in Intents(t)
  BY <1>1, ResultsStay
<1>7. c \notin O /\ Cardinality(O \cup {c}) = Cardinality(O) + 1
  BY GoodFacts, FS_AddElement
<1>8. Cardinality(IntentEntries(t)) = Cardinality(IntentEntries(s)) + 1
  BY <1>2, <1>3, FiniteParts, FS_AddElement
<1>9. /\ Cardinality(ToolMessages(M)) + Cardinality(O) = Cardinality(IntentEntries(s))
      /\ Cardinality(ToolMessages(M)) \in Nat /\ Cardinality(O) \in Nat
  BY GoodFacts DEF GoodLog
<1>10. Cardinality(ToolMessages(M)) + Cardinality(O \cup {c}) = Cardinality(IntentEntries(t))
  BY <1>7, <1>8, <1>9
<1> HIDE DEF M, I, t
<1>11. GoodLog(t, O \cup {c})
  BY <1>3, <1>4, <1>5, <1>6, <1>10 DEF GoodLog
<1> QED
  BY <1>3, <1>11 DEF t, e, I

\* A call that is owed its result gets it.
LEMMA LogAnswers ==
  ASSUME NEW s, NEW O, GoodLog(s, O), NEW c \in O, NEW e \in WireEntries,
         IsResult(e), e.of = c
  PROVE  /\ GoodLog(Append(s, e), O \ {c})
         /\ Intents(Append(s, e)) = Intents(s)
<1> DEFINE t == Append(s, e)
           M == Wire!RequestBody(s)
           I == Intents(s)
           q == Wire!Answers(c)
<1>1. e.is # "message" /\ e.is # "intent" /\ ~Wire!IsIntent(e) /\ c \in Askers
  BY DEF IsResult, Wire!IsIntent, WireEntries
<1>2. s \in Seq(WireEntries) /\ Owes(M, O, I) /\ M \in Seq(Chats) /\ c \in I
  BY GoodFacts DEF GoodLog
<1>3. Intents(t) = I /\ IntentEntries(t) = IntentEntries(s)
  BY <1>1, <1>2, IntentsGrow
<1>4. Wire!RequestBody(t) = Append(M, q)
  <2>1. Wire!RequestBody(t) = Adding(M, e, Intents(t))
    BY <1>1, <1>2, BodyGrows
  <2> QED
    BY <1>1, <1>2, <1>3, <2>1 DEF Adding, Wire!WithResult
<1>5. q \in Chats /\ q.role = "tool"
  BY <1>1 DEF Wire!Answers, Chats
<1>6. Owes(Append(M, q), O \ {c}, I)
  BY <1>1, <1>2, AnswerFollows
<1> HIDE DEF q
<1>7. Cardinality(ToolMessages(Append(M, q))) = Cardinality(ToolMessages(M)) + 1
  BY <1>2, <1>5, ToolMessagesGrow
<1>8. /\ t \in Seq(WireEntries)
      /\ \A i \in DOMAIN t : IsResult(t[i]) => t[i].of \in Intents(t)
  BY <1>2, ResultsStay
<1>9. Cardinality(O \ {c}) = Cardinality(O) - 1
  BY GoodFacts, FS_RemoveElement
<1>10. /\ Cardinality(ToolMessages(M)) + Cardinality(O) = Cardinality(IntentEntries(s))
       /\ Cardinality(ToolMessages(M)) \in Nat /\ Cardinality(O) \in Nat
  BY GoodFacts DEF GoodLog
<1>11. Cardinality(ToolMessages(Append(M, q))) + Cardinality(O \ {c})
         = Cardinality(IntentEntries(t))
  BY <1>3, <1>7, <1>9, <1>10
<1> HIDE DEF M, I, t
<1>12. GoodLog(t, O \ {c})
  BY <1>3, <1>4, <1>6, <1>8, <1>11 DEF GoodLog
<1> QED
  BY <1>3, <1>12 DEF t, I

LEMMA EmptyLog == GoodLog(<<>>, {}) /\ Intents(<<>>) = {}
<1> DEFINE none == <<>>
<1>1. none \in Seq(WireEntries) /\ none \in Seq(Chats) /\ DOMAIN none = {}
  OBVIOUS
<1>2. Wire!RequestBody(none) = none
  BY BodyOfNothing
<1>3. Intents(none) = {} /\ IntentEntries(none) = {} /\ ToolMessages(none) = {}
  BY DEF Intents, IntentEntries, ToolMessages, Elements
<1>4. Owes(none, {}, {})
  BY <1>1, FS_EmptySet DEF Owes
<1> HIDE DEF none
<1>5. Cardinality({}) + Cardinality({}) = Cardinality({})
  BY FS_EmptySet
<1>6. GoodLog(none, {})
  BY <1>1, <1>2, <1>3, <1>4, <1>5 DEF GoodLog
<1> QED
  BY <1>3, <1>6 DEF none

\* What a provider is sent of a log whose calls all have their results.
LEMMA GoodIsPaired ==
  ASSUME GoodLog(entries, {})
  PROVE  Wire!Paired(Wire!RequestBody(entries))
<1> DEFINE M == Wire!RequestBody(entries)
<1>1. Owes(M, {}, Intents(entries)) /\ M \in Seq(Chats)
  BY GoodFacts DEF GoodLog
<1>2. Cardinality(ToolMessages(M)) = Cardinality(IntentEntries(entries))
  BY GoodFacts, FS_EmptySet DEF GoodLog
<1> HIDE DEF M
<1>3. ASSUME NEW i \in DOMAIN M, M[i].role # "tool"
      PROVE  LET cs == M[i].calls
                 after == SubSeq(M, i + 1, i + Len(cs))
             IN  /\ \A j \in DOMAIN after : after[j].role = "tool"
                 /\ Len(after) = Len(cs)
                 /\ {after[j].calls[1] : j \in DOMAIN after} = Elements(cs)
                 /\ Cardinality(Elements(cs)) = Len(cs)
  <2> DEFINE n == Len(M[i].calls)
             after == SubSeq(M, i + 1, i + n)
  <2>1. Settled(M, i)
    BY <1>1, <1>3, AllSettled
  <2>2. n \in Nat /\ i \in Nat /\ i + n <= Len(M) /\ Len(M) \in Nat
    BY <1>1, <2>1, ChatFacts DEF Settled
  <2> DEFINE cs == M[i].calls
  <2> HIDE DEF n
  <2>3. /\ Len(after) = n /\ DOMAIN after = 1 .. n
        /\ \A j \in 1 .. n : after[j] = M[i + j]
    BY <1>1, <2>2
  <2>4. /\ \A j \in i + 1 .. i + n : M[j].role = "tool"
        /\ Answered(M, i + 1, i + n) = Elements(cs)
        /\ Cardinality(Elements(cs)) = n
    BY <2>1 DEF Settled, n
  <2> HIDE DEF after
  <2>5. \A j \in 1 .. n : i + j \in i + 1 .. i + n
    BY <2>2
  <2>6. \A k \in i + 1 .. i + n : k - i \in 1 .. n /\ i + (k - i) = k
    BY <2>2
  <2>7. {after[j].calls[1] : j \in DOMAIN after} = Answered(M, i + 1, i + n)
    BY <2>3, <2>5, <2>6 DEF Answered
  <2>8. \A j \in DOMAIN after : after[j].role = "tool"
    BY <2>3, <2>4, <2>5
  <2> QED
    BY <2>3, <2>4, <2>7, <2>8 DEF after, n
<1>4. /\ \A S : Wire!Cardinality(S) = Cardinality(S)
      /\ \A f : Wire!Range(f) = Elements(f)
  BY DEF Wire!Cardinality, Cardinality, Wire!Range, Elements
<1>5. {i \in DOMAIN M : M[i].role = "tool"} = ToolMessages(M)
  BY DEF ToolMessages
<1>6. {e \in Wire!Range(entries) : Wire!IsIntent(e)} = IntentEntries(entries)
  BY <1>4 DEF IntentEntries
<1>7. Wire!Paired(M)
  BY <1>2, <1>3, <1>4, <1>5, <1>6 DEF Wire!Paired
<1> QED
  BY <1>7 DEF M

-----------------------------------------------------------------------------
(* The import *)

Builders == [entries : Seq(WireEntries), open : SUBSET Calls, seen : SUBSET Calls, settled : Nat]

GoodBuilder(b, reads) ==
  /\ b \in Builders /\ reads \in BOOLEAN
  /\ GoodLog(b.entries, b.open)
  /\ Intents(b.entries) \subseteq b.seen
  /\ b.settled <= Len(b.entries)
  /\ b.settled # 0 => GoodLog(SubSeq(b.entries, 1, b.settled), {})
  /\ reads /\ b.open # {} => Wire!EndsWith(b.entries, Wire!IsIntent)

WithEntry(b, e, O, S) ==
  [entries |-> Append(b.entries, e), open |-> O, seen |-> S, settled |-> b.settled]

LEMMA WithEntryIs ==
  ASSUME NEW b, NEW w \in Builders, w.entries = b.entries, w.settled = b.settled, NEW e
  PROVE  Wire!Extended(w, e) = WithEntry(b, e, w.open, w.seen)
<1> DEFINE Log == Seq(WireEntries)
           added == Append(w.entries, e)
<1>1. w \in [entries : Log, open : SUBSET Calls, seen : SUBSET Calls, settled : Nat]
  BY DEF Builders
<1> HIDE DEF Log
<1>2. Wire!Extended(w, e) = [w EXCEPT !.entries = added]
  BY DEF Wire!Extended
<1>3. WithEntry(b, e, w.open, w.seen)
        = [entries |-> added, open |-> w.open, seen |-> w.seen, settled |-> w.settled]
  BY DEF WithEntry
<1> HIDE DEF added
<1>4. [w EXCEPT !.entries = added]
        = [entries |-> added, open |-> w.open, seen |-> w.seen, settled |-> w.settled]
  BY <1>1
<1> QED
  BY <1>2, <1>3, <1>4

\* An EXCEPT of a builder, field by field.
IsWith(w, b, O, S) ==
  w \in Builders /\ w.entries = b.entries /\ w.settled = b.settled /\ w.open = O /\ w.seen = S

LEMMA BuilderExcept ==
  ASSUME NEW b \in Builders, NEW O \in SUBSET Calls, NEW S \in SUBSET Calls
  PROVE  /\ IsWith([b EXCEPT !.open = O], b, O, b.seen)
         /\ IsWith([b EXCEPT !.open = O, !.seen = S], b, O, S)
<1> DEFINE v == [b EXCEPT !.open = O]
           w == [b EXCEPT !.open = O, !.seen = S]
<1>1. /\ v \in Builders /\ v.entries = b.entries /\ v.settled = b.settled
      /\ v.open = O /\ v.seen = b.seen
  BY DEF Builders
<1>2. /\ w \in Builders /\ w.entries = b.entries /\ w.settled = b.settled
      /\ w.open = O /\ w.seen = S
  BY DEF Builders
<1> HIDE DEF v, w
<1>3. IsWith(v, b, O, b.seen) /\ IsWith(w, b, O, S)
  BY <1>1, <1>2 DEF IsWith
<1> QED
  BY <1>3 DEF v, w

LEMMA BuilderFacts ==
  ASSUME NEW b \in Builders
  PROVE  /\ b.entries \in Seq(WireEntries) /\ b.open \subseteq Calls /\ b.seen \subseteq Calls
         /\ b.settled \in Nat /\ Len(b.entries) \in Nat
<1>1. /\ b.entries \in Seq(WireEntries) /\ b.open \subseteq Calls /\ b.seen \subseteq Calls
      /\ b.settled \in Nat
  BY DEF Builders
<1> QED
  BY <1>1

LEMMA PrefixStays ==
  ASSUME NEW S, NEW s \in Seq(S), NEW t \in Seq(S), NEW n \in Nat, SameTo(s, t, n)
  PROVE  SubSeq(s, 1, n) = SubSeq(t, 1, n)
<1>1. Len(s) \in Nat /\ Len(t) \in Nat /\ n <= Len(s) /\ n <= Len(t)
  BY DEF SameTo
<1>2. /\ SubSeq(s, 1, n) \in Seq(S) /\ Len(SubSeq(s, 1, n)) = n
      /\ SubSeq(t, 1, n) \in Seq(S) /\ Len(SubSeq(t, 1, n)) = n
      /\ \A i \in 1 .. n : SubSeq(s, 1, n)[i] = s[i] /\ SubSeq(t, 1, n)[i] = t[i]
  BY <1>1
<1>3. \A i \in 1 .. n : s[i] = t[i]
  BY DEF SameTo
<1> DEFINE u == SubSeq(s, 1, n)
           v == SubSeq(t, 1, n)
<1>4. u \in Seq(S) /\ v \in Seq(S) /\ Len(u) = Len(v) /\ \A i \in 1 .. Len(u) : u[i] = v[i]
  BY <1>2, <1>3
<1> HIDE DEF u, v
<1>5. u = v
  BY <1>4, SeqEqual
<1> QED
  BY <1>5 DEF u, v

LEMMA BuilderGrows ==
  ASSUME NEW b, NEW reads, GoodBuilder(b, reads), NEW e \in WireEntries,
         NEW O \in SUBSET Calls, NEW S \in SUBSET Calls, NEW still \in BOOLEAN,
         GoodLog(Append(b.entries, e), O), Intents(Append(b.entries, e)) \subseteq S,
         still /\ O # {} => Wire!IsIntent(e)
  PROVE  GoodBuilder(WithEntry(b, e, O, S), still)
<1> DEFINE s == b.entries
           t == Append(s, e)
           n == b.settled
           w == WithEntry(b, e, O, S)
<1>1. /\ s \in Seq(WireEntries) /\ n \in Nat /\ Len(s) \in Nat /\ n <= Len(s)
      /\ n # 0 => GoodLog(SubSeq(s, 1, n), {})
  BY BuilderFacts DEF GoodBuilder
<1>2. w.entries = t /\ w.open = O /\ w.seen = S /\ w.settled = n
  BY DEF WithEntry
<1>3. GoodLog(t, O) /\ Intents(t) \subseteq S
  OBVIOUS
<1> HIDE DEF s, n
<1>4. /\ t \in Seq(WireEntries) /\ Len(t) = Len(s) + 1 /\ t[Len(t)] = e /\ t # <<>>
      /\ \A i \in 1 .. Len(s) : t[i] = s[i]
  BY <1>1
<1>5. w \in Builders
  BY <1>1, <1>4 DEF WithEntry, Builders, s, n
<1> HIDE DEF t, w
<1>6. SubSeq(s, 1, n) = SubSeq(t, 1, n)
  <2>1. SameTo(s, t, n)
    BY <1>1, <1>4 DEF SameTo
  <2> QED
    BY <1>1, <1>4, <2>1, PrefixStays
<1>7. still /\ O # {} => Wire!EndsWith(t, Wire!IsIntent)
  BY <1>4 DEF Wire!EndsWith, Wire!Last
<1>8. n <= Len(t)
  BY <1>1, <1>4
<1>9. GoodBuilder(w, still)
  BY <1>1, <1>2, <1>3, <1>5, <1>6, <1>7, <1>8 DEF GoodBuilder
<1> QED
  BY <1>9 DEF w

LEMMA BuilderIsMarked ==
  ASSUME NEW b, NEW reads, GoodBuilder(b, reads)
  PROVE  /\ GoodBuilder(Wire!Marked(b), reads)
         /\ Wire!Marked(b).entries = b.entries /\ Wire!Marked(b).open = b.open
<1> DEFINE s == b.entries
           m == [b EXCEPT !.settled = Len(b.entries)]
<1>1. CASE Wire!Marked(b) = b
  BY <1>1
<1>2. CASE Wire!Marked(b) # b
  <2>1. Wire!Marked(b) = m /\ b.open = {}
    BY <1>2 DEF Wire!Marked
  <2>2. b \in Builders /\ reads \in BOOLEAN
    BY DEF GoodBuilder
  <2>3. /\ s \in Seq(WireEntries) /\ Len(s) \in Nat /\ SubSeq(s, 1, Len(s)) = s
    BY <2>2, BuilderFacts
  <2>4. /\ m \in Builders /\ m.entries = s /\ m.open = {} /\ m.seen = b.seen
        /\ m.settled = Len(s)
    BY <2>1, <2>2, <2>3 DEF Builders
  <2> HIDE DEF m
  <2>5. GoodLog(s, {}) /\ Intents(s) \subseteq b.seen
    BY <2>1 DEF GoodBuilder
  <2> HIDE DEF s
  <2>6. m.settled <= Len(m.entries) /\ SubSeq(m.entries, 1, m.settled) = s
    BY <2>3, <2>4
  <2>7. GoodLog(m.entries, m.open) /\ GoodLog(SubSeq(m.entries, 1, m.settled), {})
    BY <2>4, <2>5, <2>6
  <2>8. ~(m.open # {})
    BY <2>4
  <2>9. GoodBuilder(m, reads)
    BY <2>2, <2>4, <2>5, <2>6, <2>7, <2>8, Zenon DEF GoodBuilder
  <2> QED
    BY <2>1, <2>4, <2>9 DEF s
<1> QED
  BY <1>1, <1>2

LEMMA BuilderHears ==
  ASSUME NEW b, NEW reads, GoodBuilder(b, reads), b.open = {},
         NEW role \in {"user", "assistant"}, NEW still \in BOOLEAN
  PROVE  GoodBuilder(Wire!Extended(b, Wire!Said(role)), still)
<1> DEFINE e == Wire!Said(role)
<1>1. b \in Builders /\ GoodLog(b.entries, {}) /\ Intents(b.entries) \subseteq b.seen
  BY DEF GoodBuilder
<1>2. b.entries \in Seq(WireEntries) /\ b.seen \in SUBSET Calls
  BY <1>1, BuilderFacts
<1>3. e \in WireEntries /\ ~Wire!IsIntent(e)
  BY DEF WireEntries, Wire!Said, Wire!Nobody, Says, Askers, Wire!IsIntent
<1>4. GoodLog(Append(b.entries, e), {})
  BY <1>1, LogHears
<1> HIDE DEF e
<1>5. Intents(Append(b.entries, e)) \subseteq b.seen
  BY <1>1, <1>2, <1>3, IntentsGrow
<1>6. GoodBuilder(WithEntry(b, e, {}, b.seen), still)
  <2>1. {} \in SUBSET Calls
    OBVIOUS
  <2>2. still /\ {} # {} => Wire!IsIntent(e)
    OBVIOUS
  <2> QED
    BY <1>2, <1>3, <1>4, <1>5, <2>1, <2>2, BuilderGrows
<1>7. Wire!Extended(b, e) = WithEntry(b, e, {}, b.seen)
  BY <1>1, WithEntryIs
<1> QED
  BY <1>6, <1>7 DEF e

LEMMA BuilderAsks ==
  ASSUME NEW b, NEW reads, GoodBuilder(b, reads), NEW c \in Calls, c \notin b.seen,
         \/ b.open = {}
         \/ reads,
         NEW w, w = [b EXCEPT !.open = b.open \cup {c}, !.seen = b.seen \cup {c}]
  PROVE  GoodBuilder(
           Wire!Extended(w, Wire!Asked(c, Wire!EndsWith(w.entries, Wire!IsIntent))), TRUE)
<1> DEFINE s == b.entries
           O == b.open \cup {c}
           S == b.seen \cup {c}
           member == Wire!EndsWith(s, Wire!IsIntent)
           e == Wire!Asked(c, member)
<1>1. /\ b \in Builders /\ GoodLog(s, b.open) /\ Intents(s) \subseteq b.seen
      /\ reads /\ b.open # {} => member
  BY DEF GoodBuilder
<1>2. /\ s \in Seq(WireEntries) /\ O \in SUBSET Calls /\ S \in SUBSET Calls
      /\ c \notin Intents(s) /\ w.entries = s
  <2>1. w.entries = s
    BY <1>1 DEF Builders
  <2> QED
    BY <1>1, <2>1, BuilderFacts
<1>3. member \in BOOLEAN
  BY DEF Wire!EndsWith, Wire!IsIntent
<1> HIDE DEF member
<1>4. e \in WireEntries /\ Wire!IsIntent(e)
  BY <1>3 DEF WireEntries, Wire!Asked, Wire!Nobody, Says, Askers, Wire!IsIntent
<1>5. GoodLog(Append(s, e), O) /\ Intents(Append(s, e)) = Intents(s) \cup {c}
  <2>1. c \in Askers
    BY DEF Askers
  <2>2. b.open # {} => member
    BY <1>1
  <2> QED
    BY <1>1, <1>2, <1>3, <2>1, <2>2, LogAsks
<1>6. Intents(Append(s, e)) \subseteq S
  BY <1>1, <1>5
<1> HIDE DEF e, O, S
<1>7. GoodBuilder(WithEntry(b, e, O, S), TRUE)
  BY <1>2, <1>4, <1>5, <1>6, BuilderGrows
<1>8. Wire!Extended(w, e) = WithEntry(b, e, O, S)
  <2>1. O \in SUBSET Calls /\ S \in SUBSET Calls
    BY <1>2
  <2>2. IsWith(w, b, O, S)
    <3>1. IsWith([b EXCEPT !.open = O, !.seen = S], b, O, S)
      BY <1>1, <2>1, BuilderExcept
    <3> QED
      BY <3>1 DEF O, S
  <2> QED
    BY <2>2, WithEntryIs DEF IsWith
<1>9. Wire!Asked(c, Wire!EndsWith(w.entries, Wire!IsIntent)) = e
  BY <1>2 DEF e, member
<1> QED
  BY <1>7, <1>8, <1>9

LEMMA AnswersAreEntries ==
  ASSUME NEW c \in Calls, NEW says \in Says
  PROVE  /\ Wire!Failed(c) \in WireEntries /\ Wire!Result(c, says) \in WireEntries
         /\ IsResult(Wire!Failed(c)) /\ IsResult(Wire!Result(c, says))
         /\ Wire!Failed(c).of = c /\ Wire!Result(c, says).of = c
         /\ Wire!Failed(c).is = "error"
         /\ Wire!Result(c, says).is = "tool_result" /\ Wire!Result(c, says).says = says
BY DEF WireEntries, Wire!Failed, Wire!Result, Wire!Nobody, Says, Askers, IsResult

LEMMA BuilderAnswers ==
  ASSUME NEW b, NEW reads, GoodBuilder(b, reads), NEW c \in b.open,
         NEW e \in {Wire!Failed(c), Wire!Result(c, Wire!Nobody)}
  PROVE  GoodBuilder(Wire!Extended([b EXCEPT !.open = b.open \ {c}], e), FALSE)
<1>1. b \in Builders /\ GoodLog(b.entries, b.open) /\ Intents(b.entries) \subseteq b.seen
  BY DEF GoodBuilder
<1>2. /\ b.entries \in Seq(WireEntries) /\ b.open \ {c} \in SUBSET Calls
      /\ b.seen \in SUBSET Calls /\ c \in Calls
  BY <1>1, BuilderFacts
<1>3. e \in WireEntries /\ IsResult(e) /\ e.of = c
  <2>1. Wire!Nobody \in Says
    BY DEF Wire!Nobody, Says
  <2> QED
    BY <1>2, <2>1, AnswersAreEntries
<1>4. /\ GoodLog(Append(b.entries, e), b.open \ {c})
      /\ Intents(Append(b.entries, e)) \subseteq b.seen
  BY <1>1, <1>3, LogAnswers
<1>5. GoodBuilder(WithEntry(b, e, b.open \ {c}, b.seen), FALSE)
  BY <1>2, <1>3, <1>4, BuilderGrows
<1> DEFINE w == [b EXCEPT !.open = b.open \ {c}]
<1>6. IsWith(w, b, b.open \ {c}, b.seen)
  BY <1>1, <1>2, BuilderExcept
<1> HIDE DEF w
<1>7. Wire!Extended(w, e) = WithEntry(b, e, b.open \ {c}, b.seen)
  BY <1>6, WithEntryIs DEF IsWith
<1> QED
  BY <1>5, <1>7 DEF w

\* The calls that a prompt abandons are settled one by one, in any order.
LEMMA BuilderAbandons ==
  ASSUME NEW b, NEW reads, GoodBuilder(b, reads), NEW f \in Wire!SetToSeqs(b.open),
         NEW errors, errors = [i \in DOMAIN f |-> Wire!Failed(f[i])]
  PROVE  GoodBuilder([b EXCEPT !.open = {}, !.entries = b.entries \o errors], FALSE)
<1> DEFINE s == b.entries
           O == b.open
           n == Cardinality(O)
           Left(k) == O \ {f[i] : i \in 1 .. k}
           t(k) == s \o SubSeq(errors, 1, k)
<1>1. b \in Builders /\ GoodLog(s, O) /\ Intents(s) \subseteq b.seen
  BY DEF GoodBuilder
<1>2. s \in Seq(WireEntries) /\ O \subseteq Calls /\ IsFiniteSet(O) /\ n \in Nat
  BY <1>1, GoodFacts, BuilderFacts
<1>3. f \in [1 .. n -> O] /\ \A i, j \in 1 .. n : i # j => f[i] # f[j]
  BY DEF Wire!SetToSeqs, Wire!Cardinality, Cardinality
<1> HIDE DEF s, O, n
<1>4. \A i \in 1 .. n : Wire!Failed(f[i]) \in WireEntries
  BY <1>2, <1>3, AnswersAreEntries DEF Says
<1>5. /\ errors \in [1 .. n -> WireEntries] /\ errors \in Seq(WireEntries) /\ Len(errors) = n
      /\ \A i \in 1 .. n : errors[i] = Wire!Failed(f[i])
  BY <1>2, <1>3, <1>4
<1> HIDE DEF Left, t
<1> DEFINE T == {k \in 0 .. n : GoodLog(t(k), Left(k)) /\ Intents(t(k)) = Intents(s)}
<1>6. 0 \in T
  <2>1. SubSeq(errors, 1, 0) = <<>>
    BY <1>5
  <2>2. s \o <<>> = s
    BY <1>2
  <2>3. t(0) = s
    BY <2>1, <2>2 DEF t
  <2>4. Left(0) = O
    BY DEF Left
  <2> QED
    BY <1>1, <1>2, <2>3, <2>4 DEF s, O
<1>7. ASSUME NEW k \in 1 .. n, k - 1 \in T PROVE k \in T
  <2> DEFINE c == f[k]
             e == Wire!Failed(c)
  <2>1. /\ k \in Nat /\ k - 1 \in Nat /\ k <= n /\ (k - 1) + 1 = k
        /\ 1 .. k = (1 .. k - 1) \cup {k}
    BY <1>2
  <2>2. t(k) = Append(t(k - 1), e)
    <3>1. SubSeq(errors, 1, k) = Append(SubSeq(errors, 1, k - 1), errors[k])
      BY <1>5, <2>1
    <3>2. SubSeq(errors, 1, k - 1) \in Seq(WireEntries)
      BY <1>5, <2>1
    <3> DEFINE u == SubSeq(errors, 1, k - 1)
    <3> HIDE DEF u
    <3>3. s \o Append(u, e) = Append(s \o u, e)
      BY <1>2, <1>4, <3>2 DEF u
    <3> QED
      BY <1>5, <3>1, <3>3 DEF t, u
  <2>3. Left(k) = Left(k - 1) \ {c}
    BY <2>1 DEF Left
  <2>4. c \in Left(k - 1)
    <3>1. c \in O /\ \A i \in 1 .. k - 1 : f[i] # c
      BY <1>2, <1>3, <2>1
    <3> QED
      BY <3>1 DEF Left
  <2>5. e \in WireEntries /\ IsResult(e) /\ e.of = c
    BY <1>2, <1>3, <1>4, AnswersAreEntries DEF Says
  <2>6. GoodLog(t(k - 1), Left(k - 1)) /\ Intents(t(k - 1)) = Intents(s)
    BY <1>7
  <2> HIDE DEF c, e
  <2>7. /\ GoodLog(Append(t(k - 1), e), Left(k - 1) \ {c})
        /\ Intents(Append(t(k - 1), e)) = Intents(t(k - 1))
    BY <2>4, <2>5, <2>6, LogAnswers
  <2>8. k \in 0 .. n
    BY <1>2
  <2> QED
    BY <2>2, <2>3, <2>6, <2>7, <2>8
<1> HIDE DEF T
<1>8. n \in T
  <2>1. \A k \in 0 .. n : k \in T
    BY <1>2, <1>6, <1>7, BoundedInduction
  <2> QED
    BY <1>2, <2>1
<1>9. Left(n) = {}
  <2>1. f \in Injection(1 .. n, O)
    BY <1>3 DEF Injection, IsInjective
  <2>2. IsFiniteSet(1 .. n) /\ Cardinality(1 .. n) = Cardinality(O)
    <3>1. Cardinality(1 .. n) = IF 1 > n THEN 0 ELSE n - 1 + 1
      BY <1>2, FS_Interval
    <3> QED
      BY <1>2, <3>1, FS_Interval DEF n
  <2>3. f \in Surjection(1 .. n, O)
    BY <1>2, <2>1, <2>2, FS_Injection
  <2> QED
    BY <2>3 DEF Left, Surjection
<1>10. t(n) = s \o errors
  BY <1>2, <1>5 DEF t
<1>11. GoodLog(s \o errors, {}) /\ Intents(s \o errors) = Intents(s)
  BY <1>8, <1>9, <1>10 DEF T
<1> DEFINE w == [b EXCEPT !.open = {}, !.entries = s \o errors]
           m == b.settled
<1>12. s \o errors \in Seq(WireEntries)
  BY <1>2, <1>5
<1>13. /\ w \in Builders /\ w.entries = s \o errors /\ w.open = {} /\ w.seen = b.seen
       /\ w.settled = m
  BY <1>1, <1>12 DEF Builders
<1>14. /\ m \in Nat /\ Len(s) \in Nat /\ m <= Len(s)
       /\ m # 0 => GoodLog(SubSeq(s, 1, m), {})
  BY <1>1, BuilderFacts DEF GoodBuilder, s
<1> HIDE DEF w, m
<1>15. SubSeq(s, 1, m) = SubSeq(s \o errors, 1, m) /\ m <= Len(s \o errors)
  <2> DEFINE r == s \o errors
  <2>1. r \in Seq(WireEntries) /\ Len(r) = Len(s) + n /\ \A i \in 1 .. Len(s) : r[i] = s[i]
    BY <1>2, <1>5
  <2> HIDE DEF r
  <2>2. SameTo(s, r, m) /\ m <= Len(r)
    BY <1>2, <1>14, <2>1 DEF SameTo
  <2>3. SubSeq(s, 1, m) = SubSeq(r, 1, m)
    BY <1>2, <1>14, <2>1, <2>2, PrefixStays
  <2> QED
    BY <2>2, <2>3 DEF r
<1>16. GoodBuilder(w, FALSE)
  BY <1>1, <1>11, <1>13, <1>14, <1>15 DEF GoodBuilder
<1> QED
  BY <1>16 DEF w, s

LEMMA NewBuilder == GoodBuilder(Wire!EmptyBuilder, FALSE)
<1> DEFINE b == Wire!EmptyBuilder
<1>1. /\ b \in Builders /\ b.entries = <<>> /\ b.open = {} /\ b.seen = {} /\ b.settled = 0
  BY DEF Wire!EmptyBuilder, Builders
<1> HIDE DEF b
<1>2. b.settled <= Len(b.entries)
  BY <1>1
<1> QED
  BY <1>1, <1>2, EmptyLog DEF GoodBuilder, b

-----------------------------------------------------------------------------
(* The turns and the task list *)

Pending == [call : Calls, member : BOOLEAN]

\* The calls from `first` on have no intent yet.
Unbegun(bt, first, s) ==
  \A i \in DOMAIN bt :
    /\ i >= first => bt[i].call \notin Intents(s)
    /\ \A j \in DOMAIN bt : i # j => bt[i].call # bt[j].call

GoodTurn(st, s, bt, ts) ==
  /\ bt \in Seq(Pending)
  /\ \/ st \in {"reading", "refused", "rests", "open"} /\ GoodLog(s, {}) /\ Unbegun(bt, 1, s)
     \/ /\ st \in {"executing", "written"}
        /\ bt # <<>> /\ GoodLog(s, {bt[1].call}) /\ Unbegun(bt, 2, s)
  /\ st \in {"reading", "refused", "rests"} => bt = <<>>
  /\ st \in {"open", "executing"} => ts = Wire!Hydrated(s)
  /\ st = "written" => ts \in Lists

WireInv == GoodBuilder(builder, speaking) /\ GoodTurn(stage, entries, batch, tasks)

LEMMA HydratedGrows ==
  ASSUME NEW s \in Seq(WireEntries), NEW e \in WireEntries
  PROVE  Wire!Hydrated(Append(s, e))
           = IF e.is = "tool_result" /\ e.says \in Lists THEN e.says ELSE Wire!Hydrated(s)
<1> DEFINE t == Append(s, e)
           n == Len(s) + 1
           IsList(x) == x.is = "tool_result" /\ x.says \in Lists
           ListsOf(r) == {i \in DOMAIN r : IsList(r[i])}
           Newest(S) == CHOOSE i \in S : \A j \in S : j <= i
<1>1. /\ DOMAIN t = (DOMAIN s) \cup {n} /\ n \notin DOMAIN s /\ t[n] = e
      /\ \A i \in DOMAIN s : t[i] = s[i]
  BY AppendFacts
<1>2. \A r : Wire!Hydrated(r) = IF ListsOf(r) = {} THEN NoList ELSE r[Newest(ListsOf(r))].says
  BY DEF Wire!Hydrated
<1>3. DOMAIN s \subseteq Nat /\ n \in Nat /\ \A i \in DOMAIN s : i <= n
  OBVIOUS
<1> HIDE DEF t, n
<1>4. CASE IsList(e)
  <2>1. ListsOf(t) = ListsOf(s) \cup {n} /\ ListsOf(s) \subseteq DOMAIN s
    BY <1>1, <1>4
  <2> DEFINE T == ListsOf(t)
  <2> HIDE DEF ListsOf, IsList
  <2>2. n \in T /\ T \subseteq Nat /\ \A j \in T : j <= n
    BY <1>3, <2>1
  <2> HIDE DEF T
  <2>3. \A i \in T : (\A j \in T : j <= i) => i = n
    BY <2>2
  <2>4. Newest(T) = n
    BY <2>2, <2>3
  <2> HIDE DEF Newest
  <2>5. Wire!Hydrated(t) = e.says
    BY <1>1, <1>2, <2>2, <2>4 DEF T
  <2> QED
    BY <1>4, <2>5 DEF t, IsList
<1>5. CASE ~IsList(e)
  <2>1. ListsOf(t) = ListsOf(s) /\ ListsOf(s) \subseteq DOMAIN s
    BY <1>1, <1>5
  <2>2. ListsOf(s) # {} => Newest(ListsOf(s)) \in ListsOf(s)
    <3> SUFFICES ASSUME ListsOf(s) # {} PROVE \E i \in ListsOf(s) : \A j \in ListsOf(s) : j <= i
      OBVIOUS
    <3> DEFINE T == {n - i : i \in ListsOf(s)}
    <3>1. T \subseteq Nat /\ T # {}
      BY <1>3, <2>1
    <3>2. PICK m \in T : \A k \in T : m <= k
      BY <3>1, LeastNumber
    <3>3. PICK i \in ListsOf(s) : m = n - i
      OBVIOUS
    <3>4. ASSUME NEW j \in ListsOf(s) PROVE j <= i
      <4>1. n - j \in T
        OBVIOUS
      <4>2. m <= n - j
        BY <3>2, <4>1
      <4>3. i \in Nat /\ j \in Nat
        BY <1>3, <2>1
      <4> HIDE DEF ListsOf, T
      <4> QED
        BY <1>3, <3>3, <4>2, <4>3
    <3> QED
      BY <3>4
  <2> DEFINE T == ListsOf(s)
             c == Newest(T)
  <2>3. T # {} => c \in DOMAIN s
    BY <2>1, <2>2
  <2> HIDE DEF ListsOf, Newest
  <2>4. Wire!Hydrated(t) = IF T = {} THEN NoList ELSE t[c].says
    BY <1>2, <2>1
  <2>5. Wire!Hydrated(s) = IF T = {} THEN NoList ELSE s[c].says
    BY <1>2
  <2>6. Wire!Hydrated(t) = Wire!Hydrated(s)
    BY <1>1, <2>3, <2>4, <2>5
  <2> QED
    BY <1>5, <2>6 DEF t, IsList
<1> QED
  BY <1>4, <1>5

LEMMA NobodyIsNoList == "nobody" \notin Lists
BY NoNameIsNoAlias DEF Wire!Nobody

LEMMA TurnHears ==
  ASSUME NEW s, NEW bt, NEW ts, GoodTurn("open", s, bt, ts), NEW role \in {"user", "assistant"}
  PROVE  GoodTurn("open", Append(s, Wire!Said(role)), bt, ts)
<1> DEFINE e == Wire!Said(role)
           t == Append(s, e)
<1>1. /\ bt \in Seq(Pending) /\ GoodLog(s, {}) /\ Unbegun(bt, 1, s)
      /\ ts = Wire!Hydrated(s)
  BY DEF GoodTurn
<1>2. s \in Seq(WireEntries)
  BY <1>1, GoodFacts
<1>3. e \in WireEntries /\ ~Wire!IsIntent(e) /\ e.is # "tool_result"
  BY DEF WireEntries, Wire!Said, Wire!Nobody, Says, Askers, Wire!IsIntent
<1>4. GoodLog(t, {})
  BY <1>1, LogHears
<1> HIDE DEF e
<1>5. Intents(t) = Intents(s)
  BY <1>2, <1>3, IntentsGrow
<1>6. Wire!Hydrated(t) = Wire!Hydrated(s)
  BY <1>2, <1>3, HydratedGrows
<1> HIDE DEF t
<1>7. Unbegun(bt, 1, t)
  BY <1>1, <1>5 DEF Unbegun
<1>8. GoodTurn("open", t, bt, ts)
  BY <1>1, <1>4, <1>6, <1>7 DEF GoodTurn
<1> QED
  BY <1>8 DEF t, e

LEMMA TurnBegins ==
  ASSUME NEW s, NEW bt, NEW ts, GoodTurn("open", s, bt, ts), bt # <<>>
  PROVE  GoodTurn("executing", Append(s, Wire!Asked(bt[1].call, bt[1].member)), bt, ts)
<1> DEFINE c == bt[1].call
           member == bt[1].member
           e == Wire!Asked(c, member)
           t == Append(s, e)
<1>1. /\ bt \in Seq(Pending) /\ GoodLog(s, {}) /\ Unbegun(bt, 1, s)
      /\ ts = Wire!Hydrated(s)
  BY DEF GoodTurn
<1>2. 1 \in DOMAIN bt /\ bt[1] \in Pending
  BY <1>1
<1>3. c \in Askers /\ member \in BOOLEAN /\ c \notin Intents(s) /\ s \in Seq(WireEntries)
  <2>1. c \in Calls /\ member \in BOOLEAN
    BY <1>2 DEF Pending
  <2>2. c \notin Intents(s)
    BY <1>1, <1>2 DEF Unbegun
  <2> QED
    BY <1>1, <2>1, <2>2, GoodFacts DEF Askers
<1> HIDE DEF c, member
<1>4. e \in WireEntries /\ e.is = "intent"
  BY <1>3 DEF WireEntries, Wire!Asked, Wire!Nobody, Says
<1>5. GoodLog(t, {c}) /\ Intents(t) = Intents(s) \cup {c}
  <2>1. {} # {} => member
    OBVIOUS
  <2>2. GoodLog(t, {} \cup {c}) /\ Intents(t) = Intents(s) \cup {c}
    BY <1>1, <1>3, <2>1, LogAsks
  <2>3. {} \cup {c} = {c}
    OBVIOUS
  <2> QED
    BY <2>2, <2>3
<1>6. Wire!Hydrated(t) = Wire!Hydrated(s)
  BY <1>3, <1>4, HydratedGrows
<1> HIDE DEF e, t
<1>7. Unbegun(bt, 2, t)
  <2> SUFFICES ASSUME NEW i \in DOMAIN bt, i >= 2 PROVE bt[i].call \notin Intents(t)
    BY <1>1 DEF Unbegun
  <2>1. i \in Nat /\ i >= 1 /\ i # 1
    BY <1>1
  <2>2. bt[i].call \notin Intents(s) /\ bt[i].call # c
    BY <1>1, <1>2, <2>1 DEF Unbegun, c
  <2> QED
    BY <1>5, <2>2
<1>8. GoodTurn("executing", t, bt, ts)
  BY <1>1, <1>5, <1>6, <1>7 DEF GoodTurn, c
<1> QED
  BY <1>8 DEF t, e, c, member

LEMMA TurnSettles ==
  ASSUME NEW st \in {"executing", "written"}, NEW s, NEW bt, NEW ts, GoodTurn(st, s, bt, ts),
         NEW e \in WireEntries, IsResult(e), e.of = bt[1].call, NEW list,
         list = Wire!Hydrated(Append(s, e))
  PROVE  GoodTurn("open", Append(s, e), Tail(bt), list)
<1> DEFINE c == bt[1].call
           t == Append(s, e)
           rest == Tail(bt)
<1>1. /\ bt \in Seq(Pending) /\ GoodLog(s, {c}) /\ Unbegun(bt, 2, s) /\ bt # <<>>
  BY DEF GoodTurn
<1>2. GoodLog(t, {}) /\ Intents(t) = Intents(s)
  <2>1. GoodLog(t, {c} \ {c}) /\ Intents(t) = Intents(s)
    <3>1. c \in {c} /\ e.of = c
      OBVIOUS
    <3> HIDE DEF c
    <3> QED
      BY <1>1, <3>1, LogAnswers
  <2>2. {c} \ {c} = {}
    OBVIOUS
  <2> QED
    BY <2>1, <2>2
<1>3. /\ rest \in Seq(Pending)
      /\ \A i \in DOMAIN rest : i \in Nat /\ i >= 1 /\ i + 1 \in DOMAIN bt /\ rest[i] = bt[i + 1]
  BY <1>1
<1> HIDE DEF t, rest, c
<1>4. Unbegun(rest, 1, t)
  <2> SUFFICES ASSUME NEW i \in DOMAIN rest
               PROVE  /\ rest[i].call \notin Intents(t)
                      /\ \A j \in DOMAIN rest : i # j => rest[i].call # rest[j].call
    BY DEF Unbegun
  <2>1. i + 1 \in DOMAIN bt /\ i + 1 >= 2 /\ rest[i] = bt[i + 1]
    BY <1>3
  <2>2. rest[i].call \notin Intents(t)
    BY <1>1, <1>2, <2>1 DEF Unbegun
  <2>3. ASSUME NEW j \in DOMAIN rest, i # j PROVE rest[i].call # rest[j].call
    <3>1. j + 1 \in DOMAIN bt /\ rest[j] = bt[j + 1] /\ i + 1 # j + 1
      BY <1>3, <2>3
    <3> QED
      BY <1>1, <2>1, <3>1 DEF Unbegun
  <2> QED
    BY <2>2, <2>3
<1>5. GoodTurn("open", t, rest, list)
  BY <1>2, <1>3, <1>4 DEF GoodTurn, t
<1> QED
  BY <1>5 DEF t, rest

-----------------------------------------------------------------------------
(* The steps of the log *)

LEMMA InitWire == Wire!Init => WireInv
<1> SUFFICES ASSUME Wire!Init PROVE WireInv
  OBVIOUS
<1>1. /\ builder = Wire!EmptyBuilder /\ speaking = FALSE /\ stage \in {"reading", "rests"}
      /\ entries = <<>> /\ batch = <<>>
  BY DEF Wire!Init
<1>2. batch \in Seq(Pending) /\ Unbegun(batch, 1, entries)
  BY <1>1 DEF Unbegun
<1>3. GoodLog(entries, {})
  BY <1>1, EmptyLog
<1>4. GoodTurn(stage, entries, batch, tasks)
  BY <1>1, <1>2, <1>3 DEF GoodTurn
<1> QED
  BY <1>1, <1>4, NewBuilder DEF WireInv

LEMMA ImportKeepsWire ==
  ASSUME WireInv,
         \/ Wire!ReadPrompt \/ Wire!ReadAnswer
         \/ \E c \in Calls : Wire!ReadCall(c) \/ Wire!ReadResult(c)
  PROVE  WireInv'
<1>1. GoodBuilder(builder, speaking) /\ GoodTurn(stage, entries, batch, tasks)
  BY DEF WireInv
<1>2. builder \in Builders /\ builder.open \subseteq Calls
  BY <1>1, BuilderFacts DEF GoodBuilder
<1>3. ASSUME NEW b, Wire!Read(b), GoodBuilder(b, speaking') PROVE WireInv'
  <2>1. builder' = b /\ UNCHANGED <<stage, entries, batch, tasks>>
    BY <1>3 DEF Wire!Read
  <2> QED
    BY <1>1, <1>3, <2>1 DEF WireInv
<1>4. ASSUME UNCHANGED Wire!vars PROVE WireInv'
  <2>1. UNCHANGED <<builder, speaking, stage, entries, batch, tasks>>
    BY <1>4 DEF Wire!vars
  <2> QED
    BY <1>1, <2>1 DEF WireInv
<1>5. CASE Wire!ReadPrompt
  <2>1. PICK f \in Wire!SetToSeqs(builder.open) :
          LET errors == [i \in DOMAIN f |-> Wire!Failed(f[i])]
              b == [builder EXCEPT !.open = {}, !.entries = builder.entries \o errors]
          IN  Wire!Read(Wire!Extended(Wire!Marked(b), Wire!Said("user")))
    BY <1>5 DEF Wire!ReadPrompt
  <2> DEFINE errors == [i \in DOMAIN f |-> Wire!Failed(f[i])]
             b == [builder EXCEPT !.open = {}, !.entries = builder.entries \o errors]
  <2>2. GoodBuilder(b, FALSE)
    <3> HIDE DEF errors
    <3>1. errors = [i \in DOMAIN f |-> Wire!Failed(f[i])]
      BY DEF errors
    <3> QED
      BY <1>1, <3>1, BuilderAbandons
  <2>3. b.open = {}
    BY <1>2 DEF Builders
  <2> HIDE DEF b
  <2>4. GoodBuilder(Wire!Marked(b), FALSE) /\ Wire!Marked(b).open = {}
    BY <2>2, <2>3, BuilderIsMarked
  <2>5. GoodBuilder(Wire!Extended(Wire!Marked(b), Wire!Said("user")), FALSE)
    BY <2>4, BuilderHears
  <2>6. speaking' = FALSE
    BY <1>5 DEF Wire!ReadPrompt
  <2>7. Wire!Read(Wire!Extended(Wire!Marked(b), Wire!Said("user")))
    BY <2>1 DEF b, errors
  <2> QED
    BY <1>3, <2>5, <2>6, <2>7
<1>6. CASE Wire!ReadAnswer
  <2>1. /\ builder.open = {} /\ speaking' = TRUE
        /\ Wire!Read(Wire!Extended(builder, Wire!Said("assistant")))
    BY <1>6 DEF Wire!ReadAnswer
  <2>2. GoodBuilder(Wire!Extended(builder, Wire!Said("assistant")), TRUE)
    BY <1>1, <2>1, BuilderHears
  <2> QED
    BY <1>3, <2>1, <2>2
<1>7. ASSUME NEW c \in Calls, Wire!ReadCall(c) PROVE WireInv'
  <2>1. CASE c \in builder.seen
    BY <1>4, <1>7, <2>1 DEF Wire!ReadCall
  <2>2. CASE c \notin builder.seen
    <3> DEFINE w == [builder EXCEPT !.open = builder.open \cup {c},
                                    !.seen = builder.seen \cup {c}]
               e == Wire!Asked(c, Wire!EndsWith(w.entries, Wire!IsIntent))
    <3>1. /\ builder.open = {} \/ speaking
          /\ Wire!Read(Wire!Extended(w, e)) /\ speaking' = TRUE
      BY <1>7, <2>2 DEF Wire!ReadCall
    <3>2. w = [builder EXCEPT !.open = builder.open \cup {c}, !.seen = builder.seen \cup {c}]
      OBVIOUS
    <3> HIDE DEF w
    <3>3. GoodBuilder(Wire!Extended(w, e), TRUE)
      BY <1>1, <2>2, <3>1, <3>2, BuilderAsks
    <3> HIDE DEF e
    <3> QED
      BY <1>3, <3>1, <3>3
  <2> QED
    BY <2>1, <2>2
<1>8. ASSUME NEW c \in Calls, Wire!ReadResult(c) PROVE WireInv'
  <2>1. CASE c \notin builder.open
    BY <1>4, <1>8, <2>1 DEF Wire!ReadResult
  <2>2. CASE c \in builder.open
    <3>1. PICK e \in {Wire!Failed(c), Wire!Result(c, Wire!Nobody)} :
            Wire!Read(Wire!Extended([builder EXCEPT !.open = builder.open \ {c}], e))
      BY <1>8, <2>2 DEF Wire!ReadResult
    <3>2. speaking' = FALSE
      BY <1>8, <2>2 DEF Wire!ReadResult
    <3>3. GoodBuilder(Wire!Extended([builder EXCEPT !.open = builder.open \ {c}], e), FALSE)
      BY <1>1, <2>2, BuilderAnswers
    <3> QED
      BY <1>3, <3>1, <3>2, <3>3
  <2> QED
    BY <2>1, <2>2
<1> QED
  BY <1>5, <1>6, <1>7, <1>8

LEMMA FinishKeepsWire ==
  ASSUME WireInv, Wire!Finish \/ Wire!FinishFails
  PROVE  WireInv'
<1>1. /\ GoodBuilder(builder, speaking) /\ GoodTurn("reading", entries, batch, tasks)
      /\ builder' = Wire!EmptyBuilder /\ speaking' = FALSE /\ batch' = batch /\ tasks' = tasks
  BY DEF WireInv, Wire!Finish, Wire!FinishFails
<1>2. GoodBuilder(builder', speaking')
  BY <1>1, NewBuilder
<1>3. GoodLog(entries, {}) /\ batch = <<>>
  BY <1>1 DEF GoodTurn
<1>4. batch \in Seq(Pending) /\ \A s : Unbegun(batch, 1, s)
  BY <1>3 DEF Unbegun
<1> DEFINE b == Wire!Marked(builder)
<1>5. CASE stage' = "refused" /\ entries' = entries
  BY <1>1, <1>2, <1>3, <1>4, <1>5 DEF WireInv, GoodTurn
<1>6. CASE stage' = "rests" /\ entries' = SubSeq(b.entries, 1, b.settled) /\ b.settled # 0
  <2>1. GoodLog(SubSeq(b.entries, 1, b.settled), {})
    <3>1. GoodBuilder(b, speaking)
      BY <1>1, BuilderIsMarked
    <3> HIDE DEF b
    <3> QED
      BY <1>6, <3>1 DEF GoodBuilder
  <2>2. GoodLog(entries', {})
    BY <1>6, <2>1
  <2> QED
    BY <1>1, <1>2, <1>3, <1>4, <1>6, <2>2 DEF WireInv, GoodTurn
<1> QED
  BY <1>5, <1>6 DEF Wire!Finish, Wire!FinishFails

LEMMA ResponsesAreFresh ==
  ASSUME NEW s, NEW cs \in Wire!SeqOf(Calls \ {s[i].of : i \in DOMAIN s}, 2),
         Wire!IsInjective(cs)
  PROVE  LET bt == [i \in DOMAIN cs |-> [call |-> cs[i], member |-> i > 1]]
         IN  bt \in Seq(Pending) /\ Unbegun(bt, 1, s)
<1> DEFINE free == Calls \ {s[i].of : i \in DOMAIN s}
           bt == [i \in DOMAIN cs |-> [call |-> cs[i], member |-> i > 1]]
<1>1. PICK m \in 0 .. 2 : cs \in [1 .. m -> free]
  BY DEF Wire!SeqOf
<1>2. \A i \in 1 .. m : cs[i] \in Calls /\ cs[i] \notin Intents(s)
  BY <1>1 DEF Intents
<1> HIDE DEF free
<1>3. DOMAIN bt = 1 .. m /\ \A i \in 1 .. m : bt[i] = [call |-> cs[i], member |-> i > 1]
  BY <1>1
<1>4. \A i \in 1 .. m : bt[i] \in Pending /\ bt[i].call = cs[i]
  BY <1>2, <1>3 DEF Pending
<1>5. bt = [i \in 1 .. m |-> bt[i]]
  BY <1>1
<1>6. \A i, j \in 1 .. m : i # j => cs[i] # cs[j]
  BY <1>1 DEF Wire!IsInjective
<1> HIDE DEF bt
<1>7. bt \in [1 .. m -> Pending]
  BY <1>4, <1>5
<1>8. bt \in Seq(Pending)
  BY <1>7
<1>9. Unbegun(bt, 1, s)
  BY <1>2, <1>3, <1>4, <1>6 DEF Unbegun
<1> QED
  BY <1>8, <1>9 DEF bt

LEMMA TurnKeepsWire ==
  ASSUME WireInv,
         \/ Wire!Open \/ Wire!Hears \/ Wire!Speaks \/ Wire!Responds \/ Wire!DropBatch
         \/ Wire!Begin \/ Wire!Crash
         \/ \E l \in Lists : Wire!WriteTasks(l)
  PROVE  WireInv'
<1>1. GoodBuilder(builder, speaking) /\ GoodTurn(stage, entries, batch, tasks)
  BY DEF WireInv
<1>2. builder' = builder /\ speaking' = speaking
  BY DEF Wire!Open, Wire!Hears, Wire!Speaks, Wire!Responds, Wire!DropBatch, Wire!Begin,
         Wire!Crash, Wire!WriteTasks, Wire!Keep
<1> SUFFICES GoodTurn(stage', entries', batch', tasks')
  BY <1>1, <1>2 DEF WireInv
<1>3. CASE Wire!Open
  BY <1>1, <1>3 DEF Wire!Open, Wire!Reopened, GoodTurn
<1>4. CASE Wire!Hears
  BY <1>1, <1>4, TurnHears DEF Wire!Hears, Wire!Write
<1>5. CASE Wire!Speaks
  BY <1>1, <1>5, TurnHears DEF Wire!Speaks, Wire!Write
<1>6. CASE Wire!Responds
  <2>1. PICK cs \in Wire!SeqOf(Wire!Fresh, 2) :
          /\ Wire!IsInjective(cs)
          /\ batch' = [i \in DOMAIN cs |-> [call |-> cs[i], member |-> i > 1]]
    BY <1>6 DEF Wire!Responds
  <2>2. batch' \in Seq(Pending) /\ Unbegun(batch', 1, entries)
    BY <2>1, ResponsesAreFresh DEF Wire!Fresh
  <2>3. stage = "open" /\ stage' = stage /\ entries' = entries /\ tasks' = tasks
    BY <1>6 DEF Wire!Responds
  <2> QED
    BY <1>1, <2>2, <2>3 DEF GoodTurn
<1>7. CASE Wire!DropBatch
  <2>1. /\ stage = "open" /\ stage' = stage /\ entries' = entries /\ tasks' = tasks
        /\ batch' = <<>>
    BY <1>7 DEF Wire!DropBatch
  <2>2. batch' \in Seq(Pending) /\ Unbegun(batch', 1, entries)
    BY <2>1 DEF Unbegun
  <2> QED
    BY <1>1, <2>1, <2>2 DEF GoodTurn
<1>8. CASE Wire!Begin
  <2>1. /\ stage = "open" /\ stage' = "executing" /\ batch # <<>> /\ batch' = batch
        /\ tasks' = tasks
        /\ entries' = Append(entries, Wire!Asked(batch[1].call, batch[1].member))
    BY <1>8 DEF Wire!Begin, Wire!Write
  <2> QED
    BY <1>1, <2>1, TurnBegins
<1>9. CASE Wire!Crash
  <2>1. entries' = entries /\ tasks' = Wire!Hydrated(entries)
    BY <1>9 DEF Wire!Crash, Wire!Reopened
  <2>2. CASE stage = "open"
    <3>1. stage' = "rests" /\ batch' = <<>>
      BY <1>9, <2>2 DEF Wire!Crash
    <3>2. batch' \in Seq(Pending) /\ Unbegun(batch', 1, entries)
      BY <3>1 DEF Unbegun
    <3> QED
      BY <1>1, <2>1, <2>2, <3>1, <3>2 DEF GoodTurn
  <2>3. CASE stage # "open"
    <3>1. /\ stage \in {"executing", "written"} /\ stage' = "executing"
          /\ batch' = <<batch[1]>>
      BY <1>9, <2>3 DEF Wire!Crash
    <3>2. /\ batch \in Seq(Pending) /\ batch # <<>> /\ GoodLog(entries, {batch[1].call})
      BY <1>1, <3>1 DEF GoodTurn
    <3>3. /\ batch' \in Seq(Pending) /\ batch' # <<>> /\ batch'[1] = batch[1]
          /\ DOMAIN batch' = {1}
      BY <3>1, <3>2
    <3>4. Unbegun(batch', 2, entries)
      BY <3>3 DEF Unbegun
    <3> QED
      BY <2>1, <3>1, <3>2, <3>3, <3>4 DEF GoodTurn
  <2> QED
    BY <2>2, <2>3
<1>10. ASSUME NEW l \in Lists, Wire!WriteTasks(l)
       PROVE  GoodTurn(stage', entries', batch', tasks')
  BY <1>1, <1>10 DEF Wire!WriteTasks, GoodTurn
<1> QED
  BY <1>3, <1>4, <1>5, <1>6, <1>7, <1>8, <1>9, <1>10

LEMMA SettleKeepsWire ==
  ASSUME WireInv, Wire!Succeed \/ Wire!Fail \/ Wire!SettleTasks
  PROVE  WireInv'
<1> DEFINE c == batch[1].call
<1>1. /\ GoodBuilder(builder, speaking) /\ GoodTurn(stage, entries, batch, tasks)
      /\ stage \in {"executing", "written"} /\ tasks' = tasks
  BY DEF WireInv, Wire!Succeed, Wire!Fail, Wire!SettleTasks
<1>2. batch \in Seq(Pending) /\ batch # <<>> /\ GoodLog(entries, {c})
  BY <1>1 DEF GoodTurn
<1>3. c \in Calls /\ entries \in Seq(WireEntries)
  <2>1. batch[1] \in Pending
    BY <1>2
  <2> QED
    BY <1>2, <2>1, GoodFacts DEF Pending
<1>5. ASSUME NEW e \in WireEntries, IsResult(e), e.of = c, Wire!Settle(e),
             tasks = Wire!Hydrated(Append(entries, e))
      PROVE  WireInv'
  <2>1. /\ entries' = Append(entries, e) /\ stage' = "open" /\ batch' = Tail(batch)
        /\ builder' = builder /\ speaking' = speaking
    BY <1>5 DEF Wire!Settle, Wire!Write, Wire!Keep
  <2>2. GoodTurn("open", Append(entries, e), Tail(batch), tasks)
    BY <1>1, <1>5, TurnSettles
  <2> QED
    BY <1>1, <2>1, <2>2 DEF WireInv
<1>6. Wire!Nobody \in Says /\ Wire!Nobody \notin Lists /\ Lists \subseteq Says
  BY NobodyIsNoList DEF Says, Wire!Nobody
<1>7. stage = "executing" => tasks = Wire!Hydrated(entries)
  BY <1>1 DEF GoodTurn
<1>8. CASE Wire!Succeed
  <2> DEFINE e == Wire!Result(c, Wire!Nobody)
  <2>1. /\ e \in WireEntries /\ IsResult(e) /\ e.of = c /\ e.says = Wire!Nobody
    BY <1>3, <1>6, AnswersAreEntries
  <2>2. stage = "executing" /\ Wire!Settle(e)
    BY <1>8 DEF Wire!Succeed
  <2> HIDE DEF e, c
  <2>3. tasks = Wire!Hydrated(Append(entries, e))
    BY <1>3, <1>6, <1>7, <2>1, <2>2, HydratedGrows
  <2> QED
    BY <1>5, <2>1, <2>2, <2>3
<1>9. CASE Wire!Fail
  <2> DEFINE e == Wire!Failed(c)
  <2>1. e \in WireEntries /\ IsResult(e) /\ e.of = c /\ e.is = "error"
    BY <1>3, <1>6, AnswersAreEntries
  <2>2. stage = "executing" /\ Wire!Settle(e)
    BY <1>9 DEF Wire!Fail
  <2> HIDE DEF e, c
  <2>3. tasks = Wire!Hydrated(Append(entries, e))
    BY <1>3, <1>7, <2>1, <2>2, HydratedGrows
  <2> QED
    BY <1>5, <2>1, <2>2, <2>3
<1>10. CASE Wire!SettleTasks
  <2> DEFINE e == Wire!Result(c, tasks)
  <2>1. stage = "written" /\ Wire!Settle(e)
    BY <1>10 DEF Wire!SettleTasks
  <2>2. tasks \in Lists
    BY <1>1, <2>1 DEF GoodTurn
  <2>3. /\ e \in WireEntries /\ IsResult(e) /\ e.of = c /\ e.says = tasks
        /\ e.is = "tool_result"
    BY <1>3, <1>6, <2>2, AnswersAreEntries
  <2> HIDE DEF e, c
  <2>4. tasks = Wire!Hydrated(Append(entries, e))
    BY <1>3, <2>2, <2>3, HydratedGrows
  <2> QED
    BY <1>5, <2>1, <2>3, <2>4
<1> QED
  BY <1>8, <1>9, <1>10

LEMMA NextKeepsWire ==
  ASSUME WireInv, [Wire!Next]_wireVars
  PROVE  WireInv'
<1>1. CASE UNCHANGED wireVars
  BY <1>1 DEF WireInv, wireVars
<1>2. CASE Wire!Next
  BY <1>2, ImportKeepsWire, FinishKeepsWire, TurnKeepsWire, SettleKeepsWire DEF Wire!Next
<1> QED
  BY <1>1, <1>2

LEMMA WireIsSound == WireInv => LogIsTheSource
<1> SUFFICES ASSUME WireInv PROVE Wire!EveryRequestIsPaired /\ Wire!TasksAreRecorded
  BY DEF LogIsTheSource
<1>1. GoodTurn(stage, entries, batch, tasks)
  BY DEF WireInv
<1>2. Wire!EveryRequestIsPaired
  BY <1>1, GoodIsPaired DEF Wire!EveryRequestIsPaired, GoodTurn
<1>3. Wire!TasksAreRecorded
  BY <1>1 DEF Wire!TasksAreRecorded, GoodTurn
<1> QED
  BY <1>2, <1>3

-----------------------------------------------------------------------------
(* The records *)

\* The part "ids" is the module SessionFork as it stands, so that what is
\* proved of its Spec holds of every behaviour that the run checks.
THEOREM IdsAreThoseOfForks == RecordsSpec => Spec
<1>1. RecordsInit => Init
  BY DEF RecordsInit
<1>2. [RecordsNext]_recordVars => [Next]_vars
  BY DEF RecordsNext, recordVars
<1> QED
  BY <1>1, <1>2, PTL DEF RecordsSpec, Spec

\* The provider is told of each entry, by the last summary or as it is, and
\* what it is sent as it is begins with a turn (context.rs, compaction in the
\* engine): for logs of every length, everything that a compaction may keep,
\* and every number of compactions.
THEOREM ViewIsWholeHolds == RecordsSpec => []ViewIsWhole
<1>1. RecordsInit => ViewInv
  BY InitView DEF RecordsInit
<1>2. ViewInv /\ [RecordsNext]_recordVars => ViewInv'
  <2> SUFFICES ASSUME ViewInv, [RecordsNext]_recordVars PROVE ViewInv'
    OBVIOUS
  <2>1. [View!Next]_viewVars
    BY DEF RecordsNext, recordVars
  <2> QED
    BY <2>1, NextKeepsView
<1> QED
  BY <1>1, <1>2, ViewIsSound, PTL DEF RecordsSpec

\* A session whose line is in the index is found by its id from every project
\* that has no such id or name, what is found is there, and the tree shows
\* each session of the project (session_index.rs, main.rs): for every number
\* of projects, names and lines and every finite set of ids, with damaged
\* lines and files, clones and imported transcripts among them.
THEOREM SessionsAreFoundHolds == RecordsSpec => []SessionsAreFound
<1>1. RecordsInit => IndexInv
  BY InitIndex DEF RecordsInit
<1>2. IndexInv /\ [RecordsNext]_recordVars => IndexInv'
  <2> SUFFICES ASSUME IndexInv, [RecordsNext]_recordVars PROVE IndexInv'
    OBVIOUS
  <2>1. [Index!Next]_indexVars
    BY DEF RecordsNext, recordVars
  <2> QED
    BY <2>1, NextKeepsIndex
<1> QED
  BY <1>1, <1>2, IndexIsSound, PTL DEF RecordsSpec

\* What an edit puts in the place of a file is all of the text that it has
\* made, with the mode of the file (file_tools.rs): for every number of
\* workers and processes that edit, write and delete it at once, and kills
\* at any step.
THEOREM EditsAreWholeHolds == RecordsSpec => []EditsAreWhole
<1>1. RecordsInit => EditsInv
  BY InitEdits DEF RecordsInit
<1>2. EditsInv /\ [RecordsNext]_recordVars => EditsInv'
  <2> SUFFICES ASSUME EditsInv, [RecordsNext]_recordVars PROVE EditsInv'
    OBVIOUS
  <2>1. [Edits!Next]_Edits!vars
    BY DEF RecordsNext, recordVars, editVars, Edits!vars
  <2> QED
    BY <2>1, NextKeepsEdits
<1> QED
  BY <1>1, <1>2, EditsAreSound, PTL DEF RecordsSpec

\* Each request that a turn can make is well formed, and the task list is what
\* the log says of it (openai.rs, ccimport.rs, todo.rs): for every set of
\* calls and task lists and logs of every length, whoever wrote them, with
\* batches, interrupts, prompts that abandon calls, and crashes at any step.
THEOREM LogIsTheSourceHolds == RecordsSpec => []LogIsTheSource
<1>1. RecordsInit => WireInv
  BY InitWire DEF RecordsInit
<1>2. WireInv /\ [RecordsNext]_recordVars => WireInv'
  <2> SUFFICES ASSUME WireInv, [RecordsNext]_recordVars PROVE WireInv'
    OBVIOUS
  <2>1. [Wire!Next]_wireVars
    BY DEF RecordsNext, recordVars
  <2> QED
    BY <2>1, NextKeepsWire
<1> QED
  BY <1>1, <1>2, WireIsSound, PTL DEF RecordsSpec

\* The turns of a report add up to its session, and what no step reported is
\* unknown (usage_report.rs); a replay tells a candidate what its own call
\* did as long as that is recorded, and tells nothing twice (replay.rs): for
\* logs and ledgers of every length, and replays of every number of calls.
THEOREM ReportsAreTrueHolds == RecordsSpec => []ReportsAreTrue
<1>1. RecordsInit => ReportsInv
  BY InitReports DEF RecordsInit
<1>2. ReportsInv /\ [RecordsNext]_recordVars => ReportsInv'
  <2> SUFFICES ASSUME ReportsInv, [RecordsNext]_recordVars PROVE ReportsInv'
    OBVIOUS
  <2>1. [Derived!Next]_reportVars
    BY DEF RecordsNext, recordVars
  <2> QED
    BY <2>1, NextKeepsReports
<1> QED
  BY <1>1, <1>2, ReportsAreSound, PTL DEF RecordsSpec

=============================================================================
