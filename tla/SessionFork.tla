----------------------------- MODULE SessionFork -----------------------------
(***************************************************************************)
(* Entry ids, sequence numbers and forks (crates/tole-core/src/storage.rs, *)
(* crates/tole-core/src/machine.rs).                                       *)
(*                                                                         *)
(* Every record of a commit takes the next sequence number of its session. *)
(* An entry is called e_<its number>, unless the caller names it: begin()  *)
(* calls an intent intent_<the number before the commit>, and fork() keeps *)
(* the ids of the entries that it copies into a session that counts anew.  *)
(* A commit whose entry has a known id is refused.                         *)
(*                                                                         *)
(* The commits are those of a turn (module TurnLoop); a session may be     *)
(* forked while another process works on it.                               *)
(***************************************************************************)
EXTENDS Integers, Sequences, FiniteSets, TurnState

CONSTANTS
  Names,    \* session ids
  Absent,   \* there is no such session
  MaxSeq    \* bound on the sequence numbers of a session

ASSUME AbsentAssumption == Absent \notin Names
ASSUME MaxSeqAssumption == MaxSeq \in Nat

VARIABLE sessions
vars == <<sessions>>

-----------------------------------------------------------------------------

AutoId(n) == [space |-> "e", n |-> n]
IntentId(n) == [space |-> "intent", n |-> n]

IdRecords == [space : {"e", "intent"}, n : 0 .. MaxSeq]
EntryKinds == {"user", "error", "answer", "intent", "result"}
EntryRecords == [id : IdRecords, kind : EntryKinds]

\* `from`: the session this one was forked from, and how many entries it
\* took; Absent and 0 for one that was created empty.
SessionRecords ==
  [pc : Pcs, seq : 0 .. MaxSeq, entries : Seq(EntryRecords),
   from : Names \cup {Absent}, cut : Nat]

ASSUME AbsentIsNoSession == Absent \notin SessionRecords

NewSession == [pc |-> "Idle", seq |-> 0, entries |-> <<>>, from |-> Absent, cut |-> 0]

Existing == {n \in Names : sessions[n] # Absent}
IdsOf(s) == {s.entries[i].id : i \in DOMAIN s.entries}

\* Mutant: only a commit with a transition moves the session's number on.
CommitUncounted(n, kind, id, extra, pc) ==
  LET s == sessions[n]
  IN  /\ CanTransition(s.pc, pc) \/ s.pc = pc
      /\ s.seq + 1 + extra <= MaxSeq
      /\ id \notin IdsOf(s)
      /\ sessions' = [sessions EXCEPT
           ![n].pc = pc,
           ![n].seq = IF s.pc = pc THEN @ ELSE @ + 1 + extra,
           ![n].entries = Append(@, [id |-> id, kind |-> kind])]

\* A commit of one entry and `extra` register and state records.
Commit(n, kind, id, extra, pc) ==
  LET s == sessions[n]
  IN  /\ CanTransition(s.pc, pc) \/ s.pc = pc
      /\ s.seq + 1 + extra <= MaxSeq
      /\ id \notin IdsOf(s)
      /\ sessions' = [sessions EXCEPT
           ![n].pc = pc,
           ![n].seq = @ + 1 + extra,
           ![n].entries = Append(@, [id |-> id, kind |-> kind])]

\* A commit of records only: a hop, a usage row, a fact.
CommitRecord(n, pc) ==
  /\ CanTransition(sessions[n].pc, pc) \/ sessions[n].pc = pc
  /\ sessions[n].seq < MaxSeq
  /\ sessions' = [sessions EXCEPT ![n].pc = pc, ![n].seq = @ + 1]

-----------------------------------------------------------------------------
(* A turn *)

NextId(n) == AutoId(sessions[n].seq + 1)
At(n, pcs) == sessions[n] # Absent /\ sessions[n].pc \in pcs

Prompt(n) == At(n, {"Idle", "Final"}) /\ Commit(n, "user", NextId(n), 1, "Planning")
Error(n) == At(n, {"Planning"}) /\ Commit(n, "error", NextId(n), 0, "Planning")
Answer(n) == At(n, {"Planning"}) /\ Commit(n, "answer", NextId(n), 1, "Final")

\* The intent, the pending register and the state.
Begin(n) ==
  At(n, {"ToolCall"}) /\ Commit(n, "intent", IntentId(sessions[n].seq), 2, "Executing")

Settle(n) ==
  /\ At(n, {"Executing"})
  /\ \E pc \in {"Settling", "Planning"} : Commit(n, "result", NextId(n), 2, pc)

\* Planning to ToolCall, finish(), a usage row and fact/wrote_this_turn.
Record(n) ==
  \/ At(n, {"Planning"}) /\ CommitRecord(n, "ToolCall")
  \/ At(n, {"Settling", "ToolCall"}) /\ CommitRecord(n, "Planning")
  \/ At(n, {"Planning", "Executing"}) /\ CommitRecord(n, sessions[n].pc)

\* compact() numbers a state snapshot after the last record.
Compact(n) == sessions[n] # Absent /\ CommitRecord(n, sessions[n].pc)

Create(n) ==
  /\ sessions[n] = Absent
  /\ Existing = {}
  /\ sessions' = [sessions EXCEPT ![n] = NewSession]

\* Mutant: any entry will do to cut at.
AnyEntry(s, k) == k \in DOMAIN s.entries

\* An answer: the machine rests at Final there, with no open sandwich.
SettledAt(s, k) == k \in DOMAIN s.entries /\ s.entries[k].kind = "answer"

Lineage(s, k) == SubSeq(s.entries, 1, k)

\* fork(): one commit with the copied entries, then Planning and Final.
Fork(n, m, k) ==
  /\ sessions[m] = Absent
  /\ SettledAt(sessions[n], k)
  /\ k + 2 <= MaxSeq
  /\ sessions' = [sessions EXCEPT
       ![m] = [pc |-> "Final", seq |-> k + 2,
               entries |-> Lineage(sessions[n], k), from |-> n, cut |-> k]]

Init == sessions = [n \in Names |-> Absent]

Next ==
  \/ \E n \in Names :
       \/ Create(n)
       \/ Prompt(n) \/ Error(n) \/ Answer(n) \/ Begin(n) \/ Settle(n)
       \/ Record(n) \/ Compact(n)
  \/ \E n \in Existing : \E m \in Names, k \in DOMAIN sessions[n].entries : Fork(n, m, k)

Spec == Init /\ [][Next]_vars

-----------------------------------------------------------------------------
(* Properties *)

TypeOK == sessions \in [Names -> SessionRecords \cup {Absent}]

\* The ids that the next commit of a session may take are unused, so that no
\* commit of a turn is ever refused for its id: sequence numbers advance
\* with every commit (the comment at machine.rs:127-128).
IdsFresh(s) ==
  /\ AutoId(s.seq + 1) \notin IdsOf(s)
  /\ IntentId(s.seq) \notin IdsOf(s)

OwnIdsStayFresh ==
  \A n \in Existing : sessions[n].from = Absent => IdsFresh(sessions[n])

\* A fork holds its source's lineage up to the cut, under the same ids,
\* whatever either of them does afterwards.
LineageIsKept ==
  \A n \in Existing :
    LET s == sessions[n]
    IN  s.from # Absent =>
          SubSeq(s.entries, 1, s.cut) = SubSeq(sessions[s.from].entries, 1, s.cut)

\* No fork begins in the middle of a sandwich: every copied intent was
\* copied with its settlement.
Count(s, k, kind) == Cardinality({i \in 1 .. k : s.entries[i].kind = kind})
NoOpenSandwichIsForked ==
  \A n \in Existing :
    LET s == sessions[n] IN Count(s, s.cut, "intent") = Count(s, s.cut, "result")

\* "the fork rests where a finished turn rests, so `resume <id> "<prompt>"`
\* re-opens it" (storage.rs:548-549): a session at Final takes a prompt.
ForksTakePrompts ==
  \A n \in Existing :
    sessions[n].pc = "Final" => NextId(n) \notin IdsOf(sessions[n])

=============================================================================
