----------------------------- MODULE Compaction -----------------------------
(***************************************************************************)
(* Context compaction between the turns of a session                       *)
(* (tole-core/src/compaction.rs, tole-cli/src/compaction_host.rs): the     *)
(* log is never rewritten, a compaction entry says which entries its       *)
(* summary is followed by, and the provider is sent a view of the log.     *)
(*                                                                         *)
(* A summary is the set of entries that it tells of: those it was asked    *)
(* for, with what an earlier summary in the request told of.  An entry is  *)
(* known by its place in the log.                                          *)
(***************************************************************************)
EXTENDS Naturals, Sequences, FiniteSets

CONSTANTS
  Keeps,        \* turns that a pass may keep; the hosts keep one
  MaxEntries    \* bound on the log

VARIABLES
  entries,      \* the log
  tokens,       \* last_prompt_tokens(): of the last call since the last compaction
  overflow,     \* the register fact/context_overflow
  phase,        \* between turns, in a turn, or before the flag is cleared
  asked         \* the last summary call: what the view was, what was sent

vars == <<entries, tokens, overflow, phase, asked>>

\* A call or its settlement is a "step", a note is the user's in the log and
\* opens no turn: an interrupt, the stop gate's feedback, a denial.
Kinds == {"prompt", "step", "note", "answer", "compaction"}
EntryOf(kind) == [is |-> kind, from |-> 0, tells |-> {}]
Unasked == [view |-> {}, sent |-> {}]

TypeOK ==
  /\ \A i \in DOMAIN entries :
       entries[i].is \in Kinds /\ entries[i].from \in 0 .. i /\ entries[i].tells \subseteq 1 .. i
  /\ tokens \in {"unknown", "few", "many"} /\ overflow \in BOOLEAN
  /\ phase \in {"between", "turn", "clearing"}

Init ==
  /\ entries = <<>>
  /\ tokens = "unknown"
  /\ overflow = FALSE
  /\ phase = "between"
  /\ asked = Unasked

-----------------------------------------------------------------------------
(* Views *)

Of(log, kind) == {i \in DOMAIN log : log[i].is = kind}
LastOf(places) == CHOOSE i \in places : \A j \in places : j <= i

\* view(): the entries that are sent as they are ...
Verbatim(log) ==
  LET past == Of(log, "compaction") IN
  IF past = {} THEN DOMAIN log ELSE log[LastOf(past)].from .. Len(log) \ past

\* Mutant: the earlier summary is not part of the view.
ToldNoMore(log) == {}

\* ... and those that the summary before them tells of.
Told(log) ==
  LET past == Of(log, "compaction") IN
  IF past = {} THEN {} ELSE log[LastOf(past)].tells

OpensTurn(entry) == entry.is = "prompt"

\* The summary call reads the view up to the cut, with the last compaction.
CutIsAfterLast(cut) == \A c \in Of(entries, "compaction") : cut > c

\* cut_index(): the start of the turn that is keep turns back, if there is
\* an earlier one to summarize; 0 when there is none.
CutIndex(keep) ==
  LET past == Of(entries, "compaction")
      floor == IF past = {} THEN 1 ELSE entries[LastOf(past)].from
      starts == {i \in floor .. Len(entries) : OpensTurn(entries[i])}
      cuts == {i \in starts : Cardinality({j \in starts : j >= i}) = keep /\ CutIsAfterLast(i)} IN
  IF Cardinality(starts) <= keep \/ cuts = {} THEN 0 ELSE CHOOSE i \in cuts : TRUE

-----------------------------------------------------------------------------
(* Turns *)

Add(kind) ==
  /\ Len(entries) < MaxEntries
  /\ entries' = Append(entries, EntryOf(kind))

Prompt ==
  /\ phase = "between"
  /\ Add("prompt")
  /\ phase' = "turn"
  /\ UNCHANGED <<tokens, overflow, asked>>

\* A call of the provider, which may report its usage; a tool, an answer or
\* a note follows.
Step ==
  /\ phase = "turn"
  /\ tokens' \in {tokens, "few", "many"}
  /\ \/ (Add("step") \/ Add("note")) /\ UNCHANGED phase
     \/ Add("answer") /\ phase' = "between"
  /\ UNCHANGED <<overflow, asked>>

\* A request that was larger than the window fails the turn and leaves the
\* flag, in one commit.
Overflow ==
  /\ phase = "turn"
  /\ overflow' = TRUE
  /\ phase' = "between"
  /\ UNCHANGED <<entries, tokens, asked>>

\* The user asks for a pass before the next turn.
MarkOverflow ==
  /\ phase = "between"
  /\ overflow' = TRUE
  /\ UNCHANGED <<entries, tokens, phase, asked>>

-----------------------------------------------------------------------------
(* A pass *)

Due(keep) == tokens = "many" /\ CutIndex(keep) # 0

\* compact(): one summary call, one commit.  The call may fail, or say
\* nothing: the session is unchanged.
Compact(keep) ==
  LET cut == CutIndex(keep)
      head == SubSeq(entries, 1, cut - 1) IN
  /\ phase = "between" /\ (overflow \/ Due(keep))
  /\ cut # 0 /\ Len(entries) < MaxEntries
  /\ asked' = [view |-> Verbatim(entries), sent |-> Verbatim(head)]
  /\ entries' = Append(entries, [is |-> "compaction", from |-> cut,
                                 tells |-> Verbatim(head) \cup Told(head)])
  /\ tokens' = "unknown"
  /\ phase' = IF overflow THEN "clearing" ELSE "between"
  /\ UNCHANGED overflow

\* A forced pass that finds nothing to summarize is spent too.
NothingToDo(keep) ==
  /\ phase = "between" /\ overflow /\ CutIndex(keep) = 0
  /\ phase' = "clearing"
  /\ UNCHANGED <<entries, tokens, overflow, asked>>

\* The flag is cleared by a commit of its own, which may fail, or never come
\* when the process dies between the two.
Clear ==
  /\ phase = "clearing"
  /\ phase' = "between"
  /\ overflow' \in {overflow, FALSE}
  /\ UNCHANGED <<entries, tokens, asked>>

Next ==
  \/ Prompt \/ Step \/ Overflow \/ MarkOverflow
  \/ \E keep \in Keeps : Compact(keep) \/ NothingToDo(keep)
  \/ Clear

Spec == Init /\ [][Next]_vars

-----------------------------------------------------------------------------
(* Properties *)

\* The provider is told of each entry, by the last summary or as it is, and
\* what it is sent as it is begins with a turn: no result without its call.
ViewIsWhole ==
  /\ DOMAIN entries \ Of(entries, "compaction") \subseteq Told(entries) \cup Verbatim(entries)
  /\ Verbatim(entries) # {} =>
       entries[CHOOSE i \in Verbatim(entries) : \A j \in Verbatim(entries) : i <= j].is = "prompt"

\* A summary call is sent less than a turn would have been: what a summary
\* has replaced is never sent again as it was.
SummarizedOnce == asked.sent \subseteq asked.view

=============================================================================
