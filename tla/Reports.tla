------------------------------ MODULE Reports ------------------------------
(***************************************************************************)
(* What is derived from a session's log when it is read: the usage of each *)
(* turn and of the session (crates/tole-cli/src/usage_report.rs, the       *)
(* conventions of transcript.rs), and the replay of the recorded calls     *)
(* under a candidate prompt (crates/tole-core/src/replay.rs).              *)
(*                                                                         *)
(* A row of the ledger belongs to the entry that was the last one when the *)
(* provider was asked: the first step of a turn to its prompt.             *)
(***************************************************************************)
EXTENDS Naturals, Sequences, FiniteSets, SequencesExt

CONSTANTS
  Tools,        \* the names of tools
  Inputs,       \* what they are called with
  MaxEntries,   \* bound on the log
  MaxRows       \* bound on the ledger

VARIABLES
  log,      \* the entries
  ledger,   \* the usage rows
  walk      \* ReplayWalk, with the recorded calls that were consumed

vars == <<log, ledger, walk>>

-----------------------------------------------------------------------------
(* The log and the ledger *)

Nothing == "nothing"
Call(t, i) == [tool |-> t, input |-> i]
ToolCalls == {Call(t, i) : t \in Tools, i \in Inputs}
NoCall == Call(Nothing, Nothing)

Entry(kind, c) == [kind |-> kind, call |-> c]

\* opens_turn(): an interrupt, the stop gate's feedback and the note about a
\* denial are messages of a user too, but go on with a turn.
OpensTurn(e) == e.kind = "user"
TurnStarts == {i \in DOMAIN log : OpensTurn(log[i])}

\* `says`: the row has the provider's usage, and not tole's own keys only.
\* The provider may leave out any count; -1 is "unknown" here.
Unknown == 0 - 1
Rows == [says : {TRUE}, prompt : {Unknown, 1, 2}, cached : {Unknown, 1}] \cup
        [says : {FALSE}, prompt : {Unknown}, cached : {Unknown}]

-----------------------------------------------------------------------------
(* usage_report() and turn_stats() *)

Plus(x, y) == IF y = Unknown THEN x ELSE IF x = Unknown THEN y ELSE x + y

\* unwrap_or(0)
OrZero(x) == IF x = Unknown THEN 0 ELSE x

StepsOf(row) == IF row.says THEN 1 ELSE 0

\* The session's prompt tokens start at 0 and are shown as 0 when no row had
\* them; its cached (and its reasoning) tokens are unknown until one has.
NoReport == [steps |-> 0, prompt |-> 0, cached |-> Unknown]

Reported(report, row) ==
  [steps |-> report.steps + StepsOf(row),
   prompt |-> report.prompt + OrZero(row.prompt),
   cached |-> Plus(report.cached, row.cached)]

UsageReport ==
  LET sum[k \in 0 .. Len(ledger)] ==
        IF k = 0 THEN NoReport ELSE Reported(sum[k - 1], ledger[k])
  IN sum[Len(ledger)]

\* Every count of a turn is unknown until a row of it has it, and rows
\* without the provider's usage are passed over.
NoUsage == [steps |-> 0, prompt |-> Unknown, cached |-> Unknown]

WithRow(usage, row) ==
  IF row.says
  THEN [steps |-> usage.steps + 1,
        prompt |-> Plus(usage.prompt, row.prompt),
        cached |-> Plus(usage.cached, row.cached)]
  ELSE usage

\* What the rows with these numbers add up to, in their order.
UsageOf(rows) ==
  LET sum[k \in 0 .. Len(ledger)] ==
        IF k = 0 THEN NoUsage
        ELSE IF k \in rows THEN WithRow(sum[k - 1], ledger[k]) ELSE sum[k - 1]
  IN sum[Len(ledger)]

\* The turn that was open at an entry; 0 if there was none.
OpenAt(at) == Cardinality({i \in TurnStarts : i <= at})

RowsOfTurn(n) == {k \in DOMAIN ledger : OpenAt(ledger[k].at) = n}

TurnStats == [n \in 1 .. Cardinality(TurnStarts) |-> UsageOf(RowsOfTurn(n))]

-----------------------------------------------------------------------------
(* The trace of a session and its replay *)

IsCall(e) == e.kind = "intent"
Recorded ==
  LET calls[n \in 0 .. Len(log)] ==
        IF n = 0 THEN <<>>
        ELSE IF IsCall(log[n]) THEN Append(calls[n - 1], log[n]) ELSE calls[n - 1]
  IN calls[Len(log)]

\* Mutant: the oldest call of the tool, whatever its input.
MatchByTool(c, used) ==
  {i \in DOMAIN Recorded \ used : Recorded[i].call.tool = c.tool}

\* match_call(): the same tool and input first, then the same tool.
Match(c, used) ==
  LET exact == {i \in DOMAIN Recorded \ used : Recorded[i].call = c}
  IN IF exact # {} THEN exact ELSE MatchByTool(c, used)

Oldest(indices) == CHOOSE i \in indices : \A j \in indices : i <= j

NoWalk == [is |-> "none", calls |-> <<>>, told |-> <<>>]
Walks == walk.is = "walking"
StepsTaken == Len(walk.calls)

\* score(): positions at which the candidate did what was recorded, of the
\* longer of the two; a walk that was given up has none.
Agreement ==
  Cardinality({i \in DOMAIN Recorded \cap DOMAIN walk.calls :
                 Recorded[i].call = walk.calls[i]})
Longest == IF Len(Recorded) > StepsTaken THEN Len(Recorded) ELSE StepsTaken
IsExact == walk.is = "final" /\ Agreement = Longest

-----------------------------------------------------------------------------
(* The session *)

Writable == walk.is = "none" /\ Len(log) < MaxEntries
Add(e) == log' = Append(log, e)

Prompt ==
  /\ Writable
  /\ Add(Entry("user", NoCall))
  /\ UNCHANGED <<ledger, walk>>

\* An interrupt, a note, feedback, a summary, an answer or a result.
Note ==
  /\ Writable /\ log # <<>>
  /\ Add(Entry("other", NoCall))
  /\ UNCHANGED <<ledger, walk>>

\* A provider step: its row is committed before its call, which may be
\* dropped when the turn is cancelled or interrupted.
Step ==
  /\ Writable /\ log # <<>> /\ Len(ledger) < MaxRows
  /\ \E row \in Rows :
       ledger' = Append(ledger, [at |-> Len(log), says |-> row.says,
                                 prompt |-> row.prompt, cached |-> row.cached])
  /\ \/ UNCHANGED log
     \/ \E c \in ToolCalls : Add(Entry("intent", c))
  /\ UNCHANGED walk

-----------------------------------------------------------------------------
(* The replay *)

\* MissionTrace::parse(): the log begins with a prompt.
StartReplay ==
  /\ walk.is = "none"
  /\ log # <<>> /\ OpensTurn(log[1])
  /\ walk' = [NoWalk EXCEPT !.is = "walking"]
  /\ UNCHANGED <<log, ledger>>

\* The candidate calls a tool: it is told what was recorded, or the walk has
\* left what was recorded.
Replay(c) ==
  /\ Walks
  /\ StepsTaken <= Len(Recorded)
  /\ LET found == Match(c, Range(walk.told))
         called == [walk EXCEPT !.calls = Append(@, c)]
     IN walk' = IF found = {}
                THEN [called EXCEPT !.is = "diverged"]
                ELSE [called EXCEPT !.told = Append(@, Oldest(found))]
  /\ UNCHANGED <<log, ledger>>

FinishReplay ==
  /\ Walks
  /\ StepsTaken <= Len(Recorded)
  /\ walk' = [walk EXCEPT !.is = "final"]
  /\ UNCHANGED <<log, ledger>>

\* The budget is one step more than the recorded calls.  The provider may
\* fail, or call with arguments that are no JSON.
EndReplay ==
  /\ Walks
  /\ walk' = [walk EXCEPT !.is = "diverged"]
  /\ UNCHANGED <<log, ledger>>

-----------------------------------------------------------------------------

Init ==
  /\ log = <<>>
  /\ ledger = <<>>
  /\ walk = NoWalk

Next ==
  \/ Prompt \/ Note \/ Step
  \/ StartReplay \/ FinishReplay \/ EndReplay
  \/ \E c \in ToolCalls : Replay(c)

Spec == Init /\ [][Next]_vars

-----------------------------------------------------------------------------
(* Properties *)

Total(f) ==
  LET sum[n \in 0 .. Len(f)] == IF n = 0 THEN Unknown ELSE Plus(sum[n - 1], f[n])
  IN sum[Len(f)]

\* The turns add up to the session, on every face, whatever was dropped,
\* noted or interrupted.  The two are folds of their own, and an unknown count
\* reads as 0 in the session's prompt tokens only: a turn knows a count just
\* when a row of it has one (usage_report.rs, lines 97-144 and 162-168).
TurnsAddUp ==
  /\ OrZero(Total([n \in DOMAIN TurnStats |-> TurnStats[n].prompt])) = UsageReport.prompt
  /\ Total([n \in DOMAIN TurnStats |-> TurnStats[n].cached]) = UsageReport.cached
  /\ ledger # <<>> => Total([n \in DOMAIN TurnStats |-> TurnStats[n].steps]) = UsageReport.steps
  /\ \A n \in DOMAIN TurnStats :
       TurnStats[n].prompt = Unknown <=>
         \A k \in RowsOfTurn(n) : ledger[k].prompt = Unknown

\* A candidate is told what its own call did, as long as that is recorded:
\* another call's outcome only when its own are used up, and none twice.  So
\* one that does what was recorded is told what was recorded, and who scores
\* in full has taken the whole path (replay.rs, lines 173-183 and 253-260).
ReplayIsExact ==
  /\ \A i \in DOMAIN walk.told :
       Recorded[walk.told[i]].call # walk.calls[i] =>
         \A j \in DOMAIN Recorded :
           Recorded[j].call = walk.calls[i] => \E k \in 1 .. i - 1 : walk.told[k] = j
  /\ IsInjective(walk.told)
  /\ IsExact => walk.told = [i \in DOMAIN Recorded |-> i]

=============================================================================
