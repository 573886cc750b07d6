---------------------------- MODULE Transcript ----------------------------
(***************************************************************************)
(* What a session's log says to a provider: OpenAiProvider::request_body() *)
(* of crates/tole-core/src/openai.rs flattens the entries of a session     *)
(* into chat messages, whoever wrote them.  Two writers are modelled: the  *)
(* import of a Claude Code transcript (ccimport.rs), and the turns that    *)
(* the session runs afterwards, with their batches of read-only calls and  *)
(* the task list of todo.rs, which lives in the entries too.               *)
(*                                                                         *)
(* A provider rejects a request in which the calls of one message are not  *)
(* followed by exactly their results.                                      *)
(***************************************************************************)
EXTENDS Naturals, Sequences, FiniteSets, SequencesExt

CONSTANTS
  Calls,        \* the ids of tool calls
  Lists,        \* task lists
  NoList,       \* the empty task list
  MaxImported,  \* bound on the entries that an import builds
  MaxEntries    \* bound on the entries of the log

VARIABLES
  builder,   \* Builder of ccimport.rs
  speaking,  \* the response that is being read has had no result yet
  stage,     \* of the session
  entries,   \* its log
  batch,     \* the calls of the response at hand that are not settled
  tasks      \* the task list in memory

vars == <<builder, speaking, stage, entries, batch, tasks>>

-----------------------------------------------------------------------------
(* The entries *)

Nobody == "nobody"

\* `says` is what the entry carries for its readers: the role of a message,
\* the task list in a call's result.
Said(role) == [is |-> "message", of |-> Nobody, says |-> role, batch |-> FALSE]
Asked(c, member) == [is |-> "intent", of |-> c, says |-> Nobody, batch |-> member]
Result(c, list) == [is |-> "tool_result", of |-> c, says |-> list, batch |-> FALSE]
Failed(c) == [is |-> "error", of |-> c, says |-> Nobody, batch |-> FALSE]

IsIntent(e) == e.is = "intent"
EndsWith(log, Test(_)) == log # <<>> /\ Test(Last(log))

-----------------------------------------------------------------------------
(* The messages of a request *)

Chat(role) == [role |-> role, calls |-> <<>>]
Carries(cs) == [role |-> "assistant", calls |-> cs]
Answers(c) == [role |-> "tool", calls |-> <<c>>]

\* The last message that is no tool's, which a member of a batch joins when
\* it has calls.
LastSpoken(messages) ==
  LET spoken == {i \in DOMAIN messages : messages[i].role # "tool"}
  IN IF spoken = {} THEN 0 ELSE CHOOSE i \in spoken : \A j \in spoken : j <= i

\* Mutant: a member of a batch joins the last message that has calls.
JoinsLastCarrier(messages) ==
  LET carriers == {i \in DOMAIN messages :
                     messages[i].role = "assistant" /\ messages[i].calls # <<>>}
  IN IF carriers = {} THEN 0 ELSE CHOOSE i \in carriers : \A j \in carriers : j <= i

Joins(messages) == LastSpoken(messages)

WithCall(messages, e) ==
  LET i == Joins(messages) IN
  IF e.batch /\ i # 0 /\ messages[i].calls # <<>>
  THEN [messages EXCEPT ![i].calls = Append(@, e.of)]
  ELSE Append(messages, Carries(<<e.of>>))

\* An error that belongs to no call stays in the log.
WithResult(messages, e, intents) ==
  IF e.of \in intents THEN Append(messages, Answers(e.of)) ELSE messages

RequestBody(log) ==
  LET intents == {log[i].of : i \in {j \in DOMAIN log : IsIntent(log[j])}}
      add[n \in 0 .. Len(log)] ==
        IF n = 0 THEN <<>>
        ELSE CASE log[n].is = "message" -> Append(add[n - 1], Chat(log[n].says))
               [] log[n].is = "intent" -> WithCall(add[n - 1], log[n])
               [] OTHER -> WithResult(add[n - 1], log[n], intents)
  IN add[Len(log)]

-----------------------------------------------------------------------------
(* The import of a Claude Code transcript.  Lines of other kinds, side     *)
(* chains, thinking blocks and blank texts add nothing and are left out.   *)
(* What Claude Code writes: the texts and the calls of a response, in this *)
(* order, then the results of its calls, in any order; a prompt at any     *)
(* time; a line may come twice; a result may belong to a call that the     *)
(* file does not have.                                                     *)

EmptyBuilder == [entries |-> <<>>, open |-> {}, seen |-> {}, settled |-> 0]

IsAnswer(e) == e.is = "message" /\ e.says = "assistant"

\* mark_if_settled()
Marked(b) ==
  IF EndsWith(b.entries, IsAnswer) /\ b.open = {}
  THEN [b EXCEPT !.settled = Len(b.entries)]
  ELSE b

Extended(b, e) == [b EXCEPT !.entries = Append(@, e)]

Reads == stage = "reading" /\ Len(builder.entries) < MaxImported
Read(b) == builder' = b /\ UNCHANGED <<stage, entries, batch, tasks>>

\* A prompt abandons the calls that have had no result: an interrupted call
\* never gets one.
ReadPrompt ==
  /\ Reads
  /\ Len(builder.entries) + Cardinality(builder.open) < MaxImported
  /\ \E abandoned \in SetToSeqs(builder.open) :
       LET errors == [i \in DOMAIN abandoned |-> Failed(abandoned[i])]
           b == [builder EXCEPT !.open = {}, !.entries = @ \o errors]
       IN Read(Extended(Marked(b), Said("user")))
  /\ speaking' = FALSE

ReadAnswer ==
  /\ Reads
  /\ builder.open = {}
  /\ Read(Extended(builder, Said("assistant")))
  /\ speaking' = TRUE

ReadCall(c) ==
  /\ Reads
  /\ IF c \in builder.seen
     THEN UNCHANGED vars
     ELSE /\ builder.open = {} \/ speaking
          /\ LET b == [builder EXCEPT !.open = @ \cup {c}, !.seen = @ \cup {c}]
             IN Read(Extended(b, Asked(c, EndsWith(b.entries, IsIntent))))
          /\ speaking' = TRUE

ReadResult(c) ==
  /\ Reads
  /\ IF c \notin builder.open
     THEN UNCHANGED vars
     ELSE /\ \E e \in {Failed(c), Result(c, Nobody)} :
               Read(Extended([builder EXCEPT !.open = @ \ {c}], e))
          /\ speaking' = FALSE

\* finish(): an import that has no answer to rest at is refused; the rest is
\* cut off.  Then the file is created, the entries are one commit and the
\* session is moved to Final.  `imported`: the name is taken.
Finish ==
  /\ stage = "reading"
  /\ LET b == Marked(builder) IN
     IF b.settled = 0
     THEN stage' = "refused" /\ UNCHANGED entries
     ELSE /\ stage' = "rests"
          /\ entries' = SubSeq(b.entries, 1, b.settled)
  /\ builder' = EmptyBuilder
  /\ speaking' = FALSE
  /\ UNCHANGED <<batch, tasks>>

\* A commit that fails removes the file: the transcript can be imported again.
FinishFails ==
  /\ stage = "reading"
  /\ Marked(builder).settled # 0
  /\ stage' = "refused"
  /\ builder' = EmptyBuilder
  /\ speaking' = FALSE
  /\ UNCHANGED <<entries, batch, tasks>>

-----------------------------------------------------------------------------
(* The task list (todo.rs) *)

\* TodoState::hydrate(): the last list that a result of todo_write carries.
Hydrated(log) ==
  LET lists == {i \in DOMAIN log : log[i].is = "tool_result" /\ log[i].says \in Lists}
  IN IF lists = {} THEN NoList
     ELSE log[CHOOSE i \in lists : \A j \in lists : j <= i].says

\* register_todo(): each process that opens the session reads the list from
\* its log.
Reopened(log) == Hydrated(log)

-----------------------------------------------------------------------------
(* The turns of the session *)

Writable == Len(entries) < MaxEntries
Write(e) == entries' = Append(entries, e)
Keep == UNCHANGED <<builder, speaking>>

\* The session is opened by a process, which reads the list from its log.
Open ==
  /\ stage = "rests"
  /\ stage' = "open"
  /\ tasks' = Reopened(entries)
  /\ UNCHANGED <<entries, batch>>
  /\ Keep

\* A prompt, an interrupt that is delivered, the feedback of the stop gate
\* or the note about a denied call: between the calls of a batch too.
Hears ==
  /\ stage = "open"
  /\ Writable
  /\ Write(Said("user"))
  /\ UNCHANGED <<stage, batch, tasks>>
  /\ Keep

Speaks ==
  /\ stage = "open"
  /\ batch = <<>>
  /\ Writable
  /\ Write(Said("assistant"))
  /\ UNCHANGED <<stage, batch, tasks>>
  /\ Keep

Fresh == Calls \ {entries[i].of : i \in DOMAIN entries}

\* The calls of one response: several only when all of them are of tools
\* that only read (is_read_only_batch()).
Responds ==
  /\ stage = "open"
  /\ batch = <<>>
  /\ \E cs \in {s \in SeqOf(Fresh, 2) : s # <<>> /\ IsInjective(s)} :
       /\ Len(entries) + 2 * Len(cs) <= MaxEntries
       /\ batch' = [i \in DOMAIN cs |-> [call |-> cs[i], member |-> i > 1]]
  /\ UNCHANGED <<stage, entries, tasks>>
  /\ Keep

\* An interrupt, a cancel, a denial or the guard against loops: the calls
\* that have not begun are forgotten.
DropBatch ==
  /\ stage = "open"
  /\ batch # <<>>
  /\ batch' = <<>>
  /\ UNCHANGED <<stage, entries, tasks>>
  /\ Keep

\* begin() and begin_batch_member(): every call of a batch but its first one
\* is marked.
Begin ==
  /\ stage = "open"
  /\ batch # <<>>
  /\ Writable
  /\ Write(Asked(Head(batch).call, Head(batch).member))
  /\ stage' = "executing"
  /\ UNCHANGED <<batch, tasks>>
  /\ Keep

Settle(e) ==
  /\ Write(e)
  /\ stage' = "open"
  /\ batch' = Tail(batch)
  /\ Keep

\* The tool answers or fails; a call after a failed one is settled unexecuted.
Succeed ==
  /\ stage = "executing"
  /\ Settle(Result(Head(batch).call, Nobody))
  /\ UNCHANGED tasks

Fail ==
  /\ stage = "executing"
  /\ Settle(Failed(Head(batch).call))
  /\ UNCHANGED tasks

\* TodoWriteTool::execute() replaces the list in memory before its result is
\* in the log.  It writes, so it is no member of a batch.
WriteTasks(list) ==
  /\ stage = "executing"
  /\ Len(batch) = 1 /\ ~Head(batch).member
  /\ tasks' = list
  /\ stage' = "written"
  /\ UNCHANGED <<entries, batch>>
  /\ Keep

SettleTasks ==
  /\ stage = "written"
  /\ Settle(Result(Head(batch).call, tasks))
  /\ UNCHANGED tasks

\* The process dies.  Its successor reads the log again and settles the call
\* that is pending: it runs it again, or records that nobody knows whether it
\* ran.  The calls of the batch without an intent are forgotten.
Crash ==
  /\ stage \in {"open", "executing", "written"}
  /\ IF stage = "open"
     THEN stage' = "rests" /\ batch' = <<>>
     ELSE stage' = "executing" /\ batch' = <<Head(batch)>>
  /\ tasks' = Reopened(entries)
  /\ UNCHANGED entries
  /\ Keep

-----------------------------------------------------------------------------

Init ==
  /\ builder = EmptyBuilder
  /\ speaking = FALSE
  /\ stage \in {"reading", "rests"}
  /\ entries = <<>>
  /\ batch = <<>>
  /\ tasks = NoList

Next ==
  \/ ReadPrompt \/ ReadAnswer
  \/ \E c \in Calls : ReadCall(c) \/ ReadResult(c)
  \/ Finish \/ FinishFails
  \/ Open \/ Hears \/ Speaks \/ Responds \/ DropBatch \/ Begin
  \/ Succeed \/ Fail \/ SettleTasks \/ Crash
  \/ \E l \in Lists : WriteTasks(l)

Spec == Init /\ [][Next]_vars

-----------------------------------------------------------------------------
(* Properties *)

\* What a provider accepts: the calls of each message are followed by one
\* result each, and there is no other result.
Paired(messages) ==
  /\ \A i \in DOMAIN messages :
       LET cs == messages[i].calls
           after == SubSeq(messages, i + 1, i + Len(cs))
       IN messages[i].role # "tool" =>
            /\ \A j \in DOMAIN after : after[j].role = "tool"
            /\ Len(after) = Len(cs)
            /\ {after[j].calls[1] : j \in DOMAIN after} = Range(cs)
            /\ Cardinality(Range(cs)) = Len(cs)
  /\ Cardinality({i \in DOMAIN messages : messages[i].role = "tool"})
       = Cardinality({e \in Range(entries) : IsIntent(e)})

\* Each request that a turn can make is well formed, whoever wrote the
\* session's entries, whatever came between the calls of a batch and however
\* often the process died (openai.rs, lines 396-399; ccimport.rs, lines
\* 207-208).
EveryRequestIsPaired ==
  stage \in {"rests", "open"} => Paired(RequestBody(entries))

\* What the model is told of its task list is what the session's log says,
\* after every crash and before every call (todo.rs, lines 53-60).
TasksAreRecorded == stage \in {"open", "executing"} => tasks = Hydrated(entries)

=============================================================================
