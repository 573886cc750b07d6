---------------------------- MODULE ProviderCall ----------------------------
(***************************************************************************)
(* One model step of a turn: the turn loop asks the failover chain         *)
(* (tole-core/src/failover.rs), which asks its links one after the other;  *)
(* a link runs its HTTP call on a thread of its own and waits for it in    *)
(* slices (openai.rs), so that a cancel ends the wait.  The thread that    *)
(* was given up reads on, and its sinks still show what it reads, until it *)
(* sees the token cancelled.  A host resets the token when the next turn   *)
(* of the session begins (session_host.rs:219).  When no thread can be     *)
(* spawned the host makes the call itself, and no cancel ends it.          *)
(*                                                                         *)
(* Errors are classes of texts: "unavailable" (timeout, 429, 5xx, refused),*)
(* "broken" (dns, reset, broken pipe), "empty" (a completion of nothing),  *)
(* "wrong" (4xx, a malformed answer), "cut" and "cutTimeout" (the stream   *)
(* broke after a sink had shown some of it; its text may name a timeout).  *)
(***************************************************************************)
EXTENDS Naturals, FiniteSets

CONSTANTS
  Links,       \* providers of the chain, link 1 is the primary
  Threads,     \* bound on the call threads alive, the abandoned included
  Retries,     \* PROVIDER_TIMEOUT_RETRIES
  Cooldown,    \* retry_primary_after, in ticks
  MaxTime,     \* bound on the clock
  MaxTurns,    \* bound on the turns
  MaxSteps     \* bound on the steps of a turn

VARIABLES
  chain,      \* active, and when the primary was left
  clock,
  turn,       \* the turn loop's state
  attempt,    \* one call of the chain
  threads,
  rejected,   \* links that have refused the reasoning effort
  cancelled,  \* the session's token
  shown       \* turns that output was shown in, with the turns it is of

vars == <<chain, clock, turn, attempt, threads, rejected, cancelled, shown>>

Never == 0
Results == {"ok", "unavailable", "broken", "empty", "wrong", "cut", "cutTimeout", "cancelled"}
\* `here`: the call is on the host's own thread.  `emitted`: what the sinks
\* were shown, thoughts alone or text of the answer too.
Off == [is |-> "off", turn |-> 0, link |-> 1, here |-> FALSE, emitted |-> "nothing",
        refused |-> FALSE, result |-> "ok"]
NoAttempt == [thread |-> 1, pos |-> 1, first |-> 1, at |-> 0, voices |-> {}, err |-> "ok"]

TypeOK ==
  /\ chain \in [active : 1 .. Links, leftAt : 0 .. MaxTime + 1] /\ clock \in 1 .. MaxTime
  /\ turn \in [n : 0 .. MaxTurns, retries : Nat, steps : Nat, loud : BOOLEAN, again : BOOLEAN,
               is : {"idle", "asking", "calling", "listening", "erring", "backoff", "answered"}]
  /\ attempt \in [thread : 1 .. Threads, pos : 1 .. Links, first : 1 .. Links, at : 0 .. MaxTime,
                  voices : SUBSET (1 .. Links), err : Results]
  /\ \A w \in 1 .. Threads : /\ threads[w].is \in {"off", "sent", "reading", "done"}
                             /\ threads[w].emitted \in {"nothing", "thought", "text"}
  /\ rejected \in SUBSET (1 .. Links) /\ cancelled \in BOOLEAN

Init ==
  /\ chain = [active |-> 1, leftAt |-> Never]
  /\ clock = 1
  /\ turn = [n |-> 0, retries |-> 0, steps |-> 0, loud |-> FALSE, again |-> FALSE, is |-> "idle"]
  /\ attempt = NoAttempt
  /\ threads = [w \in 1 .. Threads |-> Off]
  /\ rejected = {}
  /\ cancelled = FALSE
  /\ shown = {}

-----------------------------------------------------------------------------
(* Classes of errors *)

\* is_failover_error(): this provider is unavailable, ask another.
FailoverErrors == {"unavailable", "broken"}

\* is_transient_provider_error(): ask again.
TransientErrors == {"unavailable", "empty", "cutTimeout"}

\* Only the leading error of a combined one counts.
Transient(e) == e \in TransientErrors

\* Mutant: a cut is the same error before and after output.
CutHeadForgotten(w) == {"unavailable", "broken"}

\* What read_line()'s error becomes.
CutResults(w) ==
  IF threads[w].emitted # "nothing" THEN {"cut", "cutTimeout"} ELSE {"unavailable"}

\* What a stream ends with that is not cut: an answer, a chunk that cannot be
\* parsed, or, when no text came (thoughts may have), an empty completion.
EndResults(w) == {"ok", "wrong"} \cup (IF threads[w].emitted = "text" THEN {} ELSE {"empty"})

-----------------------------------------------------------------------------
(* The turn loop *)

\* The host keeps its provider, as chat and mission do, or builds a new one.
Prompt ==
  /\ turn.is = "idle" /\ turn.n < MaxTurns
  /\ turn' = [n |-> turn.n + 1, retries |-> 0, steps |-> 0, loud |-> FALSE, again |-> FALSE,
              is |-> "asking"]
  /\ cancelled' = FALSE
  /\ \/ UNCHANGED <<chain, rejected>>
     \/ chain' = [active |-> 1, leftAt |-> Never] /\ rejected' = {}
  /\ UNCHANGED <<clock, attempt, threads, shown>>

Cancel ==
  /\ turn.is # "idle"
  /\ cancelled' = TRUE
  /\ UNCHANGED <<chain, clock, turn, attempt, threads, rejected, shown>>

EndTurn ==
  /\ turn' = [n |-> turn.n, retries |-> 0, steps |-> 0, loud |-> FALSE, again |-> FALSE, is |-> "idle"]
  /\ attempt' = NoAttempt

\* Back to the primary once the cooldown has passed.
Cooled ==
  IF chain.active # 1 /\ chain.leftAt # Never /\ clock - chain.leftAt >= Cooldown
  THEN [active |-> 1, leftAt |-> Never]
  ELSE chain

\* The top of the loop: the cancel checkpoint, then the chain is asked.
Ask ==
  /\ turn.is = "asking"
  /\ IF cancelled
     THEN EndTurn /\ UNCHANGED chain
     ELSE /\ turn' = [turn EXCEPT !.is = "calling", !.again = @ \/ turn.loud]
          /\ chain' = Cooled
          /\ attempt' = [NoAttempt EXCEPT !.first = Cooled.active, !.at = clock]
  /\ UNCHANGED <<clock, threads, rejected, cancelled, shown>>

\* The link asked at this position: the active one first, wrapping round.
LinkAt(pos) == ((chain.active + pos - 2) % Links) + 1

\* The links that fail before another answers are left behind.
NextLink(e) ==
  /\ turn' = [turn EXCEPT !.is = "calling", !.again = @ \/ turn.loud]
  /\ attempt' = [attempt EXCEPT !.pos = @ + 1]

GiveBackError(e) ==
  /\ turn' = [turn EXCEPT !.is = "erring"]
  /\ attempt' = [attempt EXCEPT !.err = e]

\* The chain sees a link's error.
LinkFailed(e) ==
  IF attempt.pos < Links /\ ~cancelled /\ e \in FailoverErrors THEN NextLink(e) ELSE GiveBackError(e)

\* A link called on a cancelled token sends nothing.  If the thread cannot be
\* spawned, the host makes the call itself.
Send ==
  /\ turn.is = "calling"
  /\ IF cancelled
     THEN LinkFailed("cancelled") /\ UNCHANGED threads
     ELSE \E w \in {v \in 1 .. Threads : threads[v].is = "off"}, here \in BOOLEAN :
            /\ threads' = [threads EXCEPT ![w] =
                 [Off EXCEPT !.is = "sent", !.turn = turn.n, !.link = LinkAt(attempt.pos),
                             !.here = here, !.refused = LinkAt(attempt.pos) \in rejected]]
            /\ attempt' = [attempt EXCEPT !.thread = w]
            /\ turn' = [turn EXCEPT !.is = "listening"]
  /\ UNCHANGED <<chain, clock, rejected, cancelled, shown>>

\* The provider that answered stays active.
Switched(link) ==
  CASE link = chain.active -> chain
    [] link # chain.active /\ link = 1 -> [active |-> 1, leftAt |-> Never]
    [] link # chain.active /\ link # 1 ->
         [active |-> link, leftAt |-> IF chain.active = 1 THEN clock ELSE chain.leftAt]

\* The result of the call, with what the thread has learnt of its link.
Hear ==
  LET w == attempt.thread
      t == threads[w] IN
  /\ turn.is = "listening" /\ t.is = "done"
  /\ threads' = [threads EXCEPT ![w] = Off]
  /\ rejected' = IF t.refused THEN rejected \cup {t.link} ELSE rejected
  /\ IF t.result = "ok"
     THEN /\ chain' = Switched(t.link)
          /\ turn' = [turn EXCEPT !.is = "answered"]
          /\ UNCHANGED attempt
     ELSE LinkFailed(t.result) /\ UNCHANGED chain
  /\ UNCHANGED <<clock, cancelled, shown>>

\* Mutant: the host waits for the thread to end by itself.
GiveUpNever == FALSE

\* Every CANCEL_POLL the host looks at the token.
SeesCancel == cancelled

\* The thread is abandoned: what it returns goes nowhere.
GiveUp ==
  /\ turn.is = "listening" /\ threads[attempt.thread].is # "done"
  /\ ~threads[attempt.thread].here
  /\ SeesCancel
  /\ LinkFailed("cancelled")
  /\ UNCHANGED <<chain, clock, threads, rejected, cancelled, shown>>

\* The turn loop sees the chain's error.
TurnFails ==
  LET retried == Transient(attempt.err) /\ turn.retries < Retries IN
  /\ turn.is = "erring"
  /\ IF ~cancelled /\ retried
     THEN turn' = [turn EXCEPT !.is = "backoff", !.retries = @ + 1] /\ attempt' = NoAttempt
     ELSE EndTurn
  /\ UNCHANGED <<chain, clock, threads, rejected, cancelled, shown>>

\* The wait is over, or the token was seen cancelled.
BackoffOver ==
  /\ turn.is = "backoff"
  /\ turn' = [turn EXCEPT !.is = "asking"]
  /\ UNCHANGED <<chain, clock, attempt, threads, rejected, cancelled, shown>>

\* An answer that came with a cancel is dropped; a tool call leads to the
\* next step.
Answered ==
  /\ turn.is = "answered"
  /\ \/ EndTurn
     \/ /\ ~cancelled /\ turn.steps < MaxSteps
        /\ turn' = [turn EXCEPT !.is = "asking", !.steps = @ + 1]
        /\ attempt' = NoAttempt
  /\ UNCHANGED <<chain, clock, threads, rejected, cancelled, shown>>

-----------------------------------------------------------------------------
(* The call threads *)

\* A thread that nobody listens to any more.
Abandoned(w) == turn.is # "listening" \/ attempt.thread # w

EndThread(w, result) ==
  threads' = [threads EXCEPT ![w] =
    IF Abandoned(w) THEN Off ELSE [@ EXCEPT !.is = "done", !.result = result]]

\* The host hears that the provider calls the request wrong.
Louder(w) ==
  turn' = [turn EXCEPT !.loud = @ \/ (~Abandoned(w) /\ threads'[w].result = "wrong")]

\* The request is answered with a status: a stream, or an error.
Respond(w) ==
  /\ threads[w].is = "sent"
  /\ \/ threads' = [threads EXCEPT ![w].is = "reading"]
     \/ \E e \in {"unavailable", "broken", "wrong"} : EndThread(w, e)
  /\ Louder(w)
  /\ UNCHANGED <<chain, clock, attempt, rejected, cancelled, shown>>

\* A 400 that names the reasoning effort: one more request, without it.
RefuseEffort(w) ==
  /\ threads[w].is = "sent" /\ ~threads[w].refused
  /\ threads' = [threads EXCEPT ![w].refused = TRUE]
  /\ UNCHANGED <<chain, clock, turn, attempt, rejected, cancelled, shown>>

\* The thread looks at the token after each line; the host's own has none.
Stops(w) == cancelled /\ ~threads[w].here

\* What the stream's next delta shows.
Emits(w) ==
  /\ \E kind \in {"thought", "text"} :
       threads' = [threads EXCEPT ![w].emitted = IF @ = "text" THEN @ ELSE kind]
  /\ shown' = shown \cup {[of |-> threads[w].turn, in |-> turn.n]}
  /\ attempt' = IF Abandoned(w) THEN attempt
                ELSE [attempt EXCEPT !.voices = @ \cup {threads[w].link}]

\* The next line of the stream: an error, or something for the sinks, or the
\* end, at any time.
ReadLine(w) ==
  /\ threads[w].is = "reading"
  /\ \/ \E e \in CutResults(w) : EndThread(w, e) /\ UNCHANGED <<attempt, shown>>
     \/ Stops(w) /\ EndThread(w, "cancelled") /\ UNCHANGED <<attempt, shown>>
     \/ /\ ~Stops(w)
        /\ \E end \in EndResults(w) : EndThread(w, end)
        /\ UNCHANGED <<attempt, shown>>
     \/ ~Stops(w) /\ Emits(w)
  /\ Louder(w)
  /\ UNCHANGED <<chain, clock, rejected, cancelled>>

Tick ==
  /\ clock < MaxTime
  /\ clock' = clock + 1
  /\ UNCHANGED <<chain, turn, attempt, threads, rejected, cancelled, shown>>

Host == Ask \/ Send \/ Hear \/ GiveUp \/ TurnFails \/ BackoffOver \/ Answered

Next ==
  \/ Prompt \/ Cancel \/ Tick \/ Host
  \/ \E w \in 1 .. Threads : Respond(w) \/ RefuseEffort(w) \/ ReadLine(w)

\* The turn's thread goes on; a provider may never answer.
Fairness == WF_vars(Host)

Spec == Init /\ [][Next]_vars /\ Fairness

-----------------------------------------------------------------------------
(* Properties *)

\* One call of the chain never shows the output of two links: a stream that
\* broke, or turned out malformed or empty of text, after a sink had shown
\* some of it does not fail over.
OneVoice == Cardinality(attempt.voices) <= 1

\* A session never stays on a reserve: it has an end from the moment the
\* primary was left, and a call that begins after the cooldown begins with
\* the primary.
ReserveIsTemporary ==
  /\ chain.active # 1 => chain.leftAt # Never
  /\ (turn.is = "calling" /\ attempt.first # 1) => attempt.at - chain.leftAt < Cooldown

\* A request that a provider calls wrong is not sent again in its turn, to
\* that provider or to another, whatever failed before it.
LoudIsFinal == ~turn.again

\* A cancelled turn ends, though its provider never answers, unless its call
\* is on the host's own thread because no other could be spawned.
CancelEndsTheTurn ==
  cancelled /\ turn.is # "idle" ~>
    turn.is = "idle" \/ ~cancelled \/ (turn.is = "listening" /\ threads[attempt.thread].here)

\* "On cancel the thread is abandoned - it stops at its next stream line"
\* (openai.rs:993-994): nothing of a turn is shown in a later one.
AbandonedIsSilent == \A s \in shown : s.of = s.in

=============================================================================
