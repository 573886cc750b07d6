---------------------------- MODULE ServersProofs ----------------------------
(***************************************************************************)
(* Proofs about the parts of MCServers.  The call (ProviderCall): for      *)
(* every chain of links, any number of call threads, retries and turns,    *)
(* and every schedule of answers, cut streams, cancels and ticks.  The     *)
(* front of serve (HttpFront): for every number of addresses, sessions     *)
(* and connections.  The tool servers (ToolServers): for every number of   *)
(* servers, callers and requests, and every time limit.                    *)
(***************************************************************************)
EXTENDS MCServers, FiniteSetTheorems, SequenceTheorems, TLAPS

-----------------------------------------------------------------------------
(***************************************************************************)
(* The inductive invariant.  A thread shows output only while it reads, so *)
(* one that has sent its request has shown none, and one that is done and  *)
(* has shown some does not report an error that another link would be      *)
(* asked after.  The voices of a call are those of the link that is        *)
(* listened to, and none when a link is about to be called.                *)
(***************************************************************************)
Heard == threads[attempt.thread]

ThreadFields == {"is", "turn", "link", "here", "emitted", "refused", "result"}
Shown == {"nothing", "thought", "text"}

ThreadsInv ==
  /\ DOMAIN threads = 1 .. Threads
  /\ \A w \in 1 .. Threads :
       /\ DOMAIN threads[w] = ThreadFields
       /\ threads[w].emitted \in Shown
       /\ threads[w].is = "sent" => threads[w].emitted = "nothing"
       /\ (threads[w].is = "done" /\ threads[w].emitted # "nothing") =>
            threads[w].result \notin FailoverErrors

VoicesInv ==
  /\ DOMAIN attempt = {"thread", "pos", "first", "at", "voices", "err"}
  /\ DOMAIN turn = {"n", "retries", "steps", "loud", "again", "is"}
  /\ \E link : attempt.voices \subseteq {link}
  /\ turn.is = "calling" => attempt.voices = {}
  /\ turn.is = "listening" =>
       /\ attempt.thread \in 1 .. Threads
       /\ Heard.is \in {"sent", "reading", "done"}
       /\ attempt.voices \subseteq {Heard.link}
       /\ attempt.voices # {} => Heard.emitted # "nothing"

IInv == ThreadsInv /\ VoicesInv

LEMMA NoAttemptFacts ==
  /\ DOMAIN NoAttempt = {"thread", "pos", "first", "at", "voices", "err"}
  /\ NoAttempt.voices = {}
BY DEF NoAttempt

LEMMA OffFacts ==
  /\ DOMAIN Off = ThreadFields
  /\ Off.is = "off" /\ Off.emitted = "nothing" /\ Off.emitted \in Shown
BY DEF Off, ThreadFields, Shown

LEMMA InitIInv == Init => IInv
<1> SUFFICES ASSUME Init PROVE IInv
  OBVIOUS
<1>1. DOMAIN threads = 1 .. Threads /\ \A w \in 1 .. Threads : threads[w] = Off
  BY DEF Init
<1>2. ThreadsInv
  BY <1>1, OffFacts DEF ThreadsInv
<1>3. attempt = NoAttempt /\ turn.is = "idle"
      /\ DOMAIN turn = {"n", "retries", "steps", "loud", "again", "is"}
  BY DEF Init
<1>4. VoicesInv
  BY <1>3, NoAttemptFacts DEF VoicesInv
<1> QED
  BY <1>2, <1>4 DEF IInv

\* The host leaves the call: nothing is said about its voices but their number.
LEMMA QuietKeepsIInv ==
  ASSUME IInv, UNCHANGED threads,
         DOMAIN turn' = DOMAIN turn,
         turn'.is \notin {"calling", "listening"},
         attempt' = NoAttempt \/ attempt' = attempt \/ \E e : attempt' = [attempt EXCEPT !.err = e]
  PROVE  IInv'
<1>1. DOMAIN attempt' = {"thread", "pos", "first", "at", "voices", "err"}
  BY NoAttemptFacts DEF IInv, VoicesInv
<1>2. attempt'.voices = {} \/ attempt'.voices = attempt.voices
  BY NoAttemptFacts DEF IInv, VoicesInv
<1>3. \E link : attempt'.voices \subseteq {link}
  BY <1>2 DEF IInv, VoicesInv
<1> QED
  BY <1>1, <1>3 DEF IInv, ThreadsInv, VoicesInv

\* EndTurn and the steps of the turn loop.
LEMMA EndTurnFacts ==
  ASSUME IInv, EndTurn
  PROVE  DOMAIN turn' = DOMAIN turn /\ turn'.is = "idle" /\ attempt' = NoAttempt
BY DEF EndTurn, IInv, VoicesInv

-----------------------------------------------------------------------------
(* The host *)

\* The chain sees an error: it asks the next link only if the one that
\* failed has shown nothing.
LEMMA LinkFailedKeeps ==
  ASSUME IInv, ThreadsInv', NEW e, LinkFailed(e),
         e \in FailoverErrors => attempt.voices = {}
  PROVE  IInv'
<1>1. CASE NextLink(e) /\ e \in FailoverErrors
  <2>1. /\ DOMAIN turn' = DOMAIN turn /\ turn'.is = "calling"
        /\ DOMAIN attempt' = DOMAIN attempt /\ attempt'.voices = attempt.voices
    <3>1. turn' = [f \in DOMAIN turn |->
                    CASE f = "is" -> "calling" [] f = "again" -> (turn.again \/ turn.loud)
                      [] OTHER -> turn[f]]
      BY <1>1 DEF NextLink, IInv, VoicesInv
    <3>2. attempt' = [attempt EXCEPT !.pos = @ + 1]
      BY <1>1 DEF NextLink
    <3> QED
      BY <3>1, <3>2 DEF IInv, VoicesInv
  <2> QED
    BY <1>1, <2>1 DEF IInv, VoicesInv
<1>2. CASE GiveBackError(e)
  <2>1. /\ DOMAIN turn' = DOMAIN turn /\ turn'.is = "erring"
        /\ DOMAIN attempt' = DOMAIN attempt /\ attempt'.voices = attempt.voices
    BY <1>2 DEF GiveBackError, IInv, VoicesInv
  <2> QED
    BY <2>1 DEF IInv, VoicesInv
<1> QED
  BY <1>1, <1>2 DEF LinkFailed

LEMMA ThreadKeeps ==
  ASSUME ThreadsInv, NEW w \in 1 .. Threads, NEW t, threads' = [threads EXCEPT ![w] = t],
         DOMAIN t = ThreadFields,
         t.emitted \in Shown, t.is = "sent" => t.emitted = "nothing",
         (t.is = "done" /\ t.emitted # "nothing") => t.result \notin FailoverErrors
  PROVE  ThreadsInv' /\ threads'[w] = t /\ \A v \in 1 .. Threads : v # w => threads'[v] = threads[v]
BY DEF ThreadsInv

LEMMA AskKeepsIInv == ASSUME IInv, Ask PROVE IInv'
<1>1. CASE cancelled
  BY <1>1, EndTurnFacts, QuietKeepsIInv DEF Ask
<1>2. CASE ~cancelled
  <2>1. /\ DOMAIN turn' = DOMAIN turn /\ turn'.is = "calling"
    <3>1. turn' = [f \in DOMAIN turn |->
                    CASE f = "is" -> "calling" [] f = "again" -> (turn.again \/ turn.loud)
                      [] OTHER -> turn[f]]
      BY <1>2 DEF Ask, IInv, VoicesInv
    <3> QED
      BY <3>1 DEF IInv, VoicesInv
  <2>2. DOMAIN attempt' = DOMAIN NoAttempt /\ attempt'.voices = {}
    <3> DEFINE a == Cooled.active
    <3>1. attempt' = [NoAttempt EXCEPT !.first = a, !.at = clock]
      BY <1>2 DEF Ask
    <3> HIDE DEF a
    <3>2. attempt' = [f \in DOMAIN NoAttempt |->
                       CASE f = "first" -> a [] f = "at" -> clock [] OTHER -> NoAttempt[f]]
      BY <3>1, NoAttemptFacts
    <3> QED
      BY <3>2, NoAttemptFacts
  <2>3. threads' = threads
    BY DEF Ask
  <2> QED
    BY <2>1, <2>2, <2>3, NoAttemptFacts DEF IInv, ThreadsInv, VoicesInv
<1> QED
  BY <1>1, <1>2

LEMMA SendKeepsIInv == ASSUME IInv, Send PROVE IInv'
<1>1. CASE cancelled
  <2>1. ThreadsInv' /\ LinkFailed("cancelled")
    BY <1>1 DEF Send, IInv, ThreadsInv
  <2>2. attempt.voices = {}
    BY DEF Send, IInv, VoicesInv
  <2> QED
    BY <2>1, <2>2, LinkFailedKeeps
<1>2. CASE ~cancelled
  <2> DEFINE Call(h, l, r, n) ==
               [Off EXCEPT !.is = "sent", !.turn = n, !.link = l, !.here = h, !.refused = r]
  <2>1. PICK w \in 1 .. Threads, here \in BOOLEAN :
          /\ threads' = [threads EXCEPT
               ![w] = Call(here, LinkAt(attempt.pos), LinkAt(attempt.pos) \in rejected, turn.n)]
          /\ attempt' = [attempt EXCEPT !.thread = w]
          /\ turn' = [turn EXCEPT !.is = "listening"]
    BY <1>2 DEF Send
  <2>2. \A h, l, r, n : /\ DOMAIN Call(h, l, r, n) = ThreadFields
                        /\ Call(h, l, r, n).is = "sent"
                        /\ Call(h, l, r, n).emitted = "nothing"
    <3>1. SUFFICES ASSUME NEW h, NEW l, NEW r, NEW n
                   PROVE  /\ DOMAIN Call(h, l, r, n) = ThreadFields
                          /\ Call(h, l, r, n).is = "sent"
                          /\ Call(h, l, r, n).emitted = "nothing"
      OBVIOUS
    <3>2. Call(h, l, r, n) =
            [f \in DOMAIN Off |->
              CASE f = "is" -> "sent" [] f = "turn" -> n [] f = "link" -> l [] f = "here" -> h
                [] f = "refused" -> r [] OTHER -> Off[f]]
      BY OffFacts DEF ThreadFields
    <3> QED
      BY <3>2, OffFacts DEF ThreadFields
  <2> HIDE DEF Call
  <2> DEFINE t == Call(here, LinkAt(attempt.pos), LinkAt(attempt.pos) \in rejected, turn.n)
  <2>3. /\ DOMAIN t = ThreadFields
        /\ t.is = "sent" /\ t.emitted = "nothing" /\ t.emitted \in Shown
    BY <2>2 DEF Shown
  <2>a. threads' = [threads EXCEPT ![w] = t]
    BY <2>1
  <2> HIDE DEF t
  <2>4. ThreadsInv' /\ threads'[w] = t
    BY <2>a, <2>3, ThreadKeeps DEF IInv
  <2>5. attempt.voices = {}
    BY DEF Send, IInv, VoicesInv
  <2>6. /\ DOMAIN attempt' = DOMAIN attempt /\ attempt'.voices = {} /\ attempt'.thread = w
        /\ DOMAIN turn' = DOMAIN turn /\ turn'.is = "listening"
    BY <2>1, <2>5 DEF IInv, VoicesInv
  <2> QED
    BY <2>1, <2>3, <2>4, <2>6 DEF IInv, VoicesInv, Heard
<1> QED
  BY <1>1, <1>2

LEMMA HearKeepsIInv == ASSUME IInv, Hear PROVE IInv'
<1> DEFINE w == attempt.thread
<1>1. /\ turn.is = "listening" /\ w \in 1 .. Threads /\ threads[w].is = "done"
      /\ threads' = [threads EXCEPT ![w] = Off]
  BY DEF Hear, IInv, VoicesInv
<1>2. ThreadsInv'
  BY <1>1, OffFacts, ThreadKeeps DEF IInv
<1>3. CASE threads[w].result = "ok"
  <2>1. turn' = [turn EXCEPT !.is = "answered"] /\ attempt' = attempt
    BY <1>3 DEF Hear
  <2>2. DOMAIN turn' = DOMAIN turn /\ turn'.is = "answered"
    BY <2>1 DEF IInv, VoicesInv
  <2> QED
    BY <1>2, <2>1, <2>2 DEF IInv, VoicesInv
<1>4. CASE threads[w].result # "ok"
  <2>1. LinkFailed(threads[w].result)
    BY <1>4 DEF Hear
  <2>2. threads[w].result \in FailoverErrors => attempt.voices = {}
    BY <1>1 DEF IInv, ThreadsInv, VoicesInv, Heard
  <2> QED
    BY <1>2, <2>1, <2>2, LinkFailedKeeps
<1> QED
  BY <1>3, <1>4

LEMMA HostKeepsIInv == ASSUME IInv, Host PROVE IInv'
<1>1. CASE GiveUp
  <2>1. ThreadsInv' /\ LinkFailed("cancelled") /\ "cancelled" \notin FailoverErrors
    BY <1>1 DEF GiveUp, IInv, ThreadsInv, FailoverErrors
  <2> QED
    BY <2>1, LinkFailedKeeps
<1>2. CASE TurnFails
  <2>1. threads' = threads
    BY <1>2 DEF TurnFails
  <2>2. CASE EndTurn
    BY <2>1, <2>2, EndTurnFacts, QuietKeepsIInv
  <2>3. CASE turn' = [turn EXCEPT !.is = "backoff", !.retries = @ + 1] /\ attempt' = NoAttempt
    <3>1. turn' = [f \in DOMAIN turn |->
                    CASE f = "is" -> "backoff" [] f = "retries" -> turn.retries + 1
                      [] OTHER -> turn[f]]
      BY <2>3 DEF IInv, VoicesInv
    <3>2. DOMAIN turn' = DOMAIN turn /\ turn'.is = "backoff"
      BY <3>1 DEF IInv, VoicesInv
    <3> QED
      BY <2>1, <2>3, <3>2, QuietKeepsIInv
  <2> QED
    BY <1>2, <2>2, <2>3 DEF TurnFails
<1>3. CASE BackoffOver
  <2>1. DOMAIN turn' = DOMAIN turn /\ turn'.is = "asking" /\ UNCHANGED <<attempt, threads>>
    BY <1>3 DEF BackoffOver, IInv, VoicesInv
  <2> QED
    BY <2>1, QuietKeepsIInv
<1>4. CASE Answered
  <2>1. threads' = threads
    BY <1>4 DEF Answered
  <2>2. CASE EndTurn
    BY <2>1, <2>2, EndTurnFacts, QuietKeepsIInv
  <2>3. CASE turn' = [turn EXCEPT !.is = "asking", !.steps = @ + 1] /\ attempt' = NoAttempt
    <3>1. turn' = [f \in DOMAIN turn |->
                    CASE f = "is" -> "asking" [] f = "steps" -> turn.steps + 1
                      [] OTHER -> turn[f]]
      BY <2>3 DEF IInv, VoicesInv
    <3>2. DOMAIN turn' = DOMAIN turn /\ turn'.is = "asking"
      BY <3>1 DEF IInv, VoicesInv
    <3> QED
      BY <2>1, <2>3, <3>2, QuietKeepsIInv
  <2> QED
    BY <1>4, <2>2, <2>3 DEF Answered
<1> QED
  BY <1>1, <1>2, <1>3, <1>4, AskKeepsIInv, SendKeepsIInv, HearKeepsIInv DEF Host

-----------------------------------------------------------------------------
(* The call threads *)

\* A thread goes on: if it is listened to, it stays one, and what it has
\* shown is its own.
LEMMA ThreadStepKeeps ==
  ASSUME IInv, NEW w \in 1 .. Threads, NEW t, threads' = [threads EXCEPT ![w] = t],
         DOMAIN t = ThreadFields,
         t.emitted \in Shown, t.is = "sent" => t.emitted = "nothing",
         (t.is = "done" /\ t.emitted # "nothing") => t.result \notin FailoverErrors,
         ~Abandoned(w) => /\ t.is \in {"sent", "reading", "done"}
                          /\ t.link = threads[w].link
                          /\ threads[w].emitted # "nothing" => t.emitted # "nothing",
         DOMAIN turn' = DOMAIN turn, turn'.is = turn.is,
         \/ attempt' = attempt
         \/ /\ ~Abandoned(w) /\ t.emitted # "nothing"
            /\ attempt' = [attempt EXCEPT !.voices = @ \cup {threads[w].link}]
  PROVE  IInv'
<1>1. ThreadsInv' /\ threads'[w] = t /\ \A v \in 1 .. Threads : v # w => threads'[v] = threads[v]
  BY ThreadKeeps DEF IInv
<1>2. CASE attempt' = attempt
  <2>1. /\ DOMAIN attempt' = {"thread", "pos", "first", "at", "voices", "err"}
        /\ DOMAIN turn' = {"n", "retries", "steps", "loud", "again", "is"}
        /\ \E link : attempt'.voices \subseteq {link}
        /\ turn'.is = "calling" => attempt'.voices = {}
    BY <1>2 DEF IInv, VoicesInv
  <2>2. CASE turn.is = "listening" /\ attempt.thread = w
    <3>1. /\ t.is \in {"sent", "reading", "done"} /\ t.link = threads[w].link
          /\ threads[w].emitted # "nothing" => t.emitted # "nothing"
      BY <2>2 DEF Abandoned
    <3>2. /\ attempt.voices \subseteq {threads[w].link}
          /\ attempt.voices # {} => threads[w].emitted # "nothing"
      BY <2>2 DEF IInv, VoicesInv, Heard
    <3>3. /\ threads'[attempt'.thread] = t /\ attempt'.thread = w
          /\ attempt'.voices = attempt.voices
      BY <1>1, <1>2, <2>2
    <3> QED
      BY <1>1, <2>1, <3>1, <3>2, <3>3 DEF IInv, VoicesInv, Heard
  <2>3. CASE turn.is = "listening" /\ attempt.thread # w
    <3>1. attempt.thread \in 1 .. Threads
      BY <2>3 DEF IInv, VoicesInv
    <3>2. threads'[attempt'.thread] = threads[attempt.thread] /\ attempt' = attempt
      BY <1>1, <1>2, <2>3, <3>1
    <3> QED
      BY <1>1, <2>1, <2>3, <3>1, <3>2 DEF IInv, VoicesInv, Heard
  <2>4. CASE turn.is # "listening"
    BY <1>1, <2>1, <2>4 DEF IInv, VoicesInv
  <2> QED
    BY <2>2, <2>3, <2>4
<1>3. CASE /\ ~Abandoned(w) /\ t.emitted # "nothing"
           /\ attempt' = [attempt EXCEPT !.voices = @ \cup {threads[w].link}]
  <2>1. /\ turn.is = "listening" /\ attempt.thread = w
        /\ attempt.voices \subseteq {threads[w].link}
    BY <1>3 DEF Abandoned, IInv, VoicesInv, Heard
  <2>2. /\ DOMAIN attempt' = DOMAIN attempt /\ attempt'.thread = w
        /\ attempt'.voices \subseteq {threads[w].link}
    BY <1>3, <2>1 DEF IInv, VoicesInv
  <2> QED
    BY ZenonT(30), <1>1, <1>3, <2>1, <2>2 DEF IInv, VoicesInv, Heard
<1> QED
  BY <1>2, <1>3

\* A thread that ends is off if nobody listens, and done otherwise.
LEMMA EndThreadKeeps ==
  ASSUME IInv, NEW w \in 1 .. Threads, NEW e, EndThread(w, e),
         threads[w].emitted # "nothing" => e \notin FailoverErrors,
         DOMAIN turn' = DOMAIN turn, turn'.is = turn.is, attempt' = attempt
  PROVE  IInv'
<1>1. CASE Abandoned(w)
  <2>1. threads' = [threads EXCEPT ![w] = Off]
    BY <1>1 DEF EndThread
  <2> QED
    BY <1>1, <2>1, OffFacts, ThreadStepKeeps
<1>2. CASE ~Abandoned(w)
  <2> DEFINE o == threads[w]
             t == [o EXCEPT !.is = "done", !.result = e]
  <2>1. threads' = [threads EXCEPT ![w] = t]
    BY <1>2 DEF EndThread, IInv, ThreadsInv
  <2>2. DOMAIN o = ThreadFields
    BY DEF IInv, ThreadsInv
  <2>3. o = threads[w]
    OBVIOUS
  <2> HIDE DEF o
  <2>4. t = [f \in DOMAIN o |-> CASE f = "is" -> "done" [] f = "result" -> e [] OTHER -> o[f]]
    BY <2>2 DEF ThreadFields
  <2>a. o.emitted \in Shown
    BY <2>3 DEF IInv, ThreadsInv
  <2>5. /\ DOMAIN t = ThreadFields
        /\ t.is = "done" /\ t.emitted = o.emitted /\ t.result = e /\ t.link = o.link
    BY <2>2, <2>4 DEF ThreadFields
  <2> HIDE DEF t
  <2> QED
    BY <1>2, <2>1, <2>3, <2>5, <2>a, ThreadStepKeeps
<1> QED
  BY <1>1, <1>2

LEMMA LouderFacts ==
  ASSUME IInv, NEW w, Louder(w)
  PROVE  DOMAIN turn' = DOMAIN turn /\ turn'.is = turn.is
BY DEF Louder, IInv, VoicesInv

LEMMA RespondKeepsIInv == ASSUME IInv, NEW w \in 1 .. Threads, Respond(w) PROVE IInv'
<1>1. /\ attempt' = attempt
      /\ threads[w].is = "sent" /\ threads[w].emitted = "nothing" /\ threads[w].emitted \in Shown
      /\ DOMAIN threads[w] = ThreadFields
      /\ DOMAIN threads = 1 .. Threads
  BY DEF Respond, IInv, VoicesInv, ThreadsInv
<1>a. DOMAIN turn' = DOMAIN turn /\ turn'.is = turn.is
  BY LouderFacts DEF Respond
<1>2. CASE threads' = [threads EXCEPT ![w].is = "reading"]
  <2> DEFINE t == [threads[w] EXCEPT !.is = "reading"]
  <2>1. threads' = [threads EXCEPT ![w] = t]
    BY <1>2
  <2>2. /\ DOMAIN t = ThreadFields
        /\ t.is = "reading" /\ t.link = threads[w].link /\ t.emitted = threads[w].emitted
    BY <1>1 DEF ThreadFields
  <2> HIDE DEF t
  <2> QED
    BY <1>1, <1>a, <2>1, <2>2, ThreadStepKeeps
<1>3. CASE \E e \in {"unavailable", "broken", "wrong"} : EndThread(w, e)
  BY <1>1, <1>a, <1>3, EndThreadKeeps
<1> QED
  BY <1>2, <1>3 DEF Respond

LEMMA RefuseEffortKeepsIInv == ASSUME IInv, NEW w \in 1 .. Threads, RefuseEffort(w) PROVE IInv'
<1> DEFINE t == [threads[w] EXCEPT !.refused = TRUE]
<1>1. /\ turn' = turn /\ attempt' = attempt
      /\ threads[w].is = "sent" /\ threads[w].emitted = "nothing" /\ threads[w].emitted \in Shown
      /\ DOMAIN threads[w] = ThreadFields
  BY DEF RefuseEffort, IInv, VoicesInv, ThreadsInv
<1>2. threads' = [threads EXCEPT ![w] = t]
  BY DEF RefuseEffort
<1>3. /\ DOMAIN t = ThreadFields
      /\ t.is = "sent" /\ t.link = threads[w].link /\ t.emitted = "nothing" /\ t.emitted \in Shown
  BY <1>1 DEF ThreadFields
<1> HIDE DEF t
<1> QED
  BY <1>1, <1>2, <1>3, ThreadStepKeeps

LEMMA EmitsKeepsIInv ==
  ASSUME IInv, NEW w \in 1 .. Threads, threads[w].is = "reading", Emits(w),
         DOMAIN turn' = DOMAIN turn, turn'.is = turn.is
  PROVE  IInv'
<1> DEFINE Show(kind) ==
             [threads[w] EXCEPT !.emitted = IF @ = "text" THEN @ ELSE kind]
<1>1. PICK kind \in {"thought", "text"} : threads' = [threads EXCEPT ![w] = Show(kind)]
  BY DEF Emits, IInv, ThreadsInv
<1>2. DOMAIN threads[w] = ThreadFields
  BY DEF IInv, ThreadsInv
<1>3. /\ DOMAIN Show(kind) = ThreadFields
      /\ Show(kind).is = "reading" /\ Show(kind).link = threads[w].link
      /\ Show(kind).emitted # "nothing" /\ Show(kind).emitted \in Shown
  BY <1>2 DEF ThreadFields, Shown
<1> DEFINE t == Show(kind)
<1>4. /\ threads' = [threads EXCEPT ![w] = t]
      /\ DOMAIN t = ThreadFields /\ t.is = "reading" /\ t.link = threads[w].link
      /\ t.emitted # "nothing" /\ t.emitted \in Shown
  BY <1>1, <1>3
<1>5. \/ attempt' = attempt
      \/ /\ ~Abandoned(w) /\ t.emitted # "nothing"
         /\ attempt' = [attempt EXCEPT !.voices = @ \cup {threads[w].link}]
  BY <1>4 DEF Emits
<1> HIDE DEF t, Show
<1> QED
  BY <1>4, <1>5, ThreadStepKeeps

\* A stream ends after it has shown something only in a way that is not
\* failed over: cut, malformed, empty of text, cancelled or well.
LEMMA ReadLineKeepsIInv == ASSUME IInv, NEW w \in 1 .. Threads, ReadLine(w) PROVE IInv'
<1>1. /\ threads[w].is = "reading"
      /\ DOMAIN turn' = DOMAIN turn /\ turn'.is = turn.is
  BY LouderFacts DEF ReadLine
<1>2. ASSUME NEW e \in CutResults(w), EndThread(w, e), attempt' = attempt
      PROVE  IInv'
  <2>1. threads[w].emitted # "nothing" => e \notin FailoverErrors
    BY DEF CutResults, FailoverErrors
  <2> QED
    BY <1>1, <1>2, <2>1, EndThreadKeeps
<1>3. ASSUME NEW e \in EndResults(w) \cup {"cancelled"}, EndThread(w, e), attempt' = attempt
      PROVE  IInv'
  <2>1. e \notin FailoverErrors
    BY DEF EndResults, FailoverErrors
  <2> QED
    BY <1>1, <1>3, <2>1, EndThreadKeeps
<1>4. CASE Emits(w)
  BY <1>1, <1>4, EmitsKeepsIInv
<1> QED
  BY <1>2, <1>3, <1>4 DEF ReadLine

-----------------------------------------------------------------------------
(* The invariant and the theorem *)

LEMMA NextKeepsIInv == IInv /\ [Next]_vars => IInv'
<1> SUFFICES ASSUME IInv, [Next]_vars PROVE IInv'
  OBVIOUS
<1>1. CASE Prompt
  <2>1. /\ DOMAIN turn' = DOMAIN turn /\ turn'.is = "asking"
        /\ UNCHANGED <<attempt, threads>>
    BY <1>1 DEF Prompt, IInv, VoicesInv
  <2> QED
    BY <2>1, QuietKeepsIInv
<1>2. CASE Cancel \/ Tick \/ UNCHANGED vars
  BY <1>2 DEF Cancel, Tick, vars, IInv, ThreadsInv, VoicesInv, Heard
<1> QED
  BY <1>1, <1>2, HostKeepsIInv, RespondKeepsIInv, RefuseEffortKeepsIInv, ReadLineKeepsIInv
  DEF Next

LEMMA Invariance == Spec => []IInv
BY InitIInv, NextKeepsIInv, PTL DEF Spec

\* One call of the failover chain shows the output of one link at most: a
\* stream that broke after a sink had shown some of it is not tried with the
\* next provider (failover.rs, try_with_failover; openai.rs, read_line()).
THEOREM OneVoiceHolds == Spec => []OneVoice
<1>1. IInv => OneVoice
  <2> SUFFICES ASSUME IInv PROVE OneVoice
    OBVIOUS
  <2>1. PICK link : attempt.voices \subseteq {link}
    BY DEF IInv, VoicesInv
  <2>2. attempt.voices = {} \/ attempt.voices = {link}
    BY <2>1
  <2>3. CASE attempt.voices = {}
    BY <2>3, FS_EmptySet DEF OneVoice
  <2>4. CASE attempt.voices = {link}
    <3>1. Cardinality({link}) = 1
      BY FS_Singleton
    <3> QED
      BY <2>4, <3>1 DEF OneVoice
  <2> QED
    BY <2>2, <2>3, <2>4
<1> QED
  BY <1>1, Invariance, PTL

-----------------------------------------------------------------------------
(* The front of serve *)

Locations ==
  {"reading", "body", "checking", "judging", "routing", "looking", "waiting", "turn",
   "auditing", "opening", "calling", "closed"}

Connection ==
  [at : Locations, peer : Peers \cup {Free}, left : Int,
   route : Front!Routes \cup {"none"}, session : Sessions \cup {Free}]

Opened == {c \in DOMAIN sockets : sockets[c].at # "closed"}
Judging(p) == {c \in DOMAIN sockets : sockets[c].at = "judging" /\ sockets[c].peer = p}

\* The counter is the number of the connections that are open.
SocketsInv ==
  /\ sockets \in Seq(Connection)
  /\ IsFiniteSet(Opened)
  /\ counter = Cardinality(Opened)
  /\ counter <= MaxConnections

Guesses == MaxFailures + MaxConnections - 1

\* In a window that counts, each connection of an address that is being
\* judged has one more failure to spare; a window that is over starts anew.
GuessesInv ==
  /\ limiter \in [Peers -> [age : Nat, count : Nat]]
  /\ \A p \in Peers :
       /\ limiter[p].count <= Guesses
       /\ limiter[p].age <= Window => limiter[p].count + Cardinality(Judging(p)) <= Guesses

FrontInv == SocketsInv /\ GuessesInv

LEMMA SocketFacts ==
  ASSUME sockets \in Seq(Connection)
  PROVE  /\ DOMAIN sockets = 1 .. Len(sockets)
         /\ Len(sockets) \in Nat
         /\ \A c \in DOMAIN sockets : sockets[c] \in Connection
BY LenProperties, ElementOfSeq

LEMMA JudgingFinite ==
  ASSUME SocketsInv, NEW p
  PROVE  /\ Judging(p) \subseteq Opened
         /\ IsFiniteSet(Judging(p))
         /\ Cardinality(Judging(p)) \in Nat
         /\ Cardinality(Judging(p)) <= MaxConnections
<1>1. Judging(p) \subseteq Opened
  BY DEF Judging, Opened
<1>2. /\ IsFiniteSet(Judging(p)) /\ Cardinality(Judging(p)) <= Cardinality(Opened)
      /\ Cardinality(Judging(p)) \in Nat /\ Cardinality(Opened) \in Nat
  BY <1>1, FS_Subset, FS_CardinalityType DEF SocketsInv
<1> HIDE DEF Judging, Opened
<1>3. Cardinality(Opened) <= MaxConnections
  BY DEF SocketsInv
<1> QED
  BY <1>1, <1>2, <1>3, FrontIsSized

LEMMA InitFront == Front!Init => FrontInv
<1> SUFFICES ASSUME Front!Init PROVE FrontInv
  OBVIOUS
<1>1. sockets = <<>> /\ counter = 0 /\ DOMAIN sockets = {}
  BY DEF Front!Init
<1>2. Opened = {} /\ \A p : Judging(p) = {}
  BY <1>1 DEF Opened, Judging
<1>3. Cardinality({}) = 0 /\ IsFiniteSet({})
  BY FS_EmptySet
<1>4. SocketsInv
  BY <1>1, <1>2, <1>3, FrontIsSized DEF SocketsInv
<1>5. /\ limiter = [p \in Peers |-> Front!NoFailures]
      /\ Front!NoFailures \in [age : Nat, count : Nat]
      /\ Front!NoFailures.age > Window /\ Front!NoFailures.count = 0
  BY FrontIsSized DEF Front!Init, Front!NoFailures
<1>6. GuessesInv
  BY <1>5, <1>2, <1>3, FrontIsSized DEF GuessesInv, Guesses
<1> QED
  BY <1>4, <1>6 DEF FrontInv

\* A connection goes on.
LEMMA OneGoesOn ==
  ASSUME SocketsInv, NEW c \in Opened, NEW r \in Connection,
         r.at # "closed",
         sockets' = [sockets EXCEPT ![c] = r], counter' = counter
  PROVE  /\ SocketsInv'
         /\ \A p : r.at # "judging" => Judging(p)' \subseteq Judging(p) \ {c}
         /\ \A p : p # r.peer => Judging(p)' \subseteq Judging(p)
<1>1. c \in DOMAIN sockets
  BY DEF Opened
<1>2. sockets' \in Seq(Connection) /\ DOMAIN sockets' = DOMAIN sockets
      /\ sockets'[c] = r /\ \A d \in DOMAIN sockets \ {c} : sockets'[d] = sockets[d]
  BY <1>1, ExceptSeq DEF SocketsInv
<1>3. Opened' = Opened
  BY <1>1, <1>2 DEF Opened
<1>5. SocketsInv'
  BY <1>2, <1>3 DEF SocketsInv
<1>6. \A p : r.at # "judging" => Judging(p)' \subseteq Judging(p) \ {c}
  BY <1>2, <1>1 DEF Judging
<1>7. \A p : p # r.peer => Judging(p)' \subseteq Judging(p)
  BY <1>2, <1>1 DEF Judging
<1> QED
  BY <1>5, <1>6, <1>7

LEMMA ClosedFacts ==
  /\ Front!Closed \in Connection
  /\ Front!Closed.at = "closed"
<1> DEFINE a == Front!Accepted(Free)
           b == [a EXCEPT !.at = "closed"]
           z == 0
<1>1. a \in Connection
  BY FrontIsSized DEF Front!Accepted, Connection, Locations
<1>2. Front!Closed = [b EXCEPT !.left = z]
  BY DEF Front!Closed
<1>3. z \in Int
  OBVIOUS
<1> HIDE DEF a, z
<1>4. b \in Connection /\ b.at = "closed"
  BY <1>1 DEF Connection, Locations
<1> HIDE DEF b
<1> QED
  BY <1>2, <1>3, <1>4 DEF Connection

LEMMA AcceptedFacts ==
  ASSUME NEW p \in Peers \cup {Free}
  PROVE  /\ Front!Accepted(p) \in Connection
         /\ Front!Accepted(p).at = "reading"
         /\ Front!Accepted(p).peer = p
BY FrontIsSized DEF Front!Accepted, Connection, Locations

\* A connection is closed and its slot comes back.
LEMMA OneCloses ==
  ASSUME SocketsInv, NEW c \in Opened, Front!Closes(c)
  PROVE  SocketsInv' /\ \A p : Judging(p)' \subseteq Judging(p) \ {c}
<1>1. c \in DOMAIN sockets
  BY DEF Opened
<1>2. sockets' \in Seq(Connection) /\ DOMAIN sockets' = DOMAIN sockets
      /\ sockets'[c].at = "closed" /\ \A d \in DOMAIN sockets \ {c} : sockets'[d] = sockets[d]
  BY <1>1, ClosedFacts, ExceptSeq DEF SocketsInv, Front!Closes
<1>3. Opened' = Opened \ {c}
  BY <1>1, <1>2 DEF Opened
<1>5. /\ IsFiniteSet(Opened \ {c}) /\ Cardinality(Opened \ {c}) = Cardinality(Opened) - 1
      /\ Cardinality(Opened) \in Nat
  BY FS_RemoveElement, FS_CardinalityType DEF SocketsInv
<1>6. counter' = counter - 1
  BY DEF Front!Closes
<1>7. SocketsInv'
  <2> HIDE DEF Opened
  <2>1. counter' = Cardinality(Opened')
    BY <1>3, <1>5, <1>6 DEF SocketsInv
  <2>2. counter' <= MaxConnections
    BY <1>5, <1>6, FrontIsSized DEF SocketsInv
  <2> QED
    BY <2>1, <2>2, <1>2, <1>3, <1>5 DEF SocketsInv
<1>8. \A p : Judging(p)' \subseteq Judging(p) \ {c}
  BY <1>1, <1>2 DEF Judging
<1> QED
  BY <1>7, <1>8

\* An answer closes the connection or waits for the next request of it.
LEMMA OneIsAnswered ==
  ASSUME SocketsInv, NEW c \in Opened, Front!Answers(c)
  PROVE  SocketsInv' /\ \A p : Judging(p)' \subseteq Judging(p) \ {c}
<1>1. CASE face = "rest"
  BY <1>1, OneCloses DEF Front!Answers
<1>2. CASE face # "rest"
  <2>1. sockets[c].peer \in Peers \cup {Free}
    BY SocketFacts DEF SocketsInv, Opened, Connection
  <2>2. /\ sockets' = [sockets EXCEPT ![c] = Front!Accepted(sockets[c].peer)]
        /\ counter' = counter
    BY <1>2 DEF Front!Answers
  <2> QED
    BY <2>1, <2>2, AcceptedFacts, OneGoesOn
<1> QED
  BY <1>1, <1>2

\* No more connections are judged than before.
LEMMA GuessesFrame ==
  ASSUME FrontInv, SocketsInv', limiter' = limiter,
         \A p \in Peers : Judging(p)' \subseteq Judging(p)
  PROVE  GuessesInv'
<1> SUFFICES ASSUME NEW p \in Peers, limiter[p].age <= Window
             PROVE  limiter[p].count + Cardinality(Judging(p)') <= Guesses
  BY DEF GuessesInv, FrontInv, Guesses
<1>1. limiter[p].count \in Nat /\ Guesses \in Nat
  BY FrontIsSized DEF FrontInv, GuessesInv, Guesses
<1>2. limiter[p].count + Cardinality(Judging(p)) <= Guesses
  BY DEF FrontInv, GuessesInv
<1>3. /\ Cardinality(Judging(p)') <= Cardinality(Judging(p))
      /\ Cardinality(Judging(p)') \in Nat /\ Cardinality(Judging(p)) \in Nat
  BY JudgingFinite, FS_Subset, FS_CardinalityType DEF FrontInv
<1> HIDE DEF Judging, Guesses
<1> QED
  BY <1>1, <1>2, <1>3

\* A step of a connection's handler that records no failure and lets no
\* connection pass the check.
LEMMA QuietStep ==
  ASSUME FrontInv, limiter' = limiter, NEW c \in Opened,
         \/ Front!Closes(c)
         \/ Front!Answers(c)
         \/ \E r \in Connection :
              /\ r.at \notin {"closed", "judging"}
              /\ r.peer = sockets[c].peer
              /\ sockets' = [sockets EXCEPT ![c] = r]
              /\ counter' = counter
  PROVE  FrontInv'
<1>1. SocketsInv
  BY DEF FrontInv
<1>2. SocketsInv' /\ \A p : Judging(p)' \subseteq Judging(p) \ {c}
  <2>1. CASE Front!Closes(c)
    BY <1>1, <2>1, OneCloses
  <2>2. CASE Front!Answers(c)
    BY <1>1, <2>2, OneIsAnswered
  <2>3. CASE \E r \in Connection :
              /\ r.at \notin {"closed", "judging"}
              /\ r.peer = sockets[c].peer
              /\ sockets' = [sockets EXCEPT ![c] = r]
              /\ counter' = counter
    BY <1>1, <2>3, OneGoesOn
  <2> QED
    BY <2>1, <2>2, <2>3
<1>3. \A p : Judging(p)' \subseteq Judging(p)
  BY <1>2
<1> QED
  BY <1>2, <1>3, GuessesFrame DEF FrontInv

\* A connection that only changes where it is.
LEMMA Elsewhere ==
  ASSUME FrontInv, NEW c \in DOMAIN sockets, NEW location \in Locations \ {"closed"},
         sockets[c].at # "closed", Front!Goes(c, location)
  PROVE  /\ c \in Opened
         /\ \E r \in Connection :
              /\ r.at = location
              /\ r.peer = sockets[c].peer
              /\ sockets' = [sockets EXCEPT ![c] = r]
<1>1. sockets[c] \in Connection
  BY SocketFacts DEF FrontInv, SocketsInv
<1> DEFINE r == [sockets[c] EXCEPT !.at = location]
<1>2. r \in Connection /\ r.at = location /\ r.peer = sockets[c].peer
  BY <1>1 DEF Connection
<1>3. sockets' = [sockets EXCEPT ![c] = r]
  BY DEF Front!Goes
<1>4. c \in Opened
  BY DEF Opened
<1> QED
  BY <1>2, <1>3, <1>4

\* The check is passed by an address that has a failure to spare, or none
\* that counts.
LEMMA CheckKeepsFront ==
  ASSUME FrontInv, NEW c \in DOMAIN sockets, Front!Check(c)
  PROVE  FrontInv'
<1>1. sockets[c].at = "checking" /\ limiter' = limiter
  BY DEF Front!Check, Front!Is
<1>2. c \in Opened
  BY <1>1 DEF Opened
<1>3. CASE Front!Answers(c)
  BY <1>1, <1>2, <1>3, QuietStep
<1>4. CASE ~Front!IsLimited(sockets[c].peer) /\ Front!Goes(c, "judging") /\ counter' = counter
  <2>1. Front!Goes(c, "judging") /\ counter' = counter
    BY <1>4
  <2>2. PICK r \in Connection : /\ r.at = "judging"
                                /\ r.peer = sockets[c].peer
                                /\ sockets' = [sockets EXCEPT ![c] = r]
    BY <1>1, <2>1, Elsewhere DEF Locations
  <2>3. SocketsInv' /\ \A p : p # sockets[c].peer => Judging(p)' \subseteq Judging(p)
    BY <1>2, <2>1, <2>2, OneGoesOn DEF FrontInv
  <2>4. ASSUME NEW p \in Peers, limiter[p].age <= Window
        PROVE  limiter[p].count + Cardinality(Judging(p)') <= Guesses
    <3>1. limiter[p].count \in Nat /\ limiter[p].count + Cardinality(Judging(p)) <= Guesses
      BY <2>4 DEF FrontInv, GuessesInv
    <3>2. CASE p = sockets[c].peer
      <4>1. limiter[p].count < MaxFailures
        BY <1>4, <2>4, <3>1, <3>2, FrontIsSized DEF Front!IsLimited
      <4>2. Cardinality(Judging(p)') <= MaxConnections /\ Cardinality(Judging(p)') \in Nat
        <5>1. Judging(p)' \subseteq Opened'
          BY DEF Judging, Opened
        <5>2. /\ IsFiniteSet(Opened') /\ Cardinality(Opened') <= MaxConnections
              /\ Cardinality(Opened') \in Nat
          BY <2>3, FS_CardinalityType DEF SocketsInv
        <5>3. /\ Cardinality(Judging(p)') <= Cardinality(Opened')
              /\ Cardinality(Judging(p)') \in Nat
          BY <5>1, <5>2, FS_Subset, FS_CardinalityType
        <5> HIDE DEF Judging, Opened
        <5> QED
          BY <5>2, <5>3, FrontIsSized
      <4> HIDE DEF Judging
      <4> QED
        BY <3>1, <4>1, <4>2, FrontIsSized DEF Guesses
    <3>3. CASE p # sockets[c].peer
      <4>1. Judging(p)' \subseteq Judging(p)
        BY <2>3, <3>3
      <4>2. /\ Cardinality(Judging(p)') <= Cardinality(Judging(p))
            /\ Cardinality(Judging(p)') \in Nat /\ Cardinality(Judging(p)) \in Nat
        BY <4>1, JudgingFinite, FS_Subset, FS_CardinalityType DEF FrontInv
      <4> HIDE DEF Judging
      <4> QED
        BY <3>1, <4>2, FrontIsSized DEF Guesses
    <3> QED
      BY <3>2, <3>3
  <2>5. GuessesInv'
    BY <1>1, <2>4 DEF FrontInv, GuessesInv, Guesses
  <2> QED
    BY <2>3, <2>5 DEF FrontInv
<1>5. CASE Front!Unnamed(c) /\ counter' = counter
  <2> DEFINE r1 == [sockets[c] EXCEPT !.at = "judging"]
             r2 == [r1 EXCEPT !.peer = Free]
             s1 == [sockets EXCEPT ![c].at = "judging"]
             s2 == [s1 EXCEPT ![c].peer = Free]
  <2>1. sockets[c] \in Connection
    BY <1>2, SocketFacts DEF FrontInv, SocketsInv, Opened
  <2>2. sockets' = s2
    BY <1>5 DEF Front!Unnamed
  <2>3. s1 = [sockets EXCEPT ![c] = r1]
    OBVIOUS
  <2> HIDE DEF s1
  <2>4. s2 = [sockets EXCEPT ![c] = r2]
    BY <2>3, Zenon
  <2> HIDE DEF s2
  <2>5. r1 \in Connection /\ r1.at = "judging"
    BY <2>1 DEF Connection, Locations
  <2> HIDE DEF r1
  <2>6. r2 \in Connection /\ r2.at = "judging" /\ r2.peer = Free
    BY <2>5 DEF Connection
  <2> HIDE DEF r2
  <2>7. SocketsInv' /\ \A p : p # Free => Judging(p)' \subseteq Judging(p)
    BY <1>2, <1>5, <2>2, <2>4, <2>6, OneGoesOn DEF FrontInv
  <2>8. \A p \in Peers : Judging(p)' \subseteq Judging(p)
    BY <2>7, NobodyIsNoConnection
  <2> QED
    BY <1>1, <2>7, <2>8, GuessesFrame DEF FrontInv
<1> QED
  BY <1>3, <1>4, <1>5 DEF Front!Check

\* A failure is recorded, and its connection is judged no more.
LEMMA RejectKeepsFront ==
  ASSUME FrontInv, NEW c \in DOMAIN sockets, Front!Reject(c)
  PROVE  FrontInv'
<1> DEFINE q == sockets[c].peer
<1>1. /\ sockets[c].at = "judging"
      /\ limiter' = [p \in Peers |-> IF p = q THEN Front!Recorded(limiter[p]) ELSE limiter[p]]
      /\ Front!Answers(c)
  BY DEF Front!Reject, Front!Is
<1>2. c \in Opened /\ c \in Judging(q)
  BY <1>1 DEF Opened, Judging
<1>3. SocketsInv' /\ \A p : Judging(p)' \subseteq Judging(p) \ {c}
  BY <1>1, <1>2, OneIsAnswered DEF FrontInv
<1>4. limiter \in [Peers -> [age : Nat, count : Nat]]
  BY DEF FrontInv, GuessesInv
<1>5. \A p \in Peers :
        /\ Front!Recorded(limiter[p]) \in [age : Nat, count : Nat]
        /\ limiter[p].age > Window => Front!Recorded(limiter[p]).count = 1
        /\ limiter[p].age <= Window => Front!Recorded(limiter[p]).count = limiter[p].count + 1
  BY <1>4, FrontIsSized DEF Front!Recorded
<1>6. /\ limiter' \in [Peers -> [age : Nat, count : Nat]]
      /\ \A p \in Peers : limiter'[p] = IF p = q THEN Front!Recorded(limiter[p]) ELSE limiter[p]
  BY <1>1, <1>4, <1>5
<1>7. ASSUME NEW p \in Peers
      PROVE  /\ Cardinality(Judging(p)') <= Cardinality(Judging(p) \ {c})
             /\ Cardinality(Judging(p)') \in Nat
             /\ Cardinality(Judging(p) \ {c}) \in Nat
             /\ Cardinality(Judging(p)) \in Nat
             /\ Cardinality(Judging(p)) <= MaxConnections
             /\ Cardinality(Judging(p) \ {c}) <= Cardinality(Judging(p))
             /\ p = q => Cardinality(Judging(p) \ {c}) = Cardinality(Judging(p)) - 1
  <2>1. /\ IsFiniteSet(Judging(p)) /\ Cardinality(Judging(p)) \in Nat
        /\ Cardinality(Judging(p)) <= MaxConnections
    BY JudgingFinite DEF FrontInv
  <2>2. /\ IsFiniteSet(Judging(p) \ {c}) /\ Cardinality(Judging(p) \ {c}) \in Nat
        /\ Cardinality(Judging(p) \ {c}) <= Cardinality(Judging(p))
    BY <2>1, FS_Subset, FS_CardinalityType
  <2>3. /\ Cardinality(Judging(p)') <= Cardinality(Judging(p) \ {c})
        /\ Cardinality(Judging(p)') \in Nat
    BY <1>3, <2>2, FS_Subset, FS_CardinalityType
  <2>4. p = q => Cardinality(Judging(p) \ {c}) = Cardinality(Judging(p)) - 1
    BY <1>2, <2>1, FS_RemoveElement
  <2> QED
    BY <2>1, <2>2, <2>3, <2>4
<1>8. ASSUME NEW p \in Peers
      PROVE  /\ limiter'[p].count <= Guesses
             /\ limiter'[p].age <= Window =>
                  limiter'[p].count + Cardinality(Judging(p)') <= Guesses
  <2> DEFINE old == Cardinality(Judging(p))
             less == Cardinality(Judging(p) \ {c})
             new == Cardinality(Judging(p)')
  <2>1. /\ new <= less /\ less <= old /\ old <= MaxConnections
        /\ new \in Nat /\ less \in Nat /\ old \in Nat
        /\ p = q => less = old - 1
    BY <1>7
  <2>2. /\ limiter[p].count <= Guesses
        /\ limiter[p].age <= Window => limiter[p].count + old <= Guesses
        /\ limiter[p].count \in Nat /\ limiter[p].age \in Nat
        /\ limiter'[p].count \in Nat
    BY <1>4, <1>6 DEF FrontInv, GuessesInv
  <2> HIDE DEF old, less, new
  <2>3. CASE p = q /\ limiter[p].age <= Window
    <3>1. limiter'[p].count = limiter[p].count + 1
      BY <1>5, <1>6, <2>3
    <3> QED
      BY <2>1, <2>2, <2>3, <3>1, FrontIsSized DEF Guesses, new
  <2>4. CASE p = q /\ limiter[p].age > Window
    <3>1. limiter'[p].count = 1
      BY <1>5, <1>6, <2>4
    <3> QED
      BY <2>1, <2>4, <3>1, FrontIsSized DEF Guesses, new
  <2>5. CASE p # q
    <3>1. limiter'[p] = limiter[p]
      BY <1>6, <2>5
    <3> QED
      BY <2>1, <2>2, <3>1, FrontIsSized DEF Guesses, new
  <2> QED
    BY <2>2, <2>3, <2>4, <2>5, FrontIsSized
<1>9. GuessesInv'
  BY <1>6, <1>8 DEF GuessesInv, Guesses
<1> QED
  BY <1>3, <1>9 DEF FrontInv

\* A connection is accepted.
LEMMA AcceptKeepsFront ==
  ASSUME FrontInv, NEW p \in Peers, Front!Accept(p)
  PROVE  FrontInv'
<1> DEFINE n == Len(sockets) + 1
<1>1. /\ sockets \in Seq(Connection) /\ DOMAIN sockets = 1 .. Len(sockets) /\ Len(sockets) \in Nat
  BY SocketFacts DEF FrontInv, SocketsInv
<1>2. /\ sockets' = Append(sockets, Front!Accepted(p)) /\ counter' = counter + 1
      /\ counter < MaxConnections /\ limiter' = limiter
  BY DEF Front!Accept
<1>3. /\ sockets' \in Seq(Connection)
      /\ DOMAIN sockets' = 1 .. n
      /\ sockets'[n] = Front!Accepted(p)
      /\ \A c \in DOMAIN sockets : sockets'[c] = sockets[c]
  BY <1>1, <1>2, AcceptedFacts, AppendProperties
<1>4. n \notin DOMAIN sockets /\ DOMAIN sockets' = DOMAIN sockets \cup {n}
  BY <1>1, <1>3
<1>5. Opened' = Opened \cup {n} /\ n \notin Opened
  BY <1>3, <1>4, AcceptedFacts DEF Opened
<1>6. /\ IsFiniteSet(Opened \cup {n}) /\ Cardinality(Opened \cup {n}) = Cardinality(Opened) + 1
      /\ Cardinality(Opened) \in Nat
  BY <1>5, FS_AddElement, FS_CardinalityType DEF FrontInv, SocketsInv
<1>8. SocketsInv'
  <2> HIDE DEF Opened
  <2>1. counter' = Cardinality(Opened')
    BY <1>2, <1>5, <1>6 DEF FrontInv, SocketsInv
  <2>2. counter' <= MaxConnections
    BY <1>2, <1>6, FrontIsSized DEF FrontInv, SocketsInv
  <2> QED
    BY <2>1, <2>2, <1>3, <1>5, <1>6 DEF SocketsInv
<1>9. \A q : Judging(q)' \subseteq Judging(q)
  BY <1>3, <1>4, AcceptedFacts DEF Judging
<1> QED
  BY <1>2, <1>8, <1>9, GuessesFrame DEF FrontInv

\* Time passes: nobody comes or goes, and a failure only grows old.
LEMMA TickKeepsFront ==
  ASSUME FrontInv, Front!Tick
  PROVE  FrontInv'
<1>1. /\ DOMAIN sockets' = DOMAIN sockets
      /\ \A c \in DOMAIN sockets :
           sockets'[c] = IF Front!Reads(c) /\ sockets[c].left > 0
                         THEN [sockets[c] EXCEPT !.left = @ - 1]
                         ELSE sockets[c]
      /\ limiter' = [p \in Peers |-> Front!Aged(limiter[p])]
      /\ counter' = counter
  BY DEF Front!Tick
<1>2. /\ DOMAIN sockets = 1 .. Len(sockets) /\ Len(sockets) \in Nat
      /\ \A c \in DOMAIN sockets : sockets[c] \in Connection
  BY SocketFacts DEF FrontInv, SocketsInv
<1>3. \A c \in DOMAIN sockets :
        /\ sockets'[c] \in Connection
        /\ sockets'[c].at = sockets[c].at
        /\ sockets'[c].peer = sockets[c].peer
  BY <1>1, <1>2 DEF Connection
<1>4. sockets' \in Seq(Connection)
  <2>1. sockets' = [c \in 1 .. Len(sockets) |-> sockets'[c]]
    BY <1>1, <1>2 DEF Front!Tick
  <2> QED
    BY <1>2, <1>3, <2>1, SeqDef
<1>5. Opened' = Opened /\ \A p : Judging(p)' = Judging(p)
  BY <1>1, <1>3 DEF Opened, Judging
<1>6. SocketsInv'
  BY <1>1, <1>3, <1>4, <1>5 DEF FrontInv, SocketsInv, Opened
<1>7. ASSUME NEW p \in Peers
      PROVE  /\ limiter'[p] \in [age : Nat, count : Nat]
             /\ limiter'[p].count = limiter[p].count
             /\ limiter'[p].age <= Window => limiter[p].age <= Window
  <2>1. limiter[p] \in [age : Nat, count : Nat] /\ limiter'[p] = Front!Aged(limiter[p])
    BY <1>1 DEF FrontInv, GuessesInv
  <2> QED
    BY <2>1, FrontIsSized DEF Front!Aged
<1>8. limiter' \in [Peers -> [age : Nat, count : Nat]]
  BY <1>1, <1>7
<1>9. GuessesInv'
  BY <1>5, <1>7, <1>8 DEF FrontInv, GuessesInv, Guesses
<1> QED
  BY <1>6, <1>9 DEF FrontInv

\* The steps of the clients.
LEMMA ClientKeepsFront ==
  ASSUME FrontInv, NEW c \in DOMAIN sockets,
         \/ Front!Trickle(c) \/ Front!ReadRequest(c) \/ Front!Refuse(c)
         \/ Front!GiveUp(c) \/ Front!ReadBody(c)
  PROVE  FrontInv'
<1>1. sockets[c].at \in {"reading", "body"} /\ limiter' = limiter
  BY DEF Front!Trickle, Front!ReadRequest, Front!Refuse, Front!GiveUp, Front!ReadBody,
         Front!Reads, Front!Is
<1>2. c \in Opened /\ sockets[c] \in Connection
  BY <1>1, SocketFacts DEF Opened, FrontInv, SocketsInv
<1>3. CASE Front!Trickle(c)
  <2> DEFINE r == [sockets[c] EXCEPT !.left = Front!Rearmed(@)]
  <2>1. r \in Connection /\ r.at = sockets[c].at /\ r.peer = sockets[c].peer
    BY <1>2 DEF Connection, Front!Rearmed
  <2>2. sockets' = [sockets EXCEPT ![c] = r] /\ counter' = counter
    BY <1>3 DEF Front!Trickle
  <2> HIDE DEF r
  <2> QED
    BY <1>1, <1>2, <2>1, <2>2, QuietStep
<1>4. CASE Front!ReadRequest(c)
  <2>1. Front!Goes(c, "checking") /\ counter' = counter
    BY <1>4 DEF Front!ReadRequest
  <2> QED
    BY <1>1, <1>2, <2>1, Elsewhere, QuietStep DEF Locations
<1>5. CASE Front!ReadBody(c)
  <2>1. Front!Goes(c, "calling") /\ counter' = counter
    BY <1>5 DEF Front!ReadBody
  <2> QED
    BY <1>1, <1>2, <2>1, Elsewhere, QuietStep DEF Locations
<1>6. CASE Front!Refuse(c) \/ Front!GiveUp(c)
  <2>1. Front!Answers(c) \/ Front!Closes(c)
    BY <1>6 DEF Front!Refuse, Front!GiveUp
  <2> QED
    BY <1>1, <1>2, <2>1, QuietStep
<1> QED
  BY <1>3, <1>4, <1>5, <1>6

\* The token is right: the connection is routed, or its body is read.
LEMMA AdmitKeepsFront ==
  ASSUME FrontInv, NEW c \in DOMAIN sockets, Front!Admit(c)
  PROVE  FrontInv'
<1>1. sockets[c].at = "judging" /\ limiter' = limiter /\ counter' = counter
  BY DEF Front!Admit, Front!Is
<1>2. c \in Opened /\ sockets[c] \in Connection
  BY <1>1, SocketFacts DEF Opened, FrontInv, SocketsInv
<1>3. ASSUME NEW at \in {"routing", "body"}
      PROVE  LET r == [sockets[c] EXCEPT !.at = at, !.left = Deadline] IN
             r \in Connection /\ r.at = at /\ r.peer = sockets[c].peer
  <2> DEFINE r1 == [sockets[c] EXCEPT !.at = at]
             r2 == [r1 EXCEPT !.left = Deadline]
  <2>1. r1 \in Connection /\ r1.at = at /\ r1.peer = sockets[c].peer
    BY <1>2 DEF Connection, Locations
  <2> HIDE DEF r1
  <2>2. r2 \in Connection /\ r2.at = at /\ r2.peer = sockets[c].peer
    BY <2>1, FrontIsSized DEF Connection
  <2> QED
    BY <2>2 DEF r1
<1>4. CASE face = "mcp" /\ sockets' = [sockets EXCEPT ![c].at = "body", ![c].left = Deadline]
  <2> DEFINE r == [sockets[c] EXCEPT !.at = "body", !.left = Deadline]
  <2>1. r \in Connection /\ r.at = "body" /\ r.peer = sockets[c].peer
    BY <1>3
  <2>2. sockets' = [sockets EXCEPT ![c] = r]
    BY <1>4
  <2> HIDE DEF r
  <2> QED
    BY <1>1, <1>2, <2>1, <2>2, QuietStep
<1>5. ASSUME NEW route \in Front!Routes, NEW s \in Sessions,
             sockets' = [sockets EXCEPT ![c].at = "routing", ![c].left = Deadline,
                                       ![c].route = route, ![c].session = s]
      PROVE  FrontInv'
  <2> DEFINE r2 == [sockets[c] EXCEPT !.at = "routing", !.left = Deadline]
             r3 == [r2 EXCEPT !.route = route]
             r4 == [r3 EXCEPT !.session = s]
             s2 == [sockets EXCEPT ![c].at = "routing", ![c].left = Deadline]
             s3 == [s2 EXCEPT ![c].route = route]
             s4 == [s3 EXCEPT ![c].session = s]
  <2>1. sockets' = s4
    BY <1>5
  <2>2. s2 = [sockets EXCEPT ![c] = r2]
    OBVIOUS
  <2>3. r2 \in Connection /\ r2.at = "routing" /\ r2.peer = sockets[c].peer
    BY <1>3
  <2> HIDE DEF s2, r2
  <2>4. s3 = [sockets EXCEPT ![c] = r3]
    BY <2>2, Zenon
  <2>5. r3 \in Connection /\ r3.at = "routing" /\ r3.peer = sockets[c].peer
    BY <2>3 DEF Connection
  <2> HIDE DEF s3, r3
  <2>6. s4 = [sockets EXCEPT ![c] = r4]
    BY <2>4, Zenon
  <2>7. r4 \in Connection /\ r4.at = "routing" /\ r4.peer = sockets[c].peer
    BY <2>5 DEF Connection
  <2> HIDE DEF s4, r4
  <2> QED
    BY <1>1, <1>2, <2>1, <2>6, <2>7, QuietStep
<1> QED
  BY <1>4, <1>5 DEF Front!Admit

\* A call of a tool is over, or its client is gone.
LEMMA CallKeepsFront ==
  ASSUME FrontInv, NEW c \in DOMAIN sockets, Front!EndCall(c) \/ Front!HangUp(c)
  PROVE  FrontInv'
<1>1. sockets[c].at = "calling" /\ limiter' = limiter
  BY DEF Front!EndCall, Front!HangUp, Front!Is
<1>2. Front!Answers(c) \/ Front!Closes(c)
  BY DEF Front!EndCall, Front!HangUp
<1>3. c \in Opened
  BY <1>1 DEF Opened
<1> QED
  BY <1>1, <1>2, <1>3, QuietStep

\* The routes: each answers, or goes on at another place.
LEMMA RouteKeepsFront ==
  ASSUME FrontInv, NEW c \in DOMAIN sockets,
         \/ Front!Control(c) \/ Front!Look(c) \/ Front!Tell(c) \/ Front!Prompt(c)
         \/ Front!Audit(c) \/ Front!StartTurn(c) \/ Front!CommitAudit(c) \/ Front!Create(c)
         \/ Front!Join(c) \/ Front!JoinsNot(c) \/ Front!EndTurn(c)
  PROVE  FrontInv'
<1>1. /\ sockets[c].at # "closed" /\ limiter' = limiter
  BY DEF Front!Control, Front!Look, Front!Tell, Front!Prompt, Front!Audit, Front!StartTurn,
         Front!CommitAudit, Front!Create, Front!Join, Front!JoinsNot, Front!EndTurn,
         Front!RoutesTo, Front!Is
<1>2. c \in Opened
  BY <1>1 DEF Opened
<1>3. \/ Front!Answers(c)
      \/ Front!Closes(c)
      \/ /\ \E location \in {"looking", "waiting", "auditing", "turn", "opening"} :
              Front!Goes(c, location)
         /\ counter' = counter
  BY DEF Front!Control, Front!Look, Front!Tell, Front!Prompt, Front!Audit, Front!StartTurn,
         Front!CommitAudit, Front!Create, Front!Join, Front!JoinsNot, Front!EndTurn
<1>4. CASE /\ \E location \in {"looking", "waiting", "auditing", "turn", "opening"} :
                Front!Goes(c, location)
           /\ counter' = counter
  <2>1. PICK location \in {"looking", "waiting", "auditing", "turn", "opening"} :
          Front!Goes(c, location)
    BY <1>4
  <2>2. location \in Locations \ {"closed"} /\ location # "judging"
    BY DEF Locations
  <2>3. PICK r \in Connection : /\ r.at = location
                                /\ r.peer = sockets[c].peer
                                /\ sockets' = [sockets EXCEPT ![c] = r]
    BY <1>1, <2>1, <2>2, Elsewhere
  <2> QED
    BY <1>1, <1>2, <1>4, <2>2, <2>3, QuietStep
<1> QED
  BY <1>1, <1>2, <1>3, <1>4, QuietStep

LEMMA NextKeepsFront ==
  ASSUME FrontInv, [Front!Next]_(Front!vars)
  PROVE  FrontInv'
<1>1. CASE UNCHANGED Front!vars
  <2>1. UNCHANGED <<sockets, counter, limiter>>
    BY <1>1 DEF Front!vars, Front!frontVars
  <2> QED
    BY <2>1 DEF FrontInv, SocketsInv, GuessesInv, Opened, Judging, Guesses
<1>2. ASSUME NEW p \in Peers, Front!Accept(p) PROVE FrontInv'
  BY <1>2, AcceptKeepsFront
<1>3. ASSUME NEW c \in DOMAIN sockets, Front!Serves(c) PROVE FrontInv'
  BY <1>3, CheckKeepsFront, RejectKeepsFront, AdmitKeepsFront, RouteKeepsFront DEF Front!Serves
<1>4. ASSUME NEW c \in DOMAIN sockets, Front!EndTurn(c) PROVE FrontInv'
  BY <1>4, RouteKeepsFront
<1>5. ASSUME NEW c \in DOMAIN sockets,
             \/ Front!Trickle(c) \/ Front!ReadRequest(c) \/ Front!Refuse(c)
             \/ Front!GiveUp(c) \/ Front!ReadBody(c)
      PROVE  FrontInv'
  BY <1>5, ClientKeepsFront
<1>6. ASSUME NEW c \in DOMAIN sockets, Front!EndCall(c) \/ Front!HangUp(c)
      PROVE  FrontInv'
  BY <1>6, CallKeepsFront
<1>7. CASE Front!Tick
  BY <1>7, TickKeepsFront
<1> QED
  BY <1>1, <1>2, <1>3, <1>4, <1>5, <1>6, <1>7 DEF Front!Next

LEMMA SameCount == \A S : Front!Cardinality(S) = Cardinality(S)
BY DEF Front!Cardinality, Cardinality

\* An address guesses at most MaxFailures tokens and one for each connection
\* that had passed the check (AuthLimiter, serve.rs), and the counter of the
\* connections is theirs and within its cap (ConnGuard), in every behaviour
\* of the servers, for every number of addresses, sessions and connections.
THEOREM FrontStaysBounded == ServersSpec => []FrontIsBounded
<1>1. ServersInit => FrontInv
  BY InitFront DEF ServersInit
<1>2. FrontInv /\ [ServersNext]_serverVars => FrontInv'
  <2> SUFFICES ASSUME FrontInv, [ServersNext]_serverVars PROVE FrontInv'
    OBVIOUS
  <2>1. [Front!Next]_(Front!vars)
    BY DEF ServersNext, serverVars, frontVars, Front!vars, Front!frontVars, Front!sessionVars
  <2> QED
    BY <2>1, NextKeepsFront
<1>3. FrontInv => FrontIsBounded
  <2> SUFFICES ASSUME FrontInv PROVE FrontIsBounded
    OBVIOUS
  <2>1. Front!GuessesAreBounded
    BY DEF FrontInv, GuessesInv, Guesses, Front!GuessesAreBounded
  <2>2. Opened = {c \in DOMAIN sockets : Front!Open(c)}
    BY DEF Opened, Front!Open
  <2>3. Front!ThreadsAreBounded
    BY <2>2, SameCount DEF FrontInv, SocketsInv, Front!ThreadsAreBounded
  <2> QED
    BY <2>1, <2>3 DEF FrontIsBounded
<1> QED
  BY <1>1, <1>2, <1>3, PTL DEF ServersSpec

-----------------------------------------------------------------------------
(* The tool servers *)

InHand == {"connecting", "running"}

Sent ==
  [kind : Tools!Kinds, server : Servers, at : {"queued", "over"} \cup InHand,
   caller : {"waits", "answered", "gone"}, age : Nat, queued : Nat, late : BOOLEAN]

\* A caller that waits has waited in the queue and for what the operation
\* in hand has spent, which is within the reactor's bound.
Sound(q, spent) ==
  /\ q.caller = "waits" =>
       /\ q.at # "over"
       /\ q.at = "queued" => q.age = q.queued
       /\ q.at \in InHand => q.age = q.queued + spent
  /\ q.at \in InHand => spent <= IF q.kind = "list" THEN ListTimeout ELSE CallTimeout
  /\ q.caller = "gone" => q.queued >= Margin

ToolsInv ==
  /\ requests \in Seq(Sent)
  /\ elapsed \in Nat
  /\ \A r \in DOMAIN requests : Sound(requests[r], elapsed)
  /\ \A r, s \in DOMAIN requests :
       requests[r].at \in InHand /\ requests[s].at \in InHand => r = s

LEMMA RequestFacts ==
  ASSUME ToolsInv
  PROVE  /\ DOMAIN requests = 1 .. Len(requests)
         /\ Len(requests) \in Nat
         /\ \A r \in DOMAIN requests : requests[r] \in Sent
BY LenProperties, ElementOfSeq DEF ToolsInv

\* One request changes: at most one is in hand if it was in hand before, or
\* no request was, or it is not in hand now.
LEMMA OneRequest ==
  ASSUME ToolsInv, NEW r \in DOMAIN requests, NEW q \in Sent,
         requests' = [requests EXCEPT ![r] = q],
         elapsed' \in Nat, Sound(q, elapsed'),
         \/ elapsed' = elapsed
         \/ \A s \in DOMAIN requests : requests[s].at \notin InHand,
         \/ q.at \notin InHand
         \/ requests[r].at \in InHand
         \/ \A s \in DOMAIN requests : requests[s].at \notin InHand
  PROVE  ToolsInv'
<1>1. /\ requests' \in Seq(Sent) /\ DOMAIN requests' = DOMAIN requests
      /\ requests'[r] = q /\ \A s \in DOMAIN requests \ {r} : requests'[s] = requests[s]
  BY ExceptSeq DEF ToolsInv
<1>2. ASSUME NEW s \in DOMAIN requests PROVE Sound(requests'[s], elapsed')
  <2>1. CASE s = r
    BY <1>1, <2>1
  <2>2. CASE s # r
    <3>1. requests'[s] = requests[s] /\ Sound(requests[s], elapsed)
      BY <1>1, <2>2 DEF ToolsInv
    <3>2. CASE elapsed' = elapsed
      BY <3>1, <3>2
    <3>3. CASE \A x \in DOMAIN requests : requests[x].at \notin InHand
      BY <3>1, <3>3 DEF Sound
    <3> QED
      BY <3>2, <3>3
  <2> QED
    BY <2>1, <2>2
<1>3. \A x, s \in DOMAIN requests :
        requests'[x].at \in InHand /\ requests'[s].at \in InHand => x = s
  BY <1>1 DEF ToolsInv
<1> QED
  BY <1>1, <1>2, <1>3 DEF ToolsInv

\* The verdict: the request is over, and its caller waits no more.
LEMMA SettleKeepsTools ==
  ASSUME ToolsInv, NEW r \in DOMAIN requests, Tools!Settle(r), elapsed' = elapsed
  PROVE  ToolsInv'
<1>1. requests[r] \in Sent /\ Sound(requests[r], elapsed) /\ elapsed \in Nat
  BY RequestFacts DEF ToolsInv
<1>2. CASE requests[r].caller = "gone"
  <2> DEFINE q == [requests[r] EXCEPT !.at = "over"]
  <2>1. requests' = [requests EXCEPT ![r] = q]
    BY <1>2 DEF Tools!Settle
  <2>2. q \in Sent /\ q.at = "over" /\ Sound(q, elapsed)
    BY <1>1, <1>2 DEF Sent, Sound, InHand
  <2> HIDE DEF q
  <2> QED
    BY <1>1, <2>1, <2>2, OneRequest DEF InHand
<1>3. CASE requests[r].caller # "gone"
  <2> DEFINE zero == 0
             q1 == [requests[r] EXCEPT !.at = "over"]
             q2 == [q1 EXCEPT !.caller = "answered"]
             q3 == [q2 EXCEPT !.age = zero]
             q == [q3 EXCEPT !.queued = zero]
  <2>1. requests' = [requests EXCEPT ![r] = q]
    BY <1>3 DEF Tools!Settle
  <2>2. zero \in Nat
    OBVIOUS
  <2> HIDE DEF zero
  <2>3. q1 \in Sent /\ q1.at = "over"
    BY <1>1 DEF Sent
  <2> HIDE DEF q1
  <2>4. q2 \in Sent /\ q2.at = "over" /\ q2.caller = "answered"
    BY <2>3 DEF Sent
  <2> HIDE DEF q2
  <2>5. q3 \in Sent /\ q3.at = "over" /\ q3.caller = "answered"
    BY <2>2, <2>4 DEF Sent
  <2> HIDE DEF q3
  <2>6. q \in Sent /\ q.at = "over" /\ q.caller = "answered"
    BY <2>2, <2>5 DEF Sent
  <2> HIDE DEF q
  <2>7. Sound(q, elapsed)
    BY <2>6 DEF Sound, InHand
  <2> QED
    BY <1>1, <2>1, <2>6, <2>7, OneRequest DEF InHand
<1> QED
  BY <1>2, <1>3

LEMMA SendKeepsTools ==
  ASSUME ToolsInv, NEW kind \in Tools!Kinds, NEW s \in Servers, Tools!Send(kind, s)
  PROVE  ToolsInv'
<1> DEFINE q == [kind |-> kind, server |-> s, at |-> "queued", caller |-> "waits",
                 age |-> 0, queued |-> 0, late |-> FALSE]
           n == Len(requests) + 1
<1>1. q \in Sent /\ q.at = "queued" /\ Sound(q, elapsed)
  BY DEF Sent, Sound, InHand
<1>2. requests' = Append(requests, q) /\ elapsed' = elapsed
  BY DEF Tools!Send
<1> HIDE DEF q
<1>3. /\ requests' \in Seq(Sent) /\ DOMAIN requests' = 1 .. n /\ requests'[n] = q
      /\ \A r \in DOMAIN requests : requests'[r] = requests[r]
  BY <1>1, <1>2, RequestFacts, AppendProperties DEF ToolsInv
<1>4. DOMAIN requests' = DOMAIN requests \cup {n}
  BY <1>3, RequestFacts
<1>5. \A r \in DOMAIN requests' : Sound(requests'[r], elapsed)
  BY <1>1, <1>3, <1>4 DEF ToolsInv
<1>6. \A r, x \in DOMAIN requests' :
        requests'[r].at \in InHand /\ requests'[x].at \in InHand => r = x
  BY <1>1, <1>3, <1>4 DEF ToolsInv, InHand
<1> QED
  BY <1>2, <1>3, <1>5, <1>6 DEF ToolsInv

LEMMA TakeKeepsTools ==
  ASSUME ToolsInv, NEW r \in DOMAIN requests, Tools!Take(r)
  PROVE  ToolsInv'
<1>1. requests[r] \in Sent /\ Sound(requests[r], elapsed) /\ requests[r].at = "queued"
  BY RequestFacts DEF ToolsInv, Tools!Take, Tools!IsAt
<1>2. \A s \in DOMAIN requests : requests[s].at \notin InHand
  BY DEF Tools!Take, Tools!ReactorIsFree, Tools!Running, InHand
<1>3. CASE requests[r].server \in configs'
  <2> DEFINE q == [requests[r] EXCEPT !.at = "connecting"]
  <2>1. requests' = [requests EXCEPT ![r] = q] /\ elapsed' = 0
    BY <1>3 DEF Tools!Take
  <2>2. q \in Sent /\ Sound(q, 0)
    BY <1>1, TicksAreCounted DEF Sent, Sound, InHand
  <2> HIDE DEF q
  <2> QED
    BY <1>2, <2>1, <2>2, OneRequest
<1>4. CASE requests[r].server \notin configs'
  <2>1. Tools!Settle(r) /\ elapsed' = elapsed
    BY <1>4 DEF Tools!Take
  <2> QED
    BY <2>1, SettleKeepsTools
<1> QED
  BY <1>3, <1>4

LEMMA WorkKeepsTools ==
  ASSUME ToolsInv, NEW r \in DOMAIN requests,
         \/ Tools!Connect(r) \/ Tools!Apply(r) \/ Tools!Return(r)
         \/ Tools!Break(r) \/ Tools!Expire(r)
  PROVE  ToolsInv'
<1>1. /\ requests[r] \in Sent /\ Sound(requests[r], elapsed) /\ elapsed \in Nat
      /\ requests[r].at \in InHand /\ elapsed' = elapsed
  BY RequestFacts DEF ToolsInv, Tools!Connect, Tools!Apply, Tools!Return, Tools!Break,
                      Tools!Expire, Tools!IsAt, Tools!Running, InHand
<1>2. CASE requests' = [requests EXCEPT ![r].at = "running"]
  <2> DEFINE q == [requests[r] EXCEPT !.at = "running"]
  <2>1. requests' = [requests EXCEPT ![r] = q]
    BY <1>2
  <2>2. q \in Sent /\ Sound(q, elapsed)
    BY <1>1 DEF Sent, Sound, InHand
  <2> HIDE DEF q
  <2> QED
    BY <1>1, <2>1, <2>2, OneRequest
<1>3. CASE requests' = [requests EXCEPT ![r].late = (requests[r].caller = "gone")]
  <2> DEFINE late == (requests[r].caller = "gone")
             q == [requests[r] EXCEPT !.late = late]
  <2>1. requests' = [requests EXCEPT ![r] = q]
    BY <1>3
  <2>2. late \in BOOLEAN
    OBVIOUS
  <2> HIDE DEF late
  <2>3. q \in Sent /\ Sound(q, elapsed)
    BY <1>1, <2>2 DEF Sent, Sound
  <2> HIDE DEF q
  <2> QED
    BY <1>1, <2>1, <2>3, OneRequest
<1>4. CASE Tools!Settle(r)
  BY <1>1, <1>4, SettleKeepsTools
<1> QED
  BY <1>2, <1>3, <1>4
  DEF Tools!Connect, Tools!Apply, Tools!Return, Tools!Break, Tools!Expire

\* A caller gives up after its whole budget, which is the margin longer than
\* that of the reactor.
LEMMA AbandonKeepsTools ==
  ASSUME ToolsInv, NEW r \in DOMAIN requests, Tools!Abandon(r)
  PROVE  ToolsInv'
<1>1. /\ requests[r] \in Sent /\ Sound(requests[r], elapsed) /\ elapsed \in Nat
      /\ requests[r].caller = "waits" /\ elapsed' = elapsed
      /\ requests[r].age = Tools!SyncBudget(r)
      /\ requests' = [requests EXCEPT ![r].caller = "gone", ![r].age = 0]
  BY RequestFacts DEF ToolsInv, Tools!Abandon, Tools!Waits
<1>2. requests[r].queued >= Margin
  BY <1>1, TicksAreCounted DEF Sent, Sound, InHand, Tools!SyncBudget
<1> DEFINE zero == 0
           q1 == [requests[r] EXCEPT !.caller = "gone"]
           q == [q1 EXCEPT !.age = zero]
<1>3. requests' = [requests EXCEPT ![r] = q]
  BY <1>1
<1>4. zero \in Nat
  OBVIOUS
<1> HIDE DEF zero
<1>5. /\ q1 \in Sent /\ q1.caller = "gone" /\ q1.queued = requests[r].queued
      /\ q1.at = requests[r].at /\ q1.kind = requests[r].kind
  BY <1>1 DEF Sent
<1> HIDE DEF q1
<1>6. /\ q \in Sent /\ q.caller = "gone" /\ q.queued = requests[r].queued
      /\ q.at = requests[r].at /\ q.kind = requests[r].kind
  BY <1>4, <1>5 DEF Sent
<1> HIDE DEF q
<1>7. Sound(q, elapsed)
  BY <1>1, <1>2, <1>6 DEF Sound
<1> QED
  BY <1>1, <1>3, <1>6, <1>7, OneRequest

\* Time passes for those who wait and for the request in hand, whose bound
\* is not over.
LEMMA TickKeepsTools ==
  ASSUME ToolsInv, Tools!Tick
  PROVE  ToolsInv'
<1> DEFINE waits(r) == requests[r].caller = "waits"
<1>1. /\ DOMAIN requests' = DOMAIN requests
      /\ \A r \in DOMAIN requests :
           /\ ~waits(r) => requests'[r] = requests[r]
           /\ waits(r) => requests'[r] =
                [requests[r] EXCEPT !.age = @ + 1,
                                    !.queued = IF requests[r].at = "queued" THEN @ + 1 ELSE @]
      /\ \A r \in DOMAIN requests : requests[r].at \in InHand =>
           elapsed < IF requests[r].kind = "list" THEN ListTimeout ELSE CallTimeout
      /\ elapsed' = IF \A r \in DOMAIN requests : requests[r].at \notin InHand
                    THEN elapsed ELSE elapsed + 1
  BY DEF Tools!Tick, Tools!Waits, Tools!Running, Tools!IsAt, Tools!Budget,
         Tools!ReactorIsFree, InHand
<1> DEFINE idle == \A r \in DOMAIN requests : requests[r].at \notin InHand
<1>2. elapsed \in Nat /\ elapsed' \in Nat
  <2>1. elapsed \in Nat
    BY DEF ToolsInv
  <2>2. elapsed' = IF idle THEN elapsed ELSE elapsed + 1
    BY <1>1
  <2> HIDE DEF idle
  <2> QED
    BY <2>1, <2>2
<1> HIDE DEF idle
<1>3. ASSUME NEW r \in DOMAIN requests
      PROVE  /\ requests'[r] \in Sent
             /\ requests'[r].at = requests[r].at
             /\ Sound(requests'[r], elapsed')
  <2>1. requests[r] \in Sent /\ Sound(requests[r], elapsed)
    BY RequestFacts DEF ToolsInv
  <2>2. requests[r].at \in InHand => elapsed' = elapsed + 1
    BY <1>1
  <2> DEFINE bound == IF requests[r].kind = "list" THEN ListTimeout ELSE CallTimeout
  <2>6. bound \in Nat /\ (requests[r].at \in InHand => elapsed < bound)
    BY <1>1, TicksAreCounted
  <2> HIDE DEF bound
  <2>7. requests[r].at \in InHand => elapsed' <= bound
    BY <1>2, <2>2, <2>6
  <2>3. requests[r].at \in InHand =>
          elapsed' <= IF requests[r].kind = "list" THEN ListTimeout ELSE CallTimeout
    BY <2>7 DEF bound
  <2>4. CASE ~waits(r)
    BY <1>1, <2>1, <2>3, <2>4 DEF Sound
  <2>5. CASE waits(r)
    <3> DEFINE age == requests[r].age + 1
               queued == IF requests[r].at = "queued" THEN requests[r].queued + 1
                                                     ELSE requests[r].queued
               q1 == [requests[r] EXCEPT !.age = age]
               q == [q1 EXCEPT !.queued = queued]
    <3>1. requests'[r] = q
      BY <1>1, <2>5
    <3>2. age \in Nat /\ queued \in Nat
      BY <2>1 DEF Sent
    <3>3. /\ requests[r].at = "queued" => age = queued
          /\ requests[r].at \in InHand => age = queued + elapsed'
          /\ requests[r].at # "over"
      BY <1>2, <2>1, <2>2, <2>5 DEF Sent, Sound, InHand
    <3> HIDE DEF age, queued
    <3>4. /\ q1 \in Sent /\ q1.age = age /\ q1.at = requests[r].at
          /\ q1.caller = requests[r].caller /\ q1.kind = requests[r].kind
      BY <2>1, <3>2 DEF Sent
    <3> HIDE DEF q1
    <3>5. /\ q \in Sent /\ q.age = age /\ q.at = requests[r].at /\ q.queued = queued
          /\ q.caller = requests[r].caller /\ q.kind = requests[r].kind
      BY <3>2, <3>4 DEF Sent
    <3> HIDE DEF q
    <3> QED
      BY <2>3, <2>5, <3>1, <3>3, <3>5 DEF Sound
  <2> QED
    BY <2>4, <2>5
<1>4. requests' \in Seq(Sent)
  <2>1. requests' = [r \in 1 .. Len(requests) |-> requests'[r]]
    BY <1>1, RequestFacts DEF Tools!Tick
  <2> QED
    BY <1>3, <2>1, RequestFacts, SeqDef
<1> QED
  BY <1>1, <1>2, <1>3, <1>4 DEF ToolsInv

LEMMA NextKeepsTools ==
  ASSUME ToolsInv, [Tools!Next]_toolVars
  PROVE  ToolsInv'
<1>1. CASE UNCHANGED toolVars
  BY <1>1 DEF toolVars, ToolsInv
<1>2. ASSUME NEW s \in Servers, Tools!Die(s) PROVE ToolsInv'
  BY <1>2 DEF Tools!Die, ToolsInv
<1>3. ASSUME NEW r \in DOMAIN requests, Tools!Request(r) PROVE ToolsInv'
  BY <1>3, TakeKeepsTools, WorkKeepsTools, AbandonKeepsTools DEF Tools!Request
<1>4. CASE Tools!Tick
  BY <1>4, TickKeepsTools
<1> QED
  BY <1>1, <1>2, <1>3, <1>4, SendKeepsTools DEF Tools!Next

\* A caller that gave up on a tool server had spent the margin in the queue,
\* behind the operations of other callers (call_server_sync(), mcp.rs): the
\* reactor's own bound is shorter, in every behaviour of the servers, for
\* every number of callers, servers and requests, and all time limits.
THEOREM VerdictComesFirst == ServersSpec => []VerdictBeatsTheCaller
<1>1. ServersInit => ToolsInv
  <2> SUFFICES ASSUME ServersInit PROVE ToolsInv
    OBVIOUS
  <2>1. requests = <<>> /\ elapsed = 0
    BY DEF ServersInit, Tools!Init
  <2> QED
    BY <2>1 DEF ToolsInv
<1>2. ToolsInv /\ [ServersNext]_serverVars => ToolsInv'
  <2> SUFFICES ASSUME ToolsInv, [ServersNext]_serverVars PROVE ToolsInv'
    OBVIOUS
  <2>1. [Tools!Next]_toolVars
    BY DEF ServersNext, serverVars
  <2> QED
    BY <2>1, NextKeepsTools
<1>3. ToolsInv => VerdictBeatsTheCaller
  BY DEF ToolsInv, Sound, VerdictBeatsTheCaller, Tools!VerdictBeatsTheCaller
<1> QED
  BY <1>1, <1>2, <1>3, PTL DEF ServersSpec

=============================================================================
