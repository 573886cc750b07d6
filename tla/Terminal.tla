------------------------------ MODULE Terminal ------------------------------
(***************************************************************************)
(* The interactive terminal (crates/tole-tui/src/lib.rs) and its host      *)
(* (tole-cli/src/tui_host.rs): one thread draws and reads keys, a turn     *)
(* runs on a thread of its own.  The turn's end arrives through one        *)
(* channel and its questions through another; what is typed meanwhile      *)
(* steers the turn or waits for its end.                                   *)
(*                                                                         *)
(* A text is a value: one that is typed is a new one.  A draft is a        *)
(* sequence, since what comes back is put in front of it.                  *)
(***************************************************************************)
EXTENDS Naturals, Sequences, SequencesExt

CONSTANTS
  Texts,        \* what is typed
  MaxQueue,     \* MAX_QUEUE
  MaxPending,   \* of the interrupts of a turn
  MaxRecalls    \* bound on the times that the editor's history is browsed

VARIABLES
  ui,          \* whether the loop is at its top, or waits for a key
  editor,      \* the draft, and the one that is put aside while browsing
  app,         \* running, the question on the screen, the follow-ups
  turn,        \* the turn's thread
  interrupts,  \* of the token of the last turn that was started
  cancelled,   \* that token
  parked,      \* the session is in the middle of a turn
  told,        \* what the model is told of: prompts and interrupts
  missed,      \* prompts whose turn ended before they were recorded
  typed,       \* the texts that were typed
  browsed      \* how often the history was, and the texts then put aside

vars ==
  <<ui, editor, app, turn, interrupts, cancelled, parked, told, missed, typed, browsed>>

Empty == [text |-> <<>>, aside |-> <<>>, browsing |-> FALSE]
Off == [is |-> "off", prompt |-> <<>>, asks |-> "nothing", end |-> "none"]
Listed(texts) == ToSet(texts)

TypeOK ==
  /\ ui \in {"top", "waiting", "left"}
  /\ editor \in [text : Seq(Texts), aside : Seq(Texts), browsing : BOOLEAN]
  /\ app \in [running : BOOLEAN, asked : BOOLEAN, queue : Seq(Seq(Texts))]
  /\ turn \in [is : {"off", "starting", "resuming", "running", "done"}, prompt : Seq(Texts),
               asks : {"nothing", "sent", "shown", "allowed", "denied"},
               end : {"none", "final", "cancelled", "stopped"}]
  /\ interrupts \in Seq(Seq(Texts)) /\ cancelled \in BOOLEAN /\ parked \in BOOLEAN
  /\ {told, missed, typed} \subseteq SUBSET Texts /\ browsed.times \in 0 .. MaxRecalls

Init ==
  /\ ui = "top"
  /\ editor = Empty
  /\ app = [running |-> FALSE, asked |-> FALSE, queue |-> <<>>]
  /\ turn = Off
  /\ interrupts = <<>>
  /\ cancelled = FALSE
  /\ parked \in BOOLEAN
  /\ told = {}
  /\ missed = {}
  /\ typed = {}
  /\ browsed = [times |-> 0, aside |-> {}]

-----------------------------------------------------------------------------
(* The turn's thread *)

\* The host resolves a parked turn first.  Without a provider nothing is
\* recorded, nor when the resumed turn does not come to an answer.
HostStarts ==
  /\ turn.is = "starting"
  /\ \/ /\ turn' = [turn EXCEPT !.is = "done", !.end = "stopped"]
        /\ missed' = missed \cup Listed(turn.prompt)
        /\ UNCHANGED <<told, parked>>
     \/ /\ parked
        /\ turn' = [turn EXCEPT !.is = "resuming"]
        /\ UNCHANGED <<told, parked, missed>>
     \/ /\ ~parked
        /\ turn' = [turn EXCEPT !.is = "running"]
        /\ told' = told \cup Listed(turn.prompt)
        /\ parked' = TRUE
        /\ UNCHANGED missed
  /\ UNCHANGED <<ui, editor, app, interrupts, cancelled, typed, browsed>>

\* A resumed turn that does not come to an answer: the prompt was not sent.
MissedBy == IF turn.is = "resuming" THEN missed \cup Listed(turn.prompt) ELSE missed

Working == turn.is \in {"resuming", "running"} /\ turn.asks = "nothing"

\* A tool that needs an approval: the thread sends a question, and waits.
Ask ==
  /\ Working
  /\ turn' = [turn EXCEPT !.asks = "sent"]
  /\ UNCHANGED <<ui, editor, app, interrupts, cancelled, parked, told, missed, typed, browsed>>

\* An answer ends the wait.  A refused call leaves the turn where it is.
HearAnswer ==
  /\ turn.asks \in {"allowed", "denied"}
  /\ \/ turn' = [turn EXCEPT !.asks = "nothing"]
     \/ /\ turn.asks = "denied"
        /\ turn' = [turn EXCEPT !.is = "done", !.asks = "nothing", !.end = "stopped"]
  /\ missed' = IF turn'.is = "done" THEN MissedBy ELSE missed
  /\ UNCHANGED <<ui, editor, app, interrupts, cancelled, parked, told, typed, browsed>>

\* A safe point of the turn.
TakeInterrupts ==
  /\ Working /\ interrupts # <<>>
  /\ told' = told \cup UNION {Listed(interrupts[i]) : i \in DOMAIN interrupts}
  /\ interrupts' = <<>>
  /\ UNCHANGED <<ui, editor, app, turn, cancelled, parked, missed, typed, browsed>>

\* An answer of the model's: of a resumed turn, and then the prompt is
\* recorded; or of the turn, which is over.
Finishes ==
  /\ Working
  /\ IF turn.is = "resuming"
     THEN /\ turn' = [turn EXCEPT !.is = "running"]
          /\ told' = told \cup Listed(turn.prompt)
          /\ UNCHANGED parked
     ELSE /\ turn' = [turn EXCEPT !.is = "done", !.end = "final"]
          /\ parked' = FALSE
          /\ UNCHANGED told
  /\ UNCHANGED <<ui, editor, app, interrupts, cancelled, missed, typed, browsed>>

\* A cancel settles the turn; a provider that fails leaves it parked.
Breaks ==
  /\ Working
  /\ \/ /\ cancelled
        /\ turn' = [turn EXCEPT !.is = "done", !.end = "cancelled"]
        /\ parked' = FALSE
     \/ /\ turn' = [turn EXCEPT !.is = "done", !.end = "stopped"]
        /\ parked' \in BOOLEAN
  /\ missed' = MissedBy
  /\ UNCHANGED <<ui, editor, app, interrupts, cancelled, told, typed, browsed>>

-----------------------------------------------------------------------------
(* The loop *)

\* What comes back is put in front of the draft on the screen, as a new
\* draft; the one that was put aside is forgotten.
InFront(back) ==
  [text |-> FlattenSeq(back) \o editor.text, aside |-> <<>>, browsing |-> FALSE]

PutBack(back) == editor' = IF back = <<>> THEN editor ELSE InFront(back)

\* A thread and a fresh token.
Started(prompt) == [Off EXCEPT !.is = "starting", !.prompt = prompt]

\* Mutant: what the turn had no safe point for is dropped with its token.
LateIsDropped == <<>>

\* Steering that the turn had no safe point for.
Late == interrupts

\* After an answer that runs next, before the follow-ups; after any other
\* end both come back.
Kept(end) == IF end = "final" THEN Late \o app.queue ELSE <<>>
Returned(end) == IF end = "final" THEN <<>> ELSE Late \o app.queue

Arrived == turn.asks = "sent"

\* The top of the loop: the turn's end, then its question, then the head of
\* the queue.
Top ==
  LET ended == turn.is = "done"
      queue == IF ended THEN Kept(turn.end) ELSE app.queue
      starts == (ended \/ ~app.running) /\ queue # <<>> IN
  /\ ui = "top"
  /\ ui' = "waiting"
  /\ IF ended THEN PutBack(Returned(turn.end)) ELSE UNCHANGED editor
  /\ app' = [running |-> starts \/ (app.running /\ ~ended),
             asked |-> Arrived \/ (app.asked /\ ~ended),
             queue |-> IF starts THEN Tail(queue) ELSE queue]
  /\ turn' = IF starts THEN Started(Head(queue))
             ELSE IF ended THEN Off
             ELSE IF Arrived THEN [turn EXCEPT !.asks = "shown"] ELSE turn
  /\ interrupts' = IF ended \/ starts THEN <<>> ELSE interrupts
  /\ cancelled' = (cancelled /\ ~starts)
  /\ UNCHANGED <<parked, told, missed, typed, browsed>>

NoKey ==
  /\ ui = "waiting"
  /\ ui' = "top"
  /\ UNCHANGED <<editor, app, turn, interrupts, cancelled, parked, told, missed, typed, browsed>>

\* A key other than those of the question on the screen.
Key == ui = "waiting" /\ ~app.asked /\ ui' = "top"

\* Letters: a draft that was recalled becomes the draft.
Type(t) ==
  /\ Key /\ t \notin typed
  /\ editor' = [text |-> Append(editor.text, t), aside |-> <<>>, browsing |-> FALSE]
  /\ typed' = typed \cup {t}
  /\ UNCHANGED <<app, turn, interrupts, cancelled, parked, told, missed, browsed>>

\* Up, once: what was last submitted comes back; Down: the draft does.
Browse(t) ==
  /\ Key /\ browsed.times < MaxRecalls /\ ~editor.browsing
  /\ t \in typed \ Listed(editor.text)
  /\ editor' = [text |-> <<t>>, aside |-> editor.text, browsing |-> TRUE]
  /\ browsed' = [times |-> browsed.times + 1, aside |-> browsed.aside \cup Listed(editor.text)]
  /\ UNCHANGED <<app, turn, interrupts, cancelled, parked, told, missed, typed>>

BrowseBack ==
  /\ Key /\ editor.browsing
  /\ editor' = [text |-> editor.aside, aside |-> <<>>, browsing |-> FALSE]
  /\ UNCHANGED <<app, turn, interrupts, cancelled, parked, told, missed, typed, browsed>>

\* Enter while no turn runs.
Submit ==
  /\ Key /\ ~app.running /\ editor.text # <<>>
  /\ editor' = [editor EXCEPT !.text = <<>>, !.browsing = FALSE]
  /\ app' = [app EXCEPT !.running = TRUE]
  /\ turn' = Started(editor.text)
  /\ interrupts' = <<>> /\ cancelled' = FALSE
  /\ UNCHANGED <<parked, told, missed, typed, browsed>>

\* Enter while a turn runs: the token refuses what it has no room for, and
\* the draft comes back.
Steer ==
  /\ Key /\ app.running /\ editor.text # <<>>
  /\ IF Len(interrupts) < MaxPending
     THEN /\ interrupts' = Append(interrupts, editor.text)
          /\ editor' = [editor EXCEPT !.text = <<>>, !.browsing = FALSE]
     ELSE /\ editor' = [editor EXCEPT !.browsing = FALSE]
          /\ UNCHANGED interrupts
  /\ UNCHANGED <<app, turn, cancelled, parked, told, missed, typed, browsed>>

\* Alt+Enter while a turn runs; a full queue leaves the draft alone.
Follow ==
  /\ Key /\ app.running /\ editor.text # <<>> /\ Len(app.queue) < MaxQueue
  /\ app' = [app EXCEPT !.queue = Append(@, editor.text)]
  /\ editor' = [editor EXCEPT !.text = <<>>, !.browsing = FALSE]
  /\ UNCHANGED <<turn, interrupts, cancelled, parked, told, missed, typed, browsed>>

\* Alt+Up: the last follow-up is edited again.
TakeBack ==
  /\ Key /\ app.queue # <<>>
  /\ app' = [app EXCEPT !.queue = Front(@)]
  /\ PutBack(<<Last(app.queue)>>)
  /\ UNCHANGED <<turn, interrupts, cancelled, parked, told, missed, typed, browsed>>

\* y or n.
Answer ==
  /\ ui = "waiting" /\ app.asked
  /\ ui' = "top"
  /\ app' = [app EXCEPT !.asked = FALSE]
  /\ \E verdict \in {"allowed", "denied"} : turn' = [turn EXCEPT !.asks = verdict]
  /\ UNCHANGED <<editor, interrupts, cancelled, parked, told, missed, typed, browsed>>

\* A question that is dropped is an answer: the thread sees a refusal.
Dropped(t) == IF t.asks = "shown" THEN [t EXCEPT !.asks = "denied"] ELSE t

\* Esc or Ctrl+C while a turn runs, also at a question.
CancelTurn ==
  /\ ui = "waiting" /\ app.running
  /\ ui' = "top"
  /\ cancelled' = TRUE
  /\ app' = [app EXCEPT !.asked = FALSE, !.queue = <<>>]
  /\ turn' = Dropped(turn)
  /\ PutBack(app.queue)
  /\ UNCHANGED <<interrupts, parked, told, missed, typed, browsed>>

\* run_host_cmd(): "/new" and "/resume" put another session in the place of
\* this one, the other commands leave the turns alone.
RunHostCmd == parked' \in BOOLEAN

\* The commands wait for the turn's end.
Command ==
  /\ Key /\ ~app.running /\ editor.text = <<>>
  /\ editor' = Empty
  /\ RunHostCmd
  /\ UNCHANGED <<app, turn, interrupts, cancelled, told, missed, typed, browsed>>

\* "/quit", or Ctrl+C twice, while no turn runs.
Quit ==
  /\ ui = "waiting" /\ ~app.running
  /\ ui' = "left"
  /\ UNCHANGED <<editor, app, turn, interrupts, cancelled, parked, told, missed, typed, browsed>>

Keys ==
  \/ \E t \in Texts : Type(t) \/ Browse(t)
  \/ BrowseBack \/ Submit \/ Steer \/ Follow \/ TakeBack \/ Answer \/ CancelTurn
  \/ Command \/ Quit

TurnThread == HostStarts \/ Ask \/ HearAnswer \/ TakeInterrupts \/ Finishes \/ Breaks

Next == Top \/ NoKey \/ Keys \/ TurnThread

Spec == Init /\ [][Next]_vars

-----------------------------------------------------------------------------
(* Properties *)

Waiting ==
  (UNION {Listed(app.queue[i]) : i \in DOMAIN app.queue})
    \cup (UNION {Listed(interrupts[i]) : i \in DOMAIN interrupts})

OnTheWay == IF turn.is \in {"starting", "resuming"} THEN Listed(turn.prompt) ELSE {}

\* "Nothing is lost on cancel or on a turn that did not end in an answer"
\* (lib.rs:400-401): what was typed is on the screen, waits, is on its way
\* or was told the model, however keys, the end of the turn and its
\* interrupts come together.  Only a prompt whose turn could not begin is
\* nowhere but in the editor's history.  A draft that was put aside to
\* browse that history is left out, see DraftSurvives.
NothingIsLost ==
  typed \ browsed.aside \subseteq
    Listed(editor.text) \cup Waiting \cup OnTheWay \cup told \cup missed

\* The screen has a question exactly while the turn's thread waits for its
\* answer, and a turn is said to run exactly while it has a thread: no answer
\* goes to nobody, and nobody waits for a question that is gone.
ScreenIsTheTurn ==
  /\ app.running = (turn.is # "off")
  /\ app.asked = (turn.asks = "shown")

\* "Nothing is lost on cancel", of the draft that is put aside while the
\* history is browsed: it is there still when a turn was cancelled or has
\* ended.  What the turn gives back takes its place.
DraftSurvives ==
  [][(turn.is = "done" /\ turn'.is # "done") \/ (cancelled' /\ ~cancelled) =>
       Listed(editor.aside) \subseteq Listed(editor'.text) \cup Listed(editor'.aside)]_vars

=============================================================================
