------------------------------ MODULE ChatLoop ------------------------------
(***************************************************************************)
(* The commands that talk to one session from a terminal without a screen  *)
(* (tole-cli/src/main.rs): run makes a session and one turn, resume goes   *)
(* on with one, chat reads a message per line.  A message that meets a     *)
(* session in the middle of a turn waits until that turn is resolved, and  *)
(* the operator is told when it was not recorded after all.                *)
(*                                                                         *)
(* A turn is abstract (module TurnLoop): it ends at a boundary or not, and *)
(* a commit of it may fail.  What a message carries (images, the recalled  *)
(* context of a new session) is left out.                                  *)
(***************************************************************************)
EXTENDS Naturals

CONSTANTS
  Messages,   \* what is typed
  Retries,    \* times that a message waits for one more resume
  MaxKills,   \* bound on the kills
  Nothing     \* not a message

VARIABLES
  session,    \* pc, and the messages recorded
  host,       \* the process
  operator,   \* what was typed, told not recorded, and lost to a kill
  memory,     \* the summaries stored: first message, and whether an answer came
  kills

vars == <<session, host, operator, memory, kills>>

Off == [is |-> "off", face |-> "chat", msg |-> Nothing, left |-> 0,
        first |-> Nothing, answered |-> FALSE]

Pcs == {"none", "boundary", "open"}

TypeOK ==
  /\ session.pc \in Pcs
  /\ session.recorded \subseteq Messages
  /\ host.is \in {"off", "prompt", "dispatch", "resolving", "turn"}
  /\ host.face \in {"run", "resume", "chat"} /\ host.left \in 0 .. Retries
  /\ host.msg \in Messages \cup {Nothing} /\ host.first \in Messages \cup {Nothing}
  /\ {operator.typed, operator.told, operator.lost} \subseteq SUBSET Messages
  /\ kills \in 0 .. MaxKills

Init ==
  /\ session = [pc |-> "none", recorded |-> {}]
  /\ host = Off
  /\ operator = [typed |-> {}, told |-> {}, lost |-> {}]
  /\ memory = {}
  /\ kills = 0

-----------------------------------------------------------------------------
(* Starting *)

\* A message that was lost is typed again.
CanType(m) == m \notin operator.typed \/ m \in operator.told \cup operator.lost
Types(m) == operator' = [typed |-> operator.typed \cup {m}, told |-> operator.told \ {m},
                         lost |-> operator.lost \ {m}]

\* run: the session, and its only message.
Run(m) ==
  /\ host.is = "off" /\ session.pc = "none" /\ CanType(m)
  /\ session' = [session EXCEPT !.pc = "boundary"]
  /\ host' = [Off EXCEPT !.is = "dispatch", !.face = "run", !.msg = m, !.first = m]
  /\ Types(m)
  /\ UNCHANGED <<memory, kills>>

\* resume, with a new instruction or without one.
Resume(m) ==
  /\ host.is = "off" /\ session.pc # "none"
  /\ IF m = Nothing
     THEN /\ host' = [Off EXCEPT !.is = "resolving", !.face = "resume"]
          /\ UNCHANGED operator
     ELSE /\ CanType(m)
          /\ host' = [Off EXCEPT !.is = "dispatch", !.face = "resume", !.msg = m, !.first = m]
          /\ Types(m)
  /\ UNCHANGED <<session, memory, kills>>

\* chat, on a new session or an old one.
Chat ==
  /\ host.is = "off"
  /\ session' = [session EXCEPT !.pc = IF @ = "none" THEN "boundary" ELSE @]
  /\ host' = [Off EXCEPT !.is = "prompt"]
  /\ UNCHANGED <<operator, memory, kills>>

\* One line.
Read(m) ==
  /\ host.is = "prompt" /\ CanType(m)
  /\ host' = [host EXCEPT !.is = "dispatch", !.msg = m, !.left = Retries,
                          !.first = IF @ = Nothing THEN m ELSE @]
  /\ Types(m)
  /\ UNCHANGED <<session, memory, kills>>

-----------------------------------------------------------------------------
(* Dispatch by the session's state *)

\* Every resume that does not land on a boundary drops the message.
NoteFor(outcome) == outcome # "final"

Telling(told) == operator' = [operator EXCEPT !.told = IF told THEN @ \cup {host.msg} ELSE @]

\* The process ends by itself.  A summary needs a message and an answer.
Summary == IF host.first # Nothing /\ host.answered THEN {host.first} ELSE {}

NextLine == host' = [host EXCEPT !.is = "prompt", !.msg = Nothing]

\* The message is recorded, and the turn runs; or the first commit fails.
\* Outside of chat a session in the middle of a turn is refused.
Record ==
  /\ host.is = "dispatch" /\ session.pc = "boundary"
  /\ \/ /\ session' = [pc |-> "open", recorded |-> session.recorded \cup {host.msg}]
        /\ host' = [host EXCEPT !.is = "turn"]
        /\ UNCHANGED operator
     \/ /\ host' = Off
        /\ Telling(TRUE)
        /\ UNCHANGED session
  /\ UNCHANGED <<memory, kills>>

Refuse ==
  /\ host.is = "dispatch" /\ session.pc = "open" /\ host.face # "chat"
  /\ host' = Off
  /\ Telling(TRUE)
  /\ UNCHANGED <<session, memory, kills>>

Resolve ==
  /\ host.is = "dispatch" /\ session.pc = "open" /\ host.face = "chat"
  /\ host' = [host EXCEPT !.is = "resolving"]
  /\ UNCHANGED <<session, operator, memory, kills>>

\* The resumed turn comes to its answer, or is parked again, or ends in
\* another way; or a commit of it fails.
Resolved ==
  /\ host.is = "resolving" /\ host.face = "chat"
  /\ \/ /\ session' = [session EXCEPT !.pc = "boundary"]
        /\ host' = [host EXCEPT !.is = "dispatch"]
        /\ UNCHANGED operator
     \/ /\ UNCHANGED session
        /\ IF host.left > 0
           THEN host' = [host EXCEPT !.is = "dispatch", !.left = @ - 1] /\ UNCHANGED operator
           ELSE NextLine /\ Telling(NoteFor("parked"))
     \/ /\ session' = [session EXCEPT !.pc = "boundary"]
        /\ NextLine /\ Telling(NoteFor("ended"))
     \/ /\ UNCHANGED session
        /\ host' = Off
        /\ Telling(NoteFor("failed"))
  /\ UNCHANGED <<memory, kills>>

\* resume without a message is over with its turn.
ResumeEnds ==
  /\ host.is = "resolving" /\ host.face = "resume"
  /\ \E pc \in {session.pc, "boundary"} : session' = [session EXCEPT !.pc = pc]
  /\ host' = Off
  /\ UNCHANGED <<operator, memory, kills>>

\* The turn of the message: an answer, a turn that is parked or settled
\* without one, or a commit that fails.
TurnEnds ==
  /\ host.is = "turn"
  /\ \/ /\ session' = [session EXCEPT !.pc = "boundary"]
        /\ memory' = IF host.face = "chat" THEN memory ELSE memory \cup {host.first}
        /\ IF host.face = "chat"
           THEN host' = [host EXCEPT !.is = "prompt", !.msg = Nothing, !.answered = TRUE]
           ELSE host' = Off
        /\ UNCHANGED operator
     \/ /\ \E pc \in {"open", "boundary"} : session' = [session EXCEPT !.pc = pc]
        /\ IF host.face = "chat" THEN NextLine ELSE host' = Off
        /\ UNCHANGED <<operator, memory>>
     \/ /\ UNCHANGED <<session, memory>>
        /\ host' = Off
        /\ Telling(host.face = "chat")
  /\ UNCHANGED kills

\* The end of the input, or "/exit".
Exit ==
  /\ host.is = "prompt"
  /\ memory' = memory \cup Summary
  /\ host' = Off
  /\ UNCHANGED <<session, operator, kills>>

Kill ==
  /\ host.is # "off" /\ kills < MaxKills
  /\ kills' = kills + 1
  /\ host' = Off
  /\ operator' = [operator EXCEPT !.lost =
       IF host.msg # Nothing /\ host.is # "turn" THEN @ \cup {host.msg} ELSE @]
  /\ UNCHANGED <<session, memory>>

Next ==
  \/ \E m \in Messages : Run(m) \/ Read(m)
  \/ \E m \in Messages \cup {Nothing} : Resume(m)
  \/ Chat \/ Record \/ Refuse \/ Resolve \/ Resolved \/ ResumeEnds \/ TurnEnds \/ Exit \/ Kill

Spec == Init /\ [][Next]_vars

-----------------------------------------------------------------------------
(* Properties *)

\* "User input is never dropped" (main.rs:2576-2579) but with a note: when
\* the next line is read, or the process has ended by itself, each message
\* is in the log or its operator knows that it is not.
RecordedOrTold ==
  host.is \in {"off", "prompt"} =>
    operator.typed \subseteq session.recorded \cup operator.told \cup operator.lost

\* "The message you just typed was NOT recorded" (main.rs:2703-2705): who is
\* told so may send it again.
ToldIsTrue == operator.told \cap session.recorded = {}

=============================================================================
