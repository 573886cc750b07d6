----------------------------- MODULE Subprocess -----------------------------
(***************************************************************************)
(* One command that a tool, a hook or a mission's check waits for          *)
(* (tole-core/src/subprocess.rs): the child's output is drained by a       *)
(* reader thread and its stdin fed by a writer thread while the caller     *)
(* polls; at the timeout the child is killed.  A descendant of the child   *)
(* may hold the pipes open after it.                                       *)
(*                                                                         *)
(* One output stream stands for both, they are treated alike.  Amounts     *)
(* are blocks; a pipe holds Pipe of them.                                  *)
(***************************************************************************)
EXTENDS Naturals

CONSTANTS
  Pipe,      \* blocks that a pipe holds
  Capture,   \* MAX_CAPTURE, in blocks
  Output,    \* blocks that the child may write
  Input      \* blocks that the child is given

VARIABLES
  caller,    \* is, and the result
  child,     \* is, what it has written and read, and whether it reads first
  out,       \* blocks in the output pipe
  in,        \* blocks in the input pipe
  reader,
  writer,
  heir       \* a descendant holds the pipes

vars == <<caller, child, out, in, reader, writer, heir>>

TypeOK ==
  /\ caller \in [is : {"idle", "polling", "draining", "returned"}, result : {"none", "ok", "killed"}]
  /\ child \in [is : {"off", "running", "exited"}, wrote : 0 .. Output, read : 0 .. Input,
                owes : 0 .. Output]
  /\ out \in 0 .. Pipe /\ in \in 0 .. Pipe
  /\ reader \in [is : {"off", "reading", "done"}, got : 0 .. Capture + 1]
  /\ writer \in [is : {"off", "writing", "done"}, left : 0 .. Input]
  /\ heir \in BOOLEAN

Init ==
  /\ caller = [is |-> "idle", result |-> "none"]
  /\ child = [is |-> "off", wrote |-> 0, read |-> 0, owes |-> 0]
  /\ out = 0 /\ in = 0
  /\ reader = [is |-> "off", got |-> 0]
  /\ writer = [is |-> "off", left |-> 0]
  /\ heir = FALSE

-----------------------------------------------------------------------------
(* The caller *)

\* The reader and the writer are started with the child.
Run ==
  /\ caller.is = "idle"
  /\ caller' = [caller EXCEPT !.is = "polling"]
  /\ \E n \in 0 .. Output : child' = [child EXCEPT !.is = "running", !.owes = n]
  /\ reader' = [reader EXCEPT !.is = "reading"]
  /\ writer' = [is |-> IF Input = 0 THEN "done" ELSE "writing", left |-> Input]
  /\ UNCHANGED <<out, in, heir>>

SeesExit ==
  /\ caller.is = "polling" /\ child.is = "exited"
  /\ caller' = [caller EXCEPT !.is = "draining"]
  /\ UNCHANGED <<child, out, in, reader, writer, heir>>

\* The timeout: the child is killed and reaped, what it wrote is not waited
\* for.
Timeout ==
  /\ caller.is = "polling" /\ child.is = "running"
  /\ caller' = [caller EXCEPT !.is = "returned", !.result = "killed"]
  /\ child' = [child EXCEPT !.is = "exited"]
  /\ UNCHANGED <<out, in, reader, writer, heir>>

\* Mutant: the readers are joined.
JoinsForEver == FALSE

\* recv_with_grace() gives up.  DRAIN_GRACE is far longer than a reader
\* takes for what is in the pipe: it passes when the pipe is held open.
GraceIsOver == out = 0 /\ heir

\* Both threads are waited for, for the grace each.
Return ==
  /\ caller.is = "draining"
  /\ (reader.is = "done" /\ writer.is = "done") \/ GraceIsOver
  /\ caller' = [is |-> "returned", result |-> "ok"]
  /\ UNCHANGED <<child, out, in, reader, writer, heir>>

-----------------------------------------------------------------------------
(* The threads *)

OutputEnded == out = 0 /\ child.is = "exited" /\ ~heir

\* One block past the cap ends the reading, and closes the pipe.
AfterCap == "done"

\* drain_capped()
Drain ==
  /\ reader.is = "reading"
  /\ \/ /\ out > 0
        /\ out' = out - 1
        /\ reader' = [got |-> reader.got + 1,
                      is |-> IF reader.got + 1 > Capture THEN AfterCap ELSE "reading"]
     \/ /\ OutputEnded
        /\ reader' = [reader EXCEPT !.is = "done"]
        /\ UNCHANGED out
  /\ UNCHANGED <<caller, child, in, writer, heir>>

\* The writer closes the pipe when all is written, or nobody reads it.
Feed ==
  /\ writer.is = "writing"
  /\ \/ /\ in < Pipe /\ writer.left > 0
        /\ in' = in + 1
        /\ writer' = [is |-> IF writer.left = 1 THEN "done" ELSE "writing", left |-> writer.left - 1]
     \/ /\ child.is = "exited" /\ ~heir
        /\ writer' = [is |-> "done", left |-> 0]
        /\ UNCHANGED in
  /\ UNCHANGED <<caller, child, out, reader, heir>>

-----------------------------------------------------------------------------
(* The child and its descendant *)

\* A write to a pipe that nobody reads any more ends the child.
Write ==
  /\ child.is = "running" /\ child.wrote < child.owes
  /\ \/ out < Pipe /\ reader.is # "done" /\ out' = out + 1 /\ child' = [child EXCEPT !.wrote = @ + 1]
     \/ reader.is = "done" /\ child' = [child EXCEPT !.is = "exited"] /\ UNCHANGED out
  /\ UNCHANGED <<caller, in, reader, writer, heir>>

Read ==
  /\ child.is = "running" /\ in > 0
  /\ in' = in - 1
  /\ child' = [child EXCEPT !.read = @ + 1]
  /\ UNCHANGED <<caller, out, reader, writer, heir>>

Exit ==
  /\ child.is = "running"
  /\ child' = [child EXCEPT !.is = "exited"]
  /\ UNCHANGED <<caller, out, in, reader, writer, heir>>

\* A descendant inherits the pipes, and ends when it likes.
Fork ==
  /\ child.is = "running" /\ ~heir
  /\ heir' = TRUE
  /\ UNCHANGED <<caller, child, out, in, reader, writer>>

HeirEnds ==
  /\ heir
  /\ heir' = FALSE
  /\ UNCHANGED <<caller, child, out, in, reader, writer>>

Next ==
  \/ Run \/ SeesExit \/ Timeout \/ Return \/ Drain \/ Feed
  \/ Write \/ Read \/ Exit \/ Fork \/ HeirEnds

\* The clock and tole's own threads go on.  Nothing is asked of the child.
Fairness ==
  /\ WF_vars(SeesExit) /\ WF_vars(Timeout) /\ WF_vars(Return)
  /\ WF_vars(Drain) /\ WF_vars(Feed)

Spec == Init /\ [][Next]_vars /\ Fairness

-----------------------------------------------------------------------------
(* Properties *)

\* A run returns, whatever its child does and whoever holds its pipes.
RunReturns == caller.is = "polling" ~> caller.is = "returned"

\* A child that waits for room in a pipe, or for its input, waits for a
\* thread that goes on, or for a pipe that is closed: no valid run is left to
\* the timeout.
ChildIsServed ==
  caller.is = "polling" /\ child.is = "running" =>
    /\ (child.wrote < child.owes /\ out = Pipe) => reader.is \in {"reading", "done"}
    /\ (in = 0 /\ child.read < Input) => writer.is = "writing"

=============================================================================
