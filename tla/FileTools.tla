----------------------------- MODULE FileTools -----------------------------
(***************************************************************************)
(* The tools that read and change one file of the workspace: read_file     *)
(* (read_file.rs), edit_file and delete_file (file_tools.rs), write_file   *)
(* (crates/tole-cli/src/tools.rs).  A worker is a turn: two sessions of    *)
(* one host share a process, and two processes share the workspace.        *)
(*                                                                         *)
(* A text has two parts, so that it can be cut: a read and a hash see what *)
(* is there at one moment, a write is two steps.  Directories and paths    *)
(* that leave the workspace are refused before anything changes and are    *)
(* left out, and so is a symbolic link: delete_file removes the link, and  *)
(* never the file that it leads to.                                        *)
(***************************************************************************)
EXTENDS Naturals, Sequences, FiniteSets

CONSTANTS
  Workers,
  Pids,
  Parts,         \* what a part of a text says
  Nanos,         \* the part of a second, in the name of a temporary file
  Legacy,        \* the names of earlier versions had none
  MaxChanges,    \* bound on the calls of write_file and edit_file
  MaxDeletes,    \* bound on those of delete_file
  MaxKills       \* bound on the processes that are killed

VARIABLES
  pid,      \* of each worker
  file,     \* the file: an inode with its text and its mode
  temps,    \* the temporary files, by name
  turn,     \* what each worker is doing
  changes, deletions, kills

vars == <<pid, file, temps, turn, changes, deletions, kills>>
counters == <<changes, deletions, kills>>

-----------------------------------------------------------------------------
(* Texts and files *)

Hole == "hole"
Unread == <<"unread">>

\* A write at the position that a descriptor has reached: what another one
\* has cut off is a hole.
Written(text, n, part) ==
  [i \in 1 .. IF Len(text) < n THEN n ELSE Len(text) |->
     IF i = n THEN part ELSE IF i <= Len(text) THEN text[i] ELSE Hole]

\* The text with a snippet of it replaced.
Edited(text, part) == [text EXCEPT ![1] = part]

NoFile == [inode |-> 0, text |-> <<>>, mode |-> "none"]
Created(i) == [inode |-> i, text |-> <<>>, mode |-> "default"]
IsThere == file # NoFile

Idle == [at |-> "idle", seen |-> Unread, text |-> Unread, temp |-> <<>>, inode |-> 0]

Used ==
  {0, file.inode} \cup {temps[n].inode : n \in DOMAIN temps}
    \cup {turn[w].inode : w \in Workers}
Fresh == CHOOSE i \in 0 .. Cardinality(Used) : i \notin Used

Is(w, at) == turn[w].at = at
Becomes(w, t) == turn' = [turn EXCEPT ![w] = t]
Goes(w, at) == turn' = [turn EXCEPT ![w].at = at]
Ends(w) == Becomes(w, [Idle EXCEPT !.seen = turn[w].seen])

Without(names) == [n \in DOMAIN temps \ names |-> temps[n]]

\* The worker's descriptor writes a part of its text to its inode, wherever
\* that is, if it still is anywhere.
WritePart(w, n) ==
  LET After(f) ==
        IF f.inode = turn[w].inode /\ n \in DOMAIN turn[w].text
        THEN [f EXCEPT !.text = Written(@, n, turn[w].text[n])]
        ELSE f
  IN /\ file' = After(file)
     /\ temps' = [name \in DOMAIN temps |-> After(temps[name])]

-----------------------------------------------------------------------------
(* read_file, write_file, delete_file *)

Read(w) ==
  /\ Is(w, "idle") /\ IsThere
  /\ Becomes(w, [Idle EXCEPT !.seen = file.text])
  /\ UNCHANGED <<pid, file, temps, counters>>

\* write_jailed() cuts the file off, or creates it, and then writes.
StartWrite(w, text) ==
  /\ Is(w, "idle") /\ changes < MaxChanges
  /\ LET f == IF IsThere THEN [file EXCEPT !.text = <<>>] ELSE Created(Fresh)
     IN /\ file' = f
        /\ Becomes(w, [turn[w] EXCEPT !.at = "write", !.text = text, !.inode = f.inode])
  /\ changes' = changes + 1
  /\ UNCHANGED <<pid, temps, deletions, kills>>

\* A write that fails leaves what is there.
Write(w) ==
  /\ \/ Is(w, "write") /\ WritePart(w, 1) /\ Goes(w, "write_rest")
     \/ Is(w, "write_rest") /\ WritePart(w, 2) /\ Ends(w)
     \/ turn[w].at \in {"write", "write_rest"} /\ Ends(w) /\ UNCHANGED <<file, temps>>
  /\ UNCHANGED <<pid, counters>>

Delete(w) ==
  /\ Is(w, "idle") /\ IsThere /\ deletions < MaxDeletes
  /\ file' = NoFile
  /\ deletions' = deletions + 1
  /\ UNCHANGED <<pid, temps, turn, changes, kills>>

-----------------------------------------------------------------------------
(* edit_file *)

\* The file must be what the model has read, and the snippet be there.
StartEdit(w, part) ==
  /\ Is(w, "idle") /\ IsThere /\ changes < MaxChanges
  /\ turn[w].seen = file.text
  /\ turn[w].seen # <<>>
  /\ Becomes(w, [turn[w] EXCEPT !.at = "edit", !.text = Edited(turn[w].seen, part)])
  /\ changes' = changes + 1
  /\ UNCHANGED <<pid, file, temps, deletions, kills>>

\* Mutant: the names of earlier versions.
PidTemp(w, nanos) == <<pid[w], Legacy>>

Temp(w, nanos) == <<pid[w], nanos>>

\* atomic_write() sweeps the temporary file of an earlier version, then it
\* takes a name.  Two attempts that are under way in one process do not read
\* the same nanosecond.
NameTemp(w) ==
  /\ Is(w, "edit")
  /\ temps' = Without({<<pid[w], Legacy>>})
  /\ \E n \in Nanos :
       /\ \A v \in Workers \ {w} : turn[v].temp # <<pid[w], n>>
       /\ Becomes(w, [turn[w] EXCEPT !.at = "open", !.temp = Temp(w, n)])
  /\ UNCHANGED <<pid, file, counters>>

\* create_new: what may have the name is removed, and it is tried once more.
OpenTemp(w) ==
  LET name == turn[w].temp IN
  /\ turn[w].at \in {"open", "reopen"} /\ name \notin DOMAIN temps
  /\ temps' = [n \in DOMAIN temps \cup {name} |->
                IF n = name THEN Created(Fresh) ELSE temps[n]]
  /\ Becomes(w, [turn[w] EXCEPT !.at = "fill", !.inode = Fresh])
  /\ UNCHANGED <<pid, file, counters>>

OpenFails(w) ==
  /\ \/ Is(w, "open") /\ temps' = Without({turn[w].temp}) /\ Goes(w, "reopen")
     \/ Is(w, "reopen") /\ Ends(w) /\ UNCHANGED temps
  /\ UNCHANGED <<pid, file, counters>>

Fill(w) ==
  /\ \/ Is(w, "fill") /\ WritePart(w, 1) /\ Goes(w, "fill_rest")
     \/ Is(w, "fill_rest") /\ WritePart(w, 2) /\ Goes(w, "mode")
  /\ UNCHANGED <<pid, counters>>

\* The temporary file takes the mode of the file, when there still is one.
KeepMode(w) ==
  LET name == turn[w].temp IN
  /\ Is(w, "mode")
  /\ \/ /\ IsThere /\ name \in DOMAIN temps
        /\ temps' = [temps EXCEPT ![name].mode = file.mode]
        /\ Goes(w, "place")
     \/ ~IsThere /\ Goes(w, "place") /\ UNCHANGED temps
  /\ UNCHANGED <<pid, file, counters>>

\* The model is told the hash of the text that it has made.
Place(w) ==
  /\ Is(w, "place")
  /\ IF turn[w].temp \in DOMAIN temps
     THEN /\ file' = temps[turn[w].temp] /\ temps' = Without({turn[w].temp})
          /\ Becomes(w, [Idle EXCEPT !.seen = turn[w].text])
     ELSE Ends(w) /\ UNCHANGED <<file, temps>>
  /\ UNCHANGED <<pid, counters>>

\* A step that fails removes the temporary file.
GiveUp(w) ==
  /\ turn[w].at \in {"fill", "fill_rest", "mode", "place"}
  /\ temps' = Without({turn[w].temp})
  /\ Ends(w)
  /\ UNCHANGED <<pid, file, counters>>

-----------------------------------------------------------------------------

\* A process is killed; another one may be given its pid.
Kill(p) ==
  /\ kills < MaxKills
  /\ \E w \in Workers : pid[w] = p /\ ~Is(w, "idle")
  /\ turn' = [w \in Workers |-> IF pid[w] = p THEN Idle ELSE turn[w]]
  /\ kills' = kills + 1
  /\ UNCHANGED <<pid, file, temps, changes, deletions>>

\* Up to the names of the processes and the texts.
Init ==
  LET p == CHOOSE q \in Pids : TRUE
      v == CHOOSE u \in Parts : TRUE
  IN /\ pid \in {f \in [Workers -> Pids] : f[CHOOSE w \in Workers : TRUE] = p}
     /\ file = [inode |-> 1, text |-> <<v, v>>, mode |-> "own"]
     /\ temps \in {<<>>, [n \in {<<p, Legacy>>} |-> Created(2)]}
     /\ turn = [w \in Workers |-> Idle]
     /\ changes = 0 /\ deletions = 0 /\ kills = 0

Next ==
  \/ \E w \in Workers, v \in Parts : StartWrite(w, <<v, v>>) \/ StartEdit(w, v)
  \/ \E w \in Workers :
       \/ Read(w) \/ Write(w) \/ Delete(w)
       \/ NameTemp(w) \/ OpenTemp(w) \/ OpenFails(w) \/ Fill(w) \/ KeepMode(w) \/ Place(w) \/ GiveUp(w)
  \/ \E p \in Pids : Kill(p)

Spec == Init /\ [][Next]_vars

-----------------------------------------------------------------------------
(* Properties *)

\* What an edit puts in the place of the file is the text that it has made
\* from the text that the model has read, all of it; and the file keeps the
\* mode that it had, unless it has been deleted.  So it is whoever edits,
\* writes, deletes or is killed at the same time (file_tools.rs, lines 73-104
\* and 137-140).
EditsAreWhole ==
  /\ \A w \in Workers :
       Is(w, "place") => /\ turn[w].temp \in DOMAIN temps
                         /\ temps[turn[w].temp].text = turn[w].text
  /\ deletions = 0 => file.mode = "own"

=============================================================================
