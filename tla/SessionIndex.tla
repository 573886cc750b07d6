---------------------------- MODULE SessionIndex ----------------------------
(***************************************************************************)
(* How a session is found again: the sessions directory of each project,   *)
(* the names of its sessions and its forks, and the index of all projects  *)
(* (crates/tole-cli/src/session_index.rs), an append-only file that every  *)
(* process writes one line to when it starts a session.  The lookups are   *)
(* those of resume_command() and the listings of main.rs.                  *)
(*                                                                         *)
(* A line is one write, which a full disk or a kill may cut: what comes    *)
(* next then stands on the same line.  A transcript that is imported into  *)
(* two projects has the same id in both.                                   *)
(***************************************************************************)
EXTENDS Naturals, Sequences, FiniteSets, SequencesExt

CONSTANTS
  Dirs,       \* the projects
  Ids,        \* of sessions, as numbers
  Imported,   \* the id that a transcript gives its session
  Names,      \* of sessions: aliases, in the session's file
  NoName,     \* of a session that has none
  MaxDepth,   \* the forks under a root that tree_lines() walks down: 64
  MaxLines    \* bound on the sessions, and the lines of the index

VARIABLES
  files,      \* the session files
  used,       \* the ids that sessions have had
  index,      \* the lines of the index; the last one may have no end
  recording   \* the sessions whose line is not written yet

vars == <<files, used, index, recording>>

-----------------------------------------------------------------------------
(* The index *)

Line(d, i) == [dir |-> d, id |-> i, whole |-> TRUE, ended |-> TRUE]

\* A line that follows a cut one is read as a part of it.
Appended(line) ==
  IF index # <<>> /\ ~Last(index).ended
  THEN [index EXCEPT ![Len(index)] = [line EXCEPT !.whole = FALSE]]
  ELSE Append(index, line)

\* Mutant: the first bad line is the end of the index.
ReadToBadLine(lines) ==
  {i \in DOMAIN lines : \A j \in 1 .. i : lines[j].whole}

\* A bad line is skipped.
Read(lines) == {i \in DOMAIN lines : lines[i].whole}

\* load(): the last line of an id wins.
Load ==
  {index[i] : i \in {j \in Read(index) :
     \A k \in Read(index) : index[k].id = index[j].id => k <= j}}

\* find(): the file is there, under the name of its session.
Exists(d, i) == \E f \in files : f.dir = d /\ f.id = i
Find(i) == {e \in Load : e.id = i /\ Exists(e.dir, i)}

\* rows(): a session whose file is gone, or unreadable, is left out.
Rows == {e \in Load : \E f \in files : f.dir = e.dir /\ f.id = e.id /\ f.readable}

-----------------------------------------------------------------------------
(* "tole resume" and "tole sessions", in a project *)

Local(d, what) == {f \in files : f.dir = d /\ f.id = what}
Named(d, what) == {f \in files : f.dir = d /\ f.readable /\ f.name = what}

\* An id of the project, then a name (of the session that was changed last);
\* then the index, which says in which project to resume it.
Answers(d, what) ==
  IF Local(d, what) # {} THEN Local(d, what)
  ELSE IF Named(d, what) # {} THEN Named(d, what)
  ELSE Find(what)

\* tree_lines(): forks under their source; one whose source is gone is a root.
\* The walk is cut below MaxDepth forks.
Listed(d) == {f \in files : f.dir = d /\ f.readable}
Roots(d) == {f \in Listed(d) : \A g \in Listed(d) : g.id # f.from}
Tree(d) ==
  LET shown[n \in 0 .. MaxDepth] ==
        IF n = 0 THEN Roots(d)
        ELSE shown[n - 1] \cup {f \in Listed(d) \ Roots(d) :
                                  \E g \in shown[n - 1] : f.from = g.id}
  IN shown[MaxDepth]

-----------------------------------------------------------------------------
(* Sessions start *)

NoSource == 0

Create(d, i, n, from) ==
  /\ ~Exists(d, i)
  /\ Len(index) + Cardinality(recording) < MaxLines
  /\ files' = files \cup {[dir |-> d, id |-> i, name |-> n, from |-> from, readable |-> TRUE]}
  /\ used' = used \cup {i}
  /\ recording' = recording \cup {Line(d, i)}
  /\ UNCHANGED index

\* Up to the names of the ids.
IsNew(i) ==
  LET new == Ids \ (used \cup {Imported}) IN i \in new /\ \A j \in new : i <= j

Start(d, i, n) == IsNew(i) /\ Create(d, i, n, NoSource)

Import(d) == Create(d, Imported, NoName, NoSource)

\* branch_command(): the fork's header says whose it is.
Branch(d, i, j) ==
  /\ IsNew(j)
  /\ \E f \in Listed(d) : f.id = i
  /\ Create(d, j, NoName, i)

\* record(): the line is written, or a part of it.  One that fails, or is
\* turned off, stays unwritten.
Record(line) ==
  /\ recording' = recording \ {line}
  /\ index' \in {Appended(line), Appended([line EXCEPT !.whole = FALSE, !.ended = FALSE])}
  /\ UNCHANGED <<files, used>>

\* Somebody removes a session's file, or it is damaged.
Gone(f) ==
  /\ files' = files \ {f}
  /\ UNCHANGED <<used, index, recording>>

Damage(f) ==
  /\ f.readable
  /\ files' = (files \ {f}) \cup {[f EXCEPT !.readable = FALSE]}
  /\ UNCHANGED <<used, index, recording>>

-----------------------------------------------------------------------------

Init == files = {} /\ used = {} /\ index = <<>> /\ recording = {}

Next ==
  \/ \E d \in Dirs, i \in Ids, n \in Names \cup {NoName} : Start(d, i, n)
  \/ \E d \in Dirs : Import(d)
  \/ \E d \in Dirs, i, j \in Ids : Branch(d, i, j)
  \/ \E line \in recording : Record(line)
  \/ \E f \in files : Gone(f) \/ Damage(f)

Spec == Init /\ [][Next]_vars

-----------------------------------------------------------------------------
(* Properties *)

\* More than MaxDepth other sessions of the project stand above f, each the
\* source of the one below it.
IsTooDeep(d, f) ==
  \E line \in [0 .. MaxDepth + 1 -> Listed(d)] :
    /\ line[0] = f
    /\ \A n \in 0 .. MaxDepth : line[n].from = line[n + 1].id
    /\ \A m, n \in 0 .. MaxDepth + 1 : line[m] = line[n] => m = n

\* A session that is there and whose line was written, and written last for
\* its id, is found by its id from every project that has no such id or name,
\* whatever became of the other lines; what is found is there, and has the
\* id or the name that was asked for; and the tree shows the sessions of the
\* project, down to the depth at which it is cut (session_index.rs, lines 12-16,
\* 99-111, 120-122 and 230; main.rs, line 1903).
SessionsAreFound ==
  /\ \A k \in DOMAIN index :
       LET e == index[k] IN
       /\ e.whole /\ Exists(e.dir, e.id)
       /\ \A j \in DOMAIN index : (index[j].whole /\ index[j].id = e.id) => j <= k
       => \A d \in Dirs :
            Local(d, e.id) # {} \/ Named(d, e.id) # {} \/ e \in Answers(d, e.id)
  /\ \A d \in Dirs, what \in Ids \cup Names :
       \A found \in Answers(d, what) :
         \E f \in files : /\ f.dir = found.dir /\ f.id = found.id
                         /\ what \in {f.id, f.name}
  /\ \A d \in Dirs :
       Tree(d) \subseteq Listed(d) /\ \A f \in Listed(d) \ Tree(d) : IsTooDeep(d, f)

=============================================================================
