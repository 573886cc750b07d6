---------------------------- MODULE SiblingWatch ----------------------------
(***************************************************************************)
(* Change notices between child agents (crates/tole-core/src/              *)
(* sibling_watch.rs, crates/tole-cli/src/sibling.rs).  Every child is a    *)
(* process.  It appends what its file tools read and wrote to one log that *)
(* all of them share, after the tool has run; its watcher thread folds the *)
(* log from where the child started, and tells the child when a sibling    *)
(* wrote a file that the child had read or written.                        *)
(*                                                                         *)
(* A line is one append.  A reader may find it half-written, and a writer  *)
(* that is killed or has no space left leaves the half, which the next     *)
(* line is glued to.  The queue that the notices go to, and its bound, are *)
(* in module TurnLoop.  A line that is too long is not written.            *)
(***************************************************************************)
EXTENDS Naturals, Sequences, FiniteSets

CONSTANTS
  Children,
  Watchers,    \* the children whose watcher is followed; watchers share nothing but the log
  Paths,
  MaxTracked,  \* MAX_TRACKED_PATHS
  MaxLines,    \* bound on the log
  Nobody

VARIABLES
  log,      \* the complete lines
  tail,     \* the line that is being written, or a fragment
  children  \* each child: what it has done, and what its watcher knows

vars == <<log, tail, children>>

Ops == {"r", "w"}
Lines == [by : Children, op : Ops, path : Paths]
Garbage == [by |-> Nobody, op |-> "r", path |-> Nobody]
NoTail == [is |-> "none", line |-> Garbage]

\* "told" is a ghost: the line that made the last notice of each path; "stale"
\* is one, too: the paths that a sibling has written since the child's own
\* access, with no notice since.
NewChild == [at |-> "off", op |-> "r", path |-> Nobody, start |-> 0, offset |-> 0, mine |-> {},
             told |-> [p \in Paths |-> 0], touched |-> {}, stale |-> {}]

TypeOK ==
  /\ \A i \in DOMAIN log : log[i] \in Lines \cup {Garbage}
  /\ tail.is \in {"none", "half", "torn"}
  /\ \A c \in Children : /\ children[c].at \in {"off", "idle", "done", "writes"}
                         /\ children[c].start <= children[c].offset
                         /\ children[c].offset <= Len(log)
                         /\ children[c].mine \subseteq Paths

Init ==
  /\ log = <<>>
  /\ tail = NoTail
  /\ children = [c \in Children |-> NewChild]

At(c, at) == children[c].at = at

\* start_watcher(): from_end(), or the whole log when its end cannot be read.
StartChild(c) ==
  /\ At(c, "off")
  /\ \E start \in {0, Len(log)} :
       children' = [children EXCEPT ![c] =
         IF c \in Watchers
         THEN [NewChild EXCEPT !.at = "idle", !.start = start, !.offset = start]
         ELSE [NewChild EXCEPT !.at = "idle"]]
  /\ UNCHANGED <<log, tail>>

-----------------------------------------------------------------------------
(* The tools *)

\* Tracked::execute(): the tool has run, and succeeded.
Access(c, op, path) ==
  /\ At(c, "idle")
  /\ Len(log) < MaxLines
  /\ children' = [d \in Children |->
       IF d = c THEN [children[c] EXCEPT !.at = "done", !.op = op, !.path = path,
                                         !.touched = IF c \in Watchers THEN @ \cup {path} ELSE @,
                                         !.stale = @ \ {path}]
       ELSE IF op = "w" /\ path \in children[d].touched /\ d \in Watchers
       THEN [children[d] EXCEPT !.stale = @ \cup {path}]
       ELSE children[d]]
  /\ UNCHANGED <<log, tail>>

\* TouchRecorder::record(): the append, in two halves; appends do not mix.
RecordStarts(c) ==
  /\ At(c, "done")
  /\ tail.is # "half"
  /\ tail' = [is |-> "half",
              line |-> IF tail.is = "torn" THEN Garbage
                       ELSE [by |-> c, op |-> children[c].op, path |-> children[c].path]]
  /\ children' = [children EXCEPT ![c] = [@ EXCEPT !.at = "writes", !.op = "r", !.path = Nobody]]
  /\ UNCHANGED log

RecordEnds(c) ==
  /\ At(c, "writes")
  /\ log' = Append(log, tail.line)
  /\ tail' = NoTail
  /\ children' = [children EXCEPT ![c] = [@ EXCEPT !.at = "idle", !.op = "r", !.path = Nobody]]

\* No space left: the tool's result is the same.
RecordFails(c) ==
  /\ At(c, "writes")
  /\ tail' = [tail EXCEPT !.is = "torn", !.line = Garbage]
  /\ children' = [children EXCEPT ![c] = [@ EXCEPT !.at = "idle", !.op = "r", !.path = Nobody]]
  /\ UNCHANGED log

-----------------------------------------------------------------------------
(* The watcher *)

\* Mutant: a notice leaves its path among those that are watched.
FoldAndKeep(c, watch, i) ==
  LET line == log[i] IN
  IF line.by = c
  THEN [watch EXCEPT !.mine = @ \cup {line.path}]
  ELSE IF line.op = "w" /\ line.path \in watch.mine
       THEN [watch EXCEPT !.told = [@ EXCEPT ![line.path] = i], !.stale = @ \ {line.path}]
       ELSE watch

\* One line of SiblingWatcher::poll(), the i-th of the log.
FoldLine(c, watch, i) ==
  LET line == log[i] IN
  IF line.by = c
  THEN IF line.path \in watch.mine \/ Cardinality(watch.mine) < MaxTracked
       THEN [watch EXCEPT !.mine = @ \cup {line.path}]
       ELSE watch
  ELSE IF line.op = "w" /\ line.path \in watch.mine
       THEN [watch EXCEPT !.mine = @ \ {line.path}, !.told = [@ EXCEPT ![line.path] = i],
                          !.stale = @ \ {line.path}]
       ELSE watch

\* poll(): the complete lines since the last one.
Poll(c) ==
  /\ ~At(c, "off")
  /\ c \in Watchers
  /\ children[c].offset < Len(log)
  /\ LET Watch[i \in children[c].offset .. Len(log)] ==
           IF i = children[c].offset THEN children[c] ELSE FoldLine(c, Watch[i - 1], i)
     IN  children' = [children EXCEPT ![c] = [Watch[Len(log)] EXCEPT !.offset = Len(log)]]
  /\ UNCHANGED <<log, tail>>

-----------------------------------------------------------------------------
Next ==
  \E c \in Children :
    \/ StartChild(c)
    \/ \E op \in Ops, path \in Paths : Access(c, op, path)
    \/ RecordStarts(c)
    \/ RecordEnds(c)
    \/ RecordFails(c)
    \/ Poll(c)

Spec == Init /\ [][Next]_vars

-----------------------------------------------------------------------------
(* Properties *)

\* However the log was cut into polls, a path that the child has accessed, by
\* the lines its watcher has read, is watched while no sibling's write follows
\* the access, and was told by the first write that does.  (The number of
\* paths is below MaxTracked.)
TrackedOrTold ==
  \A c \in Watchers, p \in Paths :
    LET read == children[c].start + 1 .. children[c].offset
        own == {i \in read : log[i].by = c /\ log[i].path = p}
        since == {i \in read : /\ \A j \in own : j < i
                               /\ log[i].path = p /\ log[i].op = "w"}
    IN  own # {} =>
          IF since = {} THEN p \in children[c].mine
          ELSE /\ p \notin children[c].mine
               /\ children[c].told[p] \in since
               /\ \A i \in since : children[c].told[p] <= i

\* sibling_watch.rs:5-8: "When a sibling WRITES a path this child has read or
\* written, the child gets a notice at its next safe point": at the latest
\* when everything that was done is in the log and has been read.
ChangeIsToldOf ==
  \A c \in Watchers :
    (/\ tail.is = "none"
     /\ \A d \in Children : children[d].at \in {"off", "idle"}
     /\ \A i \in DOMAIN log : log[i] # Garbage
     /\ children[c].offset = Len(log))
      => children[c].stale = {}

=============================================================================
