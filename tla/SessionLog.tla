------------------------------ MODULE SessionLog ------------------------------
(***************************************************************************)
(* The session file of crates/tole-core/src/storage.rs: JsonlStorage.      *)
(*                                                                         *)
(* One physical line per commit, appended through a buffered writer,       *)
(* flushed, and fdatasynced unless the commit defers it.  A writable       *)
(* handle holds an exclusive lock on a sidecar file.  A failed append      *)
(* poisons the handle; `open` discards a torn last line; `compact`         *)
(* rewrites the file and renames it over the old one.  Processes may be    *)
(* killed and the machine may lose power between any two system calls.     *)
(*                                                                         *)
(* A commit carries one entry and one state record.  Which entry and which *)
(* transition is left out: the CAS and the legality table are checked      *)
(* before a byte is written (module EffectSandwich has them).              *)
(***************************************************************************)
EXTENDS Integers, Sequences, SequencesExt, FiniteSets

CONSTANTS
  Procs,           \* processes that may have the session open
  Inodes,          \* files the session's name may refer to
  NoFile,          \* the session has no file; no inode
  Nobody,          \* nobody holds the writer lock
  MaxCommits,      \* bound on the commits attempted
  MaxSeq,          \* bound on the sequence number that compact() raises
  DirPersist,      \* fdatasync of a file also persists its directory entry
  SyncDirMayFail   \* the fsync of the directory may return an error

ASSUME NoFileAssumption == NoFile \notin Inodes
ASSUME NobodyAssumption == Nobody \notin Procs
ASSUME BoundsAssumption == MaxCommits \in Nat /\ MaxSeq \in Nat
ASSUME FlagsAssumption == DirPersist \in BOOLEAN /\ SyncDirMayFail \in BOOLEAN

VARIABLES
  files,     \* the contents of each inode
  path,      \* the inode the session's name refers to
  onDisk,    \* the inodes that name may refer to after a power cut
  lock,      \* the process that holds the sidecar lock
  handle,    \* each process's handle on the session
  attempts,  \* the number of commits attempted so far
  acked,     \* the commits the callers were told of, by Ok or by an open
  promised   \* how many of them were acknowledged as durable

disk == <<files, path, onDisk>>
vars == <<disk, lock, handle, attempts, acked, promised>>

-----------------------------------------------------------------------------
(* Files *)

Tags == 1 .. MaxCommits

\* A line spans the sequence numbers first..last; `tag` says which commit
\* wrote it, 0 being the header, a compaction snapshot or garbage.
HeaderLine == [first |-> 0, last |-> 0, tag |-> 0]
CommitLine(seq, t) == [first |-> seq + 1, last |-> seq + 2, tag |-> t]
EntryLine(e) == [first |-> e.seq, last |-> e.seq, tag |-> e.tag]
SnapshotLine(seq) == [first |-> seq, last |-> seq, tag |-> 0]

\* `torn`: the file ends in a fragment without its newline.  `synced` lines
\* are on the disk.
EmptyFile == [lines |-> <<>>, torn |-> FALSE, synced |-> 0]

\* The length of the file, told apart as far as fstat tells it apart.
Length(f) == 2 * Len(f.lines) + (IF f.torn THEN 1 ELSE 0)

\* Mutant: the durability flag is ignored and nothing is synced.
WrittenUnsynced(f, ls, sync) ==
  [f EXCEPT !.torn = FALSE,
            !.lines = @ \o [i \in DOMAIN ls |-> IF i = 1 /\ f.torn THEN HeaderLine ELSE ls[i]]]

\* The lines that writing ls in order leaves, all of them synced or not.  A
\* line written after a fragment becomes one unreadable line with it.
Written(f, ls, sync) ==
  LET new == [i \in DOMAIN ls |-> IF i = 1 /\ f.torn THEN HeaderLine ELSE ls[i]]
      lines == f.lines \o new
  IN  [lines |-> lines, torn |-> FALSE,
       synced |-> IF sync THEN Len(lines) ELSE f.synced]

AddLine(f, line) == Written(f, <<line>>, FALSE)

\* open_with(): a complete header, then strictly increasing numbers.
Readable(f) ==
  /\ f.lines # <<>>
  /\ \A i \in 2 .. Len(f.lines) : f.lines[i].first > f.lines[i - 1].last

LastSeq(f) == f.lines[Len(f.lines)].last

\* The elements of s that are in K, in order.  A recursive function, for the
\* proofs: the prover knows nothing of SelectSeq.
Kept(s, K) ==
  LET kept[n \in 0 .. Len(s)] ==
        IF n = 0 THEN <<>>
        ELSE IF s[n] \in K THEN Append(kept[n - 1], s[n]) ELSE kept[n - 1]
  IN  kept[Len(s)]

\* The entries that a replay of the file loads: those of its commits.
Stamps(lines) == [i \in DOMAIN lines |-> [tag |-> lines[i].tag, seq |-> lines[i].first]]
EntriesOf(f) == Kept(Stamps(f.lines), [tag : Tags, seq : Nat])

TagsIn(entries) == [i \in DOMAIN entries |-> entries[i].tag]
TagsOf(f) == TagsIn(EntriesOf(f))

-----------------------------------------------------------------------------
(* Handles *)

\* stage "creating": the file is made but neither locked nor written.
\* `rest`: what a failed write left in the BufWriter, to be written when the
\* handle is dropped.
Closed == [stage |-> "closed", ino |-> NoFile, mem |-> <<>>, seq |-> 0,
           goodLen |-> 0, poisoned |-> FALSE, rest |-> <<>>]

Creating(i) == [Closed EXCEPT !.stage = "creating", !.ino = i]

IsOpen(p) == handle[p].stage = "open"
File(p) == files[handle[p].ino]

Opened(i, f) ==
  [stage |-> "open", ino |-> i, mem |-> EntriesOf(f), seq |-> LastSeq(f),
   goodLen |-> Length(f), poisoned |-> FALSE, rest |-> <<>>]

InUse == {path} \cup onDisk \cup {handle[p].ino : p \in Procs}
FreshInode == CHOOSE i \in Inodes : i \notin InUse

\* The handle goes away and the OS releases its lock.
Drops(p) ==
  /\ handle' = [handle EXCEPT ![p] = Closed]
  /\ lock' = IF lock = p THEN Nobody ELSE lock

Ghosts == <<attempts, acked, promised>>

-----------------------------------------------------------------------------
(* create() and open() *)

\* create_inner() makes the file before it takes the lock.
CreateFile(p) ==
  /\ handle[p] = Closed
  /\ path = NoFile
  /\ Inodes \ InUse # {}
  /\ files' = [files EXCEPT ![FreshInode] = EmptyFile]
  /\ path' = FreshInode
  /\ onDisk' = onDisk \cup {FreshInode}
  /\ handle' = [handle EXCEPT ![p] = Creating(FreshInode)]
  /\ UNCHANGED <<lock, Ghosts>>

\* ... locks it and writes the header: flushed, not synced.
CreateHeader(p) ==
  /\ handle[p].stage = "creating"
  /\ lock = Nobody
  /\ LET f == Written(File(p), <<HeaderLine>>, FALSE)
     IN  /\ files' = [files EXCEPT ![handle[p].ino] = f]
         /\ handle' = [handle EXCEPT ![p] = Opened(handle[p].ino, f)]
  /\ lock' = p
  /\ UNCHANGED <<path, onDisk, Ghosts>>

\* The lock is taken, or the header cannot be written in full: create()
\* fails and leaves the file behind.
CreateFails(p) ==
  /\ handle[p].stage = "creating"
  /\ \E torn \in BOOLEAN :
       /\ torn => lock = Nobody
       /\ files' = [files EXCEPT ![handle[p].ino].torn = torn]
  /\ handle' = [handle EXCEPT ![p] = Closed]
  /\ UNCHANGED <<path, onDisk, lock, Ghosts>>

\* open(): lock, replay, cut a torn tail off and sync the repair.  What is
\* read is what the caller knows from now on.
Open(p) ==
  /\ handle[p] = Closed
  /\ path # NoFile
  /\ lock = Nobody
  /\ Readable(files[path])
  /\ LET f == files[path]
         g == IF f.torn THEN [f EXCEPT !.torn = FALSE, !.synced = Len(f.lines)]
              ELSE f
     IN  /\ files' = [files EXCEPT ![path] = g]
         /\ onDisk' = IF f.torn THEN {path} ELSE onDisk
         /\ handle' = [handle EXCEPT ![p] = Opened(path, g)]
         /\ acked' = TagsOf(g)
  /\ lock' = p
  /\ UNCHANGED <<path, attempts, promised>>

-----------------------------------------------------------------------------
(* commit() *)

\* The poison gate, then the length check of append_line().
CanAppend(p) ==
  /\ IsOpen(p)
  /\ ~handle[p].poisoned
  /\ handle[p].goodLen = Length(File(p))

\* The line this commit would write, with its number.
NextTag == attempts + 1
NextLine(p) == CommitLine(handle[p].seq, NextTag)

\* fdatasync persists every earlier byte of the file as well.
DirAfterSync(p, sync) ==
  IF sync /\ DirPersist /\ handle[p].ino = path THEN {path} ELSE onDisk

\* Memory once the line is in the file.
Remembered(p) ==
  [handle[p] EXCEPT !.mem = Append(@, [tag |-> NextTag,
                                       seq |-> handle[p].seq + 1]),
                    !.seq = @ + 2]

Commit(p, deferred) ==
  /\ CanAppend(p)
  /\ attempts < MaxCommits
  /\ LET f == Written(File(p), handle[p].rest \o <<NextLine(p)>>, ~deferred)
     IN  /\ files' = [files EXCEPT ![handle[p].ino] = f]
         /\ handle' = [handle EXCEPT ![p] =
                         [Remembered(p) EXCEPT !.goodLen = Length(f)]]
  /\ onDisk' = DirAfterSync(p, ~deferred)
  /\ attempts' = NextTag
  /\ acked' = Append(acked, NextTag)
  /\ promised' = IF deferred THEN promised ELSE Len(acked')
  /\ UNCHANGED <<path, lock>>

\* What a write that does not complete may leave in the file, and in the
\* buffer: nothing, a fragment, or the whole line (the sync failed).
PartlyWritten(f, line) ==
  { [file |-> f, rest |-> <<line>>],
    [file |-> [f EXCEPT !.torn = TRUE], rest |-> <<line>>],
    [file |-> AddLine(f, line), rest |-> <<>>] }

\* Mutant: the error is returned but the handle is not poisoned.
PoisonForgotten(p, rest) == [handle[p] EXCEPT !.rest = rest]

Poisoned(p, rest) == [handle[p] EXCEPT !.poisoned = TRUE, !.rest = rest]

CommitFails(p) ==
  /\ CanAppend(p)
  /\ attempts < MaxCommits
  /\ \E w \in PartlyWritten(File(p), NextLine(p)) :
       /\ files' = [files EXCEPT ![handle[p].ino] = w.file]
       /\ handle' = [handle EXCEPT ![p] = Poisoned(p, w.rest)]
  /\ attempts' = NextTag
  /\ UNCHANGED <<path, onDisk, lock, acked, promised>>

\* The process is killed in append_line(); its buffer dies with it.
CommitKilled(p) ==
  /\ CanAppend(p)
  /\ attempts < MaxCommits
  /\ \E w \in PartlyWritten(File(p), NextLine(p)) :
       files' = [files EXCEPT ![handle[p].ino] = w.file]
  /\ Drops(p)
  /\ attempts' = NextTag
  /\ UNCHANGED <<path, onDisk, acked, promised>>

\* The handle is dropped: its BufWriter tries once more to write what a
\* failed flush left behind, completing the fragment or not.
Close(p) ==
  /\ IsOpen(p)
  /\ \/ files' = files
     \/ /\ handle[p].rest # <<>>
        /\ files' = [files EXCEPT ![handle[p].ino] =
                       AddLine([@ EXCEPT !.torn = FALSE], handle[p].rest[1])]
  /\ Drops(p)
  /\ UNCHANGED <<path, onDisk, Ghosts>>

-----------------------------------------------------------------------------
(* compact() *)

\* The rewritten file, synced before it is renamed: the entries with their
\* own numbers and a snapshot with a new one.
Rewritten(p) ==
  LET entries == [i \in DOMAIN handle[p].mem |-> EntryLine(handle[p].mem[i])]
      lines == <<HeaderLine>> \o entries \o <<SnapshotLine(handle[p].seq + 1)>>
  IN  [lines |-> lines, torn |-> FALSE, synced |-> Len(lines)]

\* Everything up to the rename.  The directory is not synced yet.
Renames(p) ==
  /\ IsOpen(p)
  /\ handle[p].seq < MaxSeq
  /\ Inodes \ InUse # {}
  /\ files' = [files EXCEPT ![FreshInode] = Rewritten(p)]
  /\ path' = FreshInode

\* Mutant: the lock is on the session file, so the rename gives it up.
CompactGivesUpLock(p) ==
  /\ Renames(p)
  /\ onDisk' = {path'}
  /\ handle' = [handle EXCEPT ![p] = [Opened(path', files'[path']) EXCEPT
                                        !.mem = handle[p].mem]]
  /\ lock' = Nobody
  /\ promised' = Len(acked)
  /\ UNCHANGED <<attempts, acked>>

\* The directory is synced and the writer reopened; the poison is cleared.
CompactDone(p) ==
  /\ Renames(p)
  /\ onDisk' = {path'}
  /\ handle' = [handle EXCEPT ![p] = [Opened(path', files'[path']) EXCEPT
                                        !.mem = handle[p].mem]]
  /\ promised' = Len(acked)
  /\ UNCHANGED <<lock, attempts, acked>>

\* The writer cannot be reopened: the handle is poisoned.
CompactReopenFails(p) ==
  /\ Renames(p)
  /\ onDisk' = {path'}
  /\ handle' = [handle EXCEPT ![p].poisoned = TRUE]
  /\ UNCHANGED <<lock, Ghosts>>

\* The directory cannot be synced: compact() returns with the old writer in
\* place.
CompactSyncDirFails(p) ==
  /\ SyncDirMayFail
  /\ Renames(p)
  /\ onDisk' = onDisk \cup {path'}
  /\ UNCHANGED <<handle, lock, Ghosts>>

CompactKilled(p) ==
  /\ Renames(p)
  /\ onDisk' = onDisk \cup {path'}
  /\ Drops(p)
  /\ UNCHANGED Ghosts

-----------------------------------------------------------------------------
(* Crashes *)

Kill(p) ==
  /\ handle[p] # Closed
  /\ Drops(p)
  /\ UNCHANGED <<disk, Ghosts>>

\* A power cut keeps the synced lines and any number of those after them.
Survivors(f) ==
  { [lines |-> SubSeq(f.lines, 1, n), torn |-> torn, synced |-> n] :
      n \in f.synced .. Len(f.lines), torn \in BOOLEAN }

\* A torn tail needs bytes to come from.
Plausible(f, g) == g.torn => f.torn \/ Len(g.lines) < Len(f.lines)

\* The commits still known are those that the surviving file holds.
PowerCut ==
  /\ \E i \in onDisk :
       /\ path' = i
       /\ onDisk' = {i}
       /\ IF i = NoFile
          THEN /\ files' = [j \in Inodes |-> EmptyFile]
               /\ acked' = <<>>
          ELSE \E g \in {g \in Survivors(files[i]) : Plausible(files[i], g)} :
                 /\ files' = [j \in Inodes |-> IF j = i THEN g ELSE EmptyFile]
                 /\ acked' = Kept(acked, Range(TagsOf(g)))
  /\ handle' = [p \in Procs |-> Closed]
  /\ lock' = Nobody
  /\ UNCHANGED <<attempts, promised>>

-----------------------------------------------------------------------------

Init ==
  /\ files = [i \in Inodes |-> EmptyFile]
  /\ path = NoFile
  /\ onDisk = {NoFile}
  /\ lock = Nobody
  /\ handle = [p \in Procs |-> Closed]
  /\ attempts = 0
  /\ acked = <<>>
  /\ promised = 0

Create(p) == CreateFile(p) \/ CreateHeader(p) \/ CreateFails(p)

Compact(p) ==
  \/ CompactDone(p)
  \/ CompactReopenFails(p)
  \/ CompactSyncDirFails(p)
  \/ CompactKilled(p)

Next ==
  \/ \E p \in Procs :
       \/ Create(p)
       \/ Open(p)
       \/ \E deferred \in BOOLEAN : Commit(p, deferred)
       \/ CommitFails(p)
       \/ CommitKilled(p)
       \/ Close(p)
       \/ Compact(p)
       \/ Kill(p)
  \/ PowerCut

Spec == Init /\ [][Next]_vars

-----------------------------------------------------------------------------
(* Properties *)

\* `mem` and `acked` hold numbered commits; a handle that is not closed
\* names a file.
TypeOK ==
  /\ path \in Inodes \cup {NoFile}
  /\ onDisk \subseteq Inodes \cup {NoFile}
  /\ lock \in Procs \cup {Nobody}
  /\ attempts \in 0 .. MaxCommits
  /\ Range(acked) \subseteq Tags
  /\ promised \in 0 .. MaxCommits
  /\ \A p \in Procs :
       /\ handle[p].stage \in {"closed", "creating", "open"}
       /\ handle[p].stage = "closed" <=> handle[p].ino = NoFile
       /\ \A e \in Range(handle[p].mem) : e.tag \in Tags /\ e.seq \in Nat
  /\ \A i \in Inodes : files[i].synced \in 0 .. Len(files[i].lines)

\* The session never becomes unreadable (storage.rs, open_with): whatever
\* writes fail, processes die or power goes, every version of the file that
\* holds a header replays without an error.
NeverBricked ==
  \A i \in Inodes \cap ({path} \cup onDisk) :
    files[i].lines # <<>> => Readable(files[i])

\* One writer (storage.rs, lock_writer): no two processes have the session
\* open for writing, whatever compact() renames under them.
OneWriter == \A p, q \in Procs : IsOpen(p) /\ IsOpen(q) => p = q

\* A handle that still accepts commits describes the file that the next
\* open will read: the same commits, the same sequence number, and in order.
HandleIsTheFile ==
  \A p \in Procs :
    (IsOpen(p) /\ ~handle[p].poisoned) =>
      /\ handle[p].ino = path
      /\ handle[p].mem = EntriesOf(files[path])
      /\ handle[p].seq = LastSeq(files[path])
      /\ TagsOf(files[path]) = acked

\* compact() never leaves a handle whose commits vanish silently (the
\* comment at storage.rs:1281-1285): until the power goes, every commit that
\* was acknowledged is in the file that the session's name refers to.
NoSilentLoss ==
  path # NoFile => Range(acked) \subseteq Range(TagsOf(files[path]))

\* The engine keeps the promises of DurableLog.  In doubt are the commits
\* that some version of the file or a buffer holds and no caller was told of.
InDoubt ==
  LET held == UNION { Range(TagsOf(files[i])) : i \in Inodes \cap ({path} \cup onDisk) }
      buffered == { handle[p].rest[1].tag : p \in {q \in Procs : handle[q].rest # <<>>} }
  IN  (held \cup buffered) \ Range(acked)

Promise == INSTANCE DurableLog
             WITH Commits <- Tags, log <- acked, floor <- promised,
                  doubt <- InDoubt

KeepsThePromise == Promise!Spec

=============================================================================
