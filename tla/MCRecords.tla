----------------------------- MODULE MCRecords -----------------------------
(***************************************************************************)
(* Model checking of what a session leaves behind and of what is read of   *)
(* it.  The variable "part" is what a behaviour is about: "ids" (module    *)
(* SessionFork), "wire" (Transcript), "edits" (FileTools), "index"         *)
(* (SessionIndex), "reports" (Reports) or "view" (Compaction).             *)
(***************************************************************************)
EXTENDS SessionFork, TLC

CONSTANTS
  Calls, Lists, NoList, MaxImported, MaxEntries,                 \* of Transcript
  Workers, Pids, Parts, Nanos, Legacy, MaxChanges, MaxDeletes,   \* of FileTools
  MaxKills,
  Dirs, Ids, Imported, Aliases, NoName, MaxDepth, MaxLines,      \* of SessionIndex
  Tools, Inputs, MaxLog, MaxRows,                                \* of Reports
  Keeps, MaxMessages                                             \* of Compaction

VARIABLES
  part,
  builder, speaking, stage, entries, batch, tasks,
  pid, file, temps, turn, changes, deletions, kills,
  files, used, index, recording,
  log, ledger, walk,
  messages, tokens, overflow, phase, asked

Wire == INSTANCE Transcript
Edits == INSTANCE FileTools
Index == INSTANCE SessionIndex WITH Names <- Aliases
Derived == INSTANCE Reports WITH MaxEntries <- MaxLog
View == INSTANCE Compaction WITH entries <- messages, MaxEntries <- MaxMessages

ASSUME ImportedIsAnId ==
  Imported \in Ids /\ Ids \subseteq Nat \ {0}
ASSUME DepthIsNat == MaxDepth \in Nat
ASSUME NoNameIsNoAlias ==
  NoName \notin Aliases /\ NoList \notin Lists /\ Wire!Nobody \notin Lists
ASSUME LegacyIsNoNano == Legacy \notin Nanos
ASSUME WorkersAreFew == IsFiniteSet(Workers)
ASSUME PartsAreSome == Parts # {}

wireVars == <<builder, speaking, stage, entries, batch, tasks>>
editVars == <<pid, file, temps, turn, changes, deletions, kills>>
indexVars == <<files, used, index, recording>>
reportVars == <<log, ledger, walk>>
viewVars == <<messages, tokens, overflow, phase, asked>>
recordVars == <<part, vars, wireVars, editVars, indexVars, reportVars, viewVars>>

\* The parts that a behaviour is not about stay as they are in one state.
RecordsInit ==
  /\ part \in {"ids", "wire", "edits", "index", "reports", "view"}
  /\ Init
  /\ Wire!Init /\ (part # "wire" => stage = "rests")
  /\ Edits!Init
  /\ part # "edits" => temps = <<>> /\ pid = [w \in Workers |-> CHOOSE p \in Pids : TRUE]
  /\ Index!Init /\ Derived!Init /\ View!Init

RecordsNext ==
  \/ /\ part = "ids" /\ Next
     /\ UNCHANGED <<part, wireVars, editVars, indexVars, reportVars, viewVars>>
  \/ /\ part = "wire" /\ Wire!Next
     /\ UNCHANGED <<part, vars, editVars, indexVars, reportVars, viewVars>>
  \/ /\ part = "edits" /\ Edits!Next
     /\ UNCHANGED <<part, vars, wireVars, indexVars, reportVars, viewVars>>
  \/ /\ part = "index" /\ Index!Next
     /\ UNCHANGED <<part, vars, wireVars, editVars, reportVars, viewVars>>
  \/ /\ part = "reports" /\ Derived!Next
     /\ UNCHANGED <<part, vars, wireVars, editVars, indexVars, viewVars>>
  \/ /\ part = "view" /\ View!Next
     /\ UNCHANGED <<part, vars, wireVars, editVars, indexVars, reportVars>>

RecordsSpec == RecordsInit /\ [][RecordsNext]_recordVars

-----------------------------------------------------------------------------
(* No definition tells these values apart. *)

Symmetry == Permutations(Names) \cup Permutations(Dirs)

-----------------------------------------------------------------------------
(* The properties are explained where they are defined. *)

LogIsTheSource == Wire!EveryRequestIsPaired /\ Wire!TasksAreRecorded
EditsAreWhole == Edits!EditsAreWhole
SessionsAreFound == Index!SessionsAreFound
ViewIsWhole == View!ViewIsWhole
ReportsAreTrue == Derived!TurnsAddUp /\ Derived!ReplayIsExact

=============================================================================
