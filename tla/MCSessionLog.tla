---------------------------- MODULE MCSessionLog ----------------------------
(***************************************************************************)
(* Model checking of the session log on two file systems.  The one of the  *)
(* "strict" part keeps what is assumed where Linux is used: the fdatasync  *)
(* of a file persists its directory entry, and the fsync of a directory    *)
(* does not fail.  The "loose" one breaks both.                            *)
(***************************************************************************)
EXTENDS SessionLog

CONSTANT LooseMaxSeq   \* MaxSeq of the loose part

ASSUME LooseBoundAssumption == LooseMaxSeq \in Nat

VARIABLE part

Loose == INSTANCE SessionLog
           WITH DirPersist <- FALSE, SyncDirMayFail <- TRUE, MaxSeq <- LooseMaxSeq

IsStrict == part = "strict"

LogInit == part \in {"strict", "loose"} /\ Init

LogNext ==
  \/ IsStrict /\ Next /\ UNCHANGED part
  \/ ~IsStrict /\ Loose!Next /\ UNCHANGED part

LogSpec == LogInit /\ [][LogNext]_<<part, vars>>

-----------------------------------------------------------------------------
\* The engine keeps the promises of DurableLog to its callers (SessionLog),
\* on a file system that keeps the strict rules; nothing is promised on the
\* other.
StrictPromise == INSTANCE DurableLog
                   WITH Commits <- Tags,
                        log <- IF IsStrict THEN acked ELSE <<>>,
                        floor <- IF IsStrict THEN promised ELSE 0,
                        doubt <- IF IsStrict THEN InDoubt ELSE {}

KeepsItsPromise == StrictPromise!Spec

=============================================================================
