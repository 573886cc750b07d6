------------------------------ MODULE DurableLog ------------------------------
(***************************************************************************)
(* What the storage engine promises its callers about one session          *)
(* (docs/architecture.md, section 4): a log of commits that only grows,    *)
(* of which a crash takes at most the newest ones that were never synced,  *)
(* and a commit that was reported as failed may or may not turn up at the  *)
(* next open.  Module SessionLog implements it with lines in a file.       *)
(***************************************************************************)
EXTENDS Integers, Sequences

CONSTANT Commits   \* the commits that may be attempted

VARIABLES
  log,     \* the commits the callers were told of, oldest first
  floor,   \* how many of them a power cut cannot take
  doubt    \* the failed commits that may still turn up

vars == <<log, floor, doubt>>

Init == log = <<>> /\ floor = 0 /\ doubt = {}

\* The floor may rise on its own: a later sync persists earlier commits too.
FloorKept == floor' \in floor .. Len(log')

Commit ==
  \E c \in Commits, deferred \in BOOLEAN :
    /\ log' = Append(log, c)
    /\ floor' = IF deferred THEN floor ELSE Len(log')
    /\ doubt' \in SUBSET doubt

Fail ==
  /\ \E c \in Commits : doubt' = doubt \cup {c}
  /\ UNCHANGED <<log, floor>>

Forget ==
  /\ doubt' \in SUBSET doubt
  /\ UNCHANGED log
  /\ FloorKept

Reopen ==
  /\ \E c \in doubt : log' = Append(log, c)
  /\ doubt' \in SUBSET doubt
  /\ FloorKept

PowerCut ==
  /\ \E n \in floor .. Len(log) : log' = SubSeq(log, 1, n)
  /\ doubt' \in SUBSET doubt
  /\ UNCHANGED floor

Next == Commit \/ Fail \/ Forget \/ Reopen \/ PowerCut

Spec == Init /\ [][Next]_vars

=============================================================================
