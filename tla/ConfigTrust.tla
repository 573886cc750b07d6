---------------------------- MODULE ConfigTrust ----------------------------
(***************************************************************************)
(* Trust in the config file that a project brings                          *)
(* (tole-cli/src/config_trust.rs): a run uses the file only if the store,  *)
(* which lies outside of the project, holds the very same content, or the  *)
(* user says yes to it.  The project may change at any time, and processes *)
(* share the store without a lock: each loads it, changes its copy and     *)
(* puts the copy in its place.                                             *)
(***************************************************************************)
EXTENDS Naturals

CONSTANTS
  Projects,
  Contents,
  Procs,
  Untrusted   \* no entry in the store; not a content

VARIABLES
  file,       \* what a project's config says now
  store,      \* the snapshots that are trusted
  procs,
  approved,   \* what the user has said yes to, for which project
  used        \* what has taken effect without being named on the command line

vars == <<file, store, procs, approved, used>>

Stores == [Projects -> Contents \cup {Untrusted}]
Idle(any) == [is |-> "idle", op |-> "run", project |-> any, read |-> Untrusted,
              loaded |-> [p \in Projects |-> Untrusted]]

TypeOK ==
  /\ file \in [Projects -> Contents] /\ store \in Stores
  /\ procs \in [Procs -> [is : {"idle", "read", "asking", "recording", "saving"},
                          op : {"run", "trust", "untrust"}, project : Projects,
                          read : Contents \cup {Untrusted}, loaded : Stores]]
  /\ approved \subseteq Projects \X Contents /\ used \subseteq Projects \X Contents

Init ==
  /\ file \in [Projects -> Contents]
  /\ store = [p \in Projects |-> Untrusted]
  /\ procs = [x \in Procs |-> Idle(CHOOSE p \in Projects : TRUE)]
  /\ approved = {}
  /\ used = {}

-----------------------------------------------------------------------------

Edit(p) ==
  /\ \E c \in Contents \ {file[p]} : file' = [file EXCEPT ![p] = c]
  /\ UNCHANGED <<store, procs, approved, used>>

To(x, is) == procs' = [procs EXCEPT ![x].is = is]
Leave(x) == procs' = [procs EXCEPT ![x] = Idle(procs[x].project)]

\* A run or "config trust" reads the file, once.  A run that was given its
\* file on the command line asks nobody and is not followed further.
Begin(x, p, op) ==
  /\ procs[x].is = "idle"
  /\ procs' = [procs EXCEPT ![x] = [Idle(p) EXCEPT !.op = op,
       !.is = IF op = "untrust" THEN "recording" ELSE "read",
       !.read = IF op = "untrust" THEN Untrusted ELSE file[p]]]
  /\ UNCHANGED <<file, store, approved, used>>

\* Mutant: startup reads the file again.
ReadAgain(x) == file[procs[x].project]

\* Startup parses the text that was vetted.
Vetted(x) == procs[x].read

Use(x) ==
  used' = IF procs[x].op = "run" THEN used \cup {<<procs[x].project, Vetted(x)>>} ELSE used

\* The store holds the same bytes; or nobody can be asked; or the text is
\* shown.
Compare(x) ==
  /\ procs[x].is = "read"
  /\ IF store[procs[x].project] = procs[x].read
     THEN Leave(x) /\ Use(x)
     ELSE (Leave(x) \/ To(x, "asking")) /\ UNCHANGED used
  /\ UNCHANGED <<file, store, approved>>

\* The user answers for the text that was shown.
Answer(x) ==
  /\ procs[x].is = "asking"
  /\ \/ Leave(x) /\ UNCHANGED approved
     \/ /\ To(x, "recording")
        /\ approved' = approved \cup {<<procs[x].project, procs[x].read>>}
  /\ UNCHANGED <<file, store, used>>

\* record() and remove() load the store anew; there may be nothing to remove.
Load(x) ==
  /\ procs[x].is = "recording"
  /\ IF procs[x].op = "untrust" /\ store[procs[x].project] = Untrusted
     THEN Leave(x)
     ELSE procs' = [procs EXCEPT ![x].is = "saving", ![x].loaded = store]
  /\ UNCHANGED <<file, store, approved, used>>

\* The copy, with the project's entry changed, replaces the store.
Save(x) ==
  /\ procs[x].is = "saving"
  /\ \/ store' = [procs[x].loaded EXCEPT ![procs[x].project] = procs[x].read] /\ Use(x)
     \/ UNCHANGED <<store, used>>
  /\ Leave(x)
  /\ UNCHANGED <<file, approved>>

Next ==
  \/ \E p \in Projects : Edit(p)
  \/ \E x \in Procs :
       \/ \E p \in Projects, op \in {"run", "trust", "untrust"} : Begin(x, p, op)
       \/ Compare(x) \/ Answer(x) \/ Load(x) \/ Save(x)

Spec == Init /\ [][Next]_vars

-----------------------------------------------------------------------------
(* Properties *)

\* What takes effect, and what the store trusts, is what the user was shown
\* and said yes to, for that project, however often the file changes between
\* the decision and its use, and whoever writes the store meanwhile.
ApprovedOnly ==
  /\ used \subseteq approved
  /\ \A p \in Projects : store[p] # Untrusted => <<p, store[p]>> \in approved

=============================================================================
