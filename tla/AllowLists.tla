----------------------------- MODULE AllowLists -----------------------------
(***************************************************************************)
(* The patterns of an allow list (crates/tole-core/src/approval.rs), and   *)
(* the list that agent_start gives to a child (agents.rs): what the child  *)
(* asks for must be covered by its parent's list, and it inherits every    *)
(* deny.  A child with a role is also let to hand its work in.             *)
(*                                                                         *)
(* Covering is decided on the text of two patterns, permission on a call.  *)
(* A text is a sequence of letters here, since the question is what a glob *)
(* matches; the guard "@workspace" is the text Guard, "run_command" the    *)
(* name Runner, "handoff_submit" the name SubmitTool.  A command pattern   *)
(* is a sequence of texts, a program first.                                *)
(* A child has nobody to ask: it runs what its list allows, no more.       *)
(***************************************************************************)
EXTENDS Naturals, Sequences

CONSTANTS
  Patterns,   \* the patterns that lists are made of, records as Kinds explains
  Requests,   \* the calls: a tool, if its target is safe, its argv
  Runner,
  SubmitTool,
  Guard,
  Wrappers,   \* COMMAND_WRAPPERS
  MaxListed   \* bounds the patterns of a list

VARIABLES
  parent,     \* the parent's list
  asked,      \* the patterns that the child is to get
  role,       \* if the child has a role
  child       \* the child's list

vars == <<parent, asked, role, child>>

\* "command": a "run_command:" pattern, whose words are split as its command
\* is; "guarded": with the suffix Guard.
Kinds == {"name", "guarded", "command"}
Refused == [is |-> "refused", list |-> {}]
None == [is |-> "none", list |-> {}]

\* The pattern that a child with a role gets: the bare name.
SubmitPattern == [deny |-> FALSE, kind |-> "name", words |-> <<SubmitTool>>]

TypeOK ==
  /\ parent \subseteq Patterns /\ asked \subseteq Patterns /\ role \in BOOLEAN
  /\ child.is \in {"none", "refused", "started"}
  /\ child.list \subseteq Patterns \cup {SubmitPattern}
  /\ \A p \in Patterns : p.deny \in BOOLEAN /\ p.kind \in Kinds

-----------------------------------------------------------------------------
(* Matching *)

\* "*" is any run of letters, "?" is one: f aligns the glob with a text, which
\* holds no "*" itself.
GlobMatch(glob, text) ==
  \E f \in [0 .. Len(glob) -> 0 .. Len(text)] :
    /\ f[0] = 0 /\ f[Len(glob)] = Len(text)
    /\ \A i \in 1 .. Len(glob) :
         IF glob[i] = "*" THEN f[i] >= f[i - 1]
         ELSE f[i] = f[i - 1] + 1 /\ glob[i] \in {"?", text[f[i]]}

Lone == <<"*">>
HasGlob(text) == \E i \in DOMAIN text : text[i] \in {"*", "?"}
IsOpen(words) == words # <<>> /\ words[Len(words)] = Lone
Fixed(words) == IF IsOpen(words) THEN SubSeq(words, 1, Len(words) - 1) ELSE words

\* The program of an allow is compared as it is; the lone "*" at the end is
\* any number of arguments.
ArgvMatches(words, argv, deny) ==
  LET fixed == Fixed(Tail(words)) IN
  /\ argv # <<>>
  /\ IF deny THEN GlobMatch(words[1], argv[1]) ELSE words[1] = argv[1]
  /\ IF IsOpen(Tail(words)) THEN Len(argv) - 1 >= Len(fixed) ELSE Len(argv) - 1 = Len(fixed)
  /\ \A i \in DOMAIN fixed : GlobMatch(fixed[i], argv[i + 1])

PatternMatches(p, q, deny) ==
  CASE p.kind = "command" -> q.tool = Runner /\ ArgvMatches(p.words, q.argv, deny)
    [] p.kind = "guarded" -> GlobMatch(p.words[1], q.tool) /\ (deny \/ q.safe)
    [] p.kind = "name" -> GlobMatch(p.words[1], q.tool)

Allows(p, q) == ~p.deny /\ PatternMatches(p, q, FALSE)
Denies(p, q) == p.deny /\ PatternMatches(p, q, TRUE)
HasCommandDeny(list) == \E p \in list : p.deny /\ p.kind = "command"

\* pattern_verdict().  Under a command deny a command runs unattended only
\* if a command pattern names it, and never through a wrapper.
Verdict(list, q) ==
  IF \E p \in list : Denies(p, q) THEN "deny"
  ELSE IF /\ HasCommandDeny(list) /\ q.argv # <<>>
          /\ \/ q.argv[1] \in Wrappers
             \/ ~\E p \in list : p.kind = "command" /\ Allows(p, q)
       THEN "ask"
  ELSE IF \E p \in list : Allows(p, q) THEN "allow"
  ELSE "no_match"

-----------------------------------------------------------------------------
(* Covering *)

TokenCovers(one, other) ==
  IF HasGlob(other) THEN one = other \/ one = Lone ELSE GlobMatch(one, other)

CommandCovers(p, c) ==
  LET pf == Fixed(p)
      cf == Fixed(c) IN
  /\ pf # <<>> /\ cf # <<>> /\ pf[1] = cf[1]
  /\ IsOpen(c) => IsOpen(p)
  /\ IF IsOpen(p) THEN Len(cf) >= Len(pf) ELSE Len(cf) = Len(pf)
  /\ \A i \in 2 .. Len(pf) : TokenCovers(pf[i], cf[i])

\* The text that is compared, with the suffix of a guard.
TextOf(p) == IF p.kind = "guarded" THEN p.words[1] \o Guard ELSE p.words[1]

\* pattern_covers(), of two patterns that are no denies.
PatternCovers(p, c) ==
  CASE p.kind = "command" /\ c.kind = "command" -> CommandCovers(p.words, c.words)
    [] p.kind = "command" /\ c.kind # "command" -> FALSE
    [] p.kind # "command" /\ c.kind = "command" -> p.kind = "name" /\ GlobMatch(p.words[1], Runner)
    [] p.kind # "command" /\ c.kind # "command" -> TokenCovers(TextOf(p), TextOf(c))

\* list_covers()
ListCovers(list, c) ==
  \E p \in list :
    /\ ~p.deny /\ ~c.deny
    /\ (HasCommandDeny(list) /\ c.kind = "command") => p.kind = "command"
    /\ PatternCovers(p, c)

-----------------------------------------------------------------------------
(* agent_start *)

Lists == {{}} \cup {{f[i] : i \in 1 .. MaxListed} : f \in [1 .. MaxListed -> Patterns]}

Init ==
  /\ parent \in Lists
  /\ asked = {}
  /\ role = FALSE
  /\ child = None

\* Mutant: the child's own list replaces the parent's, denies and all.
DeniesDropped(requested) == requested

\* Every deny of the parent is added to what was asked for.
WithDenies(requested) == requested \cup {p \in parent : p.deny}

\* Without patterns of its own the child gets the parent's list.  The name
\* that a role adds is held against no list.
Start(requested) ==
  /\ child = None
  /\ asked' = requested
  /\ role' \in BOOLEAN
  /\ child' = IF \E c \in requested : ~c.deny /\ ~ListCovers(parent, c) THEN Refused
              ELSE [is |-> "started",
                    list |-> (IF requested = {} THEN parent ELSE WithDenies(requested))
                               \cup (IF role' THEN {SubmitPattern} ELSE {})]
  /\ UNCHANGED parent

Next == \E requested \in Lists : Start(requested)

Spec == Init /\ [][Next]_vars

-----------------------------------------------------------------------------
(* Properties *)

\* Some glob of the parent's reaches into the text of the guard of a pattern
\* of the child's: it covers "<tool>@workspace", and not the tool.
ReachesIntoGuard(q) ==
  \E p \in parent, c \in asked :
    /\ p.kind = "name" /\ c.kind = "guarded" /\ ~p.deny
    /\ Allows(c, q) /\ PatternCovers(p, c) /\ ~Allows(p, q)

\* "The child can never write wider than the operator approved" (agents.rs:
\* 688-689): each call that the child's list allows, its parent's allows,
\* but for a glob that reaches into the guard's text, and for the handoff of
\* a child with a role, which its parent's list must not deny (713-722).
ChildIsNarrower ==
  \A q \in Requests :
    Verdict(child.list, q) = "allow" =>
      \/ Verdict(parent, q) = "allow"
      \/ Verdict(parent, q) # "deny" /\ role /\ q.tool = SubmitTool
      \/ ReachesIntoGuard(q)

\* The same without the guard's exception, which is what approval.rs:301-302
\* says of a list that covers another.
ChildIsNeverWider ==
  \A q \in Requests :
    Verdict(child.list, q) = "allow" /\ ~role => Verdict(parent, q) = "allow"

=============================================================================
