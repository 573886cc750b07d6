----------------------------- MODULE MCAgents -----------------------------
(***************************************************************************)
(* Model checking of what a process may do, and of the child agents of one *)
(* workspace.  The variable "part" is what a behaviour is about: "polls"   *)
(* (module ChildAgents), "watch" (SiblingWatch), "lists" (AllowLists),     *)
(* "trust" (ConfigTrust), "keys" (Settings), "calls" (Roster) or "web"     *)
(* (WebFetch).  A child that works touches no directory but its own, and a *)
(* poll does not read the touch log.                                       *)
(***************************************************************************)
EXTENDS WebFetch

CONSTANTS
  Agents, Parents, MaxConcurrent,                  \* of ChildAgents
  Children, Watchers, Paths, MaxTracked, MaxLines, \* of SiblingWatch
  Nobody,
  Projects, Contents, Procs, Untrusted,            \* of ConfigTrust
  Prefixes,                                        \* of Settings
  Letters, Patterns, Requests, Runner, SubmitTool,     \* of AllowLists
  Guard, Wrappers, MaxListed

VARIABLES
  part,
  lock, agents, parents, reports,
  log, tail, children,
  parent, asked, role, child,
  file, store, procs, approved, used,
  key, layers, address, effective, provider,
  flags, at, registry, listed, granted, auto, oneShot, call

-----------------------------------------------------------------------------
(* Patterns and calls: the tools "f", "r", which runs commands, and "s",   *)
(* which hands work in; the program "p", the wrapper "w", the arguments    *)
(* "a" and "b".                                                            *)

One(letter) == <<letter>>
Any == One("*")
RunnerName == One("r")
SubmitName == One("s")
GuardText == <<"@", "g">>
SomeWrappers == {One("w")}
SomeLetters == {"f", "r", "s", "p", "w", "a", "b", "@", "g", "*", "?"}

AllowPatterns ==
  [deny : {FALSE}, kind : {"name"}, words : {<<One("f")>>, <<One("r")>>, <<Any>>, <<<<"*", "g">>>>}]
    \cup [deny : {FALSE}, kind : {"guarded"}, words : {<<One("f")>>, <<Any>>}]
    \cup [deny : {FALSE}, kind : {"command"},
           words : {<<One("p"), Any>>, <<One("p"), One("a")>>, <<One("p"), One("?")>>,
                    <<One("p"), One("a"), Any>>, <<One("w"), Any>>}]
DenyPatterns ==
  [deny : {TRUE}, kind : {"name"}, words : {<<One("f")>>, <<One("s")>>}]
    \cup [deny : {TRUE}, kind : {"command"}, words : {<<One("p"), One("a")>>, <<Any, Any>>}]
SomePatterns == AllowPatterns \cup DenyPatterns

SomeRequests ==
  [tool : {One("f"), SubmitName}, safe : BOOLEAN, argv : {<<>>}]
    \cup [tool : {RunnerName}, safe : {FALSE},
          argv : {<<One("p")>>, <<One("p"), One("a")>>, <<One("p"), One("b")>>,
                  <<One("p"), One("a"), One("b")>>, <<One("w"), One("p")>>}]

-----------------------------------------------------------------------------

Polls == INSTANCE ChildAgents
Watch == INSTANCE SiblingWatch
Lists == INSTANCE AllowLists
Trust == INSTANCE ConfigTrust
Keys == INSTANCE Settings
Gate == INSTANCE Roster WITH setup <- flags, stage <- at

ASSUME BackendIsAHost == Backend \in Hosts
ASSUME NobodyIsNobody == Nobody \notin Agents \cup Parents \cup Children \cup Paths
ASSUME WatchersAreChildren == Watchers \subseteq Children
ASSUME CapsAreCounted == MaxTracked \in Nat /\ MaxConcurrent \in Nat /\ MaxLines \in Nat
ASSUME AllPathsFit == IsFiniteSet(Paths) /\ Cardinality(Paths) <= MaxTracked
ASSUME PrefixesAreCounted == Prefixes \in Nat
ASSUME UntrustedIsNoContent == Untrusted \notin Contents

\* A pattern is split into its words, and a name does not end with the guard.
\* No letter of a call is a "*", which glob_match() takes for a letter first.
Texts == Seq(Letters)
PlainTexts == Seq(Letters \ {"*"})
ASSUME PatternsAreSplit ==
  \A p \in Patterns :
    /\ p \in [deny : BOOLEAN, kind : Lists!Kinds, words : Seq(Texts)] /\ p.words # <<>>
    /\ p.kind = "name" => \A n \in 0 .. Len(p.words[1]) :
                             p.words[1] # SubSeq(p.words[1], 1, n) \o Guard
ASSUME RequestsArePlain ==
  \A q \in Requests : q \in [tool : PlainTexts, safe : BOOLEAN, argv : Seq(PlainTexts)]
ASSUME NamesArePlain == Runner \in PlainTexts /\ SubmitTool \in PlainTexts /\ ~Lists!HasGlob(SubmitTool)
ASSUME GuardIsPlain == Guard \in PlainTexts /\ Guard # <<>> /\ ~Lists!HasGlob(Guard)

pollVars == <<lock, agents, parents, reports>>
watchVars == <<log, tail, children>>
listVars == <<parent, asked, role, child>>
trustVars == <<file, store, procs, approved, used>>
keyVars == <<key, layers, address, effective, provider>>
gateVars == <<flags, at, registry, listed, granted, auto, oneShot, call>>
agentVars == <<part, vars, pollVars, watchVars, listVars, trustVars, keyVars, gateVars>>

\* The parts that a behaviour is not about stay as they are in one state.
AgentsInit ==
  /\ part \in {"polls", "watch", "lists", "trust", "keys", "calls", "web"}
  /\ Polls!Init /\ Watch!Init
  /\ IF part = "lists" THEN Lists!Init
     ELSE parent = {} /\ asked = {} /\ role = FALSE /\ child = Lists!None
  /\ Trust!Init /\ (part # "trust" => file = [p \in Projects |-> CHOOSE c \in Contents : TRUE])
  /\ Keys!Init /\ (part # "keys" => key = "text" /\ \A n \in DOMAIN layers : layers[n] = "unset")
  /\ IF part = "calls" THEN TRUE ELSE flags = CHOOSE s \in Gate!Setups : TRUE
  /\ Gate!Init
  /\ Init /\ (part # "web" => setup = CHOOSE s \in Setups : TRUE)

AgentsNext ==
  \/ /\ part = "polls" /\ Polls!Next
     /\ UNCHANGED <<part, vars, watchVars, listVars, trustVars, keyVars, gateVars>>
  \/ /\ part = "watch" /\ Watch!Next
     /\ UNCHANGED <<part, vars, pollVars, listVars, trustVars, keyVars, gateVars>>
  \/ /\ part = "lists" /\ Lists!Next
     /\ UNCHANGED <<part, vars, pollVars, watchVars, trustVars, keyVars, gateVars>>
  \/ /\ part = "trust" /\ Trust!Next
     /\ UNCHANGED <<part, vars, pollVars, watchVars, listVars, keyVars, gateVars>>
  \/ /\ part = "keys" /\ Keys!Next
     /\ UNCHANGED <<part, vars, pollVars, watchVars, listVars, trustVars, gateVars>>
  \/ /\ part = "calls" /\ Gate!Next
     /\ UNCHANGED <<part, vars, pollVars, watchVars, listVars, trustVars, keyVars>>
  \/ /\ part = "web" /\ Next
     /\ UNCHANGED <<part, pollVars, watchVars, listVars, trustVars, keyVars, gateVars>>

AgentsSpec == AgentsInit /\ [][AgentsNext]_agentVars

-----------------------------------------------------------------------------
(* The properties are explained where they are defined. *)

PollsAreSound == Polls!CapIsKept /\ Polls!ResultIsRecalled
TrackedOrTold == Watch!TrackedOrTold
ChildIsNarrower == Lists!ChildIsNarrower
ConfigIsSound == Trust!ApprovedOnly /\ Keys!HighestLayerWins /\ Keys!KeyStaysHome
EachEffectIsAllowed == Gate!PlanOnlyReads /\ Gate!EachEffectIsAllowed

=============================================================================
