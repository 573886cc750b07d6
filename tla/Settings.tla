------------------------------ MODULE Settings ------------------------------
(***************************************************************************)
(* How a setting gets its value (tole-cli/src/config.rs, config_apply.rs,  *)
(* main.rs): the command line, the environment, the project's config file, *)
(* the user's, the default; and how the three parts of a provider's        *)
(* address are put together.                                               *)
(*                                                                         *)
(* A value is known by the layer that it comes from; what a layer says of  *)
(* a key is one of Sayings.  The project's file has passed the gate (module*)
(* ConfigTrust), or --no-config leaves both files out.                     *)
(***************************************************************************)
EXTENDS Naturals, Sequences, FiniteSets

CONSTANTS
  Prefixes   \* ENV_PREFIXES: of the first that is usable comes the key

VARIABLES
  key,       \* the kind of the key that is resolved
  layers,    \* what each layer says of it
  address,   \* what each source says of the provider
  effective, \* the layer whose value is used, and the one that is named
  provider   \* where the parts of the address were taken from

vars == <<key, layers, address, effective, provider>>

\* text: with a flag that is taken as given; trimmed: with one that is unset
\* when it is blank; effort: a text that must be known; counted: with an
\* environment variable that is unset when it is no number above zero.
Kinds == {"text", "trimmed", "effort", "list", "switch", "number", "counted"}
Sayings == {"unset", "blank", "wrong", "off", "set"}
Layers == <<"flag", "env", "project", "user">>
Fields == {"url", "model"}
Undecided == [layer |-> "undecided", named |-> "undecided"]
Default == [layer |-> "default", named |-> "default"]
Missing == [url |-> "none", model |-> "none", key |-> 0]

\* What a layer may say of a key of this kind: a file is validated when it is
\* parsed, a switch has no variable and its flag cannot say no.
May(kind, layer) ==
  CASE kind \in {"text", "trimmed"} -> {"unset", "blank", "set"}
    [] kind = "effort" -> IF layer = "env" THEN {"unset", "blank", "wrong", "set"}
                          ELSE IF layer = "flag" THEN {"unset", "set"} ELSE {"unset", "blank", "set"}
    [] kind = "list" -> IF layer = "flag" THEN {"unset", "set"} ELSE {"unset", "blank", "set"}
    [] kind = "switch" -> CASE layer = "flag" -> {"unset", "set"}
                            [] layer = "env" -> {"unset"}
                            [] OTHER -> {"unset", "off", "set"}
    [] kind = "number" -> IF layer = "env" THEN {"unset"} ELSE {"unset", "set"}
    [] kind = "counted" -> CASE layer = "flag" -> {"unset"}
                             [] layer = "env" -> {"unset", "blank", "wrong", "set"}
                             [] OTHER -> {"unset", "set"}

Names == {Layers[i] : i \in DOMAIN Layers}

Sources == [env : [1 .. Prefixes -> SUBSET (Fields \cup {"key"})],
            project : SUBSET Fields, user : SUBSET Fields]

Init ==
  /\ key \in Kinds
  /\ layers \in {l \in [Names -> Sayings] : \A n \in Names : l[n] \in May(key, n)}
  /\ effective = Undecided
  /\ provider = Missing
  /\ address = [env |-> [i \in 1 .. Prefixes |-> {}], project |-> {}, user |-> {}]

TypeOK ==
  /\ key \in Kinds /\ layers \in [Names -> Sayings] /\ address \in Sources
  /\ effective.layer \in Names \cup {"undecided", "default", "refused"}
  /\ provider.key \in 0 .. Prefixes

-----------------------------------------------------------------------------
(* One key *)

\* layered(): set by the rules of the key's kind.
IsSet(says) == says \notin {"unset", "blank"}

\* What the two files say together, and whose word it is.
Layered ==
  IF IsSet(layers["project"]) THEN [says |-> layers["project"], of |-> "project"]
  ELSE IF IsSet(layers["user"]) THEN [says |-> layers["user"], of |-> "user"]
  ELSE [says |-> layers["project"], of |-> "project"]

\* resolve(): the flag as it is given, the others if they are not blank; a
\* number that cannot be read counts as unset.
FlagCounts == IF key = "text" THEN layers["flag"] # "unset" ELSE IsSet(layers["flag"])
EnvCounts == IsSet(layers["env"]) /\ ~(key = "counted" /\ layers["env"] = "wrong")

\* The source that is reported: mark_user_keys() renames the config's.
Resolved ==
  CASE FlagCounts -> [layer |-> "flag", named |-> "flag"]
    [] ~FlagCounts /\ EnvCounts -> [layer |-> "env", named |-> "env"]
    [] ~FlagCounts /\ ~EnvCounts /\ IsSet(Layered.says) ->
         [layer |-> Layered.of, named |-> Layered.of]
    [] OTHER -> Default

\* An effort that nobody knows stops the start: the flag and the files have
\* been looked at before.
Resolve ==
  /\ effective = Undecided
  /\ effective' = IF key = "effort" /\ Resolved.layer = "env" /\ layers["env"] = "wrong"
                  THEN [layer |-> "refused", named |-> "env"]
                  ELSE Resolved
  /\ UNCHANGED <<key, layers, address, provider>>

-----------------------------------------------------------------------------
(* The provider *)

\* The prefix that says it, 0 for none.
OwnPrefix(i, field) == IF field \in address.env[i] THEN i ELSE 0

ConfigSays(field) ==
  IF field \in address.project THEN "project"
  ELSE IF field \in address.user THEN "user" ELSE "none"

\* A source: a prefix of the environment's, or a file.
From(i, field) ==
  IF OwnPrefix(i, field) # 0 THEN <<"env", OwnPrefix(i, field)>> ELSE <<ConfigSays(field), 0>>

Complete(i) == Fields \cup {"key"} \subseteq address.env[i]
Usable(i) ==
  /\ "key" \in address.env[i]
  /\ \A f \in Fields : From(i, f)[1] # "none"

FirstOf(places) == CHOOSE i \in places : \A j \in places : i <= j

\* resolve_provider(): a prefix that is complete, without the files; else
\* the first that the files complete.
Taken ==
  LET complete == {i \in 1 .. Prefixes : Complete(i)}
      usable == {i \in 1 .. Prefixes : Usable(i)}
      i == FirstOf(IF complete # {} THEN complete ELSE usable) IN
  IF complete \cup usable = {} THEN Missing
  ELSE [url |-> From(i, "url"), model |-> From(i, "model"), key |-> i]

\* Any address; the key is no matter then.
ResolveProvider ==
  /\ effective = Undecided /\ key = "text" /\ \A n \in Names : layers[n] = "unset"
  /\ effective' = Default
  /\ address' \in Sources
  /\ provider' = Taken'
  /\ UNCHANGED <<key, layers>>

Next == Resolve \/ ResolveProvider

Spec == Init /\ [][Next]_vars

-----------------------------------------------------------------------------
(* Properties *)

Counts(n) ==
  CASE n = "flag" /\ key = "text" -> layers[n] # "unset"
    [] key = "counted" -> layers[n] = "set"
    [] OTHER -> layers[n] \notin {"unset", "blank"}

\* "flag > env > config > user config > default for EVERY key"
\* (config_apply.rs:1-3): the value that is used is that of the highest layer
\* that says anything, and the layer that "config check" names is this one,
\* though the files are merged before the flags are looked at.
HighestLayerWins ==
  effective.layer \in Names \cup {"default"} =>
    LET saying == {i \in DOMAIN Layers : Counts(Layers[i])} IN
    /\ effective.layer = IF saying = {} THEN "default" ELSE Layers[FirstOf(saying)]
    /\ effective.named = effective.layer

\* "Prefixes are never mixed": the key of one provider is not sent to the
\* address of another, and a complete environment does not ask the files.
KeyStaysHome ==
  provider.key # 0 =>
    /\ provider.url \in {<<"env", provider.key>>, <<"project", 0>>, <<"user", 0>>}
    /\ provider.model \in {<<"env", provider.key>>, <<"project", 0>>, <<"user", 0>>}
    /\ (\E i \in 1 .. Prefixes : Complete(i)) => provider.url[1] = "env" /\ provider.model[1] = "env"
    /\ Complete(provider.key) \/ ~\E i \in 1 .. Prefixes : Complete(i)

=============================================================================
