------------------------------ MODULE MCTurnLoop ------------------------------
(***************************************************************************)
(* Instances of TurnLoop: a tool of each risk, and a host that starts with *)
(* other tools: what wrote is gone, and what read writes.                  *)
(***************************************************************************)
EXTENDS TurnLoop

AllCalls == {"read", "poll", "write"}
Wired == [c \in AllCalls |-> c]
TwoRegistries == {Wired, [Wired EXCEPT !["write"] = "unknown", !["read"] = "write"]}

\* With the second registry the third is cut to its first call, a write.
SomeBatches == {<<"poll">>, <<"write">>, <<"read", "poll">>}

=============================================================================
