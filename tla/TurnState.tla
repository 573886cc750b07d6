------------------------------ MODULE TurnState ------------------------------
(***************************************************************************)
(* The program counter of a session and its legality table                 *)
(* (crates/tole-core/src/state.rs).  Every transition that a commit        *)
(* carries, live or replayed from the session file, goes through           *)
(* CanTransition.                                                          *)
(***************************************************************************)

\* The variants of `enum Pc`.
Pcs == {"Idle", "Planning", "ToolCall", "AwaitingApproval",
        "Executing", "Settling", "Final"}

\* The legal steps of the operation loop, as a relation.
LegalSteps ==
  { <<"Idle", "Planning">>,
    <<"Planning", "ToolCall">>,
    <<"Planning", "Final">>,
    <<"ToolCall", "AwaitingApproval">>,
    <<"ToolCall", "Executing">>,
    <<"ToolCall", "Planning">>,
    <<"AwaitingApproval", "Executing">>,
    <<"AwaitingApproval", "Planning">>,
    <<"Executing", "Settling">>,
    <<"Executing", "Planning">>,
    <<"Settling", "Planning">>,
    <<"Final", "Planning">> }

CanTransition(from, to) == <<from, to>> \in LegalSteps

=============================================================================
