---------------------------- MODULE ToolServers ----------------------------
(***************************************************************************)
(* The client of MCP tool servers (crates/tole-core/src/mcp.rs).           *)
(*                                                                         *)
(* One reactor thread owns the connections and takes the requests of every *)
(* turn, child agent and start-up of the process in the order in which     *)
(* they were sent.  It bounds each operation itself; the sender waits on a *)
(* channel with a bound of its own, which also runs while the request is   *)
(* still in the queue.  A server is an external process: it may do the     *)
(* work and not answer, report a failure of the tool, or die.              *)
(*                                                                         *)
(* A request is a "list" (tools/list, and the probe for prompts), a "call" *)
(* (tools/call) or a "read" (prompts/get and resources/read).  Time is     *)
(* counted in ticks; texts, arguments and their caps are left out.         *)
(***************************************************************************)
EXTENDS Naturals, Sequences, FiniteSets

CONSTANTS
  Servers,
  Callers,      \* how many threads wait for the reactor at once
  CallTimeout,  \* CALL_TIMEOUT, in ticks
  ListTimeout,  \* SUBPROCESS_TIMEOUT
  Margin,       \* what SYNC_BUDGET has over CALL_TIMEOUT
  MaxRequests   \* bound on the requests of one process

VARIABLES
  configs,     \* the servers the reactor was told of
  conns,       \* its connections: none, or to a process that lives or not;
               \* and, as a ghost, whether a call has failed on it
  requests,    \* every request sent, in the order of the channel
  elapsed      \* how long the running operation has run

vars == <<configs, conns, requests, elapsed>>

Kinds == {"list", "call", "read"}
None == [is |-> "none", failed |-> FALSE]
Connections == [is : {"none", "up", "dead"}, failed : BOOLEAN]

TypeOK ==
  /\ configs \subseteq Servers
  /\ conns \in [Servers -> Connections]
  /\ \A r \in DOMAIN requests :
       /\ requests[r].kind \in Kinds
       /\ requests[r].server \in Servers
       /\ requests[r].at \in {"queued", "connecting", "running", "over"}
       /\ requests[r].caller \in {"waits", "answered", "gone"}
  /\ elapsed \in 0 .. CallTimeout

Init ==
  /\ configs = {}
  /\ conns = [s \in Servers |-> None]
  /\ requests = <<>>
  /\ elapsed = 0

\* The reactor's bound on an operation, which covers a reconnection.
Budget(r) == IF requests[r].kind = "list" THEN ListTimeout ELSE CallTimeout

\* SYNC_BUDGET, the budget of ask(), and LIST_SYNC_BUDGET, which counts one
\* operation ahead in the queue.
SyncBudget(r) ==
  IF requests[r].kind = "list" THEN CallTimeout + ListTimeout + Margin ELSE CallTimeout + Margin

IsAt(r, at) == requests[r].at = at
Running(r) == requests[r].at \in {"connecting", "running"}
ReactorIsFree == \A r \in DOMAIN requests : ~Running(r)
Waits(r) == requests[r].caller = "waits"

\* McpTool::execute(), register_server_tools(), probe_server_extras(), ask().
Send(kind, s) ==
  /\ Len(requests) < MaxRequests
  /\ Cardinality({r \in DOMAIN requests : Waits(r)}) < Callers
  /\ requests' = Append(requests, [kind |-> kind, server |-> s, at |-> "queued", caller |-> "waits",
                                   age |-> 0, queued |-> 0, late |-> FALSE])
  /\ UNCHANGED <<configs, conns, elapsed>>

\* The verdict goes to the channel, which drops it when the sender has gone.
Settle(r) ==
  requests' = [requests EXCEPT ![r] =
    IF @.caller = "gone" THEN [@ EXCEPT !.at = "over"]
    ELSE [@ EXCEPT !.at = "over", !.caller = "answered", !.age = 0, !.queued = 0]]

\* rx.recv(): the oldest request.  A list tells the reactor of the server; a
\* call of a server it was never told of is refused.
Take(r) ==
  /\ ReactorIsFree
  /\ IsAt(r, "queued")
  /\ \A q \in 1 .. r - 1 : IsAt(q, "over")
  /\ configs' = IF requests[r].kind = "list" THEN configs \cup {requests[r].server} ELSE configs
  /\ IF requests[r].server \in configs'
       THEN /\ requests' = [requests EXCEPT ![r].at = "connecting"]
            /\ elapsed' = 0
       ELSE /\ Settle(r)
            /\ UNCHANGED elapsed
  /\ UNCHANGED conns

\* Mutant: the bound starts anew when the connection is there.
ConnectUncounted(r) ==
  LET s == requests[r].server IN
  /\ IsAt(r, "connecting")
  /\ \/ /\ conns' = [conns EXCEPT ![s] = IF @.is = "none" THEN [None EXCEPT !.is = "up"] ELSE @]
        /\ requests' = [requests EXCEPT ![r].at = "running"]
        /\ elapsed' = 0
     \/ /\ conns[s].is = "none"
        /\ Settle(r)
        /\ UNCHANGED <<conns, elapsed>>
  /\ UNCHANGED configs

\* start_server(): a connection that exists is used as it is; a new one may
\* fail to start or in its handshake, and is then not kept.
Connect(r) ==
  LET s == requests[r].server IN
  /\ IsAt(r, "connecting")
  /\ \/ /\ conns' = [conns EXCEPT ![s] = IF @.is = "none" THEN [None EXCEPT !.is = "up"] ELSE @]
        /\ requests' = [requests EXCEPT ![r].at = "running"]
     \/ /\ conns[s].is = "none"
        /\ Settle(r)
        /\ UNCHANGED conns
  /\ UNCHANGED <<configs, elapsed>>

\* The server does the work of a call.  The mark is a ghost: its turn has
\* settled the call as failed.
Apply(r) ==
  /\ IsAt(r, "running")
  /\ requests[r].kind = "call"
  /\ conns[requests[r].server].is = "up"
  /\ ~requests[r].late
  /\ requests' = [requests EXCEPT ![r].late = (requests[r].caller = "gone")]
  /\ UNCHANGED <<configs, conns, elapsed>>

\* An answer, or the failure that the server reports with isError: the
\* connection and the state of the server's session are kept.
Return(r) ==
  /\ IsAt(r, "running")
  /\ conns[requests[r].server].is = "up"
  /\ Settle(r)
  /\ UNCHANGED <<configs, conns, elapsed>>

\* Only the failure of tools/list keeps the connection: its text has no
\* TRANSPORT_ERR.
Kept(r) == requests[r].kind = "list"

\* The wire fails, and with it the operation: eviction.
Break(r) ==
  LET s == requests[r].server IN
  /\ IsAt(r, "running")
  /\ conns[s].is = "dead"
  /\ Settle(r)
  /\ conns' = [conns EXCEPT ![s] = IF Kept(r) THEN [@ EXCEPT !.failed = @ \/ requests[r].kind # "list"]
                                       ELSE None]
  /\ UNCHANGED <<configs, elapsed>>

\* Mutant: the hung operation of a read is not bounded.
ExpireUnlessRead(r) ==
  /\ Running(r)
  /\ requests[r].kind # "read"
  /\ elapsed = Budget(r)
  /\ Settle(r)
  /\ conns' = [conns EXCEPT ![requests[r].server] = None]
  /\ UNCHANGED <<configs, elapsed>>

\* tokio::time::timeout: the connection is dropped and its process killed.
Expire(r) ==
  /\ Running(r)
  /\ elapsed = Budget(r)
  /\ Settle(r)
  /\ conns' = [conns EXCEPT ![requests[r].server] = None]
  /\ UNCHANGED <<configs, elapsed>>

\* The environment: a server process dies.
Die(s) ==
  /\ conns[s].is = "up"
  /\ conns' = [conns EXCEPT ![s].is = "dead"]
  /\ UNCHANGED <<configs, requests, elapsed>>

\* recv_timeout(): "mcp runtime dropped the request".
Abandon(r) ==
  /\ Waits(r)
  /\ requests[r].age = SyncBudget(r)
  /\ requests' = [requests EXCEPT ![r].caller = "gone", ![r].age = 0]
  /\ UNCHANGED <<configs, conns, elapsed>>

\* No timer that is due is late by a tick; of two that are due at the same
\* instant either may be first.
Tick ==
  /\ \E r \in DOMAIN requests : Waits(r) \/ Running(r)
  /\ \A r \in DOMAIN requests : Waits(r) => requests[r].age < SyncBudget(r)
  /\ \A r \in DOMAIN requests : Running(r) => elapsed < Budget(r)
  /\ requests' = [r \in DOMAIN requests |->
       IF ~Waits(r) THEN requests[r]
       ELSE [requests[r] EXCEPT !.age = @ + 1, !.queued = IF IsAt(r, "queued") THEN @ + 1 ELSE @]]
  /\ elapsed' = IF ReactorIsFree THEN elapsed ELSE elapsed + 1
  /\ UNCHANGED <<configs, conns>>

Request(r) ==
  \/ Take(r)
  \/ Connect(r)
  \/ Apply(r)
  \/ Return(r)
  \/ Break(r)
  \/ Expire(r)
  \/ Abandon(r)

Next ==
  \/ \E kind \in Kinds, s \in Servers : Send(kind, s)
  \/ \E r \in DOMAIN requests : Request(r)
  \/ \E s \in Servers : Die(s)
  \/ Tick

\* The reactor's loop, its timers and time itself go on; servers need not.
Fairness ==
  /\ \A r \in 1 .. MaxRequests : WF_vars(r \in DOMAIN requests /\ Take(r))
  /\ \A r \in 1 .. MaxRequests : WF_vars(r \in DOMAIN requests /\ Expire(r))
  /\ \A r \in 1 .. MaxRequests : WF_vars(r \in DOMAIN requests /\ Abandon(r))
  /\ WF_vars(Tick)

Spec == Init /\ [][Next]_vars
FairSpec == Spec /\ Fairness

-----------------------------------------------------------------------------
(* Properties *)

\* mcp.rs:614-619: a caller gives up before the reactor's verdict only when
\* its request spent the margin in the queue, behind the operations of other
\* callers: the reactor's own bound, which covers a reconnection, is shorter.
VerdictBeatsTheCaller ==
  \A r \in DOMAIN requests : requests[r].caller = "gone" => requests[r].queued >= Margin

\* A server process that died fails one call or read and never a second: a
\* connection on which one has failed is not there for the next, which starts
\* the server again.
DeadServerFailsOnce == \A s \in Servers : ~conns[s].failed

\* One hung server does not starve the loop: every request that was sent is
\* taken and settled, those whose caller has gone too.
EveryRequestIsSettled ==
  \A r \in 1 .. MaxRequests :
    (r \in DOMAIN requests) ~> (r \in DOMAIN requests /\ IsAt(r, "over"))

\* mcp.rs:614-619: "the reactor's verdict must always arrive before the sync
\* side gives up -- otherwise an abandoned in-flight call could complete
\* server-side after the turn settled it as an error".
NoLateEffect == \A r \in DOMAIN requests : ~requests[r].late

=============================================================================
