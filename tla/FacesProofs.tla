----------------------------- MODULE FacesProofs -----------------------------
(***************************************************************************)
(* Proofs about the parts of MCFaces.  The ACP server (AcpHost): for every *)
(* number of sessions, prompts, calls and open requests, and whatever the  *)
(* client answers, and when.  The MCP server (McpHost): for every number   *)
(* of sessions and calls.  The terminal (Terminal): for every set of texts *)
(* and all limits of its queues.  The chats (ChatLoop): for every set of   *)
(* messages, and kills at any time.                                        *)
(***************************************************************************)
EXTENDS MCFaces, FiniteSetTheorems, SequenceTheorems, WellFoundedInduction, TLAPS

-----------------------------------------------------------------------------
(* The reader *)

\* The reader waits for a storage mutex only while no turn holds it: a turn
\* is claimed under the map's lock, which the reader has when it waits
\* (acp.rs, set_model_option(); session_host.rs, claim_turn()).
THEOREM ReaderNeverWaits == Spec => []ReaderNeverWaitsForATurn
<1>1. Init => ReaderNeverWaitsForATurn
  BY DEF Init, ReaderNeverWaitsForATurn, ReaderIs
<1>2. ReaderNeverWaitsForATurn /\ [Next]_vars => ReaderNeverWaitsForATurn'
  <2> SUFFICES ASSUME ReaderNeverWaitsForATurn, [Next]_vars
               PROVE  ReaderNeverWaitsForATurn'
    OBVIOUS
  <2> USE DEF ReaderNeverWaitsForATurn, ReaderIs, Reads
  <2>1. ASSUME NEW s \in Sessions, New(s) \/ Load(s) \/ Prompt(s) \/ Cancel(s) \/ SetApproval(s)
        PROVE  ReaderNeverWaitsForATurn'
    BY <2>1 DEF New, Load, Prompt, Cancel, SetApproval
  <2>2. ASSUME NEW s \in Sessions, NEW m \in Models, SetModel(s, m)
        PROVE  ReaderNeverWaitsForATurn'
    BY <2>2 DEF SetModel
  <2>3. CASE Admit
    BY <2>3 DEF Admit, ReaderIsFree
  <2>4. ASSUME NEW m \in Models, SetModelLocked(m)
        PROVE  ReaderNeverWaitsForATurn'
    BY <2>4 DEF SetModelLocked, ReaderIsFree
  <2>5. ASSUME NEW r \in DOMAIN requests, NEW a \in Answers, Answer(r, a)
        PROVE  ReaderNeverWaitsForATurn'
    BY <2>5 DEF Answer
  <2>6. ASSUME NEW p \in DOMAIN prompts, Thread(p)
        PROVE  ReaderNeverWaitsForATurn'
    <3>1. reader' = reader
      BY <2>6 DEF Thread, Claim, Refused, CallByPolicy, CallAsks, Receive, GiveUp, Execute,
                  Finish, Reply
    <3>2. CASE Claim(p)
      BY <3>2 DEF Claim, MapIsFree
    <3>3. CASE ~Claim(p)
      <4>1. busy' \subseteq busy
        BY <2>6, <3>3 DEF Thread, Refused, CallByPolicy, CallAsks, Receive, GiveUp, Execute,
                          Finish, Reply, EndsTurn
      <4> QED
        BY <3>1, <4>1
    <3> QED
      BY <3>2, <3>3
  <2>7. CASE UNCHANGED vars
    BY <2>7 DEF vars
  <2> QED
    BY <2>1, <2>2, <2>3, <2>4, <2>5, <2>6, <2>7 DEF Next, Reader
<1> QED
  BY <1>1, <1>2, PTL DEF Spec

-----------------------------------------------------------------------------
(* Consent *)

(***************************************************************************)
(* The inductive invariant.  A thread that waits, waits for a request of   *)
(* its own; a reply carries the id of the request it was routed to; and    *)
(* a prompt belongs to one session for ever.                               *)
(***************************************************************************)
ReplyRecords == [is : Answers \cup {"none", "closed"}, to : Nat]
RequestRecords == [prompt : Nat, risk : Risks, reply : ReplyRecords]
PromptRecords ==
  [session : Sessions, at : Places, calls : Nat, by : Nat, early : BOOLEAN]

Typed ==
  /\ prompts \in Seq(PromptRecords)
  /\ requests \in Seq(RequestRecords)
  /\ remembered \subseteq Sessions

Granted(r) == requests[r].reply.is \in {"once", "always"}

RequestsInv ==
  \A r \in DOMAIN requests :
    /\ requests[r].prompt \in DOMAIN prompts
    /\ requests[r].reply.is \in Answers => requests[r].reply.to = r

OwnRequest(p) ==
  /\ prompts[p].by \in DOMAIN requests
  /\ requests[prompts[p].by].prompt = p

ThreadsInv ==
  \A p \in DOMAIN prompts :
    /\ At(p, "waiting") => OwnRequest(p)
    /\ At(p, "allowed") => prompts[p].by = 0 \/ (OwnRequest(p) /\ Granted(prompts[p].by))
    /\ prompts[p].at \notin {"waiting", "allowed"} => prompts[p].by = 0

AlwaysAllowed(s) ==
  \E r \in DOMAIN requests :
    /\ SessionOf(requests[r].prompt) = s
    /\ requests[r].risk = "write"
    /\ requests[r].reply.is = "always"

MemoryInv == \A s \in remembered : AlwaysAllowed(s)

IInv == Typed /\ RequestsInv /\ ThreadsInv /\ MemoryInv

LEMMA InitIInv == Init => IInv
BY DEF Init, IInv, Typed, RequestsInv, ThreadsInv, MemoryInv

-----------------------------------------------------------------------------
(* Steps that leave requests and consent alone *)

\* The one prompt whose record changes keeps its session, and its place goes
\* with its request.
LEMMA PromptStep ==
  ASSUME IInv, NEW p \in DOMAIN prompts,
         prompts' \in Seq(PromptRecords),
         DOMAIN prompts' = DOMAIN prompts,
         \A q \in DOMAIN prompts : q # p => prompts'[q] = prompts[q],
         prompts'[p].session = prompts[p].session,
         prompts'[p].at = "waiting" => OwnRequest(p)',
         prompts'[p].at = "allowed" =>
           prompts'[p].by = 0 \/ (OwnRequest(p)' /\ Granted(prompts[p].by)'),
         prompts'[p].at \notin {"waiting", "allowed"} => prompts'[p].by = 0,
         requests' = requests,
         remembered' = remembered
  PROVE  IInv'
<1>1. Typed'
  BY DEF IInv, Typed
<1>2. RequestsInv'
  BY DEF IInv, RequestsInv
<1>3. ThreadsInv'
  <2> SUFFICES ASSUME NEW q \in DOMAIN prompts
               PROVE  /\ At(q, "waiting")' => OwnRequest(q)'
                      /\ At(q, "allowed")' =>
                           prompts'[q].by = 0 \/ (OwnRequest(q)' /\ Granted(prompts[q].by)')
                      /\ prompts'[q].at \notin {"waiting", "allowed"} => prompts'[q].by = 0
    BY DEF ThreadsInv
  <2>1. CASE q = p
    BY <2>1 DEF At
  <2>2. CASE q # p
    BY <2>2 DEF IInv, ThreadsInv, At, OwnRequest, Granted
  <2> QED
    BY <2>1, <2>2
<1>4. MemoryInv'
  <2>1. \A r \in DOMAIN requests : SessionOf(requests[r].prompt)' = SessionOf(requests[r].prompt)
    BY DEF IInv, RequestsInv, SessionOf
  <2> QED
    BY <2>1 DEF IInv, MemoryInv, AlwaysAllowed
<1> QED
  BY <1>1, <1>2, <1>3, <1>4 DEF IInv

\* Nothing that consent is about changes, or less is remembered.
LEMMA Frame ==
  ASSUME IInv, UNCHANGED <<prompts, requests>>, remembered' \subseteq remembered
  PROVE  IInv'
BY DEF IInv, Typed, RequestsInv, ThreadsInv, MemoryInv, AlwaysAllowed, SessionOf, At,
       OwnRequest, Granted

LEMMA PromptKeepsIInv ==
  ASSUME IInv, NEW s \in Sessions, Prompt(s)
  PROVE  IInv'
<1> DEFINE new == [session |-> s, at |-> "spawned", calls |-> 0, by |-> 0, early |-> FALSE]
<1>1. new \in PromptRecords
  BY DEF PromptRecords, Places
<1>2. /\ prompts' = Append(prompts, new)
      /\ UNCHANGED <<requests, remembered>>
  BY DEF Prompt
<1>3. new.at = "spawned" /\ new.by = 0
  OBVIOUS
<1> HIDE DEF new
<1>4. /\ prompts' \in Seq(PromptRecords)
      /\ DOMAIN prompts \subseteq DOMAIN prompts'
      /\ \A q \in DOMAIN prompts : prompts'[q] = prompts[q]
      /\ \A q \in DOMAIN prompts' \ DOMAIN prompts : prompts'[q] = new
  BY <1>1, <1>2 DEF IInv, Typed
<1>5. Typed'
  BY <1>2, <1>4 DEF IInv, Typed
<1>6. RequestsInv'
  BY <1>2, <1>4 DEF IInv, RequestsInv
<1>7. ThreadsInv'
  <2> SUFFICES ASSUME NEW q \in DOMAIN prompts'
               PROVE  /\ At(q, "waiting")' => OwnRequest(q)'
                      /\ At(q, "allowed")' =>
                           prompts'[q].by = 0 \/ (OwnRequest(q)' /\ Granted(prompts[q].by)')
                      /\ prompts'[q].at \notin {"waiting", "allowed"} => prompts'[q].by = 0
    BY DEF ThreadsInv
  <2>1. CASE q \in DOMAIN prompts
    BY <2>1, <1>2, <1>4 DEF IInv, ThreadsInv, At, OwnRequest, Granted
  <2>2. CASE q \notin DOMAIN prompts
    BY <2>2, <1>3, <1>4 DEF At
  <2> QED
    BY <2>1, <2>2
<1>8. MemoryInv'
  <2>1. \A r \in DOMAIN requests : SessionOf(requests[r].prompt)' = SessionOf(requests[r].prompt)
    BY <1>2, <1>4 DEF IInv, RequestsInv, SessionOf
  <2> QED
    BY <2>1, <1>2 DEF IInv, MemoryInv, AlwaysAllowed
<1> QED
  BY <1>5, <1>6, <1>7, <1>8 DEF IInv

\* session/cancel marks prompts that have not begun.
LEMMA CancelKeepsIInv ==
  ASSUME IInv, NEW s \in Sessions, Cancel(s)
  PROVE  IInv'
<1>1. UNCHANGED <<requests, remembered>>
  BY DEF Cancel
<1>2. /\ DOMAIN prompts' = DOMAIN prompts
      /\ \A p \in DOMAIN prompts :
           prompts'[p] = IF prompts[p].session = s /\ prompts[p].at = "spawned"
                         THEN [prompts[p] EXCEPT !.early = TRUE] ELSE prompts[p]
  BY DEF Cancel
<1>3. \A p \in DOMAIN prompts : prompts[p] \in PromptRecords
  BY DEF IInv, Typed
<1>4. \A p \in DOMAIN prompts :
        /\ prompts'[p] \in PromptRecords
        /\ prompts'[p].session = prompts[p].session
        /\ prompts'[p].at = prompts[p].at
        /\ prompts'[p].by = prompts[p].by
  BY <1>2, <1>3 DEF PromptRecords
<1>5. prompts' \in Seq(PromptRecords)
  <2>1. prompts \in Seq(PromptRecords)
    BY DEF IInv, Typed
  <2>2. prompts' = [p \in DOMAIN prompts |-> prompts'[p]]
    BY DEF Cancel
  <2>3. DOMAIN prompts = 1 .. Len(prompts) /\ Len(prompts) \in Nat
    BY <2>1
  <2> QED
    BY <2>2, <2>3, <1>4
<1>6. Typed'
  BY <1>1, <1>5 DEF IInv, Typed
<1>7. RequestsInv'
  BY <1>1, <1>2 DEF IInv, RequestsInv
<1>8. ThreadsInv'
  BY <1>1, <1>2, <1>4 DEF IInv, ThreadsInv, At, OwnRequest, Granted
<1>9. MemoryInv'
  <2>1. \A r \in DOMAIN requests : SessionOf(requests[r].prompt)' = SessionOf(requests[r].prompt)
    BY <1>1, <1>4 DEF IInv, RequestsInv, SessionOf
  <2> QED
    BY <2>1, <1>1 DEF IInv, MemoryInv, AlwaysAllowed
<1> QED
  BY <1>6, <1>7, <1>8, <1>9 DEF IInv

-----------------------------------------------------------------------------
(* Steps of requests *)

\* The reader routes a reply to a request that still waits, under its id.
LEMMA AnswerKeepsIInv ==
  ASSUME IInv, NEW r \in DOMAIN requests, NEW a \in Answers, Answer(r, a)
  PROVE  IInv'
<1> DEFINE reply == [is |-> a, to |-> r]
<1>1. UNCHANGED <<prompts, remembered>>
  BY DEF Answer
<1>2. CASE ~Waits(r)
  BY <1>1, <1>2, Frame DEF Answer, Route
<1>3. CASE Waits(r)
  <2>1. requests' = [requests EXCEPT ![r].reply = reply]
    BY <1>3 DEF Answer, Route
  <2>2. /\ requests \in Seq(RequestRecords) /\ r \in Nat
        /\ \A q \in DOMAIN requests : requests[q] \in RequestRecords
    BY DEF IInv, Typed
  <2>3. reply \in ReplyRecords /\ reply.is = a /\ reply.to = r
    BY <2>2 DEF ReplyRecords
  <2> HIDE DEF reply
  <2>4. /\ DOMAIN requests' = DOMAIN requests
        /\ \A q \in DOMAIN requests : q # r => requests'[q] = requests[q]
        /\ requests'[r].prompt = requests[r].prompt
        /\ requests'[r].risk = requests[r].risk
        /\ requests'[r].reply = reply
        /\ requests'[r] \in RequestRecords
    BY <2>1, <2>2, <2>3 DEF RequestRecords
  <2>5. requests' \in Seq(RequestRecords)
    <3>1. requests' = [q \in DOMAIN requests |-> requests'[q]]
      BY <2>1
    <3>2. DOMAIN requests = 1 .. Len(requests) /\ Len(requests) \in Nat
      BY <2>2
    <3>3. \A q \in DOMAIN requests : requests'[q] \in RequestRecords
      BY <2>2, <2>4
    <3> QED
      BY <3>1, <3>2, <3>3
  <2>6. ~Granted(r) /\ requests[r].reply.is # "always"
    BY <1>3 DEF Waits, Granted
  <2>7. Typed'
    BY <1>1, <2>5 DEF IInv, Typed
  <2>8. RequestsInv'
    BY <1>1, <2>3, <2>4 DEF IInv, RequestsInv
  <2>9. ThreadsInv'
    BY <1>1, <2>4, <2>6 DEF IInv, ThreadsInv, At, OwnRequest, Granted
  <2>10. MemoryInv'
    <3> SUFFICES ASSUME NEW s \in remembered PROVE AlwaysAllowed(s)'
      BY <1>1 DEF MemoryInv
    <3>1. PICK q \in DOMAIN requests :
            /\ SessionOf(requests[q].prompt) = s
            /\ requests[q].risk = "write"
            /\ requests[q].reply.is = "always"
      BY DEF IInv, MemoryInv, AlwaysAllowed
    <3>2. q # r
      BY <2>6, <3>1
    <3> QED
      BY <1>1, <2>4, <3>1, <3>2 DEF AlwaysAllowed, SessionOf
  <2> QED
    BY <2>7, <2>8, <2>9, <2>10 DEF IInv
<1> QED
  BY <1>2, <1>3

\* A request is sent under a new id, by the thread that then waits for it.
LEMMA CallAsksKeepsIInv ==
  ASSUME IInv, NEW p \in DOMAIN prompts, NEW risk \in Risks, CallAsks(p, risk)
  PROVE  IInv'
<1> DEFINE request == [prompt |-> p, risk |-> risk, reply |-> [is |-> "none", to |-> 0]]
<1>1. /\ prompts \in Seq(PromptRecords) /\ p \in Nat
      /\ requests \in Seq(RequestRecords)
      /\ prompts[p] \in PromptRecords
  BY DEF IInv, Typed
<1>2. /\ request \in RequestRecords
      /\ request.prompt = p /\ request.reply.is = "none"
  BY <1>1 DEF RequestRecords, ReplyRecords
<1>3. /\ requests' = Append(requests, request)
      /\ prompts' = [prompts EXCEPT ![p].at = "waiting", ![p].calls = @ + 1, ![p].by = Len(requests')]
      /\ UNCHANGED remembered
  BY DEF CallAsks
<1> HIDE DEF request
<1>4. /\ requests' \in Seq(RequestRecords)
      /\ Len(requests') \in DOMAIN requests' /\ Len(requests') \in Nat
      /\ requests'[Len(requests')] = request
      /\ DOMAIN requests' = DOMAIN requests \cup {Len(requests')}
      /\ Len(requests') \notin DOMAIN requests
      /\ \A r \in DOMAIN requests : requests'[r] = requests[r]
  BY <1>1, <1>2, <1>3
<1>5. /\ DOMAIN prompts' = DOMAIN prompts
      /\ \A q \in DOMAIN prompts : q # p => prompts'[q] = prompts[q]
      /\ prompts'[p].session = prompts[p].session
      /\ prompts'[p].at = "waiting"
      /\ prompts'[p].by = Len(requests')
      /\ prompts'[p].calls = prompts[p].calls + 1
      /\ prompts'[p] \in PromptRecords
  <2> DEFINE n == Len(requests')
  <2>1. prompts' = [prompts EXCEPT ![p] =
                     [prompts[p] EXCEPT !.at = "waiting", !.calls = @ + 1, !.by = n]]
    BY <1>1, <1>3
  <2>2. n \in Nat
    BY <1>4
  <2> HIDE DEF n
  <2>3. DOMAIN prompts' = DOMAIN prompts
    BY <2>1
  <2>4. \A q \in DOMAIN prompts : q # p => prompts'[q] = prompts[q]
    BY <2>1
  <2>5. prompts'[p] = [prompts[p] EXCEPT !.at = "waiting", !.calls = @ + 1, !.by = n]
    BY <2>1
  <2>6. [prompts[p] EXCEPT !.at = "waiting", !.calls = @ + 1, !.by = n]
          = [session |-> prompts[p].session, at |-> "waiting", calls |-> prompts[p].calls + 1,
             by |-> n, early |-> prompts[p].early]
    <3> DEFINE e == [prompts[p] EXCEPT !.at = "waiting", !.calls = @ + 1, !.by = n]
    <3>1. DOMAIN prompts[p] = {"session", "at", "calls", "by", "early"}
      BY <1>1 DEF PromptRecords
    <3>2. e = [f \in DOMAIN prompts[p] |->
                CASE f = "at" -> "waiting" [] f = "calls" -> prompts[p].calls + 1
                  [] f = "by" -> n [] OTHER -> prompts[p][f]]
      BY <3>1
    <3> QED
      BY <3>1, <3>2
  <2>7. prompts'[p] \in PromptRecords
    BY <1>1, <2>2, <2>5, <2>6 DEF PromptRecords, Places
  <2> QED
    BY <2>3, <2>4, <2>5, <2>6, <2>7 DEF n
<1>6. prompts' \in Seq(PromptRecords)
  <2>1. prompts' = [q \in DOMAIN prompts |-> prompts'[q]]
    BY <1>3
  <2>2. DOMAIN prompts = 1 .. Len(prompts) /\ Len(prompts) \in Nat
    BY <1>1
  <2>3. \A q \in DOMAIN prompts : prompts'[q] \in PromptRecords
    BY <1>1, <1>5
  <2> QED
    BY <2>1, <2>2, <2>3
<1>7. \A r \in DOMAIN requests : SessionOf(requests[r].prompt)' = SessionOf(requests[r].prompt)
  BY <1>4, <1>5 DEF IInv, RequestsInv, SessionOf
<1>8. Typed'
  BY <1>3, <1>4, <1>6 DEF IInv, Typed
<1>9. RequestsInv'
  BY <1>2, <1>4, <1>5 DEF IInv, RequestsInv, Answers
<1>10. ThreadsInv'
  <2> SUFFICES ASSUME NEW q \in DOMAIN prompts
               PROVE  /\ At(q, "waiting")' => OwnRequest(q)'
                      /\ At(q, "allowed")' =>
                           prompts'[q].by = 0 \/ (OwnRequest(q)' /\ Granted(prompts[q].by)')
                      /\ prompts'[q].at \notin {"waiting", "allowed"} => prompts'[q].by = 0
    BY <1>5 DEF ThreadsInv
  <2>1. CASE q = p
    BY <2>1, <1>2, <1>4, <1>5 DEF At, OwnRequest
  <2>2. CASE q # p
    <3>1. OwnRequest(q) => requests'[prompts[q].by] = requests[prompts[q].by]
      BY <1>4 DEF OwnRequest
    <3>2. prompts'[q] = prompts[q] /\ DOMAIN requests \subseteq DOMAIN requests'
      BY <2>2, <1>4, <1>5
    <3> QED
      BY <3>1, <3>2 DEF IInv, ThreadsInv, At, OwnRequest, Granted
  <2> QED
    BY <2>1, <2>2
<1>11. MemoryInv'
  BY <1>3, <1>4, <1>7 DEF IInv, MemoryInv, AlwaysAllowed
<1> QED
  BY <1>8, <1>9, <1>10, <1>11 DEF IInv

\* The end of a turn closes its own requests and no other's; what the client
\* has always allowed stays on record.
LEMMA EndsTurnKeepsIInv ==
  ASSUME IInv, NEW p \in DOMAIN prompts, NEW at \in {"ended", "done"}, EndsTurn(p, at),
         UNCHANGED remembered
  PROVE  IInv'
<1>1. /\ prompts \in Seq(PromptRecords)
      /\ requests \in Seq(RequestRecords)
      /\ prompts[p] \in PromptRecords
      /\ \A r \in DOMAIN requests : requests[r] \in RequestRecords
  BY DEF IInv, Typed
<1>2. /\ requests' = Closed(p)
      /\ prompts' = [prompts EXCEPT ![p] = Over(p, at)]
  BY DEF EndsTurn
<1>3. /\ Over(p, at).session = prompts[p].session
      /\ Over(p, at).at = at
      /\ Over(p, at).by = 0
      /\ Over(p, at) \in PromptRecords
  BY <1>1 DEF Over, PromptRecords, Places
<1>4. /\ DOMAIN prompts' = DOMAIN prompts
      /\ \A q \in DOMAIN prompts : q # p => prompts'[q] = prompts[q]
      /\ prompts'[p] = Over(p, at)
      /\ prompts' \in Seq(PromptRecords)
  BY <1>1, <1>2, <1>3
<1>5. DOMAIN requests' = DOMAIN requests
  BY <1>2 DEF Closed
<1>6. ASSUME NEW r \in DOMAIN requests
      PROVE  /\ requests'[r] \in RequestRecords
             /\ requests'[r].prompt = requests[r].prompt
             /\ requests'[r].risk = requests[r].risk
             /\ requests'[r].reply.is \in Answers => requests'[r].reply = requests[r].reply
             /\ requests[r].prompt # p \/ requests[r].reply.is = "always"
                  => requests'[r] = requests[r]
  <2>1. requests[r] \in RequestRecords
    BY <1>1
  <2>2. CASE requests[r].prompt = p /\ requests[r].reply.is # "always"
    <3>1. requests'[r] = [requests[r] EXCEPT !.reply = [is |-> "closed", to |-> 0]]
      BY <2>2, <1>2 DEF Closed
    <3> QED
      BY <2>1, <2>2, <3>1 DEF RequestRecords, ReplyRecords, Answers
  <2>3. CASE ~(requests[r].prompt = p /\ requests[r].reply.is # "always")
    BY <2>1, <2>3, <1>2 DEF Closed
  <2> QED
    BY <2>2, <2>3
<1>7. requests' \in Seq(RequestRecords)
  <2>1. requests' = [r \in DOMAIN requests |-> requests'[r]]
    BY <1>2 DEF Closed
  <2>2. DOMAIN requests = 1 .. Len(requests) /\ Len(requests) \in Nat
    BY <1>1
  <2> QED
    BY <2>1, <2>2, <1>6
<1>8. \A r \in DOMAIN requests : SessionOf(requests[r].prompt)' = SessionOf(requests[r].prompt)
  BY <1>3, <1>4, <1>6 DEF IInv, RequestsInv, SessionOf
<1>9. Typed'
  BY <1>4, <1>7 DEF IInv, Typed
<1>10. RequestsInv'
  BY <1>4, <1>5, <1>6 DEF IInv, RequestsInv
<1>11. ThreadsInv'
  <2> SUFFICES ASSUME NEW q \in DOMAIN prompts
               PROVE  /\ At(q, "waiting")' => OwnRequest(q)'
                      /\ At(q, "allowed")' =>
                           prompts'[q].by = 0 \/ (OwnRequest(q)' /\ Granted(prompts[q].by)')
                      /\ prompts'[q].at \notin {"waiting", "allowed"} => prompts'[q].by = 0
    BY <1>4 DEF ThreadsInv
  <2>1. CASE q = p
    BY <2>1, <1>3, <1>4 DEF At
  <2>2. CASE q # p
    <3>1. OwnRequest(q) => requests'[prompts[q].by] = requests[prompts[q].by]
      BY <2>2, <1>6 DEF OwnRequest
    <3> QED
      BY <2>2, <3>1, <1>4, <1>5 DEF IInv, ThreadsInv, At, OwnRequest, Granted
  <2> QED
    BY <2>1, <2>2
<1>12. MemoryInv'
  <2> SUFFICES ASSUME NEW s \in remembered PROVE AlwaysAllowed(s)'
    BY DEF MemoryInv
  <2>1. PICK r \in DOMAIN requests :
          /\ SessionOf(requests[r].prompt) = s
          /\ requests[r].risk = "write"
          /\ requests[r].reply.is = "always"
    BY DEF IInv, MemoryInv, AlwaysAllowed
  <2>2. requests'[r] = requests[r]
    BY <2>1, <1>6
  <2>3. SessionOf(requests[r].prompt)' = s
    BY <2>1, <1>8
  <2> QED
    BY <2>1, <2>2, <2>3, <1>5 DEF AlwaysAllowed
<1> QED
  BY <1>9, <1>10, <1>11, <1>12 DEF IInv

-----------------------------------------------------------------------------
(* Steps of a thread *)

\* A step that moves a thread to `at`, and does no more than that.
LEMMA GoesKeepsIInv ==
  ASSUME IInv, NEW p \in DOMAIN prompts, NEW at \in Places, Goes(p, at),
         at \notin {"waiting", "allowed"} => prompts[p].by = 0,
         at = "waiting" => OwnRequest(p),
         at = "allowed" => prompts[p].by = 0 \/ (OwnRequest(p) /\ Granted(prompts[p].by)),
         UNCHANGED <<requests, remembered>>
  PROVE  IInv'
<1>1. prompts \in Seq(PromptRecords) /\ prompts[p] \in PromptRecords
  BY DEF IInv, Typed
<1>2. prompts' = [prompts EXCEPT ![p] = [prompts[p] EXCEPT !.at = at]]
  BY DEF Goes
<1>3. [prompts[p] EXCEPT !.at = at] \in PromptRecords
  BY <1>1 DEF PromptRecords
<1>4. /\ prompts' \in Seq(PromptRecords)
      /\ DOMAIN prompts' = DOMAIN prompts
      /\ \A q \in DOMAIN prompts : q # p => prompts'[q] = prompts[q]
      /\ prompts'[p] = [prompts[p] EXCEPT !.at = at]
  BY <1>1, <1>2, <1>3
<1>5. /\ prompts'[p].session = prompts[p].session
      /\ prompts'[p].by = prompts[p].by
      /\ prompts'[p].at = at
  BY <1>1, <1>4 DEF PromptRecords
<1>6. OwnRequest(p)' = OwnRequest(p) /\ Granted(prompts[p].by)' = Granted(prompts[p].by)
  BY <1>5 DEF OwnRequest, Granted
<1> QED
  BY <1>4, <1>5, <1>6, PromptStep

LEMMA ThreadKeepsIInv ==
  ASSUME IInv, NEW p \in DOMAIN prompts, Thread(p)
  PROVE  IInv'
<1>1. /\ prompts \in Seq(PromptRecords)
      /\ prompts[p] \in PromptRecords
      /\ prompts[p].at \notin {"waiting", "allowed"} => prompts[p].by = 0
  BY DEF IInv, Typed, ThreadsInv
<1>2. CASE Claim(p)
  BY <1>1, <1>2, GoesKeepsIInv DEF Claim, At, Places
<1>3. CASE Refused(p)
  <2>1. prompts' = [prompts EXCEPT ![p] = Over(p, "done")] /\ UNCHANGED <<requests, remembered>>
    BY <1>3 DEF Refused
  <2>2. /\ Over(p, "done").session = prompts[p].session
        /\ Over(p, "done").at = "done"
        /\ Over(p, "done").by = 0
        /\ Over(p, "done") \in PromptRecords
    BY <1>1 DEF Over, PromptRecords, Places
  <2>3. /\ prompts' \in Seq(PromptRecords)
        /\ DOMAIN prompts' = DOMAIN prompts
        /\ \A q \in DOMAIN prompts : q # p => prompts'[q] = prompts[q]
        /\ prompts'[p] = Over(p, "done")
    BY <1>1, <2>1, <2>2
  <2> QED
    BY <2>1, <2>2, <2>3, PromptStep
<1>4. CASE CallByPolicy(p)
  <2> DEFINE e == [prompts[p] EXCEPT !.at = "allowed", !.calls = @ + 1]
  <2>1. /\ prompts' = [prompts EXCEPT ![p] = e]
        /\ UNCHANGED <<requests, remembered>>
        /\ prompts[p].by = 0
    BY <1>1, <1>4 DEF CallByPolicy, At
  <2>2. /\ e.session = prompts[p].session
        /\ e.by = prompts[p].by
        /\ e.at = "allowed"
        /\ e \in PromptRecords
    <3>1. DOMAIN prompts[p] = {"session", "at", "calls", "by", "early"}
      BY <1>1 DEF PromptRecords
    <3>2. e = [f \in DOMAIN prompts[p] |->
                CASE f = "at" -> "allowed" [] f = "calls" -> prompts[p].calls + 1
                  [] OTHER -> prompts[p][f]]
      BY <3>1
    <3> QED
      BY <1>1, <3>1, <3>2 DEF PromptRecords, Places
  <2> HIDE DEF e
  <2>3. /\ prompts' \in Seq(PromptRecords)
        /\ DOMAIN prompts' = DOMAIN prompts
        /\ \A q \in DOMAIN prompts : q # p => prompts'[q] = prompts[q]
        /\ prompts'[p] = e
    BY <1>1, <2>1, <2>2
  <2> QED
    BY <2>1, <2>2, <2>3, PromptStep
<1>5. ASSUME NEW risk \in Risks, CallAsks(p, risk) PROVE IInv'
  BY <1>5, CallAsksKeepsIInv
<1>6. CASE Receive(p)
  <2> DEFINE r == prompts[p].by
  <2>1. /\ OwnRequest(p)
        /\ requests[r].reply.is \in Answers
        /\ remembered' = IF Remembers(r) THEN remembered \cup {SessionOf(p)} ELSE remembered
    BY <1>6 DEF Receive, IInv, ThreadsInv
  <2>2. CASE requests[r].reply.is = "reject"
    <3>1. EndsTurn(p, "ended") /\ UNCHANGED remembered
      BY <1>6, <2>2, <2>1 DEF Receive, Remembers
    <3> QED
      BY <3>1, EndsTurnKeepsIInv
  <2>3. CASE requests[r].reply.is # "reject"
    <3>1. Goes(p, "allowed") /\ UNCHANGED requests /\ Granted(r)
      BY <1>6, <2>1, <2>3 DEF Receive, Answers, Granted
    <3>2. prompts' = [prompts EXCEPT ![p] = [prompts[p] EXCEPT !.at = "allowed"]]
      BY <3>1 DEF Goes
    <3>3. [prompts[p] EXCEPT !.at = "allowed"] \in PromptRecords
      BY <1>1 DEF PromptRecords, Places
    <3>4. /\ prompts' \in Seq(PromptRecords)
          /\ DOMAIN prompts' = DOMAIN prompts
          /\ \A q \in DOMAIN prompts : q # p => prompts'[q] = prompts[q]
          /\ prompts'[p] = [prompts[p] EXCEPT !.at = "allowed"]
      BY <1>1, <3>2, <3>3
    <3>5. /\ prompts'[p].session = prompts[p].session
          /\ prompts'[p].by = prompts[p].by
          /\ prompts'[p].at = "allowed"
      BY <1>1, <3>4 DEF PromptRecords
    <3>6. \A q \in DOMAIN requests : SessionOf(requests[q].prompt)' = SessionOf(requests[q].prompt)
      BY <3>1, <3>4, <3>5 DEF IInv, RequestsInv, SessionOf
    <3>7. prompts[p].session \in Sessions
      BY <1>1 DEF PromptRecords
    <3>8. Typed'
      BY <2>1, <3>1, <3>4, <3>7 DEF IInv, Typed, SessionOf
    <3>9. RequestsInv'
      BY <3>1, <3>4 DEF IInv, RequestsInv
    <3>10. ThreadsInv'
      <4> SUFFICES ASSUME NEW q \in DOMAIN prompts
                   PROVE  /\ At(q, "waiting")' => OwnRequest(q)'
                          /\ At(q, "allowed")' =>
                               prompts'[q].by = 0 \/ (OwnRequest(q)' /\ Granted(prompts[q].by)')
                          /\ prompts'[q].at \notin {"waiting", "allowed"} => prompts'[q].by = 0
        BY <3>4 DEF ThreadsInv
      <4>1. CASE q = p
        BY <4>1, <2>1, <3>1, <3>5 DEF At, OwnRequest, Granted
      <4>2. CASE q # p
        BY <4>2, <3>1, <3>4 DEF IInv, ThreadsInv, At, OwnRequest, Granted
      <4> QED
        BY <4>1, <4>2
    <3>11. MemoryInv'
      <4>1. Remembers(r) => AlwaysAllowed(SessionOf(p))
        BY <2>1 DEF Remembers, AlwaysAllowed, OwnRequest
      <4>2. \A s \in remembered' : AlwaysAllowed(s)
        BY <2>1, <4>1 DEF IInv, MemoryInv
      <4> QED
        BY <4>2, <3>1, <3>6 DEF MemoryInv, AlwaysAllowed
    <3> QED
      BY <3>8, <3>9, <3>10, <3>11 DEF IInv
  <2> QED
    BY <2>2, <2>3
<1>7. CASE GiveUp(p)
  BY <1>7, EndsTurnKeepsIInv DEF GiveUp
<1>8. CASE Execute(p)
  <2>1. CASE EndsTurn(p, "ended")
    BY <1>8, <2>1, EndsTurnKeepsIInv DEF Execute
  <2>2. CASE Leaves(p, "running") /\ UNCHANGED requests
    <3> DEFINE e == [prompts[p] EXCEPT !.at = "running", !.by = 0]
    <3>1. prompts' = [prompts EXCEPT ![p] = e] /\ UNCHANGED <<requests, remembered>>
      BY <1>1, <1>8, <2>2 DEF Execute, Leaves
    <3>2. /\ e.session = prompts[p].session
          /\ e.by = 0
          /\ e.at = "running"
          /\ e \in PromptRecords
      <4>1. DOMAIN prompts[p] = {"session", "at", "calls", "by", "early"}
        BY <1>1 DEF PromptRecords
      <4>2. e = [f \in DOMAIN prompts[p] |->
                  CASE f = "at" -> "running" [] f = "by" -> 0 [] OTHER -> prompts[p][f]]
        BY <4>1
      <4> QED
        BY <1>1, <4>1, <4>2 DEF PromptRecords, Places
    <3> HIDE DEF e
    <3>3. /\ prompts' \in Seq(PromptRecords)
          /\ DOMAIN prompts' = DOMAIN prompts
          /\ \A q \in DOMAIN prompts : q # p => prompts'[q] = prompts[q]
          /\ prompts'[p] = e
      BY <1>1, <3>1, <3>2
    <3> QED
      BY <3>1, <3>2, <3>3, PromptStep
  <2> QED
    BY <1>8, <2>1, <2>2 DEF Execute
<1>9. CASE Finish(p)
  BY <1>9, EndsTurnKeepsIInv DEF Finish
<1>10. CASE Reply(p)
  BY <1>1, <1>10, GoesKeepsIInv DEF Reply, At, Places
<1> QED
  BY <1>2, <1>3, <1>4, <1>5, <1>6, <1>7, <1>8, <1>9, <1>10 DEF Thread

-----------------------------------------------------------------------------

LEMMA NextKeepsIInv == IInv /\ [Next]_vars => IInv'
<1> SUFFICES ASSUME IInv, [Next]_vars PROVE IInv'
  OBVIOUS
<1>1. ASSUME NEW s \in Sessions, New(s) \/ Load(s) \/ SetApproval(s) PROVE IInv'
  BY <1>1, Frame DEF New, Load, SetApproval
<1>2. ASSUME NEW s \in Sessions, Prompt(s) PROVE IInv'
  BY <1>2, PromptKeepsIInv
<1>3. ASSUME NEW s \in Sessions, Cancel(s) PROVE IInv'
  BY <1>3, CancelKeepsIInv
<1>4. ASSUME NEW s \in Sessions, NEW m \in Models, SetModel(s, m) PROVE IInv'
  BY <1>4, Frame DEF SetModel
<1>5. CASE Admit
  <2>1. remembered' \subseteq remembered
    BY <1>5 DEF Admit, Insert
  <2> QED
    BY <1>5, <2>1, Frame DEF Admit
<1>6. ASSUME NEW m \in Models, SetModelLocked(m) PROVE IInv'
  BY <1>6, Frame DEF SetModelLocked
<1>7. ASSUME NEW r \in DOMAIN requests, NEW a \in Answers, Answer(r, a) PROVE IInv'
  BY <1>7, AnswerKeepsIInv
<1>8. ASSUME NEW p \in DOMAIN prompts, Thread(p) PROVE IInv'
  BY <1>8, ThreadKeepsIInv
<1>9. CASE UNCHANGED vars
  BY <1>9, Frame DEF vars
<1> QED
  BY <1>1, <1>2, <1>3, <1>4, <1>5, <1>6, <1>7, <1>8, <1>9 DEF Next, Reader

\* A call that runs after a request was allowed by the client's answer to the
\* request of its own thread, and what a session remembers was said of it
\* (acp.rs, wait_permission() and route()).
THEOREM ConsentHolds == Spec => []ConsentIsOwn
<1>1. Init => IInv
  BY InitIInv
<1>2. IInv /\ [Next]_vars => IInv'
  BY NextKeepsIInv
<1>3. IInv => ConsentIsOwn
  <2> SUFFICES ASSUME IInv PROVE ConsentIsOwn
    OBVIOUS
  <2>1. ASSUME NEW p \in DOMAIN prompts, At(p, "allowed"), prompts[p].by # 0
        PROVE  /\ requests[prompts[p].by].prompt = p
               /\ requests[prompts[p].by].reply.to = prompts[p].by
               /\ requests[prompts[p].by].reply.is \in {"once", "always"}
    BY <2>1 DEF IInv, ThreadsInv, RequestsInv, OwnRequest, Granted, Answers
  <2>2. \A s \in remembered : AlwaysAllowed(s)
    BY DEF IInv, MemoryInv
  <2> QED
    BY <2>1, <2>2 DEF ConsentIsOwn, AlwaysAllowed
<1> QED
  BY <1>1, <1>2, <1>3, PTL DEF Spec

-----------------------------------------------------------------------------
(* The MCP server *)

\* A session's flag is up exactly while a thread runs a turn of it, and no
\* two threads do.
Turns(s) == {t \in Threads : Mcp!Does(t, "turn") /\ Mcp!SessionOf(t) = s}

McpInv ==
  /\ calls \in [Threads -> [op : Mcp!Ops, session : McpSessions \cup {Free},
                            for : Threads \cup {Free}, raced : BOOLEAN]]
  /\ \A s \in McpSessions : s \in mcpBusy <=> Turns(s) # {}
  /\ \A s \in McpSessions : \A t, u \in Turns(s) : t = u
  /\ \A t \in Threads : calls[t].op \in {"prompt", "turn"} => calls[t].session \in McpSessions

Call == [op : Mcp!Ops, session : McpSessions \cup {Free}, for : Threads \cup {Free},
         raced : BOOLEAN]

LEMMA IdleCall == Mcp!Idle \in Call /\ Mcp!Idle.op = "idle"
<1> DEFINE no == FALSE
<1>1. no \in BOOLEAN
  OBVIOUS
<1>2. Mcp!Idle = [op |-> "idle", session |-> Free, for |-> Free, raced |-> no]
  BY DEF Mcp!Idle
<1> HIDE DEF no
<1> QED
  BY <1>1, <1>2 DEF Call, Mcp!Ops

\* One call changes, and what the others do stays.
OneCall(t, c) ==
  /\ c \in Call
  /\ DOMAIN calls' = Threads
  /\ calls'[t] = c
  /\ \A u \in Threads \ {t} :
       /\ calls'[u] \in Call
       /\ calls'[u].op = calls[u].op
       /\ calls'[u].session = calls[u].session

\* A call that begins no turn and ends none.
LEMMA NoTurnKeepsMcp ==
  ASSUME McpInv, NEW t \in Threads, NEW c \in Call, OneCall(t, c),
         calls' = [u \in Threads |-> calls'[u]],
         calls[t].op # "turn", c.op # "turn",
         c.op = "prompt" => c.session \in McpSessions, mcpBusy' = mcpBusy
  PROVE  McpInv'
<1>1. calls' \in [Threads -> Call]
  BY DEF OneCall
<1>2. \A s : Turns(s)' = Turns(s)
  BY DEF OneCall, Turns, Mcp!Does, Mcp!SessionOf
<1>3. \A u \in Threads : calls'[u].op \in {"prompt", "turn"} => calls'[u].session \in McpSessions
  BY DEF OneCall, McpInv
<1> HIDE DEF Turns
<1> QED
  BY <1>1, <1>2, <1>3 DEF McpInv, Call

\* Setting one call, as a whole.
LEMMA SetsOne ==
  ASSUME McpInv, NEW t \in Threads, NEW c \in Call, calls' = [calls EXCEPT ![t] = c]
  PROVE  OneCall(t, c) /\ calls' = [u \in Threads |-> calls'[u]]
BY DEF McpInv, OneCall, Call

\* Setting one call, while the registry changes under the others.
LEMMA RacesOne ==
  ASSUME McpInv, NEW t \in Threads, NEW c \in Call, Mcp!Races(t, c)
  PROVE  OneCall(t, c) /\ calls' = [u \in Threads |-> calls'[u]]
<1>1. calls \in [Threads -> Call]
  BY DEF McpInv, Call
<1>2. calls' = [Mcp!Raced(calls) EXCEPT ![t] = c]
  BY DEF Mcp!Races
<1>3. /\ DOMAIN Mcp!Raced(calls) = Threads
      /\ \A u \in Threads :
           Mcp!Raced(calls)[u] =
             [calls[u] EXCEPT !.raced = @ \/ calls[u].op \in {"room", "opened"}]
  BY DEF Mcp!Raced
<1>4. ASSUME NEW u \in Threads
      PROVE  /\ Mcp!Raced(calls)[u] \in Call
             /\ Mcp!Raced(calls)[u].op = calls[u].op
             /\ Mcp!Raced(calls)[u].session = calls[u].session
  <2> DEFINE raced == calls[u].raced \/ calls[u].op \in {"room", "opened"}
             c1 == [calls[u] EXCEPT !.raced = raced]
  <2>1. Mcp!Raced(calls)[u] = c1
    BY <1>3
  <2>2. raced \in BOOLEAN
    OBVIOUS
  <2> HIDE DEF raced
  <2>3. c1 \in Call /\ c1.op = calls[u].op /\ c1.session = calls[u].session
    BY <1>1, <2>2 DEF Call, Mcp!Ops
  <2> QED
    BY <2>1, <2>3
<1> HIDE DEF Mcp!Raced
<1>5. OneCall(t, c)
  BY <1>2, <1>3, <1>4 DEF OneCall
<1>6. calls' = [u \in Threads |-> calls'[u]]
  BY <1>2, <1>3
<1> QED
  BY <1>5, <1>6

LEMMA QuietKeepsMcp ==
  ASSUME McpInv, NEW t \in Threads,
         \/ Mcp!EnsureRoom(t) \/ \E s \in McpSessions : Mcp!Open(t, s)
         \/ Mcp!Admit(t) \/ \E s \in McpSessions : Mcp!Prompt(t, s)
         \/ Mcp!ClaimFails(t)
         \/ \E s \in McpSessions : Mcp!Reach(t, "detach", s) \/ Mcp!Reach(t, "interrupt", s)
         \/ Mcp!SeesTurn(t, "detach", "detach_seen")
         \/ Mcp!SeesTurn(t, "interrupt", "interrupt_seen")
         \/ Mcp!Interrupt(t) \/ Mcp!Detach(t)
         \/ \E s \in McpSessions \cup {Free} : Mcp!Route(t, s)
         \/ Mcp!Execute(t)
  PROVE  McpInv'
<1>1. calls[t] \in Call
  BY DEF McpInv, Call
<1>2. mcpBusy' = mcpBusy /\ calls[t].op # "turn"
  BY DEF Mcp!EnsureRoom, Mcp!Open, Mcp!Admit, Mcp!Prompt, Mcp!ClaimFails, Mcp!Reach,
         Mcp!SeesTurn, Mcp!Interrupt, Mcp!Detach, Mcp!Route, Mcp!Execute, Mcp!Does
<1>3. ASSUME Mcp!Returns(t) PROVE McpInv'
  BY <1>2, <1>3, IdleCall, SetsOne, NoTurnKeepsMcp DEF Mcp!Returns
<1>4. ASSUME NEW c \in Call, calls' = [calls EXCEPT ![t] = c],
             c.op # "turn", c.op = "prompt" => c.session \in McpSessions
      PROVE  McpInv'
  BY <1>2, <1>4, SetsOne, NoTurnKeepsMcp
<1>5. ASSUME NEW op \in {"room", "prompt", "detach", "interrupt", "tool"},
             NEW s \in McpSessions \cup {Free}, Mcp!Goes(t, op, s),
             op = "prompt" => s \in McpSessions
      PROVE  McpInv'
  <2> DEFINE c1 == [Mcp!Idle EXCEPT !.op = op]
             c == [c1 EXCEPT !.session = s]
  <2>1. calls' = [calls EXCEPT ![t] = c]
    BY <1>5 DEF Mcp!Goes
  <2>2. c1 \in Call /\ c1.op = op
    BY IdleCall DEF Call, Mcp!Ops
  <2> HIDE DEF c1
  <2>3. c \in Call /\ c.op = op /\ c.session = s
    BY <2>2 DEF Call, Mcp!Ops
  <2> HIDE DEF c
  <2> QED
    BY <1>4, <1>5, <2>1, <2>3
<1>6. CASE Mcp!EnsureRoom(t)
  <2>1. CASE Mcp!Goes(t, "room", Free)
    BY <1>5, <2>1
  <2>2. CASE Mcp!Races(t, [Mcp!Idle EXCEPT !.op = "room"])
    <3> DEFINE c == [Mcp!Idle EXCEPT !.op = "room"]
    <3>1. c \in Call /\ c.op = "room"
      BY IdleCall DEF Call, Mcp!Ops
    <3> HIDE DEF c
    <3>2. Mcp!Races(t, c)
      BY <2>2 DEF c
    <3> QED
      BY <1>2, <3>1, <3>2, RacesOne, NoTurnKeepsMcp
  <2> QED
    BY <1>6, <2>1, <2>2 DEF Mcp!EnsureRoom
<1>7. ASSUME NEW s \in McpSessions, Mcp!Open(t, s) PROVE McpInv'
  <2> DEFINE c1 == [calls[t] EXCEPT !.op = "opened"]
             c == [c1 EXCEPT !.session = s]
  <2>1. calls' = [calls EXCEPT ![t] = c]
    BY <1>7 DEF Mcp!Open
  <2>2. c1 \in Call /\ c1.op = "opened"
    BY <1>1 DEF Call, Mcp!Ops
  <2> HIDE DEF c1
  <2>3. c \in Call /\ c.op = "opened"
    BY <2>2 DEF Call, Mcp!Ops
  <2> HIDE DEF c
  <2> QED
    BY <1>4, <2>1, <2>3
<1>8. CASE Mcp!Admit(t)
  <2>1. Mcp!Races(t, Mcp!Idle) \/ Mcp!Returns(t)
    BY <1>8 DEF Mcp!Admit
  <2> QED
    BY <1>2, <1>3, <2>1, IdleCall, RacesOne, NoTurnKeepsMcp
<1>9. ASSUME NEW op \in {"detach", "interrupt"}, NEW seen \in {"detach_seen", "interrupt_seen"},
             Mcp!SeesTurn(t, op, seen)
      PROVE  McpInv'
  <2>1. CASE Mcp!Returns(t)
    BY <1>3, <2>1
  <2>2. CASE calls' = [calls EXCEPT ![t].op = seen, ![t].for = Mcp!TurnOf(Mcp!SessionOf(t))]
    <3> DEFINE n == Mcp!TurnOf(Mcp!SessionOf(t))
               c1 == [calls[t] EXCEPT !.op = seen]
               c == [c1 EXCEPT !.for = n]
    <3>1. calls' = [calls EXCEPT ![t] = c]
      BY <2>2
    <3>2. n \in Threads \cup {Free}
      <4> DEFINE P(u) == Mcp!Does(u, "turn") /\ Mcp!SessionOf(u) = Mcp!SessionOf(t)
      <4>1. n = IF \E u \in Threads : P(u) THEN CHOOSE u \in Threads : P(u) ELSE Free
        BY DEF Mcp!TurnOf
      <4> HIDE DEF n, P
      <4> QED
        BY <4>1
    <3> HIDE DEF n
    <3>3. c1 \in Call /\ c1.op = seen
      BY <1>1 DEF Call, Mcp!Ops
    <3> HIDE DEF c1
    <3>4. c \in Call /\ c.op = seen
      BY <3>2, <3>3 DEF Call, Mcp!Ops
    <3> HIDE DEF c
    <3> QED
      BY <1>4, <3>1, <3>4
  <2> QED
    BY <1>9, <2>1, <2>2 DEF Mcp!SeesTurn
<1>10. ASSUME NEW s \in McpSessions, Mcp!Prompt(t, s) PROVE McpInv'
  BY <1>5, <1>10 DEF Mcp!Prompt
<1>11. ASSUME NEW s \in McpSessions, Mcp!Reach(t, "detach", s) \/ Mcp!Reach(t, "interrupt", s)
       PROVE McpInv'
  BY <1>5, <1>11 DEF Mcp!Reach
<1>12. ASSUME NEW s \in McpSessions \cup {Free}, Mcp!Route(t, s) PROVE McpInv'
  BY <1>5, <1>12 DEF Mcp!Route
<1>13. CASE Mcp!ClaimFails(t) \/ Mcp!Interrupt(t) \/ Mcp!Detach(t) \/ Mcp!Execute(t)
  BY <1>3, <1>13 DEF Mcp!ClaimFails, Mcp!Interrupt, Mcp!Detach, Mcp!Execute
<1> QED
  BY <1>6, <1>7, <1>8, <1>9, <1>10, <1>11, <1>12, <1>13

LEMMA ClaimKeepsMcp ==
  ASSUME McpInv, NEW t \in Threads, Mcp!Claim(t)
  PROVE  McpInv'
<1> DEFINE s == calls[t].session
           c1 == [Mcp!Idle EXCEPT !.op = "turn"]
           c == [c1 EXCEPT !.session = s]
<1>1. /\ calls[t].op = "prompt" /\ s \in McpSessions /\ s \notin mcpBusy
      /\ mcpBusy' = mcpBusy \cup {s} /\ Mcp!Races(t, c)
  BY DEF Mcp!Claim, Mcp!Does, Mcp!SessionOf, McpInv
<1>2. c1 \in Call /\ c1.op = "turn"
  BY IdleCall DEF Call, Mcp!Ops
<1> HIDE DEF c1
<1>3. c \in Call /\ c.op = "turn" /\ c.session = s
  BY <1>1, <1>2 DEF Call, Mcp!Ops
<1> HIDE DEF c
<1>4. OneCall(t, c) /\ calls' = [u \in Threads |-> calls'[u]]
  BY <1>1, <1>3, RacesOne
<1>5. Turns(s) = {}
  BY <1>1 DEF McpInv
<1>6. \A x \in McpSessions : Turns(x)' = IF x = s THEN {t} ELSE Turns(x)
  BY <1>1, <1>3, <1>4, <1>5 DEF OneCall, Turns, Mcp!Does, Mcp!SessionOf
<1>7. calls' \in [Threads -> Call]
  BY <1>4 DEF OneCall
<1>8. \A u \in Threads : calls'[u].op \in {"prompt", "turn"} => calls'[u].session \in McpSessions
  BY <1>1, <1>3, <1>4 DEF OneCall, McpInv
<1> HIDE DEF Turns
<1> QED
  BY <1>1, <1>6, <1>7, <1>8 DEF McpInv, Call

LEMMA EndTurnKeepsMcp ==
  ASSUME McpInv, NEW t \in Threads, Mcp!EndTurn(t)
  PROVE  McpInv'
<1> DEFINE s == calls[t].session
<1>1. /\ calls[t].op = "turn" /\ s \in McpSessions /\ mcpBusy' = mcpBusy \ {s}
      /\ calls \in [Threads -> Call]
      /\ calls' = [u \in Threads |->
                     IF u = t THEN Mcp!Idle
                     ELSE IF calls[u].for = t THEN [calls[u] EXCEPT !.for = Free]
                     ELSE calls[u]]
  BY DEF Mcp!EndTurn, Mcp!Does, Mcp!SessionOf, McpInv, Call
<1>2. ASSUME NEW u \in Threads \ {t}
      PROVE  calls'[u] \in Call /\ calls'[u].op = calls[u].op /\ calls'[u].session = calls[u].session
  <2> DEFINE c == [calls[u] EXCEPT !.for = Free]
  <2>1. calls[u] \in Call
    BY <1>1
  <2>2. c \in Call /\ c.op = calls[u].op /\ c.session = calls[u].session
    BY <2>1 DEF Call, Mcp!Ops
  <2>3. calls'[u] = c \/ calls'[u] = calls[u]
    BY <1>1
  <2> HIDE DEF c
  <2> QED
    BY <2>1, <2>2, <2>3
<1>3. calls'[t] = Mcp!Idle /\ calls' = [u \in Threads |-> calls'[u]]
  BY <1>1
<1>4. Turns(s) = {t}
  BY <1>1 DEF Turns, McpInv, Mcp!Does, Mcp!SessionOf
<1>5. \A x \in McpSessions : Turns(x)' = IF x = s THEN {} ELSE Turns(x)
  BY <1>1, <1>2, <1>3, <1>4, IdleCall DEF Turns, Mcp!Does, Mcp!SessionOf
<1>6. calls' \in [Threads -> Call]
  BY <1>2, <1>3, IdleCall
<1>7. \A u \in Threads : calls'[u].op \in {"prompt", "turn"} => calls'[u].session \in McpSessions
  BY <1>1, <1>2, <1>3, IdleCall DEF McpInv
<1> HIDE DEF Turns
<1> QED
  BY <1>1, <1>5, <1>6, <1>7 DEF McpInv, Call

LEMMA NextKeepsMcp ==
  ASSUME McpInv, [Mcp!Next]_mcpVars
  PROVE  McpInv'
<1>1. CASE UNCHANGED mcpVars
  BY <1>1 DEF mcpVars, McpInv, Turns, Mcp!Does, Mcp!SessionOf
<1>2. ASSUME NEW t \in Threads, Mcp!Call(t) PROVE McpInv'
  <2>1. CASE Mcp!Claim(t)
    BY <2>1, ClaimKeepsMcp
  <2>2. CASE Mcp!EndTurn(t)
    BY <2>2, EndTurnKeepsMcp
  <2>3. CASE Mcp!TakeInterrupt(t)
    BY <2>3 DEF Mcp!TakeInterrupt, McpInv, Turns, Mcp!Does, Mcp!SessionOf
  <2> QED
    BY <1>2, <2>1, <2>2, <2>3, QuietKeepsMcp DEF Mcp!Call
<1> QED
  BY <1>1, <1>2 DEF Mcp!Next

LEMMA SameCount == \A S : Mcp!Cardinality(S) = Cardinality(S)
BY DEF Mcp!Cardinality, Cardinality

LEMMA McpIsSound == McpInv => Mcp!BusyIsOneTurn
<1> SUFFICES ASSUME McpInv, NEW s \in McpSessions
             PROVE  Cardinality(Turns(s)) = IF s \in mcpBusy THEN 1 ELSE 0
  BY SameCount DEF Mcp!BusyIsOneTurn, Turns
<1>1. CASE s \in mcpBusy
  <2>1. PICK t : t \in Turns(s)
    BY <1>1 DEF McpInv
  <2>2. Turns(s) = {t}
    BY <2>1 DEF McpInv
  <2> QED
    BY <1>1, <2>2, FS_Singleton
<1>2. CASE s \notin mcpBusy
  BY <1>2, FS_EmptySet DEF McpInv
<1> QED
  BY <1>1, <1>2

LEMMA InitMcp == Mcp!Init => McpInv
<1> SUFFICES ASSUME Mcp!Init PROVE McpInv
  OBVIOUS
<1>1. calls = [t \in Threads |-> Mcp!Idle] /\ mcpBusy = {}
  BY DEF Mcp!Init
<1>2. \A t \in Threads : calls[t].op = "idle" /\ calls[t] \in Call
  BY <1>1, IdleCall
<1>3. \A s : Turns(s) = {}
  BY <1>2 DEF Turns, Mcp!Does
<1> QED
  BY <1>1, <1>2, <1>3 DEF McpInv, Call

-----------------------------------------------------------------------------
(* The chats *)

\* A message that was typed is recorded, told of, lost to a kill, or in hand.
InHand == IF host.is \in {"dispatch", "resolving"} THEN {host.msg} ELSE {}

LinesInv ==
  /\ DOMAIN host = {"is", "face", "msg", "left", "first", "answered"}
  /\ DOMAIN session = {"pc", "recorded"}
  /\ DOMAIN operator = {"typed", "told", "lost"}
  /\ operator.typed \subseteq Messages
  /\ operator.typed \subseteq session.recorded \cup operator.told \cup operator.lost \cup InHand
  /\ host.is = "resolving" /\ host.face = "resume" => host.msg = Nothing

LEMMA LinesOffFacts ==
  /\ DOMAIN Lines!Off = {"is", "face", "msg", "left", "first", "answered"}
  /\ Lines!Off.is = "off" /\ Lines!Off.msg = Nothing
BY DEF Lines!Off

LEMMA InitLines == Lines!Init => LinesInv
<1> SUFFICES ASSUME Lines!Init PROVE LinesInv
  OBVIOUS
<1>1. host = Lines!Off
  BY DEF Lines!Init
<1>2. /\ DOMAIN session = {"pc", "recorded"}
      /\ DOMAIN operator = {"typed", "told", "lost"} /\ operator.typed = {}
  BY DEF Lines!Init
<1> QED
  BY <1>1, <1>2, LinesOffFacts DEF LinesInv

\* A message is typed.
LEMMA TypesFacts ==
  ASSUME LinesInv, NEW m \in Messages, Lines!Types(m)
  PROVE  /\ DOMAIN operator' = {"typed", "told", "lost"}
         /\ operator'.typed = operator.typed \cup {m}
         /\ operator'.told = operator.told \ {m}
         /\ operator'.lost = operator.lost \ {m}
BY DEF Lines!Types

LEMMA StartKeepsLines ==
  ASSUME LinesInv, NEW m \in Messages, Lines!Run(m) \/ Lines!Read(m) \/ Lines!Resume(m)
  PROVE  LinesInv'
<1>0. m # Nothing
  BY NothingIsNoMessage
<1>1. Lines!Types(m) /\ host.is \in {"off", "prompt"}
  BY <1>0 DEF Lines!Run, Lines!Read, Lines!Resume
<1>2. /\ DOMAIN host' = {"is", "face", "msg", "left", "first", "answered"}
      /\ host'.is = "dispatch" /\ host'.msg = m
  <2>1. CASE Lines!Run(m)
    BY <2>1, LinesOffFacts DEF Lines!Run
  <2>2. CASE Lines!Read(m)
    BY <2>2 DEF Lines!Read, LinesInv
  <2>3. CASE Lines!Resume(m)
    <3>1. host' = [Lines!Off EXCEPT !.is = "dispatch", !.face = "resume", !.msg = m, !.first = m]
      BY <1>0, <2>3 DEF Lines!Resume
    <3> QED
      BY <3>1, LinesOffFacts
  <2> QED
    BY <2>1, <2>2, <2>3
<1>3. DOMAIN session' = {"pc", "recorded"} /\ session'.recorded = session.recorded
  BY DEF Lines!Run, Lines!Read, Lines!Resume, LinesInv
<1> QED
  BY <1>1, <1>2, <1>3, TypesFacts DEF LinesInv, InHand

\* No message is in hand any more, and the one that was is known of.
LEMMA LetGo ==
  ASSUME LinesInv, DOMAIN host' = DOMAIN host, DOMAIN session' = DOMAIN session,
         DOMAIN operator' = DOMAIN operator,
         host'.is \notin {"dispatch", "resolving"},
         operator'.typed = operator.typed,
         session.recorded \subseteq session'.recorded,
         operator.told \subseteq operator'.told, operator.lost \subseteq operator'.lost,
         InHand \subseteq session'.recorded \cup operator'.told \cup operator'.lost \cup {Nothing}
  PROVE  LinesInv'
BY NothingIsNoMessage DEF LinesInv, InHand

\* The message in hand stays.
LEMMA HoldsOn ==
  ASSUME LinesInv, DOMAIN host' = DOMAIN host, DOMAIN session' = DOMAIN session,
         operator' = operator, host'.msg = host.msg, host'.face = host.face,
         host.is \in {"dispatch", "resolving"}, host'.is \in {"dispatch", "resolving"},
         session'.recorded = session.recorded, host'.is = "resolving" => host.face = "chat"
  PROVE  LinesInv'
BY DEF LinesInv, InHand

LEMMA TellingFacts ==
  ASSUME LinesInv, NEW tells, Lines!Telling(tells)
  PROVE  /\ DOMAIN operator' = DOMAIN operator
         /\ operator'.typed = operator.typed /\ operator'.lost = operator.lost
         /\ operator'.told = IF tells THEN operator.told \cup {host.msg} ELSE operator.told
<1> DEFINE t == IF tells THEN operator.told \cup {host.msg} ELSE operator.told
<1>1. operator' = [operator EXCEPT !.told = t]
  BY DEF Lines!Telling
<1> HIDE DEF t
<1>2. /\ DOMAIN operator' = DOMAIN operator
      /\ operator'.typed = operator.typed /\ operator'.lost = operator.lost
      /\ operator'.told = t
  BY <1>1 DEF LinesInv
<1> QED
  BY <1>2 DEF t

LEMMA NextLineFacts ==
  ASSUME LinesInv, Lines!NextLine
  PROVE  DOMAIN host' = DOMAIN host /\ host'.is = "prompt"
BY DEF Lines!NextLine, LinesInv

LEMMA TurnKeepsLines ==
  ASSUME LinesInv,
         \/ Lines!Record \/ Lines!Refuse \/ Lines!Resolve \/ Lines!Resolved
         \/ Lines!ResumeEnds \/ Lines!TurnEnds
  PROVE  LinesInv'
<1> USE LinesOffFacts
<1>1. CASE Lines!Record
  <2>1. CASE /\ session' = [pc |-> "open", recorded |-> session.recorded \cup {host.msg}]
             /\ host' = [host EXCEPT !.is = "turn"] /\ UNCHANGED operator
    <3>1. /\ DOMAIN session' = DOMAIN session /\ DOMAIN host' = DOMAIN host
          /\ host'.is = "turn" /\ session'.recorded = session.recorded \cup {host.msg}
      BY <2>1 DEF LinesInv
    <3> QED
      BY <2>1, <3>1, LetGo DEF InHand
  <2>2. CASE host' = Lines!Off /\ Lines!Telling(TRUE) /\ UNCHANGED session
    <3>1. DOMAIN host' = DOMAIN host /\ host'.is = "off"
      BY <2>2 DEF LinesInv
    <3> QED
      BY <2>2, <3>1, TellingFacts, LetGo DEF InHand
  <2> QED
    BY <1>1, <2>1, <2>2 DEF Lines!Record
<1>2. CASE Lines!Refuse
  <2>1. host' = Lines!Off /\ Lines!Telling(TRUE) /\ UNCHANGED session
    BY <1>2 DEF Lines!Refuse
  <2>2. DOMAIN host' = DOMAIN host /\ host'.is = "off"
    BY <2>1 DEF LinesInv
  <2> QED
    BY <2>1, <2>2, TellingFacts, LetGo DEF InHand
<1>3. CASE Lines!Resolve
  <2>1. /\ host.is = "dispatch" /\ host.face = "chat"
        /\ host' = [host EXCEPT !.is = "resolving"] /\ UNCHANGED <<session, operator>>
    BY <1>3 DEF Lines!Resolve
  <2>2. /\ DOMAIN host' = DOMAIN host /\ host'.is = "resolving"
        /\ host'.msg = host.msg /\ host'.face = host.face
    BY <2>1 DEF LinesInv
  <2> QED
    BY <2>1, <2>2, HoldsOn
<1>4. CASE Lines!Resolved
  <2>0. host.is = "resolving" /\ host.face = "chat"
    BY <1>4 DEF Lines!Resolved
  <2>1. CASE /\ session' = [session EXCEPT !.pc = "boundary"]
             /\ host' = [host EXCEPT !.is = "dispatch"] /\ UNCHANGED operator
    <3>1. /\ DOMAIN host' = DOMAIN host /\ host'.is = "dispatch"
          /\ host'.msg = host.msg /\ host'.face = host.face
          /\ DOMAIN session' = DOMAIN session /\ session'.recorded = session.recorded
      BY <2>1 DEF LinesInv
    <3> QED
      BY <2>0, <2>1, <3>1, HoldsOn
  <2>2. CASE UNCHANGED <<session, operator>> /\ host' = [host EXCEPT !.is = "dispatch", !.left = @ - 1]
    <3>1. /\ DOMAIN host' = DOMAIN host /\ host'.is = "dispatch"
          /\ host'.msg = host.msg /\ host'.face = host.face
      BY <2>2 DEF LinesInv
    <3> QED
      BY <2>0, <2>2, <3>1, HoldsOn
  <2>3. CASE /\ Lines!NextLine \/ host' = Lines!Off
             /\ Lines!Telling(TRUE)
             /\ UNCHANGED session \/ session' = [session EXCEPT !.pc = "boundary"]
    <3>1. DOMAIN host' = DOMAIN host /\ host'.is \in {"prompt", "off"}
      BY <2>3, NextLineFacts DEF LinesInv
    <3>2. DOMAIN session' = DOMAIN session /\ session'.recorded = session.recorded
      BY <2>3 DEF LinesInv
    <3> QED
      BY <2>3, <3>1, <3>2, TellingFacts, LetGo DEF InHand
  <2>4. /\ Lines!NoteFor("parked") = TRUE
        /\ Lines!NoteFor("ended") = TRUE
        /\ Lines!NoteFor("failed") = TRUE
    BY DEF Lines!NoteFor
  <2> QED
    BY <1>4, <2>1, <2>2, <2>3, <2>4 DEF Lines!Resolved
<1>5. CASE Lines!ResumeEnds
  <2>1. /\ host.is = "resolving" /\ host.face = "resume" /\ host' = Lines!Off
        /\ UNCHANGED operator
        /\ \E pc \in {session.pc, "boundary"} : session' = [session EXCEPT !.pc = pc]
    BY <1>5 DEF Lines!ResumeEnds
  <2>2. /\ DOMAIN session' = DOMAIN session /\ session'.recorded = session.recorded
        /\ DOMAIN host' = DOMAIN host /\ host'.is = "off" /\ host.msg = Nothing
    BY <2>1 DEF LinesInv
  <2> QED
    BY <2>1, <2>2, LetGo DEF InHand
<1>6. CASE Lines!TurnEnds
  <2>0. host.is = "turn" /\ InHand = {}
    BY <1>6 DEF Lines!TurnEnds, InHand
  <2>1. DOMAIN host' = DOMAIN host /\ host'.is \in {"prompt", "off"}
    <3>1. \/ host' = Lines!Off
          \/ Lines!NextLine
          \/ host' = [host EXCEPT !.is = "prompt", !.msg = Nothing, !.answered = TRUE]
      BY <1>6 DEF Lines!TurnEnds
    <3> QED
      BY <3>1, NextLineFacts DEF LinesInv
  <2>2. DOMAIN session' = DOMAIN session /\ session'.recorded = session.recorded
    <3>1. session' = session \/ \E pc \in {"open", "boundary"} : session' = [session EXCEPT !.pc = pc]
      BY <1>6 DEF Lines!TurnEnds
    <3> QED
      BY <3>1 DEF LinesInv
  <2>3. operator' = operator \/ Lines!Telling(host.face = "chat")
    BY <1>6 DEF Lines!TurnEnds
  <2>4. /\ DOMAIN operator' = DOMAIN operator
        /\ operator'.typed = operator.typed /\ operator'.lost = operator.lost
        /\ operator.told \subseteq operator'.told
    <3>1. CASE operator' = operator
      BY <3>1
    <3>2. CASE Lines!Telling(host.face = "chat")
      <4> DEFINE b == host.face = "chat"
      <4>1. Lines!Telling(b)
        BY <3>2
      <4> HIDE DEF b
      <4> QED
        BY <4>1, TellingFacts
    <3> QED
      BY <2>3, <3>1, <3>2
  <2> QED
    BY <2>0, <2>1, <2>2, <2>4, LetGo
<1> QED
  BY <1>1, <1>2, <1>3, <1>4, <1>5, <1>6

LEMMA NextKeepsLines ==
  ASSUME LinesInv, [Lines!Next]_lineVars
  PROVE  LinesInv'
<1> USE LinesOffFacts
<1>1. CASE UNCHANGED lineVars
  BY <1>1 DEF lineVars, LinesInv, InHand
<1>2. CASE Lines!Resume(Nothing)
  <2>1. /\ host.is = "off" /\ UNCHANGED <<session, operator>>
        /\ host' = [Lines!Off EXCEPT !.is = "resolving", !.face = "resume"]
    BY <1>2 DEF Lines!Resume
  <2>2. /\ DOMAIN host' = DOMAIN host /\ host'.is = "resolving" /\ host'.msg = Nothing
    BY <2>1 DEF LinesInv
  <2> QED
    BY <2>1, <2>2 DEF LinesInv, InHand
<1>3. CASE Lines!Chat
  <2>1. host.is = "off" /\ host' = [Lines!Off EXCEPT !.is = "prompt"] /\ UNCHANGED operator
        /\ session' = [session EXCEPT !.pc = IF @ = "none" THEN "boundary" ELSE @]
    BY <1>3 DEF Lines!Chat
  <2>2. /\ DOMAIN host' = DOMAIN host /\ host'.is = "prompt"
        /\ DOMAIN session' = DOMAIN session /\ session'.recorded = session.recorded
    BY <2>1 DEF LinesInv
  <2> QED
    BY <2>1, <2>2, LetGo DEF InHand
<1>4. CASE Lines!Exit
  <2>1. host.is = "prompt" /\ host' = Lines!Off /\ UNCHANGED <<session, operator>>
    BY <1>4 DEF Lines!Exit
  <2>2. DOMAIN host' = DOMAIN host /\ host'.is = "off"
    BY <2>1 DEF LinesInv
  <2> QED
    BY <2>1, <2>2, LetGo DEF InHand
<1>5. CASE Lines!Kill
  <2> DEFINE lost == IF host.msg # Nothing /\ host.is # "turn" THEN operator.lost \cup {host.msg}
                     ELSE operator.lost
  <2>1. /\ host' = Lines!Off /\ UNCHANGED session
        /\ operator' = [operator EXCEPT !.lost = lost]
    BY <1>5 DEF Lines!Kill
  <2>2. operator.lost \subseteq lost /\ InHand \subseteq lost \cup {Nothing}
    BY DEF InHand
  <2> HIDE DEF lost
  <2>3. /\ DOMAIN host' = DOMAIN host /\ host'.is = "off"
        /\ DOMAIN operator' = DOMAIN operator /\ operator'.lost = lost
        /\ operator'.typed = operator.typed /\ operator'.told = operator.told
    BY <2>1 DEF LinesInv
  <2> QED
    BY <2>1, <2>2, <2>3, LetGo
<1>6. ASSUME NEW m \in Messages, Lines!Run(m) \/ Lines!Read(m) \/ Lines!Resume(m)
      PROVE  LinesInv'
  BY <1>6, StartKeepsLines
<1> QED
  BY <1>1, <1>2, <1>3, <1>4, <1>5, <1>6, TurnKeepsLines DEF Lines!Next

LEMMA LinesAreSound == LinesInv => Lines!RecordedOrTold
BY DEF LinesInv, InHand, Lines!RecordedOrTold

-----------------------------------------------------------------------------
(* The terminal *)

\* Every set of numbers that is not empty has a least one: the intervals below
\* its members are finite, and the strict subset order on them is well founded.
LEMMA LeastNumber ==
  ASSUME NEW T, T \subseteq Nat, T # {}
  PROVE \E m \in T : \A k \in T : m <= k
<1>1. PICK b \in T : TRUE
  OBVIOUS
<1> DEFINE Below(k) == 0 .. k
           F == {Below(k) : k \in {j \in T : j <= b}}
<1>2. IsFiniteSet(Below(b))
  BY FS_Interval
<1>3. F \subseteq SUBSET Below(b) /\ F # {}
  BY <1>1
<1>4. IsWellFoundedOn(StrictSubsetOrdering(Below(b)), FiniteSubsetsOf(Below(b)))
  BY <1>2, FS_StrictSubsetOrderingWellFounded
<1>5. F \subseteq FiniteSubsetsOf(Below(b))
  BY <1>3, <1>2, FS_Subset DEF FiniteSubsetsOf
<1>6. PICK x \in F : \A y \in F : <<y, x>> \notin StrictSubsetOrdering(Below(b))
  BY <1>3, <1>4, <1>5, WFMin
<1>7. PICK m \in T : m <= b /\ x = Below(m)
  BY <1>6
<1>8. ASSUME NEW k \in T, k < m PROVE FALSE
  <2>1. Below(k) \in F
    BY <1>7, <1>8
  <2>2. Below(k) \subseteq Below(m) /\ Below(k) # Below(m)
    BY <1>7, <1>8
  <2>3. <<Below(k), x>> \in (SUBSET Below(b)) \X (SUBSET Below(b))
    BY <2>1, <1>3, <1>7
  <2>4. <<Below(k), x>> \in StrictSubsetOrdering(Below(b))
    BY <2>2, <2>3, <1>7 DEF StrictSubsetOrdering
  <2> QED
    BY <1>6, <2>1, <2>4
<1> QED
  BY <1>7, <1>8

\* Induction on numbers, over a set instead of a predicate.
LEMMA NumberInduction ==
  ASSUME NEW T, 0 \in T, \A n \in Nat : n \in T => n + 1 \in T
  PROVE  \A n \in Nat : n \in T
<1> SUFFICES ASSUME {n \in Nat : n \notin T} # {} PROVE FALSE
  OBVIOUS
<1>1. PICK m \in {n \in Nat : n \notin T} : \A k \in {n \in Nat : n \notin T} : m <= k
  BY LeastNumber
<1>2. m - 1 \in Nat /\ m - 1 \in T
  BY <1>1
<1> QED
  BY <1>1, <1>2

\* What the sequences of ss hold together.
Gathered(ss) == UNION {Screen!Listed(ss[i]) : i \in DOMAIN ss}

LEMMA ListedIsRange ==
  ASSUME NEW S, NEW s \in Seq(S)
  PROVE  /\ Screen!Listed(s) = {s[i] : i \in 1 .. Len(s)}
         /\ Screen!Listed(s) \subseteq S
<1>1. DOMAIN s = 1 .. Len(s) /\ \A i \in 1 .. Len(s) : s[i] \in S
  BY LenProperties, ElementOfSeq
<1> QED
  BY <1>1 DEF Screen!Listed, Screen!ToSet

LEMMA ListedIsNothing == Screen!Listed(<<>>) = {}
BY DEF Screen!Listed, Screen!ToSet

LEMMA ListedConcat ==
  ASSUME NEW S, NEW s \in Seq(S), NEW t \in Seq(S)
  PROVE  Screen!Listed(s \o t) = Screen!Listed(s) \cup Screen!Listed(t)
<1> DEFINE u == s \o t
<1>1. /\ u \in Seq(S) /\ Len(u) = Len(s) + Len(t) /\ Len(s) \in Nat /\ Len(t) \in Nat
      /\ \A i \in 1 .. Len(s) + Len(t) : u[i] = IF i <= Len(s) THEN s[i] ELSE t[i - Len(s)]
  BY ConcatProperties, LenProperties
<1> HIDE DEF u
<1>2. /\ Screen!Listed(s) = {s[i] : i \in 1 .. Len(s)}
      /\ Screen!Listed(t) = {t[i] : i \in 1 .. Len(t)}
      /\ Screen!Listed(u) = {u[i] : i \in 1 .. Len(u)}
  BY <1>1, ListedIsRange
<1>3. \A i \in 1 .. Len(s) : i \in 1 .. Len(u) /\ u[i] = s[i]
  BY <1>1
<1>4. \A i \in 1 .. Len(t) : i + Len(s) \in 1 .. Len(u) /\ u[i + Len(s)] = t[i]
  <2> TAKE i \in 1 .. Len(t)
  <2>1. /\ i + Len(s) \in 1 .. Len(s) + Len(t) /\ ~(i + Len(s) <= Len(s))
        /\ (i + Len(s)) - Len(s) = i
    BY <1>1
  <2>2. u[i + Len(s)] = t[(i + Len(s)) - Len(s)]
    BY <1>1, <2>1
  <2> QED
    BY <1>1, <2>1, <2>2
<1>5. \A i \in 1 .. Len(u) : u[i] \in Screen!Listed(s) \cup Screen!Listed(t)
  <2> TAKE i \in 1 .. Len(u)
  <2>1. CASE i <= Len(s)
    BY <1>1, <1>2, <2>1
  <2>2. CASE ~(i <= Len(s))
    <3>1. i - Len(s) \in 1 .. Len(t) /\ u[i] = t[i - Len(s)]
      BY <1>1, <2>2
    <3> QED
      BY <1>2, <3>1
  <2> QED
    BY <2>1, <2>2
<1> QED
  BY <1>2, <1>3, <1>4, <1>5 DEF u

LEMMA ListedAppend ==
  ASSUME NEW S, NEW s \in Seq(S), NEW x \in S
  PROVE  Screen!Listed(Append(s, x)) = Screen!Listed(s) \cup {x}
<1> DEFINE one == <<x>>
<1>1. Append(s, x) = s \o one /\ one \in Seq(S)
  BY AppendIsConcat
<1>2. Screen!Listed(one) = {x}
  BY DEF Screen!Listed, Screen!ToSet
<1> HIDE DEF one
<1> QED
  BY <1>1, <1>2, ListedConcat

LEMMA GatheredIsUnion ==
  ASSUME NEW S, NEW ss \in Seq(S)
  PROVE  Gathered(ss) = UNION {Screen!Listed(ss[i]) : i \in 1 .. Len(ss)}
BY LenProperties DEF Gathered

LEMMA GatheredNothing == Gathered(<<>>) = {}
BY DEF Gathered

LEMMA GatheredConcat ==
  ASSUME NEW S, NEW s \in Seq(S), NEW t \in Seq(S)
  PROVE  Gathered(s \o t) = Gathered(s) \cup Gathered(t)
<1> DEFINE u == s \o t
<1>1. /\ u \in Seq(S) /\ Len(u) = Len(s) + Len(t) /\ Len(s) \in Nat /\ Len(t) \in Nat
      /\ \A i \in 1 .. Len(s) + Len(t) : u[i] = IF i <= Len(s) THEN s[i] ELSE t[i - Len(s)]
  BY ConcatProperties, LenProperties
<1> HIDE DEF u
<1>2. /\ Gathered(s) = UNION {Screen!Listed(s[i]) : i \in 1 .. Len(s)}
      /\ Gathered(t) = UNION {Screen!Listed(t[i]) : i \in 1 .. Len(t)}
      /\ Gathered(u) = UNION {Screen!Listed(u[i]) : i \in 1 .. Len(u)}
  BY <1>1, GatheredIsUnion
<1>3. \A i \in 1 .. Len(s) : i \in 1 .. Len(u) /\ u[i] = s[i]
  BY <1>1
<1>4. \A i \in 1 .. Len(t) : i + Len(s) \in 1 .. Len(u) /\ u[i + Len(s)] = t[i]
  <2> TAKE i \in 1 .. Len(t)
  <2>1. /\ i + Len(s) \in 1 .. Len(s) + Len(t) /\ ~(i + Len(s) <= Len(s))
        /\ (i + Len(s)) - Len(s) = i
    BY <1>1
  <2>2. u[i + Len(s)] = t[(i + Len(s)) - Len(s)]
    BY <1>1, <2>1
  <2> QED
    BY <1>1, <2>1, <2>2
<1>5. \A i \in 1 .. Len(u) : Screen!Listed(u[i]) \subseteq Gathered(s) \cup Gathered(t)
  <2> TAKE i \in 1 .. Len(u)
  <2>1. CASE i <= Len(s)
    <3>1. i \in 1 .. Len(s) /\ u[i] = s[i]
      BY <1>1, <2>1
    <3> QED
      BY <1>2, <3>1
  <2>2. CASE ~(i <= Len(s))
    <3>1. i - Len(s) \in 1 .. Len(t) /\ u[i] = t[i - Len(s)]
      BY <1>1, <2>2
    <3> QED
      BY <1>2, <3>1
  <2> QED
    BY <2>1, <2>2
<1>6. Gathered(s) \subseteq Gathered(u)
  BY <1>2, <1>3
<1>7. Gathered(t) \subseteq Gathered(u)
  BY <1>2, <1>4
<1>8. Gathered(u) \subseteq Gathered(s) \cup Gathered(t)
  BY <1>2, <1>5
<1> QED
  BY <1>6, <1>7, <1>8 DEF u

LEMMA GatheredAppend ==
  ASSUME NEW S, NEW ss \in Seq(S), NEW s \in S
  PROVE  Gathered(Append(ss, s)) = Gathered(ss) \cup Screen!Listed(s)
<1> DEFINE one == <<s>>
<1>1. Append(ss, s) = ss \o one /\ one \in Seq(S)
  BY AppendIsConcat
<1>2. Gathered(one) = Screen!Listed(s)
  BY DEF Gathered
<1> HIDE DEF one
<1> QED
  BY <1>1, <1>2, GatheredConcat

\* The head and the rest, and the last one and those before.
LEMMA GatheredSplits ==
  ASSUME NEW S, NEW ss \in Seq(S), ss # <<>>
  PROVE  /\ Head(ss) \in S /\ Tail(ss) \in Seq(S)
         /\ Gathered(ss) = Screen!Listed(Head(ss)) \cup Gathered(Tail(ss))
         /\ Screen!Last(ss) \in S /\ Screen!Front(ss) \in Seq(S)
         /\ Gathered(ss) = Gathered(Screen!Front(ss)) \cup Screen!Listed(Screen!Last(ss))
<1>1. Head(ss) \in S /\ Tail(ss) \in Seq(S)
  BY HeadTailProperties
<1>2. Len(ss) \in Nat \ {0}
  BY EmptySeq
<1> DEFINE one == <<Head(ss)>>
           rest == Tail(ss)
<1>3. one \in Seq(S) /\ rest \in Seq(S) /\ ss = one \o rest
  <2>1. /\ one \in Seq(S) /\ one \o Tail(ss) \in Seq(S)
        /\ Len(one \o Tail(ss)) = Len(ss)
        /\ \A i \in 1 .. Len(ss) : (one \o Tail(ss))[i] = ss[i]
    BY <1>1, <1>2, HeadTailProperties, ConcatProperties
  <2> HIDE DEF one
  <2> QED
    BY <2>1, SeqEqual
<1>4. Gathered(one) = Screen!Listed(Head(ss))
  BY DEF Gathered
<1> HIDE DEF one, rest
<1>5. Gathered(ss) = Screen!Listed(Head(ss)) \cup Gathered(rest)
  BY <1>3, <1>4, GatheredConcat
<1>6. PICK q \in Seq(S), x \in S : ss = Append(q, x)
  BY SequenceEmptyOrAppend
<1>7. /\ Len(ss) = Len(q) + 1 /\ Len(q) \in Nat /\ ss[Len(q) + 1] = x
      /\ \A i \in 1 .. Len(q) : ss[i] = q[i]
  BY <1>6, AppendProperties, LenProperties
<1>8. Screen!Last(ss) = x
  BY <1>7 DEF Screen!Last
<1>9. Screen!Front(ss) = q
  <2>1. Screen!Front(ss) = SubSeq(ss, 1, Len(q))
    BY <1>7 DEF Screen!Front
  <2>2. \A i \in 1 .. Len(q) : ss[i] \in S
    BY <1>7, ElementOfSeq
  <2>3. /\ SubSeq(ss, 1, Len(q)) \in Seq(S)
        /\ Len(SubSeq(ss, 1, Len(q))) = IF 1 <= Len(q) THEN Len(q) - 1 + 1 ELSE 0
        /\ \A i \in 1 .. Len(q) - 1 + 1 : SubSeq(ss, 1, Len(q))[i] = ss[1 + i - 1]
    BY <1>7, <2>2, SubSeqProperties
  <2>4. Len(SubSeq(ss, 1, Len(q))) = Len(q)
    BY <1>7, <2>3
  <2>5. \A i \in 1 .. Len(q) : SubSeq(ss, 1, Len(q))[i] = q[i]
    BY <1>7, <2>3
  <2> QED
    BY <2>1, <2>3, <2>4, <2>5, SeqEqual
<1>10. Gathered(ss) = Gathered(q) \cup Screen!Listed(x)
  BY <1>6, GatheredAppend
<1> QED
  BY <1>1, <1>5, <1>6, <1>8, <1>9, <1>10 DEF rest

\* g joins each of the first n sequences of ss to those before it.
Joins(g, ss, n) ==
  g = [i \in 1 .. n |-> IF i = 1 THEN ss[i] ELSE g[i - 1] \o ss[i]]

LEMMA SomethingJoins ==
  ASSUME NEW ss PROVE \A n \in Nat : \E g : Joins(g, ss, n)
<1> DEFINE T == {n \in Nat : \E g : Joins(g, ss, n)}
<1>1. 0 \in T
  <2>1. Joins([i \in 1 .. 0 |-> 0], ss, 0)
    BY DEF Joins
  <2> QED
    BY <2>1
<1>2. ASSUME NEW n \in Nat, n \in T PROVE n + 1 \in T
  <2>1. PICK g : Joins(g, ss, n)
    BY <1>2
  <2> DEFINE top == IF n = 0 THEN ss[n + 1] ELSE g[n] \o ss[n + 1]
             h == [i \in 1 .. n + 1 |-> IF i <= n THEN g[i] ELSE top]
  <2>2. \A i \in 1 .. n : g[i] = IF i = 1 THEN ss[i] ELSE g[i - 1] \o ss[i]
    BY <2>1, Zenon DEF Joins
  <2> HIDE DEF top
  <2>3. \A i \in 1 .. n + 1 : h[i] = IF i = 1 THEN ss[i] ELSE h[i - 1] \o ss[i]
    <3> TAKE i \in 1 .. n + 1
    <3>1. CASE i <= n
      <4>1. h[i] = g[i] /\ (i # 1 => h[i - 1] = g[i - 1])
        BY <3>1
      <4>2. g[i] = IF i = 1 THEN ss[i] ELSE g[i - 1] \o ss[i]
        BY <2>2, <3>1
      <4> QED
        BY <4>1, <4>2
    <3>2. CASE i = n + 1
      <4>1. h[i] = top /\ (n # 0 => h[i - 1] = g[n])
        BY <3>2
      <4>2. n = 0 <=> i = 1
        BY <3>2
      <4> QED
        BY <3>2, <4>1, <4>2 DEF top
    <3> QED
      BY <3>1, <3>2
  <2>4. h = [i \in 1 .. n + 1 |-> h[i]]
    BY Zenon
  <2> HIDE DEF h
  <2>5. h = [i \in 1 .. n + 1 |-> IF i = 1 THEN ss[i] ELSE h[i - 1] \o ss[i]]
    BY <2>3, <2>4
  <2>6. Joins(h, ss, n + 1)
    BY <2>5 DEF Joins
  <2> QED
    BY <2>6
<1> HIDE DEF T
<1>3. \A n \in Nat : n \in T
  BY <1>1, <1>2, NumberInduction
<1> QED
  BY <1>3 DEF T

\* What is put in front of the draft holds all that came back.
LEMMA FlattenGathers ==
  ASSUME NEW S, NEW ss \in Seq(Seq(S))
  PROVE  Screen!FlattenSeq(ss) \in Seq(S) /\ Screen!Listed(Screen!FlattenSeq(ss)) = Gathered(ss)
<1>1. CASE ss = <<>>
  BY <1>1, ListedIsNothing, GatheredNothing DEF Screen!FlattenSeq
<1>2. CASE ss # <<>>
  <2>1. Len(ss) \in Nat \ {0} /\ \A i \in 1 .. Len(ss) : ss[i] \in Seq(S)
    BY <1>2, EmptySeq, ElementOfSeq
  <2> DEFINE g == CHOOSE f : Joins(f, ss, Len(ss))
  <2>2. Joins(g, ss, Len(ss))
    BY <2>1, SomethingJoins
  <2>3. Screen!FlattenSeq(ss) = g[Len(ss)]
    BY <2>1 DEF Screen!FlattenSeq, Joins
  <2> HIDE DEF g
  <2>4. \A i \in 1 .. Len(ss) : g[i] = IF i = 1 THEN ss[i] ELSE g[i - 1] \o ss[i]
    BY <2>2, Zenon DEF Joins
  <2> DEFINE Upto(n) == UNION {Screen!Listed(ss[i]) : i \in 1 .. n}
             T == {n \in Nat : n \in 1 .. Len(ss) =>
                                 g[n] \in Seq(S) /\ Screen!Listed(g[n]) = Upto(n)}
  <2>5. 0 \in T
    OBVIOUS
  <2>6. ASSUME NEW n \in Nat, n \in T PROVE n + 1 \in T
    <3> SUFFICES ASSUME n + 1 \in 1 .. Len(ss)
                 PROVE  g[n + 1] \in Seq(S) /\ Screen!Listed(g[n + 1]) = Upto(n + 1)
      OBVIOUS
    <3>1. 1 .. n + 1 = (1 .. n) \cup {n + 1}
      OBVIOUS
    <3>2. Upto(n + 1) = Upto(n) \cup Screen!Listed(ss[n + 1])
      BY <3>1
    <3>3. ss[n + 1] \in Seq(S)
      BY <2>1
    <3>4. CASE n = 0
      <4>1. g[n + 1] = ss[n + 1] /\ Upto(n) = {}
        BY <2>4, <3>4
      <4> QED
        BY <3>2, <3>3, <4>1
    <3>5. CASE n # 0
      <4>1. g[n + 1] = g[n] \o ss[n + 1]
        <5>1. n + 1 \in 1 .. Len(ss) /\ n + 1 # 1 /\ (n + 1) - 1 = n
          BY <3>5
        <5>2. g[n + 1] = g[(n + 1) - 1] \o ss[n + 1]
          BY <2>4, <5>1
        <5> QED
          BY <5>1, <5>2
      <4>2. g[n] \in Seq(S) /\ Screen!Listed(g[n]) = Upto(n)
        BY <2>6, <3>5
      <4> HIDE DEF Upto
      <4>3. g[n] \o ss[n + 1] \in Seq(S)
        BY <4>2, <3>3, ConcatProperties
      <4>4. Screen!Listed(g[n] \o ss[n + 1]) = Screen!Listed(g[n]) \cup Screen!Listed(ss[n + 1])
        BY <4>2, <3>3, ListedConcat
      <4> QED
        BY <3>2, <4>1, <4>2, <4>3, <4>4
    <3> QED
      BY <3>4, <3>5
  <2> HIDE DEF T
  <2>7. \A n \in Nat : n \in T
    BY <2>5, <2>6, NumberInduction
  <2>8. Len(ss) \in T
    BY <2>1, <2>7
  <2>9. Gathered(ss) = Upto(Len(ss))
    BY GatheredIsUnion
  <2> QED
    BY <2>1, <2>3, <2>8, <2>9 DEF T
<1> QED
  BY <1>1, <1>2

-----------------------------------------------------------------------------
(* The screen *)

ScreenTyped ==
  /\ DOMAIN editor = {"text", "aside", "browsing"}
  /\ editor.text \in Seq(Texts) /\ editor.aside \in Seq(Texts) /\ editor.browsing \in BOOLEAN
  /\ DOMAIN app = {"running", "asked", "queue"}
  /\ app.running \in BOOLEAN /\ app.asked \in BOOLEAN /\ app.queue \in Seq(Seq(Texts))
  /\ DOMAIN turn = {"is", "prompt", "asks", "end"} /\ turn.prompt \in Seq(Texts)
  /\ interrupts \in Seq(Seq(Texts))
  /\ DOMAIN browsed = {"times", "aside"}

\* A thread that has not begun, or has ended, asks nothing, and what steers a
\* turn has a turn.
TurnInv ==
  /\ app.running <=> turn.is # "off"
  /\ app.asked <=> turn.asks = "shown"
  /\ turn.is \in {"off", "starting", "done"} => turn.asks = "nothing"
  /\ turn.is = "off" => interrupts = <<>>

\* The draft of the user's own: a recalled one is in the history anyway.
Draft == IF editor.browsing THEN {} ELSE Screen!Listed(editor.text)

\* Everything off the screen.
Elsewhere ==
  Gathered(app.queue) \cup Gathered(interrupts) \cup Screen!OnTheWay \cup told \cup missed

ScreenInv ==
  /\ ScreenTyped
  /\ TurnInv
  /\ typed \ browsed.aside \subseteq Draft \cup Elsewhere

LEMMA InitScreen == Screen!Init => ScreenInv
<1> SUFFICES ASSUME Screen!Init PROVE ScreenInv
  OBVIOUS
<1>1. <<>> \in Seq(Texts) /\ <<>> \in Seq(Seq(Texts))
  BY EmptySeq
<1>2. ScreenTyped
  BY <1>1 DEF Screen!Init, Screen!Empty, Screen!Off, ScreenTyped
<1>3. TurnInv
  BY DEF Screen!Init, Screen!Off, TurnInv
<1>4. typed = {}
  BY DEF Screen!Init
<1> QED
  BY <1>2, <1>3, <1>4 DEF ScreenInv

LEMMA ScreenIsSound == ScreenInv => Screen!ScreenIsTheTurn /\ Screen!NothingIsLost
<1> SUFFICES ASSUME ScreenInv PROVE Screen!ScreenIsTheTurn /\ Screen!NothingIsLost
  OBVIOUS
<1>1. Screen!ScreenIsTheTurn
  <2>1. app.running = (turn.is # "off")
    BY DEF ScreenInv, ScreenTyped, TurnInv
  <2>2. app.asked = (turn.asks = "shown")
    BY DEF ScreenInv, ScreenTyped, TurnInv
  <2> QED
    BY <2>1, <2>2 DEF Screen!ScreenIsTheTurn
<1>2. Screen!Waiting = Gathered(app.queue) \cup Gathered(interrupts)
  BY DEF Screen!Waiting, Gathered
<1>3. Screen!NothingIsLost
  BY <1>2 DEF ScreenInv, Draft, Elsewhere, Screen!NothingIsLost
<1> QED
  BY <1>1, <1>3

\* The thread goes on: nothing leaves what is off the screen.
LEMMA ThreadKeepsScreen ==
  ASSUME ScreenInv, UNCHANGED <<editor, app, typed, browsed>>,
         DOMAIN turn' = DOMAIN turn, turn'.prompt = turn.prompt,
         turn.is # "off", turn'.is # "off",
         turn.asks = "shown" <=> turn'.asks = "shown",
         turn'.is \in {"starting", "done"} => turn'.asks = "nothing",
         interrupts' \in Seq(Seq(Texts)),
         Gathered(interrupts) \cup Screen!OnTheWay \cup told \cup missed
           \subseteq Gathered(interrupts)' \cup Screen!OnTheWay' \cup told' \cup missed'
  PROVE  ScreenInv'
<1>1. ScreenTyped'
  BY DEF ScreenInv, ScreenTyped
<1>2. TurnInv'
  BY DEF ScreenInv, TurnInv
<1>3. Draft' = Draft /\ Gathered(app.queue)' = Gathered(app.queue)
  BY DEF Draft
<1>4. Elsewhere \subseteq Elsewhere'
  BY <1>3 DEF Elsewhere
<1> QED
  BY <1>1, <1>2, <1>3, <1>4 DEF ScreenInv

LEMMA TurnThreadKeepsScreen == ScreenInv /\ Screen!TurnThread => ScreenInv'
<1> SUFFICES ASSUME ScreenInv, Screen!TurnThread PROVE ScreenInv'
  OBVIOUS
<1> USE DEF ScreenInv
<1>0. /\ DOMAIN turn = {"is", "prompt", "asks", "end"} /\ interrupts \in Seq(Seq(Texts))
      /\ turn.is \in {"off", "starting", "done"} => turn.asks = "nothing"
  BY DEF ScreenTyped, TurnInv
<1>1. CASE Screen!HostStarts
  <2>1. UNCHANGED <<editor, app, typed, browsed, interrupts>> /\ turn.is = "starting"
    BY <1>1 DEF Screen!HostStarts
  <2>2. /\ DOMAIN turn' = DOMAIN turn /\ turn'.prompt = turn.prompt /\ turn'.asks = turn.asks
        /\ \/ /\ turn'.is = "done" /\ told' = told
              /\ missed' = missed \cup Screen!Listed(turn.prompt)
           \/ turn'.is = "resuming" /\ missed' = missed /\ told' = told
           \/ /\ turn'.is = "running" /\ missed' = missed
              /\ told' = told \cup Screen!Listed(turn.prompt)
    BY <1>0, <1>1 DEF Screen!HostStarts
  <2>3. Screen!OnTheWay \cup told \cup missed \subseteq Screen!OnTheWay' \cup told' \cup missed'
    BY <2>1, <2>2 DEF Screen!OnTheWay
  <2> QED
    BY <1>0, <2>1, <2>2, <2>3, ThreadKeepsScreen
<1>2. CASE Screen!Ask
  <2>1. UNCHANGED <<editor, app, typed, browsed, interrupts, told, missed>>
    BY <1>2 DEF Screen!Ask
  <2>2. /\ DOMAIN turn' = DOMAIN turn /\ turn'.prompt = turn.prompt /\ turn'.is = turn.is
        /\ turn'.asks = "sent" /\ turn.asks = "nothing" /\ turn.is \in {"resuming", "running"}
    BY <1>0, <1>2 DEF Screen!Ask, Screen!Working
  <2>3. Screen!OnTheWay' = Screen!OnTheWay
    BY <2>2 DEF Screen!OnTheWay
  <2> QED
    BY <1>0, <2>1, <2>2, <2>3, ThreadKeepsScreen
<1>3. CASE Screen!HearAnswer
  <2>1. UNCHANGED <<editor, app, typed, browsed, interrupts, told>>
    BY <1>3 DEF Screen!HearAnswer
  <2>2. /\ DOMAIN turn' = DOMAIN turn /\ turn'.prompt = turn.prompt
        /\ turn'.is \in {turn.is, "done"}
        /\ turn'.asks = "nothing" /\ turn.asks \in {"allowed", "denied"}
    BY <1>0, <1>3 DEF Screen!HearAnswer
  <2>3. turn.is \notin {"off", "starting", "done"}
    BY <1>0, <2>2
  <2>4. missed' = IF turn'.is = "done" THEN Screen!MissedBy ELSE missed
    BY <1>3 DEF Screen!HearAnswer
  <2>5. Screen!OnTheWay \cup missed \subseteq Screen!OnTheWay' \cup missed'
    BY <2>2, <2>3, <2>4 DEF Screen!OnTheWay, Screen!MissedBy
  <2> QED
    BY <1>0, <2>1, <2>2, <2>3, <2>5, ThreadKeepsScreen
<1>4. CASE Screen!TakeInterrupts
  <2>1. /\ UNCHANGED <<editor, app, typed, browsed, turn, missed>> /\ interrupts' = <<>>
        /\ turn.is \in {"resuming", "running"} /\ turn.asks = "nothing"
    BY <1>4 DEF Screen!TakeInterrupts, Screen!Working
  <2>2. told' = told \cup Gathered(interrupts)
    BY <1>4 DEF Screen!TakeInterrupts, Gathered
  <2>3. Screen!OnTheWay' = Screen!OnTheWay /\ interrupts' \in Seq(Seq(Texts))
    BY <2>1, EmptySeq DEF Screen!OnTheWay
  <2> QED
    BY <1>0, <2>1, <2>2, <2>3, ThreadKeepsScreen
<1>5. CASE Screen!Finishes
  <2>1. /\ UNCHANGED <<editor, app, typed, browsed, interrupts, missed>>
        /\ turn.is \in {"resuming", "running"} /\ turn.asks = "nothing"
    BY <1>5 DEF Screen!Finishes, Screen!Working
  <2>2. /\ DOMAIN turn' = DOMAIN turn /\ turn'.prompt = turn.prompt /\ turn'.asks = turn.asks
        /\ IF turn.is = "resuming"
           THEN turn'.is = "running" /\ told' = told \cup Screen!Listed(turn.prompt)
           ELSE turn'.is = "done" /\ told' = told
    BY <1>0, <1>5 DEF Screen!Finishes
  <2>3. Screen!OnTheWay \cup told \subseteq Screen!OnTheWay' \cup told'
    BY <2>1, <2>2 DEF Screen!OnTheWay
  <2> QED
    BY <1>0, <2>1, <2>2, <2>3, ThreadKeepsScreen
<1>6. CASE Screen!Breaks
  <2>1. /\ UNCHANGED <<editor, app, typed, browsed, interrupts, told>>
        /\ turn.is \in {"resuming", "running"} /\ turn.asks = "nothing"
    BY <1>6 DEF Screen!Breaks, Screen!Working
  <2>2. /\ DOMAIN turn' = DOMAIN turn /\ turn'.prompt = turn.prompt /\ turn'.asks = turn.asks
        /\ turn'.is = "done" /\ missed' = Screen!MissedBy
    BY <1>0, <1>6 DEF Screen!Breaks
  <2>3. Screen!OnTheWay \cup missed \subseteq Screen!OnTheWay' \cup missed'
    BY <2>1, <2>2 DEF Screen!OnTheWay, Screen!MissedBy
  <2> QED
    BY <1>0, <2>1, <2>2, <2>3, ThreadKeepsScreen
<1> QED
  BY <1>1, <1>2, <1>3, <1>4, <1>5, <1>6 DEF Screen!TurnThread

\* What comes back is in the draft, in front of what was there.
LEMMA PutBackFacts ==
  ASSUME ScreenTyped, NEW back \in Seq(Seq(Texts)), Screen!PutBack(back)
  PROVE  /\ DOMAIN editor' = {"text", "aside", "browsing"}
         /\ editor'.text \in Seq(Texts) /\ editor'.aside \in Seq(Texts)
         /\ editor'.browsing \in BOOLEAN
         /\ Draft \cup Gathered(back) \subseteq Draft'
<1>1. CASE back = <<>>
  BY <1>1, GatheredNothing DEF ScreenTyped, Screen!PutBack, Draft
<1>2. CASE back # <<>>
  <2> DEFINE flat == Screen!FlattenSeq(back)
  <2>1. flat \in Seq(Texts) /\ Screen!Listed(flat) = Gathered(back)
    BY FlattenGathers
  <2>2. editor' = [text |-> flat \o editor.text, aside |-> <<>>, browsing |-> FALSE]
    BY <1>2 DEF Screen!PutBack, Screen!InFront
  <2> HIDE DEF flat
  <2>3. editor.text \in Seq(Texts) /\ <<>> \in Seq(Texts)
    BY EmptySeq DEF ScreenTyped
  <2> DEFINE new == flat \o editor.text
  <2>4. /\ new \in Seq(Texts)
        /\ Screen!Listed(new) = Screen!Listed(flat) \cup Screen!Listed(editor.text)
    BY <2>1, <2>3, ConcatProperties, ListedConcat
  <2> HIDE DEF new
  <2>5. editor'.text = new /\ editor'.aside = <<>> /\ editor'.browsing = FALSE
        /\ DOMAIN editor' = {"text", "aside", "browsing"}
    BY <2>2 DEF new
  <2>6. Draft' = Screen!Listed(new)
    BY <2>5 DEF Draft
  <2> QED
    BY <2>1, <2>3, <2>4, <2>5, <2>6 DEF Draft
<1> QED
  BY <1>1, <1>2

\* The invariant from its parts, when only the draft and the follow-ups move.
LEMMA DraftMoves ==
  ASSUME ScreenInv, UNCHANGED <<turn, interrupts, told, missed>>,
         DOMAIN editor' = {"text", "aside", "browsing"},
         editor'.text \in Seq(Texts), editor'.aside \in Seq(Texts), editor'.browsing \in BOOLEAN,
         DOMAIN app' = DOMAIN app, app'.running = app.running, app'.asked = app.asked,
         app'.queue \in Seq(Seq(Texts)), DOMAIN browsed' = DOMAIN browsed,
         typed' \ browsed.aside' \subseteq
           Draft' \cup Gathered(app'.queue) \cup Gathered(interrupts)
             \cup Screen!OnTheWay \cup told \cup missed
  PROVE  ScreenInv'
<1>1. ScreenTyped'
  BY DEF ScreenInv, ScreenTyped
<1>2. TurnInv'
  BY DEF ScreenInv, TurnInv
<1>3. Screen!OnTheWay' = Screen!OnTheWay
  BY DEF Screen!OnTheWay
<1> QED
  BY <1>1, <1>2, <1>3 DEF ScreenInv, Elsewhere

LEMMA TypeKeepsScreen == ASSUME ScreenInv, NEW t \in Texts, Screen!Type(t) PROVE ScreenInv'
<1>1. /\ UNCHANGED <<app, turn, interrupts, told, missed, browsed>> /\ typed' = typed \cup {t}
      /\ editor' = [text |-> Append(editor.text, t), aside |-> <<>>, browsing |-> FALSE]
  BY DEF Screen!Type
<1> DEFINE new == Append(editor.text, t)
<1>2. new \in Seq(Texts) /\ Screen!Listed(new) = Screen!Listed(editor.text) \cup {t}
  BY ListedAppend, AppendProperties DEF ScreenInv, ScreenTyped
<1>3. editor' = [text |-> new, aside |-> <<>>, browsing |-> FALSE]
  BY <1>1
<1> HIDE DEF new
<1>4. /\ DOMAIN editor' = {"text", "aside", "browsing"}
      /\ editor'.text = new /\ editor'.aside = <<>> /\ editor'.browsing = FALSE
  BY <1>3
<1>5. Draft' = Draft' \cup Draft \cup {t}
  BY <1>2, <1>4 DEF Draft
<1>6. typed \ browsed.aside \subseteq Draft \cup Elsewhere
  BY DEF ScreenInv
<1>7. <<>> \in Seq(Texts)
  BY EmptySeq
<1>8. app.queue \in Seq(Seq(Texts))
  BY DEF ScreenInv, ScreenTyped
<1>9. typed' \ browsed.aside' \subseteq
           Draft' \cup Gathered(app'.queue) \cup Gathered(interrupts)
             \cup Screen!OnTheWay \cup told \cup missed
  BY <1>1, <1>5, <1>6 DEF Elsewhere
<1> QED
  BY <1>1, <1>2, <1>4, <1>7, <1>8, <1>9, DraftMoves

LEMMA BrowseKeepsScreen == ASSUME ScreenInv, NEW t \in Texts, Screen!Browse(t) PROVE ScreenInv'
<1>1. /\ UNCHANGED <<app, turn, interrupts, told, missed, typed>>
      /\ editor' = [text |-> <<t>>, aside |-> editor.text, browsing |-> TRUE]
      /\ browsed' = [times |-> browsed.times + 1,
                     aside |-> browsed.aside \cup Screen!Listed(editor.text)]
  BY DEF Screen!Browse
<1> DEFINE old == editor.text
           now == <<t>>
<1>2. now \in Seq(Texts) /\ old \in Seq(Texts)
  BY DEF ScreenInv, ScreenTyped
<1> HIDE DEF now
<1>3. /\ DOMAIN editor' = {"text", "aside", "browsing"}
      /\ editor'.text = now /\ editor'.aside = old /\ editor'.browsing = TRUE
  BY <1>1 DEF now
<1>4. /\ DOMAIN browsed' = {"times", "aside"}
      /\ browsed'.aside = browsed.aside \cup Screen!Listed(old)
  BY <1>1
<1>5. typed \ browsed.aside \subseteq Screen!Listed(old) \cup Elsewhere
  BY DEF ScreenInv, Draft
<1>6. app.queue \in Seq(Seq(Texts)) /\ DOMAIN browsed = {"times", "aside"}
  BY DEF ScreenInv, ScreenTyped
<1> HIDE DEF old
<1>7. typed' \ browsed.aside' \subseteq
           Draft' \cup Gathered(app'.queue) \cup Gathered(interrupts)
             \cup Screen!OnTheWay \cup told \cup missed
  BY <1>1, <1>4, <1>5 DEF Elsewhere
<1> QED
  BY <1>1, <1>2, <1>3, <1>4, <1>6, <1>7, DraftMoves

LEMMA BrowseBackKeepsScreen == ASSUME ScreenInv, Screen!BrowseBack PROVE ScreenInv'
<1>1. /\ UNCHANGED <<app, turn, interrupts, told, missed, typed, browsed>> /\ editor.browsing
      /\ editor' = [text |-> editor.aside, aside |-> <<>>, browsing |-> FALSE]
  BY DEF Screen!BrowseBack
<1>2. /\ DOMAIN editor' = {"text", "aside", "browsing"}
      /\ editor'.text = editor.aside /\ editor'.aside = <<>> /\ editor'.browsing = FALSE
  BY <1>1
<1>3. editor.aside \in Seq(Texts) /\ app.queue \in Seq(Seq(Texts)) /\ <<>> \in Seq(Texts)
  BY EmptySeq DEF ScreenInv, ScreenTyped
<1>4. typed \ browsed.aside \subseteq Elsewhere
  BY <1>1 DEF ScreenInv, Draft
<1> QED
  BY <1>1, <1>2, <1>3, <1>4, DraftMoves DEF Elsewhere

\* The draft's facts when Enter takes it.
LEMMA EnterFacts ==
  ASSUME ScreenTyped, editor' = [editor EXCEPT !.text = <<>>, !.browsing = FALSE]
  PROVE  /\ DOMAIN editor' = {"text", "aside", "browsing"}
         /\ editor'.text \in Seq(Texts) /\ editor'.aside \in Seq(Texts)
         /\ editor'.browsing \in BOOLEAN
         /\ Draft \subseteq Screen!Listed(editor.text)
<1>1. <<>> \in Seq(Texts)
  BY EmptySeq
<1>2. /\ DOMAIN editor' = {"text", "aside", "browsing"}
      /\ editor'.text = <<>> /\ editor'.aside = editor.aside /\ editor'.browsing = FALSE
  BY DEF ScreenTyped
<1>3. editor.aside \in Seq(Texts)
  BY DEF ScreenTyped
<1> QED
  BY <1>1, <1>2, <1>3 DEF Draft

\* A new thread, its prompt and its token.
LEMMA StartedFacts ==
  ASSUME NEW p PROVE /\ DOMAIN Screen!Started(p) = {"is", "prompt", "asks", "end"}
                     /\ Screen!Started(p).is = "starting" /\ Screen!Started(p).prompt = p
                     /\ Screen!Started(p).asks = "nothing"
BY DEF Screen!Started, Screen!Off

LEMMA SubmitKeepsScreen == ASSUME ScreenInv, Screen!Submit PROVE ScreenInv'
<1>1. /\ UNCHANGED <<told, missed, typed, browsed>>
      /\ ~app.running /\ ~app.asked
      /\ editor' = [editor EXCEPT !.text = <<>>, !.browsing = FALSE]
      /\ app' = [app EXCEPT !.running = TRUE]
      /\ turn' = Screen!Started(editor.text) /\ interrupts' = <<>>
  BY DEF Screen!Submit, Screen!Key
<1>2. ScreenTyped /\ TurnInv /\ typed \ browsed.aside \subseteq Draft \cup Elsewhere
  BY DEF ScreenInv
<1>3. turn.is = "off" /\ interrupts = <<>>
  BY <1>1, <1>2 DEF ScreenTyped, TurnInv
<1>4. /\ DOMAIN app' = {"running", "asked", "queue"} /\ app'.running = TRUE
      /\ app'.asked = app.asked /\ app'.queue = app.queue
  BY <1>1, <1>2 DEF ScreenTyped
<1>5. /\ DOMAIN turn' = {"is", "prompt", "asks", "end"} /\ turn'.is = "starting"
      /\ turn'.prompt = editor.text /\ turn'.asks = "nothing"
  BY <1>1, StartedFacts
<1>6. ScreenTyped'
  <2>1. <<>> \in Seq(Seq(Texts))
    BY EmptySeq
  <2> QED
    BY <1>1, <1>2, <1>4, <1>5, <2>1, EnterFacts DEF ScreenTyped
<1>7. TurnInv'
  BY <1>1, <1>4, <1>5 DEF TurnInv
<1>8. Screen!OnTheWay = {} /\ Screen!OnTheWay' = Screen!Listed(editor.text)
  BY <1>3, <1>5 DEF Screen!OnTheWay
<1>9. Draft \subseteq Screen!Listed(editor.text)
  BY DEF Draft
<1>10. Draft \cup Elsewhere \subseteq Elsewhere'
  BY <1>1, <1>3, <1>4, <1>8, <1>9 DEF Elsewhere
<1>11. typed' \ browsed.aside' \subseteq Draft' \cup Elsewhere'
  BY <1>1, <1>2, <1>10
<1> QED
  BY <1>6, <1>7, <1>11 DEF ScreenInv

LEMMA SteerKeepsScreen == ASSUME ScreenInv, Screen!Steer PROVE ScreenInv'
<1>1. UNCHANGED <<app, turn, told, missed, typed, browsed>> /\ app.running
  BY DEF Screen!Steer
<1>2. ScreenTyped /\ TurnInv /\ typed \ browsed.aside \subseteq Draft \cup Elsewhere
  BY DEF ScreenInv
<1>3. turn.is # "off"
  BY <1>1, <1>2 DEF ScreenTyped, TurnInv
<1>4. TurnInv'
  BY <1>1, <1>2, <1>3 DEF TurnInv
<1>5. Screen!OnTheWay' = Screen!OnTheWay
  BY <1>1 DEF Screen!OnTheWay
<1>6. CASE /\ interrupts' = Append(interrupts, editor.text)
           /\ editor' = [editor EXCEPT !.text = <<>>, !.browsing = FALSE]
  <2>1. /\ interrupts' \in Seq(Seq(Texts))
        /\ Gathered(interrupts') = Gathered(interrupts) \cup Screen!Listed(editor.text)
    <3>1. editor.text \in Seq(Texts) /\ interrupts \in Seq(Seq(Texts))
      BY <1>2 DEF ScreenTyped
    <3> QED
      BY <1>6, <3>1, GatheredAppend, AppendProperties
  <2>2. ScreenTyped'
    BY <1>1, <1>2, <1>6, <2>1, EnterFacts DEF ScreenTyped
  <2>3. Draft \subseteq Screen!Listed(editor.text)
    BY DEF Draft
  <2>4. Draft \cup Elsewhere \subseteq Elsewhere'
    BY <1>1, <1>5, <2>1, <2>3 DEF Elsewhere
  <2> QED
    BY <1>1, <1>2, <1>4, <2>2, <2>4 DEF ScreenInv
<1>7. CASE editor' = [editor EXCEPT !.browsing = FALSE] /\ interrupts' = interrupts
  <2>1. /\ DOMAIN editor' = {"text", "aside", "browsing"} /\ editor'.browsing = FALSE
        /\ editor'.text = editor.text /\ editor'.aside = editor.aside
    BY <1>2, <1>7 DEF ScreenTyped
  <2>2. ScreenTyped'
    BY <1>1, <1>2, <1>7, <2>1 DEF ScreenTyped
  <2>3. Draft \subseteq Draft'
    BY <2>1 DEF Draft
  <2>4. Elsewhere' = Elsewhere
    BY <1>1, <1>5, <1>7 DEF Elsewhere
  <2> QED
    BY <1>1, <1>2, <1>4, <2>2, <2>3, <2>4 DEF ScreenInv
<1> QED
  BY <1>6, <1>7 DEF Screen!Steer

LEMMA FollowKeepsScreen == ASSUME ScreenInv, Screen!Follow PROVE ScreenInv'
<1>1. /\ UNCHANGED <<turn, interrupts, told, missed, typed, browsed>>
      /\ editor' = [editor EXCEPT !.text = <<>>, !.browsing = FALSE]
      /\ app' = [app EXCEPT !.queue = Append(@, editor.text)]
  BY DEF Screen!Follow
<1>2. ScreenTyped /\ typed \ browsed.aside \subseteq Draft \cup Elsewhere
  BY DEF ScreenInv
<1> DEFINE longer == Append(app.queue, editor.text)
<1>3. /\ longer \in Seq(Seq(Texts))
      /\ Gathered(longer) = Gathered(app.queue) \cup Screen!Listed(editor.text)
  BY <1>2, GatheredAppend, AppendProperties DEF ScreenTyped
<1>4. app' = [app EXCEPT !.queue = longer]
  BY <1>1
<1> HIDE DEF longer
<1>5. /\ DOMAIN app' = DOMAIN app /\ app'.running = app.running /\ app'.asked = app.asked
      /\ app'.queue = longer
  BY <1>2, <1>4 DEF ScreenTyped
<1>6. typed' \ browsed.aside' \subseteq
           Draft' \cup Gathered(app'.queue) \cup Gathered(interrupts)
             \cup Screen!OnTheWay \cup told \cup missed
  BY <1>1, <1>2, <1>3, <1>5, EnterFacts DEF Elsewhere
<1> QED
  BY <1>1, <1>2, <1>3, <1>5, <1>6, EnterFacts, DraftMoves

LEMMA TakeBackKeepsScreen == ASSUME ScreenInv, Screen!TakeBack PROVE ScreenInv'
<1>1. /\ UNCHANGED <<turn, interrupts, told, missed, typed, browsed>> /\ app.queue # <<>>
      /\ Screen!PutBack(<<Screen!Last(app.queue)>>)
      /\ app' = [app EXCEPT !.queue = Screen!Front(@)]
  BY DEF Screen!TakeBack
<1>2. ScreenTyped /\ typed \ browsed.aside \subseteq Draft \cup Elsewhere
  BY DEF ScreenInv
<1> DEFINE rest == Screen!Front(app.queue)
           last == Screen!Last(app.queue)
           back == <<last>>
<1>3. /\ rest \in Seq(Seq(Texts)) /\ last \in Seq(Texts)
      /\ Gathered(app.queue) = Gathered(rest) \cup Screen!Listed(last)
  BY <1>1, <1>2, GatheredSplits DEF ScreenTyped
<1>4. app' = [app EXCEPT !.queue = rest] /\ Screen!PutBack(back)
  BY <1>1
<1> HIDE DEF rest, last
<1>5. back \in Seq(Seq(Texts)) /\ Gathered(back) = Screen!Listed(last)
  BY <1>3 DEF Gathered
<1> HIDE DEF back
<1>6. /\ DOMAIN app' = DOMAIN app /\ app'.running = app.running /\ app'.asked = app.asked
      /\ app'.queue = rest
  BY <1>2, <1>4 DEF ScreenTyped
<1>7. /\ DOMAIN editor' = {"text", "aside", "browsing"}
      /\ editor'.text \in Seq(Texts) /\ editor'.aside \in Seq(Texts)
      /\ editor'.browsing \in BOOLEAN
      /\ Draft \cup Gathered(back) \subseteq Draft'
  BY <1>2, <1>4, <1>5, PutBackFacts
<1>8. typed' \ browsed.aside' \subseteq
           Draft' \cup Gathered(app'.queue) \cup Gathered(interrupts)
             \cup Screen!OnTheWay \cup told \cup missed
  BY <1>1, <1>2, <1>3, <1>5, <1>6, <1>7 DEF Elsewhere
<1> QED
  BY <1>1, <1>3, <1>6, <1>7, <1>8, DraftMoves

LEMMA AnswerKeepsScreen == ASSUME ScreenInv, Screen!Answer PROVE ScreenInv'
<1>1. UNCHANGED <<editor, interrupts, told, missed, typed, browsed>> /\ app.asked
  BY DEF Screen!Answer
<1>2. PICK verdict \in {"allowed", "denied"} : turn' = [turn EXCEPT !.asks = verdict]
  BY DEF Screen!Answer
<1>3. ScreenTyped /\ TurnInv /\ typed \ browsed.aside \subseteq Draft \cup Elsewhere
  BY DEF ScreenInv
<1>4. /\ DOMAIN app' = DOMAIN app /\ app'.running = app.running /\ app'.asked = FALSE
      /\ app'.queue = app.queue
  BY <1>3 DEF Screen!Answer, ScreenTyped
<1>5. /\ DOMAIN turn' = DOMAIN turn /\ turn'.is = turn.is /\ turn'.prompt = turn.prompt
      /\ turn'.asks = verdict
  BY <1>2, <1>3 DEF ScreenTyped
<1>6. turn.asks = "shown"
  BY <1>1, <1>3 DEF ScreenTyped, TurnInv
<1>7. ScreenTyped'
  BY <1>1, <1>3, <1>4, <1>5 DEF ScreenTyped
<1>8. TurnInv'
  BY <1>1, <1>3, <1>4, <1>5, <1>6 DEF TurnInv
<1>9. Screen!OnTheWay' = Screen!OnTheWay /\ Draft' = Draft
  BY <1>1, <1>5 DEF Screen!OnTheWay, Draft
<1> QED
  BY <1>1, <1>3, <1>4, <1>7, <1>8, <1>9 DEF ScreenInv, Elsewhere

LEMMA CancelKeepsScreen == ASSUME ScreenInv, Screen!CancelTurn PROVE ScreenInv'
<1>1. /\ UNCHANGED <<interrupts, told, missed, typed, browsed>> /\ app.running
      /\ app' = [app EXCEPT !.asked = FALSE, !.queue = <<>>]
      /\ turn' = Screen!Dropped(turn) /\ Screen!PutBack(app.queue)
  BY DEF Screen!CancelTurn
<1>2. ScreenTyped /\ TurnInv /\ typed \ browsed.aside \subseteq Draft \cup Elsewhere
  BY DEF ScreenInv
<1>3. app.queue \in Seq(Seq(Texts)) /\ <<>> \in Seq(Seq(Texts))
  BY <1>2, EmptySeq DEF ScreenTyped
<1>4. /\ DOMAIN app' = DOMAIN app /\ app'.running = app.running /\ app'.asked = FALSE
      /\ app'.queue = <<>>
  BY <1>1, <1>2 DEF ScreenTyped
<1>5. /\ DOMAIN turn' = DOMAIN turn /\ turn'.is = turn.is /\ turn'.prompt = turn.prompt
      /\ turn'.asks = IF turn.asks = "shown" THEN "denied" ELSE turn.asks
  BY <1>1, <1>2 DEF ScreenTyped, Screen!Dropped
<1>6. /\ DOMAIN editor' = {"text", "aside", "browsing"}
      /\ editor'.text \in Seq(Texts) /\ editor'.aside \in Seq(Texts)
      /\ editor'.browsing \in BOOLEAN
      /\ Draft \cup Gathered(app.queue) \subseteq Draft'
  BY <1>1, <1>2, <1>3, PutBackFacts
<1>7. ScreenTyped'
  BY <1>1, <1>2, <1>3, <1>4, <1>5, <1>6 DEF ScreenTyped
<1>8. TurnInv'
  BY <1>1, <1>2, <1>4, <1>5 DEF TurnInv
<1>9. Screen!OnTheWay' = Screen!OnTheWay
  BY <1>5 DEF Screen!OnTheWay
<1>10. Draft \cup Elsewhere \subseteq Draft' \cup Elsewhere'
  BY <1>1, <1>6, <1>9 DEF Elsewhere
<1> QED
  BY <1>1, <1>2, <1>7, <1>8, <1>10 DEF ScreenInv

LEMMA CommandKeepsScreen == ASSUME ScreenInv, Screen!Command PROVE ScreenInv'
<1>1. /\ UNCHANGED <<app, turn, interrupts, told, missed, typed, browsed>>
      /\ editor.text = <<>> /\ editor' = Screen!Empty
  BY DEF Screen!Command
<1>2. ScreenTyped /\ typed \ browsed.aside \subseteq Draft \cup Elsewhere
  BY DEF ScreenInv
<1>3. /\ DOMAIN editor' = {"text", "aside", "browsing"} /\ editor'.text = <<>>
      /\ editor'.aside = <<>> /\ editor'.browsing = FALSE
  BY <1>1 DEF Screen!Empty
<1>4. Draft = {}
  BY <1>1, ListedIsNothing DEF Draft
<1>5. <<>> \in Seq(Texts) /\ app.queue \in Seq(Seq(Texts))
  BY <1>2, EmptySeq DEF ScreenTyped
<1> QED
  BY <1>1, <1>2, <1>3, <1>4, <1>5, DraftMoves DEF Elsewhere

LEMMA LeaveKeepsScreen ==
  ASSUME ScreenInv, Screen!NoKey \/ Screen!Quit PROVE ScreenInv'
<1>1. UNCHANGED <<editor, app, turn, interrupts, told, missed, typed, browsed>>
  BY DEF Screen!NoKey, Screen!Quit
<1> QED
  BY <1>1 DEF ScreenInv, ScreenTyped, TurnInv, Draft, Elsewhere, Screen!OnTheWay

\* The top of the loop, when the turn has not ended.
LEMMA TopGoesOn ==
  ASSUME ScreenInv, Screen!Top, turn.is # "done" PROVE ScreenInv'
<1>1. ScreenTyped /\ TurnInv /\ typed \ browsed.aside \subseteq Draft \cup Elsewhere
  BY DEF ScreenInv
<1> DEFINE starts == ~app.running /\ app.queue # <<>>
           runs == starts \/ app.running
           asks == Screen!Arrived \/ app.asked
           left == IF starts THEN Tail(app.queue) ELSE app.queue
<1>2. /\ UNCHANGED <<editor, told, missed, typed, browsed>>
      /\ app' = [running |-> runs, asked |-> asks, queue |-> left]
      /\ turn' = IF starts THEN Screen!Started(Head(app.queue))
                 ELSE IF Screen!Arrived THEN [turn EXCEPT !.asks = "shown"] ELSE turn
      /\ interrupts' = IF starts THEN <<>> ELSE interrupts
  BY DEF Screen!Top
<1>3. runs \in BOOLEAN /\ asks \in BOOLEAN
  BY <1>1 DEF ScreenTyped, Screen!Arrived
<1>4. runs <=> starts \/ app.running
  OBVIOUS
<1>5. asks <=> turn.asks = "sent" \/ app.asked
  BY DEF Screen!Arrived
<1>6. Draft' = Draft
  BY <1>2 DEF Draft
<1> HIDE DEF runs, asks
<1>7. CASE starts
  <2>1. turn.is = "off" /\ turn.asks = "nothing" /\ interrupts = <<>> /\ ~app.asked
    BY <1>1, <1>7 DEF ScreenTyped, TurnInv
  <2> DEFINE first == Head(app.queue)
             rest == Tail(app.queue)
  <2>2. /\ first \in Seq(Texts) /\ rest \in Seq(Seq(Texts))
        /\ Gathered(app.queue) = Screen!Listed(first) \cup Gathered(rest)
    BY <1>1, <1>7, GatheredSplits DEF ScreenTyped
  <2>3. /\ app' = [running |-> runs, asked |-> asks, queue |-> rest]
        /\ turn' = Screen!Started(first) /\ interrupts' = <<>>
    BY <1>2, <1>7
  <2> HIDE DEF first, rest, starts, left
  <2>4. /\ DOMAIN app' = {"running", "asked", "queue"} /\ app'.running = runs
        /\ app'.asked = asks /\ app'.queue = rest
    BY <2>3
  <2>5. /\ DOMAIN turn' = {"is", "prompt", "asks", "end"} /\ turn'.is = "starting"
        /\ turn'.prompt = first /\ turn'.asks = "nothing"
    BY <2>3, StartedFacts
  <2>6. ScreenTyped'
    <3>1. <<>> \in Seq(Seq(Texts))
      BY EmptySeq
    <3> QED
      BY <1>1, <1>2, <1>3, <2>2, <2>3, <2>4, <2>5, <3>1 DEF ScreenTyped
  <2>7. TurnInv'
    BY <1>4, <1>5, <1>7, <2>1, <2>4, <2>5 DEF TurnInv
  <2>8. Screen!OnTheWay = {} /\ Screen!OnTheWay' = Screen!Listed(first)
    BY <2>1, <2>5 DEF Screen!OnTheWay
  <2>9. Elsewhere \subseteq Elsewhere'
    BY <1>2, <2>1, <2>2, <2>3, <2>4, <2>8 DEF Elsewhere
  <2> QED
    BY <1>1, <1>2, <1>6, <2>6, <2>7, <2>9 DEF ScreenInv
<1>8. CASE ~starts
  <2>1. /\ app' = [running |-> runs, asked |-> asks, queue |-> app.queue]
        /\ turn' = IF Screen!Arrived THEN [turn EXCEPT !.asks = "shown"] ELSE turn
        /\ interrupts' = interrupts
    BY <1>2, <1>8
  <2>2. runs <=> app.running
    BY <1>4, <1>8
  <2> HIDE DEF starts, left
  <2>3. /\ DOMAIN app' = {"running", "asked", "queue"} /\ app'.running = runs
        /\ app'.asked = asks /\ app'.queue = app.queue
    BY <2>1
  <2>4. /\ DOMAIN turn' = DOMAIN turn /\ turn'.is = turn.is /\ turn'.prompt = turn.prompt
        /\ turn'.asks = IF turn.asks = "sent" THEN "shown" ELSE turn.asks
    BY <1>1, <2>1 DEF ScreenTyped, Screen!Arrived
  <2>5. ScreenTyped'
    BY <1>1, <1>2, <1>3, <2>1, <2>3, <2>4 DEF ScreenTyped
  <2>6. TurnInv'
    BY <1>1, <1>5, <2>1, <2>2, <2>3, <2>4 DEF TurnInv
  <2>7. Screen!OnTheWay' = Screen!OnTheWay
    BY <2>4 DEF Screen!OnTheWay
  <2> QED
    BY <1>1, <1>2, <1>6, <2>1, <2>3, <2>5, <2>6, <2>7 DEF ScreenInv, Elsewhere
<1> QED
  BY <1>7, <1>8

\* The top of the loop after the turn's end: what steered it too late and the
\* follow-ups run next, or come back.
LEMMA TopEndsTurn ==
  ASSUME ScreenInv, Screen!Top, turn.is = "done" PROVE ScreenInv'
<1>1. ScreenTyped /\ TurnInv /\ typed \ browsed.aside \subseteq Draft \cup Elsewhere
  BY DEF ScreenInv
<1> DEFINE queue == Screen!Kept(turn.end)
           back == Screen!Returned(turn.end)
           starts == queue # <<>>
           asks == Screen!Arrived
           left == IF starts THEN Tail(queue) ELSE queue
<1>2. /\ UNCHANGED <<told, missed, typed, browsed>> /\ Screen!PutBack(back)
      /\ app' = [running |-> starts, asked |-> asks, queue |-> left]
      /\ turn' = IF starts THEN Screen!Started(Head(queue)) ELSE Screen!Off
      /\ interrupts' = <<>>
  <2> DEFINE ended == turn.is = "done"
             q == IF ended THEN Screen!Kept(turn.end) ELSE app.queue
             begins == (ended \/ ~app.running) /\ q # <<>>
             r == begins \/ (app.running /\ ~ended)
             a == Screen!Arrived \/ (app.asked /\ ~ended)
  <2>1. /\ UNCHANGED <<told, missed, typed, browsed>>
        /\ app' = [running |-> r, asked |-> a, queue |-> IF begins THEN Tail(q) ELSE q]
    BY DEF Screen!Top
  <2>2. /\ Screen!PutBack(back)
        /\ turn' = IF begins THEN Screen!Started(Head(q)) ELSE Screen!Off
        /\ interrupts' = <<>>
    BY DEF Screen!Top
  <2>3. q = queue /\ ended
    OBVIOUS
  <2>4. r = starts /\ a = asks /\ (begins <=> starts)
    BY <2>3 DEF Screen!Arrived
  <2> HIDE DEF r, a, q, queue
  <2> QED
    BY <2>1, <2>2, <2>3, <2>4
<1>3. turn.asks = "nothing"
  BY <1>1 DEF TurnInv
<1>4. asks = FALSE
  BY <1>3 DEF Screen!Arrived
<1>5. /\ <<>> \in Seq(Seq(Texts)) /\ app.queue \in Seq(Seq(Texts))
      /\ interrupts \in Seq(Seq(Texts))
  BY <1>1, EmptySeq DEF ScreenTyped
<1> DEFINE both == interrupts \o app.queue
<1>6. both \in Seq(Seq(Texts)) /\ Gathered(both) = Gathered(interrupts) \cup Gathered(app.queue)
  BY <1>5, ConcatProperties, GatheredConcat
<1>7. /\ queue = IF turn.end = "final" THEN both ELSE <<>>
      /\ back = IF turn.end = "final" THEN <<>> ELSE both
  BY DEF Screen!Kept, Screen!Returned, Screen!Late
<1> HIDE DEF both, queue, back, asks
<1>8. /\ queue \in Seq(Seq(Texts)) /\ back \in Seq(Seq(Texts))
      /\ Gathered(interrupts) \cup Gathered(app.queue) \subseteq Gathered(queue) \cup Gathered(back)
  BY <1>5, <1>6, <1>7
<1>9. /\ DOMAIN editor' = {"text", "aside", "browsing"}
      /\ editor'.text \in Seq(Texts) /\ editor'.aside \in Seq(Texts)
      /\ editor'.browsing \in BOOLEAN
      /\ Draft \cup Gathered(back) \subseteq Draft'
  BY <1>1, <1>2, <1>8, PutBackFacts
<1>10. Screen!OnTheWay = {}
  BY DEF Screen!OnTheWay
<1>11. CASE starts
  <2> DEFINE first == Head(queue)
             rest == Tail(queue)
             yes == TRUE
  <2>1. /\ first \in Seq(Texts) /\ rest \in Seq(Seq(Texts))
        /\ Gathered(queue) = Screen!Listed(first) \cup Gathered(rest)
    BY <1>8, <1>11, GatheredSplits
  <2>2. starts = yes
    BY <1>11
  <2>3. /\ app' = [running |-> yes, asked |-> asks, queue |-> rest]
        /\ turn' = Screen!Started(first)
    BY <1>2, <1>11, <2>2
  <2>4. yes \in BOOLEAN /\ yes
    OBVIOUS
  <2> HIDE DEF first, rest, yes, starts, left
  <2>5. /\ DOMAIN app' = {"running", "asked", "queue"} /\ app'.running = yes
        /\ app'.asked = asks /\ app'.queue = rest
    BY <2>3
  <2>6. /\ DOMAIN turn' = {"is", "prompt", "asks", "end"} /\ turn'.is = "starting"
        /\ turn'.prompt = first /\ turn'.asks = "nothing"
    BY <2>3, StartedFacts
  <2>7. ScreenTyped'
    BY <1>1, <1>2, <1>4, <1>5, <1>9, <2>1, <2>4, <2>5, <2>6 DEF ScreenTyped
  <2>8. TurnInv'
    <3>1. turn'.is # "off" /\ turn'.asks # "shown"
      BY <2>6
    <3> QED
      BY <1>4, <2>4, <2>5, <2>6, <3>1 DEF TurnInv
  <2>9. Screen!OnTheWay' = Screen!Listed(first)
    BY <2>6 DEF Screen!OnTheWay
  <2>10. Draft \cup Elsewhere \subseteq Draft' \cup Elsewhere'
    BY <1>2, <1>8, <1>9, <1>10, <2>1, <2>5, <2>9 DEF Elsewhere
  <2> QED
    BY <1>1, <1>2, <2>7, <2>8, <2>10 DEF ScreenInv
<1>12. CASE ~starts
  <2> DEFINE no == FALSE
  <2>1. starts = no
    BY <1>12
  <2>2. app' = [running |-> no, asked |-> asks, queue |-> queue] /\ turn' = Screen!Off
    BY <1>2, <1>12, <2>1
  <2>3. no \in BOOLEAN /\ ~no /\ queue = <<>>
    BY <1>12
  <2> HIDE DEF no, starts, left
  <2>4. /\ DOMAIN app' = {"running", "asked", "queue"} /\ app'.running = no
        /\ app'.asked = asks /\ app'.queue = queue
    BY <2>2
  <2>5. /\ DOMAIN turn' = {"is", "prompt", "asks", "end"} /\ turn'.is = "off"
        /\ turn'.prompt = <<>> /\ turn'.asks = "nothing" /\ <<>> \in Seq(Texts)
    BY <2>2, EmptySeq DEF Screen!Off
  <2>6. ScreenTyped'
    BY <1>1, <1>2, <1>4, <1>5, <1>8, <1>9, <2>3, <2>4, <2>5 DEF ScreenTyped
  <2>7. TurnInv'
    BY <1>2, <1>4, <2>3, <2>4, <2>5 DEF TurnInv
  <2>8. Draft \cup Elsewhere \subseteq Draft' \cup Elsewhere'
    BY <1>2, <1>8, <1>9, <1>10, <2>3, <2>4, GatheredNothing DEF Elsewhere
  <2> QED
    BY <1>1, <1>2, <2>6, <2>7, <2>8 DEF ScreenInv
<1> QED
  BY <1>11, <1>12

LEMMA NextKeepsScreen ==
  ASSUME ScreenInv, [Screen!Next]_screenVars
  PROVE  ScreenInv'
<1>1. CASE UNCHANGED screenVars
  BY <1>1 DEF screenVars, ScreenInv, ScreenTyped, TurnInv, Draft, Elsewhere, Screen!OnTheWay
<1>2. CASE Screen!Keys
  BY <1>2, TypeKeepsScreen, BrowseKeepsScreen, BrowseBackKeepsScreen, SubmitKeepsScreen,
     SteerKeepsScreen, FollowKeepsScreen, TakeBackKeepsScreen, AnswerKeepsScreen,
     CancelKeepsScreen, CommandKeepsScreen, LeaveKeepsScreen DEF Screen!Keys
<1> QED
  BY <1>1, <1>2, TopGoesOn, TopEndsTurn, LeaveKeepsScreen, TurnThreadKeepsScreen
     DEF Screen!Next

-----------------------------------------------------------------------------
(* The faces *)

\* The busy flag of a session of the MCP server is the turn that a call runs
\* (turn_lock, mcp_server.rs), and the terminal says that a turn runs, and
\* asks a question, exactly while its thread is there and waits
\* (tole-tui/src/lib.rs), in every behaviour of the faces and for every
\* number of sessions, calls and texts.
THEOREM BusyIsTheTurnHolds == FacesSpec => []BusyIsTheTurn
<1>1. FacesInit => McpInv /\ ScreenInv
  BY InitMcp, InitScreen DEF FacesInit
<1>2. McpInv /\ ScreenInv /\ [FacesNext]_<<part, vars, mcpVars, screenVars, lineVars>>
        => McpInv' /\ ScreenInv'
  <2> SUFFICES ASSUME McpInv, ScreenInv,
                      [FacesNext]_<<part, vars, mcpVars, screenVars, lineVars>>
               PROVE  McpInv' /\ ScreenInv'
    OBVIOUS
  <2>1. [Mcp!Next]_mcpVars /\ [Screen!Next]_screenVars
    BY DEF FacesNext
  <2> QED
    BY <2>1, NextKeepsMcp, NextKeepsScreen
<1>3. McpInv /\ ScreenInv => BusyIsTheTurn
  BY McpIsSound, ScreenIsSound DEF BusyIsTheTurn
<1> QED
  BY <1>1, <1>2, <1>3, PTL DEF FacesSpec

\* What was typed in the terminal is in the draft, waits, is on its way, or
\* was told the model ("Nothing is lost on cancel or on a turn that did not
\* end in an answer", tole-tui/src/lib.rs:400-401), and a message that was
\* typed in a chat is recorded, or its loss was told, or a kill took it
\* (run_session_turn(), tole-cli/src/main.rs): for every number of texts and
\* messages, and every order of keys, ends of turns, interrupts and kills.
THEOREM NothingTypedIsLost == FacesSpec => []NothingIsLost
<1>1. FacesInit => ScreenInv /\ LinesInv
  BY InitScreen, InitLines DEF FacesInit
<1>2. ScreenInv /\ LinesInv /\ [FacesNext]_<<part, vars, mcpVars, screenVars, lineVars>>
        => ScreenInv' /\ LinesInv'
  <2> SUFFICES ASSUME ScreenInv, LinesInv,
                      [FacesNext]_<<part, vars, mcpVars, screenVars, lineVars>>
               PROVE  ScreenInv' /\ LinesInv'
    OBVIOUS
  <2>1. [Screen!Next]_screenVars /\ [Lines!Next]_lineVars
    BY DEF FacesNext
  <2> QED
    BY <2>1, NextKeepsScreen, NextKeepsLines
<1>3. ScreenInv /\ LinesInv => NothingIsLost
  BY ScreenIsSound, LinesAreSound DEF NothingIsLost
<1> QED
  BY <1>1, <1>2, <1>3, PTL DEF FacesSpec

=============================================================================
