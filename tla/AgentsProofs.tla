---------------------------- MODULE AgentsProofs -----------------------------
(***************************************************************************)
(* Proofs about the parts of MCAgents.  The fetches (WebFetch): for every  *)
(* set of hosts and every MaxRedirects.  The gate (Roster): for all flags  *)
(* and lists.  Trust and settings (ConfigTrust, Settings): for all         *)
(* projects, contents and processes.  The child agents (ChildAgents): for  *)
(* all sessions, children and caps.  The touch log (SiblingWatch): for all *)
(* children, lines and paths.  The lists of a child (AllowLists): for all  *)
(* patterns and calls.                                                     *)
(*                                                                         *)
(* EachFetchIsVetted speaks of the requests of the call at hand and is not *)
(* inductive: what the next request may be depends on the URL that a       *)
(* redirect has put in the variable url, on the scheme of the first URL,   *)
(* and on the count of redirects, which runs behind that of the requests   *)
(* by one while a request waits to be sent.  The other invariants are      *)
(* explained where they are defined.                                       *)
(***************************************************************************)
EXTENDS MCAgents, FiniteSetTheorems, SequenceTheorems, WellFoundedInduction, TLAPS

-----------------------------------------------------------------------------
(* The fetches *)

\* The URLs of the tools: "base" and "none" are those of a redirect.
Urls == [scheme : {"http", "https", "file", "base", "none"},
         host : Hosts \cup {Backend}]

LEMMA UrlFacts ==
  /\ \A s \in AnyScheme \cup {"base"}, h \in Hosts \cup {Backend} :
       Url(s, h) \in Urls /\ Url(s, h).scheme = s /\ Url(s, h).host = h
  /\ NoLocation \in Urls
BY DEF Url, Urls, AnyScheme, Schemes, NoLocation

Request == [url : Urls,
            to : {"public", "private"},
            headers : SUBSET {"credential"},
            proxied : BOOLEAN]

\* Between two calls the URL may be one of no scheme a request is made for.
UrlInv ==
  /\ url \in Urls
  /\ response \in Responses
  /\ redirects \in 0 .. MaxRedirects
  /\ stage \in {"starting", "refused", "ready", "sending", "answered"}
  /\ stage \in {"sending", "answered"} => tool \in {"web_fetch", "web_search"}

\* What was sent: each request of a fetch was vetted.
SentInv ==
  /\ sent \in Seq(Request)
  /\ \A i \in DOMAIN sent :
       /\ tool = "web_fetch" =>
            /\ sent[i].to = "public" \/ setup.optOut
            /\ sent[i].proxied = FALSE
            /\ first = "https" => sent[i].url.scheme = "https"
       /\ sent[i].headers # {} =>
            tool = "web_search" /\ sent[i].url.host = Backend
  /\ sent # <<>> => sent[1].url.scheme = first

\* Where the call is.
CallInv ==
  /\ stage = "sending" =>
       /\ Len(sent) = redirects
       /\ first = "https" => url.scheme = "https"
       /\ sent = <<>> => url.scheme = first
       /\ tool = "web_search" => url.host = Backend /\ redirects = 0
       /\ result = "none"
  /\ stage = "answered" =>
       /\ Len(sent) = redirects + 1
       /\ url = sent[Len(sent)].url
       /\ result = "none"
  /\ stage \in {"starting", "refused", "ready"} => Len(sent) <= MaxRedirects + 1
  /\ result = "content" =>
       response.status = "ok" /\ sent # <<>> /\ url = sent[Len(sent)].url

IInv == UrlInv /\ SentInv /\ CallInv

-----------------------------------------------------------------------------

LEMMA InitHolds ==
  ASSUME MaxRedirects \in Nat, Init
  PROVE  IInv
<1>1. UrlInv
  <2>1. url = [scheme |-> "http", host |-> Backend] /\ redirects = 0 /\ stage = "starting"
    BY DEF Init, Url
  <2>2. response \in [status : {"ok"}, type : {"text", "binary"}, location : {NoLocation}]
    BY DEF Init
  <2>3. response \in Responses
    BY <2>2 DEF Responses
  <2> QED
    BY <2>1, <2>3 DEF UrlInv, Urls
<1>2. sent = <<>> /\ stage = "starting" /\ result = "none"
  BY DEF Init
<1> QED
  BY <1>1, <1>2 DEF IInv, SentInv, CallInv

\* The invariant says what the property asks.
LEMMA IInvVets ==
  ASSUME MaxRedirects \in Nat, IInv
  PROVE  EachFetchIsVetted
<1>1. ASSUME NEW i \in DOMAIN sent
      PROVE  /\ tool = "web_fetch" =>
                  /\ sent[i].to = "public" \/ setup.optOut
                  /\ ~sent[i].proxied
                  /\ sent[1].url.scheme = "https" => sent[i].url.scheme = "https"
             /\ sent[i].headers # {} => tool = "web_search" /\ sent[i].url.host = Backend
  <2>1. sent # <<>>
    BY <1>1 DEF IInv, SentInv
  <2> QED
    BY <1>1, <2>1 DEF IInv, SentInv
<1>2. Len(sent) <= MaxRedirects + 1
  BY DEF IInv, UrlInv, SentInv, CallInv
<1>3. result = "content" => (response.status = "ok" /\ url = sent[Len(sent)].url)
  BY DEF IInv, CallInv
<1> QED
  BY <1>1, <1>2, <1>3 DEF EachFetchIsVetted

-----------------------------------------------------------------------------

\* A call begins with nothing sent and nothing to tell.
LEMMA BeginKeeps ==
  ASSUME MaxRedirects \in Nat, IInv, NEW t \in {"web_fetch", "web_search"},
         NEW u \in Urls, Begin(t, u),
         t = "web_search" => u.host = Backend,
         stage' \in {"sending", "ready"}
  PROVE  IInv'
BY DEF Begin, IInv, UrlInv, SentInv, CallInv

\* The request that goes out is vetted.
LEMMA SendKeeps ==
  ASSUME MaxRedirects \in Nat, IInv, Send
  PROVE  IInv'
<1>1. PICK addresses \in Resolutions, r \in Responses :
        /\ MayConnect(addresses)
        /\ \E to \in addresses :
             sent' = Append(sent, [url |-> url, to |-> to, headers |-> Headers,
                                   proxied |-> setup.proxy /\ tool = "web_search"])
        /\ response' = r
  BY DEF Send
<1>2. PICK to \in addresses :
        sent' = Append(sent, [url |-> url, to |-> to, headers |-> Headers,
                              proxied |-> setup.proxy /\ tool = "web_search"])
  BY <1>1
<1> DEFINE p == setup.proxy /\ tool = "web_search"
           q == [url |-> url, to |-> to, headers |-> Headers, proxied |-> p]
<1>3. p \in BOOLEAN /\ (tool = "web_fetch" => p = FALSE)
  OBVIOUS
<1>4. sent' = Append(sent, q)
  BY <1>2
<1>5. to \in {"public", "private"} /\ (tool = "web_fetch" => to = "public" \/ setup.optOut)
  BY <1>1, <1>2 DEF Resolutions, MayConnect, Vetted
<1>6. Headers \in SUBSET {"credential"} /\ (Headers # {} => tool = "web_search")
  BY DEF Headers
<1> HIDE DEF p
<1>7. q \in Request
  BY <1>3, <1>5, <1>6 DEF Request, IInv, UrlInv
<1>8. /\ stage = "sending" /\ stage' = "answered"
      /\ UNCHANGED <<setup, tool, url, first, redirects, result>>
  BY DEF Send
<1>9. /\ q.url = url /\ q.to = to /\ q.headers = Headers /\ q.proxied = p
  OBVIOUS
<1> HIDE DEF q
<1>10. UrlInv'
  BY <1>1, <1>8 DEF IInv, UrlInv
<1>11. /\ sent' \in Seq(Request) /\ Len(sent') = Len(sent) + 1
       /\ \A i \in DOMAIN sent : sent'[i] = sent[i] /\ i \in DOMAIN sent'
       /\ sent'[Len(sent) + 1] = q
       /\ \A i \in DOMAIN sent' : i \in DOMAIN sent \/ i = Len(sent) + 1
  BY <1>4, <1>7 DEF IInv, SentInv
<1>12. /\ tool = "web_fetch" =>
            /\ q.to = "public" \/ setup.optOut
            /\ q.proxied = FALSE
            /\ first = "https" => q.url.scheme = "https"
       /\ q.headers # {} => tool = "web_search" /\ q.url.host = Backend
  BY <1>3, <1>5, <1>6, <1>8, <1>9 DEF IInv, CallInv
<1>13. sent'[1].url.scheme = first
  <2>1. CASE sent = <<>>
    BY <1>8, <1>9, <1>11, <2>1 DEF IInv, CallInv
  <2>2. CASE sent # <<>>
    BY <1>11, <2>2 DEF IInv, SentInv
  <2> QED
    BY <2>1, <2>2
<1>14. SentInv'
  BY <1>8, <1>11, <1>12, <1>13 DEF IInv, SentInv
<1>15. CallInv'
  BY <1>8, <1>9, <1>11 DEF IInv, CallInv, SentInv, UrlInv
<1> QED
  BY <1>10, <1>14, <1>15 DEF IInv

\* A redirect leaves the next request within the cap and the scheme.
LEMMA FollowKeeps ==
  ASSUME MaxRedirects \in Nat, IInv, Follow
  PROVE  IInv'
<1>1. /\ stage = "answered" /\ tool = "web_fetch" /\ stage' = "sending"
      /\ redirects < MaxRedirects /\ redirects' = redirects + 1
      /\ first = "https" => Joined.scheme = "https"
      /\ url' = Joined
      /\ UNCHANGED <<setup, tool, first, response, sent, result>>
  BY DEF Follow, MayFollow
<1>2. Joined \in Urls
  <2>1. response.location \in Urls
    <3>1. Locations \subseteq Urls
      <4>1. \A s \in AnyScheme \cup {"base"}, h \in Hosts :
              Url(s, h) \in Urls
        BY UrlFacts
      <4>2. NoLocation \in Urls
        BY UrlFacts
      <4> QED
        BY <4>1, <4>2 DEF Locations
    <3>2. response.location \in Locations
      BY DEF IInv, UrlInv, Responses, Locations
    <3> QED
      BY <3>1, <3>2
  <2> QED
    BY <2>1 DEF Joined, Url, Urls, IInv, UrlInv
<1>3. UrlInv'
  BY <1>1, <1>2 DEF IInv, UrlInv
<1>4. SentInv'
  BY <1>1 DEF IInv, SentInv
<1>5. CallInv'
  BY <1>1 DEF IInv, UrlInv, SentInv, CallInv
<1> QED
  BY <1>3, <1>4, <1>5 DEF IInv

\* The end of a call.
LEMMA EndsKeeps ==
  ASSUME MaxRedirects \in Nat, IInv, NEW r, Ends(r),
         stage \in {"sending", "answered"},
         r = "content" => stage = "answered" /\ response.status = "ok",
         UNCHANGED <<setup, tool, url, first, redirects, response, sent>>
  PROVE  IInv'
<1>1. result' = r /\ stage' = "ready"
  BY DEF Ends
<1>2. UrlInv'
  BY <1>1 DEF IInv, UrlInv
<1>3. SentInv'
  BY <1>1 DEF IInv, SentInv
<1>4. CallInv'
  BY <1>1 DEF IInv, UrlInv, SentInv, CallInv
<1> QED
  BY <1>2, <1>3, <1>4 DEF IInv

\* Every step keeps the invariant.
LEMMA NextKeeps ==
  ASSUME MaxRedirects \in Nat, IInv, [Next]_vars
  PROVE  IInv'
<1>1. CASE Register
  <2>1. stage = "starting" /\ stage' \in {"refused", "ready"} /\ UNCHANGED <<setup, callVars>>
    BY <1>1 DEF Register
  <2> QED
    BY <2>1 DEF IInv, UrlInv, SentInv, CallInv, callVars
<1>2. CASE SendFails
  BY <1>2, EndsKeeps DEF SendFails
<1>3. ASSUME NEW s \in AnyScheme, NEW h \in Hosts, Fetch(Url(s, h))
      PROVE  IInv'
  <2>1. Url(s, h) \in Urls
    BY UrlFacts
  <2>2. stage' \in {"sending", "ready"} /\ Begin("web_fetch", Url(s, h))
    BY <1>3 DEF Fetch
  <2> QED
    BY <2>1, <2>2, BeginKeeps
<1>4. CASE RefuseRedirect
  BY <1>4, EndsKeeps DEF RefuseRedirect
<1>5. CASE Return
  <2>1. response.status = "ok"
    <3>1. response.status # "redirect"
      BY <1>5 DEF Return, MustFollow, IsRedirect
    <3>2. response \in Responses
      BY DEF IInv, UrlInv
    <3> QED
      BY <3>1, <3>2 DEF Responses
  <2>2. PICK r \in {"error", "content"} : Ends(r)
    BY <1>5 DEF Return
  <2> QED
    BY <1>5, <2>1, <2>2, EndsKeeps DEF Return
<1>6. ASSUME NEW s \in Schemes, Search(s)
      PROVE  IInv'
  <2>1. Url(s, Backend) \in Urls
        /\ Url(s, Backend).host = Backend
    BY UrlFacts DEF AnyScheme
  <2>2. stage' \in {"sending", "ready"} /\ Begin("web_search", Url(s, Backend))
    BY <1>6 DEF Search
  <2> QED
    BY <2>1, <2>2, BeginKeeps
<1>7. CASE ReturnResults
  <2>1. PICK r \in {"results", "error"} : Ends(r)
    BY <1>7 DEF ReturnResults
  <2> QED
    BY <1>7, <2>1, EndsKeeps DEF ReturnResults
<1>8. CASE UNCHANGED vars
  BY <1>8 DEF vars, IInv, UrlInv, SentInv, CallInv
<1> QED
  BY <1>1, <1>2, <1>3, <1>4, <1>5, <1>6, <1>7, <1>8, SendKeeps, FollowKeeps DEF Next

\* Each request of a fetch, the first and those of its redirects, goes to an
\* address that was looked at for this request, and in the clear only if the
\* first one did; what the model reads comes from a response that is no
\* redirect, after at most MaxRedirects of them (web.rs, WebFetchTool::run()
\* and vet_addrs()).  This is for every number of hosts and every cap.
THEOREM EveryFetchIsVetted == Spec => []EachFetchIsVetted
<1>1. Init => IInv
  BY InitHolds, RedirectsAreCounted
<1>2. IInv /\ [Next]_vars => IInv'
  BY NextKeeps, RedirectsAreCounted
<1>3. IInv => EachFetchIsVetted
  BY IInvVets, RedirectsAreCounted
<1> QED
  BY <1>1, <1>2, <1>3, PTL DEF Spec

-----------------------------------------------------------------------------
(* The gate *)

\* What has let the call at hand go on.
Consented ==
  /\ call.yes \/ Gate!Unattended(call.tool)
  /\ Gate!RiskOf(call.tool) = "Destructive" => call.yes
  /\ listed[call.tool] = "deny" =>
       call.yes /\ (flags.face = "rest" \/ Gate!RiskOf(call.tool) = "Destructive")

\* A process serves only with the flags that its face accepts, and a
\* destructive tool is registered only where a human is there to ask.
ProcessInv ==
  /\ at # "serving" => registry = {} /\ call.at = "none"
  /\ at = "serving" => ~Gate!Refused(flags)
  /\ flags.plan => \A t \in registry : Gate!RiskOf(t) = "ReadOnly"
  /\ \A t \in registry : Gate!RiskOf(t) = "Destructive" => Gate!Interactive(flags)

\* What is known of a call at each step of its way: a call that only reads
\* takes none, a destructive one goes to the human at once, and a prompt is
\* not reached by a call that the list denies unless it is destructive.
StepInv ==
  /\ DOMAIN call = {"tool", "at", "auto", "yes", "hooked"}
  /\ call.at \in {"asked", "looked", "prompted", "allowed"} =>
       call.tool \in registry /\ Gate!RiskOf(call.tool) # "ReadOnly"
  /\ call.at = "looked" => Gate!RiskOf(call.tool) # "Destructive"
  /\ call.at = "prompted" =>
       Gate!RiskOf(call.tool) = "Destructive" \/ listed[call.tool] # "deny"
  /\ call.at = "allowed" => Consented
  /\ call.at = "ran" /\ Gate!RiskOf(call.tool) # "ReadOnly" =>
       Consented /\ (flags.hooks = "pretool" => call.hooked)

GateInv == ProcessInv /\ StepInv

LEMMA NoCallFacts ==
  /\ DOMAIN Gate!NoCall = {"tool", "at", "auto", "yes", "hooked"}
  /\ Gate!NoCall.at = "none"
BY DEF Gate!NoCall

LEMMA InitGate == Gate!Init => GateInv
BY NoCallFacts DEF Gate!Init, GateInv, ProcessInv, StepInv

LEMMA GateIsSound == GateInv => EachEffectIsAllowed
<1> SUFFICES ASSUME GateInv PROVE EachEffectIsAllowed
  OBVIOUS
<1>1. Gate!PlanOnlyReads
  BY DEF GateInv, ProcessInv, Gate!PlanOnlyReads
<1>2. Gate!EachEffectIsAllowed
  BY DEF GateInv, StepInv, Consented, Gate!EachEffectIsAllowed
<1> QED
  BY <1>1, <1>2 DEF EachEffectIsAllowed

\* The registry of a process that starts.
LEMMA StartKeepsGate == GateInv /\ Gate!Start => GateInv'
<1> SUFFICES ASSUME GateInv, Gate!Start PROVE GateInv'
  OBVIOUS
<1>1. /\ at' = "serving" /\ registry' = Gate!Built(flags) \cup Gate!Joined(flags)
      /\ ~Gate!Refused(flags) /\ flags' = flags /\ call' = call
      /\ call.at = "none"
  BY DEF Gate!Start, GateInv, ProcessInv
<1>2. ASSUME flags.plan, NEW t \in registry' PROVE Gate!RiskOf(t) = "ReadOnly"
  <2>1. CASE t \in Gate!Built(flags)
    BY <1>2, <2>1 DEF Gate!Built, Gate!ReadOnly
  <2>2. CASE t \in Gate!Joined(flags)
    <3>1. t \in {"todo_read", "load_skill"}
      BY <1>2, <2>2 DEF Gate!Joined, Gate!If
    <3> QED
      BY <3>1 DEF Gate!RiskOf, Gate!ReadTools
  <2> QED
    BY <1>1, <1>2, <2>1, <2>2
<1>3. ASSUME NEW t \in registry', Gate!RiskOf(t) = "Destructive" PROVE Gate!Interactive(flags)
  <2>1. t = "delete_file"
    BY <1>3 DEF Gate!RiskOf
  <2>2. t \in Gate!Built(flags)
    BY <1>1, <2>1 DEF Gate!Joined, Gate!If
  <2>3. t \in Gate!Native(flags) \cup Gate!Served(flags) \cup Gate!Resources(flags)
    BY <2>2 DEF Gate!Built, Gate!ReadOnly
  <2>4. t \in Gate!Native(flags)
    BY <2>1, <2>3 DEF Gate!Served, Gate!Resources, Gate!If
  <2> QED
    BY <2>1, <2>4 DEF Gate!Native, Gate!If
<1>4. ProcessInv'
  <2>1. flags'.plan => \A t \in registry' : Gate!RiskOf(t) = "ReadOnly"
    BY <1>1, <1>2
  <2>2. \A t \in registry' : Gate!RiskOf(t) = "Destructive" => Gate!Interactive(flags)
    BY <1>3
  <2> QED
    BY <1>1, <2>1, <2>2 DEF ProcessInv
<1>5. StepInv'
  BY <1>1 DEF GateInv, StepInv
<1> QED
  BY <1>4, <1>5 DEF GateInv

\* A step of the call leaves the process alone.
LEMMA ProcessStays ==
  ASSUME GateInv, UNCHANGED Gate!Policy, at = "serving"
  PROVE  ProcessInv'
BY DEF GateInv, ProcessInv, Gate!Policy

LEMMA CallKeepsGate ==
  ASSUME GateInv,
         \/ \E t \in Gate!Tools : Gate!Ask(t)
         \/ Gate!LookAtMode \/ Gate!LookAtPatterns \/ Gate!HumanAnswers \/ Gate!AllowAlways
         \/ Gate!SetApproval \/ Gate!AllowlistDecides \/ Gate!QueueDecides \/ Gate!RemoteYes
         \/ Gate!HookDenies \/ Gate!Execute
  PROVE  GateInv'
<1>1. UNCHANGED Gate!Policy /\ at = "serving"
  BY DEF Gate!Ask, Gate!LookAtMode, Gate!LookAtPatterns, Gate!HumanAnswers, Gate!AllowAlways,
         Gate!SetApproval, Gate!AllowlistDecides, Gate!QueueDecides, Gate!RemoteYes,
         Gate!HookDenies, Gate!Execute, Gate!Is, Gate!AtRest
<1>2. ProcessInv'
  BY <1>1, ProcessStays
<1>3. flags' = flags /\ registry' = registry /\ listed' = listed
  BY <1>1 DEF Gate!Policy
<1>4. StepInv /\ ProcessInv
  BY DEF GateInv
<1> DEFINE yes == TRUE
<1>5. yes
  OBVIOUS
<1> HIDE DEF yes
<1>6. DOMAIN call = {"tool", "at", "auto", "yes", "hooked"}
  BY <1>4 DEF StepInv
<1> USE <1>3
<1>11. ASSUME NEW t \in Gate!Tools, Gate!Ask(t) PROVE StepInv'
  <2> DEFINE where == IF t \notin registry THEN "denied"
                      ELSE IF Gate!RiskOf(t) = "ReadOnly" THEN "ran" ELSE "asked"
  <2>1. call' = [Gate!NoCall EXCEPT !.tool = t, !.at = where]
    BY <1>11 DEF Gate!Ask
  <2>2. where \in {"denied", "ran", "asked"}
    OBVIOUS
  <2>3. where = "ran" => Gate!RiskOf(t) = "ReadOnly"
    OBVIOUS
  <2>4. where = "asked" => t \in registry /\ Gate!RiskOf(t) # "ReadOnly"
    OBVIOUS
  <2> HIDE DEF where
  <2>5. /\ DOMAIN call' = {"tool", "at", "auto", "yes", "hooked"}
        /\ call'.tool = t /\ call'.at = where
    BY <2>1, NoCallFacts
  <2> QED
    BY <2>2, <2>3, <2>4, <2>5 DEF StepInv
<1>12. ASSUME Gate!LookAtMode PROVE StepInv'
  <2>1. call.at = "asked"
    BY <1>12 DEF Gate!LookAtMode, Gate!Is
  <2>2. CASE Gate!RiskOf(call.tool) = "Destructive"
    <3>1. call' = [call EXCEPT !.at = "prompted"]
      BY <1>12, <2>2 DEF Gate!LookAtMode
    <3>2. /\ DOMAIN call' = DOMAIN call /\ call'.tool = call.tool /\ call'.at = "prompted"
      BY <1>6, <3>1
    <3> QED
      BY <1>4, <2>1, <2>2, <3>2 DEF StepInv
  <2>3. CASE Gate!RiskOf(call.tool) # "Destructive"
    <3>1. call' = [call EXCEPT !.at = "looked", !.auto = auto]
      BY <1>12, <2>3 DEF Gate!LookAtMode
    <3>2. /\ DOMAIN call' = DOMAIN call /\ call'.tool = call.tool /\ call'.at = "looked"
      BY <1>6, <3>1
    <3> QED
      BY <1>4, <2>1, <2>3, <3>2 DEF StepInv
  <2> QED
    BY <2>2, <2>3
<1>13. ASSUME Gate!LookAtPatterns PROVE StepInv'
  <2> DEFINE v == Gate!VerdictOn(call.tool)
             to == Gate!Answered(v, call.auto)
  <2>1. call.at = "looked" /\ call' = [call EXCEPT !.at = to] /\ granted' = granted
    BY <1>13 DEF Gate!LookAtPatterns, Gate!Is
  <2>2. v \in {"deny", "ask", "allow", "no_match"}
    BY DEF Gate!VerdictOn
  <2>3. v = "deny" <=> listed[call.tool] = "deny"
    BY DEF Gate!VerdictOn
  <2>4. v = "allow" =>
          \/ listed[call.tool] = "allow" \/ call.tool \in granted \/ Gate!Preset(call.tool)
    BY DEF Gate!VerdictOn
  <2> HIDE DEF v
  <2>5. /\ to \in {"denied", "prompted", "allowed"}
        /\ to = "allowed" => v = "allow" \/ (v = "no_match" /\ call.auto)
        /\ to = "prompted" => v # "deny"
    BY <2>2 DEF Gate!Answered
  <2> HIDE DEF to
  <2>6. /\ DOMAIN call' = DOMAIN call /\ call'.tool = call.tool /\ call'.at = to
        /\ call'.auto = call.auto /\ call'.yes = call.yes
    BY <1>6, <2>1
  <2>7. Gate!Preset(call.tool) =>
          flags.trust = "workspace" /\ flags.root = "project" /\ call.tool = "write_file"
    BY <1>1, <1>4 DEF Gate!Preset, ProcessInv, Gate!Refused, Gate!NoWorkspace
  <2>8. to = "allowed" => Gate!Unattended(call.tool)
    BY <2>4, <2>5, <2>7 DEF Gate!Unattended
  <2>9. to = "allowed" => Consented'
    <3>1. Gate!Unattended(call.tool)' = Gate!Unattended(call.tool)
      BY <2>1, <2>6 DEF Gate!Unattended
    <3> QED
      BY <1>4, <2>1, <2>3, <2>5, <2>6, <2>8, <3>1 DEF StepInv, Consented
  <2> QED
    BY <1>4, <2>1, <2>3, <2>5, <2>6, <2>9 DEF StepInv
<1>14. ASSUME Gate!HumanAnswers PROVE StepInv'
  <2>1. call.at = "prompted"
    BY <1>14 DEF Gate!HumanAnswers, Gate!Is
  <2>2. CASE call' = [call EXCEPT !.at = "allowed", !.yes = TRUE]
    <3>1. call' = [call EXCEPT !.at = "allowed", !.yes = yes]
      BY <2>2 DEF yes
    <3>2. /\ DOMAIN call' = DOMAIN call /\ call'.tool = call.tool /\ call'.at = "allowed"
          /\ call'.yes = yes
      BY <1>6, <3>1
    <3> QED
      BY <1>4, <1>5, <2>1, <3>2 DEF StepInv, Consented
  <2>3. CASE call' = [call EXCEPT !.at = "denied"]
    BY <1>4, <1>6, <2>3 DEF StepInv
  <2> QED
    BY <1>14, <2>2, <2>3 DEF Gate!HumanAnswers
<1>15. ASSUME Gate!AllowAlways PROVE StepInv'
  <2>1. call.at = "prompted" /\ call' = [call EXCEPT !.at = "allowed", !.yes = yes]
    BY <1>15 DEF Gate!AllowAlways, Gate!Is, yes
  <2>2. /\ DOMAIN call' = DOMAIN call /\ call'.tool = call.tool /\ call'.at = "allowed"
        /\ call'.yes = yes
    BY <1>6, <2>1
  <2> QED
    BY <1>4, <1>5, <2>1, <2>2 DEF StepInv, Consented
<1>16. ASSUME Gate!SetApproval \/ Gate!RemoteYes PROVE StepInv'
  <2>1. call' = call /\ granted' = granted
    BY <1>16 DEF Gate!SetApproval, Gate!RemoteYes
  <2> QED
    BY <1>4, <2>1 DEF StepInv, Consented, Gate!Unattended
<1>17. ASSUME Gate!AllowlistDecides PROVE StepInv'
  <2> DEFINE to == IF Gate!VerdictOn(call.tool) = "allow" THEN "allowed" ELSE "denied"
  <2>1. /\ call.at = "asked" /\ flags.face = "mcp" /\ granted' = granted
        /\ call' = [call EXCEPT !.at = to]
    BY <1>17 DEF Gate!AllowlistDecides, Gate!Is
  <2>2. to \in {"allowed", "denied"}
    OBVIOUS
  <2>3. to = "allowed" =>
          /\ listed[call.tool] # "deny"
          /\ listed[call.tool] = "allow" \/ call.tool \in granted \/ Gate!Preset(call.tool)
    BY DEF Gate!VerdictOn
  <2> HIDE DEF to
  <2>4. /\ DOMAIN call' = DOMAIN call /\ call'.tool = call.tool /\ call'.at = to
        /\ call'.auto = call.auto
    BY <1>6, <2>1
  <2>5. Gate!Preset(call.tool) =>
          flags.trust = "workspace" /\ flags.root = "project" /\ call.tool = "write_file"
    BY <1>1, <1>4 DEF Gate!Preset, ProcessInv, Gate!Refused, Gate!NoWorkspace
  <2>6. Gate!RiskOf(call.tool) # "Destructive"
    BY <1>4, <2>1 DEF StepInv, ProcessInv, Gate!Interactive
  <2>7. to = "allowed" => Consented'
    BY <2>1, <2>3, <2>4, <2>5, <2>6 DEF Consented, Gate!Unattended
  <2> QED
    BY <1>4, <2>1, <2>2, <2>4, <2>7 DEF StepInv
<1>18. ASSUME Gate!QueueDecides PROVE StepInv'
  <2>1. call.at = "asked" /\ flags.face = "rest" /\ granted' = granted
    BY <1>18 DEF Gate!QueueDecides, Gate!Is
  <2>2. Gate!RiskOf(call.tool) # "Destructive"
    BY <1>4, <2>1 DEF StepInv, ProcessInv, Gate!Interactive
  <2>3. CASE Gate!VerdictOn(call.tool) = "allow" /\ call' = [call EXCEPT !.at = "allowed"]
    <3>1. /\ listed[call.tool] # "deny"
          /\ listed[call.tool] = "allow" \/ call.tool \in granted \/ Gate!Preset(call.tool)
      BY <2>3 DEF Gate!VerdictOn
    <3>2. /\ DOMAIN call' = DOMAIN call /\ call'.tool = call.tool /\ call'.at = "allowed"
          /\ call'.auto = call.auto
      BY <1>6, <2>3
    <3>3. Gate!Preset(call.tool) =>
            flags.trust = "workspace" /\ flags.root = "project" /\ call.tool = "write_file"
      BY <1>1, <1>4 DEF Gate!Preset, ProcessInv, Gate!Refused, Gate!NoWorkspace
    <3>4. Consented'
      BY <2>1, <2>2, <3>1, <3>2, <3>3 DEF Consented, Gate!Unattended
    <3> QED
      BY <1>4, <2>1, <3>2, <3>4 DEF StepInv
  <2>4. CASE call' = [call EXCEPT !.at = "allowed", !.yes = TRUE]
    <3>1. call' = [call EXCEPT !.at = "allowed", !.yes = yes]
      BY <2>4 DEF yes
    <3>2. /\ DOMAIN call' = DOMAIN call /\ call'.tool = call.tool /\ call'.at = "allowed"
          /\ call'.yes = yes
      BY <1>6, <3>1
    <3> QED
      BY <1>4, <1>5, <2>1, <3>2 DEF StepInv, Consented
  <2>5. CASE call' = [call EXCEPT !.at = "denied"]
    BY <1>4, <1>6, <2>5 DEF StepInv
  <2> QED
    BY <1>18, <2>3, <2>4, <2>5 DEF Gate!QueueDecides
<1>19. ASSUME Gate!HookDenies PROVE StepInv'
  BY <1>4, <1>6, <1>19 DEF StepInv, Gate!HookDenies
<1>20. ASSUME Gate!Execute PROVE StepInv'
  <2> DEFINE hook == Gate!Hooked
  <2>1. /\ call.at = "allowed" /\ granted' = granted
        /\ call' = [call EXCEPT !.at = "ran", !.hooked = hook]
    BY <1>20 DEF Gate!Execute, Gate!Is
  <2>2. flags.hooks = "pretool" => hook
    BY <1>1, <1>4 DEF ProcessInv, Gate!Refused, Gate!Unhonoured, Gate!Hooked
  <2> HIDE DEF hook
  <2>3. /\ DOMAIN call' = DOMAIN call /\ call'.tool = call.tool /\ call'.at = "ran"
        /\ call'.auto = call.auto /\ call'.yes = call.yes /\ call'.hooked = hook
    BY <1>6, <2>1
  <2>4. Consented'
    BY <1>4, <2>1, <2>3 DEF StepInv, Consented, Gate!Unattended
  <2> QED
    BY <1>4, <2>1, <2>2, <2>3, <2>4 DEF StepInv
<1> QED
  BY <1>2, <1>11, <1>12, <1>13, <1>14, <1>15, <1>16, <1>17, <1>18, <1>19, <1>20 DEF GateInv

LEMMA NextKeepsGate ==
  ASSUME GateInv, [Gate!Next]_gateVars
  PROVE  GateInv'
<1>1. CASE UNCHANGED gateVars
  BY <1>1 DEF gateVars, GateInv, ProcessInv, StepInv, Consented, Gate!Unattended
<1>2. CASE Gate!Refuse
  BY <1>2 DEF Gate!Refuse, GateInv, ProcessInv, StepInv, Consented, Gate!Unattended
<1> QED
  BY <1>1, <1>2, StartKeepsGate, CallKeepsGate DEF Gate!Next

-----------------------------------------------------------------------------
(* Trust *)

ProcFields == {"is", "op", "project", "read", "loaded"}

\* What a store may hold, when the user has said yes to ok.
Trusted(s, ok) == \A p \in Projects : s[p] # Untrusted => <<p, s[p]>> \in ok

\* What a process has read was there, what it is about to write down the user
\* said yes to, or it takes an entry away; so is its copy of the store.
HoldsApproved(q, ok) ==
  /\ DOMAIN q = ProcFields
  /\ q.is # "idle" => q.project \in Projects
  /\ q.is \in {"read", "asking"} => q.read # Untrusted
  /\ q.is \in {"recording", "saving"} =>
       \/ <<q.project, q.read>> \in ok
       \/ q.op = "untrust" /\ q.read = Untrusted
  /\ q.is = "saving" => DOMAIN q.loaded = Projects /\ Trusted(q.loaded, ok)

TrustInv ==
  /\ file \in [Projects -> Contents]
  /\ DOMAIN store = Projects /\ Trusted(store, approved)
  /\ used \subseteq approved
  /\ DOMAIN procs = Procs /\ \A x \in Procs : HoldsApproved(procs[x], approved)

LEMMA IdleFacts ==
  ASSUME NEW p PROVE DOMAIN Trust!Idle(p) = ProcFields /\ Trust!Idle(p).is = "idle"
BY DEF Trust!Idle, ProcFields

LEMMA IdleHolds == ASSUME NEW p, NEW ok PROVE HoldsApproved(Trust!Idle(p), ok)
BY IdleFacts DEF HoldsApproved

LEMMA InitTrust == Trust!Init => TrustInv
<1> SUFFICES ASSUME Trust!Init PROVE TrustInv
  OBVIOUS
<1>1. DOMAIN procs = Procs /\ \A x \in Procs : HoldsApproved(procs[x], approved)
  BY IdleHolds DEF Trust!Init
<1>2. DOMAIN store = Projects /\ Trusted(store, approved)
  BY DEF Trust!Init, Trusted
<1> QED
  BY <1>1, <1>2 DEF Trust!Init, TrustInv

LEMMA MoreIsApproved ==
  ASSUME NEW ok, NEW more, ok \subseteq more
  PROVE  /\ \A s : Trusted(s, ok) => Trusted(s, more)
         /\ \A q : HoldsApproved(q, ok) => HoldsApproved(q, more)
BY DEF Trusted, HoldsApproved

\* One process moves, and nothing that was approved is not any more.
LEMMA OneProcMoves ==
  ASSUME TrustInv, NEW x \in Procs, NEW q, procs' = [procs EXCEPT ![x] = q],
         HoldsApproved(q, approved'),
         approved \subseteq approved', used' \subseteq approved',
         file' = file, DOMAIN store' = Projects, Trusted(store', approved')
  PROVE  TrustInv'
<1>1. /\ DOMAIN procs' = Procs /\ procs'[x] = q
      /\ \A y \in Procs \ {x} : procs'[y] = procs[y]
  BY DEF TrustInv
<1>2. ASSUME NEW y \in Procs PROVE HoldsApproved(procs'[y], approved')
  <2>1. CASE y = x
    BY <1>1, <2>1
  <2>2. CASE y # x
    <3>1. HoldsApproved(procs[y], approved)
      BY DEF TrustInv
    <3> QED
      BY <1>1, <2>2, <3>1, MoreIsApproved
  <2> QED
    BY <2>1, <2>2
<1> QED
  BY <1>1, <1>2 DEF TrustInv

\* The process does not write down anything.
LEMMA ProcStepKeepsTrust ==
  ASSUME TrustInv, NEW x \in Procs, NEW q, procs' = [procs EXCEPT ![x] = q],
         HoldsApproved(q, approved), UNCHANGED <<file, store, approved>>,
         used' \subseteq approved
  PROVE  TrustInv'
<1>1. DOMAIN store' = Projects /\ Trusted(store', approved')
  BY DEF TrustInv
<1> QED
  BY <1>1, OneProcMoves

LEMMA BeginKeepsTrust ==
  ASSUME TrustInv, NEW x \in Procs, NEW p \in Projects, NEW op \in {"run", "trust", "untrust"},
         Trust!Begin(x, p, op)
  PROVE  TrustInv'
<1> DEFINE to == IF op = "untrust" THEN "recording" ELSE "read"
           text == IF op = "untrust" THEN Untrusted ELSE file[p]
           q == [Trust!Idle(p) EXCEPT !.op = op, !.is = to, !.read = text]
<1>1. procs' = [procs EXCEPT ![x] = q] /\ UNCHANGED <<file, store, approved, used>>
  BY DEF Trust!Begin
<1>2. op # "untrust" => text # Untrusted
  BY UntrustedIsNoContent DEF TrustInv
<1>3. \/ op = "untrust" /\ text = Untrusted /\ to = "recording"
      \/ op # "untrust" /\ to = "read"
  OBVIOUS
<1> HIDE DEF to, text
<1>4. /\ DOMAIN q = ProcFields /\ q.op = op /\ q.is = to /\ q.read = text
      /\ q.project = p
  BY DEF ProcFields, Trust!Idle
<1> HIDE DEF q
<1>5. HoldsApproved(q, approved)
  BY <1>2, <1>3, <1>4 DEF HoldsApproved
<1> QED
  BY <1>1, <1>5, ProcStepKeepsTrust DEF TrustInv

LEMMA LeaveKeepsTrust ==
  ASSUME TrustInv, NEW x \in Procs, Trust!Leave(x), UNCHANGED <<file, store, approved>>,
         used' \subseteq approved
  PROVE  TrustInv'
BY IdleHolds, ProcStepKeepsTrust DEF Trust!Leave

\* A text that a run uses as it was vetted.
LEMMA UseFacts ==
  ASSUME TrustInv, NEW x \in Procs, Trust!Use(x), NEW ok, used \subseteq ok,
         procs[x].op = "run" => <<procs[x].project, procs[x].read>> \in ok
  PROVE  used' \subseteq ok
BY DEF Trust!Use, Trust!Vetted

LEMMA CompareKeepsTrust == ASSUME TrustInv, NEW x \in Procs, Trust!Compare(x) PROVE TrustInv'
<1>1. /\ UNCHANGED <<file, store, approved>> /\ procs[x].is = "read"
      /\ HoldsApproved(procs[x], approved) /\ DOMAIN store = Projects /\ Trusted(store, approved)
      /\ used \subseteq approved
  BY DEF Trust!Compare, TrustInv
<1>2. CASE Trust!Leave(x) /\ Trust!Use(x) /\ store[procs[x].project] = procs[x].read
  <2>1. <<procs[x].project, procs[x].read>> \in approved
    BY <1>1, <1>2 DEF HoldsApproved, Trusted
  <2>2. used' \subseteq approved
    BY <1>1, <1>2, <2>1, UseFacts
  <2> QED
    BY <1>1, <1>2, <2>2, LeaveKeepsTrust
<1>3. CASE Trust!Leave(x) /\ UNCHANGED used
  BY <1>1, <1>3, LeaveKeepsTrust
<1>4. CASE Trust!To(x, "asking") /\ UNCHANGED used
  <2> DEFINE q == [procs[x] EXCEPT !.is = "asking"]
  <2>1. procs' = [procs EXCEPT ![x] = q]
    BY <1>4 DEF Trust!To
  <2>2. /\ DOMAIN q = ProcFields /\ q.is = "asking" /\ q.read = procs[x].read
        /\ q.project = procs[x].project
    BY <1>1 DEF HoldsApproved, ProcFields
  <2> HIDE DEF q
  <2>3. HoldsApproved(q, approved)
    BY <1>1, <2>2 DEF HoldsApproved
  <2> QED
    BY <1>1, <1>4, <2>1, <2>3, ProcStepKeepsTrust
<1> QED
  BY <1>2, <1>3, <1>4 DEF Trust!Compare

LEMMA AnswerKeepsTrust == ASSUME TrustInv, NEW x \in Procs, Trust!Answer(x) PROVE TrustInv'
<1>1. /\ UNCHANGED <<file, store, used>> /\ procs[x].is = "asking"
      /\ HoldsApproved(procs[x], approved) /\ DOMAIN store = Projects /\ Trusted(store, approved)
      /\ used \subseteq approved
  BY DEF Trust!Answer, TrustInv
<1>2. CASE Trust!Leave(x) /\ UNCHANGED approved
  BY <1>1, <1>2, LeaveKeepsTrust
<1>3. CASE /\ Trust!To(x, "recording")
           /\ approved' = approved \cup {<<procs[x].project, procs[x].read>>}
  <2> DEFINE q == [procs[x] EXCEPT !.is = "recording"]
  <2>1. procs' = [procs EXCEPT ![x] = q]
    BY <1>3 DEF Trust!To
  <2>2. /\ DOMAIN q = ProcFields /\ q.is = "recording" /\ q.read = procs[x].read
        /\ q.project = procs[x].project
    BY <1>1 DEF HoldsApproved, ProcFields
  <2> HIDE DEF q
  <2>3. HoldsApproved(q, approved')
    BY <1>1, <1>3, <2>2 DEF HoldsApproved
  <2>4. Trusted(store', approved')
    BY <1>1, <1>3, MoreIsApproved
  <2> QED
    BY <1>1, <1>3, <2>1, <2>3, <2>4, OneProcMoves
<1> QED
  BY <1>2, <1>3 DEF Trust!Answer

LEMMA LoadKeepsTrust == ASSUME TrustInv, NEW x \in Procs, Trust!Load(x) PROVE TrustInv'
<1>1. /\ UNCHANGED <<file, store, approved, used>> /\ procs[x].is = "recording"
      /\ HoldsApproved(procs[x], approved) /\ DOMAIN store = Projects /\ Trusted(store, approved)
      /\ used \subseteq approved
  BY DEF Trust!Load, TrustInv
<1>2. CASE Trust!Leave(x)
  BY <1>1, <1>2, LeaveKeepsTrust
<1>3. CASE procs' = [procs EXCEPT ![x].is = "saving", ![x].loaded = store]
  <2> DEFINE q == [procs[x] EXCEPT !.is = "saving", !.loaded = store]
  <2>1. procs' = [procs EXCEPT ![x] = q]
    BY <1>3, Zenon DEF TrustInv
  <2>2. /\ DOMAIN q = ProcFields /\ q.is = "saving" /\ q.read = procs[x].read
        /\ q.project = procs[x].project /\ q.op = procs[x].op /\ q.loaded = store
    BY <1>1 DEF HoldsApproved, ProcFields
  <2> HIDE DEF q
  <2>3. HoldsApproved(q, approved)
    BY <1>1, <2>2 DEF HoldsApproved
  <2> QED
    BY <1>1, <2>1, <2>3, ProcStepKeepsTrust
<1> QED
  BY <1>2, <1>3 DEF Trust!Load

LEMMA SaveKeepsTrust == ASSUME TrustInv, NEW x \in Procs, Trust!Save(x) PROVE TrustInv'
<1>1. /\ UNCHANGED <<file, approved>> /\ procs[x].is = "saving" /\ Trust!Leave(x)
      /\ HoldsApproved(procs[x], approved) /\ DOMAIN store = Projects /\ Trusted(store, approved)
      /\ used \subseteq approved
  BY DEF Trust!Save, TrustInv
<1>2. CASE /\ store' = [procs[x].loaded EXCEPT ![procs[x].project] = procs[x].read]
           /\ Trust!Use(x)
  <2>1. /\ DOMAIN procs[x].loaded = Projects /\ Trusted(procs[x].loaded, approved)
        /\ \/ <<procs[x].project, procs[x].read>> \in approved
           \/ procs[x].op = "untrust" /\ procs[x].read = Untrusted
    BY <1>1 DEF HoldsApproved
  <2>2. DOMAIN store' = Projects /\ Trusted(store', approved')
    BY <1>1, <1>2, <2>1 DEF Trusted
  <2>3. used' \subseteq approved'
    BY <1>1, <1>2, <2>1, UseFacts
  <2> QED
    BY <1>1, <2>2, <2>3, IdleHolds, OneProcMoves DEF Trust!Leave
<1>3. CASE UNCHANGED <<store, used>>
  BY <1>1, <1>3, LeaveKeepsTrust
<1> QED
  BY <1>2, <1>3 DEF Trust!Save

LEMMA NextKeepsTrust ==
  ASSUME TrustInv, [Trust!Next]_trustVars
  PROVE  TrustInv'
<1>1. CASE UNCHANGED trustVars
  BY <1>1 DEF trustVars, TrustInv
<1>2. ASSUME NEW p \in Projects, Trust!Edit(p) PROVE TrustInv'
  <2>1. UNCHANGED <<store, procs, approved, used>>
    BY <1>2 DEF Trust!Edit
  <2>2. file' \in [Projects -> Contents]
    BY <1>2 DEF Trust!Edit, TrustInv
  <2> QED
    BY <2>1, <2>2 DEF TrustInv
<1> QED
  BY <1>1, <1>2, BeginKeepsTrust, CompareKeepsTrust, AnswerKeepsTrust, LoadKeepsTrust,
     SaveKeepsTrust DEF Trust!Next

\* What was taken from a project's config had been approved before.
LEMMA TrustedIsApproved == TrustInv => Trust!ApprovedOnly
BY DEF TrustInv, Trust!ApprovedOnly, Trusted

-----------------------------------------------------------------------------
(* The settings *)

\* Every set of numbers that is not empty has a least one: the intervals below
\* its members are finite, and the strict subset order on them is well founded.
LEMMA LeastNumber ==
  ASSUME NEW T, T \subseteq Nat, T # {}
  PROVE \E m \in T : \A k \in T : m <= k
<1>1. PICK b \in T : TRUE
  OBVIOUS
<1> DEFINE Below(k) == 0 .. k
           F == {Below(k) : k \in {j \in T : j <= b}}
<1>2. IsFiniteSet(Below(b))
  BY FS_Interval
<1>3. F \subseteq SUBSET Below(b) /\ F # {}
  BY <1>1
<1>4. IsWellFoundedOn(StrictSubsetOrdering(Below(b)), FiniteSubsetsOf(Below(b)))
  BY <1>2, FS_StrictSubsetOrderingWellFounded
<1>5. F \subseteq FiniteSubsetsOf(Below(b))
  BY <1>3, <1>2, FS_Subset DEF FiniteSubsetsOf
<1>6. PICK x \in F : \A y \in F : <<y, x>> \notin StrictSubsetOrdering(Below(b))
  BY <1>3, <1>4, <1>5, WFMin
<1>7. PICK m \in T : m <= b /\ x = Below(m)
  BY <1>6
<1>8. ASSUME NEW k \in T, k < m PROVE FALSE
  <2>1. Below(k) \in F
    BY <1>7, <1>8
  <2>2. Below(k) \subseteq Below(m) /\ Below(k) # Below(m)
    BY <1>7, <1>8
  <2>3. <<Below(k), x>> \in (SUBSET Below(b)) \X (SUBSET Below(b))
    BY <2>1, <1>3, <1>7
  <2>4. <<Below(k), x>> \in StrictSubsetOrdering(Below(b))
    BY <2>2, <2>3, <1>7 DEF StrictSubsetOrdering
  <2> QED
    BY <1>6, <2>1, <2>4
<1> QED
  BY <1>7, <1>8

LEMMA FirstIsLeast ==
  ASSUME NEW T, T \subseteq Nat, NEW m \in T, \A k \in T : m <= k
  PROVE  Keys!FirstOf(T) = m
<1>1. \A i \in T : (\A j \in T : i <= j) => i = m
  OBVIOUS
<1> QED
  BY <1>1 DEF Keys!FirstOf

LEMMA SomeIsFirst ==
  ASSUME NEW T, T \subseteq Nat, T # {}
  PROVE  Keys!FirstOf(T) \in T
<1>1. PICK m \in T : \A k \in T : m <= k
  BY LeastNumber
<1> QED
  BY <1>1, FirstIsLeast

LEMMA LayersInOrder ==
  /\ DOMAIN Keys!Layers = 1 .. 4
  /\ Keys!Layers[1] = "flag" /\ Keys!Layers[2] = "env"
  /\ Keys!Layers[3] = "project" /\ Keys!Layers[4] = "user"
  /\ Keys!Names = {"flag", "env", "project", "user"}
<1>1. /\ DOMAIN Keys!Layers = 1 .. 4
      /\ Keys!Layers[1] = "flag" /\ Keys!Layers[2] = "env"
      /\ Keys!Layers[3] = "project" /\ Keys!Layers[4] = "user"
  BY DEF Keys!Layers
<1>2. 1 .. 4 = {1, 2, 3, 4}
  OBVIOUS
<1> QED
  BY <1>1, <1>2 DEF Keys!Names

\* A layer says what it may say of a key of this kind; the value that is used
\* and the parts of the address are right as soon as they are there.
KeysInv ==
  /\ key \in Keys!Kinds
  /\ \A n \in Keys!Names : layers[n] \in Keys!May(key, n)
  /\ Keys!HighestLayerWins
  /\ Keys!KeyStaysHome

LEMMA InitKeys == Keys!Init => KeysInv
<1> SUFFICES ASSUME Keys!Init PROVE KeysInv
  OBVIOUS
<1>1. effective.layer = "undecided" /\ provider.key = 0
  BY DEF Keys!Init, Keys!Undecided, Keys!Missing
<1>2. Keys!HighestLayerWins
  BY <1>1, LayersInOrder DEF Keys!HighestLayerWins
<1>3. Keys!KeyStaysHome
  BY <1>1 DEF Keys!KeyStaysHome
<1> QED
  BY <1>2, <1>3 DEF Keys!Init, KeysInv

\* A layer says something by the rules of the property exactly when it does
\* by those of the code.
LEMMA CountsFacts ==
  ASSUME key \in Keys!Kinds, \A n \in Keys!Names : layers[n] \in Keys!May(key, n)
  PROVE  /\ Keys!Counts("flag") <=> Keys!FlagCounts
         /\ Keys!Counts("env") <=> Keys!EnvCounts
         /\ Keys!Counts("project") <=> Keys!IsSet(layers["project"])
         /\ Keys!Counts("user") <=> Keys!IsSet(layers["user"])
<1>1. /\ layers["flag"] \in Keys!May(key, "flag") /\ layers["env"] \in Keys!May(key, "env")
      /\ layers["project"] \in Keys!May(key, "project")
      /\ layers["user"] \in Keys!May(key, "user")
  BY LayersInOrder
<1>2. CASE key = "counted"
  BY <1>1, <1>2 DEF Keys!Counts, Keys!FlagCounts, Keys!EnvCounts, Keys!IsSet, Keys!May
<1>3. CASE key = "text"
  BY <1>3 DEF Keys!Counts, Keys!FlagCounts, Keys!EnvCounts, Keys!IsSet
<1>4. CASE key \notin {"counted", "text"}
  BY <1>4 DEF Keys!Counts, Keys!FlagCounts, Keys!EnvCounts, Keys!IsSet
<1> QED
  BY <1>2, <1>3, <1>4

\* What is resolved is the first layer that says something.
LEMMA ResolvedIsHighest ==
  ASSUME key \in Keys!Kinds, \A n \in Keys!Names : layers[n] \in Keys!May(key, n)
  PROVE  LET saying == {i \in DOMAIN Keys!Layers : Keys!Counts(Keys!Layers[i])} IN
         /\ Keys!Resolved.layer =
              IF saying = {} THEN "default" ELSE Keys!Layers[Keys!FirstOf(saying)]
         /\ Keys!Resolved.named = Keys!Resolved.layer
<1> DEFINE saying == {i \in DOMAIN Keys!Layers : Keys!Counts(Keys!Layers[i])}
<1> SUFFICES /\ Keys!Resolved.layer =
                   IF saying = {} THEN "default" ELSE Keys!Layers[Keys!FirstOf(saying)]
             /\ Keys!Resolved.named = Keys!Resolved.layer
  OBVIOUS
<1>1. /\ 1 \in saying <=> Keys!FlagCounts
      /\ 2 \in saying <=> Keys!EnvCounts
      /\ 3 \in saying <=> Keys!IsSet(layers["project"])
      /\ 4 \in saying <=> Keys!IsSet(layers["user"])
  BY CountsFacts, LayersInOrder
<1>2. saying \subseteq {1, 2, 3, 4}
  BY LayersInOrder
<1> HIDE DEF saying
<1>3. CASE Keys!FlagCounts
  <2>1. Keys!FirstOf(saying) = 1
    <3>1. saying \subseteq Nat /\ 1 \in saying /\ \A k \in saying : 1 <= k
      BY <1>1, <1>2, <1>3
    <3> QED
      BY <3>1, FirstIsLeast
  <2>2. Keys!Resolved = [layer |-> "flag", named |-> "flag"]
    BY <1>3 DEF Keys!Resolved
  <2>3. saying # {}
    BY <1>1, <1>3
  <2>4. Keys!Resolved.layer = Keys!Layers[Keys!FirstOf(saying)]
    BY <2>1, <2>2, LayersInOrder
  <2> QED
    BY <2>2, <2>3, <2>4
<1>4. CASE ~Keys!FlagCounts /\ Keys!EnvCounts
  <2>1. Keys!FirstOf(saying) = 2
    <3>1. saying \subseteq Nat /\ 2 \in saying /\ \A k \in saying : 2 <= k
      BY <1>1, <1>2, <1>4
    <3> QED
      BY <3>1, FirstIsLeast
  <2>2. Keys!Resolved = [layer |-> "env", named |-> "env"]
    BY <1>4 DEF Keys!Resolved
  <2>3. saying # {}
    BY <1>1, <1>4
  <2>4. Keys!Resolved.layer = Keys!Layers[Keys!FirstOf(saying)]
    BY <2>1, <2>2, LayersInOrder
  <2> QED
    BY <2>2, <2>3, <2>4
<1>5. CASE ~Keys!FlagCounts /\ ~Keys!EnvCounts /\ Keys!IsSet(layers["project"])
  <2>1. Keys!FirstOf(saying) = 3
    <3>1. saying \subseteq Nat /\ 3 \in saying /\ \A k \in saying : 3 <= k
      BY <1>1, <1>2, <1>5
    <3> QED
      BY <3>1, FirstIsLeast
  <2>2. Keys!Layered = [says |-> layers["project"], of |-> "project"]
    BY <1>5 DEF Keys!Layered
  <2>3. Keys!Resolved = [layer |-> "project", named |-> "project"]
    BY <1>5, <2>2 DEF Keys!Resolved
  <2>4. saying # {}
    BY <1>1, <1>5
  <2>5. Keys!Resolved.layer = Keys!Layers[Keys!FirstOf(saying)]
    BY <2>1, <2>3, LayersInOrder
  <2> QED
    BY <2>3, <2>4, <2>5
<1>6. CASE /\ ~Keys!FlagCounts /\ ~Keys!EnvCounts
           /\ ~Keys!IsSet(layers["project"]) /\ Keys!IsSet(layers["user"])
  <2>1. Keys!FirstOf(saying) = 4
    <3>1. saying \subseteq Nat /\ 4 \in saying /\ \A k \in saying : 4 <= k
      BY <1>1, <1>2, <1>6
    <3> QED
      BY <3>1, FirstIsLeast
  <2>2. Keys!Layered = [says |-> layers["user"], of |-> "user"]
    BY <1>6 DEF Keys!Layered
  <2>3. Keys!Resolved = [layer |-> "user", named |-> "user"]
    BY <1>6, <2>2 DEF Keys!Resolved
  <2>4. saying # {}
    BY <1>1, <1>6
  <2>5. Keys!Resolved.layer = Keys!Layers[Keys!FirstOf(saying)]
    BY <2>1, <2>3, LayersInOrder
  <2> QED
    BY <2>3, <2>4, <2>5
<1>7. CASE /\ ~Keys!FlagCounts /\ ~Keys!EnvCounts
           /\ ~Keys!IsSet(layers["project"]) /\ ~Keys!IsSet(layers["user"])
  <2>1. saying = {}
    BY <1>1, <1>2, <1>7
  <2>2. Keys!Layered = [says |-> layers["project"], of |-> "project"]
    BY <1>7 DEF Keys!Layered
  <2>3. Keys!Resolved = Keys!Default
    BY <1>7, <2>2 DEF Keys!Resolved
  <2> QED
    BY <2>1, <2>3 DEF Keys!Default
<1> QED
  BY <1>3, <1>4, <1>5, <1>6, <1>7

\* Where the parts of the address come from.
LEMMA FromFacts ==
  ASSUME NEW i \in 1 .. Prefixes, NEW f
  PROVE  /\ f \in address.env[i] => Keys!From(i, f) = <<"env", i>>
         /\ f \notin address.env[i] /\ Keys!From(i, f)[1] # "none" =>
              Keys!From(i, f) \in {<<"project", 0>>, <<"user", 0>>}
<1>1. i # 0
  BY PrefixesAreCounted
<1> QED
  BY <1>1 DEF Keys!From, Keys!OwnPrefix, Keys!ConfigSays

LEMMA TakenStaysHome == provider = Keys!Taken => Keys!KeyStaysHome
<1> SUFFICES ASSUME provider = Keys!Taken PROVE Keys!KeyStaysHome
  OBVIOUS
<1> DEFINE complete == {i \in 1 .. Prefixes : Keys!Complete(i)}
           usable == {i \in 1 .. Prefixes : Keys!Usable(i)}
           places == IF complete # {} THEN complete ELSE usable
           i == Keys!FirstOf(places)
<1>1. CASE complete \cup usable = {}
  BY <1>1 DEF Keys!Taken, Keys!Missing, Keys!KeyStaysHome
<1>2. CASE complete \cup usable # {}
  <2>1. provider = [url |-> Keys!From(i, "url"), model |-> Keys!From(i, "model"), key |-> i]
    BY <1>2 DEF Keys!Taken
  <2>2. i \in places
    <3>1. places \subseteq Nat /\ places # {}
      BY <1>2, PrefixesAreCounted
    <3> QED
      BY <3>1, SomeIsFirst
  <2> HIDE DEF i
  <2>3. /\ provider.key = i /\ provider.url = Keys!From(i, "url")
        /\ provider.model = Keys!From(i, "model")
    BY <2>1
  <2>4. i \in 1 .. Prefixes
    BY <2>2
  <2>5. CASE complete # {}
    <3>1. Keys!Complete(i)
      BY <2>2, <2>5
    <3>2. "url" \in address.env[i] /\ "model" \in address.env[i]
      BY <3>1 DEF Keys!Complete, Keys!Fields
    <3>3. provider.url = <<"env", i>> /\ provider.model = <<"env", i>>
      BY <2>3, <2>4, <3>2, FromFacts
    <3> QED
      BY <2>3, <3>1, <3>3 DEF Keys!KeyStaysHome
  <2>6. CASE complete = {}
    <3>1. Keys!Usable(i)
      BY <2>2, <2>6
    <3>2. Keys!From(i, "url")[1] # "none" /\ Keys!From(i, "model")[1] # "none"
      BY <3>1 DEF Keys!Usable, Keys!Fields
    <3>3. /\ provider.url \in {<<"env", i>>, <<"project", 0>>, <<"user", 0>>}
          /\ provider.model \in {<<"env", i>>, <<"project", 0>>, <<"user", 0>>}
      BY <2>3, <2>4, <3>2, FromFacts
    <3>4. ~\E j \in 1 .. Prefixes : Keys!Complete(j)
      BY <2>6
    <3> QED
      BY <2>3, <3>3, <3>4 DEF Keys!KeyStaysHome
  <2> QED
    BY <2>5, <2>6
<1> QED
  BY <1>1, <1>2

LEMMA NextKeepsKeys ==
  ASSUME KeysInv, [Keys!Next]_keyVars
  PROVE  KeysInv'
<1>1. CASE UNCHANGED keyVars
  BY <1>1 DEF keyVars, KeysInv, Keys!HighestLayerWins, Keys!KeyStaysHome, Keys!Counts,
              Keys!Complete
<1>2. CASE Keys!Resolve
  <2>1. UNCHANGED <<key, layers, address, provider>>
    BY <1>2 DEF Keys!Resolve
  <2>2. Keys!KeyStaysHome'
    BY <2>1 DEF KeysInv, Keys!KeyStaysHome, Keys!Complete
  <2>3. ASSUME effective' = [layer |-> "refused", named |-> "env"]
        PROVE  Keys!HighestLayerWins'
    <3>1. effective'.layer \notin Keys!Names \cup {"default"}
      BY <2>3, LayersInOrder
    <3> QED
      BY <3>1 DEF Keys!HighestLayerWins
  <2>4. ASSUME effective' = Keys!Resolved PROVE Keys!HighestLayerWins'
    <3> DEFINE saying == {i \in DOMAIN Keys!Layers : Keys!Counts(Keys!Layers[i])}
    <3>1. \A n : Keys!Counts(n)' <=> Keys!Counts(n)
      BY <2>1 DEF Keys!Counts
    <3>2. saying' = saying
      BY <3>1
    <3>3. /\ effective'.layer =
               IF saying = {} THEN "default" ELSE Keys!Layers[Keys!FirstOf(saying)]
          /\ effective'.named = effective'.layer
      BY <2>4, ResolvedIsHighest DEF KeysInv
    <3> QED
      BY <3>2, <3>3 DEF Keys!HighestLayerWins
  <2>5. Keys!HighestLayerWins'
    BY <1>2, <2>3, <2>4 DEF Keys!Resolve
  <2> QED
    BY <2>1, <2>2, <2>5 DEF KeysInv
<1>3. CASE Keys!ResolveProvider
  <2>1. UNCHANGED <<key, layers>> /\ effective' = Keys!Default /\ key = "text"
        /\ \A n \in Keys!Names : layers[n] = "unset"
    BY <1>3 DEF Keys!ResolveProvider
  <2>2. Keys!HighestLayerWins'
    <3>1. {i \in DOMAIN Keys!Layers : Keys!Counts(Keys!Layers[i])'} = {}
      BY <2>1, LayersInOrder DEF Keys!Names, Keys!Counts
    <3>2. effective'.layer = "default" /\ effective'.named = "default"
      BY <2>1 DEF Keys!Default
    <3> QED
      BY <3>1, <3>2 DEF Keys!HighestLayerWins
  <2>3. Keys!KeyStaysHome'
    <3>1. provider' = Keys!Taken'
      BY <1>3 DEF Keys!ResolveProvider
    <3>2. (provider = Keys!Taken)' => Keys!KeyStaysHome'
      BY TakenStaysHome, PTL
    <3> QED
      BY <3>1, <3>2
  <2> QED
    BY <2>1, <2>2, <2>3 DEF KeysInv
<1> QED
  BY <1>1, <1>2, <1>3 DEF Keys!Next

-----------------------------------------------------------------------------
(* The child agents *)

AgentFields == {"dir", "process", "role", "handoff", "mailbox", "consumed", "wrote", "recalled",
                "again", "orphan"}
ParentFields == {"at", "agent", "consumed"}

Live == Polls!LiveAgents
Starting(p) == Polls!At(p, "prepared") \/ Polls!At(p, "spawned")
Collecting(p) ==
  Polls!At(p, "settled") \/ Polls!At(p, "recalled") \/ Polls!At(p, "cleaned")

\* The session that holds the lock is the only one that starts a child, which
\* has no pid file yet, and there is room for it; a child that runs and is no
\* orphan is registered, or it is the one that is being started.
StartsInv ==
  /\ DOMAIN parents = Parents /\ \A p \in Parents : DOMAIN parents[p] = ParentFields
  /\ DOMAIN agents = Agents /\ \A a \in Agents : DOMAIN agents[a] = AgentFields
  /\ IsFiniteSet(Live) /\ Cardinality(Live) <= MaxConcurrent
  /\ \A p \in Parents :
       /\ Polls!At(p, "locked") \/ Starting(p) => lock = p
       /\ Starting(p) => /\ Polls!AgentOf(p) \in Agents
                         /\ agents[Polls!AgentOf(p)].dir = "meta"
                         /\ Cardinality(Live) < MaxConcurrent
  /\ \A a \in Agents : Polls!Up(a) /\ ~agents[a].orphan =>
       \/ agents[a].dir = "pid"
       \/ \E p \in Parents : Polls!At(p, "spawned") /\ Polls!AgentOf(p) = a

\* Only a child that is over is asked for its result, and it never runs again:
\* its mailbox does not change between the recall and what is noted of it.
ResultsInv ==
  /\ \A a \in Agents :
       /\ agents[a].mailbox \in {"empty", "full", "cleaned"}
       /\ agents[a].mailbox = "empty" => ~agents[a].wrote
       /\ agents[a].consumed => agents[a].dir = "pid" /\ ~Polls!Up(a)
       /\ agents[a].wrote /\ (agents[a].consumed \/ agents[a].mailbox = "cleaned")
            => agents[a].recalled
  /\ \A p \in Parents : Collecting(p) =>
       /\ Polls!AgentOf(p) \in Agents
       /\ agents[Polls!AgentOf(p)].dir = "pid" /\ ~Polls!Up(Polls!AgentOf(p))
       /\ ~Polls!At(p, "settled") /\ agents[Polls!AgentOf(p)].wrote
            => agents[Polls!AgentOf(p)].recalled

PollsInv == StartsInv /\ ResultsInv

LEMMA NoAgentFacts ==
  /\ DOMAIN Polls!NoAgent = AgentFields
  /\ Polls!NoAgent.dir = "none" /\ Polls!NoAgent.process = "none"
  /\ Polls!NoAgent.mailbox = "empty"
  /\ ~Polls!NoAgent.consumed /\ ~Polls!NoAgent.wrote
BY DEF Polls!NoAgent, AgentFields

LEMMA IdleParent ==
  /\ DOMAIN Polls!Idle = ParentFields
  /\ Polls!Idle.at = "idle"
BY DEF Polls!Idle, ParentFields

\* Cardinality as the instance means it is that of the sets here.
LEMMA SameCardinality == \A S : Polls!Cardinality(S) = Cardinality(S)
BY DEF Polls!Cardinality, Cardinality

LEMMA OneMore ==
  ASSUME NEW S, IsFiniteSet(S), NEW x
  PROVE  /\ IsFiniteSet(S \cup {x})
         /\ Cardinality(S \cup {x}) <= Cardinality(S) + 1
         /\ Cardinality(S) \in Nat /\ Cardinality(S \cup {x}) \in Nat
BY FS_AddElement, FS_CardinalityType

LEMMA InitPolls == Polls!Init => PollsInv
<1> SUFFICES ASSUME Polls!Init PROVE PollsInv
  OBVIOUS
<1>1. /\ DOMAIN agents = Agents /\ \A a \in Agents : agents[a] = Polls!NoAgent
      /\ DOMAIN parents = Parents /\ \A p \in Parents : parents[p] = Polls!Idle
  BY DEF Polls!Init
<1>2. Live = {}
  BY <1>1, NoAgentFacts DEF Live, Polls!LiveAgents
<1>3. IsFiniteSet(Live) /\ Cardinality(Live) = 0
  BY <1>2, FS_EmptySet
<1>4. StartsInv
  BY <1>1, <1>3, NoAgentFacts, IdleParent, CapsAreCounted
     DEF StartsInv, Starting, Polls!At, Polls!Up
<1>5. ResultsInv
  BY <1>1, NoAgentFacts, IdleParent DEF ResultsInv, Collecting, Polls!At
<1> QED
  BY <1>4, <1>5 DEF PollsInv

LEMMA FewAreUp == PollsInv => Polls!CapIsKept /\ Polls!ResultIsRecalled
<1> SUFFICES ASSUME PollsInv PROVE Polls!CapIsKept /\ Polls!ResultIsRecalled
  OBVIOUS
<1> DEFINE U == {a \in Agents : Polls!Up(a) /\ ~agents[a].orphan}
<1>1. IsFiniteSet(Live) /\ Cardinality(Live) <= MaxConcurrent /\ MaxConcurrent \in Nat
      /\ Cardinality(Live) \in Nat
  BY CapsAreCounted, FS_CardinalityType DEF PollsInv, StartsInv
<1>2. Cardinality(U) <= MaxConcurrent
  <2>1. CASE \E p \in Parents : Starting(p)
    <3>1. PICK p \in Parents : Starting(p)
      BY <2>1
    <3>2. /\ Polls!AgentOf(p) \in Agents /\ Cardinality(Live) < MaxConcurrent
          /\ \A r \in Parents : Starting(r) => r = p
      BY <3>1 DEF PollsInv, StartsInv
    <3>3. U \subseteq Live \cup {Polls!AgentOf(p)}
      BY <3>2 DEF PollsInv, StartsInv, Starting, Live, Polls!LiveAgents, Polls!Up
    <3>4. /\ IsFiniteSet(Live \cup {Polls!AgentOf(p)})
          /\ Cardinality(Live \cup {Polls!AgentOf(p)}) <= Cardinality(Live) + 1
      BY <1>1, OneMore
    <3>5. Cardinality(U) <= Cardinality(Live \cup {Polls!AgentOf(p)})
          /\ Cardinality(U) \in Nat /\ Cardinality(Live \cup {Polls!AgentOf(p)}) \in Nat
      BY <3>3, <3>4, FS_Subset, FS_CardinalityType
    <3> HIDE DEF U
    <3> QED
      BY <1>1, <3>2, <3>4, <3>5
  <2>2. CASE ~\E p \in Parents : Starting(p)
    <3>1. U \subseteq Live
      BY <2>2 DEF PollsInv, StartsInv, Starting, Live, Polls!LiveAgents, Polls!Up
    <3>2. Cardinality(U) <= Cardinality(Live) /\ Cardinality(U) \in Nat
      BY <3>1, <1>1, FS_Subset, FS_CardinalityType
    <3> HIDE DEF U
    <3> QED
      BY <1>1, <3>2
  <2> QED
    BY <2>1, <2>2
<1>3. Polls!CapIsKept
  BY <1>2, SameCardinality DEF Polls!CapIsKept
<1> QED
  BY <1>3 DEF PollsInv, ResultsInv, Polls!ResultIsRecalled

LEMMA LiveShrinks ==
  ASSUME IsFiniteSet(Live), NEW S, S \subseteq Live
  PROVE  /\ IsFiniteSet(S) /\ Cardinality(S) <= Cardinality(Live)
         /\ Cardinality(S) \in Nat /\ Cardinality(Live) \in Nat
BY FS_Subset, FS_CardinalityType

\* A step of one session that changes no child.
LEMMA ParentKeeps ==
  ASSUME PollsInv, NEW p \in Parents, NEW r, parents' = [parents EXCEPT ![p] = r],
         DOMAIN r = ParentFields, agents' = agents,
         r.at \in {"prepared", "spawned"} =>
           /\ r.agent \in Agents /\ agents[r.agent].dir = "meta"
           /\ Cardinality(Live) < MaxConcurrent,
         r.at \in {"settled", "recalled", "cleaned"} =>
           /\ r.agent \in Agents /\ agents[r.agent].dir = "pid" /\ ~Polls!Up(r.agent)
           /\ r.at # "settled" /\ agents[r.agent].wrote => agents[r.agent].recalled,
         \A x \in Parents \ {p} : Polls!At(x, "locked") \/ Starting(x) => lock' = x,
         r.at \in {"locked", "prepared", "spawned"} => lock' = p,
         Polls!At(p, "spawned") =>
           \/ r.at = "spawned" /\ r.agent = Polls!AgentOf(p)
           \/ agents[Polls!AgentOf(p)].orphan \/ ~Polls!Up(Polls!AgentOf(p))
  PROVE  PollsInv'
<1>1. /\ parents'[p] = r /\ DOMAIN parents' = Parents
      /\ \A x \in Parents : x # p => parents'[x] = parents[x]
  BY DEF PollsInv, StartsInv
<1>2. Live' = Live /\ \A a : Polls!Up(a)' = Polls!Up(a)
  BY DEF Live, Polls!LiveAgents, Polls!Up
<1>3. StartsInv'
  BY <1>1, <1>2 DEF PollsInv, StartsInv, Starting, Polls!At, Polls!AgentOf
<1>4. ResultsInv'
  BY <1>1, <1>2 DEF PollsInv, ResultsInv, Collecting, Polls!At, Polls!AgentOf
<1> QED
  BY <1>3, <1>4 DEF PollsInv

\* A step that changes one child and none of what starts it: the child runs or
\* it does not, and it never runs again.
LEMMA AgentKeeps ==
  ASSUME PollsInv, NEW a \in Agents, NEW q, agents' = [agents EXCEPT ![a] = q],
         DOMAIN q = AgentFields, q.dir = agents[a].dir,
         q.process = "up" => Polls!Up(a),
         q.orphan = agents[a].orphan,
         q.mailbox \in {"empty", "full", "cleaned"},
         q.mailbox = "empty" => ~q.wrote,
         q.consumed => q.dir = "pid" /\ q.process # "up",
         q.wrote /\ (q.consumed \/ q.mailbox = "cleaned") => q.recalled,
         Polls!Up(a) \/ q.wrote = agents[a].wrote,
         Polls!Up(a) \/ agents[a].recalled => q.recalled \/ Polls!Up(a),
         parents' = parents, lock' = lock
  PROVE  PollsInv'
<1>1. /\ agents'[a] = q /\ DOMAIN agents' = Agents
      /\ \A x \in Agents : x # a => agents'[x] = agents[x]
  BY DEF PollsInv, StartsInv
<1>2. Live' \subseteq Live
  BY <1>1 DEF Live, Polls!LiveAgents, Polls!Up
<1>3. /\ IsFiniteSet(Live') /\ Cardinality(Live') <= Cardinality(Live)
      /\ Cardinality(Live') \in Nat /\ Cardinality(Live) \in Nat
  BY <1>2, LiveShrinks DEF PollsInv, StartsInv
<1>4. \A x \in Agents : /\ DOMAIN agents'[x] = AgentFields
                        /\ agents'[x].dir = agents[x].dir
                        /\ Polls!Up(x)' => Polls!Up(x)
                        /\ agents'[x].orphan = agents[x].orphan
  BY <1>1 DEF PollsInv, StartsInv, Polls!Up
<1>5. StartsInv'
  BY <1>1, <1>3, <1>4, CapsAreCounted
     DEF PollsInv, StartsInv, Starting, Polls!At, Polls!AgentOf
<1>6. \A x \in Agents : x # a => (Polls!Up(x)' <=> Polls!Up(x))
  BY <1>1 DEF Polls!Up
<1>7. Polls!Up(a)' <=> q.process = "up"
  BY <1>1 DEF Polls!Up
<1>8. ResultsInv'
  BY <1>1, <1>6, <1>7 DEF PollsInv, ResultsInv, Collecting, Polls!At, Polls!AgentOf
<1> QED
  BY <1>5, <1>8 DEF PollsInv

LEMMA ChildKeeps ==
  ASSUME PollsInv, NEW a \in Agents, Polls!Child(a)
  PROVE  PollsInv'
<1>1. ASSUME NEW document \in Polls!Documents, Polls!Submit(a, document) PROVE PollsInv'
  <2> DEFINE q == [agents[a] EXCEPT !.handoff = document]
  <2>1. agents' = [agents EXCEPT ![a] = q] /\ parents' = parents /\ lock' = lock
    BY <1>1 DEF Polls!Submit
  <2>2. /\ DOMAIN q = AgentFields /\ q.dir = agents[a].dir /\ q.process = agents[a].process
        /\ q.orphan = agents[a].orphan /\ q.mailbox = agents[a].mailbox
        /\ q.consumed = agents[a].consumed /\ q.wrote = agents[a].wrote
        /\ q.recalled = agents[a].recalled
    BY DEF PollsInv, StartsInv, AgentFields
  <2>3. Polls!Up(a)
    BY <1>1 DEF Polls!Submit
  <2> HIDE DEF q
  <2> QED
    BY <2>1, <2>2, <2>3, AgentKeeps DEF PollsInv, ResultsInv, Polls!Up
<1>2. CASE Polls!Remember(a)
  <2> DEFINE q == [agents[a] EXCEPT !.mailbox = "full", !.wrote = TRUE]
  <2>1. agents' = [agents EXCEPT ![a] = q] /\ parents' = parents /\ lock' = lock
    BY <1>2, Zenon DEF Polls!Remember
  <2>2. /\ DOMAIN q = AgentFields /\ q.dir = agents[a].dir /\ q.process = agents[a].process
        /\ q.orphan = agents[a].orphan /\ q.mailbox = "full"
        /\ q.consumed = agents[a].consumed /\ q.recalled = agents[a].recalled
    BY DEF PollsInv, StartsInv, AgentFields
  <2>3. Polls!Up(a)
    BY <1>2 DEF Polls!Remember
  <2> HIDE DEF q
  <2> QED
    BY <2>1, <2>2, <2>3, AgentKeeps DEF PollsInv, ResultsInv, Polls!Up
<1>3. CASE Polls!Exit(a)
  <2> DEFINE q == [agents[a] EXCEPT !.process = "over"]
  <2>1. agents' = [agents EXCEPT ![a] = q] /\ parents' = parents /\ lock' = lock
    BY <1>3 DEF Polls!Exit
  <2>2. /\ DOMAIN q = AgentFields /\ q.dir = agents[a].dir /\ q.process = "over"
        /\ q.orphan = agents[a].orphan /\ q.mailbox = agents[a].mailbox
        /\ q.consumed = agents[a].consumed /\ q.wrote = agents[a].wrote
        /\ q.recalled = agents[a].recalled
    BY DEF PollsInv, StartsInv, AgentFields
  <2>3. Polls!Up(a)
    BY <1>3 DEF Polls!Exit
  <2> HIDE DEF q
  <2> QED
    BY <2>1, <2>2, <2>3, AgentKeeps DEF PollsInv, ResultsInv, Polls!Up
<1> QED
  BY <1>1, <1>2, <1>3 DEF Polls!Child

\* The lock of a session that returns goes back; the other sessions were not
\* starting a child if it had it.
LEMMA Unlocking ==
  ASSUME PollsInv, NEW p \in Parents, Polls!Unlocks(p)
  PROVE  \A x \in Parents \ {p} : Polls!At(x, "locked") \/ Starting(x) => lock' = x
BY DEF PollsInv, StartsInv, Polls!Unlocks

\* A session that returns, and changes no child.
LEMMA ReturnKeeps ==
  ASSUME PollsInv, NEW p \in Parents, Polls!Returns(p), agents' = agents,
         \/ Polls!Unlocks(p)
         \/ lock' = lock /\ ~Polls!At(p, "locked") /\ ~Starting(p),
         ~Polls!At(p, "spawned")
  PROVE  PollsInv'
<1>1. parents' = [parents EXCEPT ![p] = Polls!Idle]
  BY DEF Polls!Returns
<1>2. \A x \in Parents \ {p} : Polls!At(x, "locked") \/ Starting(x) => lock' = x
  BY Unlocking DEF PollsInv, StartsInv
<1> QED
  BY <1>1, <1>2, IdleParent, ParentKeeps

LEMMA LockKeeps ==
  ASSUME PollsInv, NEW p \in Parents, Polls!Lock(p)
  PROVE  PollsInv'
<1> DEFINE r == [parents[p] EXCEPT !.at = "locked"]
<1>1. parents' = [parents EXCEPT ![p] = r] /\ agents' = agents /\ lock' = p
  BY DEF Polls!Lock, Polls!Becomes
<1>2. DOMAIN r = ParentFields /\ r.at = "locked"
  BY DEF PollsInv, StartsInv, ParentFields
<1>3. \A x \in Parents : ~Polls!At(x, "locked") /\ ~Starting(x)
  BY NobodyIsNobody DEF PollsInv, StartsInv, Polls!Lock
<1> HIDE DEF r
<1> QED
  BY <1>1, <1>2, <1>3, ParentKeeps DEF Starting

\* What a start does to the child that it is about, and to its session.
LEMMA StartKeeps ==
  ASSUME PollsInv, NEW p \in Parents, NEW r, parents' = [parents EXCEPT ![p] = r],
         DOMAIN r = ParentFields,
         NEW a \in Agents, NEW q, agents' = [agents EXCEPT ![a] = q],
         DOMAIN q = AgentFields,
         q.mailbox = agents[a].mailbox, q.wrote = agents[a].wrote,
         q.recalled = agents[a].recalled, q.consumed = agents[a].consumed,
         agents[a].dir # "pid", lock = p,
         lock' = p \/ lock' = Nobody,
         r.at \in {"idle", "prepared", "spawned"},
         r.at # "idle" => lock' = p /\ r.agent = a /\ q.dir = "meta",
         Cardinality(Live) < MaxConcurrent,
         q.process = "up" /\ ~q.orphan => q.dir = "pid" \/ r.at = "spawned",
         Polls!At(p, "spawned") => Polls!AgentOf(p) = a
  PROVE  PollsInv'
<1>1. /\ agents'[a] = q /\ DOMAIN agents' = Agents
      /\ \A x \in Agents : x # a => agents'[x] = agents[x]
      /\ parents'[p] = r /\ DOMAIN parents' = Parents
      /\ \A x \in Parents : x # p => parents'[x] = parents[x]
  BY DEF PollsInv, StartsInv
<1>2. \A x \in Parents : x # p => ~Polls!At(x, "locked") /\ ~Starting(x)
  BY DEF PollsInv, StartsInv
<1>3. \A x \in Agents : x # a => (Polls!Up(x)' <=> Polls!Up(x))
  BY <1>1 DEF Polls!Up
<1>4. Live' \subseteq Live \cup {a} /\ (q.dir # "pid" => Live' \subseteq Live)
  BY <1>1 DEF Live, Polls!LiveAgents, Polls!Up
<1>5. IsFiniteSet(Live') /\ Cardinality(Live') <= MaxConcurrent
      /\ (q.dir # "pid" => Cardinality(Live') < MaxConcurrent)
  <2>1. /\ IsFiniteSet(Live \cup {a}) /\ Cardinality(Live \cup {a}) <= Cardinality(Live) + 1
        /\ Cardinality(Live) \in Nat /\ Cardinality(Live \cup {a}) \in Nat
        /\ IsFiniteSet(Live)
    BY OneMore DEF PollsInv, StartsInv
  <2>2. IsFiniteSet(Live') /\ Cardinality(Live') <= Cardinality(Live \cup {a})
        /\ Cardinality(Live') \in Nat
    BY <1>4, <2>1, FS_Subset, FS_CardinalityType
  <2>3. q.dir # "pid" => Cardinality(Live') <= Cardinality(Live)
    BY <1>4, <2>1, FS_Subset
  <2> QED
    BY <2>1, <2>2, <2>3, CapsAreCounted
<1>6. StartsInv'
  <2>1. \A x \in Parents : Polls!At(x, "locked")' \/ Starting(x)' =>
          x = p /\ r.at # "idle" /\ r.at \in {"prepared", "spawned"}
    BY <1>1, <1>2 DEF Starting, Polls!At
  <2>2. \A x \in Parents :
         /\ Polls!At(x, "locked")' \/ Starting(x)' => lock' = x
         /\ Starting(x)' => /\ Polls!AgentOf(x)' \in Agents
                            /\ agents'[Polls!AgentOf(x)'].dir = "meta"
                            /\ Cardinality(Live') < MaxConcurrent
    BY <1>1, <1>5, <2>1 DEF Polls!AgentOf
  <2>3. \A x \in Agents : Polls!Up(x)' /\ ~agents'[x].orphan =>
         \/ agents'[x].dir = "pid"
         \/ \E y \in Parents : Polls!At(y, "spawned")' /\ Polls!AgentOf(y)' = x
    <3>1. CASE r.at = "spawned"
      <4>1. Polls!At(p, "spawned")' /\ Polls!AgentOf(p)' = a
        BY <1>1, <3>1 DEF Polls!At, Polls!AgentOf
      <4> QED
        BY <1>1, <1>2, <1>3, <4>1 DEF PollsInv, StartsInv, Starting, Polls!At, Polls!AgentOf
    <3>2. CASE r.at # "spawned"
      BY <1>1, <1>2, <1>3, <3>2
         DEF PollsInv, StartsInv, Starting, Polls!Up, Polls!At, Polls!AgentOf
    <3> QED
      BY <3>1, <3>2
  <2> QED
    BY <1>1, <1>5, <2>2, <2>3 DEF PollsInv, StartsInv
<1>7. ResultsInv'
  <2>1. \A x \in Parents : Collecting(x)' => x # p /\ Collecting(x) /\ Polls!AgentOf(x) # a
    BY <1>1 DEF Collecting, Polls!At, Polls!AgentOf, PollsInv, ResultsInv
  <2> QED
    BY <1>1, <1>3, <2>1 DEF PollsInv, ResultsInv, Collecting, Polls!At, Polls!AgentOf
<1> QED
  BY <1>6, <1>7 DEF PollsInv

LEMMA PrepareKeeps ==
  ASSUME PollsInv, NEW p \in Parents, NEW a \in Agents, Polls!Prepare(p, a)
  PROVE  PollsInv'
<1>1. /\ Polls!At(p, "locked") /\ agents[a].dir = "none"
      /\ Cardinality(Live) < MaxConcurrent /\ lock = p /\ ~Polls!At(p, "spawned")
  <2>1. Polls!At(p, "locked") /\ agents[a].dir = "none"
        /\ Polls!Cardinality(Polls!LiveAgents) < MaxConcurrent
    BY DEF Polls!Prepare
  <2> QED
    BY <2>1, SameCardinality DEF PollsInv, StartsInv, Live, Polls!At
<1>2. agents[a].process = "up" => agents[a].orphan
  BY <1>1 DEF PollsInv, StartsInv, Polls!Up, Starting
<1>3. ASSUME NEW given \in Polls!Roles,
             agents' = [agents EXCEPT ![a].dir = "meta", ![a].role = given],
             parents' = [parents EXCEPT
                           ![p] = [Polls!Idle EXCEPT !.at = "prepared", !.agent = a]],
             lock' = lock
      PROVE  PollsInv'
  <2> DEFINE q == [agents[a] EXCEPT !.dir = "meta", !.role = given]
             r == [Polls!Idle EXCEPT !.at = "prepared", !.agent = a]
  <2>1. agents' = [agents EXCEPT ![a] = q] /\ parents' = [parents EXCEPT ![p] = r]
    BY <1>3, Zenon
  <2>2. /\ DOMAIN q = AgentFields /\ q.dir = "meta" /\ q.process = agents[a].process
        /\ q.orphan = agents[a].orphan /\ q.mailbox = agents[a].mailbox
        /\ q.consumed = agents[a].consumed /\ q.wrote = agents[a].wrote
        /\ q.recalled = agents[a].recalled
    BY DEF PollsInv, StartsInv, AgentFields
  <2>3. DOMAIN r = ParentFields /\ r.at = "prepared" /\ r.agent = a
    BY IdleParent DEF ParentFields
  <2>4. lock' = p
    BY <1>1, <1>3
  <2> HIDE DEF q, r
  <2>5. /\ q.process = "up" /\ ~q.orphan => q.dir = "pid" \/ r.at = "spawned"
        /\ r.at \in {"idle", "prepared", "spawned"}
        /\ r.at # "idle" => lock' = p /\ r.agent = a /\ q.dir = "meta"
        /\ agents[a].dir # "pid" /\ (lock' = p \/ lock' = Nobody)
        /\ Polls!At(p, "spawned") => Polls!AgentOf(p) = a
    BY <1>1, <1>2, <2>2, <2>3, <2>4
  <2> QED
    BY <1>1, <2>1, <2>2, <2>3, <2>5, StartKeeps, ZenonT(60)
<1>4. ASSUME agents' = [agents EXCEPT ![a].dir = "made"], Polls!Returns(p), Polls!Unlocks(p)
      PROVE  PollsInv'
  <2> DEFINE q == [agents[a] EXCEPT !.dir = "made"]
  <2>1. agents' = [agents EXCEPT ![a] = q] /\ parents' = [parents EXCEPT ![p] = Polls!Idle]
        /\ lock' = Nobody
    BY <1>1, <1>4 DEF Polls!Returns, Polls!Unlocks
  <2>2. /\ DOMAIN q = AgentFields /\ q.dir = "made" /\ q.process = agents[a].process
        /\ q.orphan = agents[a].orphan /\ q.mailbox = agents[a].mailbox
        /\ q.consumed = agents[a].consumed /\ q.wrote = agents[a].wrote
        /\ q.recalled = agents[a].recalled
    BY DEF PollsInv, StartsInv, AgentFields
  <2> HIDE DEF q
  <2> QED
    BY <1>1, <1>2, <2>1, <2>2, IdleParent, StartKeeps
<1> QED
  BY <1>3, <1>4 DEF Polls!Prepare

LEMMA SpawnKeeps ==
  ASSUME PollsInv, NEW p \in Parents, Polls!Spawn(p)
  PROVE  PollsInv'
<1> DEFINE a == Polls!AgentOf(p)
<1>1. /\ a \in Agents /\ agents[a].dir = "meta" /\ lock = p
      /\ Polls!At(p, "prepared") /\ ~Polls!At(p, "spawned")
      /\ Cardinality(Live) < MaxConcurrent
  BY DEF PollsInv, StartsInv, Starting, Polls!Spawn, Polls!At
<1>2. ASSUME agents' = [agents EXCEPT ![a].process = "up"], Polls!Becomes(p, "spawned"),
             lock' = lock
      PROVE  PollsInv'
  <2> DEFINE q == [agents[a] EXCEPT !.process = "up"]
             r == [parents[p] EXCEPT !.at = "spawned"]
  <2>1. agents' = [agents EXCEPT ![a] = q] /\ parents' = [parents EXCEPT ![p] = r]
    BY <1>2 DEF Polls!Becomes
  <2>2. /\ DOMAIN q = AgentFields /\ q.dir = agents[a].dir
        /\ q.orphan = agents[a].orphan /\ q.mailbox = agents[a].mailbox
        /\ q.consumed = agents[a].consumed /\ q.wrote = agents[a].wrote
        /\ q.recalled = agents[a].recalled
    BY <1>1 DEF PollsInv, StartsInv, AgentFields
  <2>3. DOMAIN r = ParentFields /\ r.at = "spawned" /\ r.agent = a
    BY DEF PollsInv, StartsInv, ParentFields, Polls!AgentOf
  <2>4. lock' = p
    BY <1>1, <1>2
  <2> HIDE DEF q, r
  <2>5. /\ q.process = "up" /\ ~q.orphan => q.dir = "pid" \/ r.at = "spawned"
        /\ r.at \in {"idle", "prepared", "spawned"}
        /\ r.at # "idle" => lock' = p /\ r.agent = a /\ q.dir = "meta"
        /\ agents[a].dir # "pid" /\ (lock' = p \/ lock' = Nobody)
        /\ Polls!At(p, "spawned") => Polls!AgentOf(p) = a
    BY <1>1, <2>2, <2>3, <2>4
  <2> HIDE DEF a
  <2> QED
    BY <1>1, <2>1, <2>2, <2>3, <2>5, StartKeeps, ZenonT(60)
<1>3. ASSUME agents' = agents, Polls!Returns(p), Polls!Unlocks(p) PROVE PollsInv'
  BY <1>1, <1>3, ReturnKeeps
<1> QED
  BY <1>2, <1>3 DEF Polls!Spawn

\* A session that was to register its child returns.
LEMMA SpawnedKeeps ==
  ASSUME PollsInv, NEW p \in Parents, Polls!At(p, "spawned"), Polls!Returns(p),
         Polls!Unlocks(p),
         NEW q, agents' = [agents EXCEPT ![Polls!AgentOf(p)] = q],
         DOMAIN q = AgentFields,
         q.mailbox = agents[Polls!AgentOf(p)].mailbox,
         q.wrote = agents[Polls!AgentOf(p)].wrote,
         q.recalled = agents[Polls!AgentOf(p)].recalled,
         q.consumed = agents[Polls!AgentOf(p)].consumed,
         q.process = "up" => q.dir = "pid" \/ q.orphan
  PROVE  PollsInv'
<1> DEFINE a == Polls!AgentOf(p)
<1>1. /\ a \in Agents /\ agents[a].dir = "meta" /\ lock = p
      /\ Cardinality(Live) < MaxConcurrent
  BY DEF PollsInv, StartsInv, Starting
<1>2. parents' = [parents EXCEPT ![p] = Polls!Idle] /\ lock' = Nobody
  BY <1>1 DEF Polls!Returns, Polls!Unlocks
<1> HIDE DEF a
<1>3. agents' = [agents EXCEPT ![a] = q] /\ a = Polls!AgentOf(p)
  BY DEF a
<1> QED
  BY <1>1, <1>2, <1>3, IdleParent, StartKeeps

LEMMA RegisterKeeps ==
  ASSUME PollsInv, NEW p \in Parents, Polls!Register(p)
  PROVE  PollsInv'
<1> DEFINE a == Polls!AgentOf(p)
<1>1. a \in Agents /\ Polls!At(p, "spawned") /\ Polls!Returns(p) /\ Polls!Unlocks(p)
  BY DEF PollsInv, StartsInv, Starting, Polls!Register
<1>2. ASSUME agents' = [agents EXCEPT ![a].dir = "pid"] PROVE PollsInv'
  <2> DEFINE q == [agents[a] EXCEPT !.dir = "pid"]
  <2>1. agents' = [agents EXCEPT ![a] = q]
    BY <1>2
  <2>2. /\ DOMAIN q = AgentFields /\ q.dir = "pid" /\ q.mailbox = agents[a].mailbox
        /\ q.consumed = agents[a].consumed /\ q.wrote = agents[a].wrote
        /\ q.recalled = agents[a].recalled
    BY <1>1 DEF PollsInv, StartsInv, AgentFields
  <2> HIDE DEF q
  <2> QED
    BY <1>1, <2>1, <2>2, SpawnedKeeps
<1>3. ASSUME agents' = [agents EXCEPT ![a].process = "over"] PROVE PollsInv'
  <2> DEFINE q == [agents[a] EXCEPT !.process = "over"]
  <2>1. agents' = [agents EXCEPT ![a] = q]
    BY <1>3
  <2>2. /\ DOMAIN q = AgentFields /\ q.process = "over" /\ q.mailbox = agents[a].mailbox
        /\ q.consumed = agents[a].consumed /\ q.wrote = agents[a].wrote
        /\ q.recalled = agents[a].recalled
    BY <1>1 DEF PollsInv, StartsInv, AgentFields
  <2> HIDE DEF q
  <2> QED
    BY <1>1, <2>1, <2>2, SpawnedKeeps
<1> QED
  BY <1>2, <1>3 DEF Polls!Register

LEMMA DeathKeeps ==
  ASSUME PollsInv, NEW p \in Parents, Polls!ParentDies(p)
  PROVE  PollsInv'
<1> DEFINE a == Polls!AgentOf(p)
<1>1. Polls!Returns(p) /\ Polls!Unlocks(p)
  BY DEF Polls!ParentDies
<1>2. CASE Polls!At(p, "spawned")
  <2> DEFINE q == [agents[a] EXCEPT !.orphan = TRUE]
  <2>1. agents' = [agents EXCEPT ![a] = q]
    BY <1>2 DEF Polls!ParentDies
  <2>2. a \in Agents
    BY <1>2 DEF PollsInv, StartsInv, Starting
  <2>3. /\ DOMAIN q = AgentFields /\ q.orphan = TRUE /\ q.mailbox = agents[a].mailbox
        /\ q.consumed = agents[a].consumed /\ q.wrote = agents[a].wrote
        /\ q.recalled = agents[a].recalled
    BY <2>2 DEF PollsInv, StartsInv, AgentFields
  <2> HIDE DEF q
  <2> QED
    BY <1>1, <1>2, <2>1, <2>3, SpawnedKeeps
<1>3. CASE ~Polls!At(p, "spawned")
  BY <1>1, <1>3, ReturnKeeps DEF Polls!ParentDies
<1> QED
  BY <1>2, <1>3

\* What a poll does to the child whose result it takes, and to its session.
LEMMA CollectKeeps ==
  ASSUME PollsInv, NEW p \in Parents, NEW r, parents' = [parents EXCEPT ![p] = r],
         DOMAIN r = ParentFields, lock' = lock,
         NEW a \in Agents, NEW q, agents' = [agents EXCEPT ![a] = q],
         DOMAIN q = AgentFields, q.dir = agents[a].dir, q.process = agents[a].process,
         q.orphan = agents[a].orphan, q.wrote = agents[a].wrote,
         q.mailbox \in {agents[a].mailbox, "cleaned"},
         agents[a].dir = "pid", ~Polls!Up(a),
         agents[a].recalled => q.recalled,
         q.mailbox = "cleaned" \/ q.consumed => (q.wrote => q.recalled),
         ~Polls!At(p, "locked"), ~Starting(p),
         r.at \in {"idle", "recalled", "cleaned"},
         r.at # "idle" => r.agent = a /\ (q.wrote => q.recalled)
  PROVE  PollsInv'
<1>1. /\ agents'[a] = q /\ DOMAIN agents' = Agents
      /\ \A x \in Agents : x # a => agents'[x] = agents[x]
      /\ parents'[p] = r /\ DOMAIN parents' = Parents
      /\ \A x \in Parents : x # p => parents'[x] = parents[x]
  BY DEF PollsInv, StartsInv
<1>2. \A x \in Agents : /\ DOMAIN agents'[x] = AgentFields
                        /\ agents'[x].dir = agents[x].dir
                        /\ agents'[x].orphan = agents[x].orphan
                        /\ agents'[x].wrote = agents[x].wrote
                        /\ Polls!Up(x)' <=> Polls!Up(x)
  BY <1>1 DEF PollsInv, StartsInv, Polls!Up
<1>3. Live' = Live
  BY <1>1 DEF Live, Polls!LiveAgents
<1>4. \A x \in Parents : ~(Polls!At(x, "locked")' \/ Starting(x)') \/
                        (x # p /\ Polls!AgentOf(x)' = Polls!AgentOf(x)
                           /\ (Polls!At(x, "locked") \/ Starting(x))
                           /\ (Starting(x)' => Starting(x)))
  BY <1>1 DEF Starting, Polls!At, Polls!AgentOf
<1>5. \A x \in Parents : Polls!At(x, "spawned") /\ x # p =>
                          Polls!At(x, "spawned")' /\ Polls!AgentOf(x)' = Polls!AgentOf(x)
  BY <1>1 DEF Polls!At, Polls!AgentOf
<1>6. StartsInv'
  BY <1>1, <1>2, <1>3, <1>4, <1>5 DEF PollsInv, StartsInv, Starting
<1>7. ResultsInv'
  <2>1. \A x \in Agents :
          /\ agents'[x].mailbox \in {"empty", "full", "cleaned"}
          /\ agents'[x].mailbox = "empty" => ~agents'[x].wrote
          /\ agents'[x].consumed => agents'[x].dir = "pid" /\ ~Polls!Up(x)'
          /\ agents'[x].wrote /\ (agents'[x].consumed \/ agents'[x].mailbox = "cleaned")
               => agents'[x].recalled
          /\ agents[x].recalled => agents'[x].recalled
    BY <1>1, <1>2 DEF PollsInv, ResultsInv
  <2>2. \A x \in Parents : x # p /\ Collecting(x)' =>
          /\ Collecting(x) /\ Polls!AgentOf(x)' = Polls!AgentOf(x)
          /\ Polls!At(x, "settled")' <=> Polls!At(x, "settled")
    BY <1>1 DEF Collecting, Polls!At, Polls!AgentOf
  <2>3. Collecting(p)' => Polls!AgentOf(p)' = a /\ (agents'[a].wrote => agents'[a].recalled)
    BY <1>1 DEF Collecting, Polls!At, Polls!AgentOf
  <2> QED
    BY <1>2, <2>1, <2>2, <2>3 DEF PollsInv, ResultsInv
<1> QED
  BY <1>6, <1>7 DEF PollsInv

LEMMA RecallKeeps ==
  ASSUME PollsInv, NEW p \in Parents, Polls!Recall(p)
  PROVE  PollsInv'
<1> DEFINE a == Polls!AgentOf(p)
           q == [agents[a] EXCEPT !.recalled = @ \/ agents[a].mailbox = "full",
                                  !.again = @ \/ agents[a].mailbox = "cleaned"]
           r == [parents[p] EXCEPT !.at = "recalled"]
<1>1. /\ Polls!At(p, "settled") /\ Collecting(p) /\ ~Polls!At(p, "locked") /\ ~Starting(p)
      /\ lock' = lock /\ a \in Agents /\ agents[a].dir = "pid" /\ ~Polls!Up(a)
      /\ ~Polls!At(p, "spawned")
  BY DEF Polls!Recall, PollsInv, ResultsInv, Collecting, Starting, Polls!At
<1>2. CASE Polls!Returns(p) /\ agents' = agents
  BY <1>1, <1>2, ReturnKeeps
<1>3. ASSUME agents' = [agents EXCEPT ![a].recalled = @ \/ agents[a].mailbox = "full",
                                      ![a].again = @ \/ agents[a].mailbox = "cleaned"],
             Polls!Becomes(p, "recalled")
      PROVE  PollsInv'
  <2>1. agents' = [agents EXCEPT ![a] = q]
    BY <1>3, Zenon
  <2>2. parents' = [parents EXCEPT ![p] = r]
    BY <1>3 DEF Polls!Becomes
  <2>3. /\ DOMAIN q = AgentFields /\ q.dir = agents[a].dir /\ q.process = agents[a].process
        /\ q.orphan = agents[a].orphan /\ q.mailbox = agents[a].mailbox
        /\ q.consumed = agents[a].consumed /\ q.wrote = agents[a].wrote
        /\ q.recalled = (agents[a].recalled \/ agents[a].mailbox = "full")
    BY <1>1 DEF PollsInv, StartsInv, AgentFields
  <2>4. DOMAIN r = ParentFields /\ r.at = "recalled" /\ r.agent = a
    BY DEF PollsInv, StartsInv, ParentFields, Polls!AgentOf
  <2> HIDE DEF q, r
  <2>5. q.wrote => q.recalled
    BY <1>1, <2>3 DEF PollsInv, ResultsInv
  <2> HIDE DEF a
  <2> QED
    BY <1>1, <2>1, <2>2, <2>3, <2>4, <2>5, CollectKeeps
<1> QED
  BY <1>2, <1>3 DEF Polls!Recall

LEMMA CleanKeeps ==
  ASSUME PollsInv, NEW p \in Parents, Polls!Clean(p)
  PROVE  PollsInv'
<1> DEFINE a == Polls!AgentOf(p)
           r == [parents[p] EXCEPT !.at = "cleaned"]
<1>1. /\ Polls!At(p, "recalled") /\ lock' = lock /\ a \in Agents
      /\ agents[a].dir = "pid" /\ ~Polls!Up(a)
      /\ agents[a].wrote => agents[a].recalled
      /\ ~Polls!At(p, "locked") /\ ~Starting(p)
  BY DEF Polls!Clean, PollsInv, ResultsInv, Collecting, Starting, Polls!At
<1>2. parents' = [parents EXCEPT ![p] = r]
  BY DEF Polls!Becomes, Polls!Clean
<1>3. DOMAIN r = ParentFields /\ r.at = "cleaned" /\ r.agent = a
  BY DEF PollsInv, StartsInv, ParentFields, Polls!AgentOf
<1> HIDE DEF r
<1>4. CASE agents' = agents
  <2>1. \A x \in Parents \ {p} : Polls!At(x, "locked") \/ Starting(x) => lock' = x
    BY <1>1 DEF PollsInv, StartsInv
  <2>2. ~Polls!At(p, "spawned")
    BY <1>1 DEF Polls!At
  <2> HIDE DEF a
  <2> QED
    BY <1>1, <1>2, <1>3, <1>4, <2>1, <2>2, ParentKeeps
<1>5. ASSUME agents' = [agents EXCEPT ![a].mailbox = "cleaned"] PROVE PollsInv'
  <2> DEFINE q == [agents[a] EXCEPT !.mailbox = "cleaned"]
  <2>1. agents' = [agents EXCEPT ![a] = q]
    BY <1>5
  <2>2. /\ DOMAIN q = AgentFields /\ q.dir = agents[a].dir /\ q.process = agents[a].process
        /\ q.orphan = agents[a].orphan /\ q.mailbox = "cleaned"
        /\ q.consumed = agents[a].consumed /\ q.wrote = agents[a].wrote
        /\ q.recalled = agents[a].recalled
    BY <1>1 DEF PollsInv, StartsInv, AgentFields
  <2> HIDE DEF q, a
  <2> QED
    BY <1>1, <1>2, <1>3, <2>1, <2>2, CollectKeeps
<1> QED
  BY <1>4, <1>5 DEF Polls!Clean

LEMMA MarkKeeps ==
  ASSUME PollsInv, NEW p \in Parents, Polls!MarkConsumed(p)
  PROVE  PollsInv'
<1> DEFINE a == Polls!AgentOf(p)
           q == [agents[a] EXCEPT !.consumed = TRUE]
<1>1. /\ lock' = lock /\ a \in Agents /\ agents[a].dir = "pid" /\ ~Polls!Up(a)
      /\ agents[a].wrote => agents[a].recalled
      /\ ~Polls!At(p, "locked") /\ ~Starting(p) /\ Polls!Returns(p)
      /\ ~Polls!At(p, "spawned")
  BY DEF Polls!MarkConsumed, PollsInv, ResultsInv, Collecting, Starting, Polls!At
<1>2. CASE agents' = agents
  BY <1>1, <1>2, ReturnKeeps
<1>3. ASSUME agents' = [agents EXCEPT ![a].consumed = TRUE]
      PROVE  PollsInv'
  <2>1. agents' = [agents EXCEPT ![a] = q]
    BY <1>3
  <2>2. parents' = [parents EXCEPT ![p] = Polls!Idle]
    BY <1>1 DEF Polls!Returns
  <2>3. /\ DOMAIN q = AgentFields /\ q.dir = agents[a].dir /\ q.process = agents[a].process
        /\ q.orphan = agents[a].orphan /\ q.mailbox = agents[a].mailbox
        /\ q.wrote = agents[a].wrote /\ q.recalled = agents[a].recalled
    BY <1>1 DEF PollsInv, StartsInv, AgentFields
  <2> HIDE DEF q, a
  <2> QED
    BY <1>1, <2>1, <2>2, <2>3, IdleParent, CollectKeeps
<1> QED
  BY <1>2, <1>3 DEF Polls!MarkConsumed

LEMMA PollKeeps ==
  ASSUME PollsInv, NEW p \in Parents, NEW a \in Agents, Polls!Poll(p, a)
  PROVE  PollsInv'
<1> DEFINE r == [at |-> "settled", agent |-> a, consumed |-> agents[a].consumed]
<1>1. /\ Polls!At(p, "idle") /\ agents[a].dir = "pid" /\ ~Polls!Up(a)
      /\ parents' = [parents EXCEPT ![p] = r]
      /\ lock' = lock /\ agents' = agents /\ ~Polls!At(p, "spawned")
  BY DEF Polls!Poll, Polls!At
<1>2. DOMAIN r = ParentFields /\ r.at = "settled" /\ r.agent = a
  BY DEF ParentFields
<1>3. \A x \in Parents \ {p} : Polls!At(x, "locked") \/ Starting(x) => lock' = x
  BY <1>1 DEF PollsInv, StartsInv
<1> HIDE DEF r
<1> QED
  BY <1>1, <1>2, <1>3, ParentKeeps

\* Every step of the agents keeps the invariant.
LEMMA NextKeepsPolls ==
  ASSUME PollsInv, [Polls!Next]_pollVars
  PROVE  PollsInv'
<1>1. ASSUME NEW p \in Parents, Polls!Start(p) PROVE PollsInv'
  <2>1. CASE Polls!StartRefused(p)
    BY <2>1, ReturnKeeps DEF Polls!StartRefused, Polls!At
  <2> QED
    BY <1>1, <2>1, LockKeeps, PrepareKeeps, SpawnKeeps, RegisterKeeps DEF Polls!Start
<1>2. ASSUME NEW p \in Parents, Polls!Collect(p) PROVE PollsInv'
  <2>1. CASE Polls!AlreadyConsumed(p)
    BY <2>1, ReturnKeeps DEF Polls!AlreadyConsumed, Polls!At, Starting
  <2> QED
    BY <1>2, <2>1, PollKeeps, RecallKeeps, CleanKeeps, MarkKeeps DEF Polls!Collect
<1>3. CASE UNCHANGED pollVars
  <2>1. /\ lock' = lock /\ agents' = agents /\ parents' = parents
        /\ Live' = Live
    BY <1>3 DEF pollVars, Live, Polls!LiveAgents
  <2> QED
    BY <2>1 DEF PollsInv, StartsInv, ResultsInv, Starting, Collecting, Polls!At,
                Polls!AgentOf, Polls!Up
<1> QED
  BY <1>1, <1>2, <1>3, DeathKeeps, ChildKeeps DEF Polls!Next

-----------------------------------------------------------------------------
(* The touch log *)

\* Induction on numbers, over a set instead of a predicate.
LEMMA NumberInduction ==
  ASSUME NEW T, 0 \in T, \A n \in Nat : n \in T => n + 1 \in T
  PROVE  \A n \in Nat : n \in T
<1> SUFFICES ASSUME {n \in Nat : n \notin T} # {} PROVE FALSE
  OBVIOUS
<1>1. PICK m \in {n \in Nat : n \notin T} : \A k \in {n \in Nat : n \notin T} : m <= k
  BY LeastNumber
<1>2. m - 1 \in Nat /\ m - 1 \in T
  BY <1>1
<1> QED
  BY <1>1, <1>2

WatchFields == {"at", "op", "path", "start", "offset", "mine", "told", "touched", "stale"}
TouchLines == Watch!Lines \cup {Watch!Garbage}

\* The lines of the log that a watcher has read, when it has read n of them;
\* the accesses of c to a path in the lines R, and the writes of others that
\* follow them all.
ReadBy(w, n) == w.start + 1 .. n
Own(l, c, R, p) == {i \in R : l[i].by = c /\ l[i].path = p}
Since(l, c, R, p) ==
  {i \in R : (\A j \in Own(l, c, R, p) : j < i) /\ l[i].path = p /\ l[i].op = "w"}

\* What a watcher knows of the lines R: TrackedOrTold.
Knows(l, c, w, R, p) ==
  Own(l, c, R, p) # {} =>
    IF Since(l, c, R, p) = {} THEN p \in w.mine
    ELSE /\ p \notin w.mine
         /\ w.told[p] \in Since(l, c, R, p)
         /\ \A i \in Since(l, c, R, p) : w.told[p] <= i

Watches(l, c, w, n) ==
  /\ DOMAIN w = WatchFields /\ DOMAIN w.told = Paths /\ w.mine \subseteq Paths
  /\ w.start \in Nat /\ w.start <= n
  /\ \A p \in Paths : Knows(l, c, w, ReadBy(w, n), p)

LEMMA LineFacts ==
  ASSUME NEW l \in TouchLines
  PROVE  /\ l.by \in Children => l.path \in Paths
         /\ l.op = "w" => l.path \in Paths /\ l.by \in Children
BY NobodyIsNobody DEF TouchLines, Watch!Lines, Watch!Garbage

\* A path that is not among those of the watcher finds room.
LEMMA RoomForOne ==
  ASSUME NEW S, S \subseteq Paths, NEW p \in Paths, p \notin S
  PROVE  Watch!Cardinality(S) < MaxTracked
<1>1. Watch!Cardinality(S) = Cardinality(S)
  BY DEF Watch!Cardinality, Cardinality
<1>2. IsFiniteSet(S) /\ Cardinality(S) <= Cardinality(Paths)
      /\ Cardinality(S) \in Nat /\ Cardinality(Paths) \in Nat
      /\ (Cardinality(S) = Cardinality(Paths) => S = Paths)
  BY AllPathsFit, FS_Subset, FS_CardinalityType
<1> QED
  BY <1>1, <1>2, AllPathsFit, CapsAreCounted

\* The accesses and the writes, with one line more: an access of the child's ...
LEMMA OwnLine ==
  ASSUME NEW l, NEW c, NEW p, NEW R, NEW k, \A j \in R \cup {k} : ~(k < j),
         l[k].by = c, l[k].path = p
  PROVE  Since(l, c, R \cup {k}, p) = {}
<1>1. k \in Own(l, c, R \cup {k}, p)
  BY DEF Own
<1> QED
  BY <1>1 DEF Since

\* ... another's, or of another path ...
LEMMA OtherLine ==
  ASSUME NEW l, NEW c, NEW p, NEW R, NEW k, l[k].by # c \/ l[k].path # p
  PROVE  Own(l, c, R \cup {k}, p) = Own(l, c, R, p)
BY DEF Own

\* ... a write of another's ...
After(k, R) == \A j \in R : j < k
Writes(line, c, p) == line.by # c /\ line.path = p /\ line.op = "w"

LEMMA OtherWrites ==
  ASSUME NEW l, NEW c, NEW p, NEW R, NEW k, After(k, R), Writes(l[k], c, p)
  PROVE  \A i : i \in Since(l, c, R \cup {k}, p) <=> (i \in Since(l, c, R, p) \/ i = k)
<1>1. Own(l, c, R \cup {k}, p) = Own(l, c, R, p)
  BY OtherLine DEF Writes
<1>2. \A j \in Own(l, c, R, p) : j < k
  BY DEF Own, After
<1> QED
  BY <1>1, <1>2 DEF Since, Writes

\* ... and a line that is no write of the path.
LEMMA NobodyWrites ==
  ASSUME NEW l, NEW c, NEW p, NEW R, NEW k,
         l[k].path # p \/ (l[k].by # c /\ l[k].op # "w")
  PROVE  Since(l, c, R \cup {k}, p) = Since(l, c, R, p)
<1>1. Own(l, c, R \cup {k}, p) = Own(l, c, R, p)
  BY OtherLine
<1> QED
  BY <1>1 DEF Since

\* What a watcher does not change of its child.
SameChild(v, w) == v.at = w.at /\ v.op = w.op /\ v.path = w.path /\ v.start = w.start

\* A watcher reads the line k, after the lines R.
LEMMA LineKeeps ==
  ASSUME NEW c \in Children, NEW w, NEW R, NEW k,
         DOMAIN w = WatchFields, DOMAIN w.told = Paths, w.mine \subseteq Paths,
         \A p \in Paths : Knows(log, c, w, R, p),
         \A j \in R : j < k, \A j \in R : j <= k, \A j \in R \cup {k} : ~(k < j),
         \A j \in R : k # j, k <= k,
         log[k] \in TouchLines, NEW v, v = Watch!FoldLine(c, w, k)
  PROVE  /\ DOMAIN v = WatchFields /\ DOMAIN v.told = Paths /\ v.mine \subseteq Paths
         /\ SameChild(v, w)
         /\ \A p \in Paths : Knows(log, c, v, R \cup {k}, p)
<1> DEFINE line == log[k]
<1>1. CASE line.by = c
  <2>1. line.path \in Paths
    BY <1>1, LineFacts
  <2>2. v = [w EXCEPT !.mine = @ \cup {line.path}]
    <3>1. line.path \notin w.mine => Watch!Cardinality(w.mine) < MaxTracked
      BY <2>1, RoomForOne
    <3>2. line.path \in w.mine \/ Watch!Cardinality(w.mine) < MaxTracked
      BY <3>1
    <3> QED
      BY <1>1, <3>2, Zenon DEF Watch!FoldLine
  <2>3. /\ DOMAIN v = WatchFields /\ v.mine = w.mine \cup {line.path} /\ v.told = w.told
        /\ SameChild(v, w)
    BY <2>2 DEF WatchFields, SameChild
  <2>4. ASSUME NEW p \in Paths PROVE Knows(log, c, v, R \cup {k}, p)
    <3>1. CASE line.path = p
      <4>1. Since(log, c, R \cup {k}, p) = {}
        BY <1>1, <3>1, OwnLine
      <4>2. p \in v.mine
        BY <2>3, <3>1
      <4> QED
        BY <4>1, <4>2 DEF Knows
    <3>2. CASE line.path # p
      <4>1. Own(log, c, R \cup {k}, p) = Own(log, c, R, p)
        BY <3>2, OtherLine
      <4>2. Since(log, c, R \cup {k}, p) = Since(log, c, R, p)
        BY <3>2, NobodyWrites
      <4>3. p \in v.mine <=> p \in w.mine
        BY <2>3, <3>2
      <4> QED
        BY <2>3, <4>1, <4>2, <4>3 DEF Knows
    <3> QED
      BY <3>1, <3>2
  <2> QED
    BY <2>1, <2>3, <2>4
<1>2. CASE line.by # c /\ line.op = "w" /\ line.path \in w.mine
  <2> DEFINE told == [w.told EXCEPT ![line.path] = k]
  <2>1. v = [w EXCEPT !.mine = @ \ {line.path}, !.told = [@ EXCEPT ![line.path] = k],
                      !.stale = @ \ {line.path}]
    BY <1>2, Zenon DEF Watch!FoldLine
  <2>2. line.path \in Paths
    BY <1>2, LineFacts
  <2>3. DOMAIN told = Paths /\ told[line.path] = k
        /\ \A p \in Paths : p # line.path => told[p] = w.told[p]
    BY <2>2
  <2>4. /\ DOMAIN v = WatchFields /\ v.mine = w.mine \ {line.path} /\ v.told = told
        /\ SameChild(v, w)
    BY <2>1 DEF WatchFields, SameChild
  <2> HIDE DEF told
  <2>5. ASSUME NEW p \in Paths PROVE Knows(log, c, v, R \cup {k}, p)
    <3>1. Own(log, c, R \cup {k}, p) = Own(log, c, R, p)
      BY <1>2, OtherLine
    <3>2. CASE line.path = p
      <4>1. Since(log, c, R \cup {k}, p) = Since(log, c, R, p) \cup {k}
        <5>1. Writes(log[k], c, p) /\ After(k, R)
          BY <1>2, <3>2 DEF Writes, After
        <5>2. \A i : i \in Since(log, c, R \cup {k}, p)
                     <=> (i \in Since(log, c, R, p) \/ i = k)
          BY <5>1, OtherWrites
        <5> QED
          BY <5>2
      <4>2. Own(log, c, R, p) # {} => Since(log, c, R, p) = {}
        BY <1>2, <3>2 DEF Knows
      <4>3. p \notin v.mine /\ v.told[p] = k
        BY <2>3, <2>4, <3>2
      <4> QED
        BY <3>1, <4>1, <4>2, <4>3 DEF Knows
    <3>3. CASE line.path # p
      <4>1. Since(log, c, R \cup {k}, p) = Since(log, c, R, p)
        BY <3>3, NobodyWrites
      <4>2. v.told[p] = w.told[p] /\ (p \in v.mine <=> p \in w.mine)
        BY <2>3, <2>4, <3>3
      <4> QED
        BY <3>1, <4>1, <4>2 DEF Knows
    <3> QED
      BY <3>2, <3>3
  <2> QED
    BY <2>3, <2>4, <2>5
<1>3. CASE line.by # c /\ ~(line.op = "w" /\ line.path \in w.mine)
  <2>1. v = w
    BY <1>3, Zenon DEF Watch!FoldLine
  <2>2. ASSUME NEW p \in Paths PROVE Knows(log, c, w, R \cup {k}, p)
    <3>1. Own(log, c, R \cup {k}, p) = Own(log, c, R, p)
      BY <1>3, OtherLine
    <3>2. CASE line.path = p /\ line.op = "w"
      <4>1. Since(log, c, R \cup {k}, p) = Since(log, c, R, p) \cup {k}
        <5>1. Writes(log[k], c, p) /\ After(k, R)
          BY <1>3, <3>2 DEF Writes, After
        <5>2. \A i : i \in Since(log, c, R \cup {k}, p)
                     <=> (i \in Since(log, c, R, p) \/ i = k)
          BY <5>1, OtherWrites
        <5> QED
          BY <5>2
      <4>2. Own(log, c, R, p) # {} =>
              /\ p \notin w.mine /\ w.told[p] \in Since(log, c, R, p)
              /\ \A i \in Since(log, c, R, p) : w.told[p] <= i
        BY <1>3, <3>2 DEF Knows
      <4>3. \A i \in Since(log, c, R, p) : i <= k
        BY DEF Since
      <4> QED
        BY <3>1, <4>1, <4>2, <4>3 DEF Knows
    <3>3. CASE ~(line.path = p /\ line.op = "w")
      <4>1. Since(log, c, R \cup {k}, p) = Since(log, c, R, p)
        BY <1>3, <3>3, NobodyWrites
      <4> QED
        BY <3>1, <4>1 DEF Knows
    <3> QED
      BY <3>2, <3>3
  <2> QED
    BY <2>1, <2>2 DEF SameChild
<1> QED
  BY <1>1, <1>2, <1>3

LEMMA FoldKeeps ==
  ASSUME NEW c \in Children, NEW w, NEW n \in Nat, Watches(log, c, w, n),
         log[n + 1] \in TouchLines
  PROVE  /\ Watches(log, c, Watch!FoldLine(c, w, n + 1), n + 1)
         /\ SameChild(Watch!FoldLine(c, w, n + 1), w)
<1> DEFINE R == ReadBy(w, n)
           k == n + 1
           v == Watch!FoldLine(c, w, k)
<1>1. w.start \in Nat /\ w.start <= n
  BY DEF Watches
<1>2. /\ \A j \in R : j < k /\ j <= k /\ k # j
      /\ \A j \in R \cup {k} : ~(k < j)
      /\ k <= k
  BY <1>1 DEF ReadBy
<1>3. ReadBy(w, n + 1) = R \cup {k}
  BY <1>1 DEF ReadBy
<1>4. /\ DOMAIN w = WatchFields /\ DOMAIN w.told = Paths /\ w.mine \subseteq Paths
      /\ \A p \in Paths : Knows(log, c, w, R, p)
  BY DEF Watches
<1>5. log[k] \in TouchLines
  OBVIOUS
<1> HIDE DEF R, k, v
<1>6. v = Watch!FoldLine(c, w, k)
  BY DEF v
<1>7. /\ DOMAIN v = WatchFields /\ DOMAIN v.told = Paths /\ v.mine \subseteq Paths
      /\ SameChild(v, w)
      /\ \A p \in Paths : Knows(log, c, v, R \cup {k}, p)
  BY <1>2, <1>4, <1>5, <1>6, LineKeeps
<1>8. v.start = w.start /\ ReadBy(v, n + 1) = R \cup {k}
  BY <1>3, <1>7 DEF SameChild, ReadBy
<1>9. Watches(log, c, v, n + 1)
  <2>1. v.start \in Nat /\ v.start <= n + 1
    BY <1>1, <1>8
  <2>2. \A p \in Paths : Knows(log, c, v, ReadBy(v, n + 1), p)
    BY <1>7, <1>8
  <2> QED
    BY <1>7, <2>1, <2>2 DEF Watches
<1> QED
  BY <1>7, <1>9 DEF v, k

-----------------------------------------------------------------------------
\* A record of the first m - b lines folded, from b on.
Folds(c, w, b, m, g) ==
  g = [i \in b .. m |-> IF i = b THEN w ELSE Watch!FoldLine(c, g[i - 1], i)]

LEMMA FoldsValue ==
  ASSUME NEW c, NEW w, NEW b \in Nat, NEW m \in Nat, b <= m, NEW g, Folds(c, w, b, m, g)
  PROVE  /\ g[b] = w
         /\ \A i \in b + 1 .. m : g[i] = Watch!FoldLine(c, g[i - 1], i)
<1>1. \A i \in b .. m : g[i] = IF i = b THEN w ELSE Watch!FoldLine(c, g[i - 1], i)
  BY Zenon DEF Folds
<1> QED
  BY <1>1

\* There is a fold of any number of lines.
LEMMA SomethingFolds ==
  ASSUME NEW c, NEW w, NEW b \in Nat, NEW m \in Nat, b <= m
  PROVE  \E g : Folds(c, w, b, m, g)
<1> DEFINE T == {n \in Nat : \E g : Folds(c, w, b, b + n, g)}
<1>1. 0 \in T
  <2> DEFINE g == [i \in b .. b + 0 |-> w]
  <2>1. g = [i \in b .. b + 0 |-> IF i = b THEN w ELSE Watch!FoldLine(c, g[i - 1], i)]
    OBVIOUS
  <2> HIDE DEF g
  <2>2. Folds(c, w, b, b + 0, g)
    BY <2>1 DEF Folds
  <2> QED
    BY <2>2
<1>2. ASSUME NEW n \in Nat, n \in T PROVE n + 1 \in T
  <2>1. PICK g : Folds(c, w, b, b + n, g)
    BY <1>2
  <2>2. /\ g[b] = w
        /\ \A i \in b + 1 .. b + n : g[i] = Watch!FoldLine(c, g[i - 1], i)
    BY <2>1, FoldsValue
  <2> DEFINE top == Watch!FoldLine(c, g[b + n], b + n + 1)
             h == [i \in b .. b + (n + 1) |-> IF i <= b + n THEN g[i] ELSE top]
  <2> HIDE DEF top
  <2>3. \A i \in b .. b + (n + 1) :
          h[i] = IF i = b THEN w ELSE Watch!FoldLine(c, h[i - 1], i)
    <3> TAKE i \in b .. b + (n + 1)
    <3>1. CASE i = b
      BY <2>2, <3>1
    <3>2. CASE i # b /\ i <= b + n
      <4>1. h[i] = g[i] /\ h[i - 1] = g[i - 1] /\ g[i] = Watch!FoldLine(c, g[i - 1], i)
        BY <2>2, <3>2
      <4> QED
        BY <3>2, <4>1
    <3>3. CASE i = b + n + 1
      <4>1. h[i] = top /\ h[i - 1] = g[b + n] /\ i # b
        BY <3>3
      <4> QED
        BY <3>3, <4>1 DEF top
    <3> QED
      BY <3>1, <3>2, <3>3
  <2>4. DOMAIN h = b .. b + (n + 1) /\ h = [i \in b .. b + (n + 1) |-> h[i]]
    BY Zenon
  <2> HIDE DEF h
  <2>5. h = [i \in b .. b + (n + 1) |-> IF i = b THEN w ELSE Watch!FoldLine(c, h[i - 1], i)]
    BY <2>3, <2>4
  <2>6. Folds(c, w, b, b + (n + 1), h)
    BY <2>5 DEF Folds
  <2> QED
    BY <2>6
<1> HIDE DEF T
<1>3. \A n \in Nat : n \in T
  BY <1>1, <1>2, NumberInduction
<1>4. m - b \in T /\ b + (m - b) = m
  BY <1>3
<1> QED
  BY <1>4 DEF T

\* What a fold of the lines from the n-th on tells.
LEMMA FoldsKeep ==
  ASSUME NEW c \in Children, NEW w, NEW b \in Nat, NEW m \in Nat, b <= m,
         Watches(log, c, w, b), \A i \in b + 1 .. m : log[i] \in TouchLines,
         NEW g, Folds(c, w, b, m, g)
  PROVE  Watches(log, c, g[m], m) /\ SameChild(g[m], w)
<1> DEFINE T == {n \in Nat : b + n <= m =>
                    Watches(log, c, g[b + n], b + n) /\ SameChild(g[b + n], w)}
<1>0. /\ g[b] = w
      /\ \A i \in b + 1 .. m : g[i] = Watch!FoldLine(c, g[i - 1], i)
  <2>1. b \in Nat /\ m \in Nat /\ b <= m /\ Folds(c, w, b, m, g)
    OBVIOUS
  <2> QED
    BY ONLY <2>1, FoldsValue
<1>1. 0 \in T
  <2>1. b + 0 = b
    OBVIOUS
  <2>2. Watches(log, c, g[b + 0], b + 0) /\ SameChild(g[b + 0], w)
    BY <1>0, <2>1 DEF SameChild
  <2> QED
    BY <2>2
<1>2. ASSUME NEW n \in Nat, n \in T PROVE n + 1 \in T
  <2> SUFFICES ASSUME b + (n + 1) <= m
               PROVE  /\ Watches(log, c, g[b + (n + 1)], b + (n + 1))
                      /\ SameChild(g[b + (n + 1)], w)
    OBVIOUS
  <2> DEFINE k == b + n
  <2>1. k \in Nat /\ b + (n + 1) = k + 1 /\ k + 1 \in b + 1 .. m /\ (k + 1) - 1 = k
    OBVIOUS
  <2>2. Watches(log, c, g[k], k) /\ SameChild(g[k], w)
    BY <1>2, <2>1
  <2>3. g[k + 1] = Watch!FoldLine(c, g[k], k + 1) /\ log[k + 1] \in TouchLines
    BY <1>0, <2>1
  <2> HIDE DEF k
  <2>4. Watches(log, c, g[k + 1], k + 1) /\ SameChild(g[k + 1], g[k])
    BY <2>1, <2>2, <2>3, FoldKeeps
  <2> QED
    BY <2>1, <2>2, <2>4 DEF SameChild
<1> HIDE DEF T
<1>3. \A n \in Nat : n \in T
  BY <1>1, <1>2, NumberInduction
<1>4. m - b \in T /\ b + (m - b) = m
  BY <1>3
<1> QED
  BY <1>4 DEF T

-----------------------------------------------------------------------------
\* The log has only whole lines and fragments, and each watcher knows what it
\* has read of it.
WatchInv ==
  /\ log \in Seq(TouchLines)
  /\ DOMAIN tail = {"is", "line"} /\ tail.line \in TouchLines
  /\ DOMAIN children = Children
  /\ \A c \in Children :
       /\ DOMAIN children[c] = WatchFields
       /\ children[c].at = "done" => children[c].op \in Watch!Ops /\ children[c].path \in Paths
       /\ c \in Watchers => /\ children[c].offset \in 0 .. Len(log)
                            /\ Watches(log, c, children[c], children[c].offset)

LEMMA WatchIsSound == WatchInv => TrackedOrTold
<1> SUFFICES ASSUME WatchInv, NEW c \in Watchers, NEW p \in Paths
             PROVE  LET read == children[c].start + 1 .. children[c].offset
                        own == {i \in read : log[i].by = c /\ log[i].path = p}
                        since == {i \in read : /\ \A j \in own : j < i
                                               /\ log[i].path = p /\ log[i].op = "w"}
                    IN  own # {} =>
                          IF since = {} THEN p \in children[c].mine
                          ELSE /\ p \notin children[c].mine
                               /\ children[c].told[p] \in since
                               /\ \A i \in since : children[c].told[p] <= i
  BY Zenon DEF TrackedOrTold, Watch!TrackedOrTold
<1>1. Knows(log, c, children[c], ReadBy(children[c], children[c].offset), p)
  BY WatchersAreChildren DEF WatchInv, Watches
<1> QED
  BY <1>1, Zenon DEF Knows, Own, Since, ReadBy

\* Nothing is read yet.
LEMMA NothingRead ==
  ASSUME NEW l, NEW c, NEW w, NEW n \in Nat, DOMAIN w = WatchFields, DOMAIN w.told = Paths,
         w.mine = {}, w.start = n
  PROVE  Watches(l, c, w, n)
<1>1. ReadBy(w, n) = {}
  BY DEF ReadBy
<1>2. \A p : Own(l, c, ReadBy(w, n), p) = {}
  BY <1>1 DEF Own
<1> QED
  BY <1>2 DEF Watches, Knows

LEMMA NewChildFacts ==
  /\ DOMAIN Watch!NewChild = WatchFields /\ DOMAIN Watch!NewChild.told = Paths
  /\ Watch!NewChild.at = "off" /\ Watch!NewChild.mine = {}
  /\ Watch!NewChild.start = 0 /\ Watch!NewChild.offset = 0
BY DEF Watch!NewChild, WatchFields

LEMMA NoTailFacts ==
  /\ DOMAIN Watch!NoTail = {"is", "line"} /\ Watch!NoTail.line = Watch!Garbage
  /\ Watch!Garbage \in TouchLines
BY DEF Watch!NoTail, TouchLines

LEMMA InitWatch == Watch!Init => WatchInv
<1> SUFFICES ASSUME Watch!Init PROVE WatchInv
  OBVIOUS
<1>1. /\ log = <<>> /\ tail = Watch!NoTail /\ DOMAIN children = Children
      /\ \A c \in Children : children[c] = Watch!NewChild
  BY DEF Watch!Init
<1>2. log \in Seq(TouchLines) /\ Len(log) = 0
  BY <1>1
<1>3. \A c \in Children : Watches(log, c, children[c], 0)
  BY <1>1, NewChildFacts, NothingRead
<1> QED
  BY <1>1, <1>2, <1>3, NewChildFacts, NoTailFacts DEF WatchInv

\* What a watcher knows of the lines it has read does not depend on the lines
\* that come, nor on what its child does.
LEMMA KnowsStill ==
  ASSUME NEW l, NEW k, NEW c, NEW v, NEW w, NEW n \in Nat, Watches(l, c, v, n),
         \A i \in 1 .. n : k[i] = l[i],
         DOMAIN w = WatchFields, w.mine = v.mine, w.told = v.told, w.start = v.start
  PROVE  Watches(k, c, w, n)
<1> DEFINE R == ReadBy(v, n)
<1>1. R \subseteq 1 .. n /\ ReadBy(w, n) = R
  BY DEF Watches, ReadBy
<1> HIDE DEF R
<1>2. ASSUME NEW p \in Paths PROVE Knows(k, c, w, R, p)
  <2>1. Knows(l, c, v, R, p)
    BY DEF Watches, R
  <2>2. Own(k, c, R, p) = Own(l, c, R, p)
    BY <1>1 DEF Own
  <2>3. Since(k, c, R, p) = Since(l, c, R, p)
    BY <1>1, <2>2 DEF Since
  <2> QED
    BY <2>1, <2>2, <2>3 DEF Knows
<1> QED
  BY <1>1, <1>2 DEF Watches

\* A child does something that its watcher does not see.
LEMMA ChildMoves ==
  ASSUME WatchInv, log' \in Seq(TouchLines), Len(log) <= Len(log'),
         \A i \in 1 .. Len(log) : log'[i] = log[i],
         DOMAIN tail' = {"is", "line"}, tail'.line \in TouchLines,
         DOMAIN children' = Children,
         \A c \in Children :
           /\ DOMAIN children'[c] = WatchFields
           /\ children'[c].mine = children[c].mine /\ children'[c].told = children[c].told
           /\ children'[c].start = children[c].start
           /\ children'[c].offset = children[c].offset
           /\ children'[c].at = "done" =>
                children'[c].op \in Watch!Ops /\ children'[c].path \in Paths
  PROVE  WatchInv'
<1>1. ASSUME NEW c \in Children, c \in Watchers
      PROVE  /\ children'[c].offset \in 0 .. Len(log')
             /\ Watches(log', c, children'[c], children'[c].offset)
  <2>1. /\ children[c].offset \in 0 .. Len(log)
        /\ Watches(log, c, children[c], children[c].offset)
    BY <1>1 DEF WatchInv
  <2>2. Len(log) \in Nat /\ Len(log') \in Nat
    BY DEF WatchInv
  <2>3. \A i \in 1 .. children[c].offset : log'[i] = log[i]
    BY <2>1, <2>2
  <2> QED
    BY <2>1, <2>2, <2>3, KnowsStill
<1> QED
  BY <1>1 DEF WatchInv

LEMMA StartKeepsWatch ==
  ASSUME WatchInv, NEW c \in Children, Watch!StartChild(c) PROVE WatchInv'
<1>1. log' = log /\ tail' = tail
  BY DEF Watch!StartChild
<1>2. PICK start \in {0, Len(log)} :
        children' = [children EXCEPT ![c] =
          IF c \in Watchers
          THEN [Watch!NewChild EXCEPT !.at = "idle", !.start = start, !.offset = start]
          ELSE [Watch!NewChild EXCEPT !.at = "idle"]]
  BY Zenon DEF Watch!StartChild
<1> DEFINE new == IF c \in Watchers
                  THEN [Watch!NewChild EXCEPT !.at = "idle", !.start = start, !.offset = start]
                  ELSE [Watch!NewChild EXCEPT !.at = "idle"]
<1>3. /\ DOMAIN new = WatchFields /\ new.at = "idle" /\ DOMAIN new.told = Paths
      /\ new.mine = {} /\ (c \in Watchers => new.start = start /\ new.offset = start)
  <2>1. CASE c \in Watchers
    BY <2>1, NewChildFacts DEF WatchFields
  <2>2. CASE c \notin Watchers
    BY <2>2, NewChildFacts DEF WatchFields
  <2> QED
    BY <2>1, <2>2
<1>4. children' = [children EXCEPT ![c] = new]
  BY <1>2
<1> HIDE DEF new
<1>5. /\ DOMAIN children' = Children /\ children'[c] = new
      /\ \A x \in Children : x # c => children'[x] = children[x]
  BY <1>4 DEF WatchInv
<1>6. start \in 0 .. Len(log) /\ start \in Nat
  BY DEF WatchInv
<1>7. c \in Watchers => Watches(log, c, new, start)
  BY <1>3, <1>6, NothingRead
<1> QED
  BY <1>1, <1>3, <1>5, <1>6, <1>7 DEF WatchInv

LEMMA AccessKeepsWatch ==
  ASSUME WatchInv, NEW c \in Children, NEW op \in Watch!Ops, NEW path \in Paths,
         Watch!Access(c, op, path)
  PROVE  WatchInv'
<1> DEFINE one == [children[c] EXCEPT !.at = "done", !.op = op, !.path = path,
                                  !.touched = IF c \in Watchers THEN @ \cup {path} ELSE @,
                                  !.stale = @ \ {path}]
           other(d) == [children[d] EXCEPT !.stale = @ \cup {path}]
<1>1. /\ log' = log /\ tail' = tail
      /\ children' = [d \in Children |->
           IF d = c THEN one
           ELSE IF op = "w" /\ path \in children[d].touched /\ d \in Watchers
           THEN other(d) ELSE children[d]]
  BY Zenon DEF Watch!Access
<1>2. /\ DOMAIN one = WatchFields /\ one.mine = children[c].mine
      /\ one.told = children[c].told /\ one.start = children[c].start
      /\ one.offset = children[c].offset /\ one.op = op /\ one.path = path
  BY DEF WatchInv, WatchFields
<1>3. ASSUME NEW d \in Children
      PROVE  /\ DOMAIN other(d) = WatchFields /\ other(d).mine = children[d].mine
             /\ other(d).told = children[d].told /\ other(d).start = children[d].start
             /\ other(d).offset = children[d].offset /\ other(d).op = children[d].op
             /\ other(d).path = children[d].path /\ other(d).at = children[d].at
  BY DEF WatchInv, WatchFields
<1> HIDE DEF one, other
<1>4. \A d \in Children : \/ children'[d] = children[d]
                          \/ children'[d] = other(d)
                          \/ d = c /\ children'[d] = one
  BY <1>1
<1>5. \A d \in Children :
           /\ DOMAIN children'[d] = WatchFields
           /\ children'[d].mine = children[d].mine /\ children'[d].told = children[d].told
           /\ children'[d].start = children[d].start
           /\ children'[d].offset = children[d].offset
           /\ children'[d].at = "done" =>
                children'[d].op \in Watch!Ops /\ children'[d].path \in Paths
  BY <1>2, <1>3, <1>4 DEF WatchInv
<1>6. DOMAIN children' = Children
  BY <1>1
<1> QED
  BY <1>1, <1>5, <1>6, ChildMoves DEF WatchInv

\* The three steps of an append.
LEMMA RecordKeepsWatch ==
  ASSUME WatchInv, NEW c \in Children, NEW s \in {"writes", "idle"},
         children' = [children EXCEPT ![c] = [@ EXCEPT !.at = s, !.op = "r", !.path = Nobody]],
         log' = log \/ log' = Append(log, tail.line),
         DOMAIN tail' = {"is", "line"}, tail'.line \in TouchLines
  PROVE  WatchInv'
<1> DEFINE new == [children[c] EXCEPT !.at = s, !.op = "r", !.path = Nobody]
<1>1. children' = [children EXCEPT ![c] = new]
  BY Zenon
<1>2. /\ DOMAIN new = WatchFields /\ new.mine = children[c].mine
      /\ new.told = children[c].told /\ new.start = children[c].start
      /\ new.offset = children[c].offset /\ new.at = s
  BY DEF WatchInv, WatchFields
<1> HIDE DEF new
<1>3. /\ DOMAIN children' = Children /\ children'[c] = new
      /\ \A x \in Children : x # c => children'[x] = children[x]
  BY <1>1 DEF WatchInv
<1>4. /\ log' \in Seq(TouchLines) /\ Len(log) <= Len(log')
      /\ \A i \in 1 .. Len(log) : log'[i] = log[i]
  <2>1. log \in Seq(TouchLines) /\ tail.line \in TouchLines
    BY DEF WatchInv
  <2>2. CASE log' = log
    BY <2>1, <2>2
  <2>3. CASE log' = Append(log, tail.line)
    BY <2>1, <2>3, AppendProperties
  <2> QED
    BY <2>2, <2>3
<1> QED
  BY <1>2, <1>3, <1>4, ChildMoves DEF WatchInv

LEMMA RecordStepKeepsWatch ==
  ASSUME WatchInv, NEW c \in Children,
         Watch!RecordStarts(c) \/ Watch!RecordEnds(c) \/ Watch!RecordFails(c)
  PROVE  WatchInv'
<1>1. CASE Watch!RecordStarts(c)
  <2> DEFINE own == [by |-> c, op |-> children[c].op, path |-> children[c].path]
  <2>1. own \in TouchLines
    BY <1>1 DEF Watch!RecordStarts, Watch!At, WatchInv, TouchLines, Watch!Lines
  <2>2. tail' = [is |-> "half", line |-> IF tail.is = "torn" THEN Watch!Garbage ELSE own]
        /\ log' = log
        /\ children' = [children EXCEPT ![c] =
                          [@ EXCEPT !.at = "writes", !.op = "r", !.path = Nobody]]
    BY <1>1, Zenon DEF Watch!RecordStarts
  <2> HIDE DEF own
  <2>3. DOMAIN tail' = {"is", "line"} /\ tail'.line \in TouchLines
    BY <2>1, <2>2, NoTailFacts
  <2> QED
    BY <2>2, <2>3, RecordKeepsWatch
<1>2. CASE Watch!RecordEnds(c)
  <2>1. tail' = Watch!NoTail /\ log' = Append(log, tail.line)
        /\ children' = [children EXCEPT ![c] =
                          [@ EXCEPT !.at = "idle", !.op = "r", !.path = Nobody]]
    BY <1>2, Zenon DEF Watch!RecordEnds
  <2>2. DOMAIN tail' = {"is", "line"} /\ tail'.line \in TouchLines
    BY <2>1, NoTailFacts
  <2> QED
    BY <2>1, <2>2, RecordKeepsWatch
<1>3. CASE Watch!RecordFails(c)
  <2>1. tail' = [tail EXCEPT !.is = "torn", !.line = Watch!Garbage] /\ log' = log
        /\ children' = [children EXCEPT ![c] =
                          [@ EXCEPT !.at = "idle", !.op = "r", !.path = Nobody]]
    BY <1>3, Zenon DEF Watch!RecordFails
  <2>2. DOMAIN tail' = {"is", "line"} /\ tail'.line \in TouchLines
    BY <2>1, NoTailFacts DEF WatchInv
  <2> QED
    BY <2>1, <2>2, RecordKeepsWatch
<1> QED
  BY <1>1, <1>2, <1>3

LEMMA PollKeepsWatch ==
  ASSUME WatchInv, NEW c \in Children, Watch!Poll(c)
  PROVE  WatchInv'
<1> DEFINE b == children[c].offset
           m == Len(log)
           F == CHOOSE g : Folds(c, children[c], b, m, g)
<1>1. /\ c \in Watchers /\ b \in Nat /\ m \in Nat /\ b <= m
      /\ Watches(log, c, children[c], b)
      /\ \A i \in b + 1 .. m : log[i] \in TouchLines
  BY DEF Watch!Poll, WatchInv
<1>2. log' = log /\ tail' = tail
      /\ children' = [children EXCEPT ![c] = [F[m] EXCEPT !.offset = m]]
  BY Zenon DEF Watch!Poll, Folds
<1> HIDE DEF b, m
<1>3. Folds(c, children[c], b, m, F)
  BY <1>1, SomethingFolds
<1> HIDE DEF F
<1>4. Watches(log, c, F[m], m) /\ SameChild(F[m], children[c])
  BY <1>1, <1>3, FoldsKeep
<1> DEFINE new == [F[m] EXCEPT !.offset = m]
<1>5. /\ DOMAIN new = WatchFields /\ new.offset = m /\ new.mine = F[m].mine
      /\ new.told = F[m].told /\ new.start = F[m].start /\ new.at = children[c].at
      /\ new.op = children[c].op /\ new.path = children[c].path
  BY <1>4 DEF Watches, SameChild, WatchFields
<1>6. children' = [children EXCEPT ![c] = new]
  BY <1>2
<1> HIDE DEF new
<1>7. /\ DOMAIN children' = Children /\ children'[c] = new
      /\ \A x \in Children : x # c => children'[x] = children[x]
  BY <1>6 DEF WatchInv
<1>8. Watches(log, c, new, m)
  <2>1. \A i \in 1 .. m : log[i] = log[i]
    OBVIOUS
  <2> QED
    BY <1>1, <1>4, <1>5, <2>1, KnowsStill, Zenon
<1>9. m \in 0 .. Len(log)
  BY <1>1 DEF m
<1>10. Watches(log', c, children'[c], children'[c].offset) /\ children'[c].offset \in 0 .. Len(log')
  BY <1>2, <1>5, <1>7, <1>8, <1>9
<1>11. ASSUME NEW x \in Children, x # c, x \in Watchers
       PROVE  /\ children'[x].offset \in 0 .. Len(log')
              /\ Watches(log', x, children'[x], children'[x].offset)
  BY <1>2, <1>7, <1>11 DEF WatchInv
<1>12. \A x \in Children :
         /\ DOMAIN children'[x] = WatchFields
         /\ children'[x].at = "done" =>
              children'[x].op \in Watch!Ops /\ children'[x].path \in Paths
  BY <1>5, <1>7 DEF WatchInv
<1>13. log' \in Seq(TouchLines) /\ DOMAIN tail' = {"is", "line"} /\ tail'.line \in TouchLines
  BY <1>2 DEF WatchInv
<1> QED
  BY <1>7, <1>10, <1>11, <1>12, <1>13 DEF WatchInv

\* Every step of the children keeps the invariant.
LEMMA NextKeepsWatch ==
  ASSUME WatchInv, [Watch!Next]_watchVars
  PROVE  WatchInv'
<1>1. CASE UNCHANGED watchVars
  BY <1>1 DEF watchVars, WatchInv
<1> QED
  BY <1>1, StartKeepsWatch, AccessKeepsWatch, RecordStepKeepsWatch, PollKeepsWatch
     DEF Watch!Next

-----------------------------------------------------------------------------
(* The allow lists *)

\* "*" is every text.
LEMMA AnyText == ASSUME NEW t \in Texts PROVE Lists!GlobMatch(Lists!Lone, t)
<1> DEFINE f == [i \in 0 .. 1 |-> IF i = 0 THEN 0 ELSE Len(t)]
<1>1. f \in [0 .. 1 -> 0 .. Len(t)] /\ f[0] = 0 /\ f[1] = Len(t) /\ f[1] >= f[0]
  BY DEF Texts
<1>2. Len(Lists!Lone) = 1 /\ Lists!Lone[1] = "*"
  BY DEF Lists!Lone
<1> HIDE DEF f
<1> QED
  BY <1>1, <1>2 DEF Lists!GlobMatch

\* What a glob that ends plainly matches ends so, and the rest matches the rest.
LEMMA PlainEnd ==
  ASSUME NEW w \in Texts, NEW g \in Texts, NEW t \in Texts,
         ~Lists!HasGlob(g), Lists!GlobMatch(w \o g, t)
  PROVE  \E u \in Texts : t = u \o g /\ Lists!GlobMatch(w, u)
<1> DEFINE n == Len(w)
           m == Len(g)
           all == w \o g
<1>1. /\ n \in Nat /\ m \in Nat /\ Len(all) = n + m /\ Len(t) \in Nat
      /\ \A i \in 1 .. n : all[i] = w[i]
      /\ \A j \in 1 .. m : all[n + j] = g[j]
  BY DEF Texts
<1>2. \A j \in 1 .. m : g[j] \notin {"*", "?"}
  BY DEF Lists!HasGlob, Texts
<1>3. PICK f \in [0 .. n + m -> 0 .. Len(t)] :
        /\ f[0] = 0 /\ f[n + m] = Len(t)
        /\ \A i \in 1 .. n + m :
             IF all[i] = "*" THEN f[i] >= f[i - 1]
             ELSE f[i] = f[i - 1] + 1 /\ all[i] \in {"?", t[f[i]]}
  BY <1>1 DEF Lists!GlobMatch
<1> HIDE DEF n, m, all
<1>4. \A j \in 1 .. m : f[n + j] = f[n + j - 1] + 1 /\ t[f[n + j]] = g[j]
  <2> SUFFICES ASSUME NEW j \in 1 .. m
               PROVE  f[n + j] = f[n + j - 1] + 1 /\ t[f[n + j]] = g[j]
    OBVIOUS
  <2>1. n + j \in 1 .. n + m
    BY <1>1
  <2> QED
    BY <2>1, <1>1, <1>2, <1>3
<1>5. \A j \in Nat : j <= m => f[n + j] = f[n] + j
  <2> DEFINE T == {j \in Nat : j <= m => f[n + j] = f[n] + j}
  <2>1. 0 \in T
    BY <1>1, <1>3
  <2>2. ASSUME NEW j \in Nat, j \in T PROVE j + 1 \in T
    <3> SUFFICES ASSUME j + 1 <= m PROVE f[n + (j + 1)] = f[n] + (j + 1)
      OBVIOUS
    <3>1. f[n + j] = f[n] + j /\ j + 1 \in 1 .. m /\ n + (j + 1) - 1 = n + j
      BY <2>2, <1>1
    <3>2. f[n + (j + 1)] = f[n + (j + 1) - 1] + 1
      BY <3>1, <1>4
    <3>3. n \in 0 .. n + m
      BY <1>1
    <3>4. f[n] \in Nat
      BY <3>3, <1>1, <1>3
    <3> QED
      BY <3>1, <3>2, <3>4
  <2> HIDE DEF T
  <2>3. \A j \in Nat : j \in T
    BY <2>1, <2>2, NumberInduction
  <2> QED
    BY <2>3 DEF T
<1>6. \A j \in Nat : j <= n => f[n - j] <= f[n]
  <2> DEFINE T == {j \in Nat : j <= n => f[n - j] <= f[n]}
  <2>1. 0 \in T
    BY <1>1, <1>3
  <2>2. ASSUME NEW j \in Nat, j \in T PROVE j + 1 \in T
    <3> SUFFICES ASSUME j + 1 <= n PROVE f[n - (j + 1)] <= f[n]
      OBVIOUS
    <3>1. f[n - j] <= f[n] /\ n - j \in 1 .. n + m /\ (n - j) - 1 = n - (j + 1)
      BY <2>2, <1>1
    <3>2. n \in 0 .. n + m /\ n - j \in 0 .. n + m /\ n - (j + 1) \in 0 .. n + m
      BY <1>1
    <3>3. f[n] \in Nat /\ f[n - j] \in Nat /\ f[n - (j + 1)] \in Nat
      BY <3>2, <1>1, <1>3
    <3>4. f[n - j] >= f[n - (j + 1)]
      BY <3>1, <3>3, <1>3
    <3> QED
      BY <3>1, <3>3, <3>4
  <2> HIDE DEF T
  <2>3. \A j \in Nat : j \in T
    BY <2>1, <2>2, NumberInduction
  <2> QED
    BY <2>3 DEF T
<1>7. f[n] \in Nat /\ f[n] + m = Len(t)
  <2>1. n \in 0 .. n + m
    BY <1>1
  <2> QED
    BY <2>1, <1>1, <1>3, <1>5
<1> DEFINE u == SubSeq(t, 1, f[n])
<1>8. u \in Texts /\ Len(u) = f[n] /\ \A i \in 1 .. f[n] : u[i] = t[i]
  BY <1>7, <1>1 DEF Texts
<1> HIDE DEF u
<1>9. t = u \o g
  <2>1. Len(u \o g) = Len(t) /\ u \o g \in Seq(Letters)
    BY <1>7, <1>8 DEF Texts, m
  <2>2. ASSUME NEW i \in 1 .. Len(t) PROVE t[i] = (u \o g)[i]
    <3>1. CASE i <= f[n]
      BY <3>1, <1>7, <1>8 DEF Texts
    <3>2. CASE i > f[n]
      <4> DEFINE j == i - f[n]
      <4>1. j \in 1 .. m /\ i = f[n] + j
        BY <3>2, <1>7, <1>1
      <4>2. t[i] = g[j]
        BY <4>1, <1>4, <1>5
      <4>3. (u \o g)[i] = g[j]
        <5>1. i \in 1 .. Len(u) + Len(g) /\ i > Len(u) /\ i - Len(u) = j
          BY <3>2, <1>1, <1>7, <1>8 DEF m
        <5>2. u \in Seq(Letters) /\ g \in Seq(Letters)
          BY <1>8 DEF Texts
        <5> HIDE DEF j
        <5>3. (u \o g)[i] = g[i - Len(u)]
          BY <5>1, <5>2
        <5> QED
          BY <5>1, <5>3
      <4> QED
        BY <4>2, <4>3
    <3>3. i \in Nat /\ f[n] \in Nat
      BY <1>1, <1>7
    <3>4. i <= f[n] \/ i > f[n]
      BY <3>3
    <3> QED
      BY <3>1, <3>2, <3>4
  <2> QED
    BY <2>1, <2>2, SeqEqual DEF Texts
<1>10. Lists!GlobMatch(w, u)
  <2> DEFINE h == [i \in 0 .. n |-> f[i]]
  <2>1. \A i \in 0 .. n : f[i] \in 0 .. f[n]
    <3> SUFFICES ASSUME NEW i \in 0 .. n PROVE f[i] \in 0 .. f[n]
      OBVIOUS
    <3>1. n - i \in Nat /\ n - i <= n /\ n - (n - i) = i /\ i \in 0 .. n + m
      BY <1>1
    <3>2. f[i] <= f[n]
      BY <3>1, <1>6
    <3> QED
      BY <3>1, <3>2, <1>3, <1>7, <1>1
  <2>2. h \in [0 .. n -> 0 .. Len(u)] /\ h[0] = 0 /\ h[n] = Len(u)
    BY <2>1, <1>1, <1>3, <1>8
  <2>3. ASSUME NEW i \in 1 .. n
        PROVE  IF w[i] = "*" THEN h[i] >= h[i - 1]
               ELSE h[i] = h[i - 1] + 1 /\ w[i] \in {"?", u[h[i]]}
    <3>1. i \in 1 .. n + m /\ i \in 0 .. n /\ i - 1 \in 0 .. n
      BY <1>1
    <3>2. h[i] = f[i] /\ h[i - 1] = f[i - 1] /\ all[i] = w[i] /\ f[i - 1] \in Nat
      BY <3>1, <2>1, <1>1, <1>7
    <3>3. f[i] \in 1 .. f[n] => u[f[i]] = t[f[i]]
      BY <1>8
    <3>4. f[i] = f[i - 1] + 1 => f[i] \in 1 .. f[n]
      BY <3>1, <3>2, <2>1, <1>7
    <3> QED
      BY <3>1, <3>2, <3>3, <3>4, <1>3
  <2> HIDE DEF h
  <2> QED
    BY <2>2, <2>3 DEF Lists!GlobMatch, n
<1> QED
  BY <1>8, <1>9, <1>10

\* A text without a glob matches itself only.
LEMMA PlainText ==
  ASSUME NEW g \in Texts, NEW t \in Texts, ~Lists!HasGlob(g), Lists!GlobMatch(g, t)
  PROVE  t = g
<1>1. <<>> \in Texts /\ <<>> \o g = g
  BY DEF Texts
<1>2. PICK u \in Texts : t = u \o g /\ Lists!GlobMatch(<<>>, u)
  BY <1>1, PlainEnd
<1>3. Len(u) = 0
  BY <1>2 DEF Lists!GlobMatch
<1>4. u = <<>>
  BY <1>3 DEF Texts
<1> QED
  BY <1>1, <1>2, <1>4

\* What one pattern text covers, it matches whenever the other does.
LEMMA TokenCoversAll ==
  ASSUME NEW one \in Texts, NEW other \in Texts, NEW t \in Texts,
         Lists!TokenCovers(one, other), Lists!GlobMatch(other, t)
  PROVE  Lists!GlobMatch(one, t)
<1>1. CASE Lists!HasGlob(other)
  BY <1>1, AnyText DEF Lists!TokenCovers
<1>2. CASE ~Lists!HasGlob(other)
  BY <1>2, PlainText DEF Lists!TokenCovers
<1> QED
  BY <1>1, <1>2

\* A pattern with the guard's text at its end covers only such patterns.
LEMMA GuardCovers ==
  ASSUME NEW one \in Texts, NEW other \in Texts, Lists!TokenCovers(one \o Guard, other)
  PROVE  \E u \in Texts : /\ other = u \o Guard
                          /\ \A t \in Texts : Lists!GlobMatch(u, t) => Lists!GlobMatch(one, t)
<1>1. Guard \in Texts /\ Guard # <<>> /\ ~Lists!HasGlob(Guard)
  BY GuardIsPlain DEF Texts, PlainTexts
<1>2. one \o Guard # Lists!Lone
  <2>1. SUFFICES ASSUME one \o Guard = Lists!Lone PROVE FALSE
    OBVIOUS
  <2>2. Len(Guard) >= 1 /\ (one \o Guard)[Len(one) + Len(Guard)] = Guard[Len(Guard)]
    BY <1>1 DEF Texts
  <2>3. Len(one) + Len(Guard) = 1
    <3>1. Len(one \o Guard) = Len(one) + Len(Guard)
      BY <1>1 DEF Texts
    <3>2. Len(Lists!Lone) = 1
      BY DEF Lists!Lone
    <3> QED
      BY <2>1, <3>1, <3>2
  <2>4. Guard[Len(Guard)] = "*" /\ Len(Guard) \in DOMAIN Guard
    BY <2>1, <2>2, <2>3, <1>1 DEF Texts, Lists!Lone
  <2> QED
    BY <2>4, <1>1 DEF Lists!HasGlob
<1>3. CASE Lists!HasGlob(other)
  BY <1>2, <1>3 DEF Lists!TokenCovers
<1>4. CASE ~Lists!HasGlob(other)
  <2>1. PICK u \in Texts : other = u \o Guard /\ Lists!GlobMatch(one, u)
    BY <1>1, <1>4, PlainEnd DEF Lists!TokenCovers
  <2>2. ~Lists!HasGlob(u)
    <3>1. \A i \in DOMAIN u : i \in DOMAIN other /\ other[i] = u[i]
      BY <2>1, <1>1 DEF Texts
    <3> QED
      BY <3>1, <1>4 DEF Lists!HasGlob
  <2> QED
    BY <2>1, <2>2, PlainText
<1> QED
  BY <1>3, <1>4

-----------------------------------------------------------------------------

LEMMA Prefix ==
  ASSUME NEW S, NEW s \in Seq(S), NEW n \in 0 .. Len(s)
  PROVE  /\ Len(SubSeq(s, 1, n)) = n /\ DOMAIN SubSeq(s, 1, n) = 1 .. n
         /\ \A i \in 1 .. n : SubSeq(s, 1, n)[i] = s[i]
<1> QED
  OBVIOUS

\* The words that a command pattern fixes, and what follows its program.
LEMMA FixedWords ==
  ASSUME NEW c \in Seq(Texts), Lists!Fixed(c) # <<>>
  PROVE  /\ c # <<>> /\ Len(Lists!Fixed(c)) \in Nat \ {0}
         /\ Lists!Fixed(c)[1] = c[1]
         /\ Lists!IsOpen(Tail(c)) <=> Lists!IsOpen(c)
         /\ Len(Lists!Fixed(Tail(c))) = Len(Lists!Fixed(c)) - 1
         /\ DOMAIN Lists!Fixed(Tail(c)) = 1 .. Len(Lists!Fixed(c)) - 1
         /\ \A i \in 2 .. Len(Lists!Fixed(c)) :
              /\ Lists!Fixed(c)[i] \in Texts
              /\ Lists!Fixed(Tail(c))[i - 1] = Lists!Fixed(c)[i]
<1>1. CASE Lists!IsOpen(c)
  <2>1. c # <<>> /\ c[Len(c)] = Lists!Lone /\ Lists!Fixed(c) = SubSeq(c, 1, Len(c) - 1)
    BY <1>1 DEF Lists!IsOpen, Lists!Fixed
  <2>2. Len(c) \in Nat /\ Len(c) >= 2
    BY <2>1
  <2>3. /\ Tail(c) # <<>> /\ Len(Tail(c)) = Len(c) - 1 /\ Tail(c)[Len(c) - 1] = c[Len(c)]
        /\ Tail(c) \in Seq(Texts)
    BY <2>2
  <2>4. Lists!IsOpen(Tail(c)) /\ Lists!Fixed(Tail(c)) = SubSeq(Tail(c), 1, Len(c) - 2)
    BY <2>1, <2>2, <2>3 DEF Lists!IsOpen, Lists!Fixed
  <2>5. \A i \in 2 .. Len(c) - 1 : Tail(c)[i - 1] = c[i] /\ c[i] \in Texts
    BY <2>2
  <2>6. /\ Len(Lists!Fixed(c)) = Len(c) - 1
        /\ \A i \in 1 .. Len(c) - 1 : Lists!Fixed(c)[i] = c[i]
    BY <2>1, <2>2
  <2>7. /\ Len(Lists!Fixed(Tail(c))) = Len(c) - 2
        /\ DOMAIN Lists!Fixed(Tail(c)) = 1 .. Len(c) - 2
        /\ \A i \in 1 .. Len(c) - 2 : Lists!Fixed(Tail(c))[i] = Tail(c)[i]
    <3>1. Len(c) - 2 \in 0 .. Len(Tail(c))
      BY <2>2, <2>3
    <3>2. \A n \in 0 .. Len(Tail(c)) :
            /\ Len(SubSeq(Tail(c), 1, n)) = n /\ DOMAIN SubSeq(Tail(c), 1, n) = 1 .. n
            /\ \A i \in 1 .. n : SubSeq(Tail(c), 1, n)[i] = Tail(c)[i]
      BY <2>3, Prefix
    <3> QED
      BY <3>1, <3>2, <2>4
  <2>8. \A i \in 2 .. Len(Lists!Fixed(c)) :
          /\ Lists!Fixed(c)[i] \in Texts
          /\ Lists!Fixed(Tail(c))[i - 1] = Lists!Fixed(c)[i]
    <3> SUFFICES ASSUME NEW i \in 2 .. Len(c) - 1
                 PROVE  /\ Lists!Fixed(c)[i] \in Texts
                        /\ Lists!Fixed(Tail(c))[i - 1] = Lists!Fixed(c)[i]
      BY <2>6
    <3>1. i - 1 \in 1 .. Len(c) - 2 /\ i \in 1 .. Len(c) - 1
      BY <2>2
    <3> QED
      BY <3>1, <2>5, <2>6, <2>7
  <2>9. 1 \in 1 .. Len(c) - 1 /\ Len(c) - 1 \in Nat \ {0} /\ Len(c) - 2 = (Len(c) - 1) - 1
    BY <2>2
  <2> QED
    BY <2>1, <2>4, <2>6, <2>7, <2>8, <2>9, <1>1
<1>2. CASE ~Lists!IsOpen(c)
  <2>1. c # <<>> /\ c[Len(c)] # Lists!Lone /\ Lists!Fixed(c) = c /\ Len(c) \in Nat \ {0}
    BY <1>2 DEF Lists!IsOpen, Lists!Fixed
  <2>2. /\ Len(Tail(c)) = Len(c) - 1 /\ DOMAIN Tail(c) = 1 .. Len(c) - 1
        /\ \A i \in 2 .. Len(c) : Tail(c)[i - 1] = c[i] /\ c[i] \in Texts
    BY <2>1
  <2>3. ~Lists!IsOpen(Tail(c))
    <3>1. SUFFICES ASSUME Tail(c) # <<>> PROVE Tail(c)[Len(Tail(c))] # Lists!Lone
      BY DEF Lists!IsOpen
    <3>2. Len(c) >= 2 /\ Tail(c)[Len(c) - 1] = c[Len(c)]
      BY <3>1, <2>1
    <3> QED
      BY <3>2, <2>1, <2>2
  <2>4. Lists!Fixed(Tail(c)) = Tail(c)
    BY <2>3 DEF Lists!Fixed
  <2> QED
    BY <2>1, <2>2, <2>3, <2>4, <1>2
<1> QED
  BY <1>1, <1>2

\* A command pattern allows each command that one it covers allows.
LEMMA CommandCoversAll ==
  ASSUME NEW p \in Seq(Texts), NEW c \in Seq(Texts), NEW argv \in Seq(Texts),
         Lists!CommandCovers(p, c), Lists!ArgvMatches(c, argv, FALSE)
  PROVE  Lists!ArgvMatches(p, argv, FALSE)
<1> DEFINE pf == Lists!Fixed(p)
           cf == Lists!Fixed(c)
<1>1. /\ pf # <<>> /\ cf # <<>> /\ pf[1] = cf[1]
      /\ Lists!IsOpen(c) => Lists!IsOpen(p)
      /\ IF Lists!IsOpen(p) THEN Len(cf) >= Len(pf) ELSE Len(cf) = Len(pf)
      /\ \A i \in 2 .. Len(pf) : Lists!TokenCovers(pf[i], cf[i])
  BY DEF Lists!CommandCovers
<1> DEFINE pt == Lists!Fixed(Tail(p))
           ct == Lists!Fixed(Tail(c))
<1>2. /\ argv # <<>> /\ c[1] = argv[1]
      /\ IF Lists!IsOpen(Tail(c)) THEN Len(argv) - 1 >= Len(ct) ELSE Len(argv) - 1 = Len(ct)
      /\ \A i \in DOMAIN ct : Lists!GlobMatch(ct[i], argv[i + 1])
  BY DEF Lists!ArgvMatches
<1>3. /\ Len(pf) \in Nat \ {0} /\ pf[1] = p[1] /\ Len(pt) = Len(pf) - 1
      /\ Lists!IsOpen(Tail(p)) <=> Lists!IsOpen(p)
      /\ DOMAIN pt = 1 .. Len(pf) - 1
      /\ \A i \in 2 .. Len(pf) : pf[i] \in Texts /\ pt[i - 1] = pf[i]
  BY <1>1, FixedWords
<1>4. /\ Len(cf) \in Nat \ {0} /\ cf[1] = c[1] /\ Len(ct) = Len(cf) - 1
      /\ Lists!IsOpen(Tail(c)) <=> Lists!IsOpen(c)
      /\ DOMAIN ct = 1 .. Len(cf) - 1
      /\ \A i \in 2 .. Len(cf) : cf[i] \in Texts /\ ct[i - 1] = cf[i]
  BY <1>1, FixedWords
<1> HIDE DEF pf, cf, pt, ct
<1>5. p[1] = argv[1]
  BY <1>1, <1>2, <1>3, <1>4
<1>6. Len(argv) \in Nat /\ Len(cf) >= Len(pf) /\ Len(argv) >= Len(cf)
  BY <1>1, <1>2, <1>3, <1>4
<1>7. IF Lists!IsOpen(Tail(p)) THEN Len(argv) - 1 >= Len(pt) ELSE Len(argv) - 1 = Len(pt)
  BY <1>1, <1>2, <1>3, <1>4, <1>6
<1>8. ASSUME NEW i \in DOMAIN pt PROVE Lists!GlobMatch(pt[i], argv[i + 1])
  <2>1. /\ i + 1 \in 2 .. Len(pf) /\ i + 1 \in 2 .. Len(cf) /\ i \in DOMAIN ct
        /\ (i + 1) - 1 = i /\ i + 1 \in 1 .. Len(argv)
    BY <1>3, <1>4, <1>6, <1>8
  <2>2. pt[i] = pf[i + 1] /\ ct[i] = cf[i + 1] /\ pf[i + 1] \in Texts /\ cf[i + 1] \in Texts
    BY <2>1, <1>3, <1>4
  <2>3. argv[i + 1] \in Texts
    BY <2>1
  <2>4. Lists!TokenCovers(pf[i + 1], cf[i + 1]) /\ Lists!GlobMatch(cf[i + 1], argv[i + 1])
    BY <2>1, <2>2, <1>1, <1>2
  <2> QED
    BY <2>2, <2>3, <2>4, TokenCoversAll
<1> QED
  BY <1>2, <1>5, <1>7, <1>8 DEF Lists!ArgvMatches, pt

LEMMA PrefixOfBoth ==
  ASSUME NEW S, NEW s \in Seq(S), NEW t \in Seq(S)
  PROVE  Len(s) \in 0 .. Len(s \o t) /\ s = SubSeq(s \o t, 1, Len(s))
<1>1. Len(s) \in 0 .. Len(s \o t) /\ Len(SubSeq(s \o t, 1, Len(s))) = Len(s)
  OBVIOUS
<1>2. \A i \in 1 .. Len(s) : SubSeq(s \o t, 1, Len(s))[i] = s[i]
  OBVIOUS
<1>3. SubSeq(s \o t, 1, Len(s)) \in Seq(S)
  OBVIOUS
<1> QED
  BY <1>1, <1>2, <1>3, SeqEqual

LEMMA SameEnd ==
  ASSUME NEW S, NEW s \in Seq(S), NEW t \in Seq(S), NEW e \in Seq(S), s \o e = t \o e
  PROVE  s = t
<1>1. Len(s) = Len(t)
  BY Len(s \o e) = Len(s) + Len(e), Len(t \o e) = Len(t) + Len(e)
<1>2. s = SubSeq(s \o e, 1, Len(s)) /\ t = SubSeq(t \o e, 1, Len(t))
  BY PrefixOfBoth
<1> QED
  BY <1>1, <1>2

\* A pattern allows each call that one it covers allows, but for a name that
\* reaches into the text of a guard.
LEMMA PatternCoversAll ==
  ASSUME NEW p \in Patterns, NEW c \in Patterns, NEW q \in Requests,
         ~p.deny, Lists!PatternCovers(p, c), Lists!Allows(c, q),
         ~(p.kind = "name" /\ c.kind = "guarded")
  PROVE  Lists!Allows(p, q)
<1>1. /\ p.kind \in Lists!Kinds /\ p.words \in Seq(Texts) /\ p.words[1] \in Texts
      /\ c.kind \in Lists!Kinds /\ c.words \in Seq(Texts) /\ c.words[1] \in Texts
  <2>1. /\ p \in [deny : BOOLEAN, kind : Lists!Kinds, words : Seq(Texts)] /\ p.words # <<>>
        /\ c \in [deny : BOOLEAN, kind : Lists!Kinds, words : Seq(Texts)] /\ c.words # <<>>
    BY PatternsAreSplit
  <2> QED
    BY <2>1
<1>2. q.tool \in Texts /\ q.argv \in Seq(Texts)
  <2>1. q \in [tool : PlainTexts, safe : BOOLEAN, argv : Seq(PlainTexts)]
    BY RequestsArePlain
  <2>2. PlainTexts \subseteq Texts
    BY DEF PlainTexts, Texts
  <2>3. \A S, T : S \subseteq T => Seq(S) \subseteq Seq(T)
    OBVIOUS
  <2> QED
    BY <2>1, <2>2, <2>3
<1>3. Lists!PatternMatches(c, q, FALSE)
  BY DEF Lists!Allows
<1> SUFFICES Lists!PatternMatches(p, q, FALSE)
  BY DEF Lists!Allows
<1> DEFINE pw == p.words[1]
           cw == c.words[1]
<1>4. CASE p.kind = "command"
  <2>1. c.kind = "command" /\ Lists!CommandCovers(p.words, c.words)
    BY <1>1, <1>4, Zenon DEF Lists!PatternCovers
  <2>2. q.tool = Runner /\ Lists!ArgvMatches(c.words, q.argv, FALSE)
    BY <1>3, <2>1 DEF Lists!PatternMatches
  <2>3. Lists!ArgvMatches(p.words, q.argv, FALSE)
    BY <1>1, <1>2, <2>1, <2>2, CommandCoversAll
  <2> QED
    BY <1>4, <2>2, <2>3 DEF Lists!PatternMatches
<1>5. CASE c.kind = "command" /\ p.kind # "command"
  <2>1. p.kind = "name" /\ Lists!GlobMatch(pw, Runner)
    BY <1>5 DEF Lists!PatternCovers
  <2>2. q.tool = Runner
    BY <1>3, <1>5 DEF Lists!PatternMatches
  <2> QED
    BY <2>1, <2>2 DEF Lists!PatternMatches
<1>6. CASE c.kind = "name" /\ p.kind = "name"
  <2>1. Lists!TokenCovers(pw, cw) /\ Lists!GlobMatch(cw, q.tool)
    BY <1>3, <1>6 DEF Lists!PatternCovers, Lists!TextOf, Lists!PatternMatches
  <2>2. Lists!GlobMatch(pw, q.tool)
    BY <1>1, <1>2, <2>1, TokenCoversAll
  <2> QED
    BY <1>6, <2>2 DEF Lists!PatternMatches
<1>7. CASE c.kind = "name" /\ p.kind = "guarded"
  <2>1. Lists!TokenCovers(pw \o Guard, cw)
    BY <1>7 DEF Lists!PatternCovers, Lists!TextOf
  <2>2. PICK u \in Texts : cw = u \o Guard
    BY <1>1, <2>1, GuardCovers
  <2>3. Guard \in Seq(Letters)
    BY GuardIsPlain DEF PlainTexts
  <2>4. Len(u) \in 0 .. Len(cw) /\ u = SubSeq(cw, 1, Len(u))
    BY <2>2, <2>3, PrefixOfBoth DEF Texts
  <2> QED
    BY <1>7, <2>2, <2>4, PatternsAreSplit
<1>8. CASE c.kind = "guarded" /\ p.kind = "guarded"
  <2>1. /\ Lists!TokenCovers(pw \o Guard, cw \o Guard)
        /\ Lists!GlobMatch(cw, q.tool) /\ q.safe
    BY <1>3, <1>8 DEF Lists!PatternCovers, Lists!TextOf, Lists!PatternMatches
  <2>2. Guard \in Texts
    BY GuardIsPlain DEF PlainTexts, Texts
  <2>3. cw \o Guard \in Texts
    BY <1>1, <2>2 DEF Texts
  <2>4. PICK u \in Texts :
          /\ cw \o Guard = u \o Guard
          /\ \A t \in Texts : Lists!GlobMatch(u, t) => Lists!GlobMatch(pw, t)
    BY <1>1, <2>1, <2>3, GuardCovers
  <2>5. cw = u
    BY <1>1, <2>2, <2>4, SameEnd DEF Texts
  <2> QED
    BY <1>2, <1>8, <2>1, <2>4, <2>5 DEF Lists!PatternMatches
<1> QED
  BY <1>1, <1>4, <1>5, <1>6, <1>7, <1>8 DEF Lists!Kinds

\* A list allows each call that an allow allows which it covers.
LEMMA ListCoversAll ==
  ASSUME NEW list \in SUBSET Patterns, NEW c \in Patterns, NEW q \in Requests,
         Lists!ListCovers(list, c), Lists!Allows(c, q),
         \A p \in list : ~(/\ p.kind = "name" /\ c.kind = "guarded" /\ ~p.deny
                           /\ Lists!PatternCovers(p, c) /\ ~Lists!Allows(p, q))
  PROVE  \E p \in list :
           /\ Lists!Allows(p, q)
           /\ (Lists!HasCommandDeny(list) /\ c.kind = "command") => p.kind = "command"
<1>1. PICK p \in list :
        /\ ~p.deny
        /\ (Lists!HasCommandDeny(list) /\ c.kind = "command") => p.kind = "command"
        /\ Lists!PatternCovers(p, c)
  BY DEF Lists!ListCovers
<1>2. Lists!Allows(p, q)
  BY <1>1, PatternCoversAll
<1> QED
  BY <1>1, <1>2

-----------------------------------------------------------------------------

\* Where a child was started with patterns of its own, its parent's list covers
\* the allows among them and it has the parent's denies.
OwnList == IF asked = {} THEN parent ELSE Lists!WithDenies(asked)

ListsInv ==
  /\ parent \subseteq Patterns /\ asked \subseteq Patterns
  /\ \/ child.list = {}
     \/ /\ child.list \in {OwnList, OwnList \cup {Lists!SubmitPattern}}
        /\ ~role => child.list = OwnList
        /\ \A c \in asked : ~c.deny => Lists!ListCovers(parent, c)

LEMMA NothingMatches == ASSUME NEW q PROVE Lists!Verdict({}, q) # "allow"
<1> QED
  BY DEF Lists!Verdict

\* The bare name of the handoff lets no other tool, and changes nothing else.
LEMMA SubmitLetsItself ==
  ASSUME NEW list, NEW q \in Requests, q.tool # SubmitTool,
         Lists!Verdict(list \cup {Lists!SubmitPattern}, q) = "allow"
  PROVE  Lists!Verdict(list, q) = "allow"
<1> DEFINE s == Lists!SubmitPattern
           more == list \cup {s}
<1>1. s.deny = FALSE /\ s.kind = "name" /\ s.words[1] = SubmitTool
  BY DEF Lists!SubmitPattern
<1>2. SubmitTool \in Texts /\ q.tool \in Texts /\ ~Lists!HasGlob(SubmitTool)
  <2>1. q \in [tool : PlainTexts, safe : BOOLEAN, argv : Seq(PlainTexts)]
    BY RequestsArePlain
  <2>2. PlainTexts \subseteq Texts
    BY DEF PlainTexts, Texts
  <2> QED
    BY <2>1, <2>2, NamesArePlain
<1>3. ~Lists!Allows(s, q)
  <2> SUFFICES ASSUME Lists!GlobMatch(SubmitTool, q.tool) PROVE FALSE
    BY <1>1 DEF Lists!Allows, Lists!PatternMatches
  <2> QED
    BY <1>2, PlainText
<1> HIDE DEF s
<1>4. /\ Lists!HasCommandDeny(more) <=> Lists!HasCommandDeny(list)
      /\ (\E p \in more : p.kind = "command" /\ Lists!Allows(p, q))
           <=> \E p \in list : p.kind = "command" /\ Lists!Allows(p, q)
      /\ (\E p \in more : Lists!Allows(p, q)) <=> \E p \in list : Lists!Allows(p, q)
      /\ (\E p \in list : Lists!Denies(p, q)) => \E p \in more : Lists!Denies(p, q)
  BY <1>1, <1>3 DEF Lists!HasCommandDeny
<1> HIDE DEF more
<1>5. Lists!Verdict(more, q) = "allow"
  BY DEF more, s
<1> QED
  BY <1>4, <1>5 DEF Lists!Verdict

\* What the list that was asked for allows, a glob into a guard aside.
LEMMA CoveredIsAllowed ==
  ASSUME parent \subseteq Patterns, asked \subseteq Patterns, NEW q \in Requests,
         \A c \in asked : ~c.deny => Lists!ListCovers(parent, c),
         Lists!Verdict(OwnList, q) = "allow", ~Lists!ReachesIntoGuard(q)
  PROVE  Lists!Verdict(parent, q) = "allow"
<1>1. CASE asked = {}
  BY <1>1 DEF OwnList
<1>2. CASE asked # {}
  <2> DEFINE new == asked \cup {p \in parent : p.deny}
  <2> Lists!Verdict(new, q) = "allow"
    BY <1>2 DEF OwnList, Lists!WithDenies
  <2>1. /\ ~\E p \in new : Lists!Denies(p, q)
        /\ ~(/\ Lists!HasCommandDeny(new) /\ q.argv # <<>>
             /\ \/ q.argv[1] \in Wrappers
                \/ ~\E p \in new : p.kind = "command" /\ Lists!Allows(p, q))
        /\ \E p \in new : Lists!Allows(p, q)
    BY DEF Lists!Verdict
  <2>2. ~\E p \in parent : Lists!Denies(p, q)
    BY <2>1 DEF Lists!Denies
  <2>3. Lists!HasCommandDeny(parent) => Lists!HasCommandDeny(new)
    BY DEF Lists!HasCommandDeny
  <2>4. ASSUME NEW c \in new, Lists!Allows(c, q)
        PROVE  \E p \in parent :
                 /\ Lists!Allows(p, q)
                 /\ (Lists!HasCommandDeny(parent) /\ c.kind = "command") => p.kind = "command"
    <3>1. ~c.deny
      BY <2>4 DEF Lists!Allows
    <3>2. c \in asked /\ c \in Patterns /\ parent \in SUBSET Patterns
      BY <3>1
    <3>3. Lists!ListCovers(parent, c)
      BY <3>1, <3>2
    <3>4. \A p \in parent : ~(/\ p.kind = "name" /\ c.kind = "guarded" /\ ~p.deny
                              /\ Lists!PatternCovers(p, c) /\ ~Lists!Allows(p, q))
      BY <2>4, <3>2 DEF Lists!ReachesIntoGuard
    <3> HIDE DEF new
    <3> QED
      BY <2>4, <3>2, <3>3, <3>4, ListCoversAll
  <2> HIDE DEF new
  <2>5. \E p \in parent : Lists!Allows(p, q)
    BY <2>1, <2>4
  <2>6. ASSUME Lists!HasCommandDeny(parent), q.argv # <<>>
        PROVE  /\ q.argv[1] \notin Wrappers
               /\ \E p \in parent : p.kind = "command" /\ Lists!Allows(p, q)
    BY <2>1, <2>3, <2>4, <2>6
  <2> QED
    BY <2>2, <2>5, <2>6 DEF Lists!Verdict
<1> QED
  BY <1>1, <1>2

\* A command deny may make a call that another list allows one to ask for: so
\* the handoff, where the parent's list says no more than "ask" or nothing.
LEMMA DeniedStaysDenied ==
  ASSUME NEW q \in Requests, NEW list, {p \in parent : p.deny} \subseteq list,
         Lists!Verdict(list, q) = "allow"
  PROVE  Lists!Verdict(parent, q) # "deny"
<1>1. ~\E p \in list : Lists!Denies(p, q)
  BY DEF Lists!Verdict
<1>2. ~\E p \in parent : Lists!Denies(p, q)
  BY <1>1 DEF Lists!Denies
<1> QED
  BY <1>2 DEF Lists!Verdict

LEMMA CoveredIsNarrower == ListsInv => ChildIsNarrower
<1> SUFFICES ASSUME ListsInv, NEW q \in Requests, Lists!Verdict(child.list, q) = "allow"
             PROVE  \/ Lists!Verdict(parent, q) = "allow"
                    \/ Lists!Verdict(parent, q) # "deny" /\ role /\ q.tool = SubmitTool
                    \/ Lists!ReachesIntoGuard(q)
  BY Zenon DEF ChildIsNarrower, Lists!ChildIsNarrower
<1>1. CASE child.list = {}
  BY <1>1, NothingMatches
<1>2. CASE /\ child.list \in {OwnList, OwnList \cup {Lists!SubmitPattern}}
           /\ ~role => child.list = OwnList
           /\ \A c \in asked : ~c.deny => Lists!ListCovers(parent, c)
  <2>1. CASE Lists!Verdict(OwnList, q) = "allow"
    BY <1>2, <2>1, CoveredIsAllowed DEF ListsInv
  <2>2. CASE Lists!Verdict(OwnList, q) # "allow"
    <3>1. child.list = OwnList \cup {Lists!SubmitPattern} /\ role
      BY <1>2, <2>2
    <3>2. q.tool = SubmitTool
      BY <2>2, <3>1, SubmitLetsItself
    <3>3. {p \in parent : p.deny} \subseteq child.list
      BY <3>1 DEF OwnList, Lists!WithDenies
    <3> QED
      BY <3>1, <3>2, <3>3, DeniedStaysDenied
  <2> QED
    BY <2>1, <2>2
<1> QED
  BY <1>1, <1>2 DEF ListsInv

LEMMA OfPatterns == ASSUME NEW list \in Lists!Lists PROVE list \subseteq Patterns
<1>1. ASSUME NEW f \in [1 .. MaxListed -> Patterns], list = {f[i] : i \in 1 .. MaxListed}
      PROVE  list \subseteq Patterns
  BY <1>1
<1> QED
  BY <1>1, Zenon DEF Lists!Lists

LEMMA NextKeepsLists ==
  ASSUME ListsInv, [Lists!Next]_listVars PROVE ListsInv'
<1>1. CASE UNCHANGED listVars
  <2>1. parent' = parent /\ asked' = asked /\ role' = role /\ child' = child
    BY <1>1 DEF listVars
  <2>2. OwnList' = OwnList /\ Lists!SubmitPattern' = Lists!SubmitPattern
    BY <2>1 DEF OwnList, Lists!WithDenies, Lists!SubmitPattern
  <2>3. ASSUME NEW c PROVE Lists!ListCovers(parent, c)' <=> Lists!ListCovers(parent, c)
    BY <2>1 DEF Lists!ListCovers, Lists!HasCommandDeny
  <2> QED
    BY <2>1, <2>2, <2>3, Zenon DEF ListsInv
<1>2. CASE Lists!Next
  <2>1. PICK requested \in Lists!Lists : Lists!Start(requested)
    BY <1>2 DEF Lists!Next
  <2>2. requested \subseteq Patterns
    BY OfPatterns
  <2>3. parent' = parent /\ asked' = requested /\ role' \in BOOLEAN
    BY <2>1 DEF Lists!Start
  <2>4. CASE \E c \in requested : ~c.deny /\ ~Lists!ListCovers(parent, c)
    <3>1. child' = Lists!Refused
      BY <2>1, <2>4 DEF Lists!Start
    <3> QED
      BY <2>2, <2>3, <3>1 DEF ListsInv, Lists!Refused
  <2>5. CASE ~\E c \in requested : ~c.deny /\ ~Lists!ListCovers(parent, c)
    <3>1. OwnList' = IF requested = {} THEN parent ELSE Lists!WithDenies(requested)
      BY <2>3 DEF OwnList, Lists!WithDenies
    <3>2. child'.list = OwnList' \cup (IF role' THEN {Lists!SubmitPattern} ELSE {})
      BY <2>1, <2>5, <3>1 DEF Lists!Start
    <3>3. /\ child'.list \in {OwnList', OwnList' \cup {Lists!SubmitPattern}}
          /\ ~role' => child'.list = OwnList'
      BY <2>3, <3>2
    <3>4. \A c \in asked' : ~c.deny => Lists!ListCovers(parent, c)'
      BY <2>3, <2>5 DEF Lists!ListCovers, Lists!HasCommandDeny
    <3>5. Lists!SubmitPattern' = Lists!SubmitPattern
      BY DEF Lists!SubmitPattern
    <3> QED
      BY <2>2, <2>3, <3>3, <3>4, <3>5, Zenon DEF ListsInv
  <2> QED
    BY <2>4, <2>5
<1> QED
  BY <1>1, <1>2

-----------------------------------------------------------------------------
(* The agents *)

\* No tool has an effect unless a human or a list has let it, a destructive
\* one only a human, and not one that a list denies where the process runs on
\* its own; a process that plans only reads (permission.rs, approval.rs and
\* the faces of tole-cli): for every process, from its flags on.
THEOREM EachEffectIsAllowedHolds == AgentsSpec => []EachEffectIsAllowed
<1>1. AgentsInit => GateInv
  BY InitGate DEF AgentsInit
<1>2. GateInv /\ [AgentsNext]_agentVars => GateInv'
  <2> SUFFICES ASSUME GateInv, [AgentsNext]_agentVars PROVE GateInv'
    OBVIOUS
  <2>1. [Gate!Next]_gateVars
    BY DEF AgentsNext, agentVars
  <2> QED
    BY <2>1, NextKeepsGate
<1> QED
  BY <1>1, <1>2, GateIsSound, PTL DEF AgentsSpec

\* The config of a project is used, and a store keeps its fingerprint, only
\* after the user has said yes to that content (config_apply.rs, trust.rs);
\* a setting comes from the highest layer that has it, and a key goes to the
\* address it was set with (config.rs): for every number of projects,
\* contents and processes, and all interleavings of their steps.
THEOREM ConfigIsSoundHolds == AgentsSpec => []ConfigIsSound
<1>1. AgentsInit => TrustInv /\ KeysInv
  BY InitTrust, InitKeys DEF AgentsInit
<1>2. TrustInv /\ KeysInv /\ [AgentsNext]_agentVars => TrustInv' /\ KeysInv'
  <2> SUFFICES ASSUME TrustInv, KeysInv, [AgentsNext]_agentVars
               PROVE  TrustInv' /\ KeysInv'
    OBVIOUS
  <2>1. [Trust!Next]_trustVars /\ [Keys!Next]_keyVars
    BY DEF AgentsNext, agentVars
  <2> QED
    BY <2>1, NextKeepsTrust, NextKeepsKeys
<1>3. TrustInv /\ KeysInv => ConfigIsSound
  BY TrustedIsApproved DEF KeysInv, ConfigIsSound
<1> QED
  BY <1>1, <1>2, <1>3, PTL DEF AgentsSpec

\* Sessions that start children at once keep to their cap together, and the
\* summary of a child is returned before it is cleaned or marked as consumed
\* (agents.rs): for every number of sessions and children, every cap, and
\* deaths of sessions at any step.
THEOREM PollsAreSoundHolds == AgentsSpec => []PollsAreSound
<1>1. AgentsInit => PollsInv
  BY InitPolls DEF AgentsInit
<1>2. PollsInv /\ [AgentsNext]_agentVars => PollsInv'
  <2> SUFFICES ASSUME PollsInv, [AgentsNext]_agentVars PROVE PollsInv'
    OBVIOUS
  <2>1. [Polls!Next]_pollVars
    BY DEF AgentsNext, agentVars
  <2> QED
    BY <2>1, NextKeepsPolls
<1>3. PollsInv => PollsAreSound
  BY FewAreUp DEF PollsAreSound
<1> QED
  BY <1>1, <1>2, <1>3, PTL DEF AgentsSpec

\* A path that a child has read or written is watched until the first write of
\* a sibling that follows, which it is told of, however the log was cut into
\* polls and whatever fragments killed writers left in it (sibling_watch.rs):
\* for every number of children, lines and paths, as long as the paths fit.
THEOREM TrackedOrToldHolds == AgentsSpec => []TrackedOrTold
<1>1. AgentsInit => WatchInv
  BY InitWatch DEF AgentsInit
<1>2. WatchInv /\ [AgentsNext]_agentVars => WatchInv'
  <2> SUFFICES ASSUME WatchInv, [AgentsNext]_agentVars PROVE WatchInv'
    OBVIOUS
  <2>1. [Watch!Next]_watchVars
    BY DEF AgentsNext, agentVars
  <2> QED
    BY <2>1, NextKeepsWatch
<1> QED
  BY <1>1, <1>2, WatchIsSound, PTL DEF AgentsSpec

\* A child's list allows no call that its parent's does not, but for a glob
\* that reaches into the guard's text and for the handoff of a child with a
\* role, if no deny of the parent's is of it (approval.rs, agents.rs): for all
\* lists of all patterns, and all calls.
THEOREM ChildIsNarrowerHolds == AgentsSpec => []ChildIsNarrower
<1>1. AgentsInit => ListsInv
  <2> SUFFICES ASSUME AgentsInit PROVE ListsInv
    OBVIOUS
  <2>1. asked = {} /\ child.list = {}
    BY DEF AgentsInit, Lists!Init, Lists!None
  <2>2. parent = {} \/ parent \in Lists!Lists
    BY DEF AgentsInit, Lists!Init
  <2> QED
    BY <2>1, <2>2, OfPatterns DEF ListsInv
<1>2. ListsInv /\ [AgentsNext]_agentVars => ListsInv'
  <2> SUFFICES ASSUME ListsInv, [AgentsNext]_agentVars PROVE ListsInv'
    OBVIOUS
  <2>1. [Lists!Next]_listVars
    BY DEF AgentsNext, agentVars
  <2> QED
    BY <2>1, NextKeepsLists
<1> QED
  BY <1>1, <1>2, CoveredIsNarrower, PTL DEF AgentsSpec

=============================================================================
