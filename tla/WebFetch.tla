------------------------------ MODULE WebFetch ------------------------------
(***************************************************************************)
(* The tools web_fetch and web_search of crates/tole-core/src/web.rs: the  *)
(* configuration of the search, the requests that they send, the redirects *)
(* that a fetch follows and what it makes of the last response.            *)
(*                                                                         *)
(* A host is resolved for each request, and what it resolves to may have   *)
(* changed since the last one.  The ranges of addresses are two here,      *)
(* "public" and "private"; the text of a page is not modelled.             *)
(***************************************************************************)
EXTENDS Naturals, Sequences, FiniteSets

CONSTANTS
  Hosts,         \* their names
  Backend,       \* the host of the search backend
  MaxRedirects   \* MAX_REDIRECTS

ASSUME RedirectsAreCounted == MaxRedirects \in Nat

VARIABLES
  setup,      \* the environment
  stage,      \* of the tool: what it does next
  tool,       \* "web_fetch", "web_search" or "none"
  url,        \* the URL of the request at hand
  first,      \* the scheme of the first one
  redirects,  \* that were followed
  response,   \* of the last request
  sent,       \* the requests of the call
  result      \* what the model is told

vars == <<setup, stage, tool, url, first, redirects, response, sent, result>>
callVars == <<tool, url, first, redirects, response, sent, result>>

-----------------------------------------------------------------------------
(* The configuration of the search (WebSearchTool::from_lookup()) *)

\* `headers`: what TOLE_WEB_SEARCH_HEADERS says, as parse_headers() and
\* expand_vars() see it; `other`: the method and the fields.
HeaderCases == {"none", "set", "reserved", "no_name", "unset_variable", "line_break"}
Setups ==
  [backend : {TRUE}, headers : HeaderCases, other : {"good", "bad"},
   optOut : BOOLEAN, proxy : BOOLEAN]
    \cup [backend : {FALSE}, headers : {"none"}, other : {"good"},
          optOut : BOOLEAN, proxy : BOOLEAN]

HeadersAreGood(s) == s.headers \in {"none", "set"}
SearchIsBroken(s) == s.backend /\ (~HeadersAreGood(s) \/ s.other = "bad")

\* Without a backend there is no search, and a broken configuration is told
\* before anything is asked.
Register ==
  /\ stage = "starting"
  /\ stage' = IF SearchIsBroken(setup) THEN "refused" ELSE "ready"
  /\ UNCHANGED <<setup, callVars>>

-----------------------------------------------------------------------------
(* Requests *)

Schemes == {"http", "https"}
AnyScheme == Schemes \cup {"file"}
Url(scheme, host) == [scheme |-> scheme, host |-> host]

\* What a redirect refers to: another URL, one of the same scheme (a path, a
\* host), or nothing.
NoLocation == Url("none", Backend)
Locations == {Url(s, h) : s \in AnyScheme \cup {"base"}, h \in Hosts} \cup {NoLocation}

\* What a host may resolve to.
Resolutions == (SUBSET {"public", "private"}) \ {{}}

\* vet_addrs(): one private address spoils the host.
Vetted(addresses) == setup.optOut \/ "private" \notin addresses

\* The search has no user's URL: its backend may be private.  The agent of a
\* fetch takes no proxy from the environment, whose resolver would see the
\* proxy's host only.
MayConnect(addresses) == tool = "web_search" \/ Vetted(addresses)

\* The headers go with a search, to the backend.
Headers == IF tool = "web_search" /\ setup.headers = "set" THEN {"credential"} ELSE {}

Responses ==
  [status : {"redirect"}, type : {"text"}, location : Locations]
    \cup [status : {"ok"}, type : {"text", "binary"}, location : {NoLocation}]

\* The request goes to one of the addresses that its own resolver has seen.
\* An error of the transport or a status of 400 and above ends the call.
Send ==
  /\ stage = "sending"
  /\ \E addresses \in Resolutions, r \in Responses :
       /\ MayConnect(addresses)
       /\ \E to \in addresses :
            sent' = Append(sent, [url |-> url, to |-> to, headers |-> Headers,
                                  proxied |-> setup.proxy /\ tool = "web_search"])
       /\ response' = r
  /\ stage' = "answered"
  /\ UNCHANGED <<setup, tool, url, first, redirects, result>>

Ends(r) == result' = r /\ stage' = "ready"

SendFails ==
  /\ stage = "sending"
  /\ Ends("error")
  /\ UNCHANGED <<setup, tool, url, first, redirects, response, sent>>

-----------------------------------------------------------------------------
(* web_fetch *)

Begin(t, u) ==
  /\ stage = "ready"
  /\ tool' = t /\ url' = u /\ first' = u.scheme
  /\ redirects' = 0
  /\ sent' = <<>>
  /\ result' = "none"
  /\ UNCHANGED <<setup, response>>

Fetch(u) ==
  /\ Begin("web_fetch", u)
  /\ stage' = IF u.scheme \in Schemes THEN "sending" ELSE "ready"

IsRedirect == response.status = "redirect"

\* Mutant: at the cap the loop ends and the response is taken for content.
FollowsOrFallsThrough == IsRedirect /\ redirects < MaxRedirects

MustFollow == IsRedirect

\* join_redirect(): against the URL of the response.
Joined ==
  IF response.location.scheme = "base"
  THEN Url(url.scheme, response.location.host)
  ELSE response.location

MayFollow ==
  /\ redirects < MaxRedirects
  /\ response.location # NoLocation
  /\ Joined.scheme \in Schemes
  /\ first = "https" => Joined.scheme = "https"

Follow ==
  /\ stage = "answered" /\ tool = "web_fetch"
  /\ MustFollow /\ MayFollow
  /\ url' = Joined
  /\ redirects' = redirects + 1
  /\ stage' = "sending"
  /\ UNCHANGED <<setup, tool, first, response, sent, result>>

RefuseRedirect ==
  /\ stage = "answered" /\ tool = "web_fetch"
  /\ MustFollow /\ ~MayFollow
  /\ Ends("error")
  /\ UNCHANGED <<setup, tool, url, first, redirects, response, sent>>

\* The types of text are allowed; a page that is too large is cut.
Return ==
  /\ stage = "answered" /\ tool = "web_fetch"
  /\ ~MustFollow
  /\ Ends(IF response.type = "binary" THEN "error" ELSE "content")
  /\ UNCHANGED <<setup, tool, url, first, redirects, response, sent>>

-----------------------------------------------------------------------------
(* web_search *)

Search(scheme) ==
  /\ setup.backend
  /\ Begin("web_search", Url(scheme, Backend))
  /\ stage' = "sending"

\* No redirect is followed: the body of the response is JSON or an error.
ReturnResults ==
  /\ stage = "answered" /\ tool = "web_search"
  /\ Ends("results") \/ Ends("error")
  /\ UNCHANGED <<setup, tool, url, first, redirects, response, sent>>

-----------------------------------------------------------------------------

Init ==
  /\ setup \in Setups
  /\ stage = "starting"
  /\ tool = "none" /\ url = Url("http", Backend) /\ first = "http"
  /\ redirects = 0
  /\ response = [status |-> "ok", type |-> "text", location |-> NoLocation]
  /\ sent = <<>>
  /\ result = "none"

Next ==
  \/ Register
  \/ Send \/ SendFails
  \/ \E s \in AnyScheme, h \in Hosts : Fetch(Url(s, h))
  \/ Follow \/ RefuseRedirect \/ Return
  \/ \E s \in Schemes : Search(s)
  \/ ReturnResults

Spec == Init /\ [][Next]_vars

-----------------------------------------------------------------------------
(* Properties *)

\* Each request of a fetch, the first and those of its redirects, goes to an
\* address that was looked at for this request, without a proxy and without
\* the search's headers, and in the clear only if the first one did.  What
\* the model reads comes from a response that is no redirect, after at most
\* MaxRedirects of them; the headers go to the backend only (web.rs, lines
\* 173-178, 229-236, 476-501 and 714-718).
EachFetchIsVetted ==
  /\ \A i \in DOMAIN sent :
       /\ tool = "web_fetch" =>
            /\ sent[i].to = "public" \/ setup.optOut
            /\ ~sent[i].proxied
            /\ sent[1].url.scheme = "https" => sent[i].url.scheme = "https"
       /\ sent[i].headers # {} => tool = "web_search" /\ sent[i].url.host = Backend
  /\ Len(sent) <= MaxRedirects + 1
  /\ result = "content" => (response.status = "ok" /\ url = sent[Len(sent)].url)

=============================================================================
