------------------------ MODULE RemoteApprovalsProofs ------------------------
(***************************************************************************)
(* Proofs about RemoteApprovals: for every set of sessions, calls and      *)
(* decision threads, every expiry, and every schedule of turns, decisions, *)
(* evictions and failing commits.                                          *)
(***************************************************************************)
EXTENDS RemoteApprovals, FiniteSetTheorems, TLAPS

-----------------------------------------------------------------------------
(***************************************************************************)
(* The inductive invariant.  EntriesInv: an entry is about the call that   *)
(* its id was given out for, and a pending one has not been allowed.       *)
(* CountInv: the runs of a call and the grant at hand are paid for by the  *)
(* ids that were allowed.  HandlersInv: a decision thread knows which id   *)
(* it decides on, and has recorded it once it may answer with success.     *)
(***************************************************************************)
EntriesInv ==
  /\ now \in 0 .. MaxTime
  /\ origin \in Seq(Sessions \X Calls)
  /\ Len(origin) <= MaxIds
  /\ approved \subseteq 1 .. Len(origin)
  /\ DOMAIN entries \subseteq 1 .. Len(origin)
  /\ \A i \in DOMAIN entries :
       /\ entries[i] \in Entry
       /\ origin[i] = <<entries[i].session, entries[i].call>>
       /\ entries[i].status = "pending" => i \notin approved

CountInv ==
  /\ IsFiniteSet(grants)
  /\ runs \in [Sessions \X Calls -> Nat]
  /\ RunsNeedApprovals

Deciding ==
  [at : {"decided", "waiting", "reopened", "ok", "failed", "resuming", "refused"},
   id : Ids, allow : BOOLEAN, session : Sessions]

HandlersInv ==
  /\ DOMAIN facts = Ids
  /\ DOMAIN handler = Handlers
  /\ handler = [h \in Handlers |-> handler[h]]
  /\ \A h \in Handlers :
       /\ handler[h] = Idle \/ handler[h] \in Deciding
       /\ handler[h].at \in {"ok", "resuming"} => facts[handler[h].id] # "none"

IInv == EntriesInv /\ CountInv /\ HandlersInv

\* What is left of the queue after prune_expired().
LEMMA PrunedFacts ==
  ASSUME EntriesInv
  PROVE  /\ DOMAIN PrunedEntries \subseteq DOMAIN entries
         /\ \A i \in DOMAIN PrunedEntries :
              /\ PrunedEntries[i] \in Entry
              /\ PrunedEntries[i].session = entries[i].session
              /\ PrunedEntries[i].call = entries[i].call
              /\ PrunedEntries[i].status = "pending" => entries[i].status = "pending"
         /\ PrunedGrants \subseteq grants
<1>1. /\ Retained \subseteq DOMAIN entries
      /\ DOMAIN PrunedEntries = Retained
      /\ \A i \in Retained : PrunedEntries[i] = Marked[i]
  BY DEF Retained, PrunedEntries, Restrict, Marked
<1>2. \A i \in DOMAIN entries :
        /\ Marked[i] \in Entry
        /\ Marked[i].session = entries[i].session
        /\ Marked[i].call = entries[i].call
        /\ Marked[i].status = "pending" => entries[i].status = "pending"
  BY DEF EntriesInv, Marked, Entry, Statuses
<1> QED
  BY <1>1, <1>2 DEF PrunedGrants

-----------------------------------------------------------------------------
(* Counting *)

LEMMA GrantedFinite ==
  ASSUME IsFiniteSet(grants), NEW s, NEW c
  PROVE  /\ IsFiniteSet(Granted(s, c))
         /\ Cardinality(Granted(s, c)) \in Nat
<1>1. Granted(s, c) \subseteq grants
  BY DEF Granted
<1> QED
  BY <1>1, FS_Subset, FS_CardinalityType

LEMMA AllowedFinite ==
  ASSUME EntriesInv, NEW s, NEW c
  PROVE  /\ IsFiniteSet(Allowed(s, c))
         /\ Cardinality(Allowed(s, c)) \in Nat
<1>1. Allowed(s, c) \subseteq 1 .. Len(origin)
  BY DEF Allowed, EntriesInv
<1>2. IsFiniteSet(1 .. Len(origin))
  BY FS_Interval DEF EntriesInv
<1> QED
  BY <1>1, <1>2, FS_Subset, FS_CardinalityType

\* Grants only go, and no run or approval is added.
LEMMA FewerGrants ==
  ASSUME EntriesInv, CountInv, grants' \subseteq grants, UNCHANGED <<approved, runs>>,
         \A i \in 1 .. Len(origin) : origin'[i] = origin[i]
  PROVE  CountInv'
<1>1. IsFiniteSet(grants')
  BY FS_Subset DEF CountInv
<1>2. ASSUME NEW s \in Sessions, NEW c \in Calls
      PROVE  (runs[<<s, c>>] + Cardinality(Granted(s, c)) <= Cardinality(Allowed(s, c)))'
  <2>1. Granted(s, c)' \subseteq Granted(s, c)
    BY DEF Granted
  <2>2. /\ Cardinality(Granted(s, c)') \in Nat /\ Cardinality(Granted(s, c)) \in Nat
        /\ Cardinality(Granted(s, c)') <= Cardinality(Granted(s, c))
    BY <2>1, GrantedFinite, FS_Subset, FS_CardinalityType DEF CountInv
  <2>3. Allowed(s, c)' = Allowed(s, c)
    BY DEF Allowed, EntriesInv
  <2>4. Cardinality(Allowed(s, c)) \in Nat
    BY AllowedFinite
  <2>5. runs[<<s, c>>] \in Nat
    BY DEF CountInv
  <2>6. runs[<<s, c>>] + Cardinality(Granted(s, c)) <= Cardinality(Allowed(s, c))
    BY DEF CountInv, RunsNeedApprovals
  <2>7. runs'[<<s, c>>] = runs[<<s, c>>]
    OBVIOUS
  <2> HIDE DEF Granted, Allowed
  <2> QED
    BY <2>2, <2>3, <2>4, <2>5, <2>6, <2>7
<1> QED
  BY <1>1, <1>2 DEF CountInv, RunsNeedApprovals

\* A step that touches neither the queue nor the counts.
LEMMA QueueFrame ==
  ASSUME EntriesInv, CountInv, UNCHANGED <<now, queue, ghosts>>
  PROVE  EntriesInv' /\ CountInv'
<1>1. EntriesInv'
  BY DEF EntriesInv, queue, ghosts
<1>2. CountInv'
  BY FewerGrants DEF queue, ghosts
<1> QED
  BY <1>1, <1>2

\* The queue is pruned.
LEMMA PruneKeeps ==
  ASSUME EntriesInv, CountInv, Pruned, UNCHANGED <<now, origin, ghosts>>
  PROVE  EntriesInv' /\ CountInv'
<1>1. EntriesInv'
  BY PrunedFacts DEF EntriesInv, Pruned, ghosts
<1>2. CountInv'
  BY PrunedFacts, FewerGrants DEF Pruned, ghosts
<1> QED
  BY <1>1, <1>2

\* take_one_shot(): the run is paid for by the grant that goes.
LEMMA ConsultGrantedKeeps ==
  ASSUME EntriesInv, CountInv, NEW s \in Sessions, NEW c \in Calls, ConsultGranted(s, c)
  PROVE  EntriesInv' /\ CountInv'
<1>1. /\ grants' = grants \ GrantsFor(s, c) /\ GrantsFor(s, c) # {}
      /\ UNCHANGED <<now, origin, entries, approved>>
      /\ runs' = runs \/ runs' = [runs EXCEPT ![<<s, c>>] = @ + 1]
  BY DEF ConsultGranted, TakeOneShot
<1>2. EntriesInv'
  BY <1>1 DEF EntriesInv
<1>3. CASE runs' = runs
  BY <1>1, <1>2, <1>3, FewerGrants
<1>4. CASE runs' = [runs EXCEPT ![<<s, c>>] = @ + 1]
  <2>1. IsFiniteSet(grants')
    BY <1>1, FS_Subset DEF CountInv
  <2>2. runs' \in [Sessions \X Calls -> Nat]
    BY <1>4 DEF CountInv
  <2>3. ASSUME NEW t \in Sessions, NEW d \in Calls
        PROVE  (runs[<<t, d>>] + Cardinality(Granted(t, d)) <= Cardinality(Allowed(t, d)))'
    <3>1. /\ Cardinality(Granted(t, d)) \in Nat
          /\ Cardinality(Allowed(t, d)) \in Nat
          /\ runs[<<t, d>>] \in Nat
          /\ runs[<<t, d>>] + Cardinality(Granted(t, d)) <= Cardinality(Allowed(t, d))
      BY GrantedFinite, AllowedFinite DEF CountInv, RunsNeedApprovals
    <3>2. Allowed(t, d)' = Allowed(t, d)
      BY <1>1 DEF Allowed
    <3>3. CASE <<t, d>> = <<s, c>>
      <4>1. Granted(t, d)' = {} /\ Granted(t, d) # {}
        BY <1>1, <3>3 DEF Granted, GrantsFor
      <4>2. Cardinality(Granted(t, d)') = 0 /\ Cardinality(Granted(t, d)) # 0
        BY <4>1, GrantedFinite, FS_EmptySet DEF CountInv
      <4>3. runs'[<<t, d>>] = runs[<<t, d>>] + 1
        BY <1>4, <3>3 DEF CountInv
      <4> HIDE DEF Granted, Allowed
      <4> QED
        BY <3>1, <3>2, <4>2, <4>3
    <3>4. CASE <<t, d>> # <<s, c>>
      <4>1. Granted(t, d)' = Granted(t, d)
        BY <1>1, <3>4 DEF Granted, GrantsFor
      <4>2. runs'[<<t, d>>] = runs[<<t, d>>]
        BY <1>4, <3>4 DEF CountInv
      <4> HIDE DEF Granted, Allowed
      <4> QED
        BY <3>1, <3>2, <4>1, <4>2
    <3> QED
      BY <3>3, <3>4
  <2>4. RunsNeedApprovals'
    BY <2>3 DEF RunsNeedApprovals
  <2> QED
    BY <1>2, <2>1, <2>2, <2>4 DEF CountInv
<1> QED
  BY <1>1, <1>2, <1>3, <1>4

\* queue_entry(): the new id is after every id that was allowed.
LEMMA ConsultQueuedKeeps ==
  ASSUME EntriesInv, CountInv, NEW s \in Sessions, NEW c \in Calls, ConsultQueued(s, c)
  PROVE  EntriesInv' /\ CountInv'
<1> DEFINE e == [session |-> s, call |-> c, created |-> now, status |-> "pending"]
<1>1. /\ Len(origin) < MaxIds
      /\ origin' = Append(origin, <<s, c>>)
      /\ entries' = [i \in DOMAIN PrunedEntries \cup {NextId} |->
                       IF i = NextId THEN e ELSE PrunedEntries[i]]
      /\ grants' = PrunedGrants
      /\ UNCHANGED <<now, approved, runs>>
  BY DEF ConsultQueued, Queue, ghosts
<1>2. e \in Entry /\ e.session = s /\ e.call = c
  BY DEF EntriesInv, Entry, Statuses
<1> HIDE DEF e
<1>3. /\ origin' \in Seq(Sessions \X Calls) /\ Len(origin') = NextId
      /\ origin'[NextId] = <<s, c>>
      /\ \A i \in 1 .. Len(origin) : origin'[i] = origin[i]
      /\ NextId \in Nat /\ NextId <= MaxIds /\ Len(origin) = NextId - 1
  BY <1>1, BoundsAssumption DEF EntriesInv, NextId
<1>4. DOMAIN PrunedEntries \subseteq 1 .. Len(origin)
  BY PrunedFacts DEF EntriesInv
<1>5. DOMAIN entries' = DOMAIN PrunedEntries \cup {NextId}
  BY <1>1
<1>6. ASSUME NEW i \in DOMAIN entries'
      PROVE  /\ entries'[i] \in Entry
             /\ origin'[i] = <<entries'[i].session, entries'[i].call>>
             /\ entries'[i].status = "pending" => i \notin approved'
  <2>1. CASE i = NextId
    <3>1. entries'[i] = e
      BY <1>1, <1>5, <2>1
    <3>2. i \notin approved
      BY <2>1, <1>3 DEF EntriesInv
    <3> QED
      BY <1>1, <1>2, <1>3, <2>1, <3>1, <3>2
  <2>2. CASE i # NextId
    <3>1. i \in DOMAIN PrunedEntries /\ entries'[i] = PrunedEntries[i]
      BY <1>1, <1>5, <2>2
    <3>2. /\ PrunedEntries[i] \in Entry
          /\ PrunedEntries[i].session = entries[i].session
          /\ PrunedEntries[i].call = entries[i].call
          /\ PrunedEntries[i].status = "pending" => entries[i].status = "pending"
          /\ i \in DOMAIN entries
      BY <3>1, PrunedFacts
    <3>3. /\ origin[i] = <<entries[i].session, entries[i].call>>
          /\ entries[i].status = "pending" => i \notin approved
      BY <3>2 DEF EntriesInv
    <3>4. origin'[i] = origin[i]
      BY <1>3, <1>4, <3>1
    <3> QED
      BY <1>1, <3>1, <3>2, <3>3, <3>4
  <2> QED
    BY <2>1, <2>2
<1>7. approved' \subseteq 1 .. Len(origin') /\ DOMAIN entries' \subseteq 1 .. Len(origin')
  BY <1>1, <1>3, <1>4, <1>5 DEF EntriesInv
<1>8. EntriesInv'
  BY <1>1, <1>3, <1>6, <1>7 DEF EntriesInv
<1>9. CountInv'
  BY <1>1, <1>3, PrunedFacts, FewerGrants
<1> QED
  BY <1>8, <1>9

\* ApprovalQueue::decide(): only a pending entry gives a grant, and then its
\* id is allowed for the first time.
LEMMA DecideKeeps ==
  ASSUME EntriesInv, CountInv, NEW h \in Handlers, NEW i \in Ids, NEW allow \in BOOLEAN,
         Decide(h, i, allow)
  PROVE  EntriesInv' /\ CountInv'
<1> DEFINE e == entries[i]
           one == [session |-> e.session, call |-> e.call, at |-> now]
           others == {g \in PrunedGrants : g.session # e.session \/ g.call # e.call}
<1>1. CASE ~Standing(i)
  BY <1>1, PruneKeeps DEF Decide, ghosts
<1>2. CASE Standing(i)
  <2>1. /\ i \in DOMAIN PrunedEntries
        /\ UNCHANGED <<now, origin, runs>>
        /\ entries' = [PrunedEntries EXCEPT
                         ![i].status = IF allow THEN "approved" ELSE "denied"]
        /\ grants' = IF allow THEN others \cup {one} ELSE PrunedGrants
        /\ approved' = IF allow THEN approved \cup {i} ELSE approved
    BY <1>2 DEF Decide
  <2>2. /\ i \in DOMAIN entries /\ i \notin approved /\ i \in 1 .. Len(origin)
        /\ origin[i] = <<e.session, e.call>> /\ e \in Entry
    BY <1>2, <2>1, PrunedFacts DEF Standing, EntriesInv
  <2>3. EntriesInv'
    <3>1. /\ DOMAIN entries' = DOMAIN PrunedEntries
          /\ \A j \in DOMAIN PrunedEntries :
               /\ entries'[j] \in Entry
               /\ entries'[j].session = entries[j].session
               /\ entries'[j].call = entries[j].call
               /\ entries'[j].status = "pending" => entries[j].status = "pending" /\ j # i
      BY <2>1, PrunedFacts DEF Entry, Statuses
    <3>2. approved' \subseteq approved \cup {i}
      BY <2>1
    <3>3. ASSUME NEW j \in DOMAIN entries'
          PROVE  /\ entries'[j] \in Entry
                 /\ origin'[j] = <<entries'[j].session, entries'[j].call>>
                 /\ entries'[j].status = "pending" => j \notin approved'
      <4>1. j \in DOMAIN PrunedEntries /\ j \in DOMAIN entries
        BY <3>1, <3>3, PrunedFacts
      <4>2. /\ origin[j] = <<entries[j].session, entries[j].call>>
            /\ entries[j].status = "pending" => j \notin approved
        BY <4>1 DEF EntriesInv
      <4> QED
        BY <2>1, <3>1, <3>2, <4>1, <4>2
    <3>4. DOMAIN entries' \subseteq 1 .. Len(origin) /\ approved' \subseteq 1 .. Len(origin)
      BY <2>2, <3>1, <3>2, PrunedFacts DEF EntriesInv
    <3> QED
      BY <2>1, <3>3, <3>4 DEF EntriesInv
  <2>4. CASE ~allow
    <3>1. grants' \subseteq grants /\ approved' = approved
      BY <2>1, <2>4, PrunedFacts
    <3> QED
      BY <2>1, <2>3, <3>1, FewerGrants
  <2>5. CASE allow
    <3>1. others \subseteq grants /\ IsFiniteSet(others)
      BY PrunedFacts, FS_Subset DEF CountInv
    <3>2. grants' = others \cup {one} /\ approved' = approved \cup {i}
      BY <2>1, <2>5
    <3>3. IsFiniteSet(grants')
      BY <3>1, <3>2, FS_AddElement
    <3>4. one.session = e.session /\ one.call = e.call
      OBVIOUS
    <3>5. ASSUME NEW s \in Sessions, NEW c \in Calls
          PROVE  (runs[<<s, c>>] + Cardinality(Granted(s, c)) <= Cardinality(Allowed(s, c)))'
      <4>1. /\ Cardinality(Granted(s, c)) \in Nat
            /\ Cardinality(Allowed(s, c)) \in Nat /\ IsFiniteSet(Allowed(s, c))
            /\ runs[<<s, c>>] \in Nat
            /\ runs[<<s, c>>] + Cardinality(Granted(s, c)) <= Cardinality(Allowed(s, c))
        BY GrantedFinite, AllowedFinite DEF CountInv, RunsNeedApprovals
      <4>2. CASE s = e.session /\ c = e.call
        <5>1. Granted(s, c)' = {one}
          BY <3>2, <3>4, <4>2 DEF Granted
        <5>2. Cardinality(Granted(s, c)') = 1
          BY <5>1, FS_Singleton
        <5>3. Allowed(s, c)' = Allowed(s, c) \cup {i} /\ i \notin Allowed(s, c)
          BY <2>1, <2>2, <3>2, <4>2 DEF Allowed
        <5>4. Cardinality(Allowed(s, c)') = Cardinality(Allowed(s, c)) + 1
          BY <4>1, <5>3, FS_AddElement
        <5> HIDE DEF Granted, Allowed
        <5> QED
          BY <2>1, <4>1, <5>2, <5>4
      <4>3. CASE ~(s = e.session /\ c = e.call)
        <5>1. Granted(s, c)' \subseteq Granted(s, c)
          BY <3>1, <3>2, <3>4, <4>3 DEF Granted
        <5>2. /\ Cardinality(Granted(s, c)') \in Nat
              /\ Cardinality(Granted(s, c)') <= Cardinality(Granted(s, c))
          BY <5>1, GrantedFinite, FS_Subset, FS_CardinalityType DEF CountInv
        <5>3. Allowed(s, c)' = Allowed(s, c)
          BY <2>1, <2>2, <3>2, <4>3 DEF Allowed
        <5> HIDE DEF Granted, Allowed
        <5> QED
          BY <2>1, <4>1, <5>2, <5>3
      <4> QED
        BY <4>2, <4>3
    <3> QED
      BY <2>1, <2>3, <3>3, <3>5 DEF CountInv, RunsNeedApprovals
  <2> QED
    BY <2>4, <2>5
<1> QED
  BY <1>1, <1>2

-----------------------------------------------------------------------------
(* The decision threads *)

\* A thread goes on, and the log forgets nothing.
LEMMA HandlerStepKeeps ==
  ASSUME HandlersInv, NEW h \in Handlers, handler[h] \in Deciding,
         NEW next, handler' = [handler EXCEPT ![h] = next],
         next = Idle \/ (next \in Deciding /\ next.id = handler[h].id),
         facts' = facts \/ (facts' = [facts EXCEPT ![handler[h].id] =
                                       IF handler[h].allow THEN "allow" ELSE "deny"]),
         next.at \in {"ok", "resuming"} => facts'[handler[h].id] # "none"
  PROVE  HandlersInv'
<1>1. handler[h].id \in Ids
  BY DEF Deciding
<1>2. /\ DOMAIN facts' = Ids
      /\ \A i \in Ids : facts[i] # "none" => facts'[i] # "none"
  BY <1>1 DEF HandlersInv
<1>3. /\ DOMAIN handler' = Handlers
      /\ handler'[h] = next
      /\ \A g \in Handlers : g # h => handler'[g] = handler[g]
  BY DEF HandlersInv
<1>4. handler' = [g \in Handlers |-> handler'[g]]
  BY <1>3 DEF HandlersInv
<1>5. ASSUME NEW g \in Handlers
      PROVE  /\ handler'[g] = Idle \/ handler'[g] \in Deciding
             /\ handler'[g].at \in {"ok", "resuming"} => facts'[handler'[g].id] # "none"
  <2>1. CASE g = h
    BY <1>3, <2>1 DEF Idle
  <2>2. CASE g # h
    <3>1. handler'[g] = handler[g]
      BY <1>3, <2>2
    <3>2. /\ handler[g] = Idle \/ handler[g] \in Deciding
          /\ handler[g].at \in {"ok", "resuming"} => facts[handler[g].id] # "none"
      BY DEF HandlersInv
    <3>3. handler[g].at \in {"ok", "resuming"} => handler[g].id \in Ids
      BY <3>2 DEF Idle, Deciding
    <3> QED
      BY <1>2, <3>1, <3>2, <3>3
  <2> QED
    BY <2>1, <2>2
<1> QED
  BY <1>2, <1>3, <1>4, <1>5 DEF HandlersInv

LEMMA HandlersFrame ==
  ASSUME HandlersInv, UNCHANGED <<handler, facts>>
  PROVE  HandlersInv'
BY DEF HandlersInv

\* Moving on changes the location alone.
LEMMA GoesFacts ==
  ASSUME NEW d \in Deciding,
         NEW at \in {"decided", "waiting", "reopened", "ok", "failed", "resuming", "refused"}
  PROVE  /\ [d EXCEPT !.at = at] \in Deciding
         /\ [d EXCEPT !.at = at].at = at
         /\ [d EXCEPT !.at = at].id = d.id
BY DEF Deciding

LEMMA HandlerStepKeepsIInv ==
  ASSUME IInv, NEW h \in Handlers, HandlerStep(h)
  PROVE  IInv'
<1>1. handler[h] \in Deciding
  BY DEF HandlerStep, FindStorage, Audit, AuditFails, Answer, Resume, ResumeRefused, Forgotten,
     IInv, HandlersInv, Idle
<1> DEFINE Moved(at) == [handler[h] EXCEPT !.at = at]
<1>2. CASE FindStorage(h)
  <2>1. EntriesInv' /\ CountInv'
    <3>1. CASE Pruned
      BY <1>2, <3>1, PruneKeeps DEF FindStorage, IInv, ghosts
    <3>2. CASE UNCHANGED <<entries, grants>>
      BY <1>2, <3>2, QueueFrame DEF FindStorage, IInv, ghosts, queue
    <3> QED
      BY <1>2, <3>1, <3>2 DEF FindStorage
  <2>2. PICK at \in {"waiting", "reopened", "failed"} : handler' = [handler EXCEPT ![h] = Moved(at)]
    BY <1>2 DEF FindStorage, HandlerGoes
  <2>3. Moved(at) \in Deciding /\ Moved(at).at = at /\ Moved(at).id = handler[h].id
    <3>1. at \in {"decided", "waiting", "reopened", "ok", "failed", "resuming", "refused"}
      BY <2>2
    <3> QED
      BY <1>1, <3>1, GoesFacts
  <2>4. facts' = facts
    BY <1>2 DEF FindStorage
  <2>5. HandlersInv'
    BY <1>1, <2>2, <2>3, <2>4, HandlerStepKeeps DEF IInv
  <2> QED
    BY <2>1, <2>5 DEF IInv
<1>3. CASE Audit(h)
  <2>1. EntriesInv' /\ CountInv'
    BY <1>3, QueueFrame DEF Audit, IInv
  <2>2. handler' = [handler EXCEPT ![h] = Moved("ok")]
    BY <1>3 DEF Audit, HandlerGoes
  <2>3. /\ Moved("ok") \in Deciding /\ Moved("ok").id = handler[h].id
    BY <1>1, GoesFacts
  <2>4. /\ facts' = [facts EXCEPT ![handler[h].id] = IF handler[h].allow THEN "allow" ELSE "deny"]
        /\ facts'[handler[h].id] # "none"
    BY <1>1, <1>3 DEF Audit, Recorded, IInv, HandlersInv, Deciding
  <2>5. HandlersInv'
    BY <1>1, <2>2, <2>3, <2>4, HandlerStepKeeps DEF IInv
  <2> QED
    BY <2>1, <2>5 DEF IInv
<1>4. CASE AuditFails(h) \/ ResumeRefused(h)
  <2>1. EntriesInv' /\ CountInv'
    BY <1>4, QueueFrame DEF AuditFails, ResumeRefused, IInv
  <2>2. PICK at \in {"failed", "refused"} : handler' = [handler EXCEPT ![h] = Moved(at)]
    BY <1>4 DEF AuditFails, ResumeRefused, HandlerGoes
  <2>3. Moved(at) \in Deciding /\ Moved(at).at = at /\ Moved(at).id = handler[h].id
    <3>1. at \in {"decided", "waiting", "reopened", "ok", "failed", "resuming", "refused"}
      BY <2>2
    <3> QED
      BY <1>1, <3>1, GoesFacts
  <2>4. facts' = facts
    BY <1>4 DEF AuditFails, ResumeRefused
  <2>5. HandlersInv'
    BY <1>1, <2>2, <2>3, <2>4, HandlerStepKeeps DEF IInv
  <2> QED
    BY <2>1, <2>5 DEF IInv
<1>5. CASE Answer(h)
  <2>1. EntriesInv' /\ CountInv'
    BY <1>5, QueueFrame DEF Answer, IInv
  <2>2. CASE handler' = [handler EXCEPT ![h] = Idle]
    BY <1>1, <1>5, <2>1, <2>2, HandlerStepKeeps DEF Answer, IInv, Idle
  <2>3. CASE handler[h].at = "ok" /\ handler' = [handler EXCEPT ![h] = Moved("resuming")]
    <3>1. /\ Moved("resuming") \in Deciding /\ Moved("resuming").id = handler[h].id
          /\ facts' = facts
      BY <1>1, <1>5, GoesFacts DEF Answer
    <3>2. facts'[handler[h].id] # "none"
      BY <2>3, <3>1 DEF IInv, HandlersInv
    <3> QED
      BY <1>1, <2>1, <2>3, <3>1, <3>2, HandlerStepKeeps DEF IInv
  <2> QED
    BY <1>5, <2>2, <2>3 DEF Answer
<1>6. CASE Resume(h) \/ Forgotten(h)
  <2>1. EntriesInv' /\ CountInv'
    BY <1>6, QueueFrame DEF Resume, Forgotten, IInv
  <2>2. handler' = [handler EXCEPT ![h] = Idle] /\ facts' = facts
    BY <1>6 DEF Resume, Forgotten
  <2> QED
    BY <1>1, <2>1, <2>2, HandlerStepKeeps DEF IInv, Idle
<1> QED
  BY <1>2, <1>3, <1>4, <1>5, <1>6 DEF HandlerStep

-----------------------------------------------------------------------------
(* The invariant and the theorems *)

LEMMA NextKeepsIInv == IInv /\ [Next]_vars => IInv'
<1> SUFFICES ASSUME IInv, [Next]_vars PROVE IInv'
  OBVIOUS
<1>1. ASSUME NEW s \in Sessions, Prompt(s) \/ TurnStep(s) \/ Evict(s) PROVE IInv'
  <2>1. HandlersInv'
    BY <1>1, HandlersFrame DEF Prompt, TurnStep, Start, ConsultGranted, ConsultQueued, Finish,
       Fail, Release, Unclaim, Evict, IInv
  <2>2. EntriesInv' /\ CountInv'
    <3>1. CASE \E c \in Calls : ConsultGranted(s, c) \/ ConsultQueued(s, c)
      BY <3>1, ConsultGrantedKeeps, ConsultQueuedKeeps DEF IInv
    <3>2. CASE \/ Prompt(s) \/ Start(s) \/ Finish(s) \/ Fail(s)
               \/ Release(s) \/ Unclaim(s) \/ Evict(s)
      BY <3>2, QueueFrame DEF Prompt, Start, Finish, Fail, Release, Unclaim, Evict, IInv
    <3> QED
      BY <1>1, <3>1, <3>2 DEF TurnStep
  <2> QED
    BY <2>1, <2>2 DEF IInv
<1>2. CASE List
  <2>1. EntriesInv' /\ CountInv'
    BY <1>2, PruneKeeps DEF List, IInv
  <2> QED
    BY <1>2, <2>1, HandlersFrame DEF List, IInv
<1>3. ASSUME NEW h \in Handlers, NEW i \in Ids, DecideUnknown(h, i) PROVE IInv'
  <2>1. EntriesInv' /\ CountInv'
    BY <1>3, PruneKeeps DEF DecideUnknown, IInv
  <2> QED
    BY <1>3, <2>1, HandlersFrame DEF DecideUnknown, IInv
<1>4. ASSUME NEW h \in Handlers, NEW i \in Ids, NEW allow \in BOOLEAN, Decide(h, i, allow)
      PROVE  IInv'
  <2>1. EntriesInv' /\ CountInv'
    BY <1>4, DecideKeeps DEF IInv
  <2> DEFINE next == [at |-> "decided", id |-> i, allow |-> allow, session |-> entries[i].session]
  <2>2. handler' = [handler EXCEPT ![h] = next] /\ facts' = facts
    BY <1>4 DEF Decide
  <2>3. next \in Deciding /\ next.at = "decided"
    <3>1. i \in DOMAIN entries
      BY <1>4, PrunedFacts DEF Decide, IInv
    <3>2. entries[i].session \in Sessions
      BY <3>1 DEF IInv, EntriesInv, Entry
    <3> QED
      BY <3>2 DEF Deciding
  <2> HIDE DEF next
  <2>4. /\ DOMAIN handler' = Handlers /\ handler'[h] = next
        /\ \A g \in Handlers : g # h => handler'[g] = handler[g]
        /\ handler' = [g \in Handlers |-> handler'[g]]
    BY <2>2 DEF IInv, HandlersInv
  <2>5. HandlersInv'
    BY <2>2, <2>3, <2>4 DEF IInv, HandlersInv
  <2> QED
    BY <2>1, <2>5 DEF IInv
<1>5. CASE Tick
  <2>1. EntriesInv'
    BY <1>5, BoundsAssumption DEF Tick, IInv, EntriesInv, queue, ghosts
  <2>2. CountInv'
    BY <1>5, FewerGrants DEF Tick, IInv, queue, ghosts
  <2> QED
    BY <1>5, <2>1, <2>2, HandlersFrame DEF Tick, IInv
<1>6. CASE UNCHANGED vars
  BY <1>6, QueueFrame, HandlersFrame DEF vars, IInv
<1> QED
  BY <1>1, <1>2, <1>3, <1>4, <1>5, <1>6, HandlerStepKeepsIInv DEF Next

LEMMA InitIInv == Init => IInv
<1> SUFFICES ASSUME Init PROVE IInv
  OBVIOUS
<1>1. EntriesInv
  BY BoundsAssumption DEF Init, EntriesInv
<1>2. CountInv
  <2>1. IsFiniteSet(grants) /\ runs \in [Sessions \X Calls -> Nat]
    BY FS_EmptySet DEF Init
  <2>2. ASSUME NEW s \in Sessions, NEW c \in Calls
        PROVE  runs[<<s, c>>] + Cardinality(Granted(s, c)) <= Cardinality(Allowed(s, c))
    <3>1. Granted(s, c) = {} /\ Allowed(s, c) = {}
      BY DEF Init, Granted, Allowed
    <3>2. runs[<<s, c>>] = 0
      BY DEF Init
    <3> QED
      BY <3>1, <3>2, FS_EmptySet
  <2> QED
    BY <2>1, <2>2 DEF CountInv, RunsNeedApprovals
<1>3. HandlersInv
  BY DEF Init, HandlersInv, Idle
<1> QED
  BY <1>1, <1>2, <1>3 DEF IInv

LEMMA Invariance == Spec => []IInv
BY InitIInv, NextKeepsIInv, PTL DEF Spec

\* A decision is "a one-shot for exactly one queued effect" of its session
\* (threat-model.md:331): a session never runs a call more often than that
\* call of that session was allowed (decide() and take_one_shot()).
THEOREM OneRunPerApproval == Spec => []RunsNeedApprovals
<1>1. IInv => RunsNeedApprovals
  BY DEF IInv, CountInv
<1> QED
  BY <1>1, Invariance, PTL

\* A decision that is answered with success is in the log of its session
\* (write_approval_audit()), whatever evictions and turns fall in between.
THEOREM SuccessIsAudited == Spec => []AnsweredIsAudited
<1>1. IInv => AnsweredIsAudited
  BY DEF IInv, HandlersInv, AnsweredIsAudited
<1> QED
  BY <1>1, Invariance, PTL

=============================================================================
