--------------------------- MODULE SessionLogProofs ---------------------------
(***************************************************************************)
(* Proofs about SessionLog, for every set of processes and inodes and      *)
(* every schedule of torn writes, failed syncs, kills and power cuts: one  *)
(* writer at a time, a session that never becomes unreadable, and, on a    *)
(* file system that keeps the strict rules, the promises of DurableLog.    *)
(*                                                                         *)
(* Kept is defined by recursion, so that what the engine reads back is     *)
(* proved by induction: on numbers from the well-foundedness of the        *)
(* strict subset order, on sequences from that on numbers.                 *)
(***************************************************************************)
EXTENDS MCSessionLog, TLAPS, WellFoundedInduction, FiniteSetTheorems, SequenceTheorems

(***************************************************************************)
(* The inductive invariant: whoever has the session open holds the sidecar *)
(* lock.  The lock is not on the session file, so that a compaction, which *)
(* renames another file over it, keeps it.                                 *)
(***************************************************************************)
HandlesInv == handle = [p \in Procs |-> handle[p]]
LockInv == \A p \in Procs : IsOpen(p) => lock = p

IInv == HandlesInv /\ LockInv

\* A step that changes the handle of p alone, and leaves it with the lock or
\* not open, keeps the invariant; the lock goes from nobody to p or stays,
\* or p gives it up.
LEMMA HandleStep ==
  ASSUME IInv, NEW p \in Procs, NEW h,
         handle' = [handle EXCEPT ![p] = h],
         \/ lock' = lock
         \/ lock = Nobody
         \/ lock = p,
         h.stage = "open" => lock' = p
  PROVE  IInv'
<1>1. HandlesInv'
  BY DEF IInv, HandlesInv
<1>2. \A q \in Procs : q # p => handle'[q] = handle[q]
  BY DEF IInv, HandlesInv
<1>3. handle'[p] = h
  BY DEF IInv, HandlesInv
<1>4. ASSUME NEW q \in Procs, IsOpen(q)' PROVE lock' = q
  <2>1. CASE q = p
    BY <1>3, <1>4, <2>1 DEF IsOpen
  <2>2. CASE q # p
    <3>1. lock = q
      BY <1>2, <1>4, <2>2 DEF IInv, LockInv, IsOpen
    <3>2. lock # Nobody
      BY <3>1, NobodyAssumption
    <3> QED
      BY <2>2, <3>1, <3>2
  <2> QED
    BY <2>1, <2>2
<1> QED
  BY <1>1, <1>4 DEF IInv, LockInv

LEMMA DropsKeepsIInv == ASSUME IInv, NEW p \in Procs, Drops(p) PROVE IInv'
<1>1. Closed.stage # "open"
  BY DEF Closed
<1> QED
  BY <1>1, HandleStep DEF Drops

\* Neither the handles nor the lock change.
LEMMA Frame == ASSUME IInv, UNCHANGED <<handle, lock>> PROVE IInv'
BY DEF IInv, HandlesInv, LockInv, IsOpen

LEMMA CreateKeepsIInv == ASSUME IInv, NEW p \in Procs, Create(p) PROVE IInv'
<1>1. CASE CreateFile(p)
  <2>1. handle' = [handle EXCEPT ![p] = Creating(FreshInode)]
    BY <1>1 DEF CreateFile
  <2>2. Creating(FreshInode).stage = "creating"
    BY DEF Creating, Closed
  <2>3. lock' = lock
    BY <1>1 DEF CreateFile
  <2> QED
    BY <2>1, <2>2, <2>3, HandleStep
<1>2. CASE CreateHeader(p)
  BY <1>2, HandleStep DEF CreateHeader
<1>3. CASE CreateFails(p)
  <2>1. Closed.stage # "open"
    BY DEF Closed
  <2> QED
    BY <1>3, <2>1, HandleStep DEF CreateFails
<1> QED
  BY <1>1, <1>2, <1>3 DEF Create

\* A step of a process that has the session open, and keeps the lock.
LEMMA WriterStep ==
  ASSUME IInv, NEW p \in Procs, IsOpen(p), NEW h,
         handle' = [handle EXCEPT ![p] = h], lock' = lock
  PROVE  IInv'
<1>1. lock' = p
  BY DEF IInv, LockInv
<1> QED
  BY <1>1, HandleStep

LEMMA CommitKeepsIInv ==
  ASSUME IInv, NEW p \in Procs,
         \/ \E deferred \in BOOLEAN : Commit(p, deferred)
         \/ CommitFails(p)
         \/ CommitKilled(p)
  PROVE  IInv'
<1>1. ASSUME NEW deferred \in BOOLEAN, Commit(p, deferred) PROVE IInv'
  <2>1. IsOpen(p) /\ lock' = lock
    BY <1>1 DEF Commit, CanAppend
  <2>2. PICK h : handle' = [handle EXCEPT ![p] = h]
    BY <1>1, Zenon DEF Commit
  <2> QED
    BY <2>1, <2>2, WriterStep
<1>2. CASE CommitFails(p)
  <2>1. IsOpen(p) /\ lock' = lock
    BY <1>2 DEF CommitFails, CanAppend
  <2>2. PICK h : handle' = [handle EXCEPT ![p] = h]
    BY <1>2, Zenon DEF CommitFails
  <2> QED
    BY <2>1, <2>2, WriterStep
<1>3. CASE CommitKilled(p)
  BY <1>3, DropsKeepsIInv DEF CommitKilled
<1> QED
  BY <1>1, <1>2, <1>3

LEMMA CompactKeepsIInv == ASSUME IInv, NEW p \in Procs, Compact(p) PROVE IInv'
<1>1. IsOpen(p)
  BY DEF Compact, CompactDone, CompactReopenFails, CompactSyncDirFails, CompactKilled, Renames
<1>2. CASE CompactDone(p)
  <2>1. PICK h : handle' = [handle EXCEPT ![p] = h]
    BY <1>2, Zenon DEF CompactDone
  <2>2. lock' = lock
    BY <1>2 DEF CompactDone
  <2> QED
    BY <1>1, <2>1, <2>2, WriterStep
<1>3. CASE CompactReopenFails(p)
  <2>1. handle' = [handle EXCEPT ![p] = [handle[p] EXCEPT !.poisoned = TRUE]]
    BY <1>3 DEF CompactReopenFails, IInv, HandlesInv
  <2>2. lock' = lock
    BY <1>3 DEF CompactReopenFails
  <2> QED
    BY <1>1, <2>1, <2>2, WriterStep
<1>4. CASE CompactSyncDirFails(p)
  BY <1>4, Frame DEF CompactSyncDirFails
<1>5. CASE CompactKilled(p)
  BY <1>5, DropsKeepsIInv DEF CompactKilled
<1> QED
  BY <1>2, <1>3, <1>4, <1>5 DEF Compact

LEMMA NextKeepsIInv == IInv /\ [Next]_vars => IInv'
<1> SUFFICES ASSUME IInv, [Next]_vars PROVE IInv'
  OBVIOUS
<1>1. ASSUME NEW p \in Procs, Create(p) PROVE IInv'
  BY <1>1, CreateKeepsIInv
<1>2. ASSUME NEW p \in Procs, Open(p) PROVE IInv'
  BY <1>2, HandleStep DEF Open
<1>3. ASSUME NEW p \in Procs, \/ \E deferred \in BOOLEAN : Commit(p, deferred)
                              \/ CommitFails(p)
                              \/ CommitKilled(p)
      PROVE  IInv'
  BY <1>3, CommitKeepsIInv
<1>4. ASSUME NEW p \in Procs, Close(p) \/ Kill(p) PROVE IInv'
  BY <1>4, DropsKeepsIInv DEF Close, Kill
<1>5. ASSUME NEW p \in Procs, Compact(p) PROVE IInv'
  BY <1>5, CompactKeepsIInv
<1>6. CASE PowerCut
  <2>1. handle' = [p \in Procs |-> Closed]
    BY <1>6 DEF PowerCut
  <2>2. Closed.stage # "open"
    BY DEF Closed
  <2> QED
    BY <2>1, <2>2 DEF IInv, HandlesInv, LockInv, IsOpen
<1>7. CASE UNCHANGED vars
  BY <1>7, Frame DEF vars
<1> QED
  BY <1>1, <1>2, <1>3, <1>4, <1>5, <1>6, <1>7 DEF Next

\* Whoever has the session open holds the lock (storage.rs, lock_writer()).
THEOREM WriterHoldsLock == Spec => []LockInv
<1>1. Init => IInv
  <2>1. Closed.stage # "open"
    BY DEF Closed
  <2> QED
    BY <2>1 DEF Init, IInv, HandlesInv, LockInv, IsOpen
<1>2. IInv /\ [Next]_vars => IInv'
  BY NextKeepsIInv
<1>3. IInv => LockInv
  BY DEF IInv
<1> QED
  BY <1>1, <1>2, <1>3, PTL DEF Spec

\* No two processes have one session open for writing, whatever is created,
\* compacted, killed or cut in between (storage.rs, lock_writer()).
THEOREM OneWriterHolds == Spec => []OneWriter
<1>1. LockInv => OneWriter
  BY DEF LockInv, OneWriter
<1> QED
  BY <1>1, WriterHoldsLock, PTL

-----------------------------------------------------------------------------
(* Induction *)

\* Every set of numbers that is not empty has a least one: the intervals below
\* its members are finite, and the strict subset order on them is well founded.
LEMMA LeastNumber ==
  ASSUME NEW T, T \subseteq Nat, T # {}
  PROVE \E m \in T : \A k \in T : m <= k
<1>1. PICK b \in T : TRUE
  OBVIOUS
<1> DEFINE Below(k) == 0 .. k
           F == {Below(k) : k \in {j \in T : j <= b}}
<1>2. IsFiniteSet(Below(b))
  BY FS_Interval
<1>3. F \subseteq SUBSET Below(b) /\ F # {}
  BY <1>1
<1>4. IsWellFoundedOn(StrictSubsetOrdering(Below(b)), FiniteSubsetsOf(Below(b)))
  BY <1>2, FS_StrictSubsetOrderingWellFounded
<1>5. F \subseteq FiniteSubsetsOf(Below(b))
  BY <1>3, <1>2, FS_Subset DEF FiniteSubsetsOf
<1>6. PICK x \in F : \A y \in F : <<y, x>> \notin StrictSubsetOrdering(Below(b))
  BY <1>3, <1>4, <1>5, WFMin
<1>7. PICK m \in T : m <= b /\ x = Below(m)
  BY <1>6
<1>8. ASSUME NEW k \in T, k < m PROVE FALSE
  <2>1. Below(k) \in F
    BY <1>7, <1>8
  <2>2. Below(k) \subseteq Below(m) /\ Below(k) # Below(m)
    BY <1>7, <1>8
  <2>3. <<Below(k), x>> \in (SUBSET Below(b)) \X (SUBSET Below(b))
    BY <2>1, <1>3, <1>7
  <2>4. <<Below(k), x>> \in StrictSubsetOrdering(Below(b))
    BY <2>2, <2>3, <1>7 DEF StrictSubsetOrdering
  <2> QED
    BY <1>6, <2>1, <2>4
<1> QED
  BY <1>7, <1>8

\* Induction on numbers, over a set instead of a predicate.
LEMMA NumberInduction ==
  ASSUME NEW T, 0 \in T, \A n \in Nat : n \in T => n + 1 \in T
  PROVE  \A n \in Nat : n \in T
<1> SUFFICES ASSUME {n \in Nat : n \notin T} # {} PROVE FALSE
  OBVIOUS
<1>1. PICK m \in {n \in Nat : n \notin T} : \A k \in {n \in Nat : n \notin T} : m <= k
  BY LeastNumber
<1>2. m - 1 \in Nat /\ m - 1 \in T
  BY <1>1
<1> QED
  BY <1>1, <1>2

\* Induction on sequences, from the empty one by appending.
LEMMA SequenceInduction ==
  ASSUME NEW S, NEW T, <<>> \in T,
         \A s \in Seq(S), x \in S : s \in T => Append(s, x) \in T
  PROVE  \A s \in Seq(S) : s \in T
<1> DEFINE N == {n \in Nat : \A s \in Seq(S) : Len(s) = n => s \in T}
<1>1. 0 \in N
  BY EmptySeq
<1>2. ASSUME NEW n \in Nat, n \in N PROVE n + 1 \in N
  <2>1. ASSUME NEW s \in Seq(S), Len(s) = n + 1 PROVE s \in T
    <3> DEFINE q == SubSeq(s, 1, n)
    <3>1. q \in Seq(S) /\ Len(q) = n
      BY <2>1
    <3>2. s[n + 1] \in S
      BY <2>1
    <3>3. s = Append(q, s[n + 1])
      BY <2>1, <3>1, <3>2
    <3> QED
      BY <1>2, <3>1, <3>2, <3>3
  <2> QED
    BY <2>1
<1> HIDE DEF N
<1>3. \A n \in Nat : n \in N
  BY <1>1, <1>2, NumberInduction
<1> QED
  BY <1>3 DEF N

-----------------------------------------------------------------------------
(* Kept *)

\* g tells, for each number n, which of the first n elements of s are in K.
Tells(g, s, K) ==
  g = [n \in 0 .. Len(s) |->
         IF n = 0 THEN <<>>
         ELSE IF s[n] \in K THEN Append(g[n - 1], s[n]) ELSE g[n - 1]]

\* What g tells of each prefix.
LEMMA TellsValue ==
  ASSUME NEW S, NEW s \in Seq(S), NEW K, NEW g, Tells(g, s, K)
  PROVE  /\ g[0] = <<>>
         /\ \A n \in 1 .. Len(s) :
              g[n] = IF s[n] \in K THEN Append(g[n - 1], s[n]) ELSE g[n - 1]
<1>1. Len(s) \in Nat
  OBVIOUS
<1>2. \A n \in 0 .. Len(s) :
        g[n] = IF n = 0 THEN <<>>
               ELSE IF s[n] \in K THEN Append(g[n - 1], s[n]) ELSE g[n - 1]
  BY <1>1, Zenon DEF Tells
<1> QED
  BY <1>1, <1>2

\* One more element.
LEMMA TellsMore ==
  ASSUME NEW S, NEW s \in Seq(S), NEW x \in S, NEW K, NEW g, Tells(g, s, K)
  PROVE  \E h : /\ Tells(h, Append(s, x), K)
                /\ h[Len(s) + 1] = IF x \in K THEN Append(g[Len(s)], x) ELSE g[Len(s)]
<1> DEFINE a == Append(s, x)
           top == IF x \in K THEN Append(g[Len(s)], x) ELSE g[Len(s)]
           h == [n \in 0 .. Len(a) |-> IF n <= Len(s) THEN g[n] ELSE top]
<1>1. /\ a \in Seq(S) /\ Len(s) \in Nat /\ Len(a) = Len(s) + 1
      /\ \A i \in 1 .. Len(s) : a[i] = s[i]
  BY AppendProperties
<1>2. a[Len(s) + 1] = x
  BY AppendProperties
<1>3. /\ g[0] = <<>>
      /\ \A n \in 1 .. Len(s) :
           g[n] = IF s[n] \in K THEN Append(g[n - 1], s[n]) ELSE g[n - 1]
  BY TellsValue
<1> HIDE DEF a
<1>4. \A n \in 0 .. Len(a) :
        h[n] = IF n = 0 THEN <<>>
               ELSE IF a[n] \in K THEN Append(h[n - 1], a[n]) ELSE h[n - 1]
  <2> TAKE n \in 0 .. Len(a)
  <2>1. CASE n = 0
    BY <1>1, <1>3, <2>1
  <2>2. CASE n # 0 /\ n <= Len(s)
    <3>1. h[n] = g[n] /\ h[n - 1] = g[n - 1] /\ a[n] = s[n]
      BY <1>1, <2>2
    <3>2. g[n] = IF s[n] \in K THEN Append(g[n - 1], s[n]) ELSE g[n - 1]
      BY <1>3, <2>2
    <3> QED
      BY <2>2, <3>1, <3>2
  <2>3. CASE n = Len(s) + 1
    <3>1. h[n] = top /\ h[n - 1] = g[Len(s)] /\ a[n] = x
      BY <1>1, <1>2, <2>3
    <3> QED
      BY <1>1, <2>3, <3>1
  <2> QED
    BY <1>1, <2>1, <2>2, <2>3
<1>5. Tells(h, a, K)
  <2>1. h = [n \in 0 .. Len(a) |->
               IF n = 0 THEN <<>>
               ELSE IF a[n] \in K THEN Append(h[n - 1], a[n]) ELSE h[n - 1]]
    <3>1. DOMAIN h = 0 .. Len(a) /\ h = [n \in 0 .. Len(a) |-> h[n]]
      BY Zenon
    <3> HIDE DEF h
    <3> QED
      BY <1>4, <3>1
  <2> HIDE DEF h
  <2> QED
    BY <2>1 DEF Tells
<1>6. h[Len(s) + 1] = top
  BY <1>1
<1> HIDE DEF h
<1> QED
  BY <1>5, <1>6 DEF a

\* There is such a function for every sequence ...
LEMMA SomethingTells ==
  ASSUME NEW S, NEW s \in Seq(S), NEW K PROVE \E g : Tells(g, s, K)
<1> DEFINE T == {q \in Seq(S) : \E g : Tells(g, q, K)}
<1>1. <<>> \in T
  <2>1. Tells([n \in 0 .. 0 |-> <<>>], <<>>, K)
    BY DEF Tells
  <2> QED
    BY <2>1, EmptySeq
<1>2. \A q \in Seq(S), x \in S : q \in T => Append(q, x) \in T
  BY TellsMore, AppendProperties
<1> HIDE DEF T
<1>3. s \in T
  BY <1>1, <1>2, SequenceInduction
<1> QED
  BY <1>3 DEF T

\* Two that tell about the same elements say the same.
LEMMA TellersAgree ==
  ASSUME NEW S, NEW s \in Seq(S), NEW K, NEW g, NEW h, Tells(g, s, K), Tells(h, s, K)
  PROVE  g[Len(s)] = h[Len(s)]
<1> DEFINE T == {n \in Nat : n <= Len(s) => g[n] = h[n]}
<1>1. /\ g[0] = <<>>
      /\ \A n \in 1 .. Len(s) :
           g[n] = IF s[n] \in K THEN Append(g[n - 1], s[n]) ELSE g[n - 1]
  BY TellsValue
<1>2. /\ h[0] = <<>>
      /\ \A n \in 1 .. Len(s) :
           h[n] = IF s[n] \in K THEN Append(h[n - 1], s[n]) ELSE h[n - 1]
  BY TellsValue
<1>3. 0 \in T
  BY <1>1, <1>2
<1>4. \A n \in Nat : n \in T => n + 1 \in T
  <2> SUFFICES ASSUME NEW n \in Nat, n \in T, n + 1 <= Len(s) PROVE g[n + 1] = h[n + 1]
    OBVIOUS
  <2>1. n + 1 \in 1 .. Len(s) /\ (n + 1) - 1 = n /\ g[n] = h[n]
    OBVIOUS
  <2> QED
    BY <1>1, <1>2, <2>1
<1> HIDE DEF T
<1>5. \A n \in Nat : n \in T
  BY <1>3, <1>4, NumberInduction
<1> QED
  BY <1>5 DEF T

\* That value is what Kept returns.
LEMMA KeptTells ==
  ASSUME NEW S, NEW s \in Seq(S), NEW K, NEW g, Tells(g, s, K)
  PROVE  Kept(s, K) = g[Len(s)]
<1> DEFINE C == CHOOSE h : Tells(h, s, K)
<1>1. Tells(C, s, K)
  BY SomethingTells
<1>2. Kept(s, K) = C[Len(s)]
  BY DEF Kept, Tells
<1> QED
  BY <1>1, <1>2, TellersAgree

\* The equations of Kept.
LEMMA KeptEmpty == ASSUME NEW K PROVE Kept(<<>>, K) = <<>>
<1>1. <<>> \in Seq({})
  BY EmptySeq
<1>2. Tells([n \in 0 .. 0 |-> <<>>], <<>>, K)
  BY DEF Tells
<1> QED
  BY <1>1, <1>2, KeptTells

LEMMA KeptAppend ==
  ASSUME NEW S, NEW s \in Seq(S), NEW x \in S, NEW K
  PROVE  Kept(Append(s, x), K) = IF x \in K THEN Append(Kept(s, K), x) ELSE Kept(s, K)
<1>1. PICK g : Tells(g, s, K)
  BY SomethingTells
<1>2. PICK h : /\ Tells(h, Append(s, x), K)
               /\ h[Len(s) + 1] = IF x \in K THEN Append(g[Len(s)], x) ELSE g[Len(s)]
  BY <1>1, TellsMore
<1>3. Append(s, x) \in Seq(S) /\ Len(Append(s, x)) = Len(s) + 1
  BY AppendProperties
<1> QED
  BY <1>1, <1>2, <1>3, KeptTells

\* Kept returns a sequence of elements of K.
LEMMA KeptType ==
  ASSUME NEW S, NEW s \in Seq(S), NEW K
  PROVE  Kept(s, K) \in Seq(S) /\ Kept(s, K) \in Seq(S \cap K)
<1> DEFINE T == {q \in Seq(S) : Kept(q, K) \in Seq(S \cap K)}
<1>1. <<>> \in T
  BY KeptEmpty, EmptySeq
<1>2. ASSUME NEW q \in Seq(S), NEW x \in S, q \in T PROVE Append(q, x) \in T
  <2>1. Append(q, x) \in Seq(S)
    BY AppendProperties
  <2>2. CASE x \in K
    <3>1. x \in S \cap K
      BY <2>2
    <3>2. Append(Kept(q, K), x) \in Seq(S \cap K)
      BY <1>2, <3>1, AppendProperties
    <3>3. Kept(Append(q, x), K) = Append(Kept(q, K), x)
      BY <2>2, KeptAppend
    <3> QED
      BY <2>1, <3>2, <3>3
  <2>3. CASE x \notin K
    BY <1>2, <2>1, <2>3, KeptAppend
  <2> QED
    BY <2>2, <2>3
<1> HIDE DEF T
<1>3. s \in T
  BY <1>1, <1>2, SequenceInduction
<1>4. Kept(s, K) \in Seq(S \cap K)
  BY <1>3 DEF T
<1>5. S \cap K \subseteq S
  OBVIOUS
<1> QED
  BY <1>4, <1>5, SeqMonotonic

\* It returns all of a sequence over K, and nothing of one that misses K.
LEMMA KeptAll == ASSUME NEW K, NEW s \in Seq(K) PROVE Kept(s, K) = s
<1> DEFINE T == {q \in Seq(K) : Kept(q, K) = q}
<1>1. <<>> \in T
  BY KeptEmpty, EmptySeq
<1>2. \A q \in Seq(K), x \in K : q \in T => Append(q, x) \in T
  BY KeptAppend, AppendProperties
<1> HIDE DEF T
<1>3. s \in T
  BY <1>1, <1>2, SequenceInduction
<1> QED
  BY <1>3 DEF T

LEMMA KeptNone ==
  ASSUME NEW S, NEW s \in Seq(S), NEW K, S \cap K = {} PROVE Kept(s, K) = <<>>
<1>1. Kept(s, K) \in Seq(S \cap K)
  BY KeptType
<1>2. ~ (1 \in 1 .. Len(Kept(s, K)))
  BY <1>1, ElementOfSeq
<1>3. Len(Kept(s, K)) \in Nat
  BY <1>1, LenProperties
<1> QED
  BY <1>1, <1>2, <1>3, EmptySeq

LEMMA AppendToConcat ==
  ASSUME NEW S, NEW s \in Seq(S), NEW q \in Seq(S), NEW x \in S
  PROVE  s \o Append(q, x) = Append(s \o q, x) /\ s \o q \in Seq(S)
<1>1. s \o q \in Seq(S) /\ <<x>> \in Seq(S)
  BY ConcatProperties
<1>2. Append(q, x) = q \o <<x>> /\ Append(s \o q, x) = (s \o q) \o <<x>>
  BY <1>1, AppendIsConcat
<1> QED
  BY <1>1, <1>2, ConcatAssociative

\* It distributes over concatenation.
LEMMA KeptConcat ==
  ASSUME NEW S, NEW s \in Seq(S), NEW t \in Seq(S), NEW K
  PROVE  Kept(s \o t, K) = Kept(s, K) \o Kept(t, K)
<1> DEFINE T == {q \in Seq(S) : Kept(s \o q, K) = Kept(s, K) \o Kept(q, K)}
<1>1. <<>> \in T
  <2>1. Kept(s, K) \in Seq(S)
    BY KeptType
  <2> QED
    BY <2>1, KeptEmpty, EmptySeq
<1>2. ASSUME NEW q \in Seq(S), NEW x \in S, q \in T PROVE Append(q, x) \in T
  <2>1. s \o Append(q, x) = Append(s \o q, x) /\ s \o q \in Seq(S)
    BY AppendToConcat
  <2>2. Kept(s, K) \in Seq(S) /\ Kept(q, K) \in Seq(S)
    BY KeptType
  <2>3. Kept(s, K) \o Append(Kept(q, K), x) = Append(Kept(s, K) \o Kept(q, K), x)
    BY <2>2, AppendToConcat
  <2>4. Kept(Append(q, x), K) = IF x \in K THEN Append(Kept(q, K), x) ELSE Kept(q, K)
    BY KeptAppend
  <2>5. Kept(Append(s \o q, x), K) =
          IF x \in K THEN Append(Kept(s \o q, K), x) ELSE Kept(s \o q, K)
    BY <2>1, KeptAppend
  <2>6. Append(q, x) \in Seq(S)
    BY AppendProperties
  <2> QED
    BY <1>2, <2>1, <2>3, <2>4, <2>5, <2>6
<1> HIDE DEF T
<1>3. t \in T
  BY <1>1, <1>2, SequenceInduction
<1> QED
  BY <1>3 DEF T

-----------------------------------------------------------------------------
(* The entries and the tags that lines hold *)

Line == [first : Nat, last : Nat, tag : 0 .. MaxCommits]
Stamp == [tag : 0 .. MaxCommits, seq : Nat]
Entry == [tag : Tags, seq : Nat]

EntriesIn(lines) == Kept(Stamps(lines), Entry)
TagsAt(lines) == TagsIn(EntriesIn(lines))

\* The entries and commits of a file are those of its lines.
LEMMA OfTheLines ==
  ASSUME NEW f PROVE EntriesOf(f) = EntriesIn(f.lines) /\ TagsOf(f) = TagsAt(f.lines)
BY DEF EntriesOf, EntriesIn, TagsOf, TagsAt, Entry

LEMMA StampsType ==
  ASSUME NEW ls \in Seq(Line)
  PROVE  /\ Stamps(ls) \in Seq(Stamp)
         /\ Len(Stamps(ls)) = Len(ls)
         /\ \A i \in 1 .. Len(ls) : Stamps(ls)[i] = [tag |-> ls[i].tag, seq |-> ls[i].first]
<1>1. Len(ls) \in Nat /\ DOMAIN ls = 1 .. Len(ls)
  BY LenProperties
<1>2. \A i \in 1 .. Len(ls) : ls[i] \in Line
  BY ElementOfSeq
<1>3. Stamps(ls) \in [1 .. Len(ls) -> Stamp]
  BY <1>1, <1>2 DEF Stamps, Stamp, Line
<1>4. Stamps(ls) \in Seq(Stamp)
  BY <1>1, <1>3, SeqDef
<1>5. Len(Stamps(ls)) = Len(ls)
  BY <1>1, <1>3, <1>4, LenProperties
<1> QED
  BY <1>1, <1>4, <1>5 DEF Stamps

LEMMA StampsAppend ==
  ASSUME NEW ls \in Seq(Line), NEW l \in Line
  PROVE  Stamps(Append(ls, l)) = Append(Stamps(ls), [tag |-> l.tag, seq |-> l.first])
<1> DEFINE e == [tag |-> l.tag, seq |-> l.first]
           a == Append(ls, l)
           b == Append(Stamps(ls), e)
<1>1. e \in Stamp
  BY DEF Line, Stamp
<1>2. /\ a \in Seq(Line) /\ Len(a) = Len(ls) + 1 /\ a[Len(ls) + 1] = l
      /\ \A i \in 1 .. Len(ls) : a[i] = ls[i]
  BY AppendProperties
<1>3. /\ Stamps(ls) \in Seq(Stamp) /\ Len(Stamps(ls)) = Len(ls) /\ Len(ls) \in Nat
      /\ \A i \in 1 .. Len(ls) : Stamps(ls)[i] = [tag |-> ls[i].tag, seq |-> ls[i].first]
  BY StampsType, LenProperties
<1>4. /\ b \in Seq(Stamp) /\ Len(b) = Len(ls) + 1 /\ b[Len(ls) + 1] = e
      /\ \A i \in 1 .. Len(ls) : b[i] = Stamps(ls)[i]
  BY <1>1, <1>3, AppendProperties
<1> HIDE DEF a, b
<1>5. /\ Stamps(a) \in Seq(Stamp) /\ Len(Stamps(a)) = Len(a)
      /\ \A i \in 1 .. Len(a) : Stamps(a)[i] = [tag |-> a[i].tag, seq |-> a[i].first]
  BY <1>2, StampsType
<1>6. \A i \in 1 .. Len(a) : Stamps(a)[i] = b[i]
  <2> TAKE i \in 1 .. Len(a)
  <2>1. CASE i \in 1 .. Len(ls)
    BY SMTT(30), <1>2, <1>3, <1>4, <1>5, <2>1
  <2>2. CASE i = Len(ls) + 1
    BY <1>2, <1>4, <1>5, <2>2
  <2> QED
    BY <1>2, <1>3, <2>1, <2>2
<1>7. Stamps(a) = b
  BY <1>2, <1>4, <1>5, <1>6, SeqEqual
<1> QED
  BY <1>7 DEF a, b

\* EntriesIn has the equations of Kept, on lines.
LEMMA EntriesType ==
  ASSUME NEW ls \in Seq(Line) PROVE EntriesIn(ls) \in Seq(Entry)
<1>1. Stamps(ls) \in Seq(Stamp) /\ Stamp \cap Entry \subseteq Entry
  BY StampsType
<1>2. EntriesIn(ls) \in Seq(Stamp \cap Entry)
  BY <1>1, KeptType DEF EntriesIn
<1> QED
  BY <1>1, <1>2, SeqMonotonic

LEMMA EntriesEmpty == EntriesIn(<<>>) = <<>>
<1>1. Stamps(<<>>) = <<>>
  BY DEF Stamps
<1> QED
  BY <1>1, KeptEmpty DEF EntriesIn

LEMMA EntriesAppend ==
  ASSUME NEW ls \in Seq(Line), NEW l \in Line
  PROVE  EntriesIn(Append(ls, l)) =
           IF l.tag = 0 THEN EntriesIn(ls)
           ELSE Append(EntriesIn(ls), [tag |-> l.tag, seq |-> l.first])
<1> DEFINE e == [tag |-> l.tag, seq |-> l.first]
<1>1. e \in Stamp /\ Stamps(ls) \in Seq(Stamp)
  BY StampsType DEF Line, Stamp
<1>2. e \in Entry <=> l.tag # 0
  BY BoundsAssumption DEF Entry, Line, Tags
<1>3. EntriesIn(Append(ls, l)) =
        IF e \in Entry THEN Append(EntriesIn(ls), e) ELSE EntriesIn(ls)
  <2>1. EntriesIn(Append(ls, l)) = Kept(Append(Stamps(ls), e), Entry)
    BY StampsAppend DEF EntriesIn
  <2> HIDE DEF e
  <2> QED
    BY <1>1, <2>1, KeptAppend DEF EntriesIn
<1> QED
  BY <1>2, <1>3

LEMMA EntriesConcat ==
  ASSUME NEW a \in Seq(Line), NEW b \in Seq(Line)
  PROVE  EntriesIn(a \o b) = EntriesIn(a) \o EntriesIn(b)
<1> DEFINE T == {q \in Seq(Line) : EntriesIn(a \o q) = EntriesIn(a) \o EntriesIn(q)}
<1>1. <<>> \in T
  <2>1. EntriesIn(a) \in Seq(Entry)
    BY EntriesType
  <2> QED
    BY <2>1, EntriesEmpty, EmptySeq, ConcatEmptySeq
<1>2. ASSUME NEW q \in Seq(Line), NEW l \in Line, q \in T PROVE Append(q, l) \in T
  <2> DEFINE e == [tag |-> l.tag, seq |-> l.first]
  <2>1. a \o Append(q, l) = Append(a \o q, l) /\ a \o q \in Seq(Line)
    BY AppendToConcat
  <2>2. EntriesIn(Append(q, l)) = IF l.tag = 0 THEN EntriesIn(q) ELSE Append(EntriesIn(q), e)
    BY EntriesAppend
  <2>3. EntriesIn(Append(a \o q, l)) =
          IF l.tag = 0 THEN EntriesIn(a \o q) ELSE Append(EntriesIn(a \o q), e)
    BY <2>1, EntriesAppend
  <2>4. Append(q, l) \in Seq(Line)
    BY AppendProperties
  <2>5. l.tag # 0 => EntriesIn(a) \o Append(EntriesIn(q), e) = Append(EntriesIn(a) \o EntriesIn(q), e)
    <3>1. EntriesIn(a) \in Seq(Entry) /\ EntriesIn(q) \in Seq(Entry)
      BY EntriesType
    <3>2. l.tag # 0 => e \in Entry
      BY BoundsAssumption DEF Line, Entry, Tags
    <3> HIDE DEF e
    <3> QED
      BY <3>1, <3>2, AppendToConcat
  <2> HIDE DEF e
  <2> QED
    BY <1>2, <2>1, <2>2, <2>3, <2>4, <2>5
<1> HIDE DEF T
<1>3. b \in T
  BY <1>1, <1>2, SequenceInduction
<1> QED
  BY <1>3 DEF T

\* The lines that compact() writes for the entries in memory hold them.
LEMMA EntriesOfEntries ==
  ASSUME NEW es \in Seq(Entry)
  PROVE  LET ls == [i \in DOMAIN es |-> EntryLine(es[i])]
         IN  ls \in Seq(Line) /\ Len(ls) = Len(es) /\ EntriesIn(ls) = es
<1> DEFINE ls == [i \in DOMAIN es |-> EntryLine(es[i])]
<1>1. Len(es) \in Nat /\ DOMAIN es = 1 .. Len(es)
  BY LenProperties
<1>2. \A i \in 1 .. Len(es) : es[i] \in Entry
  BY ElementOfSeq
<1>3. ls \in [1 .. Len(es) -> Line]
  BY <1>1, <1>2, BoundsAssumption DEF Line, EntryLine, Entry, Tags
<1>4. ls \in Seq(Line)
  BY <1>1, <1>3, SeqDef
<1>5. Len(ls) = Len(es) /\ \A i \in 1 .. Len(es) : ls[i] = EntryLine(es[i])
  BY <1>1, <1>3, <1>4, LenProperties
<1> HIDE DEF ls
<1>6. /\ Stamps(ls) \in Seq(Stamp) /\ Len(Stamps(ls)) = Len(ls)
      /\ \A i \in 1 .. Len(ls) : Stamps(ls)[i] = [tag |-> ls[i].tag, seq |-> ls[i].first]
  BY <1>4, StampsType
<1>7. es \in Seq(Stamp)
  <2>1. Entry \subseteq Stamp
    BY BoundsAssumption DEF Entry, Stamp, Tags
  <2> QED
    BY <2>1, SeqMonotonic
<1>8. \A i \in 1 .. Len(es) : Stamps(ls)[i] = es[i]
  <2> TAKE i \in 1 .. Len(es)
  <2>1. es[i] = [tag |-> es[i].tag, seq |-> es[i].seq]
    BY <1>2 DEF Entry
  <2>2. Stamps(ls)[i] = [tag |-> EntryLine(es[i]).tag, seq |-> EntryLine(es[i]).first]
    BY <1>5, <1>6
  <2> QED
    BY <2>1, <2>2 DEF EntryLine
<1>9. Stamps(ls) = es
  BY <1>5, <1>6, <1>7, <1>8, SeqEqual
<1>10. EntriesIn(ls) = es
  BY <1>9, KeptAll DEF EntriesIn
<1> QED
  BY <1>4, <1>5, <1>10 DEF ls

-----------------------------------------------------------------------------
LEMMA SequenceOf ==
  ASSUME NEW S, NEW T, NEW s \in Seq(S), \A i \in 1 .. Len(s) : s[i] \in T
  PROVE  s \in Seq(T)
<1>1. Len(s) \in Nat /\ s \in [1 .. Len(s) -> T]
  BY LenProperties
<1> QED
  BY <1>1, SeqDef

\* A sequence is a prefix and the rest.
LEMMA Split ==
  ASSUME NEW S, NEW s \in Seq(S), NEW m \in 0 .. Len(s)
  PROVE  LET a == SubSeq(s, 1, m)
             b == SubSeq(s, m + 1, Len(s))
         IN  /\ a \in Seq(S) /\ Len(a) = m /\ \A i \in 1 .. m : a[i] = s[i]
             /\ b \in Seq(S) /\ Len(b) = Len(s) - m /\ \A i \in 1 .. Len(b) : b[i] = s[m + i]
             /\ s = a \o b
<1> DEFINE a == SubSeq(s, 1, m)
           b == SubSeq(s, m + 1, Len(s))
<1>1. /\ a \in Seq(S) /\ Len(a) = m /\ \A i \in 1 .. m : a[i] = s[i]
  BY LenProperties
<1>2. /\ b \in Seq(S) /\ Len(b) = Len(s) - m /\ \A i \in 1 .. Len(b) : b[i] = s[m + i]
  BY LenProperties
<1>3. Len(s) \in Nat
  BY LenProperties
<1> HIDE DEF a, b
<1>4. /\ a \o b \in Seq(S) /\ Len(a \o b) = Len(s)
      /\ \A i \in 1 .. Len(s) : (a \o b)[i] = IF i <= m THEN a[i] ELSE b[i - m]
  BY <1>1, <1>2, <1>3, ConcatProperties
<1>5. \A i \in 1 .. Len(s) : s[i] = (a \o b)[i]
  <2> TAKE i \in 1 .. Len(s)
  <2>1. CASE i <= m
    BY <1>1, <1>3, <1>4, <2>1
  <2>2. CASE ~ (i <= m)
    <3>1. i - m \in 1 .. Len(b) /\ m + (i - m) = i /\ ~ (i <= m)
      BY <1>2, <1>3, <2>2
    <3>2. (a \o b)[i] = b[i - m]
      BY <1>4, <3>1
    <3>3. b[i - m] = s[m + (i - m)]
      BY <1>2, <3>1
    <3> QED
      BY <3>1, <3>2, <3>3
  <2> QED
    BY <1>3, <2>1, <2>2
<1>6. s = a \o b
  BY <1>4, <1>5, SeqEqual
<1> QED
  BY <1>1, <1>2, <1>6 DEF a, b

\* The elements of s in K are the first m.
LEMMA KeptPrefix ==
  ASSUME NEW S, NEW s \in Seq(S), NEW K, NEW m \in 0 .. Len(s),
         \A i \in 1 .. Len(s) : s[i] \in K <=> i <= m
  PROVE  Kept(s, K) = SubSeq(s, 1, m)
<1> DEFINE a == SubSeq(s, 1, m)
           b == SubSeq(s, m + 1, Len(s))
<1>1. /\ a \in Seq(S) /\ Len(a) = m /\ \A i \in 1 .. m : a[i] = s[i]
      /\ b \in Seq(S) /\ Len(b) = Len(s) - m /\ \A i \in 1 .. Len(b) : b[i] = s[m + i]
      /\ s = a \o b
  BY Split
<1> HIDE DEF a, b
<1>4. Kept(a, K) = a
  <2>1. \A i \in 1 .. Len(a) : a[i] \in K
    BY <1>1, LenProperties
  <2> QED
    BY <1>1, <2>1, SequenceOf, KeptAll
<1>5. Kept(b, K) = <<>>
  <2>1. \A i \in 1 .. Len(b) : b[i] \in S \ K
    BY <1>1, LenProperties
  <2>2. b \in Seq(S \ K) /\ (S \ K) \cap K = {}
    BY <1>1, <2>1, SequenceOf
  <2> QED
    BY <2>2, KeptNone
<1>6. Kept(s, K) = Kept(a, K) \o Kept(b, K)
  BY <1>1, KeptConcat
<1> QED
  BY <1>1, <1>4, <1>5, <1>6, ConcatEmptySeq DEF a

-----------------------------------------------------------------------------
(* The tags *)

\* The commits of a sequence of entries, one by one.
LEMMA TagsInType ==
  ASSUME NEW es \in Seq(Entry)
  PROVE  /\ TagsIn(es) \in Seq(Tags)
         /\ Len(TagsIn(es)) = Len(es)
         /\ \A i \in 1 .. Len(es) : TagsIn(es)[i] = es[i].tag
<1>1. Len(es) \in Nat /\ DOMAIN es = 1 .. Len(es)
  BY LenProperties
<1>2. \A i \in 1 .. Len(es) : es[i] \in Entry
  BY ElementOfSeq
<1>3. TagsIn(es) \in [1 .. Len(es) -> Tags]
  BY <1>1, <1>2 DEF TagsIn, Entry
<1>4. TagsIn(es) \in Seq(Tags)
  BY <1>1, <1>3, SeqDef
<1> QED
  BY <1>1, <1>3, <1>4, LenProperties DEF TagsIn

LEMMA TagsInAppend ==
  ASSUME NEW es \in Seq(Entry), NEW e \in Entry
  PROVE  TagsIn(Append(es, e)) = Append(TagsIn(es), e.tag)
<1> DEFINE a == Append(es, e)
           b == Append(TagsIn(es), e.tag)
<1>1. /\ a \in Seq(Entry) /\ Len(a) = Len(es) + 1 /\ a[Len(es) + 1] = e
      /\ \A i \in 1 .. Len(es) : a[i] = es[i]
  BY AppendProperties
<1>2. /\ TagsIn(es) \in Seq(Tags) /\ Len(TagsIn(es)) = Len(es) /\ Len(es) \in Nat
      /\ \A i \in 1 .. Len(es) : TagsIn(es)[i] = es[i].tag
  BY TagsInType, LenProperties
<1>3. /\ b \in Seq(Tags) /\ Len(b) = Len(es) + 1 /\ b[Len(es) + 1] = e.tag
      /\ \A i \in 1 .. Len(es) : b[i] = TagsIn(es)[i]
  <2>1. e.tag \in Tags
    BY DEF Entry
  <2> QED
    BY <2>1, <1>2, AppendProperties
<1> HIDE DEF a, b
<1>4. /\ TagsIn(a) \in Seq(Tags) /\ Len(TagsIn(a)) = Len(a)
      /\ \A i \in 1 .. Len(a) : TagsIn(a)[i] = a[i].tag
  BY <1>1, TagsInType
<1>5. \A i \in 1 .. Len(a) : TagsIn(a)[i] = b[i]
  <2> TAKE i \in 1 .. Len(a)
  <2>1. CASE i \in 1 .. Len(es)
    BY <1>1, <1>2, <1>3, <1>4, <2>1
  <2>2. CASE i = Len(es) + 1
    BY <1>1, <1>3, <1>4, <2>2
  <2> QED
    BY <1>1, <1>2, <2>1, <2>2
<1>6. TagsIn(a) = b
  BY <1>1, <1>3, <1>4, <1>5, SeqEqual
<1> QED
  BY <1>6 DEF a, b

LEMMA TagsInPrefix ==
  ASSUME NEW es \in Seq(Entry), NEW m \in 0 .. Len(es)
  PROVE  TagsIn(SubSeq(es, 1, m)) = SubSeq(TagsIn(es), 1, m)
<1> DEFINE a == SubSeq(es, 1, m)
           b == SubSeq(TagsIn(es), 1, m)
<1>1. /\ a \in Seq(Entry) /\ Len(a) = m /\ \A i \in 1 .. m : a[i] = es[i]
  BY LenProperties
<1>2. /\ TagsIn(es) \in Seq(Tags) /\ Len(TagsIn(es)) = Len(es) /\ Len(es) \in Nat
      /\ \A i \in 1 .. Len(es) : TagsIn(es)[i] = es[i].tag
  BY TagsInType, LenProperties
<1>3. /\ b \in Seq(Tags) /\ Len(b) = m /\ \A i \in 1 .. m : b[i] = TagsIn(es)[i]
  BY <1>2, LenProperties
<1> HIDE DEF a, b
<1>4. /\ TagsIn(a) \in Seq(Tags) /\ Len(TagsIn(a)) = Len(a)
      /\ \A i \in 1 .. Len(a) : TagsIn(a)[i] = a[i].tag
  BY <1>1, TagsInType
<1>5. \A i \in 1 .. m : TagsIn(a)[i] = b[i]
  BY <1>1, <1>2, <1>3, <1>4
<1>6. TagsIn(a) = b
  BY <1>1, <1>3, <1>4, <1>5, SeqEqual
<1> QED
  BY <1>6 DEF a, b

\* The same of a sequence of lines.
LEMMA TagsType ==
  ASSUME NEW ls \in Seq(Line) PROVE TagsAt(ls) \in Seq(Tags)
BY EntriesType, TagsInType DEF TagsAt

LEMMA TagsEmpty == TagsAt(<<>>) = <<>>
BY EntriesEmpty DEF TagsAt, TagsIn

LEMMA TagsAppend ==
  ASSUME NEW ls \in Seq(Line), NEW l \in Line
  PROVE  TagsAt(Append(ls, l)) = IF l.tag = 0 THEN TagsAt(ls) ELSE Append(TagsAt(ls), l.tag)
<1> DEFINE e == [tag |-> l.tag, seq |-> l.first]
<1>1. EntriesIn(Append(ls, l)) = IF l.tag = 0 THEN EntriesIn(ls) ELSE Append(EntriesIn(ls), e)
  BY EntriesAppend
<1>2. l.tag # 0 => e \in Entry
  BY BoundsAssumption DEF Line, Entry, Tags
<1>3. e.tag = l.tag
  OBVIOUS
<1> HIDE DEF e
<1> QED
  BY <1>1, <1>2, <1>3, EntriesType, TagsInAppend DEF TagsAt

\* The tags of the first lines are the first tags.
LEMMA TagsPrefix ==
  ASSUME NEW ls \in Seq(Line), NEW n \in 0 .. Len(ls)
  PROVE  /\ SubSeq(ls, 1, n) \in Seq(Line)
         /\ Len(TagsAt(SubSeq(ls, 1, n))) \in 0 .. Len(TagsAt(ls))
         /\ TagsAt(SubSeq(ls, 1, n)) = SubSeq(TagsAt(ls), 1, Len(TagsAt(SubSeq(ls, 1, n))))
<1> DEFINE a == SubSeq(ls, 1, n)
           b == SubSeq(ls, n + 1, Len(ls))
<1>1. a \in Seq(Line) /\ b \in Seq(Line)
  BY Split
<1>2. ls = a \o b
  BY Split
<1> HIDE DEF a, b
<1>3. /\ EntriesIn(a) \in Seq(Entry) /\ EntriesIn(b) \in Seq(Entry)
      /\ EntriesIn(ls) = EntriesIn(a) \o EntriesIn(b)
  BY <1>1, <1>2, EntriesConcat, EntriesType
<1>4. /\ EntriesIn(a) = SubSeq(EntriesIn(ls), 1, Len(EntriesIn(a)))
      /\ Len(EntriesIn(a)) \in 0 .. Len(EntriesIn(ls))
  BY <1>3, SubSeqOfConcat1, ConcatProperties, LenProperties
<1>5. EntriesIn(ls) \in Seq(Entry)
  BY EntriesType
<1>6. /\ Len(TagsAt(a)) = Len(EntriesIn(a))
      /\ Len(TagsAt(ls)) = Len(EntriesIn(ls))
  BY <1>3, <1>5, TagsInType DEF TagsAt
<1>7. TagsAt(a) = SubSeq(TagsAt(ls), 1, Len(EntriesIn(a)))
  BY <1>4, <1>5, TagsInPrefix DEF TagsAt
<1> QED
  BY <1>1, <1>4, <1>6, <1>7 DEF a

-----------------------------------------------------------------------------
(* The order of the lines *)

Sound(ls) ==
  /\ \A i \in 1 .. Len(ls) :
       ls[i].first <= ls[i].last /\ (ls[i].tag # 0 => ls[i].first > 0)
  /\ \A i, j \in 1 .. Len(ls) : i < j => ls[i].last < ls[j].first

\* Entries with numbers that increase, up to n.
InOrder(es, n) ==
  /\ \A i \in 1 .. Len(es) : es[i].seq \in 1 .. n
  /\ \A i, j \in 1 .. Len(es) : i < j => es[i].seq < es[j].seq

\* A line with larger numbers may follow, and lines may be cut off.
LEMMA SoundAppend ==
  ASSUME NEW ls \in Seq(Line), NEW l \in Line, Sound(ls), l.first <= l.last,
         l.tag # 0 => l.first > 0, \A i \in 1 .. Len(ls) : ls[i].last < l.first
  PROVE  Sound(Append(ls, l))
<1> DEFINE a == Append(ls, l)
<1>1. /\ Len(a) = Len(ls) + 1 /\ a[Len(ls) + 1] = l /\ Len(ls) \in Nat
      /\ \A i \in 1 .. Len(ls) : a[i] = ls[i]
  BY AppendProperties, LenProperties
<1> HIDE DEF a
<1>2. \A i \in 1 .. Len(a) : i \in 1 .. Len(ls) \/ i = Len(ls) + 1
  BY <1>1
<1>3. \A i \in 1 .. Len(a) : a[i].first <= a[i].last /\ (a[i].tag # 0 => a[i].first > 0)
  BY <1>1, <1>2 DEF Sound
<1>4. ASSUME NEW i \in 1 .. Len(a), NEW j \in 1 .. Len(a), i < j
      PROVE  a[i].last < a[j].first
  <2>1. i \in 1 .. Len(ls)
    BY <1>1, <1>4
  <2>2. CASE j \in 1 .. Len(ls)
    BY <1>1, <1>4, <2>1, <2>2 DEF Sound
  <2>3. CASE j = Len(ls) + 1
    BY <1>1, <2>1, <2>3
  <2> QED
    BY <1>2, <2>2, <2>3
<1> QED
  BY <1>3, <1>4 DEF a, Sound

LEMMA SoundPrefix ==
  ASSUME NEW ls \in Seq(Line), Sound(ls), NEW n \in 0 .. Len(ls)
  PROVE  Sound(SubSeq(ls, 1, n))
<1>1. Len(SubSeq(ls, 1, n)) = n /\ \A i \in 1 .. n : SubSeq(ls, 1, n)[i] = ls[i]
  BY LenProperties
<1>2. \A i \in 1 .. n : i \in 1 .. Len(ls)
  BY LenProperties
<1> QED
  BY <1>1, <1>2 DEF Sound

\* The last line has the largest number.
LEMMA SoundLast ==
  ASSUME NEW ls \in Seq(Line), Sound(ls), ls # <<>>
  PROVE  /\ Len(ls) \in 1 .. Len(ls) /\ ls[Len(ls)] \in Line
         /\ \A i \in 1 .. Len(ls) : ls[i].last <= ls[Len(ls)].last
<1>1. Len(ls) \in Nat \ {0}
  BY EmptySeq
<1>2. Len(ls) \in 1 .. Len(ls)
  BY <1>1
<1>3. ls[Len(ls)] \in Line
  BY <1>2, ElementOfSeq
<1>4. ASSUME NEW i \in 1 .. Len(ls), i # Len(ls) PROVE ls[i].last <= ls[Len(ls)].last
  <2>1. i < Len(ls) /\ ls[i] \in Line
    BY <1>1, <1>4, ElementOfSeq
  <2>2. ls[i].last < ls[Len(ls)].first /\ ls[Len(ls)].first <= ls[Len(ls)].last
    BY <1>2, <2>1 DEF Sound
  <2> QED
    BY <1>3, <2>1, <2>2 DEF Line
<1>5. ls[Len(ls)].last <= ls[Len(ls)].last
  BY <1>3 DEF Line
<1> QED
  BY <1>2, <1>3, <1>4, <1>5

\* Sound lines replay without an error.
LEMMA SoundIsReadable ==
  ASSUME NEW f, f.lines \in Seq(Line), Sound(f.lines), f.lines # <<>>
  PROVE  Readable(f)
<1>1. Len(f.lines) \in Nat
  BY LenProperties
<1>2. ASSUME NEW i \in 2 .. Len(f.lines) PROVE f.lines[i].first > f.lines[i - 1].last
  <2>1. i \in 1 .. Len(f.lines) /\ i - 1 \in 1 .. Len(f.lines) /\ i - 1 < i
    BY <1>1
  <2>2. f.lines[i - 1].last < f.lines[i].first
    BY <2>1 DEF Sound
  <2>3. f.lines[i] \in Line /\ f.lines[i - 1] \in Line
    BY <2>1, ElementOfSeq
  <2> QED
    BY <2>2, <2>3 DEF Line
<1> QED
  BY <1>2 DEF Readable

\* An entry with a larger number may follow.
LEMMA InOrderAppend ==
  ASSUME NEW es \in Seq(Entry), NEW e \in Entry, NEW n \in Nat,
         InOrder(es, e.seq - 1), e.seq \in 1 .. n
  PROVE  InOrder(Append(es, e), n)
<1> DEFINE a == Append(es, e)
<1>1. /\ Len(a) = Len(es) + 1 /\ a[Len(es) + 1] = e /\ Len(es) \in Nat
      /\ \A i \in 1 .. Len(es) : a[i] = es[i]
  BY AppendProperties, LenProperties
<1>2. \A i \in 1 .. Len(es) : es[i].seq \in 1 .. e.seq - 1
  BY DEF InOrder
<1>3. e.seq \in Nat
  BY DEF Entry
<1> HIDE DEF a
<1>4. \A i \in 1 .. Len(a) : i \in 1 .. Len(es) \/ i = Len(es) + 1
  BY <1>1
<1>5. \A i \in 1 .. Len(a) : a[i].seq \in 1 .. n
  BY <1>1, <1>2, <1>3, <1>4
<1>6. ASSUME NEW i \in 1 .. Len(a), NEW j \in 1 .. Len(a), i < j
      PROVE  a[i].seq < a[j].seq
  <2>1. i \in 1 .. Len(es)
    BY <1>1, <1>6
  <2>2. CASE j \in 1 .. Len(es)
    BY <1>1, <1>6, <2>1, <2>2 DEF InOrder
  <2>3. CASE j = Len(es) + 1
    BY <1>1, <1>2, <1>3, <2>1, <2>3
  <2> QED
    BY <1>4, <2>2, <2>3
<1> QED
  BY <1>5, <1>6 DEF a, InOrder

LEMMA InOrderMore ==
  ASSUME NEW es, NEW n \in Nat, NEW m \in Nat, n <= m, InOrder(es, n)
  PROVE  InOrder(es, m)
BY DEF InOrder

\* Sound lines hold entries in order.
LEMMA EntriesInOrder ==
  ASSUME NEW ls \in Seq(Line), Sound(ls), ls # <<>>
  PROVE  InOrder(EntriesIn(ls), ls[Len(ls)].last)
<1> DEFINE T == {q \in Seq(Line) : Sound(q) =>
                   \A n \in Nat : (\A i \in 1 .. Len(q) : q[i].last <= n) => InOrder(EntriesIn(q), n)}
<1>1. <<>> \in T
  <2>1. \A n \in Nat : InOrder(<<>>, n)
    BY EmptySeq DEF InOrder
  <2> QED
    BY <2>1, EntriesEmpty, EmptySeq
<1>2. ASSUME NEW q \in Seq(Line), NEW l \in Line, q \in T PROVE Append(q, l) \in T
  <2> DEFINE a == Append(q, l)
             e == [tag |-> l.tag, seq |-> l.first]
  <2>1. /\ a \in Seq(Line) /\ Len(a) = Len(q) + 1 /\ a[Len(q) + 1] = l /\ Len(q) \in Nat
        /\ \A i \in 1 .. Len(q) : a[i] = q[i]
    BY AppendProperties, LenProperties
  <2>2. EntriesIn(a) = IF l.tag = 0 THEN EntriesIn(q) ELSE Append(EntriesIn(q), e)
    BY EntriesAppend
  <2>3. l.tag # 0 => e \in Entry
    BY BoundsAssumption DEF Line, Entry, Tags
  <2>4. e.seq = l.first /\ l.first \in Nat /\ l.last \in Nat
    BY DEF Line
  <2> HIDE DEF a, e
  <2>5. ASSUME Sound(a), NEW n \in Nat, \A i \in 1 .. Len(a) : a[i].last <= n
        PROVE  InOrder(EntriesIn(a), n)
    <3>1. \A i \in 1 .. Len(q) : i \in 1 .. Len(a) /\ i < Len(a) /\ Len(a) \in 1 .. Len(a)
      BY <2>1
    <3>2. Sound(q)
      BY <2>1, <2>5, <3>1 DEF Sound
    <3>3. l.first <= l.last /\ (l.tag # 0 => l.first > 0) /\ l.last <= n
      BY <2>1, <2>5 DEF Sound
    <3>4. \A i \in 1 .. Len(q) : q[i].last < l.first /\ q[i].last <= n /\ q[i] \in Line
      BY <2>1, <2>5, <3>1, ElementOfSeq DEF Sound
    <3>5. CASE l.tag = 0
      <4>1. InOrder(EntriesIn(q), n)
        BY <1>2, <3>2, <3>4
      <4> QED
        BY <2>2, <3>5, <4>1
    <3>6. CASE l.tag # 0
      <4>1. l.first - 1 \in Nat
        BY <2>4, <3>3, <3>6
      <4>1a. \A i \in 1 .. Len(q) : q[i].last <= l.first - 1
        <5> TAKE i \in 1 .. Len(q)
        <5>1. q[i].last \in Nat /\ q[i].last < l.first
          BY <3>4 DEF Line
        <5> QED
          BY <2>4, <5>1
      <4>2. InOrder(EntriesIn(q), l.first - 1)
        BY <1>2, <3>2, <4>1, <4>1a
      <4>3. e.seq \in 1 .. n /\ e \in Entry /\ EntriesIn(q) \in Seq(Entry)
        BY <2>3, <2>4, <3>3, <3>6, EntriesType
      <4>4. InOrder(Append(EntriesIn(q), e), n)
        BY <2>4, <4>2, <4>3, InOrderAppend
      <4> QED
        BY <2>2, <3>6, <4>4
    <3> QED
      BY <3>5, <3>6
  <2> QED
    BY <2>1, <2>5 DEF a
<1>3. ls \in T
  <2> HIDE DEF T
  <2> QED
    BY <1>1, <1>2, SequenceInduction
<1>4. ls[Len(ls)].last \in Nat
  BY SoundLast DEF Line
<1> QED
  BY <1>3, <1>4, SoundLast

-----------------------------------------------------------------------------
FileType == [lines : Seq(Line), torn : BOOLEAN, synced : Nat]
FileOK(f) ==
  /\ f \in FileType
  /\ f.synced <= Len(f.lines)
  /\ Sound(f.lines)

\* A line that may be written after the lines of f.
Continues(l, f) ==
  /\ l \in Line /\ l.tag # 0
  /\ 0 < l.first /\ l.first <= l.last
  /\ LastSeq(f) < l.first

OpenHandle ==
  [stage : {"open"}, ino : Inodes, mem : Seq(Entry), seq : Nat, goodLen : Nat,
   poisoned : BOOLEAN, rest : Seq(Line)]

\* h is a handle on f.
Describes(h, f) ==
  /\ h \in OpenHandle
  /\ f.lines # <<>>
  /\ \E n \in Nat : h.goodLen = 2 * n
  /\ InOrder(h.mem, h.seq)
  /\ ~h.poisoned => h.rest = <<>> /\ LastSeq(f) <= h.seq
  /\ h.rest # <<>> => h.rest = <<h.rest[1]>> /\ Continues(h.rest[1], f)

DiskInv ==
  /\ files = [i \in Inodes |-> files[i]]
  /\ \A i \in Inodes : FileOK(files[i])
  /\ path \in Inodes \cup {NoFile}
  /\ onDisk \subseteq Inodes \cup {NoFile}

\* One process at a time has anything to do with the session.
AloneInv == \A p, q \in Procs : handle[p] # Closed /\ handle[q] # Closed => p = q

AtWork(p) ==
  /\ path \in Inodes
  /\ \/ handle[p] = Creating(path) /\ files[path] = EmptyFile
     \/ Describes(handle[p], files[handle[p].ino]) /\ files[path].lines # <<>>

WorkInv == \A p \in Procs : handle[p] # Closed => AtWork(p)

SafeInv ==
  /\ DiskInv
  /\ AloneInv
  /\ WorkInv
  /\ attempts \in 0 .. MaxCommits

-----------------------------------------------------------------------------
(* Records *)

\* A handle of a file that is being made, and an open one, are not closed.
LEMMA CreatingIs ==
  ASSUME NEW i
  PROVE  Creating(i).stage = "creating" /\ Creating(i).ino = i /\ Creating(i) # Closed
BY DEF Creating, Closed

LEMMA OpenIsNotClosed ==
  ASSUME NEW h, h \in OpenHandle PROVE h # Closed /\ h.stage = "open"
BY DEF OpenHandle, Closed

\* One line written to a file that ends in whole lines.
LEMMA WrittenOne ==
  ASSUME NEW f \in FileType, ~f.torn, NEW l, NEW sync \in BOOLEAN
  PROVE  Written(f, <<l>>, sync) =
           [lines |-> Append(f.lines, l), torn |-> FALSE,
            synced |-> IF sync THEN Len(f.lines) + 1 ELSE f.synced]
<1>1. [i \in DOMAIN <<l>> |-> IF i = 1 /\ f.torn THEN HeaderLine ELSE <<l>>[i]] = <<l>>
  OBVIOUS
<1>2. f.lines \o <<l>> = Append(f.lines, l) /\ Len(Append(f.lines, l)) = Len(f.lines) + 1
  BY DEF FileType
<1> QED
  BY <1>1, <1>2 DEF Written

\* A new file is in order.
LEMMA EmptyFileOK == FileOK(EmptyFile)
<1>1. EmptyFile \in FileType
  BY EmptySeq DEF EmptyFile, FileType
<1> QED
  BY <1>1, EmptySeq DEF EmptyFile, FileOK, Sound

\* A line is added to a file that can take it.
LEMMA AddedOK ==
  ASSUME NEW f, FileOK(f), f.lines # <<>>, ~f.torn, NEW l, Continues(l, f), NEW sync \in BOOLEAN
  PROVE  LET g == Written(f, <<l>>, sync)
         IN  /\ FileOK(g)
             /\ g.lines = Append(f.lines, l) /\ ~g.torn
             /\ g.lines # <<>> /\ LastSeq(g) = l.last
<1> DEFINE g == Written(f, <<l>>, sync)
<1>1. /\ f \in FileType /\ f.lines \in Seq(Line) /\ l \in Line /\ Len(f.lines) \in Nat
      /\ f.synced \in Nat /\ f.synced <= Len(f.lines)
  BY LenProperties DEF FileOK, FileType, Continues
<1>2. g = [lines |-> Append(f.lines, l), torn |-> FALSE,
           synced |-> IF sync THEN Len(f.lines) + 1 ELSE f.synced]
  BY <1>1, WrittenOne
<1>3. /\ Append(f.lines, l) \in Seq(Line) /\ Len(Append(f.lines, l)) = Len(f.lines) + 1
      /\ Append(f.lines, l)[Len(f.lines) + 1] = l /\ Append(f.lines, l) # <<>>
  BY <1>1, AppendProperties
<1> HIDE DEF g
<1>4. g \in FileType /\ g.synced <= Len(g.lines)
  BY <1>1, <1>2, <1>3 DEF FileType
<1>5. \A i \in 1 .. Len(f.lines) : f.lines[i].last < l.first
  <2> TAKE i \in 1 .. Len(f.lines)
  <2>1. /\ f.lines[i].last <= f.lines[Len(f.lines)].last /\ f.lines[Len(f.lines)] \in Line
        /\ f.lines[i] \in Line
    BY <1>1, SoundLast, ElementOfSeq DEF FileOK
  <2>2. f.lines[Len(f.lines)].last < l.first
    BY DEF Continues, LastSeq
  <2> DEFINE here == f.lines[i].last
             there == f.lines[Len(f.lines)].last
  <2>3. here \in Nat /\ there \in Nat /\ l.first \in Nat
    BY <1>1, <2>1 DEF Line
  <2>4. here <= there /\ there < l.first
    BY <2>1, <2>2
  <2> HIDE DEF here, there
  <2>5. here < l.first
    BY <2>3, <2>4
  <2> QED
    BY <2>5 DEF here
<1>6. Sound(Append(f.lines, l))
  BY <1>1, <1>5, SoundAppend DEF FileOK, Continues
<1>7. g.lines = Append(f.lines, l) /\ ~g.torn
  BY <1>2
<1>8. LastSeq(g) = l.last
  BY <1>3, <1>7 DEF LastSeq
<1> QED
  BY <1>3, <1>4, <1>6, <1>7, <1>8 DEF g, FileOK

\* A handle that may append is at the end of whole lines.
LEMMA AppendsToLines ==
  ASSUME SafeInv, NEW p \in Procs, CanAppend(p)
  PROVE  /\ Describes(handle[p], File(p)) /\ handle[p].ino \in Inodes /\ FileOK(File(p))
         /\ handle[p].rest = <<>> /\ ~File(p).torn /\ LastSeq(File(p)) <= handle[p].seq
         /\ path \in Inodes /\ files[path].lines # <<>>
<1>1. handle[p].stage = "open" /\ ~handle[p].poisoned /\ handle[p].goodLen = Length(File(p))
  BY DEF CanAppend, IsOpen
<1>2. handle[p] # Closed /\ handle[p] # Creating(path)
  BY <1>1, CreatingIs DEF Closed
<1>3. path \in Inodes /\ files[path].lines # <<>> /\ Describes(handle[p], File(p))
  BY <1>2 DEF SafeInv, WorkInv, AtWork, File
<1>4. handle[p].ino \in Inodes
  BY <1>3 DEF Describes, OpenHandle
<1>5. FileOK(File(p))
  BY <1>4 DEF SafeInv, DiskInv, File
<1>6. File(p).torn \in BOOLEAN /\ Len(File(p).lines) \in Nat
  BY <1>5, LenProperties DEF FileOK, FileType
<1>7. ~File(p).torn
  <2>1. PICK n \in Nat : handle[p].goodLen = 2 * n
    BY <1>3 DEF Describes
  <2>2. 2 * n = 2 * Len(File(p).lines) + (IF File(p).torn THEN 1 ELSE 0)
    BY <1>1, <2>1 DEF Length
  <2>3. \A j, k \in Nat : 2 * j # 2 * k + 1
    OBVIOUS
  <2> HIDE DEF File
  <2> QED
    BY <1>6, <2>1, <2>2, <2>3
<1>8. handle[p].rest = <<>> /\ LastSeq(File(p)) <= handle[p].seq
  BY <1>1, <1>3 DEF Describes
<1> QED
  BY <1>3, <1>4, <1>5, <1>7, <1>8

\* The next line of a handle that may append may follow those of its file.
LEMMA NextLineContinues ==
  ASSUME SafeInv, NEW p \in Procs, CanAppend(p), attempts < MaxCommits
  PROVE  Continues(NextLine(p), File(p)) /\ NextTag \in Tags
<1>1. handle[p].seq \in Nat /\ LastSeq(File(p)) <= handle[p].seq
  BY AppendsToLines DEF Describes, OpenHandle
<1>2. LastSeq(File(p)) \in Nat
  <2>1. File(p).lines # <<>> /\ File(p).lines \in Seq(Line) /\ Sound(File(p).lines)
    BY AppendsToLines DEF Describes, FileOK, FileType
  <2> QED
    BY <2>1, SoundLast DEF LastSeq, Line
<1>3. attempts + 1 \in 1 .. MaxCommits
  BY BoundsAssumption DEF SafeInv
<1>4. NextLine(p) = [first |-> handle[p].seq + 1, last |-> handle[p].seq + 2, tag |-> attempts + 1]
  BY DEF NextLine, CommitLine, NextTag
<1> QED
  BY <1>1, <1>2, <1>3, <1>4, BoundsAssumption DEF Continues, Line, NextTag, Tags

-----------------------------------------------------------------------------
(* Steps *)

\* A step that writes one file, and leaves it in order.
LEMMA DiskWrite ==
  ASSUME DiskInv, NEW i \in Inodes, NEW g, FileOK(g), files' = [files EXCEPT ![i] = g],
         path' \in Inodes \cup {NoFile}, onDisk' \subseteq Inodes \cup {NoFile}
  PROVE  /\ DiskInv'
         /\ files'[i] = g
         /\ \A j \in Inodes : j # i => files'[j] = files[j]
BY DEF DiskInv

\* A step of the one process that is at work.
LEMMA StepOf ==
  ASSUME IInv, NEW p \in Procs, NEW h, handle' = [handle EXCEPT ![p] = h],
         \A q \in Procs : q # p => handle[q] = Closed,
         DiskInv', attempts' \in 0 .. MaxCommits,
         handle'[p] = Closed \/ AtWork(p)'
  PROVE  SafeInv'
<1>1. \A q \in Procs : q # p => handle'[q] = Closed
  BY DEF IInv, HandlesInv
<1>2. AloneInv'
  BY <1>1 DEF AloneInv
<1>3. WorkInv'
  BY <1>1 DEF WorkInv
<1> QED
  BY <1>2, <1>3 DEF SafeInv

\* Where one process is at work, the others are not.
LEMMA Others ==
  ASSUME SafeInv, NEW p \in Procs, handle[p] # Closed
  PROVE  \A q \in Procs : q # p => handle[q] = Closed
BY DEF SafeInv, AloneInv

\* A fresh inode is in no use.
LEMMA FreshIsFresh ==
  ASSUME Inodes \ InUse # {}
  PROVE  /\ FreshInode \in Inodes /\ FreshInode # path /\ FreshInode \notin onDisk
         /\ \A p \in Procs : FreshInode # handle[p].ino
<1>1. \E i \in Inodes : i \notin InUse
  OBVIOUS
<1>2. FreshInode \in Inodes /\ FreshInode \notin InUse
  BY <1>1, Zenon DEF FreshInode
<1> QED
  BY <1>2 DEF InUse

\* What open() and compact() return is a handle on the file.
LEMMA OpenedDescribes ==
  ASSUME NEW f, FileOK(f), f.lines # <<>>, ~f.torn, NEW i \in Inodes
  PROVE  Describes(Opened(i, f), f)
<1>1. f.lines \in Seq(Line) /\ Sound(f.lines) /\ Len(f.lines) \in Nat
  BY LenProperties DEF FileOK, FileType
<1>2. LastSeq(f) \in Nat
  BY <1>1, SoundLast DEF LastSeq, Line
<1>3. EntriesOf(f) \in Seq(Entry) /\ InOrder(EntriesOf(f), LastSeq(f))
  BY <1>1, EntriesType, EntriesInOrder, OfTheLines DEF LastSeq
<1>4. Length(f) = 2 * Len(f.lines) /\ Length(f) \in Nat
  BY <1>1 DEF Length
<1>5. Opened(i, f) = [stage |-> "open", ino |-> i, mem |-> EntriesOf(f), seq |-> LastSeq(f),
                      goodLen |-> Length(f), poisoned |-> FALSE, rest |-> <<>>]
  BY DEF Opened
<1>6. Opened(i, f) \in OpenHandle
  BY <1>2, <1>3, <1>4, <1>5, EmptySeq DEF OpenHandle
<1>7. /\ Opened(i, f).mem = EntriesOf(f) /\ Opened(i, f).seq = LastSeq(f)
      /\ Opened(i, f).goodLen = Length(f) /\ Opened(i, f).rest = <<>>
  BY <1>5
<1>8. LastSeq(f) <= LastSeq(f)
  BY <1>2
<1> QED
  BY <1>1, <1>3, <1>4, <1>6, <1>7, <1>8 DEF Describes

\* A fragment at its end leaves the lines of a file alone.
LEMMA TornOK ==
  ASSUME NEW f, FileOK(f), NEW b \in BOOLEAN
  PROVE  /\ FileOK([f EXCEPT !.torn = b])
         /\ [f EXCEPT !.torn = b].lines = f.lines /\ [f EXCEPT !.torn = b].torn = b
         /\ [f EXCEPT !.torn = b].synced = f.synced
<1>1. [f EXCEPT !.torn = b] \in FileType
  BY DEF FileOK, FileType
<1>2. /\ [f EXCEPT !.torn = b].lines = f.lines /\ [f EXCEPT !.torn = b].torn = b
      /\ [f EXCEPT !.torn = b].synced = f.synced
  BY DEF FileOK, FileType
<1> QED
  BY <1>1, <1>2 DEF FileOK

-----------------------------------------------------------------------------
(* create() *)

\* The file that is being made is empty and has the session's name.
LEMMA CreatingFacts ==
  ASSUME SafeInv, NEW p \in Procs, handle[p].stage = "creating"
  PROVE  /\ handle[p] # Closed /\ path \in Inodes
         /\ handle[p].ino = path /\ File(p) = EmptyFile /\ files[path] = EmptyFile
<1>1. handle[p] # Closed
  BY DEF Closed
<1>2. ~ Describes(handle[p], File(p))
  BY OpenIsNotClosed DEF Describes
<1>3. path \in Inodes /\ handle[p] = Creating(path) /\ files[path] = EmptyFile
  BY <1>1, <1>2 DEF SafeInv, WorkInv, AtWork, File
<1> QED
  BY <1>1, <1>3, CreatingIs DEF File

\* create() keeps the invariant.
LEMMA CreateFileIsSafe ==
  ASSUME IInv, SafeInv, NEW p \in Procs, CreateFile(p) PROVE SafeInv'
<1> DEFINE i == FreshInode
<1>1. i \in Inodes
  BY FreshIsFresh DEF CreateFile
<1>2. \A q \in Procs : handle[q] = Closed
  BY NoFileAssumption DEF SafeInv, WorkInv, AtWork, CreateFile
<1>3. /\ files' = [files EXCEPT ![i] = EmptyFile] /\ path' = i /\ onDisk' = onDisk \cup {i}
      /\ handle' = [handle EXCEPT ![p] = Creating(i)] /\ attempts' = attempts
  BY DEF CreateFile, Ghosts
<1> HIDE DEF i
<1>4. DiskInv' /\ files'[i] = EmptyFile
  BY <1>1, <1>3, EmptyFileOK, DiskWrite DEF SafeInv, DiskInv
<1>5. handle'[p] = Creating(i)
  BY <1>3 DEF IInv, HandlesInv
<1>6. AtWork(p)'
  BY <1>1, <1>3, <1>4, <1>5 DEF AtWork, Creating, Closed
<1> QED
  BY <1>2, <1>3, <1>4, <1>6, StepOf DEF SafeInv

\* The first line of a new file.
LEMMA HeaderWritten ==
  LET f == Written(EmptyFile, <<HeaderLine>>, FALSE)
  IN  /\ FileOK(f) /\ f.lines = <<HeaderLine>> /\ f.lines # <<>> /\ ~f.torn
      /\ f.synced = 0 /\ TagsAt(f.lines) = <<>>
<1> DEFINE f == Written(EmptyFile, <<HeaderLine>>, FALSE)
<1>1. EmptyFile \in FileType /\ ~EmptyFile.torn /\ EmptyFile.lines = <<>> /\ EmptyFile.synced = 0
  BY EmptyFileOK DEF FileOK, EmptyFile
<1>2. f = [lines |-> Append(<<>>, HeaderLine), torn |-> FALSE, synced |-> 0]
  BY <1>1, WrittenOne
<1>3. HeaderLine \in Line /\ HeaderLine.tag = 0 /\ HeaderLine.first <= HeaderLine.last
  BY BoundsAssumption DEF HeaderLine, Line
<1>4. /\ Append(<<>>, HeaderLine) = <<HeaderLine>> /\ <<HeaderLine>> \in Seq(Line)
      /\ Len(<<HeaderLine>>) = 1
  BY <1>3
<1> HIDE DEF f
<1>5. f.lines = <<HeaderLine>> /\ ~f.torn /\ f.synced = 0 /\ f \in FileType
  BY <1>2, <1>4 DEF FileType
<1>6. Sound(<<HeaderLine>>)
  BY <1>3, <1>4 DEF Sound
<1>7. TagsAt(<<HeaderLine>>) = <<>>
  BY <1>3, <1>4, TagsAppend, TagsEmpty, EmptySeq
<1>8. FileOK(f)
  BY <1>4, <1>5, <1>6 DEF FileOK
<1>9. f.lines # <<>>
  BY <1>4, <1>5, EmptySeq
<1> QED
  BY <1>5, <1>7, <1>8, <1>9 DEF f

LEMMA CreateHeaderIsSafe ==
  ASSUME IInv, SafeInv, NEW p \in Procs, CreateHeader(p) PROVE SafeInv'
<1> DEFINE f == Written(EmptyFile, <<HeaderLine>>, FALSE)
<1>1. /\ handle[p] # Closed /\ path \in Inodes /\ handle[p].ino = path /\ File(p) = EmptyFile
  BY CreatingFacts DEF CreateHeader
<1>2. /\ files' = [files EXCEPT ![path] = f] /\ handle' = [handle EXCEPT ![p] = Opened(path, f)]
      /\ path' = path /\ onDisk' = onDisk /\ attempts' = attempts
  BY <1>1 DEF CreateHeader, Ghosts
<1>3. FileOK(f) /\ f.lines = <<HeaderLine>> /\ f.lines # <<>> /\ ~f.torn
  BY HeaderWritten
<1> HIDE DEF f
<1>4. DiskInv' /\ files'[path] = f
  BY <1>1, <1>2, <1>3, DiskWrite DEF SafeInv, DiskInv
<1>5. handle'[p] = Opened(path, f)
  BY <1>2 DEF IInv, HandlesInv
<1>6. Describes(handle'[p], f)
  BY <1>1, <1>3, <1>5, OpenedDescribes
<1>6a. handle'[p].ino = path
  BY <1>5 DEF Opened
<1>7. AtWork(p)'
  BY <1>1, <1>2, <1>3, <1>4, <1>6, <1>6a
  DEF AtWork, Describes, OpenHandle, InOrder, Continues, LastSeq
<1> QED
  BY <1>1, <1>2, <1>4, <1>7, Others, StepOf DEF SafeInv

LEMMA CreateFailsIsSafe ==
  ASSUME IInv, SafeInv, NEW p \in Procs, CreateFails(p) PROVE SafeInv'
<1>1. handle[p] # Closed /\ path \in Inodes /\ handle[p].ino = path
  BY CreatingFacts DEF CreateFails
<1>2. PICK torn \in BOOLEAN : files' = [files EXCEPT ![path].torn = torn]
  BY <1>1 DEF CreateFails
<1>3. files' = [files EXCEPT ![path] = [files[path] EXCEPT !.torn = torn]]
  BY <1>1, <1>2 DEF SafeInv, DiskInv
<1>4. FileOK([files[path] EXCEPT !.torn = torn])
  BY <1>1, TornOK DEF SafeInv, DiskInv
<1>5. /\ path' = path /\ onDisk' = onDisk /\ attempts' = attempts
      /\ handle' = [handle EXCEPT ![p] = Closed]
  BY DEF CreateFails, Ghosts
<1>6. DiskInv'
  BY <1>1, <1>3, <1>4, <1>5, DiskWrite DEF SafeInv, DiskInv
<1>7. handle'[p] = Closed
  BY <1>5 DEF IInv, HandlesInv
<1> QED
  BY <1>1, <1>5, <1>6, <1>7, Others, StepOf DEF SafeInv

-----------------------------------------------------------------------------
\* An open handle on a file with a header is at work.
LEMMA Works ==
  ASSUME NEW p \in Procs, path' \in Inodes, files'[path'].lines # <<>>,
         Describes(handle'[p], files'[handle'[p].ino])
  PROVE  AtWork(p)'
BY DEF AtWork, Describes, OpenHandle, InOrder, Continues, LastSeq

\* What the invariant says of an open handle.
LEMMA OpenFacts ==
  ASSUME SafeInv, NEW p \in Procs, IsOpen(p)
  PROVE  /\ handle[p] # Closed /\ handle[p].ino \in Inodes /\ handle[p] \in OpenHandle
         /\ Describes(handle[p], File(p)) /\ FileOK(File(p))
         /\ path \in Inodes /\ files[path].lines # <<>>
<1>1. handle[p] # Closed /\ handle[p] # Creating(path)
  BY CreatingIs DEF IsOpen, Closed
<1>2. Describes(handle[p], File(p)) /\ path \in Inodes /\ files[path].lines # <<>>
  BY <1>1 DEF SafeInv, WorkInv, AtWork, File
<1>3. handle[p] \in OpenHandle /\ handle[p].ino \in Inodes
  BY <1>2 DEF Describes, OpenHandle
<1> QED
  BY <1>1, <1>2, <1>3 DEF SafeInv, DiskInv, File

\* A handle that goes away, after its process has written to its file or not.
LEMMA DropsIsSafe ==
  ASSUME IInv, SafeInv, NEW p \in Procs, handle[p] # Closed, Drops(p), DiskInv',
         attempts' \in 0 .. MaxCommits
  PROVE  SafeInv'
<1>1. handle'[p] = Closed
  BY DEF Drops, IInv, HandlesInv
<1> QED
  BY <1>1, Others, StepOf DEF Drops

-----------------------------------------------------------------------------
(* open() *)

\* The file once a torn tail is cut off.
Repaired(f) == IF f.torn THEN [f EXCEPT !.torn = FALSE, !.synced = Len(f.lines)] ELSE f

\* The repair keeps the lines, and syncs them.
LEMMA RepairedOK ==
  ASSUME NEW f, FileOK(f)
  PROVE  /\ FileOK(Repaired(f)) /\ Repaired(f).lines = f.lines /\ ~Repaired(f).torn
         /\ Repaired(f).synced \in f.synced .. Len(f.lines)
<1>1. f \in FileType /\ Len(f.lines) \in Nat /\ f.synced \in 0 .. Len(f.lines)
  BY LenProperties DEF FileOK, FileType
<1>2. CASE f.torn
  <2> DEFINE g == [f EXCEPT !.torn = FALSE, !.synced = Len(f.lines)]
  <2>1. g \in FileType
    BY <1>1 DEF FileType
  <2>2. g.lines = f.lines /\ g.torn = FALSE /\ g.synced = Len(f.lines)
    BY <1>1 DEF FileType
  <2>3. Repaired(f) = g
    BY <1>2 DEF Repaired
  <2> HIDE DEF g
  <2> QED
    BY <1>1, <2>1, <2>2, <2>3 DEF FileOK
<1>3. CASE ~f.torn
  BY <1>1, <1>3 DEF Repaired
<1> QED
  BY <1>2, <1>3

\* What open() does, said with Repaired.
LEMMA OpenDoes ==
  ASSUME IInv, SafeInv, NEW p \in Procs, Open(p)
  PROVE  /\ path \in Inodes /\ FileOK(files[path]) /\ files[path].lines # <<>>
         /\ \A q \in Procs : handle[q] = Closed
         /\ files' = [files EXCEPT ![path] = Repaired(files[path])]
         /\ handle' = [handle EXCEPT ![p] = Opened(path, Repaired(files[path]))]
         /\ onDisk' = IF files[path].torn THEN {path} ELSE onDisk
         /\ acked' = TagsOf(Repaired(files[path]))
         /\ path' = path /\ attempts' = attempts /\ promised' = promised
<1>1. path \in Inodes /\ files[path].lines # <<>> /\ lock = Nobody
  BY DEF Open, SafeInv, DiskInv, Readable
<1>2. ASSUME NEW q \in Procs, handle[q] # Closed PROVE FALSE
  <2>1. files[path] # EmptyFile
    BY <1>1 DEF EmptyFile
  <2>2. Describes(handle[q], files[handle[q].ino])
    BY <1>2, <2>1 DEF SafeInv, WorkInv, AtWork
  <2>3. IsOpen(q)
    BY <2>2, OpenIsNotClosed DEF Describes, IsOpen
  <2> QED
    BY <1>1, <2>3, NobodyAssumption DEF IInv, LockInv
<1>3. FileOK(files[path])
  BY <1>1 DEF SafeInv, DiskInv
<1> QED
  BY <1>1, <1>2, <1>3 DEF Open, Repaired

LEMMA OpenIsSafe ==
  ASSUME IInv, SafeInv, NEW p \in Procs, Open(p) PROVE SafeInv'
<1> DEFINE g == Repaired(files[path])
<1>1. /\ path \in Inodes /\ FileOK(files[path]) /\ files[path].lines # <<>>
      /\ \A q \in Procs : handle[q] = Closed
      /\ files' = [files EXCEPT ![path] = g]
      /\ handle' = [handle EXCEPT ![p] = Opened(path, g)]
      /\ onDisk' \subseteq onDisk \cup {path}
      /\ path' = path /\ attempts' = attempts
  BY OpenDoes
<1>2. FileOK(g) /\ g.lines # <<>> /\ ~g.torn
  BY <1>1, RepairedOK
<1> HIDE DEF g
<1>3. DiskInv' /\ files'[path] = g
  BY <1>1, <1>2, DiskWrite DEF SafeInv, DiskInv
<1>4. handle'[p] = Opened(path, g)
  BY <1>1 DEF IInv, HandlesInv
<1>5. Describes(handle'[p], g)
  BY <1>1, <1>2, <1>4, OpenedDescribes
<1>6. handle'[p].ino = path
  BY <1>4 DEF Opened
<1>7. AtWork(p)'
  BY <1>1, <1>2, <1>3, <1>5, <1>6, Works
<1> QED
  BY <1>1, <1>3, <1>7, StepOf DEF SafeInv

-----------------------------------------------------------------------------
(* commit() *)

\* The file with the line of the commit.
LEMMA LineAdded ==
  ASSUME SafeInv, NEW p \in Procs, CanAppend(p), attempts < MaxCommits, NEW sync \in BOOLEAN
  PROVE  LET g == Written(File(p), <<NextLine(p)>>, sync)
         IN  /\ FileOK(g) /\ ~g.torn
             /\ g.lines = Append(File(p).lines, NextLine(p)) /\ g.lines # <<>>
             /\ LastSeq(g) = handle[p].seq + 2
             /\ g.synced = IF sync THEN Len(g.lines) ELSE File(p).synced
<1> DEFINE g == Written(File(p), <<NextLine(p)>>, sync)
<1>1. /\ FileOK(File(p)) /\ File(p).lines # <<>> /\ ~File(p).torn
      /\ Continues(NextLine(p), File(p))
  BY AppendsToLines, NextLineContinues DEF Describes
<1>2. /\ FileOK(g) /\ g.lines = Append(File(p).lines, NextLine(p)) /\ ~g.torn
      /\ g.lines # <<>> /\ LastSeq(g) = NextLine(p).last
  BY <1>1, AddedOK
<1>3. NextLine(p).last = handle[p].seq + 2
  BY DEF NextLine, CommitLine
<1>4. File(p) \in FileType /\ NextLine(p) \in Line /\ File(p).lines \in Seq(Line)
  BY <1>1 DEF FileOK, FileType, Continues
<1>5. g = [lines |-> Append(File(p).lines, NextLine(p)), torn |-> FALSE,
           synced |-> IF sync THEN Len(File(p).lines) + 1 ELSE File(p).synced]
  BY <1>1, <1>4, WrittenOne
<1>6. Len(Append(File(p).lines, NextLine(p))) = Len(File(p).lines) + 1
  BY <1>4, AppendProperties
<1> HIDE DEF g
<1>7. g.synced = IF sync THEN Len(g.lines) ELSE File(p).synced
  BY <1>5, <1>6
<1> QED
  BY <1>2, <1>3, <1>7 DEF g

\* What commit() does: the line is in the file, and in the handle.
LEMMA CommitDoes ==
  ASSUME IInv, SafeInv, NEW p \in Procs, NEW deferred \in BOOLEAN, Commit(p, deferred)
  PROVE  LET f == Written(File(p), <<NextLine(p)>>, ~deferred)
             h == [Remembered(p) EXCEPT !.goodLen = Length(f)]
         IN  /\ CanAppend(p) /\ attempts < MaxCommits
             /\ files' = [files EXCEPT ![handle[p].ino] = f]
             /\ handle' = [handle EXCEPT ![p] = h]
             /\ Describes(h, f)
             /\ h.ino = handle[p].ino /\ ~h.poisoned
             /\ h.mem = Append(handle[p].mem, [tag |-> NextTag, seq |-> handle[p].seq + 1])
             /\ h.rest = <<>>
<1> DEFINE f == Written(File(p), <<NextLine(p)>>, ~deferred)
           h == [Remembered(p) EXCEPT !.goodLen = Length(f)]
           e == [tag |-> NextTag, seq |-> handle[p].seq + 1]
<1>1. CanAppend(p) /\ attempts < MaxCommits
  BY DEF Commit
<1>2. handle[p].rest \o <<NextLine(p)>> = <<NextLine(p)>>
  <2>1. handle[p].rest = <<>>
    BY <1>1, AppendsToLines
  <2>2. NextLine(p) \in Line
    BY <1>1, NextLineContinues DEF Continues
  <2> QED
    BY <2>1, <2>2
<1>3. files' = [files EXCEPT ![handle[p].ino] = f] /\ handle' = [handle EXCEPT ![p] = h]
  BY <1>2 DEF Commit
<1>4. /\ handle[p] \in OpenHandle /\ handle[p].rest = <<>> /\ ~handle[p].poisoned
      /\ InOrder(handle[p].mem, handle[p].seq)
  BY <1>1, AppendsToLines DEF Describes, CanAppend
<1>5. FileOK(f) /\ ~f.torn /\ f.lines # <<>> /\ LastSeq(f) = handle[p].seq + 2
  BY <1>1, LineAdded
<1> HIDE DEF f
<1>6. e \in Entry /\ e.seq = handle[p].seq + 1 /\ handle[p].seq \in Nat
  BY <1>1, <1>4, NextLineContinues DEF Entry, OpenHandle
<1> HIDE DEF e
<1>7. Length(f) = 2 * Len(f.lines) /\ Len(f.lines) \in Nat /\ Length(f) \in Nat
  BY <1>5, LenProperties DEF Length, FileOK, FileType
<1>8. Remembered(p) = [[handle[p] EXCEPT !.mem = Append(@, e)] EXCEPT !.seq = @ + 2]
  BY DEF Remembered, e
<1>9. Append(handle[p].mem, e) \in Seq(Entry)
  BY <1>4, <1>6, AppendProperties DEF OpenHandle
<1>10. /\ h \in OpenHandle /\ h.mem = Append(handle[p].mem, e) /\ h.seq = handle[p].seq + 2
       /\ h.goodLen = Length(f) /\ h.rest = <<>> /\ h.ino = handle[p].ino /\ ~h.poisoned
  <2> DEFINE h1 == [handle[p] EXCEPT !.mem = Append(@, e)]
             h2 == [h1 EXCEPT !.seq = @ + 2]
  <2>1. /\ h1 \in OpenHandle /\ h1.mem = Append(handle[p].mem, e) /\ h1.seq = handle[p].seq
        /\ h1.rest = handle[p].rest /\ h1.ino = handle[p].ino /\ h1.poisoned = handle[p].poisoned
    BY <1>4, <1>9 DEF OpenHandle
  <2>2. h = [h2 EXCEPT !.goodLen = Length(f)]
    BY <1>8
  <2> DEFINE n == h1.seq + 2
  <2>2a. n \in Nat /\ h2 = [h1 EXCEPT !.seq = n]
    BY <2>1 DEF OpenHandle
  <2> HIDE DEF h, h1, n
  <2>3. /\ h2 \in OpenHandle /\ h2.mem = h1.mem /\ h2.seq = n
        /\ h2.rest = h1.rest /\ h2.ino = h1.ino /\ h2.poisoned = h1.poisoned
    BY <2>1, <2>2a DEF OpenHandle
  <2> HIDE DEF h2
  <2>4. /\ h \in OpenHandle /\ h.mem = h2.mem /\ h.seq = h2.seq /\ h.goodLen = Length(f)
        /\ h.rest = h2.rest /\ h.ino = h2.ino /\ h.poisoned = h2.poisoned
    BY <1>7, <2>2, <2>3 DEF OpenHandle
  <2> QED
    BY <1>4, <2>1, <2>3, <2>4 DEF n
<1> HIDE DEF h
<1>11. InOrder(h.mem, h.seq)
  <2>1. handle[p].mem \in Seq(Entry) /\ h.seq \in Nat /\ e.seq \in 1 .. h.seq
    BY SMTT(30), <1>4, <1>6, <1>10 DEF OpenHandle
  <2>2. InOrder(handle[p].mem, e.seq - 1)
    BY <1>4, <1>6
  <2> QED
    BY <1>6, <1>10, <2>1, <2>2, InOrderAppend
<1>12. LastSeq(f) <= h.seq
  BY <1>5, <1>6, <1>10
<1>13. Describes(h, f)
  BY <1>5, <1>7, <1>10, <1>11, <1>12 DEF Describes
<1> QED
  BY <1>1, <1>3, <1>10, <1>13 DEF f, h, e

LEMMA CommitIsSafe ==
  ASSUME IInv, SafeInv, NEW p \in Procs, NEW deferred \in BOOLEAN, Commit(p, deferred)
  PROVE  SafeInv'
<1> DEFINE f == Written(File(p), <<NextLine(p)>>, ~deferred)
           h == [Remembered(p) EXCEPT !.goodLen = Length(f)]
           i == handle[p].ino
<1>1. /\ CanAppend(p) /\ attempts < MaxCommits
      /\ files' = [files EXCEPT ![i] = f] /\ handle' = [handle EXCEPT ![p] = h]
      /\ Describes(h, f) /\ h.ino = i
  BY CommitDoes
<1>2. FileOK(f) /\ f.lines # <<>>
  BY <1>1, LineAdded
<1> HIDE DEF f, h
<1>3. i \in Inodes /\ path \in Inodes /\ files[path].lines # <<>> /\ handle[p] # Closed
  BY <1>1, OpenFacts DEF CanAppend
<1> HIDE DEF i
<1>4. path' = path /\ attempts' = attempts + 1 /\ onDisk' \subseteq onDisk \cup {path}
  BY DEF Commit, NextTag, DirAfterSync
<1>5. DiskInv' /\ files'[i] = f /\ \A j \in Inodes : j # i => files'[j] = files[j]
  BY <1>1, <1>2, <1>3, <1>4, DiskWrite DEF SafeInv, DiskInv
<1>6. handle'[p] = h
  BY <1>1 DEF IInv, HandlesInv
<1>7. AtWork(p)'
  BY <1>1, <1>2, <1>3, <1>4, <1>5, <1>6, Works
<1>8. attempts' \in 0 .. MaxCommits
  BY <1>1, <1>4, BoundsAssumption DEF SafeInv
<1> QED
  BY <1>1, <1>3, <1>5, <1>7, <1>8, Others, StepOf

-----------------------------------------------------------------------------
\* A write that does not complete leaves the lines alone, and the new one in
\* the buffer, or adds it.
LEMMA PartlyOK ==
  ASSUME SafeInv, NEW p \in Procs, CanAppend(p), attempts < MaxCommits,
         NEW w \in PartlyWritten(File(p), NextLine(p))
  PROVE  /\ FileOK(w.file) /\ w.file.lines # <<>> /\ w.file.synced = File(p).synced
         /\ \/ w.rest = <<NextLine(p)>> /\ w.file.lines = File(p).lines
            \/ w.rest = <<>> /\ w.file.lines = Append(File(p).lines, NextLine(p))
<1>1. FileOK(File(p)) /\ File(p).lines # <<>>
  BY AppendsToLines DEF Describes
<1>2. CASE w = [file |-> File(p), rest |-> <<NextLine(p)>>]
  BY <1>1, <1>2
<1>3. CASE w = [file |-> [File(p) EXCEPT !.torn = TRUE], rest |-> <<NextLine(p)>>]
  BY <1>1, <1>3, TornOK
<1>4. CASE w = [file |-> AddLine(File(p), NextLine(p)), rest |-> <<>>]
  <2>1. w.file = Written(File(p), <<NextLine(p)>>, FALSE) /\ w.rest = <<>>
    BY <1>4 DEF AddLine
  <2> QED
    BY <2>1, LineAdded
<1> QED
  BY <1>2, <1>3, <1>4 DEF PartlyWritten

\* A poisoned handle is still a handle on its file.
LEMMA PoisonedDescribes ==
  ASSUME SafeInv, NEW p \in Procs, CanAppend(p), attempts < MaxCommits,
         NEW w \in PartlyWritten(File(p), NextLine(p))
  PROVE  /\ Describes(Poisoned(p, w.rest), w.file)
         /\ Poisoned(p, w.rest).ino = handle[p].ino /\ Poisoned(p, w.rest).mem = handle[p].mem
         /\ Poisoned(p, w.rest).rest = w.rest /\ Poisoned(p, w.rest).poisoned
<1> DEFINE h == handle[p]
           yes == TRUE
           h1 == [h EXCEPT !.poisoned = yes]
           h2 == [h1 EXCEPT !.rest = w.rest]
<1>1. Describes(h, File(p)) /\ h \in OpenHandle
  BY AppendsToLines DEF Describes
<1>2. FileOK(w.file) /\ w.file.lines # <<>> /\ FileOK(File(p))
  BY PartlyOK, AppendsToLines
<1>3. Continues(NextLine(p), File(p)) /\ NextLine(p) \in Line
  BY NextLineContinues DEF Continues
<1>4. w.rest \in Seq(Line) /\ (w.rest # <<>> => w.rest = <<w.rest[1]>> /\ Continues(w.rest[1], w.file))
  <2>1. CASE w.rest = <<NextLine(p)>> /\ w.file.lines = File(p).lines
    BY <1>3, <2>1 DEF Continues, LastSeq
  <2>2. CASE w.rest = <<>>
    BY <2>2, EmptySeq
  <2> QED
    BY <2>1, <2>2, PartlyOK
<1>5. yes \in BOOLEAN /\ yes
  OBVIOUS
<1>6. Poisoned(p, w.rest) = h2
  BY DEF Poisoned
<1> HIDE DEF yes, h
<1>7. /\ h1 \in OpenHandle /\ h1.poisoned /\ h1.ino = h.ino /\ h1.mem = h.mem
      /\ h1.seq = h.seq /\ h1.goodLen = h.goodLen
  BY <1>1, <1>5 DEF OpenHandle
<1> HIDE DEF h1
<1>8. /\ h2 \in OpenHandle /\ h2.poisoned /\ h2.ino = h.ino /\ h2.mem = h.mem
      /\ h2.seq = h.seq /\ h2.goodLen = h.goodLen /\ h2.rest = w.rest
  BY <1>4, <1>7 DEF OpenHandle
<1> HIDE DEF h2
<1>9. Describes(h2, w.file)
  BY <1>1, <1>2, <1>4, <1>8 DEF Describes
<1> QED
  BY <1>6, <1>8, <1>9 DEF h

LEMMA CommitFailsIsSafe ==
  ASSUME IInv, SafeInv, NEW p \in Procs, CommitFails(p) PROVE SafeInv'
<1> DEFINE i == handle[p].ino
<1>1. CanAppend(p) /\ attempts < MaxCommits
  BY DEF CommitFails
<1>2. PICK w \in PartlyWritten(File(p), NextLine(p)) :
        /\ files' = [files EXCEPT ![i] = w.file]
        /\ handle' = [handle EXCEPT ![p] = Poisoned(p, w.rest)]
  BY DEF CommitFails
<1> DEFINE h == Poisoned(p, w.rest)
<1>3. FileOK(w.file) /\ w.file.lines # <<>> /\ Describes(h, w.file) /\ h.ino = i
  BY <1>1, PartlyOK, PoisonedDescribes
<1>4. i \in Inodes /\ path \in Inodes /\ files[path].lines # <<>> /\ handle[p] # Closed
  BY <1>1, OpenFacts DEF CanAppend
<1>5. path' = path /\ attempts' = attempts + 1 /\ onDisk' = onDisk
  BY DEF CommitFails, NextTag
<1> HIDE DEF i, h
<1>6. DiskInv' /\ files'[i] = w.file /\ \A j \in Inodes : j # i => files'[j] = files[j]
  BY <1>2, <1>3, <1>4, <1>5, DiskWrite DEF SafeInv, DiskInv
<1>7. handle'[p] = h
  BY <1>2 DEF IInv, HandlesInv, h
<1>8. AtWork(p)'
  BY <1>3, <1>4, <1>5, <1>6, <1>7, Works
<1>9. attempts' \in 0 .. MaxCommits
  BY <1>1, <1>5, BoundsAssumption DEF SafeInv
<1> QED
  BY <1>2, <1>4, <1>6, <1>8, <1>9, Others, StepOf

LEMMA CommitKilledIsSafe ==
  ASSUME IInv, SafeInv, NEW p \in Procs, CommitKilled(p) PROVE SafeInv'
<1> DEFINE i == handle[p].ino
<1>1. CanAppend(p) /\ attempts < MaxCommits
  BY DEF CommitKilled
<1>2. PICK w \in PartlyWritten(File(p), NextLine(p)) : files' = [files EXCEPT ![i] = w.file]
  BY DEF CommitKilled
<1>3. FileOK(w.file)
  BY <1>1, PartlyOK
<1>4. i \in Inodes /\ handle[p] # Closed
  BY <1>1, OpenFacts DEF CanAppend
<1>5. path' = path /\ attempts' = attempts + 1 /\ onDisk' = onDisk /\ Drops(p)
  BY DEF CommitKilled, NextTag
<1> HIDE DEF i
<1>6. DiskInv'
  BY <1>2, <1>3, <1>4, <1>5, DiskWrite DEF SafeInv, DiskInv
<1>7. attempts' \in 0 .. MaxCommits
  BY <1>1, <1>5, BoundsAssumption DEF SafeInv
<1> QED
  BY <1>4, <1>5, <1>6, <1>7, DropsIsSafe

-----------------------------------------------------------------------------
(* close *)

\* What the drop of a handle may write: its line, at the end of the lines.
LEMMA CloseDoes ==
  ASSUME IInv, SafeInv, NEW p \in Procs, Close(p)
  PROVE  \/ files' = files
         \/ LET g == AddLine([File(p) EXCEPT !.torn = FALSE], handle[p].rest[1])
            IN  /\ handle[p].rest # <<>> /\ files' = [files EXCEPT ![handle[p].ino] = g]
                /\ handle[p].rest[1] \in Line /\ handle[p].rest[1].tag # 0
                /\ FileOK(g) /\ g.lines # <<>> /\ g.lines = Append(File(p).lines, handle[p].rest[1])
                /\ g.synced = File(p).synced
<1> DEFINE l == handle[p].rest[1]
           no == FALSE
           f == [File(p) EXCEPT !.torn = no]
           g == AddLine(f, l)
<1>1. IsOpen(p)
  BY DEF Close
<1>2. ASSUME files' # files
      PROVE  handle[p].rest # <<>> /\ files' = [files EXCEPT ![handle[p].ino] = g]
  <2>1. /\ handle[p].rest # <<>>
        /\ files' = [files EXCEPT ![handle[p].ino] = AddLine([@ EXCEPT !.torn = FALSE], l)]
    BY <1>2 DEF Close
  <2>2. handle[p].ino \in Inodes
    BY <1>1, OpenFacts
  <2> QED
    BY <2>1, <2>2 DEF File, SafeInv, DiskInv
<1>3. ASSUME handle[p].rest # <<>>
      PROVE  /\ l \in Line /\ l.tag # 0 /\ FileOK(g) /\ g.lines # <<>>
             /\ g.lines = Append(File(p).lines, l) /\ g.synced = File(p).synced
  <2>1. Continues(l, File(p)) /\ FileOK(File(p)) /\ File(p).lines # <<>>
    BY <1>1, <1>3, OpenFacts DEF Describes
  <2>2. no \in BOOLEAN /\ ~no
    OBVIOUS
  <2>3. g = Written(f, <<l>>, no)
    BY DEF AddLine
  <2> HIDE DEF no, l
  <2>4. FileOK(f) /\ f.lines = File(p).lines /\ ~f.torn /\ f.synced = File(p).synced
    BY <2>1, <2>2, TornOK
  <2> HIDE DEF f
  <2>5. Continues(l, f) /\ f.lines # <<>>
    BY <2>1, <2>4 DEF Continues, LastSeq
  <2>6. /\ FileOK(g) /\ g.lines # <<>> /\ g.lines = Append(f.lines, l)
    BY <2>2, <2>3, <2>4, <2>5, AddedOK
  <2>7. g.synced = f.synced
    <3>1. f \in FileType
      BY <2>4 DEF FileOK
    <3>2. g = [lines |-> Append(f.lines, l), torn |-> FALSE,
               synced |-> IF no THEN Len(f.lines) + 1 ELSE f.synced]
      BY <2>2, <2>3, <2>4, <3>1, WrittenOne
    <3> HIDE DEF g
    <3> QED
      BY <2>2, <3>2
  <2> QED
    BY <2>1, <2>4, <2>6, <2>7 DEF Continues
<1> QED
  BY <1>2, <1>3

LEMMA CloseIsSafe ==
  ASSUME IInv, SafeInv, NEW p \in Procs, Close(p) PROVE SafeInv'
<1> DEFINE g == AddLine([File(p) EXCEPT !.torn = FALSE], handle[p].rest[1])
<1>1. handle[p] # Closed /\ handle[p].ino \in Inodes
  BY OpenFacts DEF Close
<1>2. path' = path /\ attempts' = attempts /\ onDisk' = onDisk /\ Drops(p)
  BY DEF Close, Ghosts
<1>3. CASE files' = files
  <2>1. DiskInv'
    BY <1>2, <1>3 DEF SafeInv, DiskInv
  <2> QED
    BY <1>1, <1>2, <2>1, DropsIsSafe DEF SafeInv
<1>4. CASE files' # files
  <2>1. FileOK(g) /\ files' = [files EXCEPT ![handle[p].ino] = g]
    BY <1>4, CloseDoes
  <2> HIDE DEF g
  <2>2. DiskInv'
    BY <1>1, <1>2, <2>1, DiskWrite DEF SafeInv, DiskInv
  <2> QED
    BY <1>1, <1>2, <2>2, DropsIsSafe DEF SafeInv
<1> QED
  BY <1>3, <1>4

LEMMA KillIsSafe ==
  ASSUME IInv, SafeInv, NEW p \in Procs, Kill(p) PROVE SafeInv'
<1>1. DiskInv'
  BY DEF Kill, disk, SafeInv, DiskInv
<1> QED
  BY <1>1, DropsIsSafe DEF Kill, Ghosts, SafeInv

-----------------------------------------------------------------------------
(* compact() *)

\* The rewritten file holds what the handle has in memory, all of it synced.
LEMMA RewrittenOK ==
  ASSUME NEW p \in Procs, handle[p] \in OpenHandle, InOrder(handle[p].mem, handle[p].seq)
  PROVE  LET g == Rewritten(p)
         IN  /\ FileOK(g) /\ g.lines # <<>> /\ ~g.torn /\ g.synced = Len(g.lines)
             /\ EntriesOf(g) = handle[p].mem /\ LastSeq(g) = handle[p].seq + 1
<1> DEFINE m == handle[p].mem
           n == handle[p].seq
           E == [i \in DOMAIN m |-> EntryLine(m[i])]
           a == <<HeaderLine>> \o E
           s == SnapshotLine(n + 1)
           ls == a \o <<s>>
           g == Rewritten(p)
<1>1. m \in Seq(Entry) /\ n \in Nat /\ InOrder(m, n) /\ Len(m) \in Nat
  BY LenProperties DEF OpenHandle
<1>2. /\ E \in Seq(Line) /\ Len(E) = Len(m) /\ EntriesIn(E) = m
  BY <1>1, EntriesOfEntries
<1>3. \A i \in 1 .. Len(m) : E[i] = [first |-> m[i].seq, last |-> m[i].seq, tag |-> m[i].tag]
  BY <1>1, LenProperties DEF EntryLine
<1>4. g = [lines |-> ls, torn |-> FALSE, synced |-> Len(ls)]
  BY DEF Rewritten
<1> HIDE DEF E, m, n, g
<1>5. /\ HeaderLine \in Line /\ HeaderLine.tag = 0 /\ HeaderLine.first = 0 /\ HeaderLine.last = 0
      /\ <<HeaderLine>> \in Seq(Line) /\ Len(<<HeaderLine>>) = 1 /\ <<HeaderLine>>[1] = HeaderLine
      /\ <<HeaderLine>> = Append(<<>>, HeaderLine) /\ <<>> \in Seq(Line)
  BY BoundsAssumption, EmptySeq DEF HeaderLine, Line
<1>6. s \in Line /\ s.tag = 0 /\ s.first = n + 1 /\ s.last = n + 1 /\ <<s>> \in Seq(Line)
  BY <1>1, BoundsAssumption DEF SnapshotLine, Line
<1> HIDE DEF s
<1>7. /\ a \in Seq(Line) /\ Len(a) = Len(m) + 1 /\ a[1] = HeaderLine
      /\ \A i \in 2 .. Len(a) : a[i] = E[i - 1] /\ i - 1 \in 1 .. Len(m)
  BY <1>1, <1>2, <1>5, ConcatProperties
<1>8. EntriesIn(a) = m
  <2>1. EntriesIn(<<HeaderLine>>) = <<>>
    BY <1>5, EntriesAppend, EntriesEmpty
  <2>2. EntriesIn(a) = EntriesIn(<<HeaderLine>>) \o EntriesIn(E)
    BY <1>2, <1>5, EntriesConcat
  <2>3. <<>> \o m = m
    BY <1>1
  <2> QED
    BY <1>2, <2>1, <2>2, <2>3
<1> HIDE DEF a
<1>9. /\ a[1].first = 0 /\ a[1].last = 0 /\ a[1].tag = 0
      /\ \A i \in 2 .. Len(a) : /\ i - 1 \in 1 .. Len(m) /\ m[i - 1].seq \in 1 .. n
                                /\ a[i].first = m[i - 1].seq /\ a[i].last = m[i - 1].seq
  <2>1. a[1].first = 0 /\ a[1].last = 0 /\ a[1].tag = 0
    BY <1>5, <1>7
  <2> SUFFICES ASSUME NEW i \in 2 .. Len(a)
               PROVE  /\ i - 1 \in 1 .. Len(m) /\ m[i - 1].seq \in 1 .. n
                      /\ a[i].first = m[i - 1].seq /\ a[i].last = m[i - 1].seq
    BY <2>1
  <2>2. a[i] = E[i - 1] /\ i - 1 \in 1 .. Len(m)
    BY <1>7
  <2>3. E[i - 1] = [first |-> m[i - 1].seq, last |-> m[i - 1].seq, tag |-> m[i - 1].tag]
    BY <1>3, <2>2
  <2>4. m[i - 1].seq \in 1 .. n
    BY <1>1, <2>2 DEF InOrder
  <2> QED
    BY <2>2, <2>3, <2>4
<1>9a. \A i \in 1 .. Len(a) : i = 1 \/ i \in 2 .. Len(a)
  BY <1>1, <1>7
<1>9b. \A i \in 2 .. Len(a) : /\ a[i].first <= a[i].last /\ a[i].first > 0
                               /\ a[i].first \in 1 .. n /\ a[i].last \in 1 .. n
  BY <1>1, <1>9
<1>10. \A i, j \in 2 .. Len(a) : i < j => a[i].last < a[j].first
  <2> TAKE i, j \in 2 .. Len(a)
  <2> HAVE i < j
  <2>1. i - 1 \in 1 .. Len(m) /\ j - 1 \in 1 .. Len(m) /\ i - 1 < j - 1
    BY <1>9
  <2>2. m[i - 1].seq < m[j - 1].seq
    BY <1>1, <2>1 DEF InOrder
  <2> QED
    BY <1>9, <2>2
<1>11. Sound(a)
  <2>1. \A i \in 1 .. Len(a) : a[i].first <= a[i].last /\ (a[i].tag # 0 => a[i].first > 0)
    <3> TAKE i \in 1 .. Len(a)
    <3>1. CASE i = 1
      BY <1>9, <3>1
    <3>2. CASE i \in 2 .. Len(a)
      BY <1>9b, <3>2
    <3> QED
      BY <1>9a, <3>1, <3>2
  <2>2. \A i, j \in 1 .. Len(a) : i < j => a[i].last < a[j].first
    <3> TAKE i, j \in 1 .. Len(a)
    <3> HAVE i < j
    <3>1. j \in 2 .. Len(a)
      BY <1>1, <1>7
    <3>2. CASE i = 1
      BY <1>9, <1>9b, <3>1, <3>2
    <3>3. CASE i \in 2 .. Len(a)
      BY <1>10, <3>1, <3>3
    <3> QED
      BY <1>9a, <3>2, <3>3
  <2> QED
    BY <2>1, <2>2 DEF Sound
<1>12. ls = Append(a, s) /\ ls \in Seq(Line) /\ Len(ls) = Len(a) + 1 /\ ls[Len(a) + 1] = s
  BY <1>6, <1>7, AppendProperties
<1>13. \A i \in 1 .. Len(a) : a[i].last < s.first
  <2> TAKE i \in 1 .. Len(a)
  <2>1. a[i].last \in 0 .. n
    BY <1>1, <1>9, <1>9a, <1>9b
  <2> QED
    BY <1>1, <1>6, <2>1
<1>14. Sound(ls)
  <2>1. s.first <= s.last
    BY <1>1, <1>6
  <2>2. Sound(Append(a, s))
    BY <1>6, <1>7, <1>11, <1>13, <2>1, SoundAppend
  <2> QED
    BY <1>12, <2>2
<1>15. EntriesIn(ls) = m
  BY <1>6, <1>7, <1>8, <1>12, EntriesAppend
<1> HIDE DEF ls
<1>16. Len(ls) \in Nat /\ ls # <<>> /\ ls[Len(ls)] = s
  BY <1>1, <1>7, <1>12, EmptySeq
<1>17. g \in FileType /\ g.lines = ls /\ ~g.torn /\ g.synced = Len(ls)
  BY <1>4, <1>12, <1>16 DEF FileType
<1>18. FileOK(g)
  BY <1>14, <1>16, <1>17 DEF FileOK
<1>19. EntriesOf(g) = m
  BY <1>15, <1>17, OfTheLines
<1>20. LastSeq(g) = n + 1
  BY <1>6, <1>16, <1>17 DEF LastSeq
<1> QED
  BY <1>16, <1>17, <1>18, <1>19, <1>20 DEF g, m, n

\* compact() writes a file of its own and gives it the session's name.
LEMMA RenamesDoes ==
  ASSUME SafeInv, NEW p \in Procs, Renames(p), onDisk' \subseteq onDisk \cup {path'}
  PROVE  /\ path' \in Inodes /\ path' # path /\ path' \notin onDisk
         /\ \A q \in Procs : path' # handle[q].ino
         /\ files'[path'] = Rewritten(p) /\ FileOK(files'[path']) /\ files'[path'].lines # <<>>
         /\ \A j \in Inodes : j # path' => files'[j] = files[j]
         /\ DiskInv'
         /\ handle[p] # Closed /\ handle[p] \in OpenHandle /\ Describes(handle[p], File(p))
<1> DEFINE i == FreshInode
           g == Rewritten(p)
<1>1. /\ i \in Inodes /\ i # path /\ i \notin onDisk /\ \A q \in Procs : i # handle[q].ino
      /\ files' = [files EXCEPT ![i] = g] /\ path' = i
  BY FreshIsFresh DEF Renames
<1>2. handle[p] # Closed /\ handle[p] \in OpenHandle /\ Describes(handle[p], File(p))
  BY OpenFacts DEF Renames
<1>3. FileOK(g) /\ g.lines # <<>>
  BY <1>2, RewrittenOK DEF Describes
<1> HIDE DEF i, g
<1>4. onDisk' \subseteq Inodes \cup {NoFile}
  BY <1>1 DEF SafeInv, DiskInv
<1>5. DiskInv' /\ files'[i] = g /\ \A j \in Inodes : j # i => files'[j] = files[j]
  BY <1>1, <1>3, <1>4, DiskWrite DEF SafeInv
<1> QED
  BY <1>1, <1>2, <1>3, <1>5 DEF g

\* The handle that compact() reopens.
LEMMA ReopenedDescribes ==
  ASSUME NEW p \in Procs, handle[p] \in OpenHandle, InOrder(handle[p].mem, handle[p].seq),
         NEW i \in Inodes
  PROVE  LET g == Rewritten(p)
             h == [Opened(i, g) EXCEPT !.mem = handle[p].mem]
         IN  h = Opened(i, g) /\ Describes(h, g) /\ h.ino = i /\ ~h.poisoned /\ h.rest = <<>>
<1> DEFINE g == Rewritten(p)
           h == [Opened(i, g) EXCEPT !.mem = handle[p].mem]
<1>1. /\ FileOK(g) /\ g.lines # <<>> /\ ~g.torn /\ EntriesOf(g) = handle[p].mem
  BY RewrittenOK
<1> HIDE DEF g
<1>2. Opened(i, g).mem = handle[p].mem
  BY <1>1 DEF Opened
<1>3. h = Opened(i, g)
  BY <1>2 DEF Opened
<1>4. Describes(h, g)
  BY <1>1, <1>3, OpenedDescribes
<1> QED
  BY <1>3, <1>4 DEF Opened, g

\* compact() keeps the invariant, wherever it ends.
LEMMA CompactDoneIsSafe ==
  ASSUME IInv, SafeInv, NEW p \in Procs, CompactDone(p) PROVE SafeInv'
<1> DEFINE h == [Opened(path', files'[path']) EXCEPT !.mem = handle[p].mem]
<1>1. /\ Renames(p) /\ onDisk' = {path'} /\ handle' = [handle EXCEPT ![p] = h]
      /\ attempts' = attempts
  BY DEF CompactDone
<1>2. /\ path' \in Inodes /\ files'[path'] = Rewritten(p) /\ files'[path'].lines # <<>>
      /\ DiskInv' /\ handle[p] # Closed /\ handle[p] \in OpenHandle /\ Describes(handle[p], File(p))
  BY <1>1, RenamesDoes
<1>3. Describes(h, files'[path']) /\ h.ino = path'
  BY <1>2, ReopenedDescribes DEF Describes
<1> HIDE DEF h
<1>4. handle'[p] = h
  BY <1>1 DEF IInv, HandlesInv
<1>5. AtWork(p)'
  BY <1>2, <1>3, <1>4, Works
<1> QED
  BY <1>1, <1>2, <1>5, Others, StepOf DEF SafeInv

\* A handle that stays on the file it has.
LEMMA OldHandleWorks ==
  ASSUME SafeInv, NEW p \in Procs, Renames(p), onDisk' \subseteq onDisk \cup {path'},
         Describes(handle'[p], File(p)), handle'[p].ino = handle[p].ino
  PROVE  AtWork(p)'
<1>1. /\ path' \in Inodes /\ \A q \in Procs : path' # handle[q].ino
      /\ files'[path'].lines # <<>> /\ \A j \in Inodes : j # path' => files'[j] = files[j]
      /\ handle[p] \in OpenHandle
  BY RenamesDoes
<1>2. handle[p].ino \in Inodes /\ handle[p].ino # path'
  BY <1>1 DEF OpenHandle
<1>3. files'[handle'[p].ino] = File(p)
  BY <1>1, <1>2 DEF File
<1> QED
  BY <1>1, <1>3, Works

LEMMA CompactReopenFailsIsSafe ==
  ASSUME IInv, SafeInv, NEW p \in Procs, CompactReopenFails(p) PROVE SafeInv'
<1> DEFINE yes == TRUE
           h == [handle[p] EXCEPT !.poisoned = yes]
<1>1. /\ Renames(p) /\ onDisk' = {path'} /\ handle' = [handle EXCEPT ![p] = h]
      /\ attempts' = attempts
  BY DEF CompactReopenFails, Ghosts, IInv, HandlesInv
<1>2. /\ DiskInv' /\ handle[p] # Closed /\ handle[p] \in OpenHandle /\ Describes(handle[p], File(p))
  BY <1>1, RenamesDoes
<1>3. yes \in BOOLEAN /\ yes
  OBVIOUS
<1> HIDE DEF yes
<1>4. /\ h \in OpenHandle /\ h.poisoned /\ h.ino = handle[p].ino /\ h.mem = handle[p].mem
      /\ h.seq = handle[p].seq /\ h.goodLen = handle[p].goodLen /\ h.rest = handle[p].rest
  BY <1>2, <1>3 DEF OpenHandle
<1> HIDE DEF h
<1>5. Describes(h, File(p))
  BY <1>2, <1>4 DEF Describes
<1>6. handle'[p] = h
  BY <1>1 DEF IInv, HandlesInv
<1>7. AtWork(p)'
  BY <1>1, <1>4, <1>5, <1>6, OldHandleWorks
<1> QED
  BY <1>1, <1>2, <1>7, Others, StepOf DEF SafeInv

LEMMA CompactSyncDirFailsIsSafe ==
  ASSUME IInv, SafeInv, NEW p \in Procs, CompactSyncDirFails(p) PROVE SafeInv'
<1>1. Renames(p) /\ onDisk' = onDisk \cup {path'} /\ handle' = handle /\ attempts' = attempts
  BY DEF CompactSyncDirFails, Ghosts
<1>2. DiskInv' /\ handle[p] # Closed /\ Describes(handle[p], File(p))
  BY <1>1, RenamesDoes
<1>3. AtWork(p)'
  BY <1>1, <1>2, OldHandleWorks
<1>4. handle' = [handle EXCEPT ![p] = handle[p]]
  BY <1>1 DEF IInv, HandlesInv
<1> QED
  BY <1>1, <1>2, <1>3, <1>4, Others, StepOf DEF SafeInv

LEMMA CompactKilledIsSafe ==
  ASSUME IInv, SafeInv, NEW p \in Procs, CompactKilled(p) PROVE SafeInv'
<1>1. Renames(p) /\ onDisk' = onDisk \cup {path'} /\ Drops(p) /\ attempts' = attempts
  BY DEF CompactKilled, Ghosts
<1>2. DiskInv' /\ handle[p] # Closed
  BY <1>1, RenamesDoes
<1> QED
  BY <1>1, <1>2, DropsIsSafe DEF SafeInv

-----------------------------------------------------------------------------
(* A power cut *)

\* What is left of a file is a file that ends earlier.
LEMMA SurvivorOK ==
  ASSUME NEW f, FileOK(f), NEW g \in Survivors(f)
  PROVE  /\ FileOK(g) /\ g.synced = Len(g.lines) /\ g.synced \in f.synced .. Len(f.lines)
         /\ g.lines = SubSeq(f.lines, 1, g.synced)
<1>1. PICK n \in f.synced .. Len(f.lines), torn \in BOOLEAN :
        g = [lines |-> SubSeq(f.lines, 1, n), torn |-> torn, synced |-> n]
  BY DEF Survivors
<1>2. /\ f.lines \in Seq(Line) /\ f.synced \in Nat /\ Sound(f.lines) /\ Len(f.lines) \in Nat
      /\ n \in 0 .. Len(f.lines)
  BY LenProperties DEF FileOK, FileType
<1>3. SubSeq(f.lines, 1, n) \in Seq(Line) /\ Len(SubSeq(f.lines, 1, n)) = n
  BY <1>2
<1>4. Sound(SubSeq(f.lines, 1, n))
  BY <1>2, SoundPrefix
<1>5. g \in FileType
  BY <1>1, <1>2, <1>3 DEF FileType
<1>6. g.lines = SubSeq(f.lines, 1, n) /\ g.synced = n
  BY <1>1
<1> QED
  BY <1>2, <1>3, <1>4, <1>5, <1>6 DEF FileOK

\* A power cut keeps the invariant.
LEMMA PowerCutIsSafe ==
  ASSUME IInv, SafeInv, PowerCut PROVE SafeInv'
<1>1. PICK i \in onDisk :
        /\ path' = i /\ onDisk' = {i}
        /\ \/ i = NoFile /\ files' = [j \in Inodes |-> EmptyFile]
           \/ /\ i # NoFile
              /\ \E g \in Survivors(files[i]) :
                   files' = [j \in Inodes |-> IF j = i THEN g ELSE EmptyFile]
  BY DEF PowerCut
<1>2. i \in Inodes \cup {NoFile}
  BY DEF SafeInv, DiskInv
<1>3. files' = [j \in Inodes |-> files'[j]] /\ \A j \in Inodes : FileOK(files'[j])
  <2>1. CASE files' = [j \in Inodes |-> EmptyFile]
    BY <2>1, EmptyFileOK
  <2>2. ASSUME i # NoFile, NEW g \in Survivors(files[i]),
               files' = [j \in Inodes |-> IF j = i THEN g ELSE EmptyFile]
        PROVE  files' = [j \in Inodes |-> files'[j]] /\ \A j \in Inodes : FileOK(files'[j])
    <3>1. FileOK(files[i])
      BY <1>2, <2>2 DEF SafeInv, DiskInv
    <3>2. FileOK(g)
      BY <3>1, SurvivorOK
    <3> QED
      BY <2>2, <3>2, EmptyFileOK
  <2> QED
    BY <1>1, <2>1, <2>2
<1>4. DiskInv'
  BY <1>1, <1>2, <1>3 DEF DiskInv
<1>5. handle' = [p \in Procs |-> Closed] /\ attempts' = attempts
  BY DEF PowerCut
<1>6. AloneInv' /\ WorkInv'
  BY <1>5 DEF AloneInv, WorkInv
<1> QED
  BY <1>4, <1>5, <1>6 DEF SafeInv

-----------------------------------------------------------------------------
\* The invariant holds at the start ...
LEMMA InitIsSafe == Init => IInv /\ SafeInv
<1> SUFFICES ASSUME Init PROVE IInv /\ SafeInv
  OBVIOUS
<1>1. Closed.stage # "open"
  BY DEF Closed
<1>2. IInv
  BY <1>1 DEF Init, IInv, HandlesInv, LockInv, IsOpen
<1>3. DiskInv
  BY EmptyFileOK DEF Init, DiskInv
<1>4. AloneInv /\ WorkInv /\ attempts \in 0 .. MaxCommits
  BY BoundsAssumption DEF Init, AloneInv, WorkInv
<1> QED
  BY <1>2, <1>3, <1>4 DEF SafeInv

\* ... is kept by every step ...
LEMMA NextIsSafe == IInv /\ SafeInv /\ [Next]_vars => SafeInv'
<1> SUFFICES ASSUME IInv, SafeInv, [Next]_vars PROVE SafeInv'
  OBVIOUS
<1>1. ASSUME NEW p \in Procs, Create(p) PROVE SafeInv'
  BY <1>1, CreateFileIsSafe, CreateHeaderIsSafe, CreateFailsIsSafe DEF Create
<1>2. ASSUME NEW p \in Procs, Open(p) PROVE SafeInv'
  BY <1>2, OpenIsSafe
<1>3. ASSUME NEW p \in Procs, \/ \E deferred \in BOOLEAN : Commit(p, deferred)
                              \/ CommitFails(p)
                              \/ CommitKilled(p)
      PROVE  SafeInv'
  BY <1>3, CommitIsSafe, CommitFailsIsSafe, CommitKilledIsSafe
<1>4. ASSUME NEW p \in Procs, Close(p) \/ Kill(p) PROVE SafeInv'
  BY <1>4, CloseIsSafe, KillIsSafe
<1>5. ASSUME NEW p \in Procs, Compact(p) PROVE SafeInv'
  BY <1>5, CompactDoneIsSafe, CompactReopenFailsIsSafe, CompactSyncDirFailsIsSafe,
     CompactKilledIsSafe DEF Compact
<1>6. CASE PowerCut
  BY <1>6, PowerCutIsSafe
<1>7. CASE UNCHANGED vars
  BY ZenonT(30), <1>7 DEF vars, disk, SafeInv, DiskInv, AloneInv, WorkInv, AtWork, Describes, OpenHandle,
              Continues, LastSeq, InOrder
<1> QED
  BY <1>1, <1>2, <1>3, <1>4, <1>5, <1>6, <1>7 DEF Next

\* ... and says that every file with a header can be read.
LEMMA SafeIsReadable == SafeInv => NeverBricked
<1> SUFFICES ASSUME SafeInv, NEW i \in Inodes, files[i].lines # <<>> PROVE Readable(files[i])
  BY DEF NeverBricked
<1>1. FileOK(files[i])
  BY DEF SafeInv, DiskInv
<1> QED
  BY <1>1, SoundIsReadable DEF FileOK, FileType

\* The inductive invariant holds: each file is in order and each handle
\* describes its file (storage.rs, JsonlStorage).
THEOREM HandlesAreSafe == Spec => [](IInv /\ SafeInv)
<1>1. Init => IInv /\ SafeInv
  BY InitIsSafe
<1>2. (IInv /\ SafeInv) /\ [Next]_vars => (IInv /\ SafeInv)'
  BY NextKeepsIInv, NextIsSafe
<1> QED
  BY <1>1, <1>2, PTL DEF Spec

\* The session never becomes unreadable: every version of the file that holds a
\* header replays without an error (storage.rs, open_with()).
THEOREM NeverBrickedHolds == Spec => []NeverBricked
  BY HandlesAreSafe, SafeIsReadable, PTL

-----------------------------------------------------------------------------
(***************************************************************************)
(* The promise of DurableLog, on a file system that keeps the strict       *)
(* rules.                                                                  *)
(***************************************************************************)
Held(i) == TagsOf(files[i])

\* How many commits of f a power cut cannot take.
Safe(f) == Len(TagsAt(SubSeq(f.lines, 1, f.synced)))

\* ts are the first k commits of log, and perhaps one that it does not have.
Follows(ts, log, k) ==
  \/ ts = SubSeq(log, 1, k)
  \/ \E c \in Tags \ Range(log) : ts = Append(SubSeq(log, 1, k), c)

AckedInv ==
  /\ acked \in Seq(Tags)
  /\ Range(acked) \subseteq 1 .. attempts
  /\ \A i, j \in 1 .. Len(acked) : i # j => acked[i] # acked[j]
  /\ promised \in 0 .. Len(acked)

NamesInv ==
  /\ path \in onDisk
  /\ path = NoFile => acked = <<>> /\ onDisk = {NoFile}
  /\ NoFile \in onDisk => promised = 0

HeldInv ==
  /\ \A i \in Inodes \cap onDisk :
       /\ Range(Held(i)) \subseteq 1 .. attempts
       /\ \E k \in promised .. Len(acked) : Follows(Held(i), acked, k)
       /\ promised <= Safe(files[i])
  /\ path # NoFile => Follows(Held(path), acked, Len(acked))
  /\ \A i, j \in Inodes \cap onDisk :
       i # j => Range(Held(i)) \cap Range(Held(j)) \subseteq Range(acked)

InTouch(p) ==
  /\ TagsIn(handle[p].mem) = acked
  /\ ~handle[p].poisoned => handle[p].ino = path /\ Held(path) = acked
  /\ handle[p].ino # path => handle[p].ino \notin onDisk
  /\ handle[p].rest # <<>> =>
       /\ handle[p].rest[1].tag \in (1 .. attempts) \ Range(acked)
       /\ \A i \in Inodes \cap onDisk : handle[p].rest[1].tag \notin Range(Held(i))
       /\ handle[p].ino = path => Held(path) = acked

HandleInv == \A p \in Procs : IsOpen(p) => InTouch(p)

StrictInv == AckedInv /\ NamesInv /\ HeldInv /\ HandleInv

-----------------------------------------------------------------------------
\* Elements of sequences.
LEMMA RangeOf ==
  ASSUME NEW S, NEW s \in Seq(S)
  PROVE  Range(s) = {s[i] : i \in 1 .. Len(s)} /\ Range(s) \subseteq S
BY ElementOfSeq, LenProperties DEF Range

LEMMA RangeEmpty == Range(<<>>) = {}
BY EmptySeq, LenProperties DEF Range

LEMMA RangeAppend ==
  ASSUME NEW S, NEW s \in Seq(S), NEW x \in S
  PROVE  Range(Append(s, x)) = Range(s) \cup {x}
<1> DEFINE a == Append(s, x)
<1>1. /\ a \in Seq(S) /\ Len(a) = Len(s) + 1 /\ Len(s) \in Nat
      /\ \A i \in 1 .. Len(s) : a[i] = s[i]
      /\ a[Len(s) + 1] = x
  BY AppendProperties, LenProperties
<1> HIDE DEF a
<1>2. Range(a) = {a[i] : i \in 1 .. Len(a)} /\ Range(s) = {s[i] : i \in 1 .. Len(s)}
  BY <1>1, RangeOf
<1>3. ASSUME NEW y \in Range(a) PROVE y \in Range(s) \cup {x}
  <2>1. PICK i \in 1 .. Len(a) : y = a[i]
    BY <1>2
  <2>2. i \in 1 .. Len(s) \/ i = Len(s) + 1
    BY <1>1
  <2> QED
    BY <1>1, <1>2, <2>1, <2>2
<1>4. Range(s) \subseteq Range(a)
  <2>1. \A i \in 1 .. Len(s) : i \in 1 .. Len(a)
    BY <1>1
  <2> QED
    BY <1>1, <1>2, <2>1
<1>5. x \in Range(a)
  BY <1>1, <1>2
<1> QED
  BY <1>3, <1>4, <1>5 DEF a

\* Prefixes of sequences.
LEMMA Whole ==
  ASSUME NEW S, NEW s \in Seq(S) PROVE SubSeq(s, 1, Len(s)) = s
<1>1. Len(s) \in Nat
  BY LenProperties
<1>2. /\ SubSeq(s, 1, Len(s)) \in Seq(S) /\ Len(SubSeq(s, 1, Len(s))) = Len(s)
      /\ \A i \in 1 .. Len(s) : SubSeq(s, 1, Len(s))[i] = s[i]
  BY <1>1, Split
<1> QED
  BY <1>2, SeqEqual

LEMMA PrefixOfAppend ==
  ASSUME NEW S, NEW s \in Seq(S), NEW x \in S, NEW k \in 0 .. Len(s)
  PROVE  SubSeq(Append(s, x), 1, k) = SubSeq(s, 1, k)
<1> DEFINE a == Append(s, x)
<1>1. /\ a \in Seq(S) /\ Len(a) = Len(s) + 1 /\ Len(s) \in Nat
      /\ \A i \in 1 .. Len(s) : a[i] = s[i]
  BY AppendProperties, LenProperties
<1> HIDE DEF a
<1>2. k \in 0 .. Len(a)
  BY <1>1
<1>3. /\ SubSeq(a, 1, k) \in Seq(S) /\ Len(SubSeq(a, 1, k)) = k
      /\ \A i \in 1 .. k : SubSeq(a, 1, k)[i] = a[i]
  BY <1>1, <1>2, Split
<1>4. /\ SubSeq(s, 1, k) \in Seq(S) /\ Len(SubSeq(s, 1, k)) = k
      /\ \A i \in 1 .. k : SubSeq(s, 1, k)[i] = s[i]
  BY Split
<1>5. \A i \in 1 .. k : SubSeq(a, 1, k)[i] = SubSeq(s, 1, k)[i]
  BY <1>1, <1>3, <1>4
<1> QED
  BY <1>3, <1>4, <1>5, SeqEqual DEF a

LEMMA PrefixOfPrefix ==
  ASSUME NEW S, NEW s \in Seq(S), NEW m \in 0 .. Len(s), NEW k \in 0 .. m
  PROVE  SubSeq(SubSeq(s, 1, m), 1, k) = SubSeq(s, 1, k)
<1> DEFINE a == SubSeq(s, 1, m)
<1>1. /\ a \in Seq(S) /\ Len(a) = m /\ Len(s) \in Nat
      /\ \A i \in 1 .. m : a[i] = s[i]
  BY Split, LenProperties
<1> HIDE DEF a
<1>2. k \in 0 .. Len(a) /\ k \in 0 .. Len(s) /\ \A i \in 1 .. k : i \in 1 .. m
  BY <1>1
<1>3. /\ SubSeq(a, 1, k) \in Seq(S) /\ Len(SubSeq(a, 1, k)) = k
      /\ \A i \in 1 .. k : SubSeq(a, 1, k)[i] = a[i]
  BY <1>1, <1>2, Split
<1>4. /\ SubSeq(s, 1, k) \in Seq(S) /\ Len(SubSeq(s, 1, k)) = k
      /\ \A i \in 1 .. k : SubSeq(s, 1, k)[i] = s[i]
  BY <1>2, Split
<1>5. \A i \in 1 .. k : SubSeq(a, 1, k)[i] = SubSeq(s, 1, k)[i]
  BY <1>1, <1>2, <1>3, <1>4
<1> QED
  BY <1>3, <1>4, <1>5, SeqEqual DEF a

LEMMA RangeOfPrefix ==
  ASSUME NEW S, NEW s \in Seq(S), NEW k \in 0 .. Len(s)
  PROVE  /\ SubSeq(s, 1, k) \in Seq(S) /\ Len(SubSeq(s, 1, k)) = k
         /\ Range(SubSeq(s, 1, k)) = {s[i] : i \in 1 .. k}
         /\ Range(SubSeq(s, 1, k)) \subseteq Range(s)
<1>1. /\ SubSeq(s, 1, k) \in Seq(S) /\ Len(SubSeq(s, 1, k)) = k
      /\ \A i \in 1 .. k : SubSeq(s, 1, k)[i] = s[i]
  BY Split
<1>2. Range(SubSeq(s, 1, k)) = {SubSeq(s, 1, k)[i] : i \in 1 .. k}
  BY <1>1, RangeOf
<1>3. Range(SubSeq(s, 1, k)) = {s[i] : i \in 1 .. k}
  BY <1>1, <1>2
<1>4. Len(s) \in Nat /\ \A i \in 1 .. k : i \in 1 .. Len(s)
  BY LenProperties
<1> QED
  BY <1>1, <1>3, <1>4, RangeOf

-----------------------------------------------------------------------------
(* Commits of a file *)

\* The commits of a file, of which the first ones are safe.
LEMMA HeldType ==
  ASSUME NEW f, FileOK(f)
  PROVE  /\ TagsOf(f) \in Seq(Tags) /\ TagsOf(f) = TagsAt(f.lines)
         /\ Safe(f) \in 0 .. Len(TagsOf(f)) /\ Len(TagsOf(f)) \in Nat
<1>1. f.lines \in Seq(Line) /\ f.synced \in 0 .. Len(f.lines)
  BY LenProperties DEF FileOK, FileType
<1>2. TagsOf(f) = TagsAt(f.lines) /\ TagsOf(f) \in Seq(Tags)
  BY <1>1, OfTheLines, TagsType
<1>3. Safe(f) \in 0 .. Len(TagsOf(f))
  BY <1>1, <1>2, TagsPrefix DEF Safe
<1> QED
  BY <1>2, <1>3, LenProperties

\* A file with the same lines holds the same commits.
LEMMA SameLines ==
  ASSUME NEW f, NEW g, g.lines = f.lines
  PROVE  TagsOf(g) = TagsOf(f) /\ (g.synced = f.synced => Safe(g) = Safe(f))
BY OfTheLines DEF Safe

\* One more line is one more commit.
LEMMA OneMoreLine ==
  ASSUME NEW f, FileOK(f), NEW g, NEW l \in Line, l.tag # 0, g.lines = Append(f.lines, l)
  PROVE  /\ TagsOf(g) = Append(TagsOf(f), l.tag)
         /\ g.synced = f.synced => Safe(g) = Safe(f)
<1>1. f.lines \in Seq(Line) /\ f.synced \in 0 .. Len(f.lines)
  BY LenProperties DEF FileOK, FileType
<1>2. TagsOf(g) = Append(TagsOf(f), l.tag)
  BY <1>1, OfTheLines, TagsAppend
<1>3. SubSeq(g.lines, 1, f.synced) = SubSeq(f.lines, 1, f.synced)
  BY <1>1, PrefixOfAppend
<1> QED
  BY <1>2, <1>3 DEF Safe

\* All commits of a synced file are safe.
LEMMA AllSynced ==
  ASSUME NEW g, FileOK(g), g.synced = Len(g.lines)
  PROVE  Safe(g) = Len(TagsOf(g))
<1>1. g.lines \in Seq(Line)
  BY DEF FileOK, FileType
<1> QED
  BY <1>1, Whole, OfTheLines DEF Safe

-----------------------------------------------------------------------------
(* Commits in doubt *)

Buffers(x) == \E q \in Procs : handle[q].rest # <<>> /\ x = handle[q].rest[1].tag
Holds(x) == \E i \in Inodes \cap onDisk : x \in Range(Held(i))

\* A commit is in doubt that no caller was told of and that a version of the
\* file or a buffer holds; before a step and after it.
LEMMA InDoubtIs ==
  ASSUME path \in onDisk
  PROVE  \A x : x \in InDoubt <=> x \notin Range(acked) /\ (Holds(x) \/ Buffers(x))
BY DEF InDoubt, Holds, Buffers, Held

LEMMA InDoubtIsNext ==
  ASSUME path' \in onDisk'
  PROVE  \A x : x \in InDoubt' <=> x \notin Range(acked') /\ (Holds(x)' \/ Buffers(x)')
BY DEF InDoubt, Holds, Buffers, Held

-----------------------------------------------------------------------------
\* The steps of DurableLog.
LEMMA ForgetStep ==
  ASSUME acked' = acked, promised' \in promised .. Len(acked), InDoubt' \subseteq InDoubt
  PROVE  Promise!Next
BY DEF Promise!Next, Promise!Forget, Promise!FloorKept

LEMMA FailStep ==
  ASSUME acked' = acked, promised' = promised, NEW c \in Tags, InDoubt' = InDoubt \cup {c}
  PROVE  Promise!Next
BY DEF Promise!Next, Promise!Fail

LEMMA ReopenStep ==
  ASSUME NEW c \in InDoubt, acked' = Append(acked, c), promised' \in promised .. Len(acked'),
         InDoubt' \subseteq InDoubt
  PROVE  Promise!Next
BY DEF Promise!Next, Promise!Reopen, Promise!FloorKept

LEMMA CommitStep ==
  ASSUME NEW c \in Tags, acked' = Append(acked, c), NEW deferred \in BOOLEAN,
         promised' = IF deferred THEN promised ELSE Len(acked'),
         InDoubt' \subseteq InDoubt
  PROVE  Promise!Next
BY DEF Promise!Next, Promise!Commit

LEMMA PowerCutStep ==
  ASSUME NEW n \in promised .. Len(acked), acked' = SubSeq(acked, 1, n), promised' = promised,
         InDoubt' \subseteq InDoubt
  PROVE  Promise!Next
BY DEF Promise!Next, Promise!PowerCut

-----------------------------------------------------------------------------
\* At most one buffer holds anything.
LEMMA OneBuffer ==
  ASSUME NEW p \in Procs, \A q \in Procs : q # p => handle[q] = Closed
  PROVE  \A x : Buffers(x) <=> handle[p].rest # <<>> /\ x = handle[p].rest[1].tag
BY DEF Buffers, Closed

LEMMA OneBufferNext ==
  ASSUME NEW p \in Procs, \A q \in Procs : q # p => handle'[q] = Closed
  PROVE  \A x : Buffers(x)' <=> handle'[p].rest # <<>> /\ x = handle'[p].rest[1].tag
BY DEF Buffers, Closed

\* At most one handle is open.
LEMMA OneHandle ==
  ASSUME NEW p \in Procs, \A q \in Procs : q # p => handle'[q] = Closed,
         IsOpen(p)' => InTouch(p)'
  PROVE  HandleInv'
BY DEF HandleInv, IsOpen, Closed

\* What the invariant says of the commits of a file.
LEMMA FilesHold ==
  ASSUME SafeInv, NEW i \in Inodes
  PROVE  /\ FileOK(files[i]) /\ Held(i) \in Seq(Tags) /\ Held(i) = TagsAt(files[i].lines)
         /\ Safe(files[i]) \in 0 .. Len(Held(i)) /\ Len(Held(i)) \in Nat
BY HeldType DEF SafeInv, DiskInv, Held

\* A step that changes no commit of a file that may be found again.
LEMMA StaysStrict ==
  ASSUME StrictInv, SafeInv, SafeInv', path' = path, onDisk' = onDisk, acked' = acked,
         promised' = promised, attempts' >= attempts,
         \A i \in Inodes \cap onDisk :
           TagsOf(files'[i]) = Held(i) /\ Safe(files'[i]) = Safe(files[i]),
         HandleInv'
  PROVE  StrictInv'
<1>1. 1 .. attempts \subseteq 1 .. attempts'
  BY BoundsAssumption DEF SafeInv
<1>2. AckedInv' /\ NamesInv'
  BY <1>1 DEF StrictInv, AckedInv, NamesInv
<1>3. HeldInv'
  <2>1. \A i \in Inodes \cap onDisk :
          /\ Range(Held(i)') \subseteq 1 .. attempts'
          /\ \E k \in promised' .. Len(acked') : Follows(Held(i)', acked', k)
          /\ promised' <= Safe(files'[i])
    BY <1>1 DEF StrictInv, HeldInv, Held
  <2>2. path # NoFile => path \in Inodes \cap onDisk
    BY DEF StrictInv, NamesInv, SafeInv, DiskInv
  <2>3. path' # NoFile => Follows(Held(path)', acked', Len(acked'))
    BY <2>2 DEF StrictInv, HeldInv, Held
  <2>4. \A i, j \in Inodes \cap onDisk :
          i # j => Range(Held(i)') \cap Range(Held(j)') \subseteq Range(acked')
    BY DEF StrictInv, HeldInv, Held
  <2> QED
    BY <2>1, <2>3, <2>4 DEF HeldInv, Held, Follows
<1> QED
  BY <1>2, <1>3 DEF StrictInv

\* A step that adds a commit no one knows to the newest file.
LEMMA GrowsStrict ==
  ASSUME StrictInv, SafeInv, SafeInv', path' = path, onDisk' = onDisk, acked' = acked,
         promised' = promised, attempts' >= attempts, path \in Inodes,
         Held(path) = acked, NEW c \in Tags, c \in 1 .. attempts', c \notin Range(acked),
         \A i \in Inodes \cap onDisk : c \notin Range(Held(i)),
         TagsOf(files'[path]) = Append(acked, c), Safe(files'[path]) = Safe(files[path]),
         \A i \in Inodes : i # path => files'[i] = files[i],
         HandleInv'
  PROVE  StrictInv'
<1>1. 1 .. attempts \subseteq 1 .. attempts'
  BY BoundsAssumption DEF SafeInv
<1>2. AckedInv' /\ NamesInv'
  BY <1>1 DEF StrictInv, AckedInv, NamesInv
<1>3. acked \in Seq(Tags) /\ Len(acked) \in Nat /\ SubSeq(acked, 1, Len(acked)) = acked
  BY Whole, LenProperties DEF StrictInv, AckedInv
<1>4. Range(Append(acked, c)) = Range(acked) \cup {c}
  BY <1>3, RangeAppend
<1>5. Follows(Append(acked, c), acked, Len(acked))
  BY <1>3 DEF Follows
<1>6. path \in Inodes \cap onDisk /\ promised \in 0 .. Len(acked)
  BY DEF StrictInv, NamesInv, AckedInv
<1>7. \A i \in Inodes \cap onDisk :
        /\ Range(TagsOf(files'[i])) \subseteq 1 .. attempts'
        /\ \E k \in promised .. Len(acked) : Follows(TagsOf(files'[i]), acked, k)
        /\ promised <= Safe(files'[i])
  <2> TAKE i \in Inodes \cap onDisk
  <2>1. CASE i = path
    <3>1. Range(TagsOf(files'[i])) \subseteq 1 .. attempts'
      BY <1>1, <1>4, <2>1 DEF StrictInv, AckedInv
    <3>2. promised <= Safe(files'[i])
      BY <1>6, <2>1 DEF StrictInv, HeldInv
    <3>3. Len(acked) \in promised .. Len(acked)
      BY <1>3, <1>6
    <3> QED
      BY <1>5, <2>1, <3>1, <3>2, <3>3
  <2>2. CASE i # path
    BY <1>1, <2>2 DEF StrictInv, HeldInv, Held
  <2> QED
    BY <2>1, <2>2
<1>8. \A i, j \in Inodes \cap onDisk :
        i # j => Range(TagsOf(files'[i])) \cap Range(TagsOf(files'[j])) \subseteq Range(acked)
  <2> TAKE i, j \in Inodes \cap onDisk
  <2> HAVE i # j
  <2>1. CASE i # path /\ j # path
    BY <2>1 DEF StrictInv, HeldInv, Held
  <2>2. CASE i = path
    BY <1>4, <2>2 DEF Held
  <2>3. CASE j = path
    BY <1>4, <2>3 DEF Held
  <2> QED
    BY <2>1, <2>2, <2>3
<1>9. HeldInv'
  BY <1>5, <1>7, <1>8 DEF HeldInv, Held, Follows
<1> QED
  BY <1>2, <1>9 DEF StrictInv

\* ... and the commits in doubt: no more of them, or one more.
LEMMA StaysInDoubt ==
  ASSUME StrictInv, path' = path, onDisk' = onDisk, acked' = acked,
         \A i \in Inodes \cap onDisk : TagsOf(files'[i]) = Held(i),
         \A x : Buffers(x)' => Buffers(x)
  PROVE  InDoubt' \subseteq InDoubt
<1>1. \A x : x \in InDoubt <=> x \notin Range(acked) /\ (Holds(x) \/ Buffers(x))
  BY InDoubtIs DEF StrictInv, NamesInv
<1>2. \A x : x \in InDoubt' <=> x \notin Range(acked') /\ (Holds(x)' \/ Buffers(x)')
  BY InDoubtIsNext DEF StrictInv, NamesInv
<1>3. \A x : Holds(x)' => Holds(x)
  BY DEF Holds, Held
<1> QED
  BY <1>1, <1>2, <1>3

-----------------------------------------------------------------------------
(* create() and open() *)

\* The first file of the session holds nothing.
LEMMA CreateFileKeeps ==
  ASSUME IInv, SafeInv, SafeInv', StrictInv, NEW p \in Procs, CreateFile(p)
  PROVE  StrictInv' /\ Promise!Next
<1> DEFINE i == FreshInode
<1>1. i \in Inodes
  BY FreshIsFresh DEF CreateFile
<1>2. /\ files' = [files EXCEPT ![i] = EmptyFile] /\ path' = i /\ onDisk' = onDisk \cup {i}
      /\ handle' = [handle EXCEPT ![p] = Creating(i)] /\ path = NoFile
      /\ acked' = acked /\ promised' = promised /\ attempts' = attempts
  BY DEF CreateFile, Ghosts
<1> HIDE DEF i
<1>3. acked = <<>> /\ onDisk = {NoFile} /\ promised = 0 /\ Inodes \cap onDisk' = {i}
  BY <1>1, <1>2, NoFileAssumption DEF StrictInv, NamesInv
<1>4. files'[i] = EmptyFile
  BY <1>1, <1>2 DEF SafeInv, DiskInv
<1>5. TagsOf(EmptyFile) = <<>> /\ Safe(EmptyFile) \in Nat
  BY EmptyFileOK, HeldType, OfTheLines, TagsEmpty DEF EmptyFile
<1>6. \A q \in Procs : handle[q] = Closed
  BY <1>2, NoFileAssumption DEF SafeInv, WorkInv, AtWork
<1>7. \A q \in Procs : ~IsOpen(q)' /\ handle'[q].rest = <<>>
  BY <1>2, <1>6 DEF IsOpen, Creating, Closed
<1>8. Len(acked) = 0 /\ SubSeq(acked, 1, 0) = <<>> /\ Range(acked) = {}
  BY <1>3, EmptySeq, RangeEmpty
<1>9. Follows(<<>>, acked', 0)
  BY <1>2, <1>8 DEF Follows
<1>10. AckedInv' /\ NamesInv' /\ HandleInv'
  BY <1>1, <1>2, <1>3, <1>7, NoFileAssumption DEF StrictInv, AckedInv, NamesInv, HandleInv
<1>11. Range(TagsOf(files'[i])) = {}
  BY <1>4, <1>5, RangeEmpty
<1>12. HeldInv'
  <2>1. \A j \in Inodes \cap onDisk' : j = i
    BY <1>3
  <2>2. /\ Range(TagsOf(files'[i])) \subseteq 1 .. attempts'
        /\ \E k \in promised' .. Len(acked') : Follows(TagsOf(files'[i]), acked', k)
        /\ promised' <= Safe(files'[i])
        /\ Follows(TagsOf(files'[i]), acked', Len(acked'))
    <3>1. promised' = 0 /\ Len(acked') = 0 /\ 0 \in promised' .. Len(acked')
      BY <1>2, <1>3, <1>8
    <3>2. TagsOf(files'[i]) = <<>> /\ Safe(files'[i]) >= 0
      BY <1>4, <1>5
    <3>3. Range(TagsOf(files'[i])) \subseteq 1 .. attempts'
      BY <1>11
    <3>4. Follows(TagsOf(files'[i]), acked', 0)
      BY <1>9, <3>2
    <3> QED
      BY <3>1, <3>2, <3>3, <3>4
  <2> QED
    <3>1. \A j \in Inodes \cap onDisk' :
            /\ Range(TagsOf(files'[j])) \subseteq 1 .. attempts'
            /\ \E k \in promised' .. Len(acked') : Follows(TagsOf(files'[j]), acked', k)
            /\ promised' <= Safe(files'[j])
      BY <2>1, <2>2
    <3>2. Follows(TagsOf(files'[path']), acked', Len(acked'))
      BY <1>2, <2>2
    <3>3. \A j, k \in Inodes \cap onDisk' : j = k
      BY <2>1
    <3> QED
      BY <3>1, <3>2, <3>3 DEF HeldInv, Held, Follows
<1>13. InDoubt' = {}
  <2>1. path' \in onDisk'
    BY <1>2
  <2>2. \A x : ~ Holds(x)'
    BY <1>3, <1>11 DEF Holds, Held
  <2>3. \A x : ~ Buffers(x)'
    BY <1>7 DEF Buffers
  <2> QED
    BY <2>1, <2>2, <2>3, InDoubtIsNext
<1>14. promised' \in promised .. Len(acked)
  BY <1>2, <1>3, <1>8
<1> QED
  BY <1>2, <1>10, <1>12, <1>13, <1>14, ForgetStep DEF StrictInv

\* Where neither changes, what is promised stays within what is acknowledged.
LEMMA Unpromised ==
  ASSUME StrictInv, SafeInv, path' = path, acked' = acked, promised' = promised
  PROVE  promised' \in promised .. Len(acked) /\ Len(acked) \in Nat
BY LenProperties DEF StrictInv, AckedInv

\* The header is no commit.
LEMMA CreateHeaderKeeps ==
  ASSUME IInv, SafeInv, SafeInv', StrictInv, NEW p \in Procs, CreateHeader(p)
  PROVE  StrictInv' /\ Promise!Next
<1> DEFINE f == Written(EmptyFile, <<HeaderLine>>, FALSE)
<1>1. /\ handle[p] # Closed /\ path \in Inodes /\ handle[p].ino = path /\ File(p) = EmptyFile
      /\ files[path] = EmptyFile
  BY CreatingFacts DEF CreateHeader
<1>2. /\ files' = [files EXCEPT ![path] = f] /\ handle' = [handle EXCEPT ![p] = Opened(path, f)]
      /\ path' = path /\ onDisk' = onDisk /\ attempts' = attempts /\ acked' = acked
      /\ promised' = promised
  BY <1>1 DEF CreateHeader, Ghosts
<1>3. FileOK(f) /\ f.lines = <<HeaderLine>> /\ f.synced = 0 /\ TagsAt(f.lines) = <<>>
  BY HeaderWritten
<1> HIDE DEF f
<1>4. files'[path] = f /\ \A j \in Inodes : j # path => files'[j] = files[j]
  BY <1>1, <1>2 DEF SafeInv, DiskInv
<1>5. TagsOf(f) = <<>> /\ Safe(f) = 0
  <2>1. TagsOf(f) = <<>>
    BY <1>3, OfTheLines
  <2>2. Safe(f) \in 0 .. Len(<<>>)
    BY <1>3, <2>1, HeldType
  <2> QED
    BY <2>1, <2>2, EmptySeq
<1>6. TagsOf(EmptyFile) = <<>> /\ Safe(EmptyFile) = 0
  <2>1. TagsOf(EmptyFile) = <<>>
    BY OfTheLines, TagsEmpty DEF EmptyFile
  <2>2. Safe(EmptyFile) \in 0 .. Len(<<>>)
    BY <2>1, HeldType, EmptyFileOK
  <2> QED
    BY <2>1, <2>2, EmptySeq
<1>7. \A j \in Inodes : TagsOf(files'[j]) = Held(j) /\ Safe(files'[j]) = Safe(files[j])
  BY <1>1, <1>4, <1>5, <1>6 DEF Held
<1>8. acked = <<>>
  <2>1. Held(path) = <<>>
    BY <1>1, <1>6 DEF Held
  <2>2. path # NoFile
    BY <1>1, NoFileAssumption
  <2>3. Follows(<<>>, acked, Len(acked)) /\ acked \in Seq(Tags)
    BY <2>1, <2>2 DEF StrictInv, HeldInv, AckedInv
  <2>4. SubSeq(acked, 1, Len(acked)) = acked
    BY <2>3, Whole
  <2>5. \A c \in Tags : <<>> # Append(acked, c)
    BY <2>3, AppendProperties
  <2> QED
    BY <2>3, <2>4, <2>5 DEF Follows
<1>9. handle'[p] = Opened(path, f)
  BY <1>2 DEF IInv, HandlesInv
<1>10. handle'[p].ino = path /\ handle'[p].rest = <<>> /\ TagsIn(handle'[p].mem) = <<>>
  BY <1>5, <1>9 DEF Opened, TagsOf
<1>11. TagsOf(files'[path]) = acked
  BY <1>4, <1>5, <1>8
<1>12. InTouch(p)'
  BY <1>2, <1>8, <1>10, <1>11 DEF InTouch, Held
<1>13. \A q \in Procs : q # p => handle'[q] = Closed
  BY <1>1, <1>2, Others DEF IInv, HandlesInv
<1>14. HandleInv'
  BY <1>12, <1>13, OneHandle
<1>15. StrictInv'
  <2>1. attempts' >= attempts
    BY <1>2 DEF SafeInv
  <2> QED
    BY <1>2, <1>7, <1>14, <2>1, StaysStrict
<1>16. \A x : ~ Buffers(x)'
  BY <1>10, <1>13, OneBufferNext
<1>17. InDoubt' \subseteq InDoubt
  BY <1>2, <1>7, <1>16, StaysInDoubt
<1> QED
  BY <1>2, <1>15, <1>17, Unpromised, ForgetStep

\* A create() that fails leaves no commit.
LEMMA CreateFailsKeeps ==
  ASSUME IInv, SafeInv, SafeInv', StrictInv, NEW p \in Procs, CreateFails(p)
  PROVE  StrictInv' /\ Promise!Next
<1>1. handle[p] # Closed /\ path \in Inodes /\ handle[p].ino = path
  BY CreatingFacts DEF CreateFails
<1>2. PICK torn \in BOOLEAN : files' = [files EXCEPT ![path].torn = torn]
  BY <1>1 DEF CreateFails
<1> DEFINE g == [files[path] EXCEPT !.torn = torn]
<1>3. files' = [files EXCEPT ![path] = g]
  BY <1>1, <1>2 DEF SafeInv, DiskInv
<1>4. g.lines = files[path].lines /\ g.synced = files[path].synced
  BY <1>1, TornOK DEF SafeInv, DiskInv
<1> HIDE DEF g
<1>5. /\ path' = path /\ onDisk' = onDisk /\ attempts' = attempts /\ acked' = acked
      /\ promised' = promised /\ handle' = [handle EXCEPT ![p] = Closed]
  BY DEF CreateFails, Ghosts
<1>6. files'[path] = g /\ \A j \in Inodes : j # path => files'[j] = files[j]
  BY <1>1, <1>3 DEF SafeInv, DiskInv
<1>7. \A j \in Inodes : TagsOf(files'[j]) = Held(j) /\ Safe(files'[j]) = Safe(files[j])
  BY <1>1, <1>4, <1>6, SameLines DEF Held
<1>8. \A q \in Procs : handle'[q] = Closed
  BY <1>1, <1>5, Others DEF IInv, HandlesInv
<1>9. HandleInv' /\ \A x : ~ Buffers(x)'
  BY <1>8 DEF HandleInv, IsOpen, Closed, Buffers
<1>10. StrictInv'
  <2>1. attempts' >= attempts
    BY <1>5 DEF SafeInv
  <2> QED
    BY <1>5, <1>7, <1>9, <2>1, StaysStrict
<1>11. InDoubt' \subseteq InDoubt
  BY <1>5, <1>7, <1>9, StaysInDoubt
<1> QED
  BY <1>5, <1>10, <1>11, Unpromised, ForgetStep

\* What open() tells its caller: what was acknowledged, or one commit more.
LEMMA OpenTells ==
  ASSUME IInv, SafeInv, StrictInv, NEW p \in Procs, Open(p)
  PROVE  /\ path \in Inodes \cap onDisk /\ acked' = Held(path)
         /\ \A j \in Inodes : TagsOf(files'[j]) = Held(j) /\ Safe(files'[j]) >= Safe(files[j])
         /\ handle' = [handle EXCEPT ![p] = Opened(path, Repaired(files[path]))]
         /\ files'[path] = Repaired(files[path])
         /\ \A q \in Procs : handle[q] = Closed
         /\ onDisk' \subseteq onDisk /\ path \in onDisk'
         /\ path' = path /\ attempts' = attempts /\ promised' = promised
<1> DEFINE g == Repaired(files[path])
<1>1. /\ path \in Inodes /\ FileOK(files[path]) /\ files[path].lines # <<>>
      /\ \A q \in Procs : handle[q] = Closed
      /\ files' = [files EXCEPT ![path] = g]
      /\ handle' = [handle EXCEPT ![p] = Opened(path, g)]
      /\ onDisk' = IF files[path].torn THEN {path} ELSE onDisk
      /\ acked' = TagsOf(g)
      /\ path' = path /\ attempts' = attempts /\ promised' = promised
  BY OpenDoes
<1>2. FileOK(g) /\ g.lines = files[path].lines
  BY <1>1, RepairedOK
<1>3. Safe(g) >= Safe(files[path])
  <2>1. CASE files[path].torn
    <3>1. g.synced = Len(g.lines)
      <4>1. g = [files[path] EXCEPT !.torn = FALSE, !.synced = Len(files[path].lines)]
        BY <2>1 DEF Repaired
      <4>2. g.synced = Len(files[path].lines)
        BY <1>1, <4>1 DEF FileOK, FileType
      <4> QED
        BY <1>2, <4>2
    <3> HIDE DEF g
    <3>2. Safe(g) = Len(TagsOf(g)) /\ TagsOf(g) = TagsOf(files[path])
      BY <1>2, <3>1, AllSynced, SameLines
    <3>3. Safe(files[path]) \in 0 .. Len(TagsOf(files[path])) /\ Len(TagsOf(files[path])) \in Nat
      BY <1>1, HeldType
    <3> QED
      BY <3>2, <3>3
  <2>2. CASE ~files[path].torn
    <3>1. g = files[path]
      BY <2>2 DEF Repaired
    <3>2. Safe(files[path]) \in Nat
      BY <1>1, HeldType
    <3> QED
      BY <3>1, <3>2
  <2> QED
    BY <2>1, <2>2
<1> HIDE DEF g
<1>4. files'[path] = g /\ \A j \in Inodes : j # path => files'[j] = files[j]
  BY <1>1 DEF SafeInv, DiskInv
<1>5. TagsOf(g) = Held(path)
  BY <1>2, SameLines DEF Held
<1>6. \A j \in Inodes : Safe(files[j]) \in Nat
  BY FilesHold
<1>7. \A j \in Inodes : TagsOf(files'[j]) = Held(j) /\ Safe(files'[j]) >= Safe(files[j])
  BY <1>3, <1>4, <1>5, <1>6 DEF Held
<1>8. path \in onDisk /\ path \in onDisk' /\ onDisk' \subseteq onDisk
  BY <1>1 DEF StrictInv, NamesInv
<1> QED
  BY <1>1, <1>4, <1>5, <1>7, <1>8 DEF g

-----------------------------------------------------------------------------
\* open() is a Reopen if the file holds a commit that was reported as failed,
\* and a Forget if not.
LEMMA OpenKeeps ==
  ASSUME IInv, SafeInv, SafeInv', StrictInv, NEW p \in Procs, Open(p)
  PROVE  StrictInv' /\ Promise!Next
<1> DEFINE known == Held(path)
           g == Repaired(files[path])
<1>1. /\ path \in Inodes \cap onDisk /\ acked' = known
      /\ \A j \in Inodes : TagsOf(files'[j]) = Held(j) /\ Safe(files'[j]) >= Safe(files[j])
      /\ handle' = [handle EXCEPT ![p] = Opened(path, g)] /\ files'[path] = g
      /\ \A q \in Procs : handle[q] = Closed
      /\ onDisk' \subseteq onDisk /\ path \in onDisk'
      /\ path' = path /\ attempts' = attempts /\ promised' = promised
  BY OpenTells
<1>2. path # NoFile
  BY <1>1, NoFileAssumption
<1>3. /\ acked \in Seq(Tags) /\ Len(acked) \in Nat /\ SubSeq(acked, 1, Len(acked)) = acked
      /\ promised \in 0 .. Len(acked)
  BY Whole, LenProperties DEF StrictInv, AckedInv
<1>4. known = acked \/ \E c \in Tags \ Range(acked) : known = Append(acked, c)
  <2>1. Follows(known, acked, Len(acked))
    BY <1>2 DEF StrictInv, HeldInv
  <2> HIDE DEF known
  <2> QED
    BY <1>3, <2>1 DEF Follows
<1>5. known \in Seq(Tags) /\ Len(known) \in Nat /\ Range(known) \subseteq 1 .. attempts
      /\ SubSeq(known, 1, Len(known)) = known
  BY <1>1, FilesHold, Whole DEF StrictInv, HeldInv
<1>6. handle'[p] = Opened(path, g)
  BY <1>1 DEF IInv, HandlesInv
<1>7. handle'[p].ino = path /\ handle'[p].rest = <<>> /\ TagsIn(handle'[p].mem) = known
  <2>1. TagsOf(g) = known
    BY <1>1
  <2> HIDE DEF g, known
  <2> QED
    BY <1>6, <2>1 DEF Opened, TagsOf
<1>8. \A q \in Procs : q # p => handle'[q] = Closed
  BY <1>1 DEF IInv, HandlesInv
<1>9. \A x : ~ Buffers(x)'
  BY <1>7, <1>8, OneBufferNext
<1> HIDE DEF g
<1>10. InTouch(p)'
  <2>1. TagsOf(files'[path]) = known
    BY <1>1
  <2> HIDE DEF known
  <2> QED
    BY <1>1, <1>7, <2>1 DEF InTouch, Held
<1>11. HandleInv'
  BY <1>8, <1>10, OneHandle
<1>12. NamesInv'
  <2>1. path' \in onDisk' /\ path' # NoFile
    BY <1>1, <1>2
  <2>2. NoFile \in onDisk' => promised' = 0
    BY <1>1 DEF StrictInv, NamesInv
  <2> QED
    BY <2>1, <2>2 DEF NamesInv
\* The first k of what is known now were known before, if k is not too large.
<1>13. \A k \in 0 .. Len(acked) : SubSeq(known, 1, k) = SubSeq(acked, 1, k)
  <2> HIDE DEF known
  <2>1. CASE known = acked
    BY <2>1
  <2>2. ASSUME NEW c \in Tags, known = Append(acked, c)
        PROVE  \A k \in 0 .. Len(acked) : SubSeq(known, 1, k) = SubSeq(acked, 1, k)
    BY <1>3, <2>2, PrefixOfAppend
  <2> QED
    BY <1>4, <2>1, <2>2
<1>14. Len(acked) <= Len(known) /\ Range(acked) \subseteq Range(known)
  <2> HIDE DEF known
  <2>1. CASE known = acked
    BY <1>3, <2>1
  <2>2. ASSUME NEW c \in Tags, known = Append(acked, c)
        PROVE  Len(acked) <= Len(known) /\ Range(acked) \subseteq Range(known)
    BY <1>3, <2>2, AppendProperties, RangeAppend
  <2> QED
    BY <1>4, <2>1, <2>2
<1>15. \A i, j \in 1 .. Len(known) : i # j => known[i] # known[j]
  <2> HIDE DEF known
  <2>1. \A i, j \in 1 .. Len(acked) : i # j => acked[i] # acked[j]
    BY DEF StrictInv, AckedInv
  <2>2. ASSUME NEW c \in Tags \ Range(acked), known = Append(acked, c)
        PROVE  \A i, j \in 1 .. Len(known) : i # j => known[i] # known[j]
    <3>1. /\ Len(known) = Len(acked) + 1 /\ known[Len(acked) + 1] = c
          /\ \A i \in 1 .. Len(acked) : known[i] = acked[i]
      BY <1>3, <2>2, AppendProperties
    <3>2. \A i \in 1 .. Len(acked) : acked[i] # c
      BY <1>3, <2>2, RangeOf
    <3>3. \A i \in 1 .. Len(known) : i \in 1 .. Len(acked) \/ i = Len(acked) + 1
      BY <1>3, <3>1
    <3> TAKE i, j \in 1 .. Len(known)
    <3> HAVE i # j
    <3>4. CASE i \in 1 .. Len(acked) /\ j \in 1 .. Len(acked)
      BY <2>1, <3>1, <3>4
    <3>5. CASE i \in 1 .. Len(acked) /\ j = Len(acked) + 1
      BY <3>1, <3>2, <3>5
    <3>6. CASE i = Len(acked) + 1 /\ j \in 1 .. Len(acked)
      BY <3>1, <3>2, <3>6
    <3> QED
      BY <3>3, <3>4, <3>5, <3>6
  <2> QED
    BY <1>4, <2>1, <2>2
<1>16. AckedInv'
  <2>1. promised \in 0 .. Len(known)
    BY <1>3, <1>5, <1>14
  <2> HIDE DEF known
  <2> QED
    BY <1>1, <1>5, <1>15, <2>1 DEF AckedInv
\* Every version of the file agrees with what is known now.
<1>17. ASSUME NEW i \in Inodes \cap onDisk
       PROVE  \E k \in promised .. Len(known) : Follows(Held(i), known, k)
  <2>1. CASE i = path
    <3>1. Len(known) \in promised .. Len(known)
      BY <1>3, <1>5, <1>14
    <3>2. Follows(Held(i), known, Len(known))
      BY <1>5, <2>1 DEF Follows
    <3> QED
      BY <3>1, <3>2
  <2>2. CASE i # path
    <3>1. PICK k \in promised .. Len(acked) : Follows(Held(i), acked, k)
      BY DEF StrictInv, HeldInv
    <3>2. k \in promised .. Len(known) /\ SubSeq(known, 1, k) = SubSeq(acked, 1, k)
      BY <1>3, <1>5, <1>13, <1>14, <3>1
    <3>3. Range(Held(i)) \cap Range(known) \subseteq Range(acked)
      BY <1>1, <2>2 DEF StrictInv, HeldInv
    <3> HIDE DEF known
    <3>4. ASSUME NEW d \in Tags \ Range(acked), Held(i) = Append(SubSeq(acked, 1, k), d)
          PROVE  d \notin Range(known)
      <4> DEFINE first == SubSeq(acked, 1, k)
      <4>1. first \in Seq(Tags) /\ d \in Tags
        BY <1>3, <3>1, <3>4, RangeOfPrefix
      <4> HIDE DEF first
      <4>2. d \in Range(Append(first, d))
        BY <4>1, RangeAppend
      <4>3. d \in Range(Held(i))
        BY <3>4, <4>2 DEF first
      <4> QED
        BY <3>3, <3>4, <4>3
    <3>5. Follows(Held(i), known, k)
      BY <3>1, <3>2, <3>4 DEF Follows
    <3> QED
      BY <3>2, <3>5
  <2> QED
    BY <2>1, <2>2
<1>18. HeldInv'
  <2>1. \A i \in Inodes \cap onDisk' :
          /\ Range(TagsOf(files'[i])) \subseteq 1 .. attempts'
          /\ \E k \in promised .. Len(known) : Follows(TagsOf(files'[i]), known, k)
          /\ promised <= Safe(files'[i])
    <3> TAKE i \in Inodes \cap onDisk'
    <3>1. i \in Inodes \cap onDisk /\ TagsOf(files'[i]) = Held(i) /\ Safe(files'[i]) >= Safe(files[i])
      BY <1>1
    <3>2. Range(Held(i)) \subseteq 1 .. attempts /\ promised <= Safe(files[i])
      BY <3>1 DEF StrictInv, HeldInv
    <3>3. promised <= Safe(files'[i])
      <4>1. Safe(files[i]) \in Nat /\ Safe(files'[i]) \in Int
        <5>1. FileOK(files'[i])
          BY <3>1 DEF SafeInv, DiskInv
        <5> QED
          BY <3>1, <5>1, FilesHold, HeldType
      <4> QED
        BY <1>3, <3>1, <3>2, <4>1
    <3> HIDE DEF known
    <3> QED
      BY <1>1, <1>17, <3>1, <3>2, <3>3
  <2>2. Follows(TagsOf(files'[path]), known, Len(known))
    BY <1>1, <1>5 DEF Follows
  <2>3. \A i, j \in Inodes \cap onDisk' :
          i # j => Range(TagsOf(files'[i])) \cap Range(TagsOf(files'[j])) \subseteq Range(known)
    BY <1>1, <1>14 DEF StrictInv, HeldInv
  <2> HIDE DEF known
  <2> QED
    BY <1>1, <2>1, <2>2, <2>3 DEF HeldInv, Held, Follows
<1>19. StrictInv'
  BY <1>11, <1>12, <1>16, <1>18 DEF StrictInv
<1>20. \A x : x \in InDoubt <=> x \notin Range(acked) /\ (Holds(x) \/ Buffers(x))
  BY InDoubtIs DEF StrictInv, NamesInv
<1>21. InDoubt' \subseteq InDoubt
  <2>1. \A x : x \in InDoubt' <=> x \notin Range(acked') /\ (Holds(x)' \/ Buffers(x)')
    BY <1>1, InDoubtIsNext
  <2>2. \A x : Holds(x)' => Holds(x)
    BY <1>1 DEF Holds, Held
  <2> QED
    BY <1>1, <1>9, <1>14, <1>20, <2>1, <2>2
<1>22. promised' \in promised .. Len(acked')
  BY <1>1, <1>3, <1>5, <1>14
<1>23. CASE known = acked
  BY <1>1, <1>19, <1>21, <1>22, <1>23, ForgetStep
<1>24. ASSUME NEW c \in Tags \ Range(acked), known = Append(acked, c)
       PROVE  Promise!Next
  <2>1. c \in Range(known)
    BY <1>3, <1>24, RangeAppend
  <2>2. c \in InDoubt
    BY <1>1, <1>20, <2>1 DEF Holds
  <2> QED
    BY <1>1, <1>21, <1>22, <1>24, <2>2, ReopenStep
<1> QED
  BY <1>4, <1>19, <1>23, <1>24

-----------------------------------------------------------------------------
(* commit() *)

\* A handle that may append is on the newest file, and knows all of it.
LEMMA AppendFacts ==
  ASSUME SafeInv, StrictInv, NEW p \in Procs, CanAppend(p), attempts < MaxCommits
  PROVE  /\ handle[p].ino = path /\ path \in Inodes \cap onDisk /\ Held(path) = acked
         /\ TagsIn(handle[p].mem) = acked /\ handle[p].rest = <<>>
         /\ FileOK(files[path]) /\ File(p) = files[path]
         /\ NextTag \in Tags /\ NextTag = attempts + 1 /\ NextTag \notin Range(acked)
         /\ \A i \in Inodes \cap onDisk : NextTag \notin Range(Held(i))
         /\ NextLine(p) \in Line /\ NextLine(p).tag = NextTag /\ NextLine(p).tag # 0
         /\ \A q \in Procs : q # p => handle[q] = Closed
         /\ handle[p] # Closed
         /\ \A x : ~ Buffers(x)
<1>1. IsOpen(p) /\ ~handle[p].poisoned
  BY DEF CanAppend
<1>2. /\ handle[p].ino = path /\ Held(path) = acked /\ TagsIn(handle[p].mem) = acked
  BY <1>1 DEF StrictInv, HandleInv, InTouch
<1>3. /\ handle[p].rest = <<>> /\ path \in Inodes /\ handle[p] # Closed
  BY <1>1, AppendsToLines, OpenFacts
<1>4. path \in onDisk
  BY DEF StrictInv, NamesInv
<1>5. FileOK(files[path]) /\ File(p) = files[path]
  BY <1>2, <1>3 DEF SafeInv, DiskInv, File
<1>6. NextTag \in Tags /\ NextTag = attempts + 1 /\ attempts \in Nat /\ NextTag \notin 1 .. attempts
  BY BoundsAssumption DEF SafeInv, NextTag, Tags
<1>7. NextTag \notin Range(acked) /\ \A i \in Inodes \cap onDisk : NextTag \notin Range(Held(i))
  BY <1>6 DEF StrictInv, AckedInv, HeldInv
<1>8. NextLine(p) \in Line
  BY NextLineContinues DEF Continues
<1>9. NextLine(p).tag = NextTag /\ NextTag # 0
  BY <1>6 DEF NextLine, CommitLine
<1>10. \A q \in Procs : q # p => handle[q] = Closed
  BY <1>3, Others
<1>11. \A x : ~ Buffers(x)
  BY <1>3, <1>10, OneBuffer
<1> QED
  BY <1>2, <1>3, <1>4, <1>5, <1>6, <1>7, <1>8, <1>9, <1>10, <1>11

\* A commit that is acknowledged is a Commit.
LEMMA CommitKeeps ==
  ASSUME IInv, SafeInv, SafeInv', StrictInv, NEW p \in Procs, NEW deferred \in BOOLEAN,
         Commit(p, deferred), DirPersist
  PROVE  StrictInv' /\ Promise!Next
<1> DEFINE c == NextTag
           log == Append(acked, c)
           f == Written(File(p), <<NextLine(p)>>, ~deferred)
           h == [Remembered(p) EXCEPT !.goodLen = Length(f)]
           e == [tag |-> NextTag, seq |-> handle[p].seq + 1]
<1>1. /\ CanAppend(p) /\ attempts < MaxCommits
      /\ files' = [files EXCEPT ![handle[p].ino] = f]
      /\ handle' = [handle EXCEPT ![p] = h]
      /\ h.ino = handle[p].ino /\ ~h.poisoned
      /\ h.mem = Append(handle[p].mem, e) /\ h.rest = <<>>
  BY CommitDoes
<1>2. /\ handle[p].ino = path /\ path \in Inodes \cap onDisk /\ Held(path) = acked
      /\ TagsIn(handle[p].mem) = acked
      /\ FileOK(files[path]) /\ File(p) = files[path]
      /\ c \in Tags /\ c = attempts + 1 /\ c \notin Range(acked)
      /\ \A i \in Inodes \cap onDisk : c \notin Range(Held(i))
      /\ NextLine(p) \in Line /\ NextLine(p).tag = c /\ NextLine(p).tag # 0
      /\ \A q \in Procs : q # p => handle[q] = Closed
  BY <1>1, AppendFacts
<1>3. /\ FileOK(f) /\ f.lines = Append(files[path].lines, NextLine(p))
      /\ f.synced = IF ~deferred THEN Len(f.lines) ELSE files[path].synced
  <2>1. FileOK(f) /\ f.lines = Append(File(p).lines, NextLine(p))
    BY <1>1, LineAdded
  <2>2. f.synced = IF ~deferred THEN Len(f.lines) ELSE File(p).synced
    BY <1>1, LineAdded
  <2> HIDE DEF f
  <2> QED
    BY <1>2, <2>1, <2>2
<1>4. handle[p].seq \in Nat /\ handle[p].mem \in Seq(Entry)
  BY <1>1, OpenFacts DEF CanAppend, OpenHandle
<1>5. TagsIn(h.mem) = log
  <2>1. e \in Entry /\ e.tag = c
    BY <1>2, <1>4 DEF Entry
  <2> HIDE DEF e, h, c
  <2> QED
    BY <1>1, <1>2, <1>4, <2>1, TagsInAppend
<1> HIDE DEF f, h, e
<1>6. /\ path' = path /\ attempts' = attempts + 1 /\ acked' = log
      /\ promised' = IF deferred THEN promised ELSE Len(acked')
      /\ onDisk' = DirAfterSync(p, ~deferred)
  BY DEF Commit, NextTag
<1>7. onDisk' \subseteq onDisk /\ path \in onDisk'
  BY <1>2, <1>6 DEF DirAfterSync
<1>8. files'[path] = f /\ \A j \in Inodes : j # path => files'[j] = files[j]
  BY <1>1, <1>2 DEF SafeInv, DiskInv
<1>9. /\ TagsOf(f) = log
      /\ deferred => Safe(f) = Safe(files[path])
      /\ ~deferred => Safe(f) = Len(log)
  <2>1. TagsOf(f) = log
    BY <1>2, <1>3, OneMoreLine DEF Held
  <2>2. deferred => Safe(f) = Safe(files[path])
    BY <1>2, <1>3, OneMoreLine
  <2>3. ~deferred => Safe(f) = Len(log)
    BY <1>3, <2>1, AllSynced
  <2> QED
    BY <2>1, <2>2, <2>3
<1>10. /\ acked \in Seq(Tags) /\ Len(acked) \in Nat /\ promised \in 0 .. Len(acked)
       /\ Range(acked) \subseteq 1 .. attempts
       /\ \A i, j \in 1 .. Len(acked) : i # j => acked[i] # acked[j]
  BY LenProperties DEF StrictInv, AckedInv
<1> HIDE DEF c
<1>11. /\ log \in Seq(Tags) /\ Len(log) = Len(acked) + 1 /\ log[Len(acked) + 1] = c
       /\ \A i \in 1 .. Len(acked) : log[i] = acked[i]
       /\ Range(log) = Range(acked) \cup {c}
       /\ SubSeq(log, 1, Len(log)) = log
       /\ \A k \in 0 .. Len(acked) : SubSeq(log, 1, k) = SubSeq(acked, 1, k)
  <2>1. /\ log \in Seq(Tags) /\ Len(log) = Len(acked) + 1 /\ log[Len(acked) + 1] = c
        /\ \A i \in 1 .. Len(acked) : log[i] = acked[i]
    BY <1>2, <1>10, AppendProperties
  <2>2. Range(log) = Range(acked) \cup {c}
    BY <1>2, <1>10, RangeAppend
  <2>3. \A k \in 0 .. Len(acked) : SubSeq(log, 1, k) = SubSeq(acked, 1, k)
    BY <1>2, <1>10, PrefixOfAppend
  <2> HIDE DEF log
  <2>4. SubSeq(log, 1, Len(log)) = log
    BY <2>1, Whole
  <2> QED
    BY <2>1, <2>2, <2>3, <2>4
<1> HIDE DEF log
<1>12. promised' \in promised .. Len(log)
  BY <1>6, <1>10, <1>11
<1>13. 1 .. attempts \subseteq 1 .. attempts' /\ c \in 1 .. attempts'
  BY <1>2, <1>6, BoundsAssumption DEF SafeInv
<1>14. AckedInv'
  <2>1. \A i, j \in 1 .. Len(log) : i # j => log[i] # log[j]
    <3>1. \A i \in 1 .. Len(acked) : acked[i] # c
      BY <1>2, <1>10, RangeOf
    <3>2. \A i \in 1 .. Len(log) : i \in 1 .. Len(acked) \/ i = Len(acked) + 1
      BY <1>10, <1>11
    <3> TAKE i, j \in 1 .. Len(log)
    <3> HAVE i # j
    <3>3. CASE i \in 1 .. Len(acked) /\ j \in 1 .. Len(acked)
      BY <1>10, <1>11, <3>3
    <3>4. CASE i \in 1 .. Len(acked) /\ j = Len(acked) + 1
      BY <1>11, <3>1, <3>4
    <3>5. CASE i = Len(acked) + 1 /\ j \in 1 .. Len(acked)
      BY <1>11, <3>1, <3>5
    <3> QED
      BY <3>2, <3>3, <3>4, <3>5
  <2>2. promised' \in 0 .. Len(log)
    BY <1>10, <1>11, <1>12
  <2> QED
    BY <1>6, <1>10, <1>11, <1>13, <2>1, <2>2 DEF AckedInv
<1>15. NamesInv'
  <2>1. path' # NoFile
    BY <1>2, <1>6, NoFileAssumption
  <2>2. NoFile \in onDisk' => promised' = 0
    <3>1. CASE deferred
      BY <1>6, <1>7, <3>1 DEF StrictInv, NamesInv
    <3>2. CASE ~deferred /\ onDisk' = {path}
      BY <1>2, <3>2, NoFileAssumption
    <3> QED
      BY <1>2, <1>6, <3>1, <3>2 DEF DirAfterSync
  <2> QED
    BY <1>6, <1>7, <2>1, <2>2 DEF NamesInv
<1>16. \A i \in Inodes \cap onDisk' :
         /\ Range(TagsOf(files'[i])) \subseteq 1 .. attempts'
         /\ \E k \in promised' .. Len(log) : Follows(TagsOf(files'[i]), log, k)
         /\ promised' <= Safe(files'[i])
  <2> TAKE i \in Inodes \cap onDisk'
  <2>1. CASE i = path
    <3>1. TagsOf(files'[i]) = log /\ Follows(log, log, Len(log))
      BY <1>8, <1>9, <1>11, <2>1 DEF Follows
    <3>2. Range(log) \subseteq 1 .. attempts'
      BY <1>10, <1>11, <1>13
    <3>3. promised' <= Safe(files'[i])
      <4>1. CASE deferred
        BY <1>2, <1>6, <1>8, <1>9, <2>1, <4>1 DEF StrictInv, HeldInv
      <4>2. CASE ~deferred
        BY <1>6, <1>8, <1>9, <1>10, <1>11, <2>1, <4>2
      <4> QED
        BY <4>1, <4>2
    <3>4. Len(log) \in promised' .. Len(log)
      BY <1>10, <1>11, <1>12
    <3> QED
      BY <3>1, <3>2, <3>3, <3>4
  <2>2. CASE i # path
    <3>1. deferred /\ onDisk' = onDisk /\ promised' = promised
      BY <1>2, <1>6, <2>2 DEF DirAfterSync
    <3>2. i \in Inodes \cap onDisk /\ TagsOf(files'[i]) = Held(i) /\ Safe(files'[i]) = Safe(files[i])
      BY <1>8, <2>2, <3>1 DEF Held
    <3>3. Range(Held(i)) \subseteq 1 .. attempts' /\ promised' <= Safe(files[i])
      BY <1>13, <3>1, <3>2 DEF StrictInv, HeldInv
    <3>4. PICK k \in promised .. Len(acked) : Follows(Held(i), acked, k)
      BY <3>2 DEF StrictInv, HeldInv
    <3>5. k \in promised' .. Len(log) /\ SubSeq(log, 1, k) = SubSeq(acked, 1, k) /\ k \in 0 .. Len(acked)
      BY <1>10, <1>11, <3>1, <3>4
    <3>6. ASSUME NEW d \in Tags \ Range(acked), Held(i) = Append(SubSeq(acked, 1, k), d)
          PROVE  d \notin Range(log)
      <4> DEFINE first == SubSeq(acked, 1, k)
      <4>1. first \in Seq(Tags) /\ d \in Tags
        BY <1>10, <3>5, <3>6, RangeOfPrefix
      <4> HIDE DEF first
      <4>2. d \in Range(Append(first, d))
        BY <4>1, RangeAppend
      <4>3. d \in Range(Held(i))
        BY <3>6, <4>2 DEF first
      <4> QED
        BY <1>2, <1>11, <3>2, <3>6, <4>3
    <3>7. Follows(Held(i), log, k)
      BY <3>4, <3>5, <3>6 DEF Follows
    <3> QED
      BY <3>2, <3>3, <3>5, <3>7
  <2> QED
    BY <2>1, <2>2
<1>17. \A i, j \in Inodes \cap onDisk' :
         i # j => Range(TagsOf(files'[i])) \cap Range(TagsOf(files'[j])) \subseteq Range(log)
  <2> TAKE i, j \in Inodes \cap onDisk'
  <2> HAVE i # j
  <2>1. CASE i = path \/ j = path
    BY <1>8, <1>9, <2>1
  <2>2. CASE i # path /\ j # path
    BY <1>7, <1>8, <1>11, <2>2 DEF StrictInv, HeldInv, Held
  <2> QED
    BY <2>1, <2>2
<1>18. HeldInv'
  <2>1. Follows(TagsOf(files'[path']), log, Len(log))
    BY <1>6, <1>8, <1>9, <1>11 DEF Follows
  <2>2. \A i \in Inodes \cap onDisk' :
          /\ Range(TagsOf(files'[i])) \subseteq 1 .. attempts'
          /\ \E k \in promised' .. Len(acked') : Follows(TagsOf(files'[i]), acked', k)
          /\ promised' <= Safe(files'[i])
    BY <1>6, <1>16
  <2>3. \A i, j \in Inodes \cap onDisk' :
          i # j => Range(TagsOf(files'[i])) \cap Range(TagsOf(files'[j])) \subseteq Range(acked')
    BY <1>6, <1>17
  <2>4. Follows(TagsOf(files'[path']), acked', Len(acked'))
    BY <1>6, <2>1
  <2> QED
    BY <2>2, <2>3, <2>4 DEF HeldInv, Held, Follows
<1>19. handle'[p] = h /\ \A q \in Procs : q # p => handle'[q] = Closed
  BY <1>1, <1>2 DEF IInv, HandlesInv
<1>20. HandleInv'
  <2>1. InTouch(p)'
    BY <1>1, <1>2, <1>5, <1>6, <1>8, <1>9, <1>19 DEF InTouch, Held
  <2> QED
    BY <1>19, <2>1, OneHandle
<1>21. StrictInv'
  BY <1>14, <1>15, <1>18, <1>20 DEF StrictInv
<1>22. InDoubt' \subseteq InDoubt
  <2>1. \A x : x \in InDoubt <=> x \notin Range(acked) /\ (Holds(x) \/ Buffers(x))
    BY InDoubtIs DEF StrictInv, NamesInv
  <2>2. \A x : x \in InDoubt' <=> x \notin Range(log) /\ (Holds(x)' \/ Buffers(x)')
    BY <1>6, <1>7, InDoubtIsNext
  <2>3. \A x : ~ Buffers(x)'
    BY <1>1, <1>19, OneBufferNext
  <2>4. \A x : Holds(x)' => Holds(x) \/ x \in Range(log)
    BY <1>7, <1>8, <1>9 DEF Holds, Held
  <2> QED
    BY <1>11, <2>1, <2>2, <2>3, <2>4
<1>23. acked' = Append(acked, c)
  BY <1>6 DEF log
<1> QED
  BY <1>2, <1>6, <1>21, <1>22, <1>23, CommitStep

-----------------------------------------------------------------------------
\* A commit that is written in part is in no file, or at the end of the newest.
LEMMA PartlyHeld ==
  ASSUME SafeInv, StrictInv, NEW p \in Procs, CanAppend(p), attempts < MaxCommits,
         NEW w \in PartlyWritten(File(p), NextLine(p)),
         files' = [files EXCEPT ![handle[p].ino] = w.file]
  PROVE  \/ /\ w.rest = <<NextLine(p)>>
            /\ \A j \in Inodes : TagsOf(files'[j]) = Held(j) /\ Safe(files'[j]) = Safe(files[j])
         \/ /\ w.rest = <<>>
            /\ TagsOf(files'[path]) = Append(acked, NextTag)
            /\ Safe(files'[path]) = Safe(files[path])
            /\ \A j \in Inodes : j # path => files'[j] = files[j]
<1>1. /\ handle[p].ino = path /\ path \in Inodes /\ Held(path) = acked
      /\ FileOK(files[path]) /\ File(p) = files[path]
      /\ NextLine(p) \in Line /\ NextLine(p).tag = NextTag /\ NextLine(p).tag # 0
  BY AppendFacts
<1>2. /\ w.file.synced = files[path].synced
      /\ \/ w.rest = <<NextLine(p)>> /\ w.file.lines = files[path].lines
         \/ w.rest = <<>> /\ w.file.lines = Append(files[path].lines, NextLine(p))
  BY <1>1, PartlyOK
<1>3. files'[path] = w.file /\ \A j \in Inodes : j # path => files'[j] = files[j]
  BY <1>1 DEF SafeInv, DiskInv
<1>4. CASE w.rest = <<NextLine(p)>> /\ w.file.lines = files[path].lines
  <2>1. TagsOf(w.file) = Held(path) /\ Safe(w.file) = Safe(files[path])
    BY <1>2, <1>4, SameLines DEF Held
  <2> QED
    BY <1>3, <1>4, <2>1 DEF Held
<1>5. CASE w.rest = <<>> /\ w.file.lines = Append(files[path].lines, NextLine(p))
  <2>1. TagsOf(w.file) = Append(acked, NextTag) /\ Safe(w.file) = Safe(files[path])
    BY <1>1, <1>2, <1>5, OneMoreLine DEF Held
  <2> QED
    BY <1>3, <1>5, <2>1
<1> QED
  BY <1>2, <1>4, <1>5

\* One more commit is in doubt: the newest file holds it, or a buffer.
LEMMA OneMoreInDoubt ==
  ASSUME StrictInv, path \in Inodes, path' = path, onDisk' = onDisk, acked' = acked,
         Held(path) = acked, NEW c \in Tags, c \notin Range(acked), \A x : ~ Buffers(x),
         \/ /\ \A j \in Inodes : TagsOf(files'[j]) = Held(j)
            /\ \A x : Buffers(x)' <=> x = c
         \/ /\ TagsOf(files'[path]) = Append(acked, c)
            /\ \A j \in Inodes : j # path => files'[j] = files[j]
            /\ \A x : ~ Buffers(x)'
  PROVE  InDoubt' = InDoubt \cup {c}
<1>1. \A x : x \in InDoubt <=> x \notin Range(acked) /\ Holds(x)
  BY InDoubtIs DEF StrictInv, NamesInv
<1>2. \A x : x \in InDoubt' <=> x \notin Range(acked) /\ (Holds(x)' \/ Buffers(x)')
  BY InDoubtIsNext DEF StrictInv, NamesInv
<1>3. Range(Append(acked, c)) = Range(acked) \cup {c} /\ path \in onDisk
  BY RangeAppend DEF StrictInv, AckedInv, NamesInv
<1>4. CASE /\ \A j \in Inodes : TagsOf(files'[j]) = Held(j)
           /\ \A x : Buffers(x)' <=> x = c
  <2>1. \A x : Holds(x)' <=> Holds(x)
    BY <1>4 DEF Holds, Held
  <2>2. \A x : x \in InDoubt' <=> x \in InDoubt \/ x = c
    BY <1>1, <1>2, <1>4, <2>1
  <2> QED
    BY <2>2
<1>5. CASE /\ TagsOf(files'[path]) = Append(acked, c)
           /\ \A j \in Inodes : j # path => files'[j] = files[j]
           /\ \A x : ~ Buffers(x)'
  <2>1. \A x : Holds(x) => Holds(x)'
    <3> SUFFICES ASSUME NEW x, Holds(x) PROVE Holds(x)'
      OBVIOUS
    <3>1. PICK i \in Inodes \cap onDisk : x \in Range(Held(i))
      BY DEF Holds
    <3>2. x \in Range(TagsOf(files'[i]))
      BY <1>3, <1>5, <3>1 DEF Held
    <3> QED
      BY <3>1, <3>2 DEF Holds, Held
  <2>2. \A x : Holds(x)' => Holds(x) \/ x \in Range(acked) \/ x = c
    <3> SUFFICES ASSUME NEW x, Holds(x)' PROVE Holds(x) \/ x \in Range(acked) \/ x = c
      OBVIOUS
    <3>1. PICK i \in Inodes \cap onDisk : x \in Range(TagsOf(files'[i]))
      BY DEF Holds, Held
    <3>2. CASE i = path
      BY <1>3, <1>5, <3>1, <3>2
    <3>3. CASE i # path
      BY <1>5, <3>1, <3>3 DEF Holds, Held
    <3> QED
      BY <3>2, <3>3
  <2>3. Holds(c)'
    BY <1>3, <1>5 DEF Holds, Held
  <2>4. \A x : x \in InDoubt' <=> x \in InDoubt \/ x = c
    BY <1>1, <1>2, <1>5, <2>1, <2>2, <2>3
  <2> QED
    BY <2>4
<1> QED
  BY <1>4, <1>5

\* A commit that fails is a Fail: it may still turn up.
LEMMA CommitFailsKeeps ==
  ASSUME IInv, SafeInv, SafeInv', StrictInv, NEW p \in Procs, CommitFails(p)
  PROVE  StrictInv' /\ Promise!Next
<1>1. CanAppend(p) /\ attempts < MaxCommits
  BY DEF CommitFails
<1>2. PICK w \in PartlyWritten(File(p), NextLine(p)) :
        /\ files' = [files EXCEPT ![handle[p].ino] = w.file]
        /\ handle' = [handle EXCEPT ![p] = Poisoned(p, w.rest)]
  BY DEF CommitFails
<1> DEFINE c == NextTag
           h == Poisoned(p, w.rest)
<1>3. /\ handle[p].ino = path /\ path \in Inodes \cap onDisk /\ Held(path) = acked
      /\ TagsIn(handle[p].mem) = acked
      /\ c \in Tags /\ c = attempts + 1 /\ c \notin Range(acked)
      /\ \A i \in Inodes \cap onDisk : c \notin Range(Held(i))
      /\ NextLine(p).tag = c
      /\ \A q \in Procs : q # p => handle[q] = Closed
      /\ \A x : ~ Buffers(x)
  BY <1>1, AppendFacts
<1>4. h.ino = path /\ h.mem = handle[p].mem /\ h.rest = w.rest /\ h.poisoned
  BY <1>1, <1>3, PoisonedDescribes
<1>5. /\ path' = path /\ onDisk' = onDisk /\ attempts' = attempts + 1 /\ acked' = acked
      /\ promised' = promised
  BY DEF CommitFails, NextTag
<1>6. handle'[p] = h /\ \A q \in Procs : q # p => handle'[q] = Closed
  BY <1>2, <1>3 DEF IInv, HandlesInv
<1> HIDE DEF c, h
<1>7. attempts' >= attempts /\ c \in 1 .. attempts'
  BY <1>3, <1>5, BoundsAssumption DEF SafeInv
<1>8. CASE /\ w.rest = <<NextLine(p)>>
           /\ \A j \in Inodes : TagsOf(files'[j]) = Held(j) /\ Safe(files'[j]) = Safe(files[j])
  <2>1. h.rest # <<>> /\ h.rest[1].tag = c
    BY <1>3, <1>4, <1>8
  <2>2. \A x : Buffers(x)' <=> x = c
    BY <1>6, <2>1, OneBufferNext
  <2>3. \A i \in Inodes \cap onDisk : c \notin Range(TagsOf(files'[i]))
    BY <1>3, <1>8
  <2>4. InTouch(p)'
    BY <1>3, <1>4, <1>5, <1>6, <1>7, <1>8, <2>1, <2>3 DEF InTouch, Held
  <2>5. HandleInv'
    BY <1>6, <2>4, OneHandle
  <2>6. StrictInv'
    BY <1>5, <1>7, <1>8, <2>5, StaysStrict
  <2>7. InDoubt' = InDoubt \cup {c}
    BY <1>3, <1>5, <1>8, <2>2, OneMoreInDoubt
  <2> QED
    BY <1>3, <1>5, <2>6, <2>7, FailStep
<1>9. CASE /\ w.rest = <<>>
           /\ TagsOf(files'[path]) = Append(acked, c)
           /\ Safe(files'[path]) = Safe(files[path])
           /\ \A j \in Inodes : j # path => files'[j] = files[j]
  <2>1. h.rest = <<>>
    BY <1>4, <1>9
  <2>2. \A x : ~ Buffers(x)'
    BY <1>6, <2>1, OneBufferNext
  <2>3. InTouch(p)'
    BY <1>3, <1>4, <1>5, <1>6, <2>1 DEF InTouch, Held
  <2>4. HandleInv'
    BY <1>6, <2>3, OneHandle
  <2>5. StrictInv'
    BY <1>3, <1>5, <1>7, <1>9, <2>4, GrowsStrict
  <2>6. InDoubt' = InDoubt \cup {c}
    BY <1>3, <1>5, <1>9, <2>2, OneMoreInDoubt
  <2> QED
    BY <1>3, <1>5, <2>5, <2>6, FailStep
<1> QED
  BY <1>1, <1>2, <1>8, <1>9, PartlyHeld DEF c

\* A handle that goes away leaves no buffer.
LEMMA DropsTouches ==
  ASSUME IInv, SafeInv, NEW p \in Procs, handle[p] # Closed, Drops(p)
  PROVE  HandleInv' /\ \A x : ~ Buffers(x)'
<1>1. \A q \in Procs : handle'[q] = Closed
  BY Others DEF Drops, IInv, HandlesInv
<1> QED
  BY <1>1 DEF HandleInv, IsOpen, Closed, Buffers

\* One that a kill cuts off is a Fail if its line is whole, and a Forget if not.
LEMMA CommitKilledKeeps ==
  ASSUME IInv, SafeInv, SafeInv', StrictInv, NEW p \in Procs, CommitKilled(p)
  PROVE  StrictInv' /\ Promise!Next
<1>1. CanAppend(p) /\ attempts < MaxCommits
  BY DEF CommitKilled
<1>2. PICK w \in PartlyWritten(File(p), NextLine(p)) :
        files' = [files EXCEPT ![handle[p].ino] = w.file]
  BY DEF CommitKilled
<1> DEFINE c == NextTag
<1>3. /\ path \in Inodes \cap onDisk /\ Held(path) = acked
      /\ c \in Tags /\ c = attempts + 1 /\ c \notin Range(acked)
      /\ \A i \in Inodes \cap onDisk : c \notin Range(Held(i))
      /\ handle[p] # Closed
      /\ \A x : ~ Buffers(x)
  BY <1>1, AppendFacts
<1>4. /\ path' = path /\ onDisk' = onDisk /\ attempts' = attempts + 1 /\ acked' = acked
      /\ promised' = promised /\ Drops(p)
  BY DEF CommitKilled, NextTag
<1> HIDE DEF c
<1>5. attempts' >= attempts /\ c \in 1 .. attempts'
  BY <1>3, <1>4, BoundsAssumption DEF SafeInv
<1>6. HandleInv' /\ \A x : ~ Buffers(x)'
  BY <1>3, <1>4, DropsTouches
<1>7. CASE \A j \in Inodes : TagsOf(files'[j]) = Held(j) /\ Safe(files'[j]) = Safe(files[j])
  <2>1. StrictInv'
    BY <1>4, <1>5, <1>6, <1>7, StaysStrict
  <2>2. InDoubt' \subseteq InDoubt
    BY <1>4, <1>6, <1>7, StaysInDoubt
  <2> QED
    BY <1>4, <2>1, <2>2, Unpromised, ForgetStep
<1>8. CASE /\ TagsOf(files'[path]) = Append(acked, c)
           /\ Safe(files'[path]) = Safe(files[path])
           /\ \A j \in Inodes : j # path => files'[j] = files[j]
  <2>1. StrictInv'
    BY <1>3, <1>4, <1>5, <1>6, <1>8, GrowsStrict
  <2>2. InDoubt' = InDoubt \cup {c}
    BY <1>3, <1>4, <1>6, <1>8, OneMoreInDoubt
  <2> QED
    BY <1>3, <1>4, <2>1, <2>2, FailStep
<1> QED
  BY <1>1, <1>2, <1>7, <1>8, PartlyHeld DEF c

-----------------------------------------------------------------------------
(* close *)

\* The drop of a handle is a Forget: what its buffer adds was in doubt before.
LEMMA CloseKeeps ==
  ASSUME IInv, SafeInv, SafeInv', StrictInv, NEW p \in Procs, Close(p)
  PROVE  StrictInv' /\ Promise!Next
<1> DEFINE r == handle[p].rest[1]
           c == r.tag
           g == AddLine([File(p) EXCEPT !.torn = FALSE], r)
<1>1. /\ handle[p] # Closed /\ handle[p].ino \in Inodes /\ FileOK(File(p)) /\ InTouch(p)
  BY OpenFacts DEF Close, StrictInv, HandleInv
<1>2. /\ path' = path /\ onDisk' = onDisk /\ attempts' = attempts /\ acked' = acked
      /\ promised' = promised /\ Drops(p)
  BY DEF Close, Ghosts
<1>3. HandleInv' /\ \A x : ~ Buffers(x)'
  BY <1>1, <1>2, DropsTouches
<1>4. attempts' >= attempts
  BY <1>2 DEF SafeInv
<1>5. CASE \A j \in Inodes \cap onDisk : TagsOf(files'[j]) = Held(j) /\ Safe(files'[j]) = Safe(files[j])
  <2>1. StrictInv'
    BY <1>2, <1>3, <1>4, <1>5, StaysStrict
  <2>2. InDoubt' \subseteq InDoubt
    BY <1>2, <1>3, <1>5, StaysInDoubt
  <2> QED
    BY <1>2, <2>1, <2>2, Unpromised, ForgetStep
<1>6. CASE files' = files
  BY <1>5, <1>6 DEF Held
<1>7. CASE files' # files
  <2>1. /\ handle[p].rest # <<>> /\ files' = [files EXCEPT ![handle[p].ino] = g]
        /\ r \in Line /\ c # 0 /\ g.lines = Append(File(p).lines, r) /\ g.synced = File(p).synced
    BY <1>7, CloseDoes
  <2>2. /\ c \in (1 .. attempts) \ Range(acked)
        /\ \A i \in Inodes \cap onDisk : c \notin Range(Held(i))
        /\ handle[p].ino = path => Held(path) = acked
        /\ handle[p].ino # path => handle[p].ino \notin onDisk
    BY <1>1, <2>1 DEF InTouch
  <2>3. TagsOf(g) = Append(TagsOf(File(p)), c) /\ Safe(g) = Safe(File(p))
    <3> HIDE DEF g, r
    <3> QED
      BY <1>1, <2>1, OneMoreLine
  <2> HIDE DEF g
  <2>4. files'[handle[p].ino] = g /\ \A j \in Inodes : j # handle[p].ino => files'[j] = files[j]
    BY <1>1, <2>1 DEF SafeInv, DiskInv
  <2>5. CASE handle[p].ino # path
    <3>1. \A j \in Inodes \cap onDisk : files'[j] = files[j]
      BY <2>2, <2>4, <2>5
    <3> QED
      BY <1>5, <3>1 DEF Held
  <2>6. CASE handle[p].ino = path
    <3>1. /\ path \in Inodes /\ Held(path) = acked /\ TagsOf(files'[path]) = Append(acked, c)
          /\ Safe(files'[path]) = Safe(files[path])
          /\ \A j \in Inodes : j # path => files'[j] = files[j]
      BY <1>1, <2>2, <2>3, <2>4, <2>6 DEF File, Held
    <3>2. Buffers(c)
      BY <2>1 DEF Buffers
    <3>3. c \in Tags /\ c \in 1 .. attempts' /\ c \notin Range(acked)
      BY <1>2, <2>2, BoundsAssumption DEF SafeInv, Tags
    <3> HIDE DEF c
    <3>4. StrictInv'
      BY <1>2, <1>3, <1>4, <2>2, <3>1, <3>3, GrowsStrict
    <3>5. InDoubt' \subseteq InDoubt
      <4>1. \A x : x \in InDoubt <=> x \notin Range(acked) /\ (Holds(x) \/ Buffers(x))
        BY InDoubtIs DEF StrictInv, NamesInv
      <4>2. \A x : x \in InDoubt' <=> x \notin Range(acked) /\ (Holds(x)' \/ Buffers(x)')
        BY <1>2, InDoubtIsNext DEF StrictInv, NamesInv
      <4>3. Range(Append(acked, c)) = Range(acked) \cup {c}
        BY <3>3, RangeAppend DEF StrictInv, AckedInv
      <4>4. \A x : Holds(x)' => Holds(x) \/ x \in Range(acked) \/ x = c
        <5> SUFFICES ASSUME NEW x, Holds(x)' PROVE Holds(x) \/ x \in Range(acked) \/ x = c
          OBVIOUS
        <5>1. PICK i \in Inodes \cap onDisk : x \in Range(TagsOf(files'[i]))
          BY <1>2 DEF Holds, Held
        <5>2. CASE i = path
          BY <3>1, <4>3, <5>1, <5>2
        <5>3. CASE i # path
          BY <3>1, <5>1, <5>3 DEF Holds, Held
        <5> QED
          BY <5>2, <5>3
      <4> QED
        BY <1>3, <3>2, <4>1, <4>2, <4>4
    <3> QED
      BY <1>2, <3>4, <3>5, Unpromised, ForgetStep
  <2> QED
    BY <2>5, <2>6
<1> QED
  BY <1>6, <1>7

\* A kill is a Forget: a buffer is lost.
LEMMA KillKeeps ==
  ASSUME IInv, SafeInv, SafeInv', StrictInv, NEW p \in Procs, Kill(p)
  PROVE  StrictInv' /\ Promise!Next
<1>1. /\ path' = path /\ onDisk' = onDisk /\ attempts' = attempts /\ acked' = acked
      /\ promised' = promised /\ files' = files /\ Drops(p) /\ handle[p] # Closed
  BY DEF Kill, disk, Ghosts
<1>2. HandleInv' /\ \A x : ~ Buffers(x)'
  BY <1>1, DropsTouches
<1>3. \A j \in Inodes \cap onDisk : TagsOf(files'[j]) = Held(j) /\ Safe(files'[j]) = Safe(files[j])
  BY <1>1 DEF Held
<1>4. attempts' >= attempts
  BY <1>1 DEF SafeInv
<1>5. StrictInv'
  BY <1>1, <1>2, <1>3, <1>4, StaysStrict
<1>6. InDoubt' \subseteq InDoubt
  BY <1>1, <1>2, <1>3, StaysInDoubt
<1> QED
  BY <1>1, <1>5, <1>6, Unpromised, ForgetStep

-----------------------------------------------------------------------------
(* compact() *)

\* The file that compact() renames holds what was acknowledged, on the disk.
LEMMA RenamesHold ==
  ASSUME SafeInv, StrictInv, NEW p \in Procs, Renames(p), onDisk' \subseteq onDisk \cup {path'},
         acked' = acked
  PROVE  /\ path' \in Inodes /\ path' \notin onDisk /\ path' # NoFile
         /\ \A q \in Procs : path' # handle[q].ino
         /\ TagsOf(files'[path']) = acked /\ Safe(files'[path']) = Len(acked)
         /\ \A j \in Inodes : j # path' => files'[j] = files[j]
         /\ handle[p] # Closed /\ IsOpen(p) /\ InTouch(p)
         /\ handle[p] \in OpenHandle /\ Describes(handle[p], File(p))
         /\ files'[path'] = Rewritten(p)
<1>1. /\ path' \in Inodes /\ path' \notin onDisk
      /\ \A q \in Procs : path' # handle[q].ino
      /\ files'[path'] = Rewritten(p)
      /\ \A j \in Inodes : j # path' => files'[j] = files[j]
      /\ handle[p] # Closed /\ handle[p] \in OpenHandle /\ Describes(handle[p], File(p))
  BY RenamesDoes
<1>2. IsOpen(p) /\ InTouch(p)
  BY DEF Renames, StrictInv, HandleInv
<1> DEFINE g == Rewritten(p)
<1>3. FileOK(g) /\ g.synced = Len(g.lines) /\ EntriesOf(g) = handle[p].mem
  BY <1>1, RewrittenOK DEF Describes
<1> HIDE DEF g
<1>4. TagsOf(g) = acked
  BY <1>2, <1>3 DEF TagsOf, InTouch
<1>5. Safe(g) = Len(acked)
  BY <1>3, <1>4, AllSynced
<1> QED
  BY <1>1, <1>2, <1>4, <1>5, NoFileAssumption DEF g

\* ... and after it every version of the file is as it was, but the new one.
LEMMA RenamesStrict ==
  ASSUME SafeInv, SafeInv', StrictInv, NEW p \in Procs, Renames(p),
         onDisk' \subseteq onDisk \cup {path'}, path' \in onDisk',
         acked' = acked, attempts' = attempts, HandleInv',
         \/ promised' = promised
         \/ promised' = Len(acked) /\ onDisk' = {path'},
         \A x : Buffers(x)' => Buffers(x)
  PROVE  StrictInv' /\ InDoubt' \subseteq InDoubt /\ promised' \in promised .. Len(acked)
<1> DEFINE i == path'
<1>1. /\ i \in Inodes /\ i \notin onDisk /\ i # NoFile
      /\ TagsOf(files'[i]) = acked /\ Safe(files'[i]) = Len(acked)
      /\ \A j \in Inodes : j # i => files'[j] = files[j]
  BY RenamesHold
<1>2. /\ acked \in Seq(Tags) /\ Len(acked) \in Nat /\ SubSeq(acked, 1, Len(acked)) = acked
      /\ Range(acked) \subseteq 1 .. attempts /\ promised \in 0 .. Len(acked)
  BY Whole, LenProperties DEF StrictInv, AckedInv
<1>3. promised' \in promised .. Len(acked)
  BY <1>2
<1>4. AckedInv'
  <2>1. promised' \in 0 .. Len(acked)
    BY <1>2, <1>3
  <2> QED
    BY <2>1 DEF StrictInv, AckedInv
<1>5. NamesInv'
  <2>1. NoFile \in onDisk' => promised' = 0
    <3> SUFFICES ASSUME NoFile \in onDisk' PROVE promised' = 0
      OBVIOUS
    <3>1. NoFile \in onDisk /\ onDisk' # {path'}
      BY <1>1
    <3> QED
      BY <3>1 DEF StrictInv, NamesInv
  <2> QED
    BY <1>1, <2>1 DEF NamesInv
<1>6. \A j \in Inodes \cap onDisk' : j = i \/ (j \in Inodes \cap onDisk /\ files'[j] = files[j])
  <2> TAKE j \in Inodes \cap onDisk'
  <2>1. CASE j # i
    <3>1. j \in onDisk
      BY <2>1
    <3> QED
      BY <1>1, <2>1, <3>1
  <2> QED
    BY <2>1
<1>7. Follows(acked, acked, Len(acked))
  BY <1>2 DEF Follows
<1>8. \A j \in Inodes \cap onDisk' :
        /\ Range(TagsOf(files'[j])) \subseteq 1 .. attempts
        /\ \E k \in promised' .. Len(acked) : Follows(TagsOf(files'[j]), acked, k)
        /\ promised' <= Safe(files'[j])
  <2> TAKE j \in Inodes \cap onDisk'
  <2>1. CASE j = i
    <3>1. Len(acked) \in promised' .. Len(acked) /\ promised' <= Len(acked)
      BY <1>2, <1>3
    <3>2. TagsOf(files'[j]) = acked /\ Safe(files'[j]) = Len(acked)
      BY <1>1, <2>1
    <3> QED
      BY <1>2, <1>7, <3>1, <3>2
  <2>2. CASE j # i
    <3>1. /\ j \in Inodes \cap onDisk /\ files'[j] = files[j] /\ promised' = promised
      BY <1>6, <2>2
    <3> QED
      BY <3>1 DEF StrictInv, HeldInv, Held
  <2> QED
    BY <2>1, <2>2
<1>9. \A j, k \in Inodes \cap onDisk' :
        j # k => Range(TagsOf(files'[j])) \cap Range(TagsOf(files'[k])) \subseteq Range(acked)
  <2> TAKE j, k \in Inodes \cap onDisk'
  <2> HAVE j # k
  <2>1. CASE j = i \/ k = i
    BY <1>1, <2>1
  <2>2. CASE j # i /\ k # i
    BY <1>6, <2>2 DEF StrictInv, HeldInv, Held
  <2> QED
    BY <2>1, <2>2
<1>10. HeldInv'
  <2>1. \A j \in Inodes \cap onDisk' :
          /\ Range(TagsOf(files'[j])) \subseteq 1 .. attempts'
          /\ \E k \in promised' .. Len(acked') : Follows(TagsOf(files'[j]), acked', k)
          /\ promised' <= Safe(files'[j])
    BY <1>8
  <2>2. Follows(TagsOf(files'[path']), acked', Len(acked'))
    BY <1>1, <1>7
  <2>3. \A j, k \in Inodes \cap onDisk' :
          j # k => Range(TagsOf(files'[j])) \cap Range(TagsOf(files'[k])) \subseteq Range(acked')
    BY <1>9
  <2> QED
    BY <2>1, <2>2, <2>3 DEF HeldInv, Held, Follows
<1>11. StrictInv'
  BY <1>4, <1>5, <1>10 DEF StrictInv
<1>12. InDoubt' \subseteq InDoubt
  <2>1. \A x : x \in InDoubt <=> x \notin Range(acked) /\ (Holds(x) \/ Buffers(x))
    BY InDoubtIs DEF StrictInv, NamesInv
  <2>2. \A x : x \in InDoubt' <=> x \notin Range(acked) /\ (Holds(x)' \/ Buffers(x)')
    BY InDoubtIsNext
  <2>3. \A x : Holds(x)' => Holds(x) \/ x \in Range(acked)
    <3> SUFFICES ASSUME NEW x, Holds(x)' PROVE Holds(x) \/ x \in Range(acked)
      OBVIOUS
    <3>1. PICK j \in Inodes \cap onDisk' : x \in Range(TagsOf(files'[j]))
      BY DEF Holds, Held
    <3>2. CASE j = i
      BY <1>1, <3>1, <3>2
    <3>3. CASE j # i
      BY <1>6, <3>1, <3>3 DEF Holds, Held
    <3> QED
      BY <3>2, <3>3
  <2> QED
    BY <2>1, <2>2, <2>3
<1> QED
  BY <1>3, <1>11, <1>12

\* compact() is a Forget that promises everything, if it ends well.
LEMMA CompactDoneKeeps ==
  ASSUME IInv, SafeInv, SafeInv', StrictInv, NEW p \in Procs, CompactDone(p)
  PROVE  StrictInv' /\ Promise!Next
<1> DEFINE h == [Opened(path', files'[path']) EXCEPT !.mem = handle[p].mem]
<1>1. /\ Renames(p) /\ onDisk' = {path'} /\ handle' = [handle EXCEPT ![p] = h]
      /\ attempts' = attempts /\ acked' = acked /\ promised' = Len(acked)
  BY DEF CompactDone
<1>2. /\ path' \in Inodes /\ TagsOf(files'[path']) = acked /\ InTouch(p)
      /\ handle[p] # Closed /\ handle[p] \in OpenHandle /\ Describes(handle[p], File(p))
      /\ files'[path'] = Rewritten(p)
  BY <1>1, RenamesHold
<1>3. h = Opened(path', files'[path']) /\ h.ino = path' /\ h.rest = <<>>
  <2>1. InOrder(handle[p].mem, handle[p].seq)
    BY <1>2 DEF Describes
  <2> DEFINE g == Rewritten(p)
             k == [Opened(path', g) EXCEPT !.mem = handle[p].mem]
  <2>2. k = Opened(path', g) /\ k.ino = path' /\ k.rest = <<>>
    BY <1>2, <2>1, ReopenedDescribes
  <2>3. h = k /\ files'[path'] = g
    BY <1>2
  <2> HIDE DEF h, k, g
  <2> QED
    BY <2>2, <2>3
<1>4. h.mem = handle[p].mem
  BY DEF Opened
<1> HIDE DEF h
<1>5. handle'[p] = h /\ \A q \in Procs : q # p => handle'[q] = Closed
  BY <1>1, <1>2, Others DEF IInv, HandlesInv
<1>6. InTouch(p)'
  BY <1>1, <1>2, <1>3, <1>4, <1>5 DEF InTouch, Held
<1>7. HandleInv'
  BY <1>5, <1>6, OneHandle
<1>8. \A x : ~ Buffers(x)'
  BY <1>3, <1>5, OneBufferNext
<1>9. StrictInv' /\ InDoubt' \subseteq InDoubt /\ promised' \in promised .. Len(acked)
  BY <1>1, <1>7, <1>8, RenamesStrict
<1> QED
  BY <1>1, <1>9, ForgetStep

\* The old handle is poisoned, and on a file without a name.
LEMMA CompactReopenFailsKeeps ==
  ASSUME IInv, SafeInv, SafeInv', StrictInv, NEW p \in Procs, CompactReopenFails(p)
  PROVE  StrictInv' /\ Promise!Next
<1> DEFINE yes == TRUE
           h == [handle[p] EXCEPT !.poisoned = yes]
<1>1. /\ Renames(p) /\ onDisk' = {path'} /\ handle' = [handle EXCEPT ![p] = h]
      /\ attempts' = attempts /\ acked' = acked /\ promised' = promised
  BY DEF CompactReopenFails, Ghosts, IInv, HandlesInv
<1>2. /\ path' \in Inodes /\ TagsOf(files'[path']) = acked /\ InTouch(p)
      /\ handle[p] # Closed /\ handle[p] \in OpenHandle
      /\ \A q \in Procs : path' # handle[q].ino
  BY <1>1, RenamesHold
<1>3. yes \in BOOLEAN /\ yes
  OBVIOUS
<1> HIDE DEF yes
<1>4. /\ h.poisoned /\ h.ino = handle[p].ino /\ h.mem = handle[p].mem /\ h.rest = handle[p].rest
  BY <1>2, <1>3 DEF OpenHandle
<1> HIDE DEF h
<1>5. handle'[p] = h /\ \A q \in Procs : q # p => handle'[q] = Closed
  BY <1>1, <1>2, Others DEF IInv, HandlesInv
<1>6. InTouch(p)'
  BY <1>1, <1>2, <1>4, <1>5 DEF InTouch, Held
<1>7. HandleInv'
  BY <1>5, <1>6, OneHandle
<1>8. \A x : Buffers(x)' => Buffers(x)
  BY <1>2, <1>4, <1>5, Others, OneBuffer, OneBufferNext
<1>9. StrictInv' /\ InDoubt' \subseteq InDoubt /\ promised' \in promised .. Len(acked)
  BY <1>1, <1>7, <1>8, RenamesStrict
<1> QED
  BY <1>1, <1>9, ForgetStep

\* Both files may be found after a power cut; the new one holds no less.
LEMMA CompactKilledKeeps ==
  ASSUME IInv, SafeInv, SafeInv', StrictInv, NEW p \in Procs, CompactKilled(p)
  PROVE  StrictInv' /\ Promise!Next
<1>1. /\ Renames(p) /\ onDisk' = onDisk \cup {path'} /\ Drops(p)
      /\ attempts' = attempts /\ acked' = acked /\ promised' = promised
  BY DEF CompactKilled, Ghosts
<1>2. handle[p] # Closed
  BY <1>1, RenamesHold
<1>3. HandleInv' /\ \A x : ~ Buffers(x)'
  BY <1>1, <1>2, DropsTouches
<1>4. StrictInv' /\ InDoubt' \subseteq InDoubt /\ promised' \in promised .. Len(acked)
  BY <1>1, <1>3, RenamesStrict
<1> QED
  BY <1>1, <1>4, ForgetStep

-----------------------------------------------------------------------------
(* A power cut *)

\* What is left of the commits of a file: the first ones, and all the safe ones.
LEMMA SurvivorTags ==
  ASSUME NEW f, FileOK(f), NEW g \in Survivors(f)
  PROVE  /\ FileOK(g) /\ TagsOf(g) \in Seq(Tags) /\ Safe(g) = Len(TagsOf(g))
         /\ Len(TagsOf(g)) \in Safe(f) .. Len(TagsOf(f))
         /\ TagsOf(g) = SubSeq(TagsOf(f), 1, Len(TagsOf(g)))
<1> DEFINE n == g.synced
<1>1. /\ FileOK(g) /\ n = Len(g.lines) /\ n \in f.synced .. Len(f.lines)
      /\ g.lines = SubSeq(f.lines, 1, n)
  BY SurvivorOK
<1>2. /\ f.lines \in Seq(Line) /\ Len(f.lines) \in Nat /\ f.synced \in 0 .. Len(f.lines)
      /\ n \in 0 .. Len(f.lines) /\ f.synced \in 0 .. n /\ g.lines \in Seq(Line)
  BY <1>1, LenProperties DEF FileOK, FileType
<1>3. TagsOf(g) \in Seq(Tags) /\ TagsOf(g) = TagsAt(g.lines) /\ TagsOf(f) = TagsAt(f.lines)
      /\ Safe(g) = Len(TagsOf(g)) /\ Len(TagsOf(f)) \in Nat /\ Safe(f) \in Nat
  <2>1. TagsOf(g) \in Seq(Tags) /\ TagsOf(g) = TagsAt(g.lines)
    BY <1>1, HeldType
  <2>2. /\ TagsOf(f) = TagsAt(f.lines) /\ Len(TagsOf(f)) \in Nat
        /\ Safe(f) \in 0 .. Len(TagsOf(f))
    BY HeldType
  <2>3. Safe(g) = Len(TagsOf(g))
    BY <1>1, AllSynced
  <2> QED
    BY <2>1, <2>2, <2>3
<1> HIDE DEF n
<1>4. /\ Len(TagsOf(g)) \in 0 .. Len(TagsOf(f))
      /\ TagsOf(g) = SubSeq(TagsOf(f), 1, Len(TagsOf(g)))
  <2> DEFINE t == TagsAt(SubSeq(f.lines, 1, n))
  <2>1. Len(t) \in 0 .. Len(TagsAt(f.lines)) /\ t = SubSeq(TagsAt(f.lines), 1, Len(t))
    BY <1>2, TagsPrefix
  <2>2. t = TagsOf(g)
    BY <1>1, <1>3
  <2> HIDE DEF t
  <2> QED
    BY <1>3, <2>1, <2>2
<1>5. SubSeq(g.lines, 1, f.synced) = SubSeq(f.lines, 1, f.synced)
  BY <1>1, <1>2, PrefixOfPrefix
<1>6. Safe(f) \in 0 .. Len(TagsOf(g))
  <2>1. f.synced \in 0 .. Len(g.lines)
    BY <1>1, <1>2
  <2>2. Len(TagsAt(SubSeq(g.lines, 1, f.synced))) \in 0 .. Len(TagsAt(g.lines))
    BY <1>2, <2>1, TagsPrefix
  <2> QED
    BY <1>3, <1>5, <2>2 DEF Safe
<1> QED
  BY <1>1, <1>3, <1>4, <1>6

\* The first commits of a file follow the log as the file does.
LEMMA PrefixFollows ==
  ASSUME NEW log \in Seq(Tags), NEW k \in 0 .. Len(log), NEW ts \in Seq(Tags),
         Follows(ts, log, k), NEW m \in 0 .. Len(ts)
  PROVE  Follows(SubSeq(ts, 1, m), log, IF m <= k THEN m ELSE k)
<1> DEFINE first == SubSeq(log, 1, k)
<1>1. first \in Seq(Tags) /\ Len(first) = k /\ Len(log) \in Nat
  BY RangeOfPrefix, LenProperties
<1>2. \A j \in 0 .. k : SubSeq(first, 1, j) = SubSeq(log, 1, j)
  BY PrefixOfPrefix
<1>3. ts = first \/ \E c \in Tags \ Range(log) : ts = Append(first, c)
  BY DEF Follows
<1> HIDE DEF first
<1>4. CASE ts = first
  <2>1. m \in 0 .. k /\ m <= k
    BY <1>1, <1>4
  <2>2. SubSeq(ts, 1, m) = SubSeq(log, 1, m)
    BY <1>2, <1>4, <2>1
  <2> QED
    BY <2>1, <2>2 DEF Follows
<1>5. ASSUME NEW c \in Tags \ Range(log), ts = Append(first, c)
      PROVE  Follows(SubSeq(ts, 1, m), log, IF m <= k THEN m ELSE k)
  <2>1. Len(ts) = k + 1
    BY <1>1, <1>5, AppendProperties
  <2>2. CASE m <= k
    <3>1. m \in 0 .. k
      BY <2>2
    <3>2. SubSeq(ts, 1, m) = SubSeq(first, 1, m)
      BY <1>1, <1>5, <3>1, PrefixOfAppend
    <3>3. SubSeq(ts, 1, m) = SubSeq(log, 1, m)
      BY <1>2, <3>1, <3>2
    <3> QED
      BY <2>2, <3>3 DEF Follows
  <2>3. CASE ~ (m <= k)
    <3>1. m = Len(ts)
      BY <2>1, <2>3
    <3>2. SubSeq(ts, 1, m) = Append(SubSeq(log, 1, k), c)
      BY <1>5, <3>1, Whole DEF first
    <3>3. Follows(SubSeq(ts, 1, m), log, k)
      BY <1>5, <3>2 DEF Follows
    <3> QED
      BY <2>3, <3>3
  <2> QED
    BY <2>2, <2>3
<1> QED
  BY <1>3, <1>4, <1>5

\* The commits of log that are among ts are its first n.
LEMMA KeptFollows ==
  ASSUME NEW log \in Seq(Tags), \A i, j \in 1 .. Len(log) : i # j => log[i] # log[j],
         NEW n \in 0 .. Len(log), NEW ts, Follows(ts, log, n)
  PROVE  Kept(log, Range(ts)) = SubSeq(log, 1, n)
<1> DEFINE first == SubSeq(log, 1, n)
           K == Range(ts)
<1>1. first \in Seq(Tags) /\ Range(first) = {log[i] : i \in 1 .. n} /\ Len(log) \in Nat
  BY RangeOfPrefix, LenProperties
<1>2. ts = first \/ \E c \in Tags \ Range(log) : ts = Append(first, c)
  BY DEF Follows
<1> HIDE DEF first
<1>3. K = Range(first) \/ \E c \in Tags \ Range(log) : K = Range(first) \cup {c}
  <2>1. CASE ts = first
    BY <2>1
  <2>2. ASSUME NEW c \in Tags \ Range(log), ts = Append(first, c)
        PROVE  K = Range(first) \cup {c}
    BY <1>1, <2>2, RangeAppend
  <2> QED
    BY <1>2, <2>1, <2>2
<1> HIDE DEF K
<1>4. \A i \in 1 .. Len(log) : log[i] \in Range(log)
  BY RangeOf
<1>5. \A i \in 1 .. Len(log) : log[i] \in K <=> log[i] \in Range(first)
  BY <1>3, <1>4
<1>6. \A i \in 1 .. Len(log) : log[i] \in Range(first) <=> i <= n
  <2> TAKE i \in 1 .. Len(log)
  <2>1. CASE i <= n
    BY <1>1, <2>1
  <2>2. CASE ~ (i <= n)
    <3>1. \A j \in 1 .. n : j \in 1 .. Len(log) /\ i # j
      BY <1>1, <2>2
    <3>2. \A j \in 1 .. n : log[i] # log[j]
      BY <3>1
    <3> QED
      BY <1>1, <2>2, <3>2
  <2> QED
    BY <2>1, <2>2
<1>7. Kept(log, K) = SubSeq(log, 1, n)
  BY <1>5, <1>6, KeptPrefix
<1> QED
  BY <1>7 DEF K

\* A power cut is a PowerCut: it takes the newest commits, and no promised one.
LEMMA PowerCutKeeps ==
  ASSUME IInv, SafeInv, SafeInv', StrictInv, PowerCut
  PROVE  StrictInv' /\ Promise!Next
<1>1. PICK i \in onDisk :
        /\ path' = i /\ onDisk' = {i}
        /\ \/ i = NoFile /\ acked' = <<>>
           \/ /\ i # NoFile
              /\ \E g \in Survivors(files[i]) :
                   /\ files' = [j \in Inodes |-> IF j = i THEN g ELSE EmptyFile]
                   /\ acked' = Kept(acked, Range(TagsOf(g)))
  BY DEF PowerCut
<1>2. /\ attempts' = attempts /\ promised' = promised
      /\ \A p \in Procs : handle'[p] = Closed
  BY DEF PowerCut
<1>3. HandleInv' /\ \A x : ~ Buffers(x)'
  BY <1>2 DEF HandleInv, IsOpen, Closed, Buffers
<1>4. /\ acked \in Seq(Tags) /\ Len(acked) \in Nat /\ promised \in 0 .. Len(acked)
      /\ Range(acked) \subseteq 1 .. attempts
      /\ \A k, l \in 1 .. Len(acked) : k # l => acked[k] # acked[l]
  BY LenProperties DEF StrictInv, AckedInv
<1>5. \A x : x \in InDoubt' <=> x \notin Range(acked') /\ Holds(x)'
  BY <1>1, <1>3, InDoubtIsNext
<1>6. CASE i = NoFile
  <2>1. acked' = <<>> /\ promised = 0 /\ Inodes \cap onDisk' = {}
    BY <1>1, <1>6, NoFileAssumption DEF StrictInv, NamesInv
  <2>2. Range(acked') = {} /\ Len(acked') = 0 /\ acked' \in Seq(Tags) /\ SubSeq(acked, 1, 0) = <<>>
    BY <1>4, <2>1, RangeEmpty, EmptySeq
  <2>3. AckedInv' /\ NamesInv' /\ HeldInv'
    BY <1>1, <1>2, <1>6, <2>1, <2>2 DEF AckedInv, NamesInv, HeldInv
  <2>4. InDoubt' \subseteq InDoubt
    BY <1>5, <2>1 DEF Holds
  <2>5. 0 \in promised .. Len(acked)
    BY <1>4, <2>1
  <2>6. Promise!Next
    BY <1>2, <2>1, <2>2, <2>4, <2>5, PowerCutStep
  <2> QED
    BY <1>3, <2>3, <2>6 DEF StrictInv
<1>7. CASE i # NoFile
  <2>1. PICK g \in Survivors(files[i]) :
          /\ files' = [j \in Inodes |-> IF j = i THEN g ELSE EmptyFile]
          /\ acked' = Kept(acked, Range(TagsOf(g)))
    BY <1>1, <1>7
  <2>2. i \in Inodes \cap onDisk /\ FileOK(files[i])
    BY <1>7 DEF SafeInv, DiskInv
  <2> DEFINE m == Len(TagsOf(g))
  <2>3. /\ TagsOf(g) \in Seq(Tags) /\ Safe(g) = m /\ m \in Safe(files[i]) .. Len(Held(i))
        /\ TagsOf(g) = SubSeq(Held(i), 1, m)
    BY <2>2, SurvivorTags DEF Held
  <2>4. /\ Held(i) \in Seq(Tags) /\ Safe(files[i]) \in Nat /\ Len(Held(i)) \in Nat
    BY <2>2, FilesHold
  <2>5. /\ promised <= Safe(files[i]) /\ Range(Held(i)) \subseteq 1 .. attempts
        /\ \E k \in promised .. Len(acked) : Follows(Held(i), acked, k)
    BY <2>2 DEF StrictInv, HeldInv
  <2>6. PICK k \in promised .. Len(acked) : Follows(Held(i), acked, k)
    BY <2>5
  <2> DEFINE n == IF m <= k THEN m ELSE k
             log == SubSeq(acked, 1, n)
  <2> HIDE DEF m
  <2>7. n \in promised .. Len(acked) /\ n \in 0 .. Len(acked) /\ promised <= m
        /\ k \in 0 .. Len(acked) /\ m \in 0 .. Len(Held(i))
    BY <1>4, <2>3, <2>4, <2>5, <2>6
  <2>8. Follows(TagsOf(g), acked, n)
    BY <1>4, <2>3, <2>4, <2>6, <2>7, PrefixFollows
  <2> HIDE DEF n
  <2>9. acked' = log
    BY <1>4, <2>1, <2>7, <2>8, KeptFollows
  <2>10. /\ log \in Seq(Tags) /\ Len(log) = n /\ Range(log) \subseteq Range(acked)
         /\ \A j \in 1 .. n : log[j] = acked[j]
    BY <1>4, <2>7, RangeOfPrefix, Split
  <2>11. TagsOf(g) = log \/ \E c \in Tags \ Range(acked) : TagsOf(g) = Append(log, c)
    BY <2>8 DEF Follows
  <2> HIDE DEF log
  <2>12. SubSeq(log, 1, Len(log)) = log
    BY <2>10, Whole
  <2>13. Follows(TagsOf(g), log, Len(log))
    BY <2>10, <2>11, <2>12 DEF Follows
  <2>14. files'[i] = g /\ Inodes \cap onDisk' = {i}
    BY <1>1, <2>1, <2>2
  <2>15. Range(TagsOf(g)) \subseteq Range(Held(i))
    BY <2>3, <2>4, <2>7, RangeOfPrefix
  <2>16. AckedInv'
    <3>1. \A a, b \in 1 .. Len(log) : a # b => log[a] # log[b]
      <4>1. \A a \in 1 .. Len(log) : a \in 1 .. n /\ a \in 1 .. Len(acked)
        BY <1>4, <2>7, <2>10
      <4> QED
        BY <1>4, <2>10, <4>1
    <3>2. promised \in 0 .. Len(log) /\ Range(log) \subseteq 1 .. attempts
      BY <1>4, <2>7, <2>10
    <3> QED
      BY <1>2, <2>9, <2>10, <3>1, <3>2 DEF AckedInv
  <2>17. NamesInv'
    BY <1>1, <1>7 DEF NamesInv
  <2>18. HeldInv'
    <3>1. \A j \in Inodes \cap onDisk' :
            /\ Range(TagsOf(files'[j])) \subseteq 1 .. attempts'
            /\ \E l \in promised' .. Len(acked') : Follows(TagsOf(files'[j]), acked', l)
            /\ promised' <= Safe(files'[j])
      <4>1. Len(log) \in promised .. Len(log)
        BY <2>7, <2>10
      <4>2. Range(TagsOf(g)) \subseteq 1 .. attempts /\ promised <= Safe(g)
        BY <2>3, <2>5, <2>7, <2>15
      <4> QED
        BY <1>2, <2>9, <2>13, <2>14, <4>1, <4>2
    <3>2. Follows(TagsOf(files'[path']), acked', Len(acked'))
      BY <1>1, <2>9, <2>13, <2>14
    <3>3. \A j, l \in Inodes \cap onDisk' : j = l
      BY <2>14
    <3> QED
      BY <3>1, <3>2, <3>3 DEF HeldInv, Held, Follows
  <2>19. InDoubt' \subseteq InDoubt
    <3>1. \A x : x \in InDoubt <=> x \notin Range(acked) /\ (Holds(x) \/ Buffers(x))
      BY InDoubtIs DEF StrictInv, NamesInv
    <3>2. ASSUME NEW x \in InDoubt' PROVE x \notin Range(acked) /\ Holds(x)
      <4>1. x \in Range(TagsOf(g)) /\ x \notin Range(log)
        BY <1>5, <2>9, <2>14 DEF Holds, Held
      <4>2. PICK c \in Tags \ Range(acked) : TagsOf(g) = Append(log, c)
        BY <2>11, <4>1
      <4>3. x = c
        BY <2>10, <4>1, <4>2, RangeAppend
      <4> QED
        BY <2>2, <2>15, <4>1, <4>3 DEF Holds
    <3> QED
      BY <3>1, <3>2
  <2>20. Promise!Next
    BY <1>2, <2>7, <2>9, <2>19, PowerCutStep DEF log
  <2> QED
    BY <1>3, <2>16, <2>17, <2>18, <2>20 DEF StrictInv
<1> QED
  BY <1>6, <1>7

-----------------------------------------------------------------------------
\* The initial states of the engine are those of DurableLog ...
LEMMA InitIsStrict == Init => StrictInv /\ Promise!Init
<1> SUFFICES ASSUME Init PROVE StrictInv /\ Promise!Init
  OBVIOUS
<1>1. /\ acked = <<>> /\ promised = 0 /\ attempts = 0 /\ path = NoFile /\ onDisk = {NoFile}
      /\ \A p \in Procs : handle[p] = Closed
  BY DEF Init
<1>2. Inodes \cap onDisk = {}
  BY <1>1, NoFileAssumption
<1>3. AckedInv
  BY <1>1, EmptySeq, RangeEmpty DEF AckedInv
<1>4. NamesInv /\ HeldInv /\ HandleInv
  BY <1>1, <1>2 DEF NamesInv, HeldInv, HandleInv, IsOpen, Closed
<1>5. InDoubt = {}
  <2>1. \A x : ~ Holds(x) /\ ~ Buffers(x)
    BY <1>1, <1>2 DEF Holds, Buffers, Closed
  <2> QED
    BY <1>1, <2>1, InDoubtIs
<1> QED
  BY <1>1, <1>3, <1>4, <1>5 DEF StrictInv, Promise!Init

\* ... and each of its steps is one of DurableLog, or changes nothing of it.
LEMMA NextKeepsThePromise ==
  ASSUME DirPersist, ~SyncDirMayFail, IInv, SafeInv, StrictInv, [Next]_vars
  PROVE  StrictInv' /\ [Promise!Next]_(Promise!vars)
<1>1. SafeInv'
  BY NextIsSafe
<1>2. ASSUME NEW p \in Procs, Create(p) PROVE StrictInv' /\ Promise!Next
  BY <1>1, <1>2, CreateFileKeeps, CreateHeaderKeeps, CreateFailsKeeps DEF Create
<1>3. ASSUME NEW p \in Procs, Open(p) PROVE StrictInv' /\ Promise!Next
  BY <1>1, <1>3, OpenKeeps
<1>4. ASSUME NEW p \in Procs, NEW deferred \in BOOLEAN, Commit(p, deferred)
      PROVE  StrictInv' /\ Promise!Next
  BY <1>1, <1>4, CommitKeeps
<1>5. ASSUME NEW p \in Procs, CommitFails(p) \/ CommitKilled(p) PROVE StrictInv' /\ Promise!Next
  BY <1>1, <1>5, CommitFailsKeeps, CommitKilledKeeps
<1>6. ASSUME NEW p \in Procs, Close(p) \/ Kill(p) PROVE StrictInv' /\ Promise!Next
  BY <1>1, <1>6, CloseKeeps, KillKeeps
<1>7. ASSUME NEW p \in Procs, Compact(p) PROVE StrictInv' /\ Promise!Next
  <2>1. ~ CompactSyncDirFails(p)
    BY DEF CompactSyncDirFails
  <2> QED
    BY <1>1, <1>7, <2>1, CompactDoneKeeps, CompactReopenFailsKeeps, CompactKilledKeeps DEF Compact
<1>8. CASE PowerCut
  BY <1>1, <1>8, PowerCutKeeps
<1>9. CASE UNCHANGED vars
  <2>1. UNCHANGED <<files, path, onDisk, handle, attempts, acked, promised>>
    BY <1>9 DEF vars, disk
  <2>2. StrictInv'
    BY <2>1 DEF StrictInv, AckedInv, NamesInv, HeldInv, HandleInv, InTouch, Held, Follows, IsOpen
  <2>3. UNCHANGED Promise!vars
    BY <2>1 DEF Promise!vars, InDoubt
  <2> QED
    BY <2>2, <2>3
<1> QED
  BY <1>2, <1>3, <1>4, <1>5, <1>6, <1>7, <1>8, <1>9 DEF Next

\* The engine implements DurableLog on a file system that keeps the strict
\* rules (storage.rs, append_line(), open_with() and compact()).
THEOREM EngineKeepsThePromise ==
  ASSUME DirPersist, ~SyncDirMayFail
  PROVE  Spec => KeepsThePromise
<1> DEFINE Inv == IInv /\ SafeInv /\ StrictInv
<1>1. Init => Inv /\ Promise!Init
  BY InitIsSafe, InitIsStrict
<1>2. Inv /\ [Next]_vars => Inv' /\ [Promise!Next]_(Promise!vars)
  BY NextKeepsIInv, NextIsSafe, NextKeepsThePromise
<1> HIDE DEF Inv
<1> QED
  BY <1>1, <1>2, PTL DEF Spec, KeepsThePromise, Promise!Spec

-----------------------------------------------------------------------------
LogInv == part \in {"strict", "loose"} /\ (IsStrict => IInv /\ SafeInv /\ StrictInv)

\* On the strict file system the run's promise is that of SessionLog.
LEMMA PromisesAgree ==
  ASSUME part = "strict"
  PROVE  /\ Promise!Init => StrictPromise!Init
         /\ part' = part /\ [Promise!Next]_(Promise!vars)
              => [StrictPromise!Next]_(StrictPromise!vars)
<1>1. IsStrict
  BY DEF IsStrict
<1>2. Promise!Init => StrictPromise!Init
  BY <1>1 DEF Promise!Init, StrictPromise!Init
<1>3. ASSUME part' = part, [Promise!Next]_(Promise!vars)
      PROVE  [StrictPromise!Next]_(StrictPromise!vars)
  <2>1. IsStrict'
    BY <1>3 DEF IsStrict
  <2>2. CASE Promise!Commit
    BY <1>1, <2>1, <2>2 DEF Promise!Commit, StrictPromise!Next, StrictPromise!Commit
  <2>3. CASE Promise!Fail
    BY <1>1, <2>1, <2>3 DEF Promise!Fail, StrictPromise!Next, StrictPromise!Fail
  <2>4. CASE Promise!Forget
    BY <1>1, <2>1, <2>4 DEF Promise!Forget, Promise!FloorKept, StrictPromise!Next,
                        StrictPromise!Forget, StrictPromise!FloorKept
  <2>5. CASE Promise!Reopen
    BY <1>1, <2>1, <2>5 DEF Promise!Reopen, Promise!FloorKept, StrictPromise!Next,
                        StrictPromise!Reopen, StrictPromise!FloorKept
  <2>6. CASE Promise!PowerCut
    BY <1>1, <2>1, <2>6 DEF Promise!PowerCut, StrictPromise!Next, StrictPromise!PowerCut
  <2>7. CASE UNCHANGED Promise!vars
    BY <1>1, <2>1, <2>7 DEF Promise!vars, StrictPromise!vars
  <2> QED
    BY <1>3, <2>2, <2>3, <2>4, <2>5, <2>6, <2>7 DEF Promise!Next
<1> QED
  BY <1>2, <1>3

\* Where the strict rules are not kept, nothing is promised.
LEMMA NothingPromised ==
  ASSUME part \in {"strict", "loose"}, part # "strict"
  PROVE  /\ StrictPromise!Init
         /\ part' = part => UNCHANGED StrictPromise!vars
BY DEF IsStrict, StrictPromise!Init, StrictPromise!vars

\* The same of the run, whose other file system promises nothing.
THEOREM ItsPromiseIsKept ==
  ASSUME DirPersist, ~SyncDirMayFail
  PROVE  LogSpec => KeepsItsPromise
<1>1. LogInit => LogInv /\ StrictPromise!Init
  <2> SUFFICES ASSUME LogInit PROVE LogInv /\ StrictPromise!Init
    OBVIOUS
  <2>1. part \in {"strict", "loose"} /\ Init
    BY DEF LogInit
  <2>2. IInv /\ SafeInv /\ StrictInv /\ Promise!Init
    BY <2>1, InitIsSafe, InitIsStrict
  <2>3. StrictPromise!Init
    BY <2>1, <2>2, PromisesAgree, NothingPromised
  <2> QED
    BY <2>1, <2>2, <2>3 DEF LogInv
<1>2. LogInv /\ [LogNext]_<<part, vars>>
        => LogInv' /\ [StrictPromise!Next]_(StrictPromise!vars)
  <2> SUFFICES ASSUME LogInv, [LogNext]_<<part, vars>>
               PROVE  LogInv' /\ [StrictPromise!Next]_(StrictPromise!vars)
    OBVIOUS
  <2>1. part' = part
    BY DEF LogNext
  <2>2. CASE part = "strict"
    <3>1. IsStrict /\ IsStrict' /\ [Next]_vars
      BY <2>1, <2>2 DEF LogNext, IsStrict
    <3>2. IInv /\ SafeInv /\ StrictInv
      BY <3>1 DEF LogInv
    <3>3. IInv' /\ SafeInv' /\ StrictInv' /\ [Promise!Next]_(Promise!vars)
      BY <3>1, <3>2, NextKeepsIInv, NextIsSafe, NextKeepsThePromise
    <3>4. [StrictPromise!Next]_(StrictPromise!vars)
      BY <2>1, <2>2, <3>3, PromisesAgree
    <3> QED
      BY <2>1, <3>3, <3>4 DEF LogInv
  <2>3. CASE part # "strict"
    BY <2>1, <2>3, NothingPromised DEF LogInv, IsStrict
  <2> QED
    BY <2>2, <2>3
<1> QED
  BY <1>1, <1>2, PTL DEF LogSpec, KeepsItsPromise, StrictPromise!Spec

=============================================================================
