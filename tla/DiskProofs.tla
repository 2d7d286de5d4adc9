----------------------------- MODULE DiskProofs -----------------------------
(***************************************************************************)
(* Theorems about the buffer caches and the IDE driver for any number of   *)
(* processes, buffers and sectors: IInv is inductive, no sector is in two  *)
(* buffers, no wakeup is lost, and the cache over the driver implements    *)
(* BlockStore.  Each action has a lemma of its own.                        *)
(***************************************************************************)
EXTENDS DiskInv, FiniteSetTheorems, FunctionTheorems, SequenceTheorems, TLAPS

-----------------------------------------------------------------------------
(* Sequences without repetition: the list of buffers and the queue.         *)

LEMMA QueueFacts ==
  ASSUME NEW S, NEW s \in Seq(S)
  PROVE  /\ Len(s) \in Nat /\ DOMAIN s = 1..Len(s)
         /\ \A k \in 1..Len(s) : s[k] \in S /\ s[k] \in ToSet(s)
         /\ \A x \in ToSet(s) : x \in S /\ \E k \in 1..Len(s) : s[k] = x
BY LenProperties DEF ToSet

LEMMA AppendFacts ==
  ASSUME NEW S, NEW s \in Seq(S), NEW e \in S
  PROVE  /\ Append(s, e) \in Seq(S)
         /\ Append(s, e) # <<>>
         /\ ToSet(Append(s, e)) = ToSet(s) \cup {e}
         /\ Head(Append(s, e)) = IF s = <<>> THEN e ELSE Head(s)
         /\ IsInjective(s) /\ e \notin ToSet(s) => IsInjective(Append(s, e))
<1>1. /\ Append(s, e) \in Seq(S) /\ Append(s, e) # <<>>
      /\ Len(Append(s, e)) = Len(s) + 1
      /\ \A k \in 1..Len(s) : Append(s, e)[k] = s[k]
      /\ Append(s, e)[Len(s) + 1] = e
      /\ Len(s) \in Nat /\ DOMAIN s = 1..Len(s) /\ DOMAIN Append(s, e) = 1..Len(s) + 1
  OBVIOUS
<1>2. \A k \in 1..Len(s) + 1 : k \in 1..Len(s) \/ k = Len(s) + 1
  BY <1>1
<1>3. ToSet(Append(s, e)) = ToSet(s) \cup {e}
  <2>1. \A x \in ToSet(Append(s, e)) : x \in ToSet(s) \cup {e}
    BY <1>1, <1>2 DEF ToSet
  <2>2. \A x \in ToSet(s) : x \in ToSet(Append(s, e))
    BY <1>1 DEF ToSet
  <2>3. e \in ToSet(Append(s, e))
    BY <1>1 DEF ToSet
  <2> QED BY <2>1, <2>2, <2>3
<1>4. Head(Append(s, e)) = IF s = <<>> THEN e ELSE Head(s)
  <2>1. Head(Append(s, e)) = Append(s, e)[1]
    BY <1>1
  <2>2. CASE s = <<>>
    BY <1>1, <2>1, <2>2
  <2>3. CASE s # <<>>
    BY <1>1, <2>1, <2>3
  <2> QED BY <2>2, <2>3
<1>5. ASSUME IsInjective(s), e \notin ToSet(s) PROVE IsInjective(Append(s, e))
  <2>1. \A k \in 1..Len(s) : s[k] # e
    BY <1>1, <1>5 DEF ToSet
  <2> QED BY <1>1, <1>2, <1>5, <2>1 DEF IsInjective
<1> QED BY <1>1, <1>3, <1>4, <1>5

LEMMA TailFacts ==
  ASSUME NEW S, NEW s \in Seq(S), s # <<>>
  PROVE  /\ Head(s) \in S /\ Head(s) \in ToSet(s)
         /\ Tail(s) \in Seq(S)
         /\ ToSet(s) = ToSet(Tail(s)) \cup {Head(s)}
         /\ IsInjective(s) => IsInjective(Tail(s)) /\ Head(s) \notin ToSet(Tail(s))
         /\ Tail(s) # <<>> => Head(Tail(s)) \in ToSet(Tail(s))
<1>1. /\ Head(s) \in S /\ Tail(s) \in Seq(S)
      /\ Len(Tail(s)) = Len(s) - 1 /\ Len(s) \in Nat \ {0}
      /\ \A k \in 1..Len(Tail(s)) : Tail(s)[k] = s[k + 1]
      /\ Head(s) = s[1]
      /\ DOMAIN s = 1..Len(s) /\ DOMAIN Tail(s) = 1..Len(s) - 1
  BY HeadTailProperties, EmptySeq, LenProperties
<1>2. \A x \in ToSet(s) : x \in ToSet(Tail(s)) \cup {Head(s)}
  <2> SUFFICES ASSUME NEW k \in 1..Len(s), k # 1 PROVE s[k] \in ToSet(Tail(s))
    BY <1>1 DEF ToSet
  <2>1. k - 1 \in 1..Len(s) - 1 /\ k - 1 \in 1..Len(Tail(s)) /\ (k - 1) + 1 = k
    BY <1>1
  <2>2. Tail(s)[k - 1] = s[k]
    BY <1>1, <2>1
  <2> QED BY <1>1, <2>1, <2>2 DEF ToSet
<1>3. ToSet(Tail(s)) \subseteq ToSet(s) /\ Head(s) \in ToSet(s)
  BY <1>1 DEF ToSet
<1>4. IsInjective(s) => IsInjective(Tail(s))
  BY <1>1 DEF IsInjective
<1>5. IsInjective(s) => Head(s) \notin ToSet(Tail(s))
  BY <1>1 DEF IsInjective, ToSet
<1>6. Tail(s) # <<>> => Head(Tail(s)) \in ToSet(Tail(s))
  <2> SUFFICES ASSUME Tail(s) # <<>> PROVE Head(Tail(s)) \in ToSet(Tail(s))
    OBVIOUS
  <2>1. Head(Tail(s)) = Tail(s)[1] /\ Len(Tail(s)) \in Nat \ {0}
    BY <1>1, EmptySeq
  <2>2. 1 \in DOMAIN Tail(s)
    BY <1>1, <2>1, LenProperties
  <2> QED BY <2>1, <2>2 DEF ToSet
<1> QED BY <1>1, <1>2, <1>3, <1>4, <1>5, <1>6

\* A buffer of the list goes to its front and the list keeps its buffers.
LEMMA ToFrontFacts ==
  ASSUME TypeOK, NEW b \in Buf, ToFront(b)
  PROVE  mru' \in [1..Cardinality(Buf) -> Buf] /\ IsInjective(mru')
<1>1. PICK n \in DOMAIN mru :
         /\ mru[n] = b
         /\ mru' = [k \in DOMAIN mru |-> IF k = 1 THEN b
                                         ELSE IF k <= n THEN mru[k - 1] ELSE mru[k]]
  BY DEF ToFront
<1>2. Cardinality(Buf) \in Nat /\ DOMAIN mru = 1..Cardinality(Buf)
  BY DiskAssumption, FS_CardinalityType DEF TypeOK
<1>3. mru' \in [1..Cardinality(Buf) -> Buf]
  BY <1>1, <1>2 DEF TypeOK
<1>4. IsInjective(mru')
  <2> SUFFICES ASSUME NEW j \in 1..Cardinality(Buf), NEW k \in 1..Cardinality(Buf), mru'[j] = mru'[k]
               PROVE  j = k
    BY <1>1, <1>2 DEF IsInjective
  <2> DEFINE Was(l) == IF l = 1 THEN n ELSE IF l <= n THEN l - 1 ELSE l
  <2>1. Was(j) \in 1..Cardinality(Buf) /\ mru'[j] = mru[Was(j)]
    BY <1>1, <1>2
  <2>2. Was(k) \in 1..Cardinality(Buf) /\ mru'[k] = mru[Was(k)]
    BY <1>1, <1>2
  <2>3. Was(j) = Was(k)
    BY <2>1, <2>2, <1>2 DEF TypeOK, IsInjective
  <2> QED BY <1>2, <2>3
<1> QED BY <1>3, <1>4

-----------------------------------------------------------------------------
(* What a step that leaves part of the state alone cannot disturb.          *)

LEMMA HeldFacts ==
  ASSUME IInv, NEW p \in Proc
  PROVE  /\ hold[p] \in SUBSET Buf /\ IsFiniteSet(hold[p])
         /\ Kept(p) \in SUBSET Buf /\ IsFiniteSet(Kept(p))
         /\ Cardinality(hold[p]) \in Nat /\ Cardinality(Kept(p)) \in Nat
         /\ Cardinality(hold[p]) <= Cardinality(Kept(p))
         /\ Cardinality(Kept(p)) <= MaxHeld /\ MaxHeld \in Nat
<1>1. hold[p] \in SUBSET Buf /\ Kept(p) \in SUBSET Buf /\ hold[p] \in SUBSET Kept(p)
  BY DEF IInv, TypeOK, Kept, HoldInv
<1>2. IsFiniteSet(hold[p]) /\ IsFiniteSet(Kept(p))
  BY <1>1, FS_Subset, DiskAssumption
<1>3. Cardinality(hold[p]) <= Cardinality(Kept(p))
  BY <1>1, <1>2, FS_Subset
<1> QED BY <1>1, <1>2, <1>3, FS_CardinalityType, DiskAssumption DEF IInv, HeldInv

LEMMA HeldFrame ==
  ASSUME IInv, hold' = hold,
         \A q \in Proc : Kept(q)' = Kept(q),
         \A q \in Proc : pc'[q] \in Asks => pc[q] \in Asks \/ Cardinality(hold[q]) < MaxHeld
  PROVE  HeldInv'
BY DEF IInv, HeldInv

LEMMA RefFrame ==
  ASSUME IInv, kernel' = kernel, refcnt' = refcnt,
         kernel # "xv6" => \A b \in Buf : \A q \in Proc : q \in Refs(b)' <=> q \in Refs(b)
  PROVE  RefInv'
<1>1. kernel # "xv6" => \A b \in Buf : Refs(b)' = Refs(b)
  BY DEF Refs
<1> QED BY <1>1 DEF IInv, RefInv

LEMMA CallsFrame ==
  ASSUME IInv, UNCHANGED <<kernel, pc, cur, hold, refcnt>>
  PROVE  RefInv' /\ HeldInv'
<1>1. RefInv'
  BY RefFrame DEF Refs
<1>2. HeldInv'
  BY HeldFrame DEF Kept
<1> QED BY <1>1, <1>2

\* The head of the queue is in the hands of a process that sleeps in iderw().
LEMMA HeadFacts ==
  ASSUME IInv, idequeue # <<>>, NEW b, b = Head(idequeue)
  PROVE  /\ b \in Buf /\ b \in ToSet(idequeue) /\ b \in busy
         /\ sector[b] \in Sector
         /\ b \in dirty \/ b \notin valid
         /\ \E p \in Proc : pc[p] = "iosleep" /\ cur[p] = b /\ b \in hold[p]
         /\ kernel # "mem"
<1>1. b \in Buf /\ b \in ToSet(idequeue)
  BY TailFacts DEF IInv, TypeOK
<1>2. PICK p \in Proc : pc[p] = "iosleep" /\ cur[p] = b
  BY <1>1 DEF IInv, QueuedInv
<1>3. b \in hold[p] /\ (b \in dirty \/ b \notin valid)
  BY <1>2 DEF IInv, HoldInv, Io
<1>4. sector[b] \in Sector /\ b \in busy
  BY <1>1, <1>3 DEF IInv, HoldInv, TypeOK
<1> QED BY <1>1, <1>2, <1>3, <1>4 DEF IInv, KernelInv

LEMMA DriveFrame ==
  ASSUME IInv, UNCHANGED <<ctl, platter, idequeue, errors>>,
         idequeue # <<>> =>
             LET b == Head(idequeue)
             IN  sector'[b] = sector[b] /\ data'[b] = data[b] /\ (b \in dirty' <=> b \in dirty)
  PROVE  DriveInv'
BY DEF IInv, DriveInv

LEMMA CleanFrame ==
  ASSUME IInv, UNCHANGED <<ctl, platter, errors>>,
         \A b \in valid' \ dirty' :
             b \in valid \ dirty /\ data'[b] = data[b] /\ sector'[b] = sector[b]
  PROVE  CleanInv'
BY DEF IInv, CleanInv, Content

LEMMA QueueFrame ==
  ASSUME IInv, idequeue' = idequeue,
         \A q \in Proc : pc'[q] = "iosleep" <=> pc[q] = "iosleep",
         \A q \in Proc : pc[q] = "iosleep" => cur'[q] = cur[q]
  PROVE  QueueInv' /\ QueuedInv'
BY DEF IInv, QueueInv, QueuedInv

LEMMA HeldOthers ==
  ASSUME IInv, NEW p \in Proc,
         \A q \in Proc \ {p} :
             /\ Kept(q)' = Kept(q) /\ hold'[q] = hold[q]
             /\ pc'[q] \in Asks => pc[q] \in Asks,
         Cardinality(Kept(p)') <= MaxHeld,
         pc'[p] \in Asks => Cardinality(hold'[p]) < MaxHeld
  PROVE  HeldInv'
BY DEF IInv, HeldInv

LEMMA OneMore ==
  ASSUME IInv, NEW p \in Proc, pc[p] \in Asks, NEW b \in Buf
  PROVE  Cardinality(hold[p] \cup {b}) <= MaxHeld /\ Cardinality(hold[p]) < MaxHeld
<1>1. Cardinality(hold[p]) < MaxHeld /\ MaxHeld \in Nat /\ Cardinality(hold[p]) \in Nat
  BY HeldFacts DEF IInv, HeldInv
<1>2. \/ Cardinality(hold[p] \cup {b}) = Cardinality(hold[p])
      \/ Cardinality(hold[p] \cup {b}) = Cardinality(hold[p]) + 1
  BY HeldFacts, FS_AddElement
<1> QED BY <1>1, <1>2

LEMMA OneLess ==
  ASSUME IInv, NEW p \in Proc, NEW b
  PROVE  Cardinality(hold[p] \ {b}) <= MaxHeld
<1>1. hold[p] \ {b} \in SUBSET Kept(p)
  BY DEF Kept
<1> QED BY <1>1, HeldFacts, FS_Subset, FS_CardinalityType

\* What bread() changes for the process it gives the buffer to.
LEMMA BreadFacts ==
  ASSUME IInv, NEW p \in Proc, pc[p] \in Asks, NEW b \in Buf, Bread(p, b)
  PROVE  /\ hold' \in [Proc -> SUBSET Buf] /\ want' \in [Proc -> Sector \cup {Nobody}]
         /\ cur' \in [Proc -> Buf \cup {Nobody}] /\ pc' \in [Proc -> Place]
         /\ hold'[p] = hold[p] \cup {b} /\ pc'[p] \in {"user", "iderw"}
         /\ b \in valid' => pc'[p] = "user" /\ cur'[p] = Nobody
         /\ b \notin valid' => pc'[p] = "iderw" /\ cur'[p] = b
         /\ \A q \in Proc \ {p} : /\ hold'[q] = hold[q] /\ pc'[q] = pc[q]
                                  /\ cur'[q] = cur[q] /\ want'[q] = want[q]
<1> USE DEF IInv, TypeOK, Bread, Goes, Place
<1>1. CASE b \in valid'
  BY <1>1
<1>2. CASE b \notin valid'
  BY <1>2
<1> QED BY <1>1, <1>2

LEMMA BreadHeld ==
  ASSUME IInv, NEW p \in Proc, pc[p] \in Asks, NEW b \in Buf, Bread(p, b), kernel' = kernel
  PROVE  HeldInv'
<1>1. hold'[p] = hold[p] \cup {b} /\ pc'[p] \in {"user", "iderw"} /\ Kept(p)' = hold'[p]
  BY BreadFacts DEF Kept
<1>2. \A q \in Proc \ {p} : hold'[q] = hold[q] /\ pc'[q] = pc[q] /\ Kept(q)' = Kept(q)
  BY BreadFacts DEF Kept
<1>3. Cardinality(hold'[p]) <= MaxHeld
  BY <1>1, OneMore
<1> QED BY <1>1, <1>2, <1>3, HeldOthers DEF Asks

\* What a wakeup on the channel of b does to a process.
LEMMA WakesFacts ==
  ASSUME IInv, NEW b, NEW places, places \subseteq {"bsleep", "iosleep"}
  PROVE  LET w == Woken(b, places)
         IN  /\ w \in [Proc -> Place]
             /\ \A q \in Proc :
                    /\ w[q] # pc[q] => cur[q] = b /\ pc[q] \in {"bsleep", "iosleep"}
                    /\ pc[q] = "bsleep" => w[q] \in {"bsleep", "bget", "lock"}
                    /\ w[q] = "bget" => pc[q] = "bget" \/ (pc[q] = "bsleep" /\ kernel = "xv6")
                    /\ w[q] = "lock" => pc[q] = "lock" \/ (pc[q] = "bsleep" /\ kernel # "xv6")
                    /\ pc[q] = "bsleep" /\ kernel # "xv6" => w[q] \in {"bsleep", "lock"}
                    /\ pc[q] = "iosleep" => w[q] \in {"iosleep", "iowoken"}
                    /\ w[q] = "iowoken" => pc[q] \in {"iowoken", "iosleep"}
                    /\ w[q] = "iosleep" => pc[q] = "iosleep"
                    /\ w[q] = "bsleep" => pc[q] = "bsleep"
                    /\ w[q] = "bsleep" /\ ("bsleep" \in places \/ kernel = "xv6") => cur[q] # b
                    /\ w[q] = "iosleep" /\ ("iosleep" \in places \/ kernel = "xv6") => cur[q] # b
                    /\ "iosleep" \notin places /\ kernel # "xv6" /\ pc[q] = "iosleep" => w[q] = "iosleep"
                    /\ "bsleep" \notin places /\ kernel # "xv6" /\ pc[q] = "bsleep" => w[q] = "bsleep"
<1> DEFINE w == Woken(b, places)
           on == IF kernel = "xv6" THEN {"bsleep", "iosleep"} ELSE places
<1>1. w = [q \in Proc |-> IF cur[q] # b \/ pc[q] \notin on THEN pc[q]
                          ELSE IF pc[q] # "bsleep" THEN "iowoken"
                          ELSE IF kernel = "xv6" THEN "bget" ELSE "lock"]
  BY DEF Woken, Wakes
<1>2. \A q \in Proc : /\ pc[q] \in Place
                      /\ w[q] = IF cur[q] # b \/ pc[q] \notin on THEN pc[q]
                                ELSE IF pc[q] # "bsleep" THEN "iowoken"
                                ELSE IF kernel = "xv6" THEN "bget" ELSE "lock"
  BY <1>1 DEF IInv, TypeOK
<1> HIDE DEF w
<1>3. w \in [Proc -> Place]
  BY <1>1, <1>2 DEF Place
<1>4. CASE kernel = "xv6"
  BY <1>2, <1>3, <1>4 DEF w
<1>5. CASE kernel # "xv6"
  BY <1>2, <1>3, <1>5 DEF w
<1> QED BY <1>4, <1>5

-----------------------------------------------------------------------------
(* One lemma per action: it preserves IInv.                                 *)

LEMMA BreadCallStep ==
  ASSUME IInv, NEW p \in Proc, NEW s \in Sector, BreadCall(p, s)
  PROVE  IInv'
<1> USE DEF Place, Asks, Io, Goes, flagVars, cacheVars, driveVars, otherVars, BreadCall
<1>1. TypeOK'
  BY DEF IInv, TypeOK
<1>2. KernelInv'
  BY DEF IInv, TypeOK, KernelInv
<1>3. HoldInv'
  BY DiskAssumption DEF IInv, TypeOK, KernelInv, HoldInv, CacheInv
<1>4. CacheInv'
  BY DiskAssumption DEF IInv, TypeOK, HoldInv, CacheInv
<1>5. RefInv'
  BY DEF IInv, TypeOK, KernelInv, HoldInv, RefInv, Refs
<1>6. HeldInv'
  BY HeldFrame DEF IInv, TypeOK, Kept
<1>7. QueueInv'
  BY DEF IInv, TypeOK, QueueInv
<1>8. QueuedInv'
  BY DEF IInv, TypeOK, QueuedInv
<1>9. SleepInv'
  BY DEF IInv, TypeOK, KernelInv, HoldInv, SleepInv
<1>10. DriveInv'
  BY DEF IInv, TypeOK, DriveInv
<1>11. CleanInv'
  BY DEF IInv, TypeOK, CleanInv, Content
<1> QED BY <1>1, <1>2, <1>3, <1>4, <1>5, <1>6, <1>7, <1>8, <1>9, <1>10, <1>11 DEF IInv

LEMMA BgetHitStep ==
  ASSUME IInv, NEW p \in Proc, BgetHit(p)
  PROVE  IInv'
<1> USE DEF Place, Asks, Io, Goes, flagVars, cacheVars, driveVars, otherVars, BgetHit, Bread, Cached
<1>a. PICK b \in Buf : b \in Cached(want[p]) \ busy /\ busy' = busy \cup {b} /\ Bread(p, b)
  OBVIOUS
<1>b. pc[p] \in Asks /\ kernel' = kernel /\ want[p] \in Sector
  BY DEF IInv, HoldInv
<1>1. TypeOK'
  BY <1>a, <1>b, BreadFacts DEF IInv, TypeOK
<1>2. KernelInv'
  BY DEF IInv, TypeOK, KernelInv
<1>3. HoldInv'
  <2>1. /\ hold'[p] = hold[p] \cup {b} /\ pc'[p] \in {"user", "iderw"}
        /\ b \in valid' => pc'[p] = "user" /\ cur'[p] = Nobody
        /\ b \notin valid' => pc'[p] = "iderw" /\ cur'[p] = b
        /\ \A q \in Proc \ {p} : /\ hold'[q] = hold[q] /\ pc'[q] = pc[q]
                                 /\ cur'[q] = cur[q] /\ want'[q] = want[q]
    BY <1>a, <1>b, BreadFacts
  <2>2. /\ b \notin busy /\ sector[b] = want[p] /\ want[p] \in Sector
        /\ valid' = valid /\ dirty' = dirty /\ sector' = sector /\ busy' = busy \cup {b}
    BY <1>a, <1>b
  <2>3. b \notin dirty /\ \A q \in Proc : b \notin hold[q]
    BY <2>2 DEF IInv, HoldInv
  <2>4. busy' = UNION {hold'[q] : q \in Proc}
    BY <2>1, <2>2 DEF IInv, HoldInv
  <2>5. \A q, r \in Proc : q # r => hold'[q] \cap hold'[r] = {}
    BY <2>1, <2>3 DEF IInv, HoldInv
  <2>6. \A c \in hold[p] : c \notin dirty /\ c \in valid
    BY <1>b DEF IInv, HoldInv
  <2> QED BY <1>b, <2>1, <2>2, <2>3, <2>4, <2>5, <2>6, DiskAssumption
          DEF IInv, TypeOK, HoldInv
<1>4. CacheInv'
  BY DiskAssumption DEF IInv, TypeOK, HoldInv, CacheInv
<1>5. RefInv'
  BY DEF IInv, TypeOK, KernelInv, HoldInv, RefInv, Refs
<1>6. HeldInv'
  BY <1>a, <1>b, BreadHeld
<1>7. QueueInv'
  BY <1>a, QueueFrame DEF IInv, TypeOK
<1>8. QueuedInv'
  BY <1>a, QueueFrame DEF IInv, TypeOK
<1>9. SleepInv'
  BY DEF IInv, TypeOK, KernelInv, HoldInv, SleepInv
<1>10. DriveInv'
  BY DEF IInv, TypeOK, DriveInv
<1>11. CleanInv'
  BY DEF IInv, TypeOK, CleanInv, Content
<1> QED BY <1>1, <1>2, <1>3, <1>4, <1>5, <1>6, <1>7, <1>8, <1>9, <1>10, <1>11 DEF IInv

LEMMA BgetBusyStep ==
  ASSUME IInv, NEW p \in Proc, BgetBusy(p)
  PROVE  IInv'
<1> USE DEF Place, Asks, Io, Goes, flagVars, cacheVars, driveVars, otherVars, BgetBusy, Cached
<1>1. TypeOK'
  BY DEF IInv, TypeOK
<1>2. KernelInv'
  BY DEF IInv, TypeOK, KernelInv
<1>3. HoldInv'
  BY DiskAssumption DEF IInv, TypeOK, KernelInv, HoldInv, CacheInv
<1>4. CacheInv'
  BY DiskAssumption DEF IInv, TypeOK, HoldInv, CacheInv
<1>5. RefInv'
  BY DEF IInv, TypeOK, KernelInv, HoldInv, RefInv, Refs
<1>6. HeldInv'
  BY DEF IInv, TypeOK, KernelInv, HoldInv, HeldInv, Kept
<1>7. QueueInv'
  BY DEF IInv, TypeOK, QueueInv
<1>8. QueuedInv'
  BY DEF IInv, TypeOK, QueuedInv
<1>9. SleepInv'
  BY DEF IInv, TypeOK, KernelInv, HoldInv, SleepInv
<1>10. DriveInv'
  BY DEF IInv, TypeOK, DriveInv
<1>11. CleanInv'
  BY DEF IInv, TypeOK, CleanInv, Content
<1> QED BY <1>1, <1>2, <1>3, <1>4, <1>5, <1>6, <1>7, <1>8, <1>9, <1>10, <1>11 DEF IInv

LEMMA BgetRecycleStep ==
  ASSUME IInv, NEW p \in Proc, BgetRecycle(p)
  PROVE  IInv'
<1> USE DEF Place, Asks, Io, Goes, flagVars, cacheVars, driveVars, otherVars, BgetRecycle, Bread, Cached, Recycle, Recycled, InUse
<1>a. PICK b \in Buf : Recycled(b) /\ Recycle(b, want[p]) /\ busy' = busy \cup {b} /\ Bread(p, b)
  OBVIOUS
<1>b. pc[p] \in Asks /\ kernel' = kernel /\ want[p] \in Sector /\ b \notin busy /\ b \notin dirty
  BY <1>a DEF IInv, HoldInv
<1>1. TypeOK'
  BY <1>a, <1>b, BreadFacts, ZenonT(60) DEF IInv, TypeOK
<1>2. KernelInv'
  BY DEF IInv, TypeOK, KernelInv
<1>3. HoldInv'
  BY DiskAssumption DEF IInv, TypeOK, KernelInv, HoldInv, CacheInv
<1>4. CacheInv'
  BY DiskAssumption DEF IInv, TypeOK, HoldInv, CacheInv
<1>5. RefInv'
  BY DEF IInv, TypeOK, KernelInv, HoldInv, RefInv, Refs
<1>6. HeldInv'
  BY <1>a, <1>b, BreadHeld
<1>7. QueueInv'
  BY DEF IInv, TypeOK, QueueInv
<1>8. QueuedInv'
  BY DEF IInv, TypeOK, QueuedInv
<1>9. SleepInv'
  BY <1>a, <1>b DEF IInv, TypeOK, SleepInv
<1>10. DriveInv'
  BY <1>a, <1>b, HeadFacts, DriveFrame DEF IInv, TypeOK
<1>11. CleanInv'
  BY DEF IInv, TypeOK, CleanInv, Content
<1> QED BY <1>1, <1>2, <1>3, <1>4, <1>5, <1>6, <1>7, <1>8, <1>9, <1>10, <1>11 DEF IInv

LEMMA BwriteCallStep ==
  ASSUME IInv, NEW p \in Proc, NEW b \in hold[p], NEW v \in Value, BwriteCall(p, b, v)
  PROVE  IInv'
<1> USE DEF Place, Asks, Io, Goes, flagVars, cacheVars, driveVars, otherVars, BwriteCall
<1>1. TypeOK'
  BY DEF IInv, TypeOK
<1>2. KernelInv'
  BY DEF IInv, TypeOK, KernelInv
<1>3. HoldInv'
  BY DiskAssumption DEF IInv, TypeOK, KernelInv, HoldInv, CacheInv
<1>4. CacheInv'
  BY DiskAssumption DEF IInv, TypeOK, HoldInv, CacheInv
<1>5. RefInv'
  BY RefFrame DEF IInv, TypeOK, KernelInv, HoldInv, Refs
<1>6. HeldInv'
  BY HeldFrame DEF IInv, TypeOK, Kept
<1>7. QueueInv'
  BY DEF IInv, TypeOK, QueueInv
<1>8. QueuedInv'
  BY DEF IInv, TypeOK, QueuedInv
<1>9. SleepInv'
  BY DEF IInv, TypeOK, KernelInv, HoldInv, SleepInv
<1>10. DriveInv'
  <2>1. idequeue # <<>> => Head(idequeue) # b
    BY HeadFacts DEF IInv, HoldInv
  <2> QED BY <2>1, HeadFacts, DriveFrame DEF IInv, TypeOK
<1>11. CleanInv'
  BY DEF IInv, TypeOK, CleanInv, Content
<1> QED BY <1>1, <1>2, <1>3, <1>4, <1>5, <1>6, <1>7, <1>8, <1>9, <1>10, <1>11 DEF IInv

LEMMA BrelseStep ==
  ASSUME IInv, NEW p \in Proc, NEW b \in hold[p], Brelse(p, b)
  PROVE  IInv'
<1> USE DEF Place, Asks, Io, Goes, flagVars, cacheVars, driveVars, otherVars, Brelse
<1>a. b \in Buf /\ ToFront(b) /\ pc' = Woken(b, {"bsleep"}) /\ b \notin dirty
  BY DEF IInv, TypeOK, HoldInv
<1>b. \A q \in Proc : hold'[q] = (IF q = p THEN hold[q] \ {b} ELSE hold[q])
  BY DEF IInv, TypeOK
<1>1. TypeOK'
  BY <1>a, ToFrontFacts, WakesFacts DEF IInv, TypeOK
<1>2. KernelInv'
  BY DEF IInv, TypeOK, KernelInv, Woken, Wakes
<1>3. HoldInv'
  BY DiskAssumption DEF IInv, TypeOK, KernelInv, HoldInv, CacheInv, Woken, Wakes
<1>4. CacheInv'
  BY DiskAssumption DEF IInv, TypeOK, HoldInv, CacheInv
<1>5. RefInv'
  BY DEF IInv, TypeOK, KernelInv, HoldInv, RefInv, Refs
<1>6. HeldInv'
  <2>1. \A q \in Proc : Kept(q)' = hold'[q] /\ Kept(q) = hold[q]
    BY DEF Kept
  <2>2. Cardinality(Kept(p)') <= MaxHeld
    BY <1>b, <2>1, OneLess
  <2>3. pc'[p] = "user"
    BY <1>a, WakesFacts
  <2> QED BY <1>a, <1>b, <2>1, <2>2, <2>3, WakesFacts, HeldOthers
<1>7. QueueInv'
  BY DEF IInv, TypeOK, QueueInv, Woken, Wakes
<1>8. QueuedInv'
  <2>1. \A q \in Proc : pc[q] = "iosleep" => cur[q] # b
    BY DEF IInv, HoldInv
  <2> QED BY <2>1 DEF IInv, TypeOK, QueuedInv, Woken, Wakes
<1>9. SleepInv'
  BY DEF IInv, TypeOK, KernelInv, HoldInv, SleepInv, Woken, Wakes
<1>10. DriveInv'
  BY DEF IInv, TypeOK, DriveInv
<1>11. CleanInv'
  BY DEF IInv, TypeOK, CleanInv, Content
<1> QED BY <1>1, <1>2, <1>3, <1>4, <1>5, <1>6, <1>7, <1>8, <1>9, <1>10, <1>11 DEF IInv

LEMMA Bget4HitStep ==
  ASSUME IInv, NEW p \in Proc, Bget4Hit(p)
  PROVE  IInv'
<1> USE DEF Place, Asks, Io, Goes, flagVars, cacheVars, driveVars, otherVars, Bget4Hit, Ex4, Cached
<1>a. PICK b \in Buf : /\ sector[b] = want[p]
                       /\ refcnt' = [refcnt EXCEPT ![b] = @ + 1]
                       /\ cur' = [cur EXCEPT ![p] = b]
  OBVIOUS
<1>b. pc[p] \in Asks /\ want[p] \in Sector /\ b \notin hold[p] /\ pc'[p] = "lock"
  <2>1. pc[p] \in Asks /\ pc'[p] = "lock"
    BY DEF IInv, TypeOK
  <2>2. want[p] \in Sector /\ \A c \in hold[p] : sector[c] # want[p]
    BY <2>1 DEF IInv, HoldInv
  <2> QED BY <1>a, <2>1, <2>2
<1>1. TypeOK'
  BY <1>a DEF IInv, TypeOK
<1>2. KernelInv'
  BY DEF IInv, TypeOK, KernelInv
<1>3. HoldInv'
  BY DiskAssumption DEF IInv, TypeOK, KernelInv, HoldInv, CacheInv
<1>4. CacheInv'
  BY DiskAssumption DEF IInv, TypeOK, HoldInv, CacheInv
<1>5. RefInv'
  <2>1. Refs(b)' = Refs(b) \cup {p} /\ p \notin Refs(b)
    BY <1>a, <1>b DEF IInv, TypeOK, Refs
  <2>2. \A c \in Buf \ {b} : Refs(c)' = Refs(c)
    BY <1>a, <1>b DEF IInv, TypeOK, Refs
  <2>3. IsFiniteSet(Refs(b))
    BY FS_Subset, DiskAssumption DEF Refs
  <2>4. Cardinality(Refs(b)') = Cardinality(Refs(b)) + 1
    BY <2>1, <2>3, FS_AddElement
  <2> QED BY <1>a, <2>2, <2>4 DEF IInv, TypeOK, RefInv
<1>6. HeldInv'
  <2>1. Kept(p)' = hold[p] \cup {b} /\ hold' = hold
    BY <1>a, <1>b DEF IInv, TypeOK, Kept
  <2>2. \A q \in Proc \ {p} : Kept(q)' = Kept(q) /\ pc'[q] = pc[q]
    BY <1>a DEF IInv, TypeOK, Kept
  <2> QED BY <1>b, <2>1, <2>2, OneMore, HeldOthers
<1>7. QueueInv'
  BY DEF IInv, TypeOK, QueueInv
<1>8. QueuedInv'
  BY DEF IInv, TypeOK, QueuedInv
<1>9. SleepInv'
  BY DEF IInv, TypeOK, KernelInv, HoldInv, SleepInv
<1>10. DriveInv'
  BY DEF IInv, TypeOK, DriveInv
<1>11. CleanInv'
  BY DEF IInv, TypeOK, CleanInv, Content
<1> QED BY <1>1, <1>2, <1>3, <1>4, <1>5, <1>6, <1>7, <1>8, <1>9, <1>10, <1>11 DEF IInv

LEMMA Bget4RecycleStep ==
  ASSUME IInv, NEW p \in Proc, Bget4Recycle(p)
  PROVE  IInv'
<1> USE DEF Place, Asks, Io, Goes, flagVars, cacheVars, driveVars, otherVars, Bget4Recycle, Ex4, Cached, Recycle, Recycled, InUse
<1>a. PICK b \in Buf : /\ Recycled(b) /\ Recycle(b, want[p])
                       /\ refcnt' = [refcnt EXCEPT ![b] = 1]
                       /\ cur' = [cur EXCEPT ![p] = b]
  OBVIOUS
<1>b. pc[p] \in Asks /\ want[p] \in Sector /\ pc'[p] = "lock" /\ b \notin dirty /\ refcnt[b] = 0
  BY <1>a DEF IInv, TypeOK, HoldInv
<1>c. Refs(b) = {}
  <2>1. IsFiniteSet(Refs(b))
    BY FS_Subset, DiskAssumption DEF Refs
  <2> QED BY <1>b, <2>1, FS_EmptySet DEF IInv, RefInv
<1>d. b \notin busy
  BY <1>c DEF IInv, HoldInv, Refs
<1>e. \A q \in Proc : /\ b \notin hold[q]
                      /\ pc[q] \in {"lock", "bsleep", "brelse"} => cur[q] # b
  BY <1>c DEF Refs
<1>1. TypeOK'
  BY <1>a, <1>b DEF IInv, TypeOK
<1>2. KernelInv'
  BY DEF IInv, TypeOK, KernelInv
<1>3. HoldInv'
  <2>1. \A q \in Proc : \A c \in hold[q] : c \in Buf /\ c # b /\ sector'[c] = sector[c]
    <3>1. \A q \in Proc : \A c \in hold[q] : c \in Buf /\ c # b
      BY <1>e DEF IInv, TypeOK
    <3>2. \A c \in Buf \ {b} : sector'[c] = sector[c]
      BY <1>a DEF IInv, TypeOK
    <3> QED BY <3>1, <3>2
  <2>2. \A q \in Proc \ {p} : pc'[q] = pc[q] /\ cur'[q] = cur[q] /\ want'[q] = want[q]
    BY <1>a DEF IInv, TypeOK
  <2>3. pc'[p] = "lock" /\ cur'[p] = b /\ sector'[b] = want[p] /\ want' = want /\ hold' = hold
    BY <1>a, <1>b DEF IInv, TypeOK
  <2>4. dirty' = dirty /\ busy' = busy /\ valid' = valid \ {b} /\ kernel' = kernel
    BY <1>a, <1>b DEF IInv, TypeOK
  <2>5. \A c \in Buf \ {b} : sector'[c] = sector[c]
    BY <1>a DEF IInv, TypeOK
  <2>6. \A q \in Proc : \A c \in hold[q] :
           /\ sector'[c] # Nobody
           /\ c \in dirty' \/ c \notin valid' => cur'[q] = c /\ pc'[q] \in {"iderw", "iosleep"}
    BY <1>b, <2>1, <2>2, <2>4 DEF IInv, HoldInv
  <2>7. \A q \in Proc \ {p} :
           /\ pc'[q] \in Io => cur'[q] \in hold[q]
           /\ pc'[q] \in {"iderw", "iosleep"} => cur'[q] \in dirty' \/ cur'[q] \notin valid'
           /\ pc'[q] = "user" => cur'[q] = Nobody
           /\ pc'[q] \in {"bsleep", "lock", "brelse"} => cur'[q] \in Buf
           /\ pc'[q] \in Asks => want[q] \in Sector /\ \A c \in hold[q] : sector'[c] # want[q]
           /\ pc'[q] \in {"bsleep", "lock"} /\ kernel # "xv6" => sector'[cur'[q]] = want[q]
           /\ pc'[q] = "brelse" => cur'[q] \notin hold[q]
    BY <1>e, <2>1, <2>2, <2>4, <2>5 DEF IInv, HoldInv
  <2>8. \A c \in hold[p] : sector'[c] # want[p]
    BY <1>b, <2>1 DEF IInv, HoldInv
  <2> QED BY <1>b, <2>3, <2>4, <2>6, <2>7, <2>8 DEF IInv, HoldInv
<1>4. CacheInv'
  BY DiskAssumption DEF IInv, TypeOK, HoldInv, CacheInv
<1>5. RefInv'
  <2>1. Refs(b)' = {p}
    BY <1>a, <1>b, <1>c DEF IInv, TypeOK, Refs
  <2>2. \A c \in Buf \ {b} : Refs(c)' = Refs(c)
    BY <1>a, <1>b DEF IInv, TypeOK, Refs
  <2>3. Cardinality({p}) = 1
    BY FS_Singleton
  <2>4. refcnt'[b] = 1 /\ \A c \in Buf \ {b} : refcnt'[c] = refcnt[c]
    BY <1>a DEF IInv, TypeOK
  <2> QED BY <2>1, <2>2, <2>3, <2>4 DEF IInv, RefInv
<1>6. HeldInv'
  <2>1. Kept(p)' = hold[p] \cup {b} /\ hold' = hold
    BY <1>a, <1>b DEF IInv, TypeOK, Kept
  <2>2. \A q \in Proc \ {p} : Kept(q)' = Kept(q) /\ pc'[q] = pc[q]
    BY <1>a DEF IInv, TypeOK, Kept
  <2> QED BY <1>b, <2>1, <2>2, OneMore, HeldOthers
<1>7. QueueInv'
  BY DEF IInv, TypeOK, QueueInv
<1>8. QueuedInv'
  BY DEF IInv, TypeOK, QueuedInv
<1>9. SleepInv'
  BY DEF IInv, TypeOK, KernelInv, HoldInv, SleepInv
<1>10. DriveInv'
  BY <1>a, <1>b, <1>d, HeadFacts, DriveFrame DEF IInv, TypeOK
<1>11. CleanInv'
  BY DEF IInv, TypeOK, CleanInv, Content
<1> QED BY <1>1, <1>2, <1>3, <1>4, <1>5, <1>6, <1>7, <1>8, <1>9, <1>10, <1>11 DEF IInv

LEMMA AcquireSleepStep ==
  ASSUME IInv, NEW p \in Proc, AcquireSleep(p)
  PROVE  IInv'
<1> USE DEF Place, Asks, Io, Goes, flagVars, cacheVars, driveVars, otherVars, AcquireSleep, Ex4, Bread
<1>a. pc[p] \in Asks /\ kernel' = kernel /\ cur[p] \in Buf /\ want[p] \in Sector
  BY DEF IInv, HoldInv
<1>1. TypeOK'
  BY <1>a, BreadFacts DEF IInv, TypeOK
<1>2. KernelInv'
  BY DEF IInv, TypeOK, KernelInv
<1>3. HoldInv'
  BY DiskAssumption DEF IInv, TypeOK, KernelInv, HoldInv, CacheInv
<1>4. CacheInv'
  BY DiskAssumption DEF IInv, TypeOK, HoldInv, CacheInv
<1>5. RefInv'
  <2>1. \A c \in Buf, q \in Proc \ {p} : q \in Refs(c)' <=> q \in Refs(c)
    BY <1>a, BreadFacts DEF Refs
  <2>2. /\ hold'[p] = hold[p] \cup {cur[p]} /\ pc'[p] \in {"user", "iderw"}
        /\ pc[p] = "lock"
    BY <1>a, BreadFacts
  <2>3. \A c \in Buf : p \in Refs(c)' <=> p \in Refs(c)
    BY <2>2 DEF Refs
  <2> QED BY <1>a, <2>1, <2>3, RefFrame
<1>6. HeldInv'
  BY <1>a, BreadHeld
<1>7. QueueInv'
  BY DEF IInv, TypeOK, QueueInv
<1>8. QueuedInv'
  BY DEF IInv, TypeOK, QueuedInv
<1>9. SleepInv'
  BY <1>a, BreadFacts DEF IInv, TypeOK, SleepInv
<1>10. DriveInv'
  BY DEF IInv, TypeOK, DriveInv
<1>11. CleanInv'
  BY DEF IInv, TypeOK, CleanInv, Content
<1> QED BY <1>1, <1>2, <1>3, <1>4, <1>5, <1>6, <1>7, <1>8, <1>9, <1>10, <1>11 DEF IInv

LEMMA WaitSleepStep ==
  ASSUME IInv, NEW p \in Proc, WaitSleep(p)
  PROVE  IInv'
<1> USE DEF Place, Asks, Io, Goes, flagVars, cacheVars, driveVars, otherVars, WaitSleep, Ex4
<1>1. TypeOK'
  BY DEF IInv, TypeOK
<1>2. KernelInv'
  BY DEF IInv, TypeOK, KernelInv
<1>3. HoldInv'
  BY DiskAssumption DEF IInv, TypeOK, KernelInv, HoldInv, CacheInv
<1>4. CacheInv'
  BY DiskAssumption DEF IInv, TypeOK, HoldInv, CacheInv
<1>5. RefInv'
  BY DEF IInv, TypeOK, KernelInv, HoldInv, RefInv, Refs
<1>6. HeldInv'
  BY HeldFrame DEF IInv, TypeOK, Kept
<1>7. QueueInv'
  BY DEF IInv, TypeOK, QueueInv
<1>8. QueuedInv'
  BY DEF IInv, TypeOK, QueuedInv
<1>9. SleepInv'
  BY DEF IInv, TypeOK, KernelInv, HoldInv, SleepInv
<1>10. DriveInv'
  BY DEF IInv, TypeOK, DriveInv
<1>11. CleanInv'
  BY DEF IInv, TypeOK, CleanInv, Content
<1> QED BY <1>1, <1>2, <1>3, <1>4, <1>5, <1>6, <1>7, <1>8, <1>9, <1>10, <1>11 DEF IInv

LEMMA ReleaseSleepStep ==
  ASSUME IInv, NEW p \in Proc, NEW b \in hold[p], ReleaseSleep(p, b)
  PROVE  IInv'
<1> USE DEF Place, Asks, Io, Goes, flagVars, cacheVars, driveVars, otherVars, ReleaseSleep, Ex4
<1>a. b \in Buf /\ b \notin dirty /\ pc' = [Woken(b, {"bsleep"}) EXCEPT ![p] = "brelse"]
  BY DEF IInv, TypeOK, HoldInv
<1>b. \A q \in Proc : hold'[q] = (IF q = p THEN hold[q] \ {b} ELSE hold[q])
  BY DEF IInv, TypeOK
<1>c. pc'[p] = "brelse" /\ \A q \in Proc \ {p} : pc'[q] = Woken(b, {"bsleep"})[q]
  BY <1>a, WakesFacts
<1>1. TypeOK'
  BY <1>a, WakesFacts DEF IInv, TypeOK
<1>2. KernelInv'
  BY DEF IInv, TypeOK, KernelInv, Woken, Wakes
<1>3. HoldInv'
  BY DiskAssumption DEF IInv, TypeOK, KernelInv, HoldInv, CacheInv, Woken, Wakes
<1>4. CacheInv'
  BY DiskAssumption DEF IInv, TypeOK, HoldInv, CacheInv
<1>5. RefInv'
  <2>1. \A c \in Buf, q \in Proc \ {p} : q \in Refs(c)' <=> q \in Refs(c)
    BY <1>b, <1>c, WakesFacts DEF IInv, TypeOK, Refs
  <2>2. \A c \in Buf : p \in Refs(c)' <=> p \in Refs(c)
    BY <1>b, <1>c DEF IInv, TypeOK, Refs
  <2> QED BY <2>1, <2>2, RefFrame
<1>6. HeldInv'
  <2>1. Kept(p)' = hold[p] /\ Kept(p) = hold[p]
    BY <1>b, <1>c DEF IInv, TypeOK, Kept
  <2>2. \A q \in Proc \ {p} : Kept(q)' = Kept(q) /\ (pc'[q] \in Asks => pc[q] \in Asks)
    BY <1>b, <1>c DEF IInv, TypeOK, Kept, Woken, Wakes
  <2> QED BY <1>b, <1>c, <2>1, <2>2, HeldFacts, HeldOthers
<1>7. QueueInv'
  BY DEF IInv, TypeOK, QueueInv, Woken, Wakes
<1>8. QueuedInv'
  BY DEF IInv, TypeOK, QueuedInv, Woken, Wakes
<1>9. SleepInv'
  BY DEF IInv, TypeOK, KernelInv, HoldInv, SleepInv, Woken, Wakes
<1>10. DriveInv'
  BY DEF IInv, TypeOK, DriveInv
<1>11. CleanInv'
  BY DEF IInv, TypeOK, CleanInv, Content
<1> QED BY <1>1, <1>2, <1>3, <1>4, <1>5, <1>6, <1>7, <1>8, <1>9, <1>10, <1>11 DEF IInv

LEMMA UnreferenceStep ==
  ASSUME IInv, NEW p \in Proc, Unreference(p)
  PROVE  IInv'
<1> USE DEF Place, Asks, Io, Goes, flagVars, cacheVars, driveVars, otherVars, Unreference, Ex4
<1>z. PICK c \in Buf : c = cur[p]
  BY DEF IInv, HoldInv
<1>a. cur[p] \in Buf /\ cur[p] \notin hold[p] /\ p \in Refs(c)
  BY <1>z DEF IInv, HoldInv, Refs
<1>b. IsFiniteSet(Refs(c)) /\ Cardinality(Refs(c) \ {p}) = Cardinality(Refs(c)) - 1
  BY <1>z, <1>a, FS_Subset, FS_RemoveElement, DiskAssumption DEF Refs
<1>c. Cardinality(Refs(c) \ {p}) \in Nat
  BY <1>b, FS_Subset, FS_CardinalityType
<1>d. refcnt[cur[p]] = Cardinality(Refs(c))
  BY <1>z, <1>a DEF IInv, RefInv
<1>1. TypeOK'
  <2>1. refcnt' \in [Buf -> Nat]
    BY <1>z, <1>a, <1>b, <1>c, <1>d DEF IInv, TypeOK
  <2>2. mru' \in [1..Cardinality(Buf) -> Buf] /\ IsInjective(mru')
    BY <1>z, <1>a, ToFrontFacts DEF IInv, TypeOK
  <2> QED BY <2>1, <2>2 DEF IInv, TypeOK
<1>2. KernelInv'
  BY DEF IInv, TypeOK, KernelInv
<1>3. HoldInv'
  BY DiskAssumption DEF IInv, TypeOK, KernelInv, HoldInv, CacheInv
<1>4. CacheInv'
  BY DiskAssumption DEF IInv, TypeOK, HoldInv, CacheInv
<1>5. RefInv'
  <2>1. Refs(c)' = Refs(c) \ {p}
    BY <1>z, <1>a DEF IInv, TypeOK, Refs
  <2>2. \A d \in Buf \ {c} : Refs(d)' = Refs(d)
    BY <1>z, <1>a DEF IInv, TypeOK, Refs
  <2>3. refcnt'[c] = refcnt[c] - 1 /\ \A d \in Buf \ {c} : refcnt'[d] = refcnt[d]
    BY <1>z DEF IInv, TypeOK
  <2> QED BY <1>z, <1>b, <1>d, <2>1, <2>2, <2>3 DEF IInv, RefInv
<1>6. HeldInv'
  <2>1. Kept(p)' = hold[p]
    BY DEF IInv, TypeOK, Kept
  <2>2. \A q \in Proc \ {p} : Kept(q)' = Kept(q) /\ pc'[q] = pc[q]
    BY DEF IInv, TypeOK, Kept
  <2>3. Cardinality(hold[p]) <= MaxHeld /\ pc'[p] = "user"
    BY HeldFacts DEF IInv, TypeOK
  <2> QED BY <2>1, <2>2, <2>3, HeldOthers
<1>7. QueueInv'
  BY DEF IInv, TypeOK, QueueInv
<1>8. QueuedInv'
  BY DEF IInv, TypeOK, QueuedInv
<1>9. SleepInv'
  BY DEF IInv, TypeOK, KernelInv, HoldInv, SleepInv
<1>10. DriveInv'
  BY DEF IInv, TypeOK, DriveInv
<1>11. CleanInv'
  BY DEF IInv, TypeOK, CleanInv, Content
<1> QED BY <1>1, <1>2, <1>3, <1>4, <1>5, <1>6, <1>7, <1>8, <1>9, <1>10, <1>11 DEF IInv

LEMMA IderwStep ==
  ASSUME IInv, NEW p \in Proc, Iderw(p)
  PROVE  IInv'
<1> USE DEF Place, Asks, Io, Goes, flagVars, cacheVars, driveVars, otherVars, Iderw
<1>a. cur[p] \in hold[p] /\ cur[p] \in Buf /\ (cur[p] \in dirty \/ cur[p] \notin valid)
  BY DEF IInv, TypeOK, HoldInv
<1>b. cur[p] \notin ToSet(idequeue)
  BY <1>a DEF IInv, TypeOK, HoldInv, QueuedInv
<1>c. /\ idequeue' \in Seq(Buf) /\ IsInjective(idequeue') /\ idequeue' # <<>>
      /\ ToSet(idequeue') = ToSet(idequeue) \cup {cur[p]}
      /\ Head(idequeue') = IF idequeue = <<>> THEN cur[p] ELSE Head(idequeue)
  BY <1>a, <1>b, AppendFacts DEF IInv, TypeOK
<1>d. sector[cur[p]] \in Sector
  BY <1>a DEF IInv, TypeOK, HoldInv
<1>e. pc' \in [Proc -> Place] /\ pc'[p] = "iosleep" /\ \A q \in Proc \ {p} : pc'[q] = pc[q]
  BY DEF IInv, TypeOK
<1>1. TypeOK'
  <2>1. ctl' \in Command
    <3>1. CASE idequeue = <<>>
      <4>1. data[cur[p]] \in Value
        BY <1>a DEF IInv, TypeOK
      <4>2. ctl' = [op |-> IF cur[p] \in dirty THEN "write" ELSE "read",
                   sector |-> sector[cur[p]],
                   val |-> IF cur[p] \in dirty THEN data[cur[p]] ELSE Nobody,
                   running |-> TRUE, err |-> FALSE]
        BY <3>1 DEF IdeStart
      <4> QED BY <1>d, <4>1, <4>2 DEF Command
    <3>2. CASE idequeue # <<>>
      BY <3>2 DEF IInv, TypeOK
    <3> QED BY <3>1, <3>2
  <2> QED BY <1>c, <1>e, <2>1 DEF IInv, TypeOK
<1>2. KernelInv'
  BY DEF IInv, TypeOK, KernelInv
<1>3. HoldInv'
  BY DiskAssumption DEF IInv, TypeOK, KernelInv, HoldInv, CacheInv
<1>4. CacheInv'
  BY DiskAssumption DEF IInv, TypeOK, HoldInv, CacheInv
<1>5. RefInv'
  BY <1>e, RefFrame DEF IInv, TypeOK, Refs
<1>6. HeldInv'
  BY <1>e, HeldFrame DEF IInv, TypeOK, Kept
<1>7. QueueInv'
  BY <1>c, <1>e DEF IInv, QueueInv
<1>8. QueuedInv'
  BY <1>c, <1>e DEF IInv, QueuedInv
<1>9. SleepInv'
  BY DEF IInv, TypeOK, KernelInv, HoldInv, SleepInv
<1>10. DriveInv'
  <2>1. CASE idequeue = <<>>
    BY <1>a, <1>c, <1>d, <2>1 DEF IInv, TypeOK, IdeStart, DriveInv
  <2>2. CASE idequeue # <<>>
    BY <1>c, <2>2 DEF IInv, TypeOK, DriveInv
  <2> QED BY <2>1, <2>2
<1>11. CleanInv'
  <2>1. CASE idequeue # <<>>
    BY <2>1 DEF IInv, CleanInv, Content
  <2>2. CASE idequeue = <<>>
    <3>1. ~ctl.running /\ ctl'.sector = sector[cur[p]] /\ (cur[p] \notin dirty => ctl'.op = "read")
      BY <2>2 DEF IdeStart
    <3>2. \A b \in valid \ dirty : b # cur[p] /\ (ctl'.op = "write" => sector[b] # sector[cur[p]])
      BY <1>a, <1>d, <3>1 DEF IInv, TypeOK, CacheInv
    <3> QED BY <3>1, <3>2 DEF IInv, CleanInv, Content
  <2> QED BY <2>1, <2>2
<1> QED BY <1>1, <1>2, <1>3, <1>4, <1>5, <1>6, <1>7, <1>8, <1>9, <1>10, <1>11 DEF IInv

LEMMA IderwWokenStep ==
  ASSUME IInv, NEW p \in Proc, IderwWoken(p)
  PROVE  IInv'
<1> USE DEF Place, Asks, Io, Goes, flagVars, cacheVars, driveVars, otherVars, IderwWoken, Finished
<1>a. cur[p] \in hold[p] /\ cur[p] \in Buf /\ Finished(cur[p])
  BY DEF IInv, TypeOK, HoldInv
<1>b. /\ pc' = [pc EXCEPT ![p] = "user"] /\ cur' = [cur EXCEPT ![p] = Nobody]
      /\ UNCHANGED <<kernel, hold, refcnt>>
  BY <1>a
<1>c. /\ pc'[p] = "user" /\ cur'[p] = Nobody
      /\ \A q \in Proc \ {p} : pc'[q] = pc[q] /\ cur'[q] = cur[q]
  BY <1>b DEF IInv, TypeOK
<1>1. TypeOK'
  BY <1>b DEF IInv, TypeOK
<1>2. KernelInv'
  BY DEF IInv, TypeOK, KernelInv
<1>3. HoldInv'
  BY <1>a, <1>b, <1>c DEF IInv, TypeOK, KernelInv, HoldInv
<1>4. CacheInv'
  BY DiskAssumption DEF IInv, TypeOK, HoldInv, CacheInv
<1>5. RefInv'
  BY <1>b, <1>c, RefFrame DEF Refs
<1>6. HeldInv'
  BY <1>b, <1>c, HeldFrame DEF Kept
<1>7. QueueInv'
  BY <1>b, <1>c, QueueFrame
<1>8. QueuedInv'
  BY <1>b, <1>c, QueueFrame
<1>9. SleepInv'
  BY DEF IInv, TypeOK, KernelInv, HoldInv, SleepInv
<1>10. DriveInv'
  BY DEF IInv, TypeOK, DriveInv
<1>11. CleanInv'
  BY DEF IInv, TypeOK, CleanInv, Content
<1> QED BY <1>1, <1>2, <1>3, <1>4, <1>5, <1>6, <1>7, <1>8, <1>9, <1>10, <1>11 DEF IInv

LEMMA IderwMemStep ==
  ASSUME IInv, NEW p \in Proc, IderwMem(p)
  PROVE  IInv'
<1> USE DEF Place, Asks, Io, Goes, flagVars, cacheVars, driveVars, otherVars, IderwMem
<1>a. /\ cur[p] \in hold[p] /\ cur[p] \in Buf /\ sector[cur[p]] \in Sector
      /\ idequeue = <<>> /\ ~ctl.running
  BY DEF IInv, TypeOK, KernelInv, HoldInv
<1>b. \A b \in Buf \ {cur[p]} : sector[b] # sector[cur[p]]
  BY <1>a, DiskAssumption DEF IInv, CacheInv
<1>1. TypeOK'
  <2>1. platter' \in [Sector -> Value] /\ data' \in [Buf -> Value]
    BY <1>a DEF IInv, TypeOK
  <2>2. pc' \in [Proc -> Place] /\ cur' \in [Proc -> Buf \cup {Nobody}]
    BY DEF IInv, TypeOK
  <2> QED BY <1>a, <2>1, <2>2 DEF IInv, TypeOK
<1>2. KernelInv'
  BY DEF IInv, TypeOK, KernelInv
<1>3. HoldInv'
  BY DiskAssumption DEF IInv, TypeOK, KernelInv, HoldInv, CacheInv
<1>4. CacheInv'
  BY DiskAssumption DEF IInv, TypeOK, HoldInv, CacheInv
<1>5. RefInv'
  BY RefFrame DEF IInv, TypeOK, KernelInv, HoldInv, Refs
<1>6. HeldInv'
  BY HeldFrame DEF IInv, TypeOK, Kept
<1>7. QueueInv'
  BY DEF IInv, TypeOK, QueueInv
<1>8. QueuedInv'
  BY DEF IInv, TypeOK, QueuedInv
<1>9. SleepInv'
  BY DEF IInv, TypeOK, KernelInv, HoldInv, SleepInv
<1>10. DriveInv'
  BY <1>a DEF IInv, TypeOK, DriveInv
<1>11. CleanInv'
  <2>1. ~ctl.running /\ ctl' = ctl /\ errors' = errors /\ sector' = sector
    BY <1>a
  <2>2. CASE cur[p] \in dirty
    <3>1. platter' = [platter EXCEPT ![sector[cur[p]]] = data[cur[p]]] /\ data' = data
      BY <2>2
    <3>2. \A b \in valid \ dirty : platter'[sector[b]] = platter[sector[b]]
      BY <1>a, <1>b, <2>2, <3>1 DEF IInv, TypeOK, CacheInv
    <3>3. platter'[sector[cur[p]]] = data[cur[p]]
      BY <1>a, <3>1 DEF IInv, TypeOK
    <3> QED BY <2>1, <3>1, <3>2, <3>3 DEF IInv, CleanInv, Content
  <2>3. CASE cur[p] \notin dirty
    <3>1. data' = [data EXCEPT ![cur[p]] = platter[sector[cur[p]]]] /\ platter' = platter
      BY <2>3
    <3>2. \A b \in Buf : data'[b] = IF b = cur[p] THEN platter[sector[b]] ELSE data[b]
      BY <3>1 DEF IInv, TypeOK
    <3>3. valid' \ dirty' \subseteq (valid \ dirty) \cup {cur[p]} /\ valid \subseteq Buf
      BY DEF IInv, TypeOK
    <3> QED BY <1>a, <2>1, <3>1, <3>2, <3>3 DEF IInv, CleanInv, Content
  <2> QED BY <2>2, <2>3
<1> QED BY <1>1, <1>2, <1>3, <1>4, <1>5, <1>6, <1>7, <1>8, <1>9, <1>10, <1>11 DEF IInv

LEMMA IdeintrSpuriousStep ==
  ASSUME IInv, IdeintrSpurious
  PROVE  IInv'
<1> USE DEF Place, Asks, Io, Goes, flagVars, cacheVars, driveVars, otherVars, IdeintrSpurious
<1>1. TypeOK'
  BY DEF IInv, TypeOK
<1>2. KernelInv'
  BY DEF IInv, TypeOK, KernelInv
<1>3. HoldInv'
  BY DiskAssumption DEF IInv, TypeOK, KernelInv, HoldInv, CacheInv
<1>4. CacheInv'
  BY DiskAssumption DEF IInv, TypeOK, HoldInv, CacheInv
<1>5. RefInv'
  BY CallsFrame
<1>6. HeldInv'
  BY CallsFrame
<1>7. QueueInv'
  BY DEF IInv, TypeOK, QueueInv
<1>8. QueuedInv'
  BY DEF IInv, TypeOK, QueuedInv
<1>9. SleepInv'
  BY DEF IInv, TypeOK, KernelInv, HoldInv, SleepInv
<1>10. DriveInv'
  BY DEF IInv, TypeOK, DriveInv
<1>11. CleanInv'
  BY DEF IInv, TypeOK, CleanInv, Content
<1> QED BY <1>1, <1>2, <1>3, <1>4, <1>5, <1>6, <1>7, <1>8, <1>9, <1>10, <1>11 DEF IInv

LEMMA IdeintrStep ==
  ASSUME IInv, Ideintr
  PROVE  IInv'
<1> USE DEF Place, Asks, Io, Goes, flagVars, cacheVars, driveVars, otherVars, Ideintr
<1> DEFINE b == Head(idequeue)
<1>a. /\ b \in Buf /\ b \in busy /\ sector[b] \in Sector
      /\ b \in dirty \/ b \notin valid
      /\ \E p \in Proc : pc[p] = "iosleep" /\ cur[p] = b /\ b \in hold[p]
      /\ kernel # "mem"
  BY HeadFacts
<1>b. /\ idequeue' \in Seq(Buf) /\ IsInjective(idequeue') /\ b \notin ToSet(idequeue')
      /\ ToSet(idequeue) = ToSet(idequeue') \cup {b}
      /\ idequeue' # <<>> => Head(idequeue') \in ToSet(idequeue')
  BY TailFacts DEF IInv, TypeOK
<1>c. /\ pc' = Woken(b, {"iosleep"}) /\ valid' = valid \cup {b} /\ dirty' = dirty \ {b}
      /\ Fetch(b) /\ StartNext
  OBVIOUS
<1>d. /\ UNCHANGED <<kernel, sector, refcnt, mru, busy, platter, want, cur, hold, errors>>
      /\ \A q \in Proc : cur'[q] = cur[q]
  OBVIOUS
<1>e. /\ data' \in [Buf -> Value] /\ \A c \in Buf \ {b} : data'[c] = data[c]
      /\ b \in dirty => data' = data
      /\ b \notin dirty => ~ctl.running /\ (~ctl.err => data'[b] = ctl.val)
      /\ b \notin dirty /\ ~ctl.err => ctl.val = platter[sector[b]]
  <2>1. CASE b \in dirty
    BY <1>c, <2>1 DEF Fetch, IInv, TypeOK
  <2>2. CASE b \notin dirty
    <3>1. ~ctl.running /\ data' = IF ctl.err THEN data ELSE [data EXCEPT ![b] = ctl.val]
      BY <1>c, <2>2 DEF Fetch
    <3>2. ~ctl.err => ctl.val \in Value /\ ctl.val = platter[sector[b]]
      BY <2>2, <3>1 DEF IInv, DriveInv
    <3> QED BY <1>a, <2>2, <3>1, <3>2 DEF IInv, TypeOK
  <2> QED BY <2>1, <2>2
<1>f. ASSUME idequeue' # <<>>
      PROVE  LET c == Head(idequeue')
             IN  /\ c \in Buf /\ c # b /\ sector[c] \in Sector /\ sector[c] # sector[b]
                 /\ c \in dirty \/ c \notin valid
                 /\ ~ctl.running
                 /\ ctl' = [op |-> IF c \in dirty THEN "write" ELSE "read",
                            sector |-> sector[c],
                            val |-> IF c \in dirty THEN data[c] ELSE Nobody,
                            running |-> TRUE, err |-> FALSE]
  <2>1. /\ Head(idequeue') \in ToSet(idequeue) /\ Head(idequeue') # b
        /\ Head(idequeue') \in Buf
    BY <1>b, <1>f, QueueFacts DEF IInv, TypeOK
  <2>2. PICK p \in Proc : pc[p] = "iosleep" /\ cur[p] = Head(idequeue')
    BY <2>1 DEF IInv, QueuedInv
  <2>3. /\ sector[Head(idequeue')] \in Sector
        /\ Head(idequeue') \in dirty \/ Head(idequeue') \notin valid
    <3>1. cur[p] \in hold[p] /\ (cur[p] \in dirty \/ cur[p] \notin valid)
      BY <2>2 DEF IInv, HoldInv
    <3>2. sector[cur[p]] # Nobody
      BY <3>1 DEF IInv, HoldInv
    <3> QED BY <2>1, <2>2, <3>1, <3>2 DEF IInv, TypeOK
  <2>4. sector[Head(idequeue')] # sector[b]
    BY <1>a, <2>1, <2>3, DiskAssumption DEF IInv, CacheInv
  <2>5. IdeStart(Head(idequeue'))
    BY <1>c, <1>f DEF StartNext
  <2>6. /\ ~ctl.running
        /\ LET c == Head(idequeue')
           IN ctl' = [op |-> IF c \in dirty THEN "write" ELSE "read",
                            sector |-> sector[c],
                            val |-> IF c \in dirty THEN data[c] ELSE Nobody,
                            running |-> TRUE, err |-> FALSE]
    BY <2>5 DEF IdeStart
  <2> QED BY <2>1, <2>3, <2>4, <2>6
<1>g. idequeue' = <<>> => ctl' = ctl
  BY <1>c DEF StartNext
<1> HIDE DEF b
<1>1. TypeOK'
  <2>1. ctl' \in Command
    <3>1. CASE idequeue' = <<>>
      BY <1>g, <3>1 DEF IInv, TypeOK
    <3>2. CASE idequeue' # <<>>
      <4>1. PICK c \in Buf :
              /\ sector[c] \in Sector
              /\ ctl' = [op |-> IF c \in dirty THEN "write" ELSE "read",
                         sector |-> sector[c],
                         val |-> IF c \in dirty THEN data[c] ELSE Nobody,
                         running |-> TRUE, err |-> FALSE]
        BY <1>f, <3>2
      <4>2. data[c] \in Value
        BY DEF IInv, TypeOK
      <4> QED BY <4>1, <4>2 DEF Command
    <3> QED BY <3>1, <3>2
  <2>2. irq' \in Nat
    BY DEF IInv, TypeOK
  <2>3. pc' \in [Proc -> Place]
    BY <1>c, WakesFacts
  <2> QED BY <1>a, <1>b, <1>c, <1>d, <1>e, <2>1, <2>2, <2>3 DEF IInv, TypeOK
<1>2. KernelInv'
  BY <1>a, <1>c, <1>d DEF IInv, TypeOK, KernelInv, Woken, Wakes
<1>3. HoldInv'
  <2>1. \A q \in Proc : pc'[q] \in {"iderw", "iosleep"} => cur[q] # b
    BY <1>a, <1>c, WakesFacts DEF IInv, HoldInv
  <2>2. \A q \in Proc : \A c \in hold[q] :
           c \in dirty' \/ c \notin valid' => cur[q] = c /\ pc'[q] \in {"iderw", "iosleep"}
    BY <1>c, WakesFacts DEF IInv, HoldInv
  <2>3. \A q \in Proc :
           /\ pc'[q] \in Io => pc[q] \in Io
           /\ pc'[q] \in {"iderw", "iosleep"} => pc[q] \in {"iderw", "iosleep"}
           /\ pc'[q] \in Asks => pc[q] \in Asks
           /\ pc'[q] = "user" => pc[q] = "user"
           /\ pc'[q] = "brelse" => pc[q] = "brelse"
           /\ pc'[q] \in {"bsleep", "lock"} => pc[q] \in {"bsleep", "lock"}
    BY <1>c, WakesFacts
  <2> QED BY <1>c, <1>d, <2>1, <2>2, <2>3 DEF IInv, TypeOK, HoldInv, Woken, Wakes
<1>4. CacheInv'
  BY <1>a, <1>c, <1>d, DiskAssumption DEF IInv, CacheInv
<1>5. RefInv'
  BY <1>c, <1>d, WakesFacts, RefFrame DEF Refs
<1>6. HeldInv'
  BY <1>c, <1>d, WakesFacts, HeldFrame DEF Kept
<1>7. QueueInv'
  BY <1>b, <1>c, <1>d, WakesFacts DEF IInv, QueueInv
<1>8. QueuedInv'
  BY <1>b, <1>c, <1>d, WakesFacts DEF IInv, QueuedInv
<1>9. SleepInv'
  BY <1>c, <1>d, WakesFacts DEF IInv, SleepInv
<1>10. DriveInv'
  <2>1. CASE idequeue' = <<>>
    <3>1. ctl.running => ctl.op = "write"
      BY <1>e DEF IInv, DriveInv, b
    <3> QED BY <1>d, <1>g, <2>1, <3>1 DEF IInv, DriveInv
  <2>2. CASE idequeue' # <<>>
    <3> DEFINE c == Head(idequeue')
    <3>1. /\ c \in Buf /\ c # b /\ sector[c] \in Sector
          /\ ctl' = [op |-> IF c \in dirty THEN "write" ELSE "read",
                     sector |-> sector[c],
                     val |-> IF c \in dirty THEN data[c] ELSE Nobody,
                     running |-> TRUE, err |-> FALSE]
      BY <1>f, <2>2
    <3>2. data'[c] = data[c] /\ data[c] \in Value /\ (c \in dirty' <=> c \in dirty) /\ sector' = sector
      BY <1>c, <1>d, <1>e, <3>1 DEF IInv, TypeOK
    <3> HIDE DEF c
    <3> QED BY <2>2, <3>1, <3>2 DEF DriveInv, c
  <2> QED BY <2>1, <2>2
<1>11. CleanInv'
  <2> SUFFICES ASSUME errors = 0, NEW c \in valid' \ dirty' PROVE data'[c] = Content(sector[c])'
    BY <1>d DEF CleanInv, Content
  <2>1. ~ctl.err
    BY DEF IInv, DriveInv
  <2>2. c \in Buf /\ (c # b => c \in valid \ dirty /\ data'[c] = data[c])
    BY <1>a, <1>c, <1>e DEF IInv, TypeOK
  <2>3. data'[c] = Content(sector[c])
    <3>1. CASE c # b
      BY <2>2, <3>1 DEF IInv, CleanInv
    <3>2. CASE c = b /\ b \in dirty
      BY <1>e, <2>1, <3>2 DEF IInv, DriveInv, Content, b
    <3>3. CASE c = b /\ b \notin dirty
      BY <1>e, <2>1, <3>3 DEF Content
    <3> QED BY <3>1, <3>2, <3>3
  <2>4. Content(sector[c])' = Content(sector[c])
    <3>1. CASE idequeue' = <<>>
      BY <1>d, <1>g, <3>1 DEF Content
    <3>2. CASE idequeue' # <<>>
      <4>1. Head(idequeue') \in dirty => sector[c] # sector[Head(idequeue')]
        BY <1>a, <1>f, <2>2, <3>2, DiskAssumption DEF IInv, CacheInv
      <4> QED BY <1>d, <1>f, <3>2, <4>1 DEF Content
    <3> QED BY <3>1, <3>2
  <2> QED BY <2>3, <2>4
<1> QED BY <1>1, <1>2, <1>3, <1>4, <1>5, <1>6, <1>7, <1>8, <1>9, <1>10, <1>11 DEF IInv

LEMMA DriveDoneStep ==
  ASSUME IInv, DriveDone
  PROVE  IInv'
<1> USE DEF Place, Asks, Io, Goes, flagVars, cacheVars, driveVars, otherVars, DriveDone
<1>1. TypeOK'
  <2>1. ctl' \in Command
    BY DEF IInv, TypeOK, Command, DriveInv
  <2>2. platter' \in [Sector -> Value]
    BY DEF IInv, TypeOK, DriveInv
  <2> QED BY <2>1, <2>2 DEF IInv, TypeOK
<1>2. KernelInv'
  BY DEF IInv, TypeOK, KernelInv
<1>3. HoldInv'
  BY DiskAssumption DEF IInv, TypeOK, KernelInv, HoldInv, CacheInv
<1>4. CacheInv'
  BY DiskAssumption DEF IInv, TypeOK, HoldInv, CacheInv
<1>5. RefInv'
  BY CallsFrame
<1>6. HeldInv'
  BY CallsFrame
<1>7. QueueInv'
  BY DEF IInv, TypeOK, QueueInv
<1>8. QueuedInv'
  BY DEF IInv, TypeOK, QueuedInv
<1>9. SleepInv'
  BY DEF IInv, TypeOK, KernelInv, HoldInv, SleepInv
<1>10. DriveInv'
  BY DEF IInv, TypeOK, DriveInv
<1>11. CleanInv'
  <2>1. ctl \in Command /\ ctl'.running = FALSE /\ ctl.running
    BY DEF IInv, TypeOK, Command
  <2>2. \A s \in Sector : Content(s)' = Content(s)
    BY <2>1 DEF Content, IInv, TypeOK, DriveInv
  <2>3. \A b \in valid : sector[b] \in Sector
    BY DEF IInv, TypeOK, CacheInv
  <2> QED BY <2>2, <2>3 DEF IInv, CleanInv
<1> QED BY <1>1, <1>2, <1>3, <1>4, <1>5, <1>6, <1>7, <1>8, <1>9, <1>10, <1>11 DEF IInv

LEMMA DriveFailsStep ==
  ASSUME IInv, DriveFails
  PROVE  IInv'
<1> USE DEF Place, Asks, Io, Goes, flagVars, cacheVars, driveVars, otherVars, DriveFails
<1>1. TypeOK'
  <2>1. ctl' \in Command
    BY DEF IInv, TypeOK, Command
  <2> QED BY <2>1, DiskAssumption DEF IInv, TypeOK
<1>2. KernelInv'
  BY DEF IInv, TypeOK, KernelInv
<1>3. HoldInv'
  BY DiskAssumption DEF IInv, TypeOK, KernelInv, HoldInv, CacheInv
<1>4. CacheInv'
  BY DiskAssumption DEF IInv, TypeOK, HoldInv, CacheInv
<1>5. RefInv'
  BY CallsFrame
<1>6. HeldInv'
  BY CallsFrame
<1>7. QueueInv'
  BY DEF IInv, TypeOK, QueueInv
<1>8. QueuedInv'
  BY DEF IInv, TypeOK, QueuedInv
<1>9. SleepInv'
  BY DEF IInv, TypeOK, KernelInv, HoldInv, SleepInv
<1>10. DriveInv'
  BY DEF IInv, TypeOK, DriveInv
<1>11. CleanInv'
  BY DEF IInv, TypeOK, CleanInv, Content
<1> QED BY <1>1, <1>2, <1>3, <1>4, <1>5, <1>6, <1>7, <1>8, <1>9, <1>10, <1>11 DEF IInv

LEMMA DriveSpuriousStep ==
  ASSUME IInv, DriveSpurious
  PROVE  IInv'
<1> USE DEF Place, Asks, Io, Goes, flagVars, cacheVars, driveVars, otherVars, DriveSpurious
<1>1. TypeOK'
  BY DEF IInv, TypeOK
<1>2. KernelInv'
  BY DEF IInv, TypeOK, KernelInv
<1>3. HoldInv'
  BY DiskAssumption DEF IInv, TypeOK, KernelInv, HoldInv, CacheInv
<1>4. CacheInv'
  BY DiskAssumption DEF IInv, TypeOK, HoldInv, CacheInv
<1>5. RefInv'
  BY CallsFrame
<1>6. HeldInv'
  BY CallsFrame
<1>7. QueueInv'
  BY DEF IInv, TypeOK, QueueInv
<1>8. QueuedInv'
  BY DEF IInv, TypeOK, QueuedInv
<1>9. SleepInv'
  BY DEF IInv, TypeOK, KernelInv, HoldInv, SleepInv
<1>10. DriveInv'
  BY DEF IInv, TypeOK, DriveInv
<1>11. CleanInv'
  BY DEF IInv, TypeOK, CleanInv, Content
<1> QED BY <1>1, <1>2, <1>3, <1>4, <1>5, <1>6, <1>7, <1>8, <1>9, <1>10, <1>11 DEF IInv

-----------------------------------------------------------------------------
(* IInv is invariant.                                                       *)

LEMMA Initially == Init => IInv
<1> SUFFICES ASSUME Init PROVE IInv
  OBVIOUS
<1> USE DEF Init
<1>1. mru \in [1..Cardinality(Buf) -> Buf] /\ IsInjective(mru)
  <2>1. \E f \in [1..Cardinality(Buf) -> Buf] : IsInjective(f)
    BY FS_CardinalityType, DiskAssumption
       DEF ExistsBijection, Bijection, Injection, IsInjective
  <2> QED BY <2>1 DEF SetToSeq
<1>2. (CHOOSE v \in Value : TRUE) \in Value
  BY DiskAssumption
<1>3. idequeue \in Seq(Buf) /\ IsInjective(idequeue) /\ ToSet(idequeue) = {}
  BY DEF IsInjective, ToSet
<1>4. TypeOK
  BY <1>1, <1>2, <1>3, DiskAssumption DEF TypeOK, Command, Place
<1>5. KernelInv /\ QueueInv /\ SleepInv /\ DriveInv /\ CleanInv /\ CacheInv
  BY DEF KernelInv, QueueInv, SleepInv, DriveInv, CleanInv, CacheInv
<1>6. HoldInv
  BY DEF HoldInv, Io, Asks
<1>7. QueuedInv
  BY <1>3 DEF QueuedInv
<1>8. RefInv
  <2>1. \A b \in Buf : Refs(b) = {}
    BY DEF Refs
  <2> QED BY <2>1, FS_EmptySet DEF RefInv
<1>9. HeldInv
  <2>1. \A p \in Proc : Kept(p) = {} /\ hold[p] = {}
    BY DEF Kept
  <2>2. Cardinality({}) = 0 /\ MaxHeld \in Nat /\ 0 < MaxHeld
    BY FS_EmptySet, DiskAssumption
  <2>3. \A p \in Proc : pc[p] \notin Asks
    BY DEF Asks
  <2> HIDE DEF Init
  <2>4. \A p \in Proc : Cardinality(Kept(p)) = 0
    BY <2>1, <2>2, Zenon
  <2>5. \A p \in Proc : Cardinality(Kept(p)) <= MaxHeld
    BY <2>2, <2>4
  <2> QED BY <2>3, <2>5, Zenon DEF HeldInv
<1> QED BY <1>4, <1>5, <1>6, <1>7, <1>8, <1>9 DEF IInv

LEMMA Unchanged ==
  ASSUME IInv, UNCHANGED vars
  PROVE  IInv'
<1> USE DEF vars, flagVars, cacheVars, driveVars, otherVars
<1>1. TypeOK' /\ KernelInv' /\ HoldInv' /\ CacheInv'
  BY DEF IInv, TypeOK, KernelInv, HoldInv, CacheInv
<1>2. RefInv' /\ HeldInv'
  BY CallsFrame
<1>3. QueueInv' /\ QueuedInv' /\ SleepInv'
  BY DEF IInv, QueueInv, QueuedInv, SleepInv
<1>4. DriveInv' /\ CleanInv'
  BY DriveFrame, CleanFrame
<1> QED BY <1>1, <1>2, <1>3, <1>4 DEF IInv

LEMMA Preserved == IInv /\ [Next]_vars => IInv'
<1> SUFFICES ASSUME IInv, [Next]_vars PROVE IInv'
  OBVIOUS
<1>1. CASE UNCHANGED vars
  BY <1>1, Unchanged
<1>2. CASE \E p \in Proc : Client(p)
  BY <1>2, BreadCallStep, BwriteCallStep, BrelseStep, ReleaseSleepStep DEF Client
<1>3. CASE \E p \in Proc : Bget(p)
  BY <1>3, BgetHitStep, BgetBusyStep, BgetRecycleStep, Bget4HitStep, Bget4RecycleStep,
     AcquireSleepStep, WaitSleepStep DEF Bget
<1>4. CASE \E p \in Proc : Unreference(p) \/ Iderw(p) \/ IderwWoken(p) \/ IderwMem(p)
  BY <1>4, UnreferenceStep, IderwStep, IderwWokenStep, IderwMemStep
<1>5. CASE Ideintr \/ IdeintrSpurious
  BY <1>5, IdeintrStep, IdeintrSpuriousStep
<1>6. CASE DriveDone \/ DriveFails \/ DriveSpurious
  BY <1>6, DriveDoneStep, DriveFailsStep, DriveSpuriousStep
<1> QED BY <1>1, <1>2, <1>3, <1>4, <1>5, <1>6 DEF Next

\* The inductive invariant of the caches, the queue and the drive.
THEOREM Invariance == Spec => []IInv
BY Initially, Preserved, PTL DEF Spec

\* Every variable of bio.c, sleeplock.c and ide.c keeps its type: the list and
\* the queue never hold a buffer twice.
THEOREM TypeCorrect == Spec => []TypeOK
<1>1. IInv => TypeOK
  BY DEF IInv
<1> QED BY <1>1, Invariance, PTL

-----------------------------------------------------------------------------
(* bget() does not run out of buffers while the processes leave it some.    *)

\* Every buffer is in the list.
LEMMA AllListed ==
  ASSUME IInv
  PROVE  \A b \in Buf : \E n \in DOMAIN mru : mru[n] = b
<1> DEFINE N == Cardinality(Buf)
<1>1. N \in Nat /\ mru \in Injection(1..N, Buf)
  BY FS_CardinalityType, DiskAssumption DEF IInv, TypeOK, Injection, IsInjective
<1>2. IsFiniteSet(1..N) /\ Cardinality(1..N) = N
  BY <1>1, FS_Interval
<1>3. mru \in Surjection(1..N, Buf)
  BY <1>1, <1>2, FS_Injection, DiskAssumption
<1> QED BY <1>3 DEF Surjection

\* A buffer that is in use is kept by some process.
LEMMA InUseKept ==
  ASSUME IInv, NEW b \in Buf, InUse(b)
  PROVE  \E q \in Proc : b \in Kept(q)
<1>1. CASE b \in busy
  BY <1>1 DEF IInv, HoldInv, Kept
<1>2. CASE b \in dirty
  BY <1>2 DEF IInv, HoldInv, Kept
<1>3. CASE kernel # "xv6" /\ refcnt[b] > 0
  <2>1. Refs(b) # {}
    BY <1>3, FS_EmptySet DEF IInv, RefInv
  <2> QED BY <1>3, <2>1 DEF Refs, Kept
<1> QED BY <1>1, <1>2, <1>3 DEF InUse

\* What a process keeps can be numbered.
LEMMA Numbered ==
  ASSUME IInv, NEW q \in Proc
  PROVE  \E f \in [Kept(q) -> 1..Cardinality(Kept(q))] : IsInjective(f)
<1>1. IsFiniteSet(Kept(q))
  BY HeldFacts
<1>2. ExistsBijection(Kept(q), 1..Cardinality(Kept(q)))
  BY <1>1, FS_CardinalityType, Fun_ExistsBijSymmetric
<1> QED BY <1>2 DEF ExistsBijection, Bijection, Injection, IsInjective

LEMMA NoPanic ==
  ASSUME IInv, Cardinality(Proc) * MaxHeld <= Cardinality(Buf), NEW p \in Proc
  PROVE  ~BgetPanics(p)
<1> SUFFICES ASSUME BgetPanics(p) PROVE FALSE
  OBVIOUS
<1> DEFINE Owner(b) == CHOOSE q \in Proc : b \in Kept(q)
           number == [q \in Proc |-> CHOOSE f \in [Kept(q) -> 1..Cardinality(Kept(q))] :
                                         IsInjective(f)]
           slots == Proc \X (1..MaxHeld)
           slot == [b \in Buf |-> <<Owner(b), number[Owner(b)][b]>>]
<1>1. \A b \in Buf : Owner(b) \in Proc /\ b \in Kept(Owner(b))
  BY AllListed, InUseKept DEF BgetPanics
<1>2. \A q \in Proc : /\ number[q] \in [Kept(q) -> 1..Cardinality(Kept(q))]
                      /\ IsInjective(number[q])
  BY Numbered
<1>3. \A q \in Proc : /\ Cardinality(Kept(q)) \in Nat /\ MaxHeld \in Nat \ {0}
                      /\ Cardinality(Kept(q)) <= MaxHeld
  BY HeldFacts, DiskAssumption
<1>4. Cardinality(Kept(p)) < MaxHeld
  BY DEF BgetPanics, IInv, HeldInv, Kept, Asks
<1> HIDE DEF Owner, number
<1>5. \A b \in Buf : /\ number[Owner(b)][b] \in 1..MaxHeld
                     /\ Owner(b) = p => number[Owner(b)][b] # MaxHeld
  <2> TAKE b \in Buf
  <2>1. number[Owner(b)][b] \in 1..Cardinality(Kept(Owner(b)))
    BY <1>1, <1>2
  <2> QED BY <1>1, <1>3, <1>4, <2>1
<1>6. slot \in [Buf -> slots]
  BY <1>1, <1>5
<1>7. IsInjective(slot)
  <2> SUFFICES ASSUME NEW b \in Buf, NEW c \in Buf, slot[b] = slot[c] PROVE b = c
    BY DEF IsInjective
  <2>1. Owner(b) = Owner(c) /\ number[Owner(b)][b] = number[Owner(b)][c]
    OBVIOUS
  <2> QED BY <1>1, <1>2, <2>1 DEF IsInjective
<1>8. slot \in Injection(Buf, slots)
  BY <1>6, <1>7 DEF Injection, IsInjective
<1>9. /\ IsFiniteSet(slots)
      /\ Cardinality(slots) = Cardinality(Proc) * MaxHeld
  <2>1. IsFiniteSet(1..MaxHeld) /\ Cardinality(1..MaxHeld) = MaxHeld
    BY FS_Interval, DiskAssumption
  <2> QED BY <2>1, FS_Product, DiskAssumption, Zenon
<1>10. Cardinality(Buf) = Cardinality(slots)
  <2>1. Cardinality(Buf) <= Cardinality(slots)
    BY <1>8, <1>9, FS_Injection
  <2>2. Cardinality(slots) <= Cardinality(Buf)
    BY <1>9
  <2>3. Cardinality(Buf) \in Nat /\ Cardinality(slots) \in Nat
    BY <1>9, FS_CardinalityType, DiskAssumption
  <2> QED BY <2>1, <2>2, <2>3
<1>11. slot \in Surjection(Buf, slots)
  BY <1>8, <1>9, <1>10, FS_Injection
<1>12. PICK b \in Buf : slot[b] = <<p, MaxHeld>>
  <2>1. <<p, MaxHeld>> \in slots
    BY DiskAssumption
  <2> QED BY <1>11, <2>1 DEF Surjection
<1> QED BY <1>5, <1>12

\* No sector is ever in two buffers and no buffer in the hands of two
\* processes, and bget() never panics while Cardinality(Proc) * MaxHeld
\* buffers are there.
THEOREM OneBuffer == Spec => []OneCopy
<1>1. IInv => OneCopy
  BY NoPanic DEF IInv, HoldInv, CacheInv, OneCopy
<1> QED BY <1>1, Invariance, PTL

\* Nobody sleeps for a buffer that is free or for a transfer that is not in
\* the queue: wakeup() is never too early in brelse(), releasesleep() or
\* ideintr().
THEOREM WakesInTime == Spec => []NoLostWakeup
<1>1. IInv => NoLostWakeup
  BY DEF IInv, QueueInv, SleepInv, NoLostWakeup
<1> QED BY <1>1, Invariance, PTL

-----------------------------------------------------------------------------
(* The caches over the driver implement BlockStore.                         *)

Lent(p, b, s) == b \in hold[p] /\ b \in valid /\ sector[b] = s

LEMMA LeaseFacts ==
  IInv => \A s \in Sector :
      /\ \A p \in Proc, b \in Buf :
             Lent(p, b, s) => LeaseOf(s) = Store!Lease(p, data[b], b \in dirty)
      /\ (\A p \in Proc, b \in Buf : ~Lent(p, b, s)) => LeaseOf(s) = Store!Free
<1> SUFFICES ASSUME IInv, NEW s \in Sector
             PROVE  /\ \A p \in Proc, b \in Buf :
                           Lent(p, b, s) => LeaseOf(s) = Store!Lease(p, data[b], b \in dirty)
                    /\ (\A p \in Proc, b \in Buf : ~Lent(p, b, s)) => LeaseOf(s) = Store!Free
  OBVIOUS
<1>1. s # Nobody
  BY DiskAssumption
<1>2. ASSUME NEW p \in Proc, NEW b \in Buf, Lent(p, b, s)
      PROVE  LeaseOf(s) = Store!Lease(p, data[b], b \in dirty)
  <2>1. \A c \in Cached(s) : c = b
    BY <1>1, <1>2 DEF IInv, CacheInv, Cached, Lent
  <2>2. b \in Cached(s) /\ b \in hold[p] /\ b \in valid
    BY <1>2 DEF Cached, Lent
  <2>3. \A q \in Proc : hold[q] \cap Cached(s) # {} <=> q = p
    BY <2>1, <2>2 DEF IInv, HoldInv
  <2>4. (CHOOSE q \in Proc : hold[q] \cap Cached(s) # {}) = p
    BY <2>3
  <2>5. \A c \in hold[p] : sector[c] = s <=> c = b
    BY <2>1, <2>2 DEF Cached, IInv, TypeOK
  <2>6. (CHOOSE c \in hold[p] : sector[c] = s) = b
    BY <2>2, <2>5
  <2> QED BY <2>2, <2>4, <2>6 DEF LeaseOf, Store!Lease
<1>3. ASSUME \A p \in Proc, b \in Buf : ~Lent(p, b, s)
      PROVE  LeaseOf(s) = Store!Free
  <2>1. ASSUME NEW p \in Proc, NEW b \in Cached(s), b \in hold[p],
               pc[p] = "user" \/ cur[p] # b \/ b \in valid
        PROVE  FALSE
    <3>1. b \in valid
      BY <2>1 DEF IInv, HoldInv
    <3> QED BY <1>3, <2>1, <3>1 DEF Cached, Lent
  <2> QED BY <2>1 DEF LeaseOf, Store!Free, Store!Lease
<1> QED BY <1>2, <1>3

LEMMA CommitMove ==
  ASSUME NEW p, NEW v, NEW c, NEW l, l = Store!Lease(p, v, TRUE)
  PROVE  Store!Commit(l, c, l, v)
<1>1. l.writing /\ l.sees = v
  BY Zenon DEF Store!Lease
<1> QED BY <1>1 DEF Store!Commit

LEMMA GivenMove ==
  ASSUME NEW p, NEW v, NEW c
  PROVE  Store!GivenAtOnce(Store!Lease(p, v, TRUE), c, Store!Lease(p, v, FALSE), v)
<1>1. Store!Lease(p, v, TRUE).writing /\ Store!Lease(p, v, TRUE).sees = v
  BY Zenon DEF Store!Lease
<1>2. Store!Lease(p, v, FALSE) = [Store!Lease(p, v, TRUE) EXCEPT !.writing = FALSE]
  <2>1. \A w, x : Store!Lease(p, v, x) = [Store!Lease(p, v, w) EXCEPT !.writing = x]
    BY DEF Store!Lease
  <2> QED BY <2>1, Zenon
<1> QED BY <1>1, <1>2, Zenon DEF Store!GivenAtOnce

LEMMA LeaseFactsNext ==
  IInv' => \A s \in Sector :
      /\ \A p \in Proc, b \in Buf :
             Lent(p, b, s)' => LeaseOf(s)' = Store!Lease(p, data'[b], b \in dirty')
      /\ (\A p \in Proc, b \in Buf : ~Lent(p, b, s)') => LeaseOf(s)' = Store!Free
<1>1. (IInv => \A s \in Sector :
          /\ \A p \in Proc, b \in Buf :
                 Lent(p, b, s) => LeaseOf(s) = Store!Lease(p, data[b], b \in dirty)
          /\ (\A p \in Proc, b \in Buf : ~Lent(p, b, s)) => LeaseOf(s) = Store!Free)'
  BY LeaseFacts, PTL
<1> QED BY <1>1 DEF Store!Lease, Store!Free

\* A sector is lent to one process, in one buffer.
LEMMA OneLease ==
  ASSUME IInv, NEW s \in Sector, NEW p \in Proc, NEW b \in Buf, b \in hold[p], sector[b] = s
  PROVE  \A q \in Proc, c \in Buf : Lent(q, c, s) => q = p /\ c = b
BY DiskAssumption DEF IInv, HoldInv, CacheInv, Lent

LEMMA SameLease ==
  ASSUME IInv, IInv', NEW s \in Sector,
         \A p \in Proc, b \in Buf :
             /\ Lent(p, b, s)' <=> Lent(p, b, s)
             /\ Lent(p, b, s) => data'[b] = data[b] /\ (b \in dirty' <=> b \in dirty)
  PROVE  LeaseOf(s)' = LeaseOf(s)
<1>1. CASE \E p \in Proc, b \in Buf : Lent(p, b, s)
  <2>1. PICK p \in Proc, b \in Buf : Lent(p, b, s)
    BY <1>1
  <2>2. LeaseOf(s) = Store!Lease(p, data[b], b \in dirty)
    BY <2>1, LeaseFacts
  <2>3. LeaseOf(s)' = Store!Lease(p, data'[b], b \in dirty')
    BY <2>1, LeaseFactsNext
  <2>4. data'[b] = data[b] /\ (b \in dirty') = (b \in dirty)
    BY <2>1
  <2> QED BY <2>2, <2>3, <2>4
<1>2. CASE \A p \in Proc, b \in Buf : ~Lent(p, b, s)
  BY <1>2, LeaseFacts, LeaseFactsNext
<1> QED BY <1>1, <1>2

Stays(s) == LeaseOf(s)' = LeaseOf(s) /\ Content(s)' = Content(s)

\* What a step does to one sector.
SectorStep(s) ==
    Stays(s) \/ Store!Moves(LeaseOf(s), Content(s), LeaseOf(s)', Content(s)')

\* A step that changes no buffer that is lent, and not the drive.
LEMMA QuietStep ==
  ASSUME IInv, IInv', UNCHANGED <<ctl, platter>>, NEW s \in Sector,
         \A p \in Proc, b \in Buf :
             /\ b \in hold'[p] /\ b \in valid' <=> b \in hold[p] /\ b \in valid
             /\ b \in hold[p] /\ b \in valid =>
                    /\ sector'[b] = sector[b] /\ data'[b] = data[b]
                    /\ b \in dirty' <=> b \in dirty
  PROVE  SectorStep(s)
<1>1. LeaseOf(s)' = LeaseOf(s)
  BY SameLease DEF Lent
<1>2. Content(s)' = Content(s)
  BY DEF Content
<1> QED BY <1>1, <1>2 DEF SectorStep, Stays

LEMMA QuietSteps ==
  ASSUME IInv, IInv', NEW p \in Proc, NEW s \in Sector,
         \/ \E t \in Sector : BreadCall(p, t)
         \/ BgetBusy(p) \/ Bget4Hit(p) \/ WaitSleep(p) \/ Unreference(p)
         \/ IderwWoken(p) \/ IdeintrSpurious \/ DriveSpurious
  PROVE  SectorStep(s)
<1>1. UNCHANGED <<ctl, platter, hold, valid, sector, data, dirty>>
  BY DEF BreadCall, BgetBusy, Bget4Hit, WaitSleep, Unreference, IderwWoken,
         IdeintrSpurious, DriveSpurious, flagVars, cacheVars, driveVars
<1> QED BY <1>1, QuietStep

\* A buffer that is recycled is not lent before and not after.
LEMMA RecycleStores ==
  ASSUME IInv, IInv', NEW p \in Proc, NEW s \in Sector,
         BgetRecycle(p) \/ Bget4Recycle(p)
  PROVE  SectorStep(s)
<1>1. CASE BgetRecycle(p)
  <2>1. PICK b \in Buf : Recycled(b) /\ Recycle(b, want[p]) /\ Bread(p, b)
    BY <1>1 DEF BgetRecycle
  <2>2. b \notin busy /\ UNCHANGED <<ctl, platter, data>>
    BY <1>1, <2>1 DEF Recycled, InUse, BgetRecycle, driveVars
  <2>3. \A q \in Proc : b \notin hold[q]
    BY <2>2 DEF IInv, HoldInv
  <2>4. /\ valid' = valid \ {b} /\ dirty' = dirty \ {b}
        /\ \A c \in Buf \ {b} : sector'[c] = sector[c]
    BY <2>1 DEF Recycle, IInv, TypeOK
  <2>5. \A q \in Proc, c \in Buf \ {b} : c \in hold'[q] <=> c \in hold[q]
    BY <2>1 DEF Bread, IInv, TypeOK
  <2> QED BY <2>2, <2>3, <2>4, <2>5, QuietStep
<1>2. CASE Bget4Recycle(p)
  <2>1. PICK b \in Buf : Recycled(b) /\ Recycle(b, want[p])
    BY <1>2 DEF Bget4Recycle
  <2>2. kernel # "xv6" /\ refcnt[b] \in Nat /\ ~(refcnt[b] > 0) /\ UNCHANGED <<ctl, platter, data, hold>>
    BY <1>2, <2>1 DEF Recycled, InUse, Bget4Recycle, Ex4, driveVars, IInv, TypeOK
  <2>3. \A q \in Proc : b \notin hold[q]
    <3>1. IsFiniteSet(Refs(b))
      BY FS_Subset, DiskAssumption DEF Refs
    <3>2. refcnt[b] = Cardinality(Refs(b)) /\ refcnt[b] = 0
      BY <2>2 DEF IInv, RefInv
    <3>3. Refs(b) = {}
      BY <3>1, <3>2, FS_EmptySet
    <3> QED BY <3>3 DEF Refs
  <2>4. /\ valid' = valid \ {b} /\ dirty' = dirty \ {b}
        /\ \A c \in Buf \ {b} : sector'[c] = sector[c]
    BY <2>1 DEF Recycle, IInv, TypeOK
  <2> QED BY <2>2, <2>3, <2>4, QuietStep
<1> QED BY <1>1, <1>2

\* A buffer that is clean has what its sector has.
LEMMA CleanFacts ==
  ASSUME IInv, errors = 0, NEW b \in valid, b \notin dirty
  PROVE  data[b] = Content(sector[b])
BY DEF IInv, CleanInv

LEMMA BreadStores ==
  ASSUME IInv, IInv', errors = 0, NEW p \in Proc, NEW s \in Sector,
         BgetHit(p) \/ AcquireSleep(p)
  PROVE  SectorStep(s)
<1>1. PICK b \in Buf : /\ Bread(p, b) /\ b \notin busy
                       /\ UNCHANGED <<valid, dirty, sector, data, ctl, platter>>
  <2>1. pc[p] = "lock" => cur[p] \in Buf
    BY DEF IInv, HoldInv
  <2> QED BY <2>1 DEF BgetHit, AcquireSleep, Ex4, Cached, cacheVars, driveVars
<1>2. b \notin dirty /\ \A q \in Proc : b \notin hold[q]
  BY <1>1 DEF IInv, HoldInv
<1>3. /\ b \in hold'[p]
      /\ \A q \in Proc, c \in Buf : q # p \/ c # b => (c \in hold'[q] <=> c \in hold[q])
  BY <1>1 DEF Bread, IInv, TypeOK
<1>4. CASE b \notin valid
  BY <1>1, <1>3, <1>4, QuietStep
<1>5. CASE b \in valid /\ sector[b] # s
  <2>1. Content(s)' = Content(s)
    BY <1>1 DEF Content
  <2>2. LeaseOf(s)' = LeaseOf(s)
    BY <1>1, <1>2, <1>3, <1>5, SameLease DEF Lent
  <2> QED BY <2>1, <2>2 DEF SectorStep, Stays
<1>6. CASE b \in valid /\ sector[b] = s
  <2>1. Content(s)' = Content(s) /\ data[b] = Content(s)
    BY <1>1, <1>2, <1>6, CleanFacts DEF Content
  <2>2. \A q \in Proc, c \in Buf : ~Lent(q, c, s)
    BY <1>2, <1>6, DiskAssumption DEF Lent, IInv, CacheInv
  <2>3. LeaseOf(s) = Store!Free
    BY <2>2, LeaseFacts
  <2>4. Lent(p, b, s)'
    BY <1>1, <1>3, <1>6 DEF Lent
  <2>5. LeaseOf(s)' = Store!Lease(p, data'[b], b \in dirty')
    BY <2>4, LeaseFactsNext
  <2>6. data'[b] = Content(s) /\ (b \in dirty') = FALSE
    BY <1>1, <1>2, <2>1
  <2>7. Store!Lend(LeaseOf(s), Content(s), LeaseOf(s)', Content(s)')
    BY <2>1, <2>3, <2>5, <2>6 DEF Store!Lend
  <2> QED BY <2>7 DEF SectorStep, Store!Moves
<1> QED BY <1>4, <1>5, <1>6

LEMMA BwriteStores ==
  ASSUME IInv, IInv', errors = 0, NEW p \in Proc, NEW s \in Sector,
         NEW b \in hold[p], NEW v \in Value, BwriteCall(p, b, v)
  PROVE  SectorStep(s)
<1>1. /\ b \in Buf /\ b \in valid /\ b \notin dirty
      /\ UNCHANGED <<valid, sector, ctl, platter, hold>>
      /\ data' = [data EXCEPT ![b] = v] /\ dirty' = dirty \cup {b}
  BY DEF BwriteCall, IInv, TypeOK, HoldInv, cacheVars, driveVars
<1>2. data'[b] = v /\ \A c \in Buf \ {b} : data'[c] = data[c]
  BY <1>1 DEF IInv, TypeOK
<1>3. Content(s)' = Content(s)
  BY <1>1 DEF Content
<1>4. CASE sector[b] # s
  <2>1. LeaseOf(s)' = LeaseOf(s)
    BY <1>1, <1>2, <1>4, SameLease DEF Lent
  <2> QED BY <1>3, <2>1 DEF SectorStep, Stays
<1>5. CASE sector[b] = s
  <2>1. Lent(p, b, s) /\ Lent(p, b, s)'
    BY <1>1, <1>5 DEF Lent
  <2>2. LeaseOf(s) = Store!Lease(p, data[b], b \in dirty)
    BY <1>1, <2>1, LeaseFacts
  <2>3. LeaseOf(s)' = Store!Lease(p, data'[b], b \in dirty')
    BY <1>1, <2>1, LeaseFactsNext
  <2>4. data[b] = Content(s) /\ (b \in dirty) = FALSE /\ (b \in dirty') = TRUE
    BY <1>1, <1>5, CleanFacts
  <2>5. Store!Give(LeaseOf(s), Content(s), LeaseOf(s)', Content(s)')
    BY <1>2, <1>3, <2>2, <2>3, <2>4 DEF Store!Give
  <2> QED BY <2>5 DEF SectorStep, Store!Moves
<1> QED BY <1>4, <1>5

LEMMA BrelseStores ==
  ASSUME IInv, IInv', errors = 0, NEW p \in Proc, NEW s \in Sector,
         NEW b \in hold[p], Brelse(p, b) \/ ReleaseSleep(p, b)
  PROVE  SectorStep(s)
<1>1. /\ b \in Buf /\ b \in valid /\ b \notin dirty
      /\ UNCHANGED <<valid, dirty, sector, ctl, platter, data>>
      /\ hold' = [hold EXCEPT ![p] = @ \ {b}]
  BY DEF Brelse, ReleaseSleep, Ex4, IInv, TypeOK, HoldInv, cacheVars, driveVars
<1>2. \A q \in Proc, c \in Buf : c \in hold'[q] <=> c \in hold[q] /\ ~(q = p /\ c = b)
  BY <1>1 DEF IInv, TypeOK
<1>3. Content(s)' = Content(s)
  BY <1>1 DEF Content
<1>4. CASE sector[b] # s
  <2>1. LeaseOf(s)' = LeaseOf(s)
    BY <1>1, <1>2, <1>4, SameLease DEF Lent
  <2> QED BY <1>3, <2>1 DEF SectorStep, Stays
<1>5. CASE sector[b] = s
  <2>1. Lent(p, b, s)
    BY <1>1, <1>5 DEF Lent
  <2>2. \A q \in Proc, c \in Buf : ~Lent(q, c, s)'
    BY <1>1, <1>2, <1>5, OneLease DEF Lent
  <2>3. LeaseOf(s) = Store!Lease(p, data[b], b \in dirty)
    BY <1>1, <2>1, LeaseFacts
  <2>4. LeaseOf(s)' = Store!Free
    BY <2>2, LeaseFactsNext
  <2>5. data[b] = Content(s) /\ (b \in dirty) = FALSE
    BY <1>1, <1>5, CleanFacts
  <2>6. Store!TakeBack(LeaseOf(s), Content(s), LeaseOf(s)', Content(s)')
    BY <1>3, <2>3, <2>4, <2>5 DEF Store!TakeBack
  <2> QED BY <2>6 DEF SectorStep, Store!Moves
<1> QED BY <1>4, <1>5

\* The drive gets a command for buffer c of a process in iderw(): if c is
\* dirty, its sector is about to have what the process gives it.
LEMMA Starts ==
  ASSUME IInv, IInv', NEW s \in Sector, NEW p \in Proc, NEW c \in Buf,
         c \in hold[p], IdeStart(c), platter' = platter, LeaseOf(s)' = LeaseOf(s)
  PROVE  SectorStep(s)
<1>1. /\ ~ctl.running
      /\ ctl' = [op |-> IF c \in dirty THEN "write" ELSE "read",
                 sector |-> sector[c],
                 val |-> IF c \in dirty THEN data[c] ELSE Nobody,
                 running |-> TRUE, err |-> FALSE]
  BY DEF IdeStart
<1>2. CASE c \notin dirty \/ sector[c] # s
  <2>1. Content(s)' = Content(s)
    BY <1>1, <1>2 DEF Content
  <2> QED BY <2>1 DEF SectorStep, Stays
<1>3. CASE c \in dirty /\ sector[c] = s
  <2>1. Content(s)' = data[c]
    BY <1>1, <1>3 DEF Content
  <2>2. Lent(p, c, s)
    BY <1>3 DEF Lent, IInv, CacheInv
  <2>3. LeaseOf(s) = Store!Lease(p, data[c], c \in dirty)
    BY <2>2, LeaseFacts
  <2>4. (c \in dirty) = TRUE
    BY <1>3
  <2>5. Store!Commit(LeaseOf(s), Content(s), LeaseOf(s)', Content(s)')
    BY <2>1, <2>3, <2>4, CommitMove
  <2> QED BY <2>5 DEF SectorStep, Store!Moves
<1> QED BY <1>2, <1>3

LEMMA IderwStores ==
  ASSUME IInv, IInv', NEW p \in Proc, NEW s \in Sector, Iderw(p)
  PROVE  SectorStep(s)
<1>1. /\ UNCHANGED <<valid, dirty, sector, platter, data, hold>>
      /\ cur[p] \in hold[p] /\ cur[p] \in Buf
      /\ IdeStart(cur[p]) \/ ctl' = ctl
  BY DEF Iderw, IInv, TypeOK, HoldInv, Io, flagVars, cacheVars
<1>2. LeaseOf(s)' = LeaseOf(s)
  BY <1>1, SameLease DEF Lent
<1>3. CASE ctl' = ctl
  <2>1. Content(s)' = Content(s)
    BY <1>1, <1>3 DEF Content
  <2> QED BY <1>2, <2>1 DEF SectorStep, Stays
<1>4. CASE IdeStart(cur[p])
  BY <1>1, <1>2, <1>4, Starts
<1> QED BY <1>1, <1>3, <1>4

\* The buffer of a transfer that ended is lent, with what its sector has.
LEMMA Ends ==
  ASSUME IInv, IInv', NEW s \in Sector, NEW p \in Proc, NEW b \in Buf,
         b \in hold[p], b \in hold'[p], sector[b] = s, sector'[b] = s,
         b \in valid', b \notin dirty', data'[b] = Content(s)',
         b \in dirty => data'[b] = data[b],
         b \in dirty \/ b \notin valid, b \notin dirty => Content(s)' = Content(s)
  PROVE  SectorStep(s)
<1>1. LeaseOf(s)' = Store!Lease(p, Content(s)', FALSE)
  <2>1. Lent(p, b, s)' /\ (b \in dirty') = FALSE
    BY DEF Lent
  <2> QED BY <2>1, LeaseFactsNext
<1>2. CASE b \in dirty
  <2>1. Lent(p, b, s)
    BY <1>2 DEF Lent, IInv, CacheInv
  <2>2. LeaseOf(s) = Store!Lease(p, Content(s)', TRUE)
    <3>1. (b \in dirty) = TRUE /\ data[b] = Content(s)'
      BY <1>2
    <3> QED BY <2>1, <3>1, LeaseFacts
  <2>3. Store!GivenAtOnce(LeaseOf(s), Content(s), LeaseOf(s)', Content(s)')
    BY <1>1, <2>2, GivenMove
  <2> QED BY <2>3 DEF SectorStep, Store!Moves
<1>3. CASE b \notin dirty
  <2>1. \A q \in Proc, c \in Buf : ~Lent(q, c, s)
    BY <1>3, OneLease DEF Lent
  <2>2. LeaseOf(s) = Store!Free
    BY <2>1, LeaseFacts
  <2>3. Store!Lend(LeaseOf(s), Content(s), LeaseOf(s)', Content(s)')
    BY <1>1, <1>3, <2>2 DEF Store!Lend
  <2> QED BY <2>3 DEF SectorStep, Store!Moves
<1> QED BY <1>2, <1>3

LEMMA IderwMemStores ==
  ASSUME IInv, IInv', errors' = 0, NEW p \in Proc, NEW s \in Sector, IderwMem(p)
  PROVE  SectorStep(s)
<1> DEFINE b == cur[p]
<1>1. /\ b \in hold[p] /\ b \in Buf /\ sector[b] \in Sector
      /\ b \in dirty \/ b \notin valid
      /\ UNCHANGED <<sector, hold, ctl>> /\ ~ctl.running
      /\ valid' = valid \cup {b} /\ dirty' = dirty \ {b}
  BY DEF IderwMem, IInv, TypeOK, KernelInv, HoldInv, Io, cacheVars
<1>2. /\ b \in dirty => platter' = [platter EXCEPT ![sector[b]] = data[b]] /\ data' = data
      /\ b \notin dirty => data' = [data EXCEPT ![b] = platter[sector[b]]] /\ platter' = platter
  BY DEF IderwMem
<1>3. Content(s) = platter[s] /\ Content(s)' = platter'[s]
  BY <1>1 DEF Content
<1> HIDE DEF b
<1>4. \A c \in Buf \ {b} : data'[c] = data[c]
  BY <1>1, <1>2 DEF IInv, TypeOK
<1>5. CASE sector[b] # s
  <2>1. platter'[s] = platter[s]
    BY <1>1, <1>2, <1>5 DEF IInv, TypeOK
  <2>2. LeaseOf(s)' = LeaseOf(s)
    BY <1>1, <1>4, <1>5, SameLease DEF Lent
  <2> QED BY <1>3, <2>1, <2>2 DEF SectorStep, Stays
<1>6. CASE sector[b] = s
  <2>1. data'[b] = Content(s)'
    BY <1>1, <1>2, <1>3, <1>6 DEF IInv, TypeOK
  <2> QED BY <1>1, <1>2, <1>3, <1>6, <2>1, Ends
<1> QED BY <1>5, <1>6

LEMMA IdeintrStores ==
  ASSUME IInv, IInv', errors = 0, errors' = 0, NEW s \in Sector, Ideintr
  PROVE  SectorStep(s)
<1> DEFINE b == Head(idequeue)
<1>1. /\ b \in Buf /\ sector[b] \in Sector /\ (b \in dirty \/ b \notin valid)
      /\ \E p \in Proc : b \in hold[p]
      /\ idequeue # <<>>
  BY HeadFacts DEF Ideintr
<1>2. PICK p \in Proc : b \in hold[p]
  BY <1>1
<1>3. /\ UNCHANGED <<sector, hold, platter>>
      /\ valid' = valid \cup {b} /\ dirty' = dirty \ {b}
      /\ Fetch(b) /\ StartNext
  BY DEF Ideintr, cacheVars
<1>4. /\ \A c \in Buf \ {b} : data'[c] = data[c]
      /\ b \in dirty => data' = data
  BY <1>1, <1>3 DEF Fetch, IInv, TypeOK
<1>5. \/ ctl' = ctl
      \/ \E c \in Buf, q \in Proc : c # b /\ c \in hold[q] /\ IdeStart(c)
  <2>1. CASE idequeue' = <<>>
    BY <1>3, <2>1 DEF StartNext
  <2>2. CASE idequeue' # <<>>
    <3>1. idequeue' = Tail(idequeue) /\ idequeue \in Seq(Buf) /\ IsInjective(idequeue)
      BY DEF Ideintr, IInv, TypeOK
    <3>2. Head(idequeue') \in ToSet(idequeue) /\ Head(idequeue') # b
      BY <1>1, <2>2, <3>1, TailFacts
    <3>3. PICK q \in Proc : pc[q] = "iosleep" /\ cur[q] = Head(idequeue')
      BY <3>2 DEF IInv, QueuedInv
    <3>4. cur[q] \in hold[q] /\ cur[q] \in Buf
      BY <3>3 DEF IInv, HoldInv, TypeOK, Io
    <3>5. IdeStart(Head(idequeue'))
      BY <1>3, <2>2 DEF StartNext
    <3> QED BY <3>2, <3>3, <3>4, <3>5
  <2> QED BY <2>1, <2>2
<1> HIDE DEF b
<1>6. CASE sector[b] # s
  <2>1. LeaseOf(s)' = LeaseOf(s)
    BY <1>1, <1>3, <1>4, <1>6, SameLease DEF Lent
  <2>2. CASE ctl' = ctl
    <3>1. Content(s)' = Content(s)
      BY <1>3, <2>2 DEF Content
    <3> QED BY <2>1, <3>1 DEF SectorStep, Stays
  <2> QED BY <1>3, <1>5, <2>1, <2>2, Starts
<1>7. CASE sector[b] = s
  <2>1. Content(s)' = Content(s)
    <3>1. CASE ctl' = ctl
      BY <1>3, <3>1 DEF Content
    <3>2. CASE ctl' # ctl
      <4>1. PICK c \in Buf : c # b /\ IdeStart(c)
        BY <1>5, <3>2
      <4>2. sector[c] # s
        BY <1>7, <4>1, <1>1, DiskAssumption DEF IInv, CacheInv
      <4> QED BY <1>3, <4>1, <4>2 DEF IdeStart, Content
    <3> QED BY <3>1, <3>2
  <2>2. data'[b] = Content(s)'
    <3>1. b \in valid' /\ b \notin dirty' /\ sector'[b] = s
      BY <1>3, <1>7
    <3> QED BY <3>1 DEF IInv, CleanInv
  <2> QED BY <1>1, <1>2, <1>3, <1>4, <1>7, <2>1, <2>2, Ends
<1> QED BY <1>6, <1>7

LEMMA DriveDoneStores ==
  ASSUME IInv, IInv', NEW s \in Sector, DriveDone
  PROVE  SectorStep(s)
<1>1. /\ UNCHANGED <<sector, hold, valid, dirty, data>>
      /\ ctl.running
      /\ ctl' = [ctl EXCEPT !.running = FALSE,
                            !.val = IF ctl.op = "read" THEN platter[ctl.sector] ELSE Nobody]
      /\ platter' = IF ctl.op = "write" THEN [platter EXCEPT ![ctl.sector] = ctl.val]
                    ELSE platter
  BY DEF DriveDone, flagVars, cacheVars
<1>2. LeaseOf(s)' = LeaseOf(s)
  BY <1>1, SameLease DEF Lent
<1>3. ctl \in Command /\ ctl.sector \in Sector /\ platter \in [Sector -> Value]
  BY <1>1 DEF IInv, TypeOK, DriveInv
<1>4. ctl'.running = FALSE
  BY <1>1, <1>3 DEF Command
<1>5. Content(s)' = Content(s)
  BY <1>1, <1>3, <1>4 DEF Content
<1> QED BY <1>2, <1>5 DEF SectorStep, Stays

LEMMA SectorSteps ==
  ASSUME IInv, IInv', errors = 0, errors' = 0, Next, NEW s \in Sector
  PROVE  SectorStep(s)
<1>1. CASE \E p \in Proc : Client(p)
  BY <1>1, QuietSteps, BwriteStores, BrelseStores DEF Client
<1>2. CASE \E p \in Proc : Bget(p)
  BY <1>2, QuietSteps, RecycleStores, BreadStores DEF Bget
<1>3. CASE \E p \in Proc : Unreference(p) \/ Iderw(p) \/ IderwWoken(p) \/ IderwMem(p)
  BY <1>3, QuietSteps, IderwStores, IderwMemStores
<1>4. CASE Ideintr
  BY <1>4, IdeintrStores
<1>5. CASE IdeintrSpurious \/ DriveSpurious
  <2>1. UNCHANGED <<ctl, platter, hold, valid, sector, data, dirty>>
    BY <1>5 DEF IdeintrSpurious, DriveSpurious, flagVars, cacheVars, driveVars
  <2> QED BY <2>1, QuietStep
<1>6. CASE DriveDone
  BY <1>6, DriveDoneStores
<1>7. CASE DriveFails
  BY <1>7 DEF DriveFails
<1> QED BY <1>1, <1>2, <1>3, <1>4, <1>5, <1>6, <1>7 DEF Next

LEMMA HealthKept ==
  ASSUME IInv, [Next]_vars, errors' = 0
  PROVE  errors = 0
<1>1. errors' = errors \/ errors' = errors + 1
  BY DEF Next, vars, otherVars, Client, Bget, BreadCall, BwriteCall, Brelse, ReleaseSleep,
         BgetHit, BgetBusy, BgetRecycle, Bget4Hit, Bget4Recycle, AcquireSleep, WaitSleep,
         Unreference, Iderw, IderwWoken, IderwMem, Ideintr, IdeintrSpurious, DriveDone,
         DriveFails, DriveSpurious
<1> QED BY <1>1 DEF IInv, TypeOK

\* The cache and the driver are a store of sectors lent to one process at a
\* time: what bread() returns is what was last written to the sector, in all
\* three kernels, with any buffers recycled and any order of interrupts, until
\* a transfer fails.
THEOREM DiskImplementsBlockStore == Spec => AtomicSectors
<1>1. Init /\ IInv => Store!BInit
  <2> SUFFICES ASSUME Init, IInv PROVE Store!BInit
    OBVIOUS
  <2>1. \A s \in Sector : Content(s) = platter[s] /\ platter[s] \in Value
    BY DEF Init, Content, IInv, TypeOK
  <2>2. \A s \in Sector : LeaseOf(s) = Store!Free
    BY LeaseFacts DEF Init, Lent
  <2>3. errors = 0
    BY DEF Init
  <2> QED BY <2>1, <2>2, <2>3 DEF Store!BInit
<1>2. IInv /\ IInv' /\ [Next]_vars => [Store!BNext]_(Store!bvars)
  <2> SUFFICES ASSUME IInv, IInv', [Next]_vars
               PROVE  Store!BNext \/ UNCHANGED Store!bvars
    OBVIOUS
  <2>1. CASE UNCHANGED vars
    BY <2>1 DEF vars, flagVars, cacheVars, driveVars, otherVars, Store!bvars,
                Content, LeaseOf, Cached
  <2>2. CASE errors' # 0
    BY <2>2 DEF Store!BNext
  <2>3. CASE Next /\ errors' = 0
    <3>1. errors = 0
      BY <2>3, HealthKept
    <3>2. \A s \in Sector : SectorStep(s)
      BY <2>3, <3>1, SectorSteps
    <3> QED BY <2>3, <3>1, <3>2 DEF Store!BNext, SectorStep, Stays
  <2> QED BY <2>1, <2>2, <2>3
<1> QED BY <1>1, <1>2, Initially, Invariance, PTL DEF Spec, AtomicSectors, Store!BSpec
=============================================================================
