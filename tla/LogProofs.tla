----------------------------- MODULE LogProofs ------------------------------
(***************************************************************************)
(* Theorems about log.c for any number of processes and blocks and any     *)
(* MAXOPBLOCKS and LOGSIZE: IInv is inductive, log.lh never overflows,     *)
(* a commit runs alone, and the log implements TxDisk.  Each action has a  *)
(* lemma of its own.                                                       *)
(***************************************************************************)
EXTENDS LogInv, FiniteSetTheorems, TLAPS

LEMMA AppendFacts ==
  ASSUME NEW S, NEW s \in Seq(S), NEW e \in S
  PROVE  /\ Append(s, e) \in Seq(S)
         /\ Len(Append(s, e)) = Len(s) + 1
         /\ \A i \in 1..Len(s) : Append(s, e)[i] = s[i]
         /\ Append(s, e)[Len(s) + 1] = e
         /\ Range(Append(s, e)) = Range(s) \union {e}
<1>1. /\ Append(s, e) \in Seq(S)
      /\ Len(Append(s, e)) = Len(s) + 1
      /\ \A i \in 1..Len(s) : Append(s, e)[i] = s[i]
      /\ Append(s, e)[Len(s) + 1] = e
      /\ Len(s) \in Nat
      /\ DOMAIN s = 1..Len(s)
      /\ DOMAIN Append(s, e) = 1..(Len(s) + 1)
  OBVIOUS
<1>2. 1..(Len(s) + 1) = (1..Len(s)) \union {Len(s) + 1}
  BY <1>1
<1>3. Range(Append(s, e)) = Range(s) \union {e}
  <2>1. ASSUME NEW x \in Range(Append(s, e)) PROVE x \in Range(s) \union {e}
    <3>1. PICK i \in 1..(Len(s) + 1) : x = Append(s, e)[i]
      BY <1>1, <2>1 DEF Range
    <3>2. CASE i \in 1..Len(s)
      BY <1>1, <3>1, <3>2 DEF Range
    <3>3. CASE i = Len(s) + 1
      BY <1>1, <3>1, <3>3
    <3> QED BY <1>2, <3>2, <3>3
  <2>2. ASSUME NEW x \in Range(s) PROVE x \in Range(Append(s, e))
    <3>1. PICK i \in 1..Len(s) : x = s[i]
      BY <1>1, <2>2 DEF Range
    <3>2. i \in 1..(Len(s) + 1) /\ Append(s, e)[i] = x
      BY <1>1, <1>2, <3>1
    <3> QED BY <1>1, <3>2 DEF Range
  <2>3. e \in Range(Append(s, e))
    <3>1. Len(s) + 1 \in 1..(Len(s) + 1)
      BY <1>1
    <3> QED BY <1>1, <3>1 DEF Range
  <2> QED BY <2>1, <2>2, <2>3
<1> QED BY <1>1, <1>3

LEMMA SeqFacts ==
  ASSUME NEW S, NEW s \in Seq(S)
  PROVE  /\ Len(s) \in Nat
         /\ \A i \in 1..Len(s) : s[i] \in S /\ s[i] \in Range(s)
         /\ \A x \in Range(s) : x \in S /\ \E i \in 1..Len(s) : s[i] = x
<1>1. DOMAIN s = 1..Len(s) /\ Len(s) \in Nat /\ \A i \in 1..Len(s) : s[i] \in S
  OBVIOUS
<1> QED BY <1>1 DEF Range

LEMMA EmptyFacts ==
  /\ \A S : <<>> \in Seq(S)
  /\ Len(<<>>) = 0 /\ Range(<<>>) = {} /\ Distinct(<<>>)
<1>1. /\ \A S : <<>> \in Seq(S)
      /\ Len(<<>>) = 0
      /\ DOMAIN <<>> = {}
  OBVIOUS
<1> QED BY <1>1 DEF Range, Distinct

LEMMA FiniteSets ==
  /\ IsFiniteSet(Active) /\ Cardinality(Active) \in Nat
  /\ IsFiniteSet(Pending) /\ Cardinality(Pending) \in Nat
  /\ \A B \in SUBSET Block : IsFiniteSet(B) /\ Cardinality(B) \in Nat
<1>1. IsFiniteSet(Active)
  BY LogAssumption, FS_Subset DEF Active
<1>2. IsFiniteSet(1..MAXOPBLOCKS)
  BY LogAssumption, FS_Interval
<1>3. IsFiniteSet(Proc \X (1..MAXOPBLOCKS))
  BY <1>2, LogAssumption, FS_Product
<1>4. Pending \in SUBSET (Proc \X (1..MAXOPBLOCKS))
  BY DEF Pending
<1>5. IsFiniteSet(Pending)
  BY <1>3, <1>4, FS_Subset
<1>6. \A B \in SUBSET Block : IsFiniteSet(B)
  BY LogAssumption, FS_Subset
<1> QED BY <1>1, <1>5, <1>6, FS_CardinalityType

LEMMA Parts ==
  ASSUME IInv
  PROVE  TypeOK /\ Phases /\ Locks /\ Budget /\ Headers /\ Data
BY DEF IInv

\* Where a sequence without repetitions holds a block, there alone.
LEMMA OnlyThere ==
  ASSUME NEW i \in 1..Len(head), Distinct(head), head \in Seq(Block)
  PROVE  Durable(head[i]) = logdisk[i]
<1> DEFINE j == CHOOSE k \in 1..Len(head) : head[k] = head[i]
<1>1. j \in 1..Len(head) /\ head[j] = head[i]
  OBVIOUS
<1>2. j = i
  BY <1>1 DEF Distinct
<1>3. head[i] \in Range(head)
  BY SeqFacts
<1> QED BY <1>2, <1>3 DEF Durable

LEMMA Fits ==
  ASSUME IInv
  PROVE  Len(lh) \in Nat /\ Len(lh) <= LOGSIZE
<1>1. Len(lh) \in Nat
  BY Parts, SeqFacts DEF TypeOK
<1> QED BY <1>1, Parts, FiniteSets, LogAssumption DEF Budget

LEMMA ReadType ==
  ASSUME TypeOK
  PROVE  \A b \in Block : Read(b) \in Content
BY DEF TypeOK, Read

\* The block at the loop variable of a commit or of recovery.
LEMMA AtTail ==
  ASSUME IInv, tail < Len(lh)
  PROVE  /\ tail + 1 \in 1..Len(lh) /\ tail + 1 \in 1..LOGSIZE
         /\ lh[tail + 1] \in Block /\ lh[tail + 1] \in Range(lh)
         /\ \A i \in 1..(tail + 1) : i \in 1..tail \/ i = tail + 1
         /\ \A i \in 1..tail : i \in 1..Len(lh) /\ lh[i] # lh[tail + 1] /\ lh[i] \in Block
<1>1. tail \in Nat /\ Len(lh) \in Nat /\ Len(lh) <= LOGSIZE
  BY Parts, Fits DEF TypeOK
<1>2. tail + 1 \in 1..Len(lh) /\ tail + 1 \in 1..LOGSIZE
  BY <1>1, LogAssumption
<1>3. \A i \in 1..(tail + 1) : i \in 1..tail \/ i = tail + 1
  BY <1>1
<1>4. \A i \in 1..tail : i \in 1..Len(lh) /\ i # tail + 1
  BY <1>1
<1>5. lh \in Seq(Block) /\ Distinct(lh)
  BY Parts DEF TypeOK, Headers
<1>6. \A i \in 1..Len(lh) : lh[i] \in Block /\ lh[i] \in Range(lh)
  BY <1>5, SeqFacts
<1>7. \A i \in 1..tail : lh[i] # lh[tail + 1]
  BY <1>2, <1>4, <1>5 DEF Distinct
<1> QED BY <1>2, <1>3, <1>4, <1>6, <1>7

LEMMA NoBlockNot ==
  \A c \in Block : c # NoBlock
BY LogAssumption

LEMMA LhFacts ==
  ASSUME TypeOK
  PROVE  /\ Len(lh) \in Nat
         /\ \A i \in 1..Len(lh) : lh[i] \in Block /\ lh[i] \in Range(lh)
         /\ \A b \in Range(lh) : b \in Block /\ \E i \in 1..Len(lh) : lh[i] = b
BY SeqFacts DEF TypeOK

LEMMA Rows ==
  ASSUME NEW S, IsFiniteSet(S), MAXOPBLOCKS \in Nat
  PROVE  /\ IsFiniteSet(S \X (1..MAXOPBLOCKS))
         /\ Cardinality(S \X (1..MAXOPBLOCKS)) = Cardinality(S) * MAXOPBLOCKS
<1>1. IsFiniteSet(1..MAXOPBLOCKS) /\ Cardinality(1..MAXOPBLOCKS) = MAXOPBLOCKS
  BY FS_Interval
<1>2. /\ IsFiniteSet(S \X (1..MAXOPBLOCKS))
      /\ Cardinality(S \X (1..MAXOPBLOCKS)) = Cardinality(S) * Cardinality(1..MAXOPBLOCKS)
  BY <1>1, FS_Product
<1> QED BY <1>1, <1>2

LEMMA CallStep ==
  ASSUME IInv, NEW p \in Proc, Call(p)
  PROVE  IInv'
<1> USE Parts, LogAssumption DEF Call, At, Goes, diskVars, bufVars, logVars, procVars, bounds
<1>1. Active' = Active /\ Pending' = Pending
  BY DEF TypeOK, Active, Pending, InOp, InCommit
<1>2. TypeOK'
  BY DEF TypeOK, InOp, InCommit, Content
<1>3. Phases'
  BY <1>1 DEF TypeOK, Phases, InOp, InCommit
<1>4. Locks'
  BY DEF TypeOK, Locks
<1>5. Budget'
  BY <1>1 DEF TypeOK, Budget
<1>6. Headers'
  BY <1>1 DEF TypeOK, Headers, Installing, Phases, InCommit
<1>7. Data'
  BY DEF TypeOK, Data, Read, Installing
<1> QED BY <1>2, <1>3, <1>4, <1>5, <1>6, <1>7 DEF IInv

LEMMA BeginSleepStep ==
  ASSUME IInv, NEW p \in Proc, BeginSleep(p)
  PROVE  IInv'
<1> USE Parts, LogAssumption DEF BeginSleep, At, Goes, diskVars, bufVars, logVars, procVars, bounds
<1>1. Active' = Active /\ Pending' = Pending
  BY DEF TypeOK, Active, Pending, InOp, InCommit
<1>2. TypeOK'
  BY DEF TypeOK, InOp, InCommit, Content
<1>3. Phases'
  BY <1>1 DEF TypeOK, Phases, InOp, InCommit
<1>4. Locks'
  BY DEF TypeOK, Locks
<1>5. Budget'
  BY <1>1 DEF TypeOK, Budget
<1>6. Headers'
  BY <1>1 DEF TypeOK, Headers, Installing, Phases, InCommit
<1>7. Data'
  BY DEF TypeOK, Data, Read, Installing
<1> QED BY <1>2, <1>3, <1>4, <1>5, <1>6, <1>7 DEF IInv

LEMMA EvictStep ==
  ASSUME IInv, NEW b \in Block, Evict(b)
  PROVE  IInv'
<1> USE Parts, LogAssumption DEF Evict, At, Goes, Evictable, diskVars, bufVars, logVars, procVars, bounds
<1>1. Active' = Active /\ Pending' = Pending
  BY DEF TypeOK, Active, Pending, InOp, InCommit
<1>2. TypeOK'
  BY DEF TypeOK, InOp, InCommit, Content
<1>3. Phases'
  BY <1>1 DEF TypeOK, Phases, InOp, InCommit
<1>4. Locks'
  BY DEF TypeOK, Locks
<1>5. Budget'
  BY <1>1 DEF TypeOK, Budget
<1>6. Headers'
  BY <1>1 DEF TypeOK, Headers, Installing, Phases, InCommit
<1>7. Data'
  <2>1. boot = "up" => Read(b) = disk[b]
    <3>1. CASE b \in Range(lh)
      <4>1. PICK i \in 1..Len(lh) : lh[i] = b
        BY <3>1, LhFacts
      <4> QED BY <4>1 DEF TypeOK, Data, Installing, Headers
    <3> QED BY <3>1 DEF TypeOK, Data
  <2>2. /\ valid' = valid \ {b} /\ b \notin dirty
        /\ cache' = [cache EXCEPT ![b] = {}]
        /\ UNCHANGED <<boot, pc, buf, tail, lh, disk, logdisk, dirty>>
    BY DEF TypeOK
  <2>3. boot = "up" => \A c \in Block : Read(c)' = Read(c)
    BY <2>1, <2>2 DEF TypeOK, Read
  <2>4. \A i \in 1..Len(lh) : lh[i] \in Block
    BY LhFacts DEF TypeOK
  <2>5. \A q \in Proc : pc[q] \in {"write_log", "install"} => boot = "up"
    BY DEF Phases
  <2>6. \A i \in 1..tail : (\E q \in Proc : pc[q] = "write_log") => i \in 1..Len(lh)
    BY LhFacts DEF TypeOK, Headers
  <2> QED BY <2>2, <2>3, <2>4, <2>5, <2>6 DEF TypeOK, Data, Installing
<1> QED BY <1>2, <1>3, <1>4, <1>5, <1>6, <1>7 DEF IInv

LEMMA BeginOpStep ==
  ASSUME IInv, NEW p \in Proc, BeginOp(p)
  PROVE  IInv'
<1> USE Parts, LogAssumption DEF BeginOp, At, Goes, Reserve, diskVars, bufVars, logVars, procVars, bounds
<1>1. /\ Active' = Active \union {p} /\ p \notin Active
      /\ Cardinality(Active') = outstanding + 1 /\ ~committing
      /\ UNCHANGED <<lh, head>>
  <2>1. Active' = Active \union {p} /\ p \notin Active
    BY DEF TypeOK, Active, InOp
  <2>2. ~committing
    BY DEF MustWait
  <2> QED BY <2>1, <2>2, FiniteSets, FS_AddElement DEF Phases
<1>2. TypeOK'
  BY DEF TypeOK, InOp, InCommit, Content
<1>3. Phases'
  BY <1>1 DEF TypeOK, Phases, InOp, InCommit
<1>4. Locks'
  BY DEF TypeOK, Locks
<1>5. Budget'
  <2>1. Cardinality(Pending') <= (outstanding + 1) * MAXOPBLOCKS
    <3>1. IsFiniteSet(Active') /\ Cardinality(Active') = outstanding + 1
      BY <1>1, FiniteSets, FS_AddElement
    <3>3. /\ IsFiniteSet(Active' \X (1..MAXOPBLOCKS))
          /\ Cardinality(Active' \X (1..MAXOPBLOCKS)) = (outstanding + 1) * MAXOPBLOCKS
      BY <3>1, Rows, Zenon
    <3>4. Pending' \in SUBSET (Active' \X (1..MAXOPBLOCKS))
      BY DEF Pending
    <3> QED BY <3>3, <3>4, FS_Subset
  <2>2. Len(lh) + (outstanding + 1) * MAXOPBLOCKS <= LOGSIZE
    <3>1. outstanding + 1 \in Nat /\ Len(lh) \in Nat
      BY Fits DEF TypeOK
    <3>2. (outstanding + 1) * MAXOPBLOCKS \in Nat
      BY <3>1
    <3>3. ~(Len(lh) + (outstanding + 1) * MAXOPBLOCKS > LOGSIZE)
      BY DEF MustWait, Exhausts
    <3> QED BY <3>1, <3>2, <3>3
  <2>3. Len(lh) + Cardinality(Pending)' <= LOGSIZE
    <3>1. Cardinality(Pending') \in Nat
      <4>1. Pending' \in SUBSET (Proc \X (1..MAXOPBLOCKS))
        BY DEF Pending
      <4>2. IsFiniteSet(1..MAXOPBLOCKS)
        BY FS_Interval
      <4>3. IsFiniteSet(Proc \X (1..MAXOPBLOCKS))
        BY <4>2, FS_Product
      <4>4. IsFiniteSet(Pending')
        BY <4>1, <4>3, FS_Subset
      <4> QED BY <4>4, FS_CardinalityType
    <3>2. (outstanding + 1) * MAXOPBLOCKS \in Nat /\ Len(lh) \in Nat
      <4>1. outstanding + 1 \in Nat
        BY DEF TypeOK
      <4> QED BY <4>1, Fits
    <3> QED BY <2>1, <2>2, <3>1, <3>2
  <2>4. wrote'[p] = {} /\ \A q \in Proc \ {p} : wrote'[q] = wrote[q]
    BY DEF TypeOK
  <2>5. buf' = buf /\ buf[p] = NoBlock
    BY DEF TypeOK, Locks
  <2>6. Cardinality({}) = 0
    BY FS_EmptySet
  <2>7. \A q \in Active' : /\ wrote'[q] \subseteq Range(lh)
                             /\ Cardinality(wrote'[q]) <= MAXOPBLOCKS
    <3>1. wrote'[p] \subseteq Range(lh) /\ Cardinality(wrote'[p]) <= MAXOPBLOCKS
      <4>1. wrote'[p] = {}
        BY <2>4
      <4>2. 0 <= MAXOPBLOCKS
        OBVIOUS
      <4> QED BY <4>1, <4>2, <2>6, Zenon
    <3>2. ASSUME NEW q \in Active
          PROVE  wrote'[q] \subseteq Range(lh) /\ Cardinality(wrote'[q]) <= MAXOPBLOCKS
      BY <1>1, <2>4 DEF Budget, Active
    <3> QED BY <1>1, <3>1, <3>2
  <2>8. \A q \in Active' : buf'[q] # NoBlock =>
          Cardinality(wrote'[q] \union {buf'[q]}) <= MAXOPBLOCKS
    BY <1>1, <2>4, <2>5 DEF Budget, Active
  <2> QED BY <1>1, <2>3, <2>7, <2>8 DEF Budget
<1>6. Headers'
  BY <1>1 DEF TypeOK, Headers, Installing, Phases, InCommit
<1>7. Data'
  BY SMTT(30) DEF TypeOK, Data, Read, Installing
<1> QED BY <1>2, <1>3, <1>4, <1>5, <1>6, <1>7 DEF IInv

LEMMA ModifyStep ==
  ASSUME IInv, NEW p \in Proc, NEW b \in Block, Modify(p, b)
  PROVE  IInv'
<1> USE Parts, LogAssumption DEF Modify, At, Goes, diskVars, bufVars, logVars, procVars, bounds
<1>1. Active' = Active /\ Pending' = Pending
  BY DEF TypeOK, Active, Pending, InOp, InCommit
<1>2. TypeOK'
  <2>1. Read(b) \union {writes + 1} \in Content
    BY ReadType, SMTT(30) DEF TypeOK, Content, Writes
  <2> QED BY <2>1 DEF TypeOK, InOp, InCommit
<1>3. Phases'
  BY <1>1 DEF TypeOK, Phases, InOp, InCommit
<1>4. Locks'
  BY DEF TypeOK, Locks
<1>5. Budget'
  <2>1. \A q \in Active' : buf'[q] # NoBlock =>
          Cardinality(wrote'[q] \union {buf'[q]}) <= MAXOPBLOCKS
    <3>1. wrote' = wrote /\ buf'[p] = b /\ \A q \in Proc \ {p} : buf'[q] = buf[q]
      BY DEF TypeOK
    <3>2. \A q \in Active : buf[q] # NoBlock =>
            Cardinality(wrote[q] \union {buf[q]}) <= MAXOPBLOCKS
      BY DEF Budget
    <3> QED BY <1>1, <3>1, <3>2 DEF Active
  <2>2. Cardinality(Pending)' = Cardinality(Pending)
    BY <1>1
  <2> QED BY <1>1, <2>1, <2>2 DEF Budget
<1>6. Headers'
  BY <1>1 DEF TypeOK, Headers, Installing, Phases, InCommit
<1>7. Data'
  <2>1. /\ valid' = valid \union {b} /\ cache' = [cache EXCEPT ![b] = Read(b) \union {writes + 1}]
        /\ buf' = [buf EXCEPT ![p] = b] /\ buf[p] = NoBlock
        /\ boot = "up" /\ Active # {}
        /\ UNCHANGED <<disk, logdisk, dirty, lh, tail, boot>>
    BY DEF TypeOK, Locks, Active, InOp
  <2>2. \A q \in Proc : pc[q] \notin InCommit /\ pc'[q] \notin InCommit
    BY <2>1 DEF TypeOK, Phases, InCommit
  <2>3. \A c \in Block \ {b} : Read(c)' = Read(c)
    BY <2>1 DEF TypeOK, Read
  <2>4. \A c \in Block : (\A q \in Proc : buf'[q] # c) => c # b /\ \A q \in Proc : buf[q] # c
    BY <2>1, NoBlockNot DEF TypeOK
  <2> QED BY <2>1, <2>2, <2>3, <2>4 DEF Data, Installing, InCommit
<1> QED BY <1>2, <1>3, <1>4, <1>5, <1>6, <1>7 DEF IInv

LEMMA LogWriteTestStep ==
  ASSUME IInv, NEW p \in Proc, LogWriteTest(p)
  PROVE  IInv'
<1> USE Parts, LogAssumption DEF LogWriteTest, At, Goes, diskVars, bufVars, logVars, procVars, bounds
<1>1. Active' = Active /\ Pending' = Pending
  BY DEF TypeOK, Active, Pending, InOp, InCommit
<1>2. TypeOK'
  BY DEF TypeOK, InOp, InCommit, Content
<1>3. Phases'
  BY <1>1 DEF TypeOK, Phases, InOp, InCommit
<1>4. Locks'
  BY DEF TypeOK, Locks
<1>5. Budget'
  BY <1>1 DEF TypeOK, Budget
<1>6. Headers'
  BY <1>1 DEF TypeOK, Headers, Installing, Phases, InCommit
<1>7. Data'
  BY SMTT(30) DEF TypeOK, Data, Read, Installing
<1> QED BY <1>2, <1>3, <1>4, <1>5, <1>6, <1>7 DEF IInv

LEMMA LogWriteStep ==
  ASSUME IInv, NEW p \in Proc, NEW b \in Block, LogWrite(p, b)
  PROVE  IInv'
<1> USE Parts, LogAssumption DEF LogWrite, At, Goes, Absorb, diskVars, bufVars, logVars, procVars, bounds
<1>1. /\ Active' = Active /\ p \in Active
      /\ lh' \in Seq(Block) /\ Range(lh') = Range(lh) \union {b}
      /\ Len(lh') \in Nat /\ Len(lh) \in Nat
      /\ \A i \in 1..Len(lh) : lh'[i] = lh[i]
      /\ b \in Range(lh) => lh' = lh
      /\ b \notin Range(lh) => Len(lh') = Len(lh) + 1 /\ lh'[Len(lh) + 1] = b
  <2>1. Active' = Active /\ p \in Active
    BY DEF TypeOK, Active, InOp
  <2>2. lh \in Seq(Block) /\ Len(lh) \in Nat
    BY LhFacts DEF TypeOK
  <2>3. CASE b \in Range(lh)
    BY <2>1, <2>2, <2>3
  <2>4. CASE b \notin Range(lh)
    BY <2>1, <2>2, <2>4, AppendFacts
  <2> QED BY <2>3, <2>4
<1>2. TypeOK'
  BY DEF TypeOK, InOp, InCommit, Content
<1>3. Phases'
  BY <1>1 DEF TypeOK, Phases, InOp, InCommit
<1>4. Locks'
  BY DEF TypeOK, Locks
<1>5. Budget'
  <2>1. /\ wrote'[p] = wrote[p] \union {b} /\ Cardinality(wrote'[p]) <= MAXOPBLOCKS
        /\ wrote[p] \in SUBSET Block /\ b \in Block
        /\ \A q \in Proc \ {p} : wrote'[q] = wrote[q]
    BY <1>1, NoBlockNot DEF TypeOK, Budget
  <2>2. /\ buf'[p] = NoBlock
        /\ \A q \in Proc \ {p} : buf'[q] = buf[q]
    BY DEF TypeOK
  <2>3. Cardinality(wrote'[p]) =
          IF b \in wrote[p] THEN Cardinality(wrote[p]) ELSE Cardinality(wrote[p]) + 1
    BY <2>1, FiniteSets, FS_AddElement
  <2>4. Cardinality(wrote[p]) \in Nat /\ Cardinality(wrote'[p]) \in Nat
    BY <2>1, <2>3, FiniteSets
  <2>5. Pending' \in SUBSET Pending
    <3>1. \A q \in Proc : wrote'[q] = wrote[q] \/ q = p
      BY <2>1
    <3>2. \A q \in Proc, k \in 1..MAXOPBLOCKS :
            k > Cardinality(wrote'[q]) => k > Cardinality(wrote[q])
      <4>1. Cardinality(wrote'[p]) >= Cardinality(wrote[p])
        BY <2>3, <2>4
      <4>2. ASSUME NEW q \in Proc, NEW k \in 1..MAXOPBLOCKS, k > Cardinality(wrote'[q])
            PROVE  k > Cardinality(wrote[q])
        <5>1. CASE q = p
          BY <2>4, <4>1, <4>2, <5>1
        <5>2. CASE q # p
          BY <3>1, <4>2, <5>2
        <5> QED BY <5>1, <5>2
      <4> QED BY <4>2
    <3> QED BY <1>1, <3>2 DEF Pending
  <2>6. Cardinality(Pending') \in Nat /\ Cardinality(Pending') <= Cardinality(Pending)
    BY <2>5, FiniteSets, FS_Subset, FS_CardinalityType
  <2>7. Len(lh') + Cardinality(Pending') <= LOGSIZE
    <3>1. CASE b \in Range(lh)
      BY <1>1, <2>6, <3>1, FiniteSets DEF Budget
    <3>2. CASE b \notin Range(lh)
      <4>1. b \notin wrote[p]
        BY <1>1, <3>2 DEF Budget
      <4> DEFINE x == <<p, Cardinality(wrote[p]) + 1>>
      <4>2. Cardinality(wrote[p]) + 1 \in 1..MAXOPBLOCKS
        BY <2>1, <2>3, <2>4, <4>1
      <4>3. x \in Pending
        BY <1>1, <2>4, <4>2 DEF Pending, Active
      <4>4. x \notin Pending'
        <5>1. x[1] = p /\ x[2] = Cardinality(wrote'[p])
          BY <2>3, <4>1
        <5>2. ~(x[2] > Cardinality(wrote'[x[1]]))
          BY <2>4, <5>1
        <5> QED BY <5>2 DEF Pending
      <4>5. Pending' \in SUBSET (Pending \ {x})
        BY <2>5, <4>4
      <4>6. /\ IsFiniteSet(Pending \ {x})
            /\ Cardinality(Pending \ {x}) = Cardinality(Pending) - 1
        <5>1. IsFiniteSet(Pending)
          BY FiniteSets
        <5> QED BY <4>3, <5>1, FS_RemoveElement
      <4>7. Cardinality(Pending') <= Cardinality(Pending) - 1
        BY <4>5, <4>6, FS_Subset
      <4> QED BY <1>1, <2>6, <3>2, <4>7, FiniteSets DEF Budget
    <3> QED BY <3>1, <3>2
  <2>8. \A q \in Active' : wrote'[q] \subseteq Range(lh')
    BY <1>1, <2>1 DEF Budget, Active
  <2>9. \A q \in Active' : Cardinality(wrote'[q]) <= MAXOPBLOCKS
    BY <1>1, <2>1 DEF Budget, Active
  <2>12. \A q \in Active' : buf'[q] # NoBlock =>
           Cardinality(wrote'[q] \union {buf'[q]}) <= MAXOPBLOCKS
    BY <1>1, <2>1, <2>2 DEF Budget, Active
  <2>10. head' = head
    OBVIOUS
  <2>11. Len(lh)' + Cardinality(Pending)' <= LOGSIZE /\ Len(head)' <= LOGSIZE
    BY <2>7, <2>10 DEF Budget
  <2> HIDE DEF LogWrite, Absorb
  <2> QED BY <2>8, <2>9, <2>11, <2>12 DEF Budget
<1>6. Headers'
  <2>1. Distinct(lh')
    <3>1. CASE b \in Range(lh)
      BY <1>1, <3>1 DEF Headers
    <3>2. CASE b \notin Range(lh)
      <4>1. \A i \in 1..Len(lh) : lh[i] # b
        BY <3>2, LhFacts DEF TypeOK
      <4>2. \A i \in 1..(Len(lh) + 1) : i \in 1..Len(lh) \/ i = Len(lh) + 1
        BY <1>1
      <4> QED BY <1>1, <3>2, <4>1, <4>2 DEF Headers, Distinct
    <3> QED BY <3>1, <3>2
  <2>2. /\ boot = "up" /\ boot' = "up" /\ head' = head
        /\ \A q \in Proc : pc[q] \notin InCommit /\ pc'[q] \notin InCommit
    BY <1>1 DEF TypeOK, Phases, InCommit
  <2>3. ~Installing /\ ~Installing'
    BY <2>2 DEF Installing, InCommit
  <2> QED BY <1>1, <2>1, <2>2, <2>3 DEF Headers, InCommit
<1>7. Data'
  <2>1. /\ boot = "up" /\ buf' = [buf EXCEPT ![p] = NoBlock] /\ buf[p] = b
        /\ dirty' = dirty \union {b}
        /\ UNCHANGED <<boot, disk, logdisk, valid, cache>>
    OBVIOUS
  <2>2. /\ \A q \in Proc : pc[q] \notin InCommit /\ pc'[q] \notin InCommit
        /\ \A c : Read(c)' = Read(c)
    BY <1>1, <2>1 DEF TypeOK, Phases, InCommit, Read
  <2>3. b \in valid
    BY <1>1, NoBlockNot DEF Locks, TypeOK
  <2>4. \A c \in Block : c \notin Range(lh') /\ (\A q \in Proc : buf'[q] # c)
                       => c \notin Range(lh) /\ \A q \in Proc : buf[q] # c
    BY <1>1, <2>1 DEF TypeOK
  <2>5. \A i \in 1..Len(lh') : lh'[i] \in dirty'
    <3>1. \A i \in 1..Len(lh) : lh[i] \in dirty
      BY <2>1, <2>2 DEF Data, Installing, InCommit
    <3>2. \A i \in 1..(Len(lh) + 1) : i \in 1..Len(lh) \/ i = Len(lh) + 1
      BY <1>1
    <3> QED BY <1>1, <2>1, <3>1, <3>2
  <2> QED BY <2>1, <2>2, <2>3, <2>4, <2>5 DEF Data, Installing, InCommit
<1> QED BY <1>2, <1>3, <1>4, <1>5, <1>6, <1>7 DEF IInv

LEMMA EndOpStep ==
  ASSUME IInv, NEW p \in Proc, EndOp(p)
  PROVE  IInv'
<1> USE Parts, LogAssumption DEF EndOp, At, Goes, LastCall, WakeAll, diskVars, bufVars, logVars, procVars, bounds
<1>1. /\ Active' = Active \ {p} /\ p \in Active /\ ~committing
      /\ outstanding' = Cardinality(Active') /\ outstanding' \in Nat
      /\ outstanding = 1 <=> Active' = {}
      /\ Pending' \in SUBSET Pending
      /\ committing' = (outstanding = 1)
      /\ pc'[p] = IF outstanding = 1 THEN "commit" ELSE "idle"
      /\ \A q \in Proc \ {p} : pc'[q] = pc[q] \/ (pc[q] = "sleep" /\ pc'[q] = "begin")
  <2>1. ~committing /\ p \in Active
    BY DEF TypeOK, Active, InOp, Phases
  <2>2. /\ committing' = (outstanding = 1)
        /\ pc'[p] = IF outstanding = 1 THEN "commit" ELSE "idle"
        /\ \A q \in Proc \ {p} : pc'[q] = pc[q] \/ (pc[q] = "sleep" /\ pc'[q] = "begin")
    BY <2>1 DEF TypeOK
  <2>3. Active' = Active \ {p}
    BY <2>1, <2>2 DEF Active, InOp
  <2>4. /\ IsFiniteSet(Active \ {p})
        /\ Cardinality(Active \ {p}) = outstanding - 1
        /\ Cardinality(Active \ {p}) \in Nat
    BY <2>1, FiniteSets, FS_RemoveElement, FS_CardinalityType DEF Phases
  <2>5. outstanding = 1 <=> Active' = {}
    <3>1. Cardinality(Active \ {p}) = 0 <=> Active \ {p} = {}
      BY <2>4, FS_EmptySet
    <3>2. outstanding \in Nat
      BY DEF TypeOK
    <3> QED BY <2>3, <2>4, <3>1, <3>2
  <2>6. Pending' \in SUBSET Pending
    BY <2>3 DEF Pending
  <2> QED BY <2>1, <2>2, <2>3, <2>4, <2>5, <2>6
<1>2. TypeOK'
  <2>1. pc' \in [Proc -> {"down", "idle", "begin", "sleep"} \union InOp \union InCommit]
    BY SMTT(30) DEF TypeOK, InOp, InCommit
  <2> QED BY <1>1, <2>1 DEF TypeOK
<1>3. Phases'
  <2>1. boot = "up" /\ boot' = "up"
    OBVIOUS
  <2>2. \A q \in Proc : pc[q] \notin InCommit /\ pc[q] # "down"
    BY <1>1, <2>1 DEF Phases, InCommit
  <2>3. \A q \in Proc : pc'[q] # "down" /\ (pc'[q] \in InCommit => q = p)
    BY <1>1, <2>2 DEF InCommit
  <2>4. committing' <=> \E q \in Proc : pc'[q] \in InCommit
    BY <1>1, <2>3 DEF InCommit
  <2>5. committing' => Active' = {}
    BY <1>1
  <2> QED BY <1>1, <2>1, <2>3, <2>4, <2>5 DEF Phases
<1>4. Locks'
  <2>1. buf' = buf
    OBVIOUS
  <2>2. \A q \in Proc : pc'[q] \in {"log_write", "append", "panic"} <=> pc[q] \in {"log_write", "append", "panic"}
    BY <1>1
  <2> QED BY <2>1, <2>2 DEF Locks
<1>5. Budget'
  <2>1. Cardinality(Pending') \in Nat /\ Cardinality(Pending') <= Cardinality(Pending)
    BY <1>1, FiniteSets, FS_Subset, FS_CardinalityType
  <2>2. UNCHANGED <<lh, head, wrote, buf>>
    OBVIOUS
  <2>3. Len(lh)' + Cardinality(Pending)' <= LOGSIZE
    BY <2>1, <2>2, Fits, FiniteSets DEF Budget
  <2> QED BY <1>1, <2>2, <2>3 DEF Budget
<1>6. Headers'
  <2>1. boot = "up" /\ UNCHANGED <<boot, lh, head, tail>>
    OBVIOUS
  <2>2. \A q \in Proc : pc[q] \notin InCommit /\ pc'[q] \notin InCommit \ {"commit"}
    BY <1>1 DEF Phases, InCommit
  <2>3. ~Installing /\ ~Installing'
    BY <2>1, <2>2 DEF Installing, InCommit
  <2> QED BY <1>1, <2>1, <2>2, <2>3 DEF Headers, InCommit
<1>7. Data'
  <2>1. boot = "up" /\ UNCHANGED <<boot, disk, logdisk, bufVars, lh, buf, tail>>
    OBVIOUS
  <2>2. \A q \in Proc : pc[q] \notin InCommit /\ pc'[q] \notin InCommit \ {"commit"}
    BY <1>1 DEF Phases, InCommit
  <2> QED BY <2>1, <2>2 DEF Data, Installing, InCommit, Read
<1> QED BY <1>2, <1>3, <1>4, <1>5, <1>6, <1>7 DEF IInv

LEMMA CommitNothingStep ==
  ASSUME IInv, NEW p \in Proc, CommitNothing(p)
  PROVE  IInv'
<1> USE Parts, LogAssumption DEF CommitNothing, At, Goes, diskVars, bufVars, logVars, procVars, bounds
<1>1. Active' = Active /\ Pending' = Pending
  BY DEF TypeOK, Active, Pending, InOp, InCommit
<1>2. TypeOK'
  BY DEF TypeOK, InOp, InCommit, Content
<1>3. Phases'
  BY <1>1 DEF TypeOK, Phases, InOp, InCommit
<1>4. Locks'
  BY DEF TypeOK, Locks
<1>5. Budget'
  BY <1>1 DEF TypeOK, Budget
<1>6. Headers'
  BY <1>1 DEF TypeOK, Headers, Installing, Phases, InCommit
<1>7. Data'
  BY DEF TypeOK, Data, Read, Installing
<1> QED BY <1>2, <1>3, <1>4, <1>5, <1>6, <1>7 DEF IInv

LEMMA CommitStartStep ==
  ASSUME IInv, NEW p \in Proc, CommitStart(p)
  PROVE  IInv'
<1> USE Parts, LogAssumption DEF CommitStart, At, Goes, diskVars, bufVars, logVars, procVars, bounds
<1>1. Active' = Active /\ Pending' = Pending
  BY DEF TypeOK, Active, Pending, InOp, InCommit
<1>2. TypeOK'
  BY DEF TypeOK, InOp, InCommit, Content
<1>3. Phases'
  BY <1>1 DEF TypeOK, Phases, InOp, InCommit
<1>4. Locks'
  BY DEF TypeOK, Locks
<1>5. Budget'
  BY <1>1 DEF TypeOK, Budget
<1>6. Headers'
  BY <1>1 DEF TypeOK, Headers, Installing, Phases, InCommit
<1>7. Data'
  <2>1. 1..tail' = {} /\ 1..0 = {}
    OBVIOUS
  <2>2. UNCHANGED <<disk, logdisk, valid, cache, dirty, lh, buf, boot>>
    OBVIOUS
  <2>3. \A q \in Proc : pc'[q] = "install" <=> pc[q] = "install"
    BY DEF TypeOK
  <2>4. ~Installing
    BY DEF Installing, Phases, InCommit
  <2> QED BY <2>1, <2>2, <2>3, <2>4 DEF TypeOK, Data, Read, Installing
<1> QED BY <1>2, <1>3, <1>4, <1>5, <1>6, <1>7 DEF IInv

LEMMA WriteLogStep ==
  ASSUME IInv, NEW p \in Proc, WriteLog(p)
  PROVE  IInv'
<1> USE Parts, LogAssumption DEF WriteLog, At, Goes, diskVars, bufVars, logVars, procVars, bounds
<1>1. Active' = Active /\ Pending' = Pending
  BY DEF TypeOK, Active, Pending, InOp, InCommit
<1>2. TypeOK'
  BY AtTail, ReadType DEF TypeOK, InOp, InCommit
<1>3. Phases'
  BY <1>1 DEF TypeOK, Phases, InOp, InCommit
<1>4. Locks'
  BY DEF TypeOK, Locks
<1>5. Budget'
  BY <1>1 DEF TypeOK, Budget
<1>6. Headers'
  BY <1>1 DEF TypeOK, Headers, Installing, Phases, InCommit
<1>7. Data'
  <2>1. /\ logdisk' = [logdisk EXCEPT ![tail + 1] = Read(lh[tail + 1])]
        /\ tail' = tail + 1
        /\ UNCHANGED <<disk, valid, cache, dirty, lh, buf, boot, pc>>
    OBVIOUS
  <2>2. ~Installing
    BY DEF Installing, Phases, InCommit
  <2>3. \A c : Read(c)' = Read(c)
    BY <2>1 DEF Read
  <2>4. \A i \in 1..tail' : logdisk'[i] = Read(lh[i])'
    BY <2>1, <2>3, AtTail DEF TypeOK, Data
  <2> QED BY <2>1, <2>2, <2>3, <2>4 DEF TypeOK, Data, Installing
<1> QED BY <1>2, <1>3, <1>4, <1>5, <1>6, <1>7 DEF IInv

LEMMA WriteHeadStep ==
  ASSUME IInv, NEW p \in Proc, WriteHead(p)
  PROVE  IInv'
<1> USE Parts, LogAssumption DEF WriteHead, At, Goes, Written, diskVars, bufVars, logVars, procVars, bounds
<1>1. Active' = Active /\ Pending' = Pending
  BY DEF TypeOK, Active, Pending, InOp, InCommit
<1>2. TypeOK'
  BY DEF TypeOK, InOp, InCommit, Content
<1>3. Phases'
  BY <1>1 DEF TypeOK, Phases, InOp, InCommit
<1>4. Locks'
  BY DEF TypeOK, Locks
<1>5. Budget'
  BY <1>1, Fits DEF TypeOK, Budget
<1>6. Headers'
  BY <1>1 DEF TypeOK, Headers, Installing, Phases, InCommit
<1>7. Data'
  <2>1. /\ boot = "up" /\ tail' = 0 /\ tail = Len(lh) /\ 1..0 = {}
        /\ UNCHANGED <<boot, disk, logdisk, valid, cache, dirty, lh, buf>>
    OBVIOUS
  <2>2. \A q \in Proc : pc[q] # "install" /\ pc'[q] # "write_log"
    BY DEF Phases, InCommit, TypeOK
  <2>3. \A i \in 1..Len(lh) : logdisk[i] = Read(lh[i]) /\ lh[i] \in dirty
    BY <2>1, <2>2 DEF Data, Installing
  <2>4. \A c : Read(c)' = Read(c)
    BY <2>1 DEF Read
  <2> QED BY <2>1, <2>2, <2>3, <2>4 DEF Data
<1> QED BY <1>2, <1>3, <1>4, <1>5, <1>6, <1>7 DEF IInv

LEMMA InstallStep ==
  ASSUME IInv, NEW p \in Proc, Install(p)
  PROVE  IInv'
<1> USE Parts, LogAssumption DEF Install, At, Goes, InstallBlock, diskVars, bufVars, logVars, procVars, bounds
<1>1. Active' = Active /\ Pending' = Pending
  BY DEF TypeOK, Active, Pending, InOp, InCommit
<1>2. TypeOK'
  BY AtTail DEF TypeOK, InOp, InCommit
<1>3. Phases'
  BY <1>1 DEF TypeOK, Phases, InOp, InCommit
<1>4. Locks'
  BY DEF TypeOK, Locks
<1>5. Budget'
  BY <1>1 DEF TypeOK, Budget
<1>6. Headers'
  BY <1>1 DEF TypeOK, Headers, Installing, Phases, InCommit
<1>7. Data'
  <2> DEFINE b == lh[tail + 1]
  <2>1. /\ boot = "up" /\ tail' = tail + 1
        /\ disk' = [disk EXCEPT ![b] = logdisk[tail + 1]]
        /\ valid' = valid \union {b} /\ dirty' = dirty \ {b}
        /\ cache' = [cache EXCEPT ![b] = logdisk[tail + 1]]
        /\ UNCHANGED <<boot, logdisk, lh, buf, pc>>
        /\ Installing /\ Installing'
    BY DEF Installing
  <2>2. /\ b \in Block /\ b \in Range(lh) /\ tail + 1 \in 1..Len(lh) /\ tail \in Nat
        /\ \A i \in 1..(tail + 1) : i \in 1..tail \/ i = tail + 1
        /\ \A i \in 1..tail : i \in 1..Len(lh) /\ lh[i] # b /\ lh[i] \in Block
    BY AtTail DEF TypeOK
  <2>3. Read(b) = logdisk[tail + 1]
    BY <2>2 DEF Data
  <2>4. \A c \in Block : Read(c)' = Read(c)
    BY <2>1, <2>2, <2>3 DEF TypeOK, Read
  <2>5. \A c \in Block \ {b} : disk'[c] = disk[c]
    BY <2>1 DEF TypeOK
  <2>6. disk'[b] = logdisk[tail + 1]
    BY <2>1, <2>2 DEF TypeOK
  <2>7. \A i \in 1..Len(lh) : lh[i] \in dirty' \/ i <= tail'
    <3> SUFFICES ASSUME NEW i \in 1..Len(lh), ~(i <= tail + 1)
                 PROVE  lh[i] \in dirty'
      BY <2>1
    <3>1. lh[i] \in dirty
      BY <2>2 DEF Data
    <3>2. lh[i] # b
      BY <2>2 DEF Headers, Distinct
    <3> QED BY <2>1, <3>1, <3>2
  <2>8. \A i \in 1..tail' : disk'[lh[i]] = logdisk[i]
    BY <2>1, <2>2, <2>5, <2>6 DEF Data
  <2>9. \A i \in 1..Len(lh) : lh[i] \in Block
    BY LhFacts DEF TypeOK
  <2>10. \A q \in Proc : pc[q] # "write_log"
    BY DEF Phases, InCommit
  <2>11. \A c \in Block : c \notin Range(lh) /\ (\A q \in Proc : buf[q] # c) => Read(c)' = disk'[c]
    BY <2>1, <2>2, <2>4, <2>5 DEF Data
  <2>12. \A i \in 1..Len(lh) : logdisk[i] = Read(lh[i])'
    BY <2>4, <2>9 DEF Data
  <2>13. dirty' \subseteq valid'
    BY <2>1 DEF Data
  <2> QED BY <2>1, <2>7, <2>8, <2>10, <2>11, <2>12, <2>13 DEF Data
<1> QED BY <1>2, <1>3, <1>4, <1>5, <1>6, <1>7 DEF IInv

LEMMA EraseHeadStep ==
  ASSUME IInv, NEW p \in Proc, EraseHead(p)
  PROVE  IInv'
<1> USE Parts, LogAssumption DEF EraseHead, At, Goes, Installed, diskVars, bufVars, logVars, procVars, bounds
<1>1. Active' = Active /\ Pending' = Pending
  BY DEF TypeOK, Active, Pending, InOp, InCommit
<1>2. TypeOK'
  BY DEF TypeOK, InOp, InCommit, Content
<1>3. Phases'
  BY <1>1 DEF TypeOK, Phases, InOp, InCommit
<1>4. Locks'
  BY DEF TypeOK, Locks
<1>5. Budget'
  <2>1. Active = {}
    BY DEF Phases, InCommit
  <2>2. Pending = {} /\ Cardinality({}) = 0
    BY <2>1, FS_EmptySet DEF Pending
  <2>3. Cardinality(Pending)' = 0
    BY <1>1, <2>2
  <2> QED BY <1>1, <2>1, <2>3, EmptyFacts DEF Budget
<1>6. Headers'
  <2>1. /\ lh' = <<>> /\ head' = <<>> /\ boot = "up" /\ boot' = "up"
    OBVIOUS
  <2>2. \A q \in Proc : pc'[q] \notin {"install", "write_log"}
    BY DEF TypeOK, Phases, InCommit
  <2> QED BY <2>1, <2>2, EmptyFacts DEF Headers, Installing
<1>7. Data'
  <2>1. /\ lh' = <<>> /\ boot = "up" /\ tail = Len(lh) /\ Installing
        /\ UNCHANGED <<boot, disk, logdisk, valid, cache, dirty, buf, tail>>
    BY DEF Installing
  <2>2. \A q \in Proc : pc'[q] \notin {"install", "write_log"}
    BY DEF TypeOK, Phases, InCommit
  <2>3. \A q \in Proc : buf[q] = NoBlock
    BY DEF Phases, Active, InCommit, InOp, Locks
  <2>4. \A c \in Block : Read(c) = disk[c]
    <3> SUFFICES ASSUME NEW c \in Block PROVE Read(c) = disk[c]
      OBVIOUS
    <3>1. CASE c \in Range(lh)
      <4>1. PICK i \in 1..Len(lh) : lh[i] = c
        BY <3>1, LhFacts
      <4> QED BY <2>1, <4>1 DEF Data
    <3>2. CASE c \notin Range(lh)
      BY <2>1, <2>3, <3>2, NoBlockNot DEF Data
    <3> QED BY <3>1, <3>2
  <2>5. \A c : Read(c)' = Read(c)
    BY <2>1 DEF Read
  <2>6. 1..Len(lh') = {}
    BY <2>1, EmptyFacts
  <2> QED BY <2>1, <2>2, <2>4, <2>5, <2>6 DEF Data, Installing
<1> QED BY <1>2, <1>3, <1>4, <1>5, <1>6, <1>7 DEF IInv

LEMMA CommitDoneStep ==
  ASSUME IInv, NEW p \in Proc, CommitDone(p)
  PROVE  IInv'
<1> USE Parts, LogAssumption DEF CommitDone, At, Goes, WakeAll, diskVars, bufVars, logVars, procVars, bounds
<1>1. Active' = Active /\ Pending' = Pending
  BY DEF TypeOK, Active, Pending, InOp, InCommit
<1>2. TypeOK'
  BY DEF TypeOK, InOp, InCommit, Content
<1>3. Phases'
  BY <1>1 DEF TypeOK, Phases, InOp, InCommit
<1>4. Locks'
  BY DEF TypeOK, Locks
<1>5. Budget'
  BY <1>1 DEF TypeOK, Budget
<1>6. Headers'
  BY <1>1 DEF TypeOK, Headers, Installing, Phases, InCommit
<1>7. Data'
  BY DEF TypeOK, Data, Read, Installing
<1> QED BY <1>2, <1>3, <1>4, <1>5, <1>6, <1>7 DEF IInv

LEMMA CrashStep ==
  ASSUME IInv, Crash
  PROVE  IInv'
<1> USE Parts, LogAssumption DEF Crash, At, Goes, diskVars, bufVars, logVars, procVars, bounds
<1>1. Active' = {} /\ Pending' = {} /\ \A q \in Proc : pc'[q] = "down"
  BY DEF Active, Pending, InOp
<1>2. TypeOK'
  <2>1. lh' \in Seq(Block)
    BY EmptyFacts
  <2>2. cache' \in [Block -> Content] /\ pc' \in [Proc -> {"down"}]
    BY DEF Content
  <2>3. crashes' \in 0..MaxCrashes /\ UNCHANGED <<disk, logdisk, head, writes>>
    BY DEF TypeOK
  <2>4. buf' \in [Proc -> {NoBlock}] /\ wrote' \in [Proc -> {{}}]
    OBVIOUS
  <2> QED BY <2>1, <2>2, <2>3, <2>4 DEF TypeOK
<1>3. Phases'
  <2>1. boot' # "up" /\ ~committing' /\ outstanding' = 0
    OBVIOUS
  <2>2. Cardinality(Active') = 0
    BY <1>1, FS_EmptySet
  <2>3. \A q \in Proc : pc'[q] \notin InCommit
    BY <1>1 DEF InCommit
  <2> QED BY <1>1, <2>1, <2>2, <2>3 DEF Phases
<1>4. Locks'
  BY DEF TypeOK, Locks
<1>5. Budget'
  <2>1. Cardinality(Pending') = 0
    BY <1>1, FS_EmptySet
  <2> QED BY <1>1, <2>1, EmptyFacts DEF TypeOK, Budget
<1>6. Headers'
  BY <1>1, EmptyFacts DEF Headers, Installing
<1>7. Data'
  BY DEF TypeOK, Data, Read, Installing
<1> QED BY <1>2, <1>3, <1>4, <1>5, <1>6, <1>7 DEF IInv

LEMMA ReadHeadStep ==
  ASSUME IInv, ReadHead
  PROVE  IInv'
<1> USE Parts, LogAssumption DEF ReadHead, At, Goes, diskVars, bufVars, logVars, procVars, bounds
<1>1. /\ Active = {} /\ Pending = {} /\ Active' = {} /\ Pending' = {}
      /\ \A q \in Proc : pc[q] = "down" /\ buf[q] = NoBlock
  BY DEF TypeOK, Active, Pending, InOp, Phases, Locks
<1>2. TypeOK'
  BY DEF TypeOK, InOp, InCommit, Content
<1>3. Phases'
  BY <1>1 DEF TypeOK, Phases, InOp, InCommit
<1>4. Locks'
  BY DEF TypeOK, Locks
<1>5. Budget'
  <2>1. Cardinality(Pending') = 0
    BY <1>1, FS_EmptySet
  <2> QED BY <1>1, <2>1, EmptyFacts DEF TypeOK, Budget
<1>6. Headers'
  BY <1>1 DEF TypeOK, Headers, Installing, Phases, InCommit
<1>7. Data'
  <2>1. 1..0 = {} /\ tail' = 0 /\ lh' = head /\ boot' = "install"
    OBVIOUS
  <2> QED BY <1>1, <2>1 DEF Data, Installing
<1> QED BY <1>2, <1>3, <1>4, <1>5, <1>6, <1>7 DEF IInv

LEMMA RecoverBlockStep ==
  ASSUME IInv, RecoverBlock
  PROVE  IInv'
<1> USE Parts, LogAssumption DEF RecoverBlock, At, Goes, InstallBlock, diskVars, bufVars, logVars, procVars, bounds
<1>1. Active' = Active /\ Pending' = Pending
  BY DEF TypeOK, Active, Pending, InOp, InCommit
<1>2. TypeOK'
  BY AtTail DEF TypeOK, InOp, InCommit
<1>3. Phases'
  BY <1>1 DEF TypeOK, Phases, InOp, InCommit
<1>4. Locks'
  BY DEF TypeOK, Locks
<1>5. Budget'
  BY <1>1 DEF TypeOK, Budget
<1>6. Headers'
  BY <1>1 DEF TypeOK, Headers, Installing, Phases, InCommit
<1>7. Data'
  <2> DEFINE b == lh[tail + 1]
  <2>1. /\ boot = "install" /\ tail' = tail + 1
        /\ disk' = [disk EXCEPT ![b] = logdisk[tail + 1]]
        /\ valid' = valid \union {b} /\ dirty' = dirty \ {b}
        /\ cache' = [cache EXCEPT ![b] = logdisk[tail + 1]]
        /\ UNCHANGED <<boot, logdisk, lh, buf, pc>>
        /\ Installing /\ Installing'
    BY DEF Installing
  <2>2. /\ b \in Block /\ tail \in Nat /\ tail + 1 \in 1..(tail + 1)
        /\ \A i \in 1..(tail + 1) : i \in 1..tail \/ i = tail + 1
        /\ \A i \in 1..tail : i \in 1..(tail + 1) /\ lh[i] # b /\ lh[i] \in Block
    BY AtTail DEF TypeOK
  <2>3. \A i \in 1..tail' : disk'[lh[i]] = logdisk[i]
    BY <2>1, <2>2 DEF Data, TypeOK
  <2>4. \A c \in valid' : \E i \in 1..tail' : lh[i] = c /\ cache'[c] = logdisk[i]
    <3>1. cache'[b] = logdisk[tail + 1]
      BY <2>1, <2>2 DEF TypeOK
    <3> SUFFICES ASSUME NEW c \in valid, c # b
                 PROVE  \E i \in 1..(tail + 1) : lh[i] = c /\ cache'[c] = logdisk[i]
      BY <2>1, <2>2, <3>1
    <3>2. PICK i \in 1..tail : lh[i] = c /\ cache[c] = logdisk[i]
      BY <2>1 DEF Data
    <3> QED BY <2>1, <2>2, <3>2 DEF TypeOK
  <2>5. \A q \in Proc : pc[q] = "down"
    BY <2>1 DEF Phases
  <2>6. dirty' = {}
    BY <2>1 DEF Data
  <2> QED BY <2>1, <2>3, <2>4, <2>5, <2>6 DEF Data
<1> QED BY <1>2, <1>3, <1>4, <1>5, <1>6, <1>7 DEF IInv

LEMMA ClearLogStep ==
  ASSUME IInv, ClearLog
  PROVE  IInv'
<1> USE Parts, LogAssumption DEF ClearLog, At, Goes, Installed, diskVars, bufVars, logVars, procVars, bounds
<1>1. /\ Active = {} /\ Pending = {} /\ Active' = {} /\ Pending' = {}
      /\ \A q \in Proc : pc[q] = "down" /\ buf[q] = NoBlock
  BY DEF TypeOK, Active, Pending, InOp, Phases, Locks
<1>2. TypeOK'
  BY DEF TypeOK, InOp, InCommit, Content
<1>3. Phases'
  BY <1>1 DEF TypeOK, Phases, InOp, InCommit
<1>4. Locks'
  BY <1>1 DEF TypeOK, Locks
<1>5. Budget'
  <2>1. Cardinality(Pending') = 0
    BY <1>1, FS_EmptySet
  <2> QED BY <1>1, <2>1, EmptyFacts DEF TypeOK, Budget
<1>6. Headers'
  BY EmptyFacts DEF Headers, Installing
<1>7. Data'
  BY DEF TypeOK, Data, Read, Installing
<1> QED BY <1>2, <1>3, <1>4, <1>5, <1>6, <1>7 DEF IInv

LEMMA Start ==
  Init => IInv
<1> SUFFICES ASSUME Init PROVE IInv
  OBVIOUS
<1> USE LogAssumption, EmptyFacts DEF Init
<1>1. TypeOK
  <2>1. lh \in Seq(Block) /\ head \in Seq(Block)
    OBVIOUS
  <2>2. /\ disk \in [Block -> Content] /\ cache \in [Block -> Content]
        /\ logdisk \in [1..LOGSIZE -> Content]
    BY DEF Content
  <2>3. /\ pc \in [Proc -> {"down"}] /\ buf \in [Proc -> {NoBlock}]
        /\ wrote \in [Proc -> {{}}]
    OBVIOUS
  <2>4. writes \in 0..MaxWrites /\ crashes \in 0..MaxCrashes
    OBVIOUS
  <2>5. /\ valid = {} /\ dirty = {} /\ outstanding = 0 /\ committing = FALSE
        /\ tail = 0 /\ boot = "read_head"
    OBVIOUS
  <2> HIDE DEF Init
  <2> QED BY <2>1, <2>2, <2>3, <2>4, <2>5 DEF TypeOK
<1>2. Active = {} /\ Pending = {} /\ Cardinality({}) = 0
  BY FS_EmptySet DEF Active, Pending, InOp
<1>3. Phases
  BY <1>2 DEF Phases, InCommit
<1>4. Locks
  BY DEF Locks
<1>5. Budget
  BY <1>2 DEF Budget
<1>6. Headers
  BY DEF Headers, Installing
<1>7. Data
  BY DEF Data, Installing
<1> QED BY <1>1, <1>3, <1>4, <1>5, <1>6, <1>7 DEF IInv

\* IInv does not depend on the bounds.
LEMMA Stutter ==
  ASSUME IInv, UNCHANGED vars
  PROVE  IInv'
<1> USE Parts DEF vars, diskVars, bufVars, logVars, procVars, bounds
<1>1. TypeOK'
  BY DEF TypeOK
<1>2. Active' = Active /\ Pending' = Pending
  BY DEF Active, Pending
<1>3. Phases'
  BY <1>2 DEF Phases
<1>4. Locks'
  BY DEF Locks
<1>5. Budget'
  BY <1>2 DEF Budget
<1>6. Headers'
  BY <1>2 DEF Headers, Installing
<1>7. Data'
  BY DEF Data, Installing, Read
<1> QED BY <1>1, <1>3, <1>4, <1>5, <1>6, <1>7 DEF IInv

\* IInv is an invariant of log.c.
THEOREM Invariance == Spec => []IInv
<1>1. ASSUME IInv, [Next]_vars
      PROVE  IInv'
  <2>1. ASSUME NEW p \in Proc, Call(p) \/ Operation(p) \/ Commit(p)
        PROVE  IInv'
    <3>1. CASE Call(p)
      BY <1>1, <3>1, CallStep
    <3>2. CASE Operation(p)
      <4>1. ASSUME NEW b \in Block, Modify(p, b) \/ LogWrite(p, b)
            PROVE  IInv'
        BY <1>1, <4>1, ModifyStep, LogWriteStep
      <4> QED BY <1>1, <3>2, <4>1, BeginSleepStep, BeginOpStep, LogWriteTestStep, EndOpStep
                 DEF Operation
    <3>3. CASE Commit(p)
      BY <1>1, <3>3, CommitNothingStep, CommitStartStep, WriteLogStep, WriteHeadStep,
         InstallStep, EraseHeadStep, CommitDoneStep DEF Commit
    <3> QED BY <2>1, <3>1, <3>2, <3>3
  <2>2. ASSUME NEW b \in Block, Evict(b)
        PROVE  IInv'
    BY <1>1, <2>2, EvictStep
  <2>3. CASE Recover
    BY <1>1, <2>3, ReadHeadStep, RecoverBlockStep, ClearLogStep DEF Recover
  <2>4. CASE Crash
    BY <1>1, <2>4, CrashStep
  <2>5. CASE UNCHANGED vars
    BY <1>1, <2>5, Stutter
  <2> QED BY <1>1, <2>1, <2>2, <2>3, <2>4, <2>5 DEF Next
<1> QED BY Start, <1>1, PTL DEF Spec

\* Every variable of log.c's model keeps its type.
THEOREM TypeCorrect == Spec => []TypeOK
<1>1. IInv => TypeOK
  BY DEF IInv
<1> QED BY Invariance, <1>1, PTL

\* begin_op() reserves enough: struct logheader never overflows, however
\* calls interleave, although log_write() tests the space without the lock.
THEOREM LogNeverOverflows == Spec => []LogFits
<1>1. IInv => LogFits
  BY Fits DEF LogFits
<1> QED BY Invariance, <1>1, PTL

\* No call is active during a commit, and end_op() never panics.
THEOREM CommitsAlone == Spec => []Quiesced
<1>1. ASSUME IInv PROVE Quiesced
  <2>1. Active = {} => outstanding = 0
    BY <1>1, Parts, FS_EmptySet DEF Phases
  <2> QED BY <1>1, <2>1, Parts DEF Quiesced, Phases
<1> QED BY Invariance, <1>1, PTL

\* With no call in progress, everything written survives a crash.
THEOREM QuietIsDurable == Spec => []DurableWhenQuiet
<1>1. ASSUME IInv PROVE DurableWhenQuiet
  <2> SUFFICES ASSUME boot = "up", outstanding = 0, ~committing, NEW b \in Block
               PROVE  Durable(b) = Read(b)
    BY DEF DurableWhenQuiet
  <2>1. Active = {}
    BY <1>1, Parts, FiniteSets, FS_EmptySet DEF Phases
  <2>2. \A p \in Proc : pc[p] \notin InCommit /\ buf[p] = NoBlock
    BY <1>1, <2>1, Parts DEF Phases, Locks, Active, InOp
  <2>3. head = <<>> /\ lh = <<>>
    BY <1>1, <2>1, <2>2, Parts DEF Headers, Installing, InCommit
  <2> QED BY <1>1, <2>2, <2>3, Parts, EmptyFacts, NoBlockNot DEF Data, Durable
<1> QED BY Invariance, <1>1, PTL

-----------------------------------------------------------------------------
(* Log implements TxDisk *)

LEMMA Invisible ==
  ASSUME \A b \in Block : Mem(b)' = Mem(b) /\ Durable(b)' = Durable(b),
         Active' = Active
  PROVE  UNCHANGED TX!tvars
<1>1. /\ [b \in Block |-> Mem(b)]' = [b \in Block |-> Mem(b)]
      /\ [b \in Block |-> Durable(b)]' = [b \in Block |-> Durable(b)]
  OBVIOUS
<1> QED BY <1>1 DEF TX!tvars

LEMMA Untouched ==
  ASSUME UNCHANGED <<diskVars, valid, cache, boot>>
  PROVE  \A b \in Block : Mem(b)' = Mem(b) /\ Durable(b)' = Durable(b)
BY DEF diskVars, Mem, Durable, Read

\* The steps that only move processes or change the log in memory.
LEMMA QuietStep ==
  ASSUME IInv, NEW p \in Proc,
         \/ Call(p) \/ BeginSleep(p) \/ LogWriteTest(p)
         \/ \E b \in Block : LogWrite(p, b)
         \/ CommitNothing(p) \/ CommitStart(p) \/ CommitDone(p)
  PROVE  UNCHANGED TX!tvars
<1>1. UNCHANGED <<diskVars, valid, cache, boot>>
  BY DEF Call, BeginSleep, LogWriteTest, LogWrite, CommitNothing, CommitStart,
         CommitDone, bufVars
<1>2. Active' = Active
  BY Parts DEF TypeOK, Active, InOp, Call, BeginSleep, LogWriteTest, LogWrite,
         CommitNothing, CommitStart, CommitDone, At, Goes, WakeAll
<1> QED BY <1>1, <1>2, Untouched, Invisible

\* A clean, unlocked buffer holds what the disk holds.
LEMMA EvictIsInvisible ==
  ASSUME IInv, NEW b \in Block, Evict(b)
  PROVE  UNCHANGED TX!tvars
<1> USE Parts
<1>1. /\ valid' = valid \ {b} /\ cache' = [cache EXCEPT ![b] = {}]
      /\ b \notin dirty /\ \A q \in Proc : buf[q] # b
      /\ UNCHANGED <<diskVars, boot, lh, pc>>
  BY DEF Evict, Evictable, logVars
<1>2. boot = "up" => Read(b) = disk[b]
  <2>1. CASE b \in Range(lh)
    <3>1. PICK i \in 1..Len(lh) : lh[i] = b
      BY <2>1, LhFacts DEF TypeOK
    <3> QED BY <1>1, <3>1 DEF TypeOK, Data, Installing, Headers
  <2> QED BY <1>1, <2>1 DEF Data
<1>3. boot = "up" => \A c \in Block : Read(c)' = Read(c)
  BY <1>1, <1>2 DEF TypeOK, Read, diskVars
<1>4. \A c \in Block : Durable(c)' = Durable(c)
  BY <1>1 DEF Durable, diskVars
<1>5. Active' = Active
  BY <1>1 DEF Active
<1> QED BY <1>1, <1>3, <1>4, <1>5, Invisible DEF Mem

LEMMA BeginOpIsBegin ==
  ASSUME IInv, NEW p \in Proc, BeginOp(p)
  PROVE  TX!Begin(p)
<1>1. UNCHANGED <<diskVars, valid, cache, boot>>
  BY DEF BeginOp, bufVars
<1>2. Active' = Active \union {p} /\ p \notin Active
  BY Parts DEF TypeOK, Active, InOp, BeginOp, At, Goes
<1>3. /\ [b \in Block |-> Mem(b)]' = [b \in Block |-> Mem(b)]
      /\ [b \in Block |-> Durable(b)]' = [b \in Block |-> Durable(b)]
  BY <1>1, Untouched
<1> QED BY <1>2, <1>3 DEF TX!Begin

LEMMA EndOpIsEnd ==
  ASSUME IInv, NEW p \in Proc, EndOp(p)
  PROVE  TX!End(p)
<1>1. UNCHANGED <<diskVars, valid, cache, boot>>
  BY DEF EndOp, bufVars
<1>2. p \in Active /\ ~committing
  BY Parts DEF TypeOK, Active, InOp, EndOp, At, Phases
<1>3. Active' = Active \ {p}
  BY <1>2, Parts DEF TypeOK, Active, InOp, EndOp, At, Goes, WakeAll
<1>4. /\ [b \in Block |-> Mem(b)]' = [b \in Block |-> Mem(b)]
      /\ [b \in Block |-> Durable(b)]' = [b \in Block |-> Durable(b)]
  BY <1>1, Untouched
<1> QED BY <1>2, <1>3, <1>4 DEF TX!End

LEMMA ModifyIsWrite ==
  ASSUME IInv, NEW p \in Proc, NEW b \in Block, Modify(p, b)
  PROVE  TX!Write(p, b)
<1> USE Parts
<1>1. /\ cache' = [cache EXCEPT ![b] = Read(b) \union {writes + 1}]
      /\ valid' = valid \union {b}
      /\ boot = "up" /\ UNCHANGED <<boot, diskVars>>
      /\ writes + 1 \in Writes
  BY LogAssumption DEF Modify, At, Writes, TypeOK
<1>2. \A c \in Block : Durable(c)' = Durable(c)
  BY <1>1 DEF Durable, diskVars
<1>3. \A c \in Block : Mem(c)' = IF c = b THEN Mem(c) \union {writes + 1} ELSE Mem(c)
  BY <1>1 DEF Mem, Read, TypeOK, diskVars
<1>4. p \in Active /\ Active' = Active
  BY DEF TypeOK, Active, InOp, Modify, At, Goes
<1>5. [c \in Block |-> Mem(c)]' =
        [[c \in Block |-> Mem(c)] EXCEPT ![b] = @ \union {writes + 1}]
  <2>1. [c \in Block |-> Mem(c)]' =
          [c \in Block |-> IF c = b THEN Mem(c) \union {writes + 1} ELSE Mem(c)]
    BY <1>3
  <2> QED BY <2>1
<1>6. [c \in Block |-> Durable(c)]' = [c \in Block |-> Durable(c)]
  BY <1>2
<1> QED BY <1>1, <1>4, <1>5, <1>6 DEF TX!Write

LEMMA WriteLogIsInvisible ==
  ASSUME IInv, NEW p \in Proc, WriteLog(p)
  PROVE  UNCHANGED TX!tvars
<1> USE Parts
<1>1. /\ boot = "up" /\ UNCHANGED <<boot, disk, head, valid, cache, pc>>
  BY DEF WriteLog, At, bufVars
<1>2. head = <<>>
  BY <1>1 DEF WriteLog, At, Headers, Installing, Phases, InCommit
<1>3. \A c \in Block : Durable(c)' = Durable(c) /\ Mem(c)' = Mem(c)
  BY <1>1, <1>2, EmptyFacts DEF Durable, Mem, Read
<1>4. Active' = Active
  BY <1>1 DEF Active
<1> QED BY <1>3, <1>4, Invisible

\* The write of the header makes everything durable at once.
LEMMA WriteHeadIsMakeDurable ==
  ASSUME IInv, NEW p \in Proc, WriteHead(p)
  PROVE  TX!MakeDurable
<1> USE Parts
<1>1. /\ boot = "up" /\ pc[p] = "write_log" /\ tail = Len(lh) /\ head' = lh
      /\ UNCHANGED <<boot, disk, logdisk, valid, cache, lh>>
      /\ pc' = [pc EXCEPT ![p] = "install"]
  BY DEF WriteHead, At, Goes, Written, bufVars, logVars
<1>2. Active = {} /\ Active' = {}
  <2>1. Active = {}
    BY <1>1 DEF Phases, InCommit
  <2> QED BY <1>1, <2>1 DEF Active, InOp, TypeOK
<1>3. \A q \in Proc : buf[q] = NoBlock
  BY <1>2 DEF Locks, Active, InOp
<1>4. \A c \in Block : Durable(c)' = Mem(c)
  <2> SUFFICES ASSUME NEW c \in Block PROVE Durable(c)' = Mem(c)
    OBVIOUS
  <2>1. CASE c \in Range(lh)
    <3> DEFINE i == CHOOSE k \in 1..Len(lh) : lh[k] = c
    <3>a. \E k \in 1..Len(lh) : lh[k] = c
      BY <2>1, LhFacts DEF TypeOK
    <3>1. i \in 1..Len(lh) /\ lh[i] = c
      BY <3>a
    <3>2. Durable(c)' = logdisk[i]
      BY <1>1, <2>1 DEF Durable
    <3>3. logdisk[i] = Read(c)
      BY <1>1, <3>1 DEF Data
    <3> QED BY <1>1, <3>2, <3>3 DEF Mem
  <2>2. CASE c \notin Range(lh)
    BY <1>1, <1>3, <2>2, NoBlockNot DEF Durable, Mem, Data
  <2> QED BY <2>1, <2>2
<1>5. \A c \in Block : Mem(c)' = Mem(c)
  BY <1>1 DEF Mem, Read
<1>6. /\ [c \in Block |-> Durable(c)]' = [c \in Block |-> Mem(c)]
      /\ [c \in Block |-> Mem(c)]' = [c \in Block |-> Mem(c)]
  BY <1>4, <1>5
<1> QED BY <1>2, <1>6 DEF TX!MakeDurable

\* A block of the log that goes home, in a commit or in recovery.
LEMMA InstallIsInvisible ==
  ASSUME IInv, Installing, InstallBlock
  PROVE  UNCHANGED TX!tvars
<1> USE Parts
<1> DEFINE b == lh[tail + 1]
<1>1. /\ tail < Len(lh)
      /\ disk' = [disk EXCEPT ![b] = logdisk[tail + 1]]
      /\ valid' = valid \union {b}
      /\ cache' = [cache EXCEPT ![b] = logdisk[tail + 1]]
      /\ UNCHANGED <<boot, logdisk, head, pc>>
  BY DEF InstallBlock
<1>2. b \in Block /\ tail + 1 \in 1..Len(lh) /\ b \in Range(lh) /\ lh = head
  BY <1>1, AtTail DEF Headers
<1>3. \A c \in Block : Durable(c)' = Durable(c)
  BY <1>1, <1>2 DEF Durable, TypeOK
<1>4. \A c \in Block : Mem(c)' = Mem(c)
  <2>1. CASE boot = "up"
    <3>1. Read(b) = logdisk[tail + 1]
      BY <1>2, <2>1 DEF Data, Installing
    <3> QED BY <1>1, <1>2, <2>1, <3>1 DEF Mem, Read, TypeOK
  <2>2. CASE boot # "up"
    BY <1>1, <1>3, <2>2 DEF Mem
  <2> QED BY <2>1, <2>2
<1>5. Active' = Active
  BY <1>1 DEF Active
<1> QED BY <1>3, <1>4, <1>5, Invisible

\* When all is installed the disk holds what the log holds.
LEMMA AllHome ==
  ASSUME IInv, Installing, tail = Len(lh)
  PROVE  \A c \in Block : Durable(c) = disk[c]
<1> SUFFICES ASSUME NEW c \in Range(head) PROVE Durable(c) = disk[c]
  BY DEF Durable
<1>1. head = lh /\ head \in Seq(Block) /\ Distinct(head)
  BY Parts DEF Headers, TypeOK
<1>2. PICK i \in 1..Len(head) : head[i] = c
  BY <1>1, SeqFacts
<1>3. Durable(c) = logdisk[i]
  BY <1>1, <1>2, OnlyThere
<1> QED BY <1>1, <1>2, <1>3, Parts DEF Data

LEMMA EraseIsInvisible ==
  ASSUME IInv, NEW p \in Proc, EraseHead(p)
  PROVE  UNCHANGED TX!tvars
<1>1. /\ boot = "up" /\ pc[p] = "install" /\ tail = Len(lh) /\ Installing /\ head' = <<>>
      /\ UNCHANGED <<boot, disk, logdisk, valid, cache>>
  BY DEF EraseHead, At, Installed, Installing, bufVars
<1>2. \A c \in Block : Durable(c)' = Durable(c) /\ Mem(c)' = Mem(c)
  BY <1>1, AllHome, EmptyFacts DEF Durable, Mem, Read
<1>3. Active' = Active
  BY Parts DEF Active, InOp, EraseHead, At, Goes, TypeOK
<1> QED BY <1>2, <1>3, Invisible

LEMMA CrashIsLose ==
  ASSUME IInv, Crash
  PROVE  TX!Lose
<1>1. boot' = "read_head" /\ UNCHANGED <<disk, logdisk, head>> /\ Active' = {}
  BY DEF Crash, diskVars, Active, InOp
<1>2. \A c \in Block : Durable(c)' = Durable(c) /\ Mem(c)' = Durable(c)
  BY <1>1 DEF Durable, Mem
<1>3. /\ [c \in Block |-> Mem(c)]' = [c \in Block |-> Durable(c)]
      /\ [c \in Block |-> Durable(c)]' = [c \in Block |-> Durable(c)]
  BY <1>2
<1> QED BY <1>1, <1>3 DEF TX!Lose

LEMMA ReadHeadIsInvisible ==
  ASSUME IInv, ReadHead
  PROVE  UNCHANGED TX!tvars
<1>1. boot # "up" /\ boot' # "up" /\ UNCHANGED <<disk, logdisk, head, pc>>
  BY DEF ReadHead, diskVars
<1>2. \A c \in Block : Durable(c)' = Durable(c) /\ Mem(c)' = Mem(c)
  BY <1>1 DEF Durable, Mem
<1> QED BY <1>1, <1>2, Invisible DEF Active

LEMMA ClearIsInvisible ==
  ASSUME IInv, ClearLog
  PROVE  UNCHANGED TX!tvars
<1> USE Parts
<1>1. /\ boot = "install" /\ boot' = "up" /\ head' = <<>> /\ tail = Len(lh) /\ Installing
      /\ UNCHANGED <<disk, logdisk, valid, cache>>
  BY DEF ClearLog, Installed, Installing, bufVars
<1>2. \A c \in Block : Durable(c) = disk[c] /\ Durable(c)' = disk[c]
  BY <1>1, AllHome, EmptyFacts DEF Durable
<1>3. \A c \in Block : Mem(c)' = disk[c] /\ Mem(c) = Durable(c)
  <2>1. \A c \in valid : cache[c] = disk[c]
    BY <1>1 DEF Data
  <2> QED BY <1>1, <2>1 DEF Mem, Read
<1>4. Active' = Active
  BY <1>1 DEF ClearLog, Active, InOp, Phases
<1> QED BY <1>2, <1>3, <1>4, Invisible

\* File system calls are atomic and durable: log.c, with crashes at any
\* point, implements the transactional disk.
THEOREM LogImplementsTxDisk == Spec => CrashAtomic
<1>1. Init => TX!TInit
  <2> SUFFICES ASSUME Init PROVE TX!TInit
    OBVIOUS
  <2>1. \A c \in Block : Durable(c) = {} /\ Mem(c) = {}
    BY EmptyFacts DEF Init, Durable, Mem
  <2>2. Active = {}
    BY DEF Init, Active, InOp
  <2> QED BY <2>1, <2>2 DEF TX!TInit, TX!Blank
<1>2. ASSUME IInv, [Next]_vars
      PROVE  [TX!TNext]_(TX!tvars)
  <2>1. ASSUME NEW p \in Proc, Call(p) \/ Commit(p)
        PROVE  TX!TNext \/ UNCHANGED TX!tvars
    <3>1. CASE WriteHead(p)
      BY <1>2, <3>1, WriteHeadIsMakeDurable DEF TX!TNext
    <3>2. CASE Install(p)
      BY <1>2, <3>2, InstallIsInvisible DEF Install, Installing, At
    <3>3. CASE EraseHead(p) \/ WriteLog(p)
      BY <1>2, <3>3, EraseIsInvisible, WriteLogIsInvisible
    <3>4. CASE Call(p) \/ CommitNothing(p) \/ CommitStart(p) \/ CommitDone(p)
      BY <1>2, <3>4, QuietStep
    <3> QED BY <2>1, <3>1, <3>2, <3>3, <3>4 DEF Commit
  <2>2. ASSUME NEW p \in Proc, Operation(p)
        PROVE  TX!TNext \/ UNCHANGED TX!tvars
    <3>1. CASE BeginOp(p)
      BY <1>2, <3>1, BeginOpIsBegin DEF TX!TNext
    <3>2. CASE EndOp(p)
      BY <1>2, <3>2, EndOpIsEnd DEF TX!TNext
    <3>3. ASSUME NEW b \in Block, Modify(p, b) PROVE TX!TNext
      BY <1>2, <3>3, ModifyIsWrite DEF TX!TNext
    <3>4. ASSUME BeginSleep(p) \/ LogWriteTest(p) \/ \E b \in Block : LogWrite(p, b)
          PROVE  UNCHANGED TX!tvars
      BY <1>2, <3>4, QuietStep
    <3> QED BY <2>2, <3>1, <3>2, <3>3, <3>4 DEF Operation
  <2>3. ASSUME NEW b \in Block, Evict(b)
        PROVE  UNCHANGED TX!tvars
    BY <1>2, <2>3, EvictIsInvisible
  <2>4. CASE Recover
    BY <1>2, <2>4, ReadHeadIsInvisible, InstallIsInvisible, ClearIsInvisible
       DEF Recover, RecoverBlock, Installing
  <2>5. CASE Crash
    BY <1>2, <2>5, CrashIsLose DEF TX!TNext
  <2>6. CASE UNCHANGED vars
    <3>1. UNCHANGED <<diskVars, valid, cache, boot>> /\ Active' = Active
      BY <2>6 DEF vars, bufVars, Active
    <3> QED BY <3>1, Untouched, Invisible
  <2> QED BY <1>2, <2>1, <2>2, <2>3, <2>4, <2>5, <2>6 DEF Next
<1> QED BY Invariance, <1>1, <1>2, PTL DEF Spec, CrashAtomic, TX!TSpec
=============================================================================
