----------------------------- MODULE PipeProofs -----------------------------
(***************************************************************************)
(* Theorems about pipe.c for any number of processes and any PIPESIZE:     *)
(* IInv is inductive, no wakeup is lost but by a killed writer, the page   *)
(* is freed last, the end of the file is reported at the end only, and the *)
(* pipe implements Channel.  Each action has a lemma of its own.           *)
(***************************************************************************)
EXTENDS PipeInv, FiniteSetTheorems, SequenceTheorems, TLAPS

(* The remainder: the facts about the wrap of the counters and of data.     *)

LEMMA ModSmall ==
  ASSUME NEW M \in Nat \ {0}, NEW x \in Nat, x < M
  PROVE  x % M = x
OBVIOUS

LEMMA ModOnce ==
  ASSUME NEW M \in Nat \ {0}, NEW x \in Nat, M <= x, x < 2 * M
  PROVE  x % M = x - M
OBVIOUS

LEMMA ModRange ==
  ASSUME NEW M \in Nat \ {0}, NEW x \in Nat
  PROVE  x % M \in 0..M - 1
OBVIOUS

\* a is a multiple of M: the products are named, which keeps them out of the
\* way of the solver.
LEMMA ModUnique ==
  ASSUME NEW M \in Nat \ {0}, NEW q \in Int, NEW a \in Int, a = M * q,
         NEW r \in 0..M - 1
  PROVE  (a + r) % M = r
<1>1. (M * q + r) % M = r
  OBVIOUS
<1> QED BY <1>1

LEMMA ModSplit ==
  ASSUME NEW M \in Nat \ {0}, NEW x \in Nat
  PROVE  \E q, a \in Int, r \in 0..M - 1 : a = M * q /\ r = x % M /\ x = a + r
<1>1. PICK q \in Int : q = x \div M
  OBVIOUS
<1>2. PICK r \in 0..M - 1 : r = x % M
  BY ModRange
<1>3. x % M = x - M * (x \div M)
  BY SMTT(30)
<1>4. PICK a \in Int : a = M * q
  OBVIOUS
<1>5. r = x - a
  BY <1>1, <1>2, <1>3, <1>4, Zenon
<1>6. x = a + r
  BY <1>5
<1> QED BY <1>2, <1>4, <1>6

LEMMA ModAddMultiple ==
  ASSUME NEW M \in Nat \ {0}, NEW x \in Nat, NEW k \in Nat, NEW b \in Int, b = M * k
  PROVE  (x + b) % M = x % M
<1>1. PICK q, a \in Int, r \in 0..M - 1 : a = M * q /\ r = x % M /\ x = a + r
  BY ModSplit
<1>2. x = a + r
  BY <1>1
<1>3. a + b = M * (q + k)
  BY <1>1
<1>4. PICK c \in Int : c = a + b
  OBVIOUS
<1>5. (c + r) % M = r
  BY <1>3, <1>4, ModUnique
<1>6. c + r = x + b
  BY <1>2, <1>4
<1> QED BY <1>1, <1>5, <1>6, Zenon

\* Two places less than M apart are not the same place of a ring of M.
LEMMA ModApart ==
  ASSUME NEW M \in Nat \ {0}, NEW x \in Nat, NEW k \in Nat, 0 < k, k < M
  PROVE  (x + k) % M # x % M
<1>1. PICK q, a \in Int, r \in 0..M - 1 : a = M * q /\ r = x % M /\ x = a + r
  BY ModSplit
<1>2. x = a + r
  BY <1>1
<1>3. CASE r + k < M
  <2>1. PICK s \in 0..M - 1 : s = r + k
    BY <1>3
  <2>2. (a + s) % M = s
    BY <1>1, ModUnique
  <2>3. a + s = x + k
    BY <1>2, <2>1
  <2>4. s # r
    BY <2>1
  <2> QED BY <1>1, <2>2, <2>3, <2>4, Zenon
<1>4. CASE r + k >= M
  <2>1. PICK s \in 0..M - 1 : s = r + k - M
    BY <1>4
  <2>2. PICK c \in Int : c = a + M
    OBVIOUS
  <2>3. c = M * (q + 1)
    BY <1>1, <2>2
  <2>4. (c + s) % M = s
    BY <2>3, ModUnique
  <2>5. c + s = x + k
    BY <1>2, <2>1, <2>2
  <2>6. s # r
    BY <2>1
  <2> QED BY <1>1, <2>4, <2>5, <2>6, Zenon
<1> QED BY <1>3, <1>4

-----------------------------------------------------------------------------
(* The counters.                                                            *)

LEMMA Distance ==
  ASSUME NEW n \in 0..CounterMod - 1, NEW w \in 0..CounterMod - 1,
         NEW d, d = (w + CounterMod - n) % CounterMod
  PROVE  /\ d \in 0..CounterMod - 1
         /\ n <= w => d = w - n
         /\ w < n => d = w + CounterMod - n
         /\ d = 0 <=> n = w
         /\ d = PIPESIZE <=> w = (n + PIPESIZE) % CounterMod
<1>1. CounterMod \in Nat \ {0} /\ PIPESIZE \in 1..CounterMod - 1
  BY PipeAssumption
<1>2. ASSUME n <= w PROVE d = w - n
  <2>1. PICK x \in Nat : x = w + CounterMod - n
    BY <1>1
  <2>2. CounterMod <= x /\ x < 2 * CounterMod
    BY <1>1, <1>2, <2>1
  <2>3. x % CounterMod = x - CounterMod
    BY <1>1, <2>2, ModOnce
  <2> QED BY <1>1, <2>1, <2>3
<1>3. ASSUME w < n PROVE d = w + CounterMod - n
  <2>1. PICK x \in Nat : x = w + CounterMod - n
    BY <1>1
  <2>2. x < CounterMod
    BY <1>1, <1>3, <2>1
  <2>3. x % CounterMod = x
    BY <1>1, <2>2, ModSmall
  <2> QED BY <1>1, <2>1, <2>3
<1>4. n + PIPESIZE < CounterMod => (n + PIPESIZE) % CounterMod = n + PIPESIZE
  BY <1>1, ModSmall
<1>5. ASSUME n + PIPESIZE >= CounterMod
      PROVE  (n + PIPESIZE) % CounterMod = n + PIPESIZE - CounterMod
  <2>1. PICK x \in Nat : x = n + PIPESIZE
    BY <1>1
  <2>2. CounterMod <= x /\ x < 2 * CounterMod
    BY <1>1, <1>5, <2>1
  <2>3. x % CounterMod = x - CounterMod
    BY <1>1, <2>2, ModOnce
  <2> QED BY <1>1, <2>1, <2>3
<1>6. d = PIPESIZE <=> w = (n + PIPESIZE) % CounterMod
  BY <1>1, <1>2, <1>3, <1>4, <1>5
<1> QED BY <1>1, <1>2, <1>3, <1>6

LEMMA StepOn ==
  ASSUME NEW n \in 0..CounterMod - 1
  PROVE  /\ (n + 1) % CounterMod \in 0..CounterMod - 1
         /\ (n + 1) % CounterMod = IF n = CounterMod - 1 THEN 0 ELSE n + 1
<1>1. CounterMod \in Nat \ {0} /\ CounterMod > 1
  BY PipeAssumption
<1>2. n = CounterMod - 1 => (n + 1) % CounterMod = 0
  BY <1>1, ModOnce
<1>3. n < CounterMod - 1 => (n + 1) % CounterMod = n + 1
  BY <1>1, ModSmall
<1> QED BY <1>1, <1>2, <1>3

LEMMA BytesFacts ==
  ASSUME TypeOK
  PROVE  /\ Bytes \in 0..CounterMod - 1
         /\ nread <= nwrite => Bytes = nwrite - nread
         /\ nwrite < nread => Bytes = nwrite + CounterMod - nread
         /\ Empty <=> Bytes = 0
         /\ Full <=> Bytes = PIPESIZE
<1>1. nread \in 0..CounterMod - 1 /\ nwrite \in 0..CounterMod - 1
  BY DEF TypeOK
<1> DEFINE d == (nwrite + CounterMod - nread) % CounterMod
<1>2. /\ d \in 0..CounterMod - 1
      /\ nread <= nwrite => d = nwrite - nread
      /\ nwrite < nread => d = nwrite + CounterMod - nread
      /\ d = 0 <=> nread = nwrite
      /\ d = PIPESIZE <=> nwrite = (nread + PIPESIZE) % CounterMod
  BY <1>1, Distance
<1>3. d = Bytes
  BY DEF Bytes
<1> HIDE DEF d
<1> QED BY <1>2, <1>3 DEF Empty, Full

\* A byte written is one byte more, a byte read one less, wherever they wrap.
LEMMA BytesWritten ==
  ASSUME TypeOK, Bytes < CounterMod - 1,
         nwrite' = (nwrite + 1) % CounterMod, nread' = nread
  PROVE  Bytes' = Bytes + 1 /\ nwrite' \in 0..CounterMod - 1
<1>1. /\ nread \in 0..CounterMod - 1 /\ nwrite \in 0..CounterMod - 1
      /\ CounterMod \in Nat /\ CounterMod > 1
  BY PipeAssumption DEF TypeOK
<1>2. /\ nwrite' \in 0..CounterMod - 1
      /\ nwrite' = IF nwrite = CounterMod - 1 THEN 0 ELSE nwrite + 1
  BY <1>1, StepOn
<1>3. /\ nread' <= nwrite' => Bytes' = nwrite' - nread'
      /\ nwrite' < nread' => Bytes' = nwrite' + CounterMod - nread'
  <2>1. nread' \in 0..CounterMod - 1 /\ nwrite' \in 0..CounterMod - 1
    BY <1>1, <1>2, Zenon
  <2>2. PICK n, w \in 0..CounterMod - 1 : n = nread' /\ w = nwrite'
    BY <2>1
  <2>3. /\ n <= w => (w + CounterMod - n) % CounterMod = w - n
        /\ w < n => (w + CounterMod - n) % CounterMod = w + CounterMod - n
    BY Distance
  <2> QED BY <2>2, <2>3 DEF Bytes
<1>4. /\ nread <= nwrite => Bytes = nwrite - nread
      /\ nwrite < nread => Bytes = nwrite + CounterMod - nread
  BY BytesFacts
<1> QED BY <1>1, <1>2, <1>3, <1>4

LEMMA BytesRead ==
  ASSUME TypeOK, Bytes > 0,
         nread' = (nread + 1) % CounterMod, nwrite' = nwrite
  PROVE  Bytes' = Bytes - 1 /\ nread' \in 0..CounterMod - 1
<1>1. /\ nread \in 0..CounterMod - 1 /\ nwrite \in 0..CounterMod - 1
      /\ CounterMod \in Nat /\ CounterMod > 1
  BY PipeAssumption DEF TypeOK
<1>2. /\ nread' \in 0..CounterMod - 1
      /\ nread' = IF nread = CounterMod - 1 THEN 0 ELSE nread + 1
  BY <1>1, StepOn
<1>3. /\ nread' <= nwrite' => Bytes' = nwrite' - nread'
      /\ nwrite' < nread' => Bytes' = nwrite' + CounterMod - nread'
  <2>1. nread' \in 0..CounterMod - 1 /\ nwrite' \in 0..CounterMod - 1
    BY <1>1, <1>2, Zenon
  <2>2. PICK n, w \in 0..CounterMod - 1 : n = nread' /\ w = nwrite'
    BY <2>1
  <2>3. /\ n <= w => (w + CounterMod - n) % CounterMod = w - n
        /\ w < n => (w + CounterMod - n) % CounterMod = w + CounterMod - n
    BY Distance
  <2> QED BY <2>2, <2>3 DEF Bytes
<1>4. /\ nread <= nwrite => Bytes = nwrite - nread
      /\ nwrite < nread => Bytes = nwrite + CounterMod - nread
  BY BytesFacts
<1> QED BY <1>1, <1>2, <1>3, <1>4

-----------------------------------------------------------------------------
(* A step inside piperead() or pipewrite() does not change the references.  *)

LEMMA CallFrame ==
  ASSUME IInv, UNCHANGED openVars, UNCHANGED fileVars,
         \A q \in Proc : pc'[q] = pc[q]
                         \/ {pc[q], pc'[q]} \cap {"fileclose", "pipeclose"} = {}
  PROVE  RefInv' /\ OpenInv'
<1>1. \A e \in End : Users(e)' = Users(e) /\ Closers(e)' = Closers(e) /\ (IsOpen(e) <=> IsOpen(e)')
  BY DEF Users, Closers, IsOpen, fileVars, openVars
<1>2. RefInv'
  BY <1>1 DEF IInv, RefInv, fileVars
<1>3. OpenInv'
  BY <1>1 DEF IInv, OpenInv, openVars
<1> QED BY <1>2, <1>3

LEMMA OpenFacts ==
  ASSUME IInv, NEW p \in Proc
  PROVE  /\ "w" \in ofile[p] => writeopen
         /\ "r" \in ofile[p] => readopen
<1>1. \A e \in End : e \in ofile[p] => IsOpen(e)
  BY DEF IInv, OpenInv, Users
<1> QED BY <1>1 DEF IsOpen, End

-----------------------------------------------------------------------------
(* One lemma per action: it preserves IInv.                                 *)

LEMMA WriteCallStep ==
  ASSUME IInv, NEW p \in Proc, NEW n \in Counts, WriteCall(p, n), Strand
  PROVE  IInv'
<1> USE DEF Holding, Writing, Reading, InCall, Goes, pipeVars, openVars, fileVars, callVars, procVars, WriteCall
<1>1. TypeOK'
  BY PipeAssumption DEF IInv, TypeOK, End
<1>2. LockInv'
  BY PipeAssumption DEF IInv, TypeOK, LockInv
<1>3. CallInv'
  BY DEF IInv, TypeOK, CallInv
<1>4. RefInv' /\ OpenInv'
  BY CallFrame DEF IInv, TypeOK
<1>5. SleepInv'
  BY DEF IInv, TypeOK, LockInv, SleepInv, Full, Empty, Strand
<1>6. EofInv'
  BY DEF IInv, TypeOK, LockInv, EofInv, Empty
<1>7. RoomInv'
  BY DEF IInv, RoomInv, Bytes
<1> QED BY <1>1, <1>2, <1>3, <1>4, <1>5, <1>6, <1>7 DEF IInv

LEMMA WriteLockStep ==
  ASSUME IInv, NEW p \in Proc, WriteLock(p), Strand
  PROVE  IInv'
<1> USE DEF Holding, Writing, Reading, InCall, Goes, pipeVars, openVars, fileVars, callVars, procVars, WriteLock, Acquire
<1>1. TypeOK'
  BY PipeAssumption DEF IInv, TypeOK, End
<1>2. LockInv'
  BY PipeAssumption DEF IInv, TypeOK, LockInv
<1>3. CallInv'
  BY DEF IInv, TypeOK, CallInv
<1>4. RefInv' /\ OpenInv'
  BY CallFrame DEF IInv, TypeOK
<1>5. SleepInv'
  BY DEF IInv, TypeOK, LockInv, SleepInv, Full, Empty, Strand
<1>6. EofInv'
  BY DEF IInv, TypeOK, LockInv, EofInv, Empty
<1>7. RoomInv'
  BY DEF IInv, RoomInv, Bytes
<1> QED BY <1>1, <1>2, <1>3, <1>4, <1>5, <1>6, <1>7 DEF IInv

LEMMA WriteByteStep ==
  ASSUME IInv, NEW p \in Proc, WriteByte(p), Strand
  PROVE  IInv'
<1> USE DEF Holding, Writing, Reading, InCall, Goes, pipeVars, openVars, fileVars, callVars, procVars, WriteByte
<1>1. TypeOK'
  BY PipeAssumption DEF IInv, TypeOK, End
<1>2. LockInv'
  BY PipeAssumption DEF IInv, TypeOK, LockInv
<1>3. CallInv'
  BY DEF IInv, TypeOK, CallInv
<1>4. RefInv' /\ OpenInv'
  BY CallFrame DEF IInv, TypeOK
<1>5. SleepInv'
  BY DEF IInv, TypeOK, LockInv, SleepInv, Full, Empty, Strand
<1>6. EofInv'
  BY DEF IInv, TypeOK, LockInv, EofInv, Empty
<1>7. RoomInv'
  <2>1. Bytes < PIPESIZE /\ PIPESIZE < CounterMod
    BY BytesFacts, PipeAssumption DEF IInv, RoomInv
  <2>2. Bytes' = Bytes + 1
    BY <2>1, BytesFacts, BytesWritten, PipeAssumption DEF IInv
  <2> QED BY <2>1, <2>2, BytesFacts, PipeAssumption DEF IInv, RoomInv
<1> QED BY <1>1, <1>2, <1>3, <1>4, <1>5, <1>6, <1>7 DEF IInv

LEMMA WriteFailsStep ==
  ASSUME IInv, NEW p \in Proc, WriteFails(p), Strand
  PROVE  IInv'
<1> USE DEF Holding, Writing, Reading, InCall, Goes, pipeVars, openVars, fileVars, callVars, procVars, WriteFails, Release, Return
<1>1. TypeOK'
  BY PipeAssumption DEF IInv, TypeOK, End
<1>2. LockInv'
  BY PipeAssumption DEF IInv, TypeOK, LockInv
<1>3. CallInv'
  BY DEF IInv, TypeOK, CallInv
<1>4. RefInv' /\ OpenInv'
  BY CallFrame DEF IInv, TypeOK
<1>5. SleepInv'
  <2>1. CASE p \in killed
    BY <2>1 DEF IInv, TypeOK, LockInv, SleepInv, Full, Empty, Strand, GivesUp
  <2>2. CASE ~readopen
    <3>1. \A q \in Proc : pc[q] # "rsleep"
      BY <2>2, OpenFacts DEF IInv, CallInv
    <3> QED BY <2>2, <3>1 DEF IInv, TypeOK, LockInv, SleepInv, Full, Empty
  <2> QED BY <2>1, <2>2
<1>6. EofInv'
  BY DEF IInv, TypeOK, LockInv, EofInv, Empty
<1>7. RoomInv'
  BY DEF IInv, RoomInv, Bytes
<1> QED BY <1>1, <1>2, <1>3, <1>4, <1>5, <1>6, <1>7 DEF IInv

LEMMA WriteWaitsStep ==
  ASSUME IInv, NEW p \in Proc, WriteWaits(p), Strand
  PROVE  IInv'
<1> USE DEF Holding, Writing, Reading, InCall, Goes, pipeVars, openVars, fileVars, callVars, procVars, WriteWaits, WakeReaders
<1>1. TypeOK'
  BY PipeAssumption DEF IInv, TypeOK, End
<1>2. LockInv'
  BY PipeAssumption DEF IInv, TypeOK, LockInv
<1>3. CallInv'
  BY DEF IInv, TypeOK, CallInv
<1>4. RefInv' /\ OpenInv'
  BY CallFrame DEF IInv, TypeOK
<1>5. SleepInv'
  BY DEF IInv, TypeOK, LockInv, SleepInv, Full, Empty, Strand
<1>6. EofInv'
  BY DEF IInv, TypeOK, LockInv, EofInv, Empty
<1>7. RoomInv'
  BY DEF IInv, RoomInv, Bytes
<1> QED BY <1>1, <1>2, <1>3, <1>4, <1>5, <1>6, <1>7 DEF IInv

LEMMA WriteSleepStep ==
  ASSUME IInv, NEW p \in Proc, WriteSleep(p), Strand
  PROVE  IInv'
<1> USE DEF Holding, Writing, Reading, InCall, Goes, pipeVars, openVars, fileVars, callVars, procVars, WriteSleep, Release
<1>1. TypeOK'
  BY PipeAssumption DEF IInv, TypeOK, End
<1>2. LockInv'
  BY PipeAssumption DEF IInv, TypeOK, LockInv
<1>3. CallInv'
  BY DEF IInv, TypeOK, CallInv
<1>4. RefInv' /\ OpenInv'
  BY CallFrame DEF IInv, TypeOK
<1>5. SleepInv'
  BY DEF IInv, TypeOK, LockInv, SleepInv, Full, Empty, Strand
<1>6. EofInv'
  BY DEF IInv, TypeOK, LockInv, EofInv, Empty
<1>7. RoomInv'
  BY DEF IInv, RoomInv, Bytes
<1> QED BY <1>1, <1>2, <1>3, <1>4, <1>5, <1>6, <1>7 DEF IInv

LEMMA WriteDoneStep ==
  ASSUME IInv, NEW p \in Proc, WriteDone(p), Strand
  PROVE  IInv'
<1> USE DEF Holding, Writing, Reading, InCall, Goes, pipeVars, openVars, fileVars, callVars, procVars, WriteDone, WakeReaders, Release, Return
<1>1. TypeOK'
  BY PipeAssumption DEF IInv, TypeOK, End
<1>2. LockInv'
  BY PipeAssumption DEF IInv, TypeOK, LockInv
<1>3. CallInv'
  BY DEF IInv, TypeOK, CallInv
<1>4. RefInv' /\ OpenInv'
  BY CallFrame DEF IInv, TypeOK
<1>5. SleepInv'
  BY DEF IInv, TypeOK, LockInv, SleepInv, Full, Empty, Strand
<1>6. EofInv'
  BY DEF IInv, TypeOK, LockInv, EofInv, Empty
<1>7. RoomInv'
  BY DEF IInv, RoomInv, Bytes
<1> QED BY <1>1, <1>2, <1>3, <1>4, <1>5, <1>6, <1>7 DEF IInv

LEMMA ReadCallStep ==
  ASSUME IInv, NEW p \in Proc, NEW n \in Counts, ReadCall(p, n), Strand
  PROVE  IInv'
<1> USE DEF Holding, Writing, Reading, InCall, Goes, pipeVars, openVars, fileVars, callVars, procVars, ReadCall
<1>1. TypeOK'
  BY PipeAssumption DEF IInv, TypeOK, End
<1>2. LockInv'
  BY PipeAssumption DEF IInv, TypeOK, LockInv
<1>3. CallInv'
  BY DEF IInv, TypeOK, CallInv
<1>4. RefInv' /\ OpenInv'
  BY CallFrame DEF IInv, TypeOK
<1>5. SleepInv'
  BY DEF IInv, TypeOK, LockInv, SleepInv, Full, Empty, Strand
<1>6. EofInv'
  BY DEF IInv, TypeOK, LockInv, EofInv, Empty
<1>7. RoomInv'
  BY DEF IInv, RoomInv, Bytes
<1> QED BY <1>1, <1>2, <1>3, <1>4, <1>5, <1>6, <1>7 DEF IInv

LEMMA ReadLockStep ==
  ASSUME IInv, NEW p \in Proc, ReadLock(p), Strand
  PROVE  IInv'
<1> USE DEF Holding, Writing, Reading, InCall, Goes, pipeVars, openVars, fileVars, callVars, procVars, ReadLock, Acquire
<1>1. TypeOK'
  BY PipeAssumption DEF IInv, TypeOK, End
<1>2. LockInv'
  BY PipeAssumption DEF IInv, TypeOK, LockInv
<1>3. CallInv'
  BY DEF IInv, TypeOK, CallInv
<1>4. RefInv' /\ OpenInv'
  BY CallFrame DEF IInv, TypeOK
<1>5. SleepInv'
  BY DEF IInv, TypeOK, LockInv, SleepInv, Full, Empty, Strand
<1>6. EofInv'
  BY DEF IInv, TypeOK, LockInv, EofInv, Empty
<1>7. RoomInv'
  BY DEF IInv, RoomInv, Bytes
<1> QED BY <1>1, <1>2, <1>3, <1>4, <1>5, <1>6, <1>7 DEF IInv

LEMMA ReadFailsStep ==
  ASSUME IInv, NEW p \in Proc, ReadFails(p), Strand
  PROVE  IInv'
<1> USE DEF Holding, Writing, Reading, InCall, Goes, pipeVars, openVars, fileVars, callVars, procVars, ReadFails, Release, Return, MustWait
<1>1. TypeOK'
  BY PipeAssumption DEF IInv, TypeOK, End
<1>2. LockInv'
  BY PipeAssumption DEF IInv, TypeOK, LockInv
<1>3. CallInv'
  BY DEF IInv, TypeOK, CallInv
<1>4. RefInv' /\ OpenInv'
  BY CallFrame DEF IInv, TypeOK
<1>5. SleepInv'
  BY DEF IInv, TypeOK, LockInv, SleepInv, Full, Empty, Strand
<1>6. EofInv'
  BY DEF IInv, TypeOK, LockInv, EofInv, Empty
<1>7. RoomInv'
  BY DEF IInv, RoomInv, Bytes
<1> QED BY <1>1, <1>2, <1>3, <1>4, <1>5, <1>6, <1>7 DEF IInv

LEMMA ReadWaitsStep ==
  ASSUME IInv, NEW p \in Proc, ReadWaits(p), Strand
  PROVE  IInv'
<1> USE DEF Holding, Writing, Reading, InCall, Goes, pipeVars, openVars, fileVars, callVars, procVars, ReadWaits, MustWait
<1>1. TypeOK'
  BY PipeAssumption DEF IInv, TypeOK, End
<1>2. LockInv'
  BY PipeAssumption DEF IInv, TypeOK, LockInv
<1>3. CallInv'
  BY DEF IInv, TypeOK, CallInv
<1>4. RefInv' /\ OpenInv'
  BY CallFrame DEF IInv, TypeOK
<1>5. SleepInv'
  BY DEF IInv, TypeOK, LockInv, SleepInv, Full, Empty, Strand
<1>6. EofInv'
  BY DEF IInv, TypeOK, LockInv, EofInv, Empty
<1>7. RoomInv'
  BY DEF IInv, RoomInv, Bytes
<1> QED BY <1>1, <1>2, <1>3, <1>4, <1>5, <1>6, <1>7 DEF IInv

LEMMA ReadSleepStep ==
  ASSUME IInv, NEW p \in Proc, ReadSleep(p), Strand
  PROVE  IInv'
<1> USE DEF Holding, Writing, Reading, InCall, Goes, pipeVars, openVars, fileVars, callVars, procVars, ReadSleep, Release
<1>1. TypeOK'
  BY PipeAssumption DEF IInv, TypeOK, End
<1>2. LockInv'
  BY PipeAssumption DEF IInv, TypeOK, LockInv
<1>3. CallInv'
  BY DEF IInv, TypeOK, CallInv
<1>4. RefInv' /\ OpenInv'
  BY CallFrame DEF IInv, TypeOK
<1>5. SleepInv'
  BY DEF IInv, TypeOK, LockInv, SleepInv, Full, Empty, Strand
<1>6. EofInv'
  BY DEF IInv, TypeOK, LockInv, EofInv, Empty
<1>7. RoomInv'
  BY DEF IInv, RoomInv, Bytes
<1> QED BY <1>1, <1>2, <1>3, <1>4, <1>5, <1>6, <1>7 DEF IInv

LEMMA ReadStartStep ==
  ASSUME IInv, NEW p \in Proc, ReadStart(p), Strand
  PROVE  IInv'
<1> USE DEF Holding, Writing, Reading, InCall, Goes, pipeVars, openVars, fileVars, callVars, procVars, ReadStart, MustWait
<1>1. TypeOK'
  BY PipeAssumption DEF IInv, TypeOK, End
<1>2. LockInv'
  BY PipeAssumption DEF IInv, TypeOK, LockInv
<1>3. CallInv'
  BY DEF IInv, TypeOK, CallInv
<1>4. RefInv' /\ OpenInv'
  BY CallFrame DEF IInv, TypeOK
<1>5. SleepInv'
  BY DEF IInv, TypeOK, LockInv, SleepInv, Full, Empty, Strand
<1>6. EofInv'
  BY DEF IInv, TypeOK, LockInv, EofInv, Empty
<1>7. RoomInv'
  BY DEF IInv, RoomInv, Bytes
<1> QED BY <1>1, <1>2, <1>3, <1>4, <1>5, <1>6, <1>7 DEF IInv

LEMMA ReadByteStep ==
  ASSUME IInv, NEW p \in Proc, ReadByte(p), Strand
  PROVE  IInv'
<1> USE DEF Holding, Writing, Reading, InCall, Goes, pipeVars, openVars, fileVars, callVars, procVars, ReadByte
<1>1. TypeOK'
  BY PipeAssumption DEF IInv, TypeOK, End
<1>2. LockInv'
  BY PipeAssumption DEF IInv, TypeOK, LockInv
<1>3. CallInv'
  BY DEF IInv, TypeOK, CallInv
<1>4. RefInv' /\ OpenInv'
  BY CallFrame DEF IInv, TypeOK
<1>5. SleepInv'
  BY DEF IInv, TypeOK, LockInv, SleepInv, Full, Empty, Strand
<1>6. EofInv'
  BY DEF IInv, TypeOK, LockInv, EofInv, Empty
<1>7. RoomInv'
  <2>1. Bytes > 0
    BY BytesFacts DEF IInv
  <2>2. Bytes' = Bytes - 1
    BY <2>1, BytesRead DEF IInv
  <2> QED BY <2>2, BytesFacts, PipeAssumption DEF IInv, RoomInv
<1> QED BY <1>1, <1>2, <1>3, <1>4, <1>5, <1>6, <1>7 DEF IInv

LEMMA ReadDoneStep ==
  ASSUME IInv, NEW p \in Proc, ReadDone(p), Strand
  PROVE  IInv'
<1> USE DEF Holding, Writing, Reading, InCall, Goes, pipeVars, openVars, fileVars, callVars, procVars, ReadDone, WakeWriters, Release, Return
<1>1. TypeOK'
  BY PipeAssumption DEF IInv, TypeOK, End
<1>2. LockInv'
  BY PipeAssumption DEF IInv, TypeOK, LockInv
<1>3. CallInv'
  BY DEF IInv, TypeOK, CallInv
<1>4. RefInv' /\ OpenInv'
  BY CallFrame DEF IInv, TypeOK
<1>5. SleepInv'
  BY DEF IInv, TypeOK, LockInv, SleepInv, Full, Empty, Strand
<1>6. EofInv'
  BY DEF IInv, TypeOK, LockInv, EofInv, Empty
<1>7. RoomInv'
  BY DEF IInv, RoomInv, Bytes
<1> QED BY <1>1, <1>2, <1>3, <1>4, <1>5, <1>6, <1>7 DEF IInv

LEMMA ExitStep ==
  ASSUME IInv, NEW p \in Proc, Exit(p), Strand
  PROVE  IInv'
<1> USE DEF Holding, Writing, Reading, InCall, Goes, pipeVars, openVars, fileVars, callVars, procVars, Exit
<1>1. TypeOK'
  BY PipeAssumption DEF IInv, TypeOK, End
<1>2. LockInv'
  BY PipeAssumption DEF IInv, TypeOK, LockInv
<1>3. CallInv'
  BY DEF IInv, TypeOK, CallInv
<1>4. RefInv' /\ OpenInv'
  BY CallFrame DEF IInv, TypeOK
<1>5. SleepInv'
  BY DEF IInv, TypeOK, LockInv, SleepInv, Full, Empty, Strand
<1>6. EofInv'
  BY DEF IInv, TypeOK, LockInv, EofInv, Empty
<1>7. RoomInv'
  BY DEF IInv, RoomInv, Bytes
<1> QED BY <1>1, <1>2, <1>3, <1>4, <1>5, <1>6, <1>7 DEF IInv

LEMMA ReapStep ==
  ASSUME IInv, NEW p \in Proc, Reap(p), Strand
  PROVE  IInv'
<1> USE DEF Holding, Writing, Reading, InCall, Goes, pipeVars, openVars, fileVars, callVars, procVars, Reap
<1>1. TypeOK'
  BY PipeAssumption DEF IInv, TypeOK, End
<1>2. LockInv'
  BY PipeAssumption DEF IInv, TypeOK, LockInv
<1>3. CallInv'
  BY DEF IInv, TypeOK, CallInv
<1>4. RefInv' /\ OpenInv'
  BY CallFrame DEF IInv, TypeOK
<1>5. SleepInv'
  BY DEF IInv, TypeOK, LockInv, SleepInv, Full, Empty, Strand
<1>6. EofInv'
  BY DEF IInv, TypeOK, LockInv, EofInv, Empty
<1>7. RoomInv'
  BY DEF IInv, RoomInv, Bytes
<1> QED BY <1>1, <1>2, <1>3, <1>4, <1>5, <1>6, <1>7 DEF IInv

LEMMA KillStep ==
  ASSUME IInv, NEW p \in Proc, Kill(p), Strand
  PROVE  IInv'
<1> USE DEF Holding, Writing, Reading, InCall, Goes, pipeVars, openVars, fileVars, callVars, procVars, Kill
<1>1. TypeOK'
  BY PipeAssumption DEF IInv, TypeOK, End
<1>2. LockInv'
  BY PipeAssumption DEF IInv, TypeOK, LockInv
<1>3. CallInv'
  BY DEF IInv, TypeOK, CallInv
<1>4. RefInv' /\ OpenInv'
  BY CallFrame DEF IInv, TypeOK
<1>5. SleepInv'
  BY DEF IInv, TypeOK, LockInv, SleepInv, Full, Empty, Strand
<1>6. EofInv'
  BY DEF IInv, TypeOK, LockInv, EofInv, Empty
<1>7. RoomInv'
  BY DEF IInv, RoomInv, Bytes
<1> QED BY <1>1, <1>2, <1>3, <1>4, <1>5, <1>6, <1>7 DEF IInv

-----------------------------------------------------------------------------
(* The steps that change the references.                                    *)

LEMMA UsersFacts ==
  ASSUME IInv, NEW e \in End
  PROVE  /\ IsFiniteSet(Users(e))
         /\ ref[e] = Cardinality(Users(e))
         /\ ref[e] \in Nat
         /\ ref[e] = 0 <=> Users(e) = {}
<1>1. IsFiniteSet(Users(e))
  BY PipeAssumption, FS_Subset DEF Users
<1>2. ref[e] = Cardinality(Users(e)) /\ ref[e] \in Nat
  BY DEF IInv, RefInv, TypeOK
<1> QED BY <1>1, <1>2, FS_EmptySet

LEMMA ForkStep ==
  ASSUME IInv, NEW p \in Proc, NEW q \in Proc, Fork(p, q), Strand
  PROVE  IInv'
<1> USE DEF Holding, Writing, Reading, InCall, Goes, pipeVars, openVars, fileVars,
        callVars, procVars, Fork, Dup
<1>1. TypeOK'
  BY DEF IInv, TypeOK, End
<1>2. LockInv'
  BY PipeAssumption DEF IInv, TypeOK, LockInv
<1>3. CallInv'
  BY DEF IInv, TypeOK, CallInv
<1>4. ASSUME NEW e \in End
      PROVE  /\ Users(e)' = IF e \in ofile[p] THEN Users(e) \union {q} ELSE Users(e)
             /\ q \notin Users(e)
             /\ Closers(e)' = Closers(e)
             /\ IsOpen(e)' <=> IsOpen(e)
             /\ e \in ofile[p] => Users(e) # {}
  BY DEF IInv, TypeOK, CallInv, Users, Closers, IsOpen
<1>5. RefInv'
  <2>1. ASSUME NEW e \in End PROVE ref'[e] = Cardinality(Users(e)')
    BY <1>4, UsersFacts, FS_AddElement
  <2> QED BY <2>1 DEF RefInv
<1>6. OpenInv'
  BY <1>4 DEF IInv, OpenInv
<1>7. SleepInv' /\ EofInv'
  BY DEF IInv, TypeOK, SleepInv, EofInv, Full, Empty, Strand
<1>8. RoomInv'
  BY DEF IInv, RoomInv, Bytes
<1> QED BY <1>1, <1>2, <1>3, <1>5, <1>6, <1>7, <1>8 DEF IInv

LEMMA CloseStep ==
  ASSUME IInv, NEW p \in Proc, NEW e \in End, Close(p, e), Strand
  PROVE  IInv'
<1> USE DEF Holding, Writing, Reading, InCall, Goes, pipeVars, openVars, fileVars,
        callVars, procVars, Close
<1>1. TypeOK'
  BY DEF IInv, TypeOK
<1>2. LockInv'
  BY PipeAssumption DEF IInv, TypeOK, LockInv
<1>3. CallInv'
  BY DEF IInv, TypeOK, CallInv
<1>4. ASSUME NEW d \in End
      PROVE  /\ Users(d)' = Users(d)
             /\ Closers(d)' = Closers(d)
             /\ IsOpen(d)' <=> IsOpen(d)
  <2>1. ofile'[p] = ofile[p] \ {e} /\ closing'[p] = e /\ pc'[p] = "fileclose"
    BY DEF IInv, TypeOK
  <2>2. \A q \in Proc \ {p} : ofile'[q] = ofile[q] /\ closing'[q] = closing[q] /\ pc'[q] = pc[q]
    BY DEF IInv, TypeOK
  <2>3. pc[p] \in {"user", "exit"} /\ e \in ofile[p]
    OBVIOUS
  <2>4. Users(d)' = Users(d)
    <3>1. \A q \in Proc : q \in Users(d)' <=> q \in Users(d)
      BY <2>1, <2>2, <2>3 DEF Users
    <3> QED BY <3>1 DEF Users
  <2>5. Closers(d)' = Closers(d)
    <3>1. \A q \in Proc : q \in Closers(d)' <=> q \in Closers(d)
      BY <2>1, <2>2, <2>3 DEF Closers
    <3> QED BY <3>1 DEF Closers
  <2> QED BY <2>4, <2>5 DEF IsOpen
<1>5. RefInv'
  BY <1>4 DEF IInv, RefInv
<1>6. OpenInv'
  BY <1>4 DEF IInv, OpenInv
<1>7. SleepInv' /\ EofInv'
  BY DEF IInv, TypeOK, SleepInv, EofInv, Full, Empty, Strand
<1>8. RoomInv'
  BY DEF IInv, RoomInv, Bytes
<1> QED BY <1>1, <1>2, <1>3, <1>5, <1>6, <1>7, <1>8 DEF IInv

LEMMA FileCloseStep ==
  ASSUME IInv, NEW p \in Proc, FileClose(p), Strand
  PROVE  IInv'
<1> USE DEF Holding, Writing, Reading, InCall, Goes, pipeVars, openVars, fileVars,
        callVars, procVars, FileClose, Back
<1>1. PICK e \in End : e = closing[p]
  BY DEF IInv, TypeOK
<1>2. p \in Users(e) /\ ref[e] >= 1 /\ Closers(e) = {} /\ e \notin ofile[p]
  <2>1. p \in Users(e) /\ e \notin ofile[p]
    BY <1>1 DEF Users, IInv, CallInv
  <2>2. Closers(e) = {}
    BY <2>1 DEF IInv, OpenInv
  <2> QED BY <2>1, <2>2, UsersFacts
<1>3. TypeOK'
  <2>1. ref' = [ref EXCEPT ![e] = ref[e] - 1] /\ ref[e] - 1 \in Nat
    BY <1>1, <1>2, UsersFacts
  <2>2. ref' \in [End -> Nat]
    BY <2>1 DEF IInv, TypeOK
  <2>3. closing' \in [Proc -> End] /\ pc' \in [Proc -> {"none", "user", "exit", "fileclose", "pipeclose"} \union InCall]
    BY DEF IInv, TypeOK, End
  <2> QED BY <2>2, <2>3 DEF IInv, TypeOK
<1>4. LockInv'
  BY PipeAssumption DEF IInv, TypeOK, LockInv
<1>5. CallInv'
  BY ZenonT(60) DEF IInv, TypeOK, CallInv
<1>6. Users(e)' = Users(e) \ {p}
  <2>1. ASSUME NEW q \in Proc PROVE q \in Users(e)' <=> q \in Users(e) /\ q # p
    BY <1>1, <1>2 DEF Users, IInv, TypeOK
  <2> QED BY <2>1 DEF Users
<1>7. Closers(e)' = IF ref[e] > 1 THEN {} ELSE {p}
  <2>1. ASSUME NEW q \in Proc
        PROVE  q \in Closers(e)' <=> ~(ref[e] > 1) /\ q = p
    BY <1>1, <1>2 DEF Closers, IInv, TypeOK
  <2> QED BY <2>1 DEF Closers
<1>8. ASSUME NEW d \in End, d # e
      PROVE  Users(d)' = Users(d) /\ Closers(d)' = Closers(d)
  <2>1. ASSUME NEW q \in Proc
        PROVE  /\ q \in Users(d)' <=> q \in Users(d)
               /\ q \in Closers(d)' <=> q \in Closers(d)
    BY <1>1, <1>8 DEF Users, Closers, IInv, TypeOK
  <2> QED BY <2>1 DEF Users, Closers
<1>9. RefInv'
  <2>1. ref'[e] = Cardinality(Users(e)')
    <3>1. ref'[e] = ref[e] - 1
      BY <1>1 DEF IInv, TypeOK
    <3>2. Cardinality(Users(e) \ {p}) = ref[e] - 1
      BY <1>2, UsersFacts, FS_RemoveElement
    <3> QED BY <1>6, <3>1, <3>2
  <2>2. ASSUME NEW d \in End, d # e PROVE ref'[d] = Cardinality(Users(d)')
    BY <1>1, <1>8, <2>2 DEF IInv, TypeOK, RefInv
  <2> QED BY <2>1, <2>2 DEF RefInv
<1>10. OpenInv'
  <2>1. /\ IsFiniteSet(Users(e) \ {p})
        /\ Cardinality(Users(e) \ {p}) = ref[e] - 1
    BY <1>2, UsersFacts, FS_RemoveElement
  <2>2. ref[e] > 1 <=> Users(e)' # {}
    <3>1. ref[e] \in Nat /\ (ref[e] - 1 = 0 <=> Users(e) \ {p} = {})
      BY <2>1, UsersFacts, FS_EmptySet
    <3> QED BY <1>2, <1>6, <3>1
  <2>3. \A d \in End : IsOpen(d)' <=> IsOpen(d)
    BY DEF IsOpen
  <2> QED BY <1>2, <1>6, <1>7, <1>8, <2>2, <2>3 DEF IInv, OpenInv
<1>11. SleepInv' /\ EofInv'
  BY DEF IInv, TypeOK, SleepInv, EofInv, Full, Empty, Strand
<1>12. RoomInv'
  BY DEF IInv, RoomInv, Bytes
<1> QED BY <1>3, <1>4, <1>5, <1>9, <1>10, <1>11, <1>12 DEF IInv

LEMMA PipeCloseStep ==
  ASSUME IInv, NEW p \in Proc, PipeClose(p), Strand
  PROVE  IInv'
<1> USE DEF Holding, Writing, Reading, InCall, Goes, WakeReaders, WakeWriters, pipeVars,
        openVars, fileVars, callVars, procVars, PipeClose, Back, LastEnd
<1>1. PICK e \in End : e = closing[p]
  BY DEF IInv, TypeOK
<1>2. p \in Closers(e) /\ Users(e) = {} /\ \A q \in Closers(e) : q = p
  BY <1>1 DEF Closers, IInv, OpenInv
<1>3. \A q \in Proc : e \notin ofile[q]
  BY <1>2 DEF Users
<1>4. TypeOK'
  BY <1>1, ZenonT(60) DEF IInv, TypeOK, End
<1>5. LockInv'
  BY PipeAssumption, ZenonT(60) DEF IInv, TypeOK, LockInv
<1> DEFINE Woken(q) ==
        pc'[q] = IF q = p THEN Back(p)
                 ELSE CASE pc[q] = "rsleep" /\ e = "w" -> "rwoken"
                        [] pc[q] = "wsleep" /\ e = "r" -> "wlock"
                        [] OTHER -> pc[q]
<1>a. \A q \in Proc : Woken(q)
  BY <1>1 DEF End, IInv, TypeOK
<1>6. CallInv'
  <2>1. ASSUME NEW q \in Proc
        PROVE  /\ pc'[q] = "none" => ofile[q] = {}
               /\ pc'[q] \in Writing => "w" \in ofile[q]
               /\ pc'[q] \in Reading => "r" \in ofile[q]
               /\ pc'[q] \in {"fileclose", "pipeclose"} => q # p /\ closing[q] \notin ofile[q]
    BY <1>a DEF IInv, CallInv
  <2> QED BY <2>1 DEF IInv, TypeOK, CallInv
<1>7. ASSUME NEW d \in End
      PROVE  /\ Users(d)' = Users(d)
             /\ Closers(d)' = IF d = e THEN {} ELSE Closers(d)
             /\ IsOpen(d)' <=> IF d = e THEN FALSE ELSE IsOpen(d)
  <2>1. ASSUME NEW q \in Proc PROVE q \in Users(d)' <=> q \in Users(d)
    BY ZenonT(60) DEF Users, IInv, TypeOK
  <2>2. ASSUME NEW q \in Proc PROVE q \in Closers(d)' <=> q \in Closers(d) /\ d # e
    <3>1. pc \in [Proc -> {"none", "user", "exit", "fileclose", "pipeclose"} \union InCall]
          /\ closing \in [Proc -> End]
      BY DEF IInv, TypeOK
    <3>2. CASE q = p
      <4>1. pc'[q] # "pipeclose"  BY <1>a, <3>2
      <4>2. pc[q] = "pipeclose" /\ closing[q] = e  BY <1>1, <3>2
      <4> QED  BY <4>1, <4>2 DEF Closers
    <3>3. CASE q # p
      <4>1. closing'[q] = closing[q]  BY <3>1, <3>3
      <4>2. pc'[q] = "pipeclose" <=> pc[q] = "pipeclose"  BY <1>a, <3>3
      <4>3. q \notin Closers(e)  BY <1>2, <3>3
      <4> QED  BY <4>1, <4>2, <4>3 DEF Closers
    <3> QED  BY <3>2, <3>3
  <2>3. IsOpen(d)' <=> IF d = e THEN FALSE ELSE IsOpen(d)
    BY <1>1 DEF IsOpen, End
  <2>4. Users(d)' = Users(d)
    BY <2>1 DEF Users
  <2>5. Closers(d)' = IF d = e THEN {} ELSE Closers(d)
    BY <2>2 DEF Closers
  <2> QED BY <2>3, <2>4, <2>5
<1>8. RefInv'
  BY <1>7 DEF IInv, RefInv
<1>9. OpenInv'
  <2>1. freed' <=> ~readopen' /\ ~writeopen'
    BY DEF IInv, OpenInv, TypeOK
  <2> QED BY <1>2, <1>7, <2>1 DEF IInv, OpenInv
<1>10. SleepInv'
  <2>1. \A q \in Proc : pc[q] \notin Holding
    BY PipeAssumption DEF IInv, LockInv
  <2>2. \A q \in Proc : q \in stranded /\ pc'[q] = "rsleep" => q \in stranded'
    BY DEF Strand
  <2>3. \A q \in Proc : pc'[q] = "rsleep" => pc[q] = "rsleep" /\ e # "w"
    BY <1>a
  <2>4. \A q \in Proc : pc'[q] = "wsleep" => pc[q] = "wsleep" /\ e # "r"
    BY <1>a
  <2>5. \A q \in Proc : pc'[q] \notin Holding
    BY <1>a, <2>1
  <2>6. (e # "w" => writeopen' = writeopen) /\ (e # "r" => readopen' = readopen)
    BY <1>1 DEF IInv, TypeOK, End
  <2> QED BY <2>1, <2>2, <2>3, <2>4, <2>5, <2>6 DEF IInv, SleepInv, Full, Empty
<1>11. EofInv'
  BY DEF IInv, TypeOK, LockInv, EofInv, Empty
<1>12. RoomInv'
  BY DEF IInv, RoomInv, Bytes
<1> QED BY <1>4, <1>5, <1>6, <1>8, <1>9, <1>10, <1>11, <1>12 DEF IInv

-----------------------------------------------------------------------------
(* The invariant and what follows from it.                                  *)

LEMMA InitOK == HInit => IInv
<1> SUFFICES ASSUME HInit PROVE IInv
  OBVIOUS
<1> USE PipeAssumption DEF HInit, Init, Holding, Writing, Reading, InCall
<1>1. TypeOK
  <2>1. (CHOOSE b \in Byte : TRUE) \in Byte
    OBVIOUS
  <2>2. data \in [0..PIPESIZE - 1 -> Byte]
    BY <2>1
  <2>3. 0 \in 0..CounterMod - 1
    OBVIOUS
  <2> QED BY <2>2, <2>3 DEF TypeOK, End
<1>2. LockInv /\ CallInv /\ SleepInv /\ EofInv
  BY DEF LockInv, CallInv, SleepInv, EofInv, Empty
<1>3. \A e \in End : Users(e) = {Creator} /\ Closers(e) = {} /\ IsOpen(e)
  BY DEF Users, Closers, IsOpen, End
<1>4. RefInv
  BY <1>3, FS_Singleton DEF RefInv
<1>5. OpenInv
  BY <1>3 DEF OpenInv
<1>6. RoomInv
  BY <1>1, BytesFacts DEF RoomInv, Empty
<1> QED BY <1>1, <1>2, <1>4, <1>5, <1>6 DEF IInv

LEMMA StutterStep ==
  ASSUME IInv, UNCHANGED hvars
  PROVE  IInv'
<1> USE DEF hvars, vars, pipeVars, openVars, fileVars, callVars, procVars
<1>1. TypeOK' /\ LockInv' /\ CallInv' /\ SleepInv' /\ EofInv' /\ RoomInv'
  BY DEF IInv, TypeOK, LockInv, CallInv, SleepInv, EofInv, RoomInv, Full, Empty, Bytes
<1>2. RefInv' /\ OpenInv'
  BY CallFrame
<1> QED BY <1>1, <1>2 DEF IInv

LEMMA Invariance == HSpec => []IInv
<1>1. ASSUME IInv, HNext PROVE IInv'
  <2>1. PICK p \in Proc : UserCall(p) \/ Write(p) \/ ReadIt(p) \/ Shut(p) \/ Kill(p)
    BY <1>1 DEF HNext, Next
  <2>2. Strand
    BY <1>1 DEF HNext
  <2>3. CASE UserCall(p)
    BY <1>1, <2>2, <2>3, WriteCallStep, ReadCallStep, ForkStep, CloseStep, ExitStep DEF UserCall
  <2>4. CASE Write(p)
    BY <1>1, <2>2, <2>4, WriteLockStep, WriteByteStep, WriteFailsStep, WriteWaitsStep,
       WriteSleepStep, WriteDoneStep DEF Write
  <2>5. CASE ReadIt(p)
    BY <1>1, <2>2, <2>5, ReadLockStep, ReadFailsStep, ReadWaitsStep, ReadSleepStep,
       ReadStartStep, ReadByteStep, ReadDoneStep DEF ReadIt
  <2>6. CASE Shut(p)
    BY <1>1, <2>2, <2>6, FileCloseStep, PipeCloseStep, ReapStep DEF Shut
  <2>7. CASE Kill(p)
    BY <1>1, <2>2, <2>7, KillStep
  <2> QED BY <2>1, <2>3, <2>4, <2>5, <2>6, <2>7
<1> QED BY InitOK, StutterStep, <1>1, PTL DEF HSpec

\* Every variable keeps its type; the references never run below zero.
THEOREM TypeCorrect == HSpec => []TypeOK
<1>1. IInv => TypeOK
  BY DEF IInv
<1> QED BY Invariance, <1>1, PTL

\* For any number of readers and writers: with p->lock free, nobody sleeps for
\* what is there, but the readers a writer killed on a full pipe left asleep.
THEOREM WakesInTime == HSpec => []NoLostWakeup
<1>1. IInv => NoLostWakeup
  BY PipeAssumption DEF IInv, LockInv, SleepInv, NoLostWakeup, Holding
<1> QED BY Invariance, <1>1, PTL

\* The page of the pipe goes back to kfree() only when no descriptor, no call
\* and no fileclose() is left, however often the ends were shared.
THEOREM FreedAtTheEnd == HSpec => []FreedLast
<1>1. ASSUME IInv PROVE FreedLast
  <2> SUFFICES ASSUME freed PROVE FreedLast!2
    BY DEF FreedLast
  <2>1. \A e \in End : Users(e) = {} /\ Closers(e) = {}
    BY <1>1 DEF IInv, OpenInv, IsOpen
  <2>2. ASSUME NEW p \in Proc
        PROVE  /\ ofile[p] = {}
               /\ pc[p] \notin InCall \union {"fileclose", "pipeclose"}
               /\ plock # p
    <3>1. ofile[p] = {}
      BY <1>1, <2>1 DEF Users, IInv, TypeOK
    <3>2. pc[p] \notin InCall
      BY <1>1, <3>1 DEF IInv, CallInv, InCall
    <3>3. pc[p] \notin {"fileclose", "pipeclose"}
      BY <1>1, <2>1 DEF Users, Closers, IInv, TypeOK
    <3> QED BY <1>1, <3>1, <3>2, <3>3 DEF IInv, LockInv, Holding, InCall, Writing, Reading
  <2> QED BY <1>1, <2>2 DEF IInv, TypeOK
<1> QED BY Invariance, <1>1, PTL

\* No reader is told of the end of the file while there is a byte or a writer.
THEOREM EndOnlyAtEnd == HSpec => EofOnlyAtEnd
<1>1. ASSUME IInv
      PROVE  \A p \in Proc : ReadDone(p) /\ i[p] = 0 /\ count[p] > 0
                                => Empty /\ ~writeopen
  BY <1>1 DEF IInv, TypeOK, EofInv, ReadDone
<1> QED BY Invariance, <1>1, PTL DEF EofOnlyAtEnd

-----------------------------------------------------------------------------
(* Pipe implements Channel.                                                 *)

\* CounterMod is a multiple of PIPESIZE, so the wrap of a counter does not
\* move the place it stands for.
LEMMA RingWrap ==
  ASSUME NEW x \in Nat
  PROVE  (x + CounterMod) % PIPESIZE = x % PIPESIZE
<1>1. PIPESIZE \in Nat \ {0} /\ CounterMod \in Nat /\ CounterMod % PIPESIZE = 0
      /\ CounterMod > PIPESIZE
  BY PipeAssumption
<1>2. PICK k, a \in Int, r \in 0..PIPESIZE - 1 :
         a = PIPESIZE * k /\ r = CounterMod % PIPESIZE /\ CounterMod = a + r
  BY <1>1, ModSplit
<1>3. CounterMod = a
  BY <1>1, <1>2
<1>4. k \in Nat
  <2>1. CASE k < 0
    <3>1. PIPESIZE * k < 0
      BY <1>1, <2>1
    <3> QED BY <1>1, <1>2, <1>3, <3>1
  <2> QED BY <2>1
<1>5. CounterMod = PIPESIZE * k
  BY <1>2, <1>3
<1>6. CounterMod \in Int
  BY <1>1
<1> QED BY <1>1, <1>4, <1>5, <1>6, ModAddMultiple, Zenon

LEMMA RingIsSeq ==
  ASSUME NEW n \in Nat, NEW m \in Nat, NEW d \in [0..PIPESIZE - 1 -> Byte]
  PROVE  /\ [k \in 1..m |-> d[(n + k - 1) % PIPESIZE]] \in Seq(Byte)
         /\ Len([k \in 1..m |-> d[(n + k - 1) % PIPESIZE]]) = m
         /\ \A k \in 1..m : (n + k - 1) % PIPESIZE \in 0..PIPESIZE - 1
<1>1. ASSUME NEW k \in 1..m PROVE (n + k - 1) % PIPESIZE \in 0..PIPESIZE - 1
  <2>1. n + k - 1 \in Nat /\ PIPESIZE \in Nat \ {0}
    BY PipeAssumption
  <2> QED BY <2>1, ModRange
<1>2. \A k \in 1..m : d[(n + k - 1) % PIPESIZE] \in Byte
  BY <1>1
<1> DEFINE s == [k \in 1..m |-> d[(n + k - 1) % PIPESIZE]]
<1>3. s \in [1..m -> Byte]
  BY <1>2
<1> HIDE DEF s
<1>4. s \in Seq(Byte) /\ Len(s) = m
  BY <1>3
<1> QED BY <1>1, <1>4 DEF s

LEMMA QueueFacts ==
  ASSUME TypeOK
  PROVE  /\ Queue \in Seq(Byte)
         /\ Len(Queue) = Bytes
         /\ \A k \in 1..Bytes : Queue[k] = data[(nread + k - 1) % PIPESIZE]
         /\ \A k \in 1..Bytes : (nread + k - 1) % PIPESIZE \in 0..PIPESIZE - 1
<1>1. Bytes \in Nat /\ nread \in Nat /\ data \in [0..PIPESIZE - 1 -> Byte]
  BY BytesFacts DEF TypeOK
<1> QED BY <1>1, RingIsSeq DEF Queue

\* The byte at nwrite is behind those of the queue.
LEMMA FreePlace ==
  ASSUME TypeOK, Bytes < PIPESIZE
  PROVE  /\ nwrite % PIPESIZE \in 0..PIPESIZE - 1
         /\ (nread + Bytes) % PIPESIZE = nwrite % PIPESIZE
         /\ \A k \in 1..Bytes : (nread + k - 1) % PIPESIZE # nwrite % PIPESIZE
<1>1. /\ nread \in Nat /\ nwrite \in Nat /\ Bytes \in Nat
      /\ PIPESIZE \in Nat \ {0} /\ CounterMod \in Nat
  BY BytesFacts, PipeAssumption DEF TypeOK
<1>2. (nread + Bytes) % PIPESIZE = nwrite % PIPESIZE
  <2>1. CASE nread <= nwrite
    <3>1. nread + Bytes = nwrite
      BY <1>1, <2>1, BytesFacts
    <3> QED BY <3>1
  <2>2. CASE nwrite < nread
    <3>1. nread + Bytes = nwrite + CounterMod
      BY <1>1, <2>2, BytesFacts
    <3>2. (nwrite + CounterMod) % PIPESIZE = nwrite % PIPESIZE
      BY <1>1, RingWrap
    <3> QED BY <3>1, <3>2
  <2> QED BY <1>1, <2>1, <2>2
<1>3. ASSUME NEW k \in 1..Bytes
      PROVE  (nread + k - 1) % PIPESIZE # nwrite % PIPESIZE
  <2>1. PICK x \in Nat : x = nread + k - 1
    BY <1>1
  <2>2. PICK y \in Nat : y = Bytes - k + 1 /\ 0 < y /\ y < PIPESIZE
    BY <1>1
  <2>3. (x + y) % PIPESIZE # x % PIPESIZE
    BY <1>1, <2>2, ModApart
  <2>4. x + y = nread + Bytes
    BY <1>1, <2>1, <2>2
  <2> QED BY <1>2, <2>1, <2>3, <2>4
<1> QED BY <1>1, <1>2, <1>3, ModRange

LEMMA AppendIs ==
  ASSUME NEW S, NEW s \in Seq(S), NEW e \in S, NEW t \in Seq(S),
         Len(t) = Len(s) + 1,
         \A k \in 1..Len(s) : t[k] = s[k],
         t[Len(s) + 1] = e
  PROVE  t = Append(s, e)
<1>1. /\ Append(s, e) \in Seq(S)
      /\ Len(Append(s, e)) = Len(s) + 1
      /\ \A k \in 1..Len(s) : Append(s, e)[k] = s[k]
      /\ Append(s, e)[Len(s) + 1] = e
      /\ Len(s) \in Nat
  OBVIOUS
<1>2. \A k \in 1..Len(t) : t[k] = Append(s, e)[k]
  BY <1>1
<1> QED BY <1>1, <1>2, SeqEqual

LEMMA WriteByteIsPut ==
  ASSUME IInv, IInv', NEW p \in Proc, WriteByte(p)
  PROVE  Ch!Put
<1>1. TypeOK /\ TypeOK' /\ Bytes < PIPESIZE /\ PIPESIZE < CounterMod /\ PIPESIZE \in Nat
  BY BytesFacts, PipeAssumption DEF IInv, RoomInv, WriteByte
<1>2. /\ Bytes \in Nat /\ Bytes' = Bytes + 1
      /\ nread' = nread /\ nwrite' = (nwrite + 1) % CounterMod
  BY <1>1, BytesFacts, BytesWritten, PipeAssumption DEF WriteByte
<1>3. PICK b \in Byte : data' = [data EXCEPT ![nwrite % PIPESIZE] = b]
  BY DEF WriteByte
<1>4. /\ Queue \in Seq(Byte) /\ Len(Queue) = Bytes
      /\ Queue' \in Seq(Byte) /\ Len(Queue') = Bytes + 1
  <2>1. Queue \in Seq(Byte) /\ Len(Queue) = Bytes
    BY <1>1, QueueFacts
  <2>2. Queue' \in Seq(Byte) /\ Len(Queue') = Bytes'
    <3>1. nread' \in Nat /\ Bytes' \in Nat /\ data' \in [0..PIPESIZE - 1 -> Byte]
      BY <1>1, <1>2 DEF TypeOK
    <3>2. PICK n \in Nat, m \in Nat, d \in [0..PIPESIZE - 1 -> Byte] :
              n = nread' /\ m = Bytes' /\ d = data'
      BY <3>1
    <3>3. /\ [k \in 1..m |-> d[(n + k - 1) % PIPESIZE]] \in Seq(Byte)
          /\ Len([k \in 1..m |-> d[(n + k - 1) % PIPESIZE]]) = m
          /\ \A k \in 1..m : (n + k - 1) % PIPESIZE \in 0..PIPESIZE - 1
      BY RingIsSeq
    <3>4. Queue' = [k \in 1..m |-> d[(n + k - 1) % PIPESIZE]]  BY <3>2 DEF Queue
    <3> QED BY <3>2, <3>3, <3>4
  <2> QED BY <1>2, <2>1, <2>2
<1>5. \A k \in 1..Bytes : Queue'[k] = Queue[k]
  <2> SUFFICES ASSUME NEW k \in 1..Bytes PROVE Queue'[k] = Queue[k]
    OBVIOUS
  <2>1. Queue'[k] = data'[(nread + k - 1) % PIPESIZE]
    BY <1>2 DEF Queue
  <2>2. Queue[k] = data[(nread + k - 1) % PIPESIZE]
    BY DEF Queue
  <2>3. (nread + k - 1) % PIPESIZE # nwrite % PIPESIZE
    BY <1>1, FreePlace
  <2>4. (nread + k - 1) % PIPESIZE \in 0..PIPESIZE - 1
    BY <1>1, QueueFacts
  <2> QED BY <1>1, <1>3, <2>1, <2>2, <2>3, <2>4 DEF TypeOK
<1>6. Queue'[Bytes + 1] = b
  <2>1. Queue'[Bytes + 1] = data'[(nread + (Bytes + 1) - 1) % PIPESIZE]
    BY <1>2 DEF Queue
  <2>2. nread + (Bytes + 1) - 1 = nread + Bytes
    BY <1>1, <1>2 DEF TypeOK
  <2>3. (nread + Bytes) % PIPESIZE = nwrite % PIPESIZE /\ nwrite % PIPESIZE \in 0..PIPESIZE - 1
    BY <1>1, FreePlace
  <2> QED BY <1>1, <1>3, <2>1, <2>2, <2>3 DEF TypeOK
<1>7. Queue' = Append(Queue, b)
  BY <1>4, <1>5, <1>6, AppendIs
<1>8. writeopen = TRUE /\ UNCHANGED <<writeopen, readopen>>
  BY OpenFacts DEF IInv, CallInv, TypeOK, WriteByte, Writing, openVars
<1> QED BY <1>1, <1>4, <1>7, <1>8 DEF Ch!Put

LEMMA ReadByteIsTake ==
  ASSUME IInv, IInv', NEW p \in Proc, ReadByte(p)
  PROVE  Ch!Take
<1>1. TypeOK /\ TypeOK' /\ Bytes > 0
  BY BytesFacts DEF IInv, ReadByte
<1>2. /\ Bytes \in Nat /\ Bytes' = Bytes - 1 /\ data' = data
      /\ nread \in 0..CounterMod - 1 /\ nread' = (nread + 1) % CounterMod
      /\ CounterMod \in Nat /\ PIPESIZE \in Nat \ {0}
  BY <1>1, BytesFacts, BytesRead, PipeAssumption, SMTT(30) DEF ReadByte, TypeOK
<1>3. /\ Queue \in Seq(Byte) /\ Len(Queue) = Bytes
      /\ Queue' \in Seq(Byte) /\ Len(Queue') = Bytes - 1
  <2>1. Queue \in Seq(Byte) /\ Len(Queue) = Bytes
    BY <1>1, QueueFacts
  <2>2. Queue' \in Seq(Byte) /\ Len(Queue') = Bytes'
    <3>1. nread' \in Nat /\ Bytes' \in Nat /\ data' \in [0..PIPESIZE - 1 -> Byte]
      BY <1>1, <1>2 DEF TypeOK
    <3>2. PICK n \in Nat, m \in Nat, d \in [0..PIPESIZE - 1 -> Byte] :
              n = nread' /\ m = Bytes' /\ d = data'
      BY <3>1
    <3>3. /\ [k \in 1..m |-> d[(n + k - 1) % PIPESIZE]] \in Seq(Byte)
          /\ Len([k \in 1..m |-> d[(n + k - 1) % PIPESIZE]]) = m
          /\ \A k \in 1..m : (n + k - 1) % PIPESIZE \in 0..PIPESIZE - 1
      BY RingIsSeq
    <3>4. Queue' = [k \in 1..m |-> d[(n + k - 1) % PIPESIZE]]  BY <3>2 DEF Queue
    <3> QED BY <3>2, <3>3, <3>4
  <2> QED BY <1>2, <2>1, <2>2
<1>4. /\ Queue # <<>> /\ Tail(Queue) \in Seq(Byte) /\ Len(Tail(Queue)) = Bytes - 1
      /\ \A k \in 1..Bytes - 1 : Tail(Queue)[k] = Queue[k + 1]
  <2>1. Queue # <<>>
    BY <1>1, <1>2, <1>3, EmptySeq
  <2> QED BY <1>3, <2>1, HeadTailProperties
<1>5. ASSUME NEW k \in 1..Bytes - 1 PROVE Queue'[k] = Queue[k + 1]
  <2>1. Queue'[k] = data[(nread' + k - 1) % PIPESIZE]
    BY <1>2 DEF Queue
  <2>2. Queue[k + 1] = data[(nread + (k + 1) - 1) % PIPESIZE]
    BY <1>2 DEF Queue
  <2>3. (nread' + k - 1) % PIPESIZE = (nread + (k + 1) - 1) % PIPESIZE
    <3>1. CASE nread < CounterMod - 1
      <4>1. nread' = nread + 1
        BY <1>2, <3>1, StepOn
      <4>2. nread' + k - 1 = nread + (k + 1) - 1
        BY <1>2, <4>1
      <4> QED BY <4>2
    <3>2. CASE nread = CounterMod - 1
      <4>1. nread' = 0
        BY <1>2, <3>2, StepOn
      <4>2. PICK x \in Nat : x = k - 1
        BY <1>2
      <4>3. nread' + k - 1 = x /\ nread + (k + 1) - 1 = x + CounterMod
        BY <1>2, <3>2, <4>1, <4>2
      <4> QED BY <4>3, RingWrap
    <3> QED BY <1>2, <3>1, <3>2
  <2> QED BY <2>1, <2>2, <2>3
<1>6. Queue' = Tail(Queue)
  BY <1>3, <1>4, <1>5, SeqEqual
<1>7. readopen = TRUE /\ UNCHANGED <<writeopen, readopen>>
  BY OpenFacts DEF IInv, CallInv, TypeOK, ReadByte, Reading, openVars
<1> QED BY <1>4, <1>6, <1>7 DEF Ch!Take

LEMMA PipeCloseIsClose ==
  ASSUME IInv, NEW p \in Proc, PipeClose(p)
  PROVE  Ch!CloseWrite \/ Ch!CloseRead
<1>1. UNCHANGED Queue
  BY DEF PipeClose, pipeVars, Queue, Bytes
<1>2. p \in Closers(closing[p]) /\ closing[p] \in End
  BY DEF Closers, IInv, TypeOK, PipeClose
<1>3. IsOpen(closing[p])
  BY <1>2 DEF IInv, OpenInv
<1> QED BY <1>1, <1>2, <1>3
        DEF Ch!CloseWrite, Ch!CloseRead, IsOpen, End, IInv, TypeOK, PipeClose

\* A pipe is a bounded first in, first out queue of bytes, wherever nread and
\* nwrite wrap around, for any PIPESIZE that divides 2^32 and any number of
\* readers and writers.
THEOREM PipeImplementsChannel == HSpec => FifoQueue
<1>1. HInit => Ch!CInit
  <2> SUFFICES ASSUME HInit PROVE Ch!CInit
    OBVIOUS
  <2>1. TypeOK /\ Bytes = 0
    BY InitOK, BytesFacts DEF IInv, HInit, Init, Empty
  <2>2. Queue = <<>>
    BY <2>1, QueueFacts, EmptySeq
  <2> QED BY <2>2 DEF Ch!CInit, HInit, Init
<1>2. ASSUME IInv, IInv', [HNext]_hvars
      PROVE  [Ch!CNext]_(Ch!cvars)
  <2>1. ASSUME UNCHANGED <<pipeVars, openVars>> PROVE UNCHANGED Ch!cvars
    BY <2>1 DEF pipeVars, openVars, Ch!cvars, Queue, Bytes
  <2>2. CASE UNCHANGED hvars
    BY <2>1, <2>2 DEF hvars, vars
  <2>3. CASE HNext
    <3>1. PICK p \in Proc : UserCall(p) \/ Write(p) \/ ReadIt(p) \/ Shut(p) \/ Kill(p)
      BY <2>3 DEF HNext, Next
    <3>2. CASE WriteByte(p)
      BY <1>2, <3>2, WriteByteIsPut DEF Ch!CNext
    <3>3. CASE ReadByte(p)
      BY <1>2, <3>3, ReadByteIsTake DEF Ch!CNext
    <3>4. CASE PipeClose(p)
      BY <1>2, <3>4, PipeCloseIsClose DEF Ch!CNext
    <3>5. CASE UNCHANGED <<pipeVars, openVars>>
      BY <2>1, <3>5
    <3>6. WriteByte(p) \/ ReadByte(p) \/ PipeClose(p) \/ UNCHANGED <<pipeVars, openVars>>
      BY <3>1 DEF UserCall, Write, ReadIt, Shut, Kill, WriteCall, ReadCall, Fork, Close, Exit,
         WriteLock, WriteFails, WriteWaits, WriteSleep, WriteDone, ReadLock, ReadFails,
         ReadWaits, ReadSleep, ReadStart, ReadDone, FileClose, Reap
    <3> QED BY <3>2, <3>3, <3>4, <3>5, <3>6
  <2> QED BY <1>2, <2>2, <2>3
<1> QED BY Invariance, <1>1, <1>2, PTL DEF HSpec, FifoQueue, Ch!CSpec
=============================================================================
