----------------------------- MODULE ProcProofs -----------------------------
(***************************************************************************)
(* IInv is an inductive invariant of Proc, for any number of CPUs and of   *)
(* slots, and the safety invariants of Proc follow from it.                *)
(*                                                                         *)
(* Every step of a process is proved in a lemma of its own, part by part.  *)
(* What they share is said once: Here (the process on a CPU is there       *)
(* alone), Frame (what the other CPUs execute) and Building (the slot a    *)
(* fork() fills is seen by nobody else).                                   *)
(***************************************************************************)
EXTENDS ProcInv, TLAPS

USE DEF At, sigVars, procVars, statVars, thrVars, lockVars, cpuVars

(* What most steps of a process are to the invariant: they take no part in
   a fork() and change nothing the invariant is about but pc[s].           *)
Idle == (OpenPC \ Forking) \cup NapPC

Quiet(c, s) ==
    /\ On(c, s)
    /\ pc[s] \in Idle \/ (pc[s] = "trap" /\ saved[s] = "user")
    /\ \E p \in Idle : pc' = [pc EXCEPT ![s] = p]
    /\ \A t \in Slot \ {s} : killed'[t] = killed[t]
    /\ UNCHANGED <<state, chan, parent, kstack, saved, np, lock, spc, cur>>

(* The strings and numbers the actions assign are of the right type. *)
LEMMA Members ==
  /\ {"user", "sys", "kalloc", "copy", "undo", "publish", "ret", "exit",
      "renap", "forkret", "yield", "waitsleep", "napsleep", "zombie",
      "napcheck", "napgo", "none", "trap", "scan"} \subseteq PC
  /\ OpenPC \subseteq PC /\ {"user", "ret"} \subseteq OpenPC
  /\ {"UNUSED", "EMBRYO", "SLEEPING", "RUNNABLE", "RUNNING", "ZOMBIE"}
       \subseteq States
  /\ Slot \subseteq 0..NPROC /\ Slot \subseteq 0..TicksChan
  /\ Slot \subseteq Nat
  /\ NoProc \in 0..NPROC /\ InitProc \in Slot
  /\ {NoChan, TicksChan} \subseteq 0..TicksChan
  /\ 1..Forever \subseteq 0..Forever /\ 0 \in 0..Forever /\ 0 \in 0..MaxTicks
BY ProcAssumption DEF PC, OpenPC, SchedPC, NapPC, States, Slot, NoProc,
       InitProc, NoChan, TicksChan, Forever

LEMMA InitSlot == InitProc \in Slot /\ NoProc \notin Slot
BY ProcAssumption DEF InitProc, NoProc, Slot

LEMMA CurSlot ==
  ASSUME IInv, NEW c \in CPU, spc[c] \in {"proc", "back"}
  PROVE  cur[c] \in Slot
<1>1. cur[c] \in 0..NPROC /\ cur[c] # 0
  BY DEF IInv, TypeOK, CurInv, NoProc
<1> QED BY <1>1, ProcAssumption DEF Slot

(* The process a CPU executes is on no other CPU, and the CPU holds
   ptable.lock exactly inside sched() and the scan of wait().              *)
LEMMA Here ==
  ASSUME IInv, NEW c \in CPU, NEW s \in Slot, On(c, s)
  PROVE  /\ s = cur[c]
         /\ state[s] \in Alive \cup {"ZOMBIE"}
         /\ pc[s] \notin SchedPC => state[s] = "RUNNING"
         /\ pc[s] \in SchedPC \cup {"scan"} <=> lock = c
         /\ np[s] # NoProc =>
              np[s] \in Slot /\ np[s] # s /\ state[np[s]] = "EMBRYO"
         /\ \A d \in CPU \ {c} : cur[d] # s
BY DEF IInv, TypeOK, CurInv, OneCPUEach, OnInv, On, Slot, NoProc, LockInv,
       Holds, ForkInv, Alive, Where, Forking

(* What another CPU executes meanwhile. *)
LEMMA Frame ==
  ASSUME IInv, NEW c \in CPU, NEW s \in Slot, On(c, s)
  PROVE  \A d \in CPU \ {c} : spc[d] = "proc" =>
            /\ cur[d] \in Slot /\ cur[d] # s
            /\ state[cur[d]] \in Alive \cup {"ZOMBIE"}
            /\ pc[cur[d]] \notin SchedPC => state[cur[d]] = "RUNNING"
            /\ pc[cur[d]] \in SchedPC \cup {"scan"} => lock = d
BY DEF IInv, TypeOK, CurInv, OneCPUEach, OnInv, On, Slot, NoProc, LockInv, Holds

(* The slot that fork() is filling belongs to it alone. *)
LEMMA Building ==
  ASSUME IInv, NEW c \in CPU, NEW s \in Slot, On(c, s), pc[s] \in Forking
  PROVE  /\ np[s] \in Slot /\ np[s] # s
         /\ state[np[s]] = "EMBRYO"
         /\ pc[s] \in {"copy", "publish"} =>
              kstack[np[s]] /\ pc[np[s]] = "forkret"
         /\ parent[np[s]] = IF pc[s] = "publish" THEN s ELSE NoProc
         /\ \A t \in Slot \ {s} : np[t] # np[s]
         /\ \A d \in CPU : spc[d] = "proc" => cur[d] # np[s]
<1> pc[s] \notin SchedPC /\ Where(s) = pc[s] /\ state[s] = "RUNNING"
  BY Here DEF Where, Forking, SchedPC
<1> QED BY Here DEF IInv, ForkInv, Alive, OnInv, TypeOK

LEMMA QuietStep ==
  ASSUME IInv, NEW c \in CPU, NEW s \in Slot, Quiet(c, s), TypeOK'
  PROVE  IInv'
<1> USE DEF Quiet, Idle
<1>a. On(c, s) /\ TypeOK
  BY DEF IInv, TypeOK
<1>1. LockInv'
  BY <1>a, ProcAssumption, Frame, Here DEF IInv, TypeOK, LockInv, Holds, On, SchedPC, OpenPC, Alive, Forking, NapPC
<1>2. CurInv' /\ OneCPUEach'
  BY <1>a, Here DEF IInv, TypeOK, CurInv, OneCPUEach, On, NoProc, Forking, OpenPC, NapPC, SchedPC
<1>3. OnInv'
  BY <1>a, Frame, Here DEF IInv, TypeOK, OnInv, On, Alive, SchedPC, OpenPC, Forking, NapPC
<1>4. SlotInv'
  BY <1>a, Here DEF IInv, TypeOK, SlotInv, Alive, SchedPC, OpenPC, Forking, NapPC
<1>5. ForkInv'
  BY <1>a, Here DEF IInv, TypeOK, ForkInv, Alive, Where, Forking, OpenPC, NapPC, SchedPC
<1>6. InitInv' /\ ParentAlive'
  BY <1>a, Here DEF IInv, TypeOK, InitInv, ParentAlive, Alive, Forking, OpenPC, NapPC, SchedPC
<1>7. NoLostWakeup'
  BY <1>a, Here DEF IInv, TypeOK, NoLostWakeup, Zombies, Children, Alive, Forking, OpenPC, NapPC, SchedPC
<1> QED BY <1>1, <1>2, <1>3, <1>4, <1>5, <1>6, <1>7 DEF IInv

LEMMA ForkFullStep ==
  ASSUME IInv, NEW c \in CPU, NEW s \in Slot, ForkFull(c, s)
  PROVE  IInv'
<1>1. TypeOK'
  BY ProcAssumption, Members DEF IInv, TypeOK, ForkFull
<1>2. Quiet(c, s)
  BY DEF IInv, TypeOK, ForkFull, Quiet, Idle, Forking, OpenPC, NapPC
<1> QED BY <1>1, <1>2, QuietStep

LEMMA SysExitStep ==
  ASSUME IInv, NEW c \in CPU, NEW s \in Slot, SysExit(c, s)
  PROVE  IInv'
<1>1. TypeOK'
  BY ProcAssumption, Members DEF IInv, TypeOK, SysExit
<1>2. Quiet(c, s)
  BY DEF IInv, TypeOK, SysExit, Quiet, Idle, Forking, OpenPC, NapPC
<1> QED BY <1>1, <1>2, QuietStep

LEMMA SysSleepStep ==
  ASSUME IInv, NEW c \in CPU, NEW s \in Slot, SysSleep(c, s)
  PROVE  IInv'
<1>1. TypeOK'
  BY ProcAssumption, Members DEF IInv, TypeOK, SysSleep
<1>2. Quiet(c, s)
  BY DEF IInv, TypeOK, SysSleep, Quiet, Idle, Forking, OpenPC, NapPC
<1> QED BY <1>1, <1>2, QuietStep

LEMMA NapCheckStep ==
  ASSUME IInv, NEW c \in CPU, NEW s \in Slot, NapCheck(c, s)
  PROVE  IInv'
<1>1. TypeOK'
  BY ProcAssumption, Members DEF IInv, TypeOK, NapCheck, NapOver
<1>2. Quiet(c, s)
  BY DEF IInv, TypeOK, NapCheck, NapOver, Quiet, Idle, Forking, OpenPC, NapPC
<1> QED BY <1>1, <1>2, QuietStep

LEMMA NapAgainStep ==
  ASSUME IInv, NEW c \in CPU, NEW s \in Slot, NapAgain(c, s)
  PROVE  IInv'
<1>1. TypeOK'
  BY ProcAssumption, Members DEF IInv, TypeOK, NapAgain
<1>2. Quiet(c, s)
  BY DEF IInv, TypeOK, NapAgain, Quiet, Idle, Forking, OpenPC, NapPC
<1> QED BY <1>1, <1>2, QuietStep

LEMMA SetTicketsStep ==
  ASSUME IInv, NEW c \in CPU, NEW s \in Slot, SetTickets(c, s)
  PROVE  IInv'
<1>1. TypeOK'
  BY ProcAssumption, Members DEF IInv, TypeOK, SetTickets
<1>2. Quiet(c, s)
  BY DEF IInv, TypeOK, SetTickets, Quiet, Idle, Forking, OpenPC, NapPC
<1> QED BY <1>1, <1>2, QuietStep

LEMMA FaultStep ==
  ASSUME IInv, NEW c \in CPU, NEW s \in Slot, Fault(c, s)
  PROVE  IInv'
<1>1. TypeOK'
  BY ProcAssumption, Members DEF IInv, TypeOK, Fault
<1>2. Quiet(c, s)
  BY DEF IInv, TypeOK, Fault, Quiet, Idle, Forking, OpenPC, NapPC
<1> QED BY <1>1, <1>2, QuietStep

LEMMA EnterStep ==
  ASSUME IInv, NEW c \in CPU, NEW s \in Slot, Enter(c, s)
  PROVE  IInv'
<1>1. TypeOK'
  BY ProcAssumption, Members DEF IInv, TypeOK, Enter
<1>2. Quiet(c, s)
  BY DEF IInv, TypeOK, Enter, Quiet, Idle, Forking, OpenPC, NapPC
<1> QED BY <1>1, <1>2, QuietStep

LEMMA RetStep ==
  ASSUME IInv, NEW c \in CPU, NEW s \in Slot, Ret(c, s)
  PROVE  IInv'
<1>1. TypeOK'
  BY ProcAssumption, Members DEF IInv, TypeOK, Ret
<1>2. Quiet(c, s)
  BY DEF IInv, TypeOK, Ret, Quiet, Idle, Forking, OpenPC, NapPC
<1> QED BY <1>1, <1>2, QuietStep

LEMMA TrapExitStep ==
  ASSUME IInv, NEW c \in CPU, NEW s \in Slot, TrapExit(c, s)
  PROVE  IInv'
<1>1. TypeOK'
  BY ProcAssumption, Members DEF IInv, TypeOK, TrapExit
<1>2. Quiet(c, s)
  BY DEF IInv, TypeOK, TrapExit, Quiet, Idle, Forking, OpenPC, NapPC
<1> QED BY <1>1, <1>2, QuietStep

LEMMA ReturnStep ==
  ASSUME IInv, NEW c \in CPU, NEW s \in Slot, Return(c, s)
  PROVE  IInv'
<1> USE DEF Return
<1>a. On(c, s) /\ TypeOK
  BY DEF IInv, TypeOK
<1>1. TypeOK'
  BY <1>a, Here, Members DEF TypeOK
<1>2. LockInv'
  BY <1>a, ProcAssumption, Frame, Here, SMTT(30) DEF IInv, TypeOK, LockInv, Holds, On, SchedPC, OpenPC, Alive
<1>3. CurInv' /\ OneCPUEach'
  BY <1>a, Here DEF IInv, TypeOK, CurInv, OneCPUEach, On, NoProc
<1>4. OnInv'
  BY <1>a, Frame, Here DEF IInv, TypeOK, OnInv, On, Alive, SchedPC, OpenPC
<1>5. SlotInv'
  BY <1>a, Here DEF IInv, TypeOK, SlotInv, Alive, SchedPC, OpenPC
<1>6. ForkInv'
  BY <1>a, Here DEF IInv, TypeOK, ForkInv, Alive, Where, Forking
<1>7. InitInv' /\ ParentAlive'
  BY <1>a, Here DEF IInv, TypeOK, InitInv, ParentAlive, Alive
<1>8. NoLostWakeup'
  BY <1>a, Here DEF IInv, TypeOK, NoLostWakeup, Zombies, Children, Alive
<1> QED BY <1>1, <1>2, <1>3, <1>4, <1>5, <1>6, <1>7, <1>8 DEF IInv

LEMMA AwakeStep ==
  ASSUME IInv, NEW c \in CPU, NEW s \in Slot, Awake(c, s)
  PROVE  IInv'
<1> USE DEF Awake
<1>a. On(c, s) /\ TypeOK
  BY DEF IInv, TypeOK
<1>1. TypeOK'
  BY <1>a, Here, Members DEF TypeOK
<1>2. LockInv'
  BY <1>a, ProcAssumption, Frame, Here DEF IInv, TypeOK, LockInv, Holds, On, SchedPC, OpenPC, Alive
<1>3. CurInv' /\ OneCPUEach'
  BY <1>a, Here DEF IInv, TypeOK, CurInv, OneCPUEach, On, NoProc
<1>4. OnInv'
  <2>1. ASSUME NEW d \in CPU, spc'[d] = "proc"
        PROVE  /\ state'[cur'[d]] \in Alive \cup {"ZOMBIE"}
               /\ pc'[cur'[d]] \notin SchedPC => state'[cur'[d]] = "RUNNING"
    <3>1. CASE d = c
      BY <1>a, <2>1, <3>1, Here DEF IInv, TypeOK, On, Alive, SchedPC, OpenPC
    <3>2. CASE d # c
      BY <1>a, <2>1, <3>2, Here, Frame DEF IInv, TypeOK, On, OnInv, Alive
    <3> QED BY <3>1, <3>2
  <2>2. ASSUME NEW d \in CPU, spc'[d] = "halted"
        PROVE  cur'[d] = InitProc /\ pc'[InitProc] = "exit"
                 /\ state'[InitProc] = "RUNNING"
    BY <1>a, <2>2, InitSlot, Here DEF IInv, TypeOK, On, OnInv, Alive
  <2> QED BY <2>1, <2>2 DEF OnInv
<1>5. SlotInv'
  BY <1>a, Here DEF IInv, TypeOK, SlotInv, Alive, SchedPC, OpenPC
<1>6. ForkInv'
  BY <1>a, Here DEF IInv, TypeOK, ForkInv, Alive, Where, Forking
<1>7. InitInv' /\ ParentAlive'
  BY <1>a, Here DEF IInv, TypeOK, InitInv, ParentAlive, Alive
<1>8. NoLostWakeup'
  BY <1>a, Here DEF IInv, TypeOK, NoLostWakeup, Zombies, Children, Alive
<1> QED BY <1>1, <1>2, <1>3, <1>4, <1>5, <1>6, <1>7, <1>8 DEF IInv

LEMMA ForkAllocStep ==
  ASSUME IInv, NEW c \in CPU, NEW s \in Slot, ForkAlloc(c, s)
  PROVE  IInv'
<1> USE DEF ForkAlloc, First
<1>a. On(c, s) /\ TypeOK
  BY DEF IInv, TypeOK
<1>1. TypeOK'
  BY <1>a, Here, Members DEF TypeOK
<1>2. LockInv'
  BY <1>a, ProcAssumption, Frame, Here DEF IInv, TypeOK, LockInv, Holds, On, SchedPC, OpenPC, Alive
<1>3. CurInv' /\ OneCPUEach'
  BY <1>a, Here DEF IInv, TypeOK, CurInv, OneCPUEach, On, NoProc
<1>4. OnInv'
  BY <1>a, Frame, Here DEF IInv, TypeOK, OnInv, On, Alive, SchedPC, OpenPC
<1>5. SlotInv'
  BY <1>a, Here DEF IInv, TypeOK, SlotInv, Alive, SchedPC, OpenPC
<1>6. ForkInv'
  <2>1. PICK f \in Slot : /\ state[f] = "UNUSED"
                          /\ state' = [state EXCEPT ![f] = "EMBRYO"]
                          /\ np' = [np EXCEPT ![s] = f]
    OBVIOUS
  <2>2. /\ Where(s) = "sys" /\ Where(s)' = "kalloc"
        /\ \A t \in Slot \ {s} : Where(t)' = Where(t) /\ pc'[t] = pc[t]
    BY <1>a DEF TypeOK, Where
  <2>3. state[s] = "RUNNING" /\ f # s
    BY <1>a, <2>1, Here DEF SchedPC
  <2>4. \A t \in Slot : np[t] # NoProc => np[t] # f /\ np[t] # s
    BY <2>1, <2>3 DEF IInv, ForkInv, Alive
  <2>5. parent[f] = NoProc /\ f # NoProc /\ NoProc \notin Slot
    BY <2>1, InitSlot DEF IInv, SlotInv
  <2> QED
    BY <1>a, <2>1, <2>2, <2>3, <2>4, <2>5 DEF IInv, TypeOK, ForkInv, Forking, Alive
<1>7. InitInv' /\ ParentAlive'
  BY <1>a, Here DEF IInv, TypeOK, InitInv, ParentAlive, Alive
<1>8. NoLostWakeup'
  BY <1>a, Here DEF IInv, TypeOK, NoLostWakeup, Zombies, Children, Alive
<1> QED BY <1>1, <1>2, <1>3, <1>4, <1>5, <1>6, <1>7, <1>8 DEF IInv

LEMMA ForkKallocStep ==
  ASSUME IInv, NEW c \in CPU, NEW s \in Slot, ForkKalloc(c, s)
  PROVE  IInv'
<1> USE DEF ForkKalloc
<1>a. On(c, s) /\ TypeOK
  BY DEF IInv, TypeOK
<1>b. pc[s] \in Forking
  BY DEF Forking
<1>1. TypeOK'
  <2>1. state' \in [Slot -> States] /\ pc' \in [Slot -> PC]
    BY <1>a, <1>b, Building, Members DEF TypeOK
  <2>2. kstack' \in [Slot -> BOOLEAN]
    BY <1>a, Zenon DEF TypeOK
  <2>3. np' \in [Slot -> 0..NPROC]
    BY <1>a, <1>b, Building, Members DEF TypeOK
  <2> QED
    BY <1>a, <2>1, <2>2, <2>3 DEF TypeOK
<1>2. LockInv'
  BY <1>a, ProcAssumption, Frame, Here, Building, <1>b DEF IInv, TypeOK, LockInv, Holds, On, SchedPC, OpenPC, Alive
<1>3. CurInv' /\ OneCPUEach'
  BY <1>a, Here, Building, <1>b DEF IInv, TypeOK, CurInv, OneCPUEach, On, NoProc
<1>4. OnInv'
  <2>1. ASSUME NEW d \in CPU, spc'[d] = "proc"
        PROVE  /\ state'[cur'[d]] \in Alive \cup {"ZOMBIE"}
               /\ pc'[cur'[d]] \notin SchedPC => state'[cur'[d]] = "RUNNING"
    <3>1. CASE d = c
      BY <1>a, <2>1, <3>1, <1>b, Here, Building DEF IInv, TypeOK, On, Alive, SchedPC, OpenPC
    <3>2. CASE d # c
      BY <1>a, <2>1, <3>2, <1>b, Here, Building, Frame DEF IInv, TypeOK, On, OnInv, Alive
    <3> QED BY <3>1, <3>2
  <2>2. ASSUME NEW d \in CPU, spc'[d] = "halted"
        PROVE  cur'[d] = InitProc /\ pc'[InitProc] = "exit"
                 /\ state'[InitProc] = "RUNNING"
    BY <1>a, <2>2, InitSlot, <1>b, Here, Building DEF IInv, TypeOK, On, OnInv, Alive
  <2> QED BY <2>1, <2>2 DEF OnInv
<1>5. SlotInv'
  BY <1>a, Here, Building, <1>b DEF IInv, TypeOK, SlotInv, Alive, SchedPC, OpenPC
<1>6. ForkInv'
  BY <1>a, Here, Building, <1>b, SMTT(30) DEF IInv, TypeOK, ForkInv, Alive, Where, Forking
<1>7. InitInv' /\ ParentAlive'
  <2>1. InitInv'
    BY <1>a, InitSlot, <1>b, Here, Building DEF IInv, TypeOK, InitInv, Alive
  <2>2. ParentAlive'
    BY <1>a, InitSlot, <1>b, Here, Building, SMTT(30) DEF IInv, TypeOK, InitInv, ParentAlive, Alive
  <2> QED BY <2>1, <2>2
<1>8. NoLostWakeup'
  BY <1>a, Here, Building, <1>b, SMTT(30) DEF IInv, TypeOK, NoLostWakeup, Zombies, Children, Alive
<1> QED BY <1>1, <1>2, <1>3, <1>4, <1>5, <1>6, <1>7, <1>8 DEF IInv

LEMMA ForkCopyStep ==
  ASSUME IInv, NEW c \in CPU, NEW s \in Slot, ForkCopy(c, s)
  PROVE  IInv'
<1> USE DEF ForkCopy
<1>a. On(c, s) /\ TypeOK
  BY DEF IInv, TypeOK
<1>b. pc[s] \in Forking
  BY DEF Forking
<1>1. TypeOK'
  <2>1. parent' \in [Slot -> 0..NPROC] /\ tickets' \in [Slot -> Int]
    BY <1>a, <1>b, Building, Members DEF TypeOK
  <2>2. kstack' \in [Slot -> BOOLEAN]
    BY <1>a, Zenon DEF TypeOK
  <2>3. pc' \in [Slot -> PC]
    BY <1>a, <1>b, Building, Members DEF TypeOK
  <2> QED
    BY <1>a, <2>1, <2>2, <2>3 DEF TypeOK
<1>2. LockInv'
  BY <1>a, ProcAssumption, Frame, Here, Building, <1>b DEF IInv, TypeOK, LockInv, Holds, On, SchedPC, OpenPC, Alive
<1>3. CurInv' /\ OneCPUEach'
  BY <1>a, Here, Building, <1>b DEF IInv, TypeOK, CurInv, OneCPUEach, On, NoProc
<1>4. OnInv'
  <2>1. ASSUME NEW d \in CPU, spc'[d] = "proc"
        PROVE  /\ state'[cur'[d]] \in Alive \cup {"ZOMBIE"}
               /\ pc'[cur'[d]] \notin SchedPC => state'[cur'[d]] = "RUNNING"
    <3>1. CASE d = c
      BY <1>a, <2>1, <3>1, <1>b, Here, Building DEF IInv, TypeOK, On, Alive, SchedPC, OpenPC
    <3>2. CASE d # c
      BY <1>a, <2>1, <3>2, <1>b, Here, Building, Frame DEF IInv, TypeOK, On, OnInv, Alive
    <3> QED BY <3>1, <3>2
  <2>2. ASSUME NEW d \in CPU, spc'[d] = "halted"
        PROVE  cur'[d] = InitProc /\ pc'[InitProc] = "exit"
                 /\ state'[InitProc] = "RUNNING"
    BY <1>a, <2>2, InitSlot, <1>b, Here, Building DEF IInv, TypeOK, On, OnInv, Alive
  <2> QED BY <2>1, <2>2 DEF OnInv
<1>5. SlotInv'
  BY <1>a, Here, Building, <1>b DEF IInv, TypeOK, SlotInv, Alive, SchedPC, OpenPC
<1>6. ForkInv'
  BY <1>a, Here, Building, <1>b DEF IInv, TypeOK, ForkInv, Alive, Where, Forking
<1>7. InitInv' /\ ParentAlive'
  <2>1. InitInv'
    BY <1>a, InitSlot, <1>b, Here, Building DEF IInv, TypeOK, InitInv, Alive
  <2>2. ParentAlive'
    BY <1>a, InitSlot, <1>b, Here, Building DEF IInv, TypeOK, InitInv, ParentAlive, Alive
  <2> QED BY <2>1, <2>2
<1>8. NoLostWakeup'
  <2>1. /\ state[s] = "RUNNING" /\ np[s] \in Slot
        /\ state[np[s]] = "EMBRYO" /\ parent[np[s]] = NoProc
    BY <1>a, <1>b, Here, Building DEF SchedPC
  <2>2. \A t \in Slot : /\ Zombies(t)' = Zombies(t)
                        /\ Children(t) \subseteq Children(t)'
    BY <2>1, <1>a, InitSlot DEF TypeOK, Zombies, Children
  <2>3. \A t \in Slot : state[t] = "SLEEPING" => pc'[t] = pc[t]
    BY <2>1, <1>a DEF TypeOK
  <2> QED
    BY <1>a, <2>1, <2>2, <2>3 DEF IInv, TypeOK, NoLostWakeup
<1> QED BY <1>1, <1>2, <1>3, <1>4, <1>5, <1>6, <1>7, <1>8 DEF IInv

LEMMA ForkUndoStep ==
  ASSUME IInv, NEW c \in CPU, NEW s \in Slot, ForkUndo(c, s)
  PROVE  IInv'
<1> USE DEF ForkUndo
<1>a. On(c, s) /\ TypeOK
  BY DEF IInv, TypeOK
<1>b. pc[s] \in Forking
  BY DEF Forking
<1>1. TypeOK'
  BY <1>a, Here, Members, Building, <1>b DEF TypeOK
<1>2. LockInv'
  BY <1>a, ProcAssumption, Frame, Here, Building, <1>b DEF IInv, TypeOK, LockInv, Holds, On, SchedPC, OpenPC, Alive
<1>3. CurInv' /\ OneCPUEach'
  BY <1>a, Here, Building, <1>b DEF IInv, TypeOK, CurInv, OneCPUEach, On, NoProc
<1>4. OnInv'
  BY <1>a, Frame, Here, Building, <1>b DEF IInv, TypeOK, OnInv, On, Alive, SchedPC, OpenPC
<1>5. SlotInv'
  BY <1>a, Here, Building, <1>b DEF IInv, TypeOK, SlotInv, Alive, SchedPC, OpenPC
<1>6. ForkInv'
  BY <1>a, Here, Building, <1>b DEF IInv, TypeOK, ForkInv, Alive, Where, Forking
<1>7. InitInv' /\ ParentAlive'
  BY <1>a, Here, Building, <1>b DEF IInv, TypeOK, InitInv, ParentAlive, Alive
<1>8. NoLostWakeup'
  BY <1>a, Here, Building, <1>b DEF IInv, TypeOK, NoLostWakeup, Zombies, Children, Alive
<1> QED BY <1>1, <1>2, <1>3, <1>4, <1>5, <1>6, <1>7, <1>8 DEF IInv

LEMMA ForkPublishStep ==
  ASSUME IInv, NEW c \in CPU, NEW s \in Slot, ForkPublish(c, s)
  PROVE  IInv'
<1> USE DEF ForkPublish
<1>a. On(c, s) /\ TypeOK
  BY DEF IInv, TypeOK
<1>b. pc[s] \in Forking
  BY DEF Forking
<1>1. TypeOK'
  BY <1>a, Here, Members, Building, <1>b DEF TypeOK
<1>2. LockInv'
  BY <1>a, ProcAssumption, Frame, Here, Building, <1>b DEF IInv, TypeOK, LockInv, Holds, On, SchedPC, OpenPC, Alive
<1>3. CurInv' /\ OneCPUEach'
  BY <1>a, Here, Building, <1>b DEF IInv, TypeOK, CurInv, OneCPUEach, On, NoProc
<1>4. OnInv'
  BY <1>a, Frame, Here, Building, <1>b DEF IInv, TypeOK, OnInv, On, Alive, SchedPC, OpenPC
<1>5. SlotInv'
  BY <1>a, Here, Building, <1>b DEF IInv, TypeOK, SlotInv, Alive, SchedPC, OpenPC
<1>6. ForkInv'
  BY <1>a, Here, Building, <1>b DEF IInv, TypeOK, ForkInv, Alive, Where, Forking
<1>7. InitInv' /\ ParentAlive'
  <2>1. pc[s] = "publish" /\ state[s] = "RUNNING"
    BY <1>a, Here DEF SchedPC
  <2>2. InitInv'
    BY <1>a, InitSlot, <1>b, Here, Building DEF IInv, TypeOK, InitInv, Alive
  <2>3. /\ np[s] \in Slot /\ parent[np[s]] = s /\ np[s] # s
        /\ state[np[s]] = "EMBRYO"
    BY <1>a, <1>b, <2>1, Building
  <2> QED
    BY <1>a, <2>1, <2>2, <2>3 DEF IInv, TypeOK, ParentAlive
<1>8. NoLostWakeup'
  BY <1>a, Here, Building, <1>b DEF IInv, TypeOK, NoLostWakeup, Zombies, Children, Alive
<1> QED BY <1>1, <1>2, <1>3, <1>4, <1>5, <1>6, <1>7, <1>8 DEF IInv

LEMMA ExitPanicStep ==
  ASSUME IInv, NEW c \in CPU, NEW s \in Slot, ExitPanic(c, s)
  PROVE  IInv'
<1> USE DEF ExitPanic
<1>a. On(c, s) /\ TypeOK
  BY DEF IInv, TypeOK
<1>1. TypeOK'
  BY <1>a, Here, Members DEF TypeOK
<1>2. LockInv'
  BY <1>a, ProcAssumption, Frame, Here DEF IInv, TypeOK, LockInv, Holds, On, SchedPC, OpenPC, Alive
<1>3. CurInv' /\ OneCPUEach'
  BY <1>a, Here DEF IInv, TypeOK, CurInv, OneCPUEach, On, NoProc
<1>4. OnInv'
  BY <1>a, Frame, Here DEF IInv, TypeOK, OnInv, On, Alive, SchedPC, OpenPC
<1>5. SlotInv'
  BY <1>a, Here DEF IInv, TypeOK, SlotInv, Alive, SchedPC, OpenPC
<1>6. ForkInv'
  BY <1>a, Here DEF IInv, TypeOK, ForkInv, Alive, Where, Forking
<1>7. InitInv' /\ ParentAlive'
  BY <1>a, Here DEF IInv, TypeOK, InitInv, ParentAlive, Alive
<1>8. NoLostWakeup'
  BY <1>a, Here DEF IInv, TypeOK, NoLostWakeup, Zombies, Children, Alive
<1> QED BY <1>1, <1>2, <1>3, <1>4, <1>5, <1>6, <1>7, <1>8 DEF IInv

LEMMA ExitStep ==
  ASSUME IInv, NEW c \in CPU, NEW s \in Slot, Exit(c, s)
  PROVE  IInv'
<1> USE DEF Exit, EnterSched, Wakeup1, Orphans, NewParent, WakeInit, WakeParent
<1>a. On(c, s) /\ TypeOK
  BY DEF IInv, TypeOK
<1>1. TypeOK'
  BY <1>a, Here, Members, SMTT(30) DEF TypeOK
<1>2. LockInv'
  BY <1>a, ProcAssumption, Frame, Here DEF IInv, TypeOK, LockInv, Holds, On, SchedPC, OpenPC, Alive
<1>3. CurInv' /\ OneCPUEach'
  BY <1>a, Here DEF IInv, TypeOK, CurInv, OneCPUEach, On, NoProc
<1>4. OnInv'
  <2>1. ASSUME NEW d \in CPU, spc'[d] = "proc"
        PROVE  /\ state'[cur'[d]] \in Alive \cup {"ZOMBIE"}
               /\ pc'[cur'[d]] \notin SchedPC => state'[cur'[d]] = "RUNNING"
    <3>1. CASE d = c
      BY <1>a, <2>1, <3>1, Here DEF IInv, TypeOK, On, Alive, SchedPC, OpenPC
    <3>2. CASE d # c
      BY <1>a, <2>1, <3>2, Here, Frame DEF IInv, TypeOK, On, OnInv, Alive
    <3> QED BY <3>1, <3>2
  <2>2. ASSUME NEW d \in CPU, spc'[d] = "halted"
        PROVE  cur'[d] = InitProc /\ pc'[InitProc] = "exit"
                 /\ state'[InitProc] = "RUNNING"
    BY <1>a, <2>2, InitSlot, Here DEF IInv, TypeOK, On, OnInv, Alive
  <2> QED BY <2>1, <2>2 DEF OnInv
<1>5. SlotInv'
  <2>1. /\ state[s] = "RUNNING" /\ s # NoProc
        /\ \A k \in Slot : parent[k] = NoProc => parent'[k] = NoProc
    BY <1>a, Here, InitSlot, SMTT(30) DEF TypeOK, SchedPC
  <2> QED
    BY <1>a, <2>1, Here DEF IInv, TypeOK, SlotInv, Alive, SchedPC, OpenPC
<1>6. ForkInv'
  <2>1. /\ state[s] = "RUNNING" /\ s # NoProc
        /\ \A k \in Slot : parent[k] # s => parent'[k] = parent[k]
    BY <1>a, Here, InitSlot, SMTT(30) DEF TypeOK, SchedPC
  <2>2. \A t \in Slot : /\ state'[t] \in Alive <=> state[t] \in Alive /\ t # s
                        /\ state[t] = "EMBRYO" => state'[t] = "EMBRYO"
    BY <1>a, <2>1 DEF TypeOK, Alive
  <2>3. /\ Where(s) = "exit" /\ Where(s)' = "zombie"
        /\ \A t \in Slot \ {s} : Where(t)' = Where(t) /\ pc'[t] = pc[t]
    BY <1>a DEF TypeOK, Where
  <2> QED
    BY <1>a, <2>1, <2>2, <2>3 DEF IInv, TypeOK, ForkInv, Forking, Alive
<1>7. InitInv' /\ ParentAlive'
  <2>1. InitInv'
    BY <1>a, InitSlot, Here DEF IInv, TypeOK, InitInv, Alive
  <2>2. ParentAlive'
    BY <1>a, InitSlot, Here DEF IInv, TypeOK, InitInv, ParentAlive, Alive
  <2> QED BY <2>1, <2>2
<1>8. NoLostWakeup'
  <2> DEFINE woken == Wakeup1(state, parent[s])
  <2>1. /\ pc[s] = "exit" /\ state[s] = "RUNNING" /\ s # InitProc
        /\ parent[s] \in Slot /\ parent[s] # s
    BY <1>a, Here, InitSlot DEF IInv, ParentAlive, InitInv, SchedPC
  <2>2. ASSUME NEW t \in Slot, state'[t] = "SLEEPING", pc'[t] = "waitsleep"
        PROVE  /\ t # s /\ state[t] = "SLEEPING" /\ pc[t] = "waitsleep"
               /\ chan[t] = t /\ t # parent[s]
    BY <1>a, <2>1, <2>2 DEF IInv, TypeOK, SlotInv
  <2>3. ASSUME NEW t \in Slot, state'[t] = "SLEEPING", pc'[t] = "waitsleep",
               NEW k \in Slot, parent'[k] = t
        PROVE  state'[k] # "ZOMBIE"
    <3>1. CASE k \in Orphans(s)
      <4>1. t = InitProc /\ chan[t] = InitProc
        BY <1>a, <2>2, <2>3, <3>1 DEF TypeOK
      <4>2. woken[k] # "ZOMBIE"
        BY <1>a, <2>2, <2>3, <3>1, <4>1, InitSlot DEF TypeOK
      <4> QED
        BY <1>a, <2>1, <3>1, <4>2 DEF TypeOK, IInv, InitInv
    <3>2. CASE k \notin Orphans(s)
      <4>1. parent[k] = t /\ k # s
        BY <1>a, <2>1, <2>2, <2>3, <3>2 DEF TypeOK
      <4>2. state[k] # "ZOMBIE"
        BY <2>2, <2>3, <4>1 DEF IInv, NoLostWakeup, Zombies, Children
      <4> QED
        BY <1>a, <4>1, <4>2 DEF TypeOK
    <3> QED BY <3>1, <3>2
  <2>4. ASSUME NEW t \in Slot, state'[t] = "SLEEPING", pc'[t] = "waitsleep"
        PROVE  Children(t)' # {}
    <3>1. PICK k \in Slot : parent[k] = t
      BY <2>2, <2>4 DEF IInv, NoLostWakeup, Children
    <3>2. parent'[k] = t
      BY <1>a, <2>2, <2>4, <3>1 DEF TypeOK
    <3> QED BY <3>2 DEF Children
  <2>5. ASSUME NEW t \in Slot, state'[t] = "SLEEPING", pc'[t] = "waitsleep"
        PROVE  Zombies(t)' = {}
    BY <2>3, <2>5 DEF Zombies, Children
  <2>6. ASSUME NEW t \in Slot, state'[t] = "SLEEPING", pc'[t] = "waitsleep"
        PROVE  ~killed'[t]
    BY <2>2, <2>6 DEF IInv, NoLostWakeup
  <2> HIDE DEF Exit
  <2> QED BY <2>4, <2>5, <2>6 DEF NoLostWakeup
<1> QED BY <1>1, <1>2, <1>3, <1>4, <1>5, <1>6, <1>7, <1>8 DEF IInv

LEMMA SysWaitStep ==
  ASSUME IInv, NEW c \in CPU, NEW s \in Slot, SysWait(c, s)
  PROVE  IInv'
<1> USE DEF SysWait
<1>a. On(c, s) /\ TypeOK
  BY DEF IInv, TypeOK
<1>1. TypeOK'
  BY <1>a, Here, Members DEF TypeOK
<1>2. LockInv'
  BY <1>a, ProcAssumption, Frame, Here DEF IInv, TypeOK, LockInv, Holds, On, SchedPC, OpenPC, Alive
<1>3. CurInv' /\ OneCPUEach'
  BY <1>a, Here DEF IInv, TypeOK, CurInv, OneCPUEach, On, NoProc
<1>4. OnInv'
  BY <1>a, Frame, Here DEF IInv, TypeOK, OnInv, On, Alive, SchedPC, OpenPC
<1>5. SlotInv'
  BY <1>a, Here DEF IInv, TypeOK, SlotInv, Alive, SchedPC, OpenPC
<1>6. ForkInv'
  BY <1>a, Here DEF IInv, TypeOK, ForkInv, Alive, Where, Forking
<1>7. InitInv' /\ ParentAlive'
  BY <1>a, Here DEF IInv, TypeOK, InitInv, ParentAlive, Alive
<1>8. NoLostWakeup'
  BY <1>a, Here DEF IInv, TypeOK, NoLostWakeup, Zombies, Children, Alive
<1> QED BY <1>1, <1>2, <1>3, <1>4, <1>5, <1>6, <1>7, <1>8 DEF IInv

LEMMA WaitReapStep ==
  ASSUME IInv, NEW c \in CPU, NEW s \in Slot, WaitReap(c, s)
  PROVE  IInv'
<1> USE DEF WaitReap, First, Zombies, Children
<1>a. On(c, s) /\ TypeOK
  BY DEF IInv, TypeOK
<1>1. TypeOK'
  BY <1>a, Here, Members DEF TypeOK
<1>2. LockInv'
  BY <1>a, ProcAssumption, Frame, Here DEF IInv, TypeOK, LockInv, Holds, On, SchedPC, OpenPC, Alive
<1>3. CurInv' /\ OneCPUEach'
  BY <1>a, Here DEF IInv, TypeOK, CurInv, OneCPUEach, On, NoProc
<1>4. OnInv'
  <2>1. ASSUME NEW d \in CPU, spc'[d] = "proc"
        PROVE  /\ state'[cur'[d]] \in Alive \cup {"ZOMBIE"}
               /\ pc'[cur'[d]] \notin SchedPC => state'[cur'[d]] = "RUNNING"
    <3>1. CASE d = c
      BY <1>a, <2>1, <3>1, Here DEF IInv, TypeOK, On, Alive, SchedPC, OpenPC
    <3>2. CASE d # c
      BY <1>a, <2>1, <3>2, Here, Frame DEF IInv, TypeOK, On, OnInv, Alive
    <3> QED BY <3>1, <3>2
  <2>2. ASSUME NEW d \in CPU, spc'[d] = "halted"
        PROVE  cur'[d] = InitProc /\ pc'[InitProc] = "exit"
                 /\ state'[InitProc] = "RUNNING"
    BY <1>a, <2>2, InitSlot, Here DEF IInv, TypeOK, On, OnInv, Alive
  <2> QED BY <2>1, <2>2 DEF OnInv
<1>5. SlotInv'
  BY <1>a, Here DEF IInv, TypeOK, SlotInv, Alive, SchedPC, OpenPC
<1>6. ForkInv'
  BY <1>a, Here DEF IInv, TypeOK, ForkInv, Alive, Where, Forking
<1>7. InitInv' /\ ParentAlive'
  <2>1. InitInv'
    BY <1>a, InitSlot, Here DEF IInv, TypeOK, InitInv, Alive
  <2>2. ParentAlive'
    BY <1>a, InitSlot, Here DEF IInv, TypeOK, InitInv, ParentAlive, Alive
  <2> QED BY <2>1, <2>2
<1>8. NoLostWakeup'
  BY <1>a, Here DEF IInv, TypeOK, NoLostWakeup, Alive
<1> QED BY <1>1, <1>2, <1>3, <1>4, <1>5, <1>6, <1>7, <1>8 DEF IInv

LEMMA WaitFailStep ==
  ASSUME IInv, NEW c \in CPU, NEW s \in Slot, WaitFail(c, s)
  PROVE  IInv'
<1> USE DEF WaitFail, Children, Zombies
<1>a. On(c, s) /\ TypeOK
  BY DEF IInv, TypeOK
<1>1. TypeOK'
  BY <1>a, Here, Members DEF TypeOK
<1>2. LockInv'
  BY <1>a, ProcAssumption, Frame, Here DEF IInv, TypeOK, LockInv, Holds, On, SchedPC, OpenPC, Alive
<1>3. CurInv' /\ OneCPUEach'
  BY <1>a, Here DEF IInv, TypeOK, CurInv, OneCPUEach, On, NoProc
<1>4. OnInv'
  BY <1>a, Frame, Here DEF IInv, TypeOK, OnInv, On, Alive, SchedPC, OpenPC
<1>5. SlotInv'
  BY <1>a, Here DEF IInv, TypeOK, SlotInv, Alive, SchedPC, OpenPC
<1>6. ForkInv'
  BY <1>a, Here DEF IInv, TypeOK, ForkInv, Alive, Where, Forking
<1>7. InitInv' /\ ParentAlive'
  BY <1>a, Here DEF IInv, TypeOK, InitInv, ParentAlive, Alive
<1>8. NoLostWakeup'
  BY <1>a, Here DEF IInv, TypeOK, NoLostWakeup, Alive
<1> QED BY <1>1, <1>2, <1>3, <1>4, <1>5, <1>6, <1>7, <1>8 DEF IInv

LEMMA WaitSleepStep ==
  ASSUME IInv, NEW c \in CPU, NEW s \in Slot, WaitSleep(c, s)
  PROVE  IInv'
<1> USE DEF WaitSleep, SleepOn, Children, Zombies
<1>a. On(c, s) /\ TypeOK
  BY DEF IInv, TypeOK
<1>1. TypeOK'
  BY <1>a, Here, Members DEF TypeOK
<1>2. LockInv'
  BY <1>a, ProcAssumption, Frame, Here DEF IInv, TypeOK, LockInv, Holds, On, SchedPC, OpenPC, Alive
<1>3. CurInv' /\ OneCPUEach'
  BY <1>a, Here DEF IInv, TypeOK, CurInv, OneCPUEach, On, NoProc
<1>4. OnInv'
  BY <1>a, Frame, Here DEF IInv, TypeOK, OnInv, On, Alive, SchedPC, OpenPC
<1>5. SlotInv'
  BY <1>a, Here DEF IInv, TypeOK, SlotInv, Alive, SchedPC, OpenPC
<1>6. ForkInv'
  BY <1>a, Here DEF IInv, TypeOK, ForkInv, Alive, Where, Forking
<1>7. InitInv' /\ ParentAlive'
  BY <1>a, Here DEF IInv, TypeOK, InitInv, ParentAlive, Alive
<1>8. NoLostWakeup'
  BY <1>a, Here DEF IInv, TypeOK, NoLostWakeup, Alive
<1> QED BY <1>1, <1>2, <1>3, <1>4, <1>5, <1>6, <1>7, <1>8 DEF IInv

LEMMA NapSleepStep ==
  ASSUME IInv, NEW c \in CPU, NEW s \in Slot, NapSleep(c, s)
  PROVE  IInv'
<1> USE DEF NapSleep, SleepOn, EnterSched
<1>a. On(c, s) /\ TypeOK
  BY DEF IInv, TypeOK
<1>1. TypeOK'
  BY <1>a, Here, Members DEF TypeOK
<1>2. LockInv'
  BY <1>a, ProcAssumption, Frame, Here DEF IInv, TypeOK, LockInv, Holds, On, SchedPC, OpenPC, Alive
<1>3. CurInv' /\ OneCPUEach'
  BY <1>a, Here DEF IInv, TypeOK, CurInv, OneCPUEach, On, NoProc
<1>4. OnInv'
  BY <1>a, Frame, Here DEF IInv, TypeOK, OnInv, On, Alive, SchedPC, OpenPC
<1>5. SlotInv'
  BY <1>a, Here DEF IInv, TypeOK, SlotInv, Alive, SchedPC, OpenPC
<1>6. ForkInv'
  BY <1>a, Here DEF IInv, TypeOK, ForkInv, Alive, Where, Forking
<1>7. InitInv' /\ ParentAlive'
  BY <1>a, Here DEF IInv, TypeOK, InitInv, ParentAlive, Alive
<1>8. NoLostWakeup'
  BY <1>a, Here DEF IInv, TypeOK, NoLostWakeup, Zombies, Children, Alive
<1> QED BY <1>1, <1>2, <1>3, <1>4, <1>5, <1>6, <1>7, <1>8 DEF IInv

LEMMA KillStep ==
  ASSUME IInv, NEW c \in CPU, NEW s \in Slot, Kill(c, s)
  PROVE  IInv'
<1> USE DEF Kill, First, KillState
<1>a. On(c, s) /\ TypeOK
  BY DEF IInv, TypeOK
<1>1. TypeOK'
  <2>1. killed' \in [Slot -> BOOLEAN]
    BY <1>a DEF TypeOK
  <2>3. state' \in [Slot -> States]
    BY <1>a, Members DEF TypeOK
  <2>2. pc' \in [Slot -> PC]
    BY <1>a, Members DEF TypeOK
  <2> QED
    BY <1>a, <2>1, <2>2, <2>3 DEF TypeOK
<1>2. LockInv'
  BY <1>a, ProcAssumption, Frame, Here DEF IInv, TypeOK, LockInv, Holds, On, SchedPC, OpenPC, Alive
<1>3. CurInv' /\ OneCPUEach'
  BY <1>a, Here DEF IInv, TypeOK, CurInv, OneCPUEach, On, NoProc
<1>4. OnInv'
  <2>1. ASSUME NEW d \in CPU, spc'[d] = "proc"
        PROVE  /\ state'[cur'[d]] \in Alive \cup {"ZOMBIE"}
               /\ pc'[cur'[d]] \notin SchedPC => state'[cur'[d]] = "RUNNING"
    <3>1. CASE d = c
      BY <1>a, <2>1, <3>1, Here DEF IInv, TypeOK, On, Alive, SchedPC, OpenPC
    <3>2. CASE d # c
      BY <1>a, <2>1, <3>2, Here, Frame DEF IInv, TypeOK, On, OnInv, Alive
    <3> QED BY <3>1, <3>2
  <2>2. ASSUME NEW d \in CPU, spc'[d] = "halted"
        PROVE  cur'[d] = InitProc /\ pc'[InitProc] = "exit"
                 /\ state'[InitProc] = "RUNNING"
    BY <1>a, <2>2, InitSlot, Here DEF IInv, TypeOK, On, OnInv, Alive
  <2> QED BY <2>1, <2>2 DEF OnInv
<1>5. SlotInv'
  BY <1>a, Here DEF IInv, TypeOK, SlotInv, Alive, SchedPC, OpenPC
<1>6. ForkInv'
  BY <1>a, Here DEF IInv, TypeOK, ForkInv, Alive, Where, Forking
<1>7. InitInv' /\ ParentAlive'
  <2>1. InitInv'
    BY <1>a, InitSlot, Here DEF IInv, TypeOK, InitInv, Alive
  <2>2. ParentAlive'
    BY <1>a, InitSlot, Here DEF IInv, TypeOK, InitInv, ParentAlive, Alive
  <2> QED BY <2>1, <2>2
<1>8. NoLostWakeup'
  BY <1>a, Here DEF IInv, TypeOK, NoLostWakeup, Zombies, Children, Alive
<1> QED BY <1>1, <1>2, <1>3, <1>4, <1>5, <1>6, <1>7, <1>8 DEF IInv

LEMMA TimerStep ==
  ASSUME IInv, NEW c \in CPU, NEW s \in Slot, Timer(c, s)
  PROVE  IInv'
<1> USE DEF Timer, Tick, Clock, Wakeup1
<1>a. On(c, s) /\ TypeOK
  BY DEF IInv, TypeOK
<1>1. TypeOK'
  <2>1. state' \in [Slot -> States] /\ pc' \in [Slot -> PC]
    BY <1>a, Members DEF TypeOK
  <2>2. saved' \in [Slot -> OpenPC]
    BY <1>a DEF TypeOK
  <2>3. left' \in [Slot -> 0..Forever]
    BY <1>a, ProcAssumption DEF TypeOK, Elapse, Forever
  <2>4. ran' \in [CPU -> 0..MaxTicks]
    BY <1>a, ProcAssumption DEF TypeOK, Advance, AtMost
  <2> QED
    BY <1>a, <2>1, <2>2, <2>3, <2>4 DEF TypeOK
<1>2. LockInv'
  BY <1>a, ProcAssumption, Frame, Here DEF IInv, TypeOK, LockInv, Holds, On, SchedPC, OpenPC, Alive
<1>3. CurInv' /\ OneCPUEach'
  BY <1>a, Here DEF IInv, TypeOK, CurInv, OneCPUEach, On, NoProc
<1>4. OnInv'
  <2>1. ASSUME NEW d \in CPU, spc'[d] = "proc"
        PROVE  /\ state'[cur'[d]] \in Alive \cup {"ZOMBIE"}
               /\ pc'[cur'[d]] \notin SchedPC => state'[cur'[d]] = "RUNNING"
    <3>1. CASE d = c
      BY <1>a, <2>1, <3>1, Here DEF IInv, TypeOK, On, Alive, SchedPC, OpenPC
    <3>2. CASE d # c
      BY <1>a, <2>1, <3>2, Here, Frame DEF IInv, TypeOK, On, OnInv, Alive
    <3> QED BY <3>1, <3>2
  <2>2. ASSUME NEW d \in CPU, spc'[d] = "halted"
        PROVE  cur'[d] = InitProc /\ pc'[InitProc] = "exit"
                 /\ state'[InitProc] = "RUNNING"
    BY <1>a, <2>2, InitSlot, Here DEF IInv, TypeOK, On, OnInv, Alive
  <2> QED BY <2>1, <2>2 DEF OnInv
<1>5. SlotInv'
  BY <1>a, Here DEF IInv, TypeOK, SlotInv, Alive, SchedPC, OpenPC
<1>6. ForkInv'
  <2>1. \A t \in Slot : /\ Where(t)' = Where(t)
                        /\ t # s => pc'[t] = pc[t]
    BY <1>a DEF TypeOK, Where, OpenPC
  <2>2. \A t \in Slot : /\ state'[t] \in Alive <=> state[t] \in Alive
                        /\ state[t] = "EMBRYO" => state'[t] = "EMBRYO"
    BY <1>a DEF TypeOK, Alive
  <2>3. state[s] # "EMBRYO"
    BY <1>a, Here DEF Alive
  <2> QED
    BY <1>a, <2>1, <2>2, <2>3 DEF IInv, TypeOK, ForkInv
<1>7. InitInv' /\ ParentAlive'
  <2>1. InitInv'
    BY <1>a, InitSlot, Here DEF IInv, TypeOK, InitInv, Alive
  <2>2. ParentAlive'
    BY <1>a, InitSlot, Here DEF IInv, TypeOK, InitInv, ParentAlive, Alive
  <2> QED BY <2>1, <2>2
<1>8. NoLostWakeup'
  BY <1>a, Here DEF IInv, TypeOK, NoLostWakeup, Zombies, Children, Alive
<1> QED BY <1>1, <1>2, <1>3, <1>4, <1>5, <1>6, <1>7, <1>8 DEF IInv

LEMMA YieldStep ==
  ASSUME IInv, NEW c \in CPU, NEW s \in Slot, Yield(c, s)
  PROVE  IInv'
<1> USE DEF Yield, EnterSched
<1>a. On(c, s) /\ TypeOK
  BY DEF IInv, TypeOK
<1>1. TypeOK'
  BY <1>a, Here, Members DEF TypeOK
<1>2. LockInv'
  BY <1>a, ProcAssumption, Frame, Here DEF IInv, TypeOK, LockInv, Holds, On, SchedPC, OpenPC, Alive
<1>3. CurInv' /\ OneCPUEach'
  BY <1>a, Here DEF IInv, TypeOK, CurInv, OneCPUEach, On, NoProc
<1>4. OnInv'
  BY <1>a, Frame, Here DEF IInv, TypeOK, OnInv, On, Alive, SchedPC, OpenPC
<1>5. SlotInv'
  BY <1>a, Here DEF IInv, TypeOK, SlotInv, Alive, SchedPC, OpenPC
<1>6. ForkInv'
  <2>1. \A t \in Slot : /\ Where(t)' \in Forking <=> Where(t) \in Forking
                        /\ Where(t)' \in Forking => Where(t)' = Where(t)
                        /\ t # s => pc'[t] = pc[t]
    BY <1>a DEF TypeOK, Where, Forking
  <2>2. \A t \in Slot : /\ state'[t] \in Alive <=> state[t] \in Alive
                        /\ state[t] = "EMBRYO" => state'[t] = "EMBRYO"
    BY <1>a, Here DEF TypeOK, Alive, SchedPC
  <2>3. state[s] # "EMBRYO"
    BY <1>a, Here DEF Alive
  <2> QED
    BY <1>a, <2>1, <2>2, <2>3 DEF IInv, TypeOK, ForkInv
<1>7. InitInv' /\ ParentAlive'
  BY <1>a, Here, SMTT(30) DEF IInv, TypeOK, InitInv, ParentAlive, Alive
<1>8. NoLostWakeup'
  BY <1>a, Here DEF IInv, TypeOK, NoLostWakeup, Zombies, Children, Alive
<1> QED BY <1>1, <1>2, <1>3, <1>4, <1>5, <1>6, <1>7, <1>8 DEF IInv

(* The steps of scheduler(), and the tick on an idle boot CPU. *)

LEMMA TallyStep ==
  ASSUME IInv, NEW c \in CPU, Tally(c)
  PROVE  IInv'
<1> USE DEF Tally
<1>a. TypeOK
  BY DEF IInv
<1>1. TypeOK'
  BY <1>a, ProcAssumption, Members DEF TypeOK
<1>2. LockInv'
  BY <1>a, ProcAssumption DEF IInv, TypeOK, LockInv, Holds, SchedPC, OpenPC, Alive, CurInv, OnInv, OneCPUEach, SlotInv
<1>3. CurInv' /\ OneCPUEach'
  BY <1>a, InitSlot DEF IInv, TypeOK, CurInv, OneCPUEach, NoProc, LockInv, Holds, OnInv, SlotInv
<1>4. OnInv'
  BY <1>a, InitSlot DEF IInv, TypeOK, OnInv, Alive, SchedPC, OpenPC, LockInv, Holds, CurInv, OneCPUEach, SlotInv
<1>5. SlotInv'
  BY <1>a DEF IInv, TypeOK, SlotInv, Alive, SchedPC, OpenPC
<1>6. ForkInv'
  BY <1>a DEF IInv, TypeOK, ForkInv, Alive, Where, Forking
<1>7. InitInv' /\ ParentAlive'
  BY <1>a, InitSlot DEF IInv, TypeOK, InitInv, ParentAlive, Alive
<1>8. NoLostWakeup'
  BY <1>a DEF IInv, TypeOK, NoLostWakeup, Zombies, Children, Alive
<1> QED BY <1>1, <1>2, <1>3, <1>4, <1>5, <1>6, <1>7, <1>8 DEF IInv

LEMMA NoPickStep ==
  ASSUME IInv, NEW c \in CPU, NoPick(c)
  PROVE  IInv'
<1> USE DEF NoPick
<1>a. TypeOK
  BY DEF IInv
<1>1. TypeOK'
  BY <1>a, ProcAssumption, Members DEF TypeOK
<1>2. LockInv'
  BY <1>a, ProcAssumption DEF IInv, TypeOK, LockInv, Holds, SchedPC, OpenPC, Alive, CurInv, OnInv, OneCPUEach, SlotInv
<1>3. CurInv' /\ OneCPUEach'
  BY <1>a, InitSlot DEF IInv, TypeOK, CurInv, OneCPUEach, NoProc, LockInv, Holds, OnInv, SlotInv
<1>4. OnInv'
  BY <1>a, InitSlot DEF IInv, TypeOK, OnInv, Alive, SchedPC, OpenPC, LockInv, Holds, CurInv, OneCPUEach, SlotInv
<1>5. SlotInv'
  BY <1>a DEF IInv, TypeOK, SlotInv, Alive, SchedPC, OpenPC
<1>6. ForkInv'
  BY <1>a DEF IInv, TypeOK, ForkInv, Alive, Where, Forking
<1>7. InitInv' /\ ParentAlive'
  BY <1>a, InitSlot DEF IInv, TypeOK, InitInv, ParentAlive, Alive
<1>8. NoLostWakeup'
  BY <1>a DEF IInv, TypeOK, NoLostWakeup, Zombies, Children, Alive
<1> QED BY <1>1, <1>2, <1>3, <1>4, <1>5, <1>6, <1>7, <1>8 DEF IInv

LEMMA SwtchStep ==
  ASSUME IInv, NEW c \in CPU, Swtch(c)
  PROVE  IInv'
<1> USE DEF Swtch
<1>a. TypeOK
  BY DEF IInv
<1>1. TypeOK'
  BY <1>a, ProcAssumption, Members DEF TypeOK
<1>2. LockInv'
  BY <1>a, ProcAssumption DEF IInv, TypeOK, LockInv, Holds, SchedPC, OpenPC, Alive, CurInv, OnInv, OneCPUEach, SlotInv
<1>3. CurInv' /\ OneCPUEach'
  BY <1>a, InitSlot DEF IInv, TypeOK, CurInv, OneCPUEach, NoProc, LockInv, Holds, OnInv, SlotInv
<1>4. OnInv'
  BY <1>a, InitSlot DEF IInv, TypeOK, OnInv, Alive, SchedPC, OpenPC, LockInv, Holds, CurInv, OneCPUEach, SlotInv
<1>5. SlotInv'
  BY <1>a DEF IInv, TypeOK, SlotInv, Alive, SchedPC, OpenPC
<1>6. ForkInv'
  BY <1>a DEF IInv, TypeOK, ForkInv, Alive, Where, Forking
<1>7. InitInv' /\ ParentAlive'
  BY <1>a, InitSlot DEF IInv, TypeOK, InitInv, ParentAlive, Alive
<1>8. NoLostWakeup'
  BY <1>a DEF IInv, TypeOK, NoLostWakeup, Zombies, Children, Alive
<1> QED BY <1>1, <1>2, <1>3, <1>4, <1>5, <1>6, <1>7, <1>8 DEF IInv

LEMMA BackStep ==
  ASSUME IInv, NEW c \in CPU, Back(c)
  PROVE  IInv'
<1> USE DEF Back
<1>a. TypeOK
  BY DEF IInv
<1>1. TypeOK'
  <2>1. cur[c] \in Slot
    BY CurSlot
  <2>2. AtMost(pticks[cur[c]] + ran[c], MaxTicks) \in 0..MaxTicks
    BY <1>a, <2>1, ProcAssumption DEF TypeOK, AtMost
  <2>3. pticks' \in [Slot -> 0..MaxTicks] /\ ran' \in [CPU -> 0..MaxTicks]
    BY <1>a, <2>1, <2>2, Members DEF TypeOK
  <2> QED
    BY <1>a, <2>3, Members DEF TypeOK
<1>2. LockInv'
  BY <1>a, ProcAssumption DEF IInv, TypeOK, LockInv, Holds, SchedPC, OpenPC, Alive, CurInv, OnInv, OneCPUEach, SlotInv
<1>3. CurInv' /\ OneCPUEach'
  BY <1>a, InitSlot DEF IInv, TypeOK, CurInv, OneCPUEach, NoProc, LockInv, Holds, OnInv, SlotInv
<1>4. OnInv'
  BY <1>a, InitSlot DEF IInv, TypeOK, OnInv, Alive, SchedPC, OpenPC, LockInv, Holds, CurInv, OneCPUEach, SlotInv
<1>5. SlotInv'
  BY <1>a DEF IInv, TypeOK, SlotInv, Alive, SchedPC, OpenPC
<1>6. ForkInv'
  BY <1>a DEF IInv, TypeOK, ForkInv, Alive, Where, Forking
<1>7. InitInv' /\ ParentAlive'
  BY <1>a, InitSlot DEF IInv, TypeOK, InitInv, ParentAlive, Alive
<1>8. NoLostWakeup'
  BY <1>a DEF IInv, TypeOK, NoLostWakeup, Zombies, Children, Alive
<1> QED BY <1>1, <1>2, <1>3, <1>4, <1>5, <1>6, <1>7, <1>8 DEF IInv

LEMMA PickStep ==
  ASSUME IInv, NEW c \in CPU, NEW s \in Slot, Pick(c, s)
  PROVE  IInv'
<1> USE DEF Pick, Runnable, Reached, First
<1>a. TypeOK
  BY DEF IInv
<1>1. TypeOK'
  BY <1>a, ProcAssumption, Members DEF TypeOK
<1>2. LockInv'
  BY <1>a, ProcAssumption DEF IInv, TypeOK, LockInv, Holds, SchedPC, OpenPC, Alive, CurInv, OnInv, OneCPUEach, SlotInv
<1>3. CurInv' /\ OneCPUEach'
  BY <1>a, InitSlot DEF IInv, TypeOK, CurInv, OneCPUEach, NoProc, LockInv, Holds, OnInv, SlotInv
<1>4. OnInv'
  BY <1>a, InitSlot DEF IInv, TypeOK, OnInv, Alive, SchedPC, OpenPC, LockInv, Holds, CurInv, OneCPUEach, SlotInv
<1>5. SlotInv'
  BY <1>a DEF IInv, TypeOK, SlotInv, Alive, SchedPC, OpenPC
<1>6. ForkInv'
  BY <1>a DEF IInv, TypeOK, ForkInv, Alive, Where, Forking
<1>7. InitInv' /\ ParentAlive'
  BY <1>a, InitSlot DEF IInv, TypeOK, InitInv, ParentAlive, Alive
<1>8. NoLostWakeup'
  BY <1>a DEF IInv, TypeOK, NoLostWakeup, Zombies, Children, Alive
<1> QED BY <1>1, <1>2, <1>3, <1>4, <1>5, <1>6, <1>7, <1>8 DEF IInv

LEMMA TickIdleStep ==
  ASSUME IInv, TickIdle
  PROVE  IInv'
<1> USE DEF TickIdle, Tick, Clock, Wakeup1
<1>a. TypeOK
  BY DEF IInv
<1>1. TypeOK'
  <2>1. state' \in [Slot -> States]
    BY <1>a, Members DEF TypeOK
  <2>2. left' \in [Slot -> 0..Forever]
    BY <1>a, ProcAssumption DEF TypeOK, Elapse, Forever
  <2>3. ran' \in [CPU -> 0..MaxTicks]
    BY <1>a, ProcAssumption DEF TypeOK, Advance, AtMost
  <2> QED
    BY <1>a, <2>1, <2>2, <2>3 DEF TypeOK
<1>2. LockInv'
  BY <1>a, ProcAssumption DEF IInv, TypeOK, LockInv, Holds, SchedPC, OpenPC, Alive, CurInv, OnInv, OneCPUEach, SlotInv
<1>3. CurInv' /\ OneCPUEach'
  BY <1>a, InitSlot DEF IInv, TypeOK, CurInv, OneCPUEach, NoProc, LockInv, Holds, OnInv, SlotInv
<1>4. OnInv'
  <2>1. \A t \in Slot : /\ state[t] # "SLEEPING" => state'[t] = state[t]
                        /\ state[t] = "SLEEPING" => pc[t] \in SchedPC
                        /\ state[t] \in Alive => state'[t] \in Alive
    BY <1>a DEF IInv, TypeOK, SlotInv, Alive
  <2>2. \A d \in CPU : spc[d] = "proc" => cur[d] \in Slot
    BY CurSlot
  <2> QED
    BY <1>a, <2>1, <2>2, InitSlot DEF IInv, OnInv, Alive
<1>5. SlotInv'
  BY <1>a DEF IInv, TypeOK, SlotInv, Alive, SchedPC, OpenPC
<1>6. ForkInv'
  BY <1>a DEF IInv, TypeOK, ForkInv, Alive, Where, Forking
<1>7. InitInv' /\ ParentAlive'
  BY <1>a, InitSlot DEF IInv, TypeOK, InitInv, ParentAlive, Alive
<1>8. NoLostWakeup'
  BY <1>a DEF IInv, TypeOK, NoLostWakeup, Zombies, Children, Alive
<1> QED BY <1>1, <1>2, <1>3, <1>4, <1>5, <1>6, <1>7, <1>8 DEF IInv

LEMMA InitIInv == Init => IInv
<1> SUFFICES ASSUME Init PROVE IInv
  OBVIOUS
<1> USE ProcAssumption, Members, InitSlot DEF Init
<1>1. TypeOK
  BY DEF TypeOK
<1>2. LockInv /\ CurInv /\ OneCPUEach /\ OnInv
  BY DEF LockInv, Holds, CurInv, OneCPUEach, OnInv
<1>3. SlotInv
  BY DEF SlotInv, Alive, SchedPC
<1>4. ForkInv
  BY DEF ForkInv, Where, Forking
<1>5. InitInv /\ ParentAlive /\ NoLostWakeup
  BY DEF InitInv, ParentAlive, NoLostWakeup, Alive, InitProc, NoProc
<1> QED BY <1>1, <1>2, <1>3, <1>4, <1>5 DEF IInv

LEMMA NextIInv == IInv /\ [Next]_vars => IInv'
<1> SUFFICES ASSUME IInv, [Next]_vars PROVE IInv'
  OBVIOUS
<1>1. ASSUME NEW c \in CPU, Switch(c) PROVE IInv'
  BY <1>1, TallyStep, NoPickStep, SwtchStep, BackStep, PickStep, ReturnStep,
     AwakeStep DEF Switch
<1>2. ASSUME NEW c \in CPU, NEW s \in Slot, Enter(c, s) \/ Fault(c, s)
      PROVE  IInv'
  BY <1>2, EnterStep, FaultStep
<1>3. ASSUME NEW c \in CPU, NEW s \in Slot, SysCall(c, s) PROVE IInv'
  BY <1>3, ForkAllocStep, ForkFullStep, SysExitStep, SysWaitStep, SysSleepStep,
     KillStep, SetTicketsStep DEF SysCall
<1>4. ASSUME NEW c \in CPU, NEW s \in Slot, Kernel(c, s) PROVE IInv'
  BY <1>4, ForkKallocStep, ForkCopyStep, ForkUndoStep, ForkPublishStep,
     ExitPanicStep, ExitStep, WaitReapStep, WaitFailStep, WaitSleepStep,
     NapCheckStep, NapSleepStep, NapAgainStep, RetStep DEF Kernel
<1>5. ASSUME NEW c \in CPU, NEW s \in Slot, Interrupt(c, s) PROVE IInv'
  BY <1>5, TimerStep, TrapExitStep, YieldStep DEF Interrupt
<1>6. CASE UNCHANGED vars
  BY <1>6 DEF vars, IInv, TypeOK, LockInv, Holds, CurInv, OneCPUEach, OnInv,
     SlotInv, ForkInv, Where, InitInv, ParentAlive, NoLostWakeup, Zombies, Children
<1> QED
  BY <1>1, <1>2, <1>3, <1>4, <1>5, <1>6, TickIdleStep DEF Next

THEOREM Invariance == Spec => []IInv
<1> QED BY InitIInv, NextIInv, PTL DEF Spec

(* TypeOK holds for any number of CPUs, slots and tickets. *)
THEOREM TypeCorrect == Spec => []TypeOK
<1>1. IInv => TypeOK
  BY DEF IInv
<1> QED BY <1>1, Invariance, PTL

(* sched() and swtch(): no process ever runs on two CPUs. *)
THEOREM RunsOnOneCPU == Spec => []OneCPUEach
<1>1. IInv => OneCPUEach
  BY DEF IInv
<1> QED BY <1>1, Invariance, PTL

(* exit() and wait(): no CPU executes on a kernel stack that was freed. *)
THEOREM StackNeverFreedInUse == Spec => []StackLive
<1>1. ASSUME IInv PROVE StackLive
  <2>1. \A s \in Slot : state[s] \notin {"UNUSED", "EMBRYO"} => kstack[s]
    BY <1>1 DEF IInv, TypeOK, States, SlotInv, Alive
  <2>2. \A c \in CPU : spc[c] = "proc" =>
          cur[c] \in Slot /\ state[cur[c]] \notin {"UNUSED", "EMBRYO"}
    BY <1>1, CurSlot DEF IInv, OnInv, Alive
  <2> QED BY <2>1, <2>2 DEF StackLive
<1> QED BY <1>1, Invariance, PTL

(* wait() and exit(): no wakeup is lost, whatever the interleaving. *)
THEOREM WaitNeverMisses == Spec => []NoLostWakeup
<1>1. IInv => NoLostWakeup
  BY DEF IInv
<1> QED BY <1>1, Invariance, PTL

(* exit(): every process keeps a parent that can still wait() for it. *)
THEOREM NeverOrphaned == Spec => []ParentAlive
<1>1. IInv => ParentAlive
  BY DEF IInv
<1> QED BY <1>1, Invariance, PTL

(* sched() never finds ptable.lock free: only init's exit() panics. *)
THEOREM OnlyInitPanics == Spec => []PanicOnlyInit
<1>1. IInv => PanicOnlyInit
  BY DEF IInv, PanicOnlyInit, OnInv
<1> QED BY <1>1, Invariance, PTL

=============================================================================
