-------------------------------- MODULE Proc --------------------------------
(***************************************************************************)
(* Processes and the lottery scheduler of src/xv6/kernel: the process      *)
(* table of proc.c, the system calls of sysproc.c that change it, and the  *)
(* timer part of trap.c, on several CPUs.                                  *)
(*                                                                         *)
(* A CPU is a thread of control.  It runs scheduler() or, after swtch, the *)
(* kernel code of one process; ptable.lock is taken on one side of swtch   *)
(* and released on the other.  A critical section of one spinlock is one   *)
(* step, taken when the lock is free (a spinning CPU is a disabled step),  *)
(* except where the lock survives the step: tallying the tickets, and      *)
(* everything between a change of p->state and swtch.  Reads and writes    *)
(* made without the lock are steps of their own.                           *)
(***************************************************************************)
EXTENDS Integers, FiniteSetsExt

CONSTANTS
    CPU,         \* the processors
    NoCPU,       \* a lock's cpu field when nobody holds the lock
    BootCPU,     \* cpu->id = 0, the one whose timer advances ticks
    NPROC,       \* number of slots of ptable.proc
    MaxPid,      \* bound: fork is not taken once nextpid exceeds it
    MaxNap,      \* bound: longest finite sleep(n), in ticks
    MaxTicks,    \* bound: p->ticks saturates here
    UINT,        \* 2^32: total_tickets and count are counted modulo it
    TicketArgs,  \* arguments tried by settickets()
    Calls        \* the system calls the user programs make

ASSUME ProcAssumption ==
    /\ BootCPU \in CPU
    /\ NoCPU \notin CPU
    /\ NPROC \in Nat \ {0}
    /\ MaxPid \in Nat \ {0}
    /\ MaxNap \in Nat
    /\ MaxTicks \in Nat
    /\ UINT \in Nat /\ UINT > 2
    /\ TicketArgs \subseteq -(UINT \div 2)..(UINT - 1) \div 2

Slot      == 1..NPROC
InitProc  == 1              \* initproc: the slot userinit() got
NoProc    == 0              \* a null struct proc pointer
TicksChan == NPROC + 1      \* the address &ticks, used as a sleep channel
NoChan    == 0
Forever   == MaxNap + 1     \* sleep(n), n < 0: ticks - ticks0 < n is unsigned

VARIABLES
    state,     \* p->state
    pid,       \* p->pid
    nextpid,   \* nextpid
    parent,    \* p->parent
    chan,      \* p->chan
    killed,    \* p->killed
    tickets,   \* p->tickets
    inuse,     \* p->inuse
    pticks,    \* p->ticks
    kstack,    \* p->kstack # 0
    pc,        \* where the kernel thread of the slot stands
    saved,     \* where it continues after a timer interrupt
    np,        \* the slot its fork() is filling
    left,      \* in sys_sleep: n - (ticks - ticks0), not below 0
    lock,      \* the CPU that holds ptable.lock
    tlock,     \* the CPU that holds tickslock
    spc,       \* where each CPU stands in scheduler()
    cur,       \* cpu->proc
    total,     \* total_tickets of the current round
    ran        \* ticks - start_bit of the process on the CPU, at most MaxTicks

sigVars  == <<chan, killed>>
procVars == <<pid, nextpid, parent, tickets, kstack>>
statVars == <<inuse, pticks, ran>>
thrVars  == <<saved, np, left>>
lockVars == <<lock, tlock>>
cpuVars  == <<spc, cur, total>>
vars == <<state, sigVars, procVars, statVars, pc, thrVars, lockVars, cpuVars>>

-----------------------------------------------------------------------------
States == {"UNUSED", "EMBRYO", "SLEEPING", "RUNNABLE", "RUNNING", "ZOMBIE"}

(* Points at which no spinlock is held and interrupts are on. *)
OpenPC == {"user", "sys", "kalloc", "copy", "undo", "publish", "ret", "exit", "renap"}

(* Points inside sched(), on either side of swtch: ptable.lock is held. *)
SchedPC == {"forkret", "yield", "waitsleep", "napsleep", "zombie"}

(* Points of sys_sleep at which tickslock is held. *)
NapPC == {"napcheck", "napgo"}

PC == OpenPC \cup SchedPC \cup NapPC \cup {"none", "trap", "scan"}

(* What can be on the CPU: a process whose code the CPU is executing. *)
On(c, s) == spc[c] = "proc" /\ cur[c] = s

(* The process on the CPU is executing past sched(), so it may go on. *)
At(c, s, p) == On(c, s) /\ pc[s] = p

(* Where a loop over the table stops when it looks for a slot of S. *)
First(S) == {s \in S : \A t \in S : s <= t}

AtMost(n, b) == IF n > b THEN b ELSE n

(* acquire(&ptable.lock) by code that goes on to sched(), which hands the
   lock over.  The mutant releases it before sched().                      *)
EnterSched_Unlocked(c) == lock = NoCPU /\ UNCHANGED lock
EnterSched(c) == lock = NoCPU /\ lock' = c

Init ==
    /\ state   = [s \in Slot |-> IF s = InitProc THEN "RUNNABLE" ELSE "UNUSED"]
    /\ pid     = [s \in Slot |-> IF s = InitProc THEN 1 ELSE 0]
    /\ nextpid = 2
    /\ parent  = [s \in Slot |-> NoProc]
    /\ chan    = [s \in Slot |-> NoChan]
    /\ killed  = [s \in Slot |-> FALSE]
    /\ tickets = [s \in Slot |-> IF s = InitProc THEN 1 ELSE 0]
    /\ inuse   = [s \in Slot |-> FALSE]
    /\ pticks  = [s \in Slot |-> 0]
    /\ kstack  = [s \in Slot |-> s = InitProc]
    /\ pc      = [s \in Slot |-> IF s = InitProc THEN "forkret" ELSE "none"]
    /\ saved   = [s \in Slot |-> "user"]
    /\ np      = [s \in Slot |-> NoProc]
    /\ left    = [s \in Slot |-> 0]
    /\ lock    = NoCPU
    /\ tlock   = NoCPU
    /\ spc     = [c \in CPU |-> "idle"]
    /\ cur     = [c \in CPU |-> NoProc]
    /\ total   = [c \in CPU |-> 0]
    /\ ran     = [c \in CPU |-> 0]
-----------------------------------------------------------------------------
(* scheduler() on a CPU that has no process. *)

Runnable == {s \in Slot : state[s] = "RUNNABLE"}

(* Both loops add in an unsigned int. *)
TicketsUpTo(k) ==
    MapThenSumSet(LAMBDA s : tickets[s], {s \in Runnable : s <= k}) % UINT

(* total_tickets.  The mutant counts the tickets of sleeping slots too. *)
TotalTickets_All ==
    MapThenSumSet(LAMBDA s : tickets[s],
                  {s \in Slot : state[s] \in {"RUNNABLE", "SLEEPING"}}) % UINT
TotalTickets == TicketsUpTo(NPROC)

(* The runnable slots at which count has reached the winning ticket. *)
Reached(winner) == {s \in Runnable : TicketsUpTo(s) >= winner}

(* sti(); acquire; the first loop adds up the tickets of runnable slots. *)
Tally(c) ==
    /\ spc[c] = "idle"
    /\ lock = NoCPU
    /\ lock' = c
    /\ spc' = [spc EXCEPT ![c] = "pick"]
    /\ total' = [total EXCEPT ![c] = TotalTickets]
    /\ UNCHANGED <<state, sigVars, procVars, statVars, pc, thrVars, tlock,
                   cur>>

(* What random_at_most(max) may return, max being at most RAND_MAX, the largest
   int.  With more tickets than that a bin is of no size, and the loop that
   rejects random numbers rejects them all (of 2^32 - 1 it is the division by
   the number of bins that fails): the CPU stops there, with ptable.lock.  *)
RandomAtMost(max) == IF max <= (UINT - 1) \div 2 THEN 0..max ELSE {}

(* The second loop stops at the first runnable slot that reaches the winning
   ticket, and swtch() enters it.                                          *)
Pick(c, s) ==
    /\ spc[c] = "pick"
    /\ \E winner \in RandomAtMost(total[c]) : s \in First(Reached(winner))
    /\ state' = [state EXCEPT ![s] = "RUNNING"]
    /\ inuse' = [inuse EXCEPT ![s] = TRUE]
    /\ ran'   = [ran EXCEPT ![c] = 0]
    /\ cur'   = [cur EXCEPT ![c] = s]
    /\ spc'   = [spc EXCEPT ![c] = "proc"]
    /\ total' = [total EXCEPT ![c] = 0]
    /\ UNCHANGED <<sigVars, procVars, pticks, pc, thrVars, lockVars>>

(* The second loop runs off the table. *)
NoPick(c) ==
    /\ spc[c] = "pick"
    /\ \E winner \in RandomAtMost(total[c]) : Reached(winner) = {}
    /\ lock' = NoCPU
    /\ spc' = [spc EXCEPT ![c] = "idle"]
    /\ total' = [total EXCEPT ![c] = 0]
    /\ UNCHANGED <<state, sigVars, procVars, statVars, pc, thrVars, tlock,
                   cur>>

(* swtch() of sched(): back on the stack of scheduler().  A panic in sched()
   would stop the CPU.                                                     *)
Swtch(c) ==
    /\ spc[c] = "proc"
    /\ pc[cur[c]] \in SchedPC
    /\ state[cur[c]] # "RUNNING"
    /\ spc' = [spc EXCEPT ![c] = IF lock = c THEN "back" ELSE "halted"]
    /\ UNCHANGED <<state, sigVars, procVars, statVars, pc, thrVars, lockVars,
                   cur, total>>

(* The rest of the round: account the ticks, proc = 0, break, release. *)
Back(c) ==
    /\ spc[c] = "back"
    /\ pticks' = [pticks EXCEPT ![cur[c]] = AtMost(@ + ran[c], MaxTicks)]
    /\ ran' = [ran EXCEPT ![c] = 0]
    /\ cur' = [cur EXCEPT ![c] = NoProc]
    /\ lock' = NoCPU
    /\ spc' = [spc EXCEPT ![c] = "idle"]
    /\ UNCHANGED <<state, sigVars, procVars, inuse, pc, thrVars, tlock, total>>

-----------------------------------------------------------------------------
(* Leaving sched() after the process was picked again. *)

(* forkret() of a new child, and the tail of yield(). *)
Return(c, s) ==
    /\ On(c, s)
    /\ pc[s] \in {"forkret", "yield"}
    /\ state[s] = "RUNNING"
    /\ lock' = NoCPU
    /\ pc' = [pc EXCEPT ![s] = IF pc[s] = "yield" THEN saved[s] ELSE "user"]
    /\ saved' = [saved EXCEPT ![s] = "user"]
    /\ UNCHANGED <<state, sigVars, procVars, statVars, np, left, tlock,
                   cpuVars>>

(* The tail of sleep(): in wait() lk is ptable.lock, which stays held; in
   sys_sleep() it is tickslock, acquired by NapAgain.                      *)
Awake(c, s) ==
    /\ On(c, s)
    /\ pc[s] \in {"waitsleep", "napsleep"}
    /\ state[s] = "RUNNING"
    /\ chan' = [chan EXCEPT ![s] = NoChan]
    /\ IF pc[s] = "waitsleep"
       THEN /\ pc' = [pc EXCEPT ![s] = "scan"]
            /\ UNCHANGED lock
       ELSE /\ pc' = [pc EXCEPT ![s] = "renap"]
            /\ lock' = NoCPU
    /\ UNCHANGED <<state, killed, procVars, statVars, thrVars, tlock, cpuVars>>
-----------------------------------------------------------------------------
(* fork() *)

(* allocproc() under ptable.lock.  killed, inuse and ticks keep the values
   of the slot's last process; the new pid comes before the stack.         *)
ForkAlloc(c, s) ==
    /\ At(c, s, "sys")
    /\ lock = NoCPU
    /\ nextpid <= MaxPid
    /\ \E f \in First({k \in Slot : state[k] = "UNUSED"}) :
         /\ state'   = [state EXCEPT ![f] = "EMBRYO"]
         /\ pid'     = [pid EXCEPT ![f] = nextpid]
         /\ tickets' = [tickets EXCEPT ![f] = 1]
         /\ np'      = [np EXCEPT ![s] = f]
    /\ nextpid' = nextpid + 1
    /\ pc' = [pc EXCEPT ![s] = "kalloc"]
    /\ UNCHANGED <<sigVars, parent, kstack, statVars, saved, left, lockVars,
                   cpuVars>>

(* allocproc() finds no slot: fork returns -1. *)
ForkFull(c, s) ==
    /\ At(c, s, "sys")
    /\ lock = NoCPU
    /\ \A f \in Slot : state[f] # "UNUSED"
    /\ pc' = [pc EXCEPT ![s] = "ret"]
    /\ UNCHANGED <<state, sigVars, procVars, statVars, thrVars, lockVars,
                   cpuVars>>

(* kalloc() of the kernel stack; without one the slot is given back, outside
   the lock and with its pid.                                              *)
ForkKalloc(c, s) ==
    /\ At(c, s, "kalloc")
    /\ \/ /\ kstack' = [kstack EXCEPT ![np[s]] = TRUE]
          /\ pc' = [pc EXCEPT ![s] = "copy", ![np[s]] = "forkret"]
          /\ UNCHANGED <<state, np>>
       \/ /\ state' = [state EXCEPT ![np[s]] = "UNUSED"]
          /\ np' = [np EXCEPT ![s] = NoProc]
          /\ pc' = [pc EXCEPT ![s] = "ret"]
          /\ UNCHANGED kstack
    /\ UNCHANGED <<sigVars, pid, nextpid, parent, tickets, statVars, saved,
                   left, lockVars, cpuVars>>

(* copyuvm(), then the parent's attributes; or kfree(np->kstack). *)
ForkCopy(c, s) ==
    /\ At(c, s, "copy")
    /\ \/ /\ parent'  = [parent EXCEPT ![np[s]] = s]
          /\ tickets' = [tickets EXCEPT ![np[s]] = tickets[s]]
          /\ pc' = [pc EXCEPT ![s] = "publish"]
          /\ UNCHANGED kstack
       \/ /\ kstack' = [kstack EXCEPT ![np[s]] = FALSE]
          /\ pc' = [pc EXCEPT ![s] = "undo", ![np[s]] = "none"]
          /\ UNCHANGED <<parent, tickets>>
    /\ UNCHANGED <<state, sigVars, pid, nextpid, statVars, thrVars, lockVars,
                   cpuVars>>

(* copyuvm() failed: np->state = UNUSED, without the lock. *)
ForkUndo(c, s) ==
    /\ At(c, s, "undo")
    /\ state' = [state EXCEPT ![np[s]] = "UNUSED"]
    /\ np' = [np EXCEPT ![s] = NoProc]
    /\ pc' = [pc EXCEPT ![s] = "ret"]
    /\ UNCHANGED <<sigVars, procVars, statVars, saved, left, lockVars,
                   cpuVars>>

(* np->state = RUNNABLE, without the lock: it can fall between the two loops
   of a scheduler.                                                         *)
ForkPublish(c, s) ==
    /\ At(c, s, "publish")
    /\ state' = [state EXCEPT ![np[s]] = "RUNNABLE"]
    /\ np' = [np EXCEPT ![s] = NoProc]
    /\ pc' = [pc EXCEPT ![s] = "ret"]
    /\ UNCHANGED <<sigVars, procVars, statVars, saved, left, lockVars,
                   cpuVars>>

-----------------------------------------------------------------------------
(* The table st after wakeup1(ch).  The mutant leaves the change of state
   outside the if, as src/xv62/xv6/kernel/proc.c does.                     *)
Wakeup1_Unguarded(st, ch) == [s \in Slot |-> "RUNNABLE"]
Wakeup1(st, ch) ==
    [s \in Slot |-> IF st[s] = "SLEEPING" /\ chan[s] = ch
                    THEN "RUNNABLE" ELSE st[s]]

(* proc->chan = ch; proc->state = SLEEPING, the caller holding ptable.lock. *)
SleepOn(s, ch) ==
    /\ chan' = [chan EXCEPT ![s] = ch]
    /\ state' = [state EXCEPT ![s] = "SLEEPING"]

(* sys_exit() *)
SysExit(c, s) ==
    /\ At(c, s, "sys")
    /\ pc' = [pc EXCEPT ![s] = "exit"]
    /\ UNCHANGED <<state, sigVars, procVars, statVars, thrVars, lockVars,
                   cpuVars>>

(* panic("init exiting") *)
ExitPanic(c, s) ==
    /\ At(c, s, "exit")
    /\ s = InitProc
    /\ spc' = [spc EXCEPT ![c] = "halted"]
    /\ UNCHANGED <<state, sigVars, procVars, statVars, pc, thrVars, lockVars,
                   cur, total>>

(* The loop of exit() that passes the children of s to init, after the table
   became st: init is woken when one of them is a zombie.  The mutant leaves
   the children where they are.                                            *)
Orphans(s) == {k \in Slot : parent[k] = s}
NewParent_Kept(s) == parent
NewParent(s) ==
    [k \in Slot |-> IF k \in Orphans(s) THEN InitProc ELSE parent[k]]
WakeInit(s, st) ==
    IF \E k \in Orphans(s) : st[k] = "ZOMBIE" THEN Wakeup1(st, InitProc) ELSE st

(* "Parent might be sleeping in wait()."  The mutant forgets it. *)
WakeParent_Never(s) == state
WakeParent(s)       == Wakeup1(state, parent[s])

(* exit(): wake the parent, hand the children to init, become a zombie. *)
Exit(c, s) ==
    /\ At(c, s, "exit")
    /\ s # InitProc
    /\ EnterSched(c)
    /\ state' = [WakeInit(s, WakeParent(s)) EXCEPT ![s] = "ZOMBIE"]
    /\ parent' = NewParent(s)
    /\ pc' = [pc EXCEPT ![s] = "zombie"]
    /\ UNCHANGED <<sigVars, pid, nextpid, tickets, kstack, statVars, thrVars,
                   tlock, cpuVars>>

-----------------------------------------------------------------------------
(* wait(): acquire, then scan until a child is reaped, there is nothing to
   wait for, or sleep(proc, &ptable.lock).                                 *)

Children(s) == {k \in Slot : parent[k] = s}
Zombies(s)  == {k \in Children(s) : state[k] = "ZOMBIE"}

SysWait(c, s) ==
    /\ At(c, s, "sys")
    /\ lock = NoCPU
    /\ lock' = c
    /\ pc' = [pc EXCEPT ![s] = "scan"]
    /\ UNCHANGED <<state, sigVars, procVars, statVars, thrVars, tlock,
                   cpuVars>>

WaitReap(c, s) ==
    /\ At(c, s, "scan")
    /\ \E z \in First(Zombies(s)) :
         /\ kstack' = [kstack EXCEPT ![z] = FALSE]
         /\ state'  = [state EXCEPT ![z] = "UNUSED"]
         /\ pid'    = [pid EXCEPT ![z] = 0]
         /\ parent' = [parent EXCEPT ![z] = NoProc]
         /\ killed' = [killed EXCEPT ![z] = FALSE]
         /\ pc'     = [pc EXCEPT ![s] = "ret", ![z] = "none"]
    /\ lock' = NoCPU
    /\ UNCHANGED <<chan, nextpid, tickets, statVars, thrVars, tlock, cpuVars>>

WaitFail(c, s) ==
    /\ At(c, s, "scan")
    /\ Zombies(s) = {}
    /\ Children(s) = {} \/ killed[s]
    /\ pc' = [pc EXCEPT ![s] = "ret"]
    /\ lock' = NoCPU
    /\ UNCHANGED <<state, sigVars, procVars, statVars, thrVars, tlock,
                   cpuVars>>

WaitSleep(c, s) ==
    /\ At(c, s, "scan")
    /\ Zombies(s) = {}
    /\ Children(s) # {}
    /\ ~killed[s]
    /\ SleepOn(s, s)
    /\ pc' = [pc EXCEPT ![s] = "waitsleep"]
    /\ UNCHANGED <<killed, procVars, statVars, thrVars, lockVars, cpuVars>>
-----------------------------------------------------------------------------
(* sys_sleep(n): the loop body runs with tickslock held. *)

SysSleep(c, s) ==
    /\ At(c, s, "sys")
    /\ tlock = NoCPU
    /\ tlock' = c
    /\ \E n \in 1..Forever : left' = [left EXCEPT ![s] = n]
    /\ pc' = [pc EXCEPT ![s] = "napcheck"]
    /\ UNCHANGED <<state, sigVars, procVars, statVars, saved, np, lock,
                   cpuVars>>

(* The loop condition, then the check of proc->killed.  The mutant has no
   check: kill() cannot end the sleep. *)
NapOver_Deaf(s) == left[s] = 0
NapOver(s)      == left[s] = 0 \/ killed[s]

NapCheck(c, s) ==
    /\ At(c, s, "napcheck")
    /\ IF NapOver(s)
       THEN /\ tlock' = NoCPU
            /\ left' = [left EXCEPT ![s] = 0]
            /\ pc' = [pc EXCEPT ![s] = "ret"]
       ELSE /\ pc' = [pc EXCEPT ![s] = "napgo"]
            /\ UNCHANGED <<left, tlock>>
    /\ UNCHANGED <<state, sigVars, procVars, statVars, saved, np, lock,
                   cpuVars>>

(* sleep(&ticks, &tickslock): take ptable.lock, release tickslock. *)
NapSleep(c, s) ==
    /\ At(c, s, "napgo")
    /\ EnterSched(c)
    /\ tlock' = NoCPU
    /\ SleepOn(s, TicksChan)
    /\ pc' = [pc EXCEPT ![s] = "napsleep"]
    /\ UNCHANGED <<killed, procVars, statVars, thrVars, cpuVars>>

(* The end of sleep(): acquire(lk), outside ptable.lock. *)
NapAgain(c, s) ==
    /\ At(c, s, "renap")
    /\ tlock = NoCPU
    /\ tlock' = c
    /\ pc' = [pc EXCEPT ![s] = "napcheck"]
    /\ UNCHANGED <<state, sigVars, procVars, statVars, thrVars, lock, cpuVars>>

-----------------------------------------------------------------------------
(* kill() wakes a sleeper. *)
KillState(k) ==
    [state EXCEPT ![k] = IF @ = "SLEEPING" THEN "RUNNABLE" ELSE @]

(* kill(q): the first slot with that pid, in whatever state it is. *)
Kill(c, s) ==
    /\ At(c, s, "sys")
    /\ lock = NoCPU
    /\ \E q \in 0..MaxPid :
         \/ /\ \A k \in Slot : pid[k] # q
            /\ UNCHANGED <<killed, state>>
         \/ \E k \in First({i \in Slot : pid[i] = q}) :
              /\ killed' = [killed EXCEPT ![k] = TRUE]
              /\ state' = KillState(k)
    /\ pc' = [pc EXCEPT ![s] = "ret"]
    /\ UNCHANGED <<chan, procVars, statVars, thrVars, lockVars, cpuVars>>

(* settickets(n) refuses n <= 0. *)
SetTickets(c, s) ==
    /\ At(c, s, "sys")
    /\ \E n \in TicketArgs :
         tickets' = [tickets EXCEPT ![s] = IF n <= 0 THEN @ ELSE n]
    /\ pc' = [pc EXCEPT ![s] = "ret"]
    /\ UNCHANGED <<state, sigVars, pid, nextpid, parent, kstack, statVars,
                   thrVars, lockVars, cpuVars>>

(* What sys_getpinfo() fills in: an entry for every slot that is not UNUSED. *)
Getpinfo ==
    [s \in {k \in Slot : state[k] # "UNUSED"} |->
        [pid |-> pid[s], ticks |-> pticks[s],
         tickets |-> tickets[s], inuse |-> inuse[s]]]

(* trap(): a fault in user code kills the process, which exits at once. *)
Fault(c, s) ==
    /\ At(c, s, "user")
    /\ killed' = [killed EXCEPT ![s] = TRUE]
    /\ pc' = [pc EXCEPT ![s] = "exit"]
    /\ UNCHANGED <<state, chan, procVars, statVars, thrVars, lockVars,
                   cpuVars>>

(* trap(): a system call checks proc->killed before it is dispatched ... *)
Enter(c, s) ==
    /\ At(c, s, "user")
    /\ pc' = [pc EXCEPT ![s] = IF killed[s] THEN "exit" ELSE "sys"]
    /\ UNCHANGED <<state, sigVars, procVars, statVars, thrVars, lockVars,
                   cpuVars>>

(* ... and on the way back to user space. *)
Ret(c, s) ==
    /\ At(c, s, "ret")
    /\ pc' = [pc EXCEPT ![s] = IF killed[s] THEN "exit" ELSE "user"]
    /\ UNCHANGED <<state, sigVars, procVars, statVars, thrVars, lockVars,
                   cpuVars>>

-----------------------------------------------------------------------------
(* The timer interrupt.  On the boot CPU it takes tickslock, advances ticks
   and wakes the sleepers under ptable.lock, in the lock order of sleep(). *)

Advance(r) == [c \in CPU |-> IF spc[c] \in {"proc", "back"}
                             THEN AtMost(r[c] + 1, MaxTicks) ELSE r[c]]

(* n - (ticks - ticks0) after one more tick.  The mutant misses the end. *)
Elapse_PastZero(n) == IF n = Forever THEN n ELSE n - 1
Elapse(n) == IF n \in {0, Forever} THEN n ELSE n - 1

Clock ==
    /\ lock = NoCPU /\ tlock = NoCPU
    /\ left' = [s \in Slot |-> Elapse(left[s])]
    /\ ran' = Advance(ran)

(* The mutant forgets wakeup(&ticks). *)
Tick_NoWakeup == Clock /\ UNCHANGED state
Tick == Clock /\ state' = Wakeup1(state, TicksChan)

(* Interrupts are on between sti() and acquire() in scheduler(). *)
TickIdle ==
    /\ spc[BootCPU] = "idle"
    /\ Tick
    /\ UNCHANGED <<sigVars, procVars, inuse, pticks, pc, saved, np, lockVars,
                   cpuVars>>

Timer(c, s) ==
    /\ On(c, s)
    /\ pc[s] \in OpenPC
    /\ IF c = BootCPU THEN Tick ELSE UNCHANGED <<state, ran, left>>
    /\ pc' = [pc EXCEPT ![s] = "trap"]
    /\ saved' = [saved EXCEPT ![s] = pc[s]]
    /\ UNCHANGED <<sigVars, procVars, inuse, pticks, np, lockVars, cpuVars>>

(* Interrupted in user space and killed: exit instead of yield. *)
TrapExit(c, s) ==
    /\ At(c, s, "trap")
    /\ saved[s] = "user" /\ killed[s]
    /\ pc' = [pc EXCEPT ![s] = "exit"]
    /\ UNCHANGED <<state, sigVars, procVars, statVars, thrVars, lockVars,
                   cpuVars>>

(* yield(), after which a process on its way to user space checks killed. *)
Yield(c, s) ==
    /\ At(c, s, "trap")
    /\ ~(saved[s] = "user" /\ killed[s])
    /\ EnterSched(c)
    /\ state' = [state EXCEPT ![s] = "RUNNABLE"]
    /\ pc' = [pc EXCEPT ![s] = "yield"]
    /\ saved' = [saved EXCEPT ![s] = IF @ = "user" THEN "ret" ELSE @]
    /\ UNCHANGED <<sigVars, procVars, statVars, np, left, tlock, cpuVars>>
-----------------------------------------------------------------------------
(* The system calls a process in "sys" can make. *)
SysCall(c, s) ==
    \/ "fork" \in Calls /\ (ForkAlloc(c, s) \/ ForkFull(c, s))
    \/ "exit" \in Calls /\ SysExit(c, s)
    \/ "wait" \in Calls /\ SysWait(c, s)
    \/ "sleep" \in Calls /\ SysSleep(c, s)
    \/ "kill" \in Calls /\ Kill(c, s)
    \/ "settickets" \in Calls /\ SetTickets(c, s)

(* Steps the kernel takes by itself once a system call or trap is under way. *)
Kernel(c, s) ==
    \/ ForkKalloc(c, s) \/ ForkCopy(c, s) \/ ForkUndo(c, s) \/ ForkPublish(c, s)
    \/ ExitPanic(c, s) \/ Exit(c, s)
    \/ WaitReap(c, s) \/ WaitFail(c, s) \/ WaitSleep(c, s)
    \/ NapCheck(c, s) \/ NapSleep(c, s) \/ NapAgain(c, s) \/ Ret(c, s)

(* Switching: out of scheduler() into a process and back. *)
Switch(c) ==
    \/ Tally(c) \/ NoPick(c) \/ Swtch(c) \/ Back(c)
    \/ \E s \in Slot : Pick(c, s) \/ Return(c, s) \/ Awake(c, s)

Interrupt(c, s) == Timer(c, s) \/ TrapExit(c, s) \/ Yield(c, s)

Next ==
    \/ \E c \in CPU : Switch(c)
    \/ \E c \in CPU, s \in Slot :
         Enter(c, s) \/ Fault(c, s) \/ SysCall(c, s) \/ Kernel(c, s)
         \/ Interrupt(c, s)
    \/ TickIdle

Spec == Init /\ [][Next]_vars

(* Fairness, per CPU: the kernel code of a switch or an interrupt goes on, a
   spinning CPU gets a lock that is free again and again, and the pending
   timer interrupt is delivered once interrupts are on.  Per slot: the
   lottery does not lose for ever, and kernel code that has the CPU again and
   again goes on.  The last is more than strong fairness: acquire() turns
   interrupts off before it spins, so a spinning process keeps its CPU.    *)
CpuGoesOn(c) == Switch(c) \/ \E s \in Slot : TrapExit(c, s) \/ Yield(c, s)
TimerOn(c) == (c = BootCPU /\ TickIdle) \/ \E s \in Slot : Timer(c, s)
InKernel(s) == /\ \E c \in CPU : On(c, s)
               /\ pc[s] \in (OpenPC \ {"user"}) \cup NapPC \cup {"scan"}
GoesOn(s) == \E c \in CPU : SysCall(c, s) \/ Kernel(c, s)

Fairness ==
    /\ \A c \in CPU : SF_vars(CpuGoesOn(c)) /\ SF_vars(TimerOn(c))
    /\ \A s \in Slot : /\ SF_vars(\E c \in CPU : Pick(c, s))
                       /\ []<>InKernel(s) => []<><<GoesOn(s)>>_vars

FairSpec == Spec /\ Fairness

(* The variables keep their types (total is a sum of tickets, see
   RoundPicks).                                                            *)
TypeOK ==
    /\ state \in [Slot -> States]
    /\ pid \in [Slot -> Nat]
    /\ nextpid \in Nat
    /\ parent \in [Slot -> 0..NPROC]
    /\ chan \in [Slot -> 0..TicksChan]
    /\ killed \in [Slot -> BOOLEAN]
    /\ tickets \in [Slot -> Int]
    /\ inuse \in [Slot -> BOOLEAN]
    /\ pticks \in [Slot -> 0..MaxTicks]
    /\ kstack \in [Slot -> BOOLEAN]
    /\ pc \in [Slot -> PC]
    /\ saved \in [Slot -> OpenPC]
    /\ np \in [Slot -> 0..NPROC]
    /\ left \in [Slot -> 0..Forever]
    /\ lock \in CPU \cup {NoCPU}
    /\ tlock \in CPU \cup {NoCPU}
    /\ spc \in [CPU -> {"idle", "pick", "proc", "back", "halted"}]
    /\ cur \in [CPU -> 0..NPROC]
    /\ DOMAIN total = CPU
    /\ ran \in [CPU -> 0..MaxTicks]

(* sched() and swtch(): no process is on two CPUs at once, although another
   CPU may pick it as soon as its state is RUNNABLE again.                 *)
OneCPUEach ==
    \A c, d \in CPU : c # d /\ cur[c] # NoProc => cur[c] # cur[d]

(* exit() and wait(): a CPU never executes on a kernel stack that was freed,
   and no process that can be switched to lacks one.                       *)
StackLive ==
    /\ \A c \in CPU : spc[c] = "proc" => kstack[cur[c]]
    /\ \A s \in Slot : state[s] \notin {"UNUSED", "EMBRYO"} => kstack[s]

(* "Once we hold ptable.lock, we can be guaranteed that we won't miss any
   wakeup": a process asleep in wait() has a child, none that is already a
   zombie, and has not been killed.                                        *)
NoLostWakeup ==
    \A s \in Slot : state[s] = "SLEEPING" /\ pc[s] = "waitsleep" =>
        Zombies(s) = {} /\ Children(s) # {} /\ ~killed[s]

(* exit() passes children to init: whoever can exit later has a parent that
   can still wait() for it.                                                *)
ParentAlive ==
    \A s \in Slot \ {InitProc} : state[s] \notin {"UNUSED", "EMBRYO"} =>
        /\ parent[s] \in Slot
        /\ state[parent[s]] \in {"RUNNABLE", "RUNNING", "SLEEPING"}

(* sched() and exit(): the only panic is that of init's exit(). *)
PanicOnlyInit ==
    \A c \in CPU : spc[c] = "halted" => cur[c] = InitProc /\ pc[InitProc] = "exit"

(* scheduler(): a round that picks nobody found nobody runnable, whatever
   fork() publishes between its two loops.                                 *)
RoundPicks ==
    [][\A c \in CPU : spc[c] = "pick" /\ spc'[c] = "idle" => Runnable = {}]_vars

(* A CPU has stopped: in the panic of init, or drawing from more tickets than
   random_at_most() takes ("Assumes 0 <= max <= RAND_MAX").                *)
Halted ==
    \E c \in CPU :
        spc[c] = "halted" \/ (spc[c] = "pick" /\ RandomAtMost(total[c]) = {})

(* "Process won't exit until it returns to user space": it does return there,
   wherever kill() found it, as long as no CPU has stopped.                *)
KilledExits ==
    \A s \in Slot \ {InitProc} :
        (killed[s] /\ state[s] \notin {"UNUSED", "EMBRYO"})
            ~> (state[s] \in {"ZOMBIE", "UNUSED"} \/ Halted)

(* sys_sleep(n), n >= 0, returns, as long as no CPU has stopped. *)
NapEnds ==
    \A s \in Slot : (pc[s] = "napsleep" /\ left[s] # Forever)
                        ~> (pc[s] = "ret" \/ Halted)
-----------------------------------------------------------------------------
(* What comments of the repository say and the code does not do. *)

(* proc.h, "killed: If non-zero, have been killed": a process nobody has
   killed yet, one just allocated, is not marked killed.                   *)
BornAlive ==
    [][\A s \in Slot : state[s] = "UNUSED" /\ state'[s] = "EMBRYO"
                          => ~killed'[s]]_vars
=============================================================================
