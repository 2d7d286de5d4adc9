------------------------------ MODULE ProcInv -------------------------------
(***************************************************************************)
(* The inductive invariant of Proc, in named parts: who holds ptable.lock, *)
(* which slots a CPU may be switched to, and which slot a fork() owns.     *)
(***************************************************************************)
EXTENDS Proc

(* A process that exists and has not exited. *)
Alive == {"RUNNABLE", "RUNNING", "SLEEPING"}

(* Where the kernel thread of s stands, interrupts and yield() aside. *)
Where(s) == IF pc[s] \in {"trap", "yield"} THEN saved[s] ELSE pc[s]

Forking == {"kalloc", "copy", "undo", "publish"}

(* The CPU is between an acquire and the release on the other side of swtch. *)
Holds(c) ==
    \/ spc[c] \in {"pick", "back"}
    \/ spc[c] = "proc" /\ pc[cur[c]] \in SchedPC \cup {"scan"}

(* ptable.lock belongs to the CPU that is in a critical section. *)
LockInv == \A c \in CPU : lock = c <=> Holds(c)

(* cpu->proc is set exactly while the CPU is away from the loop of
   scheduler().                                                            *)
CurInv == \A c \in CPU : cur[c] = NoProc <=> spc[c] \in {"idle", "pick"}

(* The process a CPU executes: outside sched() it is RUNNING. *)
OnInv ==
    \A c \in CPU :
        /\ spc[c] = "proc" =>
             /\ state[cur[c]] \in Alive \cup {"ZOMBIE"}
             /\ pc[cur[c]] \notin SchedPC => state[cur[c]] = "RUNNING"
        /\ spc[c] = "halted" =>
             cur[c] = InitProc /\ pc[InitProc] = "exit"
                /\ state[InitProc] = "RUNNING"

(* A slot that is not RUNNING stands inside sched(), and only there does it
   sleep or is it dead.                                                    *)
SlotInv ==
    \A s \in Slot :
        /\ state[s] \in {"RUNNABLE", "SLEEPING"} => pc[s] \in SchedPC \ {"zombie"}
        /\ state[s] = "RUNNING" => pc[s] \notin {"none", "zombie"}
        /\ state[s] = "ZOMBIE" <=> pc[s] = "zombie"
        /\ state[s] = "UNUSED" => parent[s] = NoProc
        /\ state[s] \in Alive \cup {"ZOMBIE"} => kstack[s]
        /\ state[s] = "SLEEPING" =>
             \/ pc[s] = "waitsleep" /\ chan[s] = s
             \/ pc[s] = "napsleep" /\ chan[s] = TicksChan

(* The slot a fork() is filling belongs to it alone. *)
ForkInv ==
    \A s \in Slot :
        /\ Where(s) \in Forking /\ state[s] \in Alive =>
             /\ np[s] \in Slot
             /\ state[np[s]] = "EMBRYO"
             /\ Where(s) \in {"copy", "publish"} =>
                  kstack[np[s]] /\ pc[np[s]] = "forkret"
             /\ parent[np[s]] = IF Where(s) = "publish" THEN s ELSE NoProc
             /\ \A t \in Slot : np[t] = np[s] => t = s
        /\ np[s] # NoProc => state[s] \in Alive /\ Where(s) \in Forking

(* init is alive and an orphan by birth; nobody is its own parent. *)
InitInv ==
    /\ state[InitProc] \in Alive
    /\ parent[InitProc] = NoProc
    /\ \A s \in Slot : parent[s] # s

IInv == TypeOK /\ LockInv /\ CurInv /\ OneCPUEach /\ OnInv /\ SlotInv
            /\ ForkInv /\ InitInv /\ ParentAlive /\ NoLostWakeup
=============================================================================
