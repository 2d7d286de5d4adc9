-------------------------------- MODULE Pipe --------------------------------
(***************************************************************************)
(* A pipe of src/xv6/kernel/pipe.c and the two entries of the file table   *)
(* that lead to it (file.c): processes that share the ends by fork() read, *)
(* write, close, exit and are killed.                                      *)
(*                                                                         *)
(* p->lock is held from acquire to release or sleep; kill() does not take  *)
(* it, so the test of proc->killed and the sleep are steps of their own.   *)
(* What is done under ftable.lock or ptable.lock is one step.              *)
(***************************************************************************)
EXTENDS Integers, FiniteSets, Sequences

CONSTANTS
    Proc,          \* process slots
    Creator,       \* the process that calls pipe()
    Byte,          \* the values of a byte
    PIPESIZE,
    CounterMod,    \* 2^32: nread and nwrite are uint
    Counts,        \* the values of n in read() and write()
    Nobody         \* the lock is free

End == {"r", "w"}

ASSUME PipeAssumption ==
    /\ IsFiniteSet(Proc)
    /\ Creator \in Proc
    /\ Byte # {}
    /\ PIPESIZE \in Nat \ {0}
    /\ CounterMod \in Nat
    /\ CounterMod > PIPESIZE
    /\ CounterMod % PIPESIZE = 0
    /\ Counts \subseteq Nat
    /\ Nobody \notin Proc

VARIABLES
    data,          \* p->data
    nread,         \* p->nread
    nwrite,        \* p->nwrite
    readopen,      \* p->readopen
    writeopen,     \* p->writeopen
    freed,         \* the page of the pipe went back to kfree()
    plock,         \* who holds p->lock
    ref,           \* f->ref of the two struct files
    ofile,         \* the ends a process has in its proc->ofile
    pc,            \* where a process stands
    count,         \* n of the call in progress
    i,             \* its loop variable
    closing,       \* the end its fileclose() is about
    exiting,       \* processes inside exit()
    killed         \* processes with proc->killed

pipeVars == <<data, nread, nwrite>>
openVars == <<readopen, writeopen, freed>>
fileVars == <<ref, ofile, closing>>
callVars == <<count, i>>
procVars == <<exiting, killed>>
vars == <<pipeVars, openVars, plock, fileVars, pc, callVars, procVars>>

Init ==
    /\ data \in [0..PIPESIZE - 1 -> {CHOOSE b \in Byte : TRUE}]
    /\ nread = 0 /\ nwrite = 0
    /\ readopen = TRUE /\ writeopen = TRUE /\ freed = FALSE
    /\ plock = Nobody
    /\ ref = [e \in End |-> 1]
    /\ ofile = [p \in Proc |-> IF p = Creator THEN End ELSE {}]
    /\ pc = [p \in Proc |-> IF p = Creator THEN "user" ELSE "none"]
    /\ count = [p \in Proc |-> 0]
    /\ i = [p \in Proc |-> 0]
    /\ closing = [p \in Proc |-> "r"]
    /\ exiting = {}
    /\ killed = {}

\* The counters compared without their wrap.
Full_NoWrap == nwrite = nread + PIPESIZE

Full  == nwrite = (nread + PIPESIZE) % CounterMod
Empty == nread = nwrite

Goes(p, place) == pc' = [pc EXCEPT ![p] = place]

WakeReaders_None(p, place) == Goes(p, place)

\* wakeup(&p->nread), wakeup(&p->nwrite), while p goes on at place.
WakeReaders(p, place) ==
    pc' = [q \in Proc |-> IF q = p THEN place
                          ELSE IF pc[q] = "rsleep" THEN "rwoken" ELSE pc[q]]

WakeWriters_None(p, place) == Goes(p, place)

WakeWriters(p, place) ==
    pc' = [q \in Proc |-> IF q = p THEN place
                          ELSE IF pc[q] = "wsleep" THEN "wlock" ELSE pc[q]]

\* The locals of a call end with it.
Return(p) ==
    /\ count' = [count EXCEPT ![p] = 0]
    /\ i' = [i EXCEPT ![p] = 0]

Acquire(p) == plock = Nobody /\ plock' = p
Release    == plock' = Nobody

-----------------------------------------------------------------------------
(* pipewrite() *)

WriteCall(p, n) ==
    /\ pc[p] = "user" /\ p \notin killed
    /\ "w" \in ofile[p]
    /\ count' = [count EXCEPT ![p] = n]
    /\ i' = [i EXCEPT ![p] = 0]
    /\ Goes(p, "wlock")
    /\ UNCHANGED <<pipeVars, openVars, plock, fileVars, procVars>>

WriteLock(p) ==
    /\ pc[p] = "wlock"
    /\ Acquire(p)
    /\ Goes(p, "write")
    /\ UNCHANGED <<pipeVars, openVars, fileVars, callVars, procVars>>

WriteByte(p) ==
    /\ pc[p] = "write"
    /\ i[p] < count[p]
    /\ ~Full
    /\ \E b \in Byte : data' = [data EXCEPT ![nwrite % PIPESIZE] = b]
    /\ nwrite' = (nwrite + 1) % CounterMod
    /\ i' = [i EXCEPT ![p] = @ + 1]
    /\ UNCHANGED <<nread, openVars, plock, fileVars, pc, count, procVars>>

\* The reader is gone, or the writer has been killed.
WriteFails(p) ==
    /\ pc[p] = "write"
    /\ i[p] < count[p]
    /\ Full
    /\ ~readopen \/ p \in killed
    /\ Release
    /\ Goes(p, "user")
    /\ Return(p)
    /\ UNCHANGED <<pipeVars, openVars, fileVars, procVars>>

WriteWaits(p) ==
    /\ pc[p] = "write"
    /\ i[p] < count[p]
    /\ Full
    /\ readopen
    /\ p \notin killed
    /\ WakeReaders(p, "wdoze")
    /\ UNCHANGED <<pipeVars, openVars, plock, fileVars, callVars, procVars>>

\* sleep(&p->nwrite, &p->lock)
WriteSleep(p) ==
    /\ pc[p] = "wdoze"
    /\ Release
    /\ Goes(p, "wsleep")
    /\ UNCHANGED <<pipeVars, openVars, fileVars, callVars, procVars>>

WriteDone(p) ==
    /\ pc[p] = "write"
    /\ i[p] = count[p]
    /\ WakeReaders(p, "user")
    /\ Release
    /\ Return(p)
    /\ UNCHANGED <<pipeVars, openVars, fileVars, procVars>>

-----------------------------------------------------------------------------
(* piperead() *)

ReadCall(p, n) ==
    /\ pc[p] = "user" /\ p \notin killed
    /\ "r" \in ofile[p]
    /\ count' = [count EXCEPT ![p] = n]
    /\ i' = [i EXCEPT ![p] = 0]
    /\ Goes(p, "rlock")
    /\ UNCHANGED <<pipeVars, openVars, plock, fileVars, procVars>>

\* A sleeper that does not test again: if instead of while.
ReadLock_Once(p) ==
    /\ pc[p] \in {"rlock", "rwoken"}
    /\ Acquire(p)
    /\ Goes(p, IF pc[p] = "rwoken" THEN "read" ELSE "rtest")
    /\ UNCHANGED <<pipeVars, openVars, fileVars, callVars, procVars>>

ReadLock(p) ==
    /\ pc[p] \in {"rlock", "rwoken"}
    /\ Acquire(p)
    /\ Goes(p, "rtest")
    /\ UNCHANGED <<pipeVars, openVars, fileVars, callVars, procVars>>

MustWait == Empty /\ writeopen

ReadFails(p) ==
    /\ pc[p] = "rtest"
    /\ MustWait
    /\ p \in killed
    /\ Release
    /\ Goes(p, "user")
    /\ Return(p)
    /\ UNCHANGED <<pipeVars, openVars, fileVars, procVars>>

ReadWaits(p) ==
    /\ pc[p] = "rtest"
    /\ MustWait
    /\ p \notin killed
    /\ Goes(p, "rdoze")
    /\ UNCHANGED <<pipeVars, openVars, plock, fileVars, callVars, procVars>>

\* sleep(&p->nread, &p->lock)
ReadSleep(p) ==
    /\ pc[p] = "rdoze"
    /\ Release
    /\ Goes(p, "rsleep")
    /\ UNCHANGED <<pipeVars, openVars, fileVars, callVars, procVars>>

ReadStart(p) ==
    /\ pc[p] = "rtest"
    /\ ~MustWait
    /\ Goes(p, "read")
    /\ UNCHANGED <<pipeVars, openVars, plock, fileVars, callVars, procVars>>

ReadByte(p) ==
    /\ pc[p] = "read"
    /\ i[p] < count[p]
    /\ ~Empty
    /\ nread' = (nread + 1) % CounterMod
    /\ i' = [i EXCEPT ![p] = @ + 1]
    /\ UNCHANGED <<data, nwrite, openVars, plock, fileVars, pc, count, procVars>>

ReadDone(p) ==
    /\ pc[p] = "read"
    /\ i[p] = count[p] \/ Empty
    /\ WakeWriters(p, "user")
    /\ Release
    /\ Return(p)
    /\ UNCHANGED <<pipeVars, openVars, fileVars, procVars>>

-----------------------------------------------------------------------------
(* fork(), close(), exit(), kill() *)

\* The references the child of p takes: filedup() for every open file.
Dup(p) == [e \in End |-> IF e \in ofile[p] THEN ref[e] + 1 ELSE ref[e]]

Fork(p, q) ==
    /\ pc[p] = "user" /\ p \notin killed
    /\ pc[q] = "none"
    /\ ref' = Dup(p)
    /\ ofile' = [ofile EXCEPT ![q] = ofile[p]]
    /\ Goes(q, "user")
    /\ UNCHANGED <<pipeVars, openVars, plock, closing, callVars, procVars>>

\* sys_close(), or one turn of the loop of exit(), which clears the descriptor
\* only after fileclose(); nobody else reads proc->ofile.
Close(p, e) ==
    /\ \/ pc[p] = "user" /\ p \notin killed
       \/ pc[p] = "exit"
    /\ e \in ofile[p]
    /\ ofile' = [ofile EXCEPT ![p] = @ \ {e}]
    /\ closing' = [closing EXCEPT ![p] = e]
    /\ Goes(p, "fileclose")
    /\ UNCHANGED <<pipeVars, openVars, plock, ref, callVars, procVars>>

Back(p) == IF p \in exiting THEN "exit" ELSE "user"

FileClose(p) ==
    /\ pc[p] = "fileclose"
    /\ ref' = [ref EXCEPT ![closing[p]] = @ - 1]
    /\ IF ref[closing[p]] > 1
       THEN Goes(p, Back(p)) /\ closing' = [closing EXCEPT ![p] = "r"]
       ELSE Goes(p, "pipeclose") /\ UNCHANGED closing
    /\ UNCHANGED <<pipeVars, openVars, plock, ofile, callVars, procVars>>

\* pipeclose() that frees the pipe with the write end.
LastEnd_Write == ~writeopen'

LastEnd == ~readopen' /\ ~writeopen'

PipeClose(p) ==
    /\ pc[p] = "pipeclose"
    /\ plock = Nobody
    /\ IF closing[p] = "w"
       THEN writeopen' = FALSE /\ UNCHANGED readopen /\ WakeReaders(p, Back(p))
       ELSE readopen' = FALSE /\ UNCHANGED writeopen /\ WakeWriters(p, Back(p))
    /\ freed' = (freed \/ LastEnd)
    /\ closing' = [closing EXCEPT ![p] = "r"]
    /\ UNCHANGED <<pipeVars, plock, ref, ofile, callVars, procVars>>

\* exit(), called by the process or by trap() when it has been killed;
\* nothing tests proc->killed from here on.
Exit(p) ==
    /\ pc[p] = "user"
    /\ exiting' = exiting \union {p}
    /\ killed' = killed \ {p}
    /\ Goes(p, "exit")
    /\ UNCHANGED <<pipeVars, openVars, plock, fileVars, callVars>>

\* All files closed: wait() can free the slot.
Reap(p) ==
    /\ pc[p] = "exit"
    /\ ofile[p] = {}
    /\ exiting' = exiting \ {p}
    /\ Goes(p, "none")
    /\ UNCHANGED <<pipeVars, openVars, plock, fileVars, callVars, killed>>

Kill(p) ==
    /\ pc[p] # "none"
    /\ p \notin killed \union exiting
    /\ killed' = killed \union {p}
    /\ Goes(p, CASE pc[p] = "rsleep" -> "rwoken"
                 [] pc[p] = "wsleep" -> "wlock"
                 [] OTHER -> pc[p])
    /\ UNCHANGED <<pipeVars, openVars, plock, fileVars, callVars, exiting>>

-----------------------------------------------------------------------------
Write(p) ==
    \/ WriteLock(p) \/ WriteByte(p) \/ WriteFails(p) \/ WriteWaits(p)
    \/ WriteSleep(p) \/ WriteDone(p)

ReadIt(p) ==
    \/ ReadLock(p) \/ ReadFails(p) \/ ReadWaits(p) \/ ReadSleep(p)
    \/ ReadStart(p) \/ ReadByte(p) \/ ReadDone(p)

Shut(p) == FileClose(p) \/ PipeClose(p) \/ Reap(p)

UserCall(p) ==
    \/ \E n \in Counts : WriteCall(p, n) \/ ReadCall(p, n)
    \/ \E q \in Proc : Fork(p, q)
    \/ \E e \in End : Close(p, e)
    \/ Exit(p)

Next ==
    \E p \in Proc : UserCall(p) \/ Write(p) \/ ReadIt(p) \/ Shut(p) \/ Kill(p)

Spec == Init /\ [][Next]_vars
=============================================================================
