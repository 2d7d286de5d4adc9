------------------------------ MODULE PipeInv -------------------------------
(***************************************************************************)
(* The properties of Pipe and its mapping to Channel.                      *)
(***************************************************************************)
EXTENDS Pipe

\* Where a process holds p->lock, and where it is inside piperead() or
\* pipewrite().
Holding == {"write", "wdoze", "rtest", "rdoze", "read"}
Writing == {"wlock", "write", "wdoze", "wsleep"}
Reading == {"rlock", "rtest", "rdoze", "rsleep", "rwoken", "read"}
InCall  == Writing \union Reading

TypeOK ==
    /\ data \in [0..PIPESIZE - 1 -> Byte]
    /\ nread \in 0..CounterMod - 1
    /\ nwrite \in 0..CounterMod - 1
    /\ readopen \in BOOLEAN
    /\ writeopen \in BOOLEAN
    /\ freed \in BOOLEAN
    /\ plock \in Proc \union {Nobody}
    /\ ref \in [End -> Nat]
    /\ ofile \in [Proc -> SUBSET End]
    /\ pc \in [Proc -> {"none", "user", "exit", "fileclose", "pipeclose"} \union InCall]
    /\ count \in [Proc -> Counts \union {0}]
    /\ i \in [Proc -> Nat]
    /\ closing \in [Proc -> End]
    /\ exiting \in SUBSET Proc
    /\ killed \in SUBSET Proc

-----------------------------------------------------------------------------
(* A writer that finds itself killed on a full pipe returns without the     *)
(* wakeup() the other ways out of pipewrite() have: the readers asleep then *)
(* are stranded until somebody else wakes them.                             *)

VARIABLE stranded

GivesUp == \E p \in killed : WriteFails(p)

Strand ==
    stranded' = {q \in Proc : (q \in stranded \/ GivesUp) /\ pc'[q] = "rsleep"}

HInit == Init /\ stranded = {}

HNext == Next /\ Strand

hvars == <<vars, stranded>>

HSpec == HInit /\ [][HNext]_hvars

-----------------------------------------------------------------------------
\* Nobody sleeps for something that is there: with p->lock free, a reader
\* asleep has an empty pipe with a writer unless it is stranded, a writer
\* asleep a full pipe with a reader.  sleep() releases the lock, and readers
\* and writers wake each other only at the end of a call, in the middle of it
\* or when they close; the writer killed on a full pipe is the one that does
\* not.
NoLostWakeup ==
    plock = Nobody =>
        \A p \in Proc :
            /\ pc[p] = "rsleep" => writeopen /\ (Empty \/ p \in stranded)
            /\ pc[p] = "wsleep" => Full /\ readopen

\* The page of the pipe is freed once, when no descriptor leads to it and
\* nobody is inside a call: the references count the descriptors and the
\* fileclose() calls in progress.
FreedLast ==
    freed => /\ \A p \in Proc : pc[p] \notin InCall \union {"fileclose", "pipeclose"}
             /\ \A p \in Proc : ofile[p] = {}
             /\ plock = Nobody

\* piperead() returns 0 bytes only at the end of the file, although another
\* reader may have taken the bytes it was woken for.
EofOnlyAtEnd ==
    [][\A p \in Proc : ReadDone(p) /\ i[p] = 0 /\ count[p] > 0
                          => Empty /\ ~writeopen]_vars

-----------------------------------------------------------------------------
(* The inductive invariant, for any number of processes.                    *)

\* Who holds p->lock is where it is held.
LockInv == \A p \in Proc : plock = p <=> pc[p] \in Holding

\* A call has the descriptor it was made on; a slot that is free has none.
CallInv ==
    \A p \in Proc :
        /\ pc[p] = "none" => ofile[p] = {}
        /\ pc[p] \in Writing => "w" \in ofile[p]
        /\ pc[p] \in Reading => "r" \in ofile[p]
        /\ pc[p] \in {"fileclose", "pipeclose"} => closing[p] \notin ofile[p]

\* The references to an end: its descriptors and the fileclose() calls that
\* have yet to give theirs back.
Users(e) == {p \in Proc : e \in ofile[p] \/ (pc[p] = "fileclose" /\ closing[p] = e)}

RefInv == \A e \in End : ref[e] = Cardinality(Users(e))

\* The pipeclose() of an end: one, and only when its last reference is gone.
Closers(e) == {p \in Proc : pc[p] = "pipeclose" /\ closing[p] = e}

IsOpen(e) == IF e = "w" THEN writeopen ELSE readopen

OpenInv ==
    /\ \A e \in End :
        /\ IsOpen(e) <=> Users(e) # {} \/ Closers(e) # {}
        /\ Users(e) = {} \/ Closers(e) = {}
        /\ \A p, q \in Closers(e) : p = q
    /\ freed <=> ~readopen /\ ~writeopen

\* While somebody is inside the loop of pipewrite() the readers asleep may
\* have bytes to read, and are woken when it leaves; likewise for writers.
SleepInv ==
    \A p \in Proc :
        /\ pc[p] = "rdoze" => Empty /\ writeopen
        /\ pc[p] = "wdoze" => Full /\ readopen
        /\ pc[p] = "rsleep" =>
              writeopen /\ (Empty \/ p \in stranded \/ \E q \in Proc : pc[q] = "write")
        /\ pc[p] = "wsleep" =>
              readopen /\ (Full \/ \E q \in Proc : pc[q] = "read")

\* A reader that found the pipe empty past its first loop has no writer.
EofInv == \A p \in Proc : pc[p] = "read" /\ i[p] = 0 /\ Empty => ~writeopen

\* How far nwrite is ahead of nread, the wrap of the counters undone.
Bytes == (nwrite + CounterMod - nread) % CounterMod

RoomInv == Bytes <= PIPESIZE

IInv ==
    /\ TypeOK /\ LockInv /\ CallInv /\ RefInv /\ OpenInv /\ SleepInv /\ EofInv
    /\ RoomInv

-----------------------------------------------------------------------------
\* The bytes between nread and nwrite.
Queue == [k \in 1..Bytes |-> data[(nread + k - 1) % PIPESIZE]]

Ch == INSTANCE Channel WITH
    Room <- PIPESIZE,
    queue <- Queue,
    writers <- writeopen,
    readers <- readopen

\* The pipe is a bounded first in, first out queue of bytes, wherever the
\* counters wrap around, for any number of readers and writers.
FifoQueue == Ch!CSpec

-----------------------------------------------------------------------------
(* A process that holds p->lock goes on, and acquire(), which tries again   *)
(* and again, gets a lock that is free again and again.                    *)
Fairness ==
    \A p \in Proc :
        /\ WF_vars((Write(p) \/ ReadIt(p)) /\ (pc[p] \in Holding))
        /\ SF_vars(WriteLock(p) \/ ReadLock(p))

LiveSpec == HSpec /\ Fairness

\* Closing the last descriptor of one end ends every call on the other end,
\* the ones asleep included, whatever the others on the same end do.
HangUp ==
    \A p \in Proc :
        /\ ~writeopen /\ pc[p] \in Reading ~> pc[p] = "user"
        /\ ~readopen /\ pc[p] \in Writing ~> pc[p] = "user"
=============================================================================
