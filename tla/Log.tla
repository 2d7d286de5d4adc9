-------------------------------- MODULE Log ---------------------------------
(***************************************************************************)
(* The write-ahead log of src/ex4/xv6/log.c (src/xv62/xv6ex4/xv6/log.c is  *)
(* the same file) on top of the buffer cache of bio.c: begin_op, the       *)
(* bread / modify / log_write / brelse of a file system call, end_op and   *)
(* commit, and recovery after a crash at any point.                        *)
(*                                                                         *)
(* What is done under log.lock is one step; log_write tests for panics     *)
(* before it takes the lock.  A write of one disk block is one step and    *)
(* atomic.  The data of a block is the set of writes it holds.             *)
(***************************************************************************)
EXTENDS Integers, FiniteSetsExt, SequencesExt

CONSTANTS
    Proc,          \* processes that make file system calls
    Block,         \* the disk blocks outside the log
    MAXOPBLOCKS,   \* distinct blocks one call may write
    LOGSIZE,       \* entries of struct logheader
    NLog,          \* sb.nlog: blocks of the log on disk, header included
    MaxWrites,     \* bound: block writes in a behaviour
    MaxCrashes,    \* bound: crashes in a behaviour
    NoBlock        \* no buffer locked

ASSUME LogAssumption ==
    /\ IsFiniteSet(Proc)
    /\ IsFiniteSet(Block)
    /\ MAXOPBLOCKS \in Nat
    /\ LOGSIZE \in Nat
    /\ NLog \in Nat
    /\ MaxWrites \in Nat
    /\ MaxCrashes \in Nat
    /\ NoBlock \notin Block

Writes  == 1..MaxWrites
Content == SUBSET Writes

VARIABLES
    disk,          \* the blocks at home
    logdisk,       \* blocks log.start + 1, log.start + 2, ... on disk
    head,          \* the header block on disk
    valid,         \* the blocks that have a buffer, with B_VALID
    cache,         \* the data of the buffer of a block
    dirty,         \* the blocks whose buffer has B_DIRTY
    lh,            \* log.lh in memory: lh.block[0..n-1]
    outstanding,   \* log.outstanding
    committing,    \* log.committing
    pc,            \* where each process stands
    buf,           \* the block whose buffer it has locked
    wrote,         \* the blocks its call has logged
    tail,          \* the loop variable of commit or recovery
    boot,          \* recovery at start up, then "up"
    writes,        \* number of writes so far
    crashes        \* number of crashes so far

diskVars == <<disk, logdisk, head>>
bufVars  == <<valid, cache, dirty>>
logVars  == <<lh, outstanding, committing>>
procVars == <<buf, wrote>>
bounds   == <<writes, crashes>>
vars == <<diskVars, bufVars, logVars, procVars, pc, tail, boot, bounds>>

Init ==
    /\ disk = [b \in Block |-> {}]
    /\ logdisk = [i \in 1..LOGSIZE |-> {}]
    /\ head = <<>>
    /\ valid = {}
    /\ cache = [b \in Block |-> {}]
    /\ dirty = {}
    /\ lh = <<>>
    /\ outstanding = 0
    /\ committing = FALSE
    /\ pc = [p \in Proc |-> "down"]
    /\ buf = [p \in Proc |-> NoBlock]
    /\ wrote = [p \in Proc |-> {}]
    /\ tail = 0
    /\ boot = "read_head"
    /\ writes = 0
    /\ crashes = 0

\* bread(): the cached data, or the block as it is on disk.
Read(b) == IF b \in valid THEN cache[b] ELSE disk[b]

At(p, place)   == boot = "up" /\ pc[p] = place
Goes(p, place) == pc' = [pc EXCEPT ![p] = place]

\* A wakeup that is forgotten.
WakeAll_None(p, place) == Goes(p, place)

\* wakeup(&log), and p goes on at place.
WakeAll(p, place) ==
    pc' = [q \in Proc |-> IF q = p THEN place
                          ELSE IF pc[q] = "sleep" THEN "begin" ELSE pc[q]]

-----------------------------------------------------------------------------
(* bio.c *)

Evictable(b) == b \notin dirty /\ \A p \in Proc : buf[p] # b

\* bget() takes an unused, clean buffer for another block.
Evict(b) ==
    /\ b \in valid
    /\ Evictable(b)
    /\ valid' = valid \ {b}
    /\ cache' = [cache EXCEPT ![b] = {}]
    /\ UNCHANGED <<diskVars, dirty, logVars, procVars, pc, tail, boot, bounds>>

-----------------------------------------------------------------------------
(* begin_op, log_write, end_op *)

Call(p) ==
    /\ At(p, "idle")
    /\ Goes(p, "begin")
    /\ UNCHANGED <<diskVars, bufVars, logVars, procVars, tail, boot, bounds>>

Exhausts == Len(lh) + (outstanding + 1) * MAXOPBLOCKS > LOGSIZE

\* begin_op() that does not look at log.committing.
MustWait_Spaceonly == Exhausts

MustWait == committing \/ Exhausts

BeginSleep(p) ==
    /\ At(p, "begin")
    /\ MustWait
    /\ Goes(p, "sleep")
    /\ UNCHANGED <<diskVars, bufVars, logVars, procVars, tail, boot, bounds>>

\* A call that begins without being counted.
Reserve_Never == outstanding' = outstanding

Reserve == outstanding' = outstanding + 1

BeginOp(p) ==
    /\ At(p, "begin")
    /\ ~MustWait
    /\ Reserve
    /\ wrote' = [wrote EXCEPT ![p] = {}]
    /\ Goes(p, "op")
    /\ UNCHANGED <<diskVars, bufVars, lh, committing, buf, tail, boot, bounds>>

\* bread(b), then a change of b->data under the buffer's sleep lock.
Modify(p, b) ==
    /\ At(p, "op")
    /\ \A q \in Proc : buf[q] # b
    /\ Cardinality(wrote[p] \union {b}) <= MAXOPBLOCKS
    /\ writes < MaxWrites
    /\ writes' = writes + 1
    /\ valid' = valid \union {b}
    /\ cache' = [cache EXCEPT ![b] = Read(b) \union {writes + 1}]
    /\ buf' = [buf EXCEPT ![p] = b]
    /\ Goes(p, "log_write")
    /\ UNCHANGED <<diskVars, dirty, logVars, wrote, tail, boot, crashes>>

TooBig == Len(lh) >= LOGSIZE \/ Len(lh) >= NLog - 1

\* log_write(): both tests are made without log.lock.
LogWriteTest(p) ==
    /\ At(p, "log_write")
    /\ Goes(p, IF TooBig \/ outstanding < 1 THEN "panic" ELSE "append")
    /\ UNCHANGED <<diskVars, bufVars, logVars, procVars, tail, boot, bounds>>

Absorb(b) == lh' = IF b \in Range(lh) THEN lh ELSE Append(lh, b)

\* The rest of log_write(), and brelse().
LogWrite(p, b) ==
    /\ At(p, "append")
    /\ buf[p] = b
    /\ Absorb(b)
    /\ dirty' = dirty \union {b}
    /\ wrote' = [wrote EXCEPT ![p] = @ \union {b}]
    /\ buf' = [buf EXCEPT ![p] = NoBlock]
    /\ Goes(p, "op")
    /\ UNCHANGED <<diskVars, valid, cache, outstanding, committing, tail, boot, bounds>>

LastCall == outstanding = 1

EndOp(p) ==
    /\ At(p, "op")
    /\ outstanding' = outstanding - 1
    /\ IF committing THEN Goes(p, "panic") /\ UNCHANGED committing
       ELSE IF LastCall THEN Goes(p, "commit") /\ committing' = TRUE
       ELSE WakeAll(p, "idle") /\ UNCHANGED committing
    /\ UNCHANGED <<diskVars, bufVars, lh, procVars, tail, boot, bounds>>

-----------------------------------------------------------------------------
(* commit() *)

CommitNothing(p) ==
    /\ At(p, "commit")
    /\ lh = <<>>
    /\ Goes(p, "committed")
    /\ UNCHANGED <<diskVars, bufVars, logVars, procVars, tail, boot, bounds>>

CommitStart(p) ==
    /\ At(p, "commit")
    /\ lh # <<>>
    /\ tail' = 0
    /\ Goes(p, "write_log")
    /\ UNCHANGED <<diskVars, bufVars, logVars, procVars, boot, bounds>>

WriteLog(p) ==
    /\ At(p, "write_log")
    /\ tail < Len(lh)
    /\ logdisk' = [logdisk EXCEPT ![tail + 1] = Read(lh[tail + 1])]
    /\ tail' = tail + 1
    /\ UNCHANGED <<disk, head, bufVars, logVars, procVars, pc, boot, bounds>>

\* Header written before the log blocks.
Written_Early == tail >= 0

Written == tail = Len(lh)

\* write_head(): the real commit.
WriteHead(p) ==
    /\ At(p, "write_log")
    /\ Written
    /\ head' = lh
    /\ tail' = 0
    /\ Goes(p, "install")
    /\ UNCHANGED <<disk, logdisk, bufVars, logVars, procVars, boot, bounds>>

\* One turn of install_trans(): the block goes from the log to its home.
InstallBlock ==
    /\ tail < Len(lh)
    /\ disk' = [disk EXCEPT ![lh[tail + 1]] = logdisk[tail + 1]]
    /\ valid' = valid \union {lh[tail + 1]}
    /\ cache' = [cache EXCEPT ![lh[tail + 1]] = logdisk[tail + 1]]
    /\ dirty' = dirty \ {lh[tail + 1]}
    /\ tail' = tail + 1
    /\ UNCHANGED <<logdisk, head, logVars, procVars, pc, boot, bounds>>

Install(p) == At(p, "install") /\ InstallBlock

\* The log is erased after the installation, or, in the mutant, at any time.
Installed_Early == TRUE

Installed == tail = Len(lh)

EraseHead(p) ==
    /\ At(p, "install")
    /\ Installed
    /\ lh' = <<>>
    /\ head' = <<>>
    /\ Goes(p, "committed")
    /\ UNCHANGED <<disk, logdisk, bufVars, outstanding, committing, procVars, tail, boot, bounds>>

CommitDone(p) ==
    /\ At(p, "committed")
    /\ committing' = FALSE
    /\ WakeAll(p, "idle")
    /\ UNCHANGED <<diskVars, bufVars, lh, outstanding, procVars, tail, boot, bounds>>

-----------------------------------------------------------------------------
(* A crash, and recover_from_log() before the first process runs *)

Crash ==
    /\ crashes < MaxCrashes
    /\ crashes' = crashes + 1
    /\ valid' = {}
    /\ cache' = [b \in Block |-> {}]
    /\ dirty' = {}
    /\ lh' = <<>>
    /\ outstanding' = 0
    /\ committing' = FALSE
    /\ pc' = [p \in Proc |-> "down"]
    /\ buf' = [p \in Proc |-> NoBlock]
    /\ wrote' = [p \in Proc |-> {}]
    /\ tail' = 0
    /\ boot' = "read_head"
    /\ UNCHANGED <<diskVars, writes>>

ReadHead ==
    /\ boot = "read_head"
    /\ lh' = head
    /\ tail' = 0
    /\ boot' = "install"
    /\ UNCHANGED <<diskVars, bufVars, outstanding, committing, procVars, pc, bounds>>

RecoverBlock == boot = "install" /\ InstallBlock

ClearLog ==
    /\ boot = "install"
    /\ Installed
    /\ lh' = <<>>
    /\ head' = <<>>
    /\ boot' = "up"
    /\ pc' = [p \in Proc |-> "idle"]
    /\ UNCHANGED <<disk, logdisk, bufVars, outstanding, committing, procVars, tail, bounds>>

-----------------------------------------------------------------------------
Recover == ReadHead \/ RecoverBlock \/ ClearLog

Commit(p) ==
    \/ CommitNothing(p) \/ CommitStart(p) \/ WriteLog(p) \/ WriteHead(p)
    \/ Install(p) \/ EraseHead(p) \/ CommitDone(p)

Operation(p) ==
    \/ BeginSleep(p) \/ BeginOp(p) \/ LogWriteTest(p) \/ EndOp(p)
    \/ \E b \in Block : Modify(p, b) \/ LogWrite(p, b)

Next ==
    \/ \E p \in Proc : Call(p) \/ Operation(p) \/ Commit(p)
    \/ \E b \in Block : Evict(b)
    \/ Recover
    \/ Crash

Spec == Init /\ [][Next]_vars

(***************************************************************************)
(* A process that is in a call goes on with it; nobody has to make one.    *)
(* A call writes a bounded number of blocks, here at most MaxWrites.       *)
(***************************************************************************)
Fairness ==
    /\ \A p \in Proc : WF_vars(Operation(p) \/ Commit(p))
    /\ WF_vars(Recover)

LiveSpec == Spec /\ Fairness
=============================================================================
