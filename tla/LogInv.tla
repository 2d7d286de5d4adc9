------------------------------- MODULE LogInv -------------------------------
(***************************************************************************)
(* The properties of Log, its inductive invariant, and the mapping to      *)
(* TxDisk.                                                                 *)
(***************************************************************************)
EXTENDS Log

InOp     == {"op", "log_write", "append", "panic"}
InCommit == {"commit", "write_log", "install", "committed"}

\* Processes between begin_op() and end_op().
Active == {p \in Proc : pc[p] \in InOp}

\* Every variable of Log has its type.
TypeOK ==
    /\ disk \in [Block -> Content]
    /\ logdisk \in [1..LOGSIZE -> Content]
    /\ head \in Seq(Block)
    /\ valid \in SUBSET Block
    /\ cache \in [Block -> Content]
    /\ dirty \in SUBSET Block
    /\ lh \in Seq(Block)
    /\ outstanding \in Nat
    /\ committing \in BOOLEAN
    /\ pc \in [Proc -> {"down", "idle", "begin", "sleep"} \union InOp \union InCommit]
    /\ buf \in [Proc -> Block \union {NoBlock}]
    /\ wrote \in [Proc -> SUBSET Block]
    /\ tail \in Nat
    /\ boot \in {"read_head", "install", "up"}
    /\ writes \in 0..MaxWrites
    /\ crashes \in 0..MaxCrashes

(***************************************************************************)
(* begin_op() reserves enough: with every call within MAXOPBLOCKS, log.lh  *)
(* never gets more than LOGSIZE entries, although log_write() tests its    *)
(* length without the lock and calls begin and end in any order.           *)
(***************************************************************************)
LogFits == Len(lh) <= LOGSIZE

\* Nothing runs inside a commit: while it goes on no call is active, so it
\* cannot write half a call, and end_op() never panics with "log.committing".
Quiesced ==
    /\ committing => outstanding = 0 /\ Active = {}
    /\ \A p, q \in Proc : pc[p] \in InCommit /\ pc[q] \in InCommit => p = q

-----------------------------------------------------------------------------
(* Log implements TxDisk *)

\* What recovery would put at home: the log's block where the header on disk
\* names one.
Durable(b) ==
    IF b \in Range(head)
    THEN logdisk[CHOOSE i \in 1..Len(head) : head[i] = b]
    ELSE disk[b]

Mem(b) == IF boot = "up" THEN Read(b) ELSE Durable(b)

TX == INSTANCE TxDisk WITH
    mem <- [b \in Block |-> Mem(b)],
    durable <- [b \in Block |-> Durable(b)],
    active <- Active

\* File system calls are atomic with respect to crashes: after a crash at any
\* point, recovery included, the disk is as it was at a moment when no call
\* was in progress.
CrashAtomic == TX!TSpec

\* Once end_op() has returned and no other call is in progress, everything
\* that was written survives a crash.
DurableWhenQuiet ==
    (boot = "up" /\ outstanding = 0 /\ ~committing) =>
        \A b \in Block : Durable(b) = Read(b)

-----------------------------------------------------------------------------
(* The inductive invariant *)

\* outstanding counts the calls; a commit has the log to itself.
Phases ==
    /\ outstanding = Cardinality(Active)
    /\ boot # "up" => ~committing /\ \A p \in Proc : pc[p] = "down"
    /\ boot = "up" => \A p \in Proc : pc[p] # "down"
    /\ committing <=> \E p \in Proc : pc[p] \in InCommit
    /\ committing => Active = {}
    /\ \A p, q \in Proc : pc[p] \in InCommit /\ pc[q] \in InCommit => p = q

\* Who holds a buffer: a call inside log_write(), one buffer each.
Locks ==
    /\ \A p \in Proc : buf[p] # NoBlock <=> pc[p] \in {"log_write", "append", "panic"}
    /\ \A p, q \in Proc : buf[p] = buf[q] /\ buf[p] # NoBlock => p = q
    /\ \A p \in Proc : buf[p] \in valid \union {NoBlock}

\* The blocks a call may still log.
Pending == {x \in Proc \X (1..MAXOPBLOCKS) :
              x[1] \in Active /\ x[2] > Cardinality(wrote[x[1]])}

\* The reservation of begin_op(): what is logged and what may still be logged
\* fits together.
Budget ==
    /\ \A p \in Active : wrote[p] \subseteq Range(lh)
    /\ \A p \in Active : Cardinality(wrote[p]) <= MAXOPBLOCKS
    /\ \A p \in Active : buf[p] # NoBlock =>
         Cardinality(wrote[p] \union {buf[p]}) <= MAXOPBLOCKS
    /\ Len(lh) + Cardinality(Pending) <= LOGSIZE
    /\ Len(head) <= LOGSIZE

Distinct(s) == \A i, j \in 1..Len(s) : s[i] = s[j] => i = j

Installing == boot = "install" \/ \E p \in Proc : pc[p] = "install"

\* The log in memory and the header on disk.
Headers ==
    /\ Distinct(lh) /\ Distinct(head)
    /\ boot = "read_head" => lh = <<>>
    /\ Installing => lh = head
    /\ boot = "up" /\ ~Installing => head = <<>>
    /\ \A p \in Proc : pc[p] = "committed" => lh = <<>>
    /\ boot = "up" /\ lh # <<>> => Active # {} \/ committing
    /\ Installing \/ (\E p \in Proc : pc[p] = "write_log") => tail <= Len(lh)

\* What disk, log and cache hold.
Data ==
    /\ dirty \subseteq valid
    /\ boot # "up" => dirty = {}
    /\ boot = "read_head" => valid = {}
    /\ boot = "up" =>
         /\ \A b \in Block : b \notin Range(lh) /\ (\A p \in Proc : buf[p] # b)
                               => Read(b) = disk[b]
         /\ \A i \in 1..Len(lh) : lh[i] \in dirty \/ (Installing /\ i <= tail)
    /\ \A p \in Proc : pc[p] = "write_log" =>
         \A i \in 1..tail : logdisk[i] = Read(lh[i])
    /\ \A p \in Proc : pc[p] = "install" =>
         \A i \in 1..Len(lh) : logdisk[i] = Read(lh[i])
    /\ Installing => \A i \in 1..tail : disk[lh[i]] = logdisk[i]
    /\ boot = "install" =>
         \A b \in valid : \E i \in 1..tail : lh[i] = b /\ cache[b] = logdisk[i]

\* The inductive invariant of LogProofs.
IInv == TypeOK /\ Phases /\ Locks /\ Budget /\ Headers /\ Data

-----------------------------------------------------------------------------
\* Whoever sleeps in begin_op() is woken, unless a call panics or a crash
\* comes first.
SleepersWake ==
    \A p \in Proc : pc[p] = "sleep" ~>
        (pc[p] # "sleep" \/ \E q \in Proc : pc[q] = "panic")

-----------------------------------------------------------------------------
(* What the repository says and the code does not do, with the log that    *)
(* mkfs.c makes: nlog = LOGSIZE.                                           *)

(***************************************************************************)
(* param.h:11 "max data blocks in on-disk log": the blocks of a            *)
(* transaction fit into the NLog - 1 blocks behind the header, and commit  *)
(* does not write into the inode blocks that follow the log.               *)
(***************************************************************************)
StaysInLog == Len(lh) <= NLog - 1
=============================================================================
