------------------------------ MODULE DiskInv -------------------------------
(***************************************************************************)
(* What the buffer cache and the IDE driver of Disk must keep.             *)
(***************************************************************************)
EXTENDS Disk

Place == {"user", "bget", "bsleep", "iderw", "iosleep", "iowoken", "lock", "brelse"}

Command == [op : {"none", "read", "write"}, sector : Sector \cup {Nobody},
            val : Value \cup {Nobody}, running : BOOLEAN, err : BOOLEAN]

\* Type invariant of the cache, the queue, the drive and the calls in progress.
TypeOK ==
    /\ kernel \in {"xv6", "ex4", "mem"}
    /\ sector \in [Buf -> Sector \cup {Nobody}]
    /\ busy \subseteq Buf /\ valid \subseteq Buf /\ dirty \subseteq Buf
    /\ data \in [Buf -> Value]
    /\ refcnt \in [Buf -> Nat]
    /\ mru \in [1..Cardinality(Buf) -> Buf] /\ IsInjective(mru)
    /\ idequeue \in Seq(Buf) /\ IsInjective(idequeue)
    /\ ctl \in Command
    /\ platter \in [Sector -> Value]
    /\ irq \in Nat /\ errors \in Nat /\ spurious \in Nat
    /\ pc \in [Proc -> Place]
    /\ want \in [Proc -> Sector \cup {Nobody}]
    /\ cur \in [Proc -> Buf \cup {Nobody}]
    /\ hold \in [Proc -> SUBSET Buf]

\* No sector is in two buffers, and a busy buffer is in the hands of one
\* process: bget() searches the whole list again after every sleep.  While the
\* processes cannot keep all the buffers, it never panics for want of one.
OneCopy ==
    /\ \A b, c \in Buf : b # c /\ sector[b] # Nobody => sector[b] # sector[c]
    /\ \A p, q \in Proc : p # q => hold[p] \cap hold[q] = {}
    /\ busy = UNION {hold[p] : p \in Proc}
    /\ Cardinality(Proc) * MaxHeld <= Cardinality(Buf) =>
           \A p \in Proc : ~BgetPanics(p)

\* What a sector holds once the drive has done what it was told.
Content(s) == IF ctl.running /\ ctl.op = "write" /\ ctl.sector = s
              THEN ctl.val ELSE platter[s]

\* No one sleeps in bget() for a buffer that is free, and no one in iderw()
\* for a transfer that is not queued: wakeup(b) reaches both kinds.
NoLostWakeup ==
    \A p \in Proc :
        /\ pc[p] = "bsleep" => cur[p] \in busy
        /\ pc[p] = "iosleep" => cur[p] \in ToSet(idequeue)

-----------------------------------------------------------------------------
(* The inductive invariant.                                                 *)

\* Where a call has looked for its buffer and where its transfer is on.
Asks == {"bget", "bsleep", "lock"}
Io   == {"iderw", "iosleep", "iowoken"}

\* The places each kernel has.
KernelInv ==
    /\ kernel = "xv6" => \A p \in Proc : pc[p] \notin {"lock", "brelse"}
    /\ kernel = "mem" =>
           /\ \A p \in Proc : pc[p] \notin {"iosleep", "iowoken"}
           /\ idequeue = <<>> /\ ~ctl.running

\* The buffers in the hands of processes; a buffer is dirty, or not yet valid,
\* only while its owner is in iderw() for it.
HoldInv ==
    /\ busy = UNION {hold[p] : p \in Proc}
    /\ \A p, q \in Proc : p # q => hold[p] \cap hold[q] = {}
    /\ \A p \in Proc : \A b \in hold[p] :
           /\ sector[b] # Nobody
           /\ b \in dirty \/ b \notin valid => cur[p] = b /\ pc[p] \in {"iderw", "iosleep"}
    /\ dirty \subseteq busy
    /\ \A p \in Proc :
           /\ pc[p] \in Io => cur[p] \in hold[p]
           /\ pc[p] \in {"iderw", "iosleep"} => cur[p] \in dirty \/ cur[p] \notin valid
           /\ pc[p] = "user" => cur[p] = Nobody
           /\ pc[p] \in {"bsleep", "lock", "brelse"} => cur[p] \in Buf
           /\ pc[p] \in Asks => want[p] \in Sector /\ \A b \in hold[p] : sector[b] # want[p]
           /\ pc[p] \in {"bsleep", "lock"} /\ kernel # "xv6" => sector[cur[p]] = want[p]
           /\ pc[p] = "brelse" => cur[p] \notin hold[p]

CacheInv ==
    /\ \A b, c \in Buf : b # c /\ sector[b] # Nobody => sector[b] # sector[c]
    /\ \A b \in valid : sector[b] # Nobody
    /\ dirty \subseteq valid

\* The processes b->refcnt of ex4 counts.
Refs(b) == {p \in Proc : \/ b \in hold[p]
                         \/ pc[p] \in {"lock", "bsleep", "brelse"} /\ cur[p] = b}

RefInv == kernel # "xv6" => \A b \in Buf : refcnt[b] = Cardinality(Refs(b))

\* No process has more buffers than it may.
Kept(p) == hold[p] \cup (IF pc[p] \in {"lock", "bsleep", "brelse"} /\ kernel # "xv6"
                         THEN {cur[p]} ELSE {})

HeldInv ==
    \A p \in Proc : /\ Cardinality(Kept(p)) <= MaxHeld
                    /\ pc[p] \in Asks => Cardinality(hold[p]) < MaxHeld

\* The queue holds the buffers of those who wait for it, and nobody waits
\* whose buffer is not there.
QueueInv == \A p \in Proc : pc[p] = "iosleep" => cur[p] \in ToSet(idequeue)

QueuedInv == \A b \in ToSet(idequeue) : \E p \in Proc : pc[p] = "iosleep" /\ cur[p] = b

SleepInv == \A p \in Proc : pc[p] = "bsleep" => cur[p] \in busy

\* What the drive was told last is what the head of the queue needs; a write
\* that a spurious interrupt ended early may still be on.
DriveInv ==
    /\ ctl.running => ctl.sector \in Sector /\ ctl.op \in {"read", "write"}
    /\ ctl.running /\ ctl.op = "write" => ctl.val \in Value
    /\ ctl.running /\ idequeue = <<>> => ctl.op = "write"
    /\ idequeue # <<>> =>
           LET b == Head(idequeue)
           IN  /\ ctl.sector = sector[b]
               /\ ctl.op = IF b \in dirty THEN "write" ELSE "read"
               /\ ctl.running /\ b \in dirty => ctl.val = data[b]
               /\ ~ctl.running /\ ~ctl.err =>
                      IF b \in dirty THEN platter[sector[b]] = data[b]
                      ELSE ctl.val = platter[sector[b]]
               /\ ~ctl.running /\ ~ctl.err /\ b \notin dirty => ctl.val \in Value
    /\ errors = 0 => ~ctl.err

\* A buffer that is valid and not being written has what its sector holds.
CleanInv ==
    errors = 0 => \A b \in valid \ dirty : data[b] = Content(sector[b])

IInv ==
    /\ TypeOK /\ KernelInv /\ HoldInv /\ CacheInv /\ RefInv /\ HeldInv
    /\ QueueInv /\ QueuedInv /\ SleepInv /\ DriveInv /\ CleanInv

-----------------------------------------------------------------------------
LeaseOf(s) ==
    IF \E p \in Proc, b \in Cached(s) :
           b \in hold[p] /\ (pc[p] = "user" \/ cur[p] # b \/ b \in valid)
    THEN LET p == CHOOSE p \in Proc : hold[p] \cap Cached(s) # {}
             b == CHOOSE b \in hold[p] : sector[b] = s
         IN  [by |-> p, sees |-> data[b], writing |-> b \in dirty]
    ELSE [by |-> Nobody, sees |-> Nobody, writing |-> FALSE]

Store == INSTANCE BlockStore WITH
    store <- [s \in Sector |-> Content(s)],
    lease <- [s \in Sector |-> LeaseOf(s)],
    healthy <- (errors = 0)

\* The cache and the driver are a store of sectors lent to one process at a
\* time, whatever is cached, recycled, queued or interrupted in between, until
\* a transfer fails.
AtomicSectors == Store!BSpec

-----------------------------------------------------------------------------
(* The drive finishes what it starts, its interrupt is taken, a process that *)
(* can run does, and acquire(&idelock), which tries again and again, gets a  *)
(* lock that is free again and again.                                        *)
Fairness ==
    /\ WF_vars(DriveDone) /\ WF_vars(Ideintr) /\ WF_vars(IdeintrSpurious)
    /\ \A p \in Proc :
           /\ SF_vars(Iderw(p))
           /\ WF_vars(IderwWoken(p)) /\ WF_vars(IderwMem(p))

LiveSpec == Spec /\ Fairness

\* Every transfer ends and its process goes on, spurious interrupts, failing
\* transfers and other sleepers on the same channel notwithstanding.
IoEnds ==
    \A p \in Proc : pc[p] \in {"iderw", "iosleep", "iowoken"} ~> pc[p] = "user"
=============================================================================
