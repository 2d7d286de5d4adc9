-------------------------------- MODULE Disk --------------------------------
(***************************************************************************)
(* The buffer cache of bio.c over the IDE driver of ide.c: processes bread,*)
(* bwrite and brelse sectors; the drive and its interrupt go at their own  *)
(* pace.  In src/xv6/kernel ("xv6") a buffer is owned by B_BUSY; in        *)
(* src/ex4/xv6 it has a count of references and a sleep lock, over the     *)
(* same driver ("ex4") or over the disk in memory of memide.c ("mem").     *)
(*                                                                         *)
(* What is done under bcache.lock, idelock or the spinlock of a sleep lock *)
(* is one step.  The flags of a buffer are written by its owner, or by     *)
(* ideintr() while its owner waits in iderw(), and by no one else.         *)
(***************************************************************************)
EXTENDS Integers, FiniteSets, Sequences, SequencesExt

CONSTANTS
    Kernel,         \* subset of {"xv6", "ex4", "mem"}
    Proc,
    Buf,            \* the NBUF buffers
    Sector,         \* sectors of disk 0, a set of naturals
    Value,          \* the contents a sector may have
    Nobody,         \* no process, no buffer, no sector
    MaxHeld,        \* bound: buffers a process keeps at a time
    Written,        \* bound: the sectors that are written to
    MaxFaults       \* bound: transfers that fail, interrupts the drive did not mean

ASSUME DiskAssumption ==
    /\ Kernel \subseteq {"xv6", "ex4", "mem"}
    /\ IsFiniteSet(Proc) /\ IsFiniteSet(Buf)
    /\ Value # {}
    /\ Nobody \notin Proc \cup Buf \cup Sector
    /\ MaxHeld \in Nat \ {0}
    /\ MaxFaults \in Nat

VARIABLES
    kernel,
    sector,         \* b->sector; Nobody while b->dev is -1
    busy,           \* buffers with B_BUSY, or whose sleep lock is locked
    valid, dirty,   \* buffers with B_VALID, B_DIRTY
    refcnt,         \* of each buffer, but in "xv6"
    data,           \* b->data
    mru,            \* bcache.head's list, the most recently used first
    idequeue,
    ctl,            \* the drive: its last command, its error bit
    platter,        \* what is on the disk
    irq,            \* interrupts on their way
    pc, want, cur,  \* of a call: where it stands, its sector, its buffer
    hold,           \* the buffers a process has from bread()
    errors, spurious

flagVars == <<busy, valid, dirty>>
cacheVars == <<sector, refcnt, mru>>
driveVars == <<ctl, platter>>
otherVars == <<kernel, errors, spurious>>     \* what no process changes
vars == <<flagVars, cacheVars, data, idequeue, driveVars, irq, pc, want, cur,
          hold, otherVars>>

Init ==
    /\ kernel \in Kernel
    /\ refcnt = [b \in Buf |-> 0]
    /\ sector = [b \in Buf |-> Nobody]
    /\ busy = {} /\ valid = {} /\ dirty = {}
    /\ data \in [Buf -> {CHOOSE v \in Value : TRUE}]
    /\ mru = SetToSeq(Buf)
    /\ idequeue = <<>>
    /\ platter \in [Sector -> {CHOOSE v \in Value : TRUE}]
    /\ ctl = [op |-> "none", sector |-> Nobody, val |-> Nobody,
              running |-> FALSE, err |-> FALSE]
    /\ irq = 0
    /\ pc = [p \in Proc |-> "user"]
    /\ want = [p \in Proc |-> Nobody]
    /\ cur = [p \in Proc |-> Nobody]
    /\ hold = [p \in Proc |-> {}]
    /\ errors = 0 /\ spurious = 0

Goes(p, place) == pc' = [pc EXCEPT ![p] = place]

\* The sleepers on the channels of b whose places are in some set go on.
Wakes(b, places) ==
    [q \in Proc |-> IF cur[q] # b \/ pc[q] \notin places THEN pc[q]
                    ELSE CASE pc[q] = "bsleep" -> IF kernel = "xv6" THEN "bget" ELSE "lock"
                           [] pc[q] = "iosleep" -> "iowoken"]

Woken_Bget(b, places) == Wakes(b, {"bsleep"})
Woken_Io(b, places) == Wakes(b, {"iosleep"})

\* wakeup().  In "xv6" sleepers of bget() and of iderw() share the channel.
Woken(b, places) == Wakes(b, IF kernel = "xv6" THEN {"bsleep", "iosleep"} ELSE places)

-----------------------------------------------------------------------------
(* bio.c *)

\* fs.c never asks for a sector whose buffer it has; for others it may, in any order.
BreadCall(p, s) ==
    /\ pc[p] = "user"
    /\ Cardinality(hold[p]) < MaxHeld
    /\ \A b \in hold[p] : sector[b] # s
    /\ want' = [want EXCEPT ![p] = s]
    /\ Goes(p, "bget")
    /\ UNCHANGED <<flagVars, cacheVars, data, idequeue, driveVars, irq, cur,
                   hold, otherVars>>

Cached_Free(s) == {b \in Buf : sector[b] = s /\ b \notin busy}

Cached(s) == {b \in Buf : sector[b] = s}

\* bread() returns b, or has it read first.
Bread(p, b) ==
    /\ hold' = [hold EXCEPT ![p] = @ \cup {b}]
    /\ want' = [want EXCEPT ![p] = Nobody]
    /\ IF b \in valid'
       THEN Goes(p, "user") /\ cur' = [cur EXCEPT ![p] = Nobody]
       ELSE Goes(p, "iderw") /\ cur' = [cur EXCEPT ![p] = b]

BgetHit(p) ==
    /\ kernel = "xv6" /\ pc[p] = "bget"
    /\ \E b \in Cached(want[p]) \ busy :
           /\ busy' = busy \cup {b}
           /\ UNCHANGED <<valid, dirty>>
           /\ Bread(p, b)
    /\ UNCHANGED <<cacheVars, data, idequeue, driveVars, irq, otherVars>>

BgetBusy(p) ==
    /\ kernel = "xv6" /\ pc[p] = "bget"
    /\ \E b \in Cached(want[p]) \cap busy : cur' = [cur EXCEPT ![p] = b]
    /\ Goes(p, "bsleep")
    /\ UNCHANGED <<flagVars, cacheVars, data, idequeue, driveVars, irq, want,
                   hold, otherVars>>

InUse(b) == IF kernel = "xv6" THEN b \in busy ELSE refcnt[b] > 0 \/ b \in dirty

\* b is the least recently used of the buffers that are not in use.
Recycled(b) ==
    /\ ~InUse(b)
    /\ \E n \in DOMAIN mru :
           mru[n] = b /\ \A m \in n + 1..Len(mru) : InUse(mru[m])

Recycle(b, s) ==
    /\ sector' = [sector EXCEPT ![b] = s]
    /\ valid' = valid \ {b}
    /\ dirty' = dirty \ {b}

BgetRecycle(p) ==
    /\ kernel = "xv6" /\ pc[p] = "bget"
    /\ Cached(want[p]) = {}
    /\ \E b \in Buf :
           /\ Recycled(b)
           /\ Recycle(b, want[p])
           /\ busy' = busy \cup {b}
           /\ Bread(p, b)
    /\ UNCHANGED <<mru, refcnt, data, idequeue, driveVars, irq, otherVars>>

\* panic("bget: no buffers"): the kernel stops here, and so does the model.
BgetPanics(p) ==
    /\ pc[p] = "bget"
    /\ Cached(want[p]) = {}
    /\ \A n \in DOMAIN mru : InUse(mru[n])

\* The caller changes the data and writes the buffer back.
BwriteCall(p, b, v) ==
    /\ pc[p] = "user"
    /\ b \in hold[p] /\ sector[b] \in Written
    /\ data' = [data EXCEPT ![b] = v]
    /\ dirty' = dirty \cup {b}
    /\ cur' = [cur EXCEPT ![p] = b]
    /\ Goes(p, "iderw")
    /\ UNCHANGED <<busy, valid, cacheVars, idequeue, driveVars, irq, want, hold,
                   otherVars>>

\* To the front of the list; those that were before b move up.
ToFront(b) ==
    \E n \in DOMAIN mru :
        /\ mru[n] = b
        /\ mru' = [k \in DOMAIN mru |-> IF k = 1 THEN b
                                       ELSE IF k <= n THEN mru[k - 1] ELSE mru[k]]

Brelse(p, b) ==
    /\ kernel = "xv6" /\ pc[p] = "user"
    /\ b \in hold[p]
    /\ ToFront(b)
    /\ busy' = busy \ {b}
    /\ pc' = Woken(b, {"bsleep"})
    /\ hold' = [hold EXCEPT ![p] = @ \ {b}]
    /\ UNCHANGED <<sector, refcnt, valid, dirty, data, idequeue, driveVars, irq, want,
                   cur, otherVars>>

-----------------------------------------------------------------------------
(* bio.c and sleeplock.c of ex4 *)

Ex4(p, place) == kernel # "xv6" /\ pc[p] = place

\* The reference keeps the buffer from being recycled while p waits for it.
Bget4Hit(p) ==
    /\ Ex4(p, "bget")
    /\ \E b \in Cached(want[p]) :
           /\ refcnt' = [refcnt EXCEPT ![b] = @ + 1]
           /\ cur' = [cur EXCEPT ![p] = b]
    /\ Goes(p, "lock")
    /\ UNCHANGED <<flagVars, sector, mru, data, idequeue, driveVars, irq, want,
                   hold, otherVars>>

Bget4Recycle(p) ==
    /\ Ex4(p, "bget")
    /\ Cached(want[p]) = {}
    /\ \E b \in Buf :
           /\ Recycled(b)
           /\ Recycle(b, want[p])
           /\ refcnt' = [refcnt EXCEPT ![b] = 1]
           /\ cur' = [cur EXCEPT ![p] = b]
    /\ Goes(p, "lock")
    /\ UNCHANGED <<busy, mru, data, idequeue, driveVars, irq, want, hold, otherVars>>

\* acquiresleep(): the lock is taken, or p sleeps and tests it again.
AcquireSleep(p) ==
    /\ Ex4(p, "lock") /\ cur[p] \notin busy
    /\ busy' = busy \cup {cur[p]}
    /\ UNCHANGED <<valid, dirty>>
    /\ Bread(p, cur[p])
    /\ UNCHANGED <<cacheVars, data, idequeue, driveVars, irq, otherVars>>

WaitSleep(p) ==
    /\ Ex4(p, "lock") /\ cur[p] \in busy
    /\ Goes(p, "bsleep")
    /\ UNCHANGED <<flagVars, cacheVars, data, idequeue, driveVars, irq, want, cur,
                   hold, otherVars>>

\* brelse() up to releasesleep().
ReleaseSleep(p, b) ==
    /\ Ex4(p, "user")
    /\ b \in hold[p]
    /\ busy' = busy \ {b}
    /\ pc' = [Woken(b, {"bsleep"}) EXCEPT ![p] = "brelse"]
    /\ cur' = [cur EXCEPT ![p] = b]
    /\ hold' = [hold EXCEPT ![p] = @ \ {b}]
    /\ UNCHANGED <<valid, dirty, cacheVars, data, idequeue, driveVars, irq, want,
                   otherVars>>

\* The rest of it.
Unreference(p) ==
    /\ Ex4(p, "brelse")
    /\ refcnt' = [refcnt EXCEPT ![cur[p]] = @ - 1]
    /\ IF refcnt'[cur[p]] = 0 THEN ToFront(cur[p]) ELSE UNCHANGED mru
    /\ cur' = [cur EXCEPT ![p] = Nobody]
    /\ Goes(p, "user")
    /\ UNCHANGED <<flagVars, sector, data, idequeue, driveVars, irq, want, hold,
                   otherVars>>

Bget(p) ==
    \/ BgetHit(p) \/ BgetBusy(p) \/ BgetRecycle(p)
    \/ Bget4Hit(p) \/ Bget4Recycle(p) \/ AcquireSleep(p) \/ WaitSleep(p)

-----------------------------------------------------------------------------
(* ide.c *)

\* idestart(): once the drive is ready it gets the command, with the data.
IdeStart(b) ==
    /\ ~ctl.running
    /\ ctl' = [op |-> IF b \in dirty THEN "write" ELSE "read",
               sector |-> sector[b],
               val |-> IF b \in dirty THEN data[b] ELSE Nobody,
               running |-> TRUE, err |-> FALSE]

\* iderw() up to its first sleep.
Iderw(p) ==
    /\ kernel # "mem" /\ pc[p] = "iderw"
    /\ idequeue' = Append(idequeue, cur[p])
    /\ IF idequeue = <<>> THEN IdeStart(cur[p]) ELSE UNCHANGED ctl
    /\ Goes(p, "iosleep")
    /\ UNCHANGED <<flagVars, cacheVars, data, platter, irq, want, cur, hold,
                   otherVars>>

Finished(b) == b \in valid /\ b \notin dirty

\* The test of the loop after a wakeup.
IderwWoken(p) ==
    /\ pc[p] = "iowoken"
    /\ IF Finished(cur[p])
       THEN Goes(p, "user") /\ cur' = [cur EXCEPT ![p] = Nobody]
       ELSE Goes(p, "iosleep") /\ UNCHANGED cur
    /\ UNCHANGED <<flagVars, cacheVars, data, idequeue, driveVars, irq, want,
                   hold, otherVars>>

\* An interrupt while nothing is queued.
IdeintrSpurious ==
    /\ irq > 0
    /\ idequeue = <<>>
    /\ irq' = irq - 1
    /\ UNCHANGED <<flagVars, cacheVars, data, idequeue, driveVars, pc, want, cur,
                   hold, otherVars>>

\* ideintr() starts the next request, if there is one.
StartNext ==
    IF idequeue' = <<>> THEN UNCHANGED ctl ELSE IdeStart(Head(idequeue'))

Fetch_Early(b) ==
    IF b \in dirty \/ ctl.running THEN UNCHANGED data
    ELSE data' = IF ctl.err THEN data ELSE [data EXCEPT ![b] = ctl.val]

\* A read waits for the drive and fetches the data unless it failed.
Fetch(b) ==
    IF b \in dirty THEN UNCHANGED data
    ELSE /\ ~ctl.running
         /\ data' = IF ctl.err THEN data ELSE [data EXCEPT ![b] = ctl.val]

Ideintr ==
    /\ irq > 0
    /\ idequeue # <<>>
    /\ irq' = irq - 1
    /\ idequeue' = Tail(idequeue)
    /\ LET b == Head(idequeue)
       IN  /\ Fetch(b)
           /\ valid' = valid \cup {b}
           /\ dirty' = dirty \ {b}
           /\ pc' = Woken(b, {"iosleep"})
    /\ StartNext
    /\ UNCHANGED <<busy, cacheVars, platter, want, cur, hold, otherVars>>

\* iderw() of memide.c, on a buffer that no one else looks at.
IderwMem(p) ==
    /\ kernel = "mem" /\ pc[p] = "iderw"
    /\ LET b == cur[p]
       IN  IF b \in dirty
           THEN platter' = [platter EXCEPT ![sector[b]] = data[b]] /\ UNCHANGED data
           ELSE data' = [data EXCEPT ![b] = platter[sector[b]]] /\ UNCHANGED platter
    /\ valid' = valid \cup {cur[p]} /\ dirty' = dirty \ {cur[p]}
    /\ cur' = [cur EXCEPT ![p] = Nobody]
    /\ Goes(p, "user")
    /\ UNCHANGED <<busy, cacheVars, idequeue, ctl, irq, want, hold, otherVars>>

-----------------------------------------------------------------------------
(* The drive *)

DriveDone ==
    /\ ctl.running
    /\ ctl' = [ctl EXCEPT !.running = FALSE,
                          !.val = IF ctl.op = "read" THEN platter[ctl.sector] ELSE Nobody]
    /\ platter' = IF ctl.op = "write" THEN [platter EXCEPT ![ctl.sector] = ctl.val]
                  ELSE platter
    /\ irq' = irq + 1
    /\ UNCHANGED <<flagVars, cacheVars, data, idequeue, pc, want, cur, hold,
                   otherVars>>

\* IDE_ERR: nothing was transferred.
DriveFails ==
    /\ ctl.running
    /\ errors + spurious < MaxFaults
    /\ errors' = errors + 1
    /\ ctl' = [ctl EXCEPT !.running = FALSE, !.val = Nobody, !.err = TRUE]
    /\ irq' = irq + 1
    /\ UNCHANGED <<flagVars, cacheVars, data, idequeue, platter, pc, want, cur,
                   hold, kernel, spurious>>

\* "Bochs generates spurious IDE1 interrupts": one more on this line.
DriveSpurious ==
    /\ kernel # "mem"
    /\ errors + spurious < MaxFaults
    /\ spurious' = spurious + 1
    /\ irq' = irq + 1
    /\ UNCHANGED <<flagVars, cacheVars, data, idequeue, driveVars, pc, want, cur,
                   hold, kernel, errors>>

-----------------------------------------------------------------------------
Client(p) ==
    \/ \E s \in Sector : BreadCall(p, s)
    \/ \E b \in hold[p], v \in Value : BwriteCall(p, b, v)
    \/ \E b \in hold[p] : Brelse(p, b) \/ ReleaseSleep(p, b)

Next ==
    \/ \E p \in Proc :
           \/ Client(p) \/ Bget(p) \/ Unreference(p)
           \/ Iderw(p) \/ IderwWoken(p) \/ IderwMem(p)
    \/ Ideintr \/ IdeintrSpurious
    \/ DriveDone \/ DriveFails \/ DriveSpurious

Spec == Init /\ [][Next]_vars
=============================================================================
