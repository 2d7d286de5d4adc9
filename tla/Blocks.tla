------------------------------- MODULE Blocks -------------------------------
(***************************************************************************)
(* The blocks of files: balloc, bfree, bmap, itrunc and writei of fs.c, in *)
(* src/xv6/kernel ("xv6": indirect blocks, every write goes to the disk at *)
(* once) and in src/ex4/xv6 ("ex4": doubly indirect blocks as well, writes *)
(* grouped by the log).  A process works on a file whose inode it has      *)
(* locked; the bitmap is shared.  content and dinode are the disk, in      *)
(* which a crash of "xv6" stops between any two steps.                     *)
(***************************************************************************)
EXTENDS Integers, FiniteSets, FiniteSetsExt, SequencesExt

CONSTANTS
    Kernel,         \* subset of {"xv6", "ex4"}
    Proc, File,
    NBLOCKS,        \* data blocks of the disk
    NBITS,          \* bits of the bitmap from the first data block on
    NDIRECT, NINDIRECT,
    Sizes,          \* numbers of blocks written by a call
    MaxCalls,       \* bound: calls made in all
    Nobody

\* The blocks that have a bit, and those of them that the disk has: the bits
\* after these are zero like those of free blocks.
Block == 1..NBITS
Disk == 1..NBLOCKS
None == 0

ASSUME BlocksAssumption ==
    /\ Kernel \subseteq {"xv6", "ex4"}
    /\ NBLOCKS \in Nat /\ NBITS \in Nat /\ NBLOCKS <= NBITS
    /\ NDIRECT \in Nat \ {0} /\ NINDIRECT \in Nat \ {0}
    /\ Sizes \subseteq Nat \ {0}
    /\ MaxCalls \in Nat
    /\ Nobody \notin Proc \cup File

VARIABLES
    kernel,
    marked,         \* the bitmap
    content,        \* NINDIRECT words for each block: addresses or data
    dinode, inode,  \* the dinode on the disk and the inode in memory
    live,           \* files with type # 0
    locked,         \* who has I_BUSY of each inode
    at,             \* where each process is in its call; bn counts blocks, in itrunc() addresses
    calls,
    lost,           \* blocks of removed files that nothing will free
    overrun         \* whether balloc() has handed out a block past the end of the disk

diskVars == <<marked, content, dinode>>
vars == <<kernel, diskVars, inode, live, locked, at, calls, lost, overrun>>

\* The last two of addrs are the indirect and, in "ex4", the doubly indirect one.
Blank == [size |-> 0, addrs |-> [k \in 0..NDIRECT + 1 |-> None]]
Zero == [j \in 0..NINDIRECT - 1 |-> None]
Written == [j \in 0..NINDIRECT - 1 |-> -1]     \* a caller's data

\* The blocks of the largest file.  The MAXFILE of "ex4" is a sum without
\* parentheses, so in MAXFILE*BSIZE only its last term counts blocks.
MAXFILE == IF kernel = "ex4" THEN NINDIRECT * NINDIRECT ELSE NDIRECT + NINDIRECT

Idle == [pc |-> "user", file |-> Nobody, bn |-> 0, end |-> 0, got |-> None, todo |-> <<>>]

Init ==
    /\ kernel \in Kernel
    /\ marked = {}
    /\ content = [b \in Block |-> Zero]
    /\ dinode = [f \in File |-> Blank] /\ inode = dinode
    /\ live = {}
    /\ locked = [f \in File |-> Nobody]
    /\ at = [p \in Proc |-> Idle]
    /\ calls = 0
    /\ lost = {}
    /\ overrun = FALSE

At(p, place) == at[p].pc = place
Goes(p, place) == at' = [at EXCEPT ![p].pc = place]

Begins(p, f) ==
    /\ At(p, "user") /\ calls < MaxCalls
    /\ locked[f] = Nobody
    /\ locked' = [locked EXCEPT ![f] = p]
    /\ calls' = calls + 1

\* iunlock(); return
Returns(p) ==
    /\ locked' = [locked EXCEPT ![at[p].file] = Nobody]
    /\ at' = [at EXCEPT ![p] = Idle]

-----------------------------------------------------------------------------
(* bmap() *)

\* A place an address is kept: <<holder, index>>, the holder being a block or
\* the inode; a place whose holder is missing holds nothing.
Self == -1

AddrAt(i, place) ==
    IF place[1] = Self THEN i.addrs[place[2]]
    ELSE IF place[1] = None THEN None
    ELSE content[place[1]][place[2]]

\* The places on the way to the bn-th block of inode i, the block's own last.
PathTo(i, bn) ==
    LET n1 == bn - NDIRECT
        n2 == n1 - NINDIRECT
        first == <<i.addrs[NDIRECT + 1], n2 \div NINDIRECT>>
    IN  IF n1 < 0 THEN <<<<Self, bn>>>>
        ELSE IF n2 < 0 THEN <<<<Self, NDIRECT>>, <<i.addrs[NDIRECT], n1>>>>
        ELSE <<<<Self, NDIRECT + 1>>, first, <<AddrAt(i, first), n2 % NINDIRECT>>>>

\* The steps of that way at which there is no address yet.
Missing(i, bn) == {k \in DOMAIN PathTo(i, bn) : AddrAt(i, PathTo(i, bn)[k]) = None}
FirstMissing(i, bn) == PathTo(i, bn)[Min(Missing(i, bn))]
BlockOf(i, bn) == AddrAt(i, Last(PathTo(i, bn)))

\* balloc() of "ex4" looks at the bits of the disk, that of "xv6" at all there are.
Free == (IF kernel = "ex4" THEN Disk ELSE Block) \ marked

Balloc_Unwritten(p) ==
    /\ At(p, "bmap")
    /\ LET f == at[p].file
       IN  Missing(inode[f], at[p].bn) # {}
    /\ Free # {}
    /\ content' = IF kernel = "ex4" THEN [content EXCEPT ![Min(Free)] = Zero] ELSE content
    /\ at' = [at EXCEPT ![p].pc = "assign", ![p].got = Min(Free)]
    /\ overrun' = (overrun \/ Min(Free) \notin Disk)
    /\ UNCHANGED <<kernel, marked, dinode, inode, live, locked, calls, lost>>

\* balloc(): the first free block; "ex4" zeroes it, "xv6" has it zeroed already.
\* When the disk is full "ex4" panics, and p stays where it is here; "xv6" goes
\* on past its end, and panics after the last bit.
Balloc(p) ==
    /\ At(p, "bmap")
    /\ LET f == at[p].file
       IN  Missing(inode[f], at[p].bn) # {}
    /\ Free # {}
    /\ marked' = marked \cup {Min(Free)}
    /\ content' = IF kernel = "ex4" THEN [content EXCEPT ![Min(Free)] = Zero] ELSE content
    /\ at' = [at EXCEPT ![p].pc = "assign", ![p].got = Min(Free)]
    /\ overrun' = (overrun \/ Min(Free) \notin Disk)
    /\ UNCHANGED <<kernel, dinode, inode, live, locked, calls, lost>>

\* The drive refuses what is past its end, and ideintr() then leaves the buffer as
\* it is: with what was written, until bget() takes it for another block, and
\* after that with what was there of other blocks.
Recycled(b) ==
    /\ overrun /\ b \notin Disk
    /\ \E c \in Block : content' = [content EXCEPT ![b] = content[c]]
    /\ UNCHANGED <<kernel, marked, dinode, inode, live, locked, at, calls, lost, overrun>>

\* The new address goes into the inode in memory or the indirect block on disk.
Assign(p) ==
    /\ At(p, "assign")
    /\ LET f == at[p].file
           place == FirstMissing(inode[f], at[p].bn)
       IN  IF place[1] = Self
           THEN /\ inode' = [inode EXCEPT ![f].addrs[place[2]] = at[p].got]
                /\ UNCHANGED content
           ELSE /\ content' = [content EXCEPT ![place[1]][place[2]] = at[p].got]
                /\ UNCHANGED inode
    /\ Goes(p, "bmap")
    /\ UNCHANGED <<kernel, marked, dinode, live, locked, calls, lost, overrun>>

-----------------------------------------------------------------------------
(* writei() *)

\* ialloc() has cleared the dinode.
Create(f) ==
    /\ f \notin live /\ locked[f] = Nobody
    /\ live' = live \cup {f}
    /\ dinode' = [dinode EXCEPT ![f] = Blank]
    /\ inode' = [inode EXCEPT ![f] = Blank]
    /\ UNCHANGED <<kernel, marked, content, locked, at, calls, lost, overrun>>

\* n blocks from block off on; "ex4" refuses what "xv6" cuts off, down to nothing
\* at the end of a file that can grow no more.
Write(p, f, off, n) ==
    /\ Begins(p, f)
    /\ f \in live /\ off <= inode[f].size
    /\ kernel = "ex4" => off + n <= MAXFILE
    /\ LET end == Min({off + n, MAXFILE})
       IN  at' = [at EXCEPT ![p] = [Idle EXCEPT !.pc = IF off < end THEN "bmap" ELSE "grow",
                                               !.file = f, !.bn = off, !.end = end]]
    /\ UNCHANGED <<kernel, diskVars, inode, live, lost, overrun>>

WriteBlock(p) ==
    /\ At(p, "bmap")
    /\ LET i == inode[at[p].file]
       IN  /\ Missing(i, at[p].bn) = {}
           /\ content' = [content EXCEPT ![BlockOf(i, at[p].bn)] = Written]
    /\ at' = [at EXCEPT ![p].bn = @ + 1, ![p].pc = IF at[p].bn + 1 = at[p].end THEN "grow" ELSE @]
    /\ UNCHANGED <<kernel, marked, dinode, inode, live, locked, calls, lost, overrun>>

\* The new size, and with it the new addresses, go to the disk last.
Grow(p) ==
    /\ At(p, "grow")
    /\ LET f == at[p].file
       IN  IF at[p].end > inode[f].size
           THEN /\ inode' = [inode EXCEPT ![f].size = at[p].end]
                /\ dinode' = [dinode EXCEPT ![f] = inode'[f]]
           ELSE UNCHANGED <<inode, dinode>>
    /\ Returns(p)
    /\ UNCHANGED <<kernel, marked, content, live, calls, lost, overrun>>

-----------------------------------------------------------------------------
(* itrunc(), of a file without names and references *)

Held(b) == IF b = None THEN <<>> ELSE [j \in 1..NINDIRECT |-> content[b][j - 1]]

Direct(i) == [k \in 1..NDIRECT |-> i.addrs[k - 1]]

ToFree_NoIndirect(i) == Direct(i) \o Held(i.addrs[NDIRECT])

\* The addresses itrunc() goes through, in order: none of the doubly indirect ones.
ToFree(i) == Direct(i) \o Held(i.addrs[NDIRECT]) \o <<i.addrs[NDIRECT]>>

\* It passes over those that are zero.
NextUsed(s, k) == Min({j \in k..Len(s) : s[j] # None} \cup {Len(s) + 1})

\* What only the doubly indirect address of i leads to.
Doubly(i) ==
    LET d == i.addrs[NDIRECT + 1]
        second == ToSet(Held(d)) \ {None}
    IN  ({d} \cup second \cup UNION {ToSet(Held(b)) : b \in second}) \ {None}

\* The block p frees next.
ToGo(p) == at[p].todo[at[p].bn]

Iput(p, f) ==
    /\ Begins(p, f)
    /\ f \in live
    /\ at' = [at EXCEPT ![p] = [Idle EXCEPT !.pc = "zero", !.file = f,
                                           !.bn = NextUsed(ToFree(inode[f]), 1),
                                           !.todo = ToFree(inode[f])]]
    /\ UNCHANGED <<kernel, diskVars, inode, live, lost, overrun>>

Zeroes_Not(p) ==
    /\ At(p, "zero") /\ at[p].bn <= Len(at[p].todo)
    /\ Goes(p, "free")
    /\ UNCHANGED <<kernel, diskVars, inode, live, locked, calls, lost, overrun>>

\* bfree() of "xv6" zeroes the block before it marks it free.
Zeroes(p) ==
    /\ At(p, "zero") /\ at[p].bn <= Len(at[p].todo)
    /\ content' = IF kernel = "xv6" THEN [content EXCEPT ![ToGo(p)] = Zero]
                  ELSE content
    /\ Goes(p, "free")
    /\ UNCHANGED <<kernel, marked, dinode, inode, live, locked, calls, lost, overrun>>

\* panic("freeing free block")
BfreePanic(p) == At(p, "free") /\ ToGo(p) \notin marked

Bfree(p) ==
    /\ At(p, "free")
    /\ ~BfreePanic(p)
    /\ marked' = marked \ {ToGo(p)}
    /\ at' = [at EXCEPT ![p].pc = "zero", ![p].bn = NextUsed(at[p].todo, @ + 1)]
    /\ UNCHANGED <<kernel, content, dinode, inode, live, locked, calls, lost, overrun>>

\* size = 0; iupdate()
Truncated(p) ==
    /\ At(p, "zero") /\ at[p].bn > Len(at[p].todo)
    /\ LET f == at[p].file
       IN  /\ inode' = [inode EXCEPT ![f] =
                           [Blank EXCEPT !.addrs[NDIRECT + 1] = inode[f].addrs[NDIRECT + 1]]]
           /\ dinode' = [dinode EXCEPT ![f] = inode'[f]]
    /\ Goes(p, "type")
    /\ UNCHANGED <<kernel, marked, content, live, locked, calls, lost, overrun>>

\* type = 0; iupdate()
Removed(p) ==
    /\ At(p, "type")
    /\ live' = live \ {at[p].file}
    /\ lost' = lost \cup Doubly(inode[at[p].file])
    /\ Returns(p)
    /\ UNCHANGED <<kernel, diskVars, inode, calls, overrun>>

-----------------------------------------------------------------------------
Next ==
    \/ \E f \in File : Create(f)
    \/ \E p \in Proc :
           \/ \E f \in File :
                  \/ \E n \in Sizes, off \in {0, inode[f].size} : Write(p, f, off, n)
                  \/ Iput(p, f)
           \/ Balloc(p) \/ Assign(p) \/ WriteBlock(p) \/ Grow(p)
           \/ Zeroes(p) \/ Bfree(p) \/ Truncated(p) \/ Removed(p)
    \/ \E b \in Block : Recycled(b)

Spec == Init /\ [][Next]_vars
=============================================================================
