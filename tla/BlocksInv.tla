----------------------------- MODULE BlocksInv ------------------------------
(***************************************************************************)
(* What the blocks of files must keep, on the disk after every step.       *)
(***************************************************************************)
EXTENDS Blocks

Busy(f, places) == \E p \in Proc : at[p].file = f /\ at[p].pc \in places

\* Files whose removal has begun: until their inode is written the disk still
\* has its addresses, though the blocks may already be another file's.
Going == {f \in File : Busy(f, {"zero", "free"})}

Indirect(b) == IF b = None THEN {} ELSE {b} \X (0..NINDIRECT - 1)

\* The blocks of addresses in the tree of inode i.
Index(i) ==
    LET d == i.addrs[NDIRECT + 1]
    IN  ({i.addrs[NDIRECT], d} \cup {AddrAt(i, place) : place \in Indirect(d)}) \ {None}

\* The places with an address in that tree, for a file of any size.
Places(i) ==
    {place \in ({Self} \X (0..NDIRECT + 1)) \cup (Index(i) \X (0..NINDIRECT - 1)) :
         AddrAt(i, place) # None}

Blocks(i) == {AddrAt(i, place) : place \in Places(i)}

-----------------------------------------------------------------------------
(* The inductive invariant.  A block has one owner: a file, a process that *)
(* has just allocated it or is about to free it, or nobody who would ever  *)
(* free it (lost).                                                         *)

\* What is left of the inode i when itrunc() is done.
Stump(i) == [Blank EXCEPT !.addrs[NDIRECT + 1] = i.addrs[NDIRECT + 1]]

\* A file being removed owns what itrunc() leaves alone, and no more.
Root(f) == IF f \in Going THEN Stump(inode[f]) ELSE inode[f]

Tree(f) == Blocks(Root(f))

\* The positions itrunc() has still to come to.
ToCome(p) == {k \in at[p].bn..Len(at[p].todo) : at[p].todo[k] # None}

\* The blocks in the hands of a process.
Hand(p) ==
    IF at[p].pc = "assign" THEN {at[p].got}
    ELSE IF at[p].pc \in {"zero", "free"} THEN {at[p].todo[k] : k \in ToCome(p)}
    ELSE {}

Address == Block \cup {None}

Dinode == [size : Nat, addrs : [0..NDIRECT + 1 -> Address]]

\* Type invariant of the disk, of the inodes in memory and of the calls in progress.
TypeOK ==
    /\ kernel \in Kernel
    /\ marked \subseteq Block
    /\ content \in [Block -> [0..NINDIRECT - 1 -> Address \cup {-1}]]
    /\ dinode \in [File -> Dinode] /\ inode \in [File -> Dinode]
    /\ live \subseteq File
    /\ locked \in [File -> Proc \cup {Nobody}]
    /\ at \in [Proc -> [pc : {"user", "bmap", "assign", "grow", "zero", "free", "type"},
                        file : File \cup {Nobody}, bn : Nat, end : Nat, got : Address,
                        todo : Seq(Address \cup {-1})]]
    /\ calls \in Nat /\ overrun \in BOOLEAN

\* A process inside a call has the lock of its file, and nobody else has it.
Locking ==
    /\ \A p \in Proc : IF at[p].pc = "user" THEN at[p] = Idle
                       ELSE at[p].file \in live /\ locked[at[p].file] = p
    /\ \A f \in File : locked[f] # Nobody =>
           at[locked[f]].pc # "user" /\ at[locked[f]].file = f

\* Every block has one owner, and owners have marked blocks only.
Owners ==
    /\ \A f, g \in live : f # g => Tree(f) \cap Tree(g) = {}
    /\ \A p, q \in Proc : p # q => Hand(p) \cap Hand(q) = {}
    /\ \A f \in live, p \in Proc : Tree(f) \cap Hand(p) = {}
    /\ \A f \in live : Tree(f) \cap lost = {}
    /\ \A p \in Proc : Hand(p) \cap lost = {}
    /\ marked = lost \cup (UNION {Tree(f) : f \in live}) \cup UNION {Hand(p) : p \in Proc}

\* No block is in two places of the file f, and no word of its indirect blocks is data.
Once(f) ==
    \A s, t \in Places(Root(f)) :
        /\ AddrAt(Root(f), s) \in Block
        /\ AddrAt(Root(f), s) = AddrAt(Root(f), t) => s = t

\* The inode in memory is ahead of the disk only in addresses, and only while
\* its file is about to grow.
Behind(f) ==
    /\ inode[f].size = dinode[f].size /\ inode[f].size <= MAXFILE
    /\ \A k \in 0..NDIRECT + 1 : dinode[f].addrs[k] \in {None, inode[f].addrs[k]}
    /\ kernel = "xv6" => inode[f].addrs[NDIRECT + 1] = None
    /\ inode[f] # dinode[f] => \E p \in Proc : /\ at[p].file = f
                                               /\ at[p].pc \in {"bmap", "assign", "grow"}
                                               /\ at[p].end > inode[f].size

\* On the disk no block below the size is missing.
Full(f) == f \notin Going => \A bn \in 0..inode[f].size - 1 : Missing(dinode[f], bn) = {}

\* A write has all the blocks before the one it is at.
Writing(p) ==
    at[p].pc \in {"bmap", "assign", "grow"} =>
        /\ at[p].end <= MAXFILE
        /\ IF at[p].pc = "grow" THEN at[p].bn = at[p].end ELSE at[p].bn < at[p].end
        /\ \A bn \in 0..at[p].bn - 1 : Missing(inode[at[p].file], bn) = {}

\* A new block is empty, since it may become an indirect one, and there is
\* still a place for it.
Fresh(p) ==
    at[p].pc = "assign" =>
        /\ at[p].got # None /\ content[at[p].got] = Zero
        /\ Missing(inode[at[p].file], at[p].bn) # {}

\* itrunc() stands at an address, no block is before it twice, what it is
\* about to free is empty in "xv6", and in the end no address is left that it
\* has gone through.
Truncating(p) ==
    /\ at[p].todo \in Seq(Address)
    /\ at[p].pc \in {"zero", "free"} =>
           \A j, k \in ToCome(p) : at[p].todo[j] = at[p].todo[k] => j = k
    /\ at[p].pc = "zero" => at[p].bn \in ToCome(p) \/ at[p].bn > Len(at[p].todo)
    /\ at[p].pc = "free" => at[p].bn \in ToCome(p)
    /\ at[p].pc = "free" /\ kernel = "xv6" => content[ToGo(p)] = Zero
    /\ at[p].pc = "type" => inode[at[p].file] = Stump(inode[at[p].file])

FreeZero == kernel = "xv6" => lost = {} /\ \A b \in Free : content[b] = Zero

FileInv(f) == Once(f) /\ Behind(f) /\ Full(f)
CallInv(p) == Writing(p) /\ Fresh(p) /\ Truncating(p)

Intact ==
    /\ lost \subseteq Block
    /\ Locking /\ Owners /\ FreeZero
    /\ \A f \in live : FileInv(f)
    /\ \A p \in Proc : CallInv(p)

\* After balloc() has gone past the end of the disk only the types are left.
IInv == TypeOK /\ (overrun \/ Intact)

-----------------------------------------------------------------------------
(* What is asked of the blocks.  All of it ends when balloc() of "xv6" has  *)
(* handed out a block past the end of a full disk: what is written there   *)
(* is lost, and what is read are words of other blocks.                    *)

\* On the disk every block is in one place of one file, is marked in the
\* bitmap, and no byte below the size is without a block, so that a crash
\* between two steps of a write loses nothing but the new blocks.  Only
\* the addresses of a file being removed may lead astray; but what itrunc()
\* has still to free, like what balloc() has just found, is in no file.
DiskSafe ==
    ~overrun =>
        \A f \in live \ Going :
            LET i == dinode[f]
            IN  /\ Cardinality(Places(i)) = Cardinality(Blocks(i))
                /\ Blocks(i) \subseteq marked
                /\ \A bn \in 0..i.size - 1 : Missing(i, bn) = {}
                /\ \A g \in live \ (Going \cup {f}) : Blocks(i) \cap Blocks(dinode[g]) = {}
                /\ \A p \in Proc : Blocks(i) \cap Hand(p) = {}

\* In "xv6" a free block is all zeroes: balloc() does not clear the block that
\* becomes an indirect one.  And what bfree() is given is marked.
FreeIsZero ==
    ~overrun =>
        /\ kernel = "xv6" => \A b \in Disk \ marked : content[b] = Zero
        /\ \A p \in Proc : ~BfreePanic(p)

\* Between the calls the bitmap marks what the files use, and nothing else but
\* the doubly indirect blocks of files that "ex4" has removed.
NothingLeaks ==
    ~overrun =>
        /\ kernel = "xv6" => lost = {}
        /\ (\A p \in Proc : at[p] = Idle) =>
               marked \ lost = UNION {Blocks(dinode[f]) : f \in live}
=============================================================================
