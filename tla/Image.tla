------------------------------- MODULE Image --------------------------------
(***************************************************************************)
(* A file system image as the checkers of Project4 read it (fs.h): the     *)
(* dinodes, their indirect blocks, the block bitmap and the directories,   *)
(* and what makes an image consistent.                                     *)
(*                                                                         *)
(* Inode 0 is free in every image.  A directory's "." and ".." come first  *)
(* in it, where mkfs and create() put them.                                *)
(***************************************************************************)
EXTENDS Integers, FiniteSets, FiniteSetsExt, SequencesExt

CONSTANTS
    NINODES,        \* sb->ninodes, without inode 0
    NDIRECT,
    NINDIRECT,
    METABLOCKS,     \* the first block the bitmap is checked for
    SIZE,           \* sb->size
    Name            \* names but "." and ".."

ASSUME ImageAssumption ==
    /\ NINODES \in Nat \ {0}
    /\ NDIRECT \in Nat \ {0} /\ NINDIRECT \in Nat \ {0}
    /\ METABLOCKS \in Nat \ {0} /\ SIZE \in Nat /\ METABLOCKS < SIZE
    /\ IsFiniteSet(Name) /\ Name \cap {".", ".."} = {}

Ino == 1..NINODES
ROOTINO == 1
None == 0
Entry == Name \cup {".", ".."}
Data == METABLOCKS..SIZE - 1

\* dinode.type; a fifth value stands for all the bad ones.
T_FREE == 0
T_DIR == 1
T_FILE == 2
T_DEV == 3

\* type, nlink and addrs of the dinodes, ind what the indirect block of an
\* inode holds, ent the entries of the directories, marked the block bitmap.
Format ==
    [type : [Ino -> Nat], nlink : [Ino -> Nat],
     addrs : [Ino -> [1..NDIRECT + 1 -> Nat]], ind : [Ino -> [1..NINDIRECT -> Nat]],
     ent : [Ino -> [Entry -> Ino \cup {None}]], marked : SUBSET Nat]

VARIABLES
    program,        \* the checker that is run; "none" before
    img,            \* the image
    place,          \* the inode or the check that comes next
    left,           \* what the copies of the bitmaps still have
    refs,           \* the names counted for each inode
    verdict         \* "none" until the checker exits

vars == <<program, img, place, left, refs, verdict>>

Unchecked == program = "none" /\ place = 1 /\ left = <<>> /\ refs = <<>> /\ verdict = "none"

\* Checker p begins, with copies of the bitmaps.
Start(p, copies) ==
    /\ program = "none"
    /\ program' = p
    /\ left' = copies
    /\ refs' = [i \in Ino |-> 0]
    /\ UNCHANGED <<img, place, verdict>>

\* A step of checker p, which has not exited.
Runs(p) == program = p /\ verdict = "none" /\ UNCHANGED <<program, img>>

\* printf(why); exit(1), or exit(0) if why is "ok".
Exit(why) == verdict' = why /\ UNCHANGED <<place, left, refs>>

-----------------------------------------------------------------------------
Addrs(i) == img.addrs[i]

\* The contents of the indirect block, where there is one.
Indirect(i) == IF Addrs(i)[NDIRECT + 1] = None THEN <<>> ELSE img.ind[i]

\* All addresses an inode holds.
AllAddrs(i) == Addrs(i) \o Indirect(i)

Allocated == {i \in Ino : img.type[i] # T_FREE}
Dirs == {i \in Ino : img.type[i] = T_DIR}

\* Every place an address is kept.
AddrIn(s) == AllAddrs(s[1])[s[2]]
Slots == {s \in Ino \X (1..NDIRECT + 1 + NINDIRECT) :
             s[2] <= Len(AllAddrs(s[1])) /\ AddrIn(s) # None}
Used == {AddrIn(s) : s \in Slots}

NamesOf(i) == {n \in Dirs \X Name : img.ent[n[1]][n[2]] = i}
Named == {i \in Ino : NamesOf(i) # {}}

-----------------------------------------------------------------------------
(* What makes an image good, one part for each kind of image that the      *)
(* README of Project4 lists as bad.                                        *)

GoodTypes == \A i \in Ino : img.type[i] \in {T_FREE, T_DIR, T_FILE, T_DEV}
GoodRoot ==
    img.type[ROOTINO] = T_DIR /\ img.ent[ROOTINO][".."] = ROOTINO
GoodDots ==
    \A d \in Dirs : img.ent[d]["."] = d /\ img.ent[d][".."] # None
GoodRange == Used \subseteq Data
UsedOnce == \A s, t \in Slots : AddrIn(s) = AddrIn(t) => s = t
GoodBitmap == Used \cap Data = img.marked \cap Data
NamesAllocated ==
    \A d \in Dirs, e \in Entry : img.ent[d][e] \in Allocated \cup {None}
OnceNamed == \A d \in Dirs : Cardinality(NamesOf(d)) <= IF d = ROOTINO THEN 0 ELSE 1
GoodLinks ==
    \A i \in Ino : img.type[i] = T_FILE => img.nlink[i] = Cardinality(NamesOf(i))
FilesFound == Allocated \ Dirs \subseteq Named
FilesReferred ==
    \A i \in Allocated \ Dirs : \E d \in Dirs, e \in Entry : img.ent[d][e] = i
DirsFound == Dirs \subseteq Named \cup {ROOTINO}
ParentsMatch ==
    \A d \in Dirs, e \in Name :
        img.ent[d][e] \in Dirs => img.ent[img.ent[d][e]][".."] = d
=============================================================================
