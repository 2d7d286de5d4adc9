---------------------------- MODULE FcheckersInv ----------------------------
(***************************************************************************)
(* The inductive invariant of Fcheckers: how mkfs fills an image, and what *)
(* each checker knows of the part of an image it has gone over.            *)
(***************************************************************************)
EXTENDS Fcheckers

(* mkfs.c *)

\* Where image m keeps an address: the indirect ones come after the inode's.
Place == Ino \X (1..NDIRECT + 1 + NINDIRECT)
Kept(m, s) ==
    IF s[2] <= NDIRECT + 1 THEN m.addrs[s[1]][s[2]] ELSE m.ind[s[1]][s[2] - (NDIRECT + 1)]

\* Inode i of m has n blocks, in the order of their addresses.
HasBlocks(m, i, n) ==
    /\ \A k \in 1..NDIRECT : m.addrs[i][k] # None <=> k <= n
    /\ m.addrs[i][NDIRECT + 1] # None <=> n > NDIRECT
    /\ \A k \in 1..NINDIRECT : m.ind[i][k] # None <=> NDIRECT + k <= n

InOrder(m) == \A i \in Ino : \E n \in 0..NDIRECT + NINDIRECT : HasBlocks(m, i, n)

\* The blocks before b have been handed out, each to one place.
EachOnce(m, b) ==
    /\ \A s \in Place : Kept(m, s) \in {None} \cup METABLOCKS..b - 1
    /\ \A s, t \in Place : Kept(m, s) = Kept(m, t) => s = t \/ Kept(m, s) = None
    /\ \A a \in METABLOCKS..b - 1 : \E s \in Place : Kept(m, s) = a

MkType ==
    /\ mk \in [block : METABLOCKS..SIZE, inode : 1..NINODES + 1, dirs : Seq(Ino),
               names : Seq(Name), file : Ino \cup {None}]
    /\ img \in Format /\ img.marked = {}

\* The inodes before mk.inode are taken, the others as mkfs found them.
Taken ==
    /\ \A i \in Ino : IF i < mk.inode
           THEN img.type[i] \in {T_DIR, T_FILE} /\ img.nlink[i] = 1
           ELSE img.type[i] = T_FREE
    /\ \A i \in Ino : i \notin Dirs => \A e \in Entry : img.ent[i][e] = None
    /\ \A d \in Dirs : img.ent[d]["."] = d /\ img.ent[d][".."] \in Dirs /\ img.addrs[d][1] # None

\* The directories being added, each in the one before it, from the root on.
Stack ==
    /\ mk.inode = ROOTINO => mk.dirs = <<>>
    /\ mk.inode # ROOTINO =>
           /\ mk.dirs # <<>> /\ mk.dirs[1] = ROOTINO
           /\ ROOTINO \in Dirs /\ img.ent[ROOTINO][".."] = ROOTINO
    /\ \A k \in 1..Len(mk.dirs) : mk.dirs[k] \in Dirs
    /\ \A k, l \in 1..Len(mk.dirs) : k < l => mk.dirs[k] < mk.dirs[l]
    /\ \A k \in 1..Len(mk.dirs) - 1 : img.ent[mk.dirs[k + 1]][".."] = mk.dirs[k]
    /\ mk.file # None =>
           /\ img.type[mk.file] = T_FILE /\ mk.dirs # <<>>
           /\ \A k \in 1..Len(mk.dirs) : mk.dirs[k] < mk.file

\* What has no name yet, and the names it will get.
Open(i) == i = mk.file \/ \E k \in 1..Len(mk.dirs) : mk.dirs[k] = i
Naming ==
    /\ mk.dirs = <<>> => mk.names = <<>>
    /\ mk.dirs # <<>> => Len(mk.names) = IF mk.file = None THEN Len(mk.dirs) - 1 ELSE Len(mk.dirs)
    /\ \A k \in 1..Len(mk.names) : img.ent[mk.dirs[k]][mk.names[k]] = None

\* Names are given once, after the inode has been taken, by its directory.
Given ==
    /\ \A d \in Dirs, e \in Name : img.ent[d][e] # None =>
           /\ d < img.ent[d][e] /\ img.ent[d][e] < mk.inode
           /\ ~Open(img.ent[d][e])
           /\ img.ent[d][e] \in Dirs => img.ent[img.ent[d][e]][".."] = d
    /\ \A d, c \in Dirs, e, f \in Name :
           img.ent[d][e] # None /\ img.ent[d][e] = img.ent[c][f] => d = c /\ e = f
    /\ \A i \in Ino : i < mk.inode /\ ~Open(i) => \E d \in Dirs, e \in Name : img.ent[d][e] = i

MkfsInv ==
    program = "mkfs" =>
        /\ MkType /\ InOrder(img) /\ EachOnce(img, mk.block) /\ Taken /\ Stack /\ Naming /\ Given

-----------------------------------------------------------------------------
(* What the checkers are given. *)

Programs == {"none", "mkfs", "failed", "overran", "temp.c", "P4/fcheck.c", "fcheck.c"}
StartInv ==
    /\ program \in Programs
    /\ program \in {"none", "mkfs", "failed", "overran"} => place = 1 /\ left = <<>> /\ refs = <<>> /\ verdict = "none"

ImgInv ==
    program \notin {"mkfs", "failed", "overran"} =>
        /\ img \in Format
        /\ \A d \in Dirs : img.addrs[d][1] \in Data
        /\ ~NoMkfs => Checked /\ FilesFound /\ DirsFound /\ ParentsMatch /\ Downwards

-----------------------------------------------------------------------------
(* temp.c *)

\* The k-th address of inode i is good, in terms of the image alone.
GoodAddress(i, k) ==
    AllAddrs(i)[k] # None =>
        /\ AllAddrs(i)[k] \in Data \/ (k > NDIRECT + 1 /\ AllAddrs(i)[k] = SIZE)
        /\ AllAddrs(i)[k] \in img.marked
        /\ \A s \in Slots : AddrIn(s) = AllAddrs(i)[k] => ~Before(s, <<i, k>>)

\* So are inode i and directory d.
Passed(i) ==
    /\ img.type[i] \in T_FREE..T_DEV
    /\ i = ROOTINO => img.type[i] = T_DIR
    /\ \A k \in 1..Len(AllAddrs(i)) : GoodAddress(i, k)

PassedDir(d) ==
    /\ \A e \in Entry : img.ent[d][e] \in Allocated \cup {None}
    /\ img.ent[d]["."] = d /\ img.ent[d][".."] # None
    /\ d = ROOTINO => img.ent[d][".."] = d
    /\ \A e \in Name : img.ent[d][e] \in Dirs =>
           /\ \A f \in Entry \ {e} : img.ent[d][f] # img.ent[d][e]
           /\ \A c \in Dirs, f \in Entry : c < d => img.ent[c][f] # img.ent[d][e]

\* What is left of the bitmaps, and the names of i that have been counted,
\* when temp.c comes to inode n.
LeftBlocks(n) == {b \in img.marked : \A j \in Ino : j < n => b \notin ToSet(AllAddrs(j))}
LeftInodes(n) == {i \in Allocated : \A d \in Dirs : d < n => i \notin Met(d)}
Counted(i, n) == {x \in NamesOf(i) : img.type[i] = T_FILE /\ x[1] < n}

WhyExit ==
    \/ place \in Ino /\ img.type[place] \notin T_FREE..T_DEV /\ verdict = "bad inode"
    \/ place \in Ino /\ AddressFault(place) # "none" /\ verdict = AddressFault(place)
    \/ place = ROOTINO /\ img.type[place] # T_DIR /\ verdict = "no root directory"
    \/ place \in Dirs /\ GoodInode(place) /\ verdict \in DirFaults(place)
    \/ place = NINODES + 1 /\ FinalFaults = {} /\ verdict = "ok"
    \/ place = NINODES + 1 /\ verdict \in FinalFaults

FcheckInv ==
    program = "temp.c" =>
        /\ place \in 1..NINODES + 1
        /\ left = [blocks |-> LeftBlocks(place), inodes |-> LeftInodes(place)]
        /\ refs = [i \in Ino |-> Cardinality(Counted(i, place))]
        /\ \A i \in Ino : i < place => Passed(i)
        /\ \A d \in Dirs : d < place => PassedDir(d)
        /\ verdict # "none" => WhyExit

-----------------------------------------------------------------------------
(* P4/fcheck.c and fcheck.c *)

P4Inv ==
    program = "P4/fcheck.c" =>
        /\ place \in {1, 2, 4, 5, 6, 8} /\ verdict # "ok"
        /\ place > 4 => ROOTINO \in Dirs
        /\ place > 5 => \A s \in Slots : ~MarkedFree(s)
        /\ left = [blocks |-> IF place > 5 THEN img.marked \ Used ELSE img.marked, inodes |-> {}]
        /\ place = 8 => left.blocks \cap Data = {}

FirstInv == program = "fcheck.c" => place \in {1, 2, 4, 5, 7} /\ verdict # "ok"

IInv == StartInv /\ MkfsInv /\ ImgInv /\ FcheckInv /\ P4Inv /\ FirstInv
=============================================================================
