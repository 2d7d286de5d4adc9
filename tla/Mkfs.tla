-------------------------------- MODULE Mkfs --------------------------------
(***************************************************************************)
(* tools/mkfs.c: an image is made from a tree of the host, a directory at  *)
(* a time, with blocks and inodes in the order they are needed.  It        *)
(* compares neither with the super block.  When the blocks are used up it  *)
(* stops, as it cannot read past the end of the image; when the inodes are *)
(* used up it goes on, into what comes after them on the disk.             *)
(***************************************************************************)
EXTENDS Image

CONSTANT
    PerBlock        \* directory entries in a block

ASSUME MkfsAssumption == PerBlock \in Nat \ {0, 1}

VARIABLE
    mk              \* freeblock, freeinode; the directories being added, the
                    \* innermost last, and the names they and a file will get

\* Every dinode is zeroed.
MkfsInit ==
    /\ img = [type |-> [i \in Ino |-> T_FREE], nlink |-> [i \in Ino |-> 0],
              addrs |-> [i \in Ino |-> [k \in 1..NDIRECT + 1 |-> None]],
              ind |-> [i \in Ino |-> [k \in 1..NINDIRECT |-> None]],
              ent |-> [i \in Ino |-> [e \in Entry |-> None]], marked |-> {}]
    /\ mk = [block |-> METABLOCKS, inode |-> ROOTINO, dirs |-> <<>>, names |-> <<>>, file |-> None]

NoMkfs == mk = [block |-> None]

Making == program = "mkfs" /\ UNCHANGED <<place, left, refs, verdict>>

\* ialloc(): inode number freeinode.
Ialloc(m, t) == [m EXCEPT !.type[mk.inode] = t, !.nlink[mk.inode] = 1]

Blocks(m, i) == Cardinality({k \in 1..NDIRECT : m.addrs[i][k] # None})
                + Cardinality({k \in 1..NINDIRECT : m.ind[i][k] # None})

Grown_Shared(m, i, free) ==
    LET n == Blocks(m, i)
    IN  IF n < NDIRECT
        THEN [img |-> [m EXCEPT !.addrs[i][n + 1] = free], block |-> free + 1]
        ELSE [img |-> [m EXCEPT !.addrs[i][NDIRECT + 1] = free,
                                !.ind[i][n - NDIRECT + 1] = free + 1], block |-> free + 2]

\* A count of blocks in use that mkfs does not get to.
Stopped == SIZE + 1

\* iappend() when a new block begins: block free goes to inode i, after one
\* for the indirect addresses if these begin too.  The assertion stops a
\* file that is too large.
Grown(m, i, free) ==
    LET n == Blocks(m, i)
    IN  CASE n < NDIRECT ->
               [img |-> [m EXCEPT !.addrs[i][n + 1] = free], block |-> free + 1]
          [] n = NDIRECT ->
               [img |-> [m EXCEPT !.addrs[i][NDIRECT + 1] = free,
                                  !.ind[i][1] = free + 1], block |-> free + 2]
          [] n \in NDIRECT + 1..NDIRECT + NINDIRECT - 1 ->
               [img |-> [m EXCEPT !.ind[i][n - NDIRECT + 1] = free], block |-> free + 1]
          [] OTHER -> [img |-> m, block |-> Stopped]

\* The rest of a step that has appended g to an inode: rsect() of a block
\* past the end of the image stops mkfs.
Went(g, next) ==
    \/ /\ g.block <= SIZE
       /\ img' = g.img /\ mk' = [next EXCEPT !.block = g.block]
       /\ UNCHANGED program
    \/ /\ g.block > SIZE
       /\ program' = "failed"
       /\ UNCHANGED <<img, mk>>

\* iappend() of the entry e, i to directory d.
Added(m, d, e, i, free) ==
    LET entries == Cardinality({x \in Entry : m.ent[d][x] # None})
        g == IF entries % PerBlock = 0 THEN Grown(m, d, free) ELSE [img |-> m, block |-> free]
    IN  [g EXCEPT !.img.ent[d][e] = i]

\* The beginning of add_dir(), up to readdir_r(), for a directory in parent.
WithDots(m, d, parent) ==
    LET g == Added(m, d, ".", d, mk.block)
    IN  Added(g.img, d, "..", parent, g.block)

AddRoot ==
    /\ Making
    /\ mk.inode = ROOTINO
    /\ Went(WithDots(Ialloc(img, T_DIR), ROOTINO, ROOTINO),
            [mk EXCEPT !.inode = @ + 1, !.dirs = <<ROOTINO>>])

\* An entry of the host that has not been added is a directory, for which
\* there still is an inode.
AddDir ==
    /\ Making
    /\ mk.dirs # <<>> /\ mk.file = None
    /\ mk.inode \in Ino
    /\ \E e \in Name :
           /\ img.ent[Last(mk.dirs)][e] = None
           /\ Went(WithDots(Ialloc(img, T_DIR), mk.inode, Last(mk.dirs)),
                   [mk EXCEPT !.inode = @ + 1, !.dirs = Append(@, mk.inode),
                              !.names = Append(@, e)])

\* It is a file, and there still is an inode.
AddFile ==
    /\ Making
    /\ mk.dirs # <<>> /\ mk.file = None
    /\ mk.inode \in Ino
    /\ \E e \in Name :
           /\ img.ent[Last(mk.dirs)][e] = None
           /\ mk' = [mk EXCEPT !.inode = @ + 1, !.file = mk.inode, !.names = Append(@, e)]
    /\ img' = Ialloc(img, T_FILE)
    /\ UNCHANGED program

\* There is none, and ialloc() does not look: the dinode goes into the rest of
\* the last block of the table, the next ones over the bitmap and the data.
\* What mkfs does from here on, and the bad image it may finish, are left out.
AddPast ==
    /\ Making
    /\ mk.dirs # <<>> /\ mk.file = None
    /\ mk.inode \notin Ino
    /\ \E e \in Name : img.ent[Last(mk.dirs)][e] = None
    /\ program' = "overran"
    /\ UNCHANGED <<img, mk>>

\* The next block of a file.
Append1 ==
    /\ Making
    /\ mk.file # None
    /\ Went(Grown(img, mk.file, mk.block), mk)

\* Its entry, when it has been read to the end.
EndFile ==
    /\ Making
    /\ mk.file # None
    /\ Went(Added(img, Last(mk.dirs), Last(mk.names), mk.file, mk.block),
            [mk EXCEPT !.file = None, !.names = Front(@)])

\* add_dir() returns, and its caller enters the directory in its own.
EndDir ==
    /\ Making
    /\ Len(mk.dirs) > 1 /\ mk.file = None
    /\ LET up == Front(mk.dirs)
       IN  Went(Added(img, Last(up), Last(mk.names), Last(mk.dirs), mk.block),
                [mk EXCEPT !.dirs = up, !.names = Front(@)])

\* add_dir() of the root returns; balloc() marks as many blocks as were used.
Balloc ==
    /\ program = "mkfs"
    /\ mk.dirs = <<ROOTINO>> /\ mk.file = None
    /\ img' = [img EXCEPT !.marked = METABLOCKS..mk.block - 1]
    /\ program' = "none"
    /\ mk' = [mk EXCEPT !.dirs = <<>>]
    /\ UNCHANGED <<place, left, refs, verdict>>

MkfsNext == AddRoot \/ AddDir \/ AddFile \/ AddPast \/ Append1 \/ EndFile \/ EndDir \/ Balloc
=============================================================================
