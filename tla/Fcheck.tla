------------------------------- MODULE Fcheck -------------------------------
(***************************************************************************)
(* The file system checker of temp.c: one pass over the inodes, each with  *)
(* its addresses and, if it is a directory, its entries; then the copies   *)
(* of the bitmaps, from which everything that was met has been cleared.    *)
(***************************************************************************)
EXTENDS Image

\* A fault of the k-th address of s, of which some blocks are met before.
Fault(s, k, range, blocks) ==
    IF s[k] = None THEN "none"
    ELSE IF s[k] \notin range THEN "bad address"
    ELSE IF s[k] \notin img.marked THEN "used but marked free"
    ELSE IF s[k] \notin blocks \/ \E m \in 1..k - 1 : s[m] = s[k] THEN "used more than once"
    ELSE "none"

FirstFault(s, range, blocks) ==
    LET Faults == {k \in 1..Len(s) : Fault(s, k, range, blocks) # "none"}
    IN  IF Faults = {} THEN "none" ELSE Fault(s, Min(Faults), range, blocks)

\* An indirect address may equal sb->size.
AddressFault(i) ==
    LET direct == FirstFault(Addrs(i), Data, left.blocks)
    IN  IF direct # "none" THEN direct
        ELSE FirstFault(Indirect(i), Data \cup {SIZE}, left.blocks \ ToSet(Addrs(i)))

\* What the entries of directory d clear.
Met(d) == {img.ent[d][e] : e \in Entry} \ {None}

DirTwice_Elsewhere(d, e) == img.ent[d][e] \notin left.inodes

\* The bit of the directory that e names was cleared before: by another
\* directory, by "." or ".." of this one or by another name in it.
DirTwice(d, e) ==
    \/ img.ent[d][e] \notin left.inodes
    \/ \E f \in Entry \ {e} : img.ent[d][f] = img.ent[d][e]

\* What checkdir() objects to in directory d; it stops at the first.
DirFaults(d) ==
    {"marked free" : e \in {e \in Entry : img.ent[d][e] \notin Allocated \cup {None}}}
    \cup {"not properly formatted" : e \in {e \in {"."} : img.ent[d][e] # d}}
    \cup {"not properly formatted" : e \in {e \in {".."} : img.ent[d][e] = None}}
    \cup {"no root directory" : e \in {e \in {".."} : d = ROOTINO /\ img.ent[d][e] # d}}
    \cup {"directory twice" : e \in {e \in Name : img.ent[d][e] \in Dirs /\ DirTwice(d, e)}}

Checkdir(d) ==
    /\ left' = [blocks |-> left.blocks \ ToSet(AllAddrs(d)), inodes |-> left.inodes \ Met(d)]
    /\ refs' = [i \in Ino |-> refs[i] + Cardinality(
                   {e \in Name : img.type[i] = T_FILE /\ img.ent[d][e] = i})]

BadInode ==
    /\ Runs("temp.c")
    /\ place \in Ino
    /\ \/ img.type[place] \notin T_FREE..T_DEV /\ Exit("bad inode")
       \/ /\ img.type[place] \in T_FREE..T_DEV
          /\ AddressFault(place) # "none"
          /\ Exit(AddressFault(place))
       \/ /\ img.type[place] \in T_FREE..T_DEV
          /\ AddressFault(place) = "none"
          /\ place = ROOTINO /\ img.type[place] # T_DIR
          /\ Exit("no root directory")

GoodInode(i) ==
    /\ img.type[i] \in T_FREE..T_DEV
    /\ AddressFault(i) = "none"
    /\ i = ROOTINO => img.type[i] = T_DIR

BadDir ==
    /\ Runs("temp.c")
    /\ place \in Dirs
    /\ GoodInode(place)
    /\ \E why \in DirFaults(place) : Exit(why)

\* The next inode.
Inode ==
    /\ Runs("temp.c")
    /\ place \in Ino
    /\ GoodInode(place)
    /\ IF place \in Dirs
       THEN DirFaults(place) = {} /\ Checkdir(place)
       ELSE /\ left' = [left EXCEPT !.blocks = @ \ ToSet(AllAddrs(place))]
            /\ UNCHANGED refs
    /\ place' = place + 1
    /\ UNCHANGED verdict

FinalFaults ==
    {"marked but not used" : b \in left.blocks \cap Data}
    \cup {"not found in a directory" : i \in left.inodes \cap Allocated}
    \cup {"bad reference count" :
              i \in {i \in Ino : img.type[i] = T_FILE /\ img.nlink[i] # refs[i]}}

\* After the last inode.
Bitmaps ==
    /\ Runs("temp.c")
    /\ place = NINODES + 1
    /\ IF FinalFaults = {} THEN Exit("ok") ELSE \E why \in FinalFaults : Exit(why)

FcheckStart == Start("temp.c", [blocks |-> img.marked, inodes |-> Allocated])

FcheckNext == FcheckStart \/ BadInode \/ BadDir \/ Inode \/ Bitmaps
=============================================================================
