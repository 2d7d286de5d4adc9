------------------------------ MODULE Fcheckers -----------------------------
(***************************************************************************)
(* The three file system checkers, each run on every image of a set and on *)
(* every image that mkfs makes, and what their verdicts are worth.         *)
(***************************************************************************)
EXTENDS Fcheck, FcheckPasses, Mkfs

CONSTANTS Kinds, Images(_)      \* images, by kind

\* Directories have a block of their own to be read from.
ASSUME ImagesAssumption ==
    \A k \in Kinds : \A m \in Images(k) :
        /\ m \in Format
        /\ \A i \in Ino : m.type[i] = T_DIR => m.addrs[i][1] \in Data

Init ==
    \/ /\ \E k \in Kinds : img \in Images(k)
       /\ Unchecked /\ NoMkfs
    \/ /\ MkfsInit
       /\ program = "mkfs" /\ place = 1 /\ left = <<>> /\ refs = <<>> /\ verdict = "none"

Next ==
    \/ FcheckNext /\ UNCHANGED mk
    \/ P4Next /\ UNCHANGED mk
    \/ FirstNext /\ UNCHANGED mk
    \/ MkfsNext

Spec == Init /\ [][Next]_<<vars, mk>>

-----------------------------------------------------------------------------
\* What temp.c makes sure of.  A good image has FilesFound, DirsFound and
\* ParentsMatch as well: temp.c has a test for inodes in use without a name, and
\* the README of P4 lists images with such inodes, or a wrong "..", as bad.
Checked ==
    /\ GoodTypes /\ GoodRoot /\ GoodDots /\ GoodRange /\ UsedOnce /\ GoodBitmap
    /\ NamesAllocated /\ OnceNamed /\ GoodLinks /\ FilesReferred

\* Some directory is named in d after an entry of d, or of a directory before
\* d, has referred to it: as ".", as ".." or by name.
MetAgain ==
    \E d \in Dirs, e \in Name :
        /\ img.ent[d][e] \in Dirs
        /\ \E c \in Dirs, f \in Entry :
               /\ img.ent[c][f] = img.ent[d][e]
               /\ c < d \/ (c = d /\ f # e)

\* No directory has a smaller number than the one it is in.
Downwards ==
    \A d \in Dirs, e \in Name : img.ent[d][e] \in Dirs => img.ent[d][e] > d

(***************************************************************************)
(* temp.c accepts exactly the images that have what it makes sure of,      *)
(* however a fault is spread over inodes, directories and bitmap, and in   *)
(* which it meets no directory again.  The one exception is an indirect    *)
(* address of sb->size whose bit, past the end, is set.  So it accepts     *)
(* orphaned directories, though it is to find them: "." clears the bit of  *)
(* its own inode.  It accepts a wrong "..", and a file without a name that *)
(* a ".." refers to.  And it rejects a good image if a directory has a     *)
(* smaller number than its parent, for "." has cleared the bit of its name.*)
(***************************************************************************)
JudgesRight ==
    program = "temp.c" /\ verdict # "none" =>
        /\ verdict = "ok" /\ SIZE \notin img.marked => Checked
        /\ Checked => verdict = IF MetAgain THEN "directory twice" ELSE "ok"
        /\ Checked /\ DirsFound /\ ParentsMatch => (MetAgain <=> ~Downwards)

\* Whatever the image, P4/fcheck.c and fcheck.c never say that it is good,
\* and their last requirements are never tested: the bits that one test has
\* cleared, or never set, are what a later one looks for.
NothingAccepted ==
    program \in {"P4/fcheck.c", "fcheck.c"} => verdict # "ok" /\ place < 9

\* When P4/fcheck.c comes to requirements 7 and 8, the bitmap marks exactly
\* the blocks in use, though bits are cleared inode by inode, direct and
\* indirect addresses differently; and its wrong verdict there hides the
\* faults it exists for.
BitmapExact ==
    program = "P4/fcheck.c" /\ place = 8 => GoodBitmap

\* What mkfs makes, when it does not fail, of a tree with no more files than the
\* image has inodes, is good, and temp.c accepts it, whatever the shape of the
\* tree: the blocks it has handed out, one after
\* the other, are the ones in use, direct or indirect, and each has its bit.
MkfsMakesGood ==
    program = "temp.c" /\ verdict # "none" /\ ~NoMkfs =>
        Checked /\ FilesFound /\ DirsFound /\ ParentsMatch /\ verdict = "ok"
=============================================================================
