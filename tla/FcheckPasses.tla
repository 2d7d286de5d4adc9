---------------------------- MODULE FcheckPasses ----------------------------
(***************************************************************************)
(* The checkers that go over the whole image once for each requirement:    *)
(* Project4/P4/fcheck.c and the earlier fcheck.c.  place is the number of  *)
(* the requirement.  Requirements 9 to 12 of P4, and 8 to 12 of fcheck.c,  *)
(* are not here: no image gets there.                                      *)
(***************************************************************************)
EXTENDS Image

PassesStart == \E p \in {"P4/fcheck.c", "fcheck.c"} :
    Start(p, [blocks |-> img.marked, inodes |-> {}])

Then(n) == place' = n /\ UNCHANGED <<left, refs, verdict>>

\* Requirement 1.
Types ==
    /\ Runs("P4/fcheck.c") \/ Runs("fcheck.c")
    /\ place = 1
    /\ IF GoodTypes THEN Then(2) ELSE Exit("bad inode")

DirectAddrs(i) == ToSet(Addrs(i)) \ {None}
IndirectAddrs(i, n) == {Indirect(i)[k] : k \in 1..Min({n, Len(Indirect(i))})} \ {None}

-----------------------------------------------------------------------------
(* Project4/P4/fcheck.c *)

\* Requirement 2: NDIRECT of the NINDIRECT indirect addresses are looked at,
\* before the address of their block is, which may lie outside the image.
Addresses ==
    /\ Runs("P4/fcheck.c")
    /\ place = 2
    /\ \/ /\ \A i \in Ino : DirectAddrs(i) \cup IndirectAddrs(i, NDIRECT) \subseteq Data
          /\ Then(4)
       \/ /\ \E i \in Ino : ~(DirectAddrs(i) \cup IndirectAddrs(i, NDIRECT) \subseteq Data)
          /\ Exit("bad address")
       \/ /\ \E i \in Ino : Addrs(i)[NDIRECT + 1] >= SIZE
          /\ Exit("segmentation fault")

\* Requirements 3 and 4: the flags of "." and ".." stay set from the first
\* directory below the root on, so of the others only the first entry counts.
RootPath ==
    /\ Runs("P4/fcheck.c")
    /\ place = 4
    /\ LET Dot(d) == img.ent[d]["."]
           DotDot(d) == img.ent[d][".."]
           Below == Dirs \ {ROOTINO}
           FirstEntryGood(d) == IF Dot(d) = None THEN DotDot(d) # d ELSE Dot(d) = d
       IN  IF /\ ROOTINO \in Dirs
              /\ Dot(ROOTINO) = ROOTINO /\ DotDot(ROOTINO) = ROOTINO
              /\ Below # {} => LET d == Min(Below)
                              IN  Dot(d) = d /\ DotDot(d) \notin {d, None}
              /\ \A d \in Below : FirstEntryGood(d)
           THEN Then(5)
           ELSE Exit("bad directory")

Before(t, s) == t[1] < s[1] \/ (t[1] = s[1] /\ t[2] < s[2])
IsDirect(s) == s[2] <= NDIRECT + 1

\* An indirect address met before counts as marked free.
MarkedFree(s) ==
    LET a == AddrIn(s)
    IN  IF IsDirect(s) THEN a \in Data \ img.marked
        ELSE /\ a \in Data \cup {SIZE}
             /\ a \notin img.marked \/ \E t \in Slots : Before(t, s) /\ AddrIn(t) = a

\* Requirement 5, which clears what it meets from databitmap_temp.
BitmapUsed ==
    /\ Runs("P4/fcheck.c")
    /\ place = 5
    /\ IF \E s \in Slots : MarkedFree(s)
       THEN Exit("used but marked free")
       ELSE /\ left' = [left EXCEPT !.blocks = @ \ Used]
            /\ place' = 6
            /\ UNCHANGED <<refs, verdict>>

BitmapUnused_Skipped ==
    /\ Runs("P4/fcheck.c")
    /\ place = 6
    /\ Then(8)

\* Requirement 6, which clears once more.
BitmapUnused ==
    /\ Runs("P4/fcheck.c")
    /\ place = 6
    /\ IF (left.blocks \ Used) \cap Data # {}
       THEN Exit("marked but not used")
       ELSE /\ left' = [left EXCEPT !.blocks = @ \ Used]
            /\ place' = 8
            /\ UNCHANGED <<refs, verdict>>

\* A slot whose address is marked, but neither in blocks nor met for the first time.
Again(blocks) ==
    \E s \in Slots :
        /\ AddrIn(s) \in img.marked
        /\ AddrIn(s) \notin blocks \/ \E t \in Slots : Before(t, s) /\ AddrIn(t) = AddrIn(s)

Redundant_Fresh ==
    /\ Runs("P4/fcheck.c")
    /\ place = 8
    /\ IF Again(img.marked) THEN Exit("used more than once") ELSE Then(9)

\* Requirements 7 and 8 expect the bits that requirement 5 has cleared.
Redundant ==
    /\ Runs("P4/fcheck.c")
    /\ place = 8
    /\ IF Again(left.blocks) THEN Exit("used more than once") ELSE Then(9)

P4Next == PassesStart \/ Types \/ Addresses \/ RootPath \/ BitmapUsed \/ BitmapUnused \/ Redundant

-----------------------------------------------------------------------------
(* fcheck.c *)

\* Requirement 2, without the lower bound.
AddressesFirst ==
    /\ Runs("fcheck.c")
    /\ place = 2
    /\ IF \A i \in Ino : \A a \in DirectAddrs(i) \cup IndirectAddrs(i, NINDIRECT) : a < SIZE
       THEN Then(4)
       ELSE Exit("bad address")

\* inodebitmap is never written: the test may come out either way.
RootPathFirst ==
    /\ Runs("fcheck.c")
    /\ place = 4
    /\ \/ Then(5)
       \/ \E why \in {"no root directory", "not properly formatted"} : Exit(why)

\* All of addrs is looked up, 0 included, which means no block.  An image here has
\* no bits for the blocks before the data: of those the test may say either.
BitmapUsedFirst ==
    /\ Runs("fcheck.c")
    /\ place = 5
    /\ \/ /\ \A i \in Ino : ToSet(Addrs(i)) \cap Data \subseteq img.marked
          /\ Then(7)
       \/ /\ \E i \in Ino : ~(ToSet(Addrs(i)) \subseteq img.marked)
          /\ Exit("used but marked free")

\* databitmap_temp was never filled: requirement 6 finds nothing marked in
\* it, and requirement 7 takes inode 0's address 0 for one used twice.
RedundantFirst ==
    /\ Runs("fcheck.c")
    /\ place = 7
    /\ Exit("used more than once")

FirstNext == AddressesFirst \/ RootPathFirst \/ BitmapUsedFirst \/ RedundantFirst
=============================================================================
