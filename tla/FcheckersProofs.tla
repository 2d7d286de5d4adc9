--------------------------- MODULE FcheckersProofs ---------------------------
(***************************************************************************)
(* Theorems about mkfs and the three checkers, for images of any size:     *)
(* the image that balloc() finishes is good, what the verdicts of the      *)
(* checkers are worth, that the bitmap is exact when P4/fcheck.c begins    *)
(* its last test, and that temp.c accepts whatever mkfs makes.             *)
(***************************************************************************)
EXTENDS FcheckersInv, FiniteSetTheorems, SequenceTheorems, FunctionTheorems,
        WellFoundedInduction, TLAPS

USE DEF None, T_FREE, T_DIR, T_FILE, T_DEV, ROOTINO

-----------------------------------------------------------------------------
(* Blocks that mkfs hands out.                                              *)

LEMMA Sizes ==
  /\ NDIRECT \in Nat /\ NDIRECT > 0
  /\ NINDIRECT \in Nat /\ NINDIRECT > 0
  /\ METABLOCKS \in Nat /\ METABLOCKS > 0
  /\ SIZE \in Nat /\ METABLOCKS < SIZE
  /\ NINODES \in Nat /\ NINODES > 0
  /\ IsFiniteSet(Name) /\ "." \notin Name /\ ".." \notin Name
BY ImageAssumption

LEMMA FormatFacts ==
  ASSUME NEW m \in Format
  PROVE  /\ \A i \in Ino : m.type[i] \in Nat /\ m.nlink[i] \in Nat
         /\ \A i \in Ino : m.addrs[i] \in [1..NDIRECT + 1 -> Nat] /\ m.ind[i] \in [1..NINDIRECT -> Nat]
         /\ \A i \in Ino, e \in Entry : m.ent[i][e] \in Ino \cup {None}
BY DEF Format

\* What an image in the right form has at each place.
LEMMA KeptNat ==
  ASSUME NEW m \in Format, NEW s \in Place
  PROVE  /\ Kept(m, s) \in Nat
         /\ s[1] \in Ino /\ s[2] \in 1..NDIRECT + 1 + NINDIRECT /\ s = <<s[1], s[2]>>
<1>1. s[1] \in Ino /\ s[2] \in 1..NDIRECT + 1 + NINDIRECT /\ s = <<s[1], s[2]>>
  BY DEF Place
<1>2. CASE s[2] <= NDIRECT + 1
  <2>1. s[2] \in 1..NDIRECT + 1  BY <1>1, <1>2, Sizes
  <2>2. m.addrs[s[1]][s[2]] \in Nat  BY <1>1, <2>1, FormatFacts
  <2> QED  BY <1>1, <1>2, <2>2 DEF Kept
<1>3. CASE ~(s[2] <= NDIRECT + 1)
  <2>1. s[2] - (NDIRECT + 1) \in 1..NINDIRECT  BY <1>1, <1>3, Sizes
  <2>2. m.ind[s[1]][s[2] - (NDIRECT + 1)] \in Nat  BY <1>1, <2>1, FormatFacts
  <2> QED  BY <1>1, <1>3, <2>2 DEF Kept
<1> QED  BY <1>2, <1>3

\* mkfs counts the addresses of an inode that are filled in order.
LEMMA BlocksCount ==
  ASSUME NEW m \in Format, NEW i \in Ino, NEW n \in 0..NDIRECT + NINDIRECT, HasBlocks(m, i, n)
  PROVE  Blocks(m, i) = n
<1> USE Sizes
<1> DEFINE D == {k \in 1..NDIRECT : m.addrs[i][k] # None}
           E == {k \in 1..NINDIRECT : m.ind[i][k] # None}
           d == IF n <= NDIRECT THEN n ELSE NDIRECT
           e == IF n <= NDIRECT THEN 0 ELSE n - NDIRECT
<1>1. D = 1..d  BY DEF HasBlocks
<1>2. E = 1..e  BY DEF HasBlocks
<1>3. d \in Nat /\ e \in Nat /\ d + e = n  OBVIOUS
<1>4. Cardinality(1..d) = d /\ Cardinality(1..e) = e
  <2> HIDE DEF d, e
  <2>1. Cardinality(1..d) = IF 1 > d THEN 0 ELSE d - 1 + 1  BY <1>3, FS_Interval
  <2>2. Cardinality(1..e) = IF 1 > e THEN 0 ELSE e - 1 + 1  BY <1>3, FS_Interval
  <2> QED  BY <1>3, <2>1, <2>2
<1>5. Blocks(m, i) = Cardinality(D) + Cardinality(E)  BY DEF Blocks
<1> QED
  <2> HIDE DEF d, e, D, E
  <2> QED  BY <1>1, <1>2, <1>3, <1>4, <1>5

\* A place that held nothing gets the next block.
LEMMA FillOne ==
  ASSUME NEW m, NEW c, NEW b \in Nat, b >= METABLOCKS, EachOnce(m, b),
         NEW s \in Place, Kept(m, s) = None, Kept(c, s) = b,
         \A t \in Place : t # s => Kept(c, t) = Kept(m, t)
  PROVE  EachOnce(c, b + 1)
<1> USE Sizes
<1>1. \A t \in Place : Kept(c, t) \in {None} \cup METABLOCKS..(b + 1) - 1
  BY DEF EachOnce
<1>2. \A t, u \in Place : Kept(c, t) = Kept(c, u) => t = u \/ Kept(c, t) = None
  <2> SUFFICES ASSUME NEW t \in Place, NEW u \in Place, Kept(c, t) = Kept(c, u), t # u
               PROVE  Kept(c, t) = None
    OBVIOUS
  <2>1. Kept(m, t) \in {None} \cup METABLOCKS..b - 1 /\ Kept(m, u) \in {None} \cup METABLOCKS..b - 1
    BY DEF EachOnce
  <2>2. CASE t = s  BY <2>1, <2>2
  <2>3. CASE u = s  BY <2>1, <2>3
  <2>4. CASE t # s /\ u # s  BY <2>4 DEF EachOnce
  <2> QED  BY <2>2, <2>3, <2>4
<1>3. \A a \in METABLOCKS..(b + 1) - 1 : \E t \in Place : Kept(c, t) = a
  <2> SUFFICES ASSUME NEW a \in METABLOCKS..(b + 1) - 1 PROVE \E t \in Place : Kept(c, t) = a
    OBVIOUS
  <2>1. CASE a = b  BY <2>1
  <2>2. CASE a # b
    <3>1. a \in METABLOCKS..b - 1  BY <2>2
    <3>2. PICK t \in Place : Kept(m, t) = a  BY <3>1 DEF EachOnce
    <3>3. t # s  BY <3>1, <3>2
    <3> QED  BY <3>2, <3>3
  <2> QED  BY <2>1, <2>2
<1> QED  BY <1>1, <1>2, <1>3 DEF EachOnce

\* EachOnce and InOrder are about addresses only.
LEMMA SameAddrs ==
  ASSUME NEW m, NEW c, c.addrs = m.addrs, c.ind = m.ind, NEW b
  PROVE  /\ InOrder(m) => InOrder(c)
         /\ EachOnce(m, b) => EachOnce(c, b)
         /\ \A i \in Ino, n \in 0..NDIRECT + NINDIRECT : HasBlocks(m, i, n) => HasBlocks(c, i, n)
         /\ \A i : Blocks(m, i) = Blocks(c, i)
<1>1. \A i \in Ino, n \in 0..NDIRECT + NINDIRECT : HasBlocks(m, i, n) => HasBlocks(c, i, n)
  BY DEF HasBlocks
<1>2. \A s \in Place : Kept(c, s) = Kept(m, s)  BY DEF Kept
<1>3. \A i : Blocks(m, i) = Blocks(c, i)  BY DEF Blocks
<1> QED  BY <1>1, <1>2, <1>3 DEF InOrder, EachOnce

\* What an append of a block to inode i keeps.
Grew(m, c, i) ==
  /\ c \in Format
  /\ c.type = m.type /\ c.nlink = m.nlink /\ c.ent = m.ent /\ c.marked = m.marked
  /\ InOrder(c)
  /\ \A j \in Ino : m.addrs[j][1] # None => c.addrs[j][1] # None
  /\ c.addrs[i][1] # None

\* Setting the k-th direct, or the k-th indirect address of inode i.
LEMMA SetDirect ==
  ASSUME NEW m \in Format, NEW i \in Ino, NEW k \in 1..NDIRECT + 1, NEW b \in Nat
  PROVE  LET c == [m EXCEPT !.addrs[i][k] = b]
         IN  /\ c \in Format /\ c.ind = m.ind
             /\ c.type = m.type /\ c.nlink = m.nlink /\ c.ent = m.ent /\ c.marked = m.marked
             /\ \A j \in Ino : j # i => c.addrs[j] = m.addrs[j]
             /\ \A l \in 1..NDIRECT + 1 : c.addrs[i][l] = IF l = k THEN b ELSE m.addrs[i][l]
BY DEF Format

LEMMA SetIndirect ==
  ASSUME NEW m \in Format, NEW i \in Ino, NEW k \in 1..NINDIRECT, NEW b \in Nat
  PROVE  LET c == [m EXCEPT !.ind[i][k] = b]
         IN  /\ c \in Format /\ c.addrs = m.addrs
             /\ c.type = m.type /\ c.nlink = m.nlink /\ c.ent = m.ent /\ c.marked = m.marked
             /\ \A j \in Ino : j # i => c.ind[j] = m.ind[j]
             /\ \A l \in 1..NINDIRECT : c.ind[i][l] = IF l = k THEN b ELSE m.ind[i][l]
BY DEF Format

\* iappend() of a block, if mkfs does not stop.
LEMMA GrownKeeps ==
  ASSUME NEW m \in Format, NEW i \in Ino, NEW b \in METABLOCKS..SIZE,
         InOrder(m), EachOnce(m, b), Grown(m, i, b).block <= SIZE
  PROVE  /\ Grown(m, i, b).block \in METABLOCKS..SIZE
         /\ Grew(m, Grown(m, i, b).img, i)
         /\ EachOnce(Grown(m, i, b).img, Grown(m, i, b).block)
<1> USE Sizes
<1> PICK n \in 0..NDIRECT + NINDIRECT : HasBlocks(m, i, n)  BY DEF InOrder
<1> DEFINE g == Grown(m, i, b)
<1>1. Blocks(m, i) = n  BY BlocksCount
<1>2. CASE n < NDIRECT
  <2> DEFINE c == [m EXCEPT !.addrs[i][n + 1] = b]
  <2>1. g = [img |-> c, block |-> b + 1]  BY <1>1, <1>2 DEF Grown
  <2>2. /\ c \in Format /\ c.ind = m.ind
        /\ c.type = m.type /\ c.nlink = m.nlink /\ c.ent = m.ent /\ c.marked = m.marked
        /\ \A j \in Ino : j # i => c.addrs[j] = m.addrs[j]
        /\ \A l \in 1..NDIRECT + 1 : c.addrs[i][l] = IF l = n + 1 THEN b ELSE m.addrs[i][l]
    BY <1>2, SetDirect
  <2> HIDE DEF c
  <2>3. HasBlocks(c, i, n + 1)  BY <1>2, <2>2 DEF HasBlocks
  <2>4. \A j \in Ino, l \in 0..NDIRECT + NINDIRECT : j # i /\ HasBlocks(m, j, l) => HasBlocks(c, j, l)
    BY <2>2 DEF HasBlocks
  <2>5. InOrder(c)  BY <1>2, <2>3, <2>4 DEF InOrder
  <2>6. EachOnce(c, b + 1)
    <3> DEFINE s == <<i, n + 1>>
    <3>1. s \in Place /\ s[1] = i /\ s[2] = n + 1  BY <1>2 DEF Place
    <3>2. Kept(m, s) = None /\ Kept(c, s) = b  BY <1>2, <2>2, <3>1 DEF Kept, HasBlocks
    <3>3. \A t \in Place : t # s => Kept(c, t) = Kept(m, t)
      BY <1>2, <2>2, <3>1, KeptNat DEF Kept
    <3> QED  BY <3>1, <3>2, <3>3, FillOne
  <2>7. Grew(m, c, i)
    BY <2>2, <2>3, <2>5 DEF Grew, HasBlocks
  <2> QED  BY <2>1, <2>6, <2>7
<1>3. CASE n = NDIRECT
  <2> DEFINE a == [m EXCEPT !.addrs[i][NDIRECT + 1] = b]
             c == [a EXCEPT !.ind[i][1] = b + 1]
  <2>1. g = [img |-> c, block |-> b + 2]
    <3>1. [m EXCEPT !.addrs[i][NDIRECT + 1] = b, !.ind[i][1] = b + 1] = c  OBVIOUS
    <3>2. g = [img |-> [m EXCEPT !.addrs[i][NDIRECT + 1] = b, !.ind[i][1] = b + 1], block |-> b + 2]
      BY <1>1, <1>3 DEF Grown
    <3> QED  BY <3>1, <3>2
  <2>2. /\ a \in Format /\ a.ind = m.ind
        /\ a.type = m.type /\ a.nlink = m.nlink /\ a.ent = m.ent /\ a.marked = m.marked
        /\ \A j \in Ino : j # i => a.addrs[j] = m.addrs[j]
        /\ \A l \in 1..NDIRECT + 1 : a.addrs[i][l] = IF l = NDIRECT + 1 THEN b ELSE m.addrs[i][l]
    BY SetDirect
  <2> HIDE DEF a
  <2>3. /\ c \in Format /\ c.addrs = a.addrs
        /\ c.type = a.type /\ c.nlink = a.nlink /\ c.ent = a.ent /\ c.marked = a.marked
        /\ \A j \in Ino : j # i => c.ind[j] = a.ind[j]
        /\ \A l \in 1..NINDIRECT : c.ind[i][l] = IF l = 1 THEN b + 1 ELSE a.ind[i][l]
    BY <2>2, SetIndirect, SMTT(30)
  <2> HIDE DEF c
  <2>4. HasBlocks(c, i, NDIRECT + 1)  BY <1>3, <2>2, <2>3 DEF HasBlocks
  <2>5. \A j \in Ino, l \in 0..NDIRECT + NINDIRECT : j # i /\ HasBlocks(m, j, l) => HasBlocks(c, j, l)
    BY <2>2, <2>3 DEF HasBlocks
  <2>6. InOrder(c)  BY <1>3, <2>4, <2>5 DEF InOrder
  <2>7. EachOnce(a, b + 1)
    <3> DEFINE s == <<i, NDIRECT + 1>>
    <3>1. s \in Place /\ s[1] = i /\ s[2] = NDIRECT + 1  BY DEF Place
    <3>2. Kept(m, s) = None /\ Kept(a, s) = b  BY <1>3, <2>2, <3>1 DEF Kept, HasBlocks
    <3>3. \A t \in Place : t # s => Kept(a, t) = Kept(m, t)
      BY <1>3, <2>2, <3>1, KeptNat DEF Kept
    <3> QED  BY <3>1, <3>2, <3>3, FillOne
  <2>8. EachOnce(c, (b + 1) + 1)
    <3> DEFINE s == <<i, NDIRECT + 2>>
    <3>1. s \in Place /\ s[1] = i /\ s[2] = NDIRECT + 2  BY DEF Place
    <3>2. Kept(a, s) = None /\ Kept(c, s) = b + 1  BY <1>3, <2>2, <2>3, <3>1 DEF Kept, HasBlocks
    <3>3. \A t \in Place : t # s => Kept(c, t) = Kept(a, t)
      <4> SUFFICES ASSUME NEW t \in Place, t # s PROVE Kept(c, t) = Kept(a, t)  OBVIOUS
      <4>1. t[1] \in Ino /\ t[2] \in 1..NDIRECT + 1 + NINDIRECT /\ t = <<t[1], t[2]>>  BY <2>2, KeptNat
      <4>2. CASE t[2] <= NDIRECT + 1  BY <2>3, <4>2 DEF Kept
      <4>3. CASE ~(t[2] <= NDIRECT + 1)
        <5>1. t[2] - (NDIRECT + 1) \in 1..NINDIRECT  BY <4>1, <4>3
        <5>2. t[1] = i => t[2] - (NDIRECT + 1) # 1  BY <4>1, <4>3
        <5> QED  BY <2>3, <4>1, <4>3, <5>1, <5>2 DEF Kept
      <4> QED  BY <4>2, <4>3
    <3> QED  BY <2>7, <3>1, <3>2, <3>3, FillOne
  <2>9. Grew(m, c, i)
    BY <2>2, <2>3, <2>4, <2>6 DEF Grew, HasBlocks
  <2>10. (b + 1) + 1 = b + 2  OBVIOUS
  <2> QED  BY <2>1, <2>8, <2>9, <2>10
<1>4. CASE n \in NDIRECT + 1..NDIRECT + NINDIRECT - 1
  <2> DEFINE c == [m EXCEPT !.ind[i][n - NDIRECT + 1] = b]
  <2>1. g = [img |-> c, block |-> b + 1]  BY <1>1, <1>4 DEF Grown
  <2>2. /\ c \in Format /\ c.addrs = m.addrs
        /\ c.type = m.type /\ c.nlink = m.nlink /\ c.ent = m.ent /\ c.marked = m.marked
        /\ \A j \in Ino : j # i => c.ind[j] = m.ind[j]
        /\ \A l \in 1..NINDIRECT : c.ind[i][l] = IF l = n - NDIRECT + 1 THEN b ELSE m.ind[i][l]
    BY <1>4, SetIndirect
  <2> HIDE DEF c
  <2>3. HasBlocks(c, i, n + 1)  BY <1>4, <2>2 DEF HasBlocks
  <2>4. \A j \in Ino, l \in 0..NDIRECT + NINDIRECT : j # i /\ HasBlocks(m, j, l) => HasBlocks(c, j, l)
    BY <2>2 DEF HasBlocks
  <2>5. InOrder(c)  BY <1>4, <2>3, <2>4 DEF InOrder
  <2>6. EachOnce(c, b + 1)
    <3> DEFINE s == <<i, n + 2>>
    <3>1. s \in Place /\ s[1] = i /\ s[2] = n + 2  BY <1>4 DEF Place
    <3>2. Kept(m, s) = None /\ Kept(c, s) = b
      <4>1. s[2] - (NDIRECT + 1) = n - NDIRECT + 1 /\ n - NDIRECT + 1 \in 1..NINDIRECT  BY <1>4, <3>1
      <4> QED  BY <1>4, <2>2, <3>1, <4>1 DEF Kept, HasBlocks
    <3>3. \A t \in Place : t # s => Kept(c, t) = Kept(m, t)
      <4> SUFFICES ASSUME NEW t \in Place, t # s PROVE Kept(c, t) = Kept(m, t)  OBVIOUS
      <4>1. t[1] \in Ino /\ t[2] \in 1..NDIRECT + 1 + NINDIRECT /\ t = <<t[1], t[2]>>  BY KeptNat
      <4>2. CASE t[2] <= NDIRECT + 1  BY <2>2, <4>2 DEF Kept
      <4>3. CASE ~(t[2] <= NDIRECT + 1)
        <5>1. t[2] - (NDIRECT + 1) \in 1..NINDIRECT  BY <4>1, <4>3
        <5>2. t[1] = i => t[2] - (NDIRECT + 1) # n - NDIRECT + 1  BY <4>1, <4>3
        <5> QED  BY <2>2, <4>1, <4>3, <5>1, <5>2 DEF Kept
      <4> QED  BY <4>2, <4>3
    <3> QED  BY <3>1, <3>2, <3>3, FillOne
  <2>7. Grew(m, c, i)
    BY <1>4, <2>2, <2>5 DEF Grew, HasBlocks
  <2> QED  BY <2>1, <2>6, <2>7
<1>5. CASE n = NDIRECT + NINDIRECT
  <2>1. g.block = SIZE + 1  BY <1>1, <1>5 DEF Grown, Stopped
  <2> QED  BY <2>1
<1> QED  BY <1>2, <1>3, <1>4, <1>5

\* A block past the end of the image is followed by others there.
LEMMA GrownPast ==
  ASSUME NEW m, NEW i, NEW b \in Nat
  PROVE  /\ Grown(m, i, b) = [img |-> Grown(m, i, b).img, block |-> Grown(m, i, b).block]
         /\ Grown(m, i, b).block \in Nat
         /\ b > SIZE => Grown(m, i, b).block > SIZE
<1> USE Sizes
<1> DEFINE D == {k \in 1..NDIRECT : m.addrs[i][k] # None}
           E == {k \in 1..NINDIRECT : m.ind[i][k] # None}
<1>1. Blocks(m, i) \in Nat
  <2>1. IsFiniteSet(1..NDIRECT) /\ IsFiniteSet(1..NINDIRECT)  BY FS_Interval
  <2>2. IsFiniteSet(D) /\ IsFiniteSet(E)  BY <2>1, FS_Subset
  <2>3. Cardinality(D) \in Nat /\ Cardinality(E) \in Nat  BY <2>2, FS_CardinalityType
  <2> QED  BY <2>3 DEF Blocks
<1>2. \E c, a : a \in {b + 1, b + 2, SIZE + 1} /\ Grown(m, i, b) = [img |-> c, block |-> a]
  <2>1. PICK n \in Nat : n = Blocks(m, i)  BY <1>1
  <2>2. CASE n < NDIRECT
    <3>1. Grown(m, i, b) = [img |-> [m EXCEPT !.addrs[i][n + 1] = b], block |-> b + 1]
      BY <2>1, <2>2 DEF Grown
    <3> QED  BY <3>1
  <2>3. CASE n = NDIRECT
    <3>1. Grown(m, i, b) = [img |-> [m EXCEPT !.addrs[i][NDIRECT + 1] = b, !.ind[i][1] = b + 1],
                            block |-> b + 2]
      BY <2>1, <2>3 DEF Grown
    <3> QED  BY <3>1
  <2>4. CASE n \in NDIRECT + 1..NDIRECT + NINDIRECT - 1
    <3>1. Grown(m, i, b) = [img |-> [m EXCEPT !.ind[i][n - NDIRECT + 1] = b], block |-> b + 1]
      BY <2>1, <2>4 DEF Grown
    <3> QED  BY <3>1
  <2>5. CASE n >= NDIRECT + NINDIRECT
    <3>1. Grown(m, i, b) = [img |-> m, block |-> SIZE + 1]
      BY <2>1, <2>5 DEF Grown, Stopped
    <3> QED  BY <3>1
  <2> QED  BY <2>1, <2>2, <2>3, <2>4, <2>5
<1>3. PICK c, a : a \in {b + 1, b + 2, SIZE + 1} /\ Grown(m, i, b) = [img |-> c, block |-> a]
  BY <1>2
<1> QED  BY <1>3

\* iappend() of entry e, i to directory d: the entries that there were, and
\* a block that holds them.
LEMMA AddedCases ==
  ASSUME NEW m, NEW d, NEW e, NEW i, NEW b \in Nat
  PROVE  \E g \in {Grown(m, d, b), [img |-> m, block |-> b]} :
            /\ Added(m, d, e, i, b) = [g EXCEPT !.img.ent[d][e] = i]
            /\ (\A x \in Entry : m.ent[d][x] = None) => g = Grown(m, d, b)
<1> DEFINE X == {x \in Entry : m.ent[d][x] # None}
           grows == Cardinality(X) % PerBlock = 0
           g == IF grows THEN Grown(m, d, b) ELSE [img |-> m, block |-> b]
<1>1. Added(m, d, e, i, b) = [g EXCEPT !.img.ent[d][e] = i]  BY DEF Added
<1>2. ASSUME \A x \in Entry : m.ent[d][x] = None PROVE g = Grown(m, d, b)
  <2>1. X = {}  BY <1>2
  <2>2. Cardinality(X) = 0  BY <2>1, FS_EmptySet
  <2>3. 0 % PerBlock = 0  BY MkfsAssumption
  <2> QED  BY <2>2, <2>3
<1>3. g \in {Grown(m, d, b), [img |-> m, block |-> b]}  OBVIOUS
<1> HIDE DEF g
<1> QED  BY <1>1, <1>2, <1>3

\* What an entry e, i in directory d changes.
Entered(m, c, d, e, i) ==
  /\ c \in Format
  /\ c.type = m.type /\ c.nlink = m.nlink /\ c.marked = m.marked
  /\ c.ent = [m.ent EXCEPT ![d][e] = i]
  /\ InOrder(c)
  /\ \A j \in Ino : m.addrs[j][1] # None => c.addrs[j][1] # None

LEMMA AddedKeeps ==
  ASSUME NEW m \in Format, NEW d \in Ino, NEW e \in Entry, NEW i \in Ino, NEW b \in METABLOCKS..SIZE,
         InOrder(m), EachOnce(m, b), Added(m, d, e, i, b).block <= SIZE
  PROVE  /\ Added(m, d, e, i, b).block \in METABLOCKS..SIZE
         /\ Entered(m, Added(m, d, e, i, b).img, d, e, i)
         /\ EachOnce(Added(m, d, e, i, b).img, Added(m, d, e, i, b).block)
         /\ (\A x \in Entry : m.ent[d][x] = None) => Added(m, d, e, i, b).img.addrs[d][1] # None
<1> USE Sizes
<1>1. b \in Nat  OBVIOUS
<1>2. PICK g \in {Grown(m, d, b), [img |-> m, block |-> b]} :
            /\ Added(m, d, e, i, b) = [g EXCEPT !.img.ent[d][e] = i]
            /\ (\A x \in Entry : m.ent[d][x] = None) => g = Grown(m, d, b)
  BY <1>1, AddedCases
<1>3. g = [img |-> g.img, block |-> g.block] /\ g.img \in Format
  <2>1. CASE g = Grown(m, d, b)
    <3>1. Grew(m, Grown(m, d, b).img, d)  BY <1>2, <2>1, GrownKeeps
    <3> QED  BY <1>1, <2>1, <3>1, GrownPast DEF Grew
  <2>2. CASE g = [img |-> m, block |-> b]  BY <2>2
  <2> QED  BY <1>2, <2>1, <2>2
<1> DEFINE c == [g.img EXCEPT !.ent[d][e] = i]
<1>4. Added(m, d, e, i, b) = [img |-> c, block |-> g.block]
  <2>1. [g EXCEPT !.img.ent[d][e] = i] = [img |-> c, block |-> g.block]  BY <1>3
  <2> QED  BY <1>2, <2>1
<1>5. g.block <= SIZE  BY <1>4
<1>6. /\ g.block \in METABLOCKS..SIZE
      /\ g.img.type = m.type /\ g.img.nlink = m.nlink /\ g.img.ent = m.ent /\ g.img.marked = m.marked
      /\ InOrder(g.img) /\ EachOnce(g.img, g.block)
      /\ \A j \in Ino : m.addrs[j][1] # None => g.img.addrs[j][1] # None
      /\ g = Grown(m, d, b) => g.img.addrs[d][1] # None
  <2>1. CASE g = Grown(m, d, b)
    <3>1. /\ g.block \in METABLOCKS..SIZE /\ Grew(m, g.img, d) /\ EachOnce(g.img, g.block)
      BY <1>5, <2>1, GrownKeeps
    <3> QED  BY <3>1 DEF Grew
  <2>2. CASE g = [img |-> m, block |-> b] /\ g # Grown(m, d, b)
    <3>1. g.img = m /\ g.block = b  BY <2>2
    <3> QED  BY <2>2, <3>1
  <2> QED  BY <1>2, <2>1, <2>2
<1>7. /\ c \in Format /\ c.addrs = g.img.addrs /\ c.ind = g.img.ind
      /\ c.type = g.img.type /\ c.nlink = g.img.nlink /\ c.marked = g.img.marked
      /\ c.ent = [g.img.ent EXCEPT ![d][e] = i]
  BY <1>3 DEF Format
<1> HIDE DEF c
<1>8. InOrder(c) /\ EachOnce(c, g.block)  BY <1>6, <1>7, SameAddrs
<1>9. Entered(m, c, d, e, i)  BY <1>6, <1>7, <1>8 DEF Entered
<1>10. (\A x \in Entry : m.ent[d][x] = None) => c.addrs[d][1] # None  BY <1>2, <1>6, <1>7
<1> QED  BY <1>4, <1>6, <1>8, <1>9, <1>10

LEMMA AddedPast ==
  ASSUME NEW m, NEW d, NEW e, NEW i, NEW b \in Nat
  PROVE  /\ Added(m, d, e, i, b).block \in Nat
         /\ b > SIZE => Added(m, d, e, i, b).block > SIZE
<1>1. PICK g \in {Grown(m, d, b), [img |-> m, block |-> b]} :
            Added(m, d, e, i, b) = [g EXCEPT !.img.ent[d][e] = i]
  BY AddedCases
<1>2. g = [img |-> g.img, block |-> g.block]  BY <1>1, GrownPast
<1>3. Added(m, d, e, i, b).block = g.block  BY <1>1, <1>2
<1>4. g.block \in Nat /\ (b > SIZE => g.block > SIZE)
  <2>1. CASE g = Grown(m, d, b)  BY <2>1, GrownPast
  <2>2. CASE g = [img |-> m, block |-> b]  BY <2>2
  <2> QED  BY <1>1, <2>1, <2>2
<1> QED  BY <1>3, <1>4

\* The beginning of add_dir(), if mkfs does not stop.
LEMMA WithDotsKeeps ==
  ASSUME NEW m \in Format, NEW d \in Ino, NEW q \in Ino, mk.block \in METABLOCKS..SIZE,
         InOrder(m), EachOnce(m, mk.block), \A x \in Entry : m.ent[d][x] = None,
         WithDots(m, d, q).block <= SIZE
  PROVE  LET c == WithDots(m, d, q).img
         IN  /\ WithDots(m, d, q).block \in METABLOCKS..SIZE
             /\ c \in Format
             /\ c.type = m.type /\ c.nlink = m.nlink /\ c.marked = m.marked
             /\ c.ent = [m.ent EXCEPT ![d]["."] = d, ![d][".."] = q]
             /\ InOrder(c) /\ EachOnce(c, WithDots(m, d, q).block)
             /\ \A j \in Ino : m.addrs[j][1] # None => c.addrs[j][1] # None
             /\ c.addrs[d][1] # None
<1> USE Sizes
<1> PICK b \in METABLOCKS..SIZE : b = mk.block  OBVIOUS
<1> DEFINE g == Added(m, d, ".", d, b)
           h == Added(g.img, d, "..", q, g.block)
<1>1. WithDots(m, d, q) = h  BY DEF WithDots
<1>2. "." \in Entry /\ ".." \in Entry  BY DEF Entry
<1>3. g.block \in Nat  BY AddedPast
<1>4. g.block <= SIZE
  <2>1. h.block \in Nat /\ (g.block > SIZE => h.block > SIZE)  BY <1>3, AddedPast
  <2> QED  BY <1>1, <1>3, <2>1
<1>5. /\ g.block \in METABLOCKS..SIZE
      /\ Entered(m, g.img, d, ".", d)
      /\ EachOnce(g.img, g.block)
      /\ g.img.addrs[d][1] # None
  BY <1>2, <1>4, AddedKeeps
<1>8. g.img \in Format /\ InOrder(g.img)  BY <1>5 DEF Entered
<1>9. h.block <= SIZE  BY <1>1
<1> HIDE DEF g
<1>6. /\ h.block \in METABLOCKS..SIZE
      /\ Entered(g.img, h.img, d, "..", q)
      /\ EachOnce(h.img, h.block)
  BY <1>2, <1>5, <1>8, <1>9, AddedKeeps
<1> HIDE DEF h
<1>7. h.img.ent = [m.ent EXCEPT ![d]["."] = d, ![d][".."] = q]
  <2>1. g.img.ent = [m.ent EXCEPT ![d]["."] = d]  BY <1>5 DEF Entered
  <2>2. h.img.ent = [g.img.ent EXCEPT ![d][".."] = q]  BY <1>6 DEF Entered
  <2> QED  BY <2>1, <2>2
<1> QED  BY <1>1, <1>5, <1>6, <1>7 DEF Entered

-----------------------------------------------------------------------------
(* The steps of mkfs.                                                       *)

LEMMA LastFront ==
  ASSUME NEW S, NEW s \in Seq(S), s # <<>>
  PROVE  /\ Len(s) \in Nat /\ Len(s) >= 1
         /\ Last(s) = s[Len(s)] /\ Last(s) \in S
         /\ Front(s) \in Seq(S) /\ Len(Front(s)) = Len(s) - 1
         /\ \A k \in 1..Len(s) - 1 : Front(s)[k] = s[k]
<1>1. Len(s) \in Nat /\ Len(s) >= 1  BY EmptySeq
<1>2. \A k \in 1..Len(s) : s[k] \in S  BY ElementOfSeq
<1>3. /\ SubSeq(s, 1, Len(s) - 1) \in Seq(S)
      /\ Len(SubSeq(s, 1, Len(s) - 1)) = IF 1 <= Len(s) - 1 THEN Len(s) - 1 - 1 + 1 ELSE 0
      /\ \A k \in 1..Len(s) - 1 - 1 + 1 : SubSeq(s, 1, Len(s) - 1)[k] = s[1 + k - 1]
  BY <1>1, <1>2, SubSeqProperties
<1>4. Len(SubSeq(s, 1, Len(s) - 1)) = Len(s) - 1
  <2> DEFINE l == Len(SubSeq(s, 1, Len(s) - 1))
             n == Len(s)
  <2>1. n \in Nat /\ n >= 1 /\ l = IF 1 <= n - 1 THEN n - 1 - 1 + 1 ELSE 0  BY <1>1, <1>3
  <2> HIDE DEF l, n
  <2>2. l = n - 1  BY <2>1
  <2> QED  BY <2>2 DEF l, n
<1>5. \A k \in 1..Len(s) - 1 : SubSeq(s, 1, Len(s) - 1)[k] = s[k]
  <2> TAKE k \in 1..Len(s) - 1
  <2>1. k \in 1..Len(s) - 1 - 1 + 1 /\ 1 + k - 1 = k  BY <1>1
  <2> QED  BY <1>3, <2>1
<1> QED  BY <1>1, <1>2, <1>3, <1>4, <1>5 DEF Last, Front

LEMMA AppendFacts ==
  ASSUME NEW S, NEW s \in Seq(S), NEW e \in S
  PROVE  /\ Len(s) \in Nat
         /\ Append(s, e) \in Seq(S) /\ Len(Append(s, e)) = Len(s) + 1 /\ Append(s, e) # <<>>
         /\ Append(s, e)[Len(s) + 1] = e
         /\ \A k \in 1..Len(s) : Append(s, e)[k] = s[k]
OBVIOUS

\* ialloc() and add_dir() up to readdir_r(), for the next inode.
LEMMA NewDirImg ==
  ASSUME MkfsInv, program = "mkfs", mk.inode \in Ino, NEW q \in Ino,
         WithDots(Ialloc(img, T_DIR), mk.inode, q).block <= SIZE
  PROVE  LET d == mk.inode
             g == WithDots(Ialloc(img, T_DIR), d, q)
         IN  /\ g.block \in METABLOCKS..SIZE
             /\ g.img \in Format /\ g.img.marked = {}
             /\ InOrder(g.img) /\ EachOnce(g.img, g.block)
             /\ \A j \in Ino : img.addrs[j][1] # None => g.img.addrs[j][1] # None
             /\ g.img.addrs[d][1] # None
             /\ \A j \in Ino : g.img.type[j] = IF j = d THEN T_DIR ELSE img.type[j]
             /\ \A j \in Ino : g.img.nlink[j] = IF j = d THEN 1 ELSE img.nlink[j]
             /\ \A j \in Ino, x \in Entry : j # d => g.img.ent[j][x] = img.ent[j][x]
             /\ g.img.ent[d]["."] = d /\ g.img.ent[d][".."] = q
             /\ \A x \in Name : g.img.ent[d][x] = None
<1> USE Sizes
<1> DEFINE m == Ialloc(img, T_DIR)
<1> PICK d \in Ino : d = mk.inode  OBVIOUS
<1>1. img \in Format /\ img.marked = {} /\ InOrder(img) /\ EachOnce(img, mk.block)
      /\ mk.block \in METABLOCKS..SIZE
  BY DEF MkfsInv, MkType
<1>2. img.type[d] = T_FREE  BY DEF MkfsInv, Taken, Ino
<1>3. d \notin Dirs  BY <1>2 DEF Dirs
<1>4. \A x \in Entry : img.ent[d][x] = None  BY <1>3 DEF MkfsInv, Taken
<1>5. /\ m \in Format /\ m.addrs = img.addrs /\ m.ind = img.ind /\ m.ent = img.ent /\ m.marked = img.marked
      /\ m.type = [img.type EXCEPT ![d] = T_DIR] /\ m.nlink = [img.nlink EXCEPT ![d] = 1]
  BY <1>1 DEF Ialloc, Format
<1> HIDE DEF m
<1>6. InOrder(m) /\ EachOnce(m, mk.block)  BY <1>1, <1>5, SameAddrs
<1>7. \A x \in Entry : m.ent[d][x] = None  BY <1>4, <1>5
<1> DEFINE g == WithDots(m, d, q)
<1>8. g.block <= SIZE  BY DEF m
<1>9. /\ g.block \in METABLOCKS..SIZE
      /\ g.img \in Format
      /\ g.img.type = m.type /\ g.img.nlink = m.nlink /\ g.img.marked = m.marked
      /\ g.img.ent = [m.ent EXCEPT ![d]["."] = d, ![d][".."] = q]
      /\ InOrder(g.img) /\ EachOnce(g.img, g.block)
      /\ \A j \in Ino : m.addrs[j][1] # None => g.img.addrs[j][1] # None
      /\ g.img.addrs[d][1] # None
  BY <1>1, <1>5, <1>6, <1>7, <1>8, WithDotsKeeps
<1>10. g = WithDots(Ialloc(img, T_DIR), mk.inode, q)  BY DEF m
<1> HIDE DEF g
<1>11. m.ent \in [Ino -> [Entry -> Ino \cup {None}]] /\ m.type \in [Ino -> Nat] /\ m.nlink \in [Ino -> Nat]
  BY <1>5 DEF Format
<1>12. "." \in Entry /\ ".." \in Entry /\ Name \subseteq Entry  BY DEF Entry
<1>13. /\ \A j \in Ino, x \in Entry : j # d => g.img.ent[j][x] = img.ent[j][x]
       /\ g.img.ent[d]["."] = d /\ g.img.ent[d][".."] = q
       /\ \A x \in Name : g.img.ent[d][x] = None
  <2>1. g.img.ent = [m.ent EXCEPT ![d]["."] = d, ![d][".."] = q]  BY <1>9
  <2>2. \A j \in Ino, x \in Entry : j # d => g.img.ent[j][x] = m.ent[j][x]  BY <1>11, <2>1
  <2>3. g.img.ent[d] = [m.ent[d] EXCEPT !["."] = d, ![".."] = q]  BY <1>11, <2>1
  <2>4. m.ent[d] \in [Entry -> Ino \cup {None}]  BY <1>11
  <2>5. "." # ".."  OBVIOUS
  <2>6. g.img.ent[d]["."] = d /\ g.img.ent[d][".."] = q  BY <1>12, <2>3, <2>4, <2>5
  <2>7. \A x \in Name : g.img.ent[d][x] = m.ent[d][x]  BY <1>12, <2>3, <2>4, Sizes
  <2> QED  BY <1>5, <1>7, <1>12, <2>2, <2>6, <2>7
<1>14. /\ \A j \in Ino : g.img.type[j] = IF j = d THEN T_DIR ELSE img.type[j]
       /\ \A j \in Ino : g.img.nlink[j] = IF j = d THEN 1 ELSE img.nlink[j]
  <2>1. img.type \in [Ino -> Nat] /\ img.nlink \in [Ino -> Nat]  BY <1>1 DEF Format
  <2> QED  BY <1>5, <1>9, <2>1
<1>15. \A j \in Ino : img.addrs[j][1] # None => g.img.addrs[j][1] # None  BY <1>5, <1>9
<1> QED  BY <1>1, <1>5, <1>9, <1>10, <1>13, <1>14, <1>15, ZenonT(30)

\* Another directory under the innermost one.
LEMMA AddDirKeeps ==
  ASSUME MkfsInv, AddDir
  PROVE  MkfsInv'
<1> USE Sizes
<1> SUFFICES ASSUME program' = "mkfs"
             PROVE  (MkType /\ InOrder(img) /\ EachOnce(img, mk.block) /\ Taken /\ Stack /\ Naming /\ Given)'
  BY DEF MkfsInv
<1>1. program = "mkfs" /\ mk.dirs # <<>> /\ mk.file = None /\ mk.inode \in Ino
  BY DEF AddDir, Making
<1>2. MkType /\ Taken /\ Stack /\ Naming /\ Given  BY <1>1 DEF MkfsInv
<1>3. /\ mk.dirs \in Seq(Ino) /\ mk.names \in Seq(Name) /\ mk.block \in METABLOCKS..SIZE
      /\ DOMAIN mk = {"block", "inode", "dirs", "names", "file"}
  BY <1>2 DEF MkType
<1> PICK d \in Ino : d = mk.inode  BY <1>1
<1> PICK n \in Nat : n = Len(mk.dirs) /\ n >= 1  BY <1>1, <1>3, LastFront
<1> PICK q \in Ino : q = mk.dirs[n] /\ q = Last(mk.dirs)  BY <1>1, <1>3, LastFront
<1> DEFINE g == WithDots(Ialloc(img, T_DIR), d, q)
           next(e) == [mk EXCEPT !.inode = @ + 1, !.dirs = Append(@, mk.inode), !.names = Append(@, e)]
<1>4. PICK e \in Name : img.ent[q][e] = None /\ Went(g, next(e))
  BY DEF AddDir
<1>5. g.block <= SIZE /\ img' = g.img /\ mk' = [next(e) EXCEPT !.block = g.block]
  BY <1>4 DEF Went
<1>6. /\ g.block \in METABLOCKS..SIZE
      /\ g.img \in Format /\ g.img.marked = {}
      /\ InOrder(g.img) /\ EachOnce(g.img, g.block)
      /\ \A j \in Ino : img.addrs[j][1] # None => g.img.addrs[j][1] # None
      /\ g.img.addrs[d][1] # None
      /\ \A j \in Ino : g.img.type[j] = IF j = d THEN T_DIR ELSE img.type[j]
      /\ \A j \in Ino : g.img.nlink[j] = IF j = d THEN 1 ELSE img.nlink[j]
      /\ \A j \in Ino, x \in Entry : j # d => g.img.ent[j][x] = img.ent[j][x]
      /\ g.img.ent[d]["."] = d /\ g.img.ent[d][".."] = q
      /\ \A x \in Name : g.img.ent[d][x] = None
  BY <1>1, <1>5, NewDirImg
<1>7. /\ mk' = [block |-> g.block, inode |-> d + 1, dirs |-> Append(mk.dirs, d),
                names |-> Append(mk.names, e), file |-> mk.file]
  BY <1>3, <1>5, <1>2 DEF MkType
<1> HIDE DEF g, next
<1>8. /\ mk'.block = g.block /\ mk'.inode = d + 1 /\ mk'.file = None
      /\ mk'.dirs \in Seq(Ino) /\ Len(mk'.dirs) = n + 1 /\ mk'.dirs # <<>>
      /\ mk'.dirs[n + 1] = d /\ \A k \in 1..n : mk'.dirs[k] = mk.dirs[k]
      /\ mk'.names \in Seq(Name) /\ Len(mk'.names) = n
      /\ mk'.names[n] = e /\ \A k \in 1..n - 1 : mk'.names[k] = mk.names[k]
  <2>1. Len(mk.names) = n - 1  BY <1>1, <1>2 DEF Naming
  <2>2. mk'.dirs = Append(mk.dirs, d) /\ mk'.names = Append(mk.names, e) /\ mk'.block = g.block
        /\ mk'.inode = d + 1 /\ mk'.file = None
    BY <1>1, <1>7
  <2>3. (n - 1) + 1 = n  OBVIOUS
  <2> QED  BY <1>3, <2>1, <2>2, <2>3, AppendFacts
<1>9. img.type[d] = T_FREE /\ d \notin Dirs  BY <1>2 DEF Taken, Dirs, Ino
<1>10. Dirs' = Dirs \cup {d}  BY <1>5, <1>6 DEF Dirs
<1>11. \A k \in 1..n : mk.dirs[k] \in Dirs  BY <1>2 DEF Stack
<1>12. \A c \in Dirs : c \in Ino /\ c < d /\ c # d
  <2> TAKE c \in Dirs
  <2>1. c \in Ino /\ img.type[c] = T_DIR  BY DEF Dirs
  <2>2. c < d  BY <1>2, <2>1 DEF Taken
  <2>3. c # d  BY <1>9
  <2> QED  BY <2>1, <2>2, <2>3
<1>13. q \in Dirs
  <2>1. n \in 1..n  OBVIOUS
  <2> QED  BY <1>11, <2>1
<1>14. Dirs \subseteq Ino /\ Name \subseteq Entry /\ "." \in Entry /\ ".." \in Entry  BY DEF Dirs, Entry
<1>15. MkType'
  <2>1. d + 1 \in 1..NINODES + 1  BY DEF Ino
  <2> QED  BY <1>3, <1>5, <1>6, <1>7, <1>8, <2>1 DEF MkType
<1>16. Taken'
  <2>1. (\A i \in Ino : IF i < mk.inode
           THEN img.type[i] \in {T_DIR, T_FILE} /\ img.nlink[i] = 1
           ELSE img.type[i] = T_FREE)'
    <3> SUFFICES ASSUME NEW i \in Ino
                 PROVE  IF i < mk'.inode
                        THEN img'.type[i] \in {T_DIR, T_FILE} /\ img'.nlink[i] = 1
                        ELSE img'.type[i] = T_FREE
      OBVIOUS
    <3>1. IF i < d THEN img.type[i] \in {T_DIR, T_FILE} /\ img.nlink[i] = 1 ELSE img.type[i] = T_FREE
      BY <1>2 DEF Taken
    <3>2. i \in Int /\ d \in Int  BY DEF Ino
    <3>3. /\ img'.type[i] = IF i = d THEN T_DIR ELSE img.type[i]
          /\ img'.nlink[i] = IF i = d THEN 1 ELSE img.nlink[i]
      BY <1>5, <1>6
    <3>4. mk'.inode = d + 1  BY <1>8
    <3> QED  BY <3>1, <3>2, <3>3, <3>4
  <2>2. (\A i \in Ino : i \notin Dirs => \A x \in Entry : img.ent[i][x] = None)'
    BY <1>2, <1>5, <1>6, <1>10 DEF Taken
  <2>3. (\A c \in Dirs : img.ent[c]["."] = c /\ img.ent[c][".."] \in Dirs /\ img.addrs[c][1] # None)'
    BY <1>2, <1>5, <1>6, <1>10, <1>12, <1>13, <1>14 DEF Taken
  <2> QED  BY <2>1, <2>2, <2>3 DEF Taken
<1>17. Stack'
  <2>1. mk.inode # ROOTINO
    BY <1>1, <1>2 DEF Stack
  <2>2. mk'.inode # ROOTINO  BY <1>8 DEF Ino
  <2>3. mk'.dirs[1] = ROOTINO
    BY <1>2, <1>8, <2>1 DEF Stack
  <2>4. (ROOTINO \in Dirs /\ img.ent[ROOTINO][".."] = ROOTINO)'
    BY <1>2, <1>5, <1>6, <1>10, <1>12, <1>14, <2>1 DEF Stack
  <2>5. \A k \in 1..n + 1 : mk'.dirs[k] \in Dirs'
    <3> TAKE k \in 1..n + 1
    <3>1. CASE k = n + 1  BY <1>8, <1>10, <3>1
    <3>2. CASE k # n + 1
      <4>1. k \in 1..n  BY <3>2
      <4> QED  BY <1>8, <1>10, <1>11, <4>1
    <3> QED  BY <3>1, <3>2
  <2>6. \A k, l \in 1..n + 1 : k < l => mk'.dirs[k] < mk'.dirs[l]
    <3> TAKE k, l \in 1..n + 1
    <3> HAVE k < l
    <3>1. CASE l = n + 1  BY <1>8, <1>11, <1>12, <3>1, SMTT(30)
    <3>2. CASE l # n + 1
      <4>1. k \in 1..n /\ l \in 1..n  BY <3>2
      <4> QED  BY <1>2, <1>8, <4>1 DEF Stack
    <3> QED  BY <3>1, <3>2
  <2>7. \A k \in 1..n : img'.ent[mk'.dirs[k + 1]][".."] = mk'.dirs[k]
    <3> TAKE k \in 1..n
    <3>1. CASE k = n
      <4>1. mk'.dirs[k + 1] = d /\ mk'.dirs[k] = q  BY <1>8, <3>1
      <4>2. img'.ent[d][".."] = q  BY <1>5, <1>6
      <4> QED  BY <4>1, <4>2
    <3>2. CASE k # n
      <4>1. k \in 1..n - 1 /\ k + 1 \in 1..n  BY <3>2
      <4>2. img.ent[mk.dirs[k + 1]][".."] = mk.dirs[k]  BY <1>2, <4>1 DEF Stack
      <4> PICK c \in Ino : c = mk.dirs[k + 1] /\ c # d  BY <1>11, <1>12, <4>1
      <4>3. mk'.dirs[k + 1] = c /\ mk'.dirs[k] = mk.dirs[k]  BY <1>8, <4>1
      <4>4. img'.ent[c][".."] = img.ent[c][".."]  BY <1>5, <1>6, <1>14
      <4> QED  BY <4>2, <4>3, <4>4
    <3> QED  BY <3>1, <3>2
  <2>8. Len(mk'.dirs) = n + 1 /\ (n + 1) - 1 = n /\ mk'.file = None /\ mk'.dirs # <<>>  BY <1>8
  <2> QED  BY <2>2, <2>3, <2>4, <2>5, <2>6, <2>7, <2>8 DEF Stack
<1>18. Naming'
  <2>1. \A k \in 1..n : img'.ent[mk'.dirs[k]][mk'.names[k]] = None
    <3> TAKE k \in 1..n
    <3> PICK c \in Ino : c = mk.dirs[k] /\ c # d  BY <1>11, <1>12
    <3>1. mk'.dirs[k] = c  BY <1>8
    <3>2. \A x \in Name : img'.ent[c][x] = img.ent[c][x]  BY <1>5, <1>6, <1>14
    <3>3. CASE k = n
      <4>1. mk'.names[k] \in Name /\ img.ent[c][mk'.names[k]] = None  BY <1>4, <1>8, <3>3
      <4> QED  BY <3>1, <3>2, <4>1
    <3>4. CASE k # n
      <4>1. k \in 1..n - 1  BY <3>4
      <4>2. Len(mk.names) = n - 1  BY <1>1, <1>2 DEF Naming
      <4>3. img.ent[mk.dirs[k]][mk.names[k]] = None  BY <1>2, <4>1, <4>2 DEF Naming
      <4>4. mk.names[k] \in Name  BY <1>3, <4>1, <4>2, ElementOfSeq
      <4>5. mk'.names[k] = mk.names[k]  BY <1>8, <4>1
      <4> QED  BY <3>1, <3>2, <4>3, <4>4, <4>5
    <3> QED  BY <3>3, <3>4
  <2> QED  BY <1>8, <2>1 DEF Naming
<1>19. Given'
  <2>1. \A i : Open(i)' <=> Open(i) \/ i = d
    <3> TAKE i
    <3>1. Open(i) <=> i = None \/ \E k \in 1..n : mk.dirs[k] = i  BY <1>1 DEF Open
    <3>2. Open(i)' <=> i = None \/ \E k \in 1..n + 1 : mk'.dirs[k] = i  BY <1>8 DEF Open
    <3>3. 1..n + 1 = (1..n) \cup {n + 1}  OBVIOUS
    <3> QED  BY <1>8, <3>1, <3>2, <3>3
  <2>2. \A c \in Dirs', x \in Name : img'.ent[c][x] # None => c \in Dirs /\ img'.ent[c][x] = img.ent[c][x]
    BY <1>5, <1>6, <1>10, <1>12, <1>14
  <2>3. ASSUME NEW c \in Dirs', NEW x \in Name, img'.ent[c][x] # None
        PROVE  /\ c < img'.ent[c][x] /\ img'.ent[c][x] < mk'.inode
               /\ (~Open(img.ent[c][x]))'
               /\ img'.ent[c][x] \in Dirs' => img'.ent[img'.ent[c][x]][".."] = c
    <3>1. c \in Dirs /\ img'.ent[c][x] = img.ent[c][x]  BY <2>2, <2>3
    <3>2. PICK i : i = img.ent[c][x]  OBVIOUS
    <3>3. /\ c < i /\ i < d /\ ~Open(i)
          /\ i \in Dirs => img.ent[i][".."] = c
      BY <1>2, <2>3, <3>1, <3>2 DEF Given
    <3>4. i \in Ino  BY <1>2, <1>14, <2>3, <3>1, <3>2, FormatFacts DEF MkType
    <3>5. i # d /\ i < d + 1  BY <3>3, <3>4 DEF Ino
    <3>6. img'.ent[c][x] = i  BY <3>1, <3>2
    <3>7. ~Open(i)'  BY <2>1, <3>3, <3>5
    <3>8. (~Open(img.ent[c][x]))'  BY <3>6, <3>7 DEF Open
    <3>9. i \in Dirs' => img'.ent[i][".."] = c
      <4>1. img'.ent[i][".."] = img.ent[i][".."]  BY <1>5, <1>6, <1>14, <3>4, <3>5
      <4> QED  BY <1>10, <3>3, <3>5, <4>1
    <3> QED  BY <1>8, <3>3, <3>5, <3>6, <3>8, <3>9
  <2>4. \A c, b \in Dirs', x, y \in Name :
           img'.ent[c][x] # None /\ img'.ent[c][x] = img'.ent[b][y] => c = b /\ x = y
    BY <1>2, <2>2 DEF Given
  <2>5. \A i \in Ino : i < mk'.inode /\ ~Open(i)' => \E c \in Dirs', x \in Name : img'.ent[c][x] = i
    <3> TAKE i \in Ino
    <3> HAVE i < mk'.inode /\ ~Open(i)'
    <3>1. ~Open(i) /\ i # d  BY <2>1
    <3>2. i < d  BY <1>8, <3>1 DEF Ino
    <3>3. PICK c \in Dirs, x \in Name : img.ent[c][x] = i  BY <1>2, <3>1, <3>2 DEF Given
    <3>4. c \in Dirs' /\ img'.ent[c][x] = i  BY <1>5, <1>6, <1>10, <1>12, <1>14, <3>3
    <3> QED  BY <3>4
  <2>6. (\A c \in Dirs, x \in Name : img.ent[c][x] # None =>
           /\ c < img.ent[c][x] /\ img.ent[c][x] < mk.inode
           /\ ~Open(img.ent[c][x])
           /\ img.ent[c][x] \in Dirs => img.ent[img.ent[c][x]][".."] = c)'
    BY <2>3
  <2> QED  BY <2>4, <2>5, <2>6 DEF Given
<1>20. (InOrder(img) /\ EachOnce(img, mk.block))'  BY <1>5, <1>6, <1>8
<1> QED  BY <1>15, <1>16, <1>17, <1>18, <1>19, <1>20

\* The root, first.
LEMMA AddRootKeeps ==
  ASSUME MkfsInv, AddRoot
  PROVE  MkfsInv'
<1> USE Sizes
<1> SUFFICES ASSUME program' = "mkfs"
             PROVE  (MkType /\ InOrder(img) /\ EachOnce(img, mk.block) /\ Taken /\ Stack /\ Naming /\ Given)'
  BY DEF MkfsInv
<1>1. program = "mkfs" /\ mk.inode = 1 /\ 1 \in Ino
  BY DEF AddRoot, Making, Ino
<1>2. MkType /\ Taken /\ Stack /\ Naming /\ Given  BY <1>1 DEF MkfsInv
<1>3. mk.dirs = <<>> /\ mk.file = None /\ mk.names = <<>>  BY <1>1, <1>2 DEF Stack, Naming
<1> DEFINE g == WithDots(Ialloc(img, T_DIR), 1, 1)
           next(t) == [mk EXCEPT !.inode = @ + 1, !.dirs = t]
<1>4. PICK t : t = <<1>> /\ Went(g, next(t))  BY DEF AddRoot
<1>5. g.block <= SIZE /\ img' = g.img /\ mk' = [next(t) EXCEPT !.block = g.block]
  BY <1>4 DEF Went
<1>6. /\ g.block \in METABLOCKS..SIZE
      /\ g.img \in Format /\ g.img.marked = {}
      /\ InOrder(g.img) /\ EachOnce(g.img, g.block)
      /\ \A j \in Ino : img.addrs[j][1] # None => g.img.addrs[j][1] # None
      /\ g.img.addrs[1][1] # None
      /\ \A j \in Ino : g.img.type[j] = IF j = 1 THEN T_DIR ELSE img.type[j]
      /\ \A j \in Ino : g.img.nlink[j] = IF j = 1 THEN 1 ELSE img.nlink[j]
      /\ \A j \in Ino, x \in Entry : j # 1 => g.img.ent[j][x] = img.ent[j][x]
      /\ g.img.ent[1]["."] = 1 /\ g.img.ent[1][".."] = 1
      /\ \A x \in Name : g.img.ent[1][x] = None
  BY <1>1, <1>5, NewDirImg
<1>7. mk' = [block |-> g.block, inode |-> 2, dirs |-> <<1>>, names |-> <<>>, file |-> None]
  <2> HIDE DEF g
  <2>1. mk' = [block |-> g.block, inode |-> mk.inode + 1, dirs |-> t, names |-> mk.names, file |-> mk.file]
    BY <1>2, <1>5 DEF MkType
  <2> QED  BY <1>1, <1>3, <1>4, <2>1
<1> HIDE DEF g, next
<1>8. /\ mk'.block = g.block /\ mk'.inode = 2 /\ mk'.file = None /\ mk'.dirs = <<1>> /\ mk'.names = <<>>
      /\ Len(mk'.dirs) = 1 /\ mk'.dirs[1] = 1 /\ mk'.dirs \in Seq(Ino) /\ Len(mk'.names) = 0
      /\ mk'.dirs # <<>>
  BY <1>1, <1>7
<1>9. \A i \in Ino : img.type[i] = T_FREE  BY <1>1, <1>2 DEF Taken, Ino
<1>10. Dirs' = {1}  BY <1>1, <1>5, <1>6, <1>9 DEF Dirs
<1>11. Name \subseteq Entry /\ "." \in Entry /\ ".." \in Entry  BY DEF Entry
<1>12. MkType'
  <2>1. 2 \in 1..NINODES + 1 /\ <<>> \in Seq(Name)  OBVIOUS
  <2> QED  BY <1>5, <1>6, <1>7, <1>8, <2>1 DEF MkType
<1>13. Taken'
  <2>1. (\A i \in Ino : IF i < mk.inode
           THEN img.type[i] \in {T_DIR, T_FILE} /\ img.nlink[i] = 1
           ELSE img.type[i] = T_FREE)'
    <3> SUFFICES ASSUME NEW i \in Ino
                 PROVE  IF i < 2
                        THEN img'.type[i] \in {T_DIR, T_FILE} /\ img'.nlink[i] = 1
                        ELSE img'.type[i] = T_FREE
      BY <1>8
    <3>1. i < 2 <=> i = 1  BY DEF Ino
    <3> QED  BY <1>5, <1>6, <1>9, <3>1
  <2>2. \A i \in Ino : i # 1 => \A x \in Entry : img'.ent[i][x] = None
    <3>1. \A i \in Ino : i \notin Dirs  BY <1>9 DEF Dirs
    <3> QED  BY <1>2, <1>5, <1>6, <3>1 DEF Taken
  <2>3. img'.ent[1]["."] = 1 /\ img'.ent[1][".."] = 1 /\ img'.addrs[1][1] # None
    BY <1>5, <1>6
  <2> QED  BY <1>10, <2>1, <2>2, <2>3 DEF Taken
<1>14. Stack'
  <2>1. mk'.inode # 1  BY <1>8
  <2>2. img'.ent[1][".."] = 1  BY <1>5, <1>6
  <2>3. \A k \in 1..1 : k = 1  OBVIOUS
  <2> QED  BY <1>8, <1>10, <2>1, <2>2, <2>3 DEF Stack
<1>15. Naming'
  BY <1>8 DEF Naming
<1>16. Given'
  <2>1. \A c \in Dirs', x \in Name : img'.ent[c][x] = None
    BY <1>5, <1>6, <1>10
  <2>2. \A i \in Ino : i < mk'.inode => i = 1  BY <1>8 DEF Ino
  <2>3. Open(1)'  BY <1>8 DEF Open
  <2> QED  BY <2>1, <2>2, <2>3 DEF Given
<1>17. (InOrder(img) /\ EachOnce(img, mk.block))'  BY <1>5, <1>6, <1>8
<1> QED  BY <1>12, <1>13, <1>14, <1>15, <1>16, <1>17

\* A file.
LEMMA AddFileKeeps ==
  ASSUME MkfsInv, AddFile
  PROVE  MkfsInv'
<1> USE Sizes
<1>1. program = "mkfs" /\ mk.dirs # <<>> /\ mk.file = None /\ mk.inode \in Ino
  BY DEF AddFile, Making
<1> SUFFICES (MkType /\ InOrder(img) /\ EachOnce(img, mk.block) /\ Taken /\ Stack /\ Naming /\ Given)'
  BY DEF MkfsInv
<1>2. MkType /\ Taken /\ Stack /\ Naming /\ Given /\ InOrder(img) /\ EachOnce(img, mk.block)
  BY <1>1 DEF MkfsInv
<1>3. /\ mk.dirs \in Seq(Ino) /\ mk.names \in Seq(Name) /\ mk.block \in METABLOCKS..SIZE
      /\ img \in Format
  BY <1>2 DEF MkType
<1> PICK d \in Ino : d = mk.inode  BY <1>1
<1> PICK n \in Nat : n = Len(mk.dirs) /\ n >= 1  BY <1>1, <1>3, LastFront
<1> PICK q \in Ino : q = mk.dirs[n] /\ q = Last(mk.dirs)  BY <1>1, <1>3, LastFront
<1>4. PICK e \in Name :
         /\ img.ent[q][e] = None
         /\ mk' = [mk EXCEPT !.inode = @ + 1, !.file = mk.inode, !.names = Append(@, e)]
  BY DEF AddFile
<1>5. img' = Ialloc(img, T_FILE)  BY DEF AddFile
<1>6. /\ img' \in Format /\ img'.addrs = img.addrs /\ img'.ind = img.ind /\ img'.ent = img.ent
      /\ img'.marked = img.marked
      /\ \A j \in Ino : img'.type[j] = IF j = d THEN T_FILE ELSE img.type[j]
      /\ \A j \in Ino : img'.nlink[j] = IF j = d THEN 1 ELSE img.nlink[j]
  BY <1>3, <1>5 DEF Ialloc, Format
<1>7. mk' = [block |-> mk.block, inode |-> d + 1, dirs |-> mk.dirs,
             names |-> Append(mk.names, e), file |-> d]
  BY <1>2, <1>4 DEF MkType
<1>8. /\ mk'.block = mk.block /\ mk'.inode = d + 1 /\ mk'.file = d /\ mk'.dirs = mk.dirs
      /\ mk'.names \in Seq(Name) /\ Len(mk'.names) = n
      /\ mk'.names[n] = e /\ \A k \in 1..n - 1 : mk'.names[k] = mk.names[k]
  <2>1. Len(mk.names) = n - 1  BY <1>1, <1>2 DEF Naming
  <2>2. (n - 1) + 1 = n  OBVIOUS
  <2> QED  BY <1>3, <1>7, <2>1, <2>2, AppendFacts
<1>9. img.type[d] = T_FREE /\ d \notin Dirs  BY <1>2 DEF Taken, Dirs, Ino
<1>10. Dirs' = Dirs  BY <1>6, <1>9 DEF Dirs
<1>11. \A k \in 1..n : mk.dirs[k] \in Dirs  BY <1>2 DEF Stack
<1>12. d # None /\ d \in Int  BY DEF Ino
<1>13. MkType'
  <2>1. d + 1 \in 1..NINODES + 1  BY DEF Ino
  <2> QED  BY <1>2, <1>3, <1>6, <1>7, <1>8, <2>1 DEF MkType
<1>14. Taken'
  <2>1. (\A i \in Ino : IF i < mk.inode
           THEN img.type[i] \in {T_DIR, T_FILE} /\ img.nlink[i] = 1
           ELSE img.type[i] = T_FREE)'
    <3> SUFFICES ASSUME NEW i \in Ino
                 PROVE  IF i < d + 1
                        THEN img'.type[i] \in {T_DIR, T_FILE} /\ img'.nlink[i] = 1
                        ELSE img'.type[i] = T_FREE
      BY <1>8
    <3>1. IF i < d THEN img.type[i] \in {T_DIR, T_FILE} /\ img.nlink[i] = 1 ELSE img.type[i] = T_FREE
      BY <1>2 DEF Taken
    <3>2. i \in Int  BY DEF Ino
    <3> QED  BY <1>6, <1>12, <3>1, <3>2
  <2> QED  BY <1>2, <1>6, <1>10, <2>1 DEF Taken
<1>15. Stack'
  <2>1. mk.inode # ROOTINO  BY <1>1, <1>2 DEF Stack
  <2>2. mk'.inode # ROOTINO  BY <1>8 DEF Ino
  <2>3. mk'.file = d /\ img'.type[d] = T_FILE  BY <1>6, <1>8
  <2>4. \A k \in 1..n : mk.dirs[k] < d
    <3> TAKE k \in 1..n
    <3> PICK c \in Ino : c = mk.dirs[k] /\ img.type[c] = T_DIR  BY <1>11 DEF Dirs
    <3> QED  BY <1>2 DEF Taken
  <2>5. mk.dirs # <<>> /\ mk.dirs[1] = ROOTINO /\ ROOTINO \in Dirs /\ img.ent[ROOTINO][".."] = ROOTINO
    BY <1>2, <2>1 DEF Stack
  <2>6. \A k, l \in 1..n : k < l => mk.dirs[k] < mk.dirs[l]  BY <1>2 DEF Stack
  <2>7. \A k \in 1..n - 1 : img.ent[mk.dirs[k + 1]][".."] = mk.dirs[k]  BY <1>2 DEF Stack
  <2> QED  BY <1>6, <1>8, <1>10, <1>11, <2>2, <2>3, <2>4, <2>5, <2>6, <2>7 DEF Stack
<1>16. Naming'
  <2>1. \A k \in 1..n : img.ent[mk.dirs[k]][mk'.names[k]] = None
    <3> TAKE k \in 1..n
    <3>1. CASE k = n  BY <1>4, <1>8, <3>1
    <3>2. CASE k # n
      <4>1. k \in 1..n - 1  BY <3>2
      <4>2. Len(mk.names) = n - 1  BY <1>1, <1>2 DEF Naming
      <4>3. img.ent[mk.dirs[k]][mk.names[k]] = None  BY <1>2, <4>1, <4>2 DEF Naming
      <4> QED  BY <1>8, <4>1, <4>3
    <3> QED  BY <3>1, <3>2
  <2> QED  BY <1>1, <1>6, <1>8, <1>12, <2>1 DEF Naming
<1>17. Given'
  <2>1. \A i \in Ino : Open(i)' <=> Open(i) \/ i = d
    BY <1>1, <1>8, SMTT(30) DEF Open, Ino
  <2>2. (\A c \in Dirs, x \in Name : img.ent[c][x] # None =>
           /\ c < img.ent[c][x] /\ img.ent[c][x] < mk.inode
           /\ ~Open(img.ent[c][x])
           /\ img.ent[c][x] \in Dirs => img.ent[img.ent[c][x]][".."] = c)'
    <3> SUFFICES ASSUME NEW c \in Dirs', NEW x \in Name, img'.ent[c][x] # None
                 PROVE  /\ c < img'.ent[c][x] /\ img'.ent[c][x] < mk'.inode
                        /\ (~Open(img.ent[c][x]))'
                        /\ img'.ent[c][x] \in Dirs' => img'.ent[img'.ent[c][x]][".."] = c
      OBVIOUS
    <3>1. c \in Dirs /\ c \in Ino /\ x \in Entry  BY <1>10 DEF Dirs, Entry
    <3>2. PICK i \in Ino : i = img.ent[c][x]  BY <1>3, <1>6, <3>1, FormatFacts
    <3>3. /\ c < i /\ i < d /\ ~Open(i)
          /\ i \in Dirs => img.ent[i][".."] = c
      BY <1>2, <1>6, <3>1, <3>2 DEF Given
    <3>4. i # d /\ i < d + 1  BY <1>12, <3>3 DEF Ino
    <3>5. ~Open(i)'  BY <2>1, <3>3, <3>4
    <3>6. img'.ent[c][x] = i  BY <1>6, <3>2
    <3>7. (~Open(img.ent[c][x]))'  BY <3>5, <3>6 DEF Open
    <3> QED  BY <1>6, <1>8, <1>10, <3>3, <3>4, <3>6, <3>7
  <2>3. (\A c, b \in Dirs, x, y \in Name :
           img.ent[c][x] # None /\ img.ent[c][x] = img.ent[b][y] => c = b /\ x = y)'
    BY <1>2, <1>6, <1>10 DEF Given
  <2>4. (\A i \in Ino : i < mk.inode /\ ~Open(i) => \E c \in Dirs, x \in Name : img.ent[c][x] = i)'
    <3> SUFFICES ASSUME NEW i \in Ino, i < mk'.inode, ~Open(i)'
                 PROVE  \E c \in Dirs', x \in Name : img'.ent[c][x] = i
      OBVIOUS
    <3>1. ~Open(i) /\ i # d  BY <2>1
    <3>2. i < d  BY <1>8, <1>12, <3>1 DEF Ino
    <3> QED  BY <1>2, <1>6, <1>10, <3>1, <3>2 DEF Given
  <2> QED  BY <2>2, <2>3, <2>4 DEF Given
<1>18. (InOrder(img) /\ EachOnce(img, mk.block))'
  BY <1>2, <1>6, <1>8, SameAddrs
<1> QED  BY <1>13, <1>14, <1>15, <1>16, <1>17, <1>18

\* A block of the file.
LEMMA Append1Keeps ==
  ASSUME MkfsInv, Append1
  PROVE  MkfsInv'
<1> USE Sizes
<1> SUFFICES ASSUME program' = "mkfs"
             PROVE  (MkType /\ InOrder(img) /\ EachOnce(img, mk.block) /\ Taken /\ Stack /\ Naming /\ Given)'
  BY DEF MkfsInv
<1>1. program = "mkfs" /\ mk.file # None  BY DEF Append1, Making
<1>2. MkType /\ Taken /\ Stack /\ Naming /\ Given /\ InOrder(img) /\ EachOnce(img, mk.block)
  BY <1>1 DEF MkfsInv
<1>3. img \in Format /\ mk.file \in Ino /\ mk.block \in METABLOCKS..SIZE  BY <1>1, <1>2 DEF MkType
<1> DEFINE g == Grown(img, mk.file, mk.block)
<1>4. g.block <= SIZE /\ img' = g.img /\ mk' = [mk EXCEPT !.block = g.block]
  BY DEF Append1, Went
<1>5. g.block \in METABLOCKS..SIZE /\ Grew(img, g.img, mk.file) /\ EachOnce(g.img, g.block)
  BY <1>2, <1>3, <1>4, GrownKeeps
<1> HIDE DEF g
<1>6. /\ mk' = [block |-> g.block, inode |-> mk.inode, dirs |-> mk.dirs, names |-> mk.names, file |-> mk.file]
      /\ mk'.block = g.block /\ mk'.inode = mk.inode /\ mk'.dirs = mk.dirs /\ mk'.names = mk.names
      /\ mk'.file = mk.file
  BY <1>2, <1>4 DEF MkType
<1>7. /\ img' \in Format /\ img'.type = img.type /\ img'.nlink = img.nlink /\ img'.ent = img.ent
      /\ img'.marked = img.marked /\ InOrder(img')
      /\ \A j \in Ino : img.addrs[j][1] # None => img'.addrs[j][1] # None
  BY <1>4, <1>5 DEF Grew
<1>8. Dirs' = Dirs /\ Dirs \subseteq Ino  BY <1>7 DEF Dirs
<1>9. MkType'  BY <1>2, <1>5, <1>6, <1>7 DEF MkType
<1>10. Taken'  BY <1>2, <1>6, <1>7, <1>8 DEF Taken
<1>11. Stack'  BY <1>2, <1>6, <1>7, <1>8 DEF Stack
<1>12. Naming'  BY <1>2, <1>6, <1>7 DEF Naming
<1>13. Given'  BY <1>2, <1>6, <1>7, <1>8 DEF Given, Open
<1>14. (InOrder(img) /\ EachOnce(img, mk.block))'  BY <1>4, <1>5, <1>6, <1>7
<1> QED  BY <1>9, <1>10, <1>11, <1>12, <1>13, <1>14

\* The entry e of the directory d is given to i, which was open and is complete.
Gives(d, e, i) ==
  /\ img' \in Format /\ Dirs' = Dirs /\ Dirs \subseteq Ino /\ mk'.inode = mk.inode
  /\ img.ent[d][e] = None /\ img'.ent[d][e] = i
  /\ \A j \in Ino, x \in Entry : j # d \/ x # e => img'.ent[j][x] = img.ent[j][x]
  /\ \A j \in Ino : img'.ent[j][".."] = img.ent[j][".."]
  /\ d \in Dirs /\ d < i /\ i < mk.inode /\ Open(i)
  /\ i \in Dirs => img.ent[i][".."] = d
  /\ \A j \in Ino : Open(j)' <=> Open(j) /\ j # i

LEMMA GivenKeeps ==
  ASSUME Given, NEW d \in Ino, NEW e \in Name, NEW i \in Ino, Gives(d, e, i)
  PROVE  Given'
<1>1. Given  OBVIOUS
<1>2. /\ img' \in Format /\ Dirs' = Dirs /\ Dirs \subseteq Ino /\ mk'.inode = mk.inode
      /\ img.ent[d][e] = None /\ img'.ent[d][e] = i
      /\ \A j \in Ino, x \in Entry : j # d \/ x # e => img'.ent[j][x] = img.ent[j][x]
      /\ \A j \in Ino : img'.ent[j][".."] = img.ent[j][".."]
      /\ d \in Dirs /\ d < i /\ i < mk.inode /\ Open(i)
      /\ i \in Dirs => img.ent[i][".."] = d
      /\ \A j \in Ino : Open(j)' <=> Open(j) /\ j # i
  BY DEF Gives
<1>3. (\A c \in Dirs, x \in Name : c \in Ino /\ x \in Entry) /\ e \in Entry  BY <1>2 DEF Entry
<1>4. i # None /\ i \in Int /\ d \in Int  BY DEF Ino
<1>5. (\A c \in Dirs, x \in Name : img.ent[c][x] # None =>
         /\ c < img.ent[c][x] /\ img.ent[c][x] < mk.inode
         /\ ~Open(img.ent[c][x])
         /\ img.ent[c][x] \in Dirs => img.ent[img.ent[c][x]][".."] = c)'
  <2> SUFFICES ASSUME NEW c \in Dirs', NEW x \in Name, img'.ent[c][x] # None
               PROVE  /\ c < img'.ent[c][x] /\ img'.ent[c][x] < mk'.inode
                      /\ (~Open(img.ent[c][x]))'
                      /\ img'.ent[c][x] \in Dirs' => img'.ent[img'.ent[c][x]][".."] = c
    OBVIOUS
  <2>1. c \in Dirs /\ c \in Ino /\ x \in Entry  BY <1>2, <1>3
  <2>2. PICK j \in Ino : j = img'.ent[c][x]
    <3>1. img' \in Format  BY <1>2
    <3>2. img'.ent[c][x] \in Ino \cup {None}  BY <2>1, <3>1, FormatFacts
    <3> QED  BY <3>2
  <2>3. c < j /\ j < mk.inode /\ ~Open(j)' /\ (j \in Dirs => img.ent[j][".."] = c)
    <3>1. CASE c = d /\ x = e  BY <1>2, <2>2, <3>1
    <3>2. CASE ~(c = d /\ x = e)
      <4>1. img.ent[c][x] = j  BY <1>2, <2>1, <2>2, <3>2
      <4>2. j # None  BY <2>2 DEF Ino
      <4>3. c < j /\ j < mk.inode /\ ~Open(j) /\ (j \in Dirs => img.ent[j][".."] = c)
        BY <1>1, <2>1, <4>1, <4>2 DEF Given
      <4> QED  BY <1>2, <2>2, <4>3
    <3> QED  BY <3>1, <3>2
  <2>4. (~Open(img.ent[c][x]))'  BY <2>2, <2>3 DEF Open
  <2> QED  BY <1>2, <2>2, <2>3, <2>4
<1>6. \A c, b \in Dirs, x, y \in Name :
         img'.ent[c][x] # None /\ img'.ent[c][x] = img'.ent[b][y] => c = b /\ x = y
  <2> TAKE c, b \in Dirs, x, y \in Name
  <2>0. HAVE img'.ent[c][x] # None /\ img'.ent[c][x] = img'.ent[b][y]
  <2>1. \A a \in Dirs, z \in Name : (a # d \/ z # e) => img'.ent[a][z] = img.ent[a][z]
    BY <1>2, <1>3
  <2>2. \A a \in Dirs, z \in Name : (a # d \/ z # e) => img'.ent[a][z] # i
    <3> TAKE a \in Dirs, z \in Name
    <3> HAVE a # d \/ z # e
    <3>1. img'.ent[a][z] = img.ent[a][z]  BY <2>1
    <3>2. img.ent[a][z] = i => ~Open(i)  BY <1>1, <1>4 DEF Given
    <3> QED  BY <1>2, <3>1, <3>2
  <2>3. CASE (c # d \/ x # e) /\ (b # d \/ y # e)
    <3>1. img.ent[c][x] # None /\ img.ent[c][x] = img.ent[b][y]  BY <2>0, <2>1, <2>3
    <3> QED  BY <1>1, <2>0, <3>1 DEF Given
  <2>4. CASE c = d /\ x = e
    <3>1. img'.ent[b][y] = i  BY <1>2, <2>0, <2>4
    <3> QED  BY <2>0, <2>2, <2>4, <3>1
  <2>5. CASE b = d /\ y = e
    <3>1. img'.ent[c][x] = i  BY <1>2, <2>0, <2>5
    <3> QED  BY <2>0, <2>2, <2>5, <3>1
  <2> QED  BY <2>3, <2>4, <2>5
<1>7. (\A j \in Ino : j < mk.inode /\ ~Open(j) => \E c \in Dirs, x \in Name : img.ent[c][x] = j)'
  <2> SUFFICES ASSUME NEW j \in Ino, j < mk.inode, ~Open(j)'
               PROVE  \E c \in Dirs, x \in Name : img'.ent[c][x] = j
    BY <1>2
  <2>1. CASE j = i  BY <1>2, <2>1
  <2>2. CASE j # i
    <3>1. PICK c \in Dirs, x \in Name : img.ent[c][x] = j  BY <1>1, <1>2, <2>2 DEF Given
    <3>2. j # None  BY DEF Ino
    <3>3. c # d \/ x # e  BY <1>2, <3>1, <3>2
    <3> QED  BY <1>2, <1>3, <3>1, <3>3
  <2> QED  BY <2>1, <2>2
<1> QED  BY <1>2, <1>5, <1>6, <1>7 DEF Given

\* What the end of a file and the end of a directory do: i is entered in d as e, t stays open.
Enters(d, e, i, t) ==
  LET g == Added(img, d, e, i, mk.block) IN
  /\ g.block <= SIZE
  /\ img' = g.img
  /\ mk' = [block |-> g.block, inode |-> mk.inode, dirs |-> t, names |-> Front(mk.names), file |-> None]

\* An entry for i in the directory d it belongs to, once i is complete.
LEMMA EntryKeeps ==
  ASSUME MkfsInv, program = "mkfs",
         NEW n \in Nat, n >= 1, n = Len(mk.names), n <= Len(mk.dirs),
         NEW d \in Ino, d = mk.dirs[n], NEW e \in Name, e = mk.names[n], NEW i \in Ino,
         \/ i = mk.file
         \/ mk.file = None /\ Len(mk.dirs) = n + 1 /\ i = mk.dirs[n + 1],
         NEW t \in Seq(Ino), t # <<>>, Len(t) = n, \A k \in 1..n : t[k] = mk.dirs[k],
         Enters(d, e, i, t)
  PROVE  MkfsInv'
<1> USE Sizes
<1>1. MkType /\ Taken /\ Stack /\ Naming /\ Given /\ InOrder(img) /\ EachOnce(img, mk.block)
  BY DEF MkfsInv
<1>2. mk.block \in METABLOCKS..SIZE /\ img \in Format /\ img.marked = {}
      /\ mk.names \in Seq(Name) /\ mk.dirs \in Seq(Ino) /\ mk.inode \in 1..NINODES + 1
  BY <1>1 DEF MkType
<1>3. e \in Entry /\ Name \subseteq Entry /\ "." \in Entry /\ ".." \in Entry  BY DEF Entry
<1> DEFINE g == Added(img, d, e, i, mk.block)
<1>0. g.block <= SIZE /\ img' = g.img /\
      mk' = [block |-> g.block, inode |-> mk.inode, dirs |-> t, names |-> Front(mk.names), file |-> None]
  BY DEF Enters
<1>4. /\ g.block \in METABLOCKS..SIZE
      /\ Entered(img, g.img, d, e, i)
      /\ EachOnce(g.img, g.block)
  BY <1>0, <1>1, <1>2, <1>3, AddedKeeps
<1>5. img' = g.img  BY <1>0
<1>6. mk'.block = g.block /\ mk'.inode = mk.inode /\ mk'.dirs = t /\ mk'.names = Front(mk.names)
      /\ mk'.file = None
      /\ mk' = [block |-> g.block, inode |-> mk.inode, dirs |-> t, names |-> Front(mk.names), file |-> None]
  <2> HIDE DEF g
  <2> QED  BY <1>0
<1> HIDE DEF g
<1>7. /\ img' \in Format /\ img'.type = img.type /\ img'.nlink = img.nlink /\ img'.marked = img.marked
      /\ InOrder(img')
      /\ \A j \in Ino : img.addrs[j][1] # None => img'.addrs[j][1] # None
  BY <1>4, <1>5 DEF Entered
<1>8. img.ent \in [Ino -> [Entry -> Ino \cup {None}]]  BY <1>2 DEF Format
<1>9. /\ img'.ent[d][e] = i
      /\ \A j \in Ino, x \in Entry : j # d \/ x # e => img'.ent[j][x] = img.ent[j][x]
  <2>1. img'.ent = [img.ent EXCEPT ![d][e] = i]  BY <1>4, <1>5 DEF Entered
  <2>2. img.ent[d] \in [Entry -> Ino \cup {None}]  BY <1>8
  <2>3. img'.ent[d] = [img.ent[d] EXCEPT ![e] = i]  BY <1>8, <2>1
  <2>4. img'.ent[d][e] = i /\ \A x \in Entry : x # e => img'.ent[d][x] = img.ent[d][x]
    BY <1>3, <2>2, <2>3
  <2>5. \A j \in Ino : j # d => img'.ent[j] = img.ent[j]  BY <1>8, <2>1
  <2> QED  BY <2>4, <2>5
<1>10. \A j \in Ino : img'.ent[j]["."] = img.ent[j]["."] /\ img'.ent[j][".."] = img.ent[j][".."]
  <2>1. "." # e /\ ".." # e  OBVIOUS
  <2> QED  BY <1>3, <1>9, <2>1
<1>11. Dirs' = Dirs /\ Dirs \subseteq Ino  BY <1>7 DEF Dirs
<1>12. /\ Front(mk.names) \in Seq(Name) /\ Len(Front(mk.names)) = n - 1
       /\ \A k \in 1..n - 1 : Front(mk.names)[k] = mk.names[k]
       /\ mk.names # <<>>
  <2>1. mk.names # <<>>  BY EmptySeq
  <2> QED  BY <1>2, <2>1, LastFront, ZenonT(30)
<1>13. Len(mk.dirs) \in Nat /\ (mk.file # None => Len(mk.dirs) = n)
  <2>1. mk.dirs # <<>>  BY EmptySeq
  <2> QED  BY <1>1, <1>2, <2>1, LastFront DEF Naming
<1>14. \A k \in 1..Len(mk.dirs) : mk.dirs[k] \in Dirs  BY <1>1 DEF Stack
<1>15. d \in Dirs
  <2>1. n \in 1..Len(mk.dirs)  BY <1>13
  <2> QED  BY <1>14, <2>1
<1>16. i # None /\ i \in Int /\ d \in Int  BY DEF Ino
<1>17. /\ d < i /\ i < mk.inode /\ Open(i)
       /\ \A k \in 1..n : mk.dirs[k] # i
       /\ i \in Dirs => img.ent[i][".."] = d
       /\ \A j \in Ino : Open(j) => j = i \/ \E k \in 1..n : mk.dirs[k] = j
  <2>1. CASE i = mk.file
    <3>1. Len(mk.dirs) = n  BY <1>13, <1>16, <2>1
    <3>2. n \in 1..n  OBVIOUS
    <3>3. d < i /\ img.type[i] = T_FILE  BY <1>1, <1>16, <2>1, <3>1, <3>2 DEF Stack
    <3>4. i < mk.inode  BY <1>1, <3>3 DEF Taken
    <3>5. i \notin Dirs  BY <3>3 DEF Dirs
    <3>6. Open(i) /\ \A j \in Ino : Open(j) => j = i \/ \E k \in 1..n : mk.dirs[k] = j
      BY <2>1, <3>1 DEF Open
    <3> QED  BY <1>14, <3>1, <3>3, <3>4, <3>5, <3>6
  <2>2. CASE mk.file = None /\ Len(mk.dirs) = n + 1 /\ i = mk.dirs[n + 1]
    <3>1. n \in 1..n + 1 /\ n + 1 \in 1..n + 1 /\ n \in 1..(n + 1) - 1 /\ n < n + 1  OBVIOUS
    <3>2. d < i /\ img.ent[i][".."] = d  BY <1>1, <2>2, <3>1 DEF Stack
    <3>3. i \in Dirs  BY <1>14, <2>2, <3>1
    <3>4. i < mk.inode  BY <1>1, <3>3 DEF Taken, Dirs
    <3>5. \A k \in 1..n : mk.dirs[k] # i
      <4> TAKE k \in 1..n
      <4>1. k \in 1..n + 1 /\ k < n + 1  OBVIOUS
      <4>2. mk.dirs[k] < mk.dirs[n + 1]  BY <1>1, <2>2, <3>1, <4>1 DEF Stack
      <4> QED  BY <1>16, <2>2, <4>2
    <3>6. Open(i)  BY <2>2, <3>1 DEF Open
    <3>7. \A j \in Ino : Open(j) => j = i \/ \E k \in 1..n : mk.dirs[k] = j
      <4> TAKE j \in Ino
      <4> HAVE Open(j)
      <4>1. j # None  BY DEF Ino
      <4>2. PICK k \in 1..n + 1 : mk.dirs[k] = j  BY <2>2, <4>1 DEF Open
      <4>3. CASE k = n + 1  BY <2>2, <4>2, <4>3
      <4>4. CASE k # n + 1
        <5>1. k \in 1..n  BY <4>4
        <5> QED  BY <4>2, <5>1
      <4> QED  BY <4>3, <4>4
    <3> QED  BY <3>2, <3>3, <3>4, <3>5, <3>6, <3>7
  <2> QED  BY <2>1, <2>2
<1>18. \A k \in 1..n : t[k] = mk.dirs[k] /\ k \in 1..Len(mk.dirs)  BY <1>13
<1>19. MkType'
  BY <1>2, <1>4, <1>6, <1>7, <1>12 DEF MkType
<1>20. Taken'
  <2>1. (\A j \in Ino : IF j < mk.inode
           THEN img.type[j] \in {T_DIR, T_FILE} /\ img.nlink[j] = 1
           ELSE img.type[j] = T_FREE)'
    BY <1>1, <1>6, <1>7 DEF Taken
  <2>2. \A j \in Ino : j \notin Dirs => \A x \in Entry : img'.ent[j][x] = None
    BY <1>1, <1>9, <1>15 DEF Taken
  <2>3. \A c \in Dirs : img'.ent[c]["."] = c /\ img'.ent[c][".."] \in Dirs /\ img'.addrs[c][1] # None
    <3> TAKE c \in Dirs
    <3>1. c \in Ino  BY <1>11
    <3>2. img.ent[c]["."] = c /\ img.ent[c][".."] \in Dirs /\ img.addrs[c][1] # None  BY <1>1 DEF Taken
    <3> QED  BY <1>7, <1>10, <3>1, <3>2
  <2> QED  BY <1>11, <2>1, <2>2, <2>3 DEF Taken
<1>21. Stack'
  <2>1. mk.inode # ROOTINO /\ mk.dirs # <<>>
    BY <1>1, EmptySeq DEF Stack
  <2>2. 1 \in 1..n  OBVIOUS
  <2>3. mk'.dirs # <<>> /\ mk'.dirs[1] = ROOTINO /\ ROOTINO \in Dirs' /\ img'.ent[ROOTINO][".."] = ROOTINO
    BY <1>1, <1>6, <1>10, <1>11, <1>18, <2>1, <2>2 DEF Stack
  <2>4. \A k \in 1..n : t[k] \in Dirs  BY <1>14, <1>18
  <2>5. \A k, l \in 1..n : k < l => t[k] < t[l]  BY <1>1, <1>18 DEF Stack
  <2>6. \A k \in 1..n - 1 : img'.ent[t[k + 1]][".."] = t[k]
    <3> TAKE k \in 1..n - 1
    <3>1. k \in 1..n /\ k + 1 \in 1..n /\ k \in 1..Len(mk.dirs) - 1  BY <1>13
    <3>2. img.ent[mk.dirs[k + 1]][".."] = mk.dirs[k]  BY <1>1, <3>1 DEF Stack
    <3>3. mk.dirs[k + 1] \in Ino  BY <1>11, <1>14, <1>18, <3>1
    <3> QED  BY <1>10, <1>18, <3>1, <3>2, <3>3
  <2> QED  BY <1>6, <1>11, <2>1, <2>3, <2>4, <2>5, <2>6 DEF Stack
<1>22. Naming'
  <2>1. \A k \in 1..n - 1 : img'.ent[t[k]][Front(mk.names)[k]] = None
    <3> TAKE k \in 1..n - 1
    <3>1. k \in 1..n /\ k < n /\ n \in 1..n  OBVIOUS
    <3>2. img.ent[mk.dirs[k]][mk.names[k]] = None  BY <1>1, <3>1 DEF Naming
    <3>3. mk.dirs[k] < d  BY <1>1, <1>18, <3>1 DEF Stack
    <3>4. mk.dirs[k] \in Ino  BY <1>11, <1>14, <1>18, <3>1
    <3>5. mk.dirs[k] # d  BY <1>16, <3>3
    <3>6. mk.names[k] \in Entry  BY <1>2, <1>3, <3>1, ElementOfSeq
    <3>7. img'.ent[mk.dirs[k]][mk.names[k]] = None  BY <1>9, <3>2, <3>4, <3>5, <3>6
    <3> QED  BY <1>12, <1>18, <3>1, <3>7
  <2> QED  BY <1>6, <1>12, <2>1 DEF Naming
<1>23. Given'
  <2>1. \A j \in Ino : Open(j)' <=> \E k \in 1..n : mk.dirs[k] = j
    <3> TAKE j \in Ino
    <3>1. j # None  BY DEF Ino
    <3>2. Open(j)' <=> \E k \in 1..n : t[k] = j  BY <1>6, <3>1 DEF Open
    <3> QED  BY <1>18, <3>2
  <2>2. \A j \in Ino : Open(j)' <=> Open(j) /\ j # i
    BY <1>17, <1>18, <2>1 DEF Open
  <2>4. img.ent[d][e] = None
    <3>1. n \in 1..n  OBVIOUS
    <3> QED  BY <1>1, <3>1 DEF Naming
  <2>5. Gives(d, e, i)
    BY <1>6, <1>7, <1>9, <1>10, <1>11, <1>15, <1>17, <2>2, <2>4 DEF Gives
  <2> QED  BY <1>1, <2>5, GivenKeeps
<1>24. (InOrder(img) /\ EachOnce(img, mk.block))'  BY <1>4, <1>5, <1>6, <1>7
<1> QED  BY <1>19, <1>20, <1>21, <1>22, <1>23, <1>24 DEF MkfsInv

\* A file is complete.
LEMMA EndFileKeeps ==
  ASSUME MkfsInv, EndFile
  PROVE  MkfsInv'
<1> SUFFICES ASSUME program' = "mkfs" PROVE MkfsInv'  BY DEF MkfsInv
<1>1. program = "mkfs" /\ mk.file # None  BY DEF EndFile, Making
<1>2. MkType /\ Stack /\ Naming  BY <1>1 DEF MkfsInv
<1>3. mk.dirs \in Seq(Ino) /\ mk.names \in Seq(Name) /\ mk.file \in Ino /\ mk.dirs # <<>>
  BY <1>1, <1>2 DEF MkType, Stack
<1> PICK n \in Nat : n = Len(mk.dirs) /\ n >= 1  BY <1>3, LastFront
<1>4. Len(mk.names) = n /\ mk.names # <<>>  BY <1>1, <1>2, <1>3, EmptySeq DEF Naming
<1> PICK d \in Ino : d = mk.dirs[n] /\ d = Last(mk.dirs)  BY <1>3, LastFront
<1> PICK e \in Name : e = mk.names[n] /\ e = Last(mk.names)  BY <1>3, <1>4, LastFront
<1> PICK i \in Ino : i = mk.file  BY <1>3
<1> DEFINE g == Added(img, d, e, i, mk.block)
<1>5. g.block <= SIZE /\ img' = g.img /\ mk' = [[mk EXCEPT !.file = None, !.names = Front(@)] EXCEPT !.block = g.block]
  BY DEF EndFile, Went
<1>6. mk' = [block |-> g.block, inode |-> mk.inode, dirs |-> mk.dirs, names |-> Front(mk.names), file |-> None]
  <2> HIDE DEF g
  <2> QED  BY <1>2, <1>5 DEF MkType
<1> PICK t \in Seq(Ino) : t = mk.dirs  BY <1>3
<1>7. t # <<>> /\ Len(t) = n /\ (\A k \in 1..n : t[k] = mk.dirs[k]) /\ n <= Len(mk.dirs)  BY <1>3
<1>8. g.block <= SIZE /\ img' = g.img
      /\ mk' = [block |-> g.block, inode |-> mk.inode, dirs |-> t, names |-> Front(mk.names), file |-> None]
  BY <1>5, <1>6
<1>9. Enters(d, e, i, t)  BY <1>8 DEF Enters
<1> QED  BY <1>1, <1>4, <1>7, <1>9, EntryKeeps

\* A directory is complete.
LEMMA EndDirKeeps ==
  ASSUME MkfsInv, EndDir
  PROVE  MkfsInv'
<1> SUFFICES ASSUME program' = "mkfs" PROVE MkfsInv'  BY DEF MkfsInv
<1>1. program = "mkfs" /\ mk.file = None /\ Len(mk.dirs) > 1  BY DEF EndDir, Making
<1>2. MkType /\ Stack /\ Naming  BY <1>1 DEF MkfsInv
<1>3. mk.dirs \in Seq(Ino) /\ mk.names \in Seq(Name) /\ mk.dirs # <<>>
  BY <1>1, <1>2, EmptySeq DEF MkType
<1> PICK t : t = Front(mk.dirs)  OBVIOUS
<1> PICK n \in Nat : n + 1 = Len(mk.dirs) /\ n >= 1
  <2>1. Len(mk.dirs) \in Nat  BY <1>3, LastFront
  <2>2. Len(mk.dirs) - 1 \in Nat /\ (Len(mk.dirs) - 1) + 1 = Len(mk.dirs) /\ Len(mk.dirs) - 1 >= 1
    BY <1>1, <2>1
  <2> QED  BY <2>2
<1>4. Len(mk.names) = n /\ mk.names # <<>>  BY <1>1, <1>2, <1>3, EmptySeq DEF Naming
<1>5. t \in Seq(Ino) /\ Len(t) = n /\ \A k \in 1..n : t[k] = mk.dirs[k]
  <2>1. Len(mk.dirs) - 1 = n  OBVIOUS
  <2> QED  BY <1>3, <2>1, LastFront
<1>6. t # <<>>  BY <1>5, EmptySeq
<1> PICK d \in Ino : d = mk.dirs[n] /\ d = Last(t)
  <2>1. n \in 1..n  OBVIOUS
  <2> QED  BY <1>5, <1>6, <2>1, LastFront
<1> PICK e \in Name : e = mk.names[n] /\ e = Last(mk.names)  BY <1>3, <1>4, LastFront
<1> PICK i \in Ino : i = mk.dirs[n + 1] /\ i = Last(mk.dirs)  BY <1>3, LastFront
<1> DEFINE g == Added(img, d, e, i, mk.block)
<1>7. g.block <= SIZE /\ img' = g.img /\ mk' = [[mk EXCEPT !.dirs = t, !.names = Front(@)] EXCEPT !.block = g.block]
  BY DEF EndDir, Went
<1>8. mk' = [block |-> g.block, inode |-> mk.inode, dirs |-> t, names |-> Front(mk.names), file |-> None]
  <2> HIDE DEF g
  <2> QED  BY <1>1, <1>2, <1>7 DEF MkType
<1>9. n <= Len(mk.dirs)  OBVIOUS
<1>10. g.block <= SIZE /\ img' = g.img  BY <1>7
<1>11. \/ i = mk.file
       \/ mk.file = None /\ Len(mk.dirs) = n + 1 /\ i = mk.dirs[n + 1]
  BY <1>1
<1>12. Enters(d, e, i, t)  BY <1>8, <1>10 DEF Enters
<1> QED  BY <1>1, <1>4, <1>5, <1>6, <1>9, <1>11, <1>12, EntryKeeps

-----------------------------------------------------------------------------
(* Addresses and names of an image.                                         *)

LEMMA AddrsSeq ==
  ASSUME img \in Format, NEW i \in Ino
  PROVE  /\ Addrs(i) \in Seq(Nat) /\ Len(Addrs(i)) = NDIRECT + 1
         /\ Indirect(i) \in Seq(Nat) /\ Len(Indirect(i)) \in {0, NINDIRECT}
         /\ Len(Indirect(i)) = 0 <=> Addrs(i)[NDIRECT + 1] = None
         /\ Len(Indirect(i)) # 0 => \A k \in 1..NINDIRECT : Indirect(i)[k] = img.ind[i][k]
         /\ AllAddrs(i) \in Seq(Nat) /\ Len(AllAddrs(i)) = NDIRECT + 1 + Len(Indirect(i))
         /\ \A k \in 1..NDIRECT + 1 : AllAddrs(i)[k] = Addrs(i)[k]
         /\ \A k \in 1..Len(Indirect(i)) : AllAddrs(i)[NDIRECT + 1 + k] = Indirect(i)[k]
<1> USE Sizes
<1>1. img.addrs[i] \in [1..NDIRECT + 1 -> Nat] /\ img.ind[i] \in [1..NINDIRECT -> Nat]  BY FormatFacts
<1>2. Addrs(i) \in Seq(Nat) /\ Len(Addrs(i)) = NDIRECT + 1
  <2> PICK N \in Nat : N = NDIRECT + 1  OBVIOUS
  <2>1. Addrs(i) \in [1..N -> Nat]  BY <1>1 DEF Addrs
  <2>2. Addrs(i) \in Seq(Nat) /\ Len(Addrs(i)) = N  BY <2>1
  <2> QED  BY <2>2
<1>3. img.ind[i] \in Seq(Nat) /\ Len(img.ind[i]) = NINDIRECT  BY <1>1
<1>4. /\ Indirect(i) \in Seq(Nat) /\ Len(Indirect(i)) \in {0, NINDIRECT}
      /\ Len(Indirect(i)) = 0 <=> Addrs(i)[NDIRECT + 1] = None
      /\ Len(Indirect(i)) # 0 => \A k \in 1..NINDIRECT : Indirect(i)[k] = img.ind[i][k]
  <2>1. CASE Addrs(i)[NDIRECT + 1] = None  BY <2>1, EmptySeq DEF Indirect
  <2>2. CASE Addrs(i)[NDIRECT + 1] # None  BY <1>3, <2>2 DEF Indirect
  <2> QED  BY <2>1, <2>2
<1> PICK n \in Nat : n = Len(Indirect(i))  BY <1>4
<1>5. /\ AllAddrs(i) \in Seq(Nat) /\ Len(AllAddrs(i)) = NDIRECT + 1 + n
      /\ \A k \in 1..NDIRECT + 1 + n : AllAddrs(i)[k] =
            IF k <= NDIRECT + 1 THEN Addrs(i)[k] ELSE Indirect(i)[k - (NDIRECT + 1)]
  <2> DEFINE s == Addrs(i)
             t == Indirect(i)
  <2>1. s \in Seq(Nat) /\ t \in Seq(Nat) /\ Len(s) = NDIRECT + 1 /\ Len(t) = n  BY <1>2, <1>4
  <2>2. AllAddrs(i) = s \o t  BY DEF AllAddrs
  <2> HIDE DEF s, t
  <2>3. /\ s \o t \in Seq(Nat)
        /\ Len(s \o t) = Len(s) + Len(t)
        /\ \A k \in 1..Len(s) + Len(t) : (s \o t)[k] = IF k <= Len(s) THEN s[k] ELSE t[k - Len(s)]
    BY <2>1, ConcatProperties
  <2>4. /\ AllAddrs(i) \in Seq(Nat) /\ Len(AllAddrs(i)) = NDIRECT + 1 + n
        /\ \A k \in 1..NDIRECT + 1 + n : AllAddrs(i)[k] =
              IF k <= NDIRECT + 1 THEN s[k] ELSE t[k - (NDIRECT + 1)]
    BY <2>1, <2>2, <2>3
  <2> QED  BY <2>4 DEF s, t
<1>6. \A k \in 1..NDIRECT + 1 : AllAddrs(i)[k] = Addrs(i)[k]  BY <1>5
<1>7. \A k \in 1..n : AllAddrs(i)[NDIRECT + 1 + k] = Indirect(i)[k]
  <2> TAKE k \in 1..n
  <2>1. /\ NDIRECT + 1 + k \in 1..NDIRECT + 1 + n /\ ~(NDIRECT + 1 + k <= NDIRECT + 1)
        /\ NDIRECT + 1 + k - (NDIRECT + 1) = k
    OBVIOUS
  <2> QED  BY <1>5, <2>1
<1> QED  BY <1>2, <1>4, <1>5, <1>6, <1>7

\* The addresses of inode i, as a set.
LEMMA AddrSet ==
  ASSUME img \in Format, NEW i \in Ino
  PROVE  /\ \A k \in 1..Len(AllAddrs(i)) :
                AllAddrs(i)[k] \in Nat /\ AllAddrs(i)[k] \in ToSet(AllAddrs(i))
         /\ \A a \in ToSet(AllAddrs(i)) : \E k \in 1..Len(AllAddrs(i)) : AllAddrs(i)[k] = a
         /\ \A a \in ToSet(Addrs(i)) : \E k \in 1..NDIRECT + 1 : Addrs(i)[k] = a
         /\ \A k \in 1..NDIRECT + 1 : Addrs(i)[k] \in ToSet(Addrs(i))
<1>1. AllAddrs(i) \in Seq(Nat) /\ Addrs(i) \in Seq(Nat) /\ Len(Addrs(i)) = NDIRECT + 1  BY AddrsSeq
<1>2. DOMAIN AllAddrs(i) = 1..Len(AllAddrs(i)) /\ DOMAIN Addrs(i) = 1..NDIRECT + 1
  BY <1>1, LenProperties
<1>3. \A k \in 1..Len(AllAddrs(i)) : AllAddrs(i)[k] \in Nat  BY <1>1, ElementOfSeq
<1> QED  BY <1>2, <1>3 DEF ToSet

LEMMA SlotFacts ==
  ASSUME img \in Format
  PROVE  /\ \A i \in Ino : \A k \in 1..Len(AllAddrs(i)) : AllAddrs(i)[k] # None =>
               <<i, k>> \in Slots /\ AddrIn(<<i, k>>) = AllAddrs(i)[k]
         /\ \A s \in Slots : /\ s = <<s[1], s[2]>> /\ s[1] \in Ino /\ s[2] \in 1..Len(AllAddrs(s[1]))
                             /\ AddrIn(s) = AllAddrs(s[1])[s[2]] /\ AddrIn(s) # None
                             /\ AddrIn(s) \in Nat
                             /\ s \in Place
         /\ \A a \in Used : \E s \in Slots : AddrIn(s) = a
         /\ \A s \in Slots : AddrIn(s) \in Used
<1> USE Sizes
<1>1. ASSUME NEW i \in Ino, NEW k \in 1..Len(AllAddrs(i)), AllAddrs(i)[k] # None
      PROVE  <<i, k>> \in Slots /\ AddrIn(<<i, k>>) = AllAddrs(i)[k]
  <2>1. Len(AllAddrs(i)) \in Nat /\ Len(AllAddrs(i)) <= NDIRECT + 1 + NINDIRECT  BY AddrsSeq
  <2>2. k \in 1..NDIRECT + 1 + NINDIRECT /\ k <= Len(AllAddrs(i))  BY <2>1
  <2>3. AddrIn(<<i, k>>) = AllAddrs(i)[k]  BY DEF AddrIn
  <2> QED  BY <1>1, <2>2, <2>3 DEF Slots
<1>2. ASSUME NEW s \in Slots
      PROVE  /\ s = <<s[1], s[2]>> /\ s[1] \in Ino /\ s[2] \in 1..Len(AllAddrs(s[1]))
             /\ AddrIn(s) = AllAddrs(s[1])[s[2]] /\ AddrIn(s) # None
             /\ AddrIn(s) \in Nat
             /\ s \in Place
  <2>1. s \in Place /\ s[2] <= Len(AllAddrs(s[1])) /\ AddrIn(s) # None  BY DEF Slots, Place
  <2>2. s = <<s[1], s[2]>> /\ s[1] \in Ino /\ s[2] \in 1..NDIRECT + 1 + NINDIRECT  BY <2>1 DEF Place
  <2>3. Len(AllAddrs(s[1])) \in Nat  BY <2>2, AddrsSeq
  <2>4. s[2] \in 1..Len(AllAddrs(s[1]))  BY <2>1, <2>2, <2>3
  <2>5. AllAddrs(s[1])[s[2]] \in Nat  BY <2>2, <2>4, AddrSet
  <2> QED  BY <2>1, <2>2, <2>4, <2>5 DEF AddrIn
<1>3. \A a \in Used : \E s \in Slots : AddrIn(s) = a  BY DEF Used
<1>4. \A s \in Slots : AddrIn(s) \in Used  BY DEF Used
<1> QED  BY <1>1, <1>2, <1>3, <1>4

\* A block is used if some inode has its address.
LEMMA UsedBy ==
  ASSUME img \in Format
  PROVE  /\ \A a \in Used : a \in Nat /\ a # None /\ \E i \in Ino : a \in ToSet(AllAddrs(i))
         /\ \A i \in Ino : \A a \in ToSet(AllAddrs(i)) : a # None => a \in Used
<1>1. ASSUME NEW a \in Used
      PROVE  a \in Nat /\ a # None /\ \E i \in Ino : a \in ToSet(AllAddrs(i))
  <2>1. PICK s \in Slots : AddrIn(s) = a  BY SlotFacts
  <2>2. s[1] \in Ino /\ s[2] \in 1..Len(AllAddrs(s[1])) /\ a = AllAddrs(s[1])[s[2]] /\ a # None /\ a \in Nat
    BY <2>1, SlotFacts
  <2> QED  BY <2>2, AddrSet
<1>2. ASSUME NEW i \in Ino, NEW a \in ToSet(AllAddrs(i)), a # None
      PROVE  a \in Used
  <2>1. PICK k \in 1..Len(AllAddrs(i)) : AllAddrs(i)[k] = a  BY AddrSet
  <2>2. <<i, k>> \in Slots /\ AddrIn(<<i, k>>) = a  BY <1>2, <2>1, SlotFacts
  <2> QED  BY <2>2, SlotFacts
<1> QED  BY <1>1, <1>2

\* Where addresses are in order, every place that holds one is read.
LEMMA InOrderSlots ==
  ASSUME img \in Format, InOrder(img)
  PROVE  \A s \in Place : /\ s \in Slots <=> Kept(img, s) # None
                          /\ s \in Slots => AddrIn(s) = Kept(img, s)
<1> USE Sizes
<1> TAKE s \in Place
<1> PICK i \in Ino, k \in 1..NDIRECT + 1 + NINDIRECT : s = <<i, k>> /\ s[1] = i /\ s[2] = k
  BY DEF Place
<1>1. /\ Len(Indirect(i)) \in {0, NINDIRECT}
      /\ Len(Indirect(i)) = 0 <=> Addrs(i)[NDIRECT + 1] = None
      /\ Len(Indirect(i)) # 0 => \A l \in 1..NINDIRECT : Indirect(i)[l] = img.ind[i][l]
      /\ Len(AllAddrs(i)) = NDIRECT + 1 + Len(Indirect(i))
      /\ \A l \in 1..NDIRECT + 1 : AllAddrs(i)[l] = Addrs(i)[l]
      /\ \A l \in 1..Len(Indirect(i)) : AllAddrs(i)[NDIRECT + 1 + l] = Indirect(i)[l]
  BY AddrsSeq
<1>2. s \in Slots <=> k <= Len(AllAddrs(i)) /\ AllAddrs(i)[k] # None
  BY DEF Slots, AddrIn
<1>3. AddrIn(s) = AllAddrs(i)[k]  BY DEF AddrIn
<1>4. CASE k <= NDIRECT + 1
  <2>1. k \in 1..NDIRECT + 1 /\ k <= Len(AllAddrs(i))  BY <1>1, <1>4
  <2>2. AllAddrs(i)[k] = img.addrs[i][k]  BY <1>1, <2>1 DEF Addrs
  <2>3. Kept(img, s) = img.addrs[i][k]  BY <1>4 DEF Kept
  <2> QED  BY <1>2, <1>3, <2>1, <2>2, <2>3
<1>5. CASE ~(k <= NDIRECT + 1)
  <2> PICK l \in 1..NINDIRECT : l = k - (NDIRECT + 1) /\ k = NDIRECT + 1 + l  BY <1>5
  <2>1. Kept(img, s) = img.ind[i][l]  BY <1>5 DEF Kept
  <2>2. CASE Len(Indirect(i)) = NINDIRECT
    <3>0. /\ \A j \in 1..NINDIRECT : AllAddrs(i)[NDIRECT + 1 + j] = Indirect(i)[j]
          /\ Indirect(i)[l] = img.ind[i][l]
      BY <1>1, <2>2
    <3>1. AllAddrs(i)[NDIRECT + 1 + l] = img.ind[i][l]  BY <3>0
    <3>2. AllAddrs(i)[k] = img.ind[i][l]  BY <3>1
    <3>3. k <= Len(AllAddrs(i))  BY <1>1, <2>2
    <3> QED  BY <1>2, <1>3, <2>1, <3>2, <3>3
  <2>3. CASE Len(Indirect(i)) = 0
    <3>1. ~(k <= Len(AllAddrs(i)))  BY <1>1, <1>5, <2>3
    <3>2. img.addrs[i][NDIRECT + 1] = None  BY <1>1, <2>3 DEF Addrs
    <3>3. PICK n \in 0..NDIRECT + NINDIRECT : HasBlocks(img, i, n)  BY DEF InOrder
    <3>4. img.ind[i][l] = None  BY <3>2, <3>3 DEF HasBlocks
    <3> QED  BY <1>2, <2>1, <3>1, <3>4
  <2> QED  BY <1>1, <2>2, <2>3
<1> QED  BY <1>4, <1>5

LEMMA NamesFinite ==
  ASSUME img \in Format
  PROVE  /\ Dirs \subseteq Ino
         /\ \A i : IsFiniteSet(NamesOf(i)) /\ Cardinality(NamesOf(i)) \in Nat
         /\ \A i, n : n \in NamesOf(i) <=>
               /\ n = <<n[1], n[2]>> /\ n[1] \in Dirs /\ n[2] \in Name
               /\ img.ent[n[1]][n[2]] = i
         /\ \A i : \A d \in Dirs, e \in Name : img.ent[d][e] = i => <<d, e>> \in NamesOf(i)
<1>1. Dirs \subseteq Ino  BY DEF Dirs
<1>2. IsFiniteSet(Ino)  BY Sizes, FS_Interval DEF Ino
<1>3. IsFiniteSet(Dirs)  BY <1>1, <1>2, FS_Subset
<1>4. IsFiniteSet(Dirs \X Name)  BY <1>3, Sizes, FS_Product
<1>5. \A i : IsFiniteSet(NamesOf(i)) /\ Cardinality(NamesOf(i)) \in Nat
  <2> TAKE i
  <2>1. NamesOf(i) \in SUBSET (Dirs \X Name)  BY DEF NamesOf
  <2> QED  BY <1>4, <2>1, FS_Subset, FS_CardinalityType
<1>6. \A i, n : n \in NamesOf(i) <=>
               /\ n = <<n[1], n[2]>> /\ n[1] \in Dirs /\ n[2] \in Name
               /\ img.ent[n[1]][n[2]] = i
  BY DEF NamesOf
<1>7. \A i : \A d \in Dirs, e \in Name : img.ent[d][e] = i => <<d, e>> \in NamesOf(i)
  BY DEF NamesOf
<1> QED  BY <1>1, <1>5, <1>6, <1>7

\* A set in which any two are the same.
LEMMA AtMostOne ==
  ASSUME NEW S, IsFiniteSet(S)
  PROVE  /\ (\A x, y \in S : x = y) <=> Cardinality(S) <= 1
         /\ S = {} <=> Cardinality(S) <= 0
         /\ Cardinality(S) <= 1 /\ S # {} => Cardinality(S) = 1
<1>1. Cardinality(S) \in Nat  BY FS_CardinalityType
<1>2. Cardinality(S) = 0 <=> S = {}  BY FS_EmptySet
<1>3. Cardinality(S) = 1 <=> \E x : S = {x}  BY FS_Singleton
<1>4. (\A x, y \in S : x = y) <=> S = {} \/ \E x : S = {x}
  <2>1. ASSUME \A x, y \in S : x = y, S # {} PROVE \E x : S = {x}
    <3> PICK x \in S : TRUE  BY <2>1
    <3>1. S = {x}  BY <2>1
    <3> QED  BY <3>1
  <2>2. ASSUME NEW x, S = {x} PROVE \A a, b \in S : a = b  BY <2>2
  <2> QED  BY <2>1, <2>2
<1>5. Cardinality(S) <= 1 <=> Cardinality(S) = 0 \/ Cardinality(S) = 1  BY <1>1
<1>6. Cardinality(S) <= 0 <=> Cardinality(S) = 0  BY <1>1
<1>7. (\A x, y \in S : x = y) <=> Cardinality(S) <= 1  BY <1>2, <1>3, <1>4, <1>5
<1> QED  BY <1>2, <1>5, <1>6, <1>7

-----------------------------------------------------------------------------
(* What mkfs has made when balloc() is called.                              *)

LEMMA MadeAddrs ==
  ASSUME MkfsInv, program = "mkfs"
  PROVE  /\ Used = METABLOCKS..mk.block - 1 /\ UsedOnce
         /\ mk.block \in METABLOCKS..SIZE
         /\ \A d \in Dirs : img.addrs[d][1] \in Data
<1> USE Sizes
<1>1. MkType /\ Taken /\ InOrder(img) /\ EachOnce(img, mk.block)  BY DEF MkfsInv
<1>2. img \in Format /\ mk.block \in METABLOCKS..SIZE  BY <1>1 DEF MkType
<1>3. \A s \in Place : /\ s \in Slots <=> Kept(img, s) # None
                       /\ s \in Slots => AddrIn(s) = Kept(img, s)
  BY <1>1, <1>2, InOrderSlots
<1>4. Slots \subseteq Place  BY <1>2, SlotFacts
<1>5. Used \subseteq METABLOCKS..mk.block - 1
  <2> SUFFICES ASSUME NEW a \in Used PROVE a \in METABLOCKS..mk.block - 1  OBVIOUS
  <2> PICK s \in Slots : AddrIn(s) = a  BY <1>2, SlotFacts
  <2>1. Kept(img, s) = a /\ Kept(img, s) # None  BY <1>3, <1>4
  <2> QED  BY <1>1, <1>4, <2>1 DEF EachOnce
<1>6. METABLOCKS..mk.block - 1 \subseteq Used
  <2> SUFFICES ASSUME NEW a \in METABLOCKS..mk.block - 1 PROVE a \in Used  OBVIOUS
  <2> PICK s \in Place : Kept(img, s) = a  BY <1>1 DEF EachOnce
  <2>1. a # None  OBVIOUS
  <2>2. s \in Slots /\ AddrIn(s) = a  BY <1>3, <2>1
  <2> QED  BY <1>2, <2>2, SlotFacts
<1>7. UsedOnce
  <2> SUFFICES ASSUME NEW s \in Slots, NEW t \in Slots, AddrIn(s) = AddrIn(t) PROVE s = t
    BY DEF UsedOnce
  <2>1. Kept(img, s) = Kept(img, t) /\ Kept(img, s) # None  BY <1>3, <1>4
  <2> QED  BY <1>1, <1>4, <2>1 DEF EachOnce
<1>8. \A d \in Dirs : img.addrs[d][1] \in Data
  <2> TAKE d \in Dirs
  <2>1. d \in Ino  BY DEF Dirs
  <2>2. <<d, 1>> \in Place /\ <<d, 1>>[1] = d /\ <<d, 1>>[2] = 1  BY <2>1 DEF Place
  <2>3. Kept(img, <<d, 1>>) = img.addrs[d][1]  BY <2>2 DEF Kept
  <2>4. img.addrs[d][1] \in {None} \cup METABLOCKS..mk.block - 1  BY <1>1, <2>2, <2>3 DEF EachOnce
  <2>5. img.addrs[d][1] # None  BY <1>1 DEF Taken
  <2>6. img.addrs[d][1] \in METABLOCKS..mk.block - 1  BY <2>4, <2>5
  <2> QED  BY <1>2, <2>6 DEF Data
<1> QED  BY <1>2, <1>5, <1>6, <1>7, <1>8

\* The parts of Checked that say nothing of the bitmap, and the others.
Tree == /\ GoodTypes /\ GoodRoot /\ GoodDots /\ NamesAllocated /\ OnceNamed /\ GoodLinks /\ FilesReferred
        /\ FilesFound /\ DirsFound /\ ParentsMatch /\ Downwards

LEMMA MadeTree ==
  ASSUME MkfsInv, program = "mkfs", mk.dirs = <<ROOTINO>>, mk.file = None
  PROVE  Tree
<1> USE Sizes
<1>1. MkType /\ Taken /\ Stack /\ Naming /\ Given  BY DEF MkfsInv
<1>2. img \in Format  BY <1>1 DEF MkType
<1>3. Len(mk.dirs) = 1 /\ mk.dirs[1] = ROOTINO /\ mk.dirs # <<>>  OBVIOUS
<1>4. \A i \in Ino : Open(i) <=> i = ROOTINO
  <2>1. \A k \in 1..1 : k = 1  OBVIOUS
  <2>2. 1 \in 1..1 /\ \A i \in Ino : i # None  BY DEF Ino
  <2> QED  BY <1>3, <2>1, <2>2 DEF Open
<1>5. ROOTINO \in Dirs /\ img.ent[ROOTINO][".."] = ROOTINO  BY <1>1, <1>3 DEF Stack
<1>6. Dirs \subseteq Ino  BY DEF Dirs
<1>7. \A i \in Allocated : i \in Ino /\ i < mk.inode /\ img.type[i] \in {T_DIR, T_FILE} /\ img.nlink[i] = 1
  BY <1>1 DEF Taken, Allocated
<1>8. \A d \in Dirs, e \in Name : img.ent[d][e] # None =>
           /\ img.ent[d][e] \in Ino /\ d < img.ent[d][e] /\ img.ent[d][e] < mk.inode
           /\ img.ent[d][e] # ROOTINO
           /\ img.ent[d][e] \in Dirs => img.ent[img.ent[d][e]][".."] = d
  <2> TAKE d \in Dirs, e \in Name
  <2> HAVE img.ent[d][e] # None
  <2>1. img.ent[d][e] \in Ino
    <3>1. d \in Ino /\ e \in Entry  BY <1>6 DEF Entry
    <3> QED  BY <1>2, <3>1, FormatFacts
  <2> QED  BY <1>1, <1>4, <2>1 DEF Given
<1>9. \A i \in Allocated : i # ROOTINO => \E d \in Dirs, e \in Name : img.ent[d][e] = i
  BY <1>1, <1>4, <1>7 DEF Given
<1>10. \A i \in Ino : \A x, y \in NamesOf(i) : x = y
  <2> TAKE i \in Ino
  <2> TAKE x, y \in NamesOf(i)
  <2>1. /\ x = <<x[1], x[2]>> /\ x[1] \in Dirs /\ x[2] \in Name /\ img.ent[x[1]][x[2]] = i
        /\ y = <<y[1], y[2]>> /\ y[1] \in Dirs /\ y[2] \in Name /\ img.ent[y[1]][y[2]] = i
    BY <1>2, NamesFinite
  <2>2. i # None  BY DEF Ino
  <2>3. x[1] = y[1] /\ x[2] = y[2]  BY <1>1, <2>1, <2>2 DEF Given
  <2> QED  BY <2>1, <2>3
<1>11. GoodTypes
  <2> SUFFICES ASSUME NEW i \in Ino PROVE img.type[i] \in {T_FREE, T_DIR, T_FILE, T_DEV}  BY DEF GoodTypes
  <2> QED  BY <1>1 DEF Taken
<1>12. GoodRoot  BY <1>5 DEF GoodRoot, Dirs
<1>13. GoodDots
  <2> SUFFICES ASSUME NEW d \in Dirs PROVE img.ent[d]["."] = d /\ img.ent[d][".."] # None  BY DEF GoodDots
  <2>1. \A c \in Dirs : c # None  BY <1>6 DEF Ino
  <2> QED  BY <1>1, <2>1 DEF Taken
<1>14. NamesAllocated
  <2> SUFFICES ASSUME NEW d \in Dirs, NEW e \in Entry PROVE img.ent[d][e] \in Allocated \cup {None}
    BY DEF NamesAllocated
  <2>1. Dirs \subseteq Allocated  BY DEF Dirs, Allocated
  <2>2. CASE e = "."  BY <1>1, <2>1, <2>2 DEF Taken
  <2>3. CASE e = ".."  BY <1>1, <2>1, <2>3 DEF Taken
  <2>4. CASE e \in Name
    <3>1. CASE img.ent[d][e] # None
      <4> PICK i \in Ino : i = img.ent[d][e] /\ i < mk.inode  BY <1>8, <2>4, <3>1
      <4>1. img.type[i] # T_FREE  BY <1>1 DEF Taken
      <4> QED  BY <4>1 DEF Allocated
    <3> QED  BY <3>1
  <2> QED  BY <2>2, <2>3, <2>4 DEF Entry
<1>15. OnceNamed
  <2> SUFFICES ASSUME NEW d \in Dirs
               PROVE  Cardinality(NamesOf(d)) <= IF d = ROOTINO THEN 0 ELSE 1
    BY DEF OnceNamed
  <2>1. IsFiniteSet(NamesOf(d))  BY <1>2, NamesFinite
  <2>2. CASE d = ROOTINO
    <3>1. NamesOf(d) = {}
      <4> SUFFICES ASSUME NEW x \in NamesOf(d) PROVE FALSE  OBVIOUS
      <4>1. x[1] \in Dirs /\ x[2] \in Name /\ img.ent[x[1]][x[2]] = d  BY <1>2, NamesFinite
      <4> PICK c \in Dirs, e \in Name : c = x[1] /\ e = x[2]  BY <4>1
      <4>2. img.ent[c][e] = ROOTINO /\ img.ent[c][e] # None  BY <2>2, <4>1
      <4>3. \E i \in Ino : i = ROOTINO /\ c < i  BY <1>8, <4>2
      <4>4. c \in Nat \ {0}  BY <1>6 DEF Ino
      <4> QED  BY <4>3, <4>4
    <3> QED  BY <2>1, <2>2, <3>1, AtMostOne
  <2>3. CASE d # ROOTINO
    <3>1. d \in Ino  BY <1>6
    <3> QED  BY <1>10, <2>1, <2>3, <3>1, AtMostOne
  <2> QED  BY <2>2, <2>3
<1>16. GoodLinks
  <2> SUFFICES ASSUME NEW i \in Ino, img.type[i] = T_FILE PROVE img.nlink[i] = Cardinality(NamesOf(i))
    BY DEF GoodLinks
  <2>1. i \in Allocated /\ i # ROOTINO  BY <1>5 DEF Allocated, Dirs
  <2>2. IsFiniteSet(NamesOf(i))  BY <1>2, NamesFinite
  <2>3. PICK d \in Dirs, e \in Name : img.ent[d][e] = i  BY <1>9, <2>1
  <2>4. <<d, e>> \in NamesOf(i)  BY <1>2, <2>3, NamesFinite
  <2>5. Cardinality(NamesOf(i)) = 1  BY <1>10, <2>2, <2>4, AtMostOne
  <2> QED  BY <1>7, <2>1, <2>5
<1>17. Allocated \subseteq Named \cup {ROOTINO}
  <2> SUFFICES ASSUME NEW i \in Allocated, i # ROOTINO PROVE i \in Named  OBVIOUS
  <2>1. PICK d \in Dirs, e \in Name : img.ent[d][e] = i  BY <1>9
  <2>2. <<d, e>> \in NamesOf(i) /\ i \in Ino  BY <1>2, <1>7, <2>1, NamesFinite
  <2> QED  BY <2>2 DEF Named
<1>18. DirsFound /\ FilesFound
  <2>1. Dirs \subseteq Allocated  BY DEF Dirs, Allocated
  <2> QED  BY <1>5, <1>17, <2>1 DEF DirsFound, FilesFound
<1>19. FilesReferred
  <2> SUFFICES ASSUME NEW i \in Allocated \ Dirs PROVE \E d \in Dirs, e \in Entry : img.ent[d][e] = i
    BY DEF FilesReferred
  <2>1. PICK d \in Dirs, e \in Name : img.ent[d][e] = i  BY <1>5, <1>9
  <2>2. e \in Entry  BY DEF Entry
  <2> QED  BY <2>1, <2>2
<1>20. ParentsMatch /\ Downwards
  <2>1. ASSUME NEW d \in Dirs, NEW e \in Name, img.ent[d][e] \in Dirs
        PROVE  img.ent[img.ent[d][e]][".."] = d /\ img.ent[d][e] > d
    <3>1. img.ent[d][e] # None  BY <1>6, <2>1 DEF Ino
    <3> PICK i \in Ino : i = img.ent[d][e] /\ d < i /\ (i \in Dirs => img.ent[i][".."] = d)
      BY <1>8, <3>1
    <3>2. d \in Int /\ i \in Int  BY <1>6 DEF Ino
    <3> QED  BY <2>1, <3>2
  <2> QED  BY <2>1 DEF ParentsMatch, Downwards
<1> QED  BY <1>11, <1>12, <1>13, <1>14, <1>15, <1>16, <1>18, <1>19, <1>20 DEF Tree

\* Nothing but GoodBitmap depends on the bitmap.
LEMMA BitmapOnly ==
  ASSUME img'.type = img.type, img'.nlink = img.nlink, img'.addrs = img.addrs,
         img'.ind = img.ind, img'.ent = img.ent
  PROVE  /\ Tree => Tree'
         /\ UsedOnce => UsedOnce'
         /\ Used' = Used /\ Dirs' = Dirs
<1>1. Dirs' = Dirs /\ Allocated' = Allocated  BY DEF Dirs, Allocated
<1>2. \A i : Addrs(i)' = Addrs(i)  BY DEF Addrs
<1>3. \A i : Indirect(i)' = Indirect(i)  BY <1>2 DEF Indirect
<1>4. \A i : AllAddrs(i)' = AllAddrs(i)  BY <1>2, <1>3 DEF AllAddrs
<1>5. \A s : AddrIn(s)' = AddrIn(s)  BY <1>4 DEF AddrIn
<1>6. Slots' = Slots  BY <1>4, <1>5 DEF Slots
<1>7. Used' = Used  BY <1>5, <1>6 DEF Used
<1>8. UsedOnce => UsedOnce'  BY <1>5, <1>6 DEF UsedOnce
<1>9. \A i : NamesOf(i)' = NamesOf(i)  BY <1>1 DEF NamesOf
<1>10. Named' = Named  BY <1>9 DEF Named
<1>11. Tree => Tree'
  <2>1. GoodTypes => GoodTypes'  BY DEF GoodTypes
  <2>2. GoodRoot => GoodRoot'  BY DEF GoodRoot
  <2>3. GoodDots => GoodDots'  BY <1>1 DEF GoodDots
  <2>4. NamesAllocated => NamesAllocated'  BY <1>1 DEF NamesAllocated
  <2>5. OnceNamed => OnceNamed'  BY <1>1, <1>9 DEF OnceNamed
  <2>6. GoodLinks => GoodLinks'  BY <1>9 DEF GoodLinks
  <2>7. FilesReferred => FilesReferred'  BY <1>1 DEF FilesReferred
  <2>8. FilesFound => FilesFound'  BY <1>1, <1>10 DEF FilesFound
  <2>9. DirsFound => DirsFound'  BY <1>1, <1>10 DEF DirsFound
  <2>10. ParentsMatch => ParentsMatch'  BY <1>1 DEF ParentsMatch
  <2>11. Downwards => Downwards'  BY <1>1 DEF Downwards
  <2> QED  BY <2>1, <2>2, <2>3, <2>4, <2>5, <2>6, <2>7, <2>8, <2>9, <2>10, <2>11 DEF Tree
<1> QED  BY <1>1, <1>7, <1>8, <1>11

\* balloc(): the image is finished, and good.
LEMMA BallocMakes ==
  ASSUME MkfsInv, Balloc
  PROVE  ImgInv'
<1> USE Sizes
<1>1. /\ program = "mkfs" /\ program' = "none"
      /\ mk.dirs = <<ROOTINO>> /\ mk.file = None
      /\ img' = [img EXCEPT !.marked = METABLOCKS..mk.block - 1]
      /\ mk' = [mk EXCEPT !.dirs = <<>>]
  BY DEF Balloc
<1>2. MkType  BY <1>1 DEF MkfsInv
<1>3. img \in Format /\ mk.block \in METABLOCKS..SIZE  BY <1>2 DEF MkType
<1>4. /\ img'.type = img.type /\ img'.nlink = img.nlink /\ img'.addrs = img.addrs
      /\ img'.ind = img.ind /\ img'.ent = img.ent /\ img'.marked = METABLOCKS..mk.block - 1
      /\ img' \in Format
  <2>1. METABLOCKS..mk.block - 1 \subseteq Nat  BY <1>3
  <2> PICK S \in SUBSET Nat : S = METABLOCKS..mk.block - 1  BY <2>1
  <2>2. img' = [img EXCEPT !.marked = S]  BY <1>1
  <2> QED  BY <1>3, <2>2 DEF Format
<1>5. Tree' /\ UsedOnce' /\ Used' = METABLOCKS..mk.block - 1
  BY <1>1, <1>4, MadeAddrs, MadeTree, BitmapOnly
<1>6. \A d \in Dirs' : img'.addrs[d][1] \in Data
  BY <1>1, <1>4, MadeAddrs, BitmapOnly
<1>7. GoodRange'
  <2>1. METABLOCKS..mk.block - 1 \subseteq Data  BY <1>3 DEF Data
  <2> QED  BY <1>5, <2>1 DEF GoodRange
<1>8. GoodBitmap'  BY <1>4, <1>5 DEF GoodBitmap
<1>9. Checked'  BY <1>5, <1>7, <1>8 DEF Checked, Tree
<1> QED  BY <1>4, <1>5, <1>6, <1>9 DEF ImgInv, Tree

-----------------------------------------------------------------------------
(* The address tests of temp.c.                                            *)

LEMMA MinIsIn ==
  ASSUME NEW S \in SUBSET Nat, S # {}
  PROVE  Min(S) \in S /\ \A y \in S : Min(S) <= y
<1>1. \E x \in S : \A y \in S : ~(y < x)
  <2>1. \E x \in S : \A y \in S : <<y, x>> \notin OpToRel(<, Nat)
    BY NatLessThanWellFounded, WFMin
  <2>2. \A x, y \in S : y < x => <<y, x>> \in OpToRel(<, Nat)  BY DEF OpToRel
  <2> QED  BY <2>1, <2>2
<1> PICK x \in S : \A y \in S : ~(y < x)  BY <1>1
<1>2. \A y \in S : x <= y  OBVIOUS
<1> QED  BY <1>2 DEF Min

AddressFaults == {"bad address", "used but marked free", "used more than once"}

LEMMA FaultIs ==
  ASSUME NEW s, NEW k, NEW range, NEW blocks
  PROVE  /\ Fault(s, k, range, blocks) \in {"none"} \cup AddressFaults
         /\ Fault(s, k, range, blocks) = "none" <=>
               \/ s[k] = None
               \/ /\ s[k] \in range /\ s[k] \in img.marked /\ s[k] \in blocks
                  /\ \A m \in 1..k - 1 : s[m] # s[k]
BY DEF Fault, AddressFaults

LEMMA FirstFaultIs ==
  ASSUME NEW s \in Seq(Nat), NEW range, NEW blocks
  PROVE  /\ FirstFault(s, range, blocks) \in {"none"} \cup AddressFaults
         /\ FirstFault(s, range, blocks) = "none" <=>
               \A k \in 1..Len(s) : Fault(s, k, range, blocks) = "none"
<1> DEFINE F == {k \in 1..Len(s) : Fault(s, k, range, blocks) # "none"}
<1>1. F \in SUBSET Nat
  <2>1. Len(s) \in Nat  OBVIOUS
  <2> QED  BY <2>1
<1>2. FirstFault(s, range, blocks) = IF F = {} THEN "none" ELSE Fault(s, Min(F), range, blocks)
  BY DEF FirstFault
<1>3. CASE F = {}  BY <1>2, <1>3
<1>4. CASE F # {}
  <2>1. Min(F) \in F  BY <1>1, <1>4, MinIsIn
  <2>2. Fault(s, Min(F), range, blocks) # "none"  BY <2>1
  <2> QED  BY <1>2, <1>4, <2>2, FaultIs
<1> QED  BY <1>3, <1>4

\* A block that is left has not been met, neither in the inodes before nor
\* in the addresses of this one before.
LEMMA MetBefore ==
  ASSUME img \in Format, NEW i \in Ino, NEW k \in 1..Len(AllAddrs(i)), AllAddrs(i)[k] # None
  PROVE  (\A s \in Slots : AddrIn(s) = AllAddrs(i)[k] => ~Before(s, <<i, k>>)) <=>
            /\ \A j \in Ino : j < i => AllAddrs(i)[k] \notin ToSet(AllAddrs(j))
            /\ \A m \in 1..k - 1 : AllAddrs(i)[m] # AllAddrs(i)[k]
<1> DEFINE a == AllAddrs(i)[k]
<1>1. Len(AllAddrs(i)) \in Nat  BY AddrsSeq
<1>2. ASSUME \A s \in Slots : AddrIn(s) = a => ~Before(s, <<i, k>>)
      PROVE  \A j \in Ino : j < i => a \notin ToSet(AllAddrs(j))
  <2> SUFFICES ASSUME NEW j \in Ino, j < i, a \in ToSet(AllAddrs(j)) PROVE FALSE  OBVIOUS
  <2> PICK l \in 1..Len(AllAddrs(j)) : AllAddrs(j)[l] = a  BY AddrSet
  <2>1. <<j, l>> \in Slots /\ AddrIn(<<j, l>>) = a  BY SlotFacts
  <2> QED  BY <1>2, <2>1 DEF Before
<1>3. ASSUME \A s \in Slots : AddrIn(s) = a => ~Before(s, <<i, k>>)
      PROVE  \A m \in 1..k - 1 : AllAddrs(i)[m] # a
  <2> SUFFICES ASSUME NEW m \in 1..k - 1, AllAddrs(i)[m] = a PROVE FALSE  OBVIOUS
  <2>0. m \in 1..Len(AllAddrs(i)) /\ m < k  BY <1>1
  <2>1. <<i, m>> \in Slots /\ AddrIn(<<i, m>>) = a  BY <2>0, SlotFacts
  <2> QED  BY <1>3, <2>0, <2>1 DEF Before
<1>4. ASSUME \A j \in Ino : j < i => a \notin ToSet(AllAddrs(j)),
             \A m \in 1..k - 1 : AllAddrs(i)[m] # a
      PROVE  \A s \in Slots : AddrIn(s) = a => ~Before(s, <<i, k>>)
  <2> SUFFICES ASSUME NEW s \in Slots, AddrIn(s) = a, Before(s, <<i, k>>) PROVE FALSE  OBVIOUS
  <2>1. s[1] \in Ino /\ s[2] \in 1..Len(AllAddrs(s[1])) /\ a = AllAddrs(s[1])[s[2]]  BY SlotFacts
  <2> PICK j \in Ino : j = s[1]  BY <2>1
  <2> PICK l \in 1..Len(AllAddrs(j)) : l = s[2]  BY <2>1
  <2>2. a = AllAddrs(j)[l]  BY <2>1
  <2>3. a \in ToSet(AllAddrs(j))  BY <2>2, AddrSet
  <2>4. j < i \/ (j = i /\ l < k)  BY DEF Before
  <2>5. CASE j < i  BY <1>4, <2>3, <2>5
  <2>6. CASE j = i /\ l < k
    <3>1. Len(AllAddrs(j)) \in Nat  BY AddrsSeq
    <3>2. l \in 1..k - 1  BY <1>1, <2>6, <3>1
    <3> QED  BY <1>4, <2>2, <2>6, <3>2
  <2> QED  BY <2>4, <2>5, <2>6
<1> QED  BY <1>2, <1>3, <1>4

LEMMA AddressGood ==
  ASSUME img \in Format, NEW i \in Ino, left.blocks = LeftBlocks(i)
  PROVE  /\ AddressFault(i) \in {"none"} \cup AddressFaults
         /\ AddressFault(i) = "none" <=> \A k \in 1..Len(AllAddrs(i)) : GoodAddress(i, k)
<1> USE Sizes
<1> DEFINE A == AllAddrs(i)
           D == Addrs(i)
           I == Indirect(i)
           n == Len(I)
           B == left.blocks \ ToSet(D)
<1>1. /\ D \in Seq(Nat) /\ Len(D) = NDIRECT + 1 /\ I \in Seq(Nat) /\ n \in Nat
      /\ A \in Seq(Nat) /\ Len(A) = NDIRECT + 1 + n
      /\ \A k \in 1..NDIRECT + 1 : A[k] = D[k]
      /\ \A k \in 1..n : A[NDIRECT + 1 + k] = I[k]
  <2>1. n \in Nat  BY AddrsSeq
  <2> QED  BY <2>1, AddrsSeq
<1>2. /\ FirstFault(D, Data, left.blocks) \in {"none"} \cup AddressFaults
      /\ FirstFault(D, Data, left.blocks) = "none" <=>
            \A k \in 1..NDIRECT + 1 : Fault(D, k, Data, left.blocks) = "none"
  <2>1. D \in Seq(Nat) /\ Len(D) = NDIRECT + 1  BY <1>1
  <2> HIDE DEF D
  <2> QED  BY <2>1, FirstFaultIs
<1>3. /\ FirstFault(I, Data \cup {SIZE}, B) \in {"none"} \cup AddressFaults
      /\ FirstFault(I, Data \cup {SIZE}, B) = "none" <=>
            \A k \in 1..n : Fault(I, k, Data \cup {SIZE}, B) = "none"
  <2>1. I \in Seq(Nat)  BY <1>1
  <2> HIDE DEF I, B
  <2> QED  BY <2>1, FirstFaultIs
<1>4. /\ AddressFault(i) \in {"none"} \cup AddressFaults
      /\ AddressFault(i) = "none" <=>
            /\ \A k \in 1..NDIRECT + 1 : Fault(D, k, Data, left.blocks) = "none"
            /\ \A k \in 1..n : Fault(I, k, Data \cup {SIZE}, B) = "none"
  BY <1>2, <1>3 DEF AddressFault
<1>5. ASSUME NEW k \in 1..NDIRECT + 1
      PROVE  Fault(D, k, Data, left.blocks) = "none" <=> GoodAddress(i, k)
  <2>1. k \in 1..Len(A) /\ A[k] = D[k] /\ ~(k > NDIRECT + 1)  BY <1>1
  <2>2. \A m \in 1..k - 1 : A[m] = D[m]
    <3> TAKE m \in 1..k - 1
    <3>1. m \in 1..NDIRECT + 1  OBVIOUS
    <3> QED  BY <1>1, <3>1
  <2>3. GoodAddress(i, k) <=>
           \/ A[k] = None
           \/ /\ A[k] \in Data /\ A[k] \in img.marked
              /\ \A j \in Ino : j < i => A[k] \notin ToSet(AllAddrs(j))
              /\ \A m \in 1..k - 1 : A[m] # A[k]
    BY <2>1, MetBefore DEF GoodAddress
  <2>4. A[k] \in left.blocks <=>
           A[k] \in img.marked /\ \A j \in Ino : j < i => A[k] \notin ToSet(AllAddrs(j))
    BY DEF LeftBlocks
  <2>5. Fault(D, k, Data, left.blocks) = "none" <=>
           \/ D[k] = None
           \/ /\ D[k] \in Data /\ D[k] \in img.marked /\ D[k] \in left.blocks
              /\ \A m \in 1..k - 1 : D[m] # D[k]
    BY FaultIs
  <2>6. (\A m \in 1..k - 1 : A[m] # A[k]) <=> (\A m \in 1..k - 1 : D[m] # D[k])  BY <2>1, <2>2
  <2> HIDE DEF A, D
  <2> QED  BY <2>1, <2>3, <2>4, <2>5, <2>6
<1>6. ASSUME NEW k \in 1..n
      PROVE  Fault(I, k, Data \cup {SIZE}, B) = "none" <=> GoodAddress(i, NDIRECT + 1 + k)
  <2>0. NDIRECT + 1 + k \in 1..NDIRECT + 1 + n /\ NDIRECT + 1 + k > NDIRECT + 1
    <3>1. n \in Nat /\ k \in 1..n /\ NDIRECT \in Nat  BY <1>1
    <3> HIDE DEF n
    <3> HIDE Sizes
    <3> QED  BY <3>1
  <2> PICK K \in 1..Len(A) : K = NDIRECT + 1 + k /\ K > NDIRECT + 1  BY <1>1, <2>0
  <2>1. A[K] = I[k]  BY <1>1
  <2>2. GoodAddress(i, K) <=>
           \/ A[K] = None
           \/ /\ A[K] \in Data \cup {SIZE} /\ A[K] \in img.marked
              /\ \A j \in Ino : j < i => A[K] \notin ToSet(AllAddrs(j))
              /\ \A m \in 1..K - 1 : A[m] # A[K]
    BY MetBefore DEF GoodAddress
  <2>3. (\A m \in 1..K - 1 : A[m] # A[K]) <=>
           A[K] \notin ToSet(D) /\ \A m \in 1..k - 1 : I[m] # I[k]
    <3>1. ASSUME \A m \in 1..K - 1 : A[m] # A[K]
          PROVE  A[K] \notin ToSet(D)
      <4> SUFFICES ASSUME A[K] \in ToSet(D) PROVE FALSE  OBVIOUS
      <4>0. \A a \in ToSet(Addrs(i)) : \E m \in 1..NDIRECT + 1 : Addrs(i)[m] = a  BY AddrSet
      <4> PICK m \in 1..NDIRECT + 1 : D[m] = A[K]  BY <4>0
      <4>1. m \in 1..K - 1 /\ A[m] = D[m]  BY <1>1
      <4> QED  BY <3>1, <4>1
    <3>2. ASSUME \A m \in 1..K - 1 : A[m] # A[K]
          PROVE  \A m \in 1..k - 1 : I[m] # I[k]
      <4> TAKE m \in 1..k - 1
      <4>1. m \in 1..n  BY <1>1
      <4>2. A[NDIRECT + 1 + m] = I[m]  BY <1>1, <4>1
      <4> PICK M \in 1..K - 1 : M = NDIRECT + 1 + m  OBVIOUS
      <4> QED  BY <2>1, <3>2, <4>2
    <3>3. ASSUME A[K] \notin ToSet(D), \A m \in 1..k - 1 : I[m] # I[k]
          PROVE  \A m \in 1..K - 1 : A[m] # A[K]
      <4> TAKE m \in 1..K - 1
      <4>1. CASE m \in 1..NDIRECT + 1
        <5>1. A[m] = D[m] /\ D[m] \in ToSet(D)  BY <1>1, <4>1, AddrSet
        <5> QED  BY <3>3, <5>1
      <4>2. CASE m \notin 1..NDIRECT + 1
        <5> PICK l \in 1..k - 1 : m = NDIRECT + 1 + l  BY <4>2
        <5>1. l \in 1..n  BY <1>1
        <5>2. A[NDIRECT + 1 + l] = I[l]  BY <1>1, <5>1
        <5> QED  BY <2>1, <3>3, <5>2
      <4> QED  BY <4>1, <4>2
    <3> QED  BY <3>1, <3>2, <3>3
  <2>4. A[K] \in left.blocks <=>
           A[K] \in img.marked /\ \A j \in Ino : j < i => A[K] \notin ToSet(AllAddrs(j))
    BY DEF LeftBlocks
  <2>5. Fault(I, k, Data \cup {SIZE}, B) = "none" <=>
           \/ I[k] = None
           \/ /\ I[k] \in Data \cup {SIZE} /\ I[k] \in img.marked
              /\ I[k] \in left.blocks /\ I[k] \notin ToSet(D)
              /\ \A m \in 1..k - 1 : I[m] # I[k]
    BY FaultIs
  <2> HIDE DEF A, D, I
  <2> QED  BY <2>1, <2>2, <2>3, <2>4, <2>5
<1>7. (\A k \in 1..Len(A) : GoodAddress(i, k)) <=>
         /\ \A k \in 1..NDIRECT + 1 : GoodAddress(i, k)
         /\ \A k \in 1..n : GoodAddress(i, NDIRECT + 1 + k)
  <2>1. \A k \in 1..NDIRECT + 1 : k \in 1..Len(A)  BY <1>1
  <2>2. \A k \in 1..n : NDIRECT + 1 + k \in 1..Len(A)  BY <1>1
  <2>3. \A k \in 1..Len(A) : k \in 1..NDIRECT + 1 \/ \E l \in 1..n : k = NDIRECT + 1 + l
    <3> TAKE k \in 1..Len(A)
    <3>1. CASE ~(k <= NDIRECT + 1)
      <4> PICK l \in 1..n : k = NDIRECT + 1 + l
        <5>1. k - (NDIRECT + 1) \in 1..n /\ k = NDIRECT + 1 + (k - (NDIRECT + 1))  BY <1>1, <3>1
        <5> QED  BY <5>1
      <4> QED  OBVIOUS
    <3> QED  BY <1>1, <3>1
  <2> HIDE DEF A, n
  <2> QED  BY <2>1, <2>2, <2>3
<1> QED  BY <1>4, <1>5, <1>6, <1>7

-----------------------------------------------------------------------------
(* What a step leaves as it was.                                           *)

LEMMA SameImage ==
  ASSUME UNCHANGED img
  PROVE  /\ Dirs' = Dirs /\ Allocated' = Allocated
         /\ \A i : AllAddrs(i)' = AllAddrs(i) /\ Addrs(i)' = Addrs(i) /\ Indirect(i)' = Indirect(i)
         /\ \A s : AddrIn(s)' = AddrIn(s)
         /\ Slots' = Slots /\ Used' = Used
         /\ \A i : NamesOf(i)' = NamesOf(i)
         /\ \A d : Met(d)' = Met(d)
         /\ Named' = Named
<1>1. Dirs' = Dirs /\ Allocated' = Allocated  BY DEF Dirs, Allocated
<1>2. \A i : Addrs(i)' = Addrs(i)  BY DEF Addrs
<1>3. \A i : Indirect(i)' = Indirect(i)  BY <1>2 DEF Indirect
<1>4. \A i : AllAddrs(i)' = AllAddrs(i)  BY <1>2, <1>3 DEF AllAddrs
<1>5. \A s : AddrIn(s)' = AddrIn(s)  BY <1>4 DEF AddrIn
<1>6. Slots' = Slots  BY <1>4, <1>5 DEF Slots
<1>7. Used' = Used  BY <1>5, <1>6 DEF Used
<1>8. \A i : NamesOf(i)' = NamesOf(i)  BY <1>1 DEF NamesOf
<1>9. \A d : Met(d)' = Met(d)  BY DEF Met
<1>10. Named' = Named  BY <1>8 DEF Named
<1> QED  BY <1>1, <1>2, <1>3, <1>4, <1>5, <1>6, <1>7, <1>8, <1>9, <1>10

LEMMA SameChecked ==
  ASSUME UNCHANGED img
  PROVE  /\ Checked => Checked'
         /\ FilesFound /\ DirsFound /\ ParentsMatch /\ Downwards =>
               FilesFound' /\ DirsFound' /\ ParentsMatch' /\ Downwards'
<1> USE SameImage
<1>1. GoodTypes => GoodTypes'  BY DEF GoodTypes
<1>2. GoodRoot => GoodRoot'  BY DEF GoodRoot
<1>3. GoodDots => GoodDots'  BY DEF GoodDots
<1>4. GoodRange => GoodRange'  BY DEF GoodRange
<1>5. UsedOnce => UsedOnce'  BY DEF UsedOnce
<1>6. GoodBitmap => GoodBitmap'  BY DEF GoodBitmap
<1>7. NamesAllocated => NamesAllocated'  BY DEF NamesAllocated
<1>8. OnceNamed => OnceNamed'  BY DEF OnceNamed
<1>9. GoodLinks => GoodLinks'  BY DEF GoodLinks
<1>10. FilesReferred => FilesReferred'  BY DEF FilesReferred
<1>11. FilesFound => FilesFound'  BY DEF FilesFound
<1>12. DirsFound => DirsFound'  BY DEF DirsFound
<1>13. ParentsMatch => ParentsMatch'  BY DEF ParentsMatch
<1>14. Downwards => Downwards'  BY DEF Downwards
<1>15. Checked => Checked'
  BY <1>1, <1>2, <1>3, <1>4, <1>5, <1>6, <1>7, <1>8, <1>9, <1>10 DEF Checked
<1> QED  BY <1>11, <1>12, <1>13, <1>14, <1>15

LEMMA SamePassed ==
  ASSUME UNCHANGED img
  PROVE  /\ \A i : Passed(i) <=> Passed(i)'
         /\ \A d : PassedDir(d) <=> PassedDir(d)'
         /\ \A n : LeftBlocks(n)' = LeftBlocks(n) /\ LeftInodes(n)' = LeftInodes(n)
         /\ \A i, n : Counted(i, n)' = Counted(i, n)
<1> USE SameImage
<1>1. \A i, k : GoodAddress(i, k) <=> GoodAddress(i, k)'  BY DEF GoodAddress, Before
<1>2. \A i : Passed(i) <=> Passed(i)'  BY <1>1 DEF Passed
<1>3. \A d : PassedDir(d) <=> PassedDir(d)'  BY DEF PassedDir
<1>4. \A n : LeftBlocks(n)' = LeftBlocks(n)  BY DEF LeftBlocks
<1>5. \A n : LeftInodes(n)' = LeftInodes(n)  BY DEF LeftInodes
<1>6. \A i, n : Counted(i, n)' = Counted(i, n)  BY DEF Counted
<1> QED  BY <1>2, <1>3, <1>4, <1>5, <1>6

\* Neither does what temp.c finds change while its copies do not.
LEMMA SameFaults ==
  ASSUME UNCHANGED <<img, left, refs>>
  PROVE  /\ \A i : AddressFault(i)' = AddressFault(i)
         /\ \A i : GoodInode(i) <=> GoodInode(i)'
         /\ \A d : DirFaults(d)' = DirFaults(d)
         /\ FinalFaults' = FinalFaults
<1> USE SameImage
<1>1. \A s, k, range, blocks : Fault(s, k, range, blocks)' = Fault(s, k, range, blocks)
  BY DEF Fault
<1>2. \A s, range, blocks : FirstFault(s, range, blocks)' = FirstFault(s, range, blocks)
  BY <1>1 DEF FirstFault
<1>3. \A i : AddressFault(i)' = AddressFault(i)  BY <1>2 DEF AddressFault
<1>4. \A i : GoodInode(i) <=> GoodInode(i)'  BY <1>3 DEF GoodInode
<1>5. \A d, e : DirTwice(d, e) <=> DirTwice(d, e)'  BY DEF DirTwice
<1>6. \A d : DirFaults(d)' = DirFaults(d)  BY <1>5 DEF DirFaults
<1>7. FinalFaults' = FinalFaults  BY DEF FinalFaults
<1> QED  BY <1>3, <1>4, <1>6, <1>7

LEMMA SameWhyExit ==
  ASSUME UNCHANGED <<img, left, refs, place>>, verdict' # "none",
         \/ place \in Ino /\ img.type[place] \notin T_FREE..T_DEV /\ verdict' = "bad inode"
         \/ place \in Ino /\ AddressFault(place) # "none" /\ verdict' = AddressFault(place)
         \/ place = ROOTINO /\ img.type[place] # T_DIR /\ verdict' = "no root directory"
         \/ place \in Dirs /\ GoodInode(place) /\ verdict' \in DirFaults(place)
         \/ place = NINODES + 1 /\ FinalFaults = {} /\ verdict' = "ok"
         \/ place = NINODES + 1 /\ verdict' \in FinalFaults
  PROVE  WhyExit'
BY SameFaults, SameImage DEF WhyExit

-----------------------------------------------------------------------------
(* The directory tests of temp.c.                                          *)

DirWords == {"marked free", "not properly formatted", "no root directory", "directory twice"}

LEMMA DirFaultsAre ==
  ASSUME img \in Format, NEW d \in Dirs
  PROVE  /\ DirFaults(d) \subseteq DirWords
         /\ "directory twice" \in DirFaults(d) <=>
               \E e \in Name : img.ent[d][e] \in Dirs /\ DirTwice(d, e)
         /\ DirFaults(d) \subseteq {"directory twice"} <=>
               /\ \A e \in Entry : img.ent[d][e] \in Allocated \cup {None}
               /\ img.ent[d]["."] = d /\ img.ent[d][".."] # None
               /\ d = ROOTINO => img.ent[d][".."] = d
<1>1. \A why : why \in DirFaults(d) <=>
         \/ why = "marked free" /\ \E e \in Entry : img.ent[d][e] \notin Allocated \cup {None}
         \/ why = "not properly formatted" /\ img.ent[d]["."] # d
         \/ why = "not properly formatted" /\ img.ent[d][".."] = None
         \/ why = "no root directory" /\ d = ROOTINO /\ img.ent[d][".."] # d
         \/ why = "directory twice" /\ \E e \in Name : img.ent[d][e] \in Dirs /\ DirTwice(d, e)
  BY DEF DirFaults
<1>2. DirFaults(d) \subseteq DirWords  BY <1>1 DEF DirWords
<1>3. "directory twice" \in DirFaults(d) <=>
         \E e \in Name : img.ent[d][e] \in Dirs /\ DirTwice(d, e)
  <2> DEFINE T == \E e \in Name : img.ent[d][e] \in Dirs /\ DirTwice(d, e)
  <2>1. T => "directory twice" \in DirFaults(d)  BY <1>1
  <2>2. "directory twice" \in DirFaults(d) => T
    <3> PICK w : w = "directory twice"  OBVIOUS
    <3>1. w # "marked free" /\ w # "not properly formatted" /\ w # "no root directory"  OBVIOUS
    <3> HIDE DEF T
    <3>2. w \in DirFaults(d) => T  BY <1>1, <3>1 DEF T
    <3> QED  BY <3>2
  <2> QED  BY <2>1, <2>2
<1>4. DirFaults(d) \subseteq {"directory twice"} =>
         /\ \A e \in Entry : img.ent[d][e] \in Allocated \cup {None}
         /\ img.ent[d]["."] = d /\ img.ent[d][".."] # None
         /\ d = ROOTINO => img.ent[d][".."] = d
  <2>1. SUFFICES ASSUME DirFaults(d) \subseteq {"directory twice"}
                 PROVE  /\ "marked free" \notin DirFaults(d)
                        /\ "not properly formatted" \notin DirFaults(d)
                        /\ "no root directory" \notin DirFaults(d)
    BY <1>1
  <2> QED  BY <2>1
<1>5. ASSUME \A e \in Entry : img.ent[d][e] \in Allocated \cup {None},
             img.ent[d]["."] = d, img.ent[d][".."] # None,
             d = ROOTINO => img.ent[d][".."] = d
      PROVE  DirFaults(d) \subseteq {"directory twice"}
  <2> SUFFICES ASSUME NEW why \in DirFaults(d) PROVE why = "directory twice"  OBVIOUS
  <2>1. ~\E e \in Entry : img.ent[d][e] \notin Allocated \cup {None}  BY <1>5
  <2>2. ~(d = ROOTINO /\ img.ent[d][".."] # d)  BY <1>5
  <2> DEFINE M == \E e \in Entry : img.ent[d][e] \notin Allocated \cup {None}
             R == d = ROOTINO /\ img.ent[d][".."] # d
             T == \E e \in Name : img.ent[d][e] \in Dirs /\ DirTwice(d, e)
             V == img.ent[d]["."] # d
             W == img.ent[d][".."] = None
  <2>0. \/ why = "marked free" /\ M
        \/ why = "not properly formatted" /\ V
        \/ why = "not properly formatted" /\ W
        \/ why = "no root directory" /\ R
        \/ why = "directory twice" /\ T
    BY <1>1
  <2> HIDE DEF M, R, T
  <2>3. V \/ W \/ why = "directory twice"
    BY <2>0, <2>1, <2>2 DEF M, R
  <2> QED  BY <1>5, <2>3
<1> QED  BY <1>2, <1>3, <1>4, <1>5

LEMMA TwiceIs ==
  ASSUME img \in Format, NEW d \in Dirs, left.inodes = LeftInodes(d),
         NEW e \in Name, img.ent[d][e] \in Dirs
  PROVE  DirTwice(d, e) <=>
            \/ \E f \in Entry \ {e} : img.ent[d][f] = img.ent[d][e]
            \/ \E c \in Dirs, f \in Entry : c < d /\ img.ent[c][f] = img.ent[d][e]
<1>1. img.ent[d][e] \in Allocated /\ img.ent[d][e] # None  BY DEF Dirs, Allocated, Ino
<1>2. img.ent[d][e] \in left.inodes <=> \A c \in Dirs : c < d => img.ent[d][e] \notin Met(c)
  BY <1>1 DEF LeftInodes
<1>3. \A c : img.ent[d][e] \in Met(c) <=> \E f \in Entry : img.ent[c][f] = img.ent[d][e]
  BY <1>1 DEF Met
<1> QED  BY <1>2, <1>3 DEF DirTwice

LEMMA DirGood ==
  ASSUME img \in Format, NEW d \in Dirs, left.inodes = LeftInodes(d)
  PROVE  DirFaults(d) = {} => PassedDir(d)
<1>1. SUFFICES ASSUME DirFaults(d) = {} PROVE PassedDir(d)  OBVIOUS
<1>2. \A e \in Name : img.ent[d][e] \in Dirs => ~DirTwice(d, e)  BY <1>1, DirFaultsAre
<1>3. ASSUME NEW e \in Name, img.ent[d][e] \in Dirs
      PROVE  /\ \A f \in Entry \ {e} : img.ent[d][f] # img.ent[d][e]
             /\ \A c \in Dirs, f \in Entry : c < d => img.ent[c][f] # img.ent[d][e]
  BY <1>2, <1>3, TwiceIs
<1>4. DirFaults(d) \subseteq {"directory twice"}  BY <1>1
<1>5. /\ \A e \in Entry : img.ent[d][e] \in Allocated \cup {None}
      /\ img.ent[d]["."] = d /\ img.ent[d][".."] # None
      /\ d = ROOTINO => img.ent[d][".."] = d
  BY <1>4, DirFaultsAre
<1> QED  BY <1>3, <1>5 DEF PassedDir

\* The names that checkdir() counts are those of one directory.
LEMMA CountedIn ==
  ASSUME img \in Format, NEW d \in Dirs, NEW i \in Ino
  PROVE  Cardinality(Counted(i, d + 1)) =
            Cardinality(Counted(i, d))
            + Cardinality({e \in Name : img.type[i] = T_FILE /\ img.ent[d][e] = i})
<1> DEFINE E == {e \in Name : img.type[i] = T_FILE /\ img.ent[d][e] = i}
           N == {x \in NamesOf(i) : img.type[i] = T_FILE /\ x[1] = d}
           C == Counted(i, d)
           f == [e \in E |-> <<d, e>>]
<1>1. IsFiniteSet(E) /\ Cardinality(E) \in Nat  BY Sizes, FS_Subset, FS_CardinalityType
<1>2. \A x : x \in NamesOf(i) => /\ x = <<x[1], x[2]>> /\ x[1] \in Dirs /\ x[2] \in Name
                                 /\ img.ent[x[1]][x[2]] = i
  BY NamesFinite
<1>3. f \in Bijection(E, N)
  <2>1. f \in [E -> N]
    <3> SUFFICES ASSUME NEW e \in E PROVE <<d, e>> \in N  OBVIOUS
    <3>1. <<d, e>> \in NamesOf(i)  BY NamesFinite
    <3> QED  BY <3>1
  <2>2. \A a, b \in E : f[a] = f[b] => a = b  OBVIOUS
  <2>3. \A x \in N : \E e \in E : f[e] = x
    <3> TAKE x \in N
    <3>1. x = <<d, x[2]>> /\ x[2] \in E  BY <1>2
    <3> QED  BY <3>1
  <2> HIDE DEF f, E, N
  <2> QED  BY <2>1, <2>2, <2>3, Fun_IsBij
<1>4. IsFiniteSet(N) /\ Cardinality(N) = Cardinality(E)
  <2>1. ExistsBijection(E, N)  BY <1>3 DEF ExistsBijection
  <2> HIDE DEF E, N
  <2> QED  BY <1>1, <2>1, FS_Bijection
<1>5. IsFiniteSet(C) /\ Cardinality(C) \in Nat
  <2>1. IsFiniteSet(NamesOf(i))  BY NamesFinite
  <2>2. C \subseteq NamesOf(i)  BY DEF Counted
  <2> QED  BY <2>1, <2>2, FS_Subset, FS_CardinalityType
<1>6. Counted(i, d + 1) = C \cup N
  <2>1. \A x \in NamesOf(i) : x[1] < d + 1 <=> x[1] < d \/ x[1] = d
    <3> TAKE x \in NamesOf(i)
    <3>1. x[1] \in Int /\ d \in Int  BY <1>2 DEF Dirs, Ino
    <3> QED  BY <3>1
  <2> QED  BY <2>1 DEF Counted
<1>7. C \cap N = {}
  <2> SUFFICES ASSUME NEW x \in C, x \in N PROVE FALSE  OBVIOUS
  <2>1. x[1] < d /\ x[1] = d  BY DEF Counted
  <2>2. d \in Int  BY DEF Dirs, Ino
  <2> QED  BY <2>1, <2>2
<1>8. Cardinality(C \cup N) = Cardinality(C) + Cardinality(N)
  <2> HIDE DEF C, N
  <2>1. Cardinality(C \cup N) = Cardinality(C) + Cardinality(N) - Cardinality(C \cap N)
    BY <1>4, <1>5, FS_Union
  <2>2. Cardinality(C \cap N) = 0  BY <1>7, FS_EmptySet
  <2>3. Cardinality(N) \in Nat  BY <1>1, <1>4
  <2> QED  BY <1>5, <2>1, <2>2, <2>3
<1> QED  BY <1>4, <1>6, <1>8

-----------------------------------------------------------------------------
(* temp.c keeps FcheckInv.                                                 *)

\* At the beginning nothing has been gone over.
LEMMA FcheckStartKeeps ==
  ASSUME StartInv, ImgInv, FcheckStart
  PROVE  FcheckInv'
<1>1. /\ program = "none" /\ program' = "temp.c" /\ UNCHANGED <<img, place, verdict>>
      /\ left' = [blocks |-> img.marked, inodes |-> Allocated]
      /\ refs' = [i \in Ino |-> 0]
  BY DEF FcheckStart, Start
<1>2. place = 1 /\ verdict = "none" /\ img \in Format  BY <1>1 DEF StartInv, ImgInv
<1>3. \A i \in Ino : ~(i < 1)  BY DEF Ino
<1>4. Dirs \subseteq Ino  BY DEF Dirs
<1>5. LeftBlocks(1) = img.marked /\ LeftInodes(1) = Allocated
  BY <1>3, <1>4 DEF LeftBlocks, LeftInodes
<1>6. \A i \in Ino : Cardinality(Counted(i, 1)) = 0
  <2> TAKE i \in Ino
  <2>1. \A x \in NamesOf(i) : x[1] \in Ino  BY <1>2, <1>4, NamesFinite
  <2>2. Counted(i, 1) = {}  BY <1>3, <2>1 DEF Counted
  <2> QED  BY <2>2, FS_EmptySet
<1>7. /\ left' = [blocks |-> LeftBlocks(1), inodes |-> LeftInodes(1)]
      /\ refs' = [i \in Ino |-> Cardinality(Counted(i, 1))]
  BY <1>1, <1>5, <1>6
<1>8. /\ LeftBlocks(1)' = LeftBlocks(1) /\ LeftInodes(1)' = LeftInodes(1) /\ Dirs' = Dirs
      /\ \A i : Counted(i, 1)' = Counted(i, 1)
  BY <1>1, SamePassed, SameImage
<1>9. place' = 1 /\ verdict' = "none" /\ 1 \in 1..NINODES + 1  BY <1>1, <1>2, Sizes
<1> QED  BY <1>3, <1>4, <1>7, <1>8, <1>9 DEF FcheckInv

\* An exit says why.
LEMMA FcheckExits ==
  ASSUME FcheckInv, BadInode \/ BadDir \/ Bitmaps
  PROVE  FcheckInv'
<1>1. program = "temp.c" /\ UNCHANGED <<program, img, place, left, refs>>
  BY DEF BadInode, BadDir, Bitmaps, Runs, Exit
<1>2. /\ place \in 1..NINODES + 1
      /\ left = [blocks |-> LeftBlocks(place), inodes |-> LeftInodes(place)]
      /\ refs = [i \in Ino |-> Cardinality(Counted(i, place))]
      /\ \A i \in Ino : i < place => Passed(i)
      /\ \A d \in Dirs : d < place => PassedDir(d)
  BY <1>1 DEF FcheckInv
<1>3. \/ place \in Ino /\ img.type[place] \notin T_FREE..T_DEV /\ verdict' = "bad inode"
      \/ place \in Ino /\ AddressFault(place) # "none" /\ verdict' = AddressFault(place)
      \/ place = ROOTINO /\ img.type[place] # T_DIR /\ verdict' = "no root directory"
      \/ place \in Dirs /\ GoodInode(place) /\ verdict' \in DirFaults(place)
      \/ place = NINODES + 1 /\ FinalFaults = {} /\ verdict' = "ok"
      \/ place = NINODES + 1 /\ verdict' \in FinalFaults
  <2>1. CASE BadInode  BY <2>1 DEF BadInode, Exit
  <2>2. CASE BadDir  BY <2>2 DEF BadDir, Exit
  <2>3. CASE Bitmaps  BY <2>3 DEF Bitmaps, Exit
  <2> QED  BY <2>1, <2>2, <2>3
<1>4. verdict' # "none" => WhyExit'  BY <1>1, <1>3, SameWhyExit
<1>5. /\ place' = place
      /\ left' = [blocks |-> LeftBlocks(place), inodes |-> LeftInodes(place)]
      /\ refs' = [i \in Ino |-> Cardinality(Counted(i, place))]
  BY <1>1, <1>2
<1>6. /\ Dirs' = Dirs /\ LeftBlocks(place)' = LeftBlocks(place)
      /\ LeftInodes(place)' = LeftInodes(place)
      /\ \A i : Counted(i, place)' = Counted(i, place)
      /\ \A i : Passed(i) <=> Passed(i)'
      /\ \A d : PassedDir(d) <=> PassedDir(d)'
  <2>1. Dirs' = Dirs  BY <1>1, SameImage
  <2> PICK n : n = place  OBVIOUS
  <2>2. place' = n  BY <1>1
  <2>3. LeftBlocks(n)' = LeftBlocks(n) /\ LeftInodes(n)' = LeftInodes(n)
        /\ \A i : Counted(i, n)' = Counted(i, n)
    BY <1>1, SamePassed
  <2> QED  BY <1>1, <2>1, <2>2, <2>3, SamePassed
<1> QED  BY <1>2, <1>4, <1>5, <1>6 DEF FcheckInv

\* The next inode has passed its tests.
LEMMA InodeKeeps ==
  ASSUME ImgInv, FcheckInv, Inode
  PROVE  FcheckInv'
<1> USE Sizes
<1>1. /\ program = "temp.c" /\ UNCHANGED <<program, img>> /\ verdict = "none"
      /\ place \in Ino /\ GoodInode(place) /\ place' = place + 1 /\ verdict' = verdict
  BY DEF Inode, Runs
<1>2. /\ left = [blocks |-> LeftBlocks(place), inodes |-> LeftInodes(place)]
      /\ refs = [i \in Ino |-> Cardinality(Counted(i, place))]
      /\ \A i \in Ino : i < place => Passed(i)
      /\ \A d \in Dirs : d < place => PassedDir(d)
      /\ img \in Format
  BY <1>1 DEF FcheckInv, ImgInv
<1> PICK n \in Ino : n = place  BY <1>1
<1>3. \A j \in Ino : j < n + 1 <=> j < n \/ j = n  BY DEF Ino
<1>4. Dirs \subseteq Ino  BY DEF Dirs
<1>5. LeftBlocks(n + 1) = LeftBlocks(n) \ ToSet(AllAddrs(n))  BY <1>3 DEF LeftBlocks
<1>6. left.blocks = LeftBlocks(n) /\ left.inodes = LeftInodes(n)  BY <1>2
<1>7. Passed(n)
  <2>1. AddressFault(n) = "none" /\ img.type[n] \in T_FREE..T_DEV /\ (n = ROOTINO => img.type[n] = T_DIR)
    BY <1>1 DEF GoodInode
  <2>2. \A k \in 1..Len(AllAddrs(n)) : GoodAddress(n, k)  BY <1>2, <1>6, <2>1, AddressGood
  <2> QED  BY <2>1, <2>2 DEF Passed
<1>8. /\ left' = [blocks |-> LeftBlocks(n + 1), inodes |-> LeftInodes(n + 1)]
      /\ refs' = [i \in Ino |-> Cardinality(Counted(i, n + 1))]
      /\ n \in Dirs => PassedDir(n)
  <2>1. CASE n \in Dirs
    <3>1. DirFaults(n) = {} /\ Checkdir(n)  BY <1>1, <2>1 DEF Inode
    <3>2. /\ left' = [blocks |-> LeftBlocks(n) \ ToSet(AllAddrs(n)), inodes |-> LeftInodes(n) \ Met(n)]
          /\ refs' = [i \in Ino |-> refs[i] + Cardinality(
                         {e \in Name : img.type[i] = T_FILE /\ img.ent[n][e] = i})]
      BY <1>6, <3>1 DEF Checkdir
    <3>3. LeftInodes(n + 1) = LeftInodes(n) \ Met(n)  BY <1>3, <1>4, <2>1 DEF LeftInodes
    <3>4. \A i \in Ino : refs[i] + Cardinality(
                {e \in Name : img.type[i] = T_FILE /\ img.ent[n][e] = i}) = Cardinality(Counted(i, n + 1))
      BY <1>2, <2>1, CountedIn
    <3>5. PassedDir(n)  BY <1>2, <1>6, <2>1, <3>1, DirGood
    <3> QED  BY <1>5, <3>2, <3>3, <3>4, <3>5
  <2>2. CASE n \notin Dirs
    <3>1. left' = [left EXCEPT !.blocks = @ \ ToSet(AllAddrs(n))] /\ refs' = refs
      BY <1>1, <2>2 DEF Inode
    <3>2. left' = [blocks |-> LeftBlocks(n) \ ToSet(AllAddrs(n)), inodes |-> LeftInodes(n)]
      BY <1>2, <3>1
    <3>3. \A d \in Dirs : d < n + 1 <=> d < n  BY <1>3, <1>4, <2>2
    <3>4. LeftInodes(n + 1) = LeftInodes(n)  BY <3>3 DEF LeftInodes
    <3>5. \A i \in Ino : Counted(i, n + 1) = Counted(i, n)
      <4> TAKE i \in Ino
      <4>1. \A x \in NamesOf(i) : x[1] \in Dirs  BY <1>2, NamesFinite
      <4> QED  BY <3>3, <4>1 DEF Counted
    <3>6. refs' = [i \in Ino |-> Cardinality(Counted(i, n + 1))]  BY <1>2, <3>1, <3>5
    <3> QED  BY <1>5, <2>2, <3>2, <3>4, <3>6
  <2> QED  BY <2>1, <2>2
<1>9. /\ \A i \in Ino : i < n + 1 => Passed(i)
      /\ \A d \in Dirs : d < n + 1 => PassedDir(d)
  BY <1>2, <1>3, <1>4, <1>7, <1>8
<1>10. /\ Dirs' = Dirs
       /\ LeftBlocks(n + 1)' = LeftBlocks(n + 1) /\ LeftInodes(n + 1)' = LeftInodes(n + 1)
       /\ \A i : Counted(i, n + 1)' = Counted(i, n + 1)
       /\ \A i : Passed(i) <=> Passed(i)'
       /\ \A d : PassedDir(d) <=> PassedDir(d)'
  <2> PICK m : m = n + 1  OBVIOUS
  <2>1. LeftBlocks(m)' = LeftBlocks(m) /\ LeftInodes(m)' = LeftInodes(m)
        /\ \A i : Counted(i, m)' = Counted(i, m)
    BY <1>1, SamePassed
  <2> QED  BY <1>1, <2>1, SamePassed, SameImage
<1>11. n + 1 \in 1..NINODES + 1  BY DEF Ino
<1>12. place' = n + 1 /\ verdict' = "none"  BY <1>1
<1> QED  BY <1>8, <1>9, <1>10, <1>11, <1>12 DEF FcheckInv

-----------------------------------------------------------------------------
(* What the verdict of temp.c is worth.                                    *)

\* When temp.c finds nothing, there is nothing to find.
LEMMA AcceptsChecked ==
  ASSUME ImgInv, FcheckInv, program = "temp.c", verdict = "ok", SIZE \notin img.marked
  PROVE  Checked
<1> USE Sizes
<1>1. /\ img \in Format /\ WhyExit /\ place \in 1..NINODES + 1
      /\ left = [blocks |-> LeftBlocks(place), inodes |-> LeftInodes(place)]
      /\ refs = [i \in Ino |-> Cardinality(Counted(i, place))]
      /\ \A i \in Ino : i < place => Passed(i)
      /\ \A d \in Dirs : d < place => PassedDir(d)
  BY DEF ImgInv, FcheckInv
<1>2. Dirs \subseteq Ino  BY DEF Dirs
<1>3. place = NINODES + 1 /\ FinalFaults = {}
  <2>1. ASSUME place \in Ino PROVE AddressFault(place) # "ok"
    <3> PICK i \in Ino : i = place  BY <2>1
    <3>1. left.blocks = LeftBlocks(i)  BY <1>1
    <3>2. AddressFault(i) \in {"none"} \cup AddressFaults  BY <1>1, <3>1, AddressGood
    <3> QED  BY <3>2 DEF AddressFaults
  <2>2. ASSUME place \in Dirs PROVE "ok" \notin DirFaults(place)
    <3>1. DirFaults(place) \subseteq DirWords  BY <1>1, <2>2, DirFaultsAre
    <3> QED  BY <3>1 DEF DirWords
  <2>3. "ok" \notin FinalFaults  BY DEF FinalFaults
  <2> QED  BY <1>1, <2>1, <2>2, <2>3 DEF WhyExit
<1>4. /\ left.blocks \cap Data = {} /\ left.inodes \cap Allocated = {}
      /\ \A i \in Ino : img.type[i] = T_FILE => img.nlink[i] = refs[i]
  BY <1>3 DEF FinalFaults
<1>5. \A i \in Ino : i < place  BY <1>3 DEF Ino
<1>6. (\A i \in Ino : Passed(i)) /\ (\A d \in Dirs : PassedDir(d))  BY <1>1, <1>2, <1>5
<1>7. ASSUME NEW s \in Slots
      PROVE  /\ AddrIn(s) \in Data \/ AddrIn(s) = SIZE
             /\ AddrIn(s) \in img.marked
             /\ \A t \in Slots : AddrIn(t) = AddrIn(s) => ~Before(t, s)
  <2>1. s = <<s[1], s[2]>> /\ s[1] \in Ino /\ s[2] \in 1..Len(AllAddrs(s[1]))
        /\ AddrIn(s) = AllAddrs(s[1])[s[2]] /\ AddrIn(s) # None
    BY <1>1, SlotFacts
  <2>2. GoodAddress(s[1], s[2])  BY <1>6, <2>1 DEF Passed
  <2> QED  BY <2>1, <2>2 DEF GoodAddress
<1>8. GoodTypes
  <2> SUFFICES ASSUME NEW i \in Ino PROVE img.type[i] \in {T_FREE, T_DIR, T_FILE, T_DEV}  BY DEF GoodTypes
  <2>1. img.type[i] \in 0..3  BY <1>6 DEF Passed
  <2> QED  BY <2>1
<1>9. GoodRoot
  <2>1. ROOTINO \in Ino  BY DEF Ino
  <2>2. ROOTINO \in Dirs  BY <1>6, <2>1 DEF Passed, Dirs
  <2> QED  BY <1>6, <2>2 DEF GoodRoot, PassedDir, Dirs
<1>10. GoodDots  BY <1>6 DEF GoodDots, PassedDir
<1>11. GoodRange
  <2> SUFFICES ASSUME NEW a \in Used PROVE a \in Data  BY DEF GoodRange
  <2> PICK s \in Slots : AddrIn(s) = a  BY <1>1, SlotFacts
  <2> QED  BY <1>7
<1>12. UsedOnce
  <2> SUFFICES ASSUME NEW s \in Slots, NEW t \in Slots, AddrIn(s) = AddrIn(t) PROVE s = t
    BY DEF UsedOnce
  <2>1. /\ s = <<s[1], s[2]>> /\ s[1] \in Nat /\ s[2] \in Nat
        /\ t = <<t[1], t[2]>> /\ t[1] \in Nat /\ t[2] \in Nat
    <3>1. s = <<s[1], s[2]>> /\ s \in Place  BY <1>1, SlotFacts
    <3>2. t = <<t[1], t[2]>> /\ t \in Place  BY <1>1, SlotFacts
    <3>3. \A u \in Place : u[1] \in Nat /\ u[2] \in Nat  BY DEF Place, Ino
    <3> QED  BY <3>1, <3>2, <3>3
  <2>2. ~Before(s, t) /\ ~Before(t, s)  BY <1>7
  <2>3. s[1] = t[1] /\ s[2] = t[2]  BY <2>1, <2>2 DEF Before
  <2> QED  BY <2>1, <2>3
<1>13. GoodBitmap
  <2>1. Used \cap Data \subseteq img.marked
    <3> SUFFICES ASSUME NEW a \in Used PROVE a \in img.marked  OBVIOUS
    <3> PICK s \in Slots : AddrIn(s) = a  BY <1>1, SlotFacts
    <3> QED  BY <1>7
  <2>2. img.marked \cap Data \subseteq Used
    <3> SUFFICES ASSUME NEW a \in img.marked, a \in Data PROVE a \in Used  OBVIOUS
    <3>1. a \notin LeftBlocks(place)  BY <1>1, <1>4
    <3>2. PICK j \in Ino : a \in ToSet(AllAddrs(j))  BY <3>1 DEF LeftBlocks
    <3>3. a # None  BY DEF Data
    <3> QED  BY <1>1, <3>2, <3>3, UsedBy
  <2> QED  BY <2>1, <2>2 DEF GoodBitmap
<1>14. NamesAllocated  BY <1>6 DEF NamesAllocated, PassedDir
<1>15. ASSUME NEW x \in Dirs
       PROVE  Cardinality(NamesOf(x)) <= IF x = ROOTINO THEN 0 ELSE 1
  <2>1. IsFiniteSet(NamesOf(x))  BY <1>1, NamesFinite
  <2>2. ASSUME NEW a \in NamesOf(x), NEW b \in NamesOf(x) PROVE a = b
    <3>1. /\ a = <<a[1], a[2]>> /\ a[1] \in Dirs /\ a[2] \in Name /\ img.ent[a[1]][a[2]] = x
          /\ b = <<b[1], b[2]>> /\ b[1] \in Dirs /\ b[2] \in Name /\ img.ent[b[1]][b[2]] = x
      BY <1>1, NamesFinite
    <3>2. a[1] \in Int /\ b[1] \in Int  BY <1>2, <3>1 DEF Ino
    <3>3. a[2] \in Entry /\ b[2] \in Entry  BY <3>1 DEF Entry
    <3>4. ~(a[1] < b[1])  BY <1>6, <3>1, <3>3 DEF PassedDir
    <3>5. ~(b[1] < a[1])  BY <1>6, <3>1, <3>3 DEF PassedDir
    <3>6. a[1] = b[1]  BY <3>2, <3>4, <3>5
    <3>7. a[2] = b[2]  BY <1>6, <3>1, <3>3, <3>6 DEF PassedDir
    <3> QED  BY <3>1, <3>6, <3>7
  <2>3. ASSUME x = ROOTINO, NEW a \in NamesOf(x) PROVE FALSE
    <3>1. a[1] \in Dirs /\ a[2] \in Name /\ img.ent[a[1]][a[2]] = x  BY <1>1, NamesFinite
    <3>2. "." \in Entry \ {a[2]}  BY <3>1 DEF Entry
    <3>3. img.ent[x]["."] = x  BY <1>6 DEF PassedDir
    <3>4. a[1] # x  BY <1>6, <3>1, <3>2, <3>3 DEF PassedDir
    <3>5. x < a[1]
      <4> PICK c \in Ino : c = a[1]  BY <1>2, <3>1
      <4>1. x = 1  BY <2>3
      <4> QED  BY <3>4, <4>1 DEF Ino
    <3> QED  BY <1>6, <3>1, <3>2, <3>3, <3>5 DEF PassedDir
  <2> QED  BY <2>1, <2>2, <2>3, AtMostOne
<1>16. OnceNamed  BY <1>15 DEF OnceNamed
<1>17. GoodLinks
  <2> SUFFICES ASSUME NEW i \in Ino, img.type[i] = T_FILE PROVE img.nlink[i] = Cardinality(NamesOf(i))
    BY DEF GoodLinks
  <2>1. \A x \in NamesOf(i) : x[1] < place  BY <1>1, <1>2, <1>5, NamesFinite
  <2>2. Counted(i, place) = NamesOf(i)  BY <2>1 DEF Counted
  <2> QED  BY <1>1, <1>4, <2>2
<1>18. FilesReferred
  <2> SUFFICES ASSUME NEW i \in Allocated \ Dirs PROVE \E d \in Dirs, e \in Entry : img.ent[d][e] = i
    BY DEF FilesReferred
  <2>1. i \notin LeftInodes(place)  BY <1>1, <1>4
  <2>2. PICK d \in Dirs : i \in Met(d)  BY <2>1 DEF LeftInodes
  <2> QED  BY <2>2 DEF Met
<1> QED  BY <1>8, <1>9, <1>10, <1>11, <1>12, <1>13, <1>14, <1>16, <1>17, <1>18 DEF Checked

\* What temp.c finds in an image that has what it makes sure of: a directory
\* met again, if there is one, and nothing else.
LEMMA CheckedJudged ==
  ASSUME ImgInv, FcheckInv, program = "temp.c", verdict # "none", Checked
  PROVE  verdict = IF MetAgain THEN "directory twice" ELSE "ok"
<1> USE Sizes
<1>1. /\ img \in Format /\ WhyExit /\ place \in 1..NINODES + 1
      /\ left = [blocks |-> LeftBlocks(place), inodes |-> LeftInodes(place)]
      /\ refs = [i \in Ino |-> Cardinality(Counted(i, place))]
      /\ \A d \in Dirs : d < place => PassedDir(d)
  BY DEF ImgInv, FcheckInv
<1>2. /\ GoodTypes /\ GoodRoot /\ GoodDots /\ GoodRange /\ UsedOnce /\ GoodBitmap
      /\ NamesAllocated /\ OnceNamed /\ GoodLinks /\ FilesReferred
  BY DEF Checked
<1>3. Dirs \subseteq Ino /\ Dirs \subseteq Allocated  BY DEF Dirs, Allocated
<1>5. ASSUME place \in Ino PROVE AddressFault(place) = "none"
  <2> PICK i \in Ino : i = place  BY <1>5
  <2>1. ASSUME NEW k \in 1..Len(AllAddrs(i)), AllAddrs(i)[k] # None
        PROVE  GoodAddress(i, k)
    <3> DEFINE a == AllAddrs(i)[k]
    <3>1. <<i, k>> \in Slots /\ AddrIn(<<i, k>>) = a /\ a \in Used
      BY <1>1, <2>1, SlotFacts
    <3>2. a \in Data /\ a \in img.marked  BY <1>2, <3>1 DEF GoodRange, GoodBitmap
    <3>3. ASSUME NEW s \in Slots, AddrIn(s) = a PROVE ~Before(s, <<i, k>>)
      <4>1. s = <<i, k>>  BY <1>2, <3>1, <3>3 DEF UsedOnce
      <4>2. k \in Int /\ i \in Int
        <5>1. Len(AllAddrs(i)) \in Nat  BY <1>1, AddrsSeq
        <5> QED  BY <5>1 DEF Ino
      <4> QED  BY <4>1, <4>2 DEF Before
    <3> QED  BY <3>2, <3>3 DEF GoodAddress
  <2>2. \A k \in 1..Len(AllAddrs(i)) : GoodAddress(i, k)  BY <2>1 DEF GoodAddress
  <2>3. left.blocks = LeftBlocks(i)  BY <1>1
  <2> QED  BY <1>1, <2>2, <2>3, AddressGood
<1>7. ASSUME place \in Dirs, verdict \in DirFaults(place)
      PROVE  verdict = "directory twice" /\ MetAgain
  <2> PICK d \in Dirs : d = place  BY <1>7
  <2>1. left.inodes = LeftInodes(d)  BY <1>1
  <2>2. /\ \A e \in Entry : img.ent[d][e] \in Allocated \cup {None}
        /\ img.ent[d]["."] = d /\ img.ent[d][".."] # None
        /\ d = ROOTINO => img.ent[d][".."] = d
    BY <1>2 DEF NamesAllocated, GoodDots, GoodRoot
  <2>3. DirFaults(d) \subseteq {"directory twice"}  BY <1>1, <2>2, DirFaultsAre
  <2>4. verdict = "directory twice"  BY <1>7, <2>3
  <2>5. PICK e \in Name : img.ent[d][e] \in Dirs /\ DirTwice(d, e)
    BY <1>1, <1>7, <2>4, DirFaultsAre
  <2>6. PICK c \in Dirs, f \in Entry :
            /\ img.ent[c][f] = img.ent[d][e]
            /\ c < d \/ (c = d /\ f # e)
    BY <1>1, <2>1, <2>5, TwiceIs
  <2>7. MetAgain  BY <2>5, <2>6 DEF MetAgain
  <2> QED  BY <2>4, <2>7
<1>8. ASSUME place = NINODES + 1 PROVE ~MetAgain
  <2> SUFFICES ASSUME NEW d \in Dirs, NEW e \in Name, img.ent[d][e] \in Dirs,
                      NEW c \in Dirs, NEW f \in Entry,
                      img.ent[c][f] = img.ent[d][e], c < d \/ (c = d /\ f # e)
               PROVE  FALSE
    BY DEF MetAgain
  <2>1. d < place  BY <1>3, <1>8 DEF Ino
  <2>2. PassedDir(d)  BY <1>1, <2>1
  <2> QED  BY <2>2 DEF PassedDir
<1>9. ASSUME place = NINODES + 1 PROVE FinalFaults = {}
  <2>0. \A i \in Ino : i < place  BY <1>9 DEF Ino
  <2>1. left.blocks \cap Data = {}
    <3> SUFFICES ASSUME NEW b \in Data, b \in LeftBlocks(place) PROVE FALSE  BY <1>1
    <3>1. b \in Used  BY <1>2 DEF LeftBlocks, GoodBitmap
    <3>2. PICK i \in Ino : b \in ToSet(AllAddrs(i))  BY <1>1, <3>1, UsedBy
    <3> QED  BY <2>0, <3>2 DEF LeftBlocks
  <2>2. left.inodes \cap Allocated = {}
    <3> SUFFICES ASSUME NEW i \in LeftInodes(place) PROVE FALSE  BY <1>1
    <3>1. i \in Allocated /\ i # None  BY DEF LeftInodes, Allocated, Ino
    <3>2. \E d \in Dirs, e \in Entry : img.ent[d][e] = i
      <4>1. CASE i \in Dirs  BY <1>2, <4>1 DEF GoodDots, Entry
      <4>2. CASE i \notin Dirs  BY <1>2, <3>1, <4>2 DEF FilesReferred
      <4> QED  BY <4>1, <4>2
    <3> PICK d \in Dirs : i \in Met(d)  BY <3>1, <3>2 DEF Met
    <3> QED  BY <1>3, <2>0 DEF LeftInodes
  <2>3. \A i \in Ino : ~(img.type[i] = T_FILE /\ img.nlink[i] # refs[i])
    <3> SUFFICES ASSUME NEW i \in Ino, img.type[i] = T_FILE PROVE img.nlink[i] = refs[i]  OBVIOUS
    <3>1. \A n \in NamesOf(i) : n[1] < place  BY <1>1, <1>3, <2>0, NamesFinite
    <3>2. Counted(i, place) = NamesOf(i)  BY <3>1 DEF Counted
    <3> QED  BY <1>1, <1>2, <3>2 DEF GoodLinks
  <2> QED  BY <2>1, <2>2, <2>3 DEF FinalFaults
<1>10. \A i \in Ino : img.type[i] \in T_FREE..T_DEV
  <2> TAKE i \in Ino
  <2>1. img.type[i] \in {0, 1, 2, 3}  BY <1>2 DEF GoodTypes
  <2> QED  BY <2>1
<1>11. img.type[ROOTINO] = T_DIR  BY <1>2 DEF GoodRoot
<1> QED  BY <1>1, <1>5, <1>7, <1>8, <1>9, <1>10, <1>11 DEF WhyExit

\* In a good image directories are met again only where one has a smaller number
\* than the one it is in.
LEMMA GoodOrder ==
  ASSUME img \in Format, Checked, DirsFound, ParentsMatch
  PROVE  MetAgain <=> ~Downwards
<1> USE Sizes
<1>2. GoodRoot /\ GoodDots /\ OnceNamed  BY DEF Checked
<1>3. Dirs \subseteq Ino  BY DEF Dirs
<1>4. \A x : \A a, b \in NamesOf(x) : x \in Dirs => a = b /\ x # ROOTINO
  <2> SUFFICES ASSUME NEW x \in Dirs, NEW a \in NamesOf(x), NEW b \in NamesOf(x)
               PROVE  a = b /\ x # ROOTINO
    OBVIOUS
  <2>1. IsFiniteSet(NamesOf(x)) /\ Cardinality(NamesOf(x)) \in Nat  BY NamesFinite
  <2>2. Cardinality(NamesOf(x)) <= IF x = ROOTINO THEN 0 ELSE 1  BY <1>2 DEF OnceNamed
  <2>3. x # ROOTINO  BY <2>1, <2>2, AtMostOne
  <2> QED  BY <2>1, <2>2, <2>3, AtMostOne
<1>6. ASSUME NEW c \in Dirs, NEW e \in Name, img.ent[c][e] \in Dirs,
             NEW d \in Dirs, NEW f \in Entry, img.ent[d][f] = img.ent[c][e],
             Downwards, d <= c
      PROVE  d = c /\ f = e
  <2> PICK x \in Dirs : x = img.ent[c][e]  BY <1>6
  <2>0. c \in Nat /\ d \in Nat /\ x \in Nat /\ c > 0 /\ d > 0  BY <1>3 DEF Ino
  <2>1. x > c  BY <1>6 DEF Downwards
  <2>2. <<c, e>> \in NamesOf(x)  BY NamesFinite
  <2>3. f # "."
    <3> SUFFICES ASSUME f = "." PROVE FALSE  OBVIOUS
    <3>1. x = d  BY <1>2, <1>6 DEF GoodDots
    <3> QED  BY <1>6, <2>0, <2>1, <3>1
  <2>4. f # ".."
    <3> SUFFICES ASSUME f = ".." PROVE FALSE  OBVIOUS
    <3>1. CASE d = ROOTINO
      <4>1. x = 1  BY <1>2, <1>6, <3>1 DEF GoodRoot
      <4> QED  BY <2>0, <2>1, <4>1
    <3>2. CASE d # ROOTINO
      <4>1. d \in Named  BY <3>2 DEF DirsFound
      <4> PICK n \in NamesOf(d) : TRUE  BY <4>1 DEF Named
      <4>2. n[1] \in Dirs /\ n[2] \in Name /\ img.ent[n[1]][n[2]] = d  BY NamesFinite
      <4>3. img.ent[d][".."] = n[1]  BY <4>2 DEF ParentsMatch
      <4>4. n[1] = x  BY <1>6, <4>3
      <4>5. d > x  BY <1>6, <4>2, <4>4 DEF Downwards
      <4> QED  BY <1>6, <2>0, <2>1, <4>5
    <3> QED  BY <3>1, <3>2
  <2>5. f \in Name  BY <2>3, <2>4 DEF Entry
  <2>6. <<d, f>> \in NamesOf(x)  BY <1>6, <2>5, NamesFinite
  <2>7. <<d, f>> = <<c, e>>  BY <1>4, <2>2, <2>6
  <2> QED  BY <2>7
<1>7. ASSUME MetAgain PROVE ~Downwards
  <2> PICK d \in Dirs, e \in Name, c \in Dirs, f \in Entry :
          /\ img.ent[d][e] \in Dirs /\ img.ent[c][f] = img.ent[d][e]
          /\ c < d \/ (c = d /\ f # e)
    BY <1>7 DEF MetAgain
  <2>1. c \in Int /\ d \in Int  BY <1>3 DEF Ino
  <2>2. c <= d /\ ~(c = d /\ f = e)  BY <2>1
  <2> QED  BY <1>6, <2>2
<1>8. ASSUME ~Downwards PROVE MetAgain
  <2> PICK d \in Dirs, e \in Name : img.ent[d][e] \in Dirs /\ ~(img.ent[d][e] > d)
    BY <1>8 DEF Downwards
  <2> PICK x \in Dirs : x = img.ent[d][e]  OBVIOUS
  <2>1. x < d \/ x = d  BY <1>3 DEF Ino
  <2>2. img.ent[x]["."] = img.ent[d][e]  BY <1>2 DEF GoodDots
  <2>3. "." \in Entry \ {e}  BY DEF Entry
  <2> QED  BY <2>1, <2>2, <2>3 DEF MetAgain
<1> QED  BY <1>7, <1>8

-----------------------------------------------------------------------------
(* The checkers that go over the image in passes.                          *)

LEMMA SameMarked ==
  ASSUME UNCHANGED img
  PROVE  /\ \A s : MarkedFree(s) <=> MarkedFree(s)'
         /\ GoodBitmap <=> GoodBitmap'
<1> USE SameImage
<1>1. \A s : MarkedFree(s) <=> MarkedFree(s)'  BY DEF MarkedFree, Before, IsDirect
<1>2. GoodBitmap <=> GoodBitmap'  BY DEF GoodBitmap
<1> QED  BY <1>1, <1>2

\* What is known of an image whose requirement 5 has been tested.
LEMMA AllMarked ==
  ASSUME img \in Format, \A s \in Slots : ~MarkedFree(s)
  PROVE  Used \cap Data \subseteq img.marked
<1> SUFFICES ASSUME NEW a \in Used, a \in Data PROVE a \in img.marked  OBVIOUS
<1> PICK s \in Slots : AddrIn(s) = a  BY SlotFacts
<1> QED  BY DEF MarkedFree

\* Requirement 7 never passes: the root has a block that is marked, but that
\* requirement 5 has cleared.
LEMMA RootAgain ==
  ASSUME ImgInv, P4Inv, program = "P4/fcheck.c", place = 8
  PROVE  Again(left.blocks)
<1>1. /\ img \in Format /\ ROOTINO \in Dirs /\ img.addrs[ROOTINO][1] \in Data
      /\ \A s \in Slots : ~MarkedFree(s)
      /\ left.blocks = img.marked \ Used
  BY DEF ImgInv, P4Inv
<1>2. ROOTINO \in Ino  BY <1>1 DEF Dirs
<1> PICK a \in Data : a = img.addrs[ROOTINO][1]  BY <1>1
<1>3. 1 \in 1..NDIRECT + 1 /\ a # None  BY Sizes DEF Data
<1>4. 1 \in 1..Len(AllAddrs(ROOTINO)) /\ AllAddrs(ROOTINO)[1] = a
  <2>1. Addrs(ROOTINO)[1] = a  BY DEF Addrs
  <2>2. Len(AllAddrs(ROOTINO)) = NDIRECT + 1 + Len(Indirect(ROOTINO)) /\ Len(Indirect(ROOTINO)) \in Nat
    BY <1>1, <1>2, AddrsSeq, Sizes
  <2>3. AllAddrs(ROOTINO)[1] = Addrs(ROOTINO)[1]  BY <1>1, <1>2, <1>3, AddrsSeq
  <2> QED  BY <2>1, <2>2, <2>3, Sizes
<1>5. <<ROOTINO, 1>> \in Slots /\ AddrIn(<<ROOTINO, 1>>) = a /\ a \in Used
  BY <1>1, <1>2, <1>3, <1>4, SlotFacts
<1>6. a \in img.marked  BY <1>1, <1>5, AllMarked
<1>7. a \notin left.blocks  BY <1>1, <1>5
<1> QED  BY <1>5, <1>6, <1>7 DEF Again

LEMMA PassesStartKeeps ==
  ASSUME StartInv, PassesStart
  PROVE  /\ program' = "P4/fcheck.c" => P4Inv'
         /\ program' = "fcheck.c" => FirstInv'
         /\ program' \in {"P4/fcheck.c", "fcheck.c"} /\ UNCHANGED img
<1>1. /\ program = "none" /\ program' \in {"P4/fcheck.c", "fcheck.c"}
      /\ UNCHANGED <<img, place, verdict>>
      /\ left' = [blocks |-> img.marked, inodes |-> {}]
  BY DEF PassesStart, Start
<1>2. place' = 1 /\ verdict' = "none"  BY <1>1 DEF StartInv
<1>3. left' = [blocks |-> img'.marked, inodes |-> {}]  BY <1>1
<1> QED  BY <1>1, <1>2, <1>3 DEF P4Inv, FirstInv

LEMMA P4Keeps ==
  ASSUME ImgInv, P4Inv, program = "P4/fcheck.c",
         Types \/ Addresses \/ RootPath \/ BitmapUsed \/ BitmapUnused \/ Redundant
  PROVE  P4Inv'
<1>1. UNCHANGED <<program, img>> /\ verdict = "none"
  BY DEF Types, Addresses, RootPath, BitmapUsed, BitmapUnused, Redundant, Runs
<1>2. /\ Dirs' = Dirs /\ Slots' = Slots /\ Used' = Used
      /\ \A s : MarkedFree(s) <=> MarkedFree(s)'
      /\ img' = img /\ program' = "P4/fcheck.c"
  BY <1>1, SameImage, SameMarked
<1>3. /\ place \in {1, 2, 4, 5, 6, 8} /\ verdict # "ok"
      /\ place > 4 => ROOTINO \in Dirs
      /\ place > 5 => \A s \in Slots : ~MarkedFree(s)
      /\ left = [blocks |-> IF place > 5 THEN img.marked \ Used ELSE img.marked, inodes |-> {}]
      /\ place = 8 => left.blocks \cap Data = {}
  BY DEF P4Inv
\* an exit leaves all that is known
<1>4. ASSUME UNCHANGED <<place, left>>, verdict' # "ok" PROVE P4Inv'
  BY <1>2, <1>3, <1>4 DEF P4Inv
<1>5. CASE Types
  <2>1. CASE GoodTypes
    <3>1. place = 1 /\ place' = 2 /\ UNCHANGED <<left, verdict>>  BY <1>5, <2>1 DEF Types, Then
    <3>2. left' = [blocks |-> img.marked, inodes |-> {}]  BY <1>3, <3>1
    <3> QED  BY <1>2, <1>3, <3>1, <3>2 DEF P4Inv
  <2>2. CASE ~GoodTypes  BY <1>4, <1>5, <2>2 DEF Types, Exit
  <2> QED  BY <2>1, <2>2
<1>6. CASE Addresses
  <2>1. CASE place' = 4 /\ UNCHANGED <<left, verdict>>
    <3>1. place = 2  BY <1>6 DEF Addresses
    <3>2. left' = [blocks |-> img.marked, inodes |-> {}]  BY <1>3, <2>1, <3>1
    <3> QED  BY <1>2, <1>3, <2>1, <3>2 DEF P4Inv
  <2>2. CASE UNCHANGED <<place, left>> /\ verdict' # "ok"  BY <1>4, <2>2
  <2>3. \/ place' = 4 /\ UNCHANGED <<left, verdict>>
        \/ UNCHANGED <<place, left>> /\ verdict' # "ok"
    <3>1. \/ Then(4)
          \/ Exit("bad address")
          \/ Exit("segmentation fault")
      BY <1>6 DEF Addresses
    <3>2. CASE Then(4)  BY <3>2 DEF Then
    <3>3. CASE Exit("bad address")  BY <3>3 DEF Exit
    <3>4. CASE Exit("segmentation fault")  BY <3>4 DEF Exit
    <3> QED  BY <3>1, <3>2, <3>3, <3>4
  <2> QED  BY <2>1, <2>2, <2>3
<1>7. CASE RootPath
  <2>1. place = 4 /\ ((ROOTINO \in Dirs /\ Then(5)) \/ Exit("bad directory"))
    BY <1>7 DEF RootPath
  <2>2. CASE ROOTINO \in Dirs /\ Then(5)
    <3>0. place = 4  BY <2>1
    <3>1. place' = 5 /\ UNCHANGED <<left, verdict>>  BY <2>2 DEF Then
    <3>2. left' = [blocks |-> img.marked, inodes |-> {}]  BY <1>3, <3>0, <3>1
    <3> QED  BY <1>2, <1>3, <2>2, <3>1, <3>2 DEF P4Inv
  <2>3. CASE Exit("bad directory")  BY <1>4, <2>3 DEF Exit
  <2> QED  BY <2>1, <2>2, <2>3
<1>8. CASE BitmapUsed
  <2>1. CASE \E s \in Slots : MarkedFree(s)  BY <1>4, <1>8, <2>1 DEF BitmapUsed, Exit
  <2>2. CASE ~\E s \in Slots : MarkedFree(s)
    <3>1. place = 5 /\ place' = 6 /\ left' = [left EXCEPT !.blocks = @ \ Used] /\ verdict' = verdict
      BY <1>8, <2>2 DEF BitmapUsed
    <3>2. left' = [blocks |-> img.marked \ Used, inodes |-> {}]  BY <1>3, <3>1
    <3> QED  BY <1>2, <1>3, <2>2, <3>1, <3>2 DEF P4Inv
  <2> QED  BY <2>1, <2>2
<1>9. CASE BitmapUnused
  <2>1. CASE (left.blocks \ Used) \cap Data # {}  BY <1>4, <1>9, <2>1 DEF BitmapUnused, Exit
  <2>2. CASE (left.blocks \ Used) \cap Data = {}
    <3>1. place = 6 /\ place' = 8 /\ left' = [left EXCEPT !.blocks = @ \ Used] /\ verdict' = verdict
      BY <1>9, <2>2 DEF BitmapUnused
    <3>2. left = [blocks |-> img.marked \ Used, inodes |-> {}]  BY <1>3, <3>1
    <3>3. left' = [blocks |-> img.marked \ Used, inodes |-> {}] /\ left'.blocks = left.blocks \ Used
      BY <3>1, <3>2
    <3> QED  BY <1>2, <1>3, <2>2, <3>1, <3>3 DEF P4Inv
  <2> QED  BY <2>1, <2>2
<1>10. CASE Redundant
  <2>1. place = 8 /\ Again(left.blocks)  BY <1>10, RootAgain DEF Redundant
  <2> QED  BY <1>4, <1>10, <2>1 DEF Redundant, Exit
<1> QED  BY <1>5, <1>6, <1>7, <1>8, <1>9, <1>10

LEMMA FirstKeeps ==
  ASSUME FirstInv, program = "fcheck.c",
         Types \/ AddressesFirst \/ RootPathFirst \/ BitmapUsedFirst \/ RedundantFirst
  PROVE  FirstInv'
<1>1. program' = "fcheck.c" /\ verdict = "none" /\ place \in {1, 2, 4, 5, 7}
  BY DEF FirstInv, Types, AddressesFirst, RootPathFirst, BitmapUsedFirst, RedundantFirst, Runs
<1>2. ASSUME NEW n \in {2, 4, 5, 7}, Then(n) PROVE FirstInv'
  BY <1>1, <1>2 DEF FirstInv, Then
<1>3. ASSUME NEW why, Exit(why), why # "ok" PROVE FirstInv'
  BY <1>1, <1>3 DEF FirstInv, Exit
<1>4. CASE Types
  <2>1. Then(2) \/ Exit("bad inode")  BY <1>4 DEF Types
  <2> QED  BY <1>2, <1>3, <2>1
<1>5. CASE AddressesFirst
  <2>1. Then(4) \/ Exit("bad address")  BY <1>5 DEF AddressesFirst
  <2> QED  BY <1>2, <1>3, <2>1
<1>6. CASE RootPathFirst
  <2>1. Then(5) \/ Exit("no root directory") \/ Exit("not properly formatted")
    BY <1>6 DEF RootPathFirst
  <2> QED  BY <1>2, <1>3, <2>1
<1>7. CASE BitmapUsedFirst
  <2>1. Then(7) \/ Exit("used but marked free")  BY <1>7 DEF BitmapUsedFirst
  <2> QED  BY <1>2, <1>3, <2>1
<1>8. CASE RedundantFirst
  <2>1. Exit("used more than once")  BY <1>8 DEF RedundantFirst
  <2> QED  BY <1>3, <2>1
<1> QED  BY <1>4, <1>5, <1>6, <1>7, <1>8

-----------------------------------------------------------------------------
(* The invariant.                                                          *)

\* Images that were given have no inverse of mkfs behind them; mkfs begins
\* with none of its blocks and inodes taken.
LEMMA InitInv ==
  ASSUME Init
  PROVE  IInv
<1> USE Sizes
<1>1. CASE (\E k \in Kinds : img \in Images(k)) /\ Unchecked /\ NoMkfs
  <2>1. program = "none" /\ place = 1 /\ left = <<>> /\ refs = <<>> /\ verdict = "none"
    BY <1>1 DEF Unchecked
  <2>2. img \in Format /\ \A i \in Ino : img.type[i] = T_DIR => img.addrs[i][1] \in Data
    BY <1>1, ImagesAssumption
  <2>3. StartInv  BY <2>1 DEF StartInv, Programs
  <2>4. ImgInv  BY <1>1, <2>2 DEF ImgInv, Dirs
  <2>5. MkfsInv /\ FcheckInv /\ P4Inv /\ FirstInv
    BY <2>1 DEF MkfsInv, FcheckInv, P4Inv, FirstInv
  <2> QED  BY <2>3, <2>4, <2>5 DEF IInv
<1>2. CASE /\ MkfsInit
           /\ program = "mkfs" /\ place = 1 /\ left = <<>> /\ refs = <<>> /\ verdict = "none"
  <2>1. /\ img = [type |-> [i \in Ino |-> T_FREE], nlink |-> [i \in Ino |-> 0],
                  addrs |-> [i \in Ino |-> [k \in 1..NDIRECT + 1 |-> None]],
                  ind |-> [i \in Ino |-> [k \in 1..NINDIRECT |-> None]],
                  ent |-> [i \in Ino |-> [e \in Entry |-> None]], marked |-> {}]
        /\ mk = [block |-> METABLOCKS, inode |-> ROOTINO, dirs |-> <<>>, names |-> <<>>,
                 file |-> None]
    BY <1>2 DEF MkfsInit
  <2>2. /\ \A i \in Ino : img.type[i] = T_FREE
        /\ \A i \in Ino, e \in Entry : img.ent[i][e] = None
        /\ \A i \in Ino, k \in 1..NDIRECT + 1 : img.addrs[i][k] = None
        /\ \A i \in Ino, k \in 1..NINDIRECT : img.ind[i][k] = None
        /\ img.marked = {}
    BY <2>1
  <2>3. img \in Format  BY <2>1 DEF Format
  <2>4. Dirs = {}  BY <2>2 DEF Dirs
  <2>5. MkType
    <3>1. METABLOCKS \in METABLOCKS..SIZE /\ ROOTINO \in 1..NINODES + 1  OBVIOUS
    <3>2. <<>> \in Seq(Ino) /\ <<>> \in Seq(Name)  OBVIOUS
    <3> QED  BY <2>1, <2>2, <2>3, <3>1, <3>2 DEF MkType
  <2>6. InOrder(img)
    <3> SUFFICES ASSUME NEW i \in Ino PROVE HasBlocks(img, i, 0)  BY DEF InOrder
    <3> QED  BY <2>2 DEF HasBlocks
  <2>7. EachOnce(img, mk.block)
    <3>1. \A s \in Place : Kept(img, s) = None
      <4> TAKE s \in Place
      <4> PICK i \in Ino, k \in 1..NDIRECT + 1 + NINDIRECT : s = <<i, k>> /\ s[1] = i /\ s[2] = k
        BY DEF Place
      <4>1. CASE k <= NDIRECT + 1
        <5>1. k \in 1..NDIRECT + 1  BY <4>1
        <5> QED  BY <2>2, <4>1, <5>1 DEF Kept
      <4>2. CASE ~(k <= NDIRECT + 1)
        <5>1. k - (NDIRECT + 1) \in 1..NINDIRECT  BY <4>2
        <5> QED  BY <2>2, <4>2, <5>1 DEF Kept
      <4> QED  BY <4>1, <4>2
    <3>2. METABLOCKS..mk.block - 1 = {}  BY <2>1
    <3> QED  BY <3>1, <3>2 DEF EachOnce
  <2>8. \A i \in Ino : ~(i < mk.inode)  BY <2>1 DEF Ino
  <2>9. Taken  BY <2>2, <2>4, <2>8 DEF Taken
  <2>10. Stack /\ Naming  BY <2>1 DEF Stack, Naming
  <2>11. Given  BY <2>4, <2>8 DEF Given
  <2>12. MkfsInv  BY <2>5, <2>6, <2>7, <2>9, <2>10, <2>11 DEF MkfsInv
  <2>13. StartInv  BY <1>2 DEF StartInv, Programs
  <2>14. ImgInv /\ FcheckInv /\ P4Inv /\ FirstInv
    BY <1>2 DEF ImgInv, FcheckInv, P4Inv, FirstInv
  <2> QED  BY <2>12, <2>13, <2>14 DEF IInv
<1> QED  BY <1>1, <1>2 DEF Init

\* A step of mkfs.
LEMMA MkfsKeeps ==
  ASSUME IInv, MkfsNext
  PROVE  IInv'
<1>1. StartInv /\ MkfsInv  BY DEF IInv
<1>2. CASE Balloc
  <2>1. program = "mkfs" /\ program' = "none" /\ UNCHANGED <<place, left, refs, verdict>>
    BY <1>2 DEF Balloc
  <2>2. ImgInv'  BY <1>1, <1>2, BallocMakes
  <2>3. StartInv'  BY <1>1, <2>1 DEF StartInv, Programs
  <2>4. MkfsInv' /\ FcheckInv' /\ P4Inv' /\ FirstInv'
    BY <2>1 DEF MkfsInv, FcheckInv, P4Inv, FirstInv
  <2> QED  BY <2>2, <2>3, <2>4 DEF IInv
<1>4. CASE AddPast
  <2>1. program' = "overran" /\ UNCHANGED <<place, left, refs, verdict>>
    BY <1>4 DEF AddPast, Making
  <2>2. program = "mkfs"  BY <1>4 DEF AddPast, Making
  <2>3. StartInv'  BY <1>1, <2>1, <2>2 DEF StartInv, Programs
  <2>4. MkfsInv' /\ ImgInv' /\ FcheckInv' /\ P4Inv' /\ FirstInv'
    BY <2>1 DEF MkfsInv, ImgInv, FcheckInv, P4Inv, FirstInv
  <2> QED  BY <2>3, <2>4 DEF IInv
<1>3. CASE AddRoot \/ AddDir \/ AddFile \/ Append1 \/ EndFile \/ EndDir
  <2>1. program = "mkfs" /\ program' \in {"mkfs", "failed"} /\ UNCHANGED <<place, left, refs, verdict>>
    <3>2. Making  BY <1>3 DEF AddRoot, AddDir, AddFile, Append1, EndFile, EndDir
    <3>3. CASE AddRoot  BY <3>2, <3>3, Zenon DEF AddRoot, Went, Making
    <3>4. CASE AddDir  BY <3>2, <3>4, Zenon DEF AddDir, Went, Making
    <3>5. CASE AddFile  BY <3>2, <3>5 DEF AddFile, Making
    <3>6. CASE Append1  BY <3>2, <3>6, Zenon DEF Append1, Went, Making
    <3>7. CASE EndFile  BY <3>2, <3>7, Zenon DEF EndFile, Went, Making
    <3>8. CASE EndDir  BY <3>2, <3>8, Zenon DEF EndDir, Went, Making
    <3>9. program' \in {"mkfs", "failed"}  BY <1>3, <3>3, <3>4, <3>5, <3>6, <3>7, <3>8
    <3> QED  BY <3>2, <3>9 DEF Making
  <2>2. MkfsInv'
    BY <1>1, <1>3, AddRootKeeps, AddDirKeeps, AddFileKeeps, Append1Keeps, EndFileKeeps, EndDirKeeps
  <2>3. StartInv'  BY <1>1, <2>1 DEF StartInv, Programs
  <2>4. ImgInv' /\ FcheckInv' /\ P4Inv' /\ FirstInv'
    BY <2>1 DEF ImgInv, FcheckInv, P4Inv, FirstInv
  <2> QED  BY <2>2, <2>3, <2>4 DEF IInv
<1> QED  BY <1>2, <1>3, <1>4 DEF MkfsNext

\* What any step of a checker keeps.
LEMMA CheckersKeep ==
  ASSUME IInv, UNCHANGED <<img, mk>>, program \notin {"mkfs", "failed", "overran"},
         program' \in {"temp.c", "P4/fcheck.c", "fcheck.c"}
  PROVE  StartInv' /\ MkfsInv' /\ ImgInv'
<1>1. StartInv'  BY DEF StartInv, Programs
<1>2. MkfsInv'  BY DEF MkfsInv
<1>3. /\ img \in Format /\ \A d \in Dirs : img.addrs[d][1] \in Data
      /\ ~NoMkfs => Checked /\ FilesFound /\ DirsFound /\ ParentsMatch /\ Downwards
  BY DEF IInv, ImgInv
<1>4. Dirs' = Dirs /\ (NoMkfs <=> NoMkfs')  BY SameImage DEF NoMkfs
<1>5. ImgInv'  BY <1>3, <1>4, SameChecked DEF ImgInv
<1> QED  BY <1>1, <1>2, <1>5

LEMMA FcheckKeeps ==
  ASSUME IInv, FcheckNext, UNCHANGED mk
  PROVE  IInv'
<1>1. StartInv /\ ImgInv /\ FcheckInv  BY DEF IInv
<1>2. program \in {"none", "temp.c"} /\ program' = "temp.c" /\ UNCHANGED img
  BY DEF FcheckNext, FcheckStart, Start, BadInode, BadDir, Inode, Bitmaps, Runs
<1>3. FcheckInv'  BY <1>1, FcheckStartKeeps, FcheckExits, InodeKeeps DEF FcheckNext
<1>4. P4Inv' /\ FirstInv'  BY <1>2 DEF P4Inv, FirstInv
<1>5. StartInv' /\ MkfsInv' /\ ImgInv'  BY <1>2, CheckersKeep
<1> QED  BY <1>3, <1>4, <1>5 DEF IInv

LEMMA PassesKeep ==
  ASSUME IInv, P4Next \/ FirstNext, UNCHANGED mk
  PROVE  IInv'
<1>1. StartInv /\ ImgInv /\ P4Inv /\ FirstInv  BY DEF IInv
<1>2. CASE PassesStart
  <2>1. /\ program = "none" /\ program' \in {"P4/fcheck.c", "fcheck.c"} /\ UNCHANGED img
        /\ program' = "P4/fcheck.c" => P4Inv'
        /\ program' = "fcheck.c" => FirstInv'
    BY <1>1, <1>2, PassesStartKeeps DEF PassesStart, Start
  <2>2. FcheckInv' /\ P4Inv' /\ FirstInv'  BY <2>1 DEF FcheckInv, P4Inv, FirstInv
  <2>3. StartInv' /\ MkfsInv' /\ ImgInv'  BY <2>1, CheckersKeep
  <2> QED  BY <2>2, <2>3 DEF IInv
<1>3. CASE /\ program = "P4/fcheck.c"
           /\ Types \/ Addresses \/ RootPath \/ BitmapUsed \/ BitmapUnused \/ Redundant
  <2>1. program' = "P4/fcheck.c" /\ UNCHANGED img
    BY <1>3 DEF Types, Addresses, RootPath, BitmapUsed, BitmapUnused, Redundant, Runs
  <2>2. P4Inv'  BY <1>1, <1>3, P4Keeps
  <2>3. FcheckInv' /\ FirstInv'  BY <2>1 DEF FcheckInv, FirstInv
  <2>4. StartInv' /\ MkfsInv' /\ ImgInv'  BY <1>3, <2>1, CheckersKeep
  <2> QED  BY <2>2, <2>3, <2>4 DEF IInv
<1>4. CASE /\ program = "fcheck.c"
           /\ Types \/ AddressesFirst \/ RootPathFirst \/ BitmapUsedFirst \/ RedundantFirst
  <2>1. program' = "fcheck.c" /\ UNCHANGED img
    BY <1>4 DEF Types, AddressesFirst, RootPathFirst, BitmapUsedFirst, RedundantFirst, Runs
  <2>2. FirstInv'  BY <1>1, <1>4, FirstKeeps
  <2>3. FcheckInv' /\ P4Inv'  BY <2>1 DEF FcheckInv, P4Inv
  <2>4. StartInv' /\ MkfsInv' /\ ImgInv'  BY <1>4, <2>1, CheckersKeep
  <2> QED  BY <2>2, <2>3, <2>4 DEF IInv
<1>5. CASE P4Next
  <2>1. Types => program \in {"P4/fcheck.c", "fcheck.c"}  BY DEF Types, Runs
  <2>2. Addresses \/ RootPath \/ BitmapUsed \/ BitmapUnused \/ Redundant => program = "P4/fcheck.c"
    BY DEF Addresses, RootPath, BitmapUsed, BitmapUnused, Redundant, Runs
  <2> QED  BY <1>2, <1>3, <1>4, <1>5, <2>1, <2>2 DEF P4Next
<1>6. CASE FirstNext
  <2>1. program = "fcheck.c"
    BY <1>6 DEF FirstNext, AddressesFirst, RootPathFirst, BitmapUsedFirst, RedundantFirst, Runs
  <2> QED  BY <1>4, <1>6, <2>1 DEF FirstNext
<1> QED  BY <1>5, <1>6

\* Steps that change nothing.
LEMMA StutterKeeps ==
  ASSUME IInv, UNCHANGED <<vars, mk>>
  PROVE  IInv'
<1>1. UNCHANGED <<program, img, place, left, refs, verdict, mk>>  BY DEF vars
<1>2. StartInv /\ MkfsInv /\ ImgInv /\ FcheckInv /\ P4Inv /\ FirstInv  BY DEF IInv
<1>3. StartInv' /\ FirstInv'  BY <1>1, <1>2 DEF StartInv, FirstInv
<1>4. MkfsInv'
  <2>1. Dirs' = Dirs  BY <1>1, SameImage
  <2>2. MkType => MkType'  BY <1>1 DEF MkType
  <2>3. InOrder(img) => InOrder(img)'  BY <1>1 DEF InOrder, HasBlocks
  <2>4. EachOnce(img, mk.block) => EachOnce(img, mk.block)'  BY <1>1 DEF EachOnce, Kept, Place
  <2>5. Taken => Taken'  BY <1>1, <2>1 DEF Taken
  <2>6. Stack => Stack'  BY <1>1, <2>1 DEF Stack
  <2>7. Naming => Naming'  BY <1>1 DEF Naming
  <2>8. \A i : Open(i) <=> Open(i)'  BY <1>1 DEF Open
  <2>9. Given => Given'  BY <1>1, <2>1, <2>8 DEF Given
  <2> QED  BY <1>1, <1>2, <2>2, <2>3, <2>4, <2>5, <2>6, <2>7, <2>9 DEF MkfsInv
<1>5. ImgInv'
  <2>1. Dirs' = Dirs /\ (NoMkfs <=> NoMkfs')  BY <1>1, SameImage DEF NoMkfs
  <2> QED  BY <1>1, <1>2, <2>1, SameChecked DEF ImgInv
<1>6. FcheckInv'
  <2>1. /\ Dirs' = Dirs
        /\ \A i : Passed(i) <=> Passed(i)'
        /\ \A d : PassedDir(d) <=> PassedDir(d)'
    BY <1>1, SameImage, SamePassed
  <2>2. LeftBlocks(place)' = LeftBlocks(place) /\ LeftInodes(place)' = LeftInodes(place)
        /\ \A i : Counted(i, place)' = Counted(i, place)
    <3> PICK n : n = place  OBVIOUS
    <3>1. place' = n  BY <1>1
    <3>2. LeftBlocks(n)' = LeftBlocks(n) /\ LeftInodes(n)' = LeftInodes(n)
          /\ \A i : Counted(i, n)' = Counted(i, n)
      BY <1>1, SamePassed
    <3> QED  BY <3>1, <3>2
  <2>3. WhyExit => WhyExit'  BY <1>1, <2>1, SameFaults DEF WhyExit
  <2> QED  BY <1>1, <1>2, <2>1, <2>2, <2>3 DEF FcheckInv
<1>7. P4Inv'
  <2>1. Dirs' = Dirs /\ Slots' = Slots /\ Used' = Used /\ \A s : MarkedFree(s) <=> MarkedFree(s)'
    BY <1>1, SameImage, SameMarked
  <2> QED  BY <1>1, <1>2, <2>1 DEF P4Inv
<1> QED  BY <1>3, <1>4, <1>5, <1>6, <1>7 DEF IInv

\* mkfs fills an image as the host's tree says, and each checker knows of
\* what it has gone over what its tests have shown.
THEOREM Invariance == Spec => []IInv
<1>1. Init => IInv  BY InitInv
<1>2. IInv /\ [Next]_<<vars, mk>> => IInv'
  <2> SUFFICES ASSUME IInv, [Next]_<<vars, mk>> PROVE IInv'  OBVIOUS
  <2>1. CASE FcheckNext /\ UNCHANGED mk  BY <2>1, FcheckKeeps
  <2>2. CASE (P4Next \/ FirstNext) /\ UNCHANGED mk  BY <2>2, PassesKeep
  <2>3. CASE MkfsNext  BY <2>3, MkfsKeeps
  <2>4. CASE UNCHANGED <<vars, mk>>  BY <2>4, StutterKeeps
  <2> QED  BY <2>1, <2>2, <2>3, <2>4 DEF Next
<1> QED  BY <1>1, <1>2, PTL DEF Spec

\* The verdicts of temp.c (temp.c:144-300): it accepts the images that have what
\* it makes sure of and in which no directory is met again, orphaned ones and
\* wrong ".." among them; a good image is rejected exactly when a directory has
\* a smaller number than the one it is in, for a directory met twice.
THEOREM VerdictsRight == Spec => []JudgesRight
<1>1. IInv => JudgesRight
  <2> SUFFICES ASSUME IInv, program = "temp.c", verdict # "none"
               PROVE  /\ verdict = "ok" /\ SIZE \notin img.marked => Checked
                      /\ Checked => verdict = IF MetAgain THEN "directory twice" ELSE "ok"
                      /\ Checked /\ DirsFound /\ ParentsMatch => (MetAgain <=> ~Downwards)
    BY DEF JudgesRight
  <2>1. ImgInv /\ FcheckInv /\ img \in Format  BY DEF IInv, ImgInv
  <2>2. verdict = "ok" /\ SIZE \notin img.marked => Checked  BY <2>1, AcceptsChecked
  <2>3. Checked => verdict = IF MetAgain THEN "directory twice" ELSE "ok"
    BY <2>1, CheckedJudged
  <2>4. Checked /\ DirsFound /\ ParentsMatch => (MetAgain <=> ~Downwards)  BY <2>1, GoodOrder
  <2> QED  BY <2>2, <2>3, <2>4
<1> QED  BY <1>1, Invariance, PTL

\* P4/fcheck.c and fcheck.c exit with an error for every image, at the
\* latest at requirement 7.
THEOREM AlwaysRejects == Spec => []NothingAccepted
<1>1. IInv => NothingAccepted  BY DEF IInv, P4Inv, FirstInv, NothingAccepted
<1> QED  BY <1>1, Invariance, PTL

\* When P4/fcheck.c begins requirement 7 the bitmap marks what is used.
THEOREM ExactByThen == Spec => []BitmapExact
<1>1. IInv => BitmapExact
  <2> SUFFICES ASSUME IInv, program = "P4/fcheck.c", place = 8 PROVE GoodBitmap
    BY DEF BitmapExact
  <2>1. /\ img \in Format /\ \A s \in Slots : ~MarkedFree(s)
        /\ left.blocks = img.marked \ Used /\ left.blocks \cap Data = {}
    BY DEF IInv, ImgInv, P4Inv
  <2>2. Used \cap Data \subseteq img.marked  BY <2>1, AllMarked
  <2> QED  BY <2>1, <2>2 DEF GoodBitmap
<1> QED  BY <1>1, Invariance, PTL

\* Every image that mkfs finishes, of a tree for whose files there are inodes, is
\* good, and temp.c says so.
THEOREM MkfsAccepted == Spec => []MkfsMakesGood
<1>1. IInv => MkfsMakesGood
  <2> SUFFICES ASSUME IInv, program = "temp.c", verdict # "none", ~NoMkfs
               PROVE  Checked /\ FilesFound /\ DirsFound /\ ParentsMatch /\ verdict = "ok"
    BY DEF MkfsMakesGood
  <2>1. ImgInv /\ FcheckInv /\ img \in Format  BY DEF IInv, ImgInv
  <2>2. Checked /\ FilesFound /\ DirsFound /\ ParentsMatch /\ Downwards  BY <2>1 DEF ImgInv
  <2>3. ~MetAgain  BY <2>1, <2>2, GoodOrder
  <2>4. verdict = "ok"  BY <2>1, <2>2, <2>3, CheckedJudged
  <2> QED  BY <2>2, <2>4
<1> QED  BY <1>1, Invariance, PTL
=============================================================================
