---------------------------- MODULE BlocksProofs ----------------------------
(***************************************************************************)
(* Theorems about the blocks of files, for disks, files and calls of any   *)
(* number: until balloc() of "xv6" has gone past the end of a full disk    *)
(* each block has one owner, so the disk stays sound (DiskSafe), free      *)
(* blocks stay empty in "xv6" (FreeIsZero) and nothing leaks but what      *)
(* "ex4" never frees (NothingLeaks).                                       *)
(*                                                                         *)
(* The trees of addresses are read in the contents before and after a      *)
(* step, so their lemmas speak of any contents c and inode i.              *)
(***************************************************************************)
EXTENDS BlocksInv, FiniteSetTheorems, FunctionTheorems, SequenceTheorems,
        WellFoundedInduction, TLAPS

USE DEF None, Self

Content == [Block -> [0..NINDIRECT - 1 -> Address \cup {-1}]]

AddrIn(c, i, s) ==
    IF s[1] = Self THEN i.addrs[s[2]]
    ELSE IF s[1] = None THEN None
    ELSE c[s[1]][s[2]]

IndexIn(c, i) ==
    LET d == i.addrs[NDIRECT + 1]
    IN  ({i.addrs[NDIRECT], d} \cup {AddrIn(c, i, s) : s \in Indirect(d)}) \ {None}

PlacesIn(c, i) ==
    {s \in ({Self} \X (0..NDIRECT + 1)) \cup (IndexIn(c, i) \X (0..NINDIRECT - 1)) :
         AddrIn(c, i, s) # None}

BlocksIn(c, i) == {AddrIn(c, i, s) : s \in PlacesIn(c, i)}

PathIn(c, i, bn) ==
    LET n1 == bn - NDIRECT
        n2 == n1 - NINDIRECT
        first == <<i.addrs[NDIRECT + 1], n2 \div NINDIRECT>>
    IN  IF n1 < 0 THEN <<<<Self, bn>>>>
        ELSE IF n2 < 0 THEN <<<<Self, NDIRECT>>, <<i.addrs[NDIRECT], n1>>>>
        ELSE <<<<Self, NDIRECT + 1>>, first, <<AddrIn(c, i, first), n2 % NINDIRECT>>>>

MissingIn(c, i, bn) == {k \in DOMAIN PathIn(c, i, bn) : AddrIn(c, i, PathIn(c, i, bn)[k]) = None}

\* Every address of the tree is a block, and in one place.
Good(c, i) ==
    \A s, t \in PlacesIn(c, i) :
        /\ AddrIn(c, i, s) \in Block
        /\ AddrIn(c, i, s) = AddrIn(c, i, t) => s = t

LEMMA Read ==
  ASSUME NEW i
  PROVE  /\ \A s : AddrAt(i, s) = AddrIn(content, i, s) /\ AddrAt(i, s)' = AddrIn(content', i, s)
         /\ Index(i) = IndexIn(content, i) /\ Index(i)' = IndexIn(content', i)
         /\ Places(i) = PlacesIn(content, i) /\ Places(i)' = PlacesIn(content', i)
         /\ Blocks(i) = BlocksIn(content, i) /\ Blocks(i)' = BlocksIn(content', i)
         /\ \A bn : /\ PathTo(i, bn) = PathIn(content, i, bn)
                    /\ PathTo(i, bn)' = PathIn(content', i, bn)
                    /\ Missing(i, bn) = MissingIn(content, i, bn)
                    /\ Missing(i, bn)' = MissingIn(content', i, bn)
<1>1. \A s : AddrAt(i, s) = AddrIn(content, i, s) /\ AddrAt(i, s)' = AddrIn(content', i, s)
  BY DEF AddrAt, AddrIn
<1>2. Index(i) = IndexIn(content, i) /\ Index(i)' = IndexIn(content', i)
  BY <1>1 DEF Index, IndexIn
<1>3. Places(i) = PlacesIn(content, i) /\ Places(i)' = PlacesIn(content', i)
  BY <1>1, <1>2 DEF Places, PlacesIn
<1>4. Blocks(i) = BlocksIn(content, i) /\ Blocks(i)' = BlocksIn(content', i)
  BY <1>1, <1>3 DEF Blocks, BlocksIn
<1>5. \A bn : PathTo(i, bn) = PathIn(content, i, bn) /\ PathTo(i, bn)' = PathIn(content', i, bn)
  BY <1>1 DEF PathTo, PathIn
<1>6. \A bn : Missing(i, bn) = MissingIn(content, i, bn) /\ Missing(i, bn)' = MissingIn(content', i, bn)
  BY <1>1, <1>5 DEF Missing, MissingIn
<1> QED  BY <1>1, <1>2, <1>3, <1>4, <1>5, <1>6

-----------------------------------------------------------------------------
(* Numbers.                                                                *)

LEMMA Bounds ==
  /\ NBLOCKS \in Nat /\ NBITS \in Nat /\ NBLOCKS <= NBITS
  /\ NDIRECT \in Nat /\ NDIRECT > 0
  /\ NINDIRECT \in Nat /\ NINDIRECT > 0
  /\ Nobody \notin Proc /\ Nobody \notin File
  /\ \A b \in Block : b \in Nat /\ b # Self /\ b # None
<1>1. Nobody \notin Proc /\ Nobody \notin File  BY BlocksAssumption
<1>2. NBLOCKS \in Nat /\ NBITS \in Nat /\ NBLOCKS <= NBITS /\ NDIRECT \in Nat /\ NDIRECT > 0 /\ NINDIRECT \in Nat /\ NINDIRECT > 0
  BY BlocksAssumption
<1>3. \A b \in Block : b \in Nat /\ b # Self /\ b # None  BY <1>2 DEF Block
<1> QED  BY <1>1, <1>2, <1>3

LEMMA MinIsIn ==
  ASSUME NEW S \in SUBSET Nat, S # {}
  PROVE  Min(S) \in S /\ \A y \in S : Min(S) <= y
<1>1. \E x \in S : \A y \in S : ~(y < x)
  <2>1. \E x \in S : \A y \in S : <<y, x>> \notin OpToRel(<, Nat)
    BY NatLessThanWellFounded, WFMin
  <2>2. \A x, y \in S : y < x => <<y, x>> \in OpToRel(<, Nat)  BY DEF OpToRel
  <2> QED  BY <2>1, <2>2
<1> PICK x \in S : \A y \in S : ~(y < x)  BY <1>1
<1>2. \A y \in S : x <= y  OBVIOUS
<1> QED  BY <1>2 DEF Min

LEMMA Division ==
  ASSUME NEW N \in Nat \ {0}, NEW n \in Nat, n < N * N
  PROVE  n \div N \in 0..N - 1 /\ n % N \in 0..N - 1
OBVIOUS

-----------------------------------------------------------------------------
(* Trees of addresses.                                                     *)

LEMMA Words ==
  ASSUME NEW c \in Content, NEW i \in Dinode
  PROVE  /\ \A k : AddrIn(c, i, <<Self, k>>) = i.addrs[k] /\ AddrIn(c, i, <<None, k>>) = None
         /\ \A b \in Block : \A k : AddrIn(c, i, <<b, k>>) = c[b][k]
         /\ i.addrs \in [0..NDIRECT + 1 -> Address] /\ i.size \in Nat
         /\ \A b \in Block : c[b] \in [0..NINDIRECT - 1 -> Address \cup {-1}]
         /\ NDIRECT \in 0..NDIRECT + 1 /\ NDIRECT + 1 \in 0..NDIRECT + 1 /\ NDIRECT # NDIRECT + 1
         /\ i.addrs[NDIRECT] \in Address /\ i.addrs[NDIRECT + 1] \in Address
<1>1. i.addrs \in [0..NDIRECT + 1 -> Address] /\ i.size \in Nat  BY DEF Dinode
<1>2. \A b \in Block : c[b] \in [0..NINDIRECT - 1 -> Address \cup {-1}]  BY DEF Content
<1>3. NDIRECT \in 0..NDIRECT + 1 /\ NDIRECT + 1 \in 0..NDIRECT + 1 /\ NDIRECT # NDIRECT + 1  BY Bounds
<1> QED  BY <1>1, <1>2, <1>3, Bounds DEF AddrIn

LEMMA WordOf ==
  ASSUME NEW c, NEW i, NEW b \in Block, NEW k
  PROVE  AddrIn(c, i, <<b, k>>) = c[b][k]
BY Bounds DEF AddrIn

LEMMA AddressOf ==
  ASSUME NEW c, NEW i, NEW k
  PROVE  AddrIn(c, i, <<Self, k>>) = i.addrs[k] /\ AddrIn(c, i, <<None, k>>) = None
BY DEF AddrIn

\* The blocks of addresses: the two of the inode and those the second leads to.
LEMMA IndexIs ==
  ASSUME NEW c \in Content, NEW i \in Dinode, NEW b
  PROVE  b \in IndexIn(c, i) <=>
            /\ b # None
            /\ \/ b = i.addrs[NDIRECT]
               \/ b = i.addrs[NDIRECT + 1]
               \/ /\ i.addrs[NDIRECT + 1] # None
                  /\ \E k \in 0..NINDIRECT - 1 : b = c[i.addrs[NDIRECT + 1]][k]
<1> DEFINE d == i.addrs[NDIRECT + 1]
<1>1. d \in Address  BY Words
<1>2. CASE d = None
  <2>1. Indirect(d) = {}  BY <1>2 DEF Indirect
  <2> QED  BY <1>2, <2>1 DEF IndexIn
<1>3. CASE d # None
  <2>1. d \in Block  BY <1>1, <1>3 DEF Address
  <2>2. \A k : AddrIn(c, i, <<d, k>>) = c[d][k]  BY <2>1, Words
  <2>3. \A s : s \in Indirect(d) <=> \E k \in 0..NINDIRECT - 1 : s = <<d, k>>  BY <1>3 DEF Indirect
  <2>4. (\E s \in Indirect(d) : b = AddrIn(c, i, s)) <=> \E k \in 0..NINDIRECT - 1 : b = c[d][k]
    <3>1. ASSUME NEW s \in Indirect(d), b = AddrIn(c, i, s)
          PROVE  \E k \in 0..NINDIRECT - 1 : b = c[d][k]
      <4> PICK k \in 0..NINDIRECT - 1 : s = <<d, k>>  BY <2>3
      <4>1. b = c[d][k]  BY <2>2, <3>1
      <4> QED  BY <4>1
    <3>2. ASSUME NEW k \in 0..NINDIRECT - 1, b = c[d][k]
          PROVE  \E s \in Indirect(d) : b = AddrIn(c, i, s)
      <4>1. <<d, k>> \in Indirect(d) /\ b = AddrIn(c, i, <<d, k>>)  BY <2>2, <2>3, <3>2
      <4> QED  BY <4>1
    <3> QED  BY <3>1, <3>2
  <2> QED  BY <1>3, <2>4 DEF IndexIn
<1> QED  BY <1>2, <1>3

LEMMA PlaceIs ==
  ASSUME NEW c \in Content, NEW i \in Dinode, NEW s
  PROVE  s \in PlacesIn(c, i) <=>
            /\ AddrIn(c, i, s) # None
            /\ \/ \E k \in 0..NDIRECT + 1 : s = <<Self, k>>
               \/ \E b \in IndexIn(c, i), k \in 0..NINDIRECT - 1 : s = <<b, k>>
BY DEF PlacesIn

\* In a good tree the blocks of addresses are blocks, and of the tree.
LEMMA GoodIndex ==
  ASSUME NEW c \in Content, NEW i \in Dinode, Good(c, i)
  PROVE  /\ IndexIn(c, i) \subseteq Block
         /\ \A b \in IndexIn(c, i) : \E s \in PlacesIn(c, i) :
               /\ AddrIn(c, i, s) = b
               /\ \/ s = <<Self, NDIRECT>> \/ s = <<Self, NDIRECT + 1>>
                  \/ /\ i.addrs[NDIRECT + 1] \in Block
                     /\ \E k \in 0..NINDIRECT - 1 : s = <<i.addrs[NDIRECT + 1], k>>
<1> SUFFICES ASSUME NEW b \in IndexIn(c, i)
             PROVE  \E s \in PlacesIn(c, i) :
               /\ AddrIn(c, i, s) = b
               /\ \/ s = <<Self, NDIRECT>> \/ s = <<Self, NDIRECT + 1>>
                  \/ /\ i.addrs[NDIRECT + 1] \in Block
                     /\ \E k \in 0..NINDIRECT - 1 : s = <<i.addrs[NDIRECT + 1], k>>
  BY DEF Good
<1>1. b # None  BY IndexIs
<1>2. CASE b = i.addrs[NDIRECT]
  <2>1. AddrIn(c, i, <<Self, NDIRECT>>) = b  BY <1>2, AddressOf
  <2>2. <<Self, NDIRECT>> \in PlacesIn(c, i)  BY <1>1, <2>1, Words, PlaceIs
  <2> QED  BY <2>1, <2>2
<1>3. CASE b = i.addrs[NDIRECT + 1]
  <2>1. AddrIn(c, i, <<Self, NDIRECT + 1>>) = b  BY <1>3, AddressOf
  <2>2. <<Self, NDIRECT + 1>> \in PlacesIn(c, i)  BY <1>1, <2>1, Words, PlaceIs
  <2> QED  BY <2>1, <2>2
<1>4. ASSUME i.addrs[NDIRECT + 1] # None, NEW k \in 0..NINDIRECT - 1, b = c[i.addrs[NDIRECT + 1]][k]
      PROVE  \E s \in PlacesIn(c, i) :
               /\ AddrIn(c, i, s) = b
               /\ i.addrs[NDIRECT + 1] \in Block
               /\ \E l \in 0..NINDIRECT - 1 : s = <<i.addrs[NDIRECT + 1], l>>
  <2> PICK d : d = i.addrs[NDIRECT + 1]  OBVIOUS
  <2>1. d \in Block  BY <1>4, Words DEF Address
  <2>2. d \in IndexIn(c, i)  BY <1>4, IndexIs
  <2>3. AddrIn(c, i, <<d, k>>) = b  BY <1>4, <2>1, Words
  <2>4. <<d, k>> \in PlacesIn(c, i)  BY <1>1, <2>2, <2>3, PlaceIs
  <2> QED  BY <2>1, <2>3, <2>4
<1> QED  BY <1>1, <1>2, <1>3, <1>4, IndexIs

\* What is said of a tree depends on its blocks of addresses only.
LEMMA SameTree ==
  ASSUME NEW c \in Content, NEW d \in Content, NEW i \in Dinode, Good(c, i),
         \A b \in IndexIn(c, i) : d[b] = c[b]
  PROVE  /\ IndexIn(d, i) = IndexIn(c, i)
         /\ PlacesIn(d, i) = PlacesIn(c, i)
         /\ BlocksIn(d, i) = BlocksIn(c, i)
         /\ \A s \in PlacesIn(c, i) : AddrIn(d, i, s) = AddrIn(c, i, s)
         /\ Good(d, i)
<1> DEFINE e == i.addrs[NDIRECT + 1]
<1>1. e # None => d[e] = c[e]  BY IndexIs
<1>2. IndexIn(d, i) = IndexIn(c, i)
  <2>1. \A b : b \in IndexIn(d, i) <=> b \in IndexIn(c, i)  BY <1>1, IndexIs
  <2> QED  BY <2>1
<1>3. \A k : AddrIn(d, i, <<Self, k>>) = AddrIn(c, i, <<Self, k>>)
  <2> TAKE k
  <2>1. AddrIn(c, i, <<Self, k>>) = i.addrs[k]  BY Words
  <2>2. AddrIn(d, i, <<Self, k>>) = i.addrs[k]  BY Words
  <2> QED  BY <2>1, <2>2
<1>4. \A b \in IndexIn(c, i) : \A k : AddrIn(d, i, <<b, k>>) = AddrIn(c, i, <<b, k>>)
  <2> TAKE b \in IndexIn(c, i)
  <2> TAKE k
  <2>0. b \in Block  BY GoodIndex
  <2>1. AddrIn(c, i, <<b, k>>) = c[b][k]  BY <2>0, Words
  <2>2. AddrIn(d, i, <<b, k>>) = d[b][k]  BY <2>0, Words
  <2> QED  BY <2>1, <2>2
<1>5. \A s : s \in PlacesIn(d, i) <=> s \in PlacesIn(c, i)
  BY <1>2, <1>3, <1>4, PlaceIs
<1>6. PlacesIn(d, i) = PlacesIn(c, i)  BY <1>5 DEF PlacesIn
<1>7. \A s \in PlacesIn(c, i) : AddrIn(d, i, s) = AddrIn(c, i, s)  BY <1>3, <1>4, PlaceIs
<1>8. BlocksIn(d, i) = BlocksIn(c, i)  BY <1>6, <1>7 DEF BlocksIn
<1>9. Good(d, i)  BY <1>6, <1>7 DEF Good
<1> QED  BY <1>2, <1>6, <1>7, <1>8, <1>9

\* An inode with some of the addresses of another has a part of its tree.
Below(d, i) == \A k \in 0..NDIRECT + 1 : d.addrs[k] \in {None, i.addrs[k]}

LEMMA SubTree ==
  ASSUME NEW c \in Content, NEW d \in Dinode, NEW i \in Dinode, Good(c, i), Below(d, i)
  PROVE  /\ IndexIn(c, d) \subseteq IndexIn(c, i)
         /\ PlacesIn(c, d) \subseteq PlacesIn(c, i)
         /\ \A s \in PlacesIn(c, d) : AddrIn(c, d, s) = AddrIn(c, i, s)
         /\ BlocksIn(c, d) \subseteq BlocksIn(c, i)
         /\ Good(c, d)
<1>1. IndexIn(c, d) \subseteq IndexIn(c, i)
  <2> SUFFICES ASSUME NEW b \in IndexIn(c, d) PROVE b \in IndexIn(c, i)  OBVIOUS
  <2>1. d.addrs[NDIRECT] \in {None, i.addrs[NDIRECT]} /\ d.addrs[NDIRECT + 1] \in {None, i.addrs[NDIRECT + 1]}
    BY Words DEF Below
  <2> QED  BY <2>1, IndexIs
<1>2. \A s \in PlacesIn(c, d) : s \in PlacesIn(c, i) /\ AddrIn(c, d, s) = AddrIn(c, i, s)
  <2> TAKE s \in PlacesIn(c, d)
  <2>1. AddrIn(c, d, s) # None  BY PlaceIs
  <2>2. ASSUME NEW k \in 0..NDIRECT + 1, s = <<Self, k>>
        PROVE  s \in PlacesIn(c, i) /\ AddrIn(c, d, s) = AddrIn(c, i, s)
    <3>1. AddrIn(c, d, s) = d.addrs[k]  BY <2>2, AddressOf
    <3>2. AddrIn(c, i, s) = i.addrs[k]  BY <2>2, AddressOf
    <3>3. AddrIn(c, d, s) = AddrIn(c, i, s)  BY <2>1, <3>1, <3>2 DEF Below
    <3> QED  BY <2>1, <2>2, <3>3, PlaceIs
  <2>3. ASSUME NEW b \in IndexIn(c, d), NEW k \in 0..NINDIRECT - 1, s = <<b, k>>
        PROVE  s \in PlacesIn(c, i) /\ AddrIn(c, d, s) = AddrIn(c, i, s)
    <3>1. b \in IndexIn(c, i) /\ b \in Block  BY <1>1, GoodIndex
    <3>2. AddrIn(c, d, s) = c[b][k]  BY <2>3, <3>1, Words
    <3>3. AddrIn(c, i, s) = c[b][k]  BY <2>3, <3>1, Words
    <3> QED  BY <2>1, <2>3, <3>1, <3>2, <3>3, PlaceIs
  <2> QED  BY <2>2, <2>3, PlaceIs
<1>3. BlocksIn(c, d) \subseteq BlocksIn(c, i)  BY <1>2 DEF BlocksIn
<1>4. Good(c, d)  BY <1>2 DEF Good
<1> QED  BY <1>1, <1>2, <1>3, <1>4

-----------------------------------------------------------------------------
(* The way to the bn-th block.                                             *)

Reach(bn) == bn \in Nat /\ (bn < NDIRECT + NINDIRECT \/ bn < NINDIRECT * NINDIRECT)

\* A direct block, a block the indirect one leads to, or one two steps below.
LEMMA Paths ==
  ASSUME NEW bn, Reach(bn)
  PROVE  \/ bn \in 0..NDIRECT - 1 /\ \A c, i : PathIn(c, i, bn) = <<<<Self, bn>>>>
         \/ \E k \in 0..NINDIRECT - 1 : \A c, i :
               PathIn(c, i, bn) = <<<<Self, NDIRECT>>, <<i.addrs[NDIRECT], k>>>>
         \/ /\ bn >= NDIRECT + NINDIRECT
            /\ \E q, r \in 0..NINDIRECT - 1 : \A c, i :
                  PathIn(c, i, bn) = <<<<Self, NDIRECT + 1>>, <<i.addrs[NDIRECT + 1], q>>,
                                       <<AddrIn(c, i, <<i.addrs[NDIRECT + 1], q>>), r>>>>
<1>0. bn \in Nat  BY DEF Reach
<1>1. CASE bn < NDIRECT
  <2>1. bn - NDIRECT < 0 /\ bn \in 0..NDIRECT - 1  BY <1>0, <1>1, Bounds
  <2> QED  BY <2>1 DEF PathIn
<1>2. CASE bn >= NDIRECT /\ bn - NDIRECT < NINDIRECT
  <2> PICK k \in 0..NINDIRECT - 1 : k = bn - NDIRECT  BY <1>0, <1>2, Bounds
  <2>1. ~(bn - NDIRECT < 0) /\ (bn - NDIRECT) - NINDIRECT < 0  BY <1>0, <1>2, Bounds
  <2>2. \A c, i : PathIn(c, i, bn) = <<<<Self, NDIRECT>>, <<i.addrs[NDIRECT], k>>>>
    BY <2>1 DEF PathIn
  <2> QED  BY <2>2
<1>3. CASE bn >= NDIRECT /\ bn - NDIRECT >= NINDIRECT
  <2> PICK n \in Nat : n = (bn - NDIRECT) - NINDIRECT  BY <1>0, <1>3, Bounds
  <2>1. ~(bn - NDIRECT < 0) /\ ~((bn - NDIRECT) - NINDIRECT < 0)  BY <1>0, <1>3, Bounds
  <2>0. bn >= NDIRECT + NINDIRECT  BY <1>0, <1>3, Bounds
  <2>2. n < NINDIRECT * NINDIRECT
    <3>1. bn < NINDIRECT * NINDIRECT  BY <1>0, <1>3, Bounds DEF Reach
    <3> PICK m : m = NINDIRECT * NINDIRECT  OBVIOUS
    <3>2. n <= bn /\ bn < m  BY <1>0, <3>1, Bounds
    <3>3. m \in Int  BY Bounds
    <3> QED  BY <1>0, <3>2, <3>3
  <2> PICK q \in 0..NINDIRECT - 1 : q = n \div NINDIRECT  BY <2>2, Division, Bounds
  <2> PICK r \in 0..NINDIRECT - 1 : r = n % NINDIRECT  BY <2>2, Division, Bounds
  <2>3. \A c, i : PathIn(c, i, bn) = <<<<Self, NDIRECT + 1>>, <<i.addrs[NDIRECT + 1], q>>,
                                    <<AddrIn(c, i, <<i.addrs[NDIRECT + 1], q>>), r>>>>
    BY <2>1 DEF PathIn
  <2> QED  BY <2>0, <2>3
<1>4. \/ bn < NDIRECT
      \/ bn >= NDIRECT /\ bn - NDIRECT < NINDIRECT
      \/ bn >= NDIRECT /\ bn - NDIRECT >= NINDIRECT
  BY <1>0, Bounds
<1> QED  BY <1>1, <1>2, <1>3, <1>4

\* What is missing on ways of one, two and three steps, and where it begins.
LEMMA Missing1 ==
  ASSUME NEW c, NEW i, NEW bn, NEW s, PathIn(c, i, bn) = <<s>>
  PROVE  /\ MissingIn(c, i, bn) = {} <=> AddrIn(c, i, s) # None
         /\ MissingIn(c, i, bn) \in SUBSET Nat
         /\ \A m : m \in MissingIn(c, i, bn) <=> m = 1 /\ AddrIn(c, i, s) = None
<1>1. DOMAIN PathIn(c, i, bn) = {1} /\ PathIn(c, i, bn)[1] = s  OBVIOUS
<1>2. \A m : m \in MissingIn(c, i, bn) <=> m = 1 /\ AddrIn(c, i, s) = None  BY <1>1 DEF MissingIn
<1> QED  BY <1>2

LEMMA Missing2 ==
  ASSUME NEW c, NEW i, NEW bn, NEW s, NEW t, PathIn(c, i, bn) = <<s, t>>
  PROVE  /\ MissingIn(c, i, bn) = {} <=> AddrIn(c, i, s) # None /\ AddrIn(c, i, t) # None
         /\ MissingIn(c, i, bn) \in SUBSET Nat
         /\ \A m : m \in MissingIn(c, i, bn) <=> \/ m = 1 /\ AddrIn(c, i, s) = None
                                                 \/ m = 2 /\ AddrIn(c, i, t) = None
<1>1. DOMAIN PathIn(c, i, bn) = {1, 2} /\ PathIn(c, i, bn)[1] = s /\ PathIn(c, i, bn)[2] = t
  OBVIOUS
<1>2. \A m : m \in MissingIn(c, i, bn) <=> \/ m = 1 /\ AddrIn(c, i, s) = None
                                           \/ m = 2 /\ AddrIn(c, i, t) = None
  BY <1>1 DEF MissingIn
<1> QED  BY <1>2

LEMMA Missing3 ==
  ASSUME NEW c, NEW i, NEW bn, NEW s, NEW t, NEW u, PathIn(c, i, bn) = <<s, t, u>>
  PROVE  /\ MissingIn(c, i, bn) = {} <=>
               AddrIn(c, i, s) # None /\ AddrIn(c, i, t) # None /\ AddrIn(c, i, u) # None
         /\ MissingIn(c, i, bn) \in SUBSET Nat
         /\ \A m : m \in MissingIn(c, i, bn) <=> \/ m = 1 /\ AddrIn(c, i, s) = None
                                                 \/ m = 2 /\ AddrIn(c, i, t) = None
                                                 \/ m = 3 /\ AddrIn(c, i, u) = None
<1>1. DOMAIN PathIn(c, i, bn) = {1, 2, 3} /\ PathIn(c, i, bn)[1] = s /\ PathIn(c, i, bn)[2] = t
      /\ PathIn(c, i, bn)[3] = u
  OBVIOUS
<1>2. \A m : m \in MissingIn(c, i, bn) <=> \/ m = 1 /\ AddrIn(c, i, s) = None
                                           \/ m = 2 /\ AddrIn(c, i, t) = None
                                           \/ m = 3 /\ AddrIn(c, i, u) = None
  BY <1>1 DEF MissingIn
<1> QED  BY <1>2

\* A way with nothing missing stays so when addresses are only added.
Grows(c, i, d, j) ==
    /\ \A k \in 0..NDIRECT + 1 : i.addrs[k] # None => j.addrs[k] = i.addrs[k]
    /\ \A b \in IndexIn(c, i), k \in 0..NINDIRECT - 1 : c[b][k] # None => d[b][k] = c[b][k]

LEMMA StillThere ==
  ASSUME NEW c \in Content, NEW d \in Content, NEW i \in Dinode, NEW j \in Dinode,
         NEW bn, Reach(bn), Good(c, i), MissingIn(c, i, bn) = {}, Grows(c, i, d, j)
  PROVE  MissingIn(d, j, bn) = {}
<1>0. IndexIn(c, i) \subseteq Block  BY GoodIndex
<1>1. ASSUME bn \in 0..NDIRECT - 1, \A e, g : PathIn(e, g, bn) = <<<<Self, bn>>>>
      PROVE  MissingIn(d, j, bn) = {}
  <2>1. PathIn(c, i, bn) = <<<<Self, bn>>>> /\ PathIn(d, j, bn) = <<<<Self, bn>>>>  BY <1>1
  <2>2. AddrIn(c, i, <<Self, bn>>) # None  BY <2>1, Missing1
  <2>3. i.addrs[bn] # None  BY <2>2 DEF AddrIn
  <2>4. bn \in 0..NDIRECT + 1  BY <1>1, Bounds
  <2>5. j.addrs[bn] # None  BY <2>3, <2>4 DEF Grows
  <2>6. AddrIn(d, j, <<Self, bn>>) # None  BY <2>5, AddressOf
  <2> QED  BY <2>1, <2>6, Missing1
<1>2. ASSUME NEW k \in 0..NINDIRECT - 1,
             \A e, g : PathIn(e, g, bn) = <<<<Self, NDIRECT>>, <<g.addrs[NDIRECT], k>>>>
      PROVE  MissingIn(d, j, bn) = {}
  <2> PICK b : b = i.addrs[NDIRECT]  OBVIOUS
  <2>1. PathIn(c, i, bn) = <<<<Self, NDIRECT>>, <<b, k>>>>  BY <1>2
  <2>2. AddrIn(c, i, <<Self, NDIRECT>>) # None /\ AddrIn(c, i, <<b, k>>) # None  BY <2>1, Missing2
  <2>3. b # None /\ j.addrs[NDIRECT] = b
    <3>1. AddrIn(c, i, <<Self, NDIRECT>>) = b  BY AddressOf
    <3>2. NDIRECT \in 0..NDIRECT + 1  BY Bounds
    <3> QED  BY <2>2, <3>1, <3>2 DEF Grows
  <2>4. b \in IndexIn(c, i)  BY <2>3, IndexIs
  <2>5. c[b][k] # None  BY <1>0, <2>2, <2>4, Words
  <2>6. AddrIn(d, j, <<Self, NDIRECT>>) # None /\ AddrIn(d, j, <<b, k>>) # None
    <3>1. b \in Block /\ d[b][k] # None  BY <1>0, <2>4, <2>5 DEF Grows
    <3>2. AddrIn(d, j, <<b, k>>) = d[b][k]  BY <3>1, Bounds DEF AddrIn
    <3>3. AddrIn(d, j, <<Self, NDIRECT>>) = j.addrs[NDIRECT]  BY DEF AddrIn
    <3> QED  BY <2>3, <3>1, <3>2, <3>3
  <2>7. PathIn(d, j, bn) = <<<<Self, NDIRECT>>, <<b, k>>>>  BY <1>2, <2>3
  <2> QED  BY <2>6, <2>7, Missing2
<1>3. ASSUME NEW q \in 0..NINDIRECT - 1, NEW r \in 0..NINDIRECT - 1,
             \A e, g : PathIn(e, g, bn) = <<<<Self, NDIRECT + 1>>, <<g.addrs[NDIRECT + 1], q>>,
                                       <<AddrIn(e, g, <<g.addrs[NDIRECT + 1], q>>), r>>>>
      PROVE  MissingIn(d, j, bn) = {}
  <2> PICK a : a = i.addrs[NDIRECT + 1]  OBVIOUS
  <2> PICK b : b = AddrIn(c, i, <<a, q>>)  OBVIOUS
  <2>1. PathIn(c, i, bn) = <<<<Self, NDIRECT + 1>>, <<a, q>>, <<b, r>>>>  BY <1>3
  <2>2. AddrIn(c, i, <<Self, NDIRECT + 1>>) # None /\ AddrIn(c, i, <<a, q>>) # None
        /\ AddrIn(c, i, <<b, r>>) # None
    BY <2>1, Missing3
  <2>3. a # None /\ j.addrs[NDIRECT + 1] = a
    <3>1. AddrIn(c, i, <<Self, NDIRECT + 1>>) = a  BY AddressOf
    <3>2. NDIRECT + 1 \in 0..NDIRECT + 1  BY Bounds
    <3> QED  BY <2>2, <3>1, <3>2 DEF Grows
  <2>4. a \in IndexIn(c, i)  BY <2>3, IndexIs
  <2>5. c[a][q] = b /\ b # None /\ d[a][q] = b
    <3>1. c[a][q] = b /\ b # None  BY <1>0, <2>2, <2>4, Bounds DEF AddrIn
    <3> QED  BY <2>4, <3>1 DEF Grows
  <2>6. b \in IndexIn(c, i)  BY <2>3, <2>5, IndexIs
  <2>7. c[b][r] # None /\ d[b][r] # None
    <3>1. c[b][r] # None  BY <1>0, <2>2, <2>6, WordOf
    <3> QED  BY <2>6, <3>1 DEF Grows
  <2>8. AddrIn(d, j, <<Self, NDIRECT + 1>>) # None /\ AddrIn(d, j, <<a, q>>) = b
        /\ AddrIn(d, j, <<b, r>>) # None
    <3>1. a \in Block /\ b \in Block  BY <1>0, <2>4, <2>6
    <3>2. AddrIn(d, j, <<Self, NDIRECT + 1>>) = j.addrs[NDIRECT + 1]  BY DEF AddrIn
    <3>3. AddrIn(d, j, <<a, q>>) = d[a][q]  BY <3>1, Bounds DEF AddrIn
    <3>4. AddrIn(d, j, <<b, r>>) = d[b][r]  BY <3>1, Bounds DEF AddrIn
    <3> QED  BY <2>3, <2>5, <2>7, <3>2, <3>3, <3>4
  <2>9. PathIn(d, j, bn) = <<<<Self, NDIRECT + 1>>, <<a, q>>, <<b, r>>>>  BY <1>3, <2>3, <2>8
  <2> QED  BY <2>5, <2>8, <2>9, Missing3
<1> QED  BY <1>1, <1>2, <1>3, Paths

\* So it does not depend on blocks outside the tree whether one is missing.
LEMMA SameWay ==
  ASSUME NEW c \in Content, NEW d \in Content, NEW i \in Dinode, Good(c, i),
         NEW bn, Reach(bn), \A b \in IndexIn(c, i) : d[b] = c[b]
  PROVE  MissingIn(d, i, bn) = {} <=> MissingIn(c, i, bn) = {}
<1>1. IndexIn(d, i) = IndexIn(c, i) /\ Good(d, i)  BY SameTree
<1>4. Grows(c, i, d, i) /\ Grows(d, i, c, i)  BY <1>1 DEF Grows
<1>2. MissingIn(c, i, bn) = {} => MissingIn(d, i, bn) = {}  BY <1>4, StillThere
<1>3. MissingIn(d, i, bn) = {} => MissingIn(c, i, bn) = {}  BY <1>1, <1>4, StillThere
<1> QED  BY <1>2, <1>3

\* The first address missing has its place in the inode or in a block of the tree.
FirstIn(c, i, bn) == PathIn(c, i, bn)[Min(MissingIn(c, i, bn))]

Vacant(c, i, s) ==
    \/ \E k \in 0..NDIRECT + 1 : s = <<Self, k>> /\ i.addrs[k] = None
    \/ \E b \in IndexIn(c, i), k \in 0..NINDIRECT - 1 : s = <<b, k>> /\ c[b][k] = None

LEMMA PlaceToFill ==
  ASSUME NEW c \in Content, NEW i \in Dinode, NEW bn, Reach(bn), Good(c, i),
         MissingIn(c, i, bn) # {}
  PROVE  /\ Vacant(c, i, FirstIn(c, i, bn))
         /\ bn < NDIRECT + NINDIRECT => FirstIn(c, i, bn) # <<Self, NDIRECT + 1>>
<1>0. IndexIn(c, i) \subseteq Block  BY GoodIndex
<1> DEFINE M == MissingIn(c, i, bn)
<1>1. ASSUME bn \in 0..NDIRECT - 1, \A e, g : PathIn(e, g, bn) = <<<<Self, bn>>>>
      PROVE  Vacant(c, i, FirstIn(c, i, bn)) /\ FirstIn(c, i, bn) # <<Self, NDIRECT + 1>>
  <2>1. PathIn(c, i, bn) = <<<<Self, bn>>>>  BY <1>1
  <2>2. M \in SUBSET Nat /\ \A m : m \in M <=> m = 1 /\ AddrIn(c, i, <<Self, bn>>) = None
    BY <2>1, Missing1
  <2>3. Min(M) \in M  BY <2>2, MinIsIn
  <2>4. Min(M) = 1 /\ AddrIn(c, i, <<Self, bn>>) = None  BY <2>2, <2>3
  <2>5. FirstIn(c, i, bn) = <<Self, bn>>  BY <2>1, <2>4 DEF FirstIn
  <2>6. bn \in 0..NDIRECT + 1 /\ bn # NDIRECT + 1  BY <1>1, Bounds
  <2>7. AddrIn(c, i, <<Self, bn>>) = i.addrs[bn]  BY AddressOf
  <2> QED  BY <2>4, <2>5, <2>6, <2>7 DEF Vacant
<1>2. ASSUME NEW k \in 0..NINDIRECT - 1,
             \A e, g : PathIn(e, g, bn) = <<<<Self, NDIRECT>>, <<g.addrs[NDIRECT], k>>>>
      PROVE  Vacant(c, i, FirstIn(c, i, bn)) /\ FirstIn(c, i, bn) # <<Self, NDIRECT + 1>>
  <2> PICK b : b = i.addrs[NDIRECT]  OBVIOUS
  <2>1. PathIn(c, i, bn) = <<<<Self, NDIRECT>>, <<b, k>>>>  BY <1>2
  <2>2. M \in SUBSET Nat /\ \A m : m \in M <=> \/ m = 1 /\ AddrIn(c, i, <<Self, NDIRECT>>) = None
                                               \/ m = 2 /\ AddrIn(c, i, <<b, k>>) = None
    BY <2>1, Missing2
  <2>3. Min(M) \in M /\ \A m \in M : Min(M) <= m  BY <2>2, MinIsIn
  <2>4. CASE b = None
    <3>1. AddrIn(c, i, <<Self, NDIRECT>>) = None  BY <2>4, Words
    <3>2. Min(M) = 1  BY <2>2, <2>3, <3>1
    <3>3. FirstIn(c, i, bn) = <<Self, NDIRECT>>  BY <2>1, <3>2 DEF FirstIn
    <3>4. NDIRECT \in 0..NDIRECT + 1 /\ i.addrs[NDIRECT] = None  BY <2>4, Bounds
    <3> QED  BY <3>3, <3>4 DEF Vacant
  <2>5. CASE b # None
    <3>1. AddrIn(c, i, <<Self, NDIRECT>>) # None  BY <2>5, AddressOf
    <3>2. Min(M) = 2 /\ AddrIn(c, i, <<b, k>>) = None  BY <2>2, <2>3, <3>1
    <3>3. FirstIn(c, i, bn) = <<b, k>>  BY <2>1, <3>2 DEF FirstIn
    <3>4. b \in IndexIn(c, i)  BY <2>5, IndexIs
    <3>5. b # Self /\ c[b][k] = None  BY <1>0, <3>2, <3>4, Words, Bounds
    <3> QED  BY <3>3, <3>4, <3>5 DEF Vacant
  <2> QED  BY <2>4, <2>5
<1>3. ASSUME NEW q \in 0..NINDIRECT - 1, NEW r \in 0..NINDIRECT - 1,
             \A e, g : PathIn(e, g, bn) = <<<<Self, NDIRECT + 1>>, <<g.addrs[NDIRECT + 1], q>>,
                                       <<AddrIn(e, g, <<g.addrs[NDIRECT + 1], q>>), r>>>>
      PROVE  Vacant(c, i, FirstIn(c, i, bn))
  <2> PICK a : a = i.addrs[NDIRECT + 1]  OBVIOUS
  <2> PICK b : b = AddrIn(c, i, <<a, q>>)  OBVIOUS
  <2>1. PathIn(c, i, bn) = <<<<Self, NDIRECT + 1>>, <<a, q>>, <<b, r>>>>  BY <1>3
  <2>2. M \in SUBSET Nat /\ \A m : m \in M <=> \/ m = 1 /\ AddrIn(c, i, <<Self, NDIRECT + 1>>) = None
                                               \/ m = 2 /\ AddrIn(c, i, <<a, q>>) = None
                                               \/ m = 3 /\ AddrIn(c, i, <<b, r>>) = None
    BY <2>1, Missing3
  <2>3. Min(M) \in M /\ \A m \in M : Min(M) <= m  BY <2>2, MinIsIn
  <2>4. CASE a = None
    <3>1. AddrIn(c, i, <<Self, NDIRECT + 1>>) = None  BY <2>4, Words
    <3>2. Min(M) = 1  BY <2>2, <2>3, <3>1
    <3>3. FirstIn(c, i, bn) = <<Self, NDIRECT + 1>>  BY <2>1, <3>2 DEF FirstIn
    <3> QED  BY <2>4, <3>3, Words DEF Vacant
  <2>5. CASE a # None /\ b = None
    <3>1. AddrIn(c, i, <<Self, NDIRECT + 1>>) # None  BY <2>5, Words
    <3>2. AddrIn(c, i, <<a, q>>) = None  BY <2>5
    <3>3. Min(M) = 2  BY <2>2, <2>3, <3>1, <3>2
    <3>4. FirstIn(c, i, bn) = <<a, q>>  BY <2>1, <3>3 DEF FirstIn
    <3>5. a \in IndexIn(c, i)  BY <2>5, IndexIs
    <3>6. c[a][q] = None  BY <1>0, <3>2, <3>5, Words
    <3> QED  BY <3>4, <3>5, <3>6 DEF Vacant
  <2>6. CASE a # None /\ b # None
    <3>1. AddrIn(c, i, <<Self, NDIRECT + 1>>) # None  BY <2>6, Words
    <3>2. AddrIn(c, i, <<a, q>>) # None  BY <2>6
    <3>3. Min(M) = 3 /\ AddrIn(c, i, <<b, r>>) = None  BY <2>2, <2>3, <3>1, <3>2
    <3>4. FirstIn(c, i, bn) = <<b, r>>  BY <2>1, <3>3 DEF FirstIn
    <3>5. a \in IndexIn(c, i)  BY <2>6, IndexIs
    <3>6. c[a][q] = b  BY <1>0, <3>5, Words
    <3>7. b \in IndexIn(c, i)  BY <2>6, <3>6, IndexIs
    <3>8. c[b][r] = None  BY <1>0, <3>3, <3>7, Words
    <3> QED  BY <3>4, <3>7, <3>8 DEF Vacant
  <2> QED  BY <2>4, <2>5, <2>6
<1>4. \/ bn \in 0..NDIRECT - 1 /\ \A e, g : PathIn(e, g, bn) = <<<<Self, bn>>>>
      \/ \E k \in 0..NINDIRECT - 1 : \A e, g :
            PathIn(e, g, bn) = <<<<Self, NDIRECT>>, <<g.addrs[NDIRECT], k>>>>
      \/ /\ ~(bn < NDIRECT + NINDIRECT)
         /\ \E q, r \in 0..NINDIRECT - 1 : \A e, g :
               PathIn(e, g, bn) = <<<<Self, NDIRECT + 1>>, <<g.addrs[NDIRECT + 1], q>>,
                                    <<AddrIn(e, g, <<g.addrs[NDIRECT + 1], q>>), r>>>>
  <2>1. bn >= NDIRECT + NINDIRECT => ~(bn < NDIRECT + NINDIRECT)  BY Bounds DEF Reach
  <2> QED  BY <2>1, Paths
<1> QED  BY <1>1, <1>2, <1>3, <1>4

-----------------------------------------------------------------------------
(* Changes of a tree.                                                      *)

\* An address, got, is put in a vacant place s of the tree of i in c, which
\* makes it the tree of j in d.
Planted(c, i, d, j, s, got) ==
    /\ c \in Content /\ d \in Content /\ i \in Dinode /\ j \in Dinode
    /\ Vacant(c, i, s)
    /\ AddrIn(d, j, s) = got
    /\ \A k \in 0..NDIRECT + 1 : <<Self, k>> # s => j.addrs[k] = i.addrs[k]
    /\ \A b \in Block, k \in 0..NINDIRECT - 1 : <<b, k>> # s => d[b][k] = c[b][k]

\* Nothing that was there has moved.
LEMMA PlantedGrows ==
  ASSUME NEW c, NEW i, NEW d, NEW j, NEW s, NEW got, Planted(c, i, d, j, s, got), Good(c, i)
  PROVE  Grows(c, i, d, j)
<1>0. IndexIn(c, i) \subseteq Block  BY GoodIndex DEF Planted
<1>1. ASSUME NEW k \in 0..NDIRECT + 1, i.addrs[k] # None
      PROVE  j.addrs[k] = i.addrs[k]
  <2>1. <<Self, k>> # s  BY <1>0, <1>1, Bounds DEF Planted, Vacant
  <2> QED  BY <2>1 DEF Planted
<1>2. ASSUME NEW b \in IndexIn(c, i), NEW k \in 0..NINDIRECT - 1, c[b][k] # None
      PROVE  d[b][k] = c[b][k]
  <2>1. b \in Block  BY <1>0
  <2>2. <<b, k>> # s  BY <1>2, <2>1, Bounds DEF Planted, Vacant
  <2> QED  BY <2>1, <2>2 DEF Planted
<1> QED  BY <1>1, <1>2 DEF Grows

\* A tree grows by the one block that is new.
LEMMA Graft ==
  ASSUME NEW c, NEW i, NEW d, NEW j, NEW s, NEW got, Planted(c, i, d, j, s, got),
         Good(c, i), got \in Block, got \notin BlocksIn(c, i), c[got] = Zero
  PROVE  /\ Good(d, j)
         /\ BlocksIn(d, j) = BlocksIn(c, i) \cup {got}
<1> USE DEF Planted
<1>0. IndexIn(c, i) \subseteq Block /\ got # None /\ got # Self  BY GoodIndex, Bounds
<1>g. Grows(c, i, d, j)  BY PlantedGrows
<1>z. \A k \in 0..NINDIRECT - 1 : c[got][k] = None  BY DEF Zero
<1>n. AddrIn(c, i, s) = None
  <2>1. ASSUME NEW k \in 0..NDIRECT + 1, s = <<Self, k>>, i.addrs[k] = None
        PROVE  AddrIn(c, i, s) = None
    BY <2>1 DEF AddrIn
  <2>2. ASSUME NEW b \in IndexIn(c, i), NEW k \in 0..NINDIRECT - 1, s = <<b, k>>, c[b][k] = None
        PROVE  AddrIn(c, i, s) = None
    BY <2>2, <1>0, Bounds DEF AddrIn
  <2> QED  BY <2>1, <2>2 DEF Vacant
<1>a. \A k \in 0..NDIRECT + 1 : <<Self, k>> = s => j.addrs[k] = got
  BY DEF AddrIn
<1>b. \A b \in Block, k \in 0..NINDIRECT - 1 : <<b, k>> = s => d[b][k] = got
  BY Bounds DEF AddrIn
<1>1. IndexIn(d, j) \subseteq IndexIn(c, i) \cup {got}
  <2> SUFFICES ASSUME NEW b \in IndexIn(d, j), b # got  PROVE b \in IndexIn(c, i)
    OBVIOUS
  <2>0. NDIRECT \in 0..NDIRECT + 1 /\ NDIRECT + 1 \in 0..NDIRECT + 1  BY Bounds
  <2>1. b # None  BY IndexIs
  <2>2. CASE b = j.addrs[NDIRECT]
    <3>1. i.addrs[NDIRECT] = b  BY <1>a, <2>0, <2>2
    <3> QED  BY <2>1, <3>1, IndexIs
  <2>3. CASE b = j.addrs[NDIRECT + 1]
    <3>1. i.addrs[NDIRECT + 1] = b  BY <1>a, <2>0, <2>3
    <3> QED  BY <2>1, <3>1, IndexIs
  <2>4. ASSUME NEW e, e = j.addrs[NDIRECT + 1], e # None, NEW k \in 0..NINDIRECT - 1, b = d[e][k]
        PROVE  b \in IndexIn(c, i)
    <3>1. e \in Block  BY <2>4, Words DEF Address
    <3>2. <<e, k>> # s /\ d[e][k] = c[e][k]  BY <1>b, <2>4, <3>1
    <3>3. e # got  BY <1>z, <2>1, <2>4, <3>2
    <3>4. i.addrs[NDIRECT + 1] = e  BY <1>a, <2>0, <2>4, <3>3
    <3> QED  BY <2>1, <2>4, <3>2, <3>4, IndexIs
  <2> QED  BY <2>2, <2>3, <2>4, IndexIs
<1>2. IndexIn(c, i) \subseteq IndexIn(d, j)
  <2> SUFFICES ASSUME NEW b \in IndexIn(c, i)  PROVE b \in IndexIn(d, j)
    OBVIOUS
  <2>0. NDIRECT \in 0..NDIRECT + 1 /\ NDIRECT + 1 \in 0..NDIRECT + 1  BY Bounds
  <2>1. b # None  BY IndexIs
  <2>2. CASE b = i.addrs[NDIRECT]
    <3>1. j.addrs[NDIRECT] = b  BY <1>g, <2>0, <2>1, <2>2 DEF Grows
    <3> QED  BY <2>1, <3>1, IndexIs
  <2>3. CASE b = i.addrs[NDIRECT + 1]
    <3>1. j.addrs[NDIRECT + 1] = b  BY <1>g, <2>0, <2>1, <2>3 DEF Grows
    <3> QED  BY <2>1, <3>1, IndexIs
  <2>4. ASSUME NEW e, e = i.addrs[NDIRECT + 1], e # None, NEW k \in 0..NINDIRECT - 1, b = c[e][k]
        PROVE  b \in IndexIn(d, j)
    <3>1. e \in IndexIn(c, i)  BY <2>4, IndexIs
    <3>2. d[e][k] = b  BY <1>g, <2>1, <2>4, <3>1 DEF Grows
    <3>3. j.addrs[NDIRECT + 1] = e  BY <1>g, <2>0, <2>4 DEF Grows
    <3> QED  BY <2>1, <2>4, <3>2, <3>3, IndexIs
  <2> QED  BY <2>2, <2>3, <2>4, IndexIs
<1>3. ASSUME NEW t \in PlacesIn(d, j), t # s
      PROVE  t \in PlacesIn(c, i) /\ AddrIn(c, i, t) = AddrIn(d, j, t)
  <2>1. AddrIn(d, j, t) # None  BY PlaceIs
  <2>2. ASSUME NEW k \in 0..NDIRECT + 1, t = <<Self, k>>
        PROVE  t \in PlacesIn(c, i) /\ AddrIn(c, i, t) = AddrIn(d, j, t)
    <3>1. AddrIn(d, j, t) = j.addrs[k] /\ AddrIn(c, i, t) = i.addrs[k]  BY <2>2 DEF AddrIn
    <3>2. j.addrs[k] = i.addrs[k]  BY <1>3, <2>2
    <3> QED  BY <2>1, <2>2, <3>1, <3>2, PlaceIs
  <2>3. ASSUME NEW b \in IndexIn(d, j), NEW k \in 0..NINDIRECT - 1, t = <<b, k>>
        PROVE  t \in PlacesIn(c, i) /\ AddrIn(c, i, t) = AddrIn(d, j, t)
    <3>1. b \in Block  BY <1>0, <1>1
    <3>2. AddrIn(d, j, t) = d[b][k] /\ AddrIn(c, i, t) = c[b][k]  BY <2>3, <3>1, Bounds DEF AddrIn
    <3>3. d[b][k] = c[b][k]  BY <1>3, <2>3, <3>1
    <3>4. b # got  BY <1>z, <2>1, <3>2, <3>3
    <3>5. b \in IndexIn(c, i)  BY <1>1, <3>4
    <3> QED  BY <2>1, <2>3, <3>2, <3>3, <3>5, PlaceIs
  <2> QED  BY <2>2, <2>3, PlaceIs
<1>4. ASSUME NEW t \in PlacesIn(c, i)
      PROVE  t \in PlacesIn(d, j) /\ AddrIn(d, j, t) = AddrIn(c, i, t)
  <2>1. AddrIn(c, i, t) # None  BY PlaceIs
  <2>2. ASSUME NEW k \in 0..NDIRECT + 1, t = <<Self, k>>
        PROVE  t \in PlacesIn(d, j) /\ AddrIn(d, j, t) = AddrIn(c, i, t)
    <3>1. AddrIn(d, j, t) = j.addrs[k] /\ AddrIn(c, i, t) = i.addrs[k]  BY <2>2 DEF AddrIn
    <3>2. j.addrs[k] = i.addrs[k]  BY <1>g, <2>1, <3>1 DEF Grows
    <3> QED  BY <2>1, <2>2, <3>1, <3>2, PlaceIs
  <2>3. ASSUME NEW b \in IndexIn(c, i), NEW k \in 0..NINDIRECT - 1, t = <<b, k>>
        PROVE  t \in PlacesIn(d, j) /\ AddrIn(d, j, t) = AddrIn(c, i, t)
    <3>1. b \in Block /\ b \in IndexIn(d, j)  BY <1>0, <1>2
    <3>2. AddrIn(d, j, t) = d[b][k] /\ AddrIn(c, i, t) = c[b][k]  BY <2>3, <3>1, Bounds DEF AddrIn
    <3>3. d[b][k] = c[b][k]  BY <1>g, <2>1, <3>2 DEF Grows
    <3> QED  BY <2>1, <2>3, <3>1, <3>2, <3>3, PlaceIs
  <2> QED  BY <2>2, <2>3, PlaceIs
<1>5. s \in PlacesIn(d, j)
  BY <1>0, <1>2, PlaceIs DEF Vacant
<1> HIDE DEF Planted
<1>6. AddrIn(d, j, s) = got  BY DEF Planted
<1>7. Good(d, j)
  <2> SUFFICES ASSUME NEW t \in PlacesIn(d, j), NEW u \in PlacesIn(d, j)
               PROVE  /\ AddrIn(d, j, t) \in Block
                      /\ AddrIn(d, j, t) = AddrIn(d, j, u) => t = u
    BY DEF Good
  <2>1. CASE t # s /\ u # s  BY <1>3, <2>1 DEF Good
  <2>2. CASE t = s /\ u # s
    <3>1. AddrIn(d, j, u) \in BlocksIn(c, i)  BY <1>3, <2>2 DEF BlocksIn
    <3> QED  BY <1>6, <2>2, <3>1
  <2>3. CASE t # s /\ u = s
    <3>1. AddrIn(d, j, t) \in BlocksIn(c, i)  BY <1>3, <2>3 DEF BlocksIn
    <3>2. AddrIn(d, j, t) \in Block  BY <1>3, <2>3 DEF Good
    <3> QED  BY <1>6, <2>3, <3>1, <3>2
  <2>4. CASE t = s /\ u = s  BY <1>6, <2>4
  <2> QED  BY <2>1, <2>2, <2>3, <2>4
<1>8. BlocksIn(d, j) = BlocksIn(c, i) \cup {got}
  <2>1. ASSUME NEW b \in BlocksIn(d, j)  PROVE b \in BlocksIn(c, i) \cup {got}
    <3> PICK t \in PlacesIn(d, j) : b = AddrIn(d, j, t)  BY DEF BlocksIn
    <3> QED  BY <1>3, <1>6 DEF BlocksIn
  <2>2. ASSUME NEW b \in BlocksIn(c, i)  PROVE b \in BlocksIn(d, j)
    <3> PICK t \in PlacesIn(c, i) : b = AddrIn(c, i, t)  BY DEF BlocksIn
    <3> QED  BY <1>4 DEF BlocksIn
  <2>3. got \in BlocksIn(d, j)  BY <1>5, <1>6 DEF BlocksIn
  <2> QED  BY <2>1, <2>2, <2>3
<1> QED  BY <1>7, <1>8

\* The block a file's data goes to is of its tree, and none of the blocks of addresses.
LEMMA DataBlock ==
  ASSUME NEW c \in Content, NEW i \in Dinode, NEW bn, Reach(bn), Good(c, i),
         MissingIn(c, i, bn) = {}
  PROVE  /\ AddrIn(c, i, Last(PathIn(c, i, bn))) \in BlocksIn(c, i)
         /\ AddrIn(c, i, Last(PathIn(c, i, bn))) \notin IndexIn(c, i)
<1>0. IndexIn(c, i) \subseteq Block  BY GoodIndex
<1>d. NDIRECT \in 0..NDIRECT + 1 /\ NDIRECT + 1 \in 0..NDIRECT + 1 /\ NDIRECT # NDIRECT + 1
  BY Bounds
<1> DEFINE Apart(s) ==
      /\ s # <<Self, NDIRECT>> /\ s # <<Self, NDIRECT + 1>>
      /\ \A k : i.addrs[NDIRECT + 1] \in Block => s # <<i.addrs[NDIRECT + 1], k>>
<1>1. \E s \in PlacesIn(c, i) : Last(PathIn(c, i, bn)) = s /\ Apart(s)
  <2>1. ASSUME bn \in 0..NDIRECT - 1, \A e, g : PathIn(e, g, bn) = <<<<Self, bn>>>>
        PROVE  \E s \in PlacesIn(c, i) : Last(PathIn(c, i, bn)) = s /\ Apart(s)
    <3>1. PathIn(c, i, bn) = <<<<Self, bn>>>>  BY <2>1
    <3>2. AddrIn(c, i, <<Self, bn>>) # None  BY <3>1, Missing1
    <3>3. bn \in 0..NDIRECT + 1 /\ bn # NDIRECT /\ bn # NDIRECT + 1  BY <2>1, Bounds
    <3>4. <<Self, bn>> \in PlacesIn(c, i)  BY <3>2, <3>3, PlaceIs
    <3>5. Apart(<<Self, bn>>)  BY <3>3, Bounds
    <3>6. Last(PathIn(c, i, bn)) = <<Self, bn>>  BY <3>1 DEF Last
    <3> QED  BY <3>4, <3>5, <3>6
  <2>2. ASSUME NEW k \in 0..NINDIRECT - 1,
               \A e, g : PathIn(e, g, bn) = <<<<Self, NDIRECT>>, <<g.addrs[NDIRECT], k>>>>
        PROVE  \E s \in PlacesIn(c, i) : Last(PathIn(c, i, bn)) = s /\ Apart(s)
    <3> PICK b : b = i.addrs[NDIRECT]  OBVIOUS
    <3>1. PathIn(c, i, bn) = <<<<Self, NDIRECT>>, <<b, k>>>>  BY <2>2
    <3>2. AddrIn(c, i, <<Self, NDIRECT>>) # None /\ AddrIn(c, i, <<b, k>>) # None  BY <3>1, Missing2
    <3>3. b # None  BY <3>2 DEF AddrIn
    <3>4. b \in IndexIn(c, i)  BY <3>3, IndexIs
    <3>5. <<b, k>> \in PlacesIn(c, i)  BY <3>2, <3>4, PlaceIs
    <3>6. b # i.addrs[NDIRECT + 1]
      <4> SUFFICES ASSUME b = i.addrs[NDIRECT + 1] PROVE FALSE  OBVIOUS
      <4>1. AddrIn(c, i, <<Self, NDIRECT>>) = b /\ AddrIn(c, i, <<Self, NDIRECT + 1>>) = b
        BY DEF AddrIn
      <4>2. <<Self, NDIRECT>> \in PlacesIn(c, i)  BY <1>d, <3>3, <4>1, PlaceIs
      <4>3. <<Self, NDIRECT + 1>> \in PlacesIn(c, i)  BY <1>d, <3>3, <4>1, PlaceIs
      <4>4. <<Self, NDIRECT>> = <<Self, NDIRECT + 1>>  BY <4>1, <4>2, <4>3 DEF Good
      <4> QED  BY <1>d, <4>4
    <3>7. Apart(<<b, k>>)  BY <1>0, <3>4, <3>6, Bounds
    <3>8. Last(PathIn(c, i, bn)) = <<b, k>>  BY <3>1 DEF Last
    <3> QED  BY <3>5, <3>7, <3>8
  <2>3. ASSUME NEW q \in 0..NINDIRECT - 1, NEW r \in 0..NINDIRECT - 1,
               \A e, g : PathIn(e, g, bn) = <<<<Self, NDIRECT + 1>>, <<g.addrs[NDIRECT + 1], q>>,
                                         <<AddrIn(e, g, <<g.addrs[NDIRECT + 1], q>>), r>>>>
        PROVE  \E s \in PlacesIn(c, i) : Last(PathIn(c, i, bn)) = s /\ Apart(s)
    <3> PICK a : a = i.addrs[NDIRECT + 1]  OBVIOUS
    <3> PICK b : b = AddrIn(c, i, <<a, q>>)  OBVIOUS
    <3>1. PathIn(c, i, bn) = <<<<Self, NDIRECT + 1>>, <<a, q>>, <<b, r>>>>  BY <2>3
    <3>2. AddrIn(c, i, <<Self, NDIRECT + 1>>) # None /\ AddrIn(c, i, <<a, q>>) # None
          /\ AddrIn(c, i, <<b, r>>) # None
      BY <3>1, Missing3
    <3>3. a # None  BY <3>2 DEF AddrIn
    <3>4. a \in IndexIn(c, i)  BY <3>3, IndexIs
    <3>5. c[a][q] = b /\ b # None  BY <1>0, <3>2, <3>4, Bounds DEF AddrIn
    <3>6. b \in IndexIn(c, i)  BY <3>3, <3>5, IndexIs
    <3>7. <<b, r>> \in PlacesIn(c, i)  BY <3>2, <3>6, PlaceIs
    <3>8. b # a
      <4> SUFFICES ASSUME b = a PROVE FALSE  OBVIOUS
      <4>1. AddrIn(c, i, <<a, q>>) = a /\ AddrIn(c, i, <<Self, NDIRECT + 1>>) = a
        BY DEF AddrIn
      <4>2. <<a, q>> \in PlacesIn(c, i)  BY <3>2, <3>4, PlaceIs
      <4>3. <<Self, NDIRECT + 1>> \in PlacesIn(c, i)  BY <1>d, <3>3, <4>1, PlaceIs
      <4>4. <<Self, NDIRECT + 1>> = <<a, q>>  BY <4>1, <4>2, <4>3 DEF Good
      <4> QED  BY <1>0, <3>4, <4>4, Bounds
    <3>9. Apart(<<b, r>>)  BY <1>0, <3>6, <3>8, Bounds
    <3>10. Last(PathIn(c, i, bn)) = <<b, r>>  BY <3>1 DEF Last
    <3> QED  BY <3>7, <3>9, <3>10
  <2> QED  BY <2>1, <2>2, <2>3, Paths
<1> PICK s \in PlacesIn(c, i) : Last(PathIn(c, i, bn)) = s /\ Apart(s)  BY <1>1
<1>2. AddrIn(c, i, s) \in BlocksIn(c, i)  BY DEF BlocksIn
<1>3. ASSUME AddrIn(c, i, s) \in IndexIn(c, i)  PROVE FALSE
  <2> PICK t \in PlacesIn(c, i) :
        /\ AddrIn(c, i, t) = AddrIn(c, i, s)
        /\ \/ t = <<Self, NDIRECT>> \/ t = <<Self, NDIRECT + 1>>
           \/ /\ i.addrs[NDIRECT + 1] \in Block
              /\ \E k \in 0..NINDIRECT - 1 : t = <<i.addrs[NDIRECT + 1], k>>
    BY <1>3, GoodIndex
  <2>1. t = s  BY DEF Good
  <2> QED  BY <2>1
<1> QED  BY <1>2, <1>3

-----------------------------------------------------------------------------
(* What itrunc() frees, and what it leaves.                                *)

HeldIn(c, b) == IF b = None THEN <<>> ELSE [j \in 1..NINDIRECT |-> c[b][j - 1]]

ToFreeIn(c, i) == Direct(i) \o HeldIn(c, i.addrs[NDIRECT]) \o <<i.addrs[NDIRECT]>>

DoublyIn(c, i) ==
    LET d == i.addrs[NDIRECT + 1]
        second == ToSet(HeldIn(c, d)) \ {None}
    IN  ({d} \cup second \cup UNION {ToSet(HeldIn(c, b)) : b \in second}) \ {None}

LEMMA ReadRemoval ==
  ASSUME NEW i
  PROVE  /\ ToFree(i) = ToFreeIn(content, i)
         /\ Doubly(i) = DoublyIn(content, i)
<1>1. \A b : Held(b) = HeldIn(content, b)  BY DEF Held, HeldIn
<1> QED  BY <1>1 DEF ToFree, ToFreeIn, Doubly, DoublyIn

\* The address at each position of the list itrunc() goes through.
LEMMA ToFreeIs ==
  ASSUME NEW c \in Content, NEW i \in Dinode, Good(c, i)
  PROVE  LET T == ToFreeIn(c, i)
             ind == i.addrs[NDIRECT]
             n == IF ind = None THEN NDIRECT ELSE NDIRECT + NINDIRECT
         IN  /\ T \in Seq(Address) /\ Len(T) = n + 1
             /\ \A k \in 1..NDIRECT : T[k] = i.addrs[k - 1]
             /\ ind # None => \A k \in 1..NINDIRECT : T[NDIRECT + k] = c[ind][k - 1]
             /\ T[n + 1] = ind
<1> DEFINE ind == i.addrs[NDIRECT]
<1>0. ind \in Address /\ i.addrs \in [0..NDIRECT + 1 -> Address]  BY Words
<1>d. \A k \in 1..NDIRECT : i.addrs[k - 1] \in Address
  <2> TAKE k \in 1..NDIRECT
  <2>1. k - 1 \in 0..NDIRECT + 1  BY Bounds
  <2> QED  BY <1>0, <2>1
<1>1. Direct(i) \in Seq(Address) /\ Len(Direct(i)) = NDIRECT
      /\ \A k \in 1..NDIRECT : Direct(i)[k] = i.addrs[k - 1]
  BY <1>d, Bounds DEF Direct
<1> PICK D \in Seq(Address) : D = Direct(i)  BY <1>1
<1> HIDE DEF ind
<1>4. <<ind>> \in Seq(Address) /\ Len(<<ind>>) = 1 /\ <<ind>>[1] = ind  BY <1>0
<1> PICK I \in Seq(Address) : I = <<ind>>  BY <1>4
<1>2. CASE ind = None
  <2>1. HeldIn(c, ind) = <<>>  BY <1>2 DEF HeldIn
  <2> PICK E \in Seq(Address) : E = D \o <<>>  BY EmptySeq, ConcatProperties
  <2>2. E = D  BY ConcatEmptySeq
  <2> PICK T \in Seq(Address) : T = E \o I  BY ConcatProperties
  <2>3. T = ToFreeIn(c, i)  BY <2>1 DEF ToFreeIn, ind
  <2>4. Len(T) = NDIRECT + 1 /\ \A k \in 1..NDIRECT + 1 :
          T[k] = IF k <= NDIRECT THEN D[k] ELSE I[k - NDIRECT]
    BY <1>1, <1>4, <2>2, ConcatProperties
  <2>5. \A k \in 1..NDIRECT : T[k] = i.addrs[k - 1]
    <3> TAKE k \in 1..NDIRECT
    <3>1. k \in 1..NDIRECT + 1 /\ k <= NDIRECT  BY Bounds
    <3> QED  BY <1>1, <2>4, <3>1
  <2>6. T[NDIRECT + 1] = ind
    <3>1. NDIRECT + 1 \in 1..NDIRECT + 1 /\ ~(NDIRECT + 1 <= NDIRECT) /\ (NDIRECT + 1) - NDIRECT = 1
      BY Bounds
    <3>2. T[NDIRECT + 1] = I[(NDIRECT + 1) - NDIRECT]  BY <2>4, <3>1
    <3> QED  BY <1>4, <3>1, <3>2
  <2> QED  BY <1>2, <2>3, <2>4, <2>5, <2>6 DEF ind
<1>3. CASE ind # None
  <2> PICK H : H = HeldIn(c, ind)  OBVIOUS
  <2>1. H = [j \in 1..NINDIRECT |-> c[ind][j - 1]]  BY <1>3 DEF HeldIn
  <2>2. ind \in IndexIn(c, i) /\ ind \in Block  BY <1>3, IndexIs, GoodIndex DEF ind
  <2>3. \A m \in 0..NINDIRECT - 1 : c[ind][m] \in Address
    <3> TAKE m \in 0..NINDIRECT - 1
    <3>1. AddrIn(c, i, <<ind, m>>) = c[ind][m]  BY <2>2, Bounds DEF AddrIn
    <3>2. c[ind][m] # None => <<ind, m>> \in PlacesIn(c, i)  BY <2>2, <3>1, PlaceIs
    <3> QED  BY <3>1, <3>2 DEF Good, Address
  <2>4. \A k \in 1..NINDIRECT : c[ind][k - 1] \in Address
    <3> TAKE k \in 1..NINDIRECT
    <3>1. k - 1 \in 0..NINDIRECT - 1  BY Bounds
    <3> QED  BY <2>3, <3>1
  <2>5. H \in Seq(Address) /\ Len(H) = NINDIRECT /\ \A k \in 1..NINDIRECT : H[k] = c[ind][k - 1]
    BY <2>1, <2>4, Bounds
  <2> PICK E \in Seq(Address) : E = D \o H  BY <2>5, ConcatProperties
  <2>6. Len(E) = NDIRECT + NINDIRECT /\ \A k \in 1..NDIRECT + NINDIRECT :
          E[k] = IF k <= NDIRECT THEN D[k] ELSE H[k - NDIRECT]
    BY <1>1, <2>5, ConcatProperties
  <2> PICK n \in Nat : n = NDIRECT + NINDIRECT  BY Bounds
  <2> PICK T \in Seq(Address) : T = E \o I  BY ConcatProperties
  <2>7. T = ToFreeIn(c, i)  BY DEF ToFreeIn, ind
  <2>8. Len(T) = n + 1 /\ \A k \in 1..n + 1 : T[k] = IF k <= n THEN E[k] ELSE I[k - n]
    <3>1. Len(E) = n /\ Len(I) = 1  BY <1>4, <2>6
    <3>2. Len(T) = Len(E) + Len(I) /\ \A k \in 1..Len(E) + Len(I) :
            T[k] = IF k <= Len(E) THEN E[k] ELSE I[k - Len(E)]
      BY ConcatProperties
    <3> QED  BY <3>1, <3>2
  <2>9. \A k \in 1..NDIRECT : T[k] = i.addrs[k - 1]
    <3> TAKE k \in 1..NDIRECT
    <3>1. k \in 1..n + 1 /\ k \in 1..n /\ k <= n /\ k <= NDIRECT  BY Bounds
    <3>2. T[k] = E[k]  BY <2>8, <3>1
    <3>3. E[k] = D[k]  BY <2>6, <3>1
    <3> QED  BY <1>1, <3>2, <3>3
  <2>10. \A k \in 1..NINDIRECT : T[NDIRECT + k] = c[ind][k - 1]
    <3> TAKE k \in 1..NINDIRECT
    <3> PICK m \in Int : m = NDIRECT + k  BY Bounds
    <3>1. m \in 1..n + 1 /\ m \in 1..n /\ m <= n /\ ~(m <= NDIRECT) /\ m - NDIRECT = k  BY Bounds
    <3>2. T[m] = E[m]  BY <2>8, <3>1
    <3>3. E[m] = H[k]  BY <2>6, <3>1
    <3> QED  BY <2>5, <3>2, <3>3
  <2>11. T[n + 1] = ind
    <3>1. n + 1 \in 1..n + 1 /\ ~(n + 1 <= n) /\ (n + 1) - n = 1  OBVIOUS
    <3>2. T[n + 1] = I[(n + 1) - n]  BY <2>8, <3>1
    <3> QED  BY <1>4, <3>1, <3>2
  <2>12. (IF ind = None THEN NDIRECT ELSE NDIRECT + NINDIRECT) = n  BY <1>3
  <2>13. Len(T) = n + 1  BY <2>8
  <2> QED  BY <2>7, <2>9, <2>10, <2>11, <2>12, <2>13 DEF ind
<1> QED  BY <1>2, <1>3

\* The positions of that list are the places outside what itrunc() leaves alone.
Spot(i, k, s) ==
    \/ k \in 1..NDIRECT /\ s = <<Self, k - 1>>
    \/ /\ i.addrs[NDIRECT] # None /\ s = <<Self, NDIRECT>> /\ k = NDIRECT + NINDIRECT + 1
    \/ /\ i.addrs[NDIRECT] = None /\ s = <<Self, NDIRECT>> /\ k = NDIRECT + 1
    \/ /\ i.addrs[NDIRECT] # None
       /\ \E m \in 1..NINDIRECT : k = NDIRECT + m /\ s = <<i.addrs[NDIRECT], m - 1>>

LEMMA StumpIs ==
  ASSUME NEW i \in Dinode
  PROVE  /\ Stump(i) \in Dinode /\ Below(Stump(i), i)
         /\ \A k \in 0..NDIRECT : Stump(i).addrs[k] = None
         /\ Stump(i).addrs[NDIRECT + 1] = i.addrs[NDIRECT + 1]
<1>0. NDIRECT + 1 \in 0..NDIRECT + 1 /\ \A k \in 0..NDIRECT : k \in 0..NDIRECT + 1 /\ k # NDIRECT + 1
  BY Bounds
<1>1. i.addrs \in [0..NDIRECT + 1 -> Address] /\ i.addrs[NDIRECT + 1] \in Address  BY <1>0 DEF Dinode
<1> PICK e \in Address : e = i.addrs[NDIRECT + 1]  BY <1>1
<1>2. Stump(i) = [size |-> 0, addrs |-> [k \in 0..NDIRECT + 1 |-> IF k = NDIRECT + 1 THEN e ELSE None]]
  <2> DEFINE zeroes == [k \in 0..NDIRECT + 1 |-> None]
  <2>1. Stump(i) = [[size |-> 0, addrs |-> zeroes] EXCEPT !.addrs = [zeroes EXCEPT ![NDIRECT + 1] = e]]
    BY DEF Stump, Blank
  <2>2. [zeroes EXCEPT ![NDIRECT + 1] = e]
          = [k \in 0..NDIRECT + 1 |-> IF k = NDIRECT + 1 THEN e ELSE None]
    OBVIOUS
  <2> HIDE DEF zeroes
  <2> QED  BY <2>1, <2>2
<1>3. Stump(i).addrs = [k \in 0..NDIRECT + 1 |-> IF k = NDIRECT + 1 THEN e ELSE None]
      /\ Stump(i).size = 0
  BY <1>2
<1>4. Stump(i).addrs \in [0..NDIRECT + 1 -> Address]  BY <1>3 DEF Address
<1>5. Stump(i) \in Dinode  BY <1>2, <1>4 DEF Dinode
<1>6. \A k \in 0..NDIRECT + 1 : Stump(i).addrs[k] = IF k = NDIRECT + 1 THEN e ELSE None  BY <1>3
<1>7. Below(Stump(i), i)  BY <1>6 DEF Below
<1>8. \A k \in 0..NDIRECT : Stump(i).addrs[k] = None  BY <1>0, <1>6
<1>9. Stump(i).addrs[NDIRECT + 1] = e  BY <1>0, <1>6
<1> QED  BY <1>5, <1>7, <1>8, <1>9

\* The indirect block is not among the doubly indirect ones.
LEMMA StumpIndex ==
  ASSUME NEW c \in Content, NEW i \in Dinode, Good(c, i)
  PROVE  /\ i.addrs[NDIRECT] \notin IndexIn(c, Stump(i))
         /\ \A b \in IndexIn(c, i) : b = i.addrs[NDIRECT] \/ b \in IndexIn(c, Stump(i))
<1> DEFINE d == i.addrs[NDIRECT + 1]
           ind == i.addrs[NDIRECT]
           S == Stump(i)
<1>0. S \in Dinode /\ S.addrs[NDIRECT] = None /\ S.addrs[NDIRECT + 1] = d
  BY StumpIs, Bounds
<1> HIDE DEF S
<1>1. \A b : b \in IndexIn(c, S) <=> /\ b # None
                                     /\ \/ b = d
                                        \/ /\ d # None
                                           /\ \E k \in 0..NINDIRECT - 1 : b = c[d][k]
  <2> TAKE b
  <2>1. b \in IndexIn(c, S) <=> /\ b # None
                                /\ \/ b = S.addrs[NDIRECT]
                                   \/ b = S.addrs[NDIRECT + 1]
                                   \/ /\ S.addrs[NDIRECT + 1] # None
                                      /\ \E k \in 0..NINDIRECT - 1 : b = c[S.addrs[NDIRECT + 1]][k]
    BY <1>0, IndexIs
  <2> QED  BY <1>0, <2>1
<1>2. ASSUME ind \in IndexIn(c, S)  PROVE FALSE
  <2>0. NDIRECT \in 0..NDIRECT + 1 /\ NDIRECT + 1 \in 0..NDIRECT + 1 /\ NDIRECT # NDIRECT + 1
    BY Bounds
  <2>1. ind # None  BY <1>1, <1>2
  <2>2. AddrIn(c, i, <<Self, NDIRECT>>) = ind  BY DEF AddrIn
  <2>3. <<Self, NDIRECT>> \in PlacesIn(c, i)  BY <2>0, <2>1, <2>2, PlaceIs
  <2>4. CASE ind = d
    <3>1. AddrIn(c, i, <<Self, NDIRECT + 1>>) = ind  BY <2>4 DEF AddrIn
    <3>2. <<Self, NDIRECT + 1>> \in PlacesIn(c, i)  BY <2>0, <2>1, <3>1, PlaceIs
    <3>3. <<Self, NDIRECT>> = <<Self, NDIRECT + 1>>  BY <2>2, <2>3, <3>1, <3>2 DEF Good
    <3> QED  BY <2>0, <3>3
  <2>5. ASSUME d # None, NEW k \in 0..NINDIRECT - 1, ind = c[d][k]  PROVE FALSE
    <3> PICK e : e = d  OBVIOUS
    <3>1. e \in IndexIn(c, i) /\ e \in Block  BY <2>5, IndexIs, GoodIndex
    <3>2. AddrIn(c, i, <<e, k>>) = ind  BY <2>5, <3>1, Bounds DEF AddrIn
    <3>3. <<e, k>> \in PlacesIn(c, i)  BY <2>1, <3>1, <3>2, PlaceIs
    <3>4. <<Self, NDIRECT>> = <<e, k>>  BY <2>2, <2>3, <3>2, <3>3 DEF Good
    <3> QED  BY <3>1, <3>4, Bounds
  <2> QED  BY <1>1, <1>2, <2>4, <2>5
<1>3. ASSUME NEW b \in IndexIn(c, i)  PROVE b = ind \/ b \in IndexIn(c, S)
  BY <1>1, IndexIs
<1> QED  BY <1>2, <1>3 DEF S

LEMMA Cut ==
  ASSUME NEW c \in Content, NEW i \in Dinode, Good(c, i)
  PROVE  LET T == ToFreeIn(c, i)
         IN  /\ \A j, k \in 1..Len(T) : T[j] # None /\ T[j] = T[k] => j = k
             /\ BlocksIn(c, i) = BlocksIn(c, Stump(i)) \cup ({T[k] : k \in 1..Len(T)} \ {None})
             /\ \A k \in 1..Len(T) : T[k] \notin BlocksIn(c, Stump(i))
<1> DEFINE ind == i.addrs[NDIRECT]
           S == Stump(i)
           n == IF ind = None THEN NDIRECT ELSE NDIRECT + NINDIRECT
           T == ToFreeIn(c, i)
<1>0. IndexIn(c, i) \subseteq Block /\ ind \in Address  BY GoodIndex, Words
<1>1. /\ T \in Seq(Address) /\ Len(T) = n + 1
      /\ \A k \in 1..NDIRECT : T[k] = i.addrs[k - 1]
      /\ ind # None => \A k \in 1..NINDIRECT : T[NDIRECT + k] = c[ind][k - 1]
      /\ T[n + 1] = ind
  BY ToFreeIs
<1>2. /\ S \in Dinode /\ PlacesIn(c, S) \subseteq PlacesIn(c, i)
      /\ \A s \in PlacesIn(c, S) : AddrIn(c, S, s) = AddrIn(c, i, s)
      /\ \A k \in 0..NDIRECT : S.addrs[k] = None
      /\ S.addrs[NDIRECT + 1] = i.addrs[NDIRECT + 1]
  BY StumpIs, SubTree
<1>3. /\ ind \notin IndexIn(c, S)
      /\ \A b \in IndexIn(c, i) : b = ind \/ b \in IndexIn(c, S)
  BY StumpIndex
<1> HIDE DEF T, S
<1>4. ASSUME NEW k \in 1..Len(T)  PROVE \E s : Spot(i, k, s)
  <2>1. CASE ind = None
    <3>1. k \in 1..NDIRECT \/ k = NDIRECT + 1  BY <1>1, <1>4, <2>1, Bounds
    <3> QED  BY <2>1, <3>1 DEF Spot
  <2>2. CASE ind # None
    <3>1. k \in 1..NDIRECT \/ k = NDIRECT + NINDIRECT + 1 \/ \E m \in 1..NINDIRECT : k = NDIRECT + m
      <4>1. k \in 1..NDIRECT \/ k = NDIRECT + NINDIRECT + 1 \/ k - NDIRECT \in 1..NINDIRECT
        BY <1>1, <1>4, <2>2, Bounds
      <4>2. k = NDIRECT + (k - NDIRECT)  BY <1>4, Bounds
      <4> QED  BY <4>1, <4>2
    <3> QED  BY <2>2, <3>1 DEF Spot
  <2> QED  BY <2>1, <2>2
<1>5. ASSUME NEW k \in 1..Len(T), NEW s, Spot(i, k, s)
      PROVE  /\ AddrIn(c, i, s) = T[k]
             /\ T[k] # None => s \in PlacesIn(c, i)
             /\ s \notin PlacesIn(c, S)
  <2>1. CASE k \in 1..NDIRECT /\ s = <<Self, k - 1>>
    <3>1. AddrIn(c, i, s) = T[k]  BY <1>1, <2>1 DEF AddrIn
    <3>2. k - 1 \in 0..NDIRECT /\ k - 1 \in 0..NDIRECT + 1  BY <2>1, Bounds
    <3>3. AddrIn(c, S, s) = None  BY <1>2, <2>1, <3>2 DEF AddrIn
    <3>4. s \notin PlacesIn(c, S)  BY <1>2, <3>3, PlaceIs
    <3>5. T[k] # None => s \in PlacesIn(c, i)  BY <2>1, <3>1, <3>2, PlaceIs
    <3> QED  BY <3>1, <3>4, <3>5
  <2>2. CASE s = <<Self, NDIRECT>> /\ k = n + 1
    <3>1. AddrIn(c, i, s) = T[k]  BY <1>1, <2>2 DEF AddrIn
    <3>2. NDIRECT \in 0..NDIRECT /\ NDIRECT \in 0..NDIRECT + 1  BY Bounds
    <3>3. AddrIn(c, S, s) = None  BY <1>2, <2>2, <3>2 DEF AddrIn
    <3>4. s \notin PlacesIn(c, S)  BY <1>2, <3>3, PlaceIs
    <3>5. T[k] # None => s \in PlacesIn(c, i)  BY <2>2, <3>1, <3>2, PlaceIs
    <3> QED  BY <3>1, <3>4, <3>5
  <2>3. ASSUME ind # None, NEW m \in 1..NINDIRECT, k = NDIRECT + m, s = <<ind, m - 1>>
        PROVE  /\ AddrIn(c, i, s) = T[k]
               /\ T[k] # None => s \in PlacesIn(c, i)
               /\ s \notin PlacesIn(c, S)
    <3>1. ind \in IndexIn(c, i) /\ ind \in Block  BY <1>0, <2>3, IndexIs
    <3>2. AddrIn(c, i, s) = c[ind][m - 1]  BY <2>3, <3>1, Bounds DEF AddrIn
    <3>3. AddrIn(c, i, s) = T[k]  BY <1>1, <2>3, <3>2
    <3>4. m - 1 \in 0..NINDIRECT - 1  BY Bounds
    <3>5. T[k] # None => s \in PlacesIn(c, i)  BY <2>3, <3>1, <3>3, <3>4, PlaceIs
    <3>6. s \notin PlacesIn(c, S)
      <4> SUFFICES ASSUME s \in PlacesIn(c, S) PROVE FALSE  OBVIOUS
      <4>1. CASE \E l \in 0..NDIRECT + 1 : s = <<Self, l>>  BY <2>3, <3>1, <4>1, Bounds
      <4>2. CASE \E b \in IndexIn(c, S), l \in 0..NINDIRECT - 1 : s = <<b, l>>
        BY <1>3, <2>3, <4>2
      <4> QED  BY <1>2, <4>1, <4>2, PlaceIs
    <3> QED  BY <3>3, <3>5, <3>6
  <2> QED  BY <1>5, <2>1, <2>2, <2>3 DEF Spot
<1>6. ASSUME NEW j \in 1..Len(T), NEW k \in 1..Len(T), NEW s, Spot(i, j, s), Spot(i, k, s)
      PROVE  j = k
  <2>1. ind # None => ind # Self  BY <1>0, Bounds DEF Address
  <2>2. CASE j \in 1..NDIRECT /\ s = <<Self, j - 1>>  BY <1>6, <2>1, <2>2, Bounds DEF Spot
  <2>3. CASE ind # None /\ s = <<Self, NDIRECT>> /\ j = NDIRECT + NINDIRECT + 1
    BY <1>6, <2>1, <2>3, Bounds DEF Spot
  <2>4. CASE ind = None /\ s = <<Self, NDIRECT>> /\ j = NDIRECT + 1
    BY <1>6, <2>1, <2>4, Bounds DEF Spot
  <2>5. ASSUME ind # None, NEW m \in 1..NINDIRECT, j = NDIRECT + m, s = <<ind, m - 1>>
        PROVE  j = k
    BY <1>6, <2>1, <2>5, Bounds DEF Spot
  <2> QED  BY <1>6, <2>2, <2>3, <2>4, <2>5 DEF Spot
<1>7. ASSUME NEW s \in PlacesIn(c, i), s \notin PlacesIn(c, S)
      PROVE  \E k \in 1..Len(T) : Spot(i, k, s)
  <2>1. AddrIn(c, i, s) # None  BY PlaceIs
  <2>2. ASSUME NEW l \in 0..NDIRECT + 1, s = <<Self, l>>
        PROVE  \E k \in 1..Len(T) : Spot(i, k, s)
    <3>1. CASE l = NDIRECT + 1
      <4>1. AddrIn(c, S, s) = AddrIn(c, i, s)  BY <1>2, <2>2, <3>1 DEF AddrIn
      <4>2. s \in PlacesIn(c, S)  BY <1>2, <2>1, <2>2, <4>1, PlaceIs
      <4> QED  BY <1>7, <4>2
    <3>2. CASE l = NDIRECT
      <4>1. n + 1 \in 1..Len(T)  BY <1>1, Bounds
      <4>2. Spot(i, n + 1, s)  BY <2>2, <3>2 DEF Spot
      <4> QED  BY <4>1, <4>2
    <3>3. CASE l \in 0..NDIRECT - 1
      <4>1. l + 1 \in 1..Len(T) /\ l + 1 \in 1..NDIRECT /\ (l + 1) - 1 = l  BY <1>1, <3>3, Bounds
      <4>2. Spot(i, l + 1, s)  BY <2>2, <4>1 DEF Spot
      <4> QED  BY <4>1, <4>2
    <3> QED  BY <3>1, <3>2, <3>3, Bounds
  <2>3. ASSUME NEW b \in IndexIn(c, i), NEW l \in 0..NINDIRECT - 1, s = <<b, l>>
        PROVE  \E k \in 1..Len(T) : Spot(i, k, s)
    <3>0. b \in Block  BY <1>0
    <3>1. CASE b = ind
      <4>1. l + 1 \in 1..NINDIRECT /\ (l + 1) - 1 = l  BY Bounds
      <4> PICK m \in 1..NINDIRECT : m = l + 1 /\ m - 1 = l  BY <4>1
      <4>2. ind # None  BY <3>0, <3>1, Bounds
      <4>3. NDIRECT + m \in 1..Len(T)  BY <1>1, <4>2, Bounds
      <4>4. Spot(i, NDIRECT + m, s)  BY <2>3, <3>1, <4>2 DEF Spot
      <4> QED  BY <4>3, <4>4
    <3>2. CASE b \in IndexIn(c, S)
      <4>1. AddrIn(c, S, s) = AddrIn(c, i, s)  BY <2>3, <3>0, Bounds DEF AddrIn
      <4>2. s \in PlacesIn(c, S)  BY <1>2, <2>1, <2>3, <3>2, <4>1, PlaceIs
      <4> QED  BY <1>7, <4>2
    <3> QED  BY <1>3, <3>1, <3>2
  <2> QED  BY <2>2, <2>3, PlaceIs
<1>8. ASSUME NEW j \in 1..Len(T), NEW k \in 1..Len(T), T[j] # None, T[j] = T[k]
      PROVE  j = k
  <2> PICK s : Spot(i, j, s)  BY <1>4
  <2> PICK t : Spot(i, k, t)  BY <1>4
  <2>1. s \in PlacesIn(c, i) /\ t \in PlacesIn(c, i) /\ AddrIn(c, i, s) = AddrIn(c, i, t)
    BY <1>5, <1>8
  <2>2. s = t  BY <2>1 DEF Good
  <2> QED  BY <1>6, <2>2
<1>9. ASSUME NEW k \in 1..Len(T)  PROVE T[k] \notin BlocksIn(c, S)
  <2> SUFFICES ASSUME T[k] \in BlocksIn(c, S) PROVE FALSE  OBVIOUS
  <2> PICK t \in PlacesIn(c, S) : T[k] = AddrIn(c, S, t)  BY DEF BlocksIn
  <2> PICK s : Spot(i, k, s)  BY <1>4
  <2>1. T[k] # None  BY <1>2, PlaceIs
  <2>2. AddrIn(c, i, t) = AddrIn(c, i, s) /\ t \in PlacesIn(c, i) /\ s \in PlacesIn(c, i)
    BY <1>2, <1>5, <2>1
  <2>3. t = s  BY <2>2 DEF Good
  <2> QED  BY <1>5, <2>3
<1>10. BlocksIn(c, i) = BlocksIn(c, S) \cup ({T[k] : k \in 1..Len(T)} \ {None})
  <2>1. ASSUME NEW b \in BlocksIn(c, i)
        PROVE  b \in BlocksIn(c, S) \cup ({T[k] : k \in 1..Len(T)} \ {None})
    <3> PICK s \in PlacesIn(c, i) : b = AddrIn(c, i, s)  BY DEF BlocksIn
    <3>1. CASE s \in PlacesIn(c, S)  BY <1>2, <3>1 DEF BlocksIn
    <3>2. CASE s \notin PlacesIn(c, S)
      <4> PICK k \in 1..Len(T) : Spot(i, k, s)  BY <1>7, <3>2
      <4>1. b = T[k]  BY <1>5
      <4>2. b # None  BY PlaceIs
      <4> QED  BY <4>1, <4>2
    <3> QED  BY <3>1, <3>2
  <2>2. BlocksIn(c, S) \subseteq BlocksIn(c, i)  BY <1>2 DEF BlocksIn
  <2>3. ASSUME NEW k \in 1..Len(T), T[k] # None  PROVE T[k] \in BlocksIn(c, i)
    <3> PICK s : Spot(i, k, s)  BY <1>4
    <3>1. s \in PlacesIn(c, i) /\ AddrIn(c, i, s) = T[k]  BY <1>5, <2>3
    <3> QED  BY <3>1 DEF BlocksIn
  <2> QED  BY <2>1, <2>2, <2>3
<1> QED  BY <1>8, <1>9, <1>10 DEF T, S

\* What itrunc() leaves alone is the doubly indirect blocks.
LEMMA StumpBlocks ==
  ASSUME NEW c \in Content, NEW i \in Dinode, Good(c, i)
  PROVE  /\ DoublyIn(c, i) = BlocksIn(c, Stump(i))
         /\ i.addrs[NDIRECT + 1] = None => BlocksIn(c, Stump(i)) = {}
<1> DEFINE d == i.addrs[NDIRECT + 1]
           S == Stump(i)
<1>1. S \in Dinode /\ (\A k \in 0..NDIRECT : S.addrs[k] = None) /\ S.addrs[NDIRECT + 1] = d
      /\ S.addrs[NDIRECT] = None
  BY StumpIs, Bounds
<1>2. Good(c, S) /\ d \in Address  BY StumpIs, SubTree, Words
<1>3. IndexIn(c, S) \subseteq Block  BY <1>1, <1>2, GoodIndex
<1> HIDE DEF S
<1> PICK D : D = d  OBVIOUS
<1>4. \A b : b \in IndexIn(c, S) <=> /\ b # None
                                     /\ \/ b = D
                                        \/ /\ D # None
                                           /\ \E k \in 0..NINDIRECT - 1 : b = c[D][k]
  <2> TAKE b
  <2>1. b \in IndexIn(c, S) <=> /\ b # None
                                /\ \/ b = S.addrs[NDIRECT]
                                   \/ b = S.addrs[NDIRECT + 1]
                                   \/ /\ S.addrs[NDIRECT + 1] # None
                                      /\ \E k \in 0..NINDIRECT - 1 : b = c[S.addrs[NDIRECT + 1]][k]
    BY <1>1, IndexIs
  <2> QED  BY <1>1, <2>1
<1>5. \A e, b : b \in ToSet(HeldIn(c, e)) <=> e # None /\ \E k \in 0..NINDIRECT - 1 : b = c[e][k]
  <2> TAKE e, b
  <2>1. CASE e = None
    <3>1. HeldIn(c, e) = <<>>  BY <2>1 DEF HeldIn
    <3> QED  BY <2>1, <3>1 DEF ToSet
  <2>2. CASE e # None
    <3>1. HeldIn(c, e) = [j \in 1..NINDIRECT |-> c[e][j - 1]]  BY <2>2 DEF HeldIn
    <3>2. b \in ToSet(HeldIn(c, e)) <=> \E j \in 1..NINDIRECT : b = c[e][j - 1]
      BY <3>1 DEF ToSet
    <3>3. ASSUME NEW j \in 1..NINDIRECT, b = c[e][j - 1]
          PROVE  \E k \in 0..NINDIRECT - 1 : b = c[e][k]
      <4>1. j - 1 \in 0..NINDIRECT - 1  BY Bounds
      <4> QED  BY <3>3, <4>1
    <3>4. ASSUME NEW k \in 0..NINDIRECT - 1, b = c[e][k]
          PROVE  \E j \in 1..NINDIRECT : b = c[e][j - 1]
      <4>1. k + 1 \in 1..NINDIRECT /\ (k + 1) - 1 = k  BY Bounds
      <4> QED  BY <3>4, <4>1
    <3> QED  BY <2>2, <3>2, <3>3, <3>4
  <2> QED  BY <2>1, <2>2
<1>6. \A b : b \in DoublyIn(c, i) <=> /\ b # None
                                      /\ \/ b \in IndexIn(c, S)
                                         \/ \E e \in IndexIn(c, S), k \in 0..NINDIRECT - 1 : b = c[e][k]
  <2> DEFINE second == ToSet(HeldIn(c, D)) \ {None}
  <2>1. DoublyIn(c, i) = ({D} \cup second \cup UNION {ToSet(HeldIn(c, e)) : e \in second}) \ {None}
    BY DEF DoublyIn
  <2>2. \A e : e \in second <=> e # None /\ D # None /\ \E k \in 0..NINDIRECT - 1 : e = c[D][k]
    BY <1>5
  <2>3. \A e : e \in IndexIn(c, S) <=> e # None /\ (e = D \/ e \in second)
    BY <1>4, <2>2
  <2> HIDE DEF second
  <2> TAKE b
  <2>4. b \in DoublyIn(c, i) <=> b # None /\ (b = D \/ b \in second \/ \E e \in second : b \in ToSet(HeldIn(c, e)))
    BY <2>1
  <2>5. b \in ToSet(HeldIn(c, D)) /\ b # None => b \in second  BY DEF second
  <2>6. (\E e \in IndexIn(c, S), k \in 0..NINDIRECT - 1 : b = c[e][k])
          <=> \E e \in IndexIn(c, S) : b \in ToSet(HeldIn(c, e))
    <3>1. \A e \in IndexIn(c, S) : e # None  BY <2>3
    <3> QED  BY <1>5, <3>1
  <2>7. None \notin second  BY DEF second
  <2>8. ASSUME b \in DoublyIn(c, i)
        PROVE  b # None /\ (b \in IndexIn(c, S) \/ \E e \in IndexIn(c, S) : b \in ToSet(HeldIn(c, e)))
    BY <2>3, <2>4, <2>7, <2>8
  <2>9. ASSUME b # None, b \in IndexIn(c, S)  PROVE b \in DoublyIn(c, i)
    BY <2>3, <2>4, <2>9
  <2>10. ASSUME b # None, NEW e \in IndexIn(c, S), b \in ToSet(HeldIn(c, e))
         PROVE  b \in DoublyIn(c, i)
    BY <2>3, <2>4, <2>5, <2>10
  <2> QED  BY <2>6, <2>8, <2>9, <2>10
<1>7. \A b : b \in BlocksIn(c, S) <=> /\ b # None
                                      /\ \/ b = D
                                         \/ \E e \in IndexIn(c, S), k \in 0..NINDIRECT - 1 : b = c[e][k]
  <2> TAKE b
  <2>1. ASSUME b \in BlocksIn(c, S)
        PROVE  /\ b # None
               /\ \/ b = D
                  \/ \E e \in IndexIn(c, S), k \in 0..NINDIRECT - 1 : b = c[e][k]
    <3> PICK s \in PlacesIn(c, S) : b = AddrIn(c, S, s)  BY <2>1 DEF BlocksIn
    <3>1. b # None  BY <1>1, PlaceIs
    <3>2. ASSUME NEW k \in 0..NDIRECT + 1, s = <<Self, k>>  PROVE b = D
      <4>1. b = S.addrs[k]  BY <3>2 DEF AddrIn
      <4>2. k \in 0..NDIRECT \/ k = NDIRECT + 1  BY Bounds
      <4> QED  BY <1>1, <3>1, <4>1, <4>2
    <3>3. ASSUME NEW e \in IndexIn(c, S), NEW k \in 0..NINDIRECT - 1, s = <<e, k>>
          PROVE  b = c[e][k]
      BY <1>3, <3>3, Bounds DEF AddrIn
    <3> QED  BY <1>1, <3>1, <3>2, <3>3, PlaceIs
  <2>2. ASSUME b # None, b = D  PROVE b \in BlocksIn(c, S)
    <3>1. AddrIn(c, S, <<Self, NDIRECT + 1>>) = b  BY <1>1, <2>2 DEF AddrIn
    <3>2. NDIRECT + 1 \in 0..NDIRECT + 1  BY Bounds
    <3>3. <<Self, NDIRECT + 1>> \in PlacesIn(c, S)  BY <1>1, <2>2, <3>1, <3>2, PlaceIs
    <3> QED  BY <3>1, <3>3 DEF BlocksIn
  <2>3. ASSUME b # None, NEW e \in IndexIn(c, S), NEW k \in 0..NINDIRECT - 1, b = c[e][k]
        PROVE  b \in BlocksIn(c, S)
    <3>1. AddrIn(c, S, <<e, k>>) = b  BY <1>3, <2>3, Bounds DEF AddrIn
    <3>2. <<e, k>> \in PlacesIn(c, S)  BY <1>1, <2>3, <3>1, PlaceIs
    <3> QED  BY <3>1, <3>2 DEF BlocksIn
  <2> QED  BY <2>1, <2>2, <2>3
<1>8. \A b : b \in DoublyIn(c, i) <=> b \in BlocksIn(c, S)
  <2> TAKE b
  <2>1. b \in IndexIn(c, S) => b = D \/ \E e \in IndexIn(c, S), k \in 0..NINDIRECT - 1 : b = c[e][k]
    <3> SUFFICES ASSUME b \in IndexIn(c, S), b # D
                 PROVE  \E e \in IndexIn(c, S), k \in 0..NINDIRECT - 1 : b = c[e][k]
      OBVIOUS
    <3>1. D # None /\ \E k \in 0..NINDIRECT - 1 : b = c[D][k]  BY <1>4
    <3>2. D \in IndexIn(c, S)  BY <1>4, <3>1
    <3> QED  BY <3>1, <3>2
  <2>2. b = D /\ b # None => b \in IndexIn(c, S)  BY <1>4
  <2> QED  BY <1>6, <1>7, <2>1, <2>2
<1>9. DoublyIn(c, i) = BlocksIn(c, S)  BY <1>8 DEF DoublyIn
<1>10. D = None => BlocksIn(c, S) = {}  BY <1>4, <1>7
<1> QED  BY <1>9, <1>10 DEF S

\* The next position with an address, or the end.
LEMMA Skips ==
  ASSUME NEW S, NEW s \in Seq(S), NEW k \in Nat \ {0}, k <= Len(s) + 1
  PROVE  LET n == NextUsed(s, k)
             rest == {j \in k..Len(s) : s[j] # None}
         IN  /\ n \in Nat /\ n >= k
             /\ rest = {j \in n..Len(s) : s[j] # None}
             /\ n \in rest \/ n > Len(s)
<1> DEFINE rest == {j \in k..Len(s) : s[j] # None}
           E == rest \cup {Len(s) + 1}
<1>0. Len(s) \in Nat  OBVIOUS
<1>1. E \in SUBSET Nat /\ E # {}  BY <1>0
<1> HIDE DEF E
<1>2. Min(E) \in E /\ \A j \in E : Min(E) <= j  BY <1>1, MinIsIn
<1> PICK n : n = NextUsed(s, k)  OBVIOUS
<1>3. n = Min(E)  BY DEF NextUsed, E
<1>4. n \in Nat /\ n \in E /\ \A j \in E : n <= j  BY <1>1, <1>2, <1>3
<1>5. n \in rest \/ n = Len(s) + 1  BY <1>4 DEF E
<1>6. n >= k  BY <1>0, <1>4, <1>5
<1>7. \A j \in rest : n <= j  BY <1>4 DEF E
<1>8. rest = {j \in n..Len(s) : s[j] # None}  BY <1>0, <1>4, <1>6, <1>7
<1>9. n \in rest \/ n > Len(s)  BY <1>0, <1>5
<1> QED  BY <1>4, <1>6, <1>8, <1>9

-----------------------------------------------------------------------------
(* The state: who is where, and which tree is whose.                       *)

Call == [pc : {"user", "bmap", "assign", "grow", "zero", "free", "type"},
         file : File \cup {Nobody}, bn : Nat, end : Nat, got : Address, todo : Seq(Address)]

Types ==
    /\ kernel \in {"xv6", "ex4"}
    /\ marked \subseteq Block /\ lost \subseteq Block
    /\ content \in Content
    /\ dinode \in [File -> Dinode] /\ inode \in [File -> Dinode]
    /\ live \subseteq File
    /\ locked \in [File -> Proc \cup {Nobody}]
    /\ at \in [Proc -> Call]
    /\ calls \in Nat

\* The invariant, as long as balloc() has not gone past the end of the disk.
Whole == kernel \in Kernel /\ Types /\ Intact

LEMMA IdleCall == Idle \in Call /\ Idle.pc = "user" /\ Idle.file = Nobody
BY DEF Idle, Call, Address

LEMMA TreeIs ==
  ASSUME NEW f
  PROVE  /\ Tree(f) = BlocksIn(content, Root(f)) /\ Tree(f)' = BlocksIn(content', Root(f)')
         /\ Once(f) <=> Good(content, Root(f))
         /\ Once(f)' <=> Good(content', Root(f)')
<1>1. Tree(f) = BlocksIn(content, Root(f)) /\ (Once(f) <=> Good(content, Root(f)))
  <2> PICK r : r = Root(f)  OBVIOUS
  <2>1. Tree(f) = Blocks(r)  BY DEF Tree
  <2>2. Tree(f) = BlocksIn(content, r)  BY <2>1, Read
  <2>3. Once(f) <=> \A s, t \in Places(r) : /\ AddrAt(r, s) \in Block
                                            /\ AddrAt(r, s) = AddrAt(r, t) => s = t
    BY DEF Once
  <2>4. Once(f) <=> Good(content, r)  BY <2>3, Read DEF Good
  <2> QED  BY <2>2, <2>4
<1>2. Tree(f)' = BlocksIn(content', Root(f)') /\ (Once(f)' <=> Good(content', Root(f)'))
  <2> PICK r : r = Root(f)'  OBVIOUS
  <2>1. Tree(f)' = Blocks(r)'  BY DEF Tree, Blocks, Places, Index, AddrAt
  <2>2. Tree(f)' = BlocksIn(content', r)  BY <2>1, Read
  <2>3. Once(f)' <=> \A s, t \in Places(r)' : /\ AddrAt(r, s)' \in Block
                                              /\ AddrAt(r, s)' = AddrAt(r, t)' => s = t
    BY DEF Once, Places, Index, AddrAt
  <2>4. Once(f)' <=> Good(content', r)  BY <2>3, Read DEF Good
  <2> QED  BY <2>2, <2>4
<1> QED  BY <1>1, <1>2

LEMMA RootIs ==
  ASSUME NEW f
  PROVE  /\ Root(f) = IF f \in Going THEN Stump(inode[f]) ELSE inode[f]
         /\ Root(f)' = IF f \in Going' THEN Stump(inode'[f]) ELSE inode'[f]
BY DEF Root, Stump

\* The tree of a file, as the lemmas above know it.
LEMMA Owned ==
  ASSUME Whole, NEW f \in live
  PROVE  /\ f \in File /\ inode[f] \in Dinode /\ dinode[f] \in Dinode
         /\ Root(f) \in Dinode /\ Good(content, Root(f))
         /\ IndexIn(content, Root(f)) \subseteq Tree(f)
         /\ Tree(f) \subseteq marked /\ Tree(f) \subseteq Block
         /\ Good(content, dinode[f]) \/ f \in Going
         /\ f \notin Going => IndexIn(content, dinode[f]) \subseteq IndexIn(content, Root(f))
<1>1. Types  BY DEF Whole, Intact
<1>2. f \in File /\ inode[f] \in Dinode /\ dinode[f] \in Dinode  BY <1>1 DEF Types
<1>3. Root(f) \in Dinode  BY <1>2, RootIs, StumpIs
<1>4. Good(content, Root(f))  BY TreeIs DEF Whole, Intact, FileInv
<1>5. content \in Content  BY <1>1 DEF Types
<1>6. IndexIn(content, Root(f)) \subseteq Tree(f)
  <2> SUFFICES ASSUME NEW b \in IndexIn(content, Root(f))  PROVE b \in BlocksIn(content, Root(f))
    BY TreeIs
  <2> PICK s \in PlacesIn(content, Root(f)) : AddrIn(content, Root(f), s) = b
    BY <1>3, <1>4, <1>5, GoodIndex
  <2> QED  BY DEF BlocksIn
<1>7. Tree(f) \subseteq marked  BY DEF Whole, Intact, Owners
<1>8. marked \subseteq Block  BY <1>1 DEF Types
<1>9. ASSUME f \notin Going
      PROVE  Good(content, dinode[f]) /\ IndexIn(content, dinode[f]) \subseteq IndexIn(content, Root(f))
  <2>1. Root(f) = inode[f]  BY <1>9, RootIs
  <2>2. Below(dinode[f], inode[f])  BY DEF Whole, Intact, FileInv, Behind, Below
  <2> QED  BY <1>2, <1>4, <1>5, <2>1, <2>2, SubTree
<1> QED  BY <1>2, <1>3, <1>4, <1>6, <1>7, <1>8, <1>9

\* A process in a call is alone at its file.
LEMMA InCall ==
  ASSUME Whole, NEW p \in Proc, at[p].pc # "user"
  PROVE  /\ at[p].file \in live /\ at[p].file \in File /\ locked[at[p].file] = p
         /\ \A q \in Proc : q # p => at[q].file # at[p].file
         /\ at[p].file \in Going <=> at[p].pc \in {"zero", "free"}
<1>1. Types  BY DEF Whole, Intact
<1>2. at[p].file \in live /\ locked[at[p].file] = p  BY DEF Whole, Intact, Locking
<1>3. at[p].file \in File  BY <1>1, <1>2 DEF Types
<1>4. ASSUME NEW q \in Proc, q # p  PROVE at[q].file # at[p].file
  <2>1. CASE at[q].pc = "user"
    <3>1. at[q].file = Nobody  BY <2>1, IdleCall DEF Whole, Intact, Locking
    <3> QED  BY <1>3, <3>1, Bounds
  <2>2. CASE at[q].pc # "user"
    <3>1. locked[at[q].file] = q  BY <2>2 DEF Whole, Intact, Locking
    <3> QED  BY <1>2, <1>4, <3>1
  <2> QED  BY <2>1, <2>2
<1>5. at[p].file \in Going <=> at[p].pc \in {"zero", "free"}
  BY <1>3, <1>4 DEF Going, Busy
<1> QED  BY <1>2, <1>3, <1>4, <1>5

\* Nobody is at a file that is not locked, and its inode is on the disk.
LEMMA Unlocked ==
  ASSUME Whole, NEW f \in File, locked[f] = Nobody
  PROVE  /\ \A q \in Proc : at[q].file # f
         /\ f \notin Going
         /\ f \in live => inode[f] = dinode[f]
<1>1. ASSUME NEW q \in Proc  PROVE at[q].file # f
  <2>1. CASE at[q].pc = "user"
    <3>1. at[q].file = Nobody  BY <2>1, IdleCall DEF Whole, Intact, Locking
    <3> QED  BY <3>1, Bounds
  <2>2. CASE at[q].pc # "user"
    <3>1. locked[at[q].file] = q  BY <2>2 DEF Whole, Intact, Locking
    <3> QED  BY <3>1, Bounds
  <2> QED  BY <2>1, <2>2
<1>2. f \notin Going  BY <1>1 DEF Going, Busy
<1>3. f \in live => inode[f] = dinode[f]  BY <1>1 DEF Whole, Intact, FileInv, Behind
<1> QED  BY <1>1, <1>2, <1>3

LEMMA Largest ==
  ASSUME kernel \in {"xv6", "ex4"}
  PROVE  /\ MAXFILE \in Nat
         /\ \A bn \in Nat : bn < MAXFILE => Reach(bn) /\ (kernel = "xv6" => bn < NDIRECT + NINDIRECT)
<1>1. CASE kernel = "xv6"
  <2>1. MAXFILE = NDIRECT + NINDIRECT  BY <1>1 DEF MAXFILE
  <2> QED  BY <2>1, Bounds DEF Reach
<1>2. CASE kernel = "ex4"
  <2>1. MAXFILE = NINDIRECT * NINDIRECT  BY <1>2 DEF MAXFILE
  <2>2. MAXFILE \in Nat  BY <2>1, Bounds
  <2>3. \A bn \in Nat : bn < MAXFILE => Reach(bn)  BY <2>1 DEF Reach
  <2> QED  BY <1>2, <2>2, <2>3
<1> QED  BY <1>1, <1>2

-----------------------------------------------------------------------------
(* A step is one of a process p at a file f, and leaves all others alone.  *)

\* f is what it was: nothing it has in memory, on the disk or in a call has changed.
Keeps(f) ==
    /\ kernel' = kernel
    /\ inode'[f] = inode[f] /\ dinode'[f] = dinode[f]
    /\ f \in Going' <=> f \in Going
    /\ \A b \in IndexIn(content, Root(f)) : content'[b] = content[b]
    /\ \A q \in Proc : at[q].file = f /\ at[q].pc \in {"bmap", "assign", "grow"} =>
           at'[q].file = f /\ at'[q].pc \in {"bmap", "assign", "grow"} /\ at'[q].end = at[q].end

LEMMA FileKeeps ==
  ASSUME Whole, Types', NEW f \in live, Keeps(f)
  PROVE  Root(f)' = Root(f) /\ Tree(f)' = Tree(f) /\ FileInv(f)'
<1>0. Types /\ FileInv(f)  BY DEF Whole, Intact
<1>1. Root(f)' = Root(f)  BY RootIs DEF Keeps
<1>2. content \in Content /\ content' \in Content  BY <1>0 DEF Types
<1>3. Root(f) \in Dinode /\ Good(content, Root(f))  BY Owned
<1>4. \A b \in IndexIn(content, Root(f)) : content'[b] = content[b]  BY DEF Keeps
<1>5. BlocksIn(content', Root(f)) = BlocksIn(content, Root(f)) /\ Good(content', Root(f))
  BY <1>2, <1>3, <1>4, SameTree
<1>6. Tree(f)' = Tree(f)
  <2>1. Tree(f) = BlocksIn(content, Root(f))  BY TreeIs
  <2>2. Tree(f)' = BlocksIn(content', Root(f)')  BY TreeIs
  <2> QED  BY <1>1, <1>5, <2>1, <2>2
<1>7. Once(f)'
  <2>1. Once(f)' <=> Good(content', Root(f)')  BY TreeIs
  <2> QED  BY <1>1, <1>5, <2>1
<1>8. Behind(f)'
  <2>1. MAXFILE' = MAXFILE  BY DEF Keeps, MAXFILE
  <2>2. Behind(f)  BY <1>0 DEF FileInv
  <2>3. (\E p \in Proc : at[p].file = f /\ at[p].pc \in {"bmap", "assign", "grow"}
                         /\ at[p].end > inode[f].size) =>
        (\E p \in Proc : at'[p].file = f /\ at'[p].pc \in {"bmap", "assign", "grow"}
                         /\ at'[p].end > inode'[f].size)
    BY DEF Keeps
  <2> QED  BY <2>1, <2>2, <2>3 DEF Behind, Keeps
<1>9. Full(f)'
  <2> SUFFICES ASSUME f \notin Going', NEW bn \in 0..inode'[f].size - 1
               PROVE  Missing(dinode[f], bn)' = {}
    BY DEF Full, Keeps
  <2>1. f \notin Going /\ bn \in 0..inode[f].size - 1  BY DEF Keeps
  <2>2. Missing(dinode[f], bn) = {}  BY <1>0, <2>1 DEF FileInv, Full
  <2> PICK i \in Dinode : i = dinode[f]  BY Owned
  <2>3. Good(content, i) /\ \A b \in IndexIn(content, i) : content'[b] = content[b]
    BY <1>4, <2>1, Owned
  <2>4. Reach(bn)
    <3>1. inode[f] \in Dinode /\ inode[f].size <= MAXFILE  BY <1>0, Owned DEF FileInv, Behind
    <3>2. inode[f].size \in Nat  BY <3>1 DEF Dinode
    <3>3. MAXFILE \in Nat /\ \A m \in Nat : m < MAXFILE => Reach(m)  BY <1>0, Largest DEF Types
    <3> PICK n \in Nat : n = inode[f].size  BY <3>2
    <3> PICK m \in Nat : m = MAXFILE  BY <3>3
    <3>4. bn \in Nat /\ bn < m  BY <2>1, <3>1
    <3> QED  BY <3>3, <3>4
  <2>5. MissingIn(content, i, bn) = {}  BY <2>2, Read
  <2>6. MissingIn(content', i, bn) = {}  BY <1>2, <2>3, <2>4, <2>5, SameWay
  <2>7. Missing(i, bn)' = MissingIn(content', i, bn)  BY Read
  <2>8. dinode'[f] = i  BY DEF Keeps
  <2> QED  BY <2>6, <2>7, <2>8
<1> QED  BY <1>1, <1>6, <1>7, <1>8, <1>9 DEF FileInv

LEMMA Writer ==
  ASSUME Whole, NEW p \in Proc, at[p].pc \in {"bmap", "assign", "grow"}
  PROVE  LET f == at[p].file
         IN  /\ f \in live /\ f \notin Going /\ Root(f) = inode[f]
             /\ Good(content, inode[f]) /\ inode[f] \in Dinode /\ content \in Content
             /\ \A bn \in 0..at[p].bn - 1 : Reach(bn) /\ MissingIn(content, inode[f], bn) = {}
             /\ at[p].pc # "grow" => Reach(at[p].bn)
             /\ at[p].pc # "grow" /\ kernel = "xv6" => at[p].bn < NDIRECT + NINDIRECT
<1> PICK f : f = at[p].file  OBVIOUS
<1>0. Types /\ Writing(p)  BY DEF Whole, Intact, CallInv
<1>1. f \in live /\ f \notin Going  BY InCall
<1>2. Root(f) = inode[f]  BY <1>1, RootIs
<1>3. Good(content, inode[f]) /\ inode[f] \in Dinode /\ content \in Content
  BY <1>0, <1>1, <1>2, Owned DEF Types
<1> PICK i : i = inode[f]  OBVIOUS
<1>4. at[p].end <= MAXFILE /\ (IF at[p].pc = "grow" THEN at[p].bn = at[p].end ELSE at[p].bn < at[p].end)
      /\ \A bn \in 0..at[p].bn - 1 : Missing(i, bn) = {}
  BY <1>0 DEF Writing
<1>5. at[p] \in Call  BY <1>0 DEF Types
<1>6. at[p].bn \in Nat /\ at[p].end \in Nat  BY <1>5 DEF Call
<1> PICK m \in Nat : m = MAXFILE  BY <1>0, Largest DEF Types
<1>7. \A n \in Nat : n < m => Reach(n) /\ (kernel = "xv6" => n < NDIRECT + NINDIRECT)
  BY <1>0, Largest DEF Types
<1>8. \A bn \in 0..at[p].bn - 1 : bn \in Nat /\ bn < m  BY <1>4, <1>6
<1>9. \A bn \in 0..at[p].bn - 1 : MissingIn(content, i, bn) = {}  BY <1>4, Read
<1>10. at[p].pc # "grow" => at[p].bn < m  BY <1>4, <1>6
<1> QED  BY <1>1, <1>2, <1>3, <1>6, <1>7, <1>8, <1>9, <1>10

\* What a process q has in hand and in mind, when nothing of that changes.
LEMMA CallKeeps ==
  ASSUME Whole, Types', NEW q \in Proc, at'[q] = at[q], kernel' = kernel,
         at[q].pc # "user" => inode'[at[q].file] = inode[at[q].file]
                              /\ \A b \in Tree(at[q].file) : content'[b] = content[b],
         \A b \in Hand(q) : content'[b] = content[b]
  PROVE  Hand(q)' = Hand(q) /\ CallInv(q)'
<1>0. Types /\ CallInv(q)  BY DEF Whole, Intact
<1>1. Hand(q)' = Hand(q) /\ ToCome(q)' = ToCome(q)  BY DEF Hand, ToCome
<1>2. MAXFILE' = MAXFILE  BY DEF MAXFILE
<1>3. ASSUME at[q].pc \in {"bmap", "assign", "grow"}
      PROVE  \A bn : Reach(bn) => (Missing(inode[at[q].file], bn)' = {} <=>
                                   Missing(inode[at[q].file], bn) = {})
  <2> TAKE bn
  <2> SUFFICES ASSUME Reach(bn)
               PROVE  Missing(inode[at[q].file], bn)' = {} <=> Missing(inode[at[q].file], bn) = {}
    OBVIOUS
  <2> PICK f : f = at[q].file  OBVIOUS
  <2> PICK i : i = inode[f]  OBVIOUS
  <2>1. f \in live /\ Root(f) = i /\ Good(content, i) /\ i \in Dinode /\ content \in Content
    BY <1>3, Writer
  <2>2. IndexIn(content, i) \subseteq Tree(f)  BY <2>1, Owned
  <2>3. inode'[f] = i /\ at'[q].file = f  BY <1>3
  <2>4. content' \in Content /\ \A b \in IndexIn(content, i) : content'[b] = content[b]
    BY <1>3, <2>2 DEF Types
  <2>5. MissingIn(content', i, bn) = {} <=> MissingIn(content, i, bn) = {}
    BY <2>1, <2>4, SameWay
  <2>6. Missing(i, bn) = MissingIn(content, i, bn) /\ Missing(i, bn)' = MissingIn(content', i, bn)
    BY Read
  <2>7. Missing(inode[at[q].file], bn)' = Missing(i, bn)'  BY <2>3
  <2> QED  BY <2>5, <2>6, <2>7
<1>4. Writing(q)'
  <2> SUFFICES ASSUME at[q].pc \in {"bmap", "assign", "grow"}
               PROVE  /\ at[q].end <= MAXFILE
                      /\ IF at[q].pc = "grow" THEN at[q].bn = at[q].end ELSE at[q].bn < at[q].end
                      /\ \A bn \in 0..at[q].bn - 1 : Missing(inode[at[q].file], bn)' = {}
    BY <1>2 DEF Writing
  <2>1. Writing(q)  BY <1>0 DEF CallInv
  <2>2. \A bn \in 0..at[q].bn - 1 : Reach(bn)  BY Writer
  <2>3. \A bn \in 0..at[q].bn - 1 : Missing(inode[at[q].file], bn) = {}  BY <2>1 DEF Writing
  <2>4. \A bn \in 0..at[q].bn - 1 : Missing(inode[at[q].file], bn)' = {}  BY <1>3, <2>2, <2>3
  <2> QED  BY <2>1, <2>4 DEF Writing
<1>5. Fresh(q)'
  <2> SUFFICES ASSUME at[q].pc = "assign"
               PROVE  /\ at[q].got # None /\ content'[at[q].got] = Zero
                      /\ Missing(inode[at[q].file], at[q].bn)' # {}
    BY DEF Fresh
  <2>1. at[q].got # None /\ content[at[q].got] = Zero /\ Missing(inode[at[q].file], at[q].bn) # {}
    BY <1>0 DEF CallInv, Fresh
  <2>2. at[q].got \in Hand(q)  BY DEF Hand
  <2>3. Reach(at[q].bn)  BY Writer
  <2> QED  BY <1>3, <2>1, <2>2, <2>3
<1>6. Truncating(q)'
  <2>1. Truncating(q)  BY <1>0 DEF CallInv
  <2>2. ToGo(q)' = ToGo(q)  BY DEF ToGo
  <2>3. at[q].pc = "free" => ToGo(q) \in Hand(q)  BY <2>1 DEF Truncating, Hand, ToGo
  <2>4. at[q].pc = "free" /\ kernel = "xv6" => content'[ToGo(q)] = Zero  BY <2>1, <2>3 DEF Truncating
  <2> QED  BY <1>1, <2>1, <2>2, <2>4 DEF Truncating
<1> QED  BY <1>1, <1>4, <1>5, <1>6 DEF CallInv

Acts(p, f) ==
    /\ kernel' = kernel
    /\ \A q \in Proc : q # p => at'[q] = at[q] /\ at[q].file # f
    /\ \A g \in File : g # f => inode'[g] = inode[g] /\ dinode'[g] = dinode[g] /\ (g \in live' <=> g \in live)
    /\ p \in Proc => at[p].file \in {f, Nobody} /\ at'[p].file \in {f, Nobody}
    /\ \A b \in Block : content'[b] # content[b] =>
           /\ \A g \in live : g # f => b \notin Tree(g)
           /\ \A q \in Proc : q # p => b \notin Hand(q)

LEMMA MarkedIs ==
  ASSUME Owners
  PROVE  \A b : b \in marked <=> \/ b \in lost \/ \E g \in live : b \in Tree(g)
                                 \/ \E q \in Proc : b \in Hand(q)
<1> TAKE b
<1> DEFINE T == UNION {Tree(f) : f \in live}
           H == UNION {Hand(p) : p \in Proc}
<1>1. marked = lost \cup T \cup H
  <2>1. marked = lost \cup (UNION {Tree(f) : f \in live}) \cup UNION {Hand(p) : p \in Proc}
    BY DEF Owners
  <2> QED  BY <2>1, Zenon
<1>2. b \in T <=> \E g \in live : b \in Tree(g)  OBVIOUS
<1>3. b \in H <=> \E q \in Proc : b \in Hand(q)  OBVIOUS
<1> HIDE DEF T, H
<1> QED  BY <1>1, <1>2, <1>3

LEMMA HandIs ==
  ASSUME Whole, NEW p \in Proc
  PROVE  Hand(p) \subseteq Block /\ Hand(p) \subseteq marked
<1>1. Hand(p) \subseteq marked  BY MarkedIs DEF Whole, Intact
<1>2. marked \subseteq Block  BY DEF Whole, Intact, Types
<1> QED  BY <1>1, <1>2

LEMMA Others ==
  ASSUME Whole, Types', NEW p, NEW f, Acts(p, f)
  PROVE  /\ \A g \in live : g # f => g \in live' /\ Tree(g)' = Tree(g) /\ FileInv(g)'
         /\ \A g \in live' : g # f => g \in live
         /\ \A q \in Proc : q # p => Hand(q)' = Hand(q) /\ CallInv(q)'
<1>0. Types  BY DEF Whole, Intact
<1>1. ASSUME NEW g \in live, g # f  PROVE g \in live' /\ Tree(g)' = Tree(g) /\ FileInv(g)'
  <2>1. g \in File /\ g # Nobody  BY <1>0, Bounds DEF Types
  <2>2. IndexIn(content, Root(g)) \subseteq Tree(g) /\ Tree(g) \subseteq Block  BY Owned
  <2>3. \A b \in IndexIn(content, Root(g)) : content'[b] = content[b]  BY <1>1, <2>2 DEF Acts
  <2>4. \A q \in Proc : at[q].file = g => q # p  BY <1>1, <2>1 DEF Acts
  <2>5. \A q \in Proc : at'[q].file = g => q # p  BY <1>1, <2>1 DEF Acts
  <2>6. g \in Going' <=> g \in Going  BY <2>4, <2>5 DEF Going, Busy, Acts
  <2>7. Keeps(g)  BY <1>1, <2>1, <2>3, <2>4, <2>6 DEF Keeps, Acts
  <2> QED  BY <1>1, <2>1, <2>7, FileKeeps DEF Acts
<1>2. \A g \in live' : g # f => g \in live  BY <1>0 DEF Acts, Types
<1>3. ASSUME NEW q \in Proc, q # p  PROVE Hand(q)' = Hand(q) /\ CallInv(q)'
  <2>1. at'[q] = at[q] /\ at[q].file # f /\ kernel' = kernel  BY <1>3 DEF Acts
  <2>2. ASSUME at[q].pc # "user"
        PROVE  /\ inode'[at[q].file] = inode[at[q].file]
               /\ \A b \in Tree(at[q].file) : content'[b] = content[b]
    <3>1. at[q].file \in live /\ at[q].file \in File  BY <2>2, InCall
    <3>2. Tree(at[q].file) \subseteq Block  BY <3>1, Owned
    <3> QED  BY <2>1, <3>1, <3>2 DEF Acts
  <2>3. \A b \in Hand(q) : content'[b] = content[b]  BY <1>3, HandIs DEF Acts
  <2> QED  BY <2>1, <2>2, <2>3, CallKeeps
<1> QED  BY <1>1, <1>2, <1>3

\* What balloc() may take is not marked; in "xv6" it is all that is not marked.
LEMMA FreeIs ==
  /\ Free \subseteq Block \ marked
  /\ kernel = "xv6" => Free = Block \ marked
<1>1. Disk \subseteq Block  BY Bounds DEF Disk, Block
<1> QED  BY <1>1 DEF Free

\* The step moves blocks among f, p, the free ones and the lost ones.
Own(f) == IF f \in live THEN Tree(f) ELSE {}
Holds(p) == IF p \in Proc THEN Hand(p) ELSE {}

Moves(p, f) ==
    /\ lost \subseteq lost'
    /\ Own(f)' \cup Holds(p)' \cup (lost' \ lost) \subseteq Own(f) \cup Holds(p) \cup Free
    /\ Own(f)' \cap Holds(p)' = {}
    /\ (Own(f)' \cup Holds(p)') \cap (lost' \ lost) = {}
    /\ marked' = (marked \ (Own(f) \cup Holds(p))) \cup Own(f)' \cup Holds(p)' \cup lost'

LEMMA OwnersKept ==
  ASSUME Whole, Types', NEW p, NEW f, Acts(p, f), Moves(p, f)
  PROVE  Owners'
<1> DEFINE A == Own(f)
           H == Holds(p)
           A1 == Own(f)'
           H1 == Holds(p)'
<1>0. Types /\ Owners  BY DEF Whole, Intact
<1>1. \A g \in live' : g # f => g \in live /\ Tree(g)' = Tree(g)
  BY Others
<1>2. \A q \in Proc : q # p => Hand(q)' = Hand(q)  BY Others
<1>3. \A g \in live : g # f => g \in live' /\ Tree(g)' = Tree(g)  BY Others
<1>4. f \in live' => Tree(f)' = A1  BY DEF Own
<1>5. p \in Proc => Hand(p)' = H1  BY DEF Holds
<1>6. \A g \in live : g # f => Tree(g) \cap A = {} /\ Tree(g) \cap H = {} /\ Tree(g) \cap Free = {}
                               /\ Tree(g) \cap lost = {}
  BY <1>0 DEF Owners, Own, Holds, Free
<1>7. \A q \in Proc : q # p => Hand(q) \cap A = {} /\ Hand(q) \cap H = {} /\ Hand(q) \cap Free = {}
                               /\ Hand(q) \cap lost = {}
  <2> TAKE q \in Proc
  <2> HAVE q # p
  <2>1. Hand(q) \cap Free = {}  BY <1>0, MarkedIs DEF Free
  <2> QED  BY <1>0, <2>1 DEF Owners, Own, Holds
<1>8. lost \cap A = {} /\ lost \cap H = {} /\ lost \cap Free = {}
  BY <1>0 DEF Owners, Own, Holds, Free
<1>9. /\ lost \subseteq lost'
      /\ A1 \cup H1 \cup (lost' \ lost) \subseteq A \cup H \cup Free
      /\ A1 \cap H1 = {}
      /\ (A1 \cup H1) \cap (lost' \ lost) = {}
      /\ marked' = (marked \ (A \cup H)) \cup A1 \cup H1 \cup lost'
  BY DEF Moves
<1> HIDE DEF A, H, A1, H1
<1>10. \A g \in live : g # f => Tree(g) \cap A1 = {} /\ Tree(g) \cap H1 = {} /\ Tree(g) \cap lost' = {}
  BY <1>6, <1>9
<1>11. \A q \in Proc : q # p => Hand(q) \cap A1 = {} /\ Hand(q) \cap H1 = {} /\ Hand(q) \cap lost' = {}
  BY <1>7, <1>9
<1>12. A1 \cap lost' = {} /\ H1 \cap lost' = {}  BY <1>8, <1>9
<1>13. \A g, h \in live' : g # h => Tree(g)' \cap Tree(h)' = {}
  <2> TAKE g, h \in live'
  <2> HAVE g # h
  <2>1. CASE g # f /\ h # f  BY <1>0, <1>1, <2>1 DEF Owners
  <2>2. CASE g = f /\ h # f  BY <1>1, <1>4, <1>10, <2>2
  <2>3. CASE g # f /\ h = f  BY <1>1, <1>4, <1>10, <2>3
  <2> QED  BY <2>1, <2>2, <2>3
<1>14. \A q, r \in Proc : q # r => Hand(q)' \cap Hand(r)' = {}
  <2> TAKE q, r \in Proc
  <2> HAVE q # r
  <2>1. CASE q # p /\ r # p  BY <1>0, <1>2, <2>1 DEF Owners
  <2>2. CASE q = p /\ r # p  BY <1>2, <1>5, <1>11, <2>2
  <2>3. CASE q # p /\ r = p  BY <1>2, <1>5, <1>11, <2>3
  <2> QED  BY <2>1, <2>2, <2>3
<1>15. \A g \in live', q \in Proc : Tree(g)' \cap Hand(q)' = {}
  <2> TAKE g \in live', q \in Proc
  <2>1. CASE g # f /\ q # p  BY <1>0, <1>1, <1>2, <2>1 DEF Owners
  <2>2. CASE g = f /\ q # p  BY <1>2, <1>4, <1>11, <2>2
  <2>3. CASE g # f /\ q = p  BY <1>1, <1>5, <1>10, <2>3
  <2>4. CASE g = f /\ q = p  BY <1>4, <1>5, <1>9, <2>4
  <2> QED  BY <2>1, <2>2, <2>3, <2>4
<1>16. \A g \in live' : Tree(g)' \cap lost' = {}  BY <1>1, <1>4, <1>10, <1>12
<1>17. \A q \in Proc : Hand(q)' \cap lost' = {}  BY <1>2, <1>5, <1>11, <1>12
<1>18. \A b : b \in marked <=> \/ b \in lost \/ \E g \in live : b \in Tree(g)
                               \/ \E q \in Proc : b \in Hand(q)
  BY <1>0, MarkedIs
<1>19. \A b : b \in A1 <=> f \in live' /\ b \in Tree(f)'  BY DEF A1, Own
<1>20. \A b : b \in H1 <=> p \in Proc /\ b \in Hand(p)'  BY DEF H1, Holds
<1>21. \A b : b \in marked' <=> \/ b \in lost' \/ \E g \in live' : b \in Tree(g)'
                                \/ \E q \in Proc : b \in Hand(q)'
  <2> TAKE b
  <2>1. ASSUME b \in marked', b \notin lost', b \notin A1, b \notin H1
        PROVE  \/ \E g \in live' : b \in Tree(g)'
               \/ \E q \in Proc : b \in Hand(q)'
    <3>1. b \in marked /\ b \notin A /\ b \notin H /\ b \notin lost  BY <1>9, <2>1
    <3>2. CASE \E g \in live : b \in Tree(g)
      <4> PICK g \in live : b \in Tree(g)  BY <3>2
      <4>1. g # f  BY <3>1 DEF A, Own
      <4> QED  BY <1>3, <4>1
    <3>3. CASE \E q \in Proc : b \in Hand(q)
      <4> PICK q \in Proc : b \in Hand(q)  BY <3>3
      <4>1. q # p  BY <3>1 DEF H, Holds
      <4> QED  BY <1>2, <4>1
    <3> QED  BY <1>18, <3>1, <3>2, <3>3
  <2>2. ASSUME b \in lost' \/ b \in A1 \/ b \in H1  PROVE b \in marked'  BY <1>9, <2>2
  <2>3. ASSUME NEW g \in live', b \in Tree(g)', g # f  PROVE b \in marked'
    <3>1. b \in Tree(g) /\ g \in live  BY <1>1, <2>3
    <3>2. b \in marked /\ b \notin A /\ b \notin H  BY <1>6, <1>18, <2>3, <3>1
    <3> QED  BY <1>9, <3>2
  <2>4. ASSUME NEW q \in Proc, b \in Hand(q)', q # p  PROVE b \in marked'
    <3>1. b \in Hand(q)  BY <1>2, <2>4
    <3>2. b \in marked /\ b \notin A /\ b \notin H  BY <1>7, <1>18, <2>4, <3>1
    <3> QED  BY <1>9, <3>2
  <2> QED  BY <1>19, <1>20, <2>1, <2>2, <2>3, <2>4
<1>22. marked' = lost' \cup (UNION {Tree(g)' : g \in live'}) \cup UNION {Hand(q)' : q \in Proc}
  <2> DEFINE T == UNION {Tree(g)' : g \in live'}
             U == UNION {Hand(q)' : q \in Proc}
  <2>1. \A b : b \in T <=> \E g \in live' : b \in Tree(g)'  OBVIOUS
  <2>2. \A b : b \in U <=> \E q \in Proc : b \in Hand(q)'  OBVIOUS
  <2> HIDE DEF T, U
  <2>3. marked' = lost' \cup T \cup U  BY <1>21, <2>1, <2>2
  <2> QED  BY <2>3, Zenon DEF T, U
<1> QED  BY <1>13, <1>14, <1>15, <1>16, <1>17, <1>22 DEF Owners

\* What is left to show of a step, then, is about its process and its file.
LEMMA Together ==
  ASSUME Whole, Types', NEW p, NEW f, Acts(p, f), Moves(p, f), Locking', FreeZero',
         f \in live' => FileInv(f)', p \in Proc => CallInv(p)'
  PROVE  Whole'
<1>1. kernel' \in Kernel  BY DEF Acts, Whole
<1>2. lost' \subseteq Block  BY DEF Types
<1>3. Owners'  BY OwnersKept
<1>4. \A g \in live' : FileInv(g)'  BY Others
<1>5. \A q \in Proc : CallInv(q)'  BY Others
<1> QED  BY <1>1, <1>2, <1>3, <1>4, <1>5 DEF Whole, Intact

-----------------------------------------------------------------------------
(* Every operation keeps the invariant.                                    *)

Becomes(p, r) == at' \in [Proc -> Call] /\ at'[p] = r /\ \A q \in Proc : q # p => at'[q] = at[q]

LEMMA Becoming ==
  ASSUME at \in [Proc -> Call], NEW p \in Proc, NEW r \in Call, at' = [at EXCEPT ![p] = r]
  PROVE  Becomes(p, r)
BY DEF Becomes

LEMMA Owner ==
  ASSUME Whole, NEW b
  PROVE  /\ \A f \in live, g \in live : b \in Tree(f) /\ f # g => b \notin Tree(g)
         /\ \A p \in Proc, q \in Proc : b \in Hand(p) /\ p # q => b \notin Hand(q)
         /\ \A f \in live, p \in Proc : ~(b \in Tree(f) /\ b \in Hand(p))
         /\ b \in lost => (\A f \in live : b \notin Tree(f)) /\ (\A p \in Proc : b \notin Hand(p))
         /\ b \in Free => (\A f \in live : b \notin Tree(f)) /\ (\A p \in Proc : b \notin Hand(p))
<1>1. Owners  BY DEF Whole, Intact
<1>2. b \in Free => (\A f \in live : b \notin Tree(f)) /\ (\A p \in Proc : b \notin Hand(p))
  BY <1>1, MarkedIs DEF Free
<1> QED  BY <1>1, <1>2 DEF Owners

\* The lock is kept to the end of a call.
LEMMA LockedInside ==
  ASSUME Whole, NEW p \in Proc, at[p].pc # "user", UNCHANGED <<live, locked>>,
         NEW r \in Call, Becomes(p, r), r.file = at[p].file, r.pc # "user"
  PROVE  Locking'
<1>0. Types  BY DEF Whole, Intact
<1>1. at[p].file \in live /\ at[p].file \in File /\ locked[at[p].file] = p  BY InCall
<1>2. at' \in [Proc -> Call] /\ at'[p] = r /\ \A q \in Proc : q # p => at'[q] = at[q]
  BY DEF Becomes
<1>3. Locking  BY DEF Whole, Intact
<1>4. ASSUME NEW q \in Proc
      PROVE  IF at'[q].pc = "user" THEN at'[q] = Idle ELSE at'[q].file \in live /\ locked[at'[q].file] = q
  <2>1. CASE q = p  BY <1>1, <1>2, <2>1
  <2>2. CASE q # p  BY <1>2, <1>3, <2>2 DEF Locking
  <2> QED  BY <2>1, <2>2
<1>5. ASSUME NEW g \in File, locked[g] # Nobody
      PROVE  at'[locked[g]].pc # "user" /\ at'[locked[g]].file = g
  <2>0. locked[g] \in Proc /\ at[locked[g]].pc # "user" /\ at[locked[g]].file = g
    BY <1>0, <1>3, <1>5 DEF Locking, Types
  <2>1. CASE locked[g] = p  BY <1>2, <2>0, <2>1
  <2>2. CASE locked[g] # p  BY <1>2, <2>0, <2>2
  <2> QED  BY <2>1, <2>2
<1> QED  BY <1>4, <1>5 DEF Locking

\* A step within a call that leaves the addresses of its file alone.
LEMMA Inside ==
  ASSUME Whole, NEW p \in Proc, at[p].pc # "user", NEW f, f = at[p].file,
         UNCHANGED <<kernel, inode, dinode, live, locked, lost, calls>>,
         NEW r \in Call, Becomes(p, r), r.file = f, r.end = at[p].end, r.pc \notin {"user", "type"},
         r.pc \in {"zero", "free"} <=> at[p].pc \in {"zero", "free"},
         content' \in Content, marked' \subseteq Block,
         \A b \in Block : content'[b] # content[b] =>
             \/ b \in Hand(p) \/ b \in Free
             \/ b \in Tree(f) /\ b \notin IndexIn(content, Root(f))
  PROVE  Types' /\ Locking' /\ Acts(p, f) /\ FileInv(f)' /\ Tree(f)' = Tree(f)
<1>0. Types  BY DEF Whole, Intact
<1>1. f \in live /\ f \in File /\ locked[f] = p /\ (\A q \in Proc : q # p => at[q].file # f)
      /\ (f \in Going <=> at[p].pc \in {"zero", "free"})
  BY InCall
<1>2. at' \in [Proc -> Call] /\ at'[p] = r /\ \A q \in Proc : q # p => at'[q] = at[q]
  BY DEF Becomes
<1>3. Types'  BY <1>0, <1>2 DEF Types
<1>4. Locking'  BY <1>0, LockedInside
<1>5. \A b \in Block : content'[b] # content[b] =>
           /\ \A g \in live : g # f => b \notin Tree(g)
           /\ \A q \in Proc : q # p => b \notin Hand(q)
           /\ b \notin IndexIn(content, Root(f))
  <2> TAKE b \in Block
  <2> HAVE content'[b] # content[b]
  <2>1. IndexIn(content, Root(f)) \subseteq Tree(f)  BY <1>1, Owned
  <2> QED  BY <1>1, <2>1, Owner
<1>6. Acts(p, f)  BY <1>1, <1>2, <1>5 DEF Acts
<1>7. Keeps(f)
  <2>1. f \in Going' <=> f \in Going
    <3>1. \A q \in Proc : q # p => at'[q].file # f  BY <1>1, <1>2
    <3> QED  BY <1>1, <1>2, <3>1 DEF Going, Busy
  <2>2. \A b \in IndexIn(content, Root(f)) : content'[b] = content[b]
    <3>1. IndexIn(content, Root(f)) \subseteq Block  BY <1>1, Owned
    <3> QED  BY <1>5, <3>1
  <2>3. at[p] \in Call  BY <1>0 DEF Types
  <2>4. at[p].pc \in {"bmap", "assign", "grow"} => r.pc \in {"bmap", "assign", "grow"}
    BY <2>3 DEF Call
  <2>5. \A q \in Proc : at[q].file = f /\ at[q].pc \in {"bmap", "assign", "grow"} =>
           at'[q].file = f /\ at'[q].pc \in {"bmap", "assign", "grow"} /\ at'[q].end = at[q].end
    BY <1>1, <1>2, <2>4
  <2> QED  BY <2>1, <2>2, <2>5 DEF Keeps
<1> QED  BY <1>1, <1>3, <1>4, <1>6, <1>7, FileKeeps

\* A process outside itrunc() has nothing to free, and a list all the same.
LEMMA NotTruncating ==
  ASSUME NEW p \in Proc, NEW r \in Call, at'[p] = r, r.pc \notin {"zero", "free", "type"}
  PROVE  Truncating(p)'
<1>1. r.todo \in Seq(Address)  BY DEF Call
<1> QED  BY <1>1 DEF Truncating

LEMMA ZeroIs == Zero \in [0..NINDIRECT - 1 -> Address \cup {-1}] /\ Written \in [0..NINDIRECT - 1 -> Address \cup {-1}]
BY DEF Zero, Written, Address

LEMMA Filled ==
  ASSUME content \in Content, NEW b \in Block, NEW w \in [0..NINDIRECT - 1 -> Address \cup {-1}],
         content' = [content EXCEPT ![b] = w]
  PROVE  /\ content' \in Content /\ content'[b] = w
         /\ \A a \in Block : content'[a] # content[a] => a = b
BY DEF Content

LEMMA StepZeroes ==
  ASSUME Whole, NEW p \in Proc, Zeroes(p)
  PROVE  Whole'
<1> PICK f : f = at[p].file  OBVIOUS
<1> PICK b : b = ToGo(p)  OBVIOUS
<1> PICK r : r = [at[p] EXCEPT !.pc = "free"]  OBVIOUS
<1>0. Types /\ CallInv(p) /\ FreeZero  BY DEF Whole, Intact
<1>1. at[p] \in Call /\ at[p].pc = "zero" /\ at[p].bn <= Len(at[p].todo)
      /\ at' = [at EXCEPT ![p].pc = "free"]
      /\ UNCHANGED <<kernel, inode, dinode, live, locked, lost, calls, marked>>
      /\ content' = IF kernel = "xv6" THEN [content EXCEPT ![b] = Zero] ELSE content
  BY <1>0 DEF Zeroes, At, Goes, Types
<1>2. r \in Call /\ r.pc = "free" /\ r.file = f /\ r.end = at[p].end /\ r.bn = at[p].bn /\ r.todo = at[p].todo
  BY <1>1 DEF Call
<1>3. Becomes(p, r)
  <2>1. at' = [at EXCEPT ![p] = r]  BY <1>0, <1>1 DEF Types
  <2> QED  BY <1>0, <1>2, <2>1, Becoming DEF Types
<1>4. at[p].bn \in ToCome(p)
  <2>1. at[p].bn \in Nat /\ Len(at[p].todo) \in Nat  BY <1>1 DEF Call
  <2> QED  BY <1>0, <1>1, <2>1 DEF CallInv, Truncating
<1>5. b \in Hand(p) /\ b \in Block /\ b \in marked
  <2>1. b \in Hand(p)  BY <1>1, <1>4 DEF Hand, ToGo
  <2> QED  BY <2>1, HandIs
<1>6. content' \in Content /\ (\A a \in Block : content'[a] # content[a] => a = b)
      /\ (kernel = "xv6" => content'[b] = Zero)
  BY <1>0, <1>1, <1>5, ZeroIs, Filled DEF Types
<1>7. Types' /\ Locking' /\ Acts(p, f) /\ FileInv(f)' /\ Tree(f)' = Tree(f)
  <2>1. at[p].pc # "user" /\ r.pc \notin {"user", "type"}
        /\ (r.pc \in {"zero", "free"} <=> at[p].pc \in {"zero", "free"})
    BY <1>1, <1>2
  <2>2. marked' \subseteq Block  BY <1>0, <1>1 DEF Types
  <2>3. \A a \in Block : content'[a] # content[a] =>
             \/ a \in Hand(p) \/ a \in Free
             \/ a \in Tree(f) /\ a \notin IndexIn(content, Root(f))
    BY <1>5, <1>6
  <2> QED  BY <1>1, <1>2, <1>3, <1>6, <2>1, <2>2, <2>3, Inside
<1>8. ToCome(p)' = ToCome(p) /\ Hand(p)' = Hand(p)
  BY <1>1, <1>2, <1>3 DEF ToCome, Hand, Becomes
<1>9. Moves(p, f)
  <2>1. Own(f)' = Own(f) /\ Holds(p)' = Holds(p)  BY <1>1, <1>7, <1>8 DEF Own, Holds
  <2>2. f \in live  BY <1>1, InCall
  <2>3. Own(f) \cap Holds(p) = {}  BY <2>2, Owner DEF Own, Holds
  <2>4. lost \subseteq marked /\ Own(f) \subseteq marked /\ Holds(p) \subseteq marked
    BY <2>2, MarkedIs DEF Whole, Intact, Own, Holds
  <2> QED  BY <1>1, <2>1, <2>3, <2>4 DEF Moves
<1>10. FreeZero'  BY <1>0, <1>1, <1>5, <1>6 DEF FreeZero, Free
<1>11. CallInv(p)'
  <2>1. at'[p] = r  BY <1>3 DEF Becomes
  <2>2. ToGo(p)' = b  BY <1>2, <2>1 DEF ToGo
  <2>3. Writing(p)' /\ Fresh(p)'  BY <1>2, <2>1 DEF Writing, Fresh
  <2>4. Truncating(p)'  BY <1>0, <1>1, <1>2, <1>4, <1>6, <1>8, <2>1, <2>2 DEF Truncating, CallInv
  <2> QED  BY <2>3, <2>4 DEF CallInv
<1> QED  BY <1>7, <1>9, <1>10, <1>11, Together

LEMMA StepBfree ==
  ASSUME Whole, NEW p \in Proc, Bfree(p)
  PROVE  Whole'
<1> PICK f : f = at[p].file  OBVIOUS
<1> PICK b : b = ToGo(p)  OBVIOUS
<1> PICK T : T = at[p].todo  OBVIOUS
<1> PICK k : k = at[p].bn  OBVIOUS
<1> PICK n : n = NextUsed(T, k + 1)  OBVIOUS
<1> PICK r : r = [at[p] EXCEPT !.pc = "zero", !.bn = n]  OBVIOUS
<1>0. Types /\ CallInv(p) /\ FreeZero  BY DEF Whole, Intact
<1>1. at[p] \in Call /\ at[p].pc = "free" /\ marked' = marked \ {b}
      /\ UNCHANGED <<kernel, inode, dinode, live, locked, lost, calls, content>>
  BY <1>0 DEF Bfree, At, Types
<1>2. k \in Nat /\ T \in Seq(Address) /\ Len(T) \in Nat  BY <1>1 DEF Call
<1>3. k \in ToCome(p) /\ k <= Len(T) /\ b = T[k]  BY <1>0, <1>1, <1>2 DEF CallInv, Truncating, ToCome, ToGo
<1>4. /\ n \in Nat /\ n >= k + 1
      /\ {j \in k + 1..Len(T) : T[j] # None} = {j \in n..Len(T) : T[j] # None}
      /\ n \in {j \in n..Len(T) : T[j] # None} \/ n > Len(T)
  <2>1. k + 1 \in Nat \ {0} /\ k + 1 <= Len(T) + 1  BY <1>2, <1>3
  <2> PICK l : l = k + 1  OBVIOUS
  <2>2. n = NextUsed(T, l)  OBVIOUS
  <2>3. /\ n \in Nat /\ n >= l
        /\ {j \in l..Len(T) : T[j] # None} = {j \in n..Len(T) : T[j] # None}
        /\ n \in {j \in l..Len(T) : T[j] # None} \/ n > Len(T)
    BY <1>2, <2>1, <2>2, Skips
  <2> QED  BY <2>3
<1>5. r \in Call /\ r.pc = "zero" /\ r.file = f /\ r.end = at[p].end /\ r.bn = n /\ r.todo = T
  BY <1>1, <1>4 DEF Call
<1>6. Becomes(p, r)
  <2>1. at' = [at EXCEPT ![p].pc = "zero", ![p].bn = NextUsed(at[p].todo, @ + 1)]  BY DEF Bfree
  <2>2. at' = [at EXCEPT ![p] = r]  BY <1>0, <2>1 DEF Types
  <2> QED  BY <1>0, <1>5, <2>2, Becoming DEF Types
<1>7. ToCome(p)' = ToCome(p) \ {k}
  <2>1. at'[p] = r  BY <1>6 DEF Becomes
  <2>2. ToCome(p)' = {j \in n..Len(T) : T[j] # None}  BY <1>5, <2>1 DEF ToCome
  <2>3. ToCome(p) = {j \in k..Len(T) : T[j] # None}  BY DEF ToCome
  <2>4. ToCome(p) \ {k} = {j \in k + 1..Len(T) : T[j] # None}  BY <1>2, <2>3
  <2> QED  BY <1>4, <2>2, <2>4
<1>8. Hand(p)' = Hand(p) \ {b}
  <2>1. at'[p] = r  BY <1>6 DEF Becomes
  <2>2. Hand(p) = {T[j] : j \in ToCome(p)}  BY <1>1 DEF Hand
  <2>3. Hand(p)' = {T[j] : j \in ToCome(p) \ {k}}  BY <1>5, <1>7, <2>1 DEF Hand
  <2>4. \A j \in ToCome(p) : T[j] = T[k] => j = k  BY <1>0, <1>1, <1>3 DEF CallInv, Truncating
  <2> QED  BY <1>3, <2>2, <2>3, <2>4
<1>9. b \in Hand(p) /\ b \in Block /\ b \in marked
  <2>1. b \in Hand(p)  BY <1>1, <1>3 DEF Hand
  <2> QED  BY <2>1, HandIs
<1>10. Types' /\ Locking' /\ Acts(p, f) /\ FileInv(f)' /\ Tree(f)' = Tree(f)
  <2>1. at[p].pc # "user" /\ r.pc \notin {"user", "type"}
        /\ (r.pc \in {"zero", "free"} <=> at[p].pc \in {"zero", "free"})
    BY <1>1, <1>5
  <2>2. marked' \subseteq Block /\ content' \in Content  BY <1>0, <1>1 DEF Types
  <2>3. \A a \in Block : content'[a] = content[a]  BY <1>1
  <2> QED  BY <1>1, <1>5, <1>6, <2>1, <2>2, <2>3, Inside
<1>11. Moves(p, f)
  <2>1. Own(f)' = Own(f) /\ Holds(p)' = Holds(p) \ {b}  BY <1>1, <1>8, <1>10 DEF Own, Holds
  <2>2. f \in live  BY <1>1, InCall
  <2>3. Own(f) \cap Holds(p) = {} /\ b \notin lost /\ b \in Holds(p) /\ b \notin Own(f)
    BY <1>9, <2>2, Owner DEF Own, Holds
  <2>4. lost \subseteq marked /\ Own(f) \subseteq marked /\ Holds(p) \subseteq marked
    BY <2>2, MarkedIs DEF Whole, Intact, Own, Holds
  <2> QED  BY <1>1, <2>1, <2>3, <2>4 DEF Moves
<1>12. FreeZero'
  <2>1. kernel = "xv6" => content[b] = Zero  BY <1>0, <1>1 DEF CallInv, Truncating
  <2> QED  BY <1>0, <1>1, <2>1 DEF FreeZero, Free
<1>13. CallInv(p)'
  <2>1. at'[p] = r  BY <1>6 DEF Becomes
  <2>2. Writing(p)' /\ Fresh(p)'  BY <1>5, <2>1 DEF Writing, Fresh
  <2>3. n \in ToCome(p)' \/ n > Len(T)  BY <1>4, <1>5, <2>1 DEF ToCome
  <2>4. \A i, j \in ToCome(p)' : T[i] = T[j] => i = j
    BY <1>0, <1>1, <1>7 DEF CallInv, Truncating
  <2>6. T \in Seq(Address)  BY <1>2
  <2>5. Truncating(p)'  BY <1>5, <2>1, <2>3, <2>4, <2>6 DEF Truncating
  <2> QED  BY <2>2, <2>5 DEF CallInv
<1> QED  BY <1>10, <1>11, <1>12, <1>13, Together

LEMMA StepWriteBlock ==
  ASSUME Whole, NEW p \in Proc, WriteBlock(p)
  PROVE  Whole'
<1> PICK f : f = at[p].file  OBVIOUS
<1> PICK i : i = inode[f]  OBVIOUS
<1> PICK bn : bn = at[p].bn  OBVIOUS
<1> PICK b : b = BlockOf(i, bn)  OBVIOUS
<1> PICK r : r = [at[p] EXCEPT !.bn = bn + 1, !.pc = IF bn + 1 = at[p].end THEN "grow" ELSE "bmap"]
  OBVIOUS
<1>0. Types /\ CallInv(p) /\ FreeZero  BY DEF Whole, Intact
<1>1. at[p] \in Call /\ at[p].pc = "bmap" /\ Missing(i, bn) = {}
      /\ content' = [content EXCEPT ![b] = Written]
      /\ UNCHANGED <<kernel, inode, dinode, live, locked, lost, calls, marked>>
  BY <1>0 DEF WriteBlock, At, Types
<1>2. bn \in Nat /\ at[p].end \in Nat  BY <1>1 DEF Call
<1>3. r \in Call /\ r.pc \in {"grow", "bmap"} /\ r.file = f /\ r.end = at[p].end /\ r.bn = bn + 1
      /\ (r.pc = "grow" <=> bn + 1 = at[p].end)
  <2> PICK x : x = IF bn + 1 = at[p].end THEN "grow" ELSE "bmap"  OBVIOUS
  <2>1. x \in {"grow", "bmap"} /\ (x = "grow" <=> bn + 1 = at[p].end)  OBVIOUS
  <2>2. r = [at[p] EXCEPT !.bn = bn + 1, !.pc = x]  OBVIOUS
  <2>3. bn + 1 \in Nat  BY <1>2
  <2> QED  BY <1>1, <2>1, <2>2, <2>3 DEF Call
<1>4. Becomes(p, r)
  <2>1. at' = [at EXCEPT ![p].bn = @ + 1, ![p].pc = IF at[p].bn + 1 = at[p].end THEN "grow" ELSE @]
    BY DEF WriteBlock
  <2>2. at' = [at EXCEPT ![p] = r]  BY <1>0, <1>1, <2>1 DEF Types
  <2> QED  BY <1>0, <1>3, <2>2, Becoming DEF Types
<1>5. /\ f \in live /\ f \notin Going /\ Root(f) = i
      /\ Good(content, i) /\ i \in Dinode /\ content \in Content
      /\ \A n \in 0..bn - 1 : Reach(n) /\ MissingIn(content, i, n) = {}
      /\ Reach(bn)
  BY <1>1, Writer
<1>6. MissingIn(content, i, bn) = {}  BY <1>1, Read
<1>7. b \in Tree(f) /\ b \notin IndexIn(content, Root(f)) /\ b \in Block /\ b \in marked
  <2>1. b = AddrIn(content, i, Last(PathIn(content, i, bn)))  BY Read DEF BlockOf
  <2>2. Tree(f) = BlocksIn(content, i)  BY <1>5, TreeIs
  <2>3. b \in Tree(f) /\ b \notin IndexIn(content, Root(f))
    BY <1>5, <1>6, <2>1, <2>2, DataBlock
  <2> QED  BY <1>5, <2>3, Owned
<1>8. content' \in Content /\ \A a \in Block : content'[a] # content[a] => a = b
  BY <1>1, <1>5, <1>7, ZeroIs, Filled
<1>9. Types' /\ Locking' /\ Acts(p, f) /\ FileInv(f)' /\ Tree(f)' = Tree(f)
  <2>1. at[p].pc # "user" /\ r.pc \notin {"user", "type"}
        /\ (r.pc \in {"zero", "free"} <=> at[p].pc \in {"zero", "free"})
    BY <1>1, <1>3
  <2>2. marked' \subseteq Block  BY <1>0, <1>1 DEF Types
  <2>3. \A a \in Block : content'[a] # content[a] =>
             \/ a \in Hand(p) \/ a \in Free
             \/ a \in Tree(f) /\ a \notin IndexIn(content, Root(f))
    BY <1>7, <1>8
  <2> QED  BY <1>1, <1>3, <1>4, <1>8, <2>1, <2>2, <2>3, Inside
<1>10. at'[p] = r  BY <1>4 DEF Becomes
<1>11. Moves(p, f)
  <2>1. Hand(p) = {} /\ Hand(p)' = {}  BY <1>1, <1>3, <1>10 DEF Hand
  <2>2. Own(f)' = Own(f) /\ Holds(p)' = {} /\ Holds(p) = {}  BY <1>1, <1>9, <2>1 DEF Own, Holds
  <2>3. lost \subseteq marked /\ Own(f) \subseteq marked  BY <1>5, MarkedIs DEF Whole, Intact, Own
  <2> QED  BY <1>1, <2>2, <2>3 DEF Moves
<1>12. FreeZero'  BY <1>0, <1>1, <1>7, <1>8 DEF FreeZero, Free
<1>13. CallInv(p)'
  <2>1. \A n \in 0..bn : Reach(n) /\ MissingIn(content, i, n) = {}
    <3> TAKE n \in 0..bn
    <3>1. n \in 0..bn - 1 \/ n = bn  BY <1>2
    <3> QED  BY <1>5, <1>6, <3>1
  <2>2. \A a \in IndexIn(content, i) : content'[a] = content[a]
    <3>1. IndexIn(content, i) \subseteq Block  BY <1>5, GoodIndex
    <3> QED  BY <1>5, <1>7, <1>8, <3>1
  <2>3. \A n \in 0..bn : Missing(i, n)' = {}
    <3> TAKE n \in 0..bn
    <3>1. MissingIn(content', i, n) = {}  BY <1>5, <1>8, <2>1, <2>2, SameWay
    <3> QED  BY <3>1, Read
  <2>4. inode'[at'[p].file] = i  BY <1>1, <1>3, <1>10
  <2>6. MAXFILE' = MAXFILE  BY <1>1 DEF MAXFILE
  <2>7. at[p].end <= MAXFILE /\ bn < at[p].end  BY <1>0, <1>1 DEF CallInv, Writing
  <2>8. 0..(bn + 1) - 1 = 0..bn  BY <1>2
  <2>9. \A n \in 0..at'[p].bn - 1 : Missing(inode[at[p].file], n)' = {}
    BY <1>3, <1>10, <2>3, <2>4, <2>8
  <2>10. IF at'[p].pc = "grow" THEN at'[p].bn = at'[p].end ELSE at'[p].bn < at'[p].end
    BY <1>2, <1>3, <1>10, <2>7
  <2>11. Writing(p)'  BY <1>3, <1>10, <2>6, <2>7, <2>9, <2>10 DEF Writing
  <2>12. Fresh(p)' /\ Truncating(p)'  BY <1>3, <1>10, NotTruncating DEF Fresh
  <2> QED  BY <2>11, <2>12 DEF CallInv
<1> QED  BY <1>9, <1>11, <1>12, <1>13, Together

LEMMA StepBalloc ==
  ASSUME Whole, NEW p \in Proc, Balloc(p)
  PROVE  Whole'
<1> PICK f : f = at[p].file  OBVIOUS
<1> PICK i : i = inode[f]  OBVIOUS
<1> PICK bn : bn = at[p].bn  OBVIOUS
<1> PICK b : b = Min(Free)  OBVIOUS
<1> PICK r : r = [at[p] EXCEPT !.pc = "assign", !.got = b]  OBVIOUS
<1>0. Types /\ CallInv(p) /\ FreeZero  BY DEF Whole, Intact
<1>1. at[p] \in Call /\ at[p].pc = "bmap" /\ Missing(i, bn) # {} /\ Free # {}
      /\ marked' = marked \cup {b}
      /\ UNCHANGED <<kernel, inode, dinode, live, locked, lost, calls>>
      /\ content' = IF kernel = "ex4" THEN [content EXCEPT ![b] = Zero] ELSE content
  BY <1>0 DEF Balloc, At, Types
<1>2. b \in Free /\ b \in Block /\ b \notin marked
  <2>1. Free \in SUBSET Nat  BY FreeIs, Bounds
  <2>2. b \in Free  BY <1>1, <2>1, MinIsIn
  <2> QED  BY <2>2, FreeIs
<1>3. r \in Call /\ r.pc = "assign" /\ r.file = f /\ r.end = at[p].end /\ r.bn = bn /\ r.got = b
  BY <1>1, <1>2 DEF Call, Address
<1>4. Becomes(p, r)
  <2>1. at' = [at EXCEPT ![p].pc = "assign", ![p].got = Min(Free)]  BY DEF Balloc
  <2>2. at' = [at EXCEPT ![p] = r]  BY <1>0, <1>1, <2>1 DEF Types
  <2> QED  BY <1>0, <1>3, <2>2, Becoming DEF Types
<1>5. /\ f \in live /\ f \notin Going /\ Root(f) = i
      /\ Good(content, i) /\ i \in Dinode /\ content \in Content
      /\ \A n \in 0..bn - 1 : Reach(n) /\ MissingIn(content, i, n) = {}
      /\ Reach(bn)
  BY <1>1, Writer
<1>6. content' \in Content /\ (\A a \in Block : content'[a] # content[a] => a = b) /\ content'[b] = Zero
  <2>1. CASE kernel = "ex4"
    <3> PICK w \in [0..NINDIRECT - 1 -> Address \cup {-1}] : w = Zero  BY ZeroIs
    <3>1. content' = [content EXCEPT ![b] = w]  BY <1>1, <2>1
    <3>2. content' \in Content /\ content'[b] = w /\ \A a \in Block : content'[a] # content[a] => a = b
      <4>1. content \in Content  BY <1>5
      <4>2. b \in Block  BY <1>2
      <4> QED  BY <3>1, <4>1, <4>2, Filled, Zenon
    <3> QED  BY <3>2
  <2>2. CASE kernel = "xv6"  BY <1>0, <1>1, <1>2, <1>5, <2>2 DEF FreeZero
  <2> QED  BY <1>0, <2>1, <2>2 DEF Types
<1>7. Types' /\ Locking' /\ Acts(p, f) /\ FileInv(f)' /\ Tree(f)' = Tree(f)
  <2>1. at[p].pc # "user" /\ r.pc \notin {"user", "type"}
        /\ (r.pc \in {"zero", "free"} <=> at[p].pc \in {"zero", "free"})
    BY <1>1, <1>3
  <2>2. marked' \subseteq Block  BY <1>0, <1>1, <1>2 DEF Types
  <2>3. \A a \in Block : content'[a] # content[a] =>
             \/ a \in Hand(p) \/ a \in Free
             \/ a \in Tree(f) /\ a \notin IndexIn(content, Root(f))
    BY <1>2, <1>6
  <2> QED  BY <1>1, <1>3, <1>4, <1>6, <2>1, <2>2, <2>3, Inside
<1>8. at'[p] = r  BY <1>4 DEF Becomes
<1>9. Moves(p, f)
  <2>1. Hand(p) = {} /\ Hand(p)' = {b}  BY <1>1, <1>3, <1>8 DEF Hand
  <2>2. Own(f)' = Own(f) /\ Holds(p)' = {b} /\ Holds(p) = {}  BY <1>1, <1>7, <2>1 DEF Own, Holds
  <2>3. lost \subseteq marked /\ Own(f) \subseteq marked  BY <1>5, MarkedIs DEF Whole, Intact, Own
  <2> QED  BY <1>1, <1>2, <2>2, <2>3 DEF Moves
<1>10. FreeZero'  BY <1>0, <1>1, <1>6 DEF FreeZero, Free
<1>11. CallInv(p)'
  <2>1. \A a \in IndexIn(content, i) : content'[a] = content[a]
    <3>1. IndexIn(content, i) \subseteq Block /\ IndexIn(content, i) \subseteq marked
      BY <1>5, Owned
    <3> QED  BY <1>2, <1>6, <3>1
  <2>2. \A n : Reach(n) => (Missing(i, n)' = {} <=> MissingIn(content, i, n) = {})
    <3> TAKE n
    <3>1. Reach(n) => (MissingIn(content', i, n) = {} <=> MissingIn(content, i, n) = {})
      BY <1>5, <1>6, <2>1, SameWay
    <3> QED  BY <3>1, Read
  <2>3. inode'[at'[p].file] = i  BY <1>1, <1>3, <1>8
  <2>4. MAXFILE' = MAXFILE  BY <1>1 DEF MAXFILE
  <2>5. at[p].end <= MAXFILE /\ bn < at[p].end  BY <1>0, <1>1 DEF CallInv, Writing
  <2>6. \A n \in 0..at'[p].bn - 1 : Missing(inode[at[p].file], n)' = {}
    BY <1>3, <1>5, <1>8, <2>2, <2>3
  <2>7. Writing(p)'  BY <1>3, <1>8, <2>4, <2>5, <2>6 DEF Writing
  <2>8. MissingIn(content, i, bn) # {}  BY <1>1, Read
  <2>9. Missing(inode[at[p].file], at[p].bn)' # {}  BY <1>3, <1>5, <1>8, <2>2, <2>3, <2>8
  <2>10. Fresh(p)'  BY <1>2, <1>3, <1>6, <1>8, <2>9, Bounds DEF Fresh
  <2>11. Truncating(p)'  BY <1>3, <1>8, NotTruncating
  <2> QED  BY <2>7, <2>10, <2>11 DEF CallInv
<1> QED  BY <1>7, <1>9, <1>10, <1>11, Together

\* What Assign does to the tree: the new block goes to its vacant place.
LEMMA Assigns ==
  ASSUME Whole, NEW p \in Proc, Assign(p),
         NEW f, f = at[p].file, NEW i, i = inode[f], NEW bn, bn = at[p].bn,
         NEW got, got = at[p].got
  PROVE  \E s : /\ Planted(content, i, content', inode'[f], s, got)
                /\ inode' \in [File -> Dinode] /\ inode'[f].size = i.size
                /\ \A g \in File : g # f => inode'[g] = inode[g]
                /\ \A b \in Block : content'[b] # content[b] => b \in IndexIn(content, i)
                /\ kernel = "xv6" => inode'[f].addrs[NDIRECT + 1] = i.addrs[NDIRECT + 1]
<1>0. Types /\ CallInv(p)  BY DEF Whole, Intact
<1>1. at[p] \in Call /\ at[p].pc = "assign"  BY <1>0 DEF Assign, At, Types
<1>2. /\ f \in live /\ f \notin Going /\ Root(f) = i
      /\ Good(content, i) /\ i \in Dinode /\ content \in Content
      /\ Reach(bn) /\ (kernel = "xv6" => bn < NDIRECT + NINDIRECT)
  BY <1>1, Writer
<1>3. MissingIn(content, i, bn) # {} /\ got \in Block
  <2>1. Missing(i, bn) # {} /\ got # None  BY <1>0, <1>1 DEF CallInv, Fresh
  <2>2. got \in Address  BY <1>1 DEF Call
  <2> QED  BY <2>1, <2>2, Read DEF Address
<1> PICK s : s = FirstIn(content, i, bn)  OBVIOUS
<1>4. Vacant(content, i, s) /\ (kernel = "xv6" => s # <<Self, NDIRECT + 1>>)
  BY <1>2, <1>3, PlaceToFill
<1>5. s = FirstMissing(i, bn)
  <2>1. PathTo(i, bn) = PathIn(content, i, bn) /\ Missing(i, bn) = MissingIn(content, i, bn)  BY Read
  <2> QED  BY <2>1 DEF FirstMissing, FirstIn
<1>6. IF s[1] = Self
      THEN inode' = [inode EXCEPT ![f].addrs[s[2]] = got] /\ content' = content
      ELSE content' = [content EXCEPT ![s[1]][s[2]] = got] /\ inode' = inode
  BY <1>5 DEF Assign
<1>7. f \in File /\ inode \in [File -> Dinode]  BY <1>0, <1>2 DEF Types
<1>8. ASSUME NEW k \in 0..NDIRECT + 1, s = <<Self, k>>
      PROVE  /\ Planted(content, i, content', inode'[f], s, got)
             /\ inode' \in [File -> Dinode] /\ inode'[f].size = i.size
             /\ \A g \in File : g # f => inode'[g] = inode[g]
             /\ \A b \in Block : content'[b] # content[b] => b \in IndexIn(content, i)
             /\ kernel = "xv6" => inode'[f].addrs[NDIRECT + 1] = i.addrs[NDIRECT + 1]
  <2>1. inode' = [inode EXCEPT ![f].addrs[k] = got] /\ content' = content  BY <1>6, <1>8
  <2> PICK A : A = i.addrs  OBVIOUS
  <2>2. A \in [0..NDIRECT + 1 -> Address]  BY <1>2 DEF Dinode
  <2> PICK B : B = [A EXCEPT ![k] = got]  OBVIOUS
  <2>3. B \in [0..NDIRECT + 1 -> Address] /\ B[k] = got /\ \A l \in 0..NDIRECT + 1 : l # k => B[l] = A[l]
    BY <1>3, <2>2 DEF Address
  <2> PICK j : j = [i EXCEPT !.addrs = B]  OBVIOUS
  <2>4. j \in Dinode /\ j.addrs = B /\ j.size = i.size  BY <1>2, <2>3 DEF Dinode
  <2>5. inode' = [inode EXCEPT ![f] = j]  BY <1>2, <1>7, <2>1 DEF Dinode
  <2>6. inode'[f] = j /\ inode' \in [File -> Dinode] /\ \A g \in File : g # f => inode'[g] = inode[g]
    BY <1>7, <2>4, <2>5
  <2>7. AddrIn(content', j, s) = got  BY <1>8, <2>3, <2>4 DEF AddrIn
  <2>8. Planted(content, i, content', j, s, got)
    BY <1>2, <1>4, <1>8, <2>1, <2>3, <2>4, <2>7 DEF Planted
  <2>9. kernel = "xv6" => j.addrs[NDIRECT + 1] = i.addrs[NDIRECT + 1]
    <3>1. NDIRECT + 1 \in 0..NDIRECT + 1  BY Bounds
    <3> QED  BY <1>4, <1>8, <2>3, <2>4, <3>1
  <2> QED  BY <2>1, <2>4, <2>6, <2>8, <2>9
<1>9. ASSUME NEW a \in IndexIn(content, i), NEW k \in 0..NINDIRECT - 1, s = <<a, k>>
      PROVE  /\ Planted(content, i, content', inode'[f], s, got)
             /\ inode' \in [File -> Dinode] /\ inode'[f].size = i.size
             /\ \A g \in File : g # f => inode'[g] = inode[g]
             /\ \A b \in Block : content'[b] # content[b] => b \in IndexIn(content, i)
             /\ kernel = "xv6" => inode'[f].addrs[NDIRECT + 1] = i.addrs[NDIRECT + 1]
  <2>0. a \in Block /\ a # Self  BY <1>2, GoodIndex, Bounds
  <2>1. content' = [content EXCEPT ![a][k] = got] /\ inode' = inode  BY <1>6, <1>9, <2>0
  <2> PICK w : w = [content[a] EXCEPT ![k] = got]  OBVIOUS
  <2>2. content[a] \in [0..NINDIRECT - 1 -> Address \cup {-1}]  BY <1>2, <2>0 DEF Content
  <2>3. w \in [0..NINDIRECT - 1 -> Address \cup {-1}] /\ w[k] = got
        /\ \A l \in 0..NINDIRECT - 1 : l # k => w[l] = content[a][l]
    BY <1>3, <2>2 DEF Address
  <2>4. content' = [content EXCEPT ![a] = w]  BY <2>1
  <2>5. content' \in Content /\ content'[a] = w /\ \A b \in Block : content'[b] # content[b] => b = a
    BY <1>2, <2>0, <2>3, <2>4, Filled
  <2>6. AddrIn(content', i, s) = got  BY <1>9, <2>0, <2>3, <2>5, Bounds DEF AddrIn
  <2>7. \A b \in Block, l \in 0..NINDIRECT - 1 : <<b, l>> # s => content'[b][l] = content[b][l]
    <3> TAKE b \in Block, l \in 0..NINDIRECT - 1
    <3> HAVE <<b, l>> # s
    <3>1. CASE b = a  BY <1>9, <2>3, <2>5, <3>1
    <3>2. CASE b # a  BY <2>5, <3>2
    <3> QED  BY <3>1, <3>2
  <2>8. Planted(content, i, content', i, s, got)
    BY <1>2, <1>4, <2>5, <2>6, <2>7 DEF Planted
  <2> QED  BY <1>7, <2>1, <2>5, <2>8
<1> QED  BY <1>4, <1>8, <1>9 DEF Vacant

LEMMA StepAssign ==
  ASSUME Whole, NEW p \in Proc, Assign(p)
  PROVE  Whole'
<1> PICK f : f = at[p].file  OBVIOUS
<1> PICK i : i = inode[f]  OBVIOUS
<1> PICK bn : bn = at[p].bn  OBVIOUS
<1> PICK got : got = at[p].got  OBVIOUS
<1> PICK r : r = [at[p] EXCEPT !.pc = "bmap"]  OBVIOUS
<1> PICK j : j = inode'[f]  OBVIOUS
<1>0. Types /\ CallInv(p) /\ FreeZero  BY DEF Whole, Intact
<1>1. at[p] \in Call /\ at[p].pc = "assign" /\ at' = [at EXCEPT ![p].pc = "bmap"]
      /\ UNCHANGED <<kernel, marked, dinode, live, locked, calls, lost>>
  BY <1>0 DEF Assign, At, Goes, Types
<1>2. r \in Call /\ r.pc = "bmap" /\ r.file = f /\ r.end = at[p].end /\ r.bn = bn
  BY <1>1 DEF Call
<1>3. Becomes(p, r)
  <2>1. at' = [at EXCEPT ![p] = r]  BY <1>0, <1>1 DEF Types
  <2> QED  BY <1>0, <1>2, <2>1, Becoming DEF Types
<1>4. /\ f \in live /\ f \in File /\ f \notin Going /\ Root(f) = i
      /\ Good(content, i) /\ i \in Dinode /\ content \in Content
      /\ \A n \in 0..bn - 1 : Reach(n) /\ MissingIn(content, i, n) = {}
      /\ Reach(bn)
  BY <1>0, <1>1, Writer DEF Types
<1> PICK s : /\ Planted(content, i, content', j, s, got)
             /\ inode' \in [File -> Dinode] /\ j.size = i.size
             /\ \A g \in File : g # f => inode'[g] = inode[g]
             /\ \A b \in Block : content'[b] # content[b] => b \in IndexIn(content, i)
             /\ kernel = "xv6" => j.addrs[NDIRECT + 1] = i.addrs[NDIRECT + 1]
  BY Assigns
<1>5. Missing(i, bn) # {} /\ got # None /\ content[got] = Zero /\ got \in Hand(p) /\ got \in Block
  <2>1. Missing(i, bn) # {} /\ got # None /\ content[got] = Zero  BY <1>0, <1>1 DEF CallInv, Fresh
  <2>2. got \in Hand(p)  BY <1>1 DEF Hand
  <2> QED  BY <2>1, <2>2, HandIs
<1>6. Tree(f) = BlocksIn(content, i) /\ got \notin BlocksIn(content, i)
  BY <1>4, <1>5, TreeIs, Owner
<1>7. Good(content', j) /\ BlocksIn(content', j) = BlocksIn(content, i) \cup {got}
      /\ Grows(content, i, content', j) /\ content' \in Content /\ j \in Dinode
  BY <1>4, <1>5, <1>6, Graft, PlantedGrows DEF Planted
<1>8. at' \in [Proc -> Call] /\ at'[p] = r /\ \A q \in Proc : q # p => at'[q] = at[q]
  BY <1>3 DEF Becomes
<1>9. Types'  BY <1>0, <1>1, <1>7, <1>8 DEF Types
<1>10. Locking'  BY <1>1, <1>2, <1>3, LockedInside
<1>11. \A q \in Proc : q # p => at[q].file # f  BY <1>1, InCall
<1>12. f \notin Going'
  <2>1. \A q \in Proc : q # p => at'[q].file # f  BY <1>8, <1>11
  <2> QED  BY <1>2, <1>8, <2>1 DEF Going, Busy
<1>13. Root(f)' = j /\ Tree(f)' = Tree(f) \cup {got} /\ Once(f)'
  <2>1. Root(f)' = j  BY <1>12, RootIs
  <2>2. Tree(f)' = BlocksIn(content', j)  BY <2>1, TreeIs
  <2>3. Once(f)'  BY <1>7, <2>1, TreeIs
  <2> QED  BY <1>6, <1>7, <2>1, <2>2, <2>3
<1>14. Acts(p, f)
  <2>1. \A b \in Block : content'[b] # content[b] => b \in Tree(f)  BY <1>4, Owned
  <2>2. \A b \in Block : content'[b] # content[b] =>
           /\ \A g \in live : g # f => b \notin Tree(g)
           /\ \A q \in Proc : q # p => b \notin Hand(q)
    BY <1>4, <2>1, Owner
  <2> QED  BY <1>1, <1>2, <1>8, <1>11, <2>2 DEF Acts
<1>15. Moves(p, f)
  <2>1. Hand(p) = {got} /\ Hand(p)' = {}  BY <1>1, <1>2, <1>8 DEF Hand
  <2>2. Own(f) = Tree(f) /\ Own(f)' = Tree(f) \cup {got} /\ Holds(p) = {got} /\ Holds(p)' = {}
    BY <1>1, <1>4, <1>13, <2>1 DEF Own, Holds
  <2>3. lost \subseteq marked /\ Tree(f) \subseteq marked /\ got \in marked /\ got \notin lost
        /\ Tree(f) \cap lost = {}
    BY <1>4, <1>5, MarkedIs, Owner DEF Whole, Intact
  <2> QED  BY <1>1, <2>2, <2>3 DEF Moves
<1>16. FreeZero'
  <2>1. \A b \in Free : b \in Block /\ b \notin IndexIn(content, i)
    <3>1. IndexIn(content, i) \subseteq marked  BY <1>4, Owned
    <3> QED  BY <3>1, FreeIs
  <2>2. \A b \in Free : content'[b] = content[b]  BY <2>1
  <2> QED  BY <1>0, <1>1, <2>2 DEF FreeZero, Free
<1>17. FileInv(f)  BY <1>4 DEF Whole, Intact
<1>18. dinode[f] \in Dinode /\ Good(content, dinode[f])
       /\ IndexIn(content, dinode[f]) \subseteq IndexIn(content, i)
  BY <1>4, Owned
<1> PICK d : d = dinode[f]  OBVIOUS
<1>19. \A n \in 0..i.size - 1 : Reach(n) /\ MissingIn(content, d, n) = {}
  <2>1. i.size <= MAXFILE /\ \A n \in 0..i.size - 1 : Missing(d, n) = {}
    BY <1>4, <1>17 DEF FileInv, Behind, Full
  <2>2. i.size \in Nat  BY <1>4 DEF Dinode
  <2>3. MAXFILE \in Nat /\ \A m \in Nat : m < MAXFILE => Reach(m)  BY <1>0, Largest DEF Types
  <2> PICK m \in Nat : m = MAXFILE  BY <2>3
  <2>4. \A n \in 0..i.size - 1 : n \in Nat /\ n < m  BY <2>1, <2>2
  <2> QED  BY <2>1, <2>3, <2>4, Read
<1>20. at[p].end > i.size
  <2>1. ~(bn \in 0..i.size - 1)
    <3> SUFFICES ASSUME bn \in 0..i.size - 1  PROVE FALSE  OBVIOUS
    <3>1. MissingIn(content, d, bn) = {}  BY <1>19
    <3>2. Below(d, i)  BY <1>17 DEF FileInv, Behind, Below
    <3>3. Grows(content, d, content, i)  BY <3>2 DEF Below, Grows
    <3>4. MissingIn(content, i, bn) = {}  BY <1>4, <1>18, <3>1, <3>3, StillThere
    <3> QED  BY <1>5, <3>4, Read
  <2>2. bn < at[p].end  BY <1>0, <1>1 DEF CallInv, Writing
  <2>3. bn \in Nat /\ at[p].end \in Nat  BY <1>1 DEF Call
  <2>4. i.size \in Nat  BY <1>4 DEF Dinode
  <2> QED  BY <2>1, <2>2, <2>3, <2>4
<1>21. FileInv(f)'
  <2>1. dinode'[f] = d  BY <1>1
  <2>2. Behind(f)
    BY <1>17 DEF FileInv
  <2>3. \A k \in 0..NDIRECT + 1 : d.addrs[k] \in {None, j.addrs[k]}
    <3> TAKE k \in 0..NDIRECT + 1
    <3>1. d.addrs[k] \in {None, i.addrs[k]}  BY <2>2 DEF Behind
    <3>2. i.addrs[k] # None => j.addrs[k] = i.addrs[k]  BY <1>7 DEF Grows
    <3> QED  BY <3>1, <3>2
  <2>4. MAXFILE' = MAXFILE  BY <1>1 DEF MAXFILE
  <2>5. \E q \in Proc : at'[q].file = f /\ at'[q].pc \in {"bmap", "assign", "grow"} /\ at'[q].end > j.size
    BY <1>2, <1>8, <1>20
  <2>6. Behind(f)'  BY <1>1, <2>1, <2>2, <2>3, <2>4, <2>5 DEF Behind
  <2>7. \A n \in 0..i.size - 1 : Missing(d, n)' = {}
    <3> TAKE n \in 0..i.size - 1
    <3>1. Grows(content, d, content', d)
      <4>1. \A b \in IndexIn(content, d), k \in 0..NINDIRECT - 1 :
              content[b][k] # None => content'[b][k] = content[b][k]
        BY <1>7, <1>18 DEF Grows
      <4> QED  BY <4>1 DEF Grows
    <3>2. MissingIn(content', d, n) = {}  BY <1>4, <1>7, <1>18, <1>19, <3>1, StillThere
    <3> QED  BY <3>2, Read
  <2>8. Full(f)'  BY <2>1, <2>7 DEF Full
  <2> QED  BY <1>13, <2>6, <2>8 DEF FileInv
<1>22. CallInv(p)'
  <2>1. \A n \in 0..bn - 1 : Missing(j, n)' = {}
    <3> TAKE n \in 0..bn - 1
    <3>1. MissingIn(content', j, n) = {}  BY <1>4, <1>7, StillThere
    <3> QED  BY <3>1, Read
  <2>2. MAXFILE' = MAXFILE  BY <1>1 DEF MAXFILE
  <2>3. at[p].end <= MAXFILE /\ bn < at[p].end  BY <1>0, <1>1 DEF CallInv, Writing
  <2>4. inode'[at'[p].file] = j  BY <1>2, <1>8
  <2>5. \A n \in 0..at'[p].bn - 1 : Missing(inode[at[p].file], n)' = {}  BY <1>2, <1>8, <2>1, <2>4
  <2>6. Writing(p)'  BY <1>2, <1>8, <2>2, <2>3, <2>5 DEF Writing
  <2>7. Fresh(p)' /\ Truncating(p)'  BY <1>2, <1>8, NotTruncating DEF Fresh
  <2> QED  BY <2>6, <2>7 DEF CallInv
<1> QED  BY <1>9, <1>10, <1>14, <1>15, <1>16, <1>21, <1>22, Together

\* A call begins with the lock of its file, and gives it back at the end.
LEMMA LockedFirst ==
  ASSUME Whole, NEW p \in Proc, NEW f \in live, Begins(p, f), live' = live,
         NEW r \in Call, Becomes(p, r), r.file = f, r.pc # "user"
  PROVE  Locking' /\ locked' \in [File -> Proc \cup {Nobody}]
<1>0. Types /\ Locking  BY DEF Whole, Intact
<1>1. at[p].pc = "user" /\ locked[f] = Nobody /\ locked' = [locked EXCEPT ![f] = p]
      /\ locked \in [File -> Proc \cup {Nobody}] /\ f \in File
  BY <1>0 DEF Begins, At, Types
<1>2. at' \in [Proc -> Call] /\ at'[p] = r /\ \A q \in Proc : q # p => at'[q] = at[q]
  BY DEF Becomes
<1>3. locked' \in [File -> Proc \cup {Nobody}] /\ locked'[f] = p
      /\ \A g \in File : g # f => locked'[g] = locked[g]
  BY <1>1
<1>4. \A q \in Proc : at[q].file # f  BY <1>1, Unlocked
<1>5. ASSUME NEW q \in Proc
      PROVE  IF at'[q].pc = "user" THEN at'[q] = Idle ELSE at'[q].file \in live /\ locked'[at'[q].file] = q
  <2>1. CASE q = p  BY <1>2, <1>3, <2>1
  <2>2. CASE q # p
    <3>1. at'[q] = at[q]  BY <1>2, <2>2
    <3>2. CASE at[q].pc = "user"  BY <1>0, <3>1, <3>2 DEF Locking
    <3>3. CASE at[q].pc # "user"
      <4>1. at[q].file \in live /\ at[q].file \in File /\ locked[at[q].file] = q  BY <3>3, InCall
      <4> QED  BY <1>3, <1>4, <3>1, <3>3, <4>1
    <3> QED  BY <3>2, <3>3
  <2> QED  BY <2>1, <2>2
<1>6. ASSUME NEW g \in File, locked'[g] # Nobody
      PROVE  at'[locked'[g]].pc # "user" /\ at'[locked'[g]].file = g
  <2>1. CASE g = f  BY <1>2, <1>3, <2>1
  <2>2. CASE g # f
    <3>1. locked'[g] = locked[g] /\ locked[g] \in Proc  BY <1>1, <1>3, <1>6, <2>2
    <3>2. at[locked[g]].pc # "user" /\ at[locked[g]].file = g  BY <1>0, <1>6, <3>1 DEF Locking
    <3>3. locked[g] # p  BY <1>1, <3>2
    <3> QED  BY <1>2, <3>1, <3>2, <3>3
  <2> QED  BY <2>1, <2>2
<1> QED  BY <1>3, <1>5, <1>6 DEF Locking

LEMMA LockedLast ==
  ASSUME Whole, NEW p \in Proc, at[p].pc # "user", Returns(p), NEW f, f = at[p].file,
         \A g \in live : g # f => g \in live'
  PROVE  /\ Locking' /\ locked' \in [File -> Proc \cup {Nobody}] /\ Becomes(p, Idle)
         /\ \A q \in Proc : at'[q].file # f
<1>0. Types /\ Locking  BY DEF Whole, Intact
<1>1. locked' = [locked EXCEPT ![f] = Nobody] /\ at' = [at EXCEPT ![p] = Idle]
      /\ locked \in [File -> Proc \cup {Nobody}] /\ at \in [Proc -> Call]
  BY <1>0 DEF Returns, Types
<1>2. f \in File /\ locked[f] = p /\ \A q \in Proc : q # p => at[q].file # f  BY InCall
<1>3. Becomes(p, Idle)  BY <1>1, IdleCall, Becoming
<1>4. at' \in [Proc -> Call] /\ at'[p] = Idle /\ \A q \in Proc : q # p => at'[q] = at[q]
  BY <1>3 DEF Becomes
<1>5. locked' \in [File -> Proc \cup {Nobody}] /\ locked'[f] = Nobody
      /\ \A g \in File : g # f => locked'[g] = locked[g]
  BY <1>1, <1>2
<1>6. \A q \in Proc : at'[q].file # f  BY <1>2, <1>4, IdleCall, Bounds
<1>7. ASSUME NEW q \in Proc
      PROVE  IF at'[q].pc = "user" THEN at'[q] = Idle ELSE at'[q].file \in live' /\ locked'[at'[q].file] = q
  <2>1. CASE q = p  BY <1>4, <2>1, IdleCall
  <2>2. CASE q # p
    <3>1. at'[q] = at[q]  BY <1>4, <2>2
    <3>2. CASE at[q].pc = "user"  BY <1>0, <3>1, <3>2 DEF Locking
    <3>3. CASE at[q].pc # "user"
      <4>1. at[q].file \in live /\ at[q].file \in File /\ locked[at[q].file] = q  BY <3>3, InCall
      <4>2. at[q].file # f  BY <1>2, <2>2
      <4> QED  BY <1>5, <3>1, <3>3, <4>1, <4>2
    <3> QED  BY <3>2, <3>3
  <2> QED  BY <2>1, <2>2
<1>8. ASSUME NEW g \in File, locked'[g] # Nobody
      PROVE  at'[locked'[g]].pc # "user" /\ at'[locked'[g]].file = g
  <2>1. g # f  BY <1>5, <1>8
  <2>2. locked'[g] = locked[g] /\ locked[g] \in Proc  BY <1>1, <1>5, <1>8, <2>1
  <2>3. at[locked[g]].pc # "user" /\ at[locked[g]].file = g  BY <1>0, <1>8, <2>2 DEF Locking
  <2>4. locked[g] # p  BY <2>1, <2>3
  <2> QED  BY <1>4, <2>2, <2>3, <2>4
<1> QED  BY <1>3, <1>5, <1>6, <1>7, <1>8 DEF Locking

LEMMA IdleInv ==
  ASSUME NEW p \in Proc
  PROVE  /\ at[p] = Idle => Hand(p) = {} /\ CallInv(p)
         /\ at'[p] = Idle => Hand(p)' = {} /\ CallInv(p)'
<1>1. Idle.todo \in Seq(Address)  BY IdleCall DEF Call
<1>2. at[p] = Idle => Hand(p) = {} /\ CallInv(p)
  BY <1>1, IdleCall DEF Hand, CallInv, Writing, Fresh, Truncating
<1>3. at'[p] = Idle => Hand(p)' = {} /\ CallInv(p)'
  BY <1>1, IdleCall DEF Hand, CallInv, Writing, Fresh, Truncating
<1> QED  BY <1>2, <1>3

\* Inodes with the same addresses have the same tree.
LEMMA SameAddrs ==
  ASSUME NEW c \in Content, NEW i \in Dinode, NEW j \in Dinode, Good(c, i), i.addrs = j.addrs
  PROVE  /\ Good(c, j) /\ BlocksIn(c, j) = BlocksIn(c, i)
         /\ \A n : Reach(n) /\ MissingIn(c, i, n) = {} => MissingIn(c, j, n) = {}
<1>1. Below(i, j) /\ Below(j, i) /\ Grows(c, i, c, j)  BY DEF Below, Grows
<1>2. Good(c, j) /\ BlocksIn(c, j) \subseteq BlocksIn(c, i)  BY <1>1, SubTree
<1>3. BlocksIn(c, i) \subseteq BlocksIn(c, j)  BY <1>1, <1>2, SubTree
<1>4. \A n : Reach(n) /\ MissingIn(c, i, n) = {} => MissingIn(c, j, n) = {}  BY <1>1, StillThere
<1> QED  BY <1>2, <1>3, <1>4

LEMMA StepGrow ==
  ASSUME Whole, NEW p \in Proc, Grow(p)
  PROVE  Whole'
<1> PICK f : f = at[p].file  OBVIOUS
<1> PICK i : i = inode[f]  OBVIOUS
<1> PICK j : j = inode'[f]  OBVIOUS
<1> PICK end : end = at[p].end  OBVIOUS
<1>0. Types /\ CallInv(p) /\ FreeZero  BY DEF Whole, Intact
<1>1. at[p] \in Call /\ at[p].pc = "grow" /\ Returns(p)
      /\ UNCHANGED <<kernel, marked, content, live, calls, lost>>
  BY <1>0 DEF Grow, At, Types
<1>2. /\ f \in live /\ f \in File /\ f \notin Going /\ Root(f) = i
      /\ Good(content, i) /\ i \in Dinode /\ content \in Content
      /\ \A n \in 0..at[p].bn - 1 : Reach(n) /\ MissingIn(content, i, n) = {}
  BY <1>0, <1>1, Writer DEF Types
<1>3. end = at[p].bn /\ end <= MAXFILE /\ end \in Nat  BY <1>0, <1>1 DEF CallInv, Writing, Call
<1>4. Locking' /\ locked' \in [File -> Proc \cup {Nobody}] /\ Becomes(p, Idle)
      /\ \A q \in Proc : at'[q].file # f
  BY <1>1, LockedLast
<1>5. \A q \in Proc : q # p => at[q].file # f  BY <1>1, InCall
<1>6. FileInv(f)  BY <1>2 DEF Whole, Intact
<1>7. inode \in [File -> Dinode] /\ dinode \in [File -> Dinode]  BY <1>0 DEF Types
<1>8. /\ inode' \in [File -> Dinode] /\ dinode' \in [File -> Dinode]
      /\ \A g \in File : g # f => inode'[g] = inode[g] /\ dinode'[g] = dinode[g]
      /\ dinode'[f] = j /\ j \in Dinode /\ j.addrs = i.addrs
      /\ \/ j.size = end
         \/ j.size = i.size /\ dinode[f] = i
  <2>1. CASE end > i.size
    <3>1. inode' = [inode EXCEPT ![f].size = end] /\ dinode' = [dinode EXCEPT ![f] = inode'[f]]
      BY <2>1 DEF Grow
    <3> PICK k : k = [i EXCEPT !.size = end]  OBVIOUS
    <3>2. k \in Dinode /\ k.addrs = i.addrs /\ k.size = end  BY <1>2, <1>3 DEF Dinode
    <3>3. inode' = [inode EXCEPT ![f] = k]  BY <1>2, <1>7, <3>1 DEF Dinode
    <3>4. inode'[f] = k /\ inode' \in [File -> Dinode] /\ \A g \in File : g # f => inode'[g] = inode[g]
      BY <1>2, <1>7, <3>2, <3>3
    <3> QED  BY <1>2, <1>7, <3>1, <3>2, <3>4
  <2>2. CASE ~(end > i.size)
    <3>1. inode' = inode /\ dinode' = dinode  BY <2>2 DEF Grow
    <3>2. dinode[f] = i
      <4>1. ~ \E q \in Proc : at[q].file = f /\ at[q].end > i.size  BY <1>5, <2>2
      <4> QED  BY <1>6, <4>1 DEF FileInv, Behind
    <3> QED  BY <1>2, <1>7, <3>1, <3>2
  <2> QED  BY <2>1, <2>2
<1>9. at' \in [Proc -> Call] /\ at'[p] = Idle /\ \A q \in Proc : q # p => at'[q] = at[q]
  BY <1>4 DEF Becomes
<1>10. Types'  BY <1>0, <1>1, <1>4, <1>8, <1>9 DEF Types
<1>11. Acts(p, f)  BY <1>1, <1>5, <1>8, <1>9, IdleCall DEF Acts
<1>12. f \notin Going'  BY <1>4 DEF Going, Busy
<1>13. /\ Good(content, j) /\ BlocksIn(content, j) = BlocksIn(content, i)
       /\ \A n : Reach(n) /\ MissingIn(content, i, n) = {} => MissingIn(content, j, n) = {}
  BY <1>2, <1>8, SameAddrs
<1>14. Root(f)' = j /\ Tree(f)' = Tree(f) /\ Once(f)'
  <2>1. Root(f)' = j  BY <1>12, RootIs
  <2>2. Tree(f)' = BlocksIn(content, j)  BY <1>1, <2>1, TreeIs
  <2>3. Once(f)'  BY <1>1, <1>13, <2>1, TreeIs
  <2>4. Tree(f) = BlocksIn(content, i)  BY <1>2, TreeIs
  <2> QED  BY <1>13, <2>1, <2>2, <2>3, <2>4
<1>15. Moves(p, f)
  <2>1. Hand(p) = {} /\ Hand(p)' = {}  BY <1>1, <1>9, IdleInv DEF Hand
  <2>2. Own(f)' = Own(f) /\ Holds(p)' = {} /\ Holds(p) = {}  BY <1>1, <1>14, <2>1 DEF Own, Holds
  <2>3. lost \subseteq marked /\ Own(f) \subseteq marked  BY <1>2, MarkedIs DEF Whole, Intact, Own
  <2> QED  BY <1>1, <2>2, <2>3 DEF Moves
<1>16. FreeZero'  BY <1>0, <1>1 DEF FreeZero, Free
<1>17. FileInv(f)'
  <2>1. MAXFILE' = MAXFILE  BY <1>1 DEF MAXFILE
  <2>2. i.size <= MAXFILE /\ (kernel = "xv6" => i.addrs[NDIRECT + 1] = None)
    BY <1>6 DEF FileInv, Behind
  <2>3. j.size <= MAXFILE  BY <1>3, <1>8, <2>2
  <2>4. Behind(f)'  BY <1>1, <1>8, <2>1, <2>2, <2>3 DEF Behind
  <2>5. \A n \in 0..j.size - 1 : MissingIn(content, j, n) = {}
    <3> TAKE n \in 0..j.size - 1
    <3>1. CASE j.size = end
      <4>1. Reach(n) /\ MissingIn(content, i, n) = {}  BY <1>2, <1>3, <3>1
      <4> QED  BY <1>13, <4>1
    <3>2. CASE j.size = i.size /\ dinode[f] = i
      <4>1. Missing(i, n) = {}  BY <1>2, <1>6, <3>2 DEF FileInv, Full
      <4>2. MissingIn(content, i, n) = {}  BY <4>1, Read
      <4>3. Reach(n)
        <5>1. i.size \in Nat  BY <1>2 DEF Dinode
        <5>2. MAXFILE \in Nat /\ \A m \in Nat : m < MAXFILE => Reach(m)  BY <1>0, Largest DEF Types
        <5> PICK m \in Nat : m = MAXFILE  BY <5>2
        <5>3. n \in Nat /\ n < m  BY <2>2, <3>2, <5>1
        <5> QED  BY <5>2, <5>3
      <4> QED  BY <1>13, <4>2, <4>3
    <3> QED  BY <1>8, <3>1, <3>2
  <2>6. \A n \in 0..j.size - 1 : Missing(j, n)' = {}  BY <1>1, <2>5, Read
  <2>7. Full(f)'  BY <1>8, <2>6 DEF Full
  <2> QED  BY <1>14, <2>4, <2>7 DEF FileInv
<1>18. CallInv(p)'  BY <1>9, IdleInv
<1> QED  BY <1>4, <1>10, <1>11, <1>15, <1>16, <1>17, <1>18, Together

LEMMA BlankIs ==
  /\ Blank \in Dinode /\ Blank.size = 0
  /\ \A k \in 0..NDIRECT + 1 : Blank.addrs[k] = None
  /\ \A c \in Content : Good(c, Blank) /\ BlocksIn(c, Blank) = {}
<1>1. Blank \in Dinode /\ Blank.size = 0 /\ \A k \in 0..NDIRECT + 1 : Blank.addrs[k] = None
  BY DEF Blank, Dinode, Address
<1>2. ASSUME NEW c \in Content  PROVE PlacesIn(c, Blank) = {}
  <2>0. NDIRECT \in 0..NDIRECT + 1 /\ NDIRECT + 1 \in 0..NDIRECT + 1  BY Bounds
  <2>1. Blank.addrs[NDIRECT] = None /\ Blank.addrs[NDIRECT + 1] = None  BY <1>1, <2>0
  <2>2. \A b : b \notin IndexIn(c, Blank)  BY <1>1, <2>1, IndexIs
  <2>3. ASSUME NEW s \in PlacesIn(c, Blank)  PROVE FALSE
    <3> PICK k \in 0..NDIRECT + 1 : s = <<Self, k>>  BY <1>1, <2>2, PlaceIs
    <3>1. AddrIn(c, Blank, s) = None  BY <1>1 DEF AddrIn
    <3> QED  BY <1>1, <3>1, PlaceIs
  <2> QED  BY <2>3
<1>3. \A c \in Content : Good(c, Blank) /\ BlocksIn(c, Blank) = {}  BY <1>2 DEF Good, BlocksIn
<1> QED  BY <1>1, <1>3

LEMMA StepCreate ==
  ASSUME Whole, NEW f \in File, Create(f)
  PROVE  Whole'
<1>0. Types /\ FreeZero /\ Locking  BY DEF Whole, Intact
<1>1. f \notin live /\ locked[f] = Nobody /\ live' = live \cup {f}
      /\ dinode' = [dinode EXCEPT ![f] = Blank] /\ inode' = [inode EXCEPT ![f] = Blank]
      /\ UNCHANGED <<kernel, marked, content, locked, at, calls, lost>>
  BY DEF Create
<1>2. dinode' \in [File -> Dinode] /\ inode' \in [File -> Dinode]
      /\ dinode'[f] = Blank /\ inode'[f] = Blank
      /\ \A g \in File : g # f => inode'[g] = inode[g] /\ dinode'[g] = dinode[g]
  BY <1>0, <1>1, BlankIs DEF Types
<1>3. Types'  BY <1>0, <1>1, <1>2 DEF Types
<1>4. Locking'  BY <1>0, <1>1 DEF Locking
<1>5. \A q \in Proc : at[q].file # f  BY <1>1, Unlocked
<1>6. Acts(Nobody, f)  BY <1>0, <1>1, <1>2, <1>5, Bounds DEF Acts
<1>7. f \notin Going'  BY <1>1, <1>5 DEF Going, Busy
<1>8. Root(f)' = Blank  BY <1>2, <1>7, RootIs
<1>9. content' \in Content  BY <1>3 DEF Types
<1>10. Once(f)' /\ Tree(f)' = {}  BY <1>8, <1>9, TreeIs, BlankIs
<1>11. FileInv(f)'
  <2>1. kernel' \in {"xv6", "ex4"}  BY <1>3 DEF Types
  <2>2. MAXFILE' \in Nat
    <3>1. MAXFILE' = MAXFILE /\ MAXFILE \in Nat  BY <1>0, <1>1, Largest DEF Types, MAXFILE
    <3> QED  BY <3>1
  <2>3. NDIRECT + 1 \in 0..NDIRECT + 1  BY Bounds
  <2> PICK m \in Nat : m = MAXFILE'  BY <2>2
  <2>4. inode'[f].size = 0 /\ inode'[f].size <= m /\ inode'[f].addrs[NDIRECT + 1] = None
        /\ \A k \in 0..NDIRECT + 1 : dinode'[f].addrs[k] = None
    BY <1>2, <2>3, BlankIs
  <2>5. Behind(f)'  BY <1>2, <2>4 DEF Behind
  <2>6. 0..inode'[f].size - 1 = {}  BY <2>4
  <2>7. Full(f)'  BY <2>6 DEF Full
  <2> QED  BY <1>10, <2>5, <2>7 DEF FileInv
<1>12. Moves(Nobody, f)
  <2>1. Own(f) = {} /\ Own(f)' = {}  BY <1>1, <1>10 DEF Own
  <2>2. Holds(Nobody) = {} /\ Holds(Nobody)' = {}  BY Bounds DEF Holds
  <2>3. lost \subseteq marked  BY MarkedIs DEF Whole, Intact
  <2> QED  BY <1>1, <2>1, <2>2, <2>3 DEF Moves
<1>13. FreeZero'  BY <1>0, <1>1 DEF FreeZero, Free
<1>14. Nobody \notin Proc  BY Bounds
<1> QED  BY <1>3, <1>4, <1>6, <1>11, <1>12, <1>13, <1>14, Together

NewCall(pc, f, bn, end) ==
    [pc |-> pc, file |-> f, bn |-> bn, end |-> end, got |-> None, todo |-> <<>>]

LEMMA NewCallFrom ==
  ASSUME NEW pc, NEW f, NEW bn, NEW end
  PROVE  NewCall(pc, f, bn, end) = [Idle EXCEPT !.pc = pc, !.file = f, !.bn = bn, !.end = end]
<1> PICK r : r = [Idle EXCEPT !.pc = pc, !.file = f, !.bn = bn, !.end = end]  OBVIOUS
<1>1. r = [pc |-> pc, file |-> f, bn |-> bn, end |-> end, got |-> None, todo |-> <<>>]
  BY DEF Idle
<1>2. NewCall(pc, f, bn, end) = r  BY <1>1 DEF NewCall
<1> QED  BY <1>2

LEMMA NewCallIs ==
  ASSUME NEW pc \in {"bmap", "grow"}, NEW f \in File, NEW bn \in Nat, NEW end \in Nat
  PROVE  LET r == NewCall(pc, f, bn, end)
         IN  r \in Call /\ r.pc = pc /\ r.file = f /\ r.end = end /\ r.bn = bn
<1> PICK none : none = <<>>  OBVIOUS
<1>1. none \in Seq(Address)  BY EmptySeq
<1>2. None \in Address  BY DEF Address
<1>3. pc \in {"user", "bmap", "assign", "grow", "zero", "free"}  OBVIOUS
<1>4. NewCall(pc, f, bn, end) =
         [pc |-> pc, file |-> f, bn |-> bn, end |-> end, got |-> None, todo |-> none]
  BY DEF NewCall
<1> QED  BY <1>1, <1>2, <1>3, <1>4 DEF Call

LEMMA StepWrite ==
  ASSUME Whole, NEW p \in Proc, NEW f \in File, NEW n \in Sizes, NEW off \in {0, inode[f].size},
         Write(p, f, off, n)
  PROVE  Whole'
<1> PICK i : i = inode[f]  OBVIOUS
<1> PICK end : end = Min({off + n, MAXFILE})  OBVIOUS
<1> PICK pc : pc = IF off < end THEN "bmap" ELSE "grow"  OBVIOUS
<1> PICK r : r = NewCall(pc, f, off, end)  OBVIOUS
<1>0. Types /\ FreeZero /\ Locking  BY DEF Whole, Intact
<1>1. f \in live /\ off <= i.size /\ Begins(p, f) /\ at[p].pc = "user" /\ locked[f] = Nobody
      /\ calls' = calls + 1 /\ at' = [at EXCEPT ![p] = r]
      /\ UNCHANGED <<kernel, marked, content, dinode, inode, live, lost>>
  <2>1. r = [Idle EXCEPT !.pc = pc, !.file = f, !.bn = off, !.end = end]  BY NewCallFrom
  <2>2. at' = [at EXCEPT ![p] = r]  BY <2>1 DEF Write
  <2> QED  BY <2>2 DEF Write, Begins, At, diskVars
<1>2. i \in Dinode /\ i.size \in Nat /\ off \in Nat /\ n \in Nat /\ n > 0
  <2>1. i \in Dinode  BY <1>0 DEF Types
  <2>2. i.size \in Nat  BY <2>1 DEF Dinode
  <2>3. n \in Nat /\ n > 0  BY BlocksAssumption
  <2> QED  BY <2>1, <2>2, <2>3
<1> PICK m \in Nat : m = MAXFILE  BY <1>0, Largest DEF Types
<1>3. FileInv(f) /\ i.size <= m  BY <1>1 DEF Whole, Intact, FileInv, Behind
<1>4. end \in Nat /\ end <= m /\ (off < end \/ off = end)
  <2> DEFINE S == {off + n, m}
  <2>1. S \in SUBSET Nat /\ S # {}  BY <1>2
  <2> HIDE DEF S
  <2>2. Min(S) \in S /\ \A y \in S : Min(S) <= y  BY <2>1, MinIsIn
  <2>3. end = Min(S)  BY DEF S
  <2>4. end \in {off + n, m} /\ end <= m  BY <2>2, <2>3 DEF S
  <2> QED  BY <1>1, <1>2, <1>3, <2>4
<1>5. pc \in {"bmap", "grow"} /\ (pc = "grow" => off = end) /\ (pc = "bmap" => off < end)
  BY <1>2, <1>4
<1>6. r \in Call /\ r.pc = pc /\ r.file = f /\ r.end = end /\ r.bn = off
  <2>1. pc \in {"bmap", "grow"} /\ off \in Nat /\ end \in Nat  BY <1>2, <1>4, <1>5
  <2> QED  BY <2>1, NewCallIs
<1>7. Becomes(p, r)  BY <1>0, <1>1, <1>6, Becoming DEF Types
<1>8. at' \in [Proc -> Call] /\ at'[p] = r /\ \A q \in Proc : q # p => at'[q] = at[q]
  BY <1>7 DEF Becomes
<1>9. Locking' /\ locked' \in [File -> Proc \cup {Nobody}]
  <2>1. r.pc # "user"  BY <1>5, <1>6
  <2> QED  BY <1>1, <1>6, <1>7, <2>1, LockedFirst
<1>10. calls' \in Nat  BY <1>0, <1>1 DEF Types
<1>11. Types'  BY <1>0, <1>1, <1>8, <1>9, <1>10 DEF Types
<1>12. (\A q \in Proc : at[q].file # f) /\ f \notin Going /\ dinode[f] = i
  BY <1>1, Unlocked
<1>13. Acts(p, f)
  <2>1. at[p] = Idle  BY <1>0, <1>1 DEF Locking
  <2> QED  BY <1>1, <1>6, <1>8, <1>12, <2>1, IdleCall DEF Acts
<1>14. FileInv(f)' /\ Tree(f)' = Tree(f)
  <2>1. f \notin Going'  BY <1>5, <1>6, <1>8, <1>12 DEF Going, Busy
  <2>2. Keeps(f)  BY <1>1, <1>12, <2>1 DEF Keeps
  <2> QED  BY <1>1, <1>11, <2>2, FileKeeps
<1>15. Moves(p, f)
  <2>1. Hand(p) = {} /\ Hand(p)' = {}  BY <1>1, <1>5, <1>6, <1>8 DEF Hand
  <2>2. Own(f)' = Own(f) /\ Holds(p)' = {} /\ Holds(p) = {}  BY <1>1, <1>14, <2>1 DEF Own, Holds
  <2>3. lost \subseteq marked /\ Own(f) \subseteq marked  BY <1>1, MarkedIs DEF Whole, Intact, Own
  <2> QED  BY <1>1, <2>2, <2>3 DEF Moves
<1>16. FreeZero'  BY <1>0, <1>1 DEF FreeZero, Free
<1>17. CallInv(p)'
  <2>1. MAXFILE' = m  BY <1>1 DEF MAXFILE
  <2>2. \A k \in 0..i.size - 1 : Missing(i, k) = {}  BY <1>3, <1>12 DEF FileInv, Full
  <2>3. \A k \in 0..off - 1 : k \in 0..i.size - 1  BY <1>1, <1>2
  <2>4. \A k \in 0..off - 1 : Missing(i, k)' = {}
    <3> TAKE k \in 0..off - 1
    <3>1. MissingIn(content, i, k) = {}  BY <2>2, <2>3, Read
    <3> QED  BY <1>1, <3>1, Read
  <2>5. inode'[at'[p].file] = i  BY <1>1, <1>6, <1>8
  <2>6. \A k \in 0..at'[p].bn - 1 : Missing(inode[at[p].file], k)' = {}  BY <1>6, <1>8, <2>4, <2>5
  <2>7. Writing(p)'  BY <1>4, <1>5, <1>6, <1>8, <2>1, <2>6 DEF Writing
  <2>8. Fresh(p)' /\ Truncating(p)'  BY <1>5, <1>6, <1>8, NotTruncating DEF Fresh
  <2> QED  BY <2>7, <2>8 DEF CallInv
<1> QED  BY <1>9, <1>11, <1>13, <1>14, <1>15, <1>16, <1>17, Together

LEMMA StepIput ==
  ASSUME Whole, NEW p \in Proc, NEW f \in File, Iput(p, f)
  PROVE  Whole'
<1> PICK i : i = inode[f]  OBVIOUS
<1> PICK T : T = ToFree(i)  OBVIOUS
<1> PICK n : n = NextUsed(T, 1)  OBVIOUS
<1> PICK r : r = [Idle EXCEPT !.pc = "zero", !.file = f, !.bn = n, !.todo = T]  OBVIOUS
<1>0. Types /\ FreeZero /\ Locking  BY DEF Whole, Intact
<1>1. f \in live /\ Begins(p, f) /\ at[p].pc = "user" /\ locked[f] = Nobody
      /\ calls' = calls + 1 /\ at' = [at EXCEPT ![p] = r]
      /\ UNCHANGED <<kernel, marked, content, dinode, inode, live, lost>>
  BY DEF Iput, Begins, At, diskVars
<1>2. (\A q \in Proc : at[q].file # f) /\ f \notin Going /\ dinode[f] = i /\ Root(f) = i
  BY <1>1, Unlocked, RootIs
<1>3. i \in Dinode /\ Good(content, i) /\ content \in Content  BY <1>0, <1>1, <1>2, Owned DEF Types
<1>4. T = ToFreeIn(content, i)  BY ReadRemoval
<1>5. T \in Seq(Address) /\ Len(T) \in Nat
  <2>1. T \in Seq(Address)  BY <1>3, <1>4, ToFreeIs
  <2> QED  BY <2>1
<1>6. /\ \A j, k \in 1..Len(T) : T[j] # None /\ T[j] = T[k] => j = k
      /\ BlocksIn(content, i) = BlocksIn(content, Stump(i)) \cup ({T[k] : k \in 1..Len(T)} \ {None})
      /\ \A k \in 1..Len(T) : T[k] \notin BlocksIn(content, Stump(i))
  BY <1>3, <1>4, Cut
<1>7. /\ n \in Nat /\ n >= 1
      /\ {j \in 1..Len(T) : T[j] # None} = {j \in n..Len(T) : T[j] # None}
      /\ n \in {j \in 1..Len(T) : T[j] # None} \/ n > Len(T)
  <2> PICK k : k = 1  OBVIOUS
  <2>1. k \in Nat \ {0} /\ k <= Len(T) + 1 /\ n = NextUsed(T, k)  BY <1>5
  <2>2. /\ n \in Nat /\ n >= k
        /\ {j \in k..Len(T) : T[j] # None} = {j \in n..Len(T) : T[j] # None}
        /\ n \in {j \in k..Len(T) : T[j] # None} \/ n > Len(T)
    BY <1>5, <2>1, Skips
  <2> QED  BY <2>2
<1>8. r \in Call /\ r.pc = "zero" /\ r.file = f /\ r.bn = n /\ r.todo = T
  <2>1. r = [pc |-> "zero", file |-> f, bn |-> n, end |-> 0, got |-> None, todo |-> T]
    BY DEF Idle
  <2> QED  BY <1>5, <1>7, <2>1 DEF Call, Address
<1>9. Becomes(p, r)  BY <1>0, <1>1, <1>8, Becoming DEF Types
<1>10. at' \in [Proc -> Call] /\ at'[p] = r /\ \A q \in Proc : q # p => at'[q] = at[q]
  BY <1>9 DEF Becomes
<1>11. Locking' /\ locked' \in [File -> Proc \cup {Nobody}]  BY <1>1, <1>8, <1>9, LockedFirst
<1>12. calls' \in Nat  BY <1>0, <1>1 DEF Types
<1>13. Types'  BY <1>0, <1>1, <1>10, <1>11, <1>12 DEF Types
<1>14. Acts(p, f)
  <2>1. at[p] = Idle  BY <1>0, <1>1 DEF Locking
  <2> QED  BY <1>1, <1>2, <1>8, <1>10, <2>1, IdleCall DEF Acts
<1>15. f \in Going'  BY <1>8, <1>10 DEF Going, Busy
<1>16. Root(f)' = Stump(i)  BY <1>1, <1>15, RootIs
<1>17. Tree(f)' = BlocksIn(content, Stump(i)) /\ Once(f)'
  <2>1. Good(content, Stump(i))  BY <1>3, StumpIs, SubTree
  <2> QED  BY <1>1, <1>16, <2>1, TreeIs
<1>18. ToCome(p)' = {j \in 1..Len(T) : T[j] # None}
  <2>1. ToCome(p)' = {j \in n..Len(T) : T[j] # None}  BY <1>8, <1>10 DEF ToCome
  <2> QED  BY <1>7, <2>1
<1>19. Hand(p)' = {T[k] : k \in 1..Len(T)} \ {None}
  <2>1. Hand(p)' = {T[k] : k \in {j \in 1..Len(T) : T[j] # None}}  BY <1>8, <1>10, <1>18 DEF Hand
  <2> QED  BY <2>1
<1>20. Tree(f) = BlocksIn(content, i)  BY <1>2, TreeIs
<1>21. Moves(p, f)
  <2>1. Hand(p) = {}  BY <1>1 DEF Hand
  <2>2. Own(f)' = BlocksIn(content, Stump(i)) /\ Own(f) = BlocksIn(content, i)
        /\ Holds(p)' = {T[k] : k \in 1..Len(T)} \ {None} /\ Holds(p) = {}
    BY <1>1, <1>17, <1>19, <1>20, <2>1 DEF Own, Holds
  <2>3. lost \subseteq marked /\ Own(f) \subseteq marked  BY <1>1, MarkedIs DEF Whole, Intact, Own
  <2>4. Own(f) = Own(f)' \cup Holds(p)' /\ Own(f)' \cap Holds(p)' = {}  BY <1>6, <2>2
  <2>5. Own(f) \cap lost = {}  BY <1>1, Owner DEF Own
  <2> QED  BY <1>1, <2>2, <2>3, <2>4, <2>5 DEF Moves
<1>22. FreeZero'  BY <1>0, <1>1 DEF FreeZero, Free
<1>23. FileInv(f)'
  <2>1. Behind(f)  BY <1>1 DEF Whole, Intact, FileInv
  <2>2. MAXFILE' = MAXFILE  BY <1>1 DEF MAXFILE
  <2>3. Behind(f)'  BY <1>1, <1>2, <2>1, <2>2 DEF Behind
  <2>4. Full(f)'  BY <1>15 DEF Full
  <2> QED  BY <1>17, <2>3, <2>4 DEF FileInv
<1>24. CallInv(p)'
  <2>1. Writing(p)' /\ Fresh(p)'  BY <1>8, <1>10 DEF Writing, Fresh
  <2>2. \A j, k \in ToCome(p)' : T[j] = T[k] => j = k  BY <1>6, <1>18
  <2>3. n \in ToCome(p)' \/ n > Len(T)  BY <1>7, <1>18
  <2>4. at'[p].todo = T /\ T \in Seq(Address)  BY <1>8, <1>10 DEF Call
  <2>5. Truncating(p)'  BY <1>8, <1>10, <2>2, <2>3, <2>4 DEF Truncating
  <2> QED  BY <2>1, <2>5 DEF CallInv
<1> QED  BY <1>11, <1>13, <1>14, <1>21, <1>22, <1>23, <1>24, Together

\* The last step of itrunc() leaves nothing of the inode but the doubly indirect address.
LEMMA StepTruncated ==
  ASSUME Whole, NEW p \in Proc, Truncated(p)
  PROVE  Whole'
<1> PICK f : f = at[p].file  OBVIOUS
<1> PICK i : i = inode[f]  OBVIOUS
<1> PICK j : j = Stump(i)  OBVIOUS
<1> PICK r : r = [at[p] EXCEPT !.pc = "type"]  OBVIOUS
<1>0. Types /\ FreeZero /\ CallInv(p)  BY DEF Whole, Intact
<1>1. /\ at[p] \in Call /\ at[p].pc = "zero" /\ at[p].bn > Len(at[p].todo)
      /\ inode' = [inode EXCEPT ![f] = j] /\ dinode' = [dinode EXCEPT ![f] = inode'[f]]
      /\ at' = [at EXCEPT ![p].pc = "type"]
      /\ UNCHANGED <<kernel, marked, content, live, locked, calls, lost>>
  BY <1>0 DEF Truncated, At, Goes, Stump, Types
<1>2. f \in live /\ f \in File /\ f \in Going /\ \A q \in Proc : q # p => at[q].file # f
  BY <1>1, InCall
<1>3. i \in Dinode /\ content \in Content  BY <1>0, <1>2 DEF Types
<1>4. j \in Dinode /\ j.addrs[NDIRECT + 1] = i.addrs[NDIRECT + 1] /\ j.size = 0 /\ Stump(j) = j
  <2>1. j.size = 0  BY DEF Stump, Blank
  <2>2. j \in Dinode /\ j.addrs[NDIRECT + 1] = i.addrs[NDIRECT + 1]  BY <1>3, StumpIs
  <2>3. Stump(j) = j  BY <2>2 DEF Stump
  <2> QED  BY <2>1, <2>2, <2>3
<1>5. r \in Call /\ r.pc = "type" /\ r.file = f /\ r.todo = at[p].todo  BY <1>1 DEF Call
<1>6. Becomes(p, r)
  <2>1. at' = [at EXCEPT ![p] = r]  BY <1>0, <1>1 DEF Types
  <2> QED  BY <1>0, <1>5, <2>1, Becoming DEF Types
<1>7. at' \in [Proc -> Call] /\ at'[p] = r /\ \A q \in Proc : q # p => at'[q] = at[q]
  BY <1>6 DEF Becomes
<1>8. inode' \in [File -> Dinode] /\ dinode' \in [File -> Dinode] /\ inode'[f] = j /\ dinode'[f] = j
      /\ \A g \in File : g # f => inode'[g] = inode[g] /\ dinode'[g] = dinode[g]
  BY <1>0, <1>1, <1>2, <1>4 DEF Types
<1>9. Types'  BY <1>0, <1>1, <1>7, <1>8 DEF Types
<1>10. Locking'  BY <1>1, <1>5, <1>6, LockedInside
<1>11. Acts(p, f)  BY <1>1, <1>2, <1>5, <1>7, <1>8 DEF Acts
<1>12. f \notin Going'  BY <1>2, <1>5, <1>7 DEF Going, Busy
<1>13. Root(f) = j /\ Root(f)' = j  BY <1>2, <1>8, <1>12, RootIs
<1>14. Tree(f)' = Tree(f) /\ Once(f)'
  <2>1. Good(content, j)  BY <1>2, <1>13, Owned
  <2> QED  BY <1>1, <1>13, <2>1, TreeIs
<1>15. Hand(p) = {} /\ Hand(p)' = {}
  <2>1. at[p].bn \in Nat /\ Len(at[p].todo) \in Nat  BY <1>1 DEF Call
  <2>2. at[p].bn..Len(at[p].todo) = {}  BY <1>1, <2>1
  <2>3. ToCome(p) = {}  BY <2>2 DEF ToCome
  <2> QED  BY <1>1, <1>5, <1>7, <2>3 DEF Hand
<1>16. Moves(p, f)
  <2>1. Own(f)' = Own(f) /\ Holds(p)' = {} /\ Holds(p) = {}  BY <1>1, <1>14, <1>15 DEF Own, Holds
  <2>2. lost \subseteq marked /\ Own(f) \subseteq marked  BY <1>2, MarkedIs DEF Whole, Intact, Own
  <2> QED  BY <1>1, <2>1, <2>2 DEF Moves
<1>17. FreeZero'  BY <1>0, <1>1 DEF FreeZero, Free
<1>18. FileInv(f)'
  <2>1. MAXFILE' = MAXFILE /\ 0 <= MAXFILE
    <3>1. MAXFILE \in Nat  BY <1>0, Largest DEF Types
    <3> QED  BY <1>1, <3>1 DEF MAXFILE
  <2>2. kernel = "xv6" => i.addrs[NDIRECT + 1] = None  BY <1>2 DEF Whole, Intact, FileInv, Behind
  <2>3. Behind(f)'  BY <1>1, <1>4, <1>8, <2>1, <2>2 DEF Behind
  <2>4. Full(f)'  BY <1>4, <1>8 DEF Full
  <2> QED  BY <1>14, <2>3, <2>4 DEF FileInv
<1>19. CallInv(p)'
  <2>1. at'[p] = r /\ r.todo \in Seq(Address)  BY <1>5, <1>7 DEF Call
  <2>2. Writing(p)' /\ Fresh(p)'  BY <1>5, <2>1 DEF Writing, Fresh
  <2>3. inode'[f] = Stump(j)  BY <1>4, <1>8
  <2>4. Stump(inode[f])' = Stump(inode'[f])  BY DEF Stump
  <2>5. Truncating(p)'  BY <1>4, <1>5, <1>8, <2>1, <2>3 DEF Truncating, Stump
  <2> QED  BY <2>2, <2>5 DEF CallInv
<1> QED  BY <1>9, <1>10, <1>11, <1>16, <1>17, <1>18, <1>19, Together

\* iput() then frees the inode, and leaves the doubly indirect blocks to nobody.
LEMMA StepRemoved ==
  ASSUME Whole, NEW p \in Proc, Removed(p)
  PROVE  Whole'
<1> PICK f : f = at[p].file  OBVIOUS
<1> PICK i : i = inode[f]  OBVIOUS
<1>0. Types /\ FreeZero /\ Locking /\ CallInv(p)  BY DEF Whole, Intact
<1>1. /\ at[p].pc = "type"
      /\ live' = live \ {f} /\ lost' = lost \cup Doubly(i)
      /\ Returns(p) /\ UNCHANGED <<kernel, marked, content, dinode, inode, calls>>
  BY DEF Removed, At, diskVars
<1>2. f \in live /\ f \in File /\ f \notin Going /\ \A q \in Proc : q # p => at[q].file # f
  BY <1>1, InCall
<1>3. i \in Dinode /\ content \in Content /\ Stump(i) = i
  BY <1>0, <1>1, <1>2 DEF Types, CallInv, Truncating
<1>4. Root(f) = i  BY <1>2, RootIs
<1>5. Good(content, i) /\ Tree(f) \subseteq marked /\ Tree(f) \subseteq Block  BY <1>2, <1>4, Owned
<1>6. Tree(f) = BlocksIn(content, i)  BY <1>4, TreeIs
<1>7. Doubly(i) = BlocksIn(content, i) /\ (i.addrs[NDIRECT + 1] = None => BlocksIn(content, i) = {})
  <2>1. DoublyIn(content, i) = BlocksIn(content, Stump(i))
        /\ (i.addrs[NDIRECT + 1] = None => BlocksIn(content, Stump(i)) = {})
    BY <1>3, <1>5, StumpBlocks
  <2>2. Doubly(i) = DoublyIn(content, i)  BY ReadRemoval
  <2> QED  BY <1>3, <2>1, <2>2
<1>8. /\ Locking' /\ locked' \in [File -> Proc \cup {Nobody}] /\ Becomes(p, Idle)
      /\ \A q \in Proc : at'[q].file # f
  <2>1. at[p].pc # "user" /\ Returns(p)  BY <1>1
  <2>2. \A g \in live : g # f => g \in live'  BY <1>1
  <2> QED  BY <2>1, <2>2, LockedLast
<1>9. at' \in [Proc -> Call] /\ at'[p] = Idle /\ \A q \in Proc : q # p => at'[q] = at[q]
  BY <1>8 DEF Becomes
<1>10. Types'
  <2>1. lost' \subseteq Block  BY <1>0, <1>1, <1>5, <1>6, <1>7 DEF Types
  <2> QED  BY <1>0, <1>1, <1>8, <1>9, <2>1 DEF Types
<1>11. Acts(p, f)  BY <1>1, <1>2, <1>9, IdleCall DEF Acts
<1>12. Hand(p) = {} /\ Hand(p)' = {} /\ CallInv(p)'  BY <1>1, <1>9, IdleInv DEF Hand
<1>13. Moves(p, f)
  <2>1. f \notin live'  BY <1>1
  <2>2. Own(f) = Tree(f) /\ Own(f)' = {} /\ Holds(p) = {} /\ Holds(p)' = {}
    BY <1>2, <1>12, <2>1 DEF Own, Holds
  <2>3. lost' = lost \cup Tree(f)  BY <1>1, <1>6, <1>7
  <2>4. lost \subseteq marked  BY MarkedIs DEF Whole, Intact
  <2>5. Tree(f) \cap lost = {}  BY <1>2 DEF Whole, Intact, Owners
  <2> QED  BY <1>1, <1>5, <2>2, <2>3, <2>4, <2>5 DEF Moves
<1>14. FreeZero'
  <2>1. kernel = "xv6" => i.addrs[NDIRECT + 1] = None  BY <1>2 DEF Whole, Intact, FileInv, Behind
  <2>2. kernel = "xv6" => lost' = lost  BY <1>1, <1>7, <2>1
  <2> QED  BY <1>0, <1>1, <2>2 DEF FreeZero, Free
<1>15. f \notin live'  BY <1>1
<1> QED  BY <1>8, <1>10, <1>11, <1>12, <1>13, <1>14, <1>15, Together

-----------------------------------------------------------------------------
(* The invariant.                                                          *)

LEMMA Starts ==
  ASSUME Init
  PROVE  TypeOK /\ Intact
<1>1. /\ kernel \in Kernel /\ marked = {} /\ content = [b \in Block |-> Zero]
      /\ dinode = [f \in File |-> Blank] /\ inode = dinode /\ live = {}
      /\ locked = [f \in File |-> Nobody] /\ at = [p \in Proc |-> Idle]
      /\ calls = 0 /\ lost = {} /\ overrun = FALSE
  BY DEF Init
<1>2. Types
  <2>1. content \in Content  BY <1>1, ZeroIs DEF Content
  <2>2. dinode \in [File -> Dinode] /\ inode \in [File -> Dinode]  BY <1>1, BlankIs
  <2>3. at \in [Proc -> Call]  BY <1>1, IdleCall
  <2>4. kernel \in {"xv6", "ex4"}  BY <1>1, BlocksAssumption
  <2> QED  BY <1>1, <2>1, <2>2, <2>3, <2>4 DEF Types
<1>3. TypeOK
  <2>1. at \in [Proc -> Call]  BY <1>2 DEF Types
  <2>2. \A q \in Proc : at[q].todo \in Seq(Address \cup {-1})
    <3>1. <<>> \in Seq(Address \cup {-1})  OBVIOUS
    <3> QED  BY <1>1, <3>1 DEF Idle
  <2> QED  BY <1>1, <1>2, <2>1, <2>2 DEF TypeOK, Types, Content, Call
<1>4. \A p \in Proc : at[p] = Idle /\ at[p].pc = "user"  BY <1>1, IdleCall
<1>5. \A p \in Proc : Hand(p) = {}  BY <1>4, IdleInv
<1>6. Locking  BY <1>1, <1>4 DEF Locking
<1>7. Owners
  <2>1. UNION {Hand(p) : p \in Proc} = {}  BY <1>5
  <2>2. UNION {Tree(f) : f \in live} = {}  BY <1>1
  <2> QED  BY <1>1, <1>5, <2>1, <2>2 DEF Owners
<1>8. FreeZero  BY <1>1 DEF FreeZero, Free
<1>9. \A p \in Proc : CallInv(p)  BY <1>4, IdleInv
<1> QED  BY <1>1, <1>3, <1>6, <1>7, <1>8, <1>9 DEF Intact

LEMMA Stutters ==
  ASSUME Whole, UNCHANGED vars
  PROVE  Whole'
<1>1. UNCHANGED <<kernel, marked, content, dinode, inode, live, locked, at, calls, lost>>
  BY DEF vars, diskVars
<1>2. Types /\ FreeZero /\ Locking /\ lost \subseteq Block /\ kernel \in Kernel  BY DEF Whole, Intact
<1>3. Types'  BY <1>1, <1>2 DEF Types
<1>4. Nobody \notin Proc /\ Nobody \notin File  BY Bounds
<1>5. \A q \in Proc : at[q].file = at[q].file  OBVIOUS
<1>6. (lost \subseteq Block)' /\ (kernel \in Kernel)'  BY <1>1, <1>2
<1>7. Locking'  BY <1>1, <1>2 DEF Locking
<1>8. Going' = Going  BY <1>1 DEF Going, Busy
<1>9. FreeZero'  BY <1>1, <1>2 DEF FreeZero, Free
<1>10. \A f \in live : Tree(f)' = Tree(f) /\ FileInv(f)'
  <2> TAKE f \in live
  <2>1. Keeps(f)  BY <1>1, <1>8 DEF Keeps
  <2> QED  BY <1>3, <2>1, FileKeeps
<1>11. \A q \in Proc : Hand(q)' = Hand(q) /\ CallInv(q)'
  <2> TAKE q \in Proc
  <2> QED  BY <1>1, <1>3, CallKeeps
<1>12. Owners'
  <2>1. UNION {Tree(f)' : f \in live} = UNION {Tree(f) : f \in live}  BY <1>10
  <2>2. UNION {Hand(p)' : p \in Proc} = UNION {Hand(p) : p \in Proc}  BY <1>11
  <2> QED  BY <1>1, <1>10, <1>11, <2>1, <2>2 DEF Whole, Intact, Owners
<1> QED  BY <1>1, <1>3, <1>6, <1>7, <1>9, <1>10, <1>11, <1>12 DEF Whole, Intact

LEMMA Steps ==
  ASSUME Whole, ~overrun, Next
  PROVE  Whole'
<1>1. CASE \E f \in File : Create(f)  BY <1>1, StepCreate
<1>2. CASE \E p \in Proc, f \in File : \E n \in Sizes, off \in {0, inode[f].size} : Write(p, f, off, n)
  BY <1>2, StepWrite
<1>3. CASE \E p \in Proc, f \in File : Iput(p, f)  BY <1>3, StepIput
<1>4. CASE \E p \in Proc : Balloc(p) \/ Assign(p) \/ WriteBlock(p) \/ Grow(p)
  BY <1>4, StepBalloc, StepAssign, StepWriteBlock, StepGrow
<1>5. CASE \E p \in Proc : Zeroes(p) \/ Bfree(p) \/ Truncated(p) \/ Removed(p)
  BY <1>5, StepZeroes, StepBfree, StepTruncated, StepRemoved
<1>6. ~ \E b \in Block : Recycled(b)  BY DEF Recycled
<1> QED  BY <1>1, <1>2, <1>3, <1>4, <1>5, <1>6 DEF Next

LEMMA Typed ==
  ASSUME TypeOK, Intact
  PROVE  Whole
<1>1. \A p \in Proc : at[p].todo \in Seq(Address)  BY DEF Intact, CallInv, Truncating
<1>2. at \in [Proc -> Call]
  <2>1. \A p \in Proc : at[p] \in Call  BY <1>1 DEF TypeOK, Call
  <2> QED  BY <2>1 DEF TypeOK
<1>3. Types  BY <1>2, BlocksAssumption DEF TypeOK, Intact, Types, Content
<1> QED  BY <1>3 DEF Whole, TypeOK

-----------------------------------------------------------------------------
(* The types are kept whatever the tables hold.                            *)

Wide == Address \cup {-1}

Place == [pc : {"user", "bmap", "assign", "grow", "zero", "free", "type"},
          file : File \cup {Nobody}, bn : Nat, end : Nat, got : Address, todo : Seq(Wide)]

LEMMA NextIsNat ==
  ASSUME NEW S, NEW s \in Seq(S), NEW k \in Nat
  PROVE  NextUsed(s, k) \in Nat
<1> DEFINE E == {j \in k..Len(s) : s[j] # None} \cup {Len(s) + 1}
<1>1. Len(s) \in Nat  OBVIOUS
<1>2. E \in SUBSET Nat /\ E # {}  BY <1>1
<1> HIDE DEF E
<1>3. Min(E) \in E  BY <1>2, MinIsIn
<1>4. NextUsed(s, k) = Min(E)  BY DEF NextUsed, E
<1> QED  BY <1>2, <1>3, <1>4

\* The list of itrunc() when the indirect block may hold anything.
LEMMA ToFreeType ==
  ASSUME content \in Content, NEW i \in Dinode
  PROVE  ToFree(i) \in Seq(Wide)
<1> PICK ind : ind = i.addrs[NDIRECT]  OBVIOUS
<1>0. ind \in Address /\ i.addrs \in [0..NDIRECT + 1 -> Address]  BY Words
<1>1. Direct(i) \in Seq(Wide)
  <2>1. \A k \in 1..NDIRECT : i.addrs[k - 1] \in Wide
    <3> TAKE k \in 1..NDIRECT
    <3>1. k - 1 \in 0..NDIRECT + 1  BY Bounds
    <3> QED  BY <1>0, <3>1 DEF Wide
  <2> QED  BY <2>1, Bounds DEF Direct
<1>2. Held(ind) \in Seq(Wide)
  <2>1. CASE ind = None  BY <2>1 DEF Held
  <2>2. CASE ind # None
    <3>1. ind \in Block  BY <1>0, <2>2 DEF Address
    <3>2. content[ind] \in [0..NINDIRECT - 1 -> Wide]  BY <3>1 DEF Content, Wide
    <3>3. \A k \in 1..NINDIRECT : content[ind][k - 1] \in Wide
      <4> TAKE k \in 1..NINDIRECT
      <4>1. k - 1 \in 0..NINDIRECT - 1  BY Bounds
      <4> QED  BY <3>2, <4>1
    <3> QED  BY <2>2, <3>3, Bounds DEF Held
  <2> QED  BY <2>1, <2>2
<1>3. <<ind>> \in Seq(Wide)  BY <1>0 DEF Wide
<1>4. Direct(i) \o Held(ind) \in Seq(Wide)  BY <1>1, <1>2, ConcatProperties
<1>5. (Direct(i) \o Held(ind)) \o <<ind>> \in Seq(Wide)  BY <1>3, <1>4, ConcatProperties
<1> QED  BY <1>5 DEF ToFree

Loose ==
    /\ kernel \in Kernel /\ kernel \in {"xv6", "ex4"}
    /\ marked \subseteq Block
    /\ content \in Content
    /\ dinode \in [File -> Dinode] /\ inode \in [File -> Dinode]
    /\ live \subseteq File
    /\ locked \in [File -> Proc \cup {Nobody}]
    /\ at \in [Proc -> Place]
    /\ calls \in Nat /\ overrun \in BOOLEAN

LEMMA LooseIs == (TypeOK <=> Loose) /\ (TypeOK' <=> Loose')
BY BlocksAssumption DEF TypeOK, Loose, Content, Place, Wide

\* Between the ends of a call a process changes what it is doing, and not its file.
LEMMA Placed ==
  ASSUME Loose, NEW p \in Proc, NEW r, r \in Place, at' = [at EXCEPT ![p] = r]
  PROVE  at' \in [Proc -> Place]
BY DEF Loose

LEMMA WritePlace ==
  ASSUME NEW pc \in {"bmap", "grow"}, NEW f \in File, NEW off \in Nat, NEW end \in Nat
  PROVE  [Idle EXCEPT !.pc = pc, !.file = f, !.bn = off, !.end = end] \in Place
<1>1. <<>> \in Seq(Wide)  OBVIOUS
<1>2. Idle \in Place  BY <1>1 DEF Idle, Place, Address
<1>3. pc \in {"user", "bmap", "assign", "grow", "zero", "free", "type"}  OBVIOUS
<1> QED  BY <1>2, <1>3 DEF Place

LEMMA ReturnsType ==
  ASSUME Loose, NEW p \in Proc, Returns(p)
  PROVE  at' \in [Proc -> Place] /\ locked' \in [File -> Proc \cup {Nobody}]
<1>1. <<>> \in Seq(Wide)  OBVIOUS
<1>2. Idle \in Place  BY <1>1 DEF Idle, Place, Address
<1>3. at' \in [Proc -> Place]  BY <1>2, Placed DEF Returns
<1>4. locked' \in [File -> Proc \cup {Nobody}]  BY DEF Loose, Returns
<1> QED  BY <1>3, <1>4

LEMMA BeginsType ==
  ASSUME Loose, NEW p \in Proc, NEW f \in File, Begins(p, f)
  PROVE  locked' \in [File -> Proc \cup {Nobody}] /\ calls' \in Nat
BY DEF Loose, Begins

\* One address of an inode, or one word of a block, is changed.
LEMMA OneWord ==
  ASSUME Loose, NEW w \in Wide
  PROVE  /\ \A f, k : w \in Address => [inode EXCEPT ![f].addrs[k] = w] \in [File -> Dinode]
         /\ \A b, k : [content EXCEPT ![b][k] = w] \in Content
<1>1. ASSUME NEW f, NEW k, w \in Address
      PROVE  [inode EXCEPT ![f].addrs[k] = w] \in [File -> Dinode]
  <2>1. \A i \in Dinode : [i EXCEPT !.addrs[k] = w] \in Dinode
    <3> TAKE i \in Dinode
    <3>1. i.addrs \in [0..NDIRECT + 1 -> Address]  BY DEF Dinode
    <3>2. [i.addrs EXCEPT ![k] = w] \in [0..NDIRECT + 1 -> Address]  BY <1>1, <3>1
    <3> QED  BY <3>2 DEF Dinode
  <2> QED  BY <2>1 DEF Loose
<1>2. ASSUME NEW b, NEW k  PROVE [content EXCEPT ![b][k] = w] \in Content
  <2>1. content \in [Block -> [0..NINDIRECT - 1 -> Wide]]  BY DEF Loose, Content, Wide
  <2>2. \A c \in [0..NINDIRECT - 1 -> Wide] : [c EXCEPT ![k] = w] \in [0..NINDIRECT - 1 -> Wide]
    OBVIOUS
  <2>3. [content EXCEPT ![b][k] = w] \in [Block -> [0..NINDIRECT - 1 -> Wide]]  BY <2>1, <2>2
  <2> QED  BY <2>3 DEF Content, Wide
<1> QED  BY <1>1, <1>2

LEMMA OneBlock ==
  ASSUME Loose, NEW w \in [0..NINDIRECT - 1 -> Wide], NEW b
  PROVE  [content EXCEPT ![b] = w] \in Content
BY DEF Loose, Content, Wide

LEMMA StepTypes ==
  ASSUME TypeOK, [Next]_vars
  PROVE  TypeOK' /\ (overrun => overrun')
<1> DEFINE Kept == Loose' /\ (overrun => overrun')
<1>0. Loose  BY LooseIs
<1>t. Zero \in [0..NINDIRECT - 1 -> Wide] /\ Written \in [0..NINDIRECT - 1 -> Wide]  BY ZeroIs DEF Wide
<1>1. ASSUME UNCHANGED vars  PROVE Loose' /\ overrun' = overrun
  <2>1. UNCHANGED <<kernel, marked, content, dinode, inode, live, locked, at, calls>>
    BY <1>1 DEF vars, diskVars
  <2>2. overrun' = overrun  BY <1>1 DEF vars
  <2>3. overrun' \in BOOLEAN  BY <1>0, <2>2, Zenon DEF Loose
  <2>4. Loose'  BY <1>0, <2>1, <2>3 DEF Loose
  <2> QED  BY <2>2, <2>4
<1>2. ASSUME NEW f \in File, Create(f)  PROVE Kept
  BY <1>0, <1>2, BlankIs DEF Create, Loose
<1>3. ASSUME NEW p \in Proc, NEW f \in File, NEW n \in Sizes, NEW off \in {0, inode[f].size},
             Write(p, f, off, n)
      PROVE  Kept
  <2> PICK end : end = Min({off + n, MAXFILE})  OBVIOUS
  <2> PICK pc \in {"bmap", "grow"} : pc = IF off < end THEN "bmap" ELSE "grow"  OBVIOUS
  <2>1. off \in Nat /\ n \in Nat /\ MAXFILE \in Nat
    <3>1. inode[f] \in Dinode  BY <1>0 DEF Loose
    <3>2. inode[f].size \in Nat  BY <3>1 DEF Dinode
    <3> QED  BY <1>0, <3>2, Largest, BlocksAssumption DEF Loose
  <2>2. end \in Nat
    <3>1. {off + n, MAXFILE} \in SUBSET Nat /\ {off + n, MAXFILE} # {}  BY <2>1
    <3> PICK S \in SUBSET Nat : S = {off + n, MAXFILE} /\ S # {}  BY <3>1
    <3>2. Min(S) \in S  BY MinIsIn
    <3> QED  BY <3>2
  <2> PICK r : r = [Idle EXCEPT !.pc = pc, !.file = f, !.bn = off, !.end = end]  OBVIOUS
  <2>3. r \in Place  BY <2>1, <2>2, WritePlace
  <2>4. at' = [at EXCEPT ![p] = r]  BY <1>3 DEF Write
  <2>5. at' \in [Proc -> Place]  BY <1>0, <2>3, <2>4, Placed
  <2>6. locked' \in [File -> Proc \cup {Nobody}] /\ calls' \in Nat
    BY <1>0, <1>3, BeginsType DEF Write
  <2>7. UNCHANGED <<kernel, marked, content, dinode, inode, live, overrun>>  BY <1>3 DEF Write, diskVars
  <2> QED  BY <1>0, <2>5, <2>6, <2>7 DEF Loose
<1>4. ASSUME NEW p \in Proc, NEW f \in File, Iput(p, f)  PROVE Kept
  <2> PICK T : T = ToFree(inode[f])  OBVIOUS
  <2> PICK n : n = NextUsed(T, 1)  OBVIOUS
  <2> PICK r : r = [Idle EXCEPT !.pc = "zero", !.file = f, !.bn = n, !.todo = T]  OBVIOUS
  <2>1. T \in Seq(Wide)
    <3>1. inode[f] \in Dinode /\ content \in Content  BY <1>0 DEF Loose
    <3> QED  BY <3>1, ToFreeType
  <2>2. n \in Nat
    <3>1. 1 \in Nat  OBVIOUS
    <3> QED  BY <2>1, <3>1, NextIsNat
  <2>3. r \in Place
    <3>1. r = [pc |-> "zero", file |-> f, bn |-> n, end |-> 0, got |-> None, todo |-> T]  BY DEF Idle
    <3> QED  BY <2>1, <2>2, <3>1 DEF Place, Address
  <2>4. at' = [at EXCEPT ![p] = r]  BY <1>4 DEF Iput
  <2>5. at' \in [Proc -> Place]  BY <1>0, <2>3, <2>4, Placed
  <2>6. locked' \in [File -> Proc \cup {Nobody}] /\ calls' \in Nat
    BY <1>0, <1>4, BeginsType DEF Iput
  <2>7. UNCHANGED <<kernel, marked, content, dinode, inode, live, overrun>>  BY <1>4 DEF Iput, diskVars
  <2> QED  BY <1>0, <2>5, <2>6, <2>7 DEF Loose
<1>5. ASSUME NEW p \in Proc, Balloc(p)  PROVE Kept
  <2> PICK b : b = Min(Free)  OBVIOUS
  <2> PICK r : r = [at[p] EXCEPT !.pc = "assign", !.got = b]  OBVIOUS
  <2>1. b \in Block
    <3>1. Free \in SUBSET Nat /\ Free # {}  BY <1>5, FreeIs, Bounds DEF Balloc
    <3>2. b \in Free  BY <3>1, MinIsIn
    <3> QED  BY <3>2, FreeIs
  <2>2. at[p] \in Place  BY <1>0 DEF Loose
  <2>3. r \in Place  BY <2>1, <2>2 DEF Place, Address
  <2>4. at' = [at EXCEPT ![p] = r]
    <3>1. at' = [at EXCEPT ![p].pc = "assign", ![p].got = b]  BY <1>5 DEF Balloc
    <3> QED  BY <1>0, <3>1 DEF Loose
  <2>5. at' \in [Proc -> Place]  BY <1>0, <2>3, <2>4, Placed
  <2>6. content' \in Content
    <3>1. content' = [content EXCEPT ![b] = Zero] \/ content' = content  BY <1>5 DEF Balloc
    <3>2. [content EXCEPT ![b] = Zero] \in Content  BY <1>0, <1>t, OneBlock
    <3> QED  BY <1>0, <3>1, <3>2 DEF Loose
  <2>7. marked' \subseteq Block  BY <1>0, <1>5, <2>1 DEF Balloc, Loose
  <2>8. overrun' \in BOOLEAN /\ (overrun => overrun')  BY <1>5, Zenon DEF Balloc
  <2>9. UNCHANGED <<kernel, dinode, inode, live, locked, calls>>  BY <1>5 DEF Balloc
  <2> QED  BY <1>0, <2>5, <2>6, <2>7, <2>8, <2>9 DEF Loose
<1>6. ASSUME NEW p \in Proc, Assign(p)  PROVE Kept
  <2> PICK r : r = [at[p] EXCEPT !.pc = "bmap"]  OBVIOUS
  <2> PICK w : w = at[p].got  OBVIOUS
  <2>1. at[p] \in Place  BY <1>0 DEF Loose
  <2>2. r \in Place /\ w \in Address /\ w \in Wide  BY <2>1 DEF Place, Wide
  <2>3. at' = [at EXCEPT ![p] = r]  BY <1>0, <1>6 DEF Assign, Goes, Loose
  <2>4. at' \in [Proc -> Place]  BY <1>0, <2>2, <2>3, Placed
  <2>5. \/ content' = content /\ \E f, k : inode' = [inode EXCEPT ![f].addrs[k] = w]
        \/ inode' = inode /\ \E b, k : content' = [content EXCEPT ![b][k] = w]
    <3> DEFINE f == at[p].file
               place == FirstMissing(inode[f], at[p].bn)
    <3>1. IF place[1] = Self
          THEN inode' = [inode EXCEPT ![f].addrs[place[2]] = w] /\ content' = content
          ELSE content' = [content EXCEPT ![place[1]][place[2]] = w] /\ inode' = inode
      BY <1>6 DEF Assign
    <3> HIDE DEF f, place
    <3> QED  BY <3>1
  <2>6. content' \in Content /\ inode' \in [File -> Dinode]
    <3>1. \A f, k : [inode EXCEPT ![f].addrs[k] = w] \in [File -> Dinode]  BY <1>0, <2>2, OneWord
    <3>2. \A b, k : [content EXCEPT ![b][k] = w] \in Content  BY <1>0, <2>2, OneWord
    <3>3. content \in Content /\ inode \in [File -> Dinode]  BY <1>0 DEF Loose
    <3>4. CASE content' = content /\ \E f, k : inode' = [inode EXCEPT ![f].addrs[k] = w]
      <4> PICK f, k : inode' = [inode EXCEPT ![f].addrs[k] = w]  BY <3>4
      <4>1. [inode EXCEPT ![f].addrs[k] = w] \in [File -> Dinode]  BY <3>1
      <4> QED  BY <3>3, <3>4, <4>1
    <3>5. CASE inode' = inode /\ \E b, k : content' = [content EXCEPT ![b][k] = w]
      <4> PICK b, k : content' = [content EXCEPT ![b][k] = w]  BY <3>5
      <4>1. [content EXCEPT ![b][k] = w] \in Content  BY <3>2
      <4> QED  BY <3>3, <3>5, <4>1
    <3> QED  BY <2>5, <3>4, <3>5
  <2>7. UNCHANGED <<kernel, marked, dinode, live, locked, calls, overrun>>  BY <1>6 DEF Assign
  <2> QED  BY <1>0, <2>4, <2>6, <2>7 DEF Loose
<1>7. ASSUME NEW p \in Proc, WriteBlock(p)  PROVE Kept
  <2> PICK pc : pc = IF at[p].bn + 1 = at[p].end THEN "grow" ELSE "bmap"  OBVIOUS
  <2> PICK r : r = [at[p] EXCEPT !.bn = at[p].bn + 1, !.pc = pc]  OBVIOUS
  <2>1. at[p] \in Place /\ at[p].pc = "bmap"  BY <1>0, <1>7 DEF Loose, WriteBlock, At
  <2>2. at[p].bn + 1 \in Nat  BY <2>1 DEF Place
  <2>3. r \in Place  BY <2>1, <2>2 DEF Place
  <2>4. at' = [at EXCEPT ![p] = r]
    <3>1. at' = [at EXCEPT ![p].bn = @ + 1, ![p].pc = IF at[p].bn + 1 = at[p].end THEN "grow" ELSE @]
      BY <1>7 DEF WriteBlock
    <3> QED  BY <1>0, <2>1, <3>1 DEF Loose
  <2>5. at' \in [Proc -> Place]  BY <1>0, <2>3, <2>4, Placed
  <2>6. \E b : content' = [content EXCEPT ![b] = Written]  BY <1>7 DEF WriteBlock
  <2>7. content' \in Content  BY <1>0, <1>t, <2>6, OneBlock
  <2>8. UNCHANGED <<kernel, marked, dinode, inode, live, locked, calls, overrun>>  BY <1>7 DEF WriteBlock
  <2> QED  BY <1>0, <2>5, <2>7, <2>8 DEF Loose
<1>8. ASSUME NEW p \in Proc, Grow(p)  PROVE Kept
  <2> PICK f : f = at[p].file  OBVIOUS
  <2> PICK end \in Nat : end = at[p].end
    <3>1. at[p] \in Place  BY <1>0 DEF Loose
    <3> QED  BY <3>1 DEF Place
  <2>1. at' \in [Proc -> Place] /\ locked' \in [File -> Proc \cup {Nobody}]
    BY <1>0, <1>8, ReturnsType DEF Grow
  <2>2. \/ inode' = inode /\ dinode' = dinode
        \/ inode' = [inode EXCEPT ![f].size = end] /\ dinode' = [dinode EXCEPT ![f] = inode'[f]]
    BY <1>8 DEF Grow
  <2>3. inode' \in [File -> Dinode]
    <3>1. \A i \in Dinode : [i EXCEPT !.size = end] \in Dinode  BY DEF Dinode
    <3> QED  BY <1>0, <2>2, <3>1 DEF Loose
  <2>4. dinode' \in [File -> Dinode]  BY <1>0, <2>2, <2>3 DEF Loose
  <2>5. UNCHANGED <<kernel, marked, content, live, calls, overrun>>  BY <1>8 DEF Grow
  <2> QED  BY <1>0, <2>1, <2>3, <2>4, <2>5 DEF Loose
<1>9. ASSUME NEW p \in Proc, Zeroes(p)  PROVE Kept
  <2> PICK r : r = [at[p] EXCEPT !.pc = "free"]  OBVIOUS
  <2>1. at[p] \in Place  BY <1>0 DEF Loose
  <2>2. r \in Place  BY <2>1 DEF Place
  <2>3. at' = [at EXCEPT ![p] = r]  BY <1>0, <1>9 DEF Zeroes, Goes, Loose
  <2>4. at' \in [Proc -> Place]  BY <1>0, <2>2, <2>3, Placed
  <2>5. content' = content \/ \E b : content' = [content EXCEPT ![b] = Zero]  BY <1>9 DEF Zeroes
  <2>6. content' \in Content  BY <1>0, <1>t, <2>5, OneBlock DEF Loose
  <2>7. UNCHANGED <<kernel, marked, dinode, inode, live, locked, calls, overrun>>  BY <1>9 DEF Zeroes
  <2> QED  BY <1>0, <2>4, <2>6, <2>7 DEF Loose
<1>10. ASSUME NEW p \in Proc, Bfree(p)  PROVE Kept
  <2> PICK n : n = NextUsed(at[p].todo, at[p].bn + 1)  OBVIOUS
  <2> PICK r : r = [at[p] EXCEPT !.pc = "zero", !.bn = n]  OBVIOUS
  <2>1. at[p] \in Place  BY <1>0 DEF Loose
  <2>2. at[p].todo \in Seq(Wide) /\ at[p].bn + 1 \in Nat  BY <2>1 DEF Place
  <2>3. n \in Nat  BY <2>2, NextIsNat
  <2>4. r \in Place  BY <2>1, <2>3 DEF Place
  <2>5. at' = [at EXCEPT ![p] = r]
    <3>1. at' = [at EXCEPT ![p].pc = "zero", ![p].bn = NextUsed(at[p].todo, @ + 1)]  BY <1>10 DEF Bfree
    <3> QED  BY <1>0, <3>1 DEF Loose
  <2>6. at' \in [Proc -> Place]  BY <1>0, <2>4, <2>5, Placed
  <2>7. marked' \subseteq Block  BY <1>0, <1>10 DEF Bfree, Loose
  <2>8. UNCHANGED <<kernel, content, dinode, inode, live, locked, calls, overrun>>  BY <1>10 DEF Bfree
  <2> QED  BY <1>0, <2>6, <2>7, <2>8 DEF Loose
<1>11. ASSUME NEW p \in Proc, Truncated(p)  PROVE Kept
  <2> PICK f : f = at[p].file  OBVIOUS
  <2> PICK j : j = Stump(inode[f])  OBVIOUS
  <2> PICK r : r = [at[p] EXCEPT !.pc = "type"]  OBVIOUS
  <2>1. at[p] \in Place  BY <1>0 DEF Loose
  <2>2. r \in Place  BY <2>1 DEF Place
  <2>3. at' = [at EXCEPT ![p] = r]  BY <1>0, <1>11 DEF Truncated, Goes, Loose
  <2>4. at' \in [Proc -> Place]  BY <1>0, <2>2, <2>3, Placed
  <2>5. inode' = [inode EXCEPT ![f] = j] /\ dinode' = [dinode EXCEPT ![f] = inode'[f]]
    BY <1>11 DEF Truncated, Stump
  <2>6. f \in File => j \in Dinode
    <3>1. f \in File => inode[f] \in Dinode  BY <1>0 DEF Loose
    <3> QED  BY <3>1, StumpIs
  <2>7. inode' \in [File -> Dinode]  BY <1>0, <2>5, <2>6 DEF Loose
  <2>8. dinode' \in [File -> Dinode]  BY <1>0, <2>5, <2>7 DEF Loose
  <2>9. UNCHANGED <<kernel, marked, content, live, locked, calls, overrun>>  BY <1>11 DEF Truncated
  <2> QED  BY <1>0, <2>4, <2>7, <2>8, <2>9 DEF Loose
<1>12. ASSUME NEW p \in Proc, Removed(p)  PROVE Kept
  <2>1. at' \in [Proc -> Place] /\ locked' \in [File -> Proc \cup {Nobody}]
    BY <1>0, <1>12, ReturnsType DEF Removed
  <2>2. live' \subseteq File  BY <1>0, <1>12 DEF Removed, Loose
  <2>3. UNCHANGED <<kernel, marked, content, dinode, inode, calls, overrun>>
    BY <1>12 DEF Removed, diskVars
  <2> QED  BY <1>0, <2>1, <2>2, <2>3 DEF Loose
<1>13. ASSUME NEW b \in Block, Recycled(b)  PROVE Kept
  <2> PICK c \in Block : content' = [content EXCEPT ![b] = content[c]]  BY <1>13 DEF Recycled
  <2>1. content[c] \in [0..NINDIRECT - 1 -> Wide]  BY <1>0 DEF Loose, Content, Wide
  <2>2. content' \in Content  BY <1>0, <2>1, OneBlock
  <2>3. UNCHANGED <<kernel, marked, dinode, inode, live, locked, at, calls, overrun>>
    BY <1>13 DEF Recycled
  <2> QED  BY <1>0, <2>2, <2>3 DEF Loose
<1> HIDE DEF Kept
<1>14. CASE Next
  <2>1. Kept
    BY <1>14, <1>2, <1>3, <1>4, <1>5, <1>6, <1>7, <1>8, <1>9, <1>10, <1>11, <1>12, <1>13 DEF Next
  <2> QED  BY <2>1, LooseIs DEF Kept
<1>15. CASE UNCHANGED vars  BY <1>1, <1>15, LooseIs
<1> QED  BY <1>14, <1>15

-----------------------------------------------------------------------------
(* The theorems.                                                           *)

\* Until balloc() of "xv6" has gone past the end of a full disk every block has
\* one owner: a file, a process inside balloc() or itrunc(), or nobody; with
\* what each step of writei() and itrunc() has done so far this is kept by
\* every step of fs.c.
THEOREM Invariance == Spec => []IInv
<1>1. Init => IInv  BY Starts DEF IInv
<1>2. IInv /\ [Next]_vars => IInv'
  <2> SUFFICES ASSUME IInv, [Next]_vars  PROVE IInv'  OBVIOUS
  <2>1. TypeOK' /\ (overrun => overrun')  BY StepTypes DEF IInv
  <2>2. ASSUME ~overrun  PROVE Intact'
    <3>1. Whole  BY <2>2, Typed DEF IInv
    <3>2. Whole'  BY <2>2, <3>1, Steps, Stutters
    <3> QED  BY <3>2 DEF Whole
  <2> QED  BY <2>1, <2>2 DEF IInv
<1> QED  BY <1>1, <1>2, PTL DEF Spec

\* The disk, the inodes in memory and the calls in progress keep their types,
\* even when balloc() has gone past the end of the disk: its numbers still have
\* bits in the bitmap.
THEOREM TypeCorrect == Spec => []TypeOK
<1>1. IInv => TypeOK  BY DEF IInv
<1> QED  BY <1>1, Invariance, PTL

-----------------------------------------------------------------------------
(* What the invariant says of the disk.                                    *)

\* In a good tree the places and their blocks are as many.
LEMMA Counts ==
  ASSUME NEW c \in Content, NEW i \in Dinode, Good(c, i)
  PROVE  Cardinality(PlacesIn(c, i)) = Cardinality(BlocksIn(c, i))
<1> DEFINE S == PlacesIn(c, i)
           T == BlocksIn(c, i)
           F == [s \in S |-> AddrIn(c, i, s)]
<1>1. \A s, t \in S : AddrIn(c, i, s) \in Block /\ (AddrIn(c, i, s) = AddrIn(c, i, t) => s = t)
  BY DEF Good
<1>2. T = {AddrIn(c, i, s) : s \in S}  BY DEF BlocksIn
<1>3. IsFiniteSet(T)
  <2>1. T \in SUBSET (1..NBITS)  BY <1>1, <1>2 DEF Block
  <2>2. IsFiniteSet(1..NBITS)  BY Bounds, FS_Interval
  <2> QED  BY <2>1, <2>2, FS_Subset
<1>4. F \in [S -> T] /\ \A s \in S : F[s] = AddrIn(c, i, s)  BY <1>2
<1>5. \A t \in T : \E s \in S : F[s] = t  BY <1>2
<1> HIDE DEF S, T, F
<1>6. F \in Injection(S, T) /\ F \in Surjection(S, T)
  BY <1>1, <1>4, <1>5, Fun_IsInj, Fun_IsSurj
<1>7. Cardinality(S) = Cardinality(T)  BY <1>3, <1>6, FS_Injection
<1> QED  BY <1>7 DEF S, T

LEMMA OnDisk ==
  ASSUME Whole, NEW f \in live \ Going
  PROVE  LET i == dinode[f]
         IN  /\ i \in Dinode /\ Good(content, i)
             /\ Blocks(i) \subseteq Tree(f) /\ Tree(f) \subseteq marked
             /\ \A bn \in 0..i.size - 1 : Missing(i, bn) = {}
<1>0. content \in Content  BY DEF Whole, Types
<1>1. FileInv(f)  BY DEF Whole, Intact
<1>2. Root(f) = inode[f]  BY RootIs
<1>3. /\ dinode[f] \in Dinode /\ inode[f] \in Dinode /\ Good(content, inode[f])
      /\ Tree(f) \subseteq marked
  BY <1>2, Owned
<1>4. Below(dinode[f], inode[f])  BY <1>1 DEF FileInv, Behind, Below
<1>5. Good(content, dinode[f]) /\ BlocksIn(content, dinode[f]) \subseteq BlocksIn(content, inode[f])
  BY <1>0, <1>3, <1>4, SubTree
<1>6. Blocks(dinode[f]) = BlocksIn(content, dinode[f])  BY Read
<1>7. Tree(f) = BlocksIn(content, inode[f])  BY <1>2, TreeIs
<1>8. \A bn \in 0..dinode[f].size - 1 : Missing(dinode[f], bn) = {}
  BY <1>1 DEF FileInv, Behind, Full
<1> QED  BY <1>3, <1>5, <1>6, <1>7, <1>8

\* Until balloc() of "xv6" has gone past the end of a full disk, after every step
\* of writei() and itrunc() the addresses on the disk, of files not being removed,
\* lead to marked blocks, each in one place of one file and none in the hands of
\* balloc() or of itrunc(), and to a block for every byte below the size.
THEOREM DiskIsSafe == Spec => []DiskSafe
<1>1. ASSUME IInv, ~overrun  PROVE DiskSafe
  <2>0. Whole  BY <1>1, Typed DEF IInv
  <2> SUFFICES ASSUME NEW f \in live \ Going
               PROVE  /\ Cardinality(Places(dinode[f])) = Cardinality(Blocks(dinode[f]))
                      /\ Blocks(dinode[f]) \subseteq marked
                      /\ \A bn \in 0..dinode[f].size - 1 : Missing(dinode[f], bn) = {}
                      /\ \A g \in live \ (Going \cup {f}) :
                             Blocks(dinode[f]) \cap Blocks(dinode[g]) = {}
                      /\ \A p \in Proc : Blocks(dinode[f]) \cap Hand(p) = {}
    BY DEF DiskSafe
  <2>1. /\ dinode[f] \in Dinode /\ Good(content, dinode[f])
        /\ Blocks(dinode[f]) \subseteq Tree(f) /\ Tree(f) \subseteq marked
        /\ \A bn \in 0..dinode[f].size - 1 : Missing(dinode[f], bn) = {}
    BY <2>0, OnDisk
  <2>2. content \in Content  BY <2>0 DEF Whole, Types
  <2>3. Cardinality(Places(dinode[f])) = Cardinality(Blocks(dinode[f]))
    <3>1. Cardinality(PlacesIn(content, dinode[f])) = Cardinality(BlocksIn(content, dinode[f]))
      BY <2>1, <2>2, Counts
    <3>2. Places(dinode[f]) = PlacesIn(content, dinode[f])
          /\ Blocks(dinode[f]) = BlocksIn(content, dinode[f])
      BY Read
    <3> QED  BY <3>1, <3>2
  <2>4. ASSUME NEW g \in live \ (Going \cup {f})
        PROVE  Blocks(dinode[f]) \cap Blocks(dinode[g]) = {}
    <3>1. Blocks(dinode[g]) \subseteq Tree(g)  BY <2>0, OnDisk
    <3>2. Tree(f) \cap Tree(g) = {}  BY <2>0 DEF Whole, Intact, Owners
    <3> QED  BY <2>1, <3>1, <3>2
  <2>5. ASSUME NEW p \in Proc  PROVE Blocks(dinode[f]) \cap Hand(p) = {}
    <3>1. Tree(f) \cap Hand(p) = {}  BY <2>0 DEF Whole, Intact, Owners
    <3> QED  BY <2>1, <3>1
  <2> QED  BY <2>1, <2>3, <2>4, <2>5
<1>2. IInv => DiskSafe
  <2>1. overrun => DiskSafe  BY DEF DiskSafe
  <2> QED  BY <1>1, <2>1
<1> QED  BY <1>2, Invariance, PTL

\* As long as it finds them on the disk balloc() of "xv6" finds its blocks empty,
\* though it does not clear them, and bfree() never panics: it is only given
\* blocks that are marked.
THEOREM FreeAreZero == Spec => []FreeIsZero
<1>1. ASSUME IInv, ~overrun  PROVE FreeIsZero
  <2>0. Whole  BY <1>1, Typed DEF IInv
  <2>1. kernel = "xv6" => \A b \in Disk \ marked : content[b] = Zero
    <3>1. Disk \subseteq Block  BY Bounds DEF Disk, Block
    <3> QED  BY <2>0, <3>1, FreeIs DEF Whole, Intact, FreeZero
  <2>2. ASSUME NEW p \in Proc, BfreePanic(p)  PROVE FALSE
    <3>1. at[p].pc = "free" /\ ToGo(p) \notin marked  BY <2>2 DEF BfreePanic, At
    <3>2. at[p].bn \in ToCome(p)  BY <2>0, <3>1 DEF Whole, Intact, CallInv, Truncating
    <3>3. ToGo(p) \in Hand(p)  BY <3>1, <3>2 DEF Hand, ToGo
    <3>4. Hand(p) \subseteq marked  BY <2>0, HandIs
    <3> QED  BY <3>1, <3>3, <3>4
  <2> QED  BY <2>1, <2>2 DEF FreeIsZero
<1>2. IInv => FreeIsZero
  <2>1. overrun => FreeIsZero  BY DEF FreeIsZero
  <2> QED  BY <1>1, <2>1
<1> QED  BY <1>2, Invariance, PTL

\* Between the calls the bitmap marks the blocks of the files and the doubly
\* indirect ones that itrunc() of "ex4" has left to nobody; in "xv6" there are none,
\* until balloc() has gone past the end of a full disk.
THEOREM NothingIsLeaked == Spec => []NothingLeaks
<1>1. ASSUME IInv, ~overrun  PROVE NothingLeaks
  <2>0. Whole  BY <1>1, Typed DEF IInv
  <2>1. kernel = "xv6" => lost = {}  BY <2>0 DEF Whole, Intact, FreeZero
  <2>2. ASSUME \A p \in Proc : at[p] = Idle
        PROVE  marked \ lost = UNION {Blocks(dinode[f]) : f \in live}
    <3>1. \A p \in Proc : at[p].pc = "user" /\ Hand(p) = {}  BY <2>2, IdleCall, IdleInv
    <3>2. Going = {}  BY <3>1 DEF Going, Busy
    <3>3. ASSUME NEW f \in live  PROVE Tree(f) = Blocks(dinode[f])
      <4>1. Root(f) = inode[f]  BY <3>2, RootIs
      <4>2. inode[f] = dinode[f]  BY <2>0, <3>1 DEF Whole, Intact, FileInv, Behind
      <4> QED  BY <4>1, <4>2 DEF Tree
    <3>4. \A b : b \in marked <=> \/ b \in lost \/ \E f \in live : b \in Tree(f)
                                  \/ \E q \in Proc : b \in Hand(q)
      BY <2>0, MarkedIs DEF Whole, Intact
    <3>5. \A f \in live : Tree(f) \cap lost = {}  BY <2>0 DEF Whole, Intact, Owners
    <3>6. \A b : b \in marked \ lost <=> \E f \in live : b \in Blocks(dinode[f])
      BY <3>1, <3>3, <3>4, <3>5
    <3> QED  BY <3>6
  <2> QED  BY <2>1, <2>2 DEF NothingLeaks
<1>2. IInv => NothingLeaks
  <2>1. overrun => NothingLeaks  BY DEF NothingLeaks
  <2> QED  BY <1>1, <2>1
<1> QED  BY <1>2, Invariance, PTL
=============================================================================
